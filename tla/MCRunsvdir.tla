----------------------------- MODULE MCRunsvdir -----------------------------
EXTENDS Runsvdir

CONSTANTS d1, d2

Use(init, script, nofork, dirs, times) ==
  [init |-> init, script |-> script, nofork |-> nofork, dirs |-> dirs, starts |-> times]

(* With two directories; killed and started again, while runsv of before   *)
(* may still hold the lock; the same where forks fail; as init; and with a *)
(* script.                                                                 *)
Uses == {Use(FALSE, FALSE, FALSE, {d1, d2}, 1),
         Use(FALSE, FALSE, FALSE, {d1}, 2), Use(FALSE, FALSE, TRUE, {d1}, 2),
         Use(TRUE, FALSE, FALSE, {d1}, 1), Use(FALSE, TRUE, FALSE, {d1}, 2)}

=============================================================================
