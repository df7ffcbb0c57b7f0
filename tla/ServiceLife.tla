---------------------------- MODULE ServiceLife ----------------------------
(***************************************************************************)
(* What runsv promises about one supervised directory, without the loop,   *)
(* the signals, the fifos and the files: at any time there is at most one  *)
(* process for it, ./run is followed by ./finish where there is one, and   *)
(* ./run is started again only after that.                                 *)
(***************************************************************************)
EXTENDS FiniteSets

CONSTANTS
  Process,      \* processes that may serve the directory
  HasFinish     \* ./run is followed by ./finish

VARIABLES
  phase,        \* "down", "run" or "finish"
  live,         \* the processes of the directory that are not yet reaped
  watched       \* a supervisor is at work

lifeVars == <<phase, live, watched>>

LifeInit == phase = "down" /\ live = {} /\ watched = TRUE

(* ./run is started, when nothing of an earlier one is left.               *)
StartRun(p) ==
  /\ phase = "down" /\ live = {}
  /\ phase' = "run" /\ live' = {p}
  /\ watched /\ UNCHANGED watched

(* ./run has ended: ./finish is next where there is one.                   *)
RunEnds ==
  /\ phase = "run" /\ live # {}
  /\ phase' = IF HasFinish THEN "finish" ELSE "down"
  /\ live' = {}
  /\ watched /\ UNCHANGED watched

StartFinish(p) ==
  /\ phase = "finish" /\ live = {}
  /\ live' = {p} /\ phase' = phase
  /\ watched /\ UNCHANGED watched

FinishEnds ==
  /\ phase = "finish" /\ live # {}
  /\ phase' = "down" /\ live' = {}
  /\ watched /\ UNCHANGED watched

(* The supervisor goes away, with or without leave; a new one starts over. *)
Abandon ==
  /\ watched /\ watched' = FALSE
  /\ phase' = "down" /\ live' = {}

TakeOver ==
  /\ ~watched /\ watched' = TRUE
  /\ UNCHANGED <<phase, live>>

LifeNext ==
  \/ \E p \in Process : StartRun(p) \/ StartFinish(p)
  \/ RunEnds \/ FinishEnds \/ Abandon \/ TakeOver

LifeSpec == LifeInit /\ [][LifeNext]_lifeVars

=============================================================================
