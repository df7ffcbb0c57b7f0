---------------------------- MODULE MCSyslogRing ----------------------------
EXTENDS SyslogRing

CONSTANTS p1, p2

Use(reduced, modes, kill, lens, readers, msgs, times) ==
  [reduced |-> reduced, local |-> msgs > 0, modes |-> modes, kill |-> kill, lens |-> lens,
   readers |-> readers, msgs |-> msgs, starts |-> times]

(* Long histories with one reader; syslogd started again; two readers,     *)
(* which may be killed or, with -f, stay.                                  *)
Uses ==
  UNION {{Use(reduced, {0, 1, 2}, FALSE, {2, 3, 7}, {p1}, 2, 1),
          Use(reduced, {0, 1}, TRUE, {2, 4}, {p1}, 0, 2)} : reduced \in BOOLEAN}
  \cup {Use(FALSE, {0, 1}, TRUE, {3}, {p1, p2}, 0, 1), Use(FALSE, {1}, FALSE, {3}, {p1, p2}, 1, 1)}
=============================================================================
