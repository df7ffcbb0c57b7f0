------------------------------ MODULE MCTftp --------------------------------
EXTENDS Tftp

Base == [retries |-> 3, get |-> TRUE, blksize |-> 2, size |-> 3, mod |-> 8, old |-> FALSE, refuse |-> FALSE, create |-> FALSE,
         loss |-> 1, dup |-> 0, again |-> FALSE, early |-> FALSE, fault |-> FALSE]

Both(o) == {[o EXCEPT !.get = get] : get \in BOOLEAN}

(* All ends of a file, with one packet lost.                               *)
Calm ==
  UNION {Both([Base EXCEPT !.blksize = b, !.size = n, !.old = old]) : b \in {1, 2}, n \in 0..3, old \in BOOLEAN}

(* Block numbers wrap, and packets come again.                             *)
Wrap == Both([Base EXCEPT !.blksize = 1, !.size = 4, !.mod = 3, !.dup = 2])

(* Late and repeated packets; a tftpd for each request that comes again.   *)
Late == Both([Base EXCEPT !.size = 1, !.early = TRUE, !.retries = 2])
Again == Both([Base EXCEPT !.size = 2, !.dup = 2, !.again = TRUE, !.create = TRUE, !.loss = 0])

(* What fails at a host.                                                   *)
Faults ==
  Both([Base EXCEPT !.size = 4, !.fault = TRUE, !.dup = 2]) \cup Both([Base EXCEPT !.refuse = TRUE])

Uses == Calm \cup Wrap \cup Late \cup Again \cup Faults
=============================================================================
