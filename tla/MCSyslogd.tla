----------------------------- MODULE MCSyslogd ------------------------------
EXTENDS Syslogd

Base == [conf |-> <<>>, level |-> 2, dup |-> FALSE, remote |-> FALSE, local |-> TRUE,
         data |-> {}, reads |-> 0, size |-> 1, rotate |-> 1, fails |-> {}]

Line(sels) == [sels |-> sels, path |-> "f"]
M(f, p) == [fac |-> f, prio |-> p]

(* Many messages to one file (-L), and what can happen to it.              *)
Writes(reads, rotate, fails) ==
  [Base EXCEPT !.data = {<<M(1, 0)>>}, !.reads = reads, !.rotate = rotate, !.fails = fails]
FileUses ==
  {Writes(3, 0, {"power"}), Writes(7, 1, {"power"}), Writes(7, 2, {"power"}),
   Writes(4, 1, {"admin", "open", "write"}), Writes(4, 2, {"rename", "unlink"})}

(* Other hosts, without a bound, and repeated datagrams.                   *)
LoopUses ==
  {[Base EXCEPT !.data = {<<>>, <<M(1, 0)>>, <<M(1, 1)>>}, !.remote = TRUE, !.local = FALSE, !.dup = dup] :
     dup \in BOOLEAN}
  \cup {[Base EXCEPT !.data = {<<>>, <<M(1, 0)>>, <<M(1, 2), M(0, 2)>>}, !.reads = 4, !.dup = TRUE,
           !.conf = <<[Line(<<[facs |-> {0}, neg |-> FALSE, single |-> FALSE, prio |-> AnyPrio]>>) EXCEPT !.path = "other"],
                      Line(<<[facs |-> {0, 1}, neg |-> FALSE, single |-> TRUE, prio |-> 2]>>)>>]}

(* Neither -R nor -L.                                                      *)
Default == {[Base EXCEPT !.data = {<<M(1, 0)>>}, !.local = FALSE]}

(* All lines with up to two selectors.                                     *)
ConfUses ==
  {[Base EXCEPT !.conf = <<Line(s)>>, !.remote = TRUE, !.local = FALSE] :
     s \in [1..1 -> Selector] \cup [1..2 -> Selector]}

Uses == FileUses \cup LoopUses \cup Default \cup ConfUses
=============================================================================
