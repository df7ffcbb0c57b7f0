---------------------------- MODULE MCSvlogdBoth ----------------------------
(***************************************************************************)
(* The main loop of svlogd in two uses: with filter lines, where lines go  *)
(* out one at a time and are not longer than the buffer, and, as Batch,    *)
(* without them, with long lines and limits that the administrator changes.*)
(***************************************************************************)
EXTENDS SvlogdLoop

(* One config that never changes, with filter lines.                       *)
OneFilter == {[filters |-> Filters, sizemax |-> 8]}

(* An e line that the administrator takes out and puts back.               *)
EchoOrPlain == {[filters |-> f, sizemax |-> 8] : f \in {{}, {"e"}}}

(* Those, and all kinds of filter lines.                                   *)
AnyFilter == EchoOrPlain \cup OneFilter

(* No limit, a limit below LineMax, and the advised 2 * LineMax.         *)
AnySize == [filters : {{}}, sizemax : {0, 3, 8}]

VARIABLE batch    \* which use
Batch == INSTANCE SvlogdLoop
           WITH Configs <- AnySize, Signals <- {"TERM", "HUP"}, MaxLine <- LineMax + 2

MCInit == batch \in BOOLEAN /\ IF batch THEN Batch!Init ELSE Init
MCNext == (IF batch THEN Batch!Next ELSE Next) /\ UNCHANGED batch
MCSpec ==
  /\ MCInit /\ [][MCNext]_<<vars, batch>>
  /\ WF_vars(~batch /\ Running) /\ WF_vars(batch /\ Batch!Running)
=============================================================================
