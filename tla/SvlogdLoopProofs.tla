--------------------------- MODULE SvlogdLoopProofs ---------------------------
(***************************************************************************)
(* Proofs about the main loop of svlogd, for every buffer size, file size  *)
(* limit, input and order of signals.                                      *)
(***************************************************************************)
EXTENDS SvlogdLoop, TLAPS

(* ld->size is the size of `current', or the limit if that is smaller.     *)
Tracks(max, size, r) == max # 0 => size = (IF r > max THEN max ELSE r)

LdType ==
  [inst : SUBSET Filters, sizemax : 0..Wrap - 1, size : Nat,
   match : {"+", "-"}, matcherr : {"none", "e", "E"}]

(* The inductive invariant behind the type invariant, ReadFits and         *)
(* SizeKept.  lineptr leaves the front of line[] only while another        *)
(* newline is in the buffer.                                               *)
BaseInv ==
  /\ TypeOK
  /\ buf.nl \subseteq 1..buf.n
  /\ off + buf.n <= LineMax
  /\ off # 0 => pc = "print" /\ buf.nl # {}
  /\ pc = "more" => buf.n = 0
  /\ Tracks(ld.sizemax, ld.size, real)

----------------------------------------------------------------------------

(* A rotation keeps ld->size and the size of the file in step.             *)
LEMMA RotateKeeps ==
  ASSUME NEW max \in Nat, NEW size \in Nat, NEW r \in Nat, Tracks(max, size, r)
  PROVE  LET f == Rotate([size |-> size, real |-> r])
         IN f.size \in Nat /\ f.real \in Nat /\ Tracks(max, f.size, f.real)
BY DEF Rotate, Tracks

(* buffer_pwrite() keeps ld->size and the size of the file in step, and    *)
(* the file within its limit.                                              *)
LEMMA PwriteKeeps ==
  ASSUME NEW max \in 0..Wrap - 1, NEW size \in Nat, NEW r \in Nat, NEW n \in Nat, NEW nl,
         Tracks(max, size, r)
  PROVE  LET w == Pwrite([size |-> size, real |-> r], max, n, nl)
         IN /\ w.file.size \in Nat /\ w.file.real \in Nat /\ w.ret \in Nat
            /\ Tracks(max, w.file.size, w.file.real)
<1> USE LoopAssumption
<1> DEFINE f0 == [size |-> size, real |-> r]
           f1 == IF max # 0 /\ size >= max THEN Rotate(f0) ELSE f0
           i == Taken(max, f1.size, n)
           f2 == [size |-> f1.size + i, real |-> f1.real + i]
           g == IF Full(max, f2.size, i \in nl) THEN Rotate(f2) ELSE f2
<1>1. /\ f1 = [size |-> f1.size, real |-> f1.real]
      /\ f1.size \in Nat /\ f1.real \in Nat
      /\ max # 0 => f1.size = f1.real /\ f1.size < max
  BY DEF Rotate, Tracks
<1>2. i \in Nat /\ (max # 0 => f1.size + i <= max)
  <2> HIDE DEF f1
  <2> QED BY <1>1 DEF Taken
<1>3. f2.size \in Nat /\ f2.real \in Nat /\ Tracks(max, f2.size, f2.real)
  <2> HIDE DEF f1, i
  <2> QED BY <1>1, <1>2 DEF Tracks
<1>4. g.size \in Nat /\ g.real \in Nat /\ Tracks(max, g.size, g.real)
  <2> HIDE DEF f1, i
  <2> QED BY <1>3 DEF Rotate, Tracks
<1>5. Pwrite([size |-> size, real |-> r], max, n, nl) = [file |-> g, ret |-> i]
  BY DEF Pwrite
<1> QED
  <2> HIDE DEF g, i
  <2> QED BY <1>2, <1>4, <1>5

(* The write of a piece to the directory, selected or not.                 *)
LEMMA LogKeeps ==
  ASSUME TypeOK, NEW d \in LdType, NEW n \in Nat, NEW nl,
         Tracks(d.sizemax, d.size, real), Log(d, n, nl)
  PROVE  /\ ld' \in LdType /\ real' \in Nat /\ lost' \in BOOLEAN
         /\ Tracks(ld'.sizemax, ld'.size, real')
<1> USE LoopAssumption
<1>1. CASE d.match = "+"
  <2> DEFINE w == Pwrite([size |-> d.size, real |-> real], d.sizemax, n, nl)
  <2>1. d.sizemax \in 0..Wrap - 1 /\ d.size \in Nat /\ real \in Nat
    BY DEF LdType, TypeOK
  <2>2. /\ w.file.size \in Nat /\ w.file.real \in Nat /\ w.ret \in Nat
        /\ Tracks(d.sizemax, w.file.size, w.file.real)
    BY <2>1, PwriteKeeps
  <2>3. ld' = [d EXCEPT !.size = w.file.size] /\ real' = w.file.real
        /\ lost' = (lost \/ w.ret < n)
    BY <1>1 DEF Log
  <2> HIDE DEF w
  <2>4. ld' \in LdType /\ ld'.sizemax = d.sizemax /\ ld'.size = w.file.size
    BY <2>2, <2>3 DEF LdType
  <2>5. lost' \in BOOLEAN
    BY <2>3
  <2> QED BY <2>2, <2>3, <2>4, <2>5
<1>2. CASE d.match # "+"
  BY <1>2 DEF Log, TypeOK
<1> QED BY <1>1, <1>2

(* One iteration of buffer_pread(): rotation, reopening and the period.    *)
LEMMA PreadKeeps ==
  ASSUME BaseInv, NEW outcome, Pread(outcome)
  PROVE  /\ ld' \in LdType /\ real' \in Nat /\ lost' \in BOOLEAN
         /\ flags' \subseteq Signals \cup {"TERM"}
         /\ memRchr' \in {"first", "last"} /\ config' \in Configs
         /\ Tracks(ld'.sizemax, ld'.size, real')
<1> USE LoopAssumption
<1>1. /\ ld \in LdType /\ ld.size \in Nat /\ ld.sizemax \in Nat /\ real \in Nat
      /\ Tracks(ld.sizemax, ld.size, real)
  BY DEF BaseInv, TypeOK, LdType
<1>2. config.filters \in SUBSET Filters /\ config.sizemax \in 0..Wrap - 1
  BY DEF BaseInv, TypeOK
<1> DEFINE f0 == [size |-> ld.size, real |-> real]
           f == IF "ALRM" \in flags THEN Rotate(f0) ELSE f0
           d0 == [ld EXCEPT !.size = f.size]
           d == IF "HUP" \in flags THEN Reopen(d0, f.real) ELSE d0
           g0 == [size |-> d.size, real |-> f.real]
           g == IF "TICK" \in flags /\ "HUP" \notin flags THEN Rotate(g0) ELSE g0
<1>3. f.size \in Nat /\ f.real \in Nat /\ Tracks(ld.sizemax, f.size, f.real)
  BY <1>1, RotateKeeps
<1>4. d0 \in LdType /\ d0.sizemax = ld.sizemax /\ d0.size = f.size
  <2> HIDE DEF f
  <2> QED BY <1>1, <1>3 DEF LdType
<1>5. d \in LdType /\ d.size \in Nat /\ d.sizemax \in Nat /\ Tracks(d.sizemax, d.size, f.real)
  <2> HIDE DEF f, d0
  <2>1. CASE "HUP" \in flags
    <3> DEFINE s == IF f.real > config.sizemax THEN config.sizemax ELSE f.real
    <3>1. s \in Nat /\ Tracks(config.sizemax, s, f.real)
      BY <1>2, <1>3 DEF Tracks
    <3>2. d = [d0 EXCEPT !.inst = config.filters, !.sizemax = config.sizemax,
                         !.size = s, !.match = "+"]
      BY <2>1 DEF Reopen
    <3> HIDE DEF s, d
    <3>3. d \in LdType /\ d.sizemax = config.sizemax /\ d.size = s
      BY <1>2, <1>4, <3>1, <3>2, Zenon DEF LdType
    <3> QED BY <3>1, <3>3, <1>2
  <2>2. CASE "HUP" \notin flags
    BY <1>1, <1>3, <1>4, <2>2
  <2> QED BY <2>1, <2>2
<1>6. g.size \in Nat /\ g.real \in Nat /\ Tracks(d.sizemax, g.size, g.real)
  <2> HIDE DEF f, d
  <2> QED BY <1>3, <1>5, RotateKeeps
<1>7. ld' = [d EXCEPT !.size = g.size] /\ real' = g.real
  BY DEF Pread
<1>8. ld' \in LdType /\ real' \in Nat /\ Tracks(ld'.sizemax, ld'.size, real')
  <2> HIDE DEF d, g
  <2>1. ld' \in LdType /\ ld'.sizemax = d.sizemax /\ ld'.size = g.size
    BY <1>5, <1>6, <1>7 DEF LdType
  <2> QED BY <1>6, <1>7, <2>1
<1>9. lost' \in BOOLEAN /\ config' \in Configs /\ flags' \subseteq Signals \cup {"TERM"}
      /\ memRchr' \in {"first", "last"}
  BY DEF Pread, BaseInv, TypeOK
<1> QED BY <1>8, <1>9

(* A piece ends within the buffer, at a newline if there is one.           *)
LEMMA PieceWithin ==
  ASSUME BaseInv, NEW k \in PieceEnds(buf)
  PROVE  /\ k \in Nat /\ k <= buf.n
         /\ k \notin buf.nl => buf.nl = {} /\ k = buf.n
BY DEF BaseInv, TypeOK, Text, PieceEnds

(* After a piece, what is left in the buffer is well formed, and lineptr   *)
(* is away from the front of line[] only if another newline follows.       *)
LEMMA ContinueKeeps ==
  ASSUME BaseInv, pc \in {"print", "chunk"}, NEW k \in PieceEnds(buf), Continue(k)
  PROVE  /\ buf' \in Text /\ off' \in Nat /\ begun' \in Nat
         /\ pc' \in {"top", "print", "more"}
         /\ buf'.nl \subseteq 1..buf'.n
         /\ off' + buf'.n <= LineMax
         /\ off' # 0 => pc' = "print" /\ buf'.nl # {}
         /\ pc' = "more" => buf'.n = 0
<1> USE LoopAssumption
<1> DEFINE rest == Rest(buf, k)
<1>1. /\ k \in Nat /\ k <= buf.n
      /\ k \notin buf.nl => buf.nl = {} /\ k = buf.n
  BY PieceWithin
<1>2. /\ buf.n \in Nat /\ off \in Nat /\ begun \in Nat
      /\ buf.nl \subseteq 1..buf.n
      /\ off + buf.n <= LineMax /\ (off # 0 => buf.nl # {})
  BY DEF BaseInv, TypeOK, Text
<1>3. /\ rest \in Text /\ rest.nl \subseteq 1..rest.n /\ rest.n = buf.n - k
  BY <1>1, <1>2 DEF Rest, Text
<1>4. buf' = rest
  BY DEF Continue
<1>5. CASE k \notin buf.nl
  <2>1. pc' = "more" /\ off' = off /\ begun' = begun + k /\ off = 0 /\ rest.n = 0
    BY <1>1, <1>2, <1>3, <1>5 DEF Continue
  <2> HIDE DEF rest
  <2> QED BY <1>1, <1>2, <1>3, <1>4, <2>1
<1>6. CASE k \in buf.nl
  <2>1. /\ pc' = IF rest.nl # {} THEN "print" ELSE "top"
        /\ off' = IF rest.nl # {} THEN off + k ELSE 0
        /\ begun' = 0
    BY <1>6 DEF Continue
  <2> HIDE DEF rest
  <2>2. CASE rest.nl # {}
    BY <1>1, <1>2, <1>3, <1>4, <2>1, <2>2
  <2>3. CASE rest.nl = {}
    BY <1>1, <1>2, <1>3, <1>4, <2>1, <2>3
  <2> QED BY <2>2, <2>3
<1> QED BY <1>5, <1>6

(* What arrives fits the room, and its newlines are within it.             *)
LEMMA ArrivalsFit ==
  ASSUME NEW max \in Nat, NEW had \in Nat, NEW t \in Arrivals(max, had)
  PROVE  t \in Text /\ t.n >= 1 /\ t.n <= max /\ t.nl \subseteq 1..t.n
BY DEF Arrivals, Text

----------------------------------------------------------------------------

(* svlogd starts with an empty buffer and the size of the file it opened.  *)
LEMMA BaseInit == Init => BaseInv
<1> SUFFICES ASSUME Init PROVE BaseInv
  OBVIOUS
<1> USE LoopAssumption
<1>1. config \in Configs /\ config.filters \in SUBSET Filters /\ config.sizemax \in 0..Wrap - 1
  BY DEF Init
<1>2. buf \in Text /\ buf.n = 0 /\ buf.nl = {}
  BY DEF Init, Empty, Text
<1>3. ld \in LdType /\ ld.size = 0 /\ ld.sizemax = config.sizemax
  BY <1>1 DEF Init, LdType
<1>4. verdict \in [keep : BOOLEAN, echo : BOOLEAN]
  BY DEF Init
<1>5. TypeOK
  BY <1>1, <1>2, <1>3, <1>4, Zenon DEF Init, TypeOK, LdType
<1> QED BY <1>1, <1>2, <1>3, <1>5 DEF Init, BaseInv, Tracks

(* Every step of svlogd and of the administrator keeps BaseInv.            *)
LEMMA BaseStep == BaseInv /\ [Next]_vars => BaseInv'
<1> SUFFICES ASSUME BaseInv, [Next]_vars PROVE BaseInv'
  OBVIOUS
<1> USE LoopAssumption
<1>0. /\ TypeOK /\ ld \in LdType /\ buf \in Text /\ buf.n \in Nat
      /\ verdict \in [keep : BOOLEAN, echo : BOOLEAN]
      /\ Tracks(ld.sizemax, ld.size, real)
  BY DEF BaseInv, TypeOK, LdType, Text
<1>1. CASE Top
  <2>1. pc = "top" /\ off = 0 /\ Room \in Nat /\ Room = LineMax - buf.n
        /\ UNCHANGED <<off, begun, verdict>>
    BY <1>0, <1>1 DEF Top, BaseInv, Room
  <2>2. PICK outcome \in {"data", "again", "end"} :
          \E text \in (IF outcome = "data" THEN Arrivals(Room, buf.n) ELSE {Empty}) :
            /\ Pread(outcome)
            /\ buf' = Join(buf, text)
            /\ pc' = IF outcome = "again" THEN "top"
                     ELSE IF outcome = "end" /\ buf.n = 0 THEN "closed" ELSE "print"
    BY <1>1 DEF Top
  <2>3. PICK text \in (IF outcome = "data" THEN Arrivals(Room, buf.n) ELSE {Empty}) :
            /\ Pread(outcome)
            /\ buf' = Join(buf, text)
            /\ pc' = IF outcome = "again" THEN "top"
                     ELSE IF outcome = "end" /\ buf.n = 0 THEN "closed" ELSE "print"
    BY <2>2
  <2>4. text \in Text /\ text.n <= Room /\ text.nl \subseteq 1..text.n
    <3>1. Empty \in Text /\ Empty.n = 0 /\ Empty.nl = {}
      BY DEF Empty, Text
    <3>2. CASE outcome = "data"
      BY <3>2, <2>1, <2>3, <1>0, ArrivalsFit
    <3>3. CASE outcome # "data"
      BY <3>1, <3>3, <2>1, <2>3
    <3> QED BY <3>2, <3>3
  <2>5. buf' \in Text /\ buf'.nl \subseteq 1..buf'.n /\ buf'.n = buf.n + text.n
    BY <1>0, <2>3, <2>4 DEF Join, Text, BaseInv
  <2>6. buf'.n <= LineMax
    BY <1>0, <2>1, <2>4, <2>5 DEF Text
  <2>7. pc' \in {"top", "closed", "print"}
    BY <2>3
  <2>8. /\ ld' \in LdType /\ real' \in Nat /\ lost' \in BOOLEAN
        /\ flags' \subseteq Signals \cup {"TERM"}
        /\ memRchr' \in {"first", "last"} /\ config' \in Configs
        /\ Tracks(ld'.sizemax, ld'.size, real')
    BY <2>3, PreadKeeps
  <2>9. TypeOK'
    BY <1>0, <2>1, <2>5, <2>7, <2>8 DEF TypeOK, LdType
  <2> QED BY <2>1, <2>5, <2>6, <2>7, <2>8, <2>9 DEF BaseInv, Text
<1>2. CASE TopFull
  BY <1>0, <1>2 DEF TopFull, BaseInv, TypeOK
<1>3. CASE PrintLine
  <2>1. PICK k \in PieceEnds(buf), hits \in SUBSET ld.inst :
          /\ Log(Logmatch(hits), k + StampLen, {StampLen + i : i \in buf.nl})
          /\ verdict' = [keep |-> "-" \notin hits, echo |-> "e" \in hits]
          /\ Continue(k)
    BY <1>3, Zenon DEF PrintLine
  <2>2. pc = "print" /\ UNCHANGED <<flags, memRchr, config>>
    BY <1>3 DEF PrintLine
  <2>3. k \in Nat
    BY PieceWithin
  <2>4. /\ Logmatch(hits) \in LdType
        /\ Logmatch(hits).size = ld.size /\ Logmatch(hits).sizemax = ld.sizemax
    BY <1>0, Zenon DEF Logmatch, LdType
  <2>5. /\ ld' \in LdType /\ real' \in Nat /\ lost' \in BOOLEAN
        /\ Tracks(ld'.sizemax, ld'.size, real')
    BY <1>0, <2>1, <2>3, <2>4, LogKeeps
  <2>6. verdict' \in [keep : BOOLEAN, echo : BOOLEAN]
    BY <2>1
  <2> QED BY <1>0, <2>1, <2>2, <2>5, <2>6, ContinueKeeps DEF BaseInv, TypeOK, LdType
<1>4. CASE More
  <2>1. pc = "more" /\ off = 0 /\ buf.n = 0 /\ begun \in Nat /\ UNCHANGED <<off, begun, verdict>>
    BY <1>0, <1>4 DEF More, BaseInv, TypeOK
  <2>2. PICK outcome \in {"data", "again", "end"} :
          \E text \in (IF outcome = "data" THEN Arrivals(LineMax, begun)
                       ELSE IF outcome = "end" THEN {[n |-> 1, nl |-> {1}]} ELSE {Empty}) :
            /\ Pread(outcome)
            /\ buf' = text
            /\ pc' = IF outcome = "again" THEN "more" ELSE "chunk"
    BY <1>4 DEF More
  <2>3. /\ Pread(outcome) /\ pc' = IF outcome = "again" THEN "more" ELSE "chunk"
        /\ buf' \in (IF outcome = "data" THEN Arrivals(LineMax, begun)
                     ELSE IF outcome = "end" THEN {[n |-> 1, nl |-> {1}]} ELSE {Empty})
    BY <2>2
  <2>4. /\ buf' \in Text /\ buf'.n <= LineMax /\ buf'.nl \subseteq 1..buf'.n
        /\ outcome = "again" => buf'.n = 0
    <3>1. CASE outcome = "data"
      BY <3>1, <2>1, <2>3, ArrivalsFit
    <3>2. CASE outcome = "end"
      BY <3>2, <2>3 DEF Text
    <3>3. CASE outcome = "again"
      BY <3>3, <2>3 DEF Text, Empty
    <3> QED BY <3>1, <3>2, <3>3
  <2>5. pc' \in {"more", "chunk"} /\ (pc' = "more" => buf'.n = 0)
    BY <2>3, <2>4
  <2>6. /\ ld' \in LdType /\ real' \in Nat /\ lost' \in BOOLEAN
        /\ flags' \subseteq Signals \cup {"TERM"}
        /\ memRchr' \in {"first", "last"} /\ config' \in Configs
        /\ Tracks(ld'.sizemax, ld'.size, real')
    BY <2>3, PreadKeeps
  <2>7. TypeOK'
    BY <1>0, <2>1, <2>4, <2>5, <2>6 DEF TypeOK, LdType
  <2> QED BY <2>1, <2>4, <2>5, <2>6, <2>7 DEF BaseInv, Text
<1>5. CASE MoreExit
  <2>1. buf' \in Text /\ buf'.n = 1 /\ buf'.nl = {1}
    BY <1>5 DEF MoreExit, Text
  <2> QED BY <1>0, <1>5, <2>1 DEF MoreExit, BaseInv, TypeOK
<1>6. CASE Chunk
  <2>1. PICK k \in PieceEnds(buf) : Log(ld, k, buf.nl) /\ Continue(k)
    BY <1>6 DEF Chunk
  <2>2. pc = "chunk" /\ UNCHANGED <<flags, memRchr, config, verdict>>
    BY <1>6 DEF Chunk
  <2>3. /\ ld' \in LdType /\ real' \in Nat /\ lost' \in BOOLEAN
        /\ Tracks(ld'.sizemax, ld'.size, real')
    BY <1>0, <2>1, PieceWithin, LogKeeps
  <2> QED BY <1>0, <2>1, <2>2, <2>3, ContinueKeeps DEF BaseInv, TypeOK, LdType
<1>7. CASE ReopenFails
  BY <1>0, <1>7 DEF ReopenFails, BaseInv, TypeOK
<1>8. CASE Reconfigure
  BY <1>0, <1>8 DEF Reconfigure, BaseInv, TypeOK
<1>9. CASE UNCHANGED vars
  BY <1>0, <1>9 DEF vars, BaseInv, TypeOK
<1> QED BY <1>1, <1>2, <1>3, <1>4, <1>5, <1>6, <1>7, <1>8, <1>9 DEF Next, Step

(* BaseInv holds throughout, for every value of the constants.             *)
THEOREM BaseInvHolds == Spec => []BaseInv
BY BaseInit, BaseStep, PTL DEF Spec

(* The variables keep their types: no count becomes negative.              *)
THEOREM LoopTypeCorrect == Spec => []TypeOK
<1>1. BaseInv => TypeOK
  BY DEF BaseInv
<1> QED BY <1>1, BaseInvHolds, PTL

(* The line buffer is never overrun, whatever is read and in what pieces.  *)
THEOREM BufferSafe == Spec => []ReadFits
<1>1. BaseInv => ReadFits
  BY LoopAssumption DEF BaseInv, ReadFits, TypeOK, Text
<1> QED BY <1>1, BaseInvHolds, PTL

(* `current' never outgrows its limit, and svlogd knows its size, also     *)
(* across rotations and a changed config.                                  *)
THEOREM SizeIsKept == Spec => []SizeKept
<1>1. BaseInv => SizeKept
  BY LoopAssumption DEF BaseInv, SizeKept, Tracks, TypeOK
<1> QED BY <1>1, BaseInvHolds, PTL

----------------------------------------------------------------------------
(* No byte is lost when lines are short, go out one at a time, the limit   *)
(* leaves room for a line, and no timestamp takes up that room.            *)

ShortLines ==
  /\ MaxLine <= LineMax
  /\ StampLen <= 1
  /\ \A c \in Configs : /\ c.filters # {}
                        /\ c.sizemax # 0 => c.sizemax > LineMax
                        /\ \A d \in Configs : d.sizemax = c.sizemax

(* Between two lines there is room for a line in `current'; within a line, *)
(* for the rest of it, or, if the line is deselected, still for a line.    *)
HasRoom(max, size, b) ==
  max # 0 => /\ max > LineMax
             /\ size + LineMax < max + b + (IF b = 0 THEN 0 ELSE StampLen)

RoomInv ==
  /\ pc \in {"top", "more"} => buf.nl = {}
  /\ pc \in {"top", "print"} => begun = 0
  /\ pc \in {"print", "chunk"} => buf.n >= 1
  /\ begun < MaxLine /\ LinesFit(buf, begun)
  /\ memRchr = "first"
  /\ ld.sizemax = config.sizemax
  /\ HasRoom(ld.sizemax, ld.size, begun)
  /\ ld.match = "-" => HasRoom(ld.sizemax, ld.size, 0)
  /\ ~lost

(* The piece of a short line: what of the line has been processed, with    *)
(* the piece, is at most a line, and less where the line goes on.          *)
LEMMA PieceShort ==
  ASSUME BaseInv, RoomInv, NEW k \in PieceEnds(buf)
  PROVE  /\ k \in Nat /\ begun \in Nat
         /\ begun + k <= MaxLine
         /\ k \notin buf.nl => begun + k < MaxLine /\ k = buf.n /\ buf.nl = {}
<1> USE LoopAssumption
<1>1. /\ k \in Nat /\ k <= buf.n /\ buf.n \in Nat /\ begun \in Nat
      /\ k \notin buf.nl => buf.nl = {} /\ k = buf.n
      /\ buf.nl \subseteq 1..buf.n
  BY PieceWithin DEF BaseInv, TypeOK, Text
<1>2. CASE begun + buf.n < MaxLine
  BY <1>1, <1>2
<1>3. CASE begun + buf.n >= MaxLine
  <2>1. -begun \in -begun..buf.n - MaxLine
    BY <1>1, <1>3
  <2>2. PICK i \in buf.nl : -begun < i /\ i <= -begun + MaxLine
    BY <2>1 DEF RoomInv, LinesFit
  <2>3. k \in buf.nl /\ k <= i
    BY <2>2, <1>1 DEF PieceEnds, RoomInv
  <2> QED BY <1>1, <2>2, <2>3
<1> QED BY <1>1, <1>2, <1>3

(* What is left after a piece again consists of short lines.               *)
LEMMA RestFits ==
  ASSUME BaseInv, RoomInv, pc \in {"print", "chunk"},
         NEW k \in PieceEnds(buf), Continue(k)
  PROVE  /\ pc' \in {"top", "more"} => buf'.nl = {}
         /\ pc' \in {"top", "print"} => begun' = 0
         /\ pc' \in {"top", "print", "more"}
         /\ pc' = "print" => buf'.n >= 1
         /\ begun' < MaxLine /\ LinesFit(buf', begun')
         /\ k \in buf.nl => begun' = 0
         /\ k \notin buf.nl => begun' = begun + k /\ begun' > 0
<1> USE LoopAssumption
<1>1. /\ k \in Nat /\ begun \in Nat /\ buf.n \in Nat /\ buf.n >= 1
      /\ buf.nl \subseteq 1..buf.n
      /\ k \notin buf.nl => begun + k < MaxLine /\ k = buf.n /\ buf.nl = {}
  BY PieceShort DEF BaseInv, TypeOK, Text, RoomInv
<1>2. buf' = Rest(buf, k) /\ buf'.n = buf.n - k
      /\ buf'.nl = {i - k : i \in {j \in buf.nl : j > k}}
  BY DEF Continue, Rest
<1>3. CASE k \notin buf.nl
  <2>1. pc' = "more" /\ begun' = begun + k
    BY <1>3 DEF Continue
  <2>2. buf'.n = 0 /\ buf'.nl = {}
    BY <1>1, <1>2, <1>3
  <2>3. LinesFit(buf', begun')
    BY <1>1, <1>3, <2>1, <2>2 DEF LinesFit
  <2> QED BY <1>1, <1>3, <2>1, <2>2, <2>3
<1>4. CASE k \in buf.nl
  <2>1. begun' = 0 /\ pc' = IF Rest(buf, k).nl # {} THEN "print" ELSE "top"
    BY <1>4 DEF Continue
  <2>2. buf'.nl \subseteq 1..buf'.n
    BY ContinueKeeps
  <2>3. pc' = "print" => buf'.n >= 1
    <3> SUFFICES ASSUME pc' = "print" PROVE buf'.n >= 1
      OBVIOUS
    <3>1. PICK i \in buf'.nl : TRUE
      BY <1>2, <2>1
    <3> QED BY <3>1, <2>2, <1>1, <1>2
  <2>4. LinesFit(buf', 0)
    <3> SUFFICES ASSUME NEW j \in -0..buf'.n - MaxLine
                 PROVE  \E i \in buf'.nl : j < i /\ i <= j + MaxLine
      BY DEF LinesFit
    <3>1. j + k \in -begun..buf.n - MaxLine
      BY <1>1, <1>2
    <3>2. PICK i \in buf.nl : j + k < i /\ i <= j + k + MaxLine
      BY <3>1 DEF RoomInv, LinesFit
    <3>3. i - k \in buf'.nl
      BY <1>1, <1>2, <3>2
    <3>4. j < i - k /\ i - k <= j + MaxLine
      BY <1>1, <3>2
    <3> QED BY <3>3, <3>4
  <2>5. pc' \in {"top", "more"} => buf'.nl = {}
    BY <1>2, <2>1
  <2> QED BY <1>4, <2>1, <2>3, <2>4, <2>5
<1> QED BY <1>3, <1>4

(* With room, buffer_pwrite() writes all it is given, and rotates only at  *)
(* a newline, whereafter there is room for a line again.                   *)
LEMMA PwriteRoom ==
  ASSUME NEW max \in Nat, NEW size \in Nat, NEW r \in Nat, NEW n \in Nat, NEW nl,
         max # 0 => max > LineMax /\ size = r /\ size < max /\ size + n <= max
  PROVE  LET w == Pwrite([size |-> size, real |-> r], max, n, nl)
         IN /\ w.ret = n
            /\ \/ w.file = [size |-> size + n, real |-> r + n]
               \/ n \in nl /\ w.file = [size |-> 0, real |-> 0]
            /\ max # 0 /\ n \in nl => w.file.size + LineMax < max
<1> USE LoopAssumption
<1> DEFINE f0 == [size |-> size, real |-> r]
           f2 == [size |-> size + n, real |-> r + n]
           g == IF Full(max, size + n, n \in nl) THEN Rotate(f2) ELSE f2
<1>1. (IF max # 0 /\ f0.size >= max THEN Rotate(f0) ELSE f0) = f0
  OBVIOUS
<1>2. Taken(max, size, n) = n
  BY DEF Taken
<1>3. Pwrite(f0, max, n, nl) = [file |-> g, ret |-> n]
  BY <1>1, <1>2 DEF Pwrite
<1>4. CASE max # 0 /\ n \in nl /\ size + n >= max - LineMax
  <2>1. size + n > 0
    BY <1>4
  <2>2. g = [size |-> 0, real |-> 0]
    BY <1>4, <2>1 DEF Full, UMinus, Rotate
  <2> QED BY <1>3, <1>4, <2>2
<1>5. CASE ~(max # 0 /\ n \in nl /\ size + n >= max - LineMax)
  <2>1. g = f2
    BY <1>5 DEF Full, UMinus
  <2>2. max # 0 /\ n \in nl => f2.size + LineMax < max
    BY <1>5
  <2> QED BY <1>3, <2>1, <2>2
<1> QED BY <1>4, <1>5

(* A piece of a short line, with a timestamp st before the first one: it   *)
(* is written whole and leaves room for what is to come.                   *)
LEMMA LogRoom ==
  ASSUME BaseInv, RoomInv, ShortLines, pc \in {"print", "chunk"},
         NEW k \in PieceEnds(buf), NEW st \in Nat, NEW nl, NEW d \in LdType,
         st <= StampLen, begun # 0 => st = 0,
         d.size = ld.size, d.sizemax = ld.sizemax,
         d.match = "-" => HasRoom(ld.sizemax, ld.size, 0),
         k + st \in nl <=> k \in buf.nl,
         Log(d, k + st, nl), Continue(k)
  PROVE  /\ ~lost' /\ ld'.sizemax = ld.sizemax
         /\ HasRoom(ld'.sizemax, ld'.size, begun')
         /\ ld'.match = "-" => HasRoom(ld'.sizemax, ld'.size, 0)
         /\ d.match = "+" => \/ real' = real + (k + st)
                             \/ k \in buf.nl /\ real' = 0
<1> USE LoopAssumption
<1> DEFINE max == ld.sizemax
           n == k + st
<1>1. /\ k \in Nat /\ begun \in Nat /\ n \in Nat /\ begun + k <= MaxLine
      /\ max \in Nat /\ ld.size \in Nat /\ real \in Nat
      /\ MaxLine <= LineMax /\ StampLen \in Nat /\ StampLen <= 1 /\ st <= StampLen
      /\ LineMax \in Nat /\ MaxLine \in Nat
  BY PieceShort DEF BaseInv, TypeOK, ShortLines
<1>2. /\ k \in buf.nl => begun' = 0
      /\ k \notin buf.nl => begun' = begun + k /\ begun' > 0
  BY RestFits
<1>3. /\ HasRoom(max, ld.size, begun) /\ ~lost /\ begun < MaxLine
      /\ Tracks(max, ld.size, real)
  BY DEF RoomInv, BaseInv
<1>4. max # 0 => /\ max > LineMax /\ ld.size = real
                 /\ ld.size < max /\ ld.size + n <= max
  BY <1>1, <1>3 DEF HasRoom, Tracks
<1>5. CASE d.match = "+"
  <2> DEFINE w == Pwrite([size |-> ld.size, real |-> real], max, n, nl)
  <2>1. /\ w.ret = n
        /\ \/ w.file = [size |-> ld.size + n, real |-> real + n]
           \/ n \in nl /\ w.file = [size |-> 0, real |-> 0]
        /\ max # 0 /\ n \in nl => w.file.size + LineMax < max
    <3> DEFINE size == ld.size
    <3>1. max \in Nat /\ size \in Nat /\ real \in Nat /\ n \in Nat
      BY <1>1
    <3>2. max # 0 => max > LineMax /\ size = real /\ size < max /\ size + n <= max
      BY <1>4
    <3>3. w = Pwrite([size |-> size, real |-> real], max, n, nl)
      OBVIOUS
    <3>4. LET v == Pwrite([size |-> size, real |-> real], max, n, nl)
          IN /\ v.ret = n
             /\ \/ v.file = [size |-> size + n, real |-> real + n]
                \/ n \in nl /\ v.file = [size |-> 0, real |-> 0]
             /\ max # 0 /\ n \in nl => v.file.size + LineMax < max
      <4> HIDE DEF max, n, size
      <4> QED BY ONLY <3>1, <3>2, PwriteRoom, Zenon
    <3> QED BY <3>4
  <2>2. /\ ld' = [d EXCEPT !.size = w.file.size] /\ real' = w.file.real
        /\ lost' = (lost \/ w.ret < n)
    BY <1>5 DEF Log
  <2> HIDE DEF w
  <2>3. ld'.sizemax = max /\ ld'.size = w.file.size /\ ld'.match = "+"
    BY <1>5, <2>2 DEF LdType
  <2>4. ~lost'
    <3>1. ~(w.ret < n)
      BY <1>1, <2>1
    <3> QED BY <1>3, <2>2, <3>1, Zenon
  <2>5. real' = real + n \/ (k \in buf.nl /\ real' = 0)
    BY <2>1, <2>2
  <2>6. HasRoom(max, ld'.size, begun')
    <3>1. CASE k \in buf.nl
      BY <1>1, <1>2, <1>4, <2>1, <2>3, <3>1 DEF HasRoom
    <3>2. CASE k \notin buf.nl
      <4>1. ld'.size = ld.size + n
        BY <2>1, <2>3, <3>2
      <4> QED BY <1>1, <1>2, <1>3, <1>4, <3>2, <4>1 DEF HasRoom
    <3> QED BY <3>1, <3>2
  <2> QED BY <2>3, <2>4, <2>5, <2>6
<1>6. CASE d.match # "+"
  <2>1. ld' = d /\ UNCHANGED <<real, lost>>
    BY <1>6 DEF Log
  <2>2. HasRoom(max, ld.size, 0)
    BY <1>6 DEF LdType
  <2>3. begun' \in Nat
    BY <1>1, <1>2
  <2>4. HasRoom(max, ld.size, begun')
    BY <1>1, <2>2, <2>3 DEF HasRoom
  <2> QED BY <1>3, <1>6, <2>1, <2>2, <2>4
<1> QED BY <1>5, <1>6

(* Rotation, reopening and the period only make room.                      *)
LEMMA PreadRoom ==
  ASSUME BaseInv, RoomInv, ShortLines, NEW outcome, Pread(outcome)
  PROVE  /\ ~lost' /\ memRchr' = "first" /\ ld'.sizemax = config'.sizemax
         /\ HasRoom(ld'.sizemax, ld'.size, begun)
         /\ ld'.match = "-" => HasRoom(ld'.sizemax, ld'.size, 0)
<1> USE LoopAssumption
<1>1. /\ ld \in LdType /\ ld.size \in Nat /\ ld.sizemax \in Nat /\ real \in Nat /\ begun \in Nat
      /\ Tracks(ld.sizemax, ld.size, real) /\ config \in Configs
      /\ ld.sizemax = config.sizemax /\ HasRoom(ld.sizemax, ld.size, begun)
      /\ ld.match = "-" => HasRoom(ld.sizemax, ld.size, 0)
  BY DEF BaseInv, TypeOK, LdType, RoomInv
<1>2. ~lost' /\ memRchr' = "first" /\ config' = config
  BY DEF Pread, RoomInv
<1> DEFINE f0 == [size |-> ld.size, real |-> real]
           f == IF "ALRM" \in flags THEN Rotate(f0) ELSE f0
           d0 == [ld EXCEPT !.size = f.size]
           d == IF "HUP" \in flags THEN Reopen(d0, f.real) ELSE d0
           g0 == [size |-> d.size, real |-> f.real]
           g == IF "TICK" \in flags /\ "HUP" \notin flags THEN Rotate(g0) ELSE g0
<1>3. f.size \in Nat /\ f.real \in Nat /\ Tracks(ld.sizemax, f.size, f.real) /\ f.size <= ld.size
  BY <1>1 DEF Rotate, Tracks
<1>4. d0 \in LdType /\ d0.sizemax = ld.sizemax /\ d0.size = f.size /\ d0.match = ld.match
  <2> HIDE DEF f
  <2> QED BY <1>1, <1>3 DEF LdType
<1>5. /\ d.sizemax = ld.sizemax /\ d.size \in Nat /\ (ld.sizemax # 0 => d.size <= ld.size)
      /\ d.match \in {"+", ld.match} /\ d \in LdType
  <2> HIDE DEF f, d0
  <2>1. CASE "HUP" \in flags
    <3> DEFINE s == IF f.real > config.sizemax THEN config.sizemax ELSE f.real
    <3>1. s \in Nat /\ (ld.sizemax # 0 => s <= ld.size)
      BY <1>1, <1>3 DEF Tracks
    <3>2. d = [d0 EXCEPT !.inst = config.filters, !.sizemax = config.sizemax,
                         !.size = s, !.match = "+"]
      BY <2>1 DEF Reopen
    <3>3. config.filters \in SUBSET Filters /\ config.sizemax \in 0..Wrap - 1
      BY <1>1
    <3> HIDE DEF s, d
    <3> QED BY <1>1, <1>4, <3>1, <3>2, <3>3, Zenon DEF LdType
  <2>2. CASE "HUP" \notin flags
    BY <1>3, <1>4, <2>2
  <2> QED BY <2>1, <2>2
<1>6. g.size \in Nat /\ g.size <= d.size
  <2> HIDE DEF f, d
  <2> QED BY <1>5 DEF Rotate
<1>7. ld' = [d EXCEPT !.size = g.size]
  BY DEF Pread
<1>8. ld'.sizemax = ld.sizemax /\ ld'.size = g.size /\ ld'.match \in {"+", ld.match}
  <2> HIDE DEF d, g
  <2> QED BY <1>5, <1>7 DEF LdType
<1>9. ld'.size \in Nat /\ (ld.sizemax # 0 => ld'.size <= ld.size)
  <2> HIDE DEF d, g
  <2> QED BY <1>1, <1>5, <1>6, <1>8
<1> QED
  <2> HIDE DEF f0, f, d0, d, g0, g
  <2>1. HasRoom(ld'.sizemax, ld'.size, begun)
    BY <1>1, <1>8, <1>9 DEF HasRoom
  <2>2. ld'.match = "-" => HasRoom(ld'.sizemax, ld'.size, 0)
    BY <1>1, <1>8, <1>9 DEF HasRoom
  <2> QED BY <1>1, <1>2, <1>8, <2>1, <2>2

----------------------------------------------------------------------------

(* It starts between two lines, with room for one.                         *)
LEMMA RoomInit == ShortLines /\ Init => RoomInv
<1> SUFFICES ASSUME ShortLines, Init PROVE RoomInv
  OBVIOUS
<1> USE LoopAssumption
<1>1. config \in Configs /\ config.filters # {} /\ config.sizemax \in Nat
      /\ (config.sizemax # 0 => config.sizemax > LineMax)
  BY DEF Init, ShortLines
<1>2. LinesFit(buf, begun)
  BY DEF Init, Empty, LinesFit
<1>3. HasRoom(ld.sizemax, ld.size, 0) /\ ld.sizemax = config.sizemax /\ begun = 0
  BY <1>1 DEF Init, HasRoom
<1> QED BY <1>1, <1>2, <1>3 DEF Init, Empty, RoomInv

(* Every step keeps RoomInv.                                               *)
LEMMA RoomStep == ShortLines /\ BaseInv /\ RoomInv /\ [Next]_vars => RoomInv'
<1> SUFFICES ASSUME ShortLines, BaseInv, RoomInv, [Next]_vars PROVE RoomInv'
  OBVIOUS
<1> USE LoopAssumption
<1>0. /\ ld \in LdType /\ buf \in Text /\ buf.n \in Nat /\ begun \in Nat
      /\ buf.nl \subseteq 1..buf.n
  BY DEF BaseInv, TypeOK, LdType, Text
<1>1. CASE Top
  <2>1. /\ pc = "top" /\ begun = 0 /\ begun' = 0 /\ buf.nl = {}
        /\ Room \in Nat /\ Room = LineMax - buf.n
    BY <1>0, <1>1 DEF Top, RoomInv, BaseInv, Room
  <2>2. PICK outcome \in {"data", "again", "end"} :
          \E text \in (IF outcome = "data" THEN Arrivals(Room, buf.n) ELSE {Empty}) :
            /\ Pread(outcome)
            /\ buf' = Join(buf, text)
            /\ pc' = IF outcome = "again" THEN "top"
                     ELSE IF outcome = "end" /\ buf.n = 0 THEN "closed" ELSE "print"
    BY <1>1 DEF Top
  <2>3. PICK text \in (IF outcome = "data" THEN Arrivals(Room, buf.n) ELSE {Empty}) :
            /\ Pread(outcome)
            /\ buf' = Join(buf, text)
            /\ pc' = IF outcome = "again" THEN "top"
                     ELSE IF outcome = "end" /\ buf.n = 0 THEN "closed" ELSE "print"
    BY <2>2
  <2>4. buf'.n = buf.n + text.n /\ buf'.nl = {buf.n + i : i \in text.nl}
    BY <2>1, <2>3 DEF Join
  <2>5. CASE outcome = "data"
    <3>1. text \in Text /\ text.n >= 1 /\ text.nl \subseteq 1..text.n /\ LinesFit(text, buf.n)
      BY <1>0, <2>1, <2>3, <2>5, ArrivalsFit DEF Arrivals
    <3>2. LinesFit(buf', 0)
      <4> SUFFICES ASSUME NEW j \in -0..buf'.n - MaxLine
                   PROVE  \E i \in buf'.nl : j < i /\ i <= j + MaxLine
        BY DEF LinesFit
      <4>1. j - buf.n \in -buf.n..text.n - MaxLine
        BY <1>0, <2>4, <3>1 DEF Text
      <4>2. PICK i \in text.nl : j - buf.n < i /\ i <= j - buf.n + MaxLine
        BY <3>1, <4>1 DEF LinesFit
      <4>3. buf.n + i \in buf'.nl
        BY <2>4
      <4>4. j < buf.n + i /\ buf.n + i <= j + MaxLine
        BY <1>0, <3>1, <4>2 DEF Text
      <4> QED BY <4>3, <4>4
    <3>3. pc' = "print" /\ buf'.n >= 1
      BY <1>0, <2>3, <2>4, <2>5, <3>1 DEF Text
    <3> QED BY <2>1, <2>3, <3>2, <3>3, PreadRoom DEF RoomInv
  <2>6. CASE outcome # "data"
    <3>1. buf'.n = buf.n /\ buf'.nl = {}
      BY <1>0, <2>3, <2>4, <2>6 DEF Empty
    <3>2. LinesFit(buf', 0)
      BY <2>1, <3>1 DEF RoomInv, LinesFit
    <3>3. pc' \in {"top", "closed", "print"} /\ (pc' = "print" => buf'.n >= 1)
      BY <1>0, <2>3, <2>6, <3>1
    <3> QED BY <2>1, <2>3, <3>1, <3>2, <3>3, PreadRoom DEF RoomInv
  <2> QED BY <2>5, <2>6
<1>2. CASE TopFull
  BY <1>0, <1>2 DEF TopFull, RoomInv, Room
<1>3. CASE PrintLine
  <2>1. PICK k \in PieceEnds(buf), hits \in SUBSET ld.inst :
          /\ Log(Logmatch(hits), k + StampLen, {StampLen + i : i \in buf.nl})
          /\ Continue(k)
    BY <1>3, Zenon DEF PrintLine
  <2>2. pc = "print" /\ begun = 0 /\ UNCHANGED <<flags, memRchr, config>>
    BY <1>3 DEF PrintLine, RoomInv
  <2>3. /\ Logmatch(hits) \in LdType
        /\ Logmatch(hits).size = ld.size /\ Logmatch(hits).sizemax = ld.sizemax
    BY <1>0, Zenon DEF Logmatch, LdType
  <2>4. k + StampLen \in {StampLen + i : i \in buf.nl} <=> k \in buf.nl
    BY <1>0, PieceShort
  <2>5. HasRoom(ld.sizemax, ld.size, 0)
    BY <2>2 DEF RoomInv
  <2> DEFINE nl == {StampLen + i : i \in buf.nl}
             d == Logmatch(hits)
  <2>6. /\ ~lost' /\ ld'.sizemax = ld.sizemax
        /\ HasRoom(ld'.sizemax, ld'.size, begun')
        /\ ld'.match = "-" => HasRoom(ld'.sizemax, ld'.size, 0)
    <3>1. StampLen \in Nat /\ StampLen <= StampLen /\ pc \in {"print", "chunk"}
      BY <2>2
    <3>2. d \in LdType /\ d.size = ld.size /\ d.sizemax = ld.sizemax
          /\ (k + StampLen \in nl <=> k \in buf.nl) /\ Log(d, k + StampLen, nl)
      BY <2>1, <2>3, <2>4
    <3> HIDE DEF nl, d
    <3> QED BY <2>1, <2>2, <2>5, <3>1, <3>2, LogRoom
  <2> QED BY <2>1, <2>2, <2>6, RestFits DEF RoomInv
<1>4. CASE More
  <2>1. pc = "more" /\ begun' = begun /\ begun < MaxLine
    BY <1>4 DEF More, RoomInv
  <2>2. PICK outcome \in {"data", "again", "end"} :
        /\ Pread(outcome) /\ pc' = IF outcome = "again" THEN "more" ELSE "chunk"
        /\ buf' \in (IF outcome = "data" THEN Arrivals(LineMax, begun)
                     ELSE IF outcome = "end" THEN {[n |-> 1, nl |-> {1}]} ELSE {Empty})
    BY <1>4 DEF More
  <2>3. /\ LinesFit(buf', begun)
        /\ outcome = "again" => buf'.nl = {}
        /\ outcome # "again" => buf'.n >= 1
    <3>1. CASE outcome = "data"
      BY <1>0, <2>2, <3>1, ArrivalsFit DEF Arrivals
    <3>2. CASE outcome = "end"
      BY <1>0, <2>1, <2>2, <3>2 DEF LinesFit
    <3>3. CASE outcome = "again"
      BY <1>0, <2>1, <2>2, <3>3 DEF LinesFit, Empty
    <3> QED BY <3>1, <3>2, <3>3
  <2>4. /\ pc' \in {"more", "chunk"} /\ (pc' = "more" => buf'.nl = {})
        /\ (pc' = "chunk" => buf'.n >= 1)
    BY <2>2, <2>3
  <2> QED BY <2>1, <2>2, <2>3, <2>4, PreadRoom DEF RoomInv
<1>5. CASE MoreExit
  <2>1. LinesFit(buf', begun) /\ buf'.n >= 1
    BY <1>0, <1>5 DEF MoreExit, LinesFit, RoomInv
  <2> QED BY <1>5, <2>1 DEF MoreExit, RoomInv
<1>6. CASE Chunk
  <2>1. PICK k \in PieceEnds(buf) : Log(ld, k, buf.nl) /\ Continue(k)
    BY <1>6 DEF Chunk
  <2>2. pc = "chunk" /\ UNCHANGED <<flags, memRchr, config>>
    BY <1>6 DEF Chunk
  <2>3. k \in Nat /\ k + 0 = k
    BY PieceShort
  <2>4. /\ ~lost' /\ ld'.sizemax = ld.sizemax
        /\ HasRoom(ld'.sizemax, ld'.size, begun')
        /\ ld'.match = "-" => HasRoom(ld'.sizemax, ld'.size, 0)
    <3>1. 0 \in Nat /\ 0 <= StampLen /\ (ld.match = "-" => HasRoom(ld.sizemax, ld.size, 0))
          /\ Log(ld, k + 0, buf.nl)
      BY <2>1, <2>3 DEF RoomInv
    <3> QED BY <1>0, <2>1, <2>2, <2>3, <3>1, LogRoom
  <2> QED BY <2>1, <2>2, <2>4, RestFits DEF RoomInv
<1>7. CASE ReopenFails
  BY <1>0, <1>7 DEF ReopenFails, RoomInv
<1>8. CASE Reconfigure
  <2>1. config \in Configs /\ config' \in Configs
    BY <1>8 DEF Reconfigure, BaseInv, TypeOK
  <2>2. config'.sizemax = config.sizemax
    BY <2>1 DEF ShortLines
  <2> QED BY <1>0, <1>8, <2>2 DEF Reconfigure, RoomInv
<1>9. CASE UNCHANGED vars
  BY <1>0, <1>9 DEF vars, RoomInv
<1> QED BY <1>1, <1>2, <1>3, <1>4, <1>5, <1>6, <1>7, <1>8, <1>9 DEF Next, Step

(* Short lines that go out one at a time are written to the last byte.     *)
THEOREM NothingLost == ASSUME ShortLines PROVE Spec => []Lossless
<1>1. Init => RoomInv
  BY RoomInit
<1>2. BaseInv /\ RoomInv /\ [Next]_vars => RoomInv'
  BY RoomStep
<1>3. RoomInv => Lossless
  BY DEF RoomInv, Lossless
<1> QED BY <1>1, <1>2, <1>3, BaseInvHolds, PTL DEF Spec

(* And no rotation for size splits such a line between two files.          *)
THEOREM LinesStayWhole == ASSUME ShortLines PROVE Spec => WholeLines
<1> DEFINE Whole == pc = "chunk" /\ ld.match = "+" =>
                      \/ real' = real + (buf.n - buf'.n)
                      \/ real' = 0 /\ pc' \in {"print", "top"}
<1>1. BaseInv /\ RoomInv /\ [Next]_vars => [Whole]_vars
  <2> SUFFICES ASSUME BaseInv, RoomInv, Next, pc = "chunk", ld.match = "+"
               PROVE  \/ real' = real + (buf.n - buf'.n)
                      \/ real' = 0 /\ pc' \in {"print", "top"}
    OBVIOUS
  <2> USE LoopAssumption
  <2>0. ld \in LdType /\ buf.n \in Nat /\ real \in Nat
    BY DEF BaseInv, TypeOK, LdType, Text
  <2>1. CASE Chunk
    <3>1. PICK k \in PieceEnds(buf) : Log(ld, k, buf.nl) /\ Continue(k)
      BY <2>1 DEF Chunk
    <3>2. k \in Nat /\ k + 0 = k /\ buf'.n = buf.n - k
      BY <3>1, PieceShort DEF Continue, Rest
    <3>3. 0 \in Nat /\ 0 <= StampLen /\ Log(ld, k + 0, buf.nl)
      BY <3>1, <3>2
    <3>4. real' = real + (k + 0) \/ (k \in buf.nl /\ real' = 0)
      BY <2>0, <3>1, <3>2, <3>3, LogRoom
    <3>5. k \in buf.nl => pc' \in {"print", "top"}
      BY <3>1 DEF Continue
    <3> QED BY <2>0, <3>2, <3>4, <3>5
  <2>2. CASE Reconfigure
    BY <2>0, <2>2 DEF Reconfigure
  <2> QED BY <2>1, <2>2
       DEF Next, Step, Top, TopFull, PrintLine, More, MoreExit, ReopenFails
<1>2. Init => RoomInv
  BY RoomInit
<1>3. BaseInv /\ RoomInv /\ [Next]_vars => RoomInv'
  BY RoomStep
<1> QED BY <1>1, <1>2, <1>3, BaseInvHolds, PTL DEF Spec, WholeLines

----------------------------------------------------------------------------
(* One verdict on a message, when the filter lines do not change under it  *)
(* or none of them deselects.                                              *)

NoDeselect == \A c \in Configs : "-" \notin c.filters
SameFilters == "HUP" \notin Signals \/ NoDeselect

(* A directory without lines that deselect is selected.                    *)
VerdictInv ==
  /\ OneVerdict
  /\ "-" \notin ld.inst => ld.match = "+"
  /\ NoDeselect => "-" \notin ld.inst /\ verdict.keep

(* A write changes the size of the file and no verdict.                    *)
LEMMA LogVerdict ==
  ASSUME NEW d \in LdType, NEW n, NEW nl, Log(d, n, nl)
  PROVE  ld'.match = d.match /\ ld'.inst = d.inst
BY DEF Log, LdType

(* Neither does a read, but for SIGHUP.                                    *)
LEMMA PreadVerdict ==
  ASSUME BaseInv, NEW outcome, Pread(outcome)
  PROVE  /\ "HUP" \notin flags => ld'.match = ld.match /\ ld'.inst = ld.inst
         /\ "HUP" \in flags => ld'.match = "+" /\ ld'.inst = config.filters
<1>1. ld \in LdType BY DEF BaseInv, TypeOK, LdType
<1>2. ASSUME NEW x, NEW y, NEW z, NEW u, NEW v
      PROVE  LET d == [[ld EXCEPT !.size = x] EXCEPT !.inst = u, !.sizemax = y, !.size = z,
                                                     !.match = "+"]
             IN [d EXCEPT !.size = v].match = "+" /\ [d EXCEPT !.size = v].inst = u
  BY <1>1 DEF LdType
<1>3. ASSUME NEW x, NEW v
      PROVE  LET d == [ld EXCEPT !.size = x]
             IN [d EXCEPT !.size = v].match = ld.match /\ [d EXCEPT !.size = v].inst = ld.inst
  BY <1>1 DEF LdType
<1>4. CASE "HUP" \in flags BY <1>2, <1>4 DEF Pread, Reopen
<1>5. CASE "HUP" \notin flags BY <1>3, <1>5 DEF Pread
<1> QED BY <1>4, <1>5

(* Every step keeps the verdict on a message that is not at its end.       *)
LEMMA VerdictStep == SameFilters /\ BaseInv /\ VerdictInv /\ [Next]_vars => VerdictInv'
<1> SUFFICES ASSUME SameFilters, BaseInv, VerdictInv, [Next]_vars PROVE VerdictInv'
  OBVIOUS
<1>0. ld \in LdType /\ flags \subseteq Signals \cup {"TERM"} /\ config \in Configs
  BY DEF BaseInv, TypeOK, LdType
<1>1. ASSUME NEW outcome, Pread(outcome), UNCHANGED verdict,
             pc' \in {"more", "chunk"} => pc \in {"more", "chunk"}
      PROVE  VerdictInv'
  <2>1. CASE "HUP" \in flags
    <3>1. NoDeselect BY <1>0, <2>1 DEF SameFilters
    <3>2. ld'.match = "+" /\ "-" \notin ld'.inst
      BY <1>0, <1>1, <2>1, <3>1, PreadVerdict DEF NoDeselect
    <3> QED BY <1>1, <3>1, <3>2 DEF VerdictInv, OneVerdict
  <2>2. CASE "HUP" \notin flags
    BY <1>1, <2>2, PreadVerdict DEF VerdictInv, OneVerdict
  <2> QED BY <2>1, <2>2
<1>2. CASE Top
  <2>1. PICK outcome \in {"data", "again", "end"} : Pread(outcome) /\ pc' \in {"top", "closed", "print"}
    BY <1>2 DEF Top
  <2> QED BY <1>1, <1>2, <2>1 DEF Top
<1>3. CASE TopFull BY <1>3 DEF TopFull, VerdictInv, OneVerdict
<1>4. CASE PrintLine
  <2>1. PICK k \in PieceEnds(buf), hits \in SUBSET ld.inst :
          /\ Log(Logmatch(hits), k + StampLen, {StampLen + i : i \in buf.nl})
          /\ verdict' = [keep |-> "-" \notin hits, echo |-> "e" \in hits]
    BY <1>4, Zenon DEF PrintLine
  <2>2. /\ Logmatch(hits) \in LdType /\ Logmatch(hits).inst = ld.inst
        /\ (Logmatch(hits).match = "+") = ("-" \notin hits)
        /\ "-" \notin ld.inst => Logmatch(hits).match = "+"
    <3>1. CASE ld.inst = {} BY <1>0, <3>1 DEF Logmatch, VerdictInv
    <3>2. CASE ld.inst # {} BY <1>0, <3>2, Zenon DEF Logmatch, LdType
    <3> QED BY <3>1, <3>2
  <2>3. ld'.match = Logmatch(hits).match /\ ld'.inst = ld.inst BY <2>1, <2>2, LogVerdict
  <2>4. verdict'.keep = ("-" \notin hits) BY <2>1
  <2> QED BY <2>2, <2>3, <2>4, Zenon DEF VerdictInv, OneVerdict
<1>5. CASE More
  <2>1. PICK outcome \in {"data", "again", "end"} : Pread(outcome)
    BY <1>5 DEF More
  <2> QED BY <1>1, <1>5, <2>1 DEF More
<1>6. CASE MoreExit BY <1>6 DEF MoreExit, VerdictInv, OneVerdict
<1>7. CASE Chunk
  <2>1. PICK k \in PieceEnds(buf) : Log(ld, k, buf.nl) BY <1>7 DEF Chunk
  <2>2. ld'.match = ld.match /\ ld'.inst = ld.inst BY <1>0, <2>1, LogVerdict
  <2> QED BY <1>7, <2>2 DEF Chunk, VerdictInv, OneVerdict
<1>8. CASE ReopenFails BY <1>8 DEF ReopenFails, VerdictInv, OneVerdict
<1>9. CASE Reconfigure BY <1>9 DEF Reconfigure, VerdictInv, OneVerdict
<1>10. CASE UNCHANGED vars BY <1>10 DEF vars, VerdictInv, OneVerdict
<1> QED
  BY <1>2, <1>3, <1>4, <1>5, <1>6, <1>7, <1>8, <1>9, <1>10 DEF Next, Step

(* The pieces of a long message all go where logmatch() sent the first one:*)
(* a message is never half in the log.                                     *)
THEOREM MessagesStayWhole == ASSUME SameFilters PROVE Spec => []OneVerdict
<1>1. Init => VerdictInv
  BY LoopAssumption DEF Init, VerdictInv, OneVerdict, NoDeselect
<1>2. BaseInv /\ VerdictInv /\ [Next]_vars => VerdictInv'
  BY VerdictStep
<1>3. VerdictInv => OneVerdict BY DEF VerdictInv
<1> QED BY <1>1, <1>2, <1>3, BaseInvHolds, PTL DEF Spec
=============================================================================
