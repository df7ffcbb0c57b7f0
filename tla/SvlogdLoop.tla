----------------------------- MODULE SvlogdLoop -----------------------------
(***************************************************************************)
(* runit/svlogd.c: the main loop of svlogd, from the bytes on standard     *)
(* input to the bytes in `current', with one log directory.                *)
(*                                                                         *)
(* Text is abstracted to where its newlines are: n bytes of which those at *)
(* the positions nl are newlines.  Old files, processors and crashes are   *)
(* the subject of SvlogdDir; here a rotation starts an empty `current'.    *)
(***************************************************************************)
EXTENDS Integers

CONSTANTS
  LineMax,      \* linemax: the size of the line buffer
  MinRead,      \* 128: less room than this at the tail is not refilled
  StampLen,     \* 26 with -t, 0 without
  Wrap,         \* UINT_MAX + 1
  Configs,      \* what log/config may say: [filters, sizemax]
  Signals,      \* what happens to svlogd while it polls: "TERM", "ALRM", "HUP",
                \* or "TICK", the end of the directory's rotate_period
  MaxLine,      \* bound: length of an input line, newline included
  MaxFile       \* bound: no more input once `current' has this size

Filters == {"-", "e"}   \* lines that deselect, lines that echo to stderr

ASSUME LoopAssumption ==
  /\ LineMax \in Nat \ {0} /\ MinRead \in 1..LineMax
  /\ StampLen \in Nat /\ MaxLine \in Nat \ {0} /\ MaxFile \in Nat
  /\ Wrap \in Nat /\ Wrap > LineMax
  /\ Configs \subseteq [filters : SUBSET Filters, sizemax : 0..Wrap - 1]
  /\ Configs # {}
  /\ Signals \subseteq {"TERM", "ALRM", "HUP", "TICK"}

VARIABLES
  pc,           \* "top", "print", "more", "chunk", "closed" or "dead"
  buf,          \* the unprocessed bytes, lineptr[0..stdin_cnt-1]
  off,          \* lineptr - line
  begun,        \* bytes of the present line that were already processed
  flags,        \* exitasap, rotateasap, reopenasap, next_rotate < now: a set
  memRchr,      \* "first" (memchr) or "last" (memrchr)
  config,       \* log/config on disk
  ld,           \* the struct logdir: inst, sizemax, size, match, matcherr
  real,         \* the true size of `current'
  verdict,      \* what the filters said of the present line
  lost          \* some byte given to buffer_pwrite() was not written

vars == <<pc, buf, off, begun, flags, memRchr, config, ld, real, verdict, lost>>

Text == [n : Nat, nl : SUBSET Nat]
Empty == [n |-> 0, nl |-> {}]
exitasap == "TERM" \in flags

----------------------------------------------------------------------------
(* Files *)

(* (a - b) in unsigned arithmetic.                                         *)
UMinus(a, b) == IF a >= b THEN a - b ELSE a - b + Wrap

(* A file is [size, real]: ld->size and the true size.                     *)
Rotate(f) == IF f.size > 0 THEN [size |-> 0, real |-> 0] ELSE f

(* The bytes of a write of n that buffer_pwrite() does write.  Mutant: it  *)
(* is not cut down to the room that is left.                               *)
TakenUncut(max, size, n) == n
Taken(max, size, n) == IF max # 0 /\ n > max - size THEN max - size ELSE n

(* Is the file rotated after a write?  Mutant: with no room left for a     *)
(* line below the limit.                                                   *)
FullNoRoom(max, size, newline) == max # 0 /\ newline /\ size >= max
Full(max, size, newline) == max # 0 /\ newline /\ size >= UMinus(max, LineMax)

(* buffer_pwrite(): n bytes with newlines at nl, to file f.  It returns    *)
(* the number of bytes it wrote, which no caller looks at.  An fwrite()    *)
(* that fails is repeated with the whole piece until it succeeds; that it  *)
(* had written part of the piece, which is then there twice, is left out.  *)
(* What the disk being full does to the old files is in SvlogdDir.         *)
Pwrite(f, max, n, nl) ==
  LET f1 == IF max # 0 /\ f.size >= max THEN Rotate(f) ELSE f
      i == Taken(max, f1.size, n)
      f2 == [size |-> f1.size + i, real |-> f1.real + i]
  IN [file |-> IF Full(max, f2.size, i \in nl) THEN Rotate(f2) ELSE f2,
      ret |-> i]

(* The write of a piece, if the directory is selected.                     *)
Log(d, n, nl) ==
  IF d.match = "+"
  THEN LET w == Pwrite([size |-> d.size, real |-> real], d.sizemax, n, nl)
       IN /\ ld' = [d EXCEPT !.size = w.file.size]
          /\ real' = w.file.real
          /\ lost' = (lost \/ w.ret < n)
  ELSE ld' = d /\ UNCHANGED <<real, lost>>

(* logdir_close() and logdir_open(), which reads the config again and      *)
(* leaves matcherr alone.                                                  *)
Reopen(d, r) ==
  [d EXCEPT !.inst = config.filters, !.sizemax = config.sizemax,
            !.size = IF r > config.sizemax THEN config.sizemax ELSE r,
            !.match = "+"]

----------------------------------------------------------------------------
(* Input *)

(* Every MaxLine consecutive bytes, from `had' bytes before the text on,   *)
(* have a newline among them: no line is longer than MaxLine.              *)
LinesFit(t, had) ==
  \A j \in -had..t.n - MaxLine : \E i \in t.nl : j < i /\ i <= j + MaxLine

Arrivals(max, had) ==
  {t \in [n : 1..max, nl : SUBSET (1..max)] : t.nl \subseteq 1..t.n /\ LinesFit(t, had)}

Join(b, t) == [n |-> b.n + t.n, nl |-> b.nl \cup {b.n + i : i \in t.nl}]

(* One iteration of buffer_pread(): the work that the flags ask for, then  *)
(* poll() with the signals unblocked, then read().  The outcome is one of  *)
(* "data", "again" (EAGAIN, next iteration) and "end".                     *)
Pread(outcome) ==
  /\ LET f == IF "ALRM" \in flags THEN Rotate([size |-> ld.size, real |-> real])
              ELSE [size |-> ld.size, real |-> real]
         d == IF "HUP" \in flags THEN Reopen([ld EXCEPT !.size = f.size], f.real)
              ELSE [ld EXCEPT !.size = f.size]
         g == IF "TICK" \in flags /\ "HUP" \notin flags
              THEN Rotate([size |-> d.size, real |-> f.real])
              ELSE [size |-> d.size, real |-> f.real]
     IN ld' = [d EXCEPT !.size = g.size] /\ real' = g.real
  /\ memRchr' = IF "HUP" \in flags /\ config.filters # {} THEN "first" ELSE memRchr
  /\ \E s \in SUBSET Signals :
       /\ flags' = IF outcome = "end" THEN s \cup {"TERM"} ELSE s
       /\ outcome = "again" => "TERM" \notin s
  /\ outcome = "data" => real <= MaxFile
  /\ UNCHANGED <<config, lost>>

(* The log directory can't be opened again: fatalx().                      *)
ReopenFails ==
  /\ pc \in {"top", "more"} /\ ~exitasap /\ "HUP" \in flags
  /\ pc' = "dead"
  /\ UNCHANGED <<buf, off, begun, flags, memRchr, config, ld, real, verdict, lost>>

----------------------------------------------------------------------------
(* The main loop *)

Room == LineMax - buf.n

Top ==
  /\ pc = "top"
  /\ ~exitasap /\ Room >= MinRead
  /\ \E outcome \in {"data", "again", "end"} :
       \E text \in (IF outcome = "data" THEN Arrivals(Room, buf.n) ELSE {Empty}) :
         /\ Pread(outcome)
         /\ buf' = Join(buf, text)
         /\ pc' = IF outcome = "again" THEN "top"
                  ELSE IF outcome = "end" /\ buf.n = 0 THEN "closed" ELSE "print"
  /\ UNCHANGED <<off, begun, verdict>>

(* No refill: the buffer is nearly full, or svlogd is to exit.  Mutant: it *)
(* waits for the rest of a line even when it is to exit.                   *)
TopFullWaits ==
  /\ pc = "top"
  /\ (exitasap /\ buf.n = 0) \/ Room < MinRead
  /\ pc' = IF buf.n = 0 /\ exitasap THEN "closed" ELSE "print"
  /\ UNCHANGED <<buf, off, begun, flags, memRchr, config, ld, real, verdict, lost>>
TopFull ==
  /\ pc = "top"
  /\ exitasap \/ Room < MinRead
  /\ pc' = IF buf.n = 0 /\ exitasap THEN "closed" ELSE "print"
  /\ UNCHANGED <<buf, off, begun, flags, memRchr, config, ld, real, verdict, lost>>

(* Where the next piece of b ends: at the newline memRchr() finds, or else *)
(* at the end of the buffer.                                               *)
PieceEnds(b) ==
  IF b.nl = {} THEN {b.n}
  ELSE {k \in b.nl : \A j \in b.nl : IF memRchr = "first" THEN k <= j ELSE j <= k}

(* stdin_cnt -= linelen.                                                   *)
Rest(b, k) == [n |-> b.n - k, nl |-> {i - k : i \in {j \in b.nl : j > k}}]

(* After a piece that ends at k: the rest of its line, the next line in    *)
(* the buffer, or the top of the loop.  Mutant: lineptr stays where it is. *)
ContinueUnmoved(k) ==
  LET rest == Rest(buf, k)
  IN /\ buf' = rest
     /\ IF k \notin buf.nl THEN pc' = "more" /\ off' = off /\ begun' = begun + k
        ELSE /\ pc' = IF rest.nl # {} THEN "print" ELSE "top"
             /\ off' = off + k
             /\ begun' = 0
Continue(k) ==
  LET rest == Rest(buf, k)
  IN /\ buf' = rest
     /\ IF k \notin buf.nl THEN pc' = "more" /\ off' = off /\ begun' = begun + k
        ELSE /\ pc' = IF rest.nl # {} THEN "print" ELSE "top"
             /\ off' = IF rest.nl # {} THEN off + k ELSE 0
             /\ begun' = 0

(* logmatch() on the first piece of a line, the only one it is given; the  *)
(* patterns that match are any of those configured.  No filter lines: it   *)
(* is not called.  Mutant: a line keeps the verdict of the line before.    *)
LogmatchSticky(hits) ==
  IF ld.inst = {} THEN ld
  ELSE [ld EXCEPT !.match = IF "-" \in hits THEN "-" ELSE @,
                  !.matcherr = IF "e" \in hits THEN "e" ELSE @]
Logmatch(hits) ==
  IF ld.inst = {} THEN ld
  ELSE [ld EXCEPT !.match = IF "-" \in hits THEN "-" ELSE "+",
                  !.matcherr = IF "e" \in hits THEN "e" ELSE "E"]

(* The first piece of a line, with its timestamp, or a batch of lines.     *)
PrintLine ==
  /\ pc = "print"
  /\ \E k \in PieceEnds(buf), hits \in SUBSET ld.inst :
       /\ Log(Logmatch(hits), k + StampLen, {StampLen + i : i \in buf.nl})
       /\ verdict' = [keep |-> "-" \notin hits, echo |-> "e" \in hits]
       /\ Continue(k)
  /\ UNCHANGED <<flags, memRchr, config>>

(* The line goes on: read more of it.  At the end of the input, or when    *)
(* svlogd is to exit, it gets a newline.                                   *)
More ==
  /\ pc = "more" /\ ~exitasap
  /\ \E outcome \in {"data", "again", "end"} :
       \E text \in (IF outcome = "data" THEN Arrivals(LineMax, begun)
                    ELSE IF outcome = "end" THEN {[n |-> 1, nl |-> {1}]} ELSE {Empty}) :
         /\ Pread(outcome)
         /\ buf' = text
         /\ pc' = IF outcome = "again" THEN "more" ELSE "chunk"
  /\ UNCHANGED <<off, begun, verdict>>
MoreExit ==
  /\ pc = "more" /\ exitasap
  /\ buf' = [n |-> 1, nl |-> {1}]
  /\ pc' = "chunk"
  /\ UNCHANGED <<off, begun, flags, memRchr, config, ld, real, verdict, lost>>

Chunk ==
  /\ pc = "chunk"
  /\ \E k \in PieceEnds(buf) : Log(ld, k, buf.nl) /\ Continue(k)
  /\ UNCHANGED <<flags, memRchr, config, verdict>>

(* The administrator edits log/config.                                     *)
Reconfigure ==
  /\ config' \in Configs
  /\ pc \notin {"closed", "dead"}
  /\ UNCHANGED <<pc, buf, off, begun, flags, memRchr, ld, real, verdict, lost>>

Init ==
  /\ pc = "top" /\ buf = Empty /\ off = 0 /\ begun = 0 /\ flags = {}
  /\ config \in Configs
  /\ memRchr = IF StampLen # 0 \/ config.filters # {} THEN "first" ELSE "last"
  /\ ld = [inst |-> config.filters, sizemax |-> config.sizemax, size |-> 0,
           match |-> "+", matcherr |-> "none"]
  /\ real = 0
  /\ verdict = [keep |-> TRUE, echo |-> FALSE]
  /\ lost = FALSE

Step == Top \/ TopFull \/ PrintLine \/ More \/ MoreExit \/ Chunk \/ ReopenFails
Next == Step \/ Reconfigure
Spec == Init /\ [][Next]_vars
(* svlogd itself keeps running; nothing is assumed of its input.           *)
Running == TopFull \/ PrintLine \/ MoreExit \/ Chunk
FairSpec == Spec /\ WF_vars(Running)

----------------------------------------------------------------------------
(* Properties *)

TypeOK ==
  /\ pc \in {"top", "print", "more", "chunk", "closed", "dead"}
  /\ buf \in Text /\ off \in Nat /\ begun \in Nat /\ real \in Nat
  /\ flags \subseteq Signals \cup {"TERM"}
  /\ memRchr \in {"first", "last"}
  /\ config \in Configs
  /\ ld \in [inst : SUBSET Filters, sizemax : 0..Wrap - 1, size : Nat,
             match : {"+", "-"}, matcherr : {"none", "e", "E"}]
  /\ verdict \in [keep : BOOLEAN, echo : BOOLEAN]
  /\ lost \in BOOLEAN

(* What buffer_pwrite() is given, it writes, where lines go out one at a   *)
(* time: the cut to the room left in `current', whose result no caller     *)
(* looks at, never bites.                                                  *)
Lossless == memRchr = "first" => ~lost

(* The same for every config: not so, without filters the rest of a line   *)
(* and the lines after it go out in one write.                             *)
AllWritten == ~lost

(* The buffer is not overrun: what lineptr points at ends within line[],   *)
(* and where more of a line is read, "lineptr is emptied now, safe to use  *)
(* as buffer" and at the front of line[].                                  *)
ReadFits ==
  /\ off + buf.n <= LineMax
  /\ pc \in {"top", "more", "chunk"} => off = 0
  /\ pc = "more" => buf.n = 0

(* `current' stays within sizemax, and ld->size is its size.               *)
SizeKept ==
  ld.sizemax # 0 => ld.size <= ld.sizemax /\ (real <= ld.sizemax => ld.size = real)

(* All of a message is treated alike: what logmatch() said of the first    *)
(* piece decides for the pieces read after it.                             *)
OneVerdict == pc \in {"more", "chunk"} => (ld.match = "+") = verdict.keep

(* Only a message that an e line of the config selected goes to stderr.    *)
EchoSelected == ld.matcherr = "e" => verdict.echo

(* A file that is full is closed between two lines: a buffer_pwrite() of a *)
(* piece of a line makes `current' grow, or rotates it after the line.     *)
(* (SIGALRM and rotate_period, in buffer_pread(), do split a line.)        *)
WholeLines ==
  [][pc = "chunk" /\ ld.match = "+" =>
       \/ real' = real + (buf.n - buf'.n)
       \/ real' = 0 /\ pc' \in {"print", "top"}]_vars

(* The buffer is worked off and svlogd exits once it is told to, or once   *)
(* its input ends.                                                         *)
Exits == exitasap ~> (pc = "closed")

=============================================================================
