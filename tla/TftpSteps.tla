----------------------------- MODULE TftpSteps ------------------------------
(***************************************************************************)
(* What each step of Tftp does to a process that is well-formed: what it   *)
(* sends, where it is in its file and which block it is at, case by case,  *)
(* and that processes and packets stay well-formed. TftpProofs builds on   *)
(* these facts without looking into tftp_protocol() again.                 *)
(***************************************************************************)
EXTENDS Tftp, TLAPS

(* The block size both ends settle on.                                     *)
Block == IF opts.old THEN Default ELSE opts.blksize

Lower(a, b) == IF a > b THEN b ELSE a
(* The first k units of the file.                                          *)
UpTo(k) == [i \in 1..k |-> i]

(* The units of the file that block n holds.                               *)
Chunk(n) ==
  LET from == (n - 1) * Block
  IN [i \in 1..Lower(from + Block, opts.size) - from |-> from + i]

(* Block numbers that do not wrap in this transfer.                        *)
Short == opts.size < (opts.mod - 1) * Block

Requests == {"RRQ", "WRQ"}
(* x has a request to answer; x is in tftp_protocol().                     *)
Asking(x) == s[x].at \in {"stdin", "window"} /\ s[x].req.op \in Requests
Serving(x) == s[x].at = "wait"

-----------------------------------------------------------------------------
(* Packets *)

PacketOK(q) ==
  /\ q.op \in {"DATA", "ACK", "OACK", "ERROR"} \cup Requests
  /\ q.n \in Nat /\ q.nr = q.n % opts.mod
  /\ q.op = "DATA" => /\ q.to = IF opts.get THEN "c" ELSE "s"
                      /\ q.n >= 1 /\ (q.n - 1) * Block <= opts.size
                      /\ q.data = Chunk(q.n)
  /\ q.op = "ACK" => q.to = IF opts.get THEN "s" ELSE "c"
  /\ q.op = "OACK" => q.to = "c" /\ q.opt = Block /\ q.n = 0
  /\ q.op \in Requests => q.to = "s" /\ q.op = Request.op /\ q.opt = opts.blksize

(* No packet of the transfer before the client knows the block size.       *)
Early(q) == q.op \in {"DATA", "ACK"} /\ Block # Default => ~c.expect_OACK

-----------------------------------------------------------------------------
(* Processes *)

Fields == {"at", "put", "peer", "block_nr", "finished", "retries", "xbuf", "opcode", "blksize",
           "expect_OACK", "fd", "mine", "pos", "err", "result"}

ProcOK(p) ==
  /\ DOMAIN p = Fields
  /\ p.at \in {"wait", "done"}
  /\ p.block_nr \in Nat /\ p.block_nr >= 1 /\ p.pos \in Nat
  /\ PacketOK(p.xbuf) /\ p.xbuf.to = p.peer
  /\ IF p.expect_OACK
     THEN p.block_nr = 1 /\ p.pos = 0 /\ ~p.finished /\ p.fd = p.put
          /\ p.xbuf.op \notin {"DATA", "ACK", "OACK"}
     ELSE p.blksize = Block

SenderOK(p) ==
  /\ p.put
  /\ ~p.finished => p.pos = (p.block_nr - 1) * Block /\ p.pos <= opts.size
  /\ p.xbuf.op # "ACK" /\ (p.xbuf.op = "DATA" => p.xbuf.n = p.block_nr - 1)

ReceiverOK(p) ==
  /\ ~p.put
  /\ p.at = "wait" => ~p.finished
  /\ p.xbuf.op # "DATA" /\ (p.xbuf.op = "ACK" => p.xbuf.n = p.block_nr - 1)

(* What a receiver has written.                                            *)
Wrote(p, f) ==
  /\ p.pos = (p.block_nr - 1) * Block /\ p.pos <= opts.size /\ p.mine
  /\ IF p.fd THEN f = [there |-> TRUE, data |-> UpTo(p.pos)] ELSE p.pos = 0

ClientOK ==
  /\ ProcOK(c) /\ Early(c.xbuf) /\ c.peer = "s" /\ ~c.err
  /\ IF opts.get THEN ReceiverOK(c) ELSE SenderOK(c)
  /\ c.at = "wait" => c.result = "none"

ServerOK(p) ==
  /\ p.at \in {"off", "stdin", "window", "wait"}
  /\ p.at \in {"stdin", "window"} => PacketOK(p.req) /\ DOMAIN p = {"at", "req"}
  /\ p.at = "wait" => /\ ProcOK(p) /\ Early(p.xbuf) /\ p.peer = "c" /\ p.fd /\ ~p.expect_OACK
                     /\ IF opts.get THEN SenderOK(p) ELSE ReceiverOK(p)

Shape ==
  /\ opts \in Options /\ calls \in 0..2
  /\ DOMAIN s = Servers /\ DOMAIN file = {"c", "s"}
  /\ \A q \in net : PacketOK(q) /\ Early(q)
  /\ ClientOK
  /\ \A x \in Servers : ServerOK(s[x])

-----------------------------------------------------------------------------
(* Numbers and sequences *)

(* The command line gives numbers, and a block size above 0.               *)
LEMMA OptsAre ==
  ASSUME opts \in Options
  PROVE  /\ opts.size \in Nat /\ opts.mod \in Nat /\ opts.mod > 1
         /\ Block \in Nat /\ Block > 0
BY TftpAssumption DEF Block

(* What is left of the file bounds what full_read() gets.                  *)
LEMMA LowerIs ==
  ASSUME NEW a \in Nat, NEW b \in Nat, a <= opts.size, opts.size \in Nat
  PROVE  /\ Lower(a + b, opts.size) \in Nat
         /\ Lower(a + b, opts.size) >= a /\ Lower(a + b, opts.size) <= opts.size
         /\ Lower(a + b, opts.size) - a = b => Lower(a + b, opts.size) = a + b
         /\ Lower(a + b, opts.size) - a # b => Lower(a + b, opts.size) = opts.size
BY DEF Lower

(* Where the elements of a part of a sequence come from.                   *)
LEMMA SubSeqIs ==
  ASSUME NEW q \in Seq(Nat), NEW m \in 1..Len(q) + 1, NEW n \in Nat, m - 1 <= n, n <= Len(q)
  PROVE  /\ SubSeq(q, m, n) \in Seq(Nat)
         /\ Len(SubSeq(q, m, n)) = n - m + 1
         /\ \A i \in 1..n - m + 1 : SubSeq(q, m, n)[i] = q[m + i - 1]
OBVIOUS

(* What full_read() reads at pos is the block of that number.              *)
LEMMA UnitsAreChunk ==
  ASSUME opts \in Options, NEW n \in Nat, n >= 1, NEW pos \in Nat,
         pos = (n - 1) * Block, pos <= opts.size
  PROVE  /\ SubSeq(File, pos + 1, Lower(pos + Block, opts.size)) = Chunk(n)
         /\ Len(Chunk(n)) = Lower(pos + Block, opts.size) - pos
<1>1. opts.size \in Nat /\ Block \in Nat BY OptsAre
<1> DEFINE last == Lower(pos + Block, opts.size)
<1>2. last \in Nat /\ last >= pos /\ last <= opts.size BY <1>1, LowerIs, Zenon
<1>3. Chunk(n) = [i \in 1..last - pos |-> pos + i] BY DEF Chunk
<1> HIDE DEF last
<1>4. File \in Seq(Nat) /\ Len(File) = opts.size /\ \A i \in 1..opts.size : File[i] = i
  BY <1>1 DEF File
<1>5. PICK m \in Int : m = pos + 1 OBVIOUS
<1>6. /\ SubSeq(File, m, last) \in Seq(Nat)
      /\ Len(SubSeq(File, m, last)) = last - pos
      /\ \A i \in 1..last - pos : SubSeq(File, m, last)[i] = pos + i
  <2>1. m \in 1..Len(File) + 1 /\ m - 1 <= last /\ last <= Len(File) BY <1>1, <1>2, <1>4, <1>5
  <2>2. /\ SubSeq(File, m, last) \in Seq(Nat)
        /\ Len(SubSeq(File, m, last)) = last - m + 1
        /\ \A i \in 1..last - m + 1 : SubSeq(File, m, last)[i] = File[m + i - 1]
    BY <1>2, <1>4, <2>1, SubSeqIs
  <2>3. ASSUME NEW i \in 1..last - pos PROVE SubSeq(File, m, last)[i] = pos + i
    <3>1. SubSeq(File, m, last)[i] = File[m + i - 1] BY <1>2, <1>5, <2>2
    <3>2. m + i - 1 = pos + i /\ pos + i \in 1..opts.size BY <1>1, <1>2, <1>5
    <3> QED BY <1>4, <3>1, <3>2
  <2> QED BY <1>2, <1>5, <2>2, <2>3
<1>7. SubSeq(File, m, last) = [i \in 1..last - pos |-> pos + i]
  BY <1>2, <1>6
<1>8. Len([i \in 1..last - pos |-> pos + i]) = last - pos
  BY <1>6, <1>7, Zenon
<1> QED BY <1>3, <1>5, <1>7, <1>8, Zenon DEF last

(* Writing it there makes the beginning of the file longer.                *)
LEMMA WrittenIs ==
  ASSUME opts \in Options, NEW n \in Nat, n >= 1, NEW pos \in Nat,
         pos = (n - 1) * Block, pos <= opts.size
  PROVE  Written(UpTo(pos), pos, Chunk(n)) = UpTo(Lower(pos + Block, opts.size))
<1>1. opts.size \in Nat /\ Block \in Nat BY OptsAre
<1> DEFINE last == Lower(pos + Block, opts.size)
<1>2. last \in Nat /\ last >= pos /\ last <= opts.size BY <1>1, LowerIs, Zenon
<1>3. Chunk(n) = [i \in 1..last - pos |-> pos + i] BY DEF Chunk
<1>4. Len(Chunk(n)) = last - pos BY UnitsAreChunk
<1> HIDE DEF last
<1>5. Len(UpTo(pos)) = pos BY DEF UpTo
<1>6. Written(UpTo(pos), pos, Chunk(n)) =
        [i \in 1..last |-> IF i \in pos + 1..last THEN Chunk(n)[i - pos]
                           ELSE IF i <= pos THEN UpTo(pos)[i] ELSE 0]
  BY <1>2, <1>4, <1>5 DEF Written
<1>7. \A i \in 1..last : (IF i \in pos + 1..last THEN Chunk(n)[i - pos]
                          ELSE IF i <= pos THEN UpTo(pos)[i] ELSE 0) = i
  BY <1>2, <1>3 DEF UpTo
<1> QED BY <1>6, <1>7, Zenon DEF UpTo, last

-----------------------------------------------------------------------------
(* What the steps of tftp_protocol() leave *)

(* x is what Situation() makes, or what became of it.                      *)
Sit(x) == DOMAIN x = {"p", "f", "out"} /\ DOMAIN x.p = Fields
Just(m) == {m}
(* The fields but those of K are the same.                                 *)
Same(p, q, K) == \A k \in Fields \ K : q[k] = p[k]

(* tftp_protocol() returns: nothing else changes.                          *)
LEMMA DoneIs ==
  ASSUME NEW x, Sit(x), NEW result
  PROVE  LET y == Done(x, result) IN
         /\ Sit(y) /\ y.f = x.f /\ y.out = x.out
         /\ y.p.at = "done" /\ y.p.result = result /\ Same(x.p, y.p, {"at", "result"})
BY Zenon DEF Done, Sit, Same, Fields

(* err: a receiver that has opened its file unlinks it.                    *)
LEMMA ErrIs ==
  ASSUME NEW x, Sit(x)
  PROVE  LET y == Err(x) IN
         /\ Sit(y) /\ y.out = x.out
         /\ y.f = IF x.p.fd /\ ~x.p.put THEN NoFile ELSE x.f
         /\ y.p.at = "done" /\ y.p.result = "failure" /\ Same(x.p, y.p, {"at", "result"})
<1> DEFINE z == IF x.p.fd /\ ~x.p.put THEN [x EXCEPT !.f = NoFile] ELSE x
<1>1. Sit(z) /\ z.p = x.p /\ z.out = x.out
      /\ z.f = IF x.p.fd /\ ~x.p.put THEN NoFile ELSE x.f
  BY DEF Sit
<1>2. Err(x) = Done(z, "failure") BY DEF Err
<1> HIDE DEF z
<1> QED BY <1>1, <1>2, DoneIs

(* send_err_pkt: the peer is told, then err.                               *)
LEMMA SendErrIs ==
  ASSUME NEW x, Sit(x)
  PROVE  LET y == SendErrPkt(x) IN
         /\ Sit(y) /\ y.out = Just(Packet(x.p.peer, "ERROR", 0, <<>>, 0))
         /\ y.f = IF x.p.fd /\ ~x.p.put THEN NoFile ELSE x.f
         /\ y.p.at = "done" /\ y.p.result = "failure" /\ Same(x.p, y.p, {"at", "result"})
<1> DEFINE out == Just(Packet(x.p.peer, "ERROR", 0, <<>>, 0))
           z == [x EXCEPT !.out = out]
<1>1. Sit(z) /\ z.p = x.p /\ z.f = x.f /\ z.out = out BY DEF Sit
<1>2. SendErrPkt(x) = Err(z) BY DEF SendErrPkt, Just
<1> HIDE DEF z
<1> QED BY <1>1, <1>2, ErrIs

(* ret: success if the last block was sent or taken, else err.             *)
LEMMA RetIs ==
  ASSUME NEW x, Sit(x)
  PROVE  LET y == Ret(x) IN
         /\ Sit(y) /\ y.out = x.out /\ y.p.at = "done" /\ Same(x.p, y.p, {"at", "result"})
         /\ IF x.p.finished
            THEN y.f = x.f /\ y.p.result = "success"
            ELSE /\ y.f = IF x.p.fd /\ ~x.p.put THEN NoFile ELSE x.f
                 /\ y.p.result = "failure"
BY DoneIs, ErrIs DEF Ret

(* send_again: the same packet once more; it leaves after the final ACK.   *)
LEMMA SendAgainIs ==
  ASSUME NEW x, Sit(x)
  PROVE  LET y == SendAgain(x) IN
         /\ Sit(y) /\ y.out = Just(x.p.xbuf) /\ y.f = x.f /\ Same(x.p, y.p, {"at", "result"})
         /\ IF x.p.finished /\ x.p.opcode = "ACK"
            THEN y.p.at = "done" /\ y.p.result = "success"
            ELSE y.p = x.p
<1> DEFINE z == [x EXCEPT !.out = Just(x.p.xbuf)]
<1>1. Sit(z) /\ z.p = x.p /\ z.f = x.f /\ z.out = Just(x.p.xbuf) BY DEF Sit
<1>2. SendAgain(x) = IF x.p.finished /\ x.p.opcode = "ACK" THEN Ret(z) ELSE z
  BY DEF SendAgain, Just
<1> HIDE DEF z
<1>3. CASE x.p.finished /\ x.p.opcode = "ACK" BY <1>1, <1>2, <1>3, RetIs
<1>4. CASE ~(x.p.finished /\ x.p.opcode = "ACK") BY <1>1, <1>2, <1>4 DEF Same
<1> QED BY <1>3, <1>4

(* A packet goes out; with the ACK of the last block the process leaves.   *)
LEMMA SendPktIs ==
  ASSUME NEW x, Sit(x), NEW pkt
  PROVE  LET y == SendPkt(x, pkt) IN
         /\ Sit(y) /\ y.out = Just(pkt) /\ y.f = x.f /\ y.p.xbuf = pkt
         /\ Same(x.p, y.p, {"at", "result", "xbuf", "opcode", "retries"})
         /\ IF x.p.finished /\ pkt.op = "ACK"
            THEN y.p.at = "done" /\ y.p.result = "success"
            ELSE y.p.at = x.p.at /\ y.p.result = x.p.result
<1> DEFINE z == [x EXCEPT !.p.xbuf = pkt, !.p.opcode = pkt.op, !.p.retries = opts.retries]
<1>1. Sit(z) /\ z.f = x.f /\ z.p.xbuf = pkt /\ z.p.opcode = pkt.op
      /\ Same(x.p, z.p, {"xbuf", "opcode", "retries"})
  BY Zenon DEF Sit, Same, Fields
<1>2. SendPkt(x, pkt) = SendAgain(z) BY DEF SendPkt
<1> HIDE DEF z
<1>3. z.p.finished = x.p.finished /\ z.p.at = x.p.at /\ z.p.result = x.p.result
  BY <1>1 DEF Same, Fields
<1> DEFINE y == SendAgain(z)
<1>5. /\ Sit(y) /\ y.out = Just(z.p.xbuf) /\ y.f = z.f /\ Same(z.p, y.p, {"at", "result"})
      /\ IF z.p.finished /\ z.p.opcode = "ACK"
         THEN y.p.at = "done" /\ y.p.result = "success" ELSE y.p = z.p
  BY <1>1, SendAgainIs
<1>6. y.p.xbuf = pkt /\ Same(x.p, y.p, {"at", "result", "xbuf", "opcode", "retries"})
  BY <1>1, <1>5 DEF Same, Fields
<1> HIDE DEF y
<1> QED BY <1>1, <1>2, <1>3, <1>5, <1>6 DEF y

Ack(p) == Packet(p.peer, "ACK", p.block_nr, <<>>, 0)

(* The next packet of a receiver is the ACK of the block it is at.         *)
LEMMA BuildAck ==
  ASSUME NEW x, Sit(x), ~x.p.put, NEW ok
  PROVE  LET y == Build(x, ok) IN
         /\ Sit(y) /\ y.out = Just(Ack(x.p)) /\ y.f = x.f /\ y.p.xbuf = Ack(x.p)
         /\ y.p.block_nr = x.p.block_nr + 1
         /\ Same(x.p, y.p, {"at", "result", "xbuf", "opcode", "retries", "block_nr"})
         /\ IF x.p.finished
            THEN y.p.at = "done" /\ y.p.result = "success"
            ELSE y.p.at = x.p.at /\ y.p.result = x.p.result
<1> DEFINE z == [x EXCEPT !.p.block_nr = @ + 1]
<1>1. Sit(z) /\ z.f = x.f /\ z.p.block_nr = x.p.block_nr + 1 /\ Same(x.p, z.p, {"block_nr"})
  BY DEF Sit, Same, Fields
<1>2. Build(x, ok) = SendPkt(z, Ack(x.p)) BY DEF Build, Ack
<1> HIDE DEF z
<1>3. z.p.finished = x.p.finished /\ z.p.at = x.p.at /\ z.p.result = x.p.result
  BY <1>1 DEF Same, Fields
<1>4. Ack(x.p).op = "ACK" BY DEF Ack, Packet
<1>5. PICK a : a = Ack(x.p) OBVIOUS
<1> DEFINE y == SendPkt(z, a)
<1>7. /\ Sit(y) /\ y.out = Just(a) /\ y.f = z.f /\ y.p.xbuf = a
      /\ Same(z.p, y.p, {"at", "result", "xbuf", "opcode", "retries"})
      /\ IF z.p.finished /\ a.op = "ACK"
         THEN y.p.at = "done" /\ y.p.result = "success"
         ELSE y.p.at = z.p.at /\ y.p.result = z.p.result
  BY <1>1, SendPktIs, Zenon
<1> HIDE DEF y
<1>8. /\ y.p.block_nr = x.p.block_nr + 1
      /\ Same(x.p, y.p, {"at", "result", "xbuf", "opcode", "retries", "block_nr"})
  BY <1>1, <1>7 DEF Same, Fields
<1> QED BY <1>1, <1>2, <1>3, <1>4, <1>5, <1>7, <1>8 DEF y

Units(p) == SubSeq(File, p.pos + 1, Lower(p.pos + p.blksize, opts.size))
DataPacket(p) == Packet(p.peer, "DATA", p.block_nr, Units(p), 0)

(* The next packet of a sender is the next block of its file.              *)
LEMMA BuildData ==
  ASSUME NEW x, Sit(x), x.p.put, NEW ok, ok
  PROVE  LET y == Build(x, ok) IN
         /\ Sit(y) /\ y.out = Just(DataPacket(x.p)) /\ y.f = x.f /\ y.p.xbuf = DataPacket(x.p)
         /\ y.p.block_nr = x.p.block_nr + 1
         /\ y.p.pos = Lower(x.p.pos + x.p.blksize, opts.size)
         /\ y.p.finished = (Len(Units(x.p)) # x.p.blksize)
         /\ Same(x.p, y.p, {"xbuf", "opcode", "retries", "block_nr", "pos", "finished"})
<1> DEFINE last == Lower(x.p.pos + x.p.blksize, opts.size)
           data == Units(x.p)
           z == [x EXCEPT !.p.block_nr = @ + 1, !.p.pos = last,
                          !.p.finished = Len(data) # x.p.blksize]
<1>1. /\ Sit(z) /\ z.f = x.f /\ z.p.block_nr = x.p.block_nr + 1 /\ z.p.pos = last
      /\ z.p.finished = (Len(data) # x.p.blksize)
      /\ Same(x.p, z.p, {"block_nr", "pos", "finished"})
  BY Zenon DEF Sit, Same, Fields
<1>2. Build(x, ok) = SendPkt(z, DataPacket(x.p)) BY Zenon DEF Build, DataPacket, Units, Lower
<1> HIDE DEF z, last, data
<1>5. PICK a : a = DataPacket(x.p) OBVIOUS
<1>4. a.op # "ACK" BY <1>5 DEF DataPacket, Packet
<1> DEFINE y == SendPkt(z, a)
<1>7. /\ Sit(y) /\ y.out = Just(a) /\ y.f = z.f /\ y.p.xbuf = a
      /\ Same(z.p, y.p, {"at", "result", "xbuf", "opcode", "retries"})
      /\ IF z.p.finished /\ a.op = "ACK"
         THEN y.p.at = "done" /\ y.p.result = "success"
         ELSE y.p.at = z.p.at /\ y.p.result = z.p.result
  BY <1>1, SendPktIs, Zenon
<1> HIDE DEF y
<1>8. /\ y.p.block_nr = z.p.block_nr /\ y.p.pos = z.p.pos /\ y.p.finished = z.p.finished
      /\ Same(x.p, y.p, {"xbuf", "opcode", "retries", "block_nr", "pos", "finished"})
  BY <1>1, <1>4, <1>7 DEF Same, Fields
<1> QED BY <1>1, <1>2, <1>5, <1>7, <1>8, Zenon DEF last, data, y

(* A file that cannot be read or opened ends the transfer.                 *)
LEMMA BuildFails ==
  ASSUME NEW x, Sit(x), x.p.put, NEW ok \in BOOLEAN, ~ok
  PROVE  Build(x, ok) = SendErrPkt(x)
BY DEF Build

(* A write that fails ends the transfer and removes the file.              *)
LEMMA DataFails ==
  ASSUME NEW x, Sit(x), ~x.p.put, NEW m, NEW ok \in BOOLEAN, ~ok
  PROVE  LET y == Data(x, m, ok) IN
         /\ Sit(y) /\ y.out = Just(Packet(x.p.peer, "ERROR", 0, <<>>, 0)) /\ y.f = NoFile
         /\ y.p.fd /\ y.p.at = "done" /\ y.p.result = "failure"
         /\ Same(x.p, y.p, {"at", "result", "fd"})
<1> DEFINE z == [x EXCEPT !.p.fd = TRUE]
<1>1. Sit(z) /\ z.p.fd /\ Same(x.p, z.p, {"fd"}) /\ z.p.put = x.p.put /\ z.p.peer = x.p.peer
  BY DEF Sit, Same, Fields
<1>2. Data(x, m, ok) = SendErrPkt(z) BY DEF Data
<1> HIDE DEF z
<1> DEFINE y == SendErrPkt(z)
<1>3. /\ Sit(y) /\ y.out = Just(Packet(z.p.peer, "ERROR", 0, <<>>, 0))
      /\ y.f = IF z.p.fd /\ ~z.p.put THEN NoFile ELSE z.f
      /\ y.p.at = "done" /\ y.p.result = "failure" /\ Same(z.p, y.p, {"at", "result"})
  BY <1>1, SendErrIs
<1> HIDE DEF y
<1>4. y.p.fd /\ Same(x.p, y.p, {"at", "result", "fd"}) BY <1>1, <1>3 DEF Same, Fields
<1> QED BY <1>1, <1>2, <1>3, <1>4 DEF y

(* A block that full_write() took is acknowledged and counted; a short one *)
(* is the last.                                                            *)
LEMMA DataTaken ==
  ASSUME NEW x, Sit(x), ~x.p.put, NEW m, NEW ok \in BOOLEAN, ok
  PROVE  LET y == Data(x, m, ok) IN
         /\ Sit(y) /\ y.out = Just(Ack(x.p)) /\ y.p.xbuf = Ack(x.p)
         /\ y.f = IF x.p.mine
                  THEN [there |-> TRUE,
                        data |-> Written(IF x.p.fd THEN x.f.data ELSE <<>>, x.p.pos, m.data)]
                  ELSE x.f
         /\ y.p.block_nr = x.p.block_nr + 1 /\ y.p.pos = x.p.pos + Len(m.data) /\ y.p.fd
         /\ y.p.finished = (Len(m.data) # x.p.blksize)
         /\ Same(x.p, y.p, {"at", "result", "xbuf", "opcode", "retries", "block_nr", "fd", "pos",
                            "finished"})
         /\ IF Len(m.data) # x.p.blksize
            THEN y.p.at = "done" /\ y.p.result = "success"
            ELSE y.p.at = x.p.at /\ y.p.result = x.p.result
<1> DEFINE f == IF x.p.mine
                THEN [there |-> TRUE,
                      data |-> Written(IF x.p.fd THEN x.f.data ELSE <<>>, x.p.pos, m.data)]
                ELSE x.f
           fin == Len(m.data) # x.p.blksize
           w == [x EXCEPT !.p.fd = TRUE]
           z == [w EXCEPT !.f = f, !.p.pos = @ + Len(m.data), !.p.finished = fin]
<1>1. Data(x, m, ok) = Build(z, TRUE) BY DEF Data, Sit
<1>2. /\ Sit(z) /\ z.f = f /\ z.p.pos = x.p.pos + Len(m.data) /\ z.p.finished = fin /\ z.p.fd
      /\ Same(x.p, z.p, {"fd", "pos", "finished"}) /\ z.p.put = x.p.put
      /\ z.p.peer = x.p.peer /\ z.p.block_nr = x.p.block_nr
      /\ z.p.at = x.p.at /\ z.p.result = x.p.result
  <2> HIDE DEF f, fin
  <2> QED BY Zenon DEF Sit, Same, Fields
<1>3. Ack(z.p) = Ack(x.p) BY <1>2 DEF Ack
<1> HIDE DEF z, f, fin
<1> DEFINE y == Build(z, TRUE)
<1>4. /\ Sit(y) /\ y.out = Just(Ack(z.p)) /\ y.f = z.f /\ y.p.xbuf = Ack(z.p)
      /\ y.p.block_nr = z.p.block_nr + 1
      /\ Same(z.p, y.p, {"at", "result", "xbuf", "opcode", "retries", "block_nr"})
      /\ IF z.p.finished
         THEN y.p.at = "done" /\ y.p.result = "success"
         ELSE y.p.at = z.p.at /\ y.p.result = z.p.result
  BY <1>2, BuildAck, Zenon
<1> HIDE DEF y
<1>5. /\ y.p.pos = z.p.pos /\ y.p.fd /\ y.p.finished = z.p.finished
      /\ Same(x.p, y.p, {"at", "result", "xbuf", "opcode", "retries", "block_nr", "fd", "pos",
                         "finished"})
  BY <1>2, <1>4 DEF Same, Fields
<1> QED BY <1>1, <1>2, <1>3, <1>4, <1>5, Zenon DEF y, f, fin

-----------------------------------------------------------------------------
(* What a sender, and what a receiver, may do between two poll()s *)

ErrorTo(p) == Packet(p.peer, "ERROR", 0, <<>>, 0)
HoldFields == {"at", "result", "opcode", "retries", "expect_OACK", "blksize", "fd"}
Settled(p, q) ==
  IF q.expect_OACK THEN p.expect_OACK ELSE q.blksize = Block
Quiet(p, y) == \A o \in y.out : o \in {p.xbuf, ErrorTo(p)}

(* It resends, ignores what came, or leaves.                               *)
SenderHolds(p, f, y) ==
  /\ Sit(y) /\ Same(p, y.p, HoldFields) /\ Settled(p, y.p) /\ y.p.fd = p.fd
  /\ y.f = f /\ Quiet(p, y)
  /\ y.p.at \in {"wait", "done"} /\ (y.p.at = "wait" => y.p.result = p.result)

(* It sends the next block.                                                *)
SenderNext(p, f, y) ==
  /\ Sit(y) /\ y.f = f /\ y.out = Just(y.p.xbuf) /\ ~p.finished
  /\ y.p.xbuf = Packet(p.peer, "DATA", p.block_nr, Chunk(p.block_nr), 0)
  /\ y.p.block_nr = p.block_nr + 1 /\ y.p.pos \in Nat
  /\ ~y.p.finished => y.p.pos = p.pos + Block /\ y.p.pos <= opts.size
  /\ ~y.p.expect_OACK /\ y.p.blksize = Block
  /\ Same(p, y.p, {"xbuf", "opcode", "retries", "block_nr", "pos", "finished", "expect_OACK",
                   "blksize"})

(* Build() of a sender at its place in the file.                           *)
LEMMA BuildNext ==
  ASSUME opts \in Options, NEW x, Sit(x), x.p.put, NEW ok \in BOOLEAN, ok,
         x.p.block_nr \in Nat, x.p.block_nr >= 1, x.p.pos \in Nat,
         x.p.pos = (x.p.block_nr - 1) * Block, x.p.pos <= opts.size, x.p.blksize = Block,
         ~x.p.finished, ~x.p.expect_OACK
  PROVE  SenderNext(x.p, x.f, Build(x, ok))
<1> DEFINE p == x.p
           y == Build(x, ok)
<1>1. opts.size \in Nat /\ Block \in Nat BY OptsAre
<1>2. PICK n \in Nat : n = p.block_nr OBVIOUS
<1>3. PICK pos \in Nat : pos = p.pos OBVIOUS
<1>4. Units(p) = Chunk(n) /\ Len(Chunk(n)) = Lower(pos + Block, opts.size) - pos
  BY <1>2, <1>3, UnitsAreChunk DEF Units
<1>5. /\ Sit(y) /\ y.out = Just(DataPacket(p)) /\ y.f = x.f /\ y.p.xbuf = DataPacket(p)
      /\ y.p.block_nr = p.block_nr + 1
      /\ y.p.pos = Lower(p.pos + p.blksize, opts.size)
      /\ y.p.finished = (Len(Units(p)) # p.blksize)
      /\ Same(p, y.p, {"xbuf", "opcode", "retries", "block_nr", "pos", "finished"})
  BY BuildData, Zenon
<1> HIDE DEF y
<1>6. DataPacket(p) = Packet(p.peer, "DATA", p.block_nr, Chunk(p.block_nr), 0)
  BY <1>2, <1>4 DEF DataPacket
<1>7. y.p.pos = Lower(pos + Block, opts.size) BY <1>3, <1>5
<1>8. y.p.pos \in Nat /\ y.p.pos <= opts.size BY <1>1, <1>3, <1>7, LowerIs, Zenon
<1>9. ~y.p.finished => y.p.pos = p.pos + Block
  <2>1. SUFFICES ASSUME ~y.p.finished PROVE y.p.pos = p.pos + Block OBVIOUS
  <2>2. Lower(pos + Block, opts.size) - pos = Block BY <1>4, <1>5, <2>1, Zenon
  <2> QED BY <1>1, <1>3, <1>7, <2>2, LowerIs, Zenon
<1>10. /\ ~y.p.expect_OACK /\ y.p.blksize = Block
       /\ Same(p, y.p, {"xbuf", "opcode", "retries", "block_nr", "pos", "finished",
                        "expect_OACK", "blksize"})
  BY <1>5 DEF Same, Fields
<1> QED BY <1>5, <1>6, <1>8, <1>9, <1>10, Zenon DEF SenderNext, y

(* The state in which Receive looks at an answer that is no ERROR.         *)
Seen(p, m) ==
  [p EXCEPT !.opcode = m.op, !.expect_OACK = FALSE,
            !.block_nr = IF p.expect_OACK /\ m.op = "OACK" /\ ~p.put THEN 0 ELSE @,
            !.blksize = IF p.expect_OACK /\ m.op = "OACK" THEN m.opt
                        ELSE IF p.expect_OACK THEN Default ELSE @]

(* The first answer settles the block size and whether there are options.  *)
LEMMA SeenIs ==
  ASSUME NEW p, ProcOK(p), NEW m, PacketOK(m), m.op # "ERROR",
         p.expect_OACK /\ m.op # "OACK" => Block = Default
  PROVE  LET q == Seen(p, m) IN
         /\ DOMAIN q = Fields /\ Same(p, q, {"opcode", "expect_OACK", "block_nr", "blksize"})
         /\ ~q.expect_OACK /\ q.blksize = Block
         /\ q.block_nr = IF p.expect_OACK /\ m.op = "OACK" /\ ~p.put THEN 0 ELSE p.block_nr
<1>1. DOMAIN p = Fields BY DEF ProcOK
<1>2. m.op = "OACK" => m.opt = Block BY DEF PacketOK
<1>3. ~p.expect_OACK => p.blksize = Block BY DEF ProcOK
<1> QED BY <1>1, <1>2, <1>3, Zenon DEF Seen, Same, Fields

(* The cases of a packet that has been received, in the order of the code. *)
LEMMA ReceiveIs ==
  ASSUME NEW p, DOMAIN p = Fields, NEW f, NEW m, NEW ok
  PROVE  LET x == Situation(Seen(p, m), f) IN
         Receive(Situation(p, f), m, ok) =
           CASE m.op = "ERROR" -> Ret(Situation([p EXCEPT !.opcode = m.op], f))
             [] p.expect_OACK /\ m.op = "OACK" -> Build(x, ok)
             [] Wanted(Seen(p, m), m) -> Data(x, m, ok)
             [] Acked(Seen(p, m), m) -> IF Seen(p, m).finished THEN Ret(x) ELSE Build(x, ok)
             [] OTHER -> x
BY DEF Receive, Situation, Seen

(* A round of the loop starts with nothing sent.                           *)
LEMMA SituationIs ==
  ASSUME NEW p, DOMAIN p = Fields, NEW f
  PROVE  LET x == Situation(p, f) IN Sit(x) /\ x.p = p /\ x.f = f /\ x.out = {}
BY DEF Situation, Sit

(* ret: of a sender; its file stays.                                       *)
LEMMA SenderLeaves ==
  ASSUME NEW p, ProcOK(p), p.put, NEW q, DOMAIN q = Fields, NEW f,
         Same(p, q, {"opcode", "retries", "expect_OACK", "blksize"}), Settled(p, q)
  PROVE  SenderHolds(p, f, Ret(Situation(q, f)))
<1> DEFINE x == Situation(q, f)
           y == Ret(x)
<1>1. Sit(x) /\ x.p = q /\ x.f = f /\ x.out = {} BY SituationIs
<1> HIDE DEF x
<1>2. /\ Sit(y) /\ y.out = x.out /\ y.p.at = "done" /\ Same(x.p, y.p, {"at", "result"})
      /\ IF x.p.finished
         THEN y.f = x.f /\ y.p.result = "success"
         ELSE /\ y.f = IF x.p.fd /\ ~x.p.put THEN NoFile ELSE x.f
              /\ y.p.result = "failure"
  BY <1>1, RetIs
<1> HIDE DEF y
<1>3. q.put /\ q.fd = p.fd BY DEF Same, Fields
<1>4. Same(p, y.p, HoldFields) /\ y.p.fd = p.fd BY <1>1, <1>2, <1>3 DEF Same, Fields, HoldFields
<1>5. Settled(p, y.p) BY <1>1, <1>2 DEF Settled, Same, Fields
<1>6. y.f = f BY <1>1, <1>2, <1>3
<1> QED BY <1>1, <1>2, <1>4, <1>5, <1>6 DEF SenderHolds, Quiet, y, x

(* An answer makes a sender send the next block if it acknowledges the     *)
(* last one, or the options, and the file can be read.                     *)
LEMMA SenderReceives ==
  ASSUME opts \in Options, NEW p, ProcOK(p), SenderOK(p), p.at = "wait", NEW f,
         NEW m, PacketOK(m), NEW ok \in BOOLEAN,
         p.expect_OACK /\ m.op \notin {"OACK", "ERROR"} => Block = Default
  PROVE  LET y == Receive(Situation(p, f), m, ok) IN
         \/ SenderHolds(p, f, y)
         \/ /\ SenderNext(p, f, y)
            /\ p.expect_OACK \/ (m.op = "ACK" /\ m.nr = (p.block_nr - 1) % opts.mod)
<1> DEFINE q == Seen(p, m)
           x == Situation(q, f)
           y == Receive(Situation(p, f), m, ok)
<1>1. DOMAIN p = Fields /\ p.put BY DEF ProcOK, SenderOK
<1>2. y = CASE m.op = "ERROR" -> Ret(Situation([p EXCEPT !.opcode = m.op], f))
            [] p.expect_OACK /\ m.op = "OACK" -> Build(x, ok)
            [] Wanted(q, m) -> Data(x, m, ok)
            [] Acked(q, m) -> IF q.finished THEN Ret(x) ELSE Build(x, ok)
            [] OTHER -> x
  BY <1>1, ReceiveIs
<1> HIDE DEF y
<1>3. CASE m.op = "ERROR"
  <2> DEFINE r == [p EXCEPT !.opcode = m.op]
  <2>1. DOMAIN r = Fields /\ Same(p, r, {"opcode", "retries", "expect_OACK", "blksize"})
    BY <1>1 DEF Same, Fields
  <2>2. Settled(p, r) BY <1>1, Zenon DEF Settled, ProcOK, Fields
  <2> HIDE DEF r
  <2>3. SenderHolds(p, f, Ret(Situation(r, f))) BY <1>1, <2>1, <2>2, SenderLeaves
  <2>4. y = Ret(Situation([p EXCEPT !.opcode = m.op], f)) BY <1>2, <1>3 DEF Wanted, Acked
  <2> QED BY <2>3, <2>4 DEF r, y
<1>4. CASE m.op # "ERROR"
  <2>1. /\ DOMAIN q = Fields /\ Same(p, q, {"opcode", "expect_OACK", "block_nr", "blksize"})
        /\ ~q.expect_OACK /\ q.blksize = Block
        /\ q.block_nr = IF p.expect_OACK /\ m.op = "OACK" /\ ~p.put THEN 0 ELSE p.block_nr
    BY <1>4, SeenIs
  <2> HIDE DEF q
  <2>2. q.block_nr = p.block_nr BY <1>1, <2>1
  <2>3. Same(p, q, {"opcode", "retries", "expect_OACK", "blksize"})
    BY <2>1, <2>2 DEF Same, Fields
  <2>4. /\ q.put /\ q.finished = p.finished /\ q.pos = p.pos /\ q.fd = p.fd /\ q.at = "wait"
        /\ q.result = p.result /\ q.peer = p.peer
    BY <1>1, <2>3 DEF Same, Fields
  <2>5. Settled(p, q) BY <2>1 DEF Settled
  <2>6. Sit(x) /\ x.p = q /\ x.f = f /\ x.out = {} BY <2>1, SituationIs
  <2>7. SenderHolds(p, f, Ret(x)) BY <1>1, <2>1, <2>3, <2>5, SenderLeaves
  <2>8. SenderHolds(p, f, x)
    BY <2>3, <2>4, <2>5, <2>6 DEF SenderHolds, Same, Fields, HoldFields, Quiet
  <2> HIDE DEF x
  <2>9. ~p.finished /\ ok => SenderNext(p, f, Build(x, ok))
    <3>1. SUFFICES ASSUME ~p.finished, ok PROVE SenderNext(p, f, Build(x, ok)) BY Zenon
    <3>2. /\ p.block_nr \in Nat /\ p.block_nr >= 1 /\ p.pos \in Nat
          /\ p.pos = (p.block_nr - 1) * Block /\ p.pos <= opts.size
      BY <3>1 DEF ProcOK, SenderOK
    <3>3. SenderNext(x.p, x.f, Build(x, ok)) BY <2>1, <2>2, <2>4, <2>6, <3>1, <3>2, BuildNext, Zenon
    <3> DEFINE z == Build(x, ok)
    <3> HIDE DEF z
    <3>4. SenderNext(q, f, z) BY <2>6, <3>3 DEF z
    <3>5. /\ Sit(z) /\ z.f = f /\ z.out = Just(z.p.xbuf)
          /\ z.p.xbuf = Packet(p.peer, "DATA", p.block_nr, Chunk(p.block_nr), 0)
          /\ z.p.block_nr = p.block_nr + 1 /\ z.p.pos \in Nat
          /\ ~z.p.finished => z.p.pos = p.pos + Block /\ z.p.pos <= opts.size
          /\ ~z.p.expect_OACK /\ z.p.blksize = Block
      BY <2>2, <2>4, <3>4 DEF SenderNext
    <3>6. Same(q, z.p, {"xbuf", "opcode", "retries", "block_nr", "pos", "finished",
                        "expect_OACK", "blksize"})
      BY <3>4 DEF SenderNext
    <3>7. Same(p, z.p, {"xbuf", "opcode", "retries", "block_nr", "pos", "finished",
                        "expect_OACK", "blksize"})
      BY <2>3, <3>6 DEF Same, Fields
    <3> QED BY <3>1, <3>5, <3>7, Zenon DEF SenderNext, z
  <2>10. ~ok => SenderHolds(p, f, Build(x, ok))
    <3>1. SUFFICES ASSUME ~ok PROVE SenderHolds(p, f, Build(x, ok)) OBVIOUS
    <3>2. Build(x, ok) = SendErrPkt(x) BY <2>4, <2>6, <3>1, BuildFails
    <3> DEFINE z == SendErrPkt(x)
    <3>3. /\ Sit(z) /\ z.out = Just(Packet(x.p.peer, "ERROR", 0, <<>>, 0))
          /\ z.f = IF x.p.fd /\ ~x.p.put THEN NoFile ELSE x.f
          /\ z.p.at = "done" /\ z.p.result = "failure" /\ Same(x.p, z.p, {"at", "result"})
      BY <2>6, SendErrIs
    <3> HIDE DEF z
    <3>4. Same(p, z.p, HoldFields) /\ z.p.fd = p.fd /\ Settled(p, z.p)
      BY <2>3, <2>4, <2>5, <2>6, <3>3 DEF Same, Fields, HoldFields, Settled
    <3>5. Quiet(p, z) BY <2>4, <2>6, <3>3 DEF Quiet, ErrorTo, Just
    <3>6. z.f = f BY <2>4, <2>6, <3>3
    <3> QED BY <3>2, <3>3, <3>4, <3>5, <3>6 DEF SenderHolds, z
  <2>11. p.expect_OACK => ~p.finished BY DEF ProcOK
  <2>12. ~Wanted(q, m) BY <2>4 DEF Wanted
  <2>13. CASE p.expect_OACK /\ m.op = "OACK"
    <3>1. y = Build(x, ok) BY <1>2, <1>4, <2>12, <2>13 DEF Acked
    <3> QED BY <2>9, <2>10, <2>11, <2>13, <3>1 DEF y
  <2>14. CASE ~(p.expect_OACK /\ m.op = "OACK") /\ Acked(q, m)
    <3>1. y = IF p.finished THEN Ret(x) ELSE Build(x, ok) BY <1>2, <1>4, <2>4, <2>12, <2>14
    <3>2. m.op = "ACK" /\ m.nr = (p.block_nr - 1) % opts.mod BY <2>2, <2>14 DEF Acked
    <3> QED BY <2>7, <2>9, <2>10, <3>1, <3>2 DEF y
  <2>15. CASE ~(p.expect_OACK /\ m.op = "OACK") /\ ~Acked(q, m)
    <3>1. y = x BY <1>2, <1>4, <2>12, <2>15
    <3> QED BY <2>8, <3>1 DEF y
  <2> QED BY <2>13, <2>14, <2>15
<1> QED BY <1>3, <1>4

(* A timeout, or an error of the socket, never makes it send what is new.  *)
LEMMA SenderTimesOut ==
  ASSUME NEW p, ProcOK(p), SenderOK(p), p.at = "wait", NEW f
  PROVE  /\ SenderHolds(p, f, Timeout(Situation(p, f)))
         /\ SenderHolds(p, f, Ret(Situation(p, f)))
         /\ SenderHolds(p, f, SendErrPkt(Situation(p, f)))
<1>1. DOMAIN p = Fields /\ p.put BY DEF ProcOK, SenderOK
<1>2. Settled(p, p) BY DEF Settled, ProcOK
<1> DEFINE x == Situation(p, f)
           w == Timeout(x)
<1>3. Sit(x) /\ x.p = p /\ x.f = f /\ x.out = {} BY <1>1, SituationIs
<1>4. SenderHolds(p, f, Ret(x)) BY <1>1, <1>2, SenderLeaves DEF Same
<1>5. SenderHolds(p, f, SendErrPkt(x))
  <2> DEFINE z == SendErrPkt(x)
  <2> HIDE DEF x
  <2>1. /\ Sit(z) /\ z.out = Just(Packet(x.p.peer, "ERROR", 0, <<>>, 0))
        /\ z.f = IF x.p.fd /\ ~x.p.put THEN NoFile ELSE x.f
        /\ z.p.at = "done" /\ z.p.result = "failure" /\ Same(x.p, z.p, {"at", "result"})
    BY <1>3, SendErrIs
  <2> HIDE DEF z
  <2>2. Same(p, z.p, HoldFields) /\ z.p.fd = p.fd /\ Settled(p, z.p)
    BY <1>2, <1>3, <2>1 DEF Same, Fields, HoldFields, Settled
  <2>3. Quiet(p, z) BY <1>3, <2>1 DEF Quiet, ErrorTo, Just
  <2>4. z.f = f BY <1>1, <1>3, <2>1
  <2> QED BY <2>1, <2>2, <2>3, <2>4 DEF SenderHolds, z
<1>6. SenderHolds(p, f, w)
  <2>1. CASE p.retries = 1
    <3> DEFINE q == [p EXCEPT !.retries = 0]
    <3>1. DOMAIN q = Fields /\ Same(p, q, {"opcode", "retries", "expect_OACK", "blksize"})
      BY <1>1 DEF Same, Fields
    <3>2. Settled(p, q) BY <1>1, <1>2 DEF Settled, Fields
    <3>3. [x EXCEPT !.p.retries = 0] = Situation(q, f) BY DEF Situation
    <3>4. w = Ret(Situation(q, f)) BY <2>1, <1>3, <3>3 DEF Timeout
    <3> HIDE DEF q
    <3>5. SenderHolds(p, f, Ret(Situation(q, f))) BY <1>1, <3>1, <3>2, SenderLeaves
    <3> QED BY <3>4, <3>5
  <2>2. CASE p.retries # 1 /\ p.retries > 1 /\ p.err
    <3>1. w = Done(x, "died") BY <2>2, <1>3 DEF Timeout
    <3> HIDE DEF x
    <3> DEFINE z == Done(x, "died")
    <3>2. /\ Sit(z) /\ z.f = x.f /\ z.out = x.out
          /\ z.p.at = "done" /\ z.p.result = "died" /\ Same(x.p, z.p, {"at", "result"})
      BY <1>3, DoneIs
    <3> HIDE DEF z
    <3>3. Same(p, z.p, HoldFields) /\ z.p.fd = p.fd /\ Settled(p, z.p)
      BY <1>2, <1>3, <3>2 DEF Same, Fields, HoldFields, Settled
    <3>4. SenderHolds(p, f, z) BY <1>3, <3>2, <3>3 DEF SenderHolds, Quiet
    <3> QED BY <3>1, <3>4 DEF z
  <2>3. CASE p.retries # 1 /\ ~(p.retries > 1 /\ p.err)
    <3> DEFINE v == [x EXCEPT !.p.retries = @ - 1]
               z == SendAgain(v)
    <3>1. w = z BY <2>3, <1>3 DEF Timeout
    <3>2. Sit(v) /\ v.f = f /\ v.p.xbuf = p.xbuf /\ Same(p, v.p, {"retries"})
      <4> HIDE DEF x
      <4> QED BY <1>3 DEF Sit, Same, Fields
    <3> HIDE DEF v
    <3>3. /\ Sit(z) /\ z.out = Just(v.p.xbuf) /\ z.f = v.f /\ Same(v.p, z.p, {"at", "result"})
          /\ IF v.p.finished /\ v.p.opcode = "ACK"
             THEN z.p.at = "done" /\ z.p.result = "success" ELSE z.p = v.p
      BY <3>2, SendAgainIs
    <3> HIDE DEF z
    <3>4. /\ Same(p, z.p, HoldFields) /\ z.p.fd = p.fd /\ Settled(p, z.p)
          /\ (z.p.at = "done" \/ (z.p.at = "wait" /\ z.p.result = p.result))
      BY <1>2, <3>2, <3>3 DEF Same, Fields, HoldFields, Settled
    <3>5. SenderHolds(p, f, z) BY <3>2, <3>3, <3>4 DEF SenderHolds, Quiet, Just
    <3> QED BY <3>1, <3>5
  <2> QED BY <2>1, <2>2, <2>3
<1> QED BY <1>4, <1>5, <1>6

(* A receiver resends its ACK or ignores what came.                        *)
ReceiverHolds(p, f, y) ==
  /\ Sit(y) /\ Same(p, y.p, {"opcode", "retries", "expect_OACK", "blksize"})
  /\ Settled(p, y.p) /\ y.f = f /\ Quiet(p, y)

(* It fails, and removes what it has written.                              *)
ReceiverFails(p, f, y) ==
  /\ Sit(y) /\ Same(p, y.p, HoldFields) /\ Settled(p, y.p) /\ Quiet(p, y)
  /\ y.p.at = "done" /\ y.p.result = "failure"
  /\ y.p.fd = p.fd \/ (y.p.fd /\ ~y.p.expect_OACK)
  /\ y.f = IF y.p.fd THEN NoFile ELSE f

(* It dies of an error of the socket.                                      *)
ReceiverDies(p, f, y) ==
  /\ Sit(y) /\ Same(p, y.p, {"at", "result"}) /\ Quiet(p, y)
  /\ y.p.at = "done" /\ y.p.result = "died" /\ p.err /\ y.f = f

(* It acknowledges the options.                                            *)
ReceiverStarts(p, f, y) ==
  /\ Sit(y) /\ y.f = f /\ y.out = Just(y.p.xbuf) /\ p.expect_OACK
  /\ y.p.xbuf = Packet(p.peer, "ACK", 0, <<>>, 0)
  /\ ~y.p.expect_OACK /\ y.p.blksize = Block
  /\ Same(p, y.p, {"xbuf", "opcode", "retries", "expect_OACK", "blksize"})

(* It writes the block of m, and leaves if this is the last.               *)
ReceiverTakes(p, f, m, y) ==
  /\ m.op = "DATA" /\ m.nr = p.block_nr % opts.mod
  /\ Sit(y) /\ y.out = Just(Ack(p)) /\ y.p.xbuf = Ack(p)
  /\ y.f = IF p.mine
           THEN [there |-> TRUE,
                 data |-> Written(IF p.fd THEN f.data ELSE <<>>, p.pos, m.data)]
           ELSE f
  /\ y.p.block_nr = p.block_nr + 1 /\ y.p.pos = p.pos + Len(m.data) /\ y.p.fd
  /\ y.p.finished = (Len(m.data) # Block)
  /\ ~y.p.expect_OACK /\ y.p.blksize = Block
  /\ Same(p, y.p, {"at", "result", "xbuf", "opcode", "retries", "block_nr", "fd", "pos",
                   "finished", "expect_OACK", "blksize"})
  /\ IF Len(m.data) # Block
     THEN y.p.at = "done" /\ y.p.result = "success"
     ELSE y.p.at = p.at /\ y.p.result = p.result

(* ret: of a receiver that has not finished; its file goes.                *)
LEMMA ReceiverLeaves ==
  ASSUME NEW p, ProcOK(p), ~p.put, ~p.finished, NEW q, DOMAIN q = Fields, NEW f,
         Same(p, q, {"opcode", "retries", "expect_OACK", "blksize"}), Settled(p, q)
  PROVE  ReceiverFails(p, f, Ret(Situation(q, f)))
<1> DEFINE x == Situation(q, f)
           y == Ret(x)
<1>1. Sit(x) /\ x.p = q /\ x.f = f /\ x.out = {} BY SituationIs
<1> HIDE DEF x
<1>2. /\ Sit(y) /\ y.out = x.out /\ y.p.at = "done" /\ Same(x.p, y.p, {"at", "result"})
      /\ IF x.p.finished
         THEN y.f = x.f /\ y.p.result = "success"
         ELSE /\ y.f = IF x.p.fd /\ ~x.p.put THEN NoFile ELSE x.f
              /\ y.p.result = "failure"
  BY <1>1, RetIs
<1> HIDE DEF y
<1>3. ~q.put /\ q.fd = p.fd /\ ~q.finished BY DEF Same, Fields
<1>4. Same(p, y.p, HoldFields) /\ y.p.fd = p.fd BY <1>1, <1>2, <1>3 DEF Same, Fields, HoldFields
<1>5. Settled(p, y.p) BY <1>1, <1>2 DEF Settled, Same, Fields
<1>6. y.f = IF y.p.fd THEN NoFile ELSE f BY <1>1, <1>2, <1>3, <1>4
<1> QED BY <1>1, <1>2, <1>3, <1>4, <1>5, <1>6 DEF ReceiverFails, Quiet, y, x

(* What an answer makes a receiver do.                                     *)
LEMMA ReceiverReceives ==
  ASSUME opts \in Options, NEW p, ProcOK(p), ReceiverOK(p), p.at = "wait", NEW f,
         NEW m, PacketOK(m), NEW ok \in BOOLEAN,
         p.expect_OACK /\ m.op \notin {"OACK", "ERROR"} => Block = Default
  PROVE  LET y == Receive(Situation(p, f), m, ok) IN
         \/ ReceiverHolds(p, f, y)
         \/ ReceiverFails(p, f, y)
         \/ ReceiverStarts(p, f, y) /\ m.op = "OACK"
         \/ ReceiverTakes(p, f, m, y)
<1> DEFINE q == Seen(p, m)
           x == Situation(q, f)
           y == Receive(Situation(p, f), m, ok)
<1>1. DOMAIN p = Fields /\ ~p.put /\ ~p.finished BY DEF ProcOK, ReceiverOK
<1>2. y = CASE m.op = "ERROR" -> Ret(Situation([p EXCEPT !.opcode = m.op], f))
            [] p.expect_OACK /\ m.op = "OACK" -> Build(x, ok)
            [] Wanted(q, m) -> Data(x, m, ok)
            [] Acked(q, m) -> IF q.finished THEN Ret(x) ELSE Build(x, ok)
            [] OTHER -> x
  BY <1>1, ReceiveIs
<1> HIDE DEF y
<1>3. CASE m.op = "ERROR"
  <2> DEFINE r == [p EXCEPT !.opcode = m.op]
  <2>1. DOMAIN r = Fields /\ Same(p, r, {"opcode", "retries", "expect_OACK", "blksize"})
    BY <1>1 DEF Same, Fields
  <2>2. Settled(p, r) BY <1>1 DEF Settled, ProcOK, Fields
  <2> HIDE DEF r
  <2>3. ReceiverFails(p, f, Ret(Situation(r, f))) BY <1>1, <2>1, <2>2, ReceiverLeaves
  <2>4. y = Ret(Situation([p EXCEPT !.opcode = m.op], f)) BY <1>2, <1>3 DEF Wanted, Acked
  <2> QED BY <2>3, <2>4 DEF r, y
<1>4. CASE m.op # "ERROR"
  <2>1. /\ DOMAIN q = Fields /\ Same(p, q, {"opcode", "expect_OACK", "block_nr", "blksize"})
        /\ ~q.expect_OACK /\ q.blksize = Block
        /\ q.block_nr = IF p.expect_OACK /\ m.op = "OACK" /\ ~p.put THEN 0 ELSE p.block_nr
    BY <1>4, SeenIs
  <2> HIDE DEF q
  <2>2. /\ ~q.put /\ ~q.finished /\ q.pos = p.pos /\ q.fd = p.fd /\ q.at = "wait"
        /\ q.mine = p.mine /\ q.result = p.result /\ q.peer = p.peer
    BY <1>1, <2>1 DEF Same, Fields
  <2>3. Settled(p, q) BY <2>1 DEF Settled
  <2>4. Sit(x) /\ x.p = q /\ x.f = f /\ x.out = {} BY <2>1, SituationIs
  <2> HIDE DEF x
  <2>5. ~Acked(q, m) BY <2>2 DEF Acked
  <2>6. CASE p.expect_OACK /\ m.op = "OACK"
    <3> DEFINE z == Build(x, ok)
    <3>1. y = z BY <1>2, <1>4, <2>5, <2>6 DEF Wanted
    <3>2. /\ Sit(z) /\ z.out = Just(Ack(x.p)) /\ z.f = x.f /\ z.p.xbuf = Ack(x.p)
          /\ z.p.block_nr = x.p.block_nr + 1
          /\ Same(x.p, z.p, {"at", "result", "xbuf", "opcode", "retries", "block_nr"})
          /\ IF x.p.finished
             THEN z.p.at = "done" /\ z.p.result = "success"
             ELSE z.p.at = x.p.at /\ z.p.result = x.p.result
      BY <2>2, <2>4, BuildAck
    <3> HIDE DEF z
    <3>3. q.block_nr = 0 /\ p.block_nr = 1 BY <1>1, <2>1, <2>6 DEF ProcOK
    <3>4. z.p.block_nr = p.block_nr BY <2>4, <3>2, <3>3
    <3>5. Ack(x.p) = Packet(p.peer, "ACK", 0, <<>>, 0) BY <2>2, <2>4, <3>3 DEF Ack
    <3>6. ~z.p.expect_OACK /\ z.p.blksize = Block
          /\ Same(p, z.p, {"xbuf", "opcode", "retries", "expect_OACK", "blksize"})
      BY <2>1, <2>2, <2>4, <3>2, <3>4 DEF Same, Fields
    <3>7. ReceiverStarts(p, f, z) BY <2>4, <2>6, <3>2, <3>5, <3>6 DEF ReceiverStarts
    <3> QED BY <2>6, <3>1, <3>7 DEF y
  <2>7. CASE ~(p.expect_OACK /\ m.op = "OACK")
    <3>1. q.block_nr = p.block_nr BY <2>1, <2>7
    <3>2. Same(p, q, {"opcode", "retries", "expect_OACK", "blksize"})
      BY <2>1, <3>1 DEF Same, Fields
    <3>3. CASE ~Wanted(q, m)
      <4>1. y = x BY <1>2, <1>4, <2>5, <2>7, <3>3
      <4>2. ReceiverHolds(p, f, x) BY <2>3, <2>4, <3>2 DEF ReceiverHolds, Quiet
      <4> QED BY <4>1, <4>2 DEF y
    <3>4. CASE Wanted(q, m) /\ ~ok
      <4> DEFINE z == Data(x, m, ok)
      <4>1. y = z BY <1>2, <1>4, <2>5, <2>7, <3>4
      <4>2. /\ Sit(z) /\ z.out = Just(Packet(x.p.peer, "ERROR", 0, <<>>, 0)) /\ z.f = NoFile
            /\ z.p.fd /\ z.p.at = "done" /\ z.p.result = "failure"
            /\ Same(x.p, z.p, {"at", "result", "fd"})
        BY <2>2, <2>4, <3>4, DataFails
      <4> HIDE DEF z
      <4>3. Same(p, z.p, HoldFields) /\ Settled(p, z.p) /\ ~z.p.expect_OACK
        BY <2>1, <2>4, <3>2, <4>2 DEF Same, Fields, HoldFields, Settled
      <4>4. Quiet(p, z) BY <2>2, <2>4, <4>2 DEF Quiet, ErrorTo, Just
      <4>5. ReceiverFails(p, f, z) BY <4>2, <4>3, <4>4, Zenon DEF ReceiverFails
      <4> QED BY <4>1, <4>5 DEF y
    <3>5. CASE Wanted(q, m) /\ ok
      <4> DEFINE z == Data(x, m, ok)
      <4>1. y = z BY <1>2, <1>4, <2>5, <2>7, <3>5
      <4>2. /\ Sit(z) /\ z.out = Just(Ack(x.p)) /\ z.p.xbuf = Ack(x.p)
            /\ z.f = IF x.p.mine
                     THEN [there |-> TRUE,
                           data |-> Written(IF x.p.fd THEN x.f.data ELSE <<>>, x.p.pos, m.data)]
                     ELSE x.f
            /\ z.p.block_nr = x.p.block_nr + 1 /\ z.p.pos = x.p.pos + Len(m.data) /\ z.p.fd
            /\ z.p.finished = (Len(m.data) # x.p.blksize)
            /\ Same(x.p, z.p, {"at", "result", "xbuf", "opcode", "retries", "block_nr", "fd",
                               "pos", "finished"})
            /\ IF Len(m.data) # x.p.blksize
               THEN z.p.at = "done" /\ z.p.result = "success"
               ELSE z.p.at = x.p.at /\ z.p.result = x.p.result
        <5>1. Sit(x) /\ ~x.p.put /\ ok BY <2>2, <2>4, <3>5
        <5> QED BY <5>1, DataTaken, Zenon
      <4> HIDE DEF z
      <4>3. Ack(x.p) = Ack(p) BY <2>2, <2>4, <3>1 DEF Ack
      <4>4. m.op = "DATA" /\ m.nr = p.block_nr % opts.mod BY <3>1, <3>5 DEF Wanted
      <4>5. /\ ~z.p.expect_OACK /\ z.p.blksize = Block
            /\ Same(p, z.p, {"at", "result", "xbuf", "opcode", "retries", "block_nr", "fd",
                             "pos", "finished", "expect_OACK", "blksize"})
        BY <2>1, <2>4, <3>2, <4>2 DEF Same, Fields
      <4>6. /\ z.f = IF p.mine
                     THEN [there |-> TRUE,
                           data |-> Written(IF p.fd THEN f.data ELSE <<>>, p.pos, m.data)]
                     ELSE f
            /\ z.p.block_nr = p.block_nr + 1 /\ z.p.pos = p.pos + Len(m.data) /\ z.p.fd
            /\ z.p.finished = (Len(m.data) # Block)
            /\ IF Len(m.data) # Block
               THEN z.p.at = "done" /\ z.p.result = "success"
               ELSE z.p.at = p.at /\ z.p.result = p.result
        BY <2>1, <2>2, <2>4, <3>1, <4>2
      <4>7. ReceiverTakes(p, f, m, z) BY <4>2, <4>3, <4>4, <4>5, <4>6 DEF ReceiverTakes
      <4> QED BY <4>1, <4>7 DEF y
    <3> QED BY <3>3, <3>4, <3>5
  <2> QED BY <2>6, <2>7
<1> QED BY <1>3, <1>4

(* A timeout, or an error of the socket, never makes it take a block.      *)
LEMMA ReceiverTimesOut ==
  ASSUME NEW p, ProcOK(p), ReceiverOK(p), p.at = "wait", NEW f
  PROVE  /\ LET y == Timeout(Situation(p, f)) IN
            ReceiverHolds(p, f, y) \/ ReceiverFails(p, f, y) \/ ReceiverDies(p, f, y)
         /\ ReceiverFails(p, f, Ret(Situation(p, f)))
         /\ ReceiverFails(p, f, SendErrPkt(Situation(p, f)))
<1>1. DOMAIN p = Fields /\ ~p.put /\ ~p.finished BY DEF ProcOK, ReceiverOK
<1>2. Settled(p, p) BY DEF Settled, ProcOK
<1> DEFINE x == Situation(p, f)
           w == Timeout(x)
<1>3. Sit(x) /\ x.p = p /\ x.f = f /\ x.out = {} BY <1>1, SituationIs
<1>4. ReceiverFails(p, f, Ret(x)) BY <1>1, <1>2, ReceiverLeaves DEF Same
<1>5. ReceiverFails(p, f, SendErrPkt(x))
  <2> DEFINE z == SendErrPkt(x)
  <2> HIDE DEF x
  <2>1. /\ Sit(z) /\ z.out = Just(Packet(x.p.peer, "ERROR", 0, <<>>, 0))
        /\ z.f = IF x.p.fd /\ ~x.p.put THEN NoFile ELSE x.f
        /\ z.p.at = "done" /\ z.p.result = "failure" /\ Same(x.p, z.p, {"at", "result"})
    BY <1>3, SendErrIs
  <2> HIDE DEF z
  <2>2. Same(p, z.p, HoldFields) /\ z.p.fd = p.fd /\ Settled(p, z.p)
    BY <1>2, <1>3, <2>1 DEF Same, Fields, HoldFields, Settled
  <2>3. Quiet(p, z) BY <1>3, <2>1 DEF Quiet, ErrorTo, Just
  <2>4. z.f = IF z.p.fd THEN NoFile ELSE f BY <1>1, <1>3, <2>1, <2>2
  <2> QED BY <2>1, <2>2, <2>3, <2>4 DEF ReceiverFails, z
<1>6. ReceiverHolds(p, f, w) \/ ReceiverFails(p, f, w) \/ ReceiverDies(p, f, w)
  <2>1. CASE p.retries = 1
    <3> DEFINE q == [p EXCEPT !.retries = 0]
    <3>1. DOMAIN q = Fields /\ Same(p, q, {"opcode", "retries", "expect_OACK", "blksize"})
      BY <1>1 DEF Same, Fields
    <3>2. Settled(p, q) BY <1>1, <1>2 DEF Settled, Fields
    <3>3. [x EXCEPT !.p.retries = 0] = Situation(q, f) BY DEF Situation
    <3>4. w = Ret(Situation(q, f)) BY <2>1, <1>3, <3>3 DEF Timeout
    <3> HIDE DEF q
    <3>5. ReceiverFails(p, f, Ret(Situation(q, f))) BY <1>1, <3>1, <3>2, ReceiverLeaves
    <3> QED BY <3>4, <3>5
  <2>2. CASE p.retries # 1 /\ p.retries > 1 /\ p.err
    <3>1. w = Done(x, "died") BY <2>2, <1>3 DEF Timeout
    <3> HIDE DEF x
    <3> DEFINE z == Done(x, "died")
    <3>2. /\ Sit(z) /\ z.f = x.f /\ z.out = x.out
          /\ z.p.at = "done" /\ z.p.result = "died" /\ Same(x.p, z.p, {"at", "result"})
      BY <1>3, DoneIs
    <3> HIDE DEF z
    <3>3. ReceiverDies(p, f, z) BY <1>3, <2>2, <3>2 DEF ReceiverDies, Quiet
    <3> QED BY <3>1, <3>3 DEF z
  <2>3. CASE p.retries # 1 /\ ~(p.retries > 1 /\ p.err)
    <3> DEFINE v == [x EXCEPT !.p.retries = @ - 1]
               z == SendAgain(v)
    <3>1. w = z BY <2>3, <1>3 DEF Timeout
    <3>2. Sit(v) /\ v.f = f /\ v.p.xbuf = p.xbuf /\ v.p.finished = p.finished
          /\ Same(p, v.p, {"retries"})
      <4> HIDE DEF x
      <4> QED BY <1>3 DEF Sit, Same, Fields
    <3> HIDE DEF v
    <3>3. /\ Sit(z) /\ z.out = Just(v.p.xbuf) /\ z.f = v.f /\ Same(v.p, z.p, {"at", "result"})
          /\ IF v.p.finished /\ v.p.opcode = "ACK"
             THEN z.p.at = "done" /\ z.p.result = "success" ELSE z.p = v.p
      BY <3>2, SendAgainIs
    <3> HIDE DEF z
    <3>4. /\ Same(p, z.p, {"opcode", "retries", "expect_OACK", "blksize"}) /\ Settled(p, z.p)
      BY <1>1, <1>2, <3>2, <3>3 DEF Same, Fields, Settled
    <3>5. ReceiverHolds(p, f, z) BY <3>2, <3>3, <3>4 DEF ReceiverHolds, Quiet, Just
    <3> QED BY <3>1, <3>5
  <2> QED BY <2>1, <2>2, <2>3
<1> QED BY <1>4, <1>5, <1>6

-----------------------------------------------------------------------------
(* opts never changes *)

(* The command line never changes, nor does what depends only on it.       *)
LEMMA Rigid ==
  ASSUME opts' = opts
  PROVE  /\ Block' = Block /\ Short' = Short /\ File' = File
         /\ \A n : Chunk(n)' = Chunk(n)
         /\ \A q : PacketOK(q)' <=> PacketOK(q)
         /\ \A p : ProcOK(p)' <=> ProcOK(p)
         /\ \A p : SenderOK(p)' <=> SenderOK(p)
         /\ \A p, f : Wrote(p, f)' <=> Wrote(p, f)
<1>1. /\ Block' = Block /\ Short' = Short /\ File' = File /\ \A n : Chunk(n)' = Chunk(n)
  BY DEF Block, Short, File, Chunk, Lower
<1>2. Request' = Request BY DEF Request, Packet
<1>3. \A q : PacketOK(q)' <=> PacketOK(q) BY <1>1, <1>2 DEF PacketOK
<1>4. \A p : ProcOK(p)' <=> ProcOK(p) BY <1>1, <1>3 DEF ProcOK
<1>5. \A p : SenderOK(p)' <=> SenderOK(p) BY <1>1 DEF SenderOK
<1>6. \A p, f : Wrote(p, f)' <=> Wrote(p, f) BY <1>1 DEF Wrote
<1> QED BY <1>1, <1>3, <1>4, <1>5, <1>6

-----------------------------------------------------------------------------
(* A process stays well-formed *)

(* The peer of a sender is who DATA goes to, of a receiver who ACK goes to.*)
Taker == IF opts.get THEN "c" ELSE "s"
Giver == IF opts.get THEN "s" ELSE "c"

(* An ERROR packet is well-formed.                                         *)
LEMMA ErrorToIs ==
  ASSUME opts \in Options, NEW p
  PROVE  PacketOK(ErrorTo(p)) /\ ErrorTo(p).op = "ERROR" /\ ErrorTo(p).n = 0
BY OptsAre DEF ErrorTo, PacketOK, Packet, Requests

(* The outcomes of a step of a sender, and what they all leave.            *)
SenderMay(p, f, y) == SenderHolds(p, f, y) \/ SenderNext(p, f, y)
SenderKept(p, f, y) ==
  /\ ProcOK(y.p) /\ SenderOK(y.p) /\ y.p.peer = p.peer /\ y.p.err = p.err
  /\ y.p.fd = p.fd /\ y.f = f
  /\ y.p.at = "wait" => y.p.result = p.result
  /\ y.p.expect_OACK => p.expect_OACK
  /\ \A o \in y.out : PacketOK(o) /\ (o \in {p.xbuf, ErrorTo(p)} \/ o = y.p.xbuf)
  /\ y.p.xbuf = p.xbuf \/ (~y.p.expect_OACK /\ SenderNext(p, f, y))

(* Each outcome leaves a sender well-formed, and so is what it sends.      *)
LEMMA SenderKeeps ==
  ASSUME opts \in Options, NEW p, ProcOK(p), SenderOK(p), p.at = "wait", p.peer = Taker, NEW f,
         NEW y, SenderMay(p, f, y)
  PROVE  SenderKept(p, f, y)
<1>1. CASE SenderHolds(p, f, y)
  <2>1. /\ DOMAIN y.p = Fields /\ y.p.put = p.put /\ y.p.peer = p.peer /\ y.p.err = p.err
        /\ y.p.block_nr = p.block_nr /\ y.p.pos = p.pos /\ y.p.finished = p.finished
        /\ y.p.xbuf = p.xbuf /\ y.p.fd = p.fd /\ y.f = f /\ y.p.at \in {"wait", "done"}
        /\ y.p.at = "wait" => y.p.result = p.result
    BY <1>1 DEF SenderHolds, Sit, Same, Fields, HoldFields
  <2>2. IF y.p.expect_OACK THEN p.expect_OACK ELSE y.p.blksize = Block
    BY <1>1 DEF SenderHolds, Settled
  <2>3. ProcOK(y.p) BY <2>1, <2>2 DEF ProcOK
  <2>4. SenderOK(y.p) BY <2>1 DEF SenderOK
  <2>5. \A o \in y.out : PacketOK(o) /\ o \in {p.xbuf, ErrorTo(p)}
    BY <1>1, ErrorToIs DEF SenderHolds, Quiet, ProcOK
  <2> QED BY <2>1, <2>2, <2>3, <2>4, <2>5 DEF SenderKept
<1>2. CASE SenderNext(p, f, y)
  <2>1. /\ DOMAIN y.p = Fields /\ y.p.put = p.put /\ y.p.peer = p.peer /\ y.p.err = p.err
        /\ y.p.fd = p.fd /\ y.f = f /\ y.p.at = p.at /\ y.p.result = p.result
    BY <1>2 DEF SenderNext, Sit, Same, Fields
  <2>2. /\ y.out = Just(y.p.xbuf) /\ ~p.finished
        /\ y.p.xbuf = Packet(p.peer, "DATA", p.block_nr, Chunk(p.block_nr), 0)
        /\ y.p.block_nr = p.block_nr + 1 /\ y.p.pos \in Nat
        /\ ~y.p.finished => y.p.pos = p.pos + Block /\ y.p.pos <= opts.size
        /\ ~y.p.expect_OACK /\ y.p.blksize = Block
    BY <1>2 DEF SenderNext
  <2>3. /\ p.block_nr \in Nat /\ p.block_nr >= 1 /\ p.pos \in Nat /\ p.put
        /\ p.pos = (p.block_nr - 1) * Block /\ p.pos <= opts.size
    BY <2>2 DEF ProcOK, SenderOK
  <2>4. /\ y.p.xbuf.op = "DATA" /\ y.p.xbuf.to = p.peer /\ y.p.xbuf.n = p.block_nr
        /\ y.p.xbuf.nr = p.block_nr % opts.mod /\ y.p.xbuf.data = Chunk(p.block_nr)
    BY <2>2 DEF Packet
  <2>5. PacketOK(y.p.xbuf) BY <2>3, <2>4 DEF PacketOK, Taker, Requests
  <2>6. ProcOK(y.p) BY <2>1, <2>2, <2>3, <2>4, <2>5 DEF ProcOK
  <2>7. (p.block_nr - 1) * Block + Block = (p.block_nr + 1 - 1) * Block
    BY <2>3, OptsAre
  <2>8. SenderOK(y.p) BY <2>1, <2>2, <2>3, <2>4, <2>7 DEF SenderOK
  <2> QED BY <1>2, <2>1, <2>2, <2>5, <2>6, <2>8 DEF Just, SenderKept
<1> QED BY <1>1, <1>2 DEF SenderMay

(* The outcomes of a step of a receiver, and what they all leave.          *)
ReceiverMay(p, f, m, y) ==
  \/ ReceiverHolds(p, f, y) \/ ReceiverFails(p, f, y) \/ ReceiverDies(p, f, y)
  \/ ReceiverStarts(p, f, y) \/ (ReceiverTakes(p, f, m, y) /\ PacketOK(m))

ReceiverKept(p, f, m, y) ==
  /\ ProcOK(y.p) /\ ReceiverOK(y.p) /\ y.p.peer = p.peer /\ y.p.err = p.err
  /\ p.fd => y.p.fd
  /\ y.p.at = "wait" => y.p.result = p.result
  /\ y.p.expect_OACK => p.expect_OACK
  /\ \A o \in y.out : PacketOK(o) /\ (o \in {p.xbuf, ErrorTo(p)} \/ o = y.p.xbuf)
  /\ \/ y.p.xbuf = p.xbuf
     \/ ~y.p.expect_OACK /\ (ReceiverStarts(p, f, y) \/ ReceiverTakes(p, f, m, y))

(* Each outcome leaves a receiver well-formed, and so is what it sends.    *)
LEMMA ReceiverKeeps ==
  ASSUME opts \in Options, NEW p, ProcOK(p), ReceiverOK(p), p.at = "wait", p.peer = Giver, NEW f,
         NEW m, NEW y, ReceiverMay(p, f, m, y)
  PROVE  ReceiverKept(p, f, m, y)
<1>1. CASE ReceiverHolds(p, f, y) \/ ReceiverFails(p, f, y) \/ ReceiverDies(p, f, y)
  <2>1. /\ DOMAIN y.p = Fields /\ y.p.put = p.put /\ y.p.peer = p.peer /\ y.p.err = p.err
        /\ y.p.block_nr = p.block_nr /\ y.p.pos = p.pos /\ y.p.finished = p.finished
        /\ y.p.xbuf = p.xbuf
    BY <1>1 DEF ReceiverHolds, ReceiverFails, ReceiverDies, Sit, Same, Fields, HoldFields
  <2>2. y.p.at = "done" \/ (y.p.at = "wait" /\ y.p.result = p.result)
    BY <1>1 DEF ReceiverHolds, ReceiverFails, ReceiverDies, Same, Fields, HoldFields
  <2>3. y.p.fd = p.fd \/ (y.p.fd /\ ~y.p.expect_OACK)
    BY <1>1 DEF ReceiverHolds, ReceiverFails, ReceiverDies, Same, Fields, HoldFields
  <2>4. Settled(p, y.p)
    <3>1. CASE ReceiverDies(p, f, y)
      BY <3>1 DEF ReceiverDies, Same, Fields, Settled, ProcOK
    <3> QED BY <1>1, <3>1 DEF ReceiverHolds, ReceiverFails
  <2>5. IF y.p.expect_OACK THEN p.expect_OACK ELSE y.p.blksize = Block BY <2>4 DEF Settled
  <2>6. ProcOK(y.p) BY <2>1, <2>2, <2>3, <2>5 DEF ProcOK
  <2>7. ReceiverOK(y.p) BY <2>1 DEF ReceiverOK
  <2>8. Quiet(p, y) BY <1>1 DEF ReceiverHolds, ReceiverFails, ReceiverDies
  <2>9. \A o \in y.out : PacketOK(o) /\ o \in {p.xbuf, ErrorTo(p)}
    BY <2>8, ErrorToIs DEF Quiet, ProcOK
  <2> QED BY <2>1, <2>2, <2>3, <2>5, <2>6, <2>7, <2>9 DEF ReceiverKept
<1>2. CASE ReceiverStarts(p, f, y)
  <2>1. /\ DOMAIN y.p = Fields /\ y.p.put = p.put /\ y.p.peer = p.peer /\ y.p.err = p.err
        /\ y.p.block_nr = p.block_nr /\ y.p.pos = p.pos /\ y.p.finished = p.finished
        /\ y.p.fd = p.fd /\ y.p.at = p.at /\ y.p.result = p.result
    BY <1>2 DEF ReceiverStarts, Sit, Same, Fields
  <2>2. /\ y.out = Just(y.p.xbuf) /\ p.expect_OACK
        /\ y.p.xbuf = Packet(p.peer, "ACK", 0, <<>>, 0)
        /\ ~y.p.expect_OACK /\ y.p.blksize = Block
    BY <1>2 DEF ReceiverStarts
  <2>3. /\ p.block_nr = 1 /\ p.block_nr \in Nat /\ p.pos \in Nat /\ ~p.put /\ ~p.finished
    BY <2>2 DEF ProcOK, ReceiverOK
  <2>4. /\ y.p.xbuf.op = "ACK" /\ y.p.xbuf.to = p.peer /\ y.p.xbuf.n = 0
        /\ y.p.xbuf.nr = 0 % opts.mod
    BY <2>2 DEF Packet
  <2>5. PacketOK(y.p.xbuf) BY <2>4 DEF PacketOK, Giver, Requests
  <2>6. ProcOK(y.p) BY <2>1, <2>2, <2>3, <2>4, <2>5 DEF ProcOK
  <2>7. ReceiverOK(y.p) BY <2>1, <2>3, <2>4 DEF ReceiverOK
  <2> QED BY <1>2, <2>1, <2>2, <2>5, <2>6, <2>7 DEF Just, ReceiverKept
<1>3. CASE ReceiverTakes(p, f, m, y) /\ PacketOK(m)
  <2>1. /\ DOMAIN y.p = Fields /\ y.p.put = p.put /\ y.p.peer = p.peer /\ y.p.err = p.err
    BY <1>3 DEF ReceiverTakes, Sit, Same, Fields
  <2>2. /\ y.out = Just(Ack(p)) /\ y.p.xbuf = Ack(p) /\ m.op = "DATA"
        /\ y.p.block_nr = p.block_nr + 1 /\ y.p.pos = p.pos + Len(m.data) /\ y.p.fd
        /\ y.p.finished = (Len(m.data) # Block)
        /\ ~y.p.expect_OACK /\ y.p.blksize = Block
        /\ IF Len(m.data) # Block
           THEN y.p.at = "done" /\ y.p.result = "success"
           ELSE y.p.at = p.at /\ y.p.result = p.result
    BY <1>3 DEF ReceiverTakes
  <2>3. p.block_nr \in Nat /\ p.block_nr >= 1 /\ p.pos \in Nat /\ ~p.put
    BY DEF ProcOK, ReceiverOK
  <2>4. /\ y.p.xbuf.op = "ACK" /\ y.p.xbuf.to = p.peer /\ y.p.xbuf.n = p.block_nr
        /\ y.p.xbuf.nr = p.block_nr % opts.mod
    BY <2>2 DEF Packet, Ack
  <2>5. PacketOK(y.p.xbuf) BY <2>3, <2>4 DEF PacketOK, Giver, Requests
  <2>6. Len(m.data) \in Nat
    <3>1. m.n \in Nat /\ m.n >= 1 /\ (m.n - 1) * Block <= opts.size /\ m.data = Chunk(m.n)
      BY <1>3, <2>2 DEF PacketOK
    <3>2. opts.size \in Nat /\ Block \in Nat BY OptsAre
    <3>3. PICK n \in Nat : n = m.n BY <3>1
    <3>4. PICK pos \in Nat : pos = (n - 1) * Block BY <3>1, <3>2, <3>3
    <3>5. Len(Chunk(n)) = Lower(pos + Block, opts.size) - pos
      BY <3>1, <3>3, <3>4, UnitsAreChunk
    <3> QED BY <3>1, <3>2, <3>3, <3>4, <3>5, LowerIs
  <2>7. ProcOK(y.p) BY <2>1, <2>2, <2>3, <2>4, <2>5, <2>6 DEF ProcOK
  <2>8. ReceiverOK(y.p)
    <3>1. y.p.at = "wait" => ~y.p.finished
      <4>1. CASE Len(m.data) # Block BY <2>2, <4>1
      <4>2. CASE Len(m.data) = Block BY <2>2, <4>2, Zenon
      <4> QED BY <4>1, <4>2
    <3>2. y.p.xbuf.n = y.p.block_nr - 1 BY <2>2, <2>3, <2>4
    <3> QED BY <2>1, <2>3, <2>4, <3>1, <3>2 DEF ReceiverOK
  <2> QED BY <1>3, <2>1, <2>2, <2>5, <2>7, <2>8 DEF Just, ReceiverKept
<1> QED BY <1>1, <1>2, <1>3 DEF ReceiverMay

-----------------------------------------------------------------------------
(* What an action does *)

(* An ERROR or a timeout leaves a process where it is in the exchange.     *)
LEMMA Stays ==
  ASSUME NEW p, DOMAIN p = Fields, NEW f, NEW m, NEW ok
  PROVE  /\ m.op = "ERROR" => LET y == Receive(Situation(p, f), m, ok) IN
              y.p.expect_OACK = p.expect_OACK /\ y.p.block_nr = p.block_nr
         /\ LET y == Timeout(Situation(p, f)) IN
              y.p.expect_OACK = p.expect_OACK /\ y.p.block_nr = p.block_nr
         /\ LET y == Ret(Situation(p, f)) IN
              y.p.expect_OACK = p.expect_OACK /\ y.p.block_nr = p.block_nr
<1>1. ASSUME NEW q, DOMAIN q = Fields, Same(p, q, {"opcode", "retries"})
      PROVE  LET y == Ret(Situation(q, f)) IN
             y.p.expect_OACK = p.expect_OACK /\ y.p.block_nr = p.block_nr
  <2> DEFINE x == Situation(q, f)
             y == Ret(x)
  <2>1. Sit(x) /\ x.p = q BY <1>1, SituationIs
  <2> HIDE DEF x
  <2>2. Same(x.p, y.p, {"at", "result"}) BY <2>1, RetIs
  <2> HIDE DEF y
  <2>3. y.p.expect_OACK = p.expect_OACK /\ y.p.block_nr = p.block_nr
    BY <1>1, <2>1, <2>2 DEF Same, Fields
  <2> QED BY <2>3 DEF y, x
<1> DEFINE x == Situation(p, f)
           w == Timeout(x)
<1>2. Sit(x) /\ x.p = p BY SituationIs
<1>3. ASSUME m.op = "ERROR"
      PROVE  LET y == Receive(x, m, ok) IN
             y.p.expect_OACK = p.expect_OACK /\ y.p.block_nr = p.block_nr
  <2> DEFINE q == [p EXCEPT !.opcode = m.op]
  <2>1. DOMAIN q = Fields /\ Same(p, q, {"opcode", "retries"}) BY DEF Same, Fields
  <2>2. Receive(x, m, ok) = Ret(Situation(q, f)) BY <1>3, ReceiveIs, Zenon DEF Wanted, Acked
  <2> HIDE DEF q
  <2> QED BY <1>1, <2>1, <2>2
<1>4. w.p.expect_OACK = p.expect_OACK /\ w.p.block_nr = p.block_nr
  <2>1. CASE p.retries = 1
    <3> DEFINE q == [p EXCEPT !.retries = 0]
    <3>1. DOMAIN q = Fields /\ Same(p, q, {"opcode", "retries"}) BY DEF Same, Fields
    <3>2. [x EXCEPT !.p.retries = 0] = Situation(q, f) BY DEF Situation
    <3>3. w = Ret(Situation(q, f)) BY <2>1, <1>2, <3>2 DEF Timeout
    <3> HIDE DEF q
    <3> QED BY <1>1, <3>1, <3>3
  <2>2. CASE p.retries # 1 /\ p.retries > 1 /\ p.err
    <3>1. w = Done(x, "died") BY <2>2, <1>2 DEF Timeout
    <3> HIDE DEF x, w
    <3> DEFINE z == Done(x, "died")
    <3>2. Same(x.p, z.p, {"at", "result"}) BY <1>2, DoneIs
    <3> HIDE DEF z
    <3>3. z.p.expect_OACK = p.expect_OACK /\ z.p.block_nr = p.block_nr
      BY <1>2, <3>2 DEF Same, Fields
    <3> QED BY <3>1, <3>3 DEF z
  <2>3. CASE p.retries # 1 /\ ~(p.retries > 1 /\ p.err)
    <3> DEFINE v == [x EXCEPT !.p.retries = @ - 1]
               z == SendAgain(v)
    <3>1. w = z BY <2>3, <1>2 DEF Timeout
    <3>2. Sit(v) /\ Same(p, v.p, {"retries"})
      <4> HIDE DEF x
      <4> QED BY <1>2 DEF Sit, Same, Fields
    <3> HIDE DEF v
    <3>3. Same(v.p, z.p, {"at", "result"}) BY <3>2, SendAgainIs
    <3> HIDE DEF z
    <3>4. z.p.expect_OACK = p.expect_OACK /\ z.p.block_nr = p.block_nr
      BY <3>2, <3>3 DEF Same, Fields
    <3> QED BY <3>1, <3>4
  <2> QED BY <2>1, <2>2, <2>3
<1>5. Same(p, p, {"opcode", "retries"}) BY DEF Same
<1> QED BY <1>1, <1>3, <1>4, <1>5

Begun == \E q \in net : q.op \in {"DATA", "ACK", "OACK"}

ClientEffect(y, rest) ==
  /\ c' = y.p /\ file' = [file EXCEPT !.c = y.f] /\ net' = Sent(rest, y.out)
  /\ rest \subseteq net
  /\ opts' = opts /\ s' = s /\ calls' = calls /\ ended' = ended

(* The outcomes of a step of the client.                                   *)
ClientMay(y, m) ==
  /\ c.at = "wait"
  /\ opts.get => \/ ReceiverHolds(c, file.c, y) \/ ReceiverFails(c, file.c, y)
                 \/ ReceiverStarts(c, file.c, y)
                 \/ ReceiverTakes(c, file.c, m, y) /\ m \in net
  /\ ~opts.get => \/ SenderHolds(c, file.c, y)
                  \/ /\ SenderNext(c, file.c, y)
                     /\ \/ c.expect_OACK
                        \/ m \in net /\ m.op = "ACK" /\ m.nr = (c.block_nr - 1) % opts.mod
  /\ ~Begun => y.p.expect_OACK = c.expect_OACK /\ y.p.block_nr = c.block_nr

(* A step of tftp has one of these outcomes.                               *)
LEMMA ClientActs ==
  ASSUME Shape, Client
  PROVE  \E y, m, rest : ClientEffect(y, rest) /\ ClientMay(y, m)
<1>1. /\ opts \in Options /\ ProcOK(c) /\ ~c.err /\ DOMAIN c = Fields
      /\ IF opts.get THEN ReceiverOK(c) ELSE SenderOK(c)
      /\ \A q \in net : PacketOK(q) /\ Early(q)
  BY DEF Shape, ClientOK, ProcOK
<1>2. CASE ClientReceive
  <2>0. PICK m \in net, ok \in Oks : \E rest \in Rest(m) :
           m.to = "c" /\ ClientDoes(Receive(Situation(c, file.c), m, ok), rest)
    BY <1>2 DEF ClientReceive
  <2>1. PICK rest \in Rest(m) :
           m.to = "c" /\ ClientDoes(Receive(Situation(c, file.c), m, ok), rest)
    BY <2>0
  <2>2. c.at = "wait" /\ ok \in BOOLEAN BY <1>2, Zenon DEF ClientReceive, Oks
  <2> DEFINE y == Receive(Situation(c, file.c), m, ok)
  <2>3. ClientEffect(y, rest.net)
    <3> HIDE DEF y
    <3>1. ClientDoes(y, rest) BY <2>1 DEF y
    <3>2. rest.net \subseteq net BY <2>1 DEF Rest
    <3> QED BY <3>1, <3>2 DEF ClientDoes, ClientEffect
  <2>4. PacketOK(m) /\ Early(m) BY <1>1
  <2>5. c.expect_OACK /\ m.op \notin {"OACK", "ERROR"} => Block = Default
    BY <2>1, <2>4 DEF PacketOK, Early, Requests
  <2>6. opts.get => \/ ReceiverHolds(c, file.c, y) \/ ReceiverFails(c, file.c, y)
                    \/ ReceiverStarts(c, file.c, y)
                    \/ ReceiverTakes(c, file.c, m, y)
    BY <1>1, <2>2, <2>4, <2>5, ReceiverReceives
  <2>7. ~opts.get => \/ SenderHolds(c, file.c, y)
                     \/ /\ SenderNext(c, file.c, y)
                        /\ c.expect_OACK \/ (m.op = "ACK" /\ m.nr = (c.block_nr - 1) % opts.mod)
    BY <1>1, <2>2, <2>4, <2>5, SenderReceives
  <2>8. ~Begun => y.p.expect_OACK = c.expect_OACK /\ y.p.block_nr = c.block_nr
    <3>1. SUFFICES ASSUME ~Begun
                   PROVE  y.p.expect_OACK = c.expect_OACK /\ y.p.block_nr = c.block_nr
      OBVIOUS
    <3>2. m.op = "ERROR" BY <2>1, <2>4, <3>1 DEF Begun, PacketOK, Requests
    <3> QED BY <1>1, <3>2, Stays
  <2> HIDE DEF y
  <2>9. ClientMay(y, m) BY <2>2, <2>6, <2>7, <2>8 DEF ClientMay
  <2> QED BY <2>3, <2>9
<1>3. CASE ClientTimeout
  <2>1. c.at = "wait" /\ ClientDoes(Timeout(Situation(c, file.c)), All)
    BY <1>3 DEF ClientTimeout
  <2> DEFINE y == Timeout(Situation(c, file.c))
  <2>3. ClientEffect(y, net)
    <3> HIDE DEF y
    <3>1. ClientDoes(y, All) BY <2>1 DEF y
    <3> QED BY <3>1 DEF ClientDoes, ClientEffect, All
  <2>4. opts.get => ReceiverHolds(c, file.c, y) \/ ReceiverFails(c, file.c, y)
    <3>1. opts.get => \/ ReceiverHolds(c, file.c, y) \/ ReceiverFails(c, file.c, y)
                      \/ ReceiverDies(c, file.c, y)
      BY <1>1, <2>1, ReceiverTimesOut
    <3> QED BY <1>1, <3>1 DEF ReceiverDies
  <2>5. ~opts.get => SenderHolds(c, file.c, y) BY <1>1, <2>1, SenderTimesOut
  <2>6. y.p.expect_OACK = c.expect_OACK /\ y.p.block_nr = c.block_nr BY <1>1, Stays
  <2> HIDE DEF y
  <2>7. ClientMay(y, 0) BY <2>1, <2>4, <2>5, <2>6 DEF ClientMay
  <2> QED BY <2>3, <2>7
<1>4. CASE ClientPoll
  <2>1. c.at = "wait" /\ ClientDoes(Ret(Situation(c, file.c)), All)
    BY <1>4 DEF ClientPoll
  <2> DEFINE y == Ret(Situation(c, file.c))
  <2>3. ClientEffect(y, net)
    <3> HIDE DEF y
    <3>1. ClientDoes(y, All) BY <2>1 DEF y
    <3> QED BY <3>1 DEF ClientDoes, ClientEffect, All
  <2>4. opts.get => ReceiverFails(c, file.c, y) BY <1>1, <2>1, ReceiverTimesOut
  <2>5. ~opts.get => SenderHolds(c, file.c, y) BY <1>1, <2>1, SenderTimesOut
  <2>6. y.p.expect_OACK = c.expect_OACK /\ y.p.block_nr = c.block_nr BY <1>1, Stays
  <2> HIDE DEF y
  <2>7. ClientMay(y, 0) BY <2>1, <2>4, <2>5, <2>6 DEF ClientMay
  <2> QED BY <2>3, <2>7
<1> QED BY <1>2, <1>3, <1>4 DEF Client

ServerEffect(x, y, rest) ==
  /\ s' = [z \in Servers |->
             IF z = x THEN IF y.p.at = "done" THEN Off ELSE y.p
             ELSE IF file.s.there /\ ~y.f.there /\ s[z].at = "wait"
                  THEN [s[z] EXCEPT !.mine = FALSE]
             ELSE s[z]]
  /\ file' = [file EXCEPT !.s = y.f] /\ net' = Sent(rest, y.out) /\ rest \subseteq net
  /\ ended' = IF y.p.at = "done" /\ y.p.fd THEN ended \cup {y.p.result} ELSE ended
  /\ opts' = opts /\ c' = c /\ calls' = calls

(* The outcomes of a step of a tftpd that has answered a request.          *)
ServerMay(x, y, m) ==
  /\ s[x].at = "wait"
  /\ opts.get => \/ SenderHolds(s[x], file.s, y)
                 \/ /\ SenderNext(s[x], file.s, y)
                    /\ m \in net /\ m.op = "ACK" /\ m.nr = (s[x].block_nr - 1) % opts.mod
  /\ ~opts.get => \/ ReceiverHolds(s[x], file.s, y) \/ ReceiverFails(s[x], file.s, y)
                  \/ ReceiverDies(s[x], file.s, y)
                  \/ ReceiverTakes(s[x], file.s, m, y) /\ m \in net

(* A step of a tftpd that has answered has one of these outcomes.          *)
LEMMA ServerActs ==
  ASSUME Shape, NEW x \in Servers, ServerReceive(x) \/ ServerTimeout(x) \/ ServerError(x)
  PROVE  \E y, m, rest : ServerEffect(x, y, rest) /\ ServerMay(x, y, m)
<1>0. s[x].at = "wait" BY DEF ServerReceive, ServerTimeout, ServerError
<1>1. /\ opts \in Options /\ ProcOK(s[x]) /\ ~s[x].expect_OACK
      /\ IF opts.get THEN SenderOK(s[x]) ELSE ReceiverOK(s[x])
      /\ \A q \in net : PacketOK(q)
  BY <1>0 DEF Shape, ServerOK
<1>2. CASE ServerReceive(x)
  <2>0. PICK m \in net, ok \in Oks : \E rest \in Rest(m) :
           m.to = "s" /\ ServerDoes(x, Receive(Situation(s[x], file.s), m, ok), rest)
    BY <1>2 DEF ServerReceive
  <2>1. PICK rest \in Rest(m) :
           m.to = "s" /\ ServerDoes(x, Receive(Situation(s[x], file.s), m, ok), rest)
    BY <2>0
  <2>2. ok \in BOOLEAN BY Zenon DEF Oks
  <2> DEFINE y == Receive(Situation(s[x], file.s), m, ok)
  <2>3. ServerEffect(x, y, rest.net)
    <3> HIDE DEF y
    <3>1. ServerDoes(x, y, rest) BY <2>1 DEF y
    <3>2. rest.net \subseteq net BY <2>1 DEF Rest
    <3> QED BY <3>1, <3>2 DEF ServerDoes, ServerEffect
  <2>4. PacketOK(m) BY <1>1
  <2>5. ~opts.get => \/ ReceiverHolds(s[x], file.s, y) \/ ReceiverFails(s[x], file.s, y)
                     \/ ReceiverStarts(s[x], file.s, y)
                     \/ ReceiverTakes(s[x], file.s, m, y)
    BY <1>0, <1>1, <2>2, <2>4, ReceiverReceives, Zenon
  <2>6. ~ReceiverStarts(s[x], file.s, y) BY <1>1, Zenon DEF ReceiverStarts
  <2>7. opts.get => \/ SenderHolds(s[x], file.s, y)
                    \/ /\ SenderNext(s[x], file.s, y)
                       /\ \/ s[x].expect_OACK
                          \/ m.op = "ACK" /\ m.nr = (s[x].block_nr - 1) % opts.mod
    BY <1>0, <1>1, <2>2, <2>4, SenderReceives
  <2> HIDE DEF y
  <2>8. ServerMay(x, y, m) BY <1>0, <1>1, <2>5, <2>6, <2>7, Zenon DEF ServerMay
  <2> QED BY <2>3, <2>8
<1>3. CASE ServerTimeout(x)
  <2>1. ServerDoes(x, Timeout(Situation(s[x], file.s)), All) BY <1>3 DEF ServerTimeout
  <2> DEFINE y == Timeout(Situation(s[x], file.s))
  <2>3. ServerEffect(x, y, net)
    <3> HIDE DEF y
    <3>1. ServerDoes(x, y, All) BY <2>1 DEF y
    <3> QED BY <3>1 DEF ServerDoes, ServerEffect, All
  <2>4. ~opts.get => \/ ReceiverHolds(s[x], file.s, y) \/ ReceiverFails(s[x], file.s, y)
                     \/ ReceiverDies(s[x], file.s, y)
    BY <1>0, <1>1, ReceiverTimesOut
  <2>5. opts.get => SenderHolds(s[x], file.s, y) BY <1>0, <1>1, SenderTimesOut
  <2> HIDE DEF y
  <2>6. ServerMay(x, y, 0) BY <1>0, <2>4, <2>5 DEF ServerMay
  <2> QED BY <2>3, <2>6
<1>4. CASE ServerError(x)
  <2>1. ServerDoes(x, SendErrPkt(Situation(s[x], file.s)), All) BY <1>4 DEF ServerError
  <2> DEFINE y == SendErrPkt(Situation(s[x], file.s))
  <2>3. ServerEffect(x, y, net)
    <3> HIDE DEF y
    <3>1. ServerDoes(x, y, All) BY <2>1 DEF y
    <3> QED BY <3>1 DEF ServerDoes, ServerEffect, All
  <2>4. ~opts.get => ReceiverFails(s[x], file.s, y) BY <1>0, <1>1, ReceiverTimesOut
  <2>5. opts.get => SenderHolds(s[x], file.s, y) BY <1>0, <1>1, SenderTimesOut
  <2> HIDE DEF y
  <2>6. ServerMay(x, y, 0) BY <1>0, <2>4, <2>5 DEF ServerMay
  <2> QED BY <2>3, <2>6
<1> QED BY <1>2, <1>3, <1>4

(* A tftpd that refuses the request.                                       *)
Refused(y) ==
  /\ y.p.at = "done" /\ ~y.p.fd /\ y.f = file.s
  /\ \A o \in y.out : PacketOK(o) /\ o.op = "ERROR" /\ o.n = 0

(* The first answer: an OACK, block 1 or the ACK of the request.           *)
Answers(y) ==
  /\ ProcOK(y.p) /\ y.p.peer = "c" /\ y.p.fd /\ ~y.p.expect_OACK /\ y.p.mine
  /\ IF opts.get THEN SenderOK(y.p) ELSE ReceiverOK(y.p)
  /\ y.p.at = "wait" /\ y.out = Just(y.p.xbuf)
  /\ y.f = IF opts.get THEN file.s ELSE [there |-> TRUE, data |-> <<>>]
  /\ y.p.xbuf.op \in {"DATA", "ACK"} => Block = Default
  /\ y.p.xbuf.op # "DATA" => y.p.block_nr = 1 /\ y.p.pos = 0
  /\ y.p.xbuf.op = "DATA" => y.p.block_nr = 2

(* What tftpd_main() and the first send answer a request with.             *)
LEMMA FirstIs ==
  ASSUME opts \in Options, NEW m, PacketOK(m), m.op \in Requests
  PROVE  Answers(First(Proc(m.op = "RRQ", "c", TRUE), file.s, m))
<1> DEFINE put == m.op = "RRQ"
           f == IF put THEN file.s ELSE [there |-> TRUE, data |-> <<>>]
           p == [Proc(put, "c", TRUE) EXCEPT !.blksize = IF opts.old THEN Default ELSE m.opt]
           x == Situation(p, f)
           y == First(Proc(put, "c", TRUE), file.s, m)
<1>1. opts.get \in BOOLEAN BY TftpAssumption
<1>2. put = opts.get /\ m.opt = opts.blksize BY <1>1 DEF PacketOK, Request, Packet, Requests
<1>3. /\ opts.size \in Nat /\ opts.mod \in Nat /\ opts.mod > 1 /\ Block \in Nat /\ Block > 0
  BY OptsAre
<1>4. y = IF ~opts.old /\ (m.opt # Default \/ put)
          THEN SendPkt(x, Packet("c", "OACK", 0, <<>>, m.opt))
          ELSE Build([x EXCEPT !.p.block_nr = IF put THEN 1 ELSE 0], TRUE)
  BY DEF First
<1> HIDE DEF y
<1>5. /\ DOMAIN p = Fields /\ p.at = "wait" /\ p.put = opts.get /\ p.peer = "c"
      /\ p.block_nr = 1 /\ ~p.finished /\ p.blksize = Block /\ ~p.expect_OACK /\ p.fd
      /\ p.mine /\ p.pos = 0 /\ ~p.err /\ p.result = "none"
      /\ p.xbuf = Packet("c", "ERROR", 0, <<>>, 0)
  BY <1>2 DEF Proc, Fields, Block
<1> HIDE DEF p
<1>6. Sit(x) /\ x.p = p /\ x.f = f /\ x.out = {} BY <1>5, SituationIs
<1>7. f = IF opts.get THEN file.s ELSE [there |-> TRUE, data |-> <<>>] BY <1>2, Zenon
<1> HIDE DEF x, put, f
<1>8. CASE ~opts.old /\ (m.opt # Default \/ put)
  <2>1. PICK a : a = Packet("c", "OACK", 0, <<>>, m.opt) OBVIOUS
  <2>2. a.op = "OACK" /\ a.to = "c" /\ a.n = 0 /\ a.nr = 0 % opts.mod /\ a.opt = Block
    BY <1>2, <1>8, <2>1 DEF Packet, Block
  <2>3. PacketOK(a) BY <2>2 DEF PacketOK, Requests
  <2> DEFINE z == SendPkt(x, a)
  <2>4. /\ Sit(z) /\ z.out = Just(a) /\ z.f = x.f /\ z.p.xbuf = a
        /\ Same(x.p, z.p, {"at", "result", "xbuf", "opcode", "retries"})
        /\ IF x.p.finished /\ a.op = "ACK"
           THEN z.p.at = "done" /\ z.p.result = "success"
           ELSE z.p.at = x.p.at /\ z.p.result = x.p.result
    BY <1>6, SendPktIs, Zenon
  <2>5. y = z BY <1>4, <1>8, <2>1, Zenon
  <2> HIDE DEF z
  <2>6. /\ DOMAIN z.p = Fields /\ z.p.at = "wait" /\ z.p.put = opts.get /\ z.p.peer = "c"
        /\ z.p.block_nr = 1 /\ ~z.p.finished /\ z.p.blksize = Block /\ ~z.p.expect_OACK
        /\ z.p.fd /\ z.p.mine /\ z.p.pos = 0
    BY <1>5, <1>6, <2>2, <2>4 DEF Same, Fields, Sit
  <2>7. ProcOK(z.p) BY <2>2, <2>3, <2>4, <2>6 DEF ProcOK
  <2>8. (1 - 1) * Block = 0 BY <1>3
  <2>9. IF opts.get THEN SenderOK(z.p) ELSE ReceiverOK(z.p)
    BY <1>3, <2>2, <2>4, <2>6, <2>8 DEF SenderOK, ReceiverOK
  <2>10. Answers(z) BY <1>6, <1>7, <2>2, <2>4, <2>6, <2>7, <2>9 DEF Answers
  <2> QED BY <2>5, <2>10, Zenon DEF y, put
<1>9. CASE ~(~opts.old /\ (m.opt # Default \/ put)) /\ opts.get
  <2>1. Block = Default BY <1>2, <1>9 DEF Block
  <2> DEFINE v == [x EXCEPT !.p.block_nr = 1]
  <2>2. Sit(v) /\ v.f = f /\ v.p.block_nr = 1 /\ Same(p, v.p, {"block_nr"})
    BY <1>6 DEF Sit, Same, Fields
  <2>3. y = Build(v, TRUE) BY <1>2, <1>4, <1>9, Zenon
  <2> HIDE DEF v
  <2>4. (1 - 1) * Block = 0 BY <1>3
  <2>5. /\ DOMAIN v.p = Fields /\ v.p.at = "wait" /\ v.p.put /\ v.p.peer = "c" /\ ~v.p.finished
        /\ v.p.blksize = Block /\ ~v.p.expect_OACK /\ v.p.fd /\ v.p.mine /\ v.p.pos = 0
        /\ v.p.xbuf = Packet("c", "ERROR", 0, <<>>, 0)
    BY <1>5, <1>9, <2>2, Zenon DEF Same, Fields, Sit
  <2>6. SenderNext(v.p, f, y)
    <3>1. PICK ok \in BOOLEAN : ok = TRUE BY Zenon
    <3>2. v.p.block_nr \in Nat /\ v.p.block_nr >= 1 /\ v.p.pos \in Nat
          /\ v.p.pos = (v.p.block_nr - 1) * Block /\ v.p.pos <= opts.size
      BY <1>3, <2>2, <2>4, <2>5
    <3>3. SenderNext(v.p, v.f, Build(v, ok)) BY <2>2, <2>5, <3>1, <3>2, BuildNext, Zenon
    <3> QED BY <2>2, <2>3, <3>1, <3>3, Zenon
  <2>7. PacketOK(v.p.xbuf) /\ v.p.xbuf.to = "c" /\ v.p.xbuf.op = "ERROR"
    BY <1>3, <2>5 DEF PacketOK, Packet, Requests
  <2>8. ProcOK(v.p) /\ SenderOK(v.p)
    BY <1>3, <2>2, <2>4, <2>5, <2>7 DEF ProcOK, SenderOK
  <2>9. ProcOK(y.p) /\ SenderOK(y.p) /\ y.p.peer = v.p.peer /\ y.p.fd = v.p.fd /\ y.f = f
    <3>1. v.p.peer = Taker BY <1>9, <2>5 DEF Taker
    <3>2. PICK q : q = v.p OBVIOUS
    <3>3. PICK z : z = y OBVIOUS
    <3>4. SenderMay(q, f, z) BY <2>6, <3>2, <3>3 DEF SenderMay
    <3>5. SenderKept(q, f, z) BY <2>5, <2>8, <3>1, <3>2, <3>4, SenderKeeps
    <3> QED BY <3>2, <3>3, <3>5 DEF SenderKept
  <2>10. /\ y.p.block_nr = 2 /\ ~y.p.expect_OACK /\ y.out = Just(y.p.xbuf)
         /\ y.p.mine /\ y.p.at = "wait"
    BY <2>2, <2>5, <2>6 DEF SenderNext, Same, Fields
  <2>11. y.p.xbuf.op = "DATA" BY <2>6 DEF SenderNext, Packet
  <2>12. Answers(y) BY <1>7, <1>9, <2>1, <2>5, <2>9, <2>10, <2>11 DEF Answers
  <2> QED BY <2>12, Zenon DEF y, put
<1>10. CASE ~(~opts.old /\ (m.opt # Default \/ put)) /\ ~opts.get
  <2>1. Block = Default BY <1>2, <1>10 DEF Block
  <2> DEFINE v == [x EXCEPT !.p.block_nr = 0]
             z == Build(v, TRUE)
  <2>2. y = z BY <1>2, <1>4, <1>10, Zenon
  <2>3. Sit(v) /\ v.f = f /\ v.p.block_nr = 0 /\ Same(p, v.p, {"block_nr"})
    BY <1>6 DEF Sit, Same, Fields
  <2> HIDE DEF v
  <2>4. ~v.p.put /\ ~v.p.finished /\ v.p.at = "wait" /\ v.p.peer = "c"
    BY <1>5, <1>10, <2>3 DEF Same, Fields
  <2>5. /\ Sit(z) /\ z.out = Just(Ack(v.p)) /\ z.f = v.f /\ z.p.xbuf = Ack(v.p)
        /\ z.p.block_nr = v.p.block_nr + 1
        /\ Same(v.p, z.p, {"at", "result", "xbuf", "opcode", "retries", "block_nr"})
        /\ IF v.p.finished
           THEN z.p.at = "done" /\ z.p.result = "success"
           ELSE z.p.at = v.p.at /\ z.p.result = v.p.result
    BY <2>3, <2>4, BuildAck, Zenon
  <2> HIDE DEF z
  <2>6. /\ z.p.xbuf.op = "ACK" /\ z.p.xbuf.to = "c" /\ z.p.xbuf.n = 0
        /\ z.p.xbuf.nr = 0 % opts.mod
    <3>1. v.p.peer = "c" /\ v.p.block_nr = 0 BY <2>3, <2>4
    <3>2. z.p.xbuf = Packet("c", "ACK", 0, <<>>, 0) BY <2>5, <3>1 DEF Ack
    <3> QED BY <3>2 DEF Packet
  <2>7. PacketOK(z.p.xbuf) BY <1>10, <2>6 DEF PacketOK, Requests
  <2>8. /\ DOMAIN z.p = Fields /\ z.p.at = "wait" /\ ~z.p.put /\ z.p.peer = "c"
        /\ z.p.block_nr = 1 /\ ~z.p.finished /\ z.p.blksize = Block /\ ~z.p.expect_OACK
        /\ z.p.fd /\ z.p.mine /\ z.p.pos = 0
    BY <1>5, <1>10, <2>3, <2>4, <2>5 DEF Same, Fields, Sit
  <2>9. ProcOK(z.p) BY <2>6, <2>7, <2>8 DEF ProcOK
  <2>10. ReceiverOK(z.p) BY <2>6, <2>8 DEF ReceiverOK
  <2>11. Answers(z) BY <1>7, <1>10, <2>1, <2>3, <2>5, <2>6, <2>8, <2>9, <2>10 DEF Answers
  <2> QED BY <2>2, <2>11, Zenon DEF y, put
<1> QED BY <1>8, <1>9, <1>10, Zenon

(* A tftpd refuses its request or answers it.                              *)
LEMMA StartActs ==
  ASSUME Shape, NEW x \in Servers, Start(x)
  PROVE  \E y : ServerEffect(x, y, net) /\ (Refused(y) \/ (Answers(y) /\ Asking(x)))
<1> DEFINE m == s[x].req
<1>1. s[x].at = "window" /\ opts \in Options /\ PacketOK(m)
  BY DEF Start, Shape, ServerOK
<1>2. CASE Refuses(m)
  <2> DEFINE p == Proc(TRUE, "c", FALSE)
             v == Situation(p, file.s)
             y == SendErrPkt(v)
  <2>1. ServerDoes(x, y, All) BY <1>2, Zenon DEF Start
  <2>2. DOMAIN p = Fields /\ ~p.fd /\ p.put BY DEF Proc, Fields
  <2> HIDE DEF p
  <2>3. Sit(v) /\ v.p = p /\ v.f = file.s BY <2>2, SituationIs
  <2> HIDE DEF v
  <2>4. /\ y.out = Just(Packet(v.p.peer, "ERROR", 0, <<>>, 0))
        /\ y.f = IF v.p.fd /\ ~v.p.put THEN NoFile ELSE v.f
        /\ y.p.at = "done" /\ Same(v.p, y.p, {"at", "result"})
    BY <2>3, SendErrIs
  <2> HIDE DEF y
  <2>5. y.f = file.s BY <2>2, <2>3, <2>4
  <2>6. ~y.p.fd BY <2>2, <2>3, <2>4 DEF Same, Fields
  <2>7. \A o \in y.out : PacketOK(o) /\ o.op = "ERROR" /\ o.n = 0
    BY <1>1, <2>4, ErrorToIs DEF Just, ErrorTo
  <2>8. Refused(y) BY <2>4, <2>5, <2>6, <2>7 DEF Refused
  <2>9. ServerEffect(x, y, net) BY <2>1 DEF ServerDoes, ServerEffect, All
  <2> QED BY <2>8, <2>9
<1>3. CASE ~Refuses(m)
  <2> DEFINE y == First(Proc(m.op = "RRQ", "c", TRUE), file.s, m)
  <2>1. ServerDoes(x, y, All) BY <1>3, Zenon DEF Start
  <2>2. m.op \in Requests BY <1>3 DEF Refuses, Requests
  <2>3. Answers(y) BY <1>1, <2>2, FirstIs, Zenon
  <2>4. Asking(x) BY <1>1, <2>2 DEF Asking
  <2> HIDE DEF y
  <2>5. ServerEffect(x, y, net) BY <2>1 DEF ServerDoes, ServerEffect, All
  <2> QED BY <2>3, <2>4, <2>5
<1> QED BY <1>2, <1>3

-----------------------------------------------------------------------------
(* Shape is inductive *)

(* Sending adds packets; some that are too old may be gone.                *)
LEMMA SentIs ==
  ASSUME NEW rest, NEW out, NEW q \in Sent(rest, out)
  PROVE  (q \in rest \/ q \in out) /\ \A m \in out : q.n > m.n + 1 - opts.mod
BY DEF Sent

(* What a step of the client leaves.                                       *)
LEMMA ClientKeeps ==
  ASSUME Shape, NEW y, NEW m, ClientMay(y, m)
  PROVE  /\ ProcOK(y.p) /\ y.p.peer = c.peer /\ y.p.err = c.err
         /\ IF opts.get THEN ReceiverOK(y.p) ELSE SenderOK(y.p)
         /\ y.p.at = "wait" => y.p.result = c.result
         /\ y.p.expect_OACK => c.expect_OACK
         /\ \A o \in y.out : PacketOK(o) /\ (o \in {c.xbuf, ErrorTo(c)} \/ o = y.p.xbuf)
         /\ y.p.xbuf = c.xbuf \/ ~y.p.expect_OACK
<1>1. /\ opts \in Options /\ ProcOK(c) /\ c.at = "wait" /\ c.peer = "s"
      /\ IF opts.get THEN ReceiverOK(c) ELSE SenderOK(c)
      /\ \A q \in net : PacketOK(q) /\ Early(q)
  BY Zenon DEF Shape, ClientOK, ClientMay
<1>2. CASE opts.get
  <2>1. c.peer = Giver BY <1>1, <1>2 DEF Giver
  <2>2. ReceiverMay(c, file.c, m, y)
    BY <1>1, <1>2 DEF ClientMay, ReceiverMay
  <2>3. ReceiverOK(c) BY <1>1, <1>2
  <2>4. opts \in Options /\ ProcOK(c) /\ c.at = "wait" BY <1>1
  <2>5. ReceiverKept(c, file.c, m, y) BY <2>1, <2>2, <2>3, <2>4, ReceiverKeeps
  <2> QED BY <1>2, <2>5 DEF ReceiverKept
<1>3. CASE ~opts.get
  <2>1. c.peer = Taker BY <1>1, <1>3 DEF Taker
  <2>2. SenderMay(c, file.c, y) BY <1>3 DEF ClientMay, SenderMay
  <2>3. SenderOK(c) BY <1>1, <1>3
  <2>4. SenderKept(c, file.c, y) BY <1>1, <2>1, <2>2, <2>3, SenderKeeps
  <2> QED BY <1>3, <2>4 DEF SenderKept
<1> QED BY <1>2, <1>3

(* A step of tftp leaves everything well-formed.                           *)
LEMMA ClientShape ==
  ASSUME Shape, Client
  PROVE  Shape'
<1>1. PICK y, m, rest : ClientEffect(y, rest) /\ ClientMay(y, m) BY ClientActs
<1>2. /\ c' = y.p /\ net' = Sent(rest, y.out) /\ file' = [file EXCEPT !.c = y.f]
      /\ rest \subseteq net /\ opts' = opts /\ s' = s /\ calls' = calls
  BY <1>1 DEF ClientEffect
<1>3. /\ opts \in Options /\ ProcOK(c) /\ c.at = "wait" /\ c.peer = "s" /\ ~c.err
      /\ c.result = "none" /\ Early(c.xbuf)
      /\ IF opts.get THEN ReceiverOK(c) ELSE SenderOK(c)
      /\ \A q \in net : PacketOK(q) /\ Early(q)
  BY <1>1 DEF Shape, ClientOK, ClientMay
<1>4. /\ ProcOK(y.p) /\ y.p.peer = c.peer /\ y.p.err = c.err
      /\ IF opts.get THEN ReceiverOK(y.p) ELSE SenderOK(y.p)
      /\ y.p.at = "wait" => y.p.result = c.result
      /\ y.p.expect_OACK => c.expect_OACK
      /\ \A o \in y.out : PacketOK(o) /\ (o \in {c.xbuf, ErrorTo(c)} \/ o = y.p.xbuf)
      /\ y.p.xbuf = c.xbuf \/ ~y.p.expect_OACK
  BY <1>1, ClientKeeps
<1>5. \A q : Early(q) => Early(q)' BY <1>2, <1>4, Rigid DEF Early
<1>6. Early(c.xbuf)' BY <1>2, <1>3, <1>4, <1>5, Rigid DEF Early
<1>7. ASSUME NEW q \in net' PROVE PacketOK(q)' /\ Early(q)'
  <2>1. q \in net \/ q \in y.out BY <1>2, SentIs
  <2>2. CASE q \in net BY <1>2, <1>3, <1>5, <2>2, Rigid
  <2>3. CASE q \in y.out
    <3>1. PacketOK(q) /\ (q \in {c.xbuf, ErrorTo(c)} \/ q = y.p.xbuf) BY <1>4, <2>3
    <3>2. ErrorTo(c).op = "ERROR" BY <1>3, ErrorToIs
    <3>3. Early(q)'
      <4>1. CASE q = c.xbuf BY <1>3, <1>5, <4>1
      <4>2. CASE q = ErrorTo(c) BY <3>2, <4>2 DEF Early
      <4>3. CASE q = y.p.xbuf BY <1>2, <1>6, <4>3 DEF Early
      <4> QED BY <3>1, <4>1, <4>2, <4>3
    <3> QED BY <1>2, <3>1, <3>3, Rigid
  <2> QED BY <2>1, <2>2, <2>3
<1>8. ClientOK' BY <1>2, <1>3, <1>4, <1>6, Rigid DEF ClientOK
<1>9. ASSUME NEW x \in Servers PROVE ServerOK(s[x])'
  <2>1. ServerOK(s[x]) BY DEF Shape
  <2> QED BY <1>2, <1>5, <2>1, Rigid DEF ServerOK
<1>10. DOMAIN s' = Servers /\ DOMAIN file' = {"c", "s"} BY <1>2 DEF Shape
<1> QED BY <1>2, <1>3, <1>7, <1>8, <1>9, <1>10 DEF Shape

(* What changes neither opts nor c leaves what they say as it is.          *)
LEMMA SameClient ==
  ASSUME opts' = opts, c' = c
  PROVE  /\ \A q : Early(q)' <=> Early(q)
         /\ \A p : ServerOK(p)' <=> ServerOK(p)
         /\ ClientOK' <=> ClientOK
<1>1. \A q : Early(q)' <=> Early(q) BY Rigid DEF Early
<1>2. \A p : ServerOK(p)' <=> ServerOK(p) BY <1>1, Rigid DEF ServerOK
<1>3. ClientOK' <=> ClientOK BY <1>1, Rigid DEF ClientOK
<1> QED BY <1>1, <1>2, <1>3

(* unlink() in one tftpd leaves the others well-formed.                    *)
LEMMA NotMine ==
  ASSUME NEW p, ServerOK(p), p.at = "wait"
  PROVE  LET q == [p EXCEPT !.mine = FALSE] IN
         ServerOK(q) /\ q.at = "wait" /\ q.block_nr = p.block_nr
<1> DEFINE q == [p EXCEPT !.mine = FALSE]
<1>1. DOMAIN p = Fields BY DEF ServerOK, ProcOK
<1>2. DOMAIN q = Fields /\ Same(p, q, {"mine"}) BY <1>1 DEF Same, Fields
<1> HIDE DEF q
<1>3. /\ q.at = p.at /\ q.put = p.put /\ q.peer = p.peer /\ q.block_nr = p.block_nr
      /\ q.finished = p.finished /\ q.xbuf = p.xbuf /\ q.blksize = p.blksize
      /\ q.expect_OACK = p.expect_OACK /\ q.fd = p.fd /\ q.pos = p.pos
  BY <1>2 DEF Same, Fields
<1>4. ProcOK(q) BY <1>2, <1>3 DEF ServerOK, ProcOK
<1>5. IF opts.get THEN SenderOK(q) ELSE ReceiverOK(q)
  BY <1>3 DEF ServerOK, SenderOK, ReceiverOK
<1> QED BY <1>3, <1>4, <1>5 DEF ServerOK, q

(* So does a step of a tftpd that stays well-formed or ends.               *)
LEMMA EffectShape ==
  ASSUME Shape, NEW x \in Servers, NEW y, NEW rest, ServerEffect(x, y, rest),
         \A o \in y.out : PacketOK(o) /\ Early(o),
         y.p.at = "done" \/ ServerOK(y.p)
  PROVE  Shape'
<1>1. /\ net' = Sent(rest, y.out) /\ file' = [file EXCEPT !.s = y.f]
      /\ rest \subseteq net /\ opts' = opts /\ c' = c /\ calls' = calls
  BY DEF ServerEffect
<1>2. ASSUME NEW q \in net' PROVE PacketOK(q)' /\ Early(q)'
  <2>1. q \in net \/ q \in y.out BY <1>1, SentIs
  <2>2. PacketOK(q) /\ Early(q) BY <2>1 DEF Shape
  <2> QED BY <1>1, <2>2, Rigid, SameClient
<1>3. ASSUME NEW z \in Servers PROVE ServerOK(s[z])'
  <2>1. ServerOK(s[z]) BY DEF Shape
  <2>2. ServerOK(Off) BY DEF ServerOK, Off
  <2>3. ServerOK(s'[z])
    <3>1. CASE z = x BY <2>2, <3>1 DEF ServerEffect
    <3>2. CASE z # x
      <4>1. (s'[z] = [s[z] EXCEPT !.mine = FALSE] /\ s[z].at = "wait") \/ s'[z] = s[z]
        BY <3>2 DEF ServerEffect
      <4> QED BY <2>1, <4>1, NotMine
    <3> QED BY <3>1, <3>2
  <2> QED BY <1>1, <2>3, SameClient
<1>4. DOMAIN s' = Servers BY DEF ServerEffect
<1>5. DOMAIN file' = {"c", "s"} BY <1>1 DEF Shape
<1>6. ClientOK' BY <1>1, SameClient DEF Shape
<1> QED BY <1>1, <1>2, <1>3, <1>4, <1>5, <1>6 DEF Shape

(* What a step of a tftpd leaves.                                          *)
LEMMA ServerKeeps ==
  ASSUME Shape, NEW x \in Servers, NEW y, NEW m, ServerMay(x, y, m)
  PROVE  /\ ProcOK(y.p) /\ y.p.peer = s[x].peer
         /\ IF opts.get THEN SenderOK(y.p) ELSE ReceiverOK(y.p)
         /\ y.p.fd /\ ~y.p.expect_OACK
         /\ \A o \in y.out : PacketOK(o) /\ (o \in {s[x].xbuf, ErrorTo(s[x])} \/ o = y.p.xbuf)
         /\ \/ y.p.xbuf = s[x].xbuf
            \/ m \in net /\ m.op \in {"DATA", "ACK"}
<1>1. /\ s[x].at = "wait" /\ opts \in Options /\ ProcOK(s[x]) /\ Early(s[x].xbuf)
      /\ s[x].peer = "c" /\ s[x].fd /\ ~s[x].expect_OACK
      /\ IF opts.get THEN SenderOK(s[x]) ELSE ReceiverOK(s[x])
      /\ \A q \in net : PacketOK(q) /\ Early(q)
  BY Zenon DEF Shape, ServerOK, ServerMay
<1>2. CASE ~opts.get
  <2>1. s[x].peer = Giver BY <1>1, <1>2 DEF Giver
  <2>2. ReceiverMay(s[x], file.s, m, y)
    BY <1>1, <1>2, Zenon DEF ServerMay, ReceiverMay
  <2>3. ReceiverOK(s[x]) BY <1>1, <1>2, Zenon
  <2>4. opts \in Options /\ ProcOK(s[x]) /\ s[x].at = "wait" BY <1>1
  <2>5. ReceiverKept(s[x], file.s, m, y) BY <2>1, <2>2, <2>3, <2>4, ReceiverKeeps
  <2>6. \/ y.p.xbuf = s[x].xbuf
        \/ m \in net /\ m.op \in {"DATA", "ACK"}
    <3>1. ~ReceiverStarts(s[x], file.s, y) BY <1>1 DEF ReceiverStarts
    <3>2. CASE ReceiverTakes(s[x], file.s, m, y) /\ m \in net
      BY <3>2 DEF ReceiverTakes
    <3>3. CASE ~(ReceiverTakes(s[x], file.s, m, y) /\ m \in net)
      <4>1. \/ ReceiverHolds(s[x], file.s, y) \/ ReceiverFails(s[x], file.s, y)
            \/ ReceiverDies(s[x], file.s, y)
        BY <1>2, <3>3 DEF ServerMay
      <4> QED BY <4>1
        DEF ReceiverHolds, ReceiverFails, ReceiverDies, Same, Fields, HoldFields
    <3> QED BY <3>2, <3>3
  <2> QED BY <1>1, <1>2, <2>5, <2>6, Zenon DEF ReceiverKept
<1>3. CASE opts.get
  <2>1. s[x].peer = Taker BY <1>1, <1>3 DEF Taker
  <2>2. SenderMay(s[x], file.s, y) BY <1>3 DEF ServerMay, SenderMay
  <2>3. SenderOK(s[x]) BY <1>1, <1>3
  <2>4. opts \in Options /\ ProcOK(s[x]) /\ s[x].at = "wait" BY <1>1
  <2>5. SenderKept(s[x], file.s, y) BY <2>1, <2>2, <2>3, <2>4, SenderKeeps
  <2>6. y.p.xbuf = s[x].xbuf \/ (m \in net /\ m.op \in {"DATA", "ACK"})
    <3>1. CASE SenderHolds(s[x], file.s, y) BY <3>1 DEF SenderHolds, Same, Fields, HoldFields
    <3>2. CASE ~SenderHolds(s[x], file.s, y) BY <1>3, <3>2 DEF ServerMay
    <3> QED BY <3>1, <3>2
  <2> QED BY <1>1, <1>3, <2>5, <2>6 DEF SenderKept
<1> QED BY <1>2, <1>3

(* A step of a tftpd that has answered leaves everything well-formed.      *)
LEMMA ServerShape ==
  ASSUME Shape, NEW x \in Servers, NEW y, NEW m, NEW rest,
         ServerEffect(x, y, rest), ServerMay(x, y, m)
  PROVE  Shape' /\ (y.p.at = "done" \/ ServerOK(y.p)) /\ y.p.fd
<1>1. /\ s[x].at = "wait" /\ opts \in Options /\ ProcOK(s[x]) /\ Early(s[x].xbuf)
      /\ s[x].peer = "c" /\ s[x].fd /\ ~s[x].expect_OACK
      /\ IF opts.get THEN SenderOK(s[x]) ELSE ReceiverOK(s[x])
      /\ \A q \in net : PacketOK(q) /\ Early(q)
  BY Zenon DEF Shape, ServerOK, ServerMay
<1>2. /\ ProcOK(y.p) /\ y.p.peer = s[x].peer
      /\ IF opts.get THEN SenderOK(y.p) ELSE ReceiverOK(y.p)
      /\ y.p.fd /\ ~y.p.expect_OACK
      /\ \A o \in y.out : PacketOK(o) /\ (o \in {s[x].xbuf, ErrorTo(s[x])} \/ o = y.p.xbuf)
      /\ \/ y.p.xbuf = s[x].xbuf
         \/ m \in net /\ m.op \in {"DATA", "ACK"}
  BY ServerKeeps
<1>3. Early(y.p.xbuf) BY <1>1, <1>2 DEF Early
<1>4. ErrorTo(s[x]).op = "ERROR" BY <1>1, ErrorToIs
<1>5. ASSUME NEW o \in y.out PROVE PacketOK(o) /\ Early(o)
  <2>1. CASE o = ErrorTo(s[x]) BY <1>2, <1>4, <2>1 DEF Early
  <2> QED BY <1>1, <1>2, <1>3, <2>1
<1>6. y.p.at = "done" \/ ServerOK(y.p)
  <2>1. y.p.at \in {"wait", "done"} BY <1>2 DEF ProcOK
  <2> QED BY <1>1, <1>2, <1>3, <2>1, Zenon DEF ServerOK
<1>7. Shape' BY <1>5, <1>6, EffectShape
<1> QED BY <1>2, <1>6, <1>7

(* So does its first answer.                                               *)
LEMMA StartShape ==
  ASSUME Shape, NEW x \in Servers, NEW y, ServerEffect(x, y, net), Refused(y) \/ Answers(y)
  PROVE  Shape' /\ (y.p.at = "done" \/ ServerOK(y.p))
<1>1. CASE Refused(y)
  <2>1. y.p.at = "done" /\ \A o \in y.out : PacketOK(o) /\ Early(o)
    BY <1>1 DEF Refused, Early
  <2> QED BY <2>1, EffectShape
<1>2. CASE Answers(y)
  <2>1. Early(y.p.xbuf) BY <1>2 DEF Answers, Early
  <2>2. PacketOK(y.p.xbuf) BY <1>2, Zenon DEF Answers, ProcOK
  <2>3. \A o \in y.out : PacketOK(o) /\ Early(o) BY <1>2, <2>1, <2>2 DEF Answers, Just
  <2>4. ServerOK(y.p) BY <1>2, <2>1, Zenon DEF Answers, ServerOK
  <2> QED BY <2>3, <2>4, EffectShape
<1> QED BY <1>1, <1>2

(* The network, inetd and a tftpd that has not yet answered.               *)
Quietly == Spawn \/ Unreachable \/ Lose \/ \E x \in Servers : CloseStdin(x) \/ StdinReceive(x)

(* What they do to the tftpd z.                                            *)
Turns(z) ==
  \/ s'[z] = s[z]
  \/ s[z].at = "stdin" /\ s'[z] = [s[z] EXCEPT !.at = "window"]
  \/ s[z].at = "wait" /\ s'[z] = [s[z] EXCEPT !.err = TRUE]

QuietEffect ==
  /\ opts' = opts /\ c' = c /\ file' = file /\ ended' = ended /\ net' \subseteq net
  /\ DOMAIN s' = Servers

(* What the network, inetd and a waiting tftpd change.                     *)
LEMMA QuietActs ==
  ASSUME Shape, Quietly
  PROVE  /\ QuietEffect
         /\ \/ calls' = calls /\ \A z \in Servers : Turns(z)
            \/ \E x \in Servers, m \in net :
                 /\ Spawn /\ s[x] = Off /\ s' = [s EXCEPT ![x] = [at |-> "stdin", req |-> m]]
                 /\ calls' = IF m.op \in Requests /\ calls < 2 THEN calls + 1 ELSE calls
<1>0. DOMAIN s = Servers BY DEF Shape
<1>1. \A m : \A rest \in Rest(m) : rest.net \subseteq net BY DEF Rest
<1>2. CASE Spawn
  <2>0. PICK m \in net : \E rest \in Rest(m) :
          /\ m.to = "s"
          /\ s' = [s EXCEPT ![CHOOSE x \in Servers : s[x] = Off] = [at |-> "stdin", req |-> m]]
          /\ net' = rest.net /\ copied' = rest.copied
          /\ calls' = IF m.op \in {"RRQ", "WRQ"} /\ calls < 2 THEN calls + 1 ELSE calls
    BY <1>2, Zenon DEF Spawn
  <2>1. net' \subseteq net BY <1>1, <2>0
  <2>2. PICK x : x = CHOOSE z \in Servers : s[z] = Off OBVIOUS
  <2>3. x \in Servers /\ s[x] = Off BY <1>2, <2>2 DEF Spawn
  <2>4. s' = [s EXCEPT ![x] = [at |-> "stdin", req |-> m]] BY <2>0, <2>2
  <2>5. calls' = IF m.op \in Requests /\ calls < 2 THEN calls + 1 ELSE calls
    BY <2>0 DEF Requests
  <2>6. QuietEffect BY <1>0, <1>2, <2>1, <2>4 DEF Spawn, QuietEffect
  <2> QED BY <1>2, <2>3, <2>4, <2>5, <2>6, Zenon
<1>3. CASE Unreachable
  <2>1. net' \subseteq net BY <1>1, <1>3 DEF Unreachable
  <2>2. CASE s' = s BY <1>0, <1>3, <2>1, <2>2 DEF Unreachable, QuietEffect, Turns
  <2>3. CASE s' # s
    <3>1. PICK x \in Servers : s[x].at = "wait" /\ s' = [s EXCEPT ![x].err = TRUE]
      BY <1>3, <2>3 DEF Unreachable
    <3>2. \A z \in Servers : Turns(z) BY <1>0, <3>1, Zenon DEF Turns
    <3>3. DOMAIN s' = Servers BY <1>0, <3>1
    <3> QED BY <1>3, <2>1, <3>2, <3>3 DEF Unreachable, QuietEffect
  <2> QED BY <2>2, <2>3
<1>4. CASE Lose BY <1>0, <1>4 DEF Lose, QuietEffect, Turns
<1>5. ASSUME NEW x \in Servers, CloseStdin(x)
      PROVE  QuietEffect /\ calls' = calls /\ \A z \in Servers : Turns(z)
  BY <1>0, <1>5 DEF CloseStdin, QuietEffect, Turns
<1>6. ASSUME NEW x \in Servers, StdinReceive(x)
      PROVE  QuietEffect /\ calls' = calls /\ \A z \in Servers : Turns(z)
  <2>1. net' \subseteq net BY <1>1, <1>6 DEF StdinReceive
  <2> QED BY <1>0, <1>6, <2>1 DEF StdinReceive, QuietEffect, Turns
<1> QED BY <1>2, <1>3, <1>4, <1>5, <1>6 DEF Quietly

(* A tftpd that has not received anything stays where it is.               *)
LEMMA TurnKeeps ==
  ASSUME NEW z \in Servers, ServerOK(s[z]), Turns(z)
  PROVE  /\ ServerOK(s'[z])
         /\ (s'[z].at = "wait" <=> s[z].at = "wait")
         /\ (s'[z].at \in {"stdin", "window"} <=> s[z].at \in {"stdin", "window"})
         /\ s[z].at \in {"stdin", "window"} => s'[z].req = s[z].req
         /\ s[z].at = "wait" => /\ s'[z].block_nr = s[z].block_nr /\ s'[z].pos = s[z].pos
                               /\ s'[z].mine = s[z].mine /\ s'[z].fd = s[z].fd
<1>1. CASE s'[z] = s[z] BY <1>1
<1>2. CASE s[z].at = "stdin" /\ s'[z] = [s[z] EXCEPT !.at = "window"]
  <2>1. DOMAIN s[z] = {"at", "req"} /\ PacketOK(s[z].req) BY <1>2 DEF ServerOK
  <2>2. DOMAIN s'[z] = {"at", "req"} /\ s'[z].at = "window" /\ s'[z].req = s[z].req
    BY <1>2, <2>1
  <2> QED BY <1>2, <2>1, <2>2 DEF ServerOK
<1>3. CASE s[z].at = "wait" /\ s'[z] = [s[z] EXCEPT !.err = TRUE]
  <2>1. PICK p : p = s[z] OBVIOUS
  <2>2. PICK q : q = s'[z] OBVIOUS
  <2>3. DOMAIN p = Fields /\ ServerOK(p) /\ p.at = "wait" BY <1>3, <2>1 DEF ServerOK, ProcOK
  <2>4. DOMAIN q = Fields /\ Same(p, q, {"err"}) BY <1>3, <2>1, <2>2, <2>3 DEF Same, Fields
  <2>5. /\ q.at = p.at /\ q.put = p.put /\ q.peer = p.peer /\ q.block_nr = p.block_nr
        /\ q.finished = p.finished /\ q.xbuf = p.xbuf /\ q.blksize = p.blksize
        /\ q.expect_OACK = p.expect_OACK /\ q.fd = p.fd /\ q.pos = p.pos /\ q.mine = p.mine
    BY <2>4 DEF Same, Fields
  <2>6. ProcOK(q) BY <2>3, <2>4, <2>5, Zenon DEF ServerOK, ProcOK
  <2>7. IF opts.get THEN SenderOK(q) ELSE ReceiverOK(q)
    BY <2>3, <2>5, Zenon DEF ServerOK, SenderOK, ReceiverOK
  <2>8. ServerOK(q) BY <2>3, <2>5, <2>6, <2>7 DEF ServerOK
  <2> QED BY <2>1, <2>2, <2>3, <2>5, <2>8
<1> QED BY <1>1, <1>2, <1>3 DEF Turns

(* The network and inetd leave everything well-formed.                     *)
LEMMA QuietShape ==
  ASSUME Shape, Quietly
  PROVE  Shape'
<1>1. QuietEffect BY QuietActs
<1>2. opts' = opts /\ c' = c BY <1>1 DEF QuietEffect
<1>3. \A q \in net' : PacketOK(q)' /\ Early(q)'
  <2>1. \A q \in net' : PacketOK(q) /\ Early(q) BY <1>1 DEF QuietEffect, Shape
  <2> QED BY <1>2, <2>1, Rigid, SameClient
<1>4. ClientOK' BY <1>2, SameClient DEF Shape
<1>5. \A z \in Servers : ServerOK(s[z]) BY DEF Shape
<1>6. calls' \in 0..2 /\ \A z \in Servers : ServerOK(s'[z])
  <2>1. CASE calls' = calls /\ \A z \in Servers : Turns(z)
    BY <1>5, <2>1, TurnKeeps DEF Shape
  <2>2. ASSUME NEW x \in Servers, NEW m \in net,
               s' = [s EXCEPT ![x] = [at |-> "stdin", req |-> m]],
               calls' = IF m.op \in Requests /\ calls < 2 THEN calls + 1 ELSE calls
        PROVE  calls' \in 0..2 /\ \A z \in Servers : ServerOK(s'[z])
    <3>1. PacketOK(m) /\ DOMAIN s = Servers BY DEF Shape
    <3>2. ServerOK([at |-> "stdin", req |-> m]) BY <3>1 DEF ServerOK
    <3>3. calls' \in 0..2 BY <2>2 DEF Shape
    <3> QED BY <1>5, <2>2, <3>1, <3>2, <3>3
  <2> QED BY <2>1, <2>2, QuietActs
<1>7. \A z \in Servers : ServerOK(s[z])' BY <1>2, <1>6, SameClient
<1> QED BY <1>1, <1>3, <1>4, <1>6, <1>7, Zenon DEF QuietEffect, Shape

=============================================================================
