----------------------------- MODULE TftpProofs -----------------------------
(***************************************************************************)
(* What a receiver of Tftp has written is a beginning of the file, and the *)
(* whole file when it reports success, for every file, block size, modulus *)
(* of block numbers, and number of packets that are lost, late or repeated.*)
(***************************************************************************)
EXTENDS TftpSteps

(* Where the file is copied: there has been one request, or a download     *)
(* whose block numbers do not wrap has met several tftpd.                  *)
Good == calls < 2 \/ (opts.get /\ Short)

(* No tftpd has answered yet.                                              *)
Unstarted == calls = 0 \/ \E x \in Servers : Asking(x)

-----------------------------------------------------------------------------
(* One tftpd *)

(* One request makes one tftpd, and before it answers tftp knows nothing.  *)
Single ==
  /\ \A x, y \in Servers : (Asking(x) \/ Serving(x)) /\ (Asking(y) \/ Serving(y)) => x = y
  /\ \A x \in Servers : Asking(x) \/ Serving(x) => calls # 0 /\ ended = {}
  /\ calls = 0 => ended = {}
  /\ Unstarted => /\ c.block_nr = 1 /\ c.expect_OACK
                  /\ \A q \in net : q.op \notin {"DATA", "ACK", "OACK"}

(* Sender and receiver are at most a block apart, and what is under way is *)
(* less than a round of block numbers old.                                 *)
Window(S, R) ==
  /\ R \in {S - 1, S} /\ S >= 1
  /\ \A q \in net :
       /\ q.op = "DATA" => q.n < S /\ q.n > S - opts.mod
       /\ q.op = "ACK" => q.n < R /\ q.n > S - 1 - opts.mod

Near ==
  IF opts.get
  THEN c.at = "wait" /\ ~Unstarted =>
         \E S \in c.block_nr..c.block_nr + 1 :
           /\ Window(S, c.block_nr)
           /\ \A x \in Servers : Serving(x) => s[x].block_nr = S
  ELSE \A x \in Servers : Serving(x) => Window(c.block_nr, s[x].block_nr)

-----------------------------------------------------------------------------
(* The file *)

(* The receiver's file: the old one, then what it has written, then all of *)
(* it or none.                                                             *)
Copied ==
  /\ opts.get =>
       IF c.at = "wait"
       THEN Wrote(c, file.c) /\ (~c.fd => file.c = Old)
       ELSE file.c \in {Old, NoFile, Whole} /\ (c.result = "success" => file.c = Whole)
  /\ ~opts.get =>
       /\ \A x \in Servers : Serving(x) => Wrote(s[x], file.s)
       /\ (\A x \in Servers : ~Serving(x)) =>
            \/ ended = {} /\ file.s = Old
            \/ ended = {"success"} /\ file.s = Whole
            \/ ended = {"failure"} /\ file.s = NoFile
            \/ ended = {"died"}

(* The inductive invariant.                                                *)
TftpInv ==
  /\ Shape
  /\ calls < 2 => Single /\ Near
  /\ Good => Copied

(* Numbers less than a round apart are the same if their remainders are.   *)
LEMMA ModSame ==
  ASSUME NEW a \in Nat, NEW b \in Nat, NEW m \in Nat, m > 0, a % m = b % m,
         a - b < m, b - a < m
  PROVE  a = b
<1>1. a = m * (a \div m) + (a % m) /\ a \div m \in Int OBVIOUS
<1>2. b = m * (b \div m) + (b % m) /\ b \div m \in Int OBVIOUS
<1>3. PICK p \in Int : p = a \div m BY <1>1
<1>4. PICK q \in Int : q = b \div m BY <1>2
<1>5. PICK r : r = a % m OBVIOUS
<1>6. r \in Int BY <1>5
<1>7. a = m * p + r /\ b = m * q + r BY <1>1, <1>2, <1>3, <1>4, <1>5
<1>8. a - b = m * (p - q) BY <1>6, <1>7
<1>9. ~(p > q)
  <2>1. p > q => m * (p - q) >= m OBVIOUS
  <2> QED BY <1>8, <2>1
<1>10. ~(q > p)
  <2>1. q > p => m * (p - q) <= -m OBVIOUS
  <2> QED BY <1>8, <2>1
<1> QED BY <1>7, <1>9, <1>10

-----------------------------------------------------------------------------
(* The window *)

Numbered(q) == q.op \in {"DATA", "ACK"}

(* What is sent again, and what is lost, leaves the window.                *)
LEMMA WindowStays ==
  ASSUME opts' = opts, opts.mod \in Nat, opts.mod > 1, NEW S \in Nat, NEW R \in Nat,
         Window(S, R),
         \A q \in net' : \/ q \in net \/ ~Numbered(q)
                         \/ q.op = "ACK" /\ q.n = R - 1
                         \/ q.op = "DATA" /\ q.n = S - 1
  PROVE  Window(S, R)'
BY DEF Window, Numbered

(* The receiver acknowledges a block.                                      *)
LEMMA WindowAck ==
  ASSUME opts' = opts, opts.mod \in Nat, opts.mod > 1, NEW S \in Nat, NEW R \in Nat,
         Window(S, R), R = S - 1, \A q \in net : q.n \in Nat,
         \A q \in net' : q \in net \/ ~Numbered(q) \/ (q.op = "ACK" /\ q.n = R)
  PROVE  Window(S, R + 1)'
BY DEF Window, Numbered

(* The sender sends a block; what is a round older is no longer under way. *)
LEMMA WindowData ==
  ASSUME opts' = opts, opts.mod \in Nat, opts.mod > 1, NEW S \in Nat, NEW R \in Nat,
         Window(S, R), R = S, \A q \in net : q.n \in Nat,
         \A q \in net' : \/ q \in net /\ q.n > S + 1 - opts.mod
                         \/ q.op = "DATA" /\ q.n = S
  PROVE  Window(S + 1, R)'
BY DEF Window, Numbered

(* Only the block that is expected has the number that is expected.        *)
LEMMA DataAccepted ==
  ASSUME opts.mod \in Nat, opts.mod > 1, NEW S \in Nat, NEW R \in Nat, Window(S, R),
         NEW q \in net, PacketOK(q), q.op = "DATA", q.nr = R % opts.mod
  PROVE  q.n = R /\ R = S - 1
<1>1. q.n \in Nat /\ q.nr = q.n % opts.mod BY DEF PacketOK
<1>2. q.n < S /\ q.n > S - opts.mod /\ R \in {S - 1, S} BY DEF Window
<1>3. q.n - R < opts.mod /\ R - q.n < opts.mod BY <1>1, <1>2
<1>4. q.n = R
  <2>1. PICK n \in Nat : n = q.n BY <1>1
  <2>2. PICK mod \in Nat : mod = opts.mod BY Zenon
  <2>3. mod > 0 /\ n % mod = R % mod /\ n - R < mod /\ R - n < mod
    BY <1>1, <1>3, <2>1, <2>2
  <2> QED BY <2>1, <2>2, <2>3, ModSame
<1> QED BY <1>2, <1>4

(* Only the ACK of the last block has the number of the last block.        *)
LEMMA AckAccepted ==
  ASSUME opts.mod \in Nat, opts.mod > 1, NEW S \in Nat, S >= 1, NEW R \in Nat, Window(S, R),
         NEW q \in net, PacketOK(q), q.op = "ACK", q.nr = (S - 1) % opts.mod
  PROVE  q.n = S - 1 /\ R = S
<1>1. q.n \in Nat /\ q.nr = q.n % opts.mod BY DEF PacketOK
<1>2. q.n < R /\ q.n > S - 1 - opts.mod /\ R \in {S - 1, S} BY DEF Window
<1>3. q.n = S - 1
  <2>1. PICK n \in Nat : n = q.n BY <1>1
  <2>2. PICK mod \in Nat : mod = opts.mod BY Zenon
  <2>3. PICK k \in Nat : k = S - 1 OBVIOUS
  <2>4. mod > 0 /\ n % mod = k % mod /\ n - k < mod /\ k - n < mod
    BY <1>1, <1>2, <2>1, <2>2, <2>3
  <2> QED BY <2>1, <2>2, <2>3, <2>4, ModSame, Zenon
<1> QED BY <1>2, <1>3

(* Without DATA and ACK there is nothing to compare.                       *)
LEMMA WindowOpens ==
  ASSUME opts' = opts, opts.mod \in Nat, opts.mod > 1, NEW S \in {1, 2},
         \A q \in net' : \/ ~Numbered(q)
                         \/ q.op = "DATA" /\ q.n = 1 /\ S = 2
                         \/ q.op = "ACK" /\ q.n = 0 /\ S = 1
  PROVE  Window(S, 1)'
BY DEF Window, Numbered

-----------------------------------------------------------------------------
(* One tftpd: Single and Near are inductive *)

(* A step of tftp keeps the ends a block apart.                            *)
LEMMA ClientNear ==
  ASSUME Shape, Single, Near, Client
  PROVE  Single' /\ Near'
<1>1. PICK y, m, rest : ClientEffect(y, rest) /\ ClientMay(y, m) BY ClientActs
<1>2. /\ c' = y.p /\ net' = Sent(rest, y.out)
      /\ rest \subseteq net /\ opts' = opts /\ s' = s /\ calls' = calls /\ ended' = ended
  BY <1>1 DEF ClientEffect
<1>3. /\ ProcOK(y.p)
      /\ IF opts.get THEN ReceiverOK(y.p) ELSE SenderOK(y.p)
      /\ \A o \in y.out : PacketOK(o) /\ (o \in {c.xbuf, ErrorTo(c)} \/ o = y.p.xbuf)
      /\ y.p.xbuf = c.xbuf \/ ~y.p.expect_OACK
  BY <1>1, ClientKeeps
<1>4. /\ opts \in Options /\ ProcOK(c) /\ c.at = "wait"
      /\ IF opts.get THEN ReceiverOK(c) ELSE SenderOK(c)
      /\ \A q \in net : PacketOK(q)
  BY <1>1 DEF Shape, ClientOK, ClientMay
<1>5. opts.mod \in Nat /\ opts.mod > 1 BY <1>4, OptsAre
<1>6. ErrorTo(c).op = "ERROR" BY <1>4, ErrorToIs
<1>7. \A x \in Servers : (Asking(x)' <=> Asking(x)) /\ (Serving(x)' <=> Serving(x))
  BY <1>2 DEF Asking, Serving
<1>8. Unstarted' <=> Unstarted BY <1>2, <1>7 DEF Unstarted
<1>9. \A q \in net' : q \in net \/ q \in y.out BY <1>2, SentIs
<1>10. Single'
  <2>1. ASSUME Unstarted
        PROVE  /\ y.p.block_nr = 1 /\ y.p.expect_OACK
               /\ \A q \in net' : q.op \notin {"DATA", "ACK", "OACK"}
    <3>1. c.block_nr = 1 /\ c.expect_OACK /\ ~Begun BY <2>1 DEF Single, Begun
    <3>2. y.p.block_nr = 1 /\ y.p.expect_OACK BY <1>1, <3>1, Zenon DEF ClientMay
    <3>3. c.xbuf.op \notin {"DATA", "ACK", "OACK"} BY <1>4, <3>1 DEF ProcOK
    <3>4. \A q \in y.out : q.op \notin {"DATA", "ACK", "OACK"}
      BY <1>3, <1>6, <3>2, <3>3
    <3> QED BY <1>9, <3>1, <3>2, <3>4 DEF Begun
  <2> QED BY <1>2, <1>7, <1>8, <2>1 DEF Single
<1>11. CASE opts.get
  <2>1. SUFFICES ASSUME y.p.at = "wait", ~Unstarted
                 PROVE  \E S \in y.p.block_nr..y.p.block_nr + 1 :
                          /\ Window(S, y.p.block_nr)'
                          /\ \A x \in Servers : Serving(x) => s[x].block_nr = S
    BY <1>2, <1>7, <1>8, <1>10, <1>11 DEF Near
  <2>2. PICK R \in Nat : R = c.block_nr BY <1>4 DEF ProcOK
  <2>3. PICK S \in R..R + 1 : /\ Window(S, R)
                              /\ \A x \in Servers : Serving(x) => s[x].block_nr = S
    BY <1>4, <1>11, <2>1, <2>2 DEF Near
  <2>4. S \in Nat BY <2>2, <2>3
  <2>5. CASE y.p.block_nr = R
    <3>1. \A q \in y.out : ~Numbered(q) \/ (q.op = "ACK" /\ q.n = R - 1)
      BY <1>3, <1>4, <1>6, <1>11, <2>2, <2>5 DEF ReceiverOK, Numbered
    <3>2. Window(S, R)' BY <1>2, <1>5, <1>9, <2>3, <2>4, <3>1, WindowStays
    <3> QED BY <2>3, <2>5, <3>2
  <2>6. CASE y.p.block_nr # R
    <3>1. ReceiverTakes(c, file.c, m, y) /\ m \in net
      <4>1. ReceiverHolds(c, file.c, y) => y.p.block_nr = R
        BY <2>2 DEF ReceiverHolds, Same, Fields
      <4>2. ReceiverStarts(c, file.c, y) => y.p.block_nr = R
        BY <2>2 DEF ReceiverStarts, Same, Fields
      <4>3. ~ReceiverFails(c, file.c, y) BY <2>1 DEF ReceiverFails
      <4> QED BY <1>1, <1>11, <2>6, <4>1, <4>2, <4>3 DEF ClientMay
    <3>2. /\ m.op = "DATA" /\ m.nr = R % opts.mod /\ y.p.block_nr = R + 1
          /\ y.out = Just(Ack(c))
      BY <2>2, <3>1 DEF ReceiverTakes
    <3>3. R = S - 1 BY <1>4, <1>5, <2>3, <2>4, <3>1, <3>2, DataAccepted
    <3>4. Ack(c).op = "ACK" /\ Ack(c).n = R BY <2>2 DEF Ack, Packet
    <3>5. \A q \in net' : q \in net \/ ~Numbered(q) \/ (q.op = "ACK" /\ q.n = R)
      BY <1>9, <3>2, <3>4 DEF Just
    <3>6. \A q \in net : q.n \in Nat BY <1>4 DEF PacketOK
    <3>7. Window(S, R + 1)' BY <1>2, <1>5, <2>3, <2>4, <3>3, <3>5, <3>6, WindowAck
    <3> QED BY <2>2, <2>3, <3>2, <3>3, <3>7
  <2> QED BY <2>5, <2>6
<1>12. CASE ~opts.get
  <2>1. SUFFICES ASSUME NEW x \in Servers, Serving(x)
                 PROVE  Window(y.p.block_nr, s[x].block_nr)'
    BY <1>2, <1>7, <1>10, <1>12 DEF Near
  <2>2. PICK S \in Nat : S = c.block_nr /\ S >= 1 BY <1>4 DEF ProcOK
  <2>3. PICK R \in Nat : R = s[x].block_nr /\ R >= 1
    BY <2>1 DEF Shape, ServerOK, ProcOK, Serving
  <2>4. Window(S, R) BY <1>12, <2>1, <2>2, <2>3 DEF Near
  <2>5. CASE SenderHolds(c, file.c, y)
    <3>1. y.p.block_nr = S /\ y.p.xbuf = c.xbuf
      BY <2>2, <2>5 DEF SenderHolds, Same, Fields, HoldFields
    <3>2. \A q \in y.out : ~Numbered(q) \/ (q.op = "DATA" /\ q.n = S - 1)
      BY <1>3, <1>4, <1>6, <1>12, <2>2, <3>1 DEF SenderOK, Numbered
    <3>3. Window(S, R)' BY <1>2, <1>5, <1>9, <2>4, <3>2, WindowStays
    <3> QED BY <1>2, <2>3, <3>1, <3>3
  <2>6. CASE ~SenderHolds(c, file.c, y)
    <3>1. /\ SenderNext(c, file.c, y)
          /\ \/ c.expect_OACK
             \/ m \in net /\ m.op = "ACK" /\ m.nr = (S - 1) % opts.mod
      BY <1>1, <1>12, <2>2, <2>6 DEF ClientMay
    <3>2. R = S
      <4>1. CASE c.expect_OACK BY <1>4, <2>2, <2>3, <2>4, <4>1 DEF ProcOK, Window
      <4>2. CASE ~c.expect_OACK BY <1>4, <1>5, <2>2, <2>4, <3>1, <4>2, AckAccepted
      <4> QED BY <4>1, <4>2
    <3>3. /\ y.p.block_nr = S + 1 /\ y.out = Just(y.p.xbuf)
          /\ y.p.xbuf = Packet(c.peer, "DATA", S, Chunk(S), 0)
      BY <2>2, <3>1 DEF SenderNext
    <3>4. y.p.xbuf.op = "DATA" /\ y.p.xbuf.n = S BY <3>3 DEF Packet
    <3>5. \A q \in net' : (q \in net /\ q.n > S + 1 - opts.mod) \/ (q.op = "DATA" /\ q.n = S)
      BY <1>2, <3>3, <3>4, SentIs DEF Just
    <3>6. \A q \in net : q.n \in Nat BY <1>4 DEF PacketOK
    <3>7. Window(S + 1, R)' BY <1>2, <1>5, <2>4, <3>2, <3>5, <3>6, WindowData
    <3> QED BY <1>2, <2>3, <3>3, <3>7
  <2> QED BY <2>5, <2>6
<1> QED BY <1>10, <1>11, <1>12

(* A step of the tftpd that there is.                                      *)
LEMMA TheServer ==
  ASSUME Shape, Single, NEW x \in Servers, Asking(x) \/ Serving(x), NEW y, NEW rest,
         ServerEffect(x, y, rest), y.p.at \in {"wait", "done"}
  PROVE  /\ \A z \in Servers : z # x => ~Asking(z) /\ ~Serving(z) /\ s'[z] = s[z]
         /\ \A z \in Servers : ~Asking(z)'
         /\ \A z \in Servers : Serving(z)' <=> z = x /\ y.p.at = "wait"
         /\ y.p.at = "wait" => s'[x] = y.p
         /\ ~Unstarted' /\ calls # 0 /\ ended = {}
         /\ Single'
<1>1. \A z \in Servers : z # x => ~Asking(z) /\ ~Serving(z) BY DEF Single
<1>2. ASSUME NEW z \in Servers, z # x PROVE s'[z] = s[z]
  <2>1. s[z].at # "wait" BY <1>1, <1>2 DEF Serving
  <2> QED BY <1>2, <2>1 DEF ServerEffect
<1>3. s'[x] = IF y.p.at = "done" THEN Off ELSE y.p BY DEF ServerEffect
<1>4. \A z \in Servers : ~Asking(z)'
  <2>1. ~Asking(x)' BY <1>3 DEF Asking, Off
  <2>2. \A z \in Servers : z # x => ~Asking(z)' BY <1>1, <1>2 DEF Asking
  <2> QED BY <2>1, <2>2
<1>5. \A z \in Servers : Serving(z)' <=> z = x /\ y.p.at = "wait"
  <2>1. Serving(x)' <=> y.p.at = "wait" BY <1>3 DEF Serving, Off
  <2>2. \A z \in Servers : z # x => ~Serving(z)' BY <1>1, <1>2 DEF Serving
  <2> QED BY <2>1, <2>2
<1>6. calls # 0 /\ ended = {} /\ calls' = calls BY DEF Single, ServerEffect
<1>7. ~Unstarted' BY <1>4, <1>6 DEF Unstarted
<1>8. y.p.at = "wait" => ended' = ended BY DEF ServerEffect
<1>9. Single' BY <1>4, <1>5, <1>6, <1>7, <1>8 DEF Single
<1> QED BY <1>1, <1>2, <1>3, <1>4, <1>5, <1>6, <1>7, <1>9

(* So does one of the tftpd that has answered.                             *)
LEMMA ServerNear ==
  ASSUME Shape, Single, Near, NEW x \in Servers, NEW y, NEW m, NEW rest,
         ServerEffect(x, y, rest), ServerMay(x, y, m)
  PROVE  Single' /\ Near'
<1>1. /\ s[x].at = "wait" /\ opts \in Options /\ ProcOK(s[x])
      /\ IF opts.get THEN SenderOK(s[x]) ELSE ReceiverOK(s[x])
      /\ \A q \in net : PacketOK(q)
  BY DEF Shape, ServerOK, ServerMay
<1>2. /\ ProcOK(y.p)
      /\ IF opts.get THEN SenderOK(y.p) ELSE ReceiverOK(y.p)
      /\ \A o \in y.out : PacketOK(o) /\ (o \in {s[x].xbuf, ErrorTo(s[x])} \/ o = y.p.xbuf)
  BY ServerKeeps
<1>3. Serving(x) BY <1>1 DEF Serving
<1>4. y.p.at \in {"wait", "done"} BY <1>2 DEF ProcOK
<1>5. /\ \A z \in Servers : Serving(z)' <=> z = x /\ y.p.at = "wait"
      /\ y.p.at = "wait" => s'[x] = y.p
      /\ Single' /\ ~Unstarted' /\ calls # 0
      /\ \A z \in Servers : z # x => ~Asking(z)
  BY <1>3, <1>4, TheServer
<1>6. opts' = opts /\ c' = c /\ net' = Sent(rest, y.out) /\ rest \subseteq net
  BY DEF ServerEffect
<1>7. opts.mod \in Nat /\ opts.mod > 1 BY <1>1, OptsAre
<1>8. ErrorTo(s[x]).op = "ERROR" BY <1>1, ErrorToIs
<1>9. \A q \in net' : q \in net \/ q \in y.out BY <1>6, SentIs
<1>10. ~Unstarted
  <2>1. ~Asking(x) BY <1>1 DEF Asking
  <2> QED BY <1>5, <2>1 DEF Unstarted
<1>11. \A q \in net : q.n \in Nat BY <1>1 DEF PacketOK
<1>12. CASE opts.get
  <2>1. SUFFICES ASSUME c.at = "wait"
                 PROVE  \E S \in c.block_nr..c.block_nr + 1 :
                          Window(S, c.block_nr)' /\ (y.p.at = "wait" => y.p.block_nr = S)
    BY <1>5, <1>6, <1>12 DEF Near
  <2>2. PICK R \in Nat : R = c.block_nr BY DEF Shape, ClientOK, ProcOK
  <2>3. PICK S \in R..R + 1 : Window(S, R) /\ s[x].block_nr = S
    BY <1>3, <1>10, <1>12, <2>1, <2>2 DEF Near
  <2>4. S \in Nat /\ S >= 1 BY <2>2, <2>3 DEF Window
  <2>5. CASE SenderHolds(s[x], file.s, y)
    <3>1. y.p.block_nr = S /\ y.p.xbuf = s[x].xbuf
      BY <2>3, <2>5 DEF SenderHolds, Same, Fields, HoldFields
    <3>2. \A q \in y.out : ~Numbered(q) \/ (q.op = "DATA" /\ q.n = S - 1)
      BY <1>1, <1>2, <1>8, <1>12, <2>3, <3>1 DEF SenderOK, Numbered
    <3>3. Window(S, R)' BY <1>6, <1>7, <1>9, <2>3, <2>4, <3>2, WindowStays
    <3> QED BY <1>6, <2>2, <2>3, <3>1, <3>3
  <2>6. CASE ~SenderHolds(s[x], file.s, y)
    <3>1. /\ SenderNext(s[x], file.s, y)
          /\ m \in net /\ m.op = "ACK" /\ m.nr = (S - 1) % opts.mod
      BY <1>12, <2>3, <2>6 DEF ServerMay
    <3>2. R = S BY <1>1, <1>7, <2>3, <2>4, <3>1, AckAccepted
    <3>3. /\ y.p.block_nr = S + 1 /\ y.out = Just(y.p.xbuf)
          /\ y.p.xbuf = Packet(s[x].peer, "DATA", S, Chunk(S), 0)
      BY <2>3, <3>1 DEF SenderNext
    <3>4. y.p.xbuf.op = "DATA" /\ y.p.xbuf.n = S BY <3>3 DEF Packet
    <3>5. \A q \in net' : (q \in net /\ q.n > S + 1 - opts.mod) \/ (q.op = "DATA" /\ q.n = S)
      BY <1>6, <3>3, <3>4, SentIs DEF Just
    <3>6. Window(S + 1, R)' BY <1>6, <1>7, <1>11, <2>3, <2>4, <3>2, <3>5, WindowData
    <3> QED BY <1>6, <2>2, <2>3, <3>2, <3>3, <3>6
  <2> QED BY <2>5, <2>6
<1>13. CASE ~opts.get
  <2>1. SUFFICES ASSUME y.p.at = "wait"
                 PROVE  Window(c.block_nr, s[x].block_nr)'
    BY <1>5, <1>6, <1>13 DEF Near
  <2>2. PICK S \in Nat : S = c.block_nr BY DEF Shape, ClientOK, ProcOK
  <2>3. PICK R \in Nat : R = s[x].block_nr BY <1>1 DEF ProcOK
  <2>4. Window(S, R) BY <1>3, <1>13, <2>2, <2>3 DEF Near
  <2>5. s'[x] = y.p BY <1>5, <2>1
  <2>6. CASE ReceiverHolds(s[x], file.s, y)
    <3>1. y.p.block_nr = R /\ y.p.xbuf = s[x].xbuf
      BY <2>3, <2>6 DEF ReceiverHolds, Same, Fields
    <3>2. \A q \in y.out : ~Numbered(q) \/ (q.op = "ACK" /\ q.n = R - 1)
      BY <1>1, <1>2, <1>8, <1>13, <2>3, <3>1 DEF ReceiverOK, Numbered
    <3>3. Window(S, R)' BY <1>6, <1>7, <1>9, <2>4, <3>2, WindowStays, Zenon
    <3> QED BY <1>6, <2>2, <2>5, <3>1, <3>3
  <2>7. CASE ~ReceiverHolds(s[x], file.s, y)
    <3>1. ReceiverTakes(s[x], file.s, m, y) /\ m \in net
      BY <1>13, <2>1, <2>7 DEF ServerMay, ReceiverFails, ReceiverDies
    <3>2. /\ m.op = "DATA" /\ m.nr = R % opts.mod /\ y.p.block_nr = R + 1
          /\ y.out = Just(Ack(s[x]))
      BY <2>3, <3>1 DEF ReceiverTakes
    <3>3. R = S - 1 BY <1>1, <1>7, <2>4, <3>1, <3>2, DataAccepted
    <3>4. Ack(s[x]).op = "ACK" /\ Ack(s[x]).n = R BY <2>3 DEF Ack, Packet
    <3>5. \A q \in net' : q \in net \/ ~Numbered(q) \/ (q.op = "ACK" /\ q.n = R)
      BY <1>9, <3>2, <3>4 DEF Just
    <3>6. Window(S, R + 1)' BY <1>6, <1>7, <1>11, <2>4, <3>3, <3>5, WindowAck
    <3> QED BY <1>6, <2>2, <2>5, <3>2, <3>6
  <2> QED BY <2>6, <2>7
<1> QED BY <1>5, <1>12, <1>13

(* Those of the others that have not answered stay where they are.         *)
LEMMA SameServers ==
  ASSUME opts' = opts, c' = c, calls' = calls, ended' = ended, Shape, Single, Near,
         \A z \in Servers : (Asking(z)' <=> Asking(z)) /\ (Serving(z)' <=> Serving(z)),
         \A z \in Servers : Serving(z) => s'[z].block_nr = s[z].block_nr,
         \A q \in net' : q \in net \/ q.op = "ERROR"
  PROVE  Single' /\ Near'
<1>1. Unstarted' <=> Unstarted BY DEF Unstarted
<1>2. Single' BY <1>1 DEF Single
<1>3. opts.mod \in Nat /\ opts.mod > 1 BY OptsAre DEF Shape
<1>4. ASSUME NEW S \in Nat, NEW R \in Nat, Window(S, R) PROVE Window(S, R)'
  BY <1>3, <1>4, WindowStays DEF Numbered
<1>5. PICK k \in Nat : k = c.block_nr BY DEF Shape, ClientOK, ProcOK
<1>6. \A z \in Servers : Serving(z) => s[z].block_nr \in Nat
  BY DEF Shape, ServerOK, ProcOK, Serving
<1>7. CASE opts.get
  <2>1. SUFFICES ASSUME c.at = "wait", ~Unstarted
                 PROVE  \E S \in k..k + 1 :
                          Window(S, k)' /\ \A z \in Servers : Serving(z) => s[z].block_nr = S
    BY <1>1, <1>2, <1>5, <1>7 DEF Near
  <2>2. PICK S \in k..k + 1 :
          Window(S, k) /\ \A z \in Servers : Serving(z) => s[z].block_nr = S
    BY <1>5, <1>7, <2>1 DEF Near
  <2> QED BY <1>4, <1>5, <2>2
<1>8. CASE ~opts.get
  <2>1. SUFFICES ASSUME NEW z \in Servers, Serving(z)
                 PROVE  Window(c.block_nr, s[z].block_nr)'
    BY <1>2, <1>8 DEF Near
  <2>2. PICK R \in Nat : R = s[z].block_nr BY <1>6, <2>1
  <2>3. Window(k, R) BY <1>5, <1>8, <2>1, <2>2 DEF Near
  <2>4. Window(k, R)' BY <1>4, <2>3
  <2> QED BY <1>5, <2>1, <2>2, <2>4
<1> QED BY <1>2, <1>7, <1>8

(* A refusal changes no other tftpd.                                       *)
LEMMA RefusedLeaves ==
  ASSUME NEW x \in Servers, NEW y, ServerEffect(x, y, net), Refused(y)
  PROVE  /\ \A z \in Servers : z # x => s'[z] = s[z]
         /\ s'[x] = Off /\ ended' = ended
         /\ \A q \in net' : q \in net \/ q.op = "ERROR"
<1>1. ~(file.s.there /\ ~y.f.there) BY DEF Refused
<1>2. \A z \in Servers : z # x => s'[z] = s[z] BY <1>1 DEF ServerEffect
<1>3. s'[x] = Off /\ ended' = ended BY DEF ServerEffect, Refused
<1>4. net' = Sent(net, y.out) BY DEF ServerEffect
<1>5. \A q \in net' : q \in net \/ q \in y.out BY <1>4, SentIs
<1> QED BY <1>2, <1>3, <1>5 DEF Refused

(* The first answer opens the window, a refusal leaves it.                 *)
LEMMA StartNear ==
  ASSUME Shape, Single, Near, NEW x \in Servers, Start(x)
  PROVE  Single' /\ Near'
<1>1. PICK y : ServerEffect(x, y, net) /\ (Refused(y) \/ (Answers(y) /\ Asking(x)))
  BY StartActs
<1>2. /\ opts' = opts /\ c' = c /\ calls' = calls /\ net' = Sent(net, y.out)
      /\ opts \in Options
  BY <1>1 DEF ServerEffect, Shape
<1>3. opts.mod \in Nat /\ opts.mod > 1 BY <1>2, OptsAre
<1>4. \A q \in net' : q \in net \/ q \in y.out BY <1>2, SentIs
<1>5. s[x].at = "window" BY DEF Start
<1>6. CASE Refused(y) /\ ~Asking(x)
  <2>1. /\ \A z \in Servers : z # x => s'[z] = s[z]
        /\ s'[x] = Off /\ ended' = ended
        /\ \A q \in net' : q \in net \/ q.op = "ERROR"
    BY <1>1, <1>6, RefusedLeaves
  <2>2. \A z \in Servers : (Asking(z)' <=> Asking(z)) /\ (Serving(z)' <=> Serving(z))
    <3>1. ~Asking(x)' /\ ~Serving(x)' /\ ~Serving(x)
      BY <1>5, <2>1 DEF Asking, Serving, Off
    <3>2. \A z \in Servers : z # x => /\ Asking(z)' <=> Asking(z)
                                      /\ Serving(z)' <=> Serving(z)
      BY <2>1 DEF Asking, Serving
    <3> QED BY <1>6, <3>1, <3>2
  <2>3. \A z \in Servers : Serving(z) => s'[z].block_nr = s[z].block_nr
    BY <1>5, <2>1 DEF Serving
  <2> QED BY <1>2, <2>1, <2>2, <2>3, SameServers
<1>7. CASE Asking(x)
  <2>1. y.p.at \in {"wait", "done"} BY <1>1 DEF Refused, Answers
  <2>2. /\ \A z \in Servers : Serving(z)' <=> z = x /\ y.p.at = "wait"
        /\ y.p.at = "wait" => s'[x] = y.p
        /\ Single' /\ ~Unstarted'
    BY <1>1, <1>7, <2>1, TheServer
  <2>3. c.block_nr = 1 /\ \A q \in net : ~Numbered(q)
    BY <1>7 DEF Single, Unstarted, Numbered
  <2>4. CASE Refused(y)
    <3>1. \A q \in net' : ~Numbered(q) BY <1>4, <2>3, <2>4 DEF Refused, Numbered
    <3>2. Window(1, 1)' BY <1>2, <1>3, <3>1, WindowOpens
    <3>3. y.p.at # "wait" BY <2>4 DEF Refused
    <3> QED BY <1>2, <2>2, <2>3, <3>2, <3>3 DEF Near
  <2>5. CASE Answers(y)
    <3>1. /\ y.p.at = "wait" /\ y.out = Just(y.p.xbuf)
          /\ IF opts.get THEN SenderOK(y.p) ELSE ReceiverOK(y.p)
          /\ y.p.xbuf.op # "DATA" => y.p.block_nr = 1
          /\ y.p.xbuf.op = "DATA" => y.p.block_nr = 2
      BY <2>5 DEF Answers
    <3>2. \A q \in net' : Numbered(q) => q = y.p.xbuf BY <1>4, <2>3, <3>1 DEF Just
    <3>3. CASE opts.get
      <4>1. PICK S \in {1, 2} : S = y.p.block_nr BY <3>1
      <4>2. \A q \in net' : ~Numbered(q) \/ (q.op = "DATA" /\ q.n = 1 /\ S = 2)
        BY <3>1, <3>2, <3>3, <4>1 DEF SenderOK, Numbered
      <4>3. Window(S, 1)' BY <1>2, <1>3, <4>2, WindowOpens
      <4> QED BY <1>2, <2>2, <2>3, <3>1, <3>3, <4>1, <4>3 DEF Near
    <3>4. CASE ~opts.get
      <4>1. y.p.block_nr = 1 BY <3>1, <3>4 DEF ReceiverOK
      <4>2. \A q \in net' : ~Numbered(q) \/ (q.op = "ACK" /\ q.n = 0)
        BY <3>1, <3>2, <3>4, <4>1 DEF ReceiverOK, Numbered
      <4>3. Window(1, 1)' BY <1>2, <1>3, <4>2, WindowOpens
      <4> QED BY <1>2, <2>2, <2>3, <3>1, <3>4, <4>1, <4>3 DEF Near
    <3> QED BY <3>3, <3>4
  <2> QED BY <1>1, <2>4, <2>5
<1> QED BY <1>1, <1>6, <1>7

(* Losses, new requests and a closed socket leave the window.              *)
LEMMA QuietNear ==
  ASSUME Shape, Single, Near, Quietly, calls' < 2
  PROVE  Single' /\ Near'
<1>1. opts' = opts /\ c' = c /\ ended' = ended /\ net' \subseteq net
  BY QuietActs DEF QuietEffect
<1>2. CASE calls' = calls /\ \A z \in Servers : Turns(z)
  <2>1. \A z \in Servers : ServerOK(s[z]) BY DEF Shape
  <2>2. \A z \in Servers : (Asking(z)' <=> Asking(z)) /\ (Serving(z)' <=> Serving(z))
    BY <1>2, <2>1, TurnKeeps DEF Asking, Serving
  <2>3. \A z \in Servers : Serving(z) => s'[z].block_nr = s[z].block_nr
    BY <1>2, <2>1, TurnKeeps DEF Serving
  <2> QED BY <1>1, <1>2, <2>2, <2>3, SameServers
<1>3. ASSUME NEW x \in Servers, NEW m \in net, s[x] = Off,
             s' = [s EXCEPT ![x] = [at |-> "stdin", req |-> m]],
             calls' = IF m.op \in Requests /\ calls < 2 THEN calls + 1 ELSE calls
      PROVE  Single' /\ Near'
  <2>1. DOMAIN s = Servers /\ calls \in 0..2 BY DEF Shape
  <2>2. s'[x].at = "stdin" /\ s'[x].req = m BY <1>3, <2>1
  <2>3. \A z \in Servers : z # x => s'[z] = s[z] BY <1>3, <2>1
  <2>4. \A z \in Servers : z # x => /\ Asking(z)' <=> Asking(z)
                                    /\ Serving(z)' <=> Serving(z)
    BY <2>3 DEF Asking, Serving
  <2>5. ~Asking(x) /\ ~Serving(x) /\ ~Serving(x)' /\ (Asking(x)' <=> m.op \in Requests)
    BY <1>3, <2>2 DEF Asking, Serving, Off
  <2>6. CASE m.op \notin Requests
    <3>1. \A z \in Servers : (Asking(z)' <=> Asking(z)) /\ (Serving(z)' <=> Serving(z))
      BY <2>4, <2>5, <2>6
    <3>2. \A z \in Servers : Serving(z) => s'[z].block_nr = s[z].block_nr
      BY <2>3, <2>5
    <3>3. calls' = calls BY <1>3, <2>6
    <3> QED BY <1>1, <3>1, <3>2, <3>3, SameServers
  <2>7. CASE m.op \in Requests
    <3>1. calls = 0 /\ calls' = 1 BY <1>3, <2>1, <2>7
    <3>2. ended = {} /\ \A z \in Servers : ~Asking(z) /\ ~Serving(z) BY <3>1 DEF Single
    <3>3. \A z \in Servers : ~Serving(z)' /\ (Asking(z)' <=> z = x) BY <2>4, <2>5, <2>7, <3>2
    <3>4. /\ c.block_nr = 1 /\ c.expect_OACK
          /\ \A q \in net : q.op \notin {"DATA", "ACK", "OACK"}
      BY <3>1 DEF Single, Unstarted
    <3>5. Single' BY <1>1, <3>1, <3>2, <3>3, <3>4 DEF Single
    <3>6. Unstarted' BY <3>3 DEF Unstarted
    <3>7. Near' BY <1>1, <3>3, <3>6 DEF Near
    <3> QED BY <3>5, <3>7
  <2> QED BY <2>6, <2>7
<1> QED BY <1>2, <1>3, QuietActs

-----------------------------------------------------------------------------
(* Copied is inductive *)

(* The block that is expected, written where it belongs.                   *)
LEMMA TakesCopies ==
  ASSUME opts \in Options, NEW p, ProcOK(p), NEW f, Wrote(p, f), NEW m, PacketOK(m), NEW y,
         ReceiverTakes(p, f, m, y), m.n = p.block_nr
  PROVE  IF Len(m.data) = Block THEN Wrote(y.p, y.f) ELSE y.f = Whole
<1>1. opts.size \in Nat /\ Block \in Nat BY OptsAre
<1>2. PICK n \in Nat : n = p.block_nr /\ n >= 1 BY DEF ProcOK
<1>3. PICK pos \in Nat : pos = p.pos BY DEF ProcOK
<1>4. pos = (n - 1) * Block /\ pos <= opts.size /\ p.mine BY <1>2, <1>3 DEF Wrote
<1>5. m.data = Chunk(n) BY <1>2 DEF PacketOK, ReceiverTakes
<1>6. PICK last : last = Lower(pos + Block, opts.size) OBVIOUS
<1>7. /\ last \in Nat /\ last <= opts.size
      /\ last - pos = Block => last = pos + Block
      /\ last - pos # Block => last = opts.size
  BY <1>1, <1>4, <1>6, LowerIs, Zenon
<1>8. Len(m.data) = last - pos BY <1>2, <1>4, <1>5, <1>6, UnitsAreChunk
<1>9. (IF p.fd THEN f.data ELSE <<>>) = UpTo(pos)
  <2>1. UpTo(0) = <<>> BY DEF UpTo
  <2> QED BY <1>3, <2>1 DEF Wrote
<1>10. y.f = [there |-> TRUE, data |-> UpTo(last)]
  <2>1. Written(UpTo(pos), pos, Chunk(n)) = UpTo(last) BY <1>2, <1>4, <1>6, WrittenIs
  <2> QED BY <1>3, <1>4, <1>5, <1>9, <2>1, Zenon DEF ReceiverTakes
<1>11. /\ y.p.block_nr = n + 1 /\ y.p.pos = pos + Len(m.data) /\ y.p.fd /\ y.p.mine
  BY <1>2, <1>3, <1>4 DEF ReceiverTakes, Same, Fields
<1>12. CASE Len(m.data) = Block
  <2>1. last = pos + Block BY <1>7, <1>8, <1>12
  <2>2. (n - 1) * Block + Block = (n + 1 - 1) * Block BY <1>1
  <2>3. y.p.pos = last /\ last = (y.p.block_nr - 1) * Block
    BY <1>1, <1>4, <1>11, <1>12, <2>1, <2>2
  <2> QED BY <1>7, <1>10, <1>11, <1>12, <2>3, Zenon DEF Wrote
<1>13. CASE Len(m.data) # Block
  <2>1. last = opts.size BY <1>7, <1>8, <1>13
  <2> QED BY <1>10, <1>13, <2>1 DEF Whole, File, UpTo
<1> QED BY <1>12, <1>13

(* A block number below the modulus is its own remainder.                  *)
LEMMA ShortAccepted ==
  ASSUME opts \in Options, Short, NEW R \in Nat, R >= 1, (R - 1) * Block <= opts.size,
         NEW q, PacketOK(q), q.op = "DATA", q.nr = R % opts.mod
  PROVE  q.n = R
<1>1. /\ opts.size \in Nat /\ opts.mod \in Nat /\ opts.mod > 1 /\ Block \in Nat /\ Block > 0
  BY OptsAre
<1>2. q.n \in Nat /\ q.nr = q.n % opts.mod /\ q.n >= 1 /\ (q.n - 1) * Block <= opts.size
  BY DEF PacketOK
<1>3. PICK n \in Nat : n = q.n BY <1>2
<1>4. PICK b \in Nat : b = Block /\ b > 0 BY <1>1
<1>5. PICK mod \in Nat : mod = opts.mod /\ mod > 1 BY <1>1, Zenon
<1>6. opts.size < (mod - 1) * b BY <1>4, <1>5 DEF Short
<1>7. ASSUME NEW k \in Nat, k >= 1, (k - 1) * b <= opts.size PROVE k < mod
  <2>1. (k - 1) * b < (mod - 1) * b BY <1>1, <1>4, <1>5, <1>6, <1>7
  <2>2. k - 1 < mod - 1 BY <1>4, <1>5, <2>1
  <2> QED BY <1>5, <2>2
<1>8. n < mod /\ R < mod BY <1>2, <1>3, <1>4, <1>7, Zenon
<1>9. mod > 0 /\ n % mod = R % mod /\ n - R < mod /\ R - n < mod
  BY <1>2, <1>3, <1>5, <1>8
<1>10. n = R BY <1>5, <1>9, ModSame, Zenon
<1> QED BY <1>3, <1>10

(* tftp writes the block that comes next in the file, or none.             *)
LEMMA ClientCopies ==
  ASSUME Shape, Good, calls < 2 => Single /\ Near, Copied, Client
  PROVE  Copied'
<1>1. PICK y, m, rest : ClientEffect(y, rest) /\ ClientMay(y, m) BY ClientActs
<1>2. /\ c' = y.p /\ file' = [file EXCEPT !.c = y.f]
      /\ opts' = opts /\ s' = s /\ calls' = calls /\ ended' = ended
  BY <1>1 DEF ClientEffect
<1>3. /\ opts \in Options /\ ProcOK(c) /\ c.at = "wait" /\ c.result = "none" /\ ~c.err
      /\ \A q \in net : PacketOK(q)
  BY <1>1 DEF Shape, ClientOK, ClientMay
<1>4. DOMAIN file = {"c", "s"} BY DEF Shape
<1>5. file'.c = y.f /\ file'.s = file.s BY <1>2, <1>4
<1>6. CASE ~opts.get
  <2>1. \A x \in Servers : Serving(x)' <=> Serving(x) BY <1>2 DEF Serving
  <2>2. Whole' = Whole BY <1>2, Rigid DEF Whole
  <2> QED BY <1>2, <1>5, <1>6, <2>1, <2>2, Rigid DEF Copied
<1>7. CASE opts.get
  <2>1. Wrote(c, file.c) /\ (~c.fd => file.c = Old) BY <1>3, <1>7 DEF Copied
  <2>2. SUFFICES IF y.p.at = "wait"
                 THEN Wrote(y.p, y.f) /\ (~y.p.fd => y.f = Old)
                 ELSE /\ y.f \in {Old, NoFile, Whole}
                      /\ y.p.result = "success" => y.f = Whole
    <3>1. Whole' = Whole BY <1>2, Rigid DEF Whole
    <3> QED BY <1>2, <1>5, <1>7, <3>1, Rigid DEF Copied
  <2>3. CASE ReceiverHolds(c, file.c, y)
    <3>1. /\ y.p.at = "wait" /\ y.f = file.c /\ y.p.fd = c.fd /\ y.p.pos = c.pos
          /\ y.p.block_nr = c.block_nr /\ y.p.mine = c.mine
      BY <1>3, <2>3 DEF ReceiverHolds, Same, Fields
    <3> QED BY <2>1, <3>1 DEF Wrote
  <2>4. CASE ReceiverStarts(c, file.c, y)
    <3>1. /\ y.p.at = "wait" /\ y.f = file.c /\ y.p.fd = c.fd /\ y.p.pos = c.pos
          /\ y.p.block_nr = c.block_nr /\ y.p.mine = c.mine
      BY <1>3, <2>4 DEF ReceiverStarts, Same, Fields
    <3> QED BY <2>1, <3>1 DEF Wrote
  <2>5. CASE ReceiverFails(c, file.c, y)
    BY <2>1, <2>5 DEF ReceiverFails
  <2>6. CASE ReceiverTakes(c, file.c, m, y) /\ m \in net
    <3>1. m.op = "DATA" /\ m.nr = c.block_nr % opts.mod BY <2>6 DEF ReceiverTakes
    <3>2. PICK R \in Nat : R = c.block_nr /\ R >= 1 BY <1>3 DEF ProcOK
    <3>3. opts.mod \in Nat /\ opts.mod > 1 BY <1>3, OptsAre
    <3>4. m.n = R
      <4>1. CASE calls < 2
        <5>1. ~Unstarted BY <2>6, <3>1, <4>1 DEF Single
        <5>2. PICK S \in R..R + 1 : Window(S, R) BY <1>3, <1>7, <3>2, <4>1, <5>1 DEF Near
        <5>3. S \in Nat BY <5>2
        <5> QED BY <1>3, <2>6, <3>1, <3>2, <3>3, <5>2, <5>3, DataAccepted
      <4>2. CASE ~(calls < 2)
        <5>1. Short BY <4>2 DEF Good
        <5>2. (R - 1) * Block <= opts.size BY <2>1, <3>2 DEF Wrote
        <5> QED BY <1>3, <2>6, <3>1, <3>2, <5>1, <5>2, ShortAccepted
      <4> QED BY <4>1, <4>2
    <3>5. IF Len(m.data) = Block THEN Wrote(y.p, y.f) ELSE y.f = Whole
      BY <1>3, <2>1, <2>6, <3>2, <3>4, TakesCopies
    <3>6. /\ y.p.fd
          /\ IF Len(m.data) # Block THEN y.p.at = "done" ELSE y.p.at = "wait"
      BY <1>3, <2>6 DEF ReceiverTakes
    <3> QED BY <3>5, <3>6
  <2> QED BY <1>1, <1>7, <2>3, <2>4, <2>5, <2>6 DEF ClientMay
<1> QED BY <1>6, <1>7

(* So does tftpd; when it ends the file is whole or gone.                  *)
LEMMA ServerCopies ==
  ASSUME Shape, Good, calls < 2 => Single /\ Near, Copied,
         NEW x \in Servers, NEW y, NEW m, NEW rest, ServerEffect(x, y, rest), ServerMay(x, y, m)
  PROVE  Copied'
<1>1. /\ opts' = opts /\ c' = c /\ file' = [file EXCEPT !.s = y.f] /\ DOMAIN file = {"c", "s"}
      /\ ended' = IF y.p.at = "done" /\ y.p.fd THEN ended \cup {y.p.result} ELSE ended
  BY DEF ServerEffect, Shape
<1>2. file'.s = y.f /\ file'.c = file.c BY <1>1
<1>3. Whole' = Whole BY <1>1, Rigid DEF Whole
<1>4. CASE opts.get BY <1>1, <1>2, <1>3, <1>4, Rigid DEF Copied
<1>5. CASE ~opts.get
  <2>1. calls < 2 /\ Single /\ Near BY <1>5 DEF Good
  <2>2. /\ s[x].at = "wait" /\ opts \in Options /\ ProcOK(s[x]) /\ \A q \in net : PacketOK(q)
    BY DEF Shape, ServerOK, ServerMay
  <2>3. Serving(x) BY <2>2 DEF Serving
  <2>4. Wrote(s[x], file.s) BY <1>5, <2>3 DEF Copied
  <2>5. ProcOK(y.p) /\ y.p.fd BY ServerKeeps
  <2>6. y.p.at \in {"wait", "done"} BY <2>5 DEF ProcOK
  <2>7. /\ \A z \in Servers : Serving(z)' <=> z = x /\ y.p.at = "wait"
        /\ y.p.at = "wait" => s'[x] = y.p
        /\ ended = {}
    BY <2>1, <2>3, <2>6, TheServer, Zenon
  <2>8. SUFFICES /\ y.p.at = "wait" => Wrote(y.p, y.f)
                 /\ y.p.at = "done" =>
                      \/ y.p.result = "success" /\ y.f = Whole
                      \/ y.p.result = "failure" /\ y.f = NoFile
                      \/ y.p.result = "died"
    <3>1. CASE y.p.at = "wait"
      <4>1. Wrote(s[x], file.s)' BY <1>1, <1>2, <2>7, <2>8, <3>1, Rigid
      <4> QED BY <1>1, <1>5, <2>7, <3>1, <4>1 DEF Copied
    <3>2. CASE y.p.at = "done"
      <4>1. ended' = {y.p.result} BY <1>1, <2>5, <2>7, <3>2
      <4> QED BY <1>1, <1>2, <1>3, <1>5, <2>7, <2>8, <3>2, <4>1, Zenon DEF Copied, NoFile
    <3> QED BY <2>6, <3>1, <3>2
  <2>9. CASE ReceiverHolds(s[x], file.s, y)
    <3>1. /\ y.p.at = "wait" /\ y.f = file.s /\ y.p.fd = s[x].fd /\ y.p.pos = s[x].pos
          /\ y.p.block_nr = s[x].block_nr /\ y.p.mine = s[x].mine
      BY <2>2, <2>9 DEF ReceiverHolds, Same, Fields
    <3> QED BY <2>4, <3>1 DEF Wrote
  <2>10. CASE ReceiverFails(s[x], file.s, y) BY <2>5, <2>10 DEF ReceiverFails
  <2>11. CASE ReceiverDies(s[x], file.s, y) BY <2>11 DEF ReceiverDies
  <2>12. CASE ReceiverTakes(s[x], file.s, m, y) /\ m \in net
    <3>1. m.op = "DATA" /\ m.nr = s[x].block_nr % opts.mod BY <2>12 DEF ReceiverTakes
    <3>2. PICK R \in Nat : R = s[x].block_nr BY <2>2 DEF ProcOK
    <3>3. PICK S \in Nat : S = c.block_nr BY DEF Shape, ClientOK, ProcOK
    <3>4. Window(S, R) BY <1>5, <2>1, <2>3, <3>2, <3>3 DEF Near
    <3>5. opts.mod \in Nat /\ opts.mod > 1 BY <2>2, OptsAre
    <3>6. m.n = R BY <2>2, <2>12, <3>1, <3>2, <3>4, <3>5, DataAccepted
    <3>7. IF Len(m.data) = Block THEN Wrote(y.p, y.f) ELSE y.f = Whole
      BY <2>2, <2>4, <2>12, <3>2, <3>6, TakesCopies
    <3>8. IF Len(m.data) # Block
          THEN y.p.at = "done" /\ y.p.result = "success"
          ELSE y.p.at = "wait"
      BY <2>2, <2>12 DEF ReceiverTakes
    <3> QED BY <3>7, <3>8
  <2> QED BY <1>5, <2>9, <2>10, <2>11, <2>12, Zenon DEF ServerMay
<1> QED BY <1>4, <1>5

(* The first answer to an upload truncates the file.                       *)
LEMMA StartCopies ==
  ASSUME Shape, Good, calls < 2 => Single /\ Near, Copied, NEW x \in Servers, Start(x)
  PROVE  Copied'
<1>0. PICK y : ServerEffect(x, y, net) /\ (Refused(y) \/ (Answers(y) /\ Asking(x)))
  BY StartActs
<1>1. /\ opts' = opts /\ c' = c /\ file' = [file EXCEPT !.s = y.f] /\ DOMAIN file = {"c", "s"}
      /\ opts \in Options
  BY <1>0 DEF ServerEffect, Shape
<1>2. file'.s = y.f /\ file'.c = file.c BY <1>1
<1>3. Whole' = Whole BY <1>1, Rigid DEF Whole
<1>4. CASE opts.get BY <1>1, <1>2, <1>3, <1>4, Rigid DEF Copied
<1>5. CASE ~opts.get /\ Refused(y)
  <2>1. (\A z \in Servers : z # x => s'[z] = s[z]) /\ s'[x] = Off /\ ended' = ended
    BY <1>0, <1>5, RefusedLeaves
  <2>2. y.f = file.s BY <1>5 DEF Refused
  <2>3. ~Serving(x) /\ ~Serving(x)' BY <2>1 DEF Start, Serving, Off
  <2>4. \A z \in Servers : (Serving(z)' <=> Serving(z)) /\ (Serving(z) => s'[z] = s[z])
    BY <2>1, <2>3 DEF Serving
  <2> QED BY <1>1, <1>2, <1>3, <1>5, <2>1, <2>2, <2>4, Rigid DEF Copied
<1>6. CASE ~opts.get /\ Answers(y) /\ Asking(x)
  <2>1. Single BY <1>6 DEF Good
  <2>2. y.p.at = "wait" BY <1>6 DEF Answers
  <2>3. /\ \A z \in Servers : Serving(z)' <=> z = x
        /\ s'[x] = y.p
    BY <1>0, <1>6, <2>1, <2>2, TheServer
  <2>4. Wrote(y.p, y.f)
    <3>1. y.p.xbuf.op # "DATA" BY <1>6 DEF Answers, ReceiverOK
    <3>2. /\ y.p.block_nr = 1 /\ y.p.pos = 0 /\ y.p.mine /\ y.p.fd
          /\ y.f = [there |-> TRUE, data |-> <<>>]
      BY <1>6, <3>1 DEF Answers
    <3>3. opts.size \in Nat /\ Block \in Nat BY <1>1, OptsAre
    <3>4. (1 - 1) * Block = 0 BY <3>3
    <3>5. UpTo(0) = <<>> BY DEF UpTo
    <3>6. y.p.pos = (y.p.block_nr - 1) * Block /\ y.p.pos <= opts.size BY <3>2, <3>3, <3>4
    <3>7. y.f = [there |-> TRUE, data |-> UpTo(y.p.pos)] BY <3>2, <3>5, Zenon
    <3> QED BY <3>2, <3>6, <3>7 DEF Wrote
  <2>5. Wrote(s[x], file.s)' BY <1>1, <1>2, <2>3, <2>4, Rigid
  <2> QED BY <1>1, <1>6, <2>3, <2>5 DEF Copied
<1> QED BY <1>0, <1>4, <1>5, <1>6

(* Nobody else touches the files.                                          *)
LEMMA QuietCopies ==
  ASSUME Shape, Copied, Quietly
  PROVE  Copied'
<1>1. opts' = opts /\ c' = c /\ ended' = ended /\ file' = file
  BY QuietActs DEF QuietEffect
<1>2. Whole' = Whole BY <1>1, Rigid DEF Whole
<1>3. CASE opts.get BY <1>1, <1>2, <1>3, Rigid DEF Copied
<1>4. CASE ~opts.get
  <2>1. ASSUME NEW z \in Servers
        PROVE  /\ Serving(z)' <=> Serving(z)
               /\ Serving(z) => /\ s'[z].block_nr = s[z].block_nr /\ s'[z].pos = s[z].pos
                                /\ s'[z].mine = s[z].mine /\ s'[z].fd = s[z].fd
    <3>1. CASE Turns(z)
      <4>1. ServerOK(s[z]) BY DEF Shape
      <4> QED BY <3>1, <4>1, TurnKeeps DEF Serving
    <3>2. ASSUME NEW x \in Servers, NEW m \in net, s[x] = Off,
                 s' = [s EXCEPT ![x] = [at |-> "stdin", req |-> m]]
          PROVE  (Serving(z)' <=> Serving(z)) /\ (Serving(z) => s'[z] = s[z])
      <4>1. DOMAIN s = Servers BY DEF Shape
      <4>2. CASE z = x BY <3>2, <4>1, <4>2 DEF Serving, Off
      <4>3. CASE z # x BY <3>2, <4>1, <4>3 DEF Serving
      <4> QED BY <4>2, <4>3
    <3> QED BY <3>1, <3>2, QuietActs
  <2>2. ASSUME NEW z \in Servers, Serving(z)' PROVE Wrote(s[z], file.s)'
    <3>1. Wrote(s[z], file.s) BY <1>4, <2>1, <2>2 DEF Copied
    <3>2. Wrote(s'[z], file.s) BY <2>1, <2>2, <3>1, Zenon DEF Wrote
    <3> QED BY <1>1, <3>2, Rigid
  <2>3. (\A z \in Servers : ~Serving(z)') => (\A z \in Servers : ~Serving(z)) BY <2>1
  <2> QED BY <1>1, <1>2, <1>4, <2>2, <2>3 DEF Copied
<1> QED BY <1>3, <1>4

-----------------------------------------------------------------------------
(* The inductive invariant *)

(* The invariant holds when tftp starts.                                   *)
LEMMA TftpInit ==
  ASSUME Init
  PROVE  TftpInv
<1>1. opts \in Options BY DEF Init
<1>2. /\ opts.size \in Nat /\ opts.mod \in Nat /\ opts.mod > 1 /\ Block \in Nat /\ Block > 0
  BY <1>1, OptsAre
<1>3. opts.get \in BOOLEAN BY <1>1, TftpAssumption
<1>4. /\ Request.to = "s" /\ Request.op \in Requests /\ Request.n = 0
      /\ Request.nr = 0 % opts.mod /\ Request.opt = opts.blksize
  BY DEF Request, Packet, Requests
<1>5. PacketOK(Request) /\ Request.op \notin {"DATA", "ACK", "OACK", "ERROR"}
  BY <1>4 DEF PacketOK, Requests
<1>6. /\ DOMAIN c = Fields /\ c.at = "wait" /\ c.put = ~opts.get /\ c.peer = "s"
      /\ c.block_nr = 1 /\ ~c.finished /\ c.expect_OACK /\ c.fd = ~opts.get
      /\ c.mine /\ c.pos = 0 /\ ~c.err /\ c.result = "none" /\ c.xbuf = Request
  BY DEF Init, Proc, Fields
<1>7. (1 - 1) * Block = 0 BY <1>2
<1>8. ProcOK(c) BY <1>4, <1>5, <1>6 DEF ProcOK
<1>9. IF opts.get THEN ReceiverOK(c) ELSE SenderOK(c)
  <2>1. c.pos = (c.block_nr - 1) * Block /\ c.pos <= opts.size BY <1>2, <1>6, <1>7
  <2>2. CASE opts.get
    <3>1. ~c.put BY <1>6, <2>2, Zenon
    <3> QED BY <1>5, <1>6, <2>2, <3>1 DEF ReceiverOK
  <2>3. CASE ~opts.get
    <3>1. c.put BY <1>6, <2>3, Zenon
    <3> QED BY <1>5, <1>6, <2>1, <2>3, <3>1 DEF SenderOK
  <2> QED BY <2>2, <2>3
<1>10. ClientOK BY <1>5, <1>6, <1>8, <1>9 DEF ClientOK, Early
<1>11. \A x \in Servers : s[x] = Off /\ ~Asking(x) /\ ~Serving(x) /\ ServerOK(s[x])
  BY DEF Init, Off, Asking, Serving, ServerOK
<1>12. \A q \in net : PacketOK(q) /\ Early(q) /\ q.op \notin {"DATA", "ACK", "OACK"}
  BY <1>5 DEF Init, Early
<1>13. Shape BY <1>1, <1>10, <1>11, <1>12 DEF Shape, Init
<1>14. Single BY <1>6, <1>11, <1>12 DEF Single, Init
<1>15. Near BY <1>11 DEF Near, Unstarted, Init
<1>16. Copied
  <2>1. CASE opts.get
    <3>1. c.pos = (c.block_nr - 1) * Block /\ c.pos <= opts.size BY <1>2, <1>6, <1>7
    <3>2. ~c.fd BY <1>6, <2>1, Zenon
    <3>3. Wrote(c, file.c) BY <1>6, <3>1, <3>2 DEF Wrote
    <3> QED BY <1>6, <2>1, <3>3 DEF Copied, Init
  <2>2. CASE ~opts.get BY <1>11, <2>2 DEF Copied, Init
  <2> QED BY <2>1, <2>2
<1> QED BY <1>13, <1>14, <1>15, <1>16 DEF TftpInv

(* Every step keeps the invariant.                                         *)
LEMMA TftpStep ==
  ASSUME TftpInv, [Next]_vars
  PROVE  TftpInv'
<1>1. Shape /\ (calls < 2 => Single /\ Near) /\ (Good => Copied) BY DEF TftpInv
<1>2. CASE Client
  <2>1. PICK y, rest : ClientEffect(y, rest) BY <1>1, <1>2, ClientActs
  <2>2. calls' = calls /\ opts' = opts BY <2>1 DEF ClientEffect
  <2>3. Good' => Good BY <2>2, Rigid DEF Good
  <2> QED BY <1>1, <1>2, <2>2, <2>3, ClientShape, ClientNear, ClientCopies DEF TftpInv
<1>3. CASE Quietly
  <2>1. opts' = opts BY <1>1, <1>3, QuietActs DEF QuietEffect
  <2>2. calls' < 2 => calls < 2
    <3>1. calls' = calls \/ (calls < 2 /\ calls' = calls + 1) BY <1>1, <1>3, QuietActs
    <3> QED BY <3>1
  <2>3. Good' => Good BY <2>1, <2>2, Rigid DEF Good
  <2> QED BY <1>1, <1>3, <2>2, <2>3, QuietShape, QuietNear, QuietCopies DEF TftpInv
<1>4. ASSUME NEW x \in Servers, Start(x) PROVE TftpInv'
  <2>1. PICK y : ServerEffect(x, y, net) /\ (Refused(y) \/ (Answers(y) /\ Asking(x)))
    BY <1>1, <1>4, StartActs
  <2>2. calls' = calls /\ opts' = opts BY <2>1 DEF ServerEffect
  <2>3. Good' => Good BY <2>2, Rigid DEF Good
  <2>4. Shape' BY <1>1, <2>1, StartShape
  <2> QED BY <1>1, <1>4, <2>2, <2>3, <2>4, StartNear, StartCopies DEF TftpInv
<1>5. ASSUME NEW x \in Servers, ServerReceive(x) \/ ServerTimeout(x) \/ ServerError(x)
      PROVE  TftpInv'
  <2>1. PICK y, m, rest : ServerEffect(x, y, rest) /\ ServerMay(x, y, m)
    BY <1>1, <1>5, ServerActs
  <2>2. calls' = calls /\ opts' = opts BY <2>1 DEF ServerEffect
  <2>3. Good' => Good BY <2>2, Rigid DEF Good
  <2>4. Shape' BY <1>1, <2>1, ServerShape
  <2>5. calls < 2 => Single' /\ Near' BY <1>1, <2>1, ServerNear
  <2>6. Good => Copied' BY <1>1, <2>1, ServerCopies
  <2> QED BY <2>2, <2>3, <2>4, <2>5, <2>6 DEF TftpInv
<1>6. CASE UNCHANGED vars
  <2>1. /\ opts' = opts /\ c' = c /\ s' = s /\ file' = file /\ net' = net /\ calls' = calls
        /\ ended' = ended
    BY <1>6 DEF vars
  <2>2. Good' => Good BY <2>1, Rigid DEF Good
  <2>3. \A z \in Servers : (Asking(z)' <=> Asking(z)) /\ (Serving(z)' <=> Serving(z))
    BY <2>1 DEF Asking, Serving
  <2>4. Shape' BY <1>1, <2>1, Rigid, SameClient DEF Shape
  <2>5. calls < 2 => Single' /\ Near' BY <1>1, <2>1, <2>3, SameServers
  <2>6. Copied => Copied'
    <3>1. Whole' = Whole BY <2>1, Rigid DEF Whole
    <3> QED BY <2>1, <2>3, <3>1, Rigid DEF Copied
  <2> QED BY <1>1, <2>1, <2>2, <2>4, <2>5, <2>6 DEF TftpInv
<1> QED BY <1>2, <1>3, <1>4, <1>5, <1>6 DEF Next, Server, Quietly

(* The processes stay well-formed, a single tftpd and the client stay a    *)
(* block apart, and the file is copied, in every state tftp.c can reach.   *)
THEOREM Transfers == Spec => []TftpInv
<1>1. Init => TftpInv BY TftpInit
<1>2. TftpInv /\ [Next]_vars => TftpInv' BY TftpStep
<1> QED BY <1>1, <1>2, PTL DEF Spec

(* The first k units are a beginning of the file.                          *)
LEMMA PrefixIs ==
  ASSUME opts \in Options, NEW k \in Nat, k <= opts.size
  PROVE  Beginning(UpTo(k))
<1>1. opts.size \in Nat BY OptsAre
<1>2. File \in Seq(Nat) /\ Len(File) = opts.size /\ \A i \in 1..opts.size : File[i] = i
  BY <1>1 DEF File
<1>3. PICK one \in Int : one = 1 OBVIOUS
<1>4. one \in 1..Len(File) + 1 /\ one - 1 <= k /\ k <= Len(File) BY <1>1, <1>2, <1>3
<1>5. /\ SubSeq(File, one, k) \in Seq(Nat)
      /\ Len(SubSeq(File, one, k)) = k - one + 1
      /\ \A i \in 1..k - one + 1 : SubSeq(File, one, k)[i] = File[one + i - 1]
  BY <1>2, <1>4, SubSeqIs
<1>6. /\ SubSeq(File, 1, k) \in Seq(Nat) /\ Len(SubSeq(File, 1, k)) = k
      /\ \A i \in 1..k : SubSeq(File, 1, k)[i] = i
  BY <1>1, <1>2, <1>3, <1>5
<1>7. SubSeq(File, 1, k) = UpTo(k) BY <1>6 DEF UpTo
<1> QED BY <1>1, <1>7 DEF Beginning

(* The invariant gives Received.                                           *)
LEMMA CopiedReceived ==
  ASSUME TftpInv, calls < 2 \/ Short
  PROVE  Received
<1>1. Shape /\ (calls < 2 => Single) /\ (Good => Copied) BY DEF TftpInv
<1>2. opts \in Options /\ (c.at = "wait" => c.result = "none") /\ c.at \in {"wait", "done"}
  BY <1>1 DEF Shape, ClientOK, ProcOK
<1>3. CASE opts.get
  <2>1. Copied BY <1>1, <1>3 DEF Good
  <2>2. ASSUME c.fd, c.at = "wait" PROVE Beginning(file.c.data)
    <3>1. file.c.data = UpTo(c.pos) /\ c.pos <= opts.size BY <1>3, <2>1, <2>2 DEF Copied, Wrote
    <3>2. c.pos \in Nat BY <1>1 DEF Shape, ClientOK, ProcOK
    <3> QED BY <1>2, <3>1, <3>2, PrefixIs
  <2>3. c.result = "success" => file.c = Whole BY <1>2, <1>3, <2>1 DEF Copied
  <2> QED BY <1>3, <2>2, <2>3 DEF Received
<1>4. CASE ~opts.get
  <2>1. SUFFICES ASSUME calls < 2
                 PROVE  /\ \A x \in Servers : s[x].at = "wait" => Beginning(file.s.data)
                        /\ "success" \in ended => file.s = Whole
    BY <1>4 DEF Received
  <2>2. Copied /\ Single BY <1>1, <2>1 DEF Good
  <2>3. ASSUME NEW x \in Servers, s[x].at = "wait" PROVE Beginning(file.s.data)
    <3>1. Wrote(s[x], file.s) BY <1>4, <2>2, <2>3 DEF Copied, Serving
    <3>2. s[x].fd /\ s[x].pos \in Nat BY <1>1, <2>3 DEF Shape, ServerOK, ProcOK
    <3>3. file.s.data = UpTo(s[x].pos) /\ s[x].pos <= opts.size BY <3>1, <3>2 DEF Wrote
    <3> QED BY <1>2, <3>2, <3>3, PrefixIs
  <2>4. ASSUME "success" \in ended PROVE file.s = Whole
    <3>1. \A x \in Servers : ~Serving(x) BY <2>2, <2>4 DEF Single
    <3> QED BY <1>4, <2>2, <2>4, <3>1 DEF Copied
  <2> QED BY <2>3, <2>4
<1> QED BY <1>3, <1>4

(* The invariant gives NoPartialFile.                                      *)
LEMMA CopiedWhole ==
  ASSUME TftpInv, calls < 2 \/ Short
  PROVE  NoPartialFile
<1>1. Shape /\ (Good => Copied) BY DEF TftpInv
<1>2. opts.get /\ c.at = "done" => file.c \in {Old, NoFile, Whole}
  BY <1>1 DEF Good, Copied
<1>3. ~opts.get /\ calls < 2 /\ "died" \notin ended /\ (\A x \in Servers : s[x].at # "wait")
        => file.s \in {Old, NoFile, Whole}
  BY <1>1 DEF Good, Copied, Serving
<1> QED BY <1>2, <1>3 DEF NoPartialFile

(* What the receiver has written is always a beginning of the file, and    *)
(* all of it once it reports success, for any number of losses, repeats    *)
(* and delays: with one tftpd however often block numbers wrap, and with   *)
(* several if they do not.                                                 *)
THEOREM FilesArrive == Spec => [](calls < 2 \/ Short => Received)
<1>1. TftpInv => (calls < 2 \/ Short => Received) BY CopiedReceived
<1> QED BY <1>1, Transfers, PTL

(* A transfer that fails unlinks what it wrote: where the receiver has     *)
(* ended, and not of xsendto(), there is the old file, none, or all of it. *)
THEOREM NothingPartial == Spec => [](calls < 2 \/ Short => NoPartialFile)
<1>1. TftpInv => (calls < 2 \/ Short => NoPartialFile) BY CopiedWhole
<1> QED BY <1>1, Transfers, PTL

(* Sender and receiver are never more than a block apart: stop and wait,   *)
(* though block numbers wrap and packets are lost, repeated or late.       *)
THEOREM StopAndWait == Spec => []Lockstep
<1>1. TftpInv => Lockstep
  <2>1. SUFFICES ASSUME TftpInv, NEW x \in Servers, calls < 2, s[x].at = "wait", c.at = "wait"
                 PROVE  LET from == IF opts.get THEN s[x] ELSE c
                            to == IF opts.get THEN c ELSE s[x]
                        IN to.block_nr \in from.block_nr - 1..from.block_nr
    BY DEF Lockstep
  <2>2. Shape /\ Single /\ Near /\ Serving(x) BY <2>1 DEF TftpInv, Serving
  <2>3. c.block_nr \in Nat /\ s[x].block_nr \in Nat
    BY <2>1, <2>2, Zenon DEF Shape, ClientOK, ServerOK, ProcOK
  <2>4. CASE opts.get
    <3>1. ~Unstarted
      <4>1. ~Asking(x) /\ calls # 0 BY <2>1, <2>2 DEF Asking, Single
      <4>2. \A z \in Servers : ~Asking(z) BY <2>2, <4>1 DEF Single
      <4> QED BY <4>1, <4>2 DEF Unstarted
    <3>2. PICK S \in c.block_nr..c.block_nr + 1 : s[x].block_nr = S
      BY <2>1, <2>2, <2>4, <3>1 DEF Near
    <3> QED BY <2>3, <2>4, <3>2
  <2>5. CASE ~opts.get
    <3>1. Window(c.block_nr, s[x].block_nr) BY <2>2, <2>5 DEF Near
    <3> QED BY <2>3, <2>5, <3>1 DEF Window
  <2> QED BY <2>4, <2>5
<1> QED BY <1>1, Transfers, PTL
=============================================================================
