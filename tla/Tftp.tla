-------------------------------- MODULE Tftp --------------------------------
(***************************************************************************)
(* networking/tftp.c: tftp_protocol() as the client, tftp, and as the      *)
(* server, tftpd, with the datagrams between them.                         *)
(*                                                                         *)
(* inetd (or udpsvd) starts a tftpd for a datagram that no tftpd is        *)
(* connected for, so that there may be several.  A file is a sequence of   *)
(* units, a block some of them.  block_nr counts without a bound here; a   *)
(* packet holds it % opts.mod, in the code % 2^16, and what is compared    *)
(* are these remainders.                                                   *)
(***************************************************************************)
EXTENDS Integers, Sequences, FiniteSets

CONSTANTS
  Servers,  \* tftpd processes there can be at once
  Default,  \* TFTP_BLKSIZE_DEFAULT
  Options   \* ways tftp is used

(* get: -g, else -p; blksize: -b; size: of the file; mod: see above;       *)
(* retries: TFTP_NUM_RETRIES.                                              *)
(* old: the server knows no options.  refuse: it may not use the file;     *)
(* create: it may create it.                                               *)
(* The network: loss and dup bound the packets that are lost and that      *)
(* arrive once more, requests only if again.  early: a reply may take      *)
(* longer than waittime_ms.  fault: poll(), read() or write() may fail.    *)
ASSUME TftpAssumption ==
  /\ Default \in Nat \ {0}
  /\ \A o \in Options :
       /\ {o.get, o.old, o.refuse, o.create, o.again, o.early, o.fault} \subseteq BOOLEAN
       /\ {o.blksize, o.size, o.mod, o.loss, o.dup, o.retries} \subseteq Nat
       /\ o.blksize # 0 /\ o.mod > 1 /\ o.retries > 0

VARIABLES
  opts,
  c,        \* the client
  s,        \* the servers
  file,     \* the file at the client and at the server: [there, data]
  net,      \* packets under way
  lost,     \* how many were lost
  copied,   \* how many arrived and are still under way
  calls,    \* tftpd processes started for a request; 2: two or more
  ended     \* how they ended

vars == <<opts, c, s, file, net, lost, copied, calls, ended>>

File == [i \in 1..opts.size |-> i]
NoFile == [there |-> FALSE, data |-> <<>>]
Old == [there |-> TRUE, data |-> <<0>>]
Whole == [there |-> TRUE, data |-> File]
Off == [at |-> "off"]

(* to: "c" or "s"; nr: the block number or 0; n: the count nr stands for;  *)
(* opt: the value of the option blksize, 0 without options, else Default.  *)
Packet(to, op, n, data, opt) ==
  [to |-> to, op |-> op, nr |-> n % opts.mod, n |-> n, data |-> data, opt |-> opt]

----------------------------------------------------------------------------
(* tftp_protocol().  x: the process p, its file f and the packets it sends *)
(* from one poll() to the next.                                            *)

Done(x, result) == [x EXCEPT !.p.at = "done", !.p.result = result]

(* Mutant: what was received of the file stays.                            *)
ErrKeeps(x) == Done(x, "failure")

Err(x) ==
  Done(IF x.p.fd /\ ~x.p.put THEN [x EXCEPT !.f = NoFile] ELSE x, "failure")

Ret(x) == IF x.p.finished THEN Done(x, "success") ELSE Err(x)

SendErrPkt(x) ==
  Err([x EXCEPT !.out = {Packet(x.p.peer, "ERROR", 0, <<>>, 0)}])

(* send_again: opcode is that of the last packet built or received.        *)
SendAgain(x) ==
  LET y == [x EXCEPT !.out = {x.p.xbuf}] IN
  IF x.p.finished /\ x.p.opcode = "ACK" THEN Ret(y) ELSE y

SendPkt(x, pkt) ==
  SendAgain([x EXCEPT !.p.xbuf = pkt, !.p.opcode = pkt.op, !.p.retries = opts.retries])

(* Mutant: a file that ends with a whole block has no empty block at its   *)
(* end.                                                                    *)
BuildFull(x, ok) ==
  LET p == x.p
      last == IF p.pos + p.blksize > opts.size THEN opts.size ELSE p.pos + p.blksize
      data == SubSeq(File, p.pos + 1, last)
  IN
  CASE ~p.put -> SendPkt([x EXCEPT !.p.block_nr = @ + 1],
                         Packet(p.peer, "ACK", p.block_nr, <<>>, 0))
    [] p.put /\ ~ok -> SendErrPkt(x)
    [] p.put /\ ok ->
         SendPkt([x EXCEPT !.p.block_nr = @ + 1, !.p.pos = last,
                           !.p.finished = (last = opts.size)],
                 Packet(p.peer, "DATA", p.block_nr, data, 0))

(* Build ACK or DATA; ok: full_read() of the file works.                   *)
Build(x, ok) ==
  LET p == x.p
      last == IF p.pos + p.blksize > opts.size THEN opts.size ELSE p.pos + p.blksize
      data == SubSeq(File, p.pos + 1, last)
  IN
  CASE ~p.put -> SendPkt([x EXCEPT !.p.block_nr = @ + 1],
                         Packet(p.peer, "ACK", p.block_nr, <<>>, 0))
    [] p.put /\ ~ok -> SendErrPkt(x)
    [] p.put /\ ok ->
         SendPkt([x EXCEPT !.p.block_nr = @ + 1, !.p.pos = last,
                           !.p.finished = Len(data) # p.blksize],
                 Packet(p.peer, "DATA", p.block_nr, data, 0))

(* full_write() at pos: what lies between the end of the file and pos      *)
(* reads as 0.                                                             *)
Written(data, pos, new) ==
  [i \in 1..(IF pos + Len(new) > Len(data) THEN pos + Len(new) ELSE Len(data)) |->
     IF i \in pos + 1..pos + Len(new) THEN new[i - pos]
     ELSE IF i <= Len(data) THEN data[i] ELSE 0]

(* Mutant: the client opens its file without O_TRUNC.                      *)
DataKeeps(x, m, ok) ==
  LET data == x.f.data
      y == [x EXCEPT !.p.fd = TRUE]
  IN
  IF ~ok THEN SendErrPkt(y)
  ELSE Build([y EXCEPT !.f = IF x.p.mine
                             THEN [there |-> TRUE, data |-> Written(data, x.p.pos, m.data)]
                             ELSE @,
                       !.p.pos = @ + Len(m.data),
                       !.p.finished = Len(m.data) # x.p.blksize], TRUE)

(* The block that is expected; the client opens its file now.              *)
Data(x, m, ok) ==
  LET data == IF x.p.fd THEN x.f.data ELSE <<>>
      y == [x EXCEPT !.p.fd = TRUE]
  IN
  IF ~ok THEN SendErrPkt(y)
  ELSE Build([y EXCEPT !.f = IF x.p.mine
                             THEN [there |-> TRUE, data |-> Written(data, x.p.pos, m.data)]
                             ELSE @,
                       !.p.pos = @ + Len(m.data),
                       !.p.finished = Len(m.data) # x.p.blksize], TRUE)

Wanted(p, m) == ~p.put /\ m.op = "DATA" /\ m.nr = p.block_nr % opts.mod
Acked(p, m) == p.put /\ m.op = "ACK" /\ m.nr = (p.block_nr - 1) % opts.mod

(* Process recv'ed packet.                                                 *)
Receive(x0, m, ok) ==
  LET p0 == x0.p
      oack == p0.expect_OACK /\ m.op = "OACK"
      p == [p0 EXCEPT !.opcode = m.op, !.expect_OACK = FALSE,
                      !.block_nr = IF oack /\ ~p0.put THEN 0 ELSE @,
                      !.blksize = IF oack THEN m.opt
                                  ELSE IF p0.expect_OACK THEN Default ELSE @]
      x == [x0 EXCEPT !.p = p]
  IN
  CASE m.op = "ERROR" -> Ret([x0 EXCEPT !.p.opcode = m.op])
    [] oack -> Build(x, ok)
    [] Wanted(p, m) -> Data(x, m, ok)
    [] Acked(p, m) -> IF p.finished THEN Ret(x) ELSE Build(x, ok)
    [] OTHER -> x

(* Mutant: retries are not counted.                                        *)
TimeoutForever(x) == IF x.p.err THEN Done(x, "died") ELSE SendAgain(x)

(* Nothing came for waittime_ms.  xsendto() dies of an error of the socket.*)
Timeout(x) ==
  CASE x.p.retries = 1 -> Ret([x EXCEPT !.p.retries = 0])
    [] x.p.retries > 1 /\ x.p.err -> Done(x, "died")
    [] OTHER -> SendAgain([x EXCEPT !.p.retries = @ - 1])

----------------------------------------------------------------------------
(* tftp_main() *)

Oks == IF opts.fault THEN BOOLEAN ELSE {TRUE}

(* What is older than a round of block numbers is no longer under way.     *)
Sent(rest, out) == {q \in rest \cup out : \A m \in out : q.n > m.n + 1 - opts.mod}

Proc(put, peer, fd) ==
  [at |-> "wait", put |-> put, peer |-> peer, block_nr |-> 1, finished |-> FALSE,
   retries |-> opts.retries, xbuf |-> Packet(peer, "ERROR", 0, <<>>, 0),
   opcode |-> "ERROR", blksize |-> Default, expect_OACK |-> FALSE, fd |-> fd,
   mine |-> TRUE, pos |-> 0, err |-> FALSE, result |-> "none"]

Request == Packet("s", IF opts.get THEN "RRQ" ELSE "WRQ", 0, <<>>, opts.blksize)

Init ==
  /\ opts \in Options
  /\ c = [Proc(~opts.get, "s", ~opts.get) EXCEPT !.xbuf = Request, !.opcode = Request.op,
            !.blksize = opts.blksize, !.expect_OACK = TRUE]
  /\ s = [x \in Servers |-> Off]
  /\ file = IF opts.get THEN [c |-> Old, s |-> Whole] ELSE [c |-> Whole, s |-> Old]
  /\ net = {Request}
  /\ lost = 0 /\ copied = 0
  /\ calls = 0
  /\ ended = {}

ClientDoes(next, rest) ==
  /\ \E x \in {next} :
       c' = x.p /\ file' = [file EXCEPT !.c = x.f] /\ net' = Sent(rest.net, x.out)
  /\ copied' = rest.copied
  /\ UNCHANGED <<opts, s, lost, calls, ended>>

Situation(p, f) == [p |-> p, f |-> f, out |-> {}]

(* What is left of net when m arrives.                                     *)
All == [net |-> net, copied |-> copied]
Rest(m) ==
  {[net |-> net \ {m}, copied |-> copied]}
  \cup (IF copied < opts.dup /\ (m.op \in {"RRQ", "WRQ"} => opts.again)
        THEN {[net |-> net, copied |-> copied + 1]} ELSE {})

ClientReceive ==
  /\ c.at = "wait"
  /\ \E m \in net, ok \in Oks : \E rest \in Rest(m) :
       m.to = "c" /\ ClientDoes(Receive(Situation(c, file.c), m, ok), rest)

(* waittime_ms, which grows as retries falls, is over: where replies are   *)
(* not late, nothing is under way, and nobody else waits less.             *)
TimeIsUp(p) ==
  \/ opts.early
  \/ /\ net = {}
     /\ \A x \in Servers : s[x].at \notin {"stdin", "window"}
     /\ \A q \in {c} \cup {s[x] : x \in Servers} : q.at = "wait" => p.retries >= q.retries

ClientTimeout ==
  /\ c.at = "wait" /\ TimeIsUp(c)
  /\ ClientDoes(Timeout(Situation(c, file.c)), All)

(* poll() fails.                                                           *)
ClientPoll ==
  /\ c.at = "wait" /\ opts.fault
  /\ ClientDoes(Ret(Situation(c, file.c)), All)

----------------------------------------------------------------------------
(* tftpd_main() *)

(* Sockets that are connected to the client.                               *)
Connected == {x \in Servers : s[x].at \in {"stdin", "wait"}}

(* inetd, or udpsvd: a process for a datagram of a new client.             *)
Spawn ==
  /\ Connected = {} /\ \E x \in Servers : s[x] = Off
  /\ \E m \in net : \E rest \in Rest(m) :
       /\ m.to = "s"
       /\ s' = [s EXCEPT ![CHOOSE x \in Servers : s[x] = Off] = [at |-> "stdin", req |-> m]]
       /\ net' = rest.net /\ copied' = rest.copied
       /\ calls' = IF m.op \in {"RRQ", "WRQ"} /\ calls < 2 THEN calls + 1 ELSE calls
  /\ UNCHANGED <<opts, c, file, lost, ended>>

(* close(STDIN_FILENO): what it received meanwhile is lost.                *)
CloseStdin(x) ==
  /\ s[x].at = "stdin"
  /\ s' = [s EXCEPT ![x].at = "window"]
  /\ UNCHANGED <<opts, c, file, net, lost, copied, calls, ended>>

StdinReceive(x) ==
  /\ s[x].at = "stdin"
  /\ \E m \in net : \E rest \in Rest(m) : m.to = "s" /\ net' = rest.net /\ copied' = rest.copied
  /\ UNCHANGED <<opts, c, s, file, lost, calls, ended>>

(* The server did y; unlink() leaves the files of the others without name. *)
ServerDoes(x, next, rest) ==
  /\ \E y \in {next} :
       /\ s' = [z \in Servers |->
                  IF z = x THEN IF y.p.at = "done" THEN Off ELSE y.p
                  ELSE IF file.s.there /\ ~y.f.there /\ s[z].at = "wait"
                       THEN [s[z] EXCEPT !.mine = FALSE]
                  ELSE s[z]]
       /\ file' = [file EXCEPT !.s = y.f]
       /\ net' = Sent(rest.net, y.out)
       /\ ended' = IF y.p.at = "done" /\ y.p.fd THEN ended \cup {y.p.result} ELSE ended
  /\ copied' = rest.copied
  /\ UNCHANGED <<opts, c, lost, calls>>

(* The first packet of the server to the request m.                        *)
First(p, f, m) ==
  LET put == m.op = "RRQ"
      x == Situation([p EXCEPT !.blksize = IF opts.old THEN Default ELSE m.opt],
                     IF put THEN f ELSE [there |-> TRUE, data |-> <<>>])
  IN
  IF ~opts.old /\ (m.opt # Default \/ put)
  THEN SendPkt(x, Packet("c", "OACK", 0, <<>>, m.opt))
  ELSE Build([x EXCEPT !.p.block_nr = IF put THEN 1 ELSE 0], TRUE)

Refuses(m) ==
  \/ m.op \notin {"RRQ", "WRQ"}
  \/ opts.refuse
  \/ m.op = "WRQ" /\ ~file.s.there /\ ~opts.create

Start(x) ==
  /\ s[x].at = "window"
  /\ LET m == s[x].req IN
     ServerDoes(x, IF Refuses(m) THEN SendErrPkt(Situation(Proc(TRUE, "c", FALSE), file.s))
                   ELSE First(Proc(m.op = "RRQ", "c", TRUE), file.s, m), All)

ServerReceive(x) ==
  /\ s[x].at = "wait" /\ ~s[x].err
  /\ \E m \in net, ok \in Oks : \E rest \in Rest(m) :
       m.to = "s" /\ ServerDoes(x, Receive(Situation(s[x], file.s), m, ok), rest)

ServerTimeout(x) ==
  /\ s[x].at = "wait" /\ (s[x].err \/ TimeIsUp(s[x]))
  /\ ServerDoes(x, Timeout(Situation(s[x], file.s)), All)

(* read() returns the error of the socket.                                 *)
ServerError(x) ==
  /\ s[x].at = "wait" /\ s[x].err
  /\ ServerDoes(x, SendErrPkt(Situation(s[x], file.s)), All)

(* The client has left: its host answers "port unreachable".               *)
Unreachable ==
  /\ c.at = "done"
  /\ \E m \in net : \E rest \in Rest(m) : m.to = "c" /\ net' = rest.net /\ copied' = rest.copied
  /\ s' \in {s} \cup {[s EXCEPT ![x].err = TRUE] : x \in {y \in Servers : s[y].at = "wait"}}
  /\ UNCHANGED <<opts, c, file, lost, calls, ended>>

Lose ==
  /\ lost < opts.loss
  /\ \E m \in net : net' = net \ {m}
  /\ lost' = lost + 1
  /\ UNCHANGED <<opts, c, s, file, copied, calls, ended>>

Client == ClientReceive \/ ClientTimeout \/ ClientPoll

Server(x) ==
  \/ CloseStdin(x) \/ StdinReceive(x) \/ Start(x)
  \/ ServerReceive(x) \/ ServerTimeout(x) \/ ServerError(x)

Next == Client \/ Spawn \/ (\E x \in Servers : Server(x)) \/ Unreachable \/ Lose

Spec == Init /\ [][Next]_vars

(* A process whose timer has run out resends, or ends; inetd starts what   *)
(* is called for, and the network delivers what it does not lose.          *)
FairSpec ==
  /\ Spec
  /\ WF_vars(ClientReceive) /\ WF_vars(ClientTimeout) /\ WF_vars(Spawn) /\ WF_vars(Unreachable)
  /\ \A x \in Servers :
       /\ WF_vars(CloseStdin(x)) /\ WF_vars(Start(x)) /\ WF_vars(ServerReceive(x))
       /\ WF_vars(ServerTimeout(x)) /\ WF_vars(ServerError(x))

----------------------------------------------------------------------------
TypeOK ==
  /\ c.at \in {"wait", "done"} /\ c.retries \in 0..opts.retries
  /\ \A x \in Servers : s[x].at \in {"off", "stdin", "window", "wait"}
  /\ \A x \in Servers : s[x].at = "wait" => s[x].retries \in 1..opts.retries
  /\ \A m \in net : m.nr \in 0..opts.mod - 1 /\ m.to \in {"c", "s"}
  /\ calls \in 0..2 /\ lost \in 0..opts.loss /\ copied \in 0..opts.dup
  /\ ended \subseteq {"success", "failure", "died"}

(* Stop and wait: without a second tftpd for the same request, sender and  *)
(* receiver are never more than a block apart, though block numbers wrap   *)
(* and packets are lost, repeated or late.                                 *)
Lockstep ==
  \A x \in Servers :
    calls < 2 /\ s[x].at = "wait" /\ c.at = "wait" =>
      LET from == IF opts.get THEN s[x] ELSE c
          to == IF opts.get THEN c ELSE s[x]
      IN to.block_nr \in from.block_nr - 1..from.block_nr

Beginning(data) == \E n \in 0..opts.size : data = SubSeq(File, 1, n)

(* What the receiver has written is always a beginning of the file, and    *)
(* all of it once it reports success: for tftp -g whatever tftpd processes *)
(* answer, for a tftpd that takes an upload if it is the only one.         *)
Received ==
  /\ opts.get => /\ c.fd /\ c.at = "wait" => Beginning(file.c.data)
                 /\ c.result = "success" => file.c = Whole
  /\ ~opts.get /\ calls < 2 =>
       /\ \A x \in Servers : s[x].at = "wait" => Beginning(file.s.data)
       /\ "success" \in ended => file.s = Whole

(* A transfer that failed leaves no part of the file ("unlink(local_file)"),*)
(* unless xsendto() ended the program.                                     *)
NoPartialFile ==
  /\ opts.get /\ c.at = "done" => file.c \in {Old, NoFile, Whole}
  /\ ~opts.get /\ calls < 2 /\ "died" \notin ended /\ (\A x \in Servers : s[x].at # "wait")
       => file.s \in {Old, NoFile, Whole}

(* Nobody waits for ever: retries is reset only by progress.               *)
Ends ==
  <>(c.at = "done") /\ \A x \in Servers : []<>(s[x] = Off)

(* Where at most one packet is lost, and timers only run out when it was,  *)
(* the file is transferred.                                                *)
Succeeds ==
  opts.loss < 2 /\ ~opts.early /\ ~opts.fault /\ ~opts.refuse /\ ~opts.again
    => <>[](c.result = "success" /\ file.c = Whole /\ file.s = Whole)

(* tftp.c:559: "Was it final ACK? then exit".  A process that resends a    *)
(* packet and then leaves has sent an ACK.                                 *)
LeavesAfterFinalAck ==
  [][c.at = "wait" /\ c'.result = "success" /\ c'.retries \in 1..c.retries - 1
       => c.xbuf.op = "ACK"]_vars

(* tftp.c:97: "Transfer a file from/to tftp server".  When tftp -p reports *)
(* success, a tftpd has the whole file.                                    *)
PutMeansPut == ~opts.get /\ c.result = "success" => "success" \in ended

(* tftp.c:112: "Transfer a file on tftp client's request".  A file that    *)
(* was uploaded stays.                                                     *)
UploadStays ==
  ~opts.get /\ c.result = "success" /\ "success" \in ended => file.s = Whole

=============================================================================
