----------------------------- MODULE DhcpProofs -----------------------------
(***************************************************************************)
(* No client uses an address beyond its lease, for any number of clients,  *)
(* any times and any options; and add_lease() keeps the table free of      *)
(* doubles.                                                                *)
(***************************************************************************)
EXTENDS Dhcp, TLAPS

(* The lease outlasts the timer that ends it: by more while the client is  *)
(* BOUND, where the timer starts a renewal.                                *)
Times(c) ==
  /\ c.st = "BOUND" => 0 <= c.tmo /\ c.tmo < c.rem
  /\ c.st \in Leased => 0 <= c.tmo /\ c.tmo <= c.rem
Entitled(c, ip) == c.st # "exited" /\ ip # NoIp => c.st \in Leased /\ ip = c.ip

(* What is in a packet but its time does not matter: A is a set of values. *)
Answer(A) == [type : A, addr : A, time : Nat, own : A, age : A]
States == Leased \cup {"INIT_SELECTING", "REQUESTING", "RELEASED", "exited"}
Modes == {"NONE", "KERNEL", "RAW"}
ClientRecord(A) ==
  [st : States, ip : A, tmo : Int, rem : Nat, pn : Nat, lis : Modes, firm : BOOLEAN]
Typed(A) ==
  /\ {NoIp, FALSE, "offer", "ack", "nak", 0} \subseteq A
  /\ toClient \in [Macs -> Seq(Answer(A))]
  /\ cl \in [Macs -> ClientRecord(A)]
  /\ conf \in [Macs -> A]
Asked == {"asks", "stops"} \subseteq DOMAIN opts /\ opts.asks \in [Macs -> Nat]
Honoured == \A m \in Macs : Times(cl[m]) /\ Entitled(cl[m], conf[m])

(* The inductive invariant.                                                *)
IInv == (\E A : Typed(A)) /\ Asked /\ Honoured

(* What a step does to one client, and that it does it well.               *)
Lands(m, c, i, q) ==
  /\ cl' = [cl EXCEPT ![m] = c]
  /\ conf' = [conf EXCEPT ![m] = i]
  /\ toClient' = [toClient EXCEPT ![m] = q]
Sound(A, c, i, q) ==
  c \in ClientRecord(A) /\ i \in A /\ q \in Seq(Answer(A)) /\ Times(c) /\ Entitled(c, i)

(* A sequence over a set is one over a larger set.                         *)
LEMMA SeqGrows ==
  ASSUME NEW S, NEW T, S \subseteq T, NEW q \in Seq(S)
  PROVE  q \in Seq(T)
BY SMT

(* Typed is monotonic.                                                     *)
LEMMA TypedGrows ==
  ASSUME NEW A, NEW B, A \subseteq B, Typed(A)
  PROVE  Typed(B)
<1>1. Answer(A) \subseteq Answer(B) /\ ClientRecord(A) \subseteq ClientRecord(B)
  BY DEF Answer, ClientRecord
<1>2. Seq(Answer(A)) \subseteq Seq(Answer(B))
  BY <1>1, SeqGrows
<1> QED
  BY <1>1, <1>2, Zenon DEF Typed

(* A step of one client keeps the invariant if it leaves that client well. *)
LEMMA Landing ==
  ASSUME NEW A, Typed(A), Asked, Honoured, UNCHANGED opts,
         NEW m \in Macs, NEW c, NEW i, NEW q, Lands(m, c, i, q), Sound(A, c, i, q)
  PROVE  IInv'
<1>1. Typed(A)'
  BY Zenon DEF Typed, Lands, Sound
<1>2. Asked'
  BY DEF Asked
<1>3. Honoured'
  <2> SUFFICES ASSUME NEW n \in Macs
               PROVE  Times(cl'[n]) /\ Entitled(cl'[n], conf'[n])
    BY DEF Honoured, Times, Entitled
  <2>1. CASE n = m
    BY <2>1 DEF Lands, Sound, Typed
  <2>2. CASE n # m
    <3>1. cl'[n] = cl[n] /\ conf'[n] = conf[n]
      BY <2>2 DEF Lands, Typed
    <3> QED
      BY <3>1 DEF Honoured
  <2> QED
    BY <2>1, <2>2
<1> QED
  BY <1>1, <1>2, <1>3 DEF IInv

----------------------------------------------------------------------------
(* What the operations on a client's record return *)

(* The fields that an operation changes, and those it does not.            *)
LEMMA ChangedMode ==
  ASSUME NEW A, NEW c \in ClientRecord(A), NEW l \in Modes, NEW d, d = change_listen_mode(c, l)
  PROVE  /\ d \in ClientRecord(A)
         /\ d.st = c.st /\ d.tmo = c.tmo /\ d.rem = c.rem /\ d.ip = c.ip
BY DEF ClientRecord, change_listen_mode

(* A packet is sent.                                                       *)
LEMMA SentRecord ==
  ASSUME NEW A, NEW c \in ClientRecord(A), NEW state \in States
  PROVE  /\ Sent(c, state) \in ClientRecord(A)
         /\ Sent(c, state).st = state /\ Sent(c, state).tmo = 1
         /\ Sent(c, state).rem = c.rem /\ Sent(c, state).ip = c.ip
<1>1. PICK t \in Int, n \in Nat : t = 1 /\ n = c.pn + 1
  BY DEF ClientRecord
<1>2. Sent(c, state) = [c EXCEPT !.st = state, !.tmo = t, !.pn = n]
  BY <1>1 DEF Sent
<1>3. /\ Sent(c, state) \in ClientRecord(A)
      /\ Sent(c, state).st = state /\ Sent(c, state).tmo = t
      /\ Sent(c, state).rem = c.rem /\ Sent(c, state).ip = c.ip
  BY <1>2, Zenon DEF ClientRecord
<1> QED
  BY <1>1, <1>3

(* ... and the client listens for the answer.                              *)
LEMMA SentAndListens ==
  ASSUME NEW A, NEW c \in ClientRecord(A), NEW state \in States, NEW mode \in Modes,
         NEW d, d = change_listen_mode(Sent(c, state), mode)
  PROVE  /\ d \in ClientRecord(A)
         /\ d.st = state /\ d.tmo = 1 /\ d.rem = c.rem /\ d.ip = c.ip
BY SentRecord, ChangedMode

(* Half of a lease that lasts is less than the lease.                      *)
LEMMA HalfOfLease ==
  ASSUME NEW A, NEW c \in ClientRecord(A), c.rem > 0
  PROVE  /\ HalfLease(c) \in ClientRecord(A) /\ Times(HalfLease(c))
         /\ HalfLease(c).st \in Leased /\ HalfLease(c).ip = c.ip
<1>1. c.rem \in Nat
  BY DEF ClientRecord
<1> DEFINE h == c.rem \div 2
<1>2. h \in Int /\ 0 <= h /\ h < c.rem
  BY <1>1
<1>3. PICK s, l, n : s = "BOUND" /\ l = "NONE" /\ n = 0
  OBVIOUS
<1>4. s \in States /\ l \in Modes /\ n \in Nat
  BY <1>3 DEF States, Modes, Leased
<1>5. HalfLease(c) = [c EXCEPT !.st = s, !.tmo = h, !.pn = n, !.lis = l]
  BY <1>3 DEF HalfLease
<1> HIDE DEF h
<1>6. /\ HalfLease(c) \in ClientRecord(A)
      /\ HalfLease(c).st = s /\ HalfLease(c).tmo = h
      /\ HalfLease(c).rem = c.rem /\ HalfLease(c).ip = c.ip
  BY <1>2, <1>4, <1>5, Zenon DEF ClientRecord
<1> QED
  BY <1>1, <1>2, <1>3, <1>6 DEF Times, Leased

(* A client that starts anew has no lease to keep.                         *)
LEMMA RestartsRecord ==
  ASSUME NEW A, NEW c \in ClientRecord(A), NEW tmo \in Int
  PROVE  /\ Restarts(c, tmo) \in ClientRecord(A)
         /\ Times(Restarts(c, tmo)) /\ Entitled(Restarts(c, tmo), NoIp)
         /\ Restarts(c, tmo).st = "INIT_SELECTING"
<1>1. PICK s, l, n : s = "INIT_SELECTING" /\ l = "NONE" /\ n = 0
  OBVIOUS
<1>2. s \in States /\ l \in Modes /\ n \in Nat
  BY <1>1 DEF States, Modes, Leased
<1>3. Restarts(c, tmo) = [c EXCEPT !.st = s, !.tmo = tmo, !.pn = n, !.lis = l]
  BY <1>1 DEF Restarts
<1>4. Restarts(c, tmo) \in ClientRecord(A) /\ Restarts(c, tmo).st = s
  BY <1>2, <1>3, Zenon DEF ClientRecord
<1> QED
  BY <1>1, <1>4 DEF Times, Entitled, Leased

----------------------------------------------------------------------------
(* The steps of a client *)

Before(A) == Typed(A) /\ Asked /\ Honoured /\ UNCHANGED opts

(* What is known of a client before a step.                                *)
LEMMA Client0 ==
  ASSUME NEW A, Before(A), NEW m \in Macs
  PROVE  /\ cl[m] \in ClientRecord(A) /\ conf[m] \in A /\ NoIp \in A
         /\ toClient[m] \in Seq(Answer(A))
         /\ cl[m].tmo \in Int /\ cl[m].rem \in Nat /\ cl[m].pn \in Nat /\ cl[m].ip \in A
         /\ Times(cl[m]) /\ Entitled(cl[m], conf[m])
         /\ cl[m].st \notin Leased /\ Runs(m) => conf[m] = NoIp
         /\ conf[m] = NoIp \/ conf[m] = cl[m].ip \/ ~Runs(m)
<1>1. cl[m] \in ClientRecord(A) /\ conf[m] \in A /\ NoIp \in A /\ toClient[m] \in Seq(Answer(A))
  BY DEF Before, Typed
<1>2. cl[m].tmo \in Int /\ cl[m].rem \in Nat /\ cl[m].pn \in Nat /\ cl[m].ip \in A
  BY <1>1 DEF ClientRecord
<1>3. Times(cl[m]) /\ Entitled(cl[m], conf[m])
  BY DEF Before, Honoured
<1> QED
  BY <1>1, <1>2, <1>3 DEF Entitled, Runs

(* Three ways to leave a client well: without an address,                  *)
LEMMA LandsUnleased ==
  ASSUME NEW A, Before(A), NEW m \in Macs, NEW c \in ClientRecord(A), NEW i \in A,
         NEW q \in Seq(Answer(A)), Lands(m, c, i, q),
         c.st \notin Leased, i = NoIp \/ c.st = "exited"
  PROVE  IInv'
<1>1. Times(c) /\ Entitled(c, i)
  BY DEF Times, Entitled, Leased
<1> QED
  BY <1>1, Landing DEF Before, Sound

(* with a lease that it wants to keep,                                     *)
LEMMA LandsLeased ==
  ASSUME NEW A, Before(A), NEW m \in Macs, NEW c \in ClientRecord(A), NEW i \in A,
         NEW q \in Seq(Answer(A)), Lands(m, c, i, q),
         c.st \in Leased, c.st # "BOUND", c.tmo = 1, c.rem > 0, i = NoIp \/ i = c.ip
  PROVE  IInv'
<1>1. c.rem \in Nat
  BY DEF ClientRecord
<1>2. Times(c) /\ Entitled(c, i)
  BY <1>1 DEF Times, Entitled
<1> QED
  BY <1>2, Landing DEF Before, Sound

(* and with one of which half is left to wait.                             *)
LEMMA LandsBound ==
  ASSUME NEW A, Before(A), NEW m \in Macs, NEW c \in ClientRecord(A), NEW i \in A,
         NEW q \in Seq(Answer(A)), Lands(m, HalfLease(c), i, q),
         c.rem > 0, i = NoIp \/ i = c.ip
  PROVE  IInv'
<1>1. /\ HalfLease(c) \in ClientRecord(A) /\ Times(HalfLease(c))
      /\ HalfLease(c).st \in Leased /\ HalfLease(c).ip = c.ip
  BY HalfOfLease
<1>2. Entitled(HalfLease(c), i)
  BY <1>1 DEF Entitled
<1> QED
  BY <1>1, <1>2, Landing DEF Before, Sound

(* A new xid does not matter here.                                         *)
LEMMA DisownedSeq ==
  ASSUME NEW A, FALSE \in A, NEW q \in Seq(Answer(A))
  PROVE  Disowned(q) \in Seq(Answer(A))
<1>1. PICK v : v = FALSE
  BY Zenon
<1>2. Disowned(q) = [i \in DOMAIN q |-> [q[i] EXCEPT !.own = v]]
  BY <1>1, Zenon DEF Disowned
<1>3. v \in A
  BY <1>1, Zenon
<1>4. ASSUME NEW r \in Answer(A) PROVE [r EXCEPT !.own = v] \in Answer(A)
  BY <1>3 DEF Answer
<1>5. DOMAIN q = 1..Len(q) /\ Len(q) \in Nat /\ \A i \in 1..Len(q) : q[i] \in Answer(A)
  OBVIOUS
<1>6. \A i \in 1..Len(q) : [q[i] EXCEPT !.own = v] \in Answer(A)
  BY <1>4, <1>5
<1>7. [i \in 1..Len(q) |-> [q[i] EXCEPT !.own = v]] \in [1..Len(q) -> Answer(A)]
  BY <1>6
<1> QED
  BY <1>2, <1>5, <1>7

(* What the packets are that a client has still to read.                   *)
LEMMA Unread ==
  ASSUME NEW m, NEW p, NEW in
  PROVE  /\ Quiet(m, in) => toClient' = [toClient EXCEPT ![m] = in]
         /\ Send(m, p, in) => toClient' = [toClient EXCEPT ![m] = in]
         /\ SendAnew(m, p, in) => toClient' = [toClient EXCEPT ![m] = Disowned(in)]
BY DEF Quiet, Send, SendAnew, Queues

(* A step that leaves the address.                                         *)
LEMMA Stays ==
  ASSUME NEW A, Before(A), NEW m \in Macs, NEW c, NEW q,
         Becomes(m, c), UNCHANGED conf, toClient' = [toClient EXCEPT ![m] = q]
  PROVE  Lands(m, c, conf[m], q)
BY DEF Before, Typed, Becomes, Lands

(* send_discover(), send_select() and leasefail.                           *)
LEMMA DiscoverStep ==
  ASSUME NEW A, Before(A), NEW m \in Macs, Discover(m)
  PROVE  IInv'
<1> DEFINE c == change_listen_mode(Sent(cl[m], "INIT_SELECTING"), "RAW")
<1>1. conf[m] = NoIp
  BY Client0 DEF Discover, Runs, Leased
<1>2. "INIT_SELECTING" \in States /\ "RAW" \in Modes
  BY DEF States, Modes
<1>3. c \in ClientRecord(A) /\ c.st = "INIT_SELECTING"
  BY <1>2, Client0, SentAndListens
<1>4. PICK q \in Seq(Answer(A)) : toClient' = [toClient EXCEPT ![m] = q]
  <2>1. Disowned(toClient[m]) \in Seq(Answer(A))
    BY Client0, DisownedSeq, Zenon DEF Before, Typed
  <2>2. \/ toClient' = [toClient EXCEPT ![m] = Disowned(toClient[m])]
        \/ toClient' = [toClient EXCEPT ![m] = toClient[m]]
    BY Unread, Zenon DEF Discover
  <2> QED
    BY <2>1, <2>2, Client0
<1>5. Becomes(m, c) /\ UNCHANGED conf
  BY DEF Discover
<1> HIDE DEF c
<1>6. Lands(m, c, conf[m], q)
  BY <1>4, <1>5, Stays, Zenon
<1> QED
  BY <1>1, <1>3, <1>6, Client0, LandsUnleased DEF Leased

(* Asking for the offered address, or giving up after the retries.          *)
LEMMA SelectStep ==
  ASSUME NEW A, Before(A), NEW m \in Macs, Select(m)
  PROVE  IInv'
<1> DEFINE c == Sent(cl[m], "REQUESTING")
<1>1. conf[m] = NoIp
  BY Client0 DEF Select, Runs, Leased
<1>2. c \in ClientRecord(A) /\ c.st = "REQUESTING"
  <2>1. "REQUESTING" \in States
    BY DEF States
  <2> QED
    BY <2>1, Client0, SentRecord
<1>3. toClient' = [toClient EXCEPT ![m] = toClient[m]]
  BY Unread, Zenon DEF Select
<1>4. Becomes(m, c) /\ UNCHANGED conf
  BY DEF Select
<1> HIDE DEF c
<1>5. Lands(m, c, conf[m], toClient[m])
  BY <1>3, <1>4, Stays, Zenon
<1> QED
  BY <1>1, <1>2, <1>5, Client0, LandsUnleased DEF Leased

(* The record of a client that starts or has exited.                       *)
LEMMA FreshRecord ==
  ASSUME NEW A, NEW state \in States, NEW ip \in A
  PROVE  Fresh(state, ip) \in ClientRecord(A) /\ Fresh(state, ip).st = state
<1>1. "NONE" \in Modes
  BY DEF Modes
<1> QED
  BY <1>1 DEF ClientRecord, Fresh
(* The record of a client that has exited is well formed.                   *)
LEMMA ExitedRecord ==
  ASSUME NEW A, NoIp \in A
  PROVE  Exited \in ClientRecord(A) /\ Exited.st = "exited"
<1>1. "exited" \in States
  BY DEF States
<1> QED
  BY <1>1, FreshRecord DEF Exited

(* No lease came: the client restarts or, with -n, exits.                   *)
LEMMA leasefailStep ==
  ASSUME NEW A, Before(A), NEW m \in Macs, leasefail(m)
  PROVE  IInv'
<1>1. conf[m] = NoIp
  BY Client0 DEF leasefail, Runs, Leased
<1>2. TryAgain \in Int
  BY ClientAssumption
<1>3. PICK c \in ClientRecord(A) : Becomes(m, c) /\ c.st \notin Leased
  BY <1>2, Client0, RestartsRecord, ExitedRecord, Zenon DEF leasefail, Leased
<1>4. UNCHANGED conf /\ toClient' = [toClient EXCEPT ![m] = toClient[m]]
  BY Unread, Zenon DEF leasefail
<1>5. Lands(m, c, conf[m], toClient[m])
  BY <1>3, <1>4, Stays, Zenon
<1> QED
  BY <1>1, <1>3, <1>5, Client0, LandsUnleased

(* A client that starts anew without its address.                          *)
LEMMA LandsAnew ==
  ASSUME NEW A, Before(A), NEW m \in Macs, NEW c \in ClientRecord(A), NEW tmo \in Int,
         NEW q \in Seq(Answer(A)), Lands(m, Restarts(c, tmo), NoIp, q)
  PROVE  IInv'
<1>1. NoIp \in A
  BY Client0
<1>2. Restarts(c, tmo) \in ClientRecord(A) /\ Restarts(c, tmo).st = "INIT_SELECTING"
  BY RestartsRecord
<1>3. Restarts(c, tmo).st \notin Leased
  BY <1>2 DEF Leased
<1> QED
  BY <1>1, <1>2, <1>3, LandsUnleased

(* The steps that renew a lease, of a client with the record c.            *)
LEMMA RenewStep ==
  ASSUME NEW A, Before(A), NEW m \in Macs, NEW c \in ClientRecord(A),
         NEW state \in {"RENEWING", "RENEW_REQUESTED"},
         c.rem > 0, conf[m] = NoIp \/ conf[m] = c.ip, Renew(m, c, state)
  PROVE  IInv'
<1> DEFINE d == change_listen_mode(Sent(c, state), "KERNEL")
<1>1. state \in States /\ state \in Leased /\ state # "BOUND" /\ "KERNEL" \in Modes
  BY DEF States, Leased, Modes
<1>2. d \in ClientRecord(A) /\ d.st = state /\ d.tmo = 1 /\ d.rem = c.rem /\ d.ip = c.ip
  BY <1>1, SentAndListens
<1>3. toClient' = [toClient EXCEPT ![m] = toClient[m]]
  BY Unread DEF Renew
<1>4. Becomes(m, d) /\ UNCHANGED conf
  BY DEF Renew
<1> HIDE DEF d
<1>5. Lands(m, d, conf[m], toClient[m])
  BY <1>3, <1>4, Stays, Zenon
<1> QED
  BY <1>1, <1>2, <1>5, Client0, LandsLeased

(* A rebinding client asks again, or its lease ends.                        *)
LEMMA RebindStep ==
  ASSUME NEW A, Before(A), NEW m \in Macs, NEW c \in ClientRecord(A),
         conf[m] = NoIp \/ conf[m] = c.ip, Rebind(m, c)
  PROVE  IInv'
<1>1. c.rem \in Nat
  BY DEF ClientRecord
<1>2. CASE /\ c.rem > 0
           /\ Becomes(m, change_listen_mode(Sent(c, "REBINDING"), "RAW"))
           /\ Send(m, Renewal(c), toClient[m])
           /\ UNCHANGED conf
  <2> DEFINE d == change_listen_mode(Sent(c, "REBINDING"), "RAW")
  <2>1. "REBINDING" \in States /\ "REBINDING" \in Leased /\ "RAW" \in Modes
    BY DEF States, Leased, Modes
  <2>2. d \in ClientRecord(A) /\ d.st = "REBINDING" /\ d.tmo = 1 /\ d.rem = c.rem /\ d.ip = c.ip
    BY <2>1, SentAndListens
  <2>3. toClient' = [toClient EXCEPT ![m] = toClient[m]]
    BY <1>2, Unread
  <2>4. Becomes(m, d) /\ UNCHANGED conf
    BY <1>2
  <2> HIDE DEF d
  <2>5. Lands(m, d, conf[m], toClient[m])
    BY <2>3, <2>4, Stays, Zenon
  <2> QED
    BY <1>2, <2>1, <2>2, <2>5, Client0, LandsLeased
<1>3. CASE Becomes(m, Restarts(c, 0)) /\ Quiet(m, toClient[m]) /\ Deconfig(m)
  <2>1. Lands(m, Restarts(c, 0), NoIp, toClient[m])
    BY <1>3, Unread, Zenon DEF Lands, Becomes, Deconfig, Configures
  <2> QED
    BY <2>1, Client0, LandsAnew
<1> QED
  BY <1>2, <1>3 DEF Rebind

(* A record with packet_num 0.                                             *)
LEMMA CountFromZero ==
  ASSUME NEW A, NEW c \in ClientRecord(A), NEW n \in Nat
  PROVE  /\ [c EXCEPT !.pn = n] \in ClientRecord(A)
         /\ [c EXCEPT !.pn = n].ip = c.ip
BY DEF ClientRecord

(* No answer while renewing: half of the rest is waited, or rebinding starts. *)
LEMMA NoResponseStep ==
  ASSUME NEW A, Before(A), NEW m \in Macs, NEW c \in ClientRecord(A),
         conf[m] = NoIp \/ conf[m] = c.ip, NoResponse(m, c)
  PROVE  IInv'
<1>1. c.rem \in Nat /\ Enough \in Nat
  BY ClientAssumption DEF ClientRecord
<1>2. CASE /\ c.rem > Enough /\ Becomes(m, HalfLease(c))
           /\ Quiet(m, toClient[m]) /\ UNCHANGED conf
  <2>1. c.rem > 0
    BY <1>1, <1>2
  <2>2. Lands(m, HalfLease(c), conf[m], toClient[m])
    BY <1>2, Unread, Stays, Zenon
  <2> QED
    BY <2>1, <2>2, Client0, LandsBound
<1>3. CASE Rebind(m, [c EXCEPT !.pn = 0])
  <2>1. PICK n \in Nat : n = 0
    OBVIOUS
  <2>2. PICK d : d = [c EXCEPT !.pn = n]
    BY Zenon
  <2>3. d \in ClientRecord(A) /\ d.ip = c.ip
    BY <2>2, CountFromZero
  <2>4. Rebind(m, d)
    BY <1>3, <2>1, <2>2
  <2> QED
    BY <2>3, <2>4, RebindStep
<1> QED
  BY <1>2, <1>3 DEF NoResponse

(* The timeout of poll().                                                  *)
LEMMA TimeoutStep ==
  ASSUME NEW A, Before(A), NEW m \in Macs, Timeout(m)
  PROVE  IInv'
<1>1. CASE Discover(m) \/ Select(m) \/ leasefail(m)
  BY <1>1, DiscoverStep, SelectStep, leasefailStep
<1>2. CASE cl[m].st = "BOUND" /\ Renew(m, cl[m], "RENEWING")
  <2>1. cl[m].rem > 0
    BY <1>2, Client0 DEF Times
  <2> QED
    BY <1>2, <2>1, Client0, RenewStep DEF Timeout
<1>3. CASE NoResponse(m, cl[m])
  BY <1>3, Client0, NoResponseStep DEF Timeout
<1>4. CASE Rebind(m, cl[m])
  BY <1>4, Client0, RebindStep DEF Timeout
<1> QED
  BY <1>1, <1>2, <1>3, <1>4 DEF Timeout

(* SIGUSR1.                                                                *)
LEMMA SigUsr1Step ==
  ASSUME NEW A, Before(A), NEW m \in Macs, Runs(m), cl[m].tmo # 0, SigUsr1(m)
  PROVE  IInv'
<1> DEFINE c == [cl[m] EXCEPT !.rem = IF @ > Enough THEN Enough ELSE @, !.pn = 0]
<1>1. /\ c \in ClientRecord(A) /\ c.ip = cl[m].ip
      /\ cl[m].rem > 0 => c.rem > 0
  <2>1. PICK r \in Nat, n \in Nat :
          r = (IF cl[m].rem > Enough THEN Enough ELSE cl[m].rem) /\ n = 0
    BY Client0, ClientAssumption
  <2>2. c = [cl[m] EXCEPT !.rem = r, !.pn = n]
    BY <2>1
  <2>3. cl[m] \in ClientRecord(A)
    BY Client0
  <2> HIDE DEF c
  <2>4. c \in ClientRecord(A) /\ c.ip = cl[m].ip /\ c.rem = r
    BY <2>2, <2>3, Zenon DEF ClientRecord
  <2>5. cl[m].rem > 0 => r > 0
    BY <2>1, Client0, ClientAssumption
  <2> QED
    BY <2>4, <2>5
<1>2. conf[m] = NoIp \/ conf[m] = c.ip
  BY <1>1, Client0
<1>3. \/ /\ cl[m].st \in {"BOUND", "RENEWING"}
         /\ Renew(m, c, "RENEW_REQUESTED") \/ NoResponse(m, c)
      \/ Becomes(m, Restarts(c, 0)) /\ Quiet(m, toClient[m]) /\ Deconfig(m)
      \/ /\ cl[m].st = "RELEASED"
         /\ Becomes(m, Restarts(c, 0)) /\ Quiet(m, toClient[m]) /\ UNCHANGED conf
  BY DEF SigUsr1
<1> HIDE DEF c
<1>4. CASE cl[m].st \in {"BOUND", "RENEWING"} /\ Renew(m, c, "RENEW_REQUESTED")
  <2>1. cl[m].rem > 0
    BY <1>4, Client0 DEF Times, Leased
  <2> QED
    BY <1>1, <1>2, <1>4, <2>1, RenewStep
<1>5. CASE NoResponse(m, c)
  BY <1>1, <1>2, <1>5, NoResponseStep
<1>6. CASE Becomes(m, Restarts(c, 0)) /\ Quiet(m, toClient[m]) /\ Deconfig(m)
  <2>1. Lands(m, Restarts(c, 0), NoIp, toClient[m])
    BY <1>6, Unread, Zenon DEF Lands, Becomes, Deconfig, Configures
  <2> QED
    BY <1>1, <2>1, Client0, LandsAnew
<1>7. CASE /\ cl[m].st = "RELEASED"
           /\ Becomes(m, Restarts(c, 0)) /\ Quiet(m, toClient[m]) /\ UNCHANGED conf
  <2>1. conf[m] = NoIp
    BY <1>7, Client0 DEF Leased
  <2>2. Lands(m, Restarts(c, 0), conf[m], toClient[m])
    BY <1>7, Unread, Stays, Zenon
  <2> QED
    BY <1>1, <2>1, <2>2, Client0, LandsAnew
<1> QED
  BY <1>3, <1>4, <1>5, <1>6, <1>7

(* A release takes the address away.                                       *)
LEMMA Released ==
  ASSUME NEW A, Before(A), NEW m \in Macs, NEW in \in Seq(Answer(A)), perform_release(m, in)
  PROVE  \E q \in Seq(Answer(A)) :
           toClient' = [toClient EXCEPT ![m] = q] /\ conf' = [conf EXCEPT ![m] = NoIp]
<1>1. Disowned(in) \in Seq(Answer(A))
  BY DisownedSeq, Zenon DEF Before, Typed
<1>2. \/ toClient' = [toClient EXCEPT ![m] = Disowned(in)]
      \/ toClient' = [toClient EXCEPT ![m] = in]
  BY Unread, Zenon DEF perform_release
<1>3. conf' = [conf EXCEPT ![m] = NoIp]
  BY DEF perform_release, Deconfig, Configures
<1> QED
  BY <1>1, <1>2, <1>3

(* SIGUSR2.                                                                *)
LEMMA SigUsr2Step ==
  ASSUME NEW A, Before(A), NEW m \in Macs, SigUsr2(m)
  PROVE  IInv'
<1>1. PICK q \in Seq(Answer(A)) :
        toClient' = [toClient EXCEPT ![m] = q] /\ conf' = [conf EXCEPT ![m] = NoIp]
  BY Client0, Released DEF SigUsr2
<1> DEFINE c == [cl[m] EXCEPT !.st = "RELEASED", !.tmo = Forever, !.lis = "NONE"]
<1>2. c \in ClientRecord(A) /\ c.st = "RELEASED"
  <2>1. PICK s, t, l : s = "RELEASED" /\ t = Forever /\ l = "NONE"
    OBVIOUS
  <2>2. s \in States /\ t \in Int /\ l \in Modes
    BY <2>1 DEF States, Modes, Forever
  <2>3. c = [cl[m] EXCEPT !.st = s, !.tmo = t, !.lis = l]
    BY <2>1
  <2>4. cl[m] \in ClientRecord(A)
    BY Client0
  <2> HIDE DEF c
  <2>5. c \in ClientRecord(A) /\ c.st = s
    BY <2>2, <2>3, <2>4, Zenon DEF ClientRecord
  <2> QED
    BY <2>1, <2>5
<1>3. Lands(m, c, NoIp, q)
  BY <1>1 DEF SigUsr2, Becomes, Lands
<1> HIDE DEF c
<1>4. c.st \notin Leased /\ NoIp \in A
  BY <1>2, Client0 DEF Leased
<1> QED
  BY <1>2, <1>3, <1>4, LandsUnleased

(* SIGTERM, and the end of udhcpc -q.                                      *)
LEMMA QuitStep ==
  ASSUME NEW A, Before(A), NEW m \in Macs, NEW in \in Seq(Answer(A)), Quit(m, in)
  PROVE  IInv'
<1>1. Exited \in ClientRecord(A) /\ Exited.st = "exited" /\ NoIp \in A
  BY Client0, ExitedRecord
<1>2. Exited.st \notin Leased
  BY <1>1 DEF Leased
<1>3. CASE perform_release(m, in)
  <2>1. PICK q \in Seq(Answer(A)) :
          toClient' = [toClient EXCEPT ![m] = q] /\ conf' = [conf EXCEPT ![m] = NoIp]
    BY <1>3, Released
  <2>2. Lands(m, Exited, NoIp, q)
    BY <2>1 DEF Quit, Becomes, Lands
  <2> QED
    BY <1>1, <1>2, <2>2, LandsUnleased
<1>4. CASE Quiet(m, in) /\ UNCHANGED conf
  <2>1. Lands(m, Exited, conf[m], in)
    BY <1>4, Unread, Stays, Zenon DEF Quit
  <2> QED
    BY <1>1, <1>2, <2>1, Client0, LandsUnleased
<1> QED
  BY <1>3, <1>4 DEF Quit

(* An OFFER.                                                               *)
LEMMA GetsOfferStep ==
  ASSUME NEW A, Before(A), NEW m \in Macs, NEW in \in Seq(Answer(A)), NEW p \in Answer(A),
         cl[m].st = "INIT_SELECTING", GetsOffer(m, p, in)
  PROVE  IInv'
<1>1. conf[m] = NoIp
  BY Client0 DEF Runs, Leased
<1> DEFINE c == [cl[m] EXCEPT !.st = "REQUESTING", !.ip = p.addr, !.tmo = 0, !.pn = 0]
<1>2. c \in ClientRecord(A) /\ c.st = "REQUESTING"
  <2>1. PICK s, i, t, n : s = "REQUESTING" /\ i = p.addr /\ t = 0 /\ n = 0
    OBVIOUS
  <2>2. s \in States /\ i \in A /\ t \in Int /\ n \in Nat
    BY <2>1 DEF States, Answer
  <2>3. c = [cl[m] EXCEPT !.st = s, !.ip = i, !.tmo = t, !.pn = n]
    BY <2>1
  <2>4. cl[m] \in ClientRecord(A)
    BY Client0
  <2> HIDE DEF c
  <2>5. c \in ClientRecord(A) /\ c.st = s
    BY <2>2, <2>3, <2>4, Zenon DEF ClientRecord
  <2> QED
    BY <2>1, <2>5
<1>3. Lands(m, c, conf[m], in)
  BY Unread, Stays, Zenon DEF GetsOffer
<1> HIDE DEF c
<1>4. c.st \notin Leased
  BY <1>2 DEF Leased
<1> QED
  BY <1>1, <1>2, <1>3, <1>4, Client0, LandsUnleased

Leaves(m, q) == toClient' = [toClient EXCEPT ![m] = q]

(* A client that starts anew and forgets the address, too.                 *)
LEMMA LandsForgetting ==
  ASSUME NEW A, Before(A), NEW m \in Macs, NEW tmo \in Int, NEW q \in Seq(Answer(A)),
         Runs(m), Becomes(m, Forgets(cl[m], tmo)),
         LosesAddress(m), Leaves(m, q)
  PROVE  IInv'
<1>1. PICK d : d = Restarts(cl[m], tmo)
  OBVIOUS
<1>2. d \in ClientRecord(A) /\ d.st = "INIT_SELECTING" /\ NoIp \in A
  BY <1>1, Client0, RestartsRecord
<1>3. PICK c : c = [d EXCEPT !.ip = NoIp]
  BY Zenon
<1>4. c \in ClientRecord(A) /\ c.st = "INIT_SELECTING"
  BY <1>2, <1>3 DEF ClientRecord
<1>5. Becomes(m, c)
  BY <1>1, <1>3 DEF Forgets
<1>6. CASE Deconfig(m)
  <2>1. Lands(m, c, NoIp, q)
    BY <1>5, <1>6, Zenon DEF Leaves, Lands, Becomes, Deconfig, Configures
  <2> QED
    BY <1>2, <1>4, <2>1, LandsUnleased DEF Leased
<1>7. CASE cl[m].st = "REQUESTING" /\ UNCHANGED conf
  <2>1. conf[m] = NoIp
    BY <1>7, Client0 DEF Leased
  <2>2. Lands(m, c, conf[m], q)
    BY <1>5, <1>7, Stays, Zenon DEF Leaves
  <2> QED
    BY <1>2, <1>4, <2>1, <2>2, LandsUnleased DEF Leased
<1> QED
  BY <1>6, <1>7 DEF LosesAddress

(* An acknowledged address that answers ARP is declined.                    *)
LEMMA DeclinesStep ==
  ASSUME NEW A, Before(A), NEW m \in Macs, NEW in \in Seq(Answer(A)), NEW p, Runs(m),
         Declines(m, p, in)
  PROVE  IInv'
<1>0. TryAgain \in Int
  BY ClientAssumption
<1>1. Disowned(in) \in Seq(Answer(A))
  BY DisownedSeq, Zenon DEF Before, Typed
<1>2. Leaves(m, Disowned(in))
  BY DEF Declines, Leaves, SendAnew, Queues
<1> QED
  BY <1>0, <1>1, <1>2, LandsForgetting DEF Declines

(* A NAK takes the lease away.                                              *)
LEMMA GetsNakStep ==
  ASSUME NEW A, Before(A), NEW m \in Macs, NEW in \in Seq(Answer(A)), Runs(m), GetsNak(m, in)
  PROVE  IInv'
<1>1. Leaves(m, in) /\ 1 \in Int
  BY DEF GetsNak, Leaves, Quiet, Queues
<1> QED
  BY <1>1, LandsForgetting DEF GetsNak

(* An ACK: the lease is at least Enough.                                   *)
LEMMA AcceptsStep ==
  ASSUME NEW A, Before(A), NEW m \in Macs, NEW in \in Seq(Answer(A)), NEW p \in Answer(A),
         Accepts(m, p, in)
  PROVE  IInv'
<1> DEFINE time == IF p.time < Enough THEN Enough ELSE p.time
           c == [cl[m] EXCEPT !.ip = p.addr, !.rem = time, !.firm = TRUE]
<1>1. time \in Nat /\ time > 0 /\ p.addr \in A
  BY ClientAssumption DEF Answer
<1>2. CASE perform_release(m, in) /\ Becomes(m, Exited)
  <2>1. PICK q \in Seq(Answer(A)) :
          toClient' = [toClient EXCEPT ![m] = q] /\ conf' = [conf EXCEPT ![m] = NoIp]
    BY <1>2, Released
  <2>2. Lands(m, Exited, NoIp, q)
    BY <1>2, <2>1 DEF Becomes, Lands
  <2>3. Exited \in ClientRecord(A) /\ Exited.st = "exited" /\ NoIp \in A
    BY Client0, ExitedRecord
  <2> QED
    BY <2>1, <2>2, <2>3, LandsUnleased DEF Leased
<1>3. CASE Quiet(m, in) /\ Configures(m, p.addr) /\ Becomes(m, Exited)
  <2>1. Lands(m, Exited, p.addr, in)
    BY <1>3, Unread, Zenon DEF Lands, Becomes, Configures
  <2>2. Exited \in ClientRecord(A) /\ Exited.st = "exited"
    BY Client0, ExitedRecord
  <2> QED
    BY <1>1, <2>1, <2>2, LandsUnleased DEF Leased
<1>4. CASE Becomes(m, HalfLease(c)) /\ Quiet(m, in) /\ Configures(m, p.addr)
  <2>1. c \in ClientRecord(A) /\ c.rem > 0 /\ c.ip = p.addr
    <3>1. PICK f \in BOOLEAN : f = TRUE
      BY Zenon
    <3>2. c = [cl[m] EXCEPT !.ip = p.addr, !.rem = time, !.firm = f]
      BY <3>1
    <3>3. cl[m] \in ClientRecord(A)
      BY Client0
    <3> HIDE DEF c, time
    <3> QED
      BY <1>1, <3>2, <3>3, Zenon DEF ClientRecord
  <2> HIDE DEF c
  <2>2. Lands(m, HalfLease(c), p.addr, in)
    BY <1>4, Unread, Zenon DEF Lands, Becomes, Configures
  <2> QED
    BY <1>1, <2>1, <2>2, LandsBound
<1> QED
  BY <1>2, <1>3, <1>4, Zenon DEF Accepts

(* A packet from the server.                                               *)
LEMMA ClientReceivesStep ==
  ASSUME NEW A, Before(A), NEW m \in Macs, ClientReceives(m)
  PROVE  IInv'
<1> DEFINE p == Head(toClient[m])
           in == Tail(toClient[m])
<1>1. toClient[m] \in Seq(Answer(A)) /\ toClient[m] # <<>> /\ Runs(m)
  BY Client0 DEF ClientReceives
<1>2. p \in Answer(A) /\ in \in Seq(Answer(A))
  BY <1>1
<1>3. \/ cl[m].st = "INIT_SELECTING" /\ GetsOffer(m, p, in)
      \/ GetsAck(m, p, in)
      \/ GetsNak(m, in)
      \/ Quiet(m, in) /\ UNCHANGED <<cl, conf>>
  BY DEF ClientReceives, Awaits
<1> HIDE DEF p, in
<1>4. CASE cl[m].st = "INIT_SELECTING" /\ GetsOffer(m, p, in)
  BY <1>2, <1>4, GetsOfferStep
<1>5. CASE GetsAck(m, p, in)
  <2>1. Declines(m, p, in) \/ Accepts(m, p, in)
    BY <1>5 DEF GetsAck
  <2> QED
    BY <1>1, <1>2, <2>1, DeclinesStep, AcceptsStep
<1>6. CASE GetsNak(m, in)
  BY <1>1, <1>2, <1>6, GetsNakStep
<1>7. CASE Quiet(m, in) /\ UNCHANGED <<cl, conf>>
  <2>1. Lands(m, cl[m], conf[m], in)
    BY <1>7, Unread, Zenon DEF Before, Typed, Lands
  <2> QED
    BY <1>2, <2>1, Client0, Landing DEF Before, Sound
<1> QED
  BY <1>3, <1>4, <1>5, <1>6, <1>7

(* udhcpc is started: the address it wishes for may be new.                *)
LEMMA ClientStartStep ==
  ASSUME NEW A, Before(A), NEW m \in Macs, ClientStart(m)
  PROVE  IInv'
<1>1. PICK ip : Becomes(m, Started(ip))
  BY DEF ClientStart
<1> DEFINE B == A \cup {ip}
<1>2. Before(B)
  BY TypedGrows DEF Before
<1>3. ip \in B
  OBVIOUS
<1> HIDE DEF B
<1>4. "INIT_SELECTING" \in States /\ "INIT_SELECTING" \notin Leased
  BY DEF States, Leased
<1>5. Started(ip) \in ClientRecord(B) /\ Started(ip).st = "INIT_SELECTING"
  BY <1>3, <1>4, FreshRecord DEF Started
<1>6. Lands(m, Started(ip), NoIp, toClient[m])
  BY <1>1, Unread, Zenon DEF ClientStart, Lands, Becomes, Deconfig, Configures
<1>7. toClient[m] \in Seq(Answer(B)) /\ NoIp \in B
  BY <1>2, Client0
<1> QED
  BY <1>2, <1>4, <1>5, <1>6, <1>7, LandsUnleased

(* Any step of a client.                                                   *)
LEMMA ClientStep ==
  ASSUME NEW A, Before(A), NEW m \in Macs, Client(m)
  PROVE  IInv'
BY TimeoutStep, ClientReceivesStep, ClientStartStep, SigUsr1Step, SigUsr2Step, QuitStep, Client0
   DEF Client, Signal

----------------------------------------------------------------------------
(* The other steps *)

(* Honoured is about the clients and their addresses.                      *)
LEMMA Untouched ==
  ASSUME Honoured, UNCHANGED <<cl, conf>>
  PROVE  Honoured'
BY DEF Honoured, Times, Entitled

(* select_lease_time() returns a time.                                     *)
LEMMA LeaseTime ==
  ASSUME Asked, NEW m \in Macs
  PROVE  select_lease_time(m) \in Nat
<1>1. opts.asks[m] \in Nat /\ MinLease \in Nat /\ MaxLease \in Nat
  BY ServerAssumption DEF Asked
<1> QED
  BY <1>1 DEF select_lease_time

(* An answer of the server, whatever its address.                          *)
LEMMA ReplySent ==
  ASSUME NEW A, Typed(A), NEW m \in Macs, NEW type, NEW addr, NEW time \in Nat, NEW p,
         Sends(m, Reply(type, addr, time, p)), UNCHANGED <<cl, conf>>
  PROVE  \E B : Typed(B)'
<1> DEFINE B == A \cup {type, addr, p.own}
           r == Reply(type, addr, time, p)
<1>1. Typed(B)
  BY TypedGrows
<1>2. r \in Answer(B)
  <2>1. 0 \in A
    BY DEF Typed
  <2> QED
    BY <2>1 DEF Reply, Answer
<1> HIDE DEF B, r
<1>3. toClient[m] \in Seq(Answer(B))
  BY <1>1 DEF Typed
<1>4. Queued(toClient[m], r) \in Seq(Answer(B))
  BY <1>2, <1>3 DEF Queued
<1>5. toClient' = [toClient EXCEPT ![m] = Queued(toClient[m], r)]
  BY DEF Sends, r
<1>6. Typed(B)'
  BY <1>1, <1>4, <1>5, Zenon DEF Typed
<1> QED
  BY <1>6

(* What udhcpd may send: at most one answer.                               *)
LEMMA ServerSends ==
  ASSUME Asked, NEW m \in Macs, ServerReceives(m) \/ CrashInAck(m)
  PROVE  \/ UNCHANGED toClient
         \/ \E type, addr, p : \E time \in Nat : Sends(m, Reply(type, addr, time, p))
<1> DEFINE p == Head(toServer[m])
           Answers == \E type, addr, pp : \E time \in Nat : Sends(m, Reply(type, addr, time, pp))
<1>1. select_lease_time(m) \in Nat /\ 0 \in Nat
  BY LeaseTime
<1>2. ASSUME NEW ip, send_ACK(m, p, ip) PROVE Answers
  BY <1>1, <1>2 DEF send_ACK
<1>3. CASE HandleRequest(m, p)
  BY <1>1, <1>2, <1>3 DEF HandleRequest
<1>4. CASE send_offer(m, p)
  BY <1>1, <1>4, SMTT(30) DEF send_offer
<1>5. CASE CrashInAck(m)
  BY <1>1, <1>5 DEF CrashInAck
<1> QED
  BY <1>3, <1>4, <1>5 DEF ServerReceives

(* The server answering a packet, or dying while it does.                   *)
LEMMA ServerStep ==
  ASSUME NEW A, Typed(A), Asked, NEW m \in Macs, ServerReceives(m) \/ CrashInAck(m),
         UNCHANGED cl
  PROVE  \E B : Typed(B)'
<1>1. UNCHANGED conf
  BY DEF ServerReceives, CrashInAck
<1>2. CASE UNCHANGED toClient
  BY <1>1, <1>2, Zenon DEF Typed
<1>3. CASE \E type, addr, p : \E time \in Nat : Sends(m, Reply(type, addr, time, p))
  BY <1>1, <1>3, ReplySent
<1> QED
  BY <1>2, <1>3, ServerSends, SMTT(30)

(* A packet is lost.                                                       *)
LEMMA LoseStep ==
  ASSUME NEW A, Typed(A), NEW m \in Macs, Lose(m), UNCHANGED cl
  PROVE  Typed(A)'
<1>1. toClient[m] \in Seq(Answer(A))
  BY DEF Typed
<1>2. \/ UNCHANGED toClient
      \/ toClient[m] # <<>> /\ toClient' = [toClient EXCEPT ![m] = Tail(@)]
  BY DEF Lose
<1>3. UNCHANGED conf
  BY DEF Lose
<1>4. CASE UNCHANGED toClient
  BY <1>3, <1>4, Zenon DEF Typed
<1>5. CASE toClient[m] # <<>> /\ toClient' = [toClient EXCEPT ![m] = Tail(@)]
  <2>1. Tail(toClient[m]) \in Seq(Answer(A))
    BY <1>1, <1>5
  <2>2. toClient' \in [Macs -> Seq(Answer(A))]
    BY <1>5, <2>1 DEF Typed
  <2> QED
    BY <1>3, <2>2, Zenon DEF Typed
<1> QED
  BY <1>2, <1>4, <1>5

(* A tick for a client: the timer and the lease go down together.          *)
LEMMA AgedRecord ==
  ASSUME NEW A, NEW c \in ClientRecord(A)
  PROVE  /\ ClientAged(c) \in ClientRecord(A)
         /\ ClientAged(c).st = c.st /\ ClientAged(c).ip = c.ip
         /\ ClientAged(c).tmo = (IF c.tmo > 0 THEN c.tmo - 1 ELSE c.tmo)
         /\ ClientAged(c).rem = (IF c.rem > 0 THEN c.rem - 1 ELSE 0)
<1>1. c.tmo \in Int /\ c.rem \in Nat
  BY DEF ClientRecord
<1>2. PICK t \in Int, r \in Nat :
        /\ t = (IF c.tmo > 0 THEN c.tmo - 1 ELSE c.tmo)
        /\ r = (IF c.rem > 0 THEN c.rem - 1 ELSE 0)
  BY <1>1
<1>3. ClientAged(c) = [c EXCEPT !.tmo = t, !.rem = r]
  BY <1>2 DEF ClientAged
<1>4. /\ ClientAged(c) \in ClientRecord(A)
      /\ ClientAged(c).st = c.st /\ ClientAged(c).ip = c.ip
      /\ ClientAged(c).tmo = t /\ ClientAged(c).rem = r
  BY <1>3, Zenon DEF ClientRecord
<1> QED
  BY <1>2, <1>4

(* ... so that a lease outlasts its timer still.                           *)
LEMMA AgedTimes ==
  ASSUME NEW A, NEW c \in ClientRecord(A), c.st # "exited", c.tmo # 0, Times(c),
         NEW i, Entitled(c, i)
  PROVE  Times(ClientAged(c)) /\ Entitled(ClientAged(c), i)
<1>1. c.tmo \in Int /\ c.rem \in Nat
  BY DEF ClientRecord
<1>2. PICK d : d = ClientAged(c)
  OBVIOUS
<1>3. /\ d.st = c.st /\ d.ip = c.ip
      /\ d.tmo = (IF c.tmo > 0 THEN c.tmo - 1 ELSE c.tmo)
      /\ d.rem = (IF c.rem > 0 THEN c.rem - 1 ELSE 0)
  BY <1>2, AgedRecord
<1>4. Entitled(d, i)
  BY <1>3 DEF Entitled
<1>5. Times(d)
  BY <1>1, <1>3 DEF Times, Leased
<1> QED
  BY <1>2, <1>4, <1>5

(* Packets grow older.                                                     *)
LEMMA AgedSeq ==
  ASSUME NEW A, NEW q \in Seq(Answer(A))
  PROVE  Aged(q) \in Seq(Answer(A \cup {a + 1 : a \in A}))
<1> DEFINE B == A \cup {a + 1 : a \in A}
<1>1. ASSUME NEW r \in Answer(A) PROVE [r EXCEPT !.age = @ + 1] \in Answer(B)
  <2>1. PICK v : v = r.age + 1
    OBVIOUS
  <2>2. v \in B /\ A \subseteq B
    BY <2>1 DEF Answer
  <2>3. [r EXCEPT !.age = @ + 1] = [r EXCEPT !.age = v]
    BY <2>1
  <2> HIDE DEF B
  <2>4. [r EXCEPT !.age = v] \in Answer(B)
    BY <2>2 DEF Answer
  <2> QED
    BY <2>3, <2>4
<1> HIDE DEF B
<1>2. DOMAIN q = 1..Len(q) /\ Len(q) \in Nat /\ \A i \in 1..Len(q) : q[i] \in Answer(A)
  OBVIOUS
<1>3. \A i \in 1..Len(q) : [q[i] EXCEPT !.age = @ + 1] \in Answer(B)
  BY <1>1, <1>2
<1>4. [i \in 1..Len(q) |-> [q[i] EXCEPT !.age = @ + 1]] \in [1..Len(q) -> Answer(B)]
  BY <1>3
<1>5. Aged(q) \in Seq(Answer(B))
  BY <1>2, <1>4 DEF Aged
<1> QED
  BY <1>5 DEF B

(* Time passes.                                                             *)
LEMMA TickStep ==
  ASSUME NEW A, Typed(A), Honoured, Tick
  PROVE  (\E B : Typed(B)') /\ Honoured'
<1> DEFINE B == A \cup {a + 1 : a \in A}
<1>1. Typed(B)
  BY TypedGrows
<1>2. \A m \in Macs : Aged(toClient[m]) \in Seq(Answer(B))
  BY AgedSeq DEF Typed
<1> HIDE DEF B
<1>3. toClient' \in [Macs -> Seq(Answer(B))] /\ UNCHANGED conf
  BY <1>2 DEF Tick
<1>4. \A m \in Macs : cl[m] \in ClientRecord(B)
  BY <1>1 DEF Typed
<1>5. \A m \in Macs : cl'[m] = IF Runs(m) THEN ClientAged(cl[m]) ELSE cl[m]
  BY DEF Tick
<1>6. cl' \in [Macs -> ClientRecord(B)]
  BY <1>4, AgedRecord DEF Tick
<1>7. Typed(B)'
  BY <1>1, <1>3, <1>6, Zenon DEF Typed
<1>8. ASSUME NEW m \in Macs PROVE Times(cl'[m]) /\ Entitled(cl'[m], conf'[m])
  <2>1. Times(cl[m]) /\ Entitled(cl[m], conf[m]) /\ conf'[m] = conf[m]
    BY <1>3 DEF Honoured
  <2>2. CASE ~Runs(m)
    BY <1>5, <2>1, <2>2
  <2>3. CASE Runs(m)
    <3>1. cl[m].tmo # 0 /\ cl[m].st # "exited" /\ cl'[m] = ClientAged(cl[m])
      BY <1>5, <2>3 DEF Tick, Runs
    <3> QED
      BY <1>4, <2>1, <3>1, AgedTimes
  <2> QED
    BY <2>2, <2>3
<1>9. Honoured'
  BY <1>8 DEF Honoured, Times, Entitled
<1> QED
  BY <1>7, <1>9

(* Every step keeps the invariant.                                         *)
LEMMA Kept ==
  ASSUME IInv, [Next]_vars
  PROVE  IInv'
<1>1. PICK A : Typed(A)
  BY DEF IInv
<1>2. Asked /\ Honoured
  BY DEF IInv
<1>3. ASSUME opts' = [opts EXCEPT !.stops = @ - 1] PROVE Asked'
  BY <1>2, <1>3 DEF Asked
<1>4. ASSUME UNCHANGED opts PROVE Asked'
  BY <1>2, <1>4 DEF Asked
<1>5. CASE \E m \in Macs : Client(m) /\ UNCHANGED <<serverVars, opts>>
  BY <1>1, <1>2, <1>5, ClientStep DEF Before
<1>6. CASE \E m \in Macs : ServerReceives(m) /\ UNCHANGED <<cl, opts>>
  <2>1. PICK m \in Macs : ServerReceives(m) /\ UNCHANGED <<cl, opts>>
    BY <1>6
  <2>2. UNCHANGED conf
    BY <2>1 DEF ServerReceives
  <2> QED
    BY <1>1, <1>2, <1>4, <2>1, <2>2, ServerStep, Untouched DEF IInv
<1>7. CASE \E m \in Macs : Lose(m) /\ UNCHANGED <<serverVars, cl, opts>>
  <2>1. PICK m \in Macs : Lose(m) /\ UNCHANGED <<serverVars, cl, opts>>
    BY <1>7
  <2>2. UNCHANGED conf
    BY <2>1 DEF Lose
  <2> QED
    BY <1>1, <1>2, <1>4, <2>1, <2>2, LoseStep, Untouched DEF IInv
<1>8. CASE Server /\ UNCHANGED <<wire, cl>>
  <2>1. Typed(A)'
    BY <1>1, <1>8, Zenon DEF wire, Typed
  <2>2. Asked'
    BY <1>3, <1>4, <1>8 DEF Server
  <2> QED
    BY <1>2, <1>8, <2>1, <2>2, Untouched DEF wire, IInv
<1>9. CASE /\ \E m \in Macs : CrashInAck(m)
           /\ opts' = [opts EXCEPT !.stops = @ - 1] /\ UNCHANGED cl
  <2>1. PICK m \in Macs : CrashInAck(m)
    BY <1>9
  <2>2. UNCHANGED conf
    BY <2>1 DEF CrashInAck
  <2> QED
    BY <1>1, <1>2, <1>3, <1>9, <2>1, <2>2, ServerStep, Untouched DEF IInv
<1>10. CASE Tick
  <2>1. UNCHANGED opts
    BY <1>10 DEF Tick
  <2> QED
    BY <1>1, <1>2, <1>4, <1>10, <2>1, TickStep DEF IInv
<1>11. CASE UNCHANGED vars
  <2>1. Typed(A)'
    BY <1>1, <1>11, Zenon DEF vars, Typed
  <2> QED
    BY <1>2, <1>4, <1>11, <2>1, Untouched DEF vars, IInv
<1> QED
  BY <1>5, <1>6, <1>7, <1>8, <1>9, <1>10, <1>11 DEF Next

(* It holds at first.                                                      *)
LEMMA Initially ==
  ASSUME Init
  PROVE  IInv
<1> DEFINE A == {NoIp, FALSE, "offer", "ack", "nak", 0}
<1>1. NoIp \in A
  OBVIOUS
<1> HIDE DEF A
<1>2. Exited \in ClientRecord(A) /\ Exited.st = "exited"
  BY <1>1, ExitedRecord
<1>3. cl \in [Macs -> ClientRecord(A)] /\ conf \in [Macs -> A]
  BY <1>1, <1>2 DEF Init, ClientInit
<1>4. <<>> \in Seq(Answer(A))
  OBVIOUS
<1>5. toClient \in [Macs -> Seq(Answer(A))]
  BY <1>4 DEF Init
<1>6. Typed(A)
  BY <1>3, <1>5, Zenon DEF Typed, A
<1>7. Asked
  BY OptionsAssumption DEF Init, Asked
<1>8. \A m \in Macs : cl[m].st = "exited"
  BY <1>2 DEF Init, ClientInit
<1>9. Honoured
  BY <1>8 DEF Honoured, Times, Entitled, Leased
<1> QED
  BY <1>6, <1>7, <1>9 DEF IInv

(* No client uses an address that it does not renew, nor any longer than   *)
(* its lease: for all numbers of clients, times and options, with packets  *)
(* lost, late and answered by whatever address, udhcpd restarted at any    *)
(* point, and signals between any two events of udhcpc.                    *)
THEOREM LeaseIsHonoured == Spec => []LeaseHonoured
<1>1. ASSUME IInv PROVE LeaseHonoured
  <2> SUFFICES ASSUME NEW m \in Macs, Runs(m), conf[m] # NoIp
               PROVE  /\ cl[m].st \in Leased /\ conf[m] = cl[m].ip
                      /\ cl[m].rem > 0 \/ cl[m].tmo = 0
    BY DEF LeaseHonoured
  <2>1. PICK A : Typed(A)
    BY <1>1 DEF IInv
  <2>2. cl[m].tmo \in Int /\ cl[m].rem \in Nat
    BY <2>1 DEF Typed, ClientRecord
  <2>3. cl[m].st \in Leased /\ conf[m] = cl[m].ip
    BY <1>1 DEF IInv, Honoured, Entitled, Runs
  <2>4. 0 <= cl[m].tmo /\ cl[m].tmo <= cl[m].rem
    BY <1>1, <2>3 DEF IInv, Honoured, Times
  <2> QED
    BY <2>2, <2>3, <2>4
<1> QED
  BY <1>1, Initially, Kept, PTL DEF Spec

----------------------------------------------------------------------------
(* The table *)

(* Neither an address nor a client is on two rows.                         *)
Single(t) ==
  \A i, j \in Slots : i # j =>
    /\ t[i].ip # NoIp => t[i].ip # t[j].ip
    /\ t[i].mac # NoMac => t[i].mac # t[j].mac

(* add_lease() keeps it so, for a client (or nobody, after a conflict) and *)
(* any table: it is what offers, acknowledgements, conflicts and the       *)
(* reading of the lease file all go through.                               *)
THEOREM AddLeaseKeepsSingle ==
  ASSUME NEW t, Single(t), NEW chaddr, NEW ip, ip # NoIp, NEW time
  PROVE  Single(add_lease(t, chaddr, ip, time))
<1> DEFINE s == SlotFor(t, chaddr, ip)
           mac == IF chaddr = Null THEN NoMac ELSE chaddr
           c == clear_leases(t, chaddr, ip)
           new == [mac |-> mac, ip |-> ip, exp |-> time]
           n == add_lease(t, chaddr, ip, time)
<1>1. Empty.mac = NoMac /\ Empty.ip = NoIp
  BY DEF Empty
<1>2. \A i \in Slots : c[i] = Empty \/ (c[i] = t[i] /\ t[i].mac # chaddr /\ t[i].ip # ip)
  BY DEF clear_leases
<1>3. \A i \in Slots : n[i] = IF i = s THEN new ELSE c[i]
  BY DEF add_lease
<1>4. new.mac = mac /\ new.ip = ip /\ (mac = NoMac \/ mac = chaddr)
  OBVIOUS
<1> HIDE DEF s, mac, c, new, n
<1>5. \A i \in Slots : /\ c[i].ip # ip
                       /\ c[i].mac # chaddr \/ c[i].mac = NoMac
                       /\ c[i].ip = t[i].ip \/ c[i].ip = NoIp
                       /\ c[i].mac = t[i].mac \/ c[i].mac = NoMac
  BY <1>1, <1>2
<1> SUFFICES ASSUME NEW i \in Slots, NEW j \in Slots, i # j
             PROVE  /\ n[i].ip # NoIp => n[i].ip # n[j].ip
                    /\ n[i].mac # NoMac => n[i].mac # n[j].mac
  BY DEF Single, n
<1>6. CASE i = s
  BY <1>3, <1>4, <1>5, <1>6
<1>7. CASE j = s
  BY <1>3, <1>4, <1>5, <1>7
<1>8. CASE i # s /\ j # s
  BY <1>3, <1>5, <1>8 DEF Single
<1> QED
  BY <1>6, <1>7, <1>8

=============================================================================
