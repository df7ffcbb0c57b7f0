-------------------------------- MODULE Dhcp --------------------------------
(***************************************************************************)
(* udhcpd and its clients together, and what they owe to each other.       *)
(***************************************************************************)
EXTENDS Dhcpd, Dhcpc

(* opts: start, end and max_leases of udhcpd.conf; statics and asks, see   *)
(* Dhcpd; others, addresses of hosts that have them otherwise; delay, how  *)
(* long packets may be under way; early, FEATURE_UDHCPD_WRITE_LEASES_EARLY;*)
(* clients that are started, their flags (a, n, q, R) and the addresses    *)
(* (-r) they may wish for; signals, the clients that get some; server,     *)
(* what may happen to udhcpd, and stops, how often.                        *)
CONSTANT Options

ASSUME OptionsAssumption ==
  \A o \in Options : {"asks", "stops"} \subseteq DOMAIN o /\ o.asks \in [Macs -> Nat]

vars == <<toServer, toClient, conf, serverVars, cl, opts>>
wire == <<toServer, toClient, conf>>

Init ==
  /\ toServer = [m \in Macs |-> <<>>] /\ toClient = [m \in Macs |-> <<>>]
  /\ conf = [m \in Macs |-> NoIp]
  /\ opts \in Options
  /\ ServerInit /\ ClientInit

(* A tick: clients that have something to do have done it, and packets     *)
(* that have been under way for opts.delay have arrived or are lost.       *)
Tick ==
  /\ \A m \in Macs : Runs(m) => cl[m].tmo # 0
  /\ \A m \in Macs : Timely(toServer[m]) /\ Timely(toClient[m])
  /\ toServer' = [m \in Macs |-> Aged(toServer[m])]
  /\ toClient' = [m \in Macs |-> Aged(toClient[m])]
  /\ cl' = [m \in Macs |-> IF Runs(m) THEN ClientAged(cl[m]) ELSE cl[m]]
  /\ leases' = TableAged(leases)
  /\ file' = [file EXCEPT !.age = IF @ > FileLife THEN @ ELSE @ + 1]
  /\ UNCHANGED <<conf, up, opts>>

Client(m) ==
  Timeout(m) \/ ClientReceives(m) \/ (m \in opts.clients /\ ClientStart(m)) \/ (m \in opts.signals /\ Signal(m))

Server ==
  \/ /\ \/ "save" \in opts.server /\ SaveLeases
        \/ "term" \in opts.server /\ ServerTerm
        \/ "crash" \in opts.server /\ ServerCrash
     /\ opts.stops > 0 /\ opts' = [opts EXCEPT !.stops = @ - 1]
  \/ ServerStart /\ UNCHANGED opts

Next ==
  \/ \E m \in Macs : Client(m) /\ UNCHANGED <<serverVars, opts>>
  \/ \E m \in Macs : ServerReceives(m) /\ UNCHANGED <<cl, opts>>
  \/ \E m \in Macs : Lose(m) /\ UNCHANGED <<serverVars, cl, opts>>
  \/ Server /\ UNCHANGED <<wire, cl>>
  \/ /\ "ack" \in opts.server /\ opts.stops > 0
     /\ \E m \in Macs : CrashInAck(m)
     /\ opts' = [opts EXCEPT !.stops = @ - 1] /\ UNCHANGED cl
  \/ Tick

Spec == Init /\ [][Next]_vars

(* udhcpc and udhcpd take their steps, time goes on, no packet is under    *)
(* way for ever, and of the packets of one kind not all are lost.          *)
Arrives(m, type) ==
  \/ /\ toServer[m] # <<>> /\ Head(toServer[m]).type = type
     /\ ServerReceives(m) /\ UNCHANGED <<cl, opts>>
  \/ /\ toClient[m] # <<>> /\ Head(toClient[m]).type = type
     /\ ClientReceives(m) /\ UNCHANGED <<serverVars, opts>>
Fairness ==
  /\ SF_vars(Tick)
  /\ WF_vars(ServerStart /\ UNCHANGED <<wire, cl, opts>>)
  /\ \A m \in Macs :
       /\ WF_vars(Timeout(m) /\ UNCHANGED <<serverVars, opts>>)
       /\ WF_vars(~(Timely(toServer[m]) /\ Timely(toClient[m])) /\ Lose(m)
                   /\ UNCHANGED <<serverVars, cl, opts>>)
       /\ \A type \in {"discover", "offer", "request", "ack", "decline"} : SF_vars(Arrives(m, type))
FairSpec == Spec /\ Fairness

----------------------------------------------------------------------------
(* What holds *)

ServerTypeOK ==
  /\ up \in BOOLEAN
  /\ leases \in [Slots -> [mac : Macs \cup {NoMac}, ip : Ips \cup {NoIp}, exp : Never..MaxLease]]
  /\ file.age \in 0..(FileLife + 1) /\ Len(file.records) <= opts.max_leases
ClientTypeOK ==
  \A m \in Macs :
    /\ cl[m].st \in Leased \cup {"INIT_SELECTING", "REQUESTING", "RELEASED", "exited"}
    /\ cl[m].ip \in Ips \cup {NoIp} /\ conf[m] \in Ips \cup {NoIp}
    /\ cl[m].tmo \in Forever..MaxLease /\ cl[m].rem \in 0..(MaxLease + Enough)
    /\ cl[m].pn \in Nat /\ cl[m].lis \in {"NONE", "KERNEL", "RAW"} /\ cl[m].firm \in BOOLEAN
TypeOK ==
  /\ opts \in Options \cup {[o EXCEPT !.stops = s] : o \in Options, s \in 0..1}
  /\ ServerTypeOK /\ ClientTypeOK
  /\ \A m \in Macs : Len(toServer[m]) <= MaxQueue /\ Len(toClient[m]) <= MaxQueue

Dynamic(m) == Runs(m) /\ m \notin DOMAIN Statics /\ conf[m] # NoIp

(* Where the lease file of udhcpd has what it promised: it is rewritten    *)
(* before each crash, no crash falls between the ACK and the file          *)
(* (dhcpd.c:839-848), and where udhcpd may be down, no lease outlasts the  *)
(* age at which read_leases() passes over the file (dhcpd.c:526).          *)
Stoppable == {"term", "crash"} \cap opts.server # {}
Durable ==
  /\ "ack" \notin opts.server /\ ("crash" \in opts.server => opts.early)
  /\ Stoppable => \A m \in Macs : select_lease_time(m) <= FileLife

(* No two clients that run have configured the same address: not with      *)
(* packets lost, late or of an earlier transaction, with leases that run   *)
(* out while one renews them, after a release, nor, as far as the file is  *)
(* Durable, after a restart of udhcpd.  (With leases of more than 12 hours *)
(* a restart after 12 hours hands a running lease out again.)              *)
Unshared == \A m, n \in {k \in Macs : Runs(k)} : m # n /\ conf[m] # NoIp => conf[m] # conf[n]
NoSharing == Durable => Unshared

(* What udhcpd knows, or will know when it is started.                     *)
Known == IF up THEN leases ELSE TableRead

(* The address that a client uses is recorded for it and for no shorter    *)
(* time than it means to use it, up to the delay of a packet; while udhcpd *)
(* is down, the lease file has it and is not too old to be read: it is     *)
(* Durable.  The record that add_lease() makes before the client knows of  *)
(* it is never cleared or aged out under it.                               *)
OnRecord ==
  Durable => \A m \in Macs : Dynamic(m) =>
    \E i \in Slots :
      Known[i].mac = m /\ Known[i].ip = conf[m] /\ Known[i].exp >= cl[m].rem - opts.delay

(* Only a client with a lease has an address: the one it renews, and not a *)
(* moment longer than the lease lasts (dhcpc.c:1486-1548).                 *)
LeaseHonoured ==
  \A m \in Macs : Runs(m) /\ conf[m] # NoIp =>
    cl[m].st \in Leased /\ conf[m] = cl[m].ip /\ (cl[m].rem > 0 \/ cl[m].tmo = 0)

(* The comment on clear_leases() says "Clear out all leases with matching  *)
(* nonzero chaddr OR yiaddr" (dhcpd.c:155), and udhcpd.conf:17 that a      *)
(* declined address "will be reserved (leased to nobody)" for its time:    *)
(* then a start takes over all addresses in the file that are reserved.    *)
DeclinesKept ==
  [][~up /\ up' /\ file.age <= FileLife =>
       \A k \in DOMAIN file.records :
         file.records[k].mac = NoMac /\ file.records[k].left > file.age =>
           \E i \in Slots : leases'[i].ip = file.records[k].ip]_vars

(* The comment "is this a static lease addr?" (dhcpd.c:307) keeps the      *)
(* static addresses from other clients; the address that a client asks for *)
(* is not looked up there.                                                 *)
StaticsKept ==
  \A m \in Macs, n \in DOMAIN Statics : m # n /\ Runs(m) => conf[m] # Statics[n]

(* The usage of -R says "Release IP on exit" (dhcpc.c:1173): so a client   *)
(* that takes an ACK and leaves (-q) tells the server.                     *)
ReleasedOnExit ==
  [][\A m \in Macs :
       "R" \in opts.flags[m] /\ cl[m].st = "REQUESTING" /\ cl'[m].st = "exited"
         /\ toClient'[m] # toClient[m] /\ toServer[m] = <<>> => toServer'[m] # <<>>]_vars

(* There are addresses, and rows of the table, for all clients.            *)
Room ==
  LET taken == opts.others \cup {Statics[m] : m \in DOMAIN Statics}
  IN  /\ Cardinality(Pool \ taken) >= Cardinality(opts.clients \ DOMAIN Statics)
      /\ opts.max_leases >= Cardinality(opts.clients) + Cardinality(opts.others \cap Pool)

(* A client that nobody signals gets an address, and gets one again when   *)
(* it lost it, whatever becomes of udhcpd in between: retries, NAKs,       *)
(* declines and restarts never leave it without one for ever, if there is  *)
(* one for it and packets come within their time.                          *)
Served ==
  opts.signals = {} /\ opts.delay = 0 /\ Room =>
    \A m \in Macs : []<>(~Runs(m) \/ conf[m] # NoIp)

=============================================================================
