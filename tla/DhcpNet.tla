------------------------------ MODULE DhcpNet ------------------------------
(***************************************************************************)
(* The wire between udhcpd and its clients (networking/udhcp): what        *)
(* init_packet() and the send_... functions of both sides put into a       *)
(* packet, one lossy queue per client and direction, and the addresses the *)
(* hosts have configured, for which they answer ARP.                       *)
(*                                                                         *)
(* Time goes in ticks of discover_timeout, 3 seconds by default.           *)
(***************************************************************************)
EXTENDS Integers, Sequences, FiniteSets

CONSTANTS
  Macs,      \* the clients
  Ips,       \* addresses
  ServerIp,  \* server_nip
  MaxQueue   \* packets under way per client and direction

NoIp == 0

ASSUME NetAssumption ==
  Ips \subseteq Nat \ {0} /\ ServerIp \in Ips /\ MaxQueue \in Nat

VARIABLES
  opts,      \* how the programs are used, and what happens to them: see Dhcp
  toServer,  \* toServer[m]: packets from client m to the server
  toClient,  \* toClient[m]: packets from the server to client m
  conf       \* conf[m]: the address that the script configured, or NoIp

(* A packet of a client has req, the option DHCP_REQUESTED_IP, addr, which *)
(* is ciaddr, and sid, whether it names the server; one of the server has  *)
(* addr, which is yiaddr, and time, the option DHCP_LEASE_TIME.  own: its  *)
(* xid is the present xid of the client.                                   *)
Request(type, req, addr, sid) ==
  [type |-> type, req |-> req, addr |-> addr, sid |-> sid, own |-> TRUE, age |-> 0]
Reply(type, addr, time, p) ==
  [type |-> type, addr |-> addr, time |-> time, own |-> p.own, age |-> 0]

(* A packet that finds the queue full is lost.                             *)
Queued(q, p) == IF Len(q) < MaxQueue THEN Append(q, p) ELSE q

(* random_xid(): packets under way belong to an earlier transaction.       *)
Disowned(q) == [i \in DOMAIN q |-> [q[i] EXCEPT !.own = FALSE]]

Aged(q) == [i \in DOMAIN q |-> [q[i] EXCEPT !.age = @ + 1]]

(* Queues that have delivered what has to be delivered in this tick.       *)
Timely(q) == \A i \in DOMAIN q : q[i].age < opts.delay

Lose(m) ==
  /\ \/ toServer[m] # <<>> /\ toServer' = [toServer EXCEPT ![m] = Tail(@)] /\ UNCHANGED toClient
     \/ toClient[m] # <<>> /\ toClient' = [toClient EXCEPT ![m] = Tail(@)] /\ UNCHANGED toServer
  /\ UNCHANGED conf

(* Whether arpping() may come back with an answer for ip from another host *)
(* than safe_mac: an answer may be lost.                                   *)
ArpAnswers(ip, safe_mac) ==
  IF ip \in opts.others \/ \E m \in Macs \ {safe_mac} : conf[m] = ip THEN BOOLEAN ELSE {FALSE}

=============================================================================
