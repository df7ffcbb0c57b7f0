------------------------------- MODULE Dhcpd -------------------------------
(***************************************************************************)
(* udhcpd (networking/udhcp/dhcpd.c): the table of leases, the packets it  *)
(* answers, and the lease file that carries the table over a restart.      *)
(*                                                                         *)
(* Times are relative to now: a lease with exp >= 0 is running, one with   *)
(* exp < 0 has expired.  Of expired leases only the order matters to the   *)
(* code, so exp counts them from the one that expired last.                *)
(***************************************************************************)
EXTENDS DhcpNet

CONSTANTS
  MinLease, MaxLease, OfferTime, ConflictTime, DeclineTime,
  FileLife       \* 12 hours

(* The static_lease lines of udhcpd.conf: a function from clients to       *)
(* addresses.                                                              *)
Statics == opts.statics
NoMac == "zero"  \* six bytes of zero
Null == "null"   \* no MAC given

(* start_ip to end_ip of udhcpd.conf, and max_leases, which is at most as   *)
(* many.                                                                   *)
Pool == opts.start..opts.end
Slots == 1..opts.max_leases
Never == -(opts.max_leases + 1)
Empty == [mac |-> NoMac, ip |-> NoIp, exp |-> Never]

ASSUME ServerAssumption ==
  /\ {MinLease, MaxLease, OfferTime, ConflictTime, DeclineTime, FileLife} \subseteq Nat
  /\ NoMac \notin Macs /\ Null \notin Macs

VARIABLES
  up,        \* udhcpd runs
  leases,    \* g_leases
  file       \* the lease file: how long ago it was written, and its records

serverVars == <<up, leases, file>>

----------------------------------------------------------------------------
(* The table *)

get_static_nip_by_mac(mac) == IF mac \in DOMAIN Statics THEN Statics[mac] ELSE NoIp
is_nip_reserved_as_static(ip) == \E m \in DOMAIN Statics : Statics[m] = ip

Expired(l) == l.exp < 0
First(S) == CHOOSE i \in S : \A j \in S : i <= j
Last(S) == CHOOSE i \in S : \A j \in S : i >= j

(* The slot to use: the last empty one, or the first of the oldest expired *)
(* leases, or 0.                                                           *)
oldest_expired_lease(t) ==
  LET empty == {i \in Slots : t[i].exp = Never}
      oldest == {i \in Slots : Expired(t[i]) /\ \A j \in Slots : t[i].exp <= t[j].exp}
  IN  IF empty # {} THEN Last(empty) ELSE IF oldest # {} THEN First(oldest) ELSE 0

(* Mutant: the rows of other clients with the address stay.                *)
ClearLeasesOfClient(t, chaddr, ip) == [i \in Slots |-> IF t[i].mac = chaddr THEN Empty ELSE t[i]]
clear_leases(t, chaddr, ip) ==
  [i \in Slots |-> IF t[i].mac = chaddr \/ t[i].ip = ip THEN Empty ELSE t[i]]

(* The slot that a new lease gets, or 0, and the table with it.            *)
SlotFor(t, chaddr, ip) == oldest_expired_lease(clear_leases(t, chaddr, ip))
add_lease(t, chaddr, ip, leasetime) ==
  LET slot == SlotFor(t, chaddr, ip)
      mac == IF chaddr = Null THEN NoMac ELSE chaddr
  IN  [i \in Slots |-> IF i = slot THEN [mac |-> mac, ip |-> ip, exp |-> leasetime]
                       ELSE clear_leases(t, chaddr, ip)[i]]

FirstOrNone(S) == IF S = {} THEN 0 ELSE First(S)
find_lease_by_mac(t, mac) == FirstOrNone({i \in Slots : t[i].mac = mac})
find_lease_by_nip(t, ip) == FirstOrNone({i \in Slots : t[i].ip = ip})

(* Time passes for the table: running leases come closer to their end, and *)
(* expired ones are counted anew.                                          *)
TableAged(t) ==
  LET exp == [i \in Slots |-> t[i].exp - 1]
      after == {i \in Slots : exp[i] < 0 /\ t[i].exp # Never}
      rank(i) == Cardinality({exp[j] : j \in {k \in after : exp[k] > exp[i]}})
  IN  [i \in Slots |-> IF t[i].exp = Never THEN t[i]
                       ELSE IF exp[i] >= 0 THEN [t[i] EXCEPT !.exp = exp[i]]
                       ELSE [t[i] EXCEPT !.exp = -1 - rank(i)]]

----------------------------------------------------------------------------
(* Answers *)

(* One address of the search: conflict says where somebody answers ARP.    *)
(* oldest is a pointer into the table: a conflict that is entered on the   *)
(* way may overwrite what it points to.                                    *)
TryAddress(s, ip, conflict) ==
  LET slot == find_lease_by_nip(s.table, ip)
  IN  IF s.ip # NoIp \/ ip = ServerIp \/ is_nip_reserved_as_static(ip) THEN s
      ELSE IF slot = 0
      THEN IF conflict[ip] THEN [s EXCEPT !.table = add_lease(s.table, Null, ip, ConflictTime)]
           ELSE [s EXCEPT !.ip = ip]
      ELSE IF s.oldest = 0 \/ s.table[slot].exp < s.table[s.oldest].exp
      THEN [s EXCEPT !.oldest = slot]
      ELSE s

(* Returns the address found and the table after the search.               *)
find_free_or_expired_nip(t, conflict) ==
  LET tried[ip \in (opts.start - 1)..opts.end] ==
        IF ip < opts.start THEN [table |-> t, oldest |-> 0, ip |-> NoIp]
        ELSE TryAddress(tried[ip - 1], ip, conflict)
      s == tried[opts.end]
      l == s.table[s.oldest]
  IN  IF s.ip # NoIp \/ s.oldest = 0 \/ ~Expired(l) THEN s
      ELSE IF conflict[l.ip] THEN [s EXCEPT !.table = add_lease(s.table, Null, l.ip, ConflictTime)]
      ELSE [s EXCEPT !.ip = l.ip]

select_lease_time(m) ==
  LET asked == opts.asks[m]  \* -x lease:N of the client, or 0
  IN  IF asked = 0 \/ asked > MaxLease THEN MaxLease
      ELSE IF asked < MinLease THEN MinLease ELSE asked

(* The address for a DISCOVER of a client without a static one.            *)
Choice(m, p, conflict) ==
  LET mine == find_lease_by_mac(leases, m)
      held == find_lease_by_nip(leases, p.req)
      keep(ip) == [table |-> leases, ip |-> ip]
  IN  IF mine # 0 THEN keep(leases[mine].ip)
      ELSE IF p.req \in Pool /\ (held = 0 \/ Expired(leases[held])) THEN keep(p.req)
      ELSE find_free_or_expired_nip(leases, conflict)

Sends(m, r) == toClient' = [toClient EXCEPT ![m] = Queued(@, r)]

send_offer(m, p) ==
  \/ /\ m \in DOMAIN Statics
     /\ Sends(m, Reply("offer", Statics[m], select_lease_time(m), p))
     /\ UNCHANGED leases
  \/ /\ m \notin DOMAIN Statics
     /\ \E conflict \in {c \in [Pool -> BOOLEAN] : \A ip \in Pool : c[ip] \in ArpAnswers(ip, m)} :
        \E c \in {Choice(m, p, conflict)} :
          \/ c.ip = NoIp /\ leases' = c.table /\ UNCHANGED toClient
          \/ /\ c.ip # NoIp
             /\ leases' = add_lease(c.table, m, c.ip, OfferTime)
             /\ IF SlotFor(c.table, m, c.ip) = 0 THEN UNCHANGED toClient
                ELSE Sends(m, Reply("offer", c.ip, select_lease_time(m), p))

(* The records of the lease file.                                          *)
Records(t) ==
  LET left(l) == [mac |-> l.mac, ip |-> l.ip, left |-> IF l.exp < 0 THEN 0 ELSE l.exp]
      used == {i \in Slots : t[i].ip # NoIp}
      nth(k) == CHOOSE i \in used : Cardinality({j \in used : j <= i}) = k
  IN  [k \in 1..Cardinality(used) |-> left(t[nth(k)])]
write_leases(t) == file' = [age |-> 0, records |-> Records(t)]

(* The lease that main() looks up: the address, and where it is recorded.  *)
LeaseIp(m) ==
  LET nip == get_static_nip_by_mac(m)
      slot == find_lease_by_mac(leases, m)
  IN  IF nip # NoIp THEN nip ELSE IF slot # 0 THEN leases[slot].ip ELSE NoIp

send_ACK(m, p, ip) ==
  /\ Sends(m, Reply("ack", ip, select_lease_time(m), p))
  /\ leases' = add_lease(leases, m, ip, select_lease_time(m))
  /\ IF opts.early THEN write_leases(leases') ELSE UNCHANGED file

(* Mutant: any address that the client names is acknowledged.              *)
HandleRequestTrusting(m, p) ==
  send_ACK(m, p, IF p.req # NoIp THEN p.req ELSE p.addr)

HandleRequest(m, p) ==
  LET requested == IF p.req # NoIp THEN p.req ELSE p.addr
  IN  IF requested # NoIp /\ requested = LeaseIp(m) THEN send_ACK(m, p, requested)
      ELSE /\ IF requested # NoIp /\ (p.sid \/ p.req # NoIp)
              THEN Sends(m, Reply("nak", NoIp, 0, p)) ELSE UNCHANGED toClient
           /\ UNCHANGED <<leases, file>>

(* A static lease is a copy, which these change in vain.                   *)
HandleDecline(m, p) ==
  LET slot == find_lease_by_mac(leases, m)
  IN  IF m \notin DOMAIN Statics /\ p.sid /\ slot # 0 /\ p.req # NoIp /\ p.req = leases[slot].ip
      THEN leases' = [leases EXCEPT ![slot].mac = NoMac, ![slot].exp = DeclineTime]
      ELSE UNCHANGED leases

HandleRelease(m, p) ==
  LET slot == find_lease_by_mac(leases, m)
  IN  IF m \notin DOMAIN Statics /\ p.sid /\ slot # 0 /\ p.addr = leases[slot].ip
      THEN leases' = [leases EXCEPT ![slot].exp = 0]
      ELSE UNCHANGED leases

ServerReceives(m) ==
  /\ up /\ toServer[m] # <<>>
  /\ toServer' = [toServer EXCEPT ![m] = Tail(@)]
  /\ LET p == Head(toServer[m]) IN
     \/ p.type = "discover" /\ send_offer(m, p) /\ UNCHANGED file
     \/ p.type = "request" /\ HandleRequest(m, p)
     \/ p.type = "decline" /\ HandleDecline(m, p) /\ UNCHANGED <<file, toClient>>
     \/ p.type = "release" /\ HandleRelease(m, p) /\ UNCHANGED <<file, toClient>>
  /\ UNCHANGED <<up, conf>>

----------------------------------------------------------------------------
(* Stop and start *)

(* auto_time is up, or SIGUSR1.                                            *)
SaveLeases == up /\ write_leases(leases) /\ UNCHANGED <<up, leases>>

(* SIGTERM.                                                                *)
ServerTerm ==
  /\ up /\ up' = FALSE
  /\ write_leases(leases)
  /\ leases' = [i \in Slots |-> Empty]

(* udhcpd is killed between two packets.  Its machine goes on, and with it *)
(* what write_leases() wrote, which is not forced to the disk.             *)
ServerCrash ==
  /\ up /\ up' = FALSE
  /\ leases' = [i \in Slots |-> Empty]
  /\ UNCHANGED file

(* It is killed when an ACK is sent but the lease file is not yet written: *)
(* the file may still be the old one, or cut off.                          *)
CrashInAck(m) ==
  /\ up /\ up' = FALSE
  /\ toServer[m] # <<>> /\ Head(toServer[m]).type = "request"
  /\ LET p == Head(toServer[m])
         requested == IF p.req # NoIp THEN p.req ELSE p.addr
     IN  requested # NoIp /\ requested = LeaseIp(m) /\ Sends(m, Reply("ack", requested, select_lease_time(m), p))
  /\ toServer' = [toServer EXCEPT ![m] = Tail(@)]
  /\ leases' = [i \in Slots |-> Empty]
  /\ file' \in {file, [age |-> 0, records |-> <<>>]}
  /\ UNCHANGED conf

(* read_leases(): add_lease() for each record until the table is full.     *)
TakeRecord(s, r) ==
  LET left == r.left - file.age
      lost == r.ip \notin Pool \/ r.mac \in DOMAIN Statics \/ is_nip_reserved_as_static(r.ip)
  IN  IF s.full \/ lost THEN s
      ELSE [table |-> add_lease(s.table, r.mac, r.ip, IF left <= 0 THEN 0 ELSE left),
            full |-> SlotFor(s.table, r.mac, r.ip) = 0]
TableRead ==
  LET taken[k \in 0..Len(file.records)] ==
        IF k = 0 THEN [table |-> [i \in Slots |-> Empty], full |-> FALSE]
        ELSE TakeRecord(taken[k - 1], file.records[k])
  IN  IF file.age > FileLife THEN taken[0].table ELSE taken[Len(file.records)].table

ServerStart ==
  /\ ~up /\ up' = TRUE
  /\ leases' = TableRead
  /\ UNCHANGED file

ServerInit ==
  /\ up = TRUE
  /\ leases = [i \in Slots |-> Empty]
  /\ file = [age |-> FileLife + 1, records |-> <<>>]

=============================================================================
