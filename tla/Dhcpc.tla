------------------------------- MODULE Dhcpc -------------------------------
(***************************************************************************)
(* udhcpc (networking/udhcp/dhcpc.c), one per client: the states of RFC    *)
(* 2131 with their timers, retries and signals.                            *)
(***************************************************************************)
EXTENDS DhcpNet

CONSTANTS
  Retries,   \* discover_retries (-t)
  TryAgain,  \* tryagain_timeout (-A)
  Enough     \* 30 seconds: the least lease time, and the least left to stay BOUND

(* INT_MAX seconds.                                                        *)
Forever == -1

ASSUME ClientAssumption ==
   {Retries, TryAgain, Enough} \subseteq Nat \ {0}

(* cl[m].st is client_data.state or "exited"; ip is requested_ip, tmo the  *)
(* timeout, rem lease_remaining, pn packet_num, lis the listen_mode, and   *)
(* firm says that -n is off, as it is after the first lease.               *)
VARIABLE cl

Leased == {"BOUND", "RENEWING", "RENEW_REQUESTED", "REBINDING"}
Runs(m) == cl[m].st # "exited"

Fresh(state, ip) ==
  [st |-> state, ip |-> ip, tmo |-> 0, rem |-> 0, pn |-> 0, lis |-> "NONE", firm |-> FALSE]
Started(ip) == Fresh("INIT_SELECTING", ip)
Exited == Fresh("exited", NoIp)

----------------------------------------------------------------------------
(* What a handler does to the client, its script and its packets *)

Becomes(m, c) == cl' = [cl EXCEPT ![m] = c]
Configures(m, ip) == conf' = [conf EXCEPT ![m] = ip]
Deconfig(m) == Configures(m, NoIp)

(* in: the packets for the client that it has not yet read.                *)
Queues(m, out, in) ==
  toServer' = [toServer EXCEPT ![m] = out] /\ toClient' = [toClient EXCEPT ![m] = in]
Quiet(m, in) == Queues(m, toServer[m], in)
Send(m, p, in) == Queues(m, Queued(toServer[m], p), in)

(* A packet with a new xid.                                                *)
SendAnew(m, p, in) == Queues(m, Queued(Disowned(toServer[m]), p), Disowned(in))

change_listen_mode(c, mode) == [c EXCEPT !.lis = mode]
Sent(c, state) == [c EXCEPT !.st = state, !.tmo = 1, !.pn = @ + 1]
HalfLease(c) == [c EXCEPT !.st = "BOUND", !.tmo = c.rem \div 2, !.pn = 0, !.lis = "NONE"]
(* Mutant: packet_num is not reset.                                        *)
RestartsCounting(c, tmo) == [c EXCEPT !.st = "INIT_SELECTING", !.tmo = tmo, !.lis = "NONE"]
Restarts(c, tmo) == [c EXCEPT !.st = "INIT_SELECTING", !.tmo = tmo, !.pn = 0, !.lis = "NONE"]
Forgets(c, tmo) == [Restarts(c, tmo) EXCEPT !.ip = NoIp]

perform_release(m, in) ==
  /\ IF cl[m].st \in Leased THEN SendAnew(m, Request("release", NoIp, cl[m].ip, TRUE), in)
     ELSE Quiet(m, in)
  /\ Deconfig(m)

----------------------------------------------------------------------------
(* The timeout of poll() *)

Discover(m) ==
  /\ cl[m].st = "INIT_SELECTING" /\ cl[m].pn < Retries
  /\ Becomes(m, change_listen_mode(Sent(cl[m], "INIT_SELECTING"), "RAW"))
  /\ LET p == Request("discover", cl[m].ip, NoIp, FALSE)
     IN  IF cl[m].pn = 0 THEN SendAnew(m, p, toClient[m]) ELSE Send(m, p, toClient[m])
  /\ UNCHANGED conf

Select(m) ==
  /\ cl[m].st = "REQUESTING" /\ cl[m].pn < 3
  /\ Becomes(m, Sent(cl[m], "REQUESTING"))
  /\ Send(m, Request("request", cl[m].ip, NoIp, TRUE), toClient[m])
  /\ UNCHANGED conf

leasefail(m) ==
  /\ \/ cl[m].st = "INIT_SELECTING" /\ cl[m].pn >= Retries
     \/ cl[m].st = "REQUESTING" /\ cl[m].pn >= 3
  /\ Becomes(m, IF "n" \in opts.flags[m] /\ ~cl[m].firm THEN Exited ELSE Restarts(cl[m], TryAgain))
  /\ Quiet(m, toClient[m]) /\ UNCHANGED conf

Renewal(c) == Request("request", NoIp, c.ip, FALSE)

(* state is RENEWING, or RENEW_REQUESTED after SIGUSR1.                    *)
Renew(m, c, state) ==
  /\ Becomes(m, change_listen_mode(Sent(c, state), "KERNEL"))
  /\ Send(m, Renewal(c), toClient[m])
  /\ UNCHANGED conf

Rebind(m, c) ==
  \/ /\ c.rem > 0 /\ c.pn < 3
     /\ Becomes(m, change_listen_mode(Sent(c, "REBINDING"), "RAW"))
     /\ Send(m, Renewal(c), toClient[m])
     /\ UNCHANGED conf
  \/ /\ c.rem = 0 \/ c.pn >= 3
     /\ Becomes(m, Restarts(c, 0))
     /\ Quiet(m, toClient[m]) /\ Deconfig(m)

(* There was no answer to the renewal, or sending it failed.               *)
NoResponse(m, c) ==
  \/ c.rem > Enough /\ Becomes(m, HalfLease(c)) /\ Quiet(m, toClient[m]) /\ UNCHANGED conf
  \/ c.rem <= Enough /\ Rebind(m, [c EXCEPT !.pn = 0])

Timeout(m) ==
  /\ Runs(m) /\ cl[m].tmo = 0
  /\ \/ Discover(m)
     \/ Select(m)
     \/ leasefail(m)
     \/ cl[m].st = "BOUND" /\ (Renew(m, cl[m], "RENEWING") \/ NoResponse(m, cl[m]))
     \/ cl[m].st \in {"RENEWING", "RENEW_REQUESTED"} /\ NoResponse(m, cl[m])
     \/ cl[m].st = "REBINDING" /\ Rebind(m, cl[m])

----------------------------------------------------------------------------
(* Signals; they are seen in poll() *)

(* It does not disturb the negotiation of a lease, nor REBINDING.          *)
SigUsr1(m) ==
  LET c == [cl[m] EXCEPT !.rem = IF @ > Enough THEN Enough ELSE @, !.pn = 0]
  IN  \/ /\ cl[m].st \in {"BOUND", "RENEWING"}
         /\ Renew(m, c, "RENEW_REQUESTED") \/ NoResponse(m, c)
      \/ /\ cl[m].st = "RENEW_REQUESTED"
         /\ Becomes(m, Restarts(c, 0)) /\ Quiet(m, toClient[m]) /\ Deconfig(m)
      \/ /\ cl[m].st = "RELEASED"
         /\ Becomes(m, Restarts(c, 0)) /\ Quiet(m, toClient[m]) /\ UNCHANGED conf

SigUsr2(m) ==
  /\ perform_release(m, toClient[m])
  /\ Becomes(m, [cl[m] EXCEPT !.st = "RELEASED", !.tmo = Forever, !.lis = "NONE"])

(* ret0: the address stays configured if it is not released.               *)
Quit(m, in) ==
  /\ IF "R" \in opts.flags[m] THEN perform_release(m, in) ELSE Quiet(m, in) /\ UNCHANGED conf
  /\ Becomes(m, Exited)

Signal(m) ==
  /\ Runs(m) /\ cl[m].tmo # 0
  /\ SigUsr1(m) \/ SigUsr2(m) \/ Quit(m, toClient[m])

----------------------------------------------------------------------------
(* Packets *)

GetsOffer(m, p, in) ==
  /\ Becomes(m, [cl[m] EXCEPT !.st = "REQUESTING", !.ip = p.addr, !.tmo = 0, !.pn = 0])
  /\ Quiet(m, in) /\ UNCHANGED conf

(* The lease ends where it began, with an address, if it was not for       *)
(* renewal; otherwise the address goes.                                    *)
LosesAddress(m) == IF cl[m].st = "REQUESTING" THEN UNCHANGED conf ELSE Deconfig(m)

Declines(m, p, in) ==
  /\ Becomes(m, Forgets(cl[m], TryAgain))
  /\ SendAnew(m, Request("decline", p.addr, NoIp, TRUE), in)
  /\ LosesAddress(m)

(* With -q it leaves before the state is BOUND: -R then sends nothing.     *)
Accepts(m, p, in) ==
  LET time == IF p.time < Enough THEN Enough ELSE p.time
  IN  IF "q" \in opts.flags[m]
      THEN /\ IF "R" \in opts.flags[m] THEN perform_release(m, in)
              ELSE Quiet(m, in) /\ Configures(m, p.addr)
           /\ Becomes(m, Exited)
      ELSE /\ Becomes(m, HalfLease([cl[m] EXCEPT !.ip = p.addr, !.rem = time, !.firm = TRUE]))
           /\ Quiet(m, in) /\ Configures(m, p.addr)

GetsAck(m, p, in) ==
  \E used \in IF "a" \in opts.flags[m] THEN ArpAnswers(p.addr, m) ELSE {FALSE} :
    IF used THEN Declines(m, p, in) ELSE Accepts(m, p, in)

(* After the script, sleep(3).                                             *)
GetsNak(m, in) ==
  /\ Becomes(m, Forgets(cl[m], 1))
  /\ Quiet(m, in) /\ LosesAddress(m)

Awaits(m, p) ==
  /\ p.own
  /\ \/ cl[m].st = "INIT_SELECTING" /\ p.type = "offer"
     \/ cl[m].st \in {"REQUESTING", "RENEWING", "RENEW_REQUESTED", "REBINDING"}
        /\ p.type \in {"ack", "nak"}

ClientReceives(m) ==
  /\ Runs(m) /\ cl[m].tmo # 0 /\ cl[m].lis # "NONE" /\ toClient[m] # <<>>
  /\ LET p == Head(toClient[m])
         in == Tail(toClient[m])
     IN  \/ Awaits(m, p) /\ p.type = "offer" /\ GetsOffer(m, p, in)
         \/ Awaits(m, p) /\ p.type = "ack" /\ GetsAck(m, p, in)
         \/ Awaits(m, p) /\ p.type = "nak" /\ GetsNak(m, in)
         \/ ~Awaits(m, p) /\ Quiet(m, in) /\ UNCHANGED <<cl, conf>>

(* udhcpc is started, perhaps with -r.                                     *)
ClientStart(m) ==
  /\ ~Runs(m)
  /\ \E ip \in opts.wishes \cup {NoIp} : Becomes(m, Started(ip))
  /\ Deconfig(m) /\ Quiet(m, toClient[m])

ClientAged(c) ==
  [c EXCEPT !.tmo = IF @ > 0 THEN @ - 1 ELSE @, !.rem = IF @ > 0 THEN @ - 1 ELSE 0]

ClientInit == cl = [m \in Macs |-> Exited]

=============================================================================
