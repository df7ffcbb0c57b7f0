------------------------------- MODULE MCDhcp -------------------------------
(***************************************************************************)
(* Two clients, mostly with one address between them, in several uses.     *)
(***************************************************************************)
EXTENDS Dhcp

CONSTANTS m1, m2, m3

(* The clients ask for less than the least lease time, and get that.       *)
Plain ==
  [start |-> 1, end |-> 1, max_leases |-> 1, statics |-> [m \in {} |-> NoIp], others |-> {},
   asks |-> [m \in Macs |-> 1], delay |-> 1, early |-> FALSE, clients |-> Macs,
   flags |-> [m \in Macs |-> {}], wishes |-> {1}, signals |-> {}, server |-> {}, stops |-> 0]
Punctual == [Plain EXCEPT !.delay = 0]
Alone == [Plain EXCEPT !.clients = {m1}]

(* The user sends signals to m1.                                           *)
Signals == [Plain EXCEPT !.signals = {m1}, !.wishes = {}]
(* udhcpc -n -q -R                                                         *)
Quits == [Plain EXCEPT !.flags[m1] = {"n", "q", "R"}]
(* Leases longer than the client's least: it renews more than once.        *)
Long == [Alone EXCEPT !.asks[m1] = 0, !.delay = 0]
(* Address 1 is somebody else's; m1 looks (-a).                            *)
Conflict == [Alone EXCEPT !.end = 2, !.max_leases = 2, !.others = {1}, !.flags[m1] = {"a"}]
Conflicts == [Conflict EXCEPT !.clients = Macs, !.delay = 0]
(* m1 has a static lease of an address of the pool; there is one row.      *)
Static == [Punctual EXCEPT !.end = 2, !.statics = [m \in {m1} |-> 1], !.wishes = {}]
(* Address 2 is for a host m3 that is off: two rows for one address.       *)
Spare == [Punctual EXCEPT !.end = 2, !.max_leases = 2, !.statics = [m \in {m3} |-> 2]]
(* udhcpd goes down, and m1 has a lease for just as long as the file lasts.*)
Crash ==
  [Punctual EXCEPT !.asks[m1] = FileLife, !.early = TRUE, !.server = {"crash"}, !.stops = 1]
Term == [Punctual EXCEPT !.server = {"term"}, !.stops = 1]
Stops ==
  [Alone EXCEPT !.delay = 0, !.early = TRUE, !.server = {"save", "term", "crash", "ack"}, !.stops = 1]

Uses == {Plain, [Signals EXCEPT !.delay = 0], Quits, Long, Conflict, [Conflict EXCEPT !.delay = 0],
         Static, Spare, Crash, Stops}
Larger == {Signals, Conflicts, Term, [Crash EXCEPT !.delay = 1]}
(* What goes wrong: udhcpd crashes between the ACK and the lease file, is  *)
(* started when the file is too old and a lease still runs, a client asks  *)
(* for a static address, two reserved addresses at a restart, -q with -R.  *)
Aged12Hours == [Term EXCEPT !.asks[m1] = MaxLease]
Mishaps ==
  {[Crash EXCEPT !.server = {"ack"}], Aged12Hours, Quits, [Static EXCEPT !.wishes = {1}],
   [Conflict EXCEPT !.others = {1, 2}, !.delay = 0, !.server = {"term"}, !.stops = 1]}

=============================================================================
