------------------------------ MODULE Syslogd -------------------------------
(***************************************************************************)
(* sysklogd/syslogd.c: the loop of syslogd_main(), from /dev/log to other  *)
(* hosts and, by the rules of syslog.conf, to log files.                   *)
(*                                                                         *)
(* A datagram is the sequence of the messages in it, a message what        *)
(* decides its way: its facility and its priority.  One of the log files,  *)
(* G.logFile, is that of SyslogFile.                                       *)
(***************************************************************************)
EXTENDS SyslogFile, FiniteSets

CONSTANTS
  Facilities,  \* 0 is LOG_SYSLOG
  Priorities,  \* 0..n, 0 is the most urgent
  AnyPrio,     \* "*" and "none" in place of a priority
  NoPrio,
  Hosts,       \* the hosts of -R
  Options      \* ways syslogd is used, see OptionType

Selector == [facs : SUBSET Facilities, neg : BOOLEAN, single : BOOLEAN,
             prio : Priorities \cup {AnyPrio, NoPrio}]
Message == [fac : Facilities, prio : Priorities]

(* conf: lines of syslog.conf; level: -l; dup: -D; remote: -R; local: -L,  *)
(* or a build without FEATURE_REMOTE_LOG; data: the datagrams that arrive, *)
(* <<>> is one without text; reads: bound: datagrams, where they are       *)
(* logged here.                                                            *)
ASSUME SyslogdAssumption ==
  /\ {AnyPrio, NoPrio} \cap Priorities = {} /\ AnyPrio # NoPrio /\ 0 \in Facilities
  /\ \A o \in Options :
       /\ o.conf \in Seq([sels : Seq(Selector), path : {"f", "other"}])
       /\ o.data \subseteq Seq(Message) /\ {o.dup, o.remote, o.local} \subseteq BOOLEAN
       /\ {o.level, o.reads, o.size, o.rotate} \subseteq Nat

VARIABLES
  rules,       \* G.log_rules
  pc,          \* the next stretch of syslogd_main()
  bufs,        \* the two halves of G.recvbuf
  recvbuf,     \* the half in use
  last_sz,
  host,        \* G.remoteHosts: [fd, addr, soon], soon: resolved less than DNS_WAIT_SEC ago
  todo,        \* hosts still to be sent the datagram to
  parts,       \* messages still to be logged
  queue,       \* log files a message still goes to
  sig,         \* bb_got_signal
  n,           \* messages that were logged
  prev,        \* the last datagram with text before this one
  late         \* datagrams taken since the signal

loop == <<pc, bufs, recvbuf, last_sz, todo, parts, queue, prev, late>>
vars == <<opts, fvars, rules, loop, host, sig, n>>

----------------------------------------------------------------------------
(* parse_syslogdcfg() *)


Primap(s) ==
  LET named == {p \in Priorities : IF s.single THEN p = s.prio ELSE p <= s.prio} IN
  IF s.prio = AnyPrio THEN Priorities
  ELSE IF s.prio = NoPrio THEN {} ELSE IF s.neg THEN Priorities \ named ELSE named

(* One selector is merged with those before it.                            *)
Merge(map, s) ==
  [f \in Facilities |->
     IF f \notin s.facs THEN map[f]
     ELSE IF s.neg \/ s.prio = NoPrio THEN map[f] \cap Primap(s) ELSE map[f] \cup Primap(s)]

Parse(sels) == FoldLeft(Merge, [f \in Facilities |-> {}], sels)

Rules(conf) == [k \in DOMAIN conf |-> [map |-> Parse(conf[k].sels), file |-> conf[k].path]]

(* timestamp_and_log(): the files of the rules that match, or else         *)
(* G.logFile, by the level.                                                *)
Targets(m) ==
  LET match == SelectSeq(rules, LAMBDA rule : m.prio \in rule.map[m.fac]) IN
  IF match # <<>> THEN [k \in DOMAIN match |-> match[k].file]
  ELSE IF m.prio < opts.level THEN <<"f">> ELSE <<>>

----------------------------------------------------------------------------
(* syslogd_main() *)

(* timestamp_and_log_internal() goes by option_mask32, in which            *)
(* syslogd_init() has set -L where there is no -R.                         *)
Internal == [fac |-> 0, prio |-> 1]
LogInternal == IF opts.local \/ ~opts.remote THEN <<Internal>> ELSE <<>>

Init ==
  /\ opts \in Options /\ FileInit /\ rules = Rules(opts.conf)
  /\ pc = "log" /\ bufs = <<<<>>, <<>>>> /\ recvbuf = 1 /\ last_sz = 0
  /\ host = [h \in Hosts |-> [fd |-> FALSE, addr |-> FALSE, soon |-> FALSE]]
  /\ todo = {} /\ parts = LogInternal /\ queue = <<>>
  /\ sig = FALSE /\ n = 0 /\ prev = <<>> /\ late = 0

Top ==
  /\ pc = "top"
  /\ IF sig THEN pc' = "exit" /\ parts' = LogInternal /\ UNCHANGED recvbuf
     ELSE pc' = "read" /\ recvbuf' = 3 - recvbuf /\ UNCHANGED parts
  /\ UNCHANGED <<opts, fvars, rules, bufs, last_sz, todo, queue, prev, late, host, sig, n>>

(* read(), until there is text; with -D, not that of the last datagram.    *)
(* Datagrams are logged here by the options as they were given.            *)
Read(d) ==
  /\ pc = "read" /\ (opts.local => n < opts.reads)
  /\ bufs' = [bufs EXCEPT ![recvbuf] = d]
  /\ LET dup == opts.dup /\ last_sz = Len(d) /\ bufs[3 - recvbuf] = d IN
     /\ pc' = IF d = <<>> THEN "read" ELSE IF dup THEN "top" ELSE "send"
     /\ last_sz' = IF d = <<>> \/ dup THEN last_sz ELSE Len(d)
     /\ todo' = IF opts.remote /\ pc' = "send" THEN Hosts ELSE {}
     /\ parts' = IF opts.local /\ pc' = "send" THEN d ELSE <<>>
  /\ prev' = IF d = <<>> THEN prev ELSE d
  /\ late' = IF d # <<>> /\ sig THEN late + 1 ELSE late
  /\ UNCHANGED <<opts, fvars, rules, recvbuf, queue, host, sig, n>>

(* read() fails: a signal interrupts it.                                   *)
ReadFails ==
  /\ pc = "read" /\ sig' = TRUE /\ pc' = "exit" /\ parts' = LogInternal
  /\ UNCHANGED <<opts, fvars, rules, bufs, recvbuf, last_sz, todo, queue, prev, late, host, n>>

Signal ==
  /\ ~sig /\ pc # "gone" /\ sig' = TRUE
  /\ UNCHANGED <<opts, fvars, rules, loop, host, n>>

(* Mutant: the wait is the wrong way round.                                *)
ResolvedEarly(h) ==
  IF host[h].addr THEN {[host[h] EXCEPT !.fd = TRUE]}
  ELSE IF ~host[h].soon THEN {host[h]}
  ELSE {[fd |-> ok, addr |-> ok, soon |-> TRUE] : ok \in BOOLEAN}

(* try_to_resolve_remote(h), which leaves a socket, or none.               *)
Resolved(h) ==
  IF host[h].addr THEN {[host[h] EXCEPT !.fd = TRUE]}
  ELSE IF host[h].soon THEN {host[h]}
  ELSE {[fd |-> ok, addr |-> ok, soon |-> TRUE] : ok \in BOOLEAN}

(* sendto(): after some errors socket and address are given up.            *)
Sent(rh) == {rh, [rh EXCEPT !.fd = FALSE, !.addr = FALSE]}

Send(h) ==
  /\ pc = "send" /\ h \in todo /\ todo' = todo \ {h}
  /\ \E rh \in IF host[h].fd THEN {host[h]} ELSE Resolved(h) :
       \E after \in IF rh.fd THEN Sent(rh) ELSE {rh} : host' = [host EXCEPT ![h] = after]
  /\ UNCHANGED <<opts, fvars, rules, pc, bufs, recvbuf, last_sz, parts, queue, prev, late, sig, n>>

Local ==
  /\ pc = "send" /\ todo = {} /\ pc' = "log"
  /\ UNCHANGED <<opts, fvars, rules, bufs, recvbuf, last_sz, todo, parts, queue, prev, late, host, sig, n>>

(* split_escape_and_log(): the next message of the datagram.               *)
Route ==
  /\ pc \in {"log", "exit"} /\ at = "out" /\ queue = <<>> /\ parts # <<>>
  /\ n' = n + 1 /\ queue' = Targets(Head(parts)) /\ parts' = Tail(parts)
  /\ UNCHANGED <<opts, fvars, rules, pc, bufs, recvbuf, last_sz, todo, prev, late, host, sig>>

ToFile ==
  /\ at = "out" /\ queue # <<>> /\ queue' = Tail(queue)
  /\ IF Head(queue) = "f" THEN Enter(n) ELSE UNCHANGED fvars
  /\ UNCHANGED <<opts, rules, pc, bufs, recvbuf, last_sz, todo, parts, prev, late, host, sig, n>>

Logged ==
  /\ pc \in {"log", "exit"} /\ at = "out" /\ queue = <<>> /\ parts = <<>>
  /\ pc' = IF pc = "log" THEN "top" ELSE "gone"
  /\ UNCHANGED <<opts, fvars, rules, bufs, recvbuf, last_sz, todo, parts, queue, prev, late, host, sig, n>>

InFile == LogLocally /\ UNCHANGED <<opts, rules, loop, host, sig, n>>

Main == Top \/ (\E h \in Hosts : Send(h)) \/ Local \/ Route \/ ToFile \/ Logged \/ InFile

----------------------------------------------------------------------------
(* What happens around it *)

Arrive == \E d \in opts.data : Read(d)

(* DNS_WAIT_SEC pass.                                                      *)
Later(h) ==
  /\ host[h].soon /\ host' = [host EXCEPT ![h].soon = FALSE]
  /\ UNCHANGED <<opts, fvars, rules, loop, sig, n>>

Beside == (Tick \/ Admin) /\ UNCHANGED <<opts, rules, loop, host, sig, n>>

(* The power fails; syslogd is started again.                              *)
Restart ==
  /\ n < opts.reads /\ PowerFails
  /\ pc' = "log" /\ bufs' = <<<<>>, <<>>>> /\ recvbuf' = 1 /\ last_sz' = 0
  /\ host' = [h \in Hosts |-> [fd |-> FALSE, addr |-> FALSE, soon |-> FALSE]]
  /\ todo' = {} /\ parts' = LogInternal /\ queue' = <<>> /\ sig' = FALSE
  /\ prev' = <<>> /\ late' = 0 /\ UNCHANGED <<opts, rules, n>>

Next ==
  \/ Main \/ Arrive \/ ReadFails \/ Signal \/ Beside \/ Restart
  \/ \E h \in Hosts : Later(h)

Spec == Init /\ [][Next]_vars

(* syslogd goes on, time passes, and datagrams with text keep coming.      *)
FairSpec ==
  /\ Spec /\ WF_vars(Main) /\ WF_vars(\E d \in opts.data : d # <<>> /\ Read(d))
  /\ \A h \in Hosts : WF_vars(Later(h))

----------------------------------------------------------------------------
(* Properties *)

TypeOK ==
  /\ at \in {"out", "open", "check", "shift", "unlink", "write"}
  /\ pc \in {"log", "top", "read", "send", "exit", "gone"} /\ recvbuf \in 1..2
  /\ fd \in 0..Len(inodes) /\ links \in [Names -> 0..Len(inodes)] /\ i \in Names
  /\ at \in {"check", "shift", "unlink", "write"} => fd # 0

(* A selector that turns priorities on, or off: one with "!" turns the     *)
(* priorities that it names off ("!*" none), and none on.                  *)
Named(s, p) == IF s.single THEN p = s.prio ELSE p <= s.prio
TurnsOn(s, f, p) == f \in s.facs /\ \/ s.prio = AnyPrio /\ ~s.neg
                                    \/ s.prio \in Priorities /\ ~s.neg /\ Named(s, p)
TurnsOff(s, f, p) == f \in s.facs /\ \/ s.prio = NoPrio
                                     \/ s.prio \in Priorities /\ s.neg /\ Named(s, p)


(* docs/syslog.conf.txt:22: "kern.!err" is for "all messages of kern       *)
(* facility with priorities lower than err".                               *)
LoneNegation ==
  \A k \in DOMAIN rules : LET s == opts.conf[k].sels[1] IN
    Len(opts.conf[k].sels) = 1 /\ s.neg /\ ~s.single /\ s.prio \in Priorities =>
      \A f \in s.facs : rules[k].map[f] = {p \in Priorities : p > s.prio}

(* syslogd.c:1046: "If they have not specified remote logging, then log    *)
(* locally": every datagram that is not left out is logged.                *)
LogsLocally ==
  [][\A d \in opts.data \ {<<>>} :
       Read(d) /\ pc' = "send" /\ ~opts.remote => parts' = d]_vars

(* With -D, a datagram is left out just if it repeats the last one; else   *)
(* none is.                                                                *)
DropsRepeats ==
  [][\A d \in opts.data \ {<<>>} : Read(d) =>
       (pc' = "top" <=> opts.dup /\ d = prev)]_vars

(* syslogd sends to a host only where it has both address and socket.      *)
SocketHasAddress == \A h \in Hosts : host[h].fd => host[h].addr

(* After a signal at most one more datagram is taken.                      *)
StopsSoon == late <= 1

(* The names, oldest first, without the second of two links to an inode.   *)
Kept ==
  LET oldest == [k \in 1..(LogFileRotate + 1) |-> LogFileRotate + 1 - k]
      full == SelectSeq(oldest, LAMBDA m : links[m] # 0 /\ \A l \in Names : l > m => links[l] # links[m])
  IN FlattenSeq([k \in DOMAIN full |-> inodes[links[full[k]]]])

(* A power failure loses the ends of files that the kernel had not written *)
(* yet.  Of the other messages, the log file and its backlog hold the last *)
(* ones, all of them and in order, and in whatever rename() the power      *)
(* failed; and as many as they are to hold, if it lost nothing.  (Where    *)
(* rename() fails and unlink() does not, a whole log file is lost.)        *)
Backlog ==
  "rename" \in opts.fails \/
    /\ "admin" \notin opts.fails => IsSuffix(Kept, written)
    /\ ~hurt => Kept = written \/ Len(Kept) >= LogFileRotate * (LogFileSize + 1)

(* A log file grows by at most one message over its limit.                 *)
SizeBound == LogFileSize # 0 => \A k \in DOMAIN inodes : Len(inodes[k]) <= LogFileSize + 1

(* syslogd.c:701: a file that was deleted is written to for no longer than *)
(* a second.                                                               *)
ReopensEverySecond == at = "write" => links[0] = fd \/ moved

(* log_locally() returns, even if two names are links to one file.         *)
Returns == "unlink" \in opts.fails \/ []<>(at = "out")

(* syslogd.c:782: "So ensure old file is gone in any case".                *)
OldFileGone == [][at = "unlink" /\ at' = "open" => links'[0] = 0]_vars

(* A host that was lost is sent to again, if in the end looking its name   *)
(* up helps.                                                               *)
NoHelp(h) == ~host[h].soon /\ host'[h].soon /\ ~host'[h].fd
Reconnects ==
  \A h \in Hosts : <>[][~NoHelp(h)]_vars /\ []<>(h \in todo) => []<>(host[h].fd)
=============================================================================
