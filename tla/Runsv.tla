------------------------------- MODULE Runsv -------------------------------
(***************************************************************************)
(* runit/runsv.c: the supervisor of one service directory.                 *)
(*                                                                         *)
(* svd[0] is the service (./run, and ./finish after it), svd[1] its        *)
(* optional log service (./log/run).  One runsv process runs the loop of   *)
(* runsv_main: start what is wanted, poll, reap, read one command from     *)
(* each control fifo, handle SIGTERM, decide whether to exit.  Around it   *)
(* children end whenever they like, administrators write commands, and     *)
(* runsv itself may be killed and started again.                           *)
(*                                                                         *)
(* runsv is sequential, so one action is a stretch of the loop in which    *)
(* nothing but its own state matters; "pc" names the next stretch.  The    *)
(* functions that end in update_status() are stretches of their own: the   *)
(* files they leave on disk are visible to sv in between.                  *)
(***************************************************************************)
EXTENDS Naturals, Sequences, FiniteSets

CONSTANTS
  Pids,          \* process ids vfork() may return
  NoPid,         \* svdir.pid == 0
  HasLog,        \* the service directory has a log/ subdirectory
  HasFinish,     \* the service directory has a ./finish
  Commands,      \* command characters written to supervise/control
  LogCommands,   \* command characters written to log/supervise/control
  Scripts,       \* characters c with an executable control/c script
  DiskErrors,    \* which writes in the supervise directory may fail
  MaxFifo,       \* bound: commands waiting in one control fifo
  MaxStarts      \* bound: times runsv is started on this directory

(* The characters ctrl() tells apart; "s" stands for a, h, i, q, 1 and 2.  *)
CommandChars == {"d", "u", "x", "t", "k", "p", "c", "o", "s"}

ASSUME PidAssumption == NoPid \notin Pids
ASSUME FlagAssumption ==
  /\ HasLog \in BOOLEAN /\ HasFinish \in BOOLEAN
  /\ DiskErrors \subseteq {"pid", "pid text", "stat", "stat text", "status"}
ASSUME CommandAssumption ==
  /\ Commands \subseteq CommandChars
  /\ LogCommands \subseteq CommandChars
  /\ Scripts \subseteq CommandChars
ASSUME BoundAssumption == MaxFifo \in Nat /\ MaxStarts \in Nat

VARIABLES
  pc,            \* the next stretch of runsv_main, or "exited" / "killed"
  call,          \* svdir and return point of a running start/stopservice()
  svd,           \* struct svdir svd[2]
  wstat,         \* svd[0].wstat: how which program ended
  pidchanged,    \* the pidchanged flag, one for both directories
  sigterm,       \* the sigterm flag
  selfpipe,      \* a byte waits in the self-pipe
  logpipe,       \* runsv still holds both ends of the log pipe
  pending,       \* signals sent to runsv and not yet delivered
  fifo,          \* supervise/control and log/supervise/control
  files,         \* supervise/{pid,stat,status} of each directory
  procs,         \* the process table
  starts         \* times runsv was started

vars == <<pc, call, svd, wstat, pidchanged, sigterm, selfpipe, logpipe,
          pending, fifo, files, procs, starts>>

----------------------------------------------------------------------------
(* State *)

Dirs == {0, 1}
PidOrNone == Pids \cup {NoPid}
States == {"down", "run", "finish"}
Wants == {"up", "down", "exit"}
Flags == {"TERM", "PAUSE"}

Svdir == [pid : PidOrNone, state : States, ctrl : SUBSET Flags, want : Wants]

(* How a child ended: it exited, was ended by a signal, or never got as    *)
(* far as its program because the set-up in the vforked child failed.      *)
Ends == {"none", "exited", "signaled", "noexec"}
Progs == {"none", "run", "finish", "log"}
Wstat == [prog : Progs, how : Ends]
NoWstat == [prog |-> "none", how |-> "none"]

(* A process: what it runs, whether runsv is still its parent, the fatal   *)
(* signal it was sent, how it ended while it waits to be reaped, and, for  *)
(* ./finish, its arguments.                                                *)
(* A finish argument pair: whose status it is, and the two words.  "own"   *)
(* is the program's own exit code, "sig" the signal that ended it.         *)
Args == [prog : Progs, code : {"none", "own", "-1", "1", "111"},
         sig : {"none", "0", "sig"}]
NoArgs == [prog |-> "none", code |-> "none", sig |-> "none"]

ProcStates == {"free", "alive", "stopped", "zombie"}
Proc == [prog : Progs, st : ProcStates, child : BOOLEAN,
         sig : {"none", "term", "kill"}, how : Ends, args : Args]
FreeProc == [prog |-> "none", st |-> "free", child |-> FALSE,
             sig |-> "none", how |-> "none", args |-> NoArgs]

StatText == [state : States, ctrl : SUBSET Flags, want : Wants]
StatusRec == [pid : PidOrNone, paused : BOOLEAN, want : {"u", "d"},
              got_term : BOOLEAN, state : States]
Absent == [absent |-> TRUE]     \* no file, or an empty one
FileSet == [pid : PidOrNone, stat : StatText \cup {Absent},
            status : StatusRec \cup {Absent}]

PCs == {"boot0", "boot1", "top1", "top0", "start", "fork", "stop", "poll",
        "drain", "reap", "ctl0", "ctl1", "term", "exitck", "exited", "killed"}
Returns == {"top0", "poll", "ctl1", "term", "exitck"}
NoCall == [dir |-> 0, ret |-> "poll"]

TypeOK ==
  /\ pc \in PCs
  /\ call \in [dir : Dirs, ret : Returns]
  /\ svd \in [Dirs -> Svdir]
  /\ wstat \in Wstat
  /\ pidchanged \in BOOLEAN
  /\ sigterm \in BOOLEAN
  /\ selfpipe \in BOOLEAN
  /\ logpipe \in BOOLEAN
  /\ pending \in SUBSET {"TERM", "CHLD"}
  /\ fifo \in [Dirs -> Seq(CommandChars)]
  /\ files \in [Dirs -> FileSet]
  /\ procs \in [Pids -> Proc]
  /\ starts \in Nat

Up == pc \notin {"exited", "killed"}
Children == {p \in Pids : procs[p].child}
FreePids == {p \in Pids : procs[p].st = "free"}

----------------------------------------------------------------------------
(* Signals sent to children *)

(* kill(2) on one process; a zombie keeps its status.                      *)
Hit(proc, sig) ==
  IF proc.st \notin {"alive", "stopped"} THEN proc
  ELSE CASE sig = "KILL" -> [proc EXCEPT !.sig = "kill"]
         [] sig = "TERM" -> [proc EXCEPT !.sig = IF @ = "kill" THEN @ ELSE "term"]
         [] sig = "STOP" -> [proc EXCEPT !.st = "stopped"]
         [] sig = "CONT" -> [proc EXCEPT !.st = "alive"]

(* kill(pid, sig); pid 0 addresses the whole process group.                *)
Kill(ps, pid, sig) ==
  [p \in Pids |-> IF p = pid \/ (pid = NoPid /\ ps[p].child)
                  THEN Hit(ps[p], sig) ELSE ps[p]]

(* custom(): can control/c have done the job?  Scripts report what they    *)
(* like, the log service has none.                                         *)
Custom(i, c) == IF i = 0 /\ c \in Scripts THEN BOOLEAN ELSE {FALSE}

----------------------------------------------------------------------------
(* update_status() *)

StatOf(s) == [state |-> s.state, ctrl |-> s.ctrl,
              want |-> IF s.state = "down" THEN "up" ELSE s.want]
StatusOf(s) == [pid |-> s.pid, paused |-> "PAUSE" \in s.ctrl,
                want |-> IF s.want = "up" THEN "u" ELSE "d",
                got_term |-> "TERM" \in s.ctrl, state |-> s.state]

(* What may fail: opening or renaming one of the three files, or, where    *)
(* the result of write() is not looked at, its text, which leaves an empty *)
(* file behind.                                                            *)
Failures == SUBSET DiskErrors
NewFiles(old, s, changed, failed) ==
  [pid    |-> IF ~changed THEN old.pid
              ELSE IF "pid text" \in failed THEN NoPid ELSE s.pid,
   stat   |-> IF "stat" \in failed THEN old.stat
              ELSE IF "stat text" \in failed THEN Absent ELSE StatOf(s),
   status |-> IF "status" \in failed THEN old.status ELSE StatusOf(s)]

(* Mutant: pidchanged is cleared before the rename is known to work.       *)
UpdateStatusForgetful(i, s, changed) ==
  \E failed \in Failures :
    /\ pidchanged' = FALSE
    /\ files' = IF changed /\ "pid" \in failed THEN files
                ELSE [files EXCEPT ![i] = NewFiles(@, s, changed, failed)]

(* update_status(&svd[i]) when svd[i] is s and pidchanged is "changed".    *)
UpdateStatus(i, s, changed) ==
  \E failed \in Failures :
    IF changed /\ "pid" \in failed
    THEN pidchanged' = TRUE /\ files' = files
    ELSE pidchanged' = FALSE /\ files' = [files EXCEPT ![i] = NewFiles(@, s, changed, failed)]

(* svd[i] becomes s and update_status() records it.                        *)
SetAndRecord(i, s, changed) ==
  /\ svd' = [svd EXCEPT ![i] = s]
  /\ UpdateStatus(i, s, changed)

Goto(label) == pc' = label /\ call' = NoCall
Call(label, i, ret) == pc' = label /\ call' = [dir |-> i, ret |-> ret]

----------------------------------------------------------------------------
(* Start-up *)

NewSvdir(want) == [pid |-> NoPid, state |-> "down", ctrl |-> {}, want |-> want]

(* The svd[] of a fresh runsv; a want is W_DOWN where a "down" file exists. *)
FreshSvds == {[i \in Dirs |-> NewSvdir(IF i = 0 THEN want0 ELSE want1)] :
                want0 \in {"up", "down"},
                want1 \in IF HasLog THEN {"up", "down"} ELSE {"up"}}

Init ==
  /\ pc = "boot0" /\ call = NoCall
  /\ svd \in FreshSvds
  /\ wstat = NoWstat
  /\ pidchanged = TRUE
  /\ sigterm = FALSE /\ selfpipe = FALSE
  /\ logpipe = HasLog
  /\ pending = {}
  /\ fifo = [i \in Dirs |-> <<>>]
  /\ files = [i \in Dirs |-> [pid |-> NoPid, stat |-> Absent, status |-> Absent]]
  /\ procs = [p \in Pids |-> FreeProc]
  /\ starts = 1

LoopTop == IF HasLog THEN "top1" ELSE "top0"

(* open_control(&svd[i]): the fifo, then update_status().                  *)
OpenControl(i) ==
  /\ pc = IF i = 0 THEN "boot0" ELSE "boot1"
  /\ UpdateStatus(i, svd[i], pidchanged)
  /\ Goto(IF i = 0 /\ HasLog THEN "boot1" ELSE LoopTop)
  /\ UNCHANGED <<svd, wstat, sigterm, selfpipe, logpipe, pending, fifo, procs, starts>>

----------------------------------------------------------------------------
(* startservice() and stopservice() *)

(* Mutants: the service is started whether it has a process or not; only   *)
(* ./finish is started by the loop.                                        *)
TopServiceBlind ==
  /\ pc = "top0"
  /\ IF svd[0].want = "up" \/ svd[0].state = "finish"
     THEN Call("start", 0, "poll") ELSE Goto("poll")
  /\ UNCHANGED <<svd, wstat, pidchanged, sigterm, selfpipe, logpipe, pending,
                 fifo, files, procs, starts>>
TopServiceNoRespawn ==
  /\ pc = "top0"
  /\ IF svd[0].pid = NoPid /\ svd[0].state = "finish"
     THEN Call("start", 0, "poll") ELSE Goto("poll")
  /\ UNCHANGED <<svd, wstat, pidchanged, sigterm, selfpipe, logpipe, pending,
                 fifo, files, procs, starts>>

(* The top of the loop: the log first, then the service or its ./finish.   *)
TopLog ==
  /\ pc = "top1"
  /\ IF svd[1].pid = NoPid /\ svd[1].want = "up"
     THEN Call("start", 1, "top0") ELSE Goto("top0")
  /\ UNCHANGED <<svd, wstat, pidchanged, sigterm, selfpipe, logpipe, pending,
                 fifo, files, procs, starts>>

TopService ==
  /\ pc = "top0"
  /\ IF svd[0].pid = NoPid /\ (svd[0].want = "up" \/ svd[0].state = "finish")
     THEN Call("start", 0, "poll") ELSE Goto("poll")
  /\ UNCHANGED <<svd, wstat, pidchanged, sigterm, selfpipe, logpipe, pending,
                 fifo, files, procs, starts>>

(* The body of stopservice(&svd[i]): SIGTERM unless control/t did the job, *)
(* and SIGCONT when the directory is wanted down.                          *)
StopBody(i) ==
  \E handled \in Custom(i, "t") :
    LET s == svd[i]
        termed == s.pid # NoPid /\ ~handled
        ps == IF termed THEN Kill(procs, s.pid, "TERM") ELSE procs
    IN /\ procs' = IF s.want \in {"down", "exit"} THEN Kill(ps, s.pid, "CONT") ELSE ps
       /\ IF termed
          THEN SetAndRecord(i, [s EXCEPT !.ctrl = @ \cup {"TERM"}], pidchanged)
          ELSE UNCHANGED <<svd, files, pidchanged>>

StopService ==
  /\ pc = "stop"
  /\ StopBody(call.dir)
  /\ Goto(call.ret)
  /\ UNCHANGED <<wstat, sigterm, selfpipe, logpipe, pending, fifo, starts>>

(* startservice() on a directory whose child still exists.                 *)
StopFirst ==
  /\ pc = "start"
  /\ svd[call.dir].pid # NoPid
  /\ StopBody(call.dir)
  /\ pc' = "fork"
  /\ UNCHANGED <<call, wstat, sigterm, selfpipe, logpipe, pending, fifo, starts>>

ProgOf(i) == IF i = 1 THEN "log" ELSE IF svd[0].state = "finish" THEN "finish" ELSE "run"

(* The words ./finish is given.  A child that never reached its program    *)
(* went through bb_perror_msg_and_die(), so its exit code is 1.  An unset  *)
(* wait status is 0: exited, code 0.                                       *)
FinishArgs(w) ==
  [prog |-> w.prog,
   code |-> CASE w.how \in {"exited", "none"} -> "own"
              [] w.how = "noexec" -> "1"
              [] w.how = "signaled" -> "-1",
   sig |-> IF w.how = "signaled" THEN "sig" ELSE "0"]

(* The vforked child: with a log directory it needs the pipe, and dies in  *)
(* xdup2() when runsv has closed it.  ./finish gets svd[0].wstat.          *)
Spawned(i) ==
  LET piped == ~HasLog \/ logpipe
      prog == ProgOf(i)
  IN [prog |-> prog, st |-> IF piped THEN "alive" ELSE "zombie", child |-> TRUE,
      sig |-> "none", how |-> IF piped THEN "none" ELSE "noexec",
      args |-> IF prog = "finish" THEN FinishArgs(wstat) ELSE NoArgs]

(* vfork() is retried until it succeeds: the action waits for a free pid.  *)
Fork ==
  /\ \/ pc = "start" /\ svd[call.dir].pid = NoPid
     \/ pc = "fork"
  /\ LET i == call.dir IN
     \E p \in FreePids :
       /\ procs' = [procs EXCEPT ![p] = Spawned(i)]
       /\ pending' = IF Spawned(i).st = "zombie" THEN pending \cup {"CHLD"} ELSE pending
       /\ SetAndRecord(i, [svd[i] EXCEPT !.pid = p, !.ctrl = {},
                            !.state = IF @ = "finish" THEN @ ELSE "run"], TRUE)
  /\ Goto(call.ret)
  /\ UNCHANGED <<wstat, sigterm, selfpipe, logpipe, fifo, starts>>

----------------------------------------------------------------------------
(* poll() and the self-pipe *)

(* SIGTERM and SIGCHLD are unblocked only around poll(): s_chld_term().    *)
Deliver(sig) ==
  /\ pc \in {"poll", "drain"}
  /\ sig \in pending
  /\ pending' = pending \ {sig}
  /\ sigterm' = (sigterm \/ sig = "TERM")
  /\ selfpipe' = TRUE
  /\ UNCHANGED <<pc, call, svd, wstat, pidchanged, logpipe, fifo, files, procs, starts>>

(* poll() cannot return while an unblocked signal waits for delivery.      *)
PollReturns ==
  /\ pc = "poll"
  /\ pending = {}
  /\ selfpipe \/ fifo[0] # <<>> \/ (HasLog /\ fifo[1] # <<>>)
  /\ Goto("drain")
  /\ UNCHANGED <<svd, wstat, pidchanged, sigterm, selfpipe, logpipe, pending,
                 fifo, files, procs, starts>>

(* poll() gives up after an hour.                                          *)
PollTimeout ==
  /\ pc = "poll"
  /\ pending = {}
  /\ Goto("drain")
  /\ UNCHANGED <<svd, wstat, pidchanged, sigterm, selfpipe, logpipe, pending,
                 fifo, files, procs, starts>>

(* Signals are blocked again, then the self-pipe is emptied.               *)
Drain ==
  /\ pc = "drain"
  /\ selfpipe' = FALSE
  /\ Goto("reap")
  /\ UNCHANGED <<svd, wstat, pidchanged, sigterm, logpipe, pending, fifo,
                 files, procs, starts>>

----------------------------------------------------------------------------
(* The wait loop *)

Zombies == {p \in Children : procs[p].st = "zombie"}

(* Mutants: the wait status is not kept; the state is left as it was.      *)
ReapServiceNoStatus(p) ==
  /\ wstat' = wstat
  /\ SetAndRecord(0, [svd[0] EXCEPT !.pid = NoPid, !.ctrl = @ \ {"TERM"},
       !.state = IF @ # "finish" /\ HasFinish THEN "finish" ELSE "down"], TRUE)
ReapServiceStillRun(p) ==
  /\ wstat' = [prog |-> procs[p].prog, how |-> procs[p].how]
  /\ SetAndRecord(0, [svd[0] EXCEPT !.pid = NoPid, !.ctrl = @ \ {"TERM"}], TRUE)

(* The service's process is reaped: ./finish is due unless it was ./finish *)
(* that ended.                                                             *)
ReapService(p) ==
  LET s == svd[0]
      finish == s.state # "finish" /\ HasFinish
  IN /\ wstat' = [prog |-> procs[p].prog, how |-> procs[p].how]
     /\ SetAndRecord(0, [s EXCEPT !.pid = NoPid, !.ctrl = @ \ {"TERM"},
                         !.state = IF finish THEN "finish" ELSE "down"], TRUE)

(* The log's process is reaped; its status too is stored in svd[0].wstat.  *)
ReapLog(p) ==
  /\ wstat' = [prog |-> procs[p].prog, how |-> procs[p].how]
  /\ SetAndRecord(1, [svd[1] EXCEPT !.pid = NoPid, !.ctrl = @ \ {"TERM"},
                      !.state = "down"], TRUE)

Reap ==
  /\ pc = "reap"
  /\ \E p \in Zombies :
       /\ procs' = [procs EXCEPT ![p] = FreeProc]
       /\ \/ p = svd[0].pid /\ ReapService(p)
          \/ p # svd[0].pid /\ HasLog /\ p = svd[1].pid /\ ReapLog(p)
          \/ p # svd[0].pid /\ p # svd[1].pid
             /\ UNCHANGED <<svd, wstat, files, pidchanged>>
  /\ UNCHANGED <<pc, call, sigterm, selfpipe, logpipe, pending, fifo, starts>>

ReapDone ==
  /\ pc = "reap"
  /\ Zombies = {}
  /\ Goto("ctl0")
  /\ UNCHANGED <<svd, wstat, pidchanged, sigterm, selfpipe, logpipe, pending,
                 fifo, files, procs, starts>>

----------------------------------------------------------------------------
(* ctrl(&svd[i], c), then on to label ret *)

WantOf == [d |-> "down", o |-> "down", u |-> "up", x |-> "exit"]

(* 'd', 'u', 'o', 'x': a new want, recorded at once, and the start or stop *)
(* it calls for.  'x' is not for the log.                                  *)
CtrlWant(i, c, ret) ==
  LET s == [svd[i] EXCEPT !.want = WantOf[c]] IN
  /\ c \in DOMAIN WantOf
  /\ ~(c = "x" /\ i = 1)
  /\ SetAndRecord(i, s, pidchanged)
  /\ IF c \in {"u", "o"} /\ s.state = "down" THEN Call("start", i, ret)
     ELSE IF c \in {"d", "x"} /\ s.state = "run" THEN Call("stop", i, ret)
     ELSE Goto(ret)
  /\ UNCHANGED procs

CtrlTerm(i, c, ret) ==
  /\ c = "t"
  /\ IF svd[i].state = "run" THEN Call("stop", i, ret) ELSE Goto(ret)
  /\ UNCHANGED <<svd, files, pidchanged, procs>>

(* 'k': the state becomes S_DOWN at once, and nothing is recorded.         *)
CtrlKill(i, c, ret) ==
  /\ c = "k"
  /\ \E handled \in Custom(i, "k") :
       procs' = IF svd[i].state = "run" /\ ~handled
                THEN Kill(procs, svd[i].pid, "KILL") ELSE procs
  /\ svd' = [svd EXCEPT ![i].state = "down"]
  /\ Goto(ret)
  /\ UNCHANGED <<files, pidchanged>>

(* Mutant: the new pause flag is not recorded.                             *)
CtrlPauseSilent(i, c, ret) ==
  /\ c \in {"p", "c"}
  /\ svd' = [svd EXCEPT ![i].ctrl = IF c = "p" THEN @ \cup {"PAUSE"} ELSE @ \ {"PAUSE"}]
  /\ Goto(ret)
  /\ UNCHANGED <<files, pidchanged, procs>>

CtrlPause(i, c, ret) ==
  /\ c \in {"p", "c"}
  /\ \E handled \in Custom(i, c) :
       procs' = IF svd[i].state = "run" /\ ~handled
                THEN Kill(procs, svd[i].pid, IF c = "p" THEN "STOP" ELSE "CONT")
                ELSE procs
  /\ SetAndRecord(i, [svd[i] EXCEPT !.ctrl = IF c = "p" THEN @ \cup {"PAUSE"}
                                            ELSE @ \ {"PAUSE"}], pidchanged)
  /\ Goto(ret)

(* Signals whose effect is the program's own affair, and 'x' to the log.   *)
CtrlOther(i, c, ret) ==
  /\ c = "s" \/ (c = "x" /\ i = 1)
  /\ Goto(ret)
  /\ UNCHANGED <<svd, files, pidchanged, procs>>

Ctrl(i, c, ret) ==
  \/ CtrlWant(i, c, ret)
  \/ CtrlTerm(i, c, ret)
  \/ CtrlKill(i, c, ret)
  \/ CtrlPause(i, c, ret)
  \/ CtrlOther(i, c, ret)

(* One command is read from each fifo per round.                           *)
ReadControl(i) ==
  LET ret == IF i = 0 /\ HasLog THEN "ctl1" ELSE "term" IN
  /\ pc = IF i = 0 THEN "ctl0" ELSE "ctl1"
  /\ \/ /\ fifo[i] = <<>>
        /\ Goto(ret)
        /\ UNCHANGED <<svd, files, pidchanged, procs, fifo>>
     \/ /\ fifo[i] # <<>>
        /\ fifo' = [fifo EXCEPT ![i] = Tail(@)]
        /\ Ctrl(i, Head(fifo[i]), ret)
  /\ UNCHANGED <<wstat, sigterm, selfpipe, logpipe, pending, starts>>

SigTerm ==
  /\ pc = "term"
  /\ sigterm' = FALSE
  /\ IF sigterm THEN Ctrl(0, "x", "exitck")
     ELSE Goto("exitck") /\ UNCHANGED <<svd, files, pidchanged, procs>>
  /\ UNCHANGED <<wstat, selfpipe, logpipe, pending, fifo, starts>>

(* The runsv process is gone: its children belong to init, which reaps the *)
(* dead ones; the pipe ends and what the fifos held are gone with it.      *)
Orphan(proc) == IF ~proc.child THEN proc
                ELSE IF proc.st = "zombie" THEN FreeProc
                ELSE [proc EXCEPT !.child = FALSE]
Gone ==
  /\ procs' = [p \in Pids |-> Orphan(procs[p])]
  /\ logpipe' = FALSE
  /\ fifo' = [i \in Dirs |-> <<>>]

(* Mutants: the log is not waited for; its standard input stays open.      *)
ExitCheckNoLogWait ==
  /\ pc = "exitck"
  /\ IF svd[0].want = "exit" /\ svd[0].state = "down" THEN Goto("exited") /\ Gone
     ELSE Goto(LoopTop) /\ UNCHANGED <<logpipe, fifo, procs>>
  /\ UNCHANGED <<svd, files, pidchanged, wstat, sigterm, selfpipe, pending, starts>>
ExitCheckKeepsPipe ==
  /\ pc = "exitck"
  /\ IF svd[0].want = "exit" /\ svd[0].state = "down" /\ svd[1].pid = NoPid
     THEN Goto("exited") /\ Gone
     ELSE Goto(LoopTop) /\ UNCHANGED <<logpipe, fifo, procs>>
  /\ UNCHANGED <<svd, files, pidchanged, wstat, sigterm, selfpipe, pending, starts>>

(* When the service is down for good: exit if there is no log process,     *)
(* else close the log's standard input and wait for it to go.              *)
ExitCheck ==
  /\ pc = "exitck"
  /\ IF svd[0].want = "exit" /\ svd[0].state = "down"
     THEN IF svd[1].pid = NoPid
          THEN Goto("exited") /\ Gone /\ UNCHANGED <<svd, files, pidchanged>>
          ELSE IF svd[1].want # "exit"
          THEN /\ SetAndRecord(1, [svd[1] EXCEPT !.want = "exit"], pidchanged)
               /\ logpipe' = FALSE
               /\ Goto(LoopTop)
               /\ UNCHANGED <<fifo, procs>>
          ELSE Goto(LoopTop) /\ UNCHANGED <<svd, files, pidchanged, logpipe, fifo, procs>>
     ELSE Goto(LoopTop) /\ UNCHANGED <<svd, files, pidchanged, logpipe, fifo, procs>>
  /\ UNCHANGED <<wstat, sigterm, selfpipe, pending, starts>>

LoopStep ==
  \/ \E i \in Dirs : OpenControl(i)
  \/ TopLog \/ TopService
  \/ StopService \/ StopFirst \/ Fork
  \/ PollReturns \/ Drain
  \/ Reap \/ ReapDone
  \/ \E i \in Dirs : ReadControl(i)
  \/ SigTerm
  \/ ExitCheck

----------------------------------------------------------------------------
(* The environment: children, administrators, whoever starts runsv *)

(* A child may end at any time; a stopped one only by SIGKILL.             *)
CanEnd(proc, how) ==
  \/ proc.st = "alive" /\ (how = "signaled" \/ proc.sig # "kill")
  \/ proc.st = "stopped" /\ proc.sig = "kill" /\ how = "signaled"

ChildEnds(p) ==
  /\ \E how \in {"exited", "signaled"} :
       /\ CanEnd(procs[p], how)
       /\ IF procs[p].child
          THEN /\ procs' = [procs EXCEPT ![p].st = "zombie", ![p].how = how]
               /\ pending' = pending \cup {"CHLD"}
          ELSE /\ procs' = [procs EXCEPT ![p] = FreeProc]
               /\ pending' = pending
  /\ UNCHANGED <<pc, call, svd, wstat, pidchanged, sigterm, selfpipe, logpipe,
                 fifo, files, starts>>

(* A command character is written to a control fifo.                       *)
SendCommand(i, c) ==
  /\ Up /\ pc \notin {"boot0", "boot1"}
  /\ IF i = 0 THEN c \in Commands ELSE HasLog /\ c \in LogCommands
  /\ Len(fifo[i]) < MaxFifo
  /\ fifo' = [fifo EXCEPT ![i] = Append(@, c)]
  /\ UNCHANGED <<pc, call, svd, wstat, pidchanged, sigterm, selfpipe, logpipe,
                 pending, files, procs, starts>>

(* runsvdir or an administrator sends runsv SIGTERM.                       *)
SendTerm ==
  /\ Up
  /\ pending' = pending \cup {"TERM"}
  /\ UNCHANGED <<pc, call, svd, wstat, pidchanged, sigterm, selfpipe, logpipe,
                 fifo, files, procs, starts>>

(* runsv is killed between any two stretches of its loop.                  *)
Crash ==
  /\ Up /\ starts < MaxStarts
  /\ Goto("killed")
  /\ Gone
  /\ UNCHANGED <<svd, wstat, pidchanged, sigterm, selfpipe, pending, files, starts>>

(* runsvdir starts another one: memory is fresh, files are what they were. *)
Restart ==
  /\ ~Up /\ starts < MaxStarts
  /\ Goto("boot0")
  /\ svd' \in FreshSvds
  /\ wstat' = NoWstat
  /\ pidchanged' = TRUE
  /\ sigterm' = FALSE /\ selfpipe' = FALSE
  /\ logpipe' = HasLog
  /\ pending' = {}
  /\ starts' = starts + 1
  /\ UNCHANGED <<fifo, files, procs>>

(* Nobody starts runsv again.                                              *)
Terminated == ~Up /\ starts = MaxStarts /\ UNCHANGED vars

Environment ==
  \/ \E p \in Pids : ChildEnds(p)
  \/ \E i \in Dirs, c \in CommandChars : SendCommand(i, c)
  \/ SendTerm
  \/ Crash \/ Restart \/ Terminated

Next ==
  \/ LoopStep
  \/ PollTimeout
  \/ \E sig \in {"TERM", "CHLD"} : Deliver(sig)
  \/ Environment

Spec == Init /\ [][Next]_vars

(***************************************************************************)
(* Fairness.  runsv keeps running and its signals are delivered; signals   *)
(* do not arrive so densely that poll() never returns, and a poll() with   *)
(* nothing to report may take its hour.  A process that was sent a fatal   *)
(* signal and is not stopped ends, ./finish ends, and the log ends at end  *)
(* of file: when runsv and every ./run and ./finish have given up the      *)
(* write end.                                                              *)
(***************************************************************************)
PipeWriters == {p \in Children : procs[p].prog \in {"run", "finish"}
                                 /\ procs[p].st \in {"alive", "stopped"}}
MustEnd(p) ==
  \/ procs[p].sig # "none"
  \/ procs[p].prog = "finish"
  \/ procs[p].prog = "log" /\ ~logpipe /\ PipeWriters = {}

Fairness ==
  /\ WF_vars(LoopStep)
  /\ SF_vars(PollReturns)
  /\ \A sig \in {"TERM", "CHLD"} : WF_vars(Deliver(sig))
  /\ \A p \in Pids : WF_vars(MustEnd(p) /\ ChildEnds(p))

LiveSpec == Spec /\ Fairness

----------------------------------------------------------------------------
(* Safety *)

DirOf(p) == IF procs[p].prog = "log" THEN 1 ELSE 0
ChildrenOf(i) == {p \in Children : DirOf(p) = i}

(* Every pid that ctrl(), stopservice() or startservice() may pass to      *)
(* kill() is that of an unreaped child of this directory: S_RUN implies a  *)
(* pid (kill(0, sig) would signal the process group), and a recorded pid   *)
(* is never that of a reaped, hence reusable, process.                     *)
SignalsHitOwnChild ==
  Up => \A i \in Dirs :
          /\ svd[i].state = "run" => svd[i].pid # NoPid
          /\ svd[i].pid # NoPid => svd[i].pid \in ChildrenOf(i)

(* A directory never has two processes: runsv forks only when the one it   *)
(* forked before has been reaped ("should never happen" in startservice).  *)
OneInstance ==
  \A i \in Dirs : \A p, q \in ChildrenOf(i) : p = q

(* runsv exits only when no process it started is left.                    *)
ExitLeavesNoChild ==
  [][pc = "exitck" /\ pc' = "exited" => Children = {}]_vars

(* Whenever runsv sleeps in poll(), the status and stat files that sv and  *)
(* people read describe what is in memory, and supervise/pid names the     *)
(* process; log/supervise/pid is right once the log has a process.         *)
RecordedStatus ==
  pc = "poll" => \A i \in IF HasLog THEN Dirs ELSE {0} :
    /\ files[i].status = StatusOf(svd[i])
    /\ files[i].stat = StatOf(svd[i])
    /\ i = 0 \/ svd[i].pid # NoPid => files[i].pid = svd[i].pid

(* An update of supervise/pid that could not be put in place is not        *)
(* forgotten: while pidchanged is clear the file is empty or names the     *)
(* current process, never an earlier one.                                  *)
PidFlagSound == Up /\ ~pidchanged => files[0].pid \in {svd[0].pid, NoPid}

(* ./finish is told how ./run ended (comment above startservice's arg[]).  *)
FinishGetsRunStatus ==
  \A p \in Pids : procs[p].prog = "finish" => procs[p].args.prog = "run"

(* A ./run that ended is followed by its ./finish: once runsv is due to    *)
(* start ./finish, it does ("If ./run exits, start ./finish if it exists").*)
FinishIsNotSkipped ==
  [][pc' \notin {"killed", "boot0"} /\ svd[0].state = "finish" /\ svd[0].pid = NoPid
       => svd'[0].state = "finish"]_vars

(* "should never happen" in startservice(): a directory is started only    *)
(* when it has no process.                                                 *)
StartsOnlyWhenIdle == pc = "start" => svd[call.dir].pid = NoPid

(* "exit: send TERM and CONT signals to service and log service": when     *)
(* runsv waits for the log to go, the log has been told so.                *)
ExitSignalsLog ==
  pc = "poll" /\ svd[1].want = "exit" /\ svd[1].pid # NoPid
    => procs[svd[1].pid].sig = "term" \/ procs[svd[1].pid].st = "zombie"

(* "If runsv cannot start ./run for some reason, the exit code is 111 and  *)
(* the status is 0", says the comment on the arguments of ./finish.        *)
CannotStartIs111 ==
  \A p \in Pids : procs[p].prog = "finish" /\ wstat = [prog |-> "run", how |-> "noexec"]
    /\ procs[p].child => procs[p].args.code = "111" /\ procs[p].args.sig = "0"

(* The directory lives the abstract life: one process at a time, ./run,    *)
(* then ./finish, then ./run again.                                        *)
ServiceLive == IF Up THEN ChildrenOf(0) ELSE {}
ServicePhase == IF Up THEN svd[0].state ELSE "down"
Life == INSTANCE ServiceLife
          WITH Process <- Pids, phase <- ServicePhase, live <- ServiceLive,
               watched <- Up
ImplementsLife == Life!LifeSpec

----------------------------------------------------------------------------
(* Liveness *)

Stopped(i) == svd[i].pid # NoPid /\ procs[svd[i].pid].st = "stopped"

(* A service that was asked to exit, and is not stopped over and over,     *)
(* ends, its log ends, and then runsv exits; unless somebody keeps telling *)
(* the log to go up again.                                                 *)
ExitCompletes ==
  []<>(~Up \/ svd[0].want # "exit" \/ Stopped(0)
           \/ \E k \in DOMAIN fifo[1] : fifo[1][k] = "u")

(* "up: if service isn't running, start it. If service stops, restart it": *)
(* as long as the service is wanted up it runs again and again.            *)
UpMeansRunning ==
  []<>(~Up \/ svd[0].want # "up"
           \/ \E p \in ChildrenOf(0) : procs[p].st \in {"alive", "stopped"})

=============================================================================
