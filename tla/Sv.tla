--------------------------------- MODULE Sv ---------------------------------
(***************************************************************************)
(* runit/sv.c: the client of runsv, composed with it.                      *)
(*                                                                         *)
(* One sv works on one service.  It reads supervise/status, writes to      *)
(* supervise/control, and, if it is to wait, reads the status again until  *)
(* its command has taken effect or time is up.  Meanwhile runsv and its    *)
(* children go on, and others write to the fifo (SendCommand of Runsv).    *)
(***************************************************************************)
EXTENDS Runsv

CONSTANTS
  Words,       \* commands sv is called with, see Meaning
  HasCheck,    \* the service has a ./check script
  MaxCalls     \* bound: times sv is called

(* The switch in sv(): what goes to the fifo, whether sv sends "k" at the  *)
(* end, whether it waits, and whether it sends anything at all.            *)
Do(acts, kll, cbk) == [acts |-> acts, kll |-> kll, cbk |-> cbk, act |-> TRUE]
Meaning ==
  [up |-> Do(<<"u">>, FALSE, FALSE), down |-> Do(<<"d">>, FALSE, FALSE),
   once |-> Do(<<"o">>, FALSE, FALSE), exit |-> Do(<<"x">>, FALSE, FALSE),
   onceV |-> Do(<<"o">>, FALSE, TRUE), pauseV |-> Do(<<"p">>, FALSE, TRUE),
   contV |-> Do(<<"c">>, FALSE, TRUE), reload |-> Do(<<"s">>, FALSE, TRUE),
   start |-> Do(<<"u">>, FALSE, TRUE), stop |-> Do(<<"d">>, FALSE, TRUE),
   shutdown |-> Do(<<"x">>, FALSE, TRUE), restart |-> Do(<<"t", "c", "u">>, FALSE, TRUE),
   tryRestart |-> Do(<<"t", "c">>, FALSE, TRUE),
   forceStop |-> Do(<<"d">>, TRUE, TRUE), forceShutdown |-> Do(<<"x">>, TRUE, TRUE),
   forceRestart |-> Do(<<"t", "c", "u">>, TRUE, TRUE),
   check |-> [Do(<<"C">>, FALSE, TRUE) EXCEPT !.act = FALSE]]

ASSUME SvAssumption == Words \subseteq DOMAIN Meaning /\ HasCheck \in BOOLEAN /\ MaxCalls \in Nat

VARIABLES
  sv,          \* the sv process
  since,       \* time_be64 of the status is not before tstart
  alone,       \* nobody else's command waited or came since sv began
  old,         \* processes of the service from before sv began
  calls        \* times sv was called

svvars == <<sv, since, alone, old, calls>>
allvars == <<vars, svvars>>

Idle == [at |-> "idle", word |-> "none", rc |-> 0, same |-> FALSE, late |-> FALSE]

SvInit == Init /\ sv = Idle /\ since = FALSE /\ alone = FALSE /\ old = {} /\ calls = 0

Todo == Meaning[sv.word]
Goes(at) == sv' = [sv EXCEPT !.at = at]
Fails(at) == sv' = [sv EXCEPT !.at = at, !.rc = @ + 1]

----------------------------------------------------------------------------
(* The status file *)

(* open() for writing of a fifo that nobody reads fails with this errno.   *)
NoReader == "ENXIO"

(* svstatus_get(): 1, 0 or -1.  The reading end of supervise/ok is open    *)
(* from open_control() on; status is replaced by rename(), hence whole.    *)
SvstatusGet ==
  IF Up /\ pc # "boot0" THEN IF files[0].status = Absent THEN "-1" ELSE "1"
  ELSE IF NoReader = "ENODEV" THEN "0" ELSE "-1"
Status == files[0].status

(* The exit code after svstatus_get() did not return 1: "runsv not         *)
(* running" is no failure for "x".                                         *)
GetFails(at) ==
  IF SvstatusGet = "0" /\ Todo.acts[1] = "x" THEN Goes(at) ELSE Fails(at)

----------------------------------------------------------------------------
(* control() *)

Next1 == IF Todo.cbk THEN "check" ELSE "done"

(* Mutant: "down" is left out as soon as the service is wanted down.       *)
SkipsEarly == Status.want = Todo.acts[1]

(* Is the service wanted so already?                                       *)
Skips == /\ Status.want = Todo.acts[1]
         /\ Todo.acts[1] # "d" \/ Status.got_term

Begin(w) ==
  /\ sv.at = "idle" /\ calls < MaxCalls /\ calls' = calls + 1
  /\ \E same \in BOOLEAN :
       /\ sv' = [at |-> IF Meaning[w].act THEN "control" ELSE "check", word |-> w,
                 rc |-> 0, same |-> same, late |-> FALSE]
       /\ since' = same
  /\ alone' = (fifo[0] = <<>>) /\ old' = ChildrenOf(0)
  /\ UNCHANGED vars

Control ==
  /\ sv.at = "control"
  /\ \/ SvstatusGet # "1" /\ GetFails("done")
     \/ SvstatusGet = "1" /\ Goes(IF Skips THEN Next1 ELSE "write")
  /\ UNCHANGED <<vars, since, alone, old, calls>>

(* Mutant: the first character only is sent.                               *)
WriteFifoShort ==
  /\ sv.at = "write"
  /\ \/ Up /\ pc # "boot0" /\ fifo' = [fifo EXCEPT ![0] = Append(@, Todo.acts[1])] /\ Goes(Next1)
     \/ ~(Up /\ pc # "boot0") /\ Fails("done") /\ UNCHANGED fifo
  /\ UNCHANGED <<pc, call, svd, wstat, pidchanged, sigterm, selfpipe, logpipe,
                 pending, files, procs, starts, since, alone, old, calls>>

(* Time passes before the fifo is opened: runsv may be gone.               *)
WriteFifo ==
  /\ sv.at = "write"
  /\ \/ Up /\ pc # "boot0" /\ fifo' = [fifo EXCEPT ![0] = @ \o Todo.acts] /\ Goes(Next1)
     \/ ~(Up /\ pc # "boot0") /\ Fails("done") /\ UNCHANGED fifo
  /\ UNCHANGED <<pc, call, svd, wstat, pidchanged, sigterm, selfpipe, logpipe,
                 pending, files, procs, starts, since, alone, old, calls>>

----------------------------------------------------------------------------
(* check() *)

(* Mutant: the time of the status is not looked at.                        *)
ReachedAnyTime(c, script) ==
  CASE c = "u" -> Status.pid # NoPid /\ Status.state = "run" /\ script
    [] c = "d" -> Status.pid = NoPid /\ Status.state = "down"
    [] c = "t" -> IF Status.pid = NoPid THEN Status.want = "d" ELSE ~Status.got_term /\ script
    [] OTHER -> c # "x"

(* Has the status reached what the character c asks for?                   *)
Reached(c, script) ==
  LET pid == Status.pid # NoPid IN
  CASE c = "x" -> FALSE
    [] c = "u" -> pid /\ Status.state = "run" /\ script
    [] c = "d" -> ~pid /\ Status.state = "down"
    [] c = "C" -> ~pid \/ script
    [] c \in {"t", "k"} -> \/ ~pid /\ Status.want = "d"
                           \/ since /\ pid /\ ~Status.got_term /\ script
    [] c = "o" -> (pid \/ since) /\ (pid => Status.want = "d")
    [] c = "p" -> pid => Status.paused
    [] c = "c" -> pid => ~Status.paused
    [] c = "s" -> TRUE

(* The last round of the waiting loop: check() finds the command done, or  *)
(* cannot read the status, or time is up.  Earlier rounds change nothing.  *)
Check ==
  /\ sv.at = "check"
  /\ \/ SvstatusGet # "1" /\ GetFails("done")
     \/ /\ SvstatusGet = "1"
        /\ \E script \in IF HasCheck THEN BOOLEAN ELSE {TRUE} :
             IF \A k \in DOMAIN Todo.acts : Reached(Todo.acts[k], script)
             THEN Goes("done")
             ELSE sv' = [sv EXCEPT !.at = IF Todo.kll THEN "kill" ELSE "done", !.rc = @ + 1, !.late = TRUE]
  /\ UNCHANGED <<vars, since, alone, old, calls>>

(* control("k") when time is up.                                           *)
KillControl ==
  /\ sv.at = "kill"
  /\ \/ SvstatusGet # "1" /\ GetFails("done")
     \/ SvstatusGet = "1" /\ Goes("killwrite")
  /\ UNCHANGED <<vars, since, alone, old, calls>>

KillWrite ==
  /\ sv.at = "killwrite"
  /\ \/ Up /\ pc # "boot0" /\ fifo' = [fifo EXCEPT ![0] = Append(@, "k")] /\ Goes("done")
     \/ ~(Up /\ pc # "boot0") /\ Fails("done") /\ UNCHANGED fifo
  /\ UNCHANGED <<pc, call, svd, wstat, pidchanged, sigterm, selfpipe, logpipe,
                 pending, files, procs, starts, since, alone, old, calls>>

Exit ==
  /\ sv.at = "done" /\ sv' = Idle
  /\ since' = FALSE /\ alone' = FALSE /\ old' = {}
  /\ UNCHANGED <<vars, calls>>

SvStep == Control \/ WriteFifo \/ Check \/ KillControl \/ KillWrite \/ Exit

----------------------------------------------------------------------------
(* runsv goes on; it ends when it is told to, but is not killed.           *)
(* svd[0].start is set with each fork but that of ./finish and with each   *)
(* reaped process, and recorded with the new pid.                          *)

NewStart == files'[0].pid # files[0].pid /\ (svd'[0].state # "finish" \/ svd'[0].pid = NoPid)
Beside(A) ==
  /\ A /\ UNCHANGED <<sv, alone, calls>>
  /\ since' = (since \/ (sv.at # "idle" /\ NewStart))
  /\ old' = {p \in old : procs'[p].st # "free"}
RunsvStep ==
  \/ LoopStep \/ PollTimeout \/ \E sig \in {"TERM", "CHLD"} : Deliver(sig)
  \/ \E p \in Pids : ChildEnds(p)
  \/ Terminated
Others == /\ \E c \in Commands : SendCommand(0, c)
          /\ alone' = FALSE /\ UNCHANGED <<sv, since, old, calls>>

SvNext == SvStep \/ Beside(RunsvStep) \/ Others \/ \E w \in Words : Begin(w)
SvSpec == SvInit /\ [][SvNext]_allvars

(* sv ends each of its steps but the last one, so that it may have been    *)
(* the last sv; of its processes runsv can only count on a SIGKILL.        *)
SvFairSpec ==
  /\ SvSpec
  /\ WF_allvars(Control \/ WriteFifo \/ Check \/ KillControl \/ KillWrite)
  /\ WF_allvars(Beside(LoopStep)) /\ SF_allvars(Beside(PollReturns))
  /\ \A sig \in {"TERM", "CHLD"} : WF_allvars(Beside(Deliver(sig)))
  /\ \A p \in Pids : WF_allvars(procs[p].sig = "kill" /\ Beside(ChildEnds(p)))

----------------------------------------------------------------------------
(* Properties *)

(* What the service is wanted to be once runsv has read all commands.      *)
Wanting == {k \in DOMAIN fifo[0] : fifo[0][k] \in DOMAIN WantOf}
Intended == IF Wanting = {} THEN svd[0].want
            ELSE WantOf[fifo[0][CHOOSE k \in Wanting : \A j \in Wanting : j <= k]]

(* "sv exits 0, if the command was successfully sent": if nobody else's    *)
(* command was on its way, runsv wants what sv was told, or soon will.     *)
Obeyed ==
  sv.at = "done" /\ sv.rc = 0 /\ alone /\ Todo.act /\ Up =>
    LET c == Todo.acts[Len(Todo.acts)] IN
    /\ c = "u" => Intended = "up"
    /\ c \in {"d", "o"} => Intended # "up"
    /\ c = "x" => Intended = "exit"

(* The same, also when a command of an earlier sv is still in the fifo.    *)
LastObeyed ==
  sv.at = "done" /\ sv.rc = 0 /\ sv.word = "up" /\ Up => Intended = "up"

(* "wait up to 7 seconds for the service to restart": sv restart reports   *)
(* success for a process that was not there when it began, unless that     *)
(* one was started in the same second.                                     *)
RestartIsNew ==
  [][sv.at = "check" /\ sv'.at = "done" /\ sv'.rc = 0 /\ "t" \in {Todo.acts[k] : k \in DOMAIN Todo.acts}
       => sv.same \/ svd[0].pid \notin old]_allvars

(* "stop: ... wait up to 7 seconds for the service to become down": once   *)
(* it has reported success, the service is not started again.              *)
StopIsFinal ==
  [][sv.at = "done" /\ sv.word = "stop" /\ sv.rc = 0 /\ alone
       => ChildrenOf(0)' \subseteq ChildrenOf(0)]_allvars

(* "wait up to 7 seconds for the runsv(8) process to terminate": sv        *)
(* shutdown exits 0 when runsv has terminated.                             *)
ShutdownReported ==
  [][sv.at = "check" /\ sv'.at = "done" /\ sv.word = "shutdown" /\ ~Up => sv'.rc = 0]_allvars

(* The last sv exited 0, with nobody interfering.                          *)
Last(words) == sv.at = "done" /\ sv.rc = 0 /\ sv.word \in words /\ alone /\ Up

(* "the command has taken effect": a service that heeds SIGTERM ends after *)
(* the last down or stop, and after the last up, start or restart it runs  *)
(* again and again.  "on timeout send the service the kill command": one   *)
(* on which force-stop timed out ends, whether it heeds SIGTERM or not.    *)
(* And sv itself always comes to its end.                                  *)
HeedsTerm == \A p \in Pids : WF_allvars(procs[p].sig # "none" /\ Beside(ChildEnds(p)))
Forced == sv.at = "done" /\ sv.word = "forceStop" /\ sv.late /\ alone /\ Up
TakesEffect ==
  /\ []<>(sv.at \in {"idle", "done"})
  /\ HeedsTerm =>
       /\ <>[]Last({"down", "stop"}) => <>[](ChildrenOf(0) = {})
       /\ <>[]Last({"up", "start", "restart"}) => []<>(\E p \in ChildrenOf(0) : procs[p].st = "alive")
  /\ <>[]Forced => <>[](ChildrenOf(0) = {})

=============================================================================
