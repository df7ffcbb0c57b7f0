---------------------------- MODULE RunsvProofs ----------------------------
(***************************************************************************)
(* Proofs about Runsv, for every set of pids, every set of commands and    *)
(* scripts, with and without log, ./finish, disk errors and restarts;      *)
(* then those that need a runsv that is never sent the 'k' command.        *)
(***************************************************************************)
EXTENDS Runsv, TLAPS

----------------------------------------------------------------------------
(* Types *)

(* An assignment to one entry of a table leaves the other entries alone.   *)
LEMMA OneChanged ==
  ASSUME NEW S, NEW T, NEW f \in [S -> T], NEW x \in S, NEW v,
         NEW g, g = [f EXCEPT ![x] = v]
  PROVE  g[x] = v /\ \A y \in S \ {x} : g[y] = f[y]
  OBVIOUS

(* A free entry of the process table is well formed.                       *)
LEMMA FreeProcType == FreeProc \in Proc
<1>1. NoArgs \in Args
  BY DEF NoArgs, Args, Progs
<1>2. QED
  BY <1>1 DEF FreeProc, Proc, ProcStates, Ends, Progs

(* kill() keeps the process table well formed.                             *)
LEMMA KillType ==
  ASSUME NEW ps \in [Pids -> Proc], NEW pid \in PidOrNone,
         NEW sig \in {"KILL", "TERM", "STOP", "CONT"}
  PROVE  Kill(ps, pid, sig) \in [Pids -> Proc]
<1>1. \A p \in Pids : Hit(ps[p], sig) \in Proc
  BY DEF Hit, Proc, ProcStates
<1>2. QED
  BY <1>1 DEF Kill

(* update_status() keeps the files well formed.                            *)
LEMMA UpdateStatusType ==
  ASSUME TypeOK, NEW i \in Dirs, NEW s \in Svdir, NEW changed \in BOOLEAN,
         UpdateStatus(i, s, changed)
  PROVE  pidchanged' \in BOOLEAN /\ files' \in [Dirs -> FileSet]
<1>1. PICK failed \in Failures :
        \/ pidchanged' = TRUE /\ files' = files
        \/ /\ pidchanged' = FALSE
           /\ files' = [files EXCEPT ![i] = NewFiles(@, s, changed, failed)]
  BY DEF UpdateStatus
<1>2. StatOf(s) \in StatText /\ StatusOf(s) \in StatusRec
  BY DEF StatOf, StatusOf, StatText, StatusRec, Svdir, Wants
<1>3. files[i] \in FileSet /\ s.pid \in PidOrNone
  BY DEF TypeOK, Svdir
<1>4. NewFiles(files[i], s, changed, failed) \in FileSet
  BY <1>2, <1>3, Zenon DEF NewFiles, FileSet, PidOrNone
<1>5. QED
  BY <1>1, <1>4, Zenon DEF TypeOK

(* So does assigning to an svdir and recording it.                         *)
LEMMA SetAndRecordType ==
  ASSUME TypeOK, NEW i \in Dirs, NEW s \in Svdir, NEW changed \in BOOLEAN,
         SetAndRecord(i, s, changed)
  PROVE  /\ svd' \in [Dirs -> Svdir]
         /\ pidchanged' \in BOOLEAN /\ files' \in [Dirs -> FileSet]
<1>1. pidchanged' \in BOOLEAN /\ files' \in [Dirs -> FileSet]
  BY UpdateStatusType DEF SetAndRecord
<1>2. svd' \in [Dirs -> Svdir]
  BY DEF SetAndRecord, TypeOK
<1>3. QED
  BY <1>1, <1>2

(* stopservice() keeps the types.                                          *)
LEMMA StopBodyType ==
  ASSUME TypeOK, NEW i \in Dirs, StopBody(i)
  PROVE  /\ svd' \in [Dirs -> Svdir] /\ procs' \in [Pids -> Proc]
         /\ pidchanged' \in BOOLEAN /\ files' \in [Dirs -> FileSet]
<1> DEFINE s == svd[i]
<1>1. s \in Svdir /\ s.pid \in PidOrNone
  BY DEF TypeOK, Svdir
<1>2. Kill(procs, s.pid, "TERM") \in [Pids -> Proc]
  BY <1>1, KillType, Zenon DEF TypeOK
<1>3. \A ps \in [Pids -> Proc] : Kill(ps, s.pid, "CONT") \in [Pids -> Proc]
  BY <1>1, KillType
<1>4. [s EXCEPT !.ctrl = @ \cup {"TERM"}] \in Svdir
  BY <1>1 DEF Svdir, Flags
<1>5. PICK handled \in Custom(i, "t") :
        LET termed == s.pid # NoPid /\ ~handled
            ps == IF termed THEN Kill(procs, s.pid, "TERM") ELSE procs
        IN /\ procs' = IF s.want \in {"down", "exit"} THEN Kill(ps, s.pid, "CONT") ELSE ps
           /\ IF termed
              THEN SetAndRecord(i, [s EXCEPT !.ctrl = @ \cup {"TERM"}], pidchanged)
              ELSE UNCHANGED <<svd, files, pidchanged>>
  BY DEF StopBody
<1>6. procs' \in [Pids -> Proc]
  BY <1>2, <1>3, <1>5, Zenon DEF TypeOK
<1>7. CASE s.pid # NoPid /\ ~handled
  <2>1. SetAndRecord(i, [s EXCEPT !.ctrl = @ \cup {"TERM"}], pidchanged)
    BY <1>5, <1>7
  <2>2. QED
    BY <1>4, <1>6, <2>1, SetAndRecordType DEF TypeOK
<1>8. CASE ~(s.pid # NoPid /\ ~handled)
  BY <1>5, <1>6, <1>8 DEF TypeOK
<1>9. QED
  BY <1>7, <1>8

(* ctrl() keeps the types, whatever the command.                           *)
LEMMA CtrlType ==
  ASSUME TypeOK, NEW i \in Dirs, NEW c \in CommandChars, NEW ret \in Returns,
         Ctrl(i, c, ret)
  PROVE  /\ svd' \in [Dirs -> Svdir] /\ procs' \in [Pids -> Proc]
         /\ pidchanged' \in BOOLEAN /\ files' \in [Dirs -> FileSet]
         /\ pc' \in PCs /\ call' \in [dir : Dirs, ret : Returns]
<1>1. /\ svd[i] \in Svdir /\ svd[i].pid \in PidOrNone
      /\ NoCall \in [dir : Dirs, ret : Returns] /\ ret \in PCs
  BY DEF TypeOK, Svdir, NoCall, Dirs, Returns, PCs
<1>2. CASE CtrlWant(i, c, ret)
  <2>1. WantOf[c] \in Wants /\ SetAndRecord(i, [svd[i] EXCEPT !.want = WantOf[c]], pidchanged)
    BY <1>2 DEF CtrlWant, WantOf, Wants
  <2>2. [svd[i] EXCEPT !.want = WantOf[c]] \in Svdir
    BY <1>1, <2>1 DEF Svdir
  <2>3. pc' \in PCs /\ call' \in [dir : Dirs, ret : Returns]
    BY <1>1, <1>2 DEF CtrlWant, Call, Goto, PCs
  <2>4. QED
    BY <1>2, <2>1, <2>2, <2>3, SetAndRecordType DEF CtrlWant, TypeOK
<1>3. CASE CtrlTerm(i, c, ret)
  BY <1>1, <1>3 DEF CtrlTerm, Call, Goto, PCs, TypeOK
<1>4. CASE CtrlKill(i, c, ret)
  <2>0. procs \in [Pids -> Proc] /\ Kill(procs, svd[i].pid, "KILL") \in [Pids -> Proc]
    BY <1>1, KillType, Zenon DEF TypeOK
  <2>1. procs' \in [Pids -> Proc]
    BY <1>4, <2>0 DEF CtrlKill
  <2>2. svd' \in [Dirs -> Svdir]
    BY <1>1, <1>4, Zenon DEF CtrlKill, TypeOK, Svdir, States
  <2>3. QED
    BY <1>1, <1>4, <2>1, <2>2 DEF CtrlKill, Goto, TypeOK
<1>5. CASE CtrlPause(i, c, ret)
  <2> DEFINE s == [svd[i] EXCEPT !.ctrl = IF c = "p" THEN @ \cup {"PAUSE"}
                                         ELSE @ \ {"PAUSE"}]
  <2>0. /\ Kill(procs, svd[i].pid, "STOP") \in [Pids -> Proc]
        /\ Kill(procs, svd[i].pid, "CONT") \in [Pids -> Proc]
    BY <1>1, KillType, Zenon DEF TypeOK
  <2>1. procs' \in [Pids -> Proc]
    BY <1>5, <2>0 DEF CtrlPause, TypeOK
  <2>2. s \in Svdir
    BY <1>1 DEF Svdir, Flags
  <2>3. SetAndRecord(i, s, pidchanged)
    BY <1>5 DEF CtrlPause
  <2>4. svd' \in [Dirs -> Svdir] /\ pidchanged' \in BOOLEAN /\ files' \in [Dirs -> FileSet]
    BY <2>2, <2>3, SetAndRecordType DEF TypeOK
  <2>5. QED
    BY <1>1, <1>5, <2>1, <2>4 DEF CtrlPause, Goto
<1>6. CASE CtrlOther(i, c, ret)
  BY <1>1, <1>6 DEF CtrlOther, Goto, TypeOK
<1>7. QED
  BY <1>2, <1>3, <1>4, <1>5, <1>6 DEF Ctrl

(* Giving up the children keeps the process table well formed.             *)
LEMMA GoneType ==
  ASSUME TypeOK, Gone
  PROVE  /\ procs' \in [Pids -> Proc] /\ logpipe' \in BOOLEAN
         /\ fifo' \in [Dirs -> Seq(CommandChars)]
<1>1. \A p \in Pids : Orphan(procs[p]) \in Proc
  <2>1. TAKE p \in Pids
  <2>2. procs[p] \in Proc
    BY DEF TypeOK
  <2>3. [procs[p] EXCEPT !.child = FALSE] \in Proc
    BY <2>2, Zenon DEF Proc
  <2>4. QED
    BY <2>2, <2>3, FreeProcType DEF Orphan
<1>2. <<>> \in Seq(CommandChars)
  OBVIOUS
<1>3. QED
  BY <1>1, <1>2, Zenon DEF Gone

(* Every component of runsv_main's state keeps its type in every run.      *)
THEOREM TypeCorrect == Spec => []TypeOK
<1>0. NoCall \in [dir : Dirs, ret : Returns] /\ NoWstat \in Wstat
  BY DEF NoCall, Dirs, Returns, NoWstat, Wstat, Progs, Ends
<1>1. FreshSvds \subseteq [Dirs -> Svdir]
  BY DEF FreshSvds, NewSvdir, Svdir, PidOrNone, States, Flags, Wants
<1>2. Init => TypeOK
  <2> SUFFICES ASSUME Init PROVE TypeOK
    OBVIOUS
  <2>1. [pid |-> NoPid, stat |-> Absent, status |-> Absent] \in FileSet
    BY DEF FileSet, PidOrNone
  <2>2. <<>> \in Seq(CommandChars)
    OBVIOUS
  <2>3. QED
    BY <1>0, <1>1, <2>1, <2>2, FreeProcType, FlagAssumption, Zenon DEF Init, TypeOK, PCs
<1>3. TypeOK /\ [Next]_vars => TypeOK'
  <2> SUFFICES ASSUME TypeOK, [Next]_vars PROVE TypeOK'
    OBVIOUS
  <2>0. LoopTop \in PCs /\ call.dir \in Dirs /\ call.ret \in PCs
    BY DEF LoopTop, PCs, TypeOK, Returns
  <2>1. CASE \E i \in Dirs : OpenControl(i)
    <3>1. PICK i \in Dirs : OpenControl(i)
      BY <2>1
    <3>2. pidchanged' \in BOOLEAN /\ files' \in [Dirs -> FileSet]
      BY <3>1, UpdateStatusType DEF OpenControl, TypeOK
    <3>3. pc' \in PCs /\ call' \in [dir : Dirs, ret : Returns]
      BY <1>0, <2>0, <3>1 DEF OpenControl, Goto, PCs
    <3>4. QED
      BY <3>1, <3>2, <3>3 DEF OpenControl, TypeOK
  <2>2. CASE TopLog
    BY <1>0, <2>2 DEF TopLog, Call, Goto, TypeOK, PCs, Dirs, Returns
  <2>3. CASE TopService
    BY <1>0, <2>3 DEF TopService, Call, Goto, TypeOK, PCs, Dirs, Returns
  <2>4. CASE StopService
    BY <1>0, <2>0, <2>4, StopBodyType DEF StopService, Goto, TypeOK
  <2>5. CASE StopFirst
    BY <2>0, <2>5, StopBodyType DEF StopFirst, TypeOK, PCs
  <2>6. CASE Fork
    <3> DEFINE i == call.dir
    <3>1. PICK p \in FreePids :
            /\ procs' = [procs EXCEPT ![p] = Spawned(i)]
            /\ pending' = IF Spawned(i).st = "zombie" THEN pending \cup {"CHLD"} ELSE pending
            /\ SetAndRecord(i, [svd[i] EXCEPT !.pid = p, !.ctrl = {},
                                 !.state = IF @ = "finish" THEN @ ELSE "run"], TRUE)
      BY <2>6, Zenon DEF Fork
    <3>2. FinishArgs(wstat) \in Args
      BY DEF FinishArgs, Args, TypeOK, Wstat, Ends
    <3>3. Spawned(i) \in Proc
      BY <3>2 DEF Spawned, ProgOf, Proc, NoArgs, Args, Progs, ProcStates, Ends
    <3>4. p \in Pids /\ svd[i] \in Svdir
      BY <2>0 DEF FreePids, TypeOK
    <3>5. [svd[i] EXCEPT !.pid = p, !.ctrl = {},
             !.state = IF @ = "finish" THEN @ ELSE "run"] \in Svdir
      BY <3>4, Zenon DEF Svdir, PidOrNone, States
    <3>6. svd' \in [Dirs -> Svdir] /\ pidchanged' \in BOOLEAN /\ files' \in [Dirs -> FileSet]
      BY <2>0, <3>1, <3>5, SetAndRecordType, Zenon
    <3>7. procs' \in [Pids -> Proc] /\ pending' \in SUBSET {"TERM", "CHLD"}
      BY <3>1, <3>3, Zenon DEF TypeOK
    <3>8. pc' \in PCs /\ call' \in [dir : Dirs, ret : Returns]
      BY <1>0, <2>0, <2>6 DEF Fork, Goto
    <3>9. QED
      BY <2>6, <3>6, <3>7, <3>8 DEF Fork, TypeOK
  <2>7. CASE \E sig \in {"TERM", "CHLD"} : Deliver(sig)
    BY <2>7 DEF Deliver, TypeOK
  <2>8. CASE PollReturns \/ PollTimeout \/ Drain \/ ReapDone
    BY <1>0, <2>8, Zenon DEF PollReturns, PollTimeout, Drain, ReapDone, Goto, TypeOK, PCs
  <2>9. CASE Reap
    <3>1. PICK p \in Zombies :
            /\ procs' = [procs EXCEPT ![p] = FreeProc]
            /\ \/ ReapService(p)
               \/ ReapLog(p)
               \/ UNCHANGED <<svd, wstat, files, pidchanged>>
      BY <2>9, Zenon DEF Reap
    <3>2. p \in Pids /\ procs[p] \in Proc
      BY DEF Zombies, Children, TypeOK
    <3>3. [prog |-> procs[p].prog, how |-> procs[p].how] \in Wstat
      BY <3>2 DEF Proc, Wstat
    <3>4. procs' \in [Pids -> Proc]
      BY <3>1, FreeProcType, Zenon DEF TypeOK
    <3>5. svd[0] \in Svdir /\ svd[1] \in Svdir
      BY DEF TypeOK, Dirs
    <3>6. /\ [svd[0] EXCEPT !.pid = NoPid, !.ctrl = @ \ {"TERM"},
                !.state = IF svd[0].state # "finish" /\ HasFinish THEN "finish" ELSE "down"] \in Svdir
          /\ [svd[1] EXCEPT !.pid = NoPid, !.ctrl = @ \ {"TERM"}, !.state = "down"] \in Svdir
      BY <3>5, Zenon DEF Svdir, PidOrNone, States
    <3>7. /\ wstat' \in Wstat /\ svd' \in [Dirs -> Svdir]
          /\ pidchanged' \in BOOLEAN /\ files' \in [Dirs -> FileSet]
      <4>1. CASE ReapService(p)
        BY <3>3, <3>6, <4>1, SetAndRecordType, Zenon DEF ReapService, Dirs
      <4>2. CASE ReapLog(p)
        BY <3>3, <3>6, <4>2, SetAndRecordType, Zenon DEF ReapLog, Dirs
      <4>3. CASE UNCHANGED <<svd, wstat, files, pidchanged>>
        BY <4>3 DEF TypeOK
      <4>4. QED
        BY <3>1, <4>1, <4>2, <4>3
    <3>8. QED
      BY <2>9, <3>4, <3>7 DEF Reap, TypeOK
  <2>10. CASE \E i \in Dirs : ReadControl(i)
    <3>1. PICK i \in Dirs : ReadControl(i)
      BY <2>10
    <3> DEFINE ret == IF i = 0 /\ HasLog THEN "ctl1" ELSE "term"
    <3>2. ret \in Returns /\ ret \in PCs
      BY DEF Returns, PCs
    <3>3. CASE fifo[i] = <<>> /\ Goto(ret) /\ UNCHANGED <<svd, files, pidchanged, procs, fifo>>
      BY <1>0, <3>1, <3>2, <3>3 DEF ReadControl, Goto, TypeOK
    <3>4. CASE /\ fifo[i] # <<>> /\ fifo' = [fifo EXCEPT ![i] = Tail(@)]
               /\ Ctrl(i, Head(fifo[i]), ret)
      <4>1. fifo[i] \in Seq(CommandChars)
        BY DEF TypeOK
      <4>2. Head(fifo[i]) \in CommandChars /\ Tail(fifo[i]) \in Seq(CommandChars)
        BY <3>4, <4>1
      <4>3. fifo' \in [Dirs -> Seq(CommandChars)]
        BY <3>4, <4>2 DEF TypeOK
      <4>4. /\ svd' \in [Dirs -> Svdir] /\ procs' \in [Pids -> Proc]
            /\ pidchanged' \in BOOLEAN /\ files' \in [Dirs -> FileSet]
            /\ pc' \in PCs /\ call' \in [dir : Dirs, ret : Returns]
        BY <3>2, <3>4, <4>2, CtrlType
      <4>5. QED
        BY <3>1, <4>3, <4>4 DEF ReadControl, TypeOK
    <3>5. QED
      BY <3>1, <3>3, <3>4 DEF ReadControl
  <2>11. CASE SigTerm
    <3>1. CASE sigterm
      <4>1. "x" \in CommandChars /\ "exitck" \in Returns /\ 0 \in Dirs
        BY DEF CommandChars, Returns, Dirs
      <4>2. /\ svd' \in [Dirs -> Svdir] /\ procs' \in [Pids -> Proc]
            /\ pidchanged' \in BOOLEAN /\ files' \in [Dirs -> FileSet]
            /\ pc' \in PCs /\ call' \in [dir : Dirs, ret : Returns]
        BY <2>11, <3>1, <4>1, CtrlType DEF SigTerm
      <4>3. QED
        BY <2>11, <4>2, Zenon DEF SigTerm, TypeOK
    <3>2. CASE ~sigterm
      BY <1>0, <2>11, <3>2, Zenon DEF SigTerm, Goto, TypeOK, PCs
    <3>3. QED
      BY <3>1, <3>2
  <2>12. CASE ExitCheck
    <3>1. CASE Goto("exited") /\ Gone /\ UNCHANGED <<svd, files, pidchanged>>
      BY <1>0, <2>12, <3>1, GoneType DEF ExitCheck, Goto, TypeOK, PCs
    <3>2. CASE /\ SetAndRecord(1, [svd[1] EXCEPT !.want = "exit"], pidchanged)
               /\ logpipe' = FALSE /\ Goto(LoopTop) /\ UNCHANGED <<fifo, procs>>
      <4>1. 1 \in Dirs /\ [svd[1] EXCEPT !.want = "exit"] \in Svdir
        BY Zenon DEF TypeOK, Dirs, Svdir, Wants
      <4>2. svd' \in [Dirs -> Svdir] /\ pidchanged' \in BOOLEAN /\ files' \in [Dirs -> FileSet]
        BY <3>2, <4>1, SetAndRecordType DEF TypeOK
      <4>3. QED
        BY <1>0, <2>0, <2>12, <3>2, <4>2, Zenon DEF ExitCheck, Goto, TypeOK
    <3>3. CASE Goto(LoopTop) /\ UNCHANGED <<svd, files, pidchanged, logpipe, fifo, procs>>
      BY <1>0, <2>0, <2>12, <3>3 DEF ExitCheck, Goto, TypeOK
    <3>4. QED
      BY <2>12, <3>1, <3>2, <3>3, Zenon DEF ExitCheck
  <2>13. CASE \E p \in Pids : ChildEnds(p)
    <3>1. PICK p \in Pids, how \in {"exited", "signaled"} :
            /\ ChildEnds(p)
            /\ \/ /\ procs' = [procs EXCEPT ![p].st = "zombie", ![p].how = how]
                  /\ pending' = pending \cup {"CHLD"}
               \/ /\ procs' = [procs EXCEPT ![p] = FreeProc]
                  /\ pending' = pending
      BY <2>13, Zenon DEF ChildEnds
    <3>0. [procs[p] EXCEPT !.st = "zombie", !.how = how] \in Proc
      BY Zenon DEF TypeOK, Proc, ProcStates, Ends
    <3>2. procs' \in [Pids -> Proc]
      BY <3>0, <3>1, FreeProcType, Zenon DEF TypeOK
    <3>3. QED
      BY <3>1, <3>2 DEF ChildEnds, TypeOK
  <2>14. CASE \E i \in Dirs, c \in CommandChars : SendCommand(i, c)
    BY <2>14 DEF SendCommand, TypeOK
  <2>15. CASE SendTerm
    BY <2>15 DEF SendTerm, TypeOK
  <2>16. CASE Crash
    BY <1>0, <2>16, GoneType DEF Crash, Goto, TypeOK, PCs
  <2>17. CASE Restart
    <3>1. svd' \in [Dirs -> Svdir] /\ starts' \in Nat
      BY <1>1, <2>17 DEF Restart, TypeOK
    <3>2. pc' \in PCs /\ call' \in [dir : Dirs, ret : Returns]
      BY <1>0, <2>17 DEF Restart, Goto, PCs
    <3>3. QED
      BY <1>0, <2>17, <3>1, <3>2, FlagAssumption, Zenon DEF Restart, TypeOK
  <2>18. CASE Terminated \/ UNCHANGED vars
    BY <2>18, Zenon DEF Terminated, vars, TypeOK
  <2>19. QED
    BY <2>1, <2>2, <2>3, <2>4, <2>5, <2>6, <2>7, <2>8, <2>9, <2>10, <2>11, <2>12,
       <2>13, <2>14, <2>15, <2>16, <2>17, <2>18
    DEF Next, LoopStep, Environment
<1>4. QED
  BY <1>2, <1>3, PTL DEF Spec

----------------------------------------------------------------------------
(* Signals reach only unreaped children of the directory.                  *)
(*                                                                         *)
(* SignalsHitOwnChild is inductive once a free entry of the process table  *)
(* is known not to be a child: vfork() then returns a pid that neither     *)
(* directory has on record.  Most steps leave alone who is whose child,    *)
(* and which pids are on record; SameFamily says so.                       *)

FreeIsNobody == \A p \in Pids : procs[p].child => procs[p].st # "free"
ChildInv == FreeIsNobody /\ SignalsHitOwnChild

SameProcs ==
  \A p \in Pids : /\ procs'[p].child = procs[p].child
                  /\ procs'[p].prog = procs[p].prog
                  /\ procs'[p].args = procs[p].args
                  /\ procs'[p].st = "free" <=> procs[p].st = "free"
SameFamily ==
  SameProcs /\ \A j \in Dirs : /\ svd'[j].pid = svd[j].pid
                               /\ svd'[j].state \in {svd[j].state, "down"}

(* kill() changes neither parentage nor program, and frees nobody.         *)
LEMMA KillKeeps ==
  ASSUME NEW ps \in [Pids -> Proc], NEW pid \in PidOrNone,
         NEW sig \in {"KILL", "TERM", "STOP", "CONT"}, NEW p \in Pids
  PROVE  /\ Kill(ps, pid, sig)[p].child = ps[p].child
         /\ Kill(ps, pid, sig)[p].prog = ps[p].prog
         /\ Kill(ps, pid, sig)[p].args = ps[p].args
         /\ Kill(ps, pid, sig)[p].st = "free" <=> ps[p].st = "free"
<1>1. /\ Hit(ps[p], sig).child = ps[p].child
      /\ Hit(ps[p], sig).prog = ps[p].prog
      /\ Hit(ps[p], sig).args = ps[p].args
      /\ Hit(ps[p], sig).st = "free" <=> ps[p].st = "free"
  BY DEF Hit, Proc, ProcStates
<1>2. QED
  BY <1>1 DEF Kill

(* A step that keeps the family keeps the invariant.                       *)
LEMMA SameFamilyKeeps ==
  ASSUME TypeOK, ChildInv, SameFamily, Up' => Up
  PROVE  ChildInv'
<1>1. FreeIsNobody'
  BY DEF ChildInv, FreeIsNobody, SameFamily, SameProcs
<1>2. \A i \in Dirs, p \in Pids : p \in ChildrenOf(i) => p \in ChildrenOf(i)'
  BY DEF ChildrenOf, Children, DirOf, SameFamily, SameProcs
<1>3. SignalsHitOwnChild'
  <2> SUFFICES ASSUME Up', NEW i \in Dirs
               PROVE  /\ svd'[i].state = "run" => svd'[i].pid # NoPid
                      /\ svd'[i].pid # NoPid => svd'[i].pid \in ChildrenOf(i)'
    BY DEF SignalsHitOwnChild
  <2>1. /\ svd[i].state = "run" => svd[i].pid # NoPid
        /\ svd[i].pid # NoPid => svd[i].pid \in ChildrenOf(i)
    BY DEF ChildInv, SignalsHitOwnChild
  <2>2. svd[i].pid # NoPid => svd[i].pid \in Pids
    BY DEF TypeOK, Svdir, PidOrNone
  <2>3. QED
    BY <1>2, <2>1, <2>2 DEF SameFamily
<1>4. QED
  BY <1>1, <1>3 DEF ChildInv

(* stopservice() keeps the family, and every want and state.               *)
LEMMA StopBodyKeeps ==
  ASSUME TypeOK, NEW i \in Dirs, StopBody(i)
  PROVE  SameFamily /\ \A j \in Dirs : svd'[j].state = svd[j].state
<1> DEFINE s == svd[i]
<1>1. s \in Svdir /\ s.pid \in PidOrNone
  BY DEF TypeOK, Svdir
<1>2. PICK handled \in Custom(i, "t") :
        LET termed == s.pid # NoPid /\ ~handled
            ps == IF termed THEN Kill(procs, s.pid, "TERM") ELSE procs
        IN /\ procs' = IF s.want \in {"down", "exit"} THEN Kill(ps, s.pid, "CONT") ELSE ps
           /\ IF termed
              THEN SetAndRecord(i, [s EXCEPT !.ctrl = @ \cup {"TERM"}], pidchanged)
              ELSE UNCHANGED <<svd, files, pidchanged>>
  BY DEF StopBody
<1>3. PICK ps \in [Pids -> Proc] :
        /\ procs' = ps \/ procs' = Kill(ps, s.pid, "CONT")
        /\ \A p \in Pids : /\ ps[p].child = procs[p].child
                           /\ ps[p].prog = procs[p].prog
                           /\ ps[p].args = procs[p].args
                           /\ ps[p].st = "free" <=> procs[p].st = "free"
  <2>1. CASE s.pid # NoPid /\ ~handled
    <3>1. Kill(procs, s.pid, "TERM") \in [Pids -> Proc]
      BY <1>1, KillType DEF TypeOK
    <3>2. \A p \in Pids :
            /\ Kill(procs, s.pid, "TERM")[p].child = procs[p].child
            /\ Kill(procs, s.pid, "TERM")[p].prog = procs[p].prog
            /\ Kill(procs, s.pid, "TERM")[p].args = procs[p].args
            /\ Kill(procs, s.pid, "TERM")[p].st = "free" <=> procs[p].st = "free"
      BY <1>1, KillKeeps DEF TypeOK
    <3>3. \/ procs' = Kill(procs, s.pid, "TERM")
          \/ procs' = Kill(Kill(procs, s.pid, "TERM"), s.pid, "CONT")
      BY <1>2, <2>1
    <3>4. QED
      BY <3>1, <3>2, <3>3
  <2>2. CASE ~(s.pid # NoPid /\ ~handled)
    BY <1>2, <2>2, Zenon DEF TypeOK
  <2>3. QED
    BY <2>1, <2>2
<1>5. SameProcs
  <2>1. \A p \in Pids : /\ Kill(ps, s.pid, "CONT")[p].child = ps[p].child
                        /\ Kill(ps, s.pid, "CONT")[p].prog = ps[p].prog
                        /\ Kill(ps, s.pid, "CONT")[p].args = ps[p].args
                        /\ Kill(ps, s.pid, "CONT")[p].st = "free" <=> ps[p].st = "free"
    BY <1>1, KillKeeps
  <2>2. SUFFICES ASSUME NEW p \in Pids
                 PROVE  /\ procs'[p].child = procs[p].child
                        /\ procs'[p].prog = procs[p].prog
                        /\ procs'[p].args = procs[p].args
                        /\ procs'[p].st = "free" <=> procs[p].st = "free"
    BY DEF SameProcs
  <2>3. QED
    BY <1>3, <2>1
<1>6. \A j \in Dirs : svd'[j].pid = svd[j].pid /\ svd'[j].state = svd[j].state
  <2>1. \/ svd' = [svd EXCEPT ![i] = [s EXCEPT !.ctrl = @ \cup {"TERM"}]]
        \/ svd' = svd
    BY <1>2 DEF SetAndRecord
  <2>2. /\ [s EXCEPT !.ctrl = @ \cup {"TERM"}].pid = s.pid
        /\ [s EXCEPT !.ctrl = @ \cup {"TERM"}].state = s.state
    BY <1>1 DEF Svdir
  <2>3. QED
    BY <2>1, <2>2, Zenon DEF TypeOK
<1>7. QED
  BY <1>5, <1>6 DEF SameFamily

(* So does every command, except that 'k' sets the state to S_DOWN.        *)
LEMMA CtrlKeeps ==
  ASSUME TypeOK, NEW i \in Dirs, NEW c, NEW ret, Ctrl(i, c, ret)
  PROVE  /\ SameFamily
         /\ c # "k" => \A j \in Dirs : svd'[j].state = svd[j].state
<1>1. svd[i] \in Svdir /\ svd[i].pid \in PidOrNone
  BY DEF TypeOK, Svdir
<1>2. \A sig \in {"KILL", "STOP", "CONT"}, p \in Pids :
        /\ Kill(procs, svd[i].pid, sig)[p].child = procs[p].child
        /\ Kill(procs, svd[i].pid, sig)[p].prog = procs[p].prog
        /\ Kill(procs, svd[i].pid, sig)[p].args = procs[p].args
        /\ Kill(procs, svd[i].pid, sig)[p].st = "free" <=> procs[p].st = "free"
  BY <1>1, KillKeeps DEF TypeOK
<1>3. SameProcs
  <2>1. CASE procs' = procs
    BY <2>1 DEF SameProcs
  <2>2. CASE \E sig \in {"KILL", "STOP", "CONT"} : procs' = Kill(procs, svd[i].pid, sig)
    BY <1>2, <2>2 DEF SameProcs
  <2>3. QED
    BY <2>1, <2>2 DEF Ctrl, CtrlWant, CtrlTerm, CtrlKill, CtrlPause, CtrlOther
<1>4. \A j \in Dirs : /\ svd'[j].pid = svd[j].pid
                      /\ svd'[j].state \in {svd[j].state, "down"}
                      /\ c # "k" => svd'[j].state = svd[j].state
  <2>1. CASE CtrlWant(i, c, ret)
    BY <1>1, <2>1 DEF CtrlWant, SetAndRecord, TypeOK, Svdir
  <2>2. CASE CtrlKill(i, c, ret)
    BY <1>1, <2>2 DEF CtrlKill, TypeOK, Svdir
  <2>3. CASE CtrlPause(i, c, ret)
    BY <1>1, <2>3 DEF CtrlPause, SetAndRecord, TypeOK, Svdir
  <2>4. CASE CtrlTerm(i, c, ret) \/ CtrlOther(i, c, ret)
    BY <2>4 DEF CtrlTerm, CtrlOther
  <2>5. QED
    BY <2>1, <2>2, <2>3, <2>4 DEF Ctrl
<1>5. QED
  BY <1>3, <1>4 DEF SameFamily

(* A step in which svd and the process table stand still.                  *)
LEMMA UnchangedKeeps ==
  ASSUME TypeOK, ChildInv, svd' = svd, procs' = procs, Up' => Up
  PROVE  ChildInv'
<1>1. SameFamily
  BY DEF SameFamily, SameProcs
<1>2. QED
  BY <1>1, SameFamilyKeeps

(* vfork(): the new child is on record, and was on nobody's record.        *)
LEMMA ForkKeeps ==
  ASSUME TypeOK, ChildInv, Fork
  PROVE  ChildInv'
<1>0. PICK i \in Dirs : i = call.dir
  BY DEF TypeOK
<1>1. PICK p \in FreePids :
        /\ procs' = [procs EXCEPT ![p] = Spawned(i)]
        /\ SetAndRecord(i, [svd[i] EXCEPT !.pid = p, !.ctrl = {},
                             !.state = IF @ = "finish" THEN @ ELSE "run"], TRUE)
  BY <1>0, Zenon DEF Fork
<1>2. p \in Pids /\ p # NoPid /\ ~procs[p].child /\ Up
  BY PidAssumption DEF TypeOK, FreePids, ChildInv, FreeIsNobody, Fork, Up
<1>3. Spawned(i).child /\ Spawned(i).st # "free" /\ Spawned(i).prog = ProgOf(i)
  BY DEF Spawned
<1>4. procs'[p] = Spawned(i) /\ \A q \in Pids \ {p} : procs'[q] = procs[q]
  BY <1>1, <1>2 DEF TypeOK
<1>5. FreeIsNobody'
  BY <1>3, <1>4 DEF ChildInv, FreeIsNobody
<1>6. p \in ChildrenOf(i)'
  BY <1>2, <1>3, <1>4 DEF ChildrenOf, Children, DirOf, ProgOf, Dirs
<1>7. svd'[i].pid = p /\ \A j \in Dirs \ {i} : svd'[j] = svd[j]
  BY <1>1, <1>2 DEF SetAndRecord, TypeOK, Svdir
<1>8. ASSUME NEW j \in Dirs \ {i}, svd[j].pid # NoPid
      PROVE  svd[j].pid \in ChildrenOf(j)'
  <2>1. svd[j].pid \in ChildrenOf(j) /\ svd[j].pid \in Pids
    BY <1>2, <1>8 DEF ChildInv, SignalsHitOwnChild, ChildrenOf, Children
  <2>2. svd[j].pid # p
    BY <1>2, <2>1 DEF ChildrenOf, Children
  <2>3. QED
    BY <1>4, <2>1, <2>2 DEF ChildrenOf, Children, DirOf
<1>9. SignalsHitOwnChild'
  <2> SUFFICES ASSUME NEW j \in Dirs
               PROVE  /\ svd'[j].state = "run" => svd'[j].pid # NoPid
                      /\ svd'[j].pid # NoPid => svd'[j].pid \in ChildrenOf(j)'
    BY DEF SignalsHitOwnChild
  <2>1. CASE j = i
    BY <1>2, <1>6, <1>7, <2>1
  <2>2. CASE j # i
    BY <1>2, <1>7, <1>8, <2>2 DEF ChildInv, SignalsHitOwnChild
  <2>3. QED
    BY <2>1, <2>2
<1>10. QED
  BY <1>5, <1>9 DEF ChildInv

(* The wait loop: a reaped pid is on nobody's record any more.             *)
LEMMA ReapKeeps ==
  ASSUME TypeOK, ChildInv, Reap
  PROVE  ChildInv'
<1>1. PICK p \in Zombies :
        /\ procs' = [procs EXCEPT ![p] = FreeProc]
        /\ \/ p = svd[0].pid /\ ReapService(p)
           \/ p # svd[0].pid /\ HasLog /\ p = svd[1].pid /\ ReapLog(p)
           \/ p # svd[0].pid /\ p # svd[1].pid
              /\ UNCHANGED <<svd, wstat, files, pidchanged>>
  BY Zenon DEF Reap
<1>2. p \in Pids /\ p # NoPid /\ Up
  BY PidAssumption DEF Zombies, Children, Reap, Up
<1>3. procs'[p] = FreeProc /\ \A q \in Pids \ {p} : procs'[q] = procs[q]
  <2>1. procs \in [Pids -> Proc]
    BY Zenon DEF TypeOK
  <2>2. QED
    BY <1>1, <1>2, <2>1, OneChanged, Zenon
<1>4. FreeIsNobody'
  BY <1>3 DEF ChildInv, FreeIsNobody, FreeProc
<1>5. \A j \in Dirs : \A q \in Pids \ {p} : q \in ChildrenOf(j) => q \in ChildrenOf(j)'
  BY <1>3 DEF ChildrenOf, Children, DirOf
<1>6. \A j \in Dirs : svd[j].pid # NoPid => svd[j].pid \in ChildrenOf(j) /\ svd[j].pid \in Pids
  BY <1>2 DEF ChildInv, SignalsHitOwnChild, ChildrenOf, Children
<1>7. svd[0].pid = p => svd[1].pid # p
  BY <1>2, <1>6 DEF ChildrenOf, Dirs
<1>8. \A j \in Dirs : /\ svd'[j].pid \in {svd[j].pid, NoPid} /\ svd'[j].pid # p
                      /\ svd'[j].pid = NoPid => svd'[j].state # "run"
  <2>0. /\ svd[0] \in Svdir /\ svd[1] \in Svdir /\ Dirs = {0, 1}
        /\ \A j \in Dirs : svd[j].state = "run" => svd[j].pid # NoPid
    BY <1>2 DEF TypeOK, Dirs, ChildInv, SignalsHitOwnChild
  <2>1. CASE p = svd[0].pid /\ ReapService(p)
    BY <1>2, <1>7, <2>0, <2>1 DEF ReapService, SetAndRecord, TypeOK, Svdir
  <2>2. CASE p # svd[0].pid /\ p = svd[1].pid /\ ReapLog(p)
    BY <1>2, <2>0, <2>2 DEF ReapLog, SetAndRecord, TypeOK, Svdir
  <2>3. CASE p # svd[0].pid /\ p # svd[1].pid /\ svd' = svd
    BY <2>0, <2>3
  <2>4. QED
    BY <1>1, <2>1, <2>2, <2>3
<1>9. SignalsHitOwnChild'
  BY <1>5, <1>6, <1>8 DEF SignalsHitOwnChild
<1>10. QED
  BY <1>4, <1>9 DEF ChildInv

(* A child that ends stays a child until it is reaped.                     *)
LEMMA ChildEndsKeeps ==
  ASSUME TypeOK, ChildInv, NEW p \in Pids, ChildEnds(p)
  PROVE  ChildInv'
<1>1. svd' = svd /\ (Up' => Up) /\ procs[p].st # "free"
  BY DEF ChildEnds, Up, CanEnd
<1>2. CASE procs[p].child
  <2>1. PICK how \in {"exited", "signaled"} :
          procs' = [procs EXCEPT ![p].st = "zombie", ![p].how = how]
    BY <1>2 DEF ChildEnds
  <2>2. /\ procs'[p] = [procs[p] EXCEPT !.st = "zombie", !.how = how]
        /\ \A q \in Pids \ {p} : procs'[q] = procs[q]
    BY <2>1 DEF TypeOK
  <2>3. /\ procs'[p].child = procs[p].child /\ procs'[p].prog = procs[p].prog
        /\ procs'[p].args = procs[p].args /\ procs'[p].st = "zombie"
    BY <2>2 DEF TypeOK, Proc
  <2>4. SameFamily
    BY <1>1, <2>2, <2>3, Zenon DEF SameFamily, SameProcs
  <2>5. QED
    BY <1>1, <2>4, SameFamilyKeeps
<1>3. CASE ~procs[p].child
  <2>1. procs' = [procs EXCEPT ![p] = FreeProc]
    BY <1>3 DEF ChildEnds
  <2>2. procs'[p] = FreeProc /\ \A q \in Pids \ {p} : procs'[q] = procs[q]
    BY <2>1 DEF TypeOK
  <2>3. FreeIsNobody'
    BY <2>2 DEF ChildInv, FreeIsNobody, FreeProc
  <2>4. \A j \in Dirs : ChildrenOf(j)' = ChildrenOf(j)
    BY <1>3, <2>2 DEF ChildrenOf, Children, DirOf, FreeProc
  <2>5. SignalsHitOwnChild'
    BY <1>1, <2>4 DEF ChildInv, SignalsHitOwnChild
  <2>6. QED
    BY <2>3, <2>5 DEF ChildInv
<1>4. QED
  BY <1>2, <1>3

(* runsv goes, crashed or done: the survivors are nobody's children.       *)
LEMMA GoneKeeps ==
  ASSUME TypeOK, ChildInv, Gone, ~Up'
  PROVE  ChildInv' /\ Children' = {}
<1>1. \A p \in Pids : procs'[p] = Orphan(procs[p])
  BY DEF Gone
<1>2. \A p \in Pids : ~Orphan(procs[p]).child
  BY DEF Orphan, FreeProc, TypeOK, Proc
<1>3. QED
  BY <1>1, <1>2 DEF ChildInv, FreeIsNobody, SignalsHitOwnChild, Children

(* A restarted runsv records no pid, so any process table suits it.        *)
LEMMA FreshIsSafe ==
  ASSUME NEW s \in FreshSvds, NEW i \in Dirs
  PROVE  s[i].pid = NoPid /\ s[i].state = "down"
BY DEF FreshSvds, NewSvdir, Dirs

(* Every step of runsv and of its environment keeps ChildInv.              *)
LEMMA ChildInvStep ==
  ASSUME TypeOK, ChildInv, [Next]_vars
  PROVE  ChildInv'
<1>1. CASE \E i \in Dirs : OpenControl(i)
  BY <1>1, UnchangedKeeps DEF OpenControl, Up
<1>2. CASE TopLog \/ TopService \/ PollReturns \/ PollTimeout \/ Drain \/ ReapDone
  BY <1>2, UnchangedKeeps DEF TopLog, TopService, PollReturns, PollTimeout, Drain, ReapDone, Up
<1>3. CASE StopService \/ StopFirst
  <2>1. call.dir \in Dirs /\ Up /\ StopBody(call.dir)
    BY <1>3 DEF TypeOK, StopService, StopFirst, Up
  <2>2. QED
    BY <2>1, StopBodyKeeps, SameFamilyKeeps
<1>4. CASE Fork
  BY <1>4, ForkKeeps
<1>5. CASE Reap
  BY <1>5, ReapKeeps
<1>6. CASE \E i \in Dirs : ReadControl(i)
  <2>1. PICK i \in Dirs : ReadControl(i)
    BY <1>6
  <2>2. Up
    BY <2>1 DEF ReadControl, Up
  <2>3. CASE svd' = svd /\ procs' = procs
    BY <2>2, <2>3, UnchangedKeeps
  <2>4. CASE \E c, ret : Ctrl(i, c, ret)
    BY <2>2, <2>4, CtrlKeeps, SameFamilyKeeps
  <2>5. QED
    BY <2>1, <2>3, <2>4 DEF ReadControl
<1>7. CASE SigTerm
  <2>1. Up /\ 0 \in Dirs
    BY <1>7 DEF SigTerm, Up, Dirs
  <2>2. CASE Ctrl(0, "x", "exitck")
    BY <2>1, <2>2, CtrlKeeps, SameFamilyKeeps
  <2>3. QED
    BY <1>7, <2>1, <2>2, UnchangedKeeps DEF SigTerm
<1>8. CASE ExitCheck
  <2>1. Up
    BY <1>8 DEF ExitCheck, Up
  <2>2. CASE Goto("exited") /\ Gone
    BY <2>2, GoneKeeps DEF Goto, Up
  <2>3. CASE SetAndRecord(1, [svd[1] EXCEPT !.want = "exit"], pidchanged) /\ procs' = procs
    <3>1. SameFamily
      BY <2>3 DEF SetAndRecord, SameFamily, SameProcs, TypeOK, Svdir, Dirs
    <3>2. QED
      BY <2>1, <3>1, SameFamilyKeeps
  <2>4. CASE svd' = svd /\ procs' = procs
    BY <2>1, <2>4, UnchangedKeeps
  <2>5. QED
    BY <1>8, <2>2, <2>3, <2>4 DEF ExitCheck
<1>9. CASE \E sig \in {"TERM", "CHLD"} : Deliver(sig)
  BY <1>9, UnchangedKeeps DEF Deliver, Up
<1>10. CASE \E p \in Pids : ChildEnds(p)
  BY <1>10, ChildEndsKeeps
<1>11. CASE SendTerm \/ \E i \in Dirs, c \in CommandChars : SendCommand(i, c)
  BY <1>11, UnchangedKeeps DEF SendTerm, SendCommand, Up
<1>12. CASE Crash
  BY <1>12, GoneKeeps DEF Crash, Goto, Up
<1>13. CASE Restart
  <2>1. FreeIsNobody'
    BY <1>13 DEF Restart, ChildInv, FreeIsNobody
  <2>2. QED
    BY <1>13, <2>1, FreshIsSafe DEF Restart, ChildInv, SignalsHitOwnChild
<1>14. CASE Terminated \/ UNCHANGED vars
  BY <1>14, UnchangedKeeps DEF Terminated, vars, Up
<1>15. QED
  BY <1>1, <1>2, <1>3, <1>4, <1>5, <1>6, <1>7, <1>8, <1>9, <1>10, <1>11, <1>12,
     <1>13, <1>14
  DEF Next, LoopStep, Environment

(* ChildInv, the inductive form of SignalsHitOwnChild, always holds.       *)
THEOREM ChildInvHolds == Spec => []ChildInv
<1>1. Init => ChildInv
  <2> SUFFICES ASSUME Init PROVE ChildInv
    OBVIOUS
  <2>1. FreeIsNobody
    BY DEF Init, FreeIsNobody, FreeProc
  <2>2. QED
    BY <2>1, FreshIsSafe DEF Init, ChildInv, SignalsHitOwnChild
<1>2. TypeOK /\ ChildInv /\ [Next]_vars => ChildInv'
  BY ChildInvStep
<1>3. QED
  BY <1>1, <1>2, TypeCorrect, PTL DEF Spec

(* Whatever commands arrive and whenever children die, runsv is killed or  *)
(* restarted: ctrl(), stopservice() and startservice() pass to kill() only *)
(* the pid of an unreaped child of their own directory.                    *)
THEOREM SignalsSafe == Spec => []SignalsHitOwnChild
<1>1. ChildInv => SignalsHitOwnChild
  BY DEF ChildInv
<1>2. QED
  BY <1>1, ChildInvHolds, PTL

----------------------------------------------------------------------------
(* What is on disk.                                                        *)
(*                                                                         *)
(* Every step that changes svd goes through update_status() with           *)
(* pidchanged set where the pid is another one, except for 'k' and a       *)
(* restart.  This is all that the invariants about the files need to know  *)
(* of a step, so it is proved once.                                        *)

(* Without a log directory nothing is ever done for svd[1].                *)
LogUnused ==
  ~HasLog => /\ pc \notin {"boot1", "top1", "ctl1"} /\ svd[1].pid = NoPid
             /\ call.dir = 0 /\ call.ret # "ctl1"

(* svd[i] becomes s and is recorded, with its pid if that may be new.      *)
Records(i, s, changed) ==
  /\ SetAndRecord(i, s, changed)
  /\ i = 1 => HasLog
  /\ pidchanged => changed
  /\ ~changed => s.pid = svd[i].pid
Recording(i) == \E s \in Svdir, changed \in BOOLEAN : Records(i, s, changed)
Forgetting ==
  /\ \E i \in Dirs : svd' = [svd EXCEPT ![i].state = "down"]
  /\ UNCHANGED <<files, pidchanged>>
Standing == UNCHANGED <<svd, files, pidchanged>>

(* A record that keeps the pid, as most of them are.                       *)
LEMMA SamePidRecords ==
  ASSUME TypeOK, NEW i \in Dirs, i = 1 => HasLog, NEW s \in Svdir, s.pid = svd[i].pid,
         SetAndRecord(i, s, pidchanged)
  PROVE  Recording(i)
<1>1. pidchanged \in BOOLEAN
  BY DEF TypeOK
<1>2. Records(i, s, pidchanged)
  BY DEF Records
<1>3. QED
  BY <1>1, <1>2 DEF Recording

(* A record with a new pid.                                                *)
LEMMA NewPidRecords ==
  ASSUME NEW i \in Dirs, i = 1 => HasLog, NEW s \in Svdir, SetAndRecord(i, s, TRUE)
  PROVE  Recording(i)
<1>1. Records(i, s, TRUE)
  BY Zenon DEF Records
<1>2. QED
  BY <1>1, Zenon DEF Recording

(* stopservice() records what it sets, or does nothing to svd.             *)
LEMMA StopBodyRecords ==
  ASSUME TypeOK, NEW i \in Dirs, i = 1 => HasLog, StopBody(i)
  PROVE  Standing \/ Recording(i)
<1>1. /\ [svd[i] EXCEPT !.ctrl = @ \cup {"TERM"}] \in Svdir
      /\ [svd[i] EXCEPT !.ctrl = @ \cup {"TERM"}].pid = svd[i].pid
  BY Zenon DEF TypeOK, Svdir, Flags
<1>2. \/ SetAndRecord(i, [svd[i] EXCEPT !.ctrl = @ \cup {"TERM"}], pidchanged)
      \/ Standing
  BY DEF StopBody, Standing
<1>3. QED
  BY <1>1, <1>2, SamePidRecords, Zenon

(* So do the commands, but for 'k'.                                        *)
LEMMA CtrlRecords ==
  ASSUME TypeOK, NEW i \in Dirs, i = 1 => HasLog, NEW c \in CommandChars, NEW ret, Ctrl(i, c, ret)
  PROVE  Standing \/ Recording(i) \/ (c = "k" /\ Forgetting)
<1>1. svd[i] \in Svdir
  BY DEF TypeOK
<1>2. CASE CtrlWant(i, c, ret)
  <2>1. /\ WantOf[c] \in Wants
        /\ SetAndRecord(i, [svd[i] EXCEPT !.want = WantOf[c]], pidchanged)
    BY <1>2 DEF CtrlWant, WantOf, Wants
  <2>2. /\ [svd[i] EXCEPT !.want = WantOf[c]] \in Svdir
        /\ [svd[i] EXCEPT !.want = WantOf[c]].pid = svd[i].pid
    BY <1>1, <2>1 DEF Svdir
  <2>3. QED
    BY <2>1, <2>2, SamePidRecords, Zenon
<1>3. CASE CtrlPause(i, c, ret)
  <2> DEFINE s == [svd[i] EXCEPT !.ctrl = IF c = "p" THEN @ \cup {"PAUSE"} ELSE @ \ {"PAUSE"}]
  <2>1. s \in Svdir /\ s.pid = svd[i].pid
    BY <1>1 DEF Svdir, Flags
  <2>2. SetAndRecord(i, s, pidchanged)
    BY <1>3 DEF CtrlPause
  <2>3. QED
    BY <2>1, <2>2, SamePidRecords, Zenon
<1>4. CASE CtrlKill(i, c, ret)
  BY <1>4, Zenon DEF CtrlKill, Forgetting
<1>5. CASE CtrlTerm(i, c, ret) \/ CtrlOther(i, c, ret)
  BY <1>5 DEF CtrlTerm, CtrlOther, Standing
<1>6. QED
  BY <1>2, <1>3, <1>4, <1>5 DEF Ctrl

(* vfork(): the pid is a new one, and recorded as such.                    *)
LEMMA ForkRecords ==
  ASSUME TypeOK, LogUnused, Fork
  PROVE  \E i \in Dirs : Recording(i)
<1>0. PICK i \in Dirs : i = call.dir /\ (i = 1 => HasLog)
  BY DEF TypeOK, LogUnused
<1>1. PICK p \in FreePids :
        SetAndRecord(i, [svd[i] EXCEPT !.pid = p, !.ctrl = {},
                           !.state = IF @ = "finish" THEN @ ELSE "run"], TRUE)
  BY <1>0, Zenon DEF Fork
<1>2. [svd[i] EXCEPT !.pid = p, !.ctrl = {},
         !.state = IF @ = "finish" THEN @ ELSE "run"] \in Svdir
  BY Zenon DEF TypeOK, FreePids, Svdir, PidOrNone, States
<1>3. QED
  BY <1>0, <1>1, <1>2, NewPidRecords, Zenon

(* wait(): the same for the pid that is gone.                              *)
LEMMA ReapRecords ==
  ASSUME TypeOK, Reap
  PROVE  Standing \/ \E i \in Dirs : Recording(i)
<1>1. svd[0] \in Svdir /\ svd[1] \in Svdir /\ 0 \in Dirs /\ 1 \in Dirs
  BY DEF TypeOK, Dirs
<1>2. /\ [svd[0] EXCEPT !.pid = NoPid, !.ctrl = @ \ {"TERM"},
            !.state = IF svd[0].state # "finish" /\ HasFinish THEN "finish" ELSE "down"] \in Svdir
      /\ [svd[1] EXCEPT !.pid = NoPid, !.ctrl = @ \ {"TERM"}, !.state = "down"] \in Svdir
  BY <1>1, Zenon DEF Svdir, PidOrNone, States
<1>3. ASSUME NEW p, ReapService(p) PROVE Recording(0)
  <2> DEFINE s == [svd[0] EXCEPT !.pid = NoPid, !.ctrl = @ \ {"TERM"},
                     !.state = IF svd[0].state # "finish" /\ HasFinish THEN "finish" ELSE "down"]
  <2>1. SetAndRecord(0, s, TRUE)
    BY <1>1, <1>3, Zenon DEF ReapService, Svdir
  <2>2. s \in Svdir
    BY <1>2
  <2> HIDE DEF s
  <2>3. PICK i \in Dirs : i = 0 /\ (i = 1 => HasLog)
    BY <1>1
  <2>4. SetAndRecord(i, s, TRUE)
    BY <2>1, <2>3, Zenon
  <2>5. Recording(i)
    BY <2>2, <2>3, <2>4, NewPidRecords, Zenon
  <2>6. QED
    BY <2>3, <2>5, Zenon
<1>4. ASSUME NEW p, HasLog, ReapLog(p) PROVE Recording(1)
  BY <1>1, <1>2, <1>4, NewPidRecords, Zenon DEF ReapLog
<1>5. QED
  BY <1>1, <1>3, <1>4 DEF Reap, Standing

(* Without a log directory runsv_main() never turns to one.                *)
LEMMA LogUnusedStep ==
  ASSUME TypeOK, LogUnused, [Next]_vars
  PROVE  LogUnused'
<1> SUFFICES ASSUME ~HasLog
             PROVE  /\ pc' \notin {"boot1", "top1", "ctl1"} /\ svd'[1].pid = NoPid
                    /\ call'.dir = 0 /\ call'.ret # "ctl1"
  BY DEF LogUnused
<1>0. /\ pc \notin {"boot1", "top1", "ctl1"} /\ svd[1].pid = NoPid
      /\ call.dir = 0 /\ call.ret \in Returns \ {"ctl1"} /\ call \in [dir : Dirs, ret : Returns]
      /\ svd[0] \in Svdir /\ svd[1] \in Svdir /\ svd \in [Dirs -> Svdir] /\ 0 \in Dirs /\ 1 \in Dirs
  BY DEF LogUnused, TypeOK, Dirs
<1>1. ASSUME NEW label \in PCs \ {"boot1", "top1", "ctl1"}, Goto(label)
      PROVE  pc' \notin {"boot1", "top1", "ctl1"} /\ call'.dir = 0 /\ call'.ret # "ctl1"
  BY <1>1 DEF Goto, NoCall
<1>2. ASSUME NEW label \in {"start", "stop"}, NEW ret \in Returns \ {"ctl1"}, Call(label, 0, ret)
      PROVE  pc' \notin {"boot1", "top1", "ctl1"} /\ call'.dir = 0 /\ call'.ret # "ctl1"
  BY <1>2 DEF Call
<1>3. ASSUME NEW c \in CommandChars, NEW ret \in {"term", "exitck"}, Ctrl(0, c, ret)
      PROVE  /\ pc' \notin {"boot1", "top1", "ctl1"} /\ svd'[1].pid = NoPid
             /\ call'.dir = 0 /\ call'.ret # "ctl1"
  <2>1. svd'[1].pid = NoPid
    BY <1>0, <1>3, CtrlKeeps DEF SameFamily
  <2>2. (\E label \in {"start", "stop"} : Call(label, 0, ret)) \/ Goto(ret)
    BY <1>3 DEF Ctrl, CtrlWant, CtrlTerm, CtrlKill, CtrlPause, CtrlOther
  <2>3. QED
    BY <1>1, <1>2, <2>1, <2>2 DEF PCs, Returns
<1>4. CASE \E i \in Dirs : OpenControl(i)
  BY <1>0, <1>1, <1>4 DEF OpenControl, LoopTop, PCs
<1>5. CASE TopLog \/ TopService \/ PollReturns \/ PollTimeout \/ Drain \/ ReapDone
  BY <1>0, <1>1, <1>2, <1>5
  DEF TopLog, TopService, PollReturns, PollTimeout, Drain, ReapDone, PCs, Returns
<1>6. CASE StopService \/ StopFirst
  <2>1. svd'[1].pid = NoPid
    BY <1>0, <1>6, StopBodyKeeps DEF StopService, StopFirst, SameFamily
  <2>2. QED
    BY <1>0, <1>1, <1>6, <2>1 DEF StopService, StopFirst, Returns, PCs
<1>7. CASE Fork
  <2>1. svd'[1] = svd[1]
    BY <1>0, <1>7 DEF Fork, SetAndRecord
  <2>2. QED
    BY <1>0, <1>1, <1>7, <2>1 DEF Fork, Returns, PCs
<1>8. CASE Reap
  <2>1. (\E p : ReapService(p)) \/ svd' = svd
    BY <1>8 DEF Reap
  <2>2. svd'[1] = svd[1]
    <3>1. PICK i \in Dirs, j \in Dirs : i = 0 /\ j = 1
      BY <1>0
    <3>2. (\E r : svd' = [svd EXCEPT ![i] = r]) \/ svd' = svd
      BY <2>1, <3>1, Zenon DEF ReapService, SetAndRecord
    <3>3. QED
      BY <1>0, <3>1, <3>2
  <2>3. QED
    BY <1>0, <1>8, <2>2 DEF Reap
<1>9. CASE \E i \in Dirs : ReadControl(i)
  <2>1. ReadControl(0)
    BY <1>0, <1>9 DEF ReadControl, Dirs
  <2>2. fifo[0] # <<>> => Head(fifo[0]) \in CommandChars
    BY <1>0 DEF TypeOK
  <2>3. QED
    BY <1>0, <1>1, <1>3, <2>1, <2>2 DEF ReadControl, PCs
<1>10. CASE SigTerm
  BY <1>0, <1>1, <1>3, <1>10 DEF SigTerm, PCs, CommandChars
<1>11. CASE ExitCheck
  BY <1>0, <1>1, <1>11 DEF ExitCheck, LoopTop, PCs
<1>12. CASE Restart
  BY <1>0, <1>1, <1>12, FreshIsSafe DEF Restart, PCs
<1>13. CASE Crash
  BY <1>0, <1>1, <1>13 DEF Crash, PCs
<1>14. CASE \/ SendTerm \/ Terminated \/ UNCHANGED vars
            \/ \E sig \in {"TERM", "CHLD"} : Deliver(sig)
            \/ \E p \in Pids : ChildEnds(p)
            \/ \E i \in Dirs, c \in CommandChars : SendCommand(i, c)
  BY <1>0, <1>14 DEF SendTerm, Terminated, vars, Deliver, ChildEnds, SendCommand
<1>15. QED
  BY <1>4, <1>5, <1>6, <1>7, <1>8, <1>9, <1>10, <1>11, <1>12, <1>13, <1>14
  DEF Next, LoopStep, Environment

(* A step, as the files see it: nothing, a record, a 'k', or a restart.    *)
Boot == {"boot0", "boot1"}
Quiet == Standing /\ (Up' => Up /\ (pc' = pc \/ {pc, pc'} \cap Boot = {}))
Recorded(i) ==
  /\ Recording(i) /\ Up
  /\ \/ pc \notin Boot /\ pc' \notin Boot
     \/ pc = "boot0" /\ i = 0 /\ pc' = IF HasLog THEN "boot1" ELSE "top0"
     \/ pc = "boot1" /\ i = 1 /\ pc' = "top1"
KillRead == \E i \in Dirs : fifo[i] # <<>> /\ Head(fifo[i]) = "k"

(* Every step is one of these.                                             *)
LEMMA StepRecords ==
  ASSUME TypeOK, LogUnused, [Next]_vars
  PROVE  \/ Quiet \/ Restart
         \/ \E i \in Dirs : Recorded(i)
         \/ KillRead /\ Forgetting /\ Up /\ pc \notin Boot /\ pc' \notin Boot
<1>0. call.ret \in Returns
  BY DEF TypeOK
<1>1. CASE \E i \in Dirs : OpenControl(i)
  <2>1. PICK i \in Dirs : OpenControl(i)
    BY <1>1
  <2>2. i = 1 => HasLog
    BY <2>1 DEF OpenControl, LogUnused
  <2>3. SetAndRecord(i, svd[i], pidchanged)
    BY <2>1 DEF OpenControl, SetAndRecord, TypeOK
  <2>4. Recording(i)
    BY <2>2, <2>3, SamePidRecords DEF TypeOK
  <2>5. QED
    BY <2>1, <2>2, <2>4 DEF OpenControl, Goto, LoopTop, Recorded, Up, Dirs
<1>2. CASE TopLog \/ TopService \/ PollReturns \/ PollTimeout \/ Drain \/ ReapDone
  BY <1>2 DEF TopLog, TopService, PollReturns, PollTimeout, Drain, ReapDone, Call, Goto,
     Quiet, Standing, Up, Boot
<1>3. CASE StopService \/ StopFirst
  <2>0. PICK i \in Dirs : i = call.dir /\ (i = 1 => HasLog)
    BY DEF TypeOK, LogUnused
  <2>1. Up /\ pc \notin Boot /\ pc' \notin Boot /\ StopBody(i)
    BY <1>0, <1>3, <2>0 DEF StopService, StopFirst, Goto, Returns, Up, Boot
  <2>2. QED
    BY <2>0, <2>1, StopBodyRecords DEF Quiet, Recorded
<1>4. CASE Fork
  <2>1. Up /\ pc \notin Boot /\ pc' \notin Boot
    BY <1>0, <1>4 DEF Fork, Goto, Returns, Up, Boot
  <2>2. QED
    BY <1>4, <2>1, ForkRecords DEF Recorded
<1>5. CASE Reap
  <2>1. Up /\ pc \notin Boot /\ pc' \notin Boot
    BY <1>5 DEF Reap, Up, Boot
  <2>2. QED
    BY <1>5, <2>1, ReapRecords DEF Recorded, Quiet
<1>6. ASSUME NEW i \in Dirs, NEW c, NEW ret \in Returns, Ctrl(i, c, ret)
      PROVE  pc' \notin Boot
  BY <1>6 DEF Ctrl, CtrlWant, CtrlTerm, CtrlKill, CtrlPause, CtrlOther, Goto, Call, Boot, Returns
<1>7. CASE \E i \in Dirs : ReadControl(i)
  <2>1. PICK i \in Dirs : ReadControl(i)
    BY <1>7
  <2>2. PICK ret \in {"ctl1", "term"} :
          \/ Goto(ret) /\ Standing
          \/ fifo[i] # <<>> /\ Ctrl(i, Head(fifo[i]), ret)
    BY <2>1 DEF ReadControl, Standing
  <2>3. Up /\ pc \notin Boot /\ ret \in Returns /\ (i = 1 => HasLog)
    BY <2>1 DEF ReadControl, Up, Boot, Returns, LogUnused
  <2>4. CASE Goto(ret) /\ Standing
    BY <2>3, <2>4 DEF Goto, Quiet, Boot, Returns
  <2>5. CASE fifo[i] # <<>> /\ Ctrl(i, Head(fifo[i]), ret)
    <3>1. Head(fifo[i]) \in CommandChars
      BY <2>5 DEF TypeOK
    <3>2. pc' \notin Boot
      BY <1>6, <2>3, <2>5
    <3>3. Standing \/ Recording(i) \/ (Head(fifo[i]) = "k" /\ Forgetting)
      BY <2>3, <2>5, <3>1, CtrlRecords
    <3>4. QED
      BY <2>3, <2>5, <3>2, <3>3 DEF Quiet, Recorded, KillRead
  <2>6. QED
    BY <2>2, <2>4, <2>5
<1>8. CASE SigTerm
  <2>1. Up /\ pc \notin Boot /\ 0 \in Dirs /\ "x" \in CommandChars /\ "exitck" \in Returns
    BY <1>8 DEF SigTerm, Up, Boot, Dirs, CommandChars, Returns
  <2>2. CASE Ctrl(0, "x", "exitck")
    <3>1. pc' \notin Boot
      BY <1>6, <2>1, <2>2
    <3>2. Standing \/ Recording(0)
      BY <2>1, <2>2, CtrlRecords
    <3>3. QED
      BY <2>1, <3>1, <3>2 DEF Quiet, Recorded
  <2>3. QED
    BY <1>8, <2>1, <2>2 DEF SigTerm, Goto, Quiet, Standing, Boot
<1>9. CASE ExitCheck
  <2>1. Up /\ pc \notin Boot /\ pc' \notin Boot
    BY <1>9 DEF ExitCheck, Goto, LoopTop, Up, Boot
  <2>2. CASE SetAndRecord(1, [svd[1] EXCEPT !.want = "exit"], pidchanged) /\ svd[1].pid # NoPid
    <3>1. /\ 1 \in Dirs /\ HasLog
          /\ [svd[1] EXCEPT !.want = "exit"] \in Svdir
          /\ [svd[1] EXCEPT !.want = "exit"].pid = svd[1].pid
      BY <2>2, Zenon DEF LogUnused, TypeOK, Dirs, Svdir, Wants
    <3>2. Recording(1)
      BY <2>2, <3>1, SamePidRecords, Zenon
    <3>3. QED
      BY <2>1, <3>1, <3>2 DEF Recorded
  <2>3. CASE Standing
    BY <2>1, <2>3 DEF Quiet
  <2>4. QED
    BY <1>9, <2>2, <2>3 DEF ExitCheck, Standing
<1>10. CASE Crash
  BY <1>10 DEF Crash, Goto, Quiet, Standing, Up
<1>11. CASE \/ SendTerm \/ Terminated \/ UNCHANGED vars
            \/ \E sig \in {"TERM", "CHLD"} : Deliver(sig)
            \/ \E p \in Pids : ChildEnds(p)
            \/ \E i \in Dirs, c \in CommandChars : SendCommand(i, c)
  <2>1. UNCHANGED <<pc, svd, files, pidchanged>>
    BY <1>11, Zenon DEF SendTerm, Terminated, vars, Deliver, ChildEnds, SendCommand
  <2>2. Up' <=> Up
    BY <2>1 DEF Up
  <2>3. Standing /\ pc' = pc
    BY <2>1 DEF Standing
  <2>4. Quiet
    BY <2>2, <2>3, Zenon DEF Quiet
  <2>5. QED
    BY <2>4
<1>12. QED
  BY <1>1, <1>2, <1>3, <1>4, <1>5, <1>7, <1>8, <1>9, <1>10, <1>11 DEF Next, LoopStep, Environment

(* LogUnused always holds.                                                 *)
THEOREM LogIsUnused == Spec => []LogUnused
<1>1. Init => LogUnused
  BY FreshIsSafe DEF Init, LogUnused, NoCall, Dirs
<1>2. TypeOK /\ LogUnused /\ [Next]_vars => LogUnused'
  BY LogUnusedStep
<1>3. QED
  BY <1>1, <1>2, TypeCorrect, PTL DEF Spec

(* What PidFlagSound lacks to be inductive: with a log directory the flag  *)
(* is clear after start-up, so that it is svd[0] alone who sets it.        *)
PidInv ==
  Up => /\ ~pidchanged => files[0].pid \in {svd[0].pid, NoPid}
        /\ HasLog /\ pidchanged => pc = "boot0"

(* A record of one directory keeps PidInv, if writes of the pid file work  *)
(* or there is one directory only.                                         *)
LEMMA PidRecord ==
  ASSUME ~HasLog \/ "pid" \notin DiskErrors, TypeOK, PidInv, NEW i \in Dirs, Recorded(i)
  PROVE  PidInv'
<1>1. PICK s \in Svdir, changed \in BOOLEAN : Records(i, s, changed)
  BY DEF Recorded, Recording
<1>2. svd'[i] = s /\ \A j \in Dirs \ {i} : svd'[j] = svd[j]
  BY <1>1 DEF Records, SetAndRecord, TypeOK
<1>3. PICK failed \in Failures :
        IF changed /\ "pid" \in failed
        THEN pidchanged' = TRUE /\ files' = files
        ELSE pidchanged' = FALSE /\ files' = [files EXCEPT ![i] = NewFiles(@, s, changed, failed)]
  BY <1>1 DEF Records, SetAndRecord, UpdateStatus
<1>4. CASE changed /\ "pid" \in failed
  <2>1. ~HasLog /\ pidchanged' = TRUE
    BY <1>3, <1>4 DEF Failures
  <2>2. QED
    BY <2>1 DEF PidInv
<1>5. CASE ~(changed /\ "pid" \in failed)
  <2>1. /\ pidchanged' = FALSE /\ files'[i] = NewFiles(files[i], s, changed, failed)
        /\ \A j \in Dirs \ {i} : files'[j] = files[j]
    BY <1>3, <1>5 DEF TypeOK
  <2>2. files'[i].pid \in {s.pid, NoPid} \/ (~changed /\ files'[i].pid = files[i].pid)
    <3>1. /\ NewFiles(files[i], s, FALSE, failed).pid = files[i].pid
          /\ NewFiles(files[i], s, TRUE, failed).pid \in {s.pid, NoPid}
      BY Zenon DEF NewFiles
    <3>2. CASE changed = FALSE
      BY <2>1, <3>1, <3>2, Zenon
    <3>3. CASE changed = TRUE
      BY <2>1, <3>1, <3>3, Zenon
    <3>4. QED
      BY <3>2, <3>3, Zenon
  <2>3. i = 1 => HasLog /\ ~pidchanged
    BY <1>1 DEF Records, Recorded, PidInv, Boot
  <2>4. ~changed => s.pid = svd[i].pid /\ ~pidchanged
    BY <1>1 DEF Records
  <2>5. i = 0 => files'[0].pid \in {svd'[0].pid, NoPid}
    BY <1>2, <2>2, <2>4 DEF PidInv, Recorded
  <2>6. i = 1 => files'[0].pid \in {svd'[0].pid, NoPid}
    BY <1>2, <2>1, <2>3 DEF PidInv, Recorded, Dirs
  <2>7. QED
    BY <2>1, <2>5, <2>6 DEF PidInv, Dirs
<1>6. QED
  BY <1>4, <1>5

(* supervise/pid names the current process or none while pidchanged is     *)
(* clear, after crashes, restarts and 'k', and with writes that fail.      *)
(* pidchanged is one flag for two directories: where the pid file cannot   *)
(* be put in place the theorem is for a service without a log only.        *)
THEOREM PidFlagIsSound ==
  ASSUME ~HasLog \/ "pid" \notin DiskErrors
  PROVE  Spec => []PidFlagSound
<1>1. Init => PidInv
  BY DEF Init, PidInv
<1>2. TypeOK /\ LogUnused /\ PidInv /\ [Next]_vars => PidInv'
  <2> SUFFICES ASSUME TypeOK, LogUnused, PidInv, [Next]_vars PROVE PidInv'
    OBVIOUS
  <2>1. CASE Quiet
    BY <2>1, Zenon DEF Quiet, Standing, PidInv, Boot
  <2>2. CASE Restart
    BY <2>2 DEF Restart, PidInv, Goto
  <2>3. CASE \E i \in Dirs : Recorded(i)
    BY <2>3, PidRecord
  <2>4. CASE Forgetting /\ Up /\ pc \notin Boot /\ pc' \notin Boot
    <3>1. svd'[0].pid = svd[0].pid
      BY <2>4 DEF Forgetting, TypeOK, Svdir, Dirs
    <3>2. QED
      BY <2>4, <3>1 DEF Forgetting, PidInv, Boot
  <2>5. QED
    BY <2>1, <2>2, <2>3, <2>4, StepRecords
<1>3. PidInv => PidFlagSound
  BY DEF PidInv, PidFlagSound
<1>4. QED
  BY <1>1, <1>2, <1>3, TypeCorrect, LogIsUnused, PTL DEF Spec

----------------------------------------------------------------------------
(* One process per directory, a clean exit, and the abstract life of the   *)
(* service, for a runsv that is never sent 'k'.                            *)
(*                                                                         *)
(* 'k' sets S_DOWN while the killed process is still on record, and every  *)
(* one of these results fails after it.  Without 'k', S_DOWN does mean     *)
(* that there is no process; that, with "every child is the one on         *)
(* record", is what OneInstance lacks to be inductive.                     *)


(* Nobody writes 'k' to a control fifo.                                    *)
NoKill == "k" \notin Commands /\ "k" \notin LogCommands

FifoClean == fifo \in [Dirs -> Seq(CommandChars \ {"k"})]
OwnOnly ==
  /\ \A p \in Children : Up /\ p = svd[DirOf(p)].pid
  /\ Up => \A i \in Dirs : svd[i].state = "down" => svd[i].pid = NoPid
StartIdle == pc # "fork" /\ (pc = "start" => svd[call.dir].pid = NoPid)
LifeInv == FifoClean /\ OwnOnly /\ StartIdle

SameStates == \A j \in Dirs : svd'[j].state = svd[j].state
SameLife == ServicePhase' = ServicePhase /\ ServiceLive' = ServiceLive /\ Up' = Up

(* A step that keeps the family and the states is a stutter of the life.   *)
LEMMA QuietStep ==
  ASSUME TypeOK, OwnOnly, SameFamily, SameStates, Up' = Up
  PROVE  OwnOnly' /\ SameLife
<1>1. Children' = Children /\ \A p \in Pids : DirOf(p)' = DirOf(p)
  BY DEF SameFamily, SameProcs, Children, DirOf
<1>2. \A p \in Pids : DirOf(p) \in Dirs
  BY DEF DirOf, Dirs
<1>3. OwnOnly'
  BY <1>1, <1>2 DEF OwnOnly, SameFamily, SameStates, Children
<1>4. ChildrenOf(0)' = ChildrenOf(0)
  BY <1>1 DEF ChildrenOf, Children
<1>5. ServiceLive' = ServiceLive
  BY <1>4 DEF ServiceLive
<1>6. ServicePhase' = ServicePhase
  BY DEF ServicePhase, SameStates, Dirs
<1>7. QED
  BY <1>3, <1>5, <1>6 DEF SameLife

(* The case of a step that touches neither svd nor the process table.      *)
LEMMA UnchangedStep ==
  ASSUME TypeOK, OwnOnly, svd' = svd, procs' = procs, Up' = Up
  PROVE  OwnOnly' /\ SameLife
<1>1. SameFamily /\ SameStates
  BY DEF SameFamily, SameProcs, SameStates
<1>2. QED
  BY <1>1, QuietStep

(* The fifos stay free of 'k'.                                             *)
LEMMA FifoStep ==
  ASSUME NoKill, TypeOK, FifoClean, [Next]_vars
  PROVE  FifoClean'
<1>1. CASE fifo' = fifo
  BY <1>1 DEF FifoClean
<1>2. CASE Gone
  <2>1. <<>> \in Seq(CommandChars \ {"k"})
    OBVIOUS
  <2>2. QED
    BY <1>2, <2>1 DEF Gone, FifoClean
<1>3. CASE \E i \in Dirs : ReadControl(i)
  <2>1. PICK i \in Dirs : ReadControl(i)
    BY <1>3
  <2>2. CASE fifo[i] # <<>> /\ fifo' = [fifo EXCEPT ![i] = Tail(@)]
    BY <2>2 DEF FifoClean
  <2>3. QED
    BY <1>1, <2>1, <2>2 DEF ReadControl
<1>4. CASE \E i \in Dirs, c \in CommandChars : SendCommand(i, c)
  <2>1. PICK i \in Dirs, c \in CommandChars : SendCommand(i, c)
    BY <1>4
  <2>2. c \in CommandChars \ {"k"} /\ fifo' = [fifo EXCEPT ![i] = Append(@, c)]
    BY <2>1 DEF SendCommand, NoKill
  <2>3. QED
    BY <2>2 DEF FifoClean
<1>5. QED
  BY <1>1, <1>2, <1>3, <1>4, Zenon
  DEF Next, LoopStep, Environment, OpenControl, TopLog, TopService, StopService,
      StopFirst, Fork, PollReturns, PollTimeout, Drain, Reap, ReapDone, SigTerm,
      ExitCheck, Deliver, ChildEnds, SendTerm, Crash, Restart, Terminated, vars

(* ctrl() starts a directory only in S_DOWN, that is, without a process.   *)
LEMMA CtrlStartsIdle ==
  ASSUME TypeOK, OwnOnly, Up, NEW i \in Dirs, NEW c, NEW ret \in Returns, Ctrl(i, c, ret)
  PROVE  StartIdle'
<1>1. CASE Call("start", i, ret) /\ CtrlWant(i, c, ret)
  <2>1. svd[i].state = "down" /\ svd'[i].pid = svd[i].pid
    BY <1>1 DEF Call, Goto, CtrlWant, SetAndRecord, TypeOK, Svdir, Returns
  <2>2. QED
    BY <1>1, <2>1 DEF Call, StartIdle, OwnOnly
<1>2. CASE Call("stop", i, ret) \/ Goto(ret)
  BY <1>2 DEF Call, Goto, StartIdle, Returns
<1>3. QED
  BY <1>1, <1>2 DEF Ctrl, CtrlWant, CtrlTerm, CtrlKill, CtrlPause, CtrlOther

(* startservice() never finds a process of its directory.                  *)
LEMMA IdleStep ==
  ASSUME TypeOK, LifeInv, [Next]_vars
  PROVE  StartIdle'
<1>1. CASE UNCHANGED <<pc, call, svd>>
  BY <1>1 DEF LifeInv, StartIdle
<1>2. CASE \E label \in PCs \ {"start", "fork"} : Goto(label)
  BY <1>2 DEF Goto, StartIdle
<1>3. call.ret \in PCs \ {"start", "fork"} /\ LoopTop \in PCs \ {"start", "fork"}
  BY DEF TypeOK, Returns, PCs, LoopTop
<1>4. CASE TopLog \/ TopService
  BY <1>2, <1>4 DEF TopLog, TopService, Call, StartIdle, PCs
<1>5. CASE StopFirst
  BY <1>5 DEF StopFirst, LifeInv, StartIdle
<1>6. CASE \E i \in Dirs : ReadControl(i)
  <2>1. PICK i \in Dirs : ReadControl(i)
    BY <1>6
  <2>2. PICK ret \in {"ctl1", "term"} : Goto(ret) \/ Ctrl(i, Head(fifo[i]), ret)
    BY <2>1 DEF ReadControl
  <2>3. ret \in Returns /\ Up
    BY <2>1 DEF Returns, ReadControl, Up
  <2>4. CASE Goto(ret)
    BY <1>2, <2>4 DEF PCs
  <2>5. QED
    BY <2>2, <2>3, <2>4, CtrlStartsIdle DEF LifeInv
<1>7. CASE SigTerm
  <2>1. Up /\ 0 \in Dirs /\ "exitck" \in Returns /\ "exitck" \in PCs \ {"start", "fork"}
    BY <1>7 DEF SigTerm, Up, Dirs, Returns, PCs
  <2>2. CASE Ctrl(0, "x", "exitck")
    BY <2>1, <2>2, CtrlStartsIdle DEF LifeInv
  <2>3. QED
    BY <1>2, <1>7, <2>1, <2>2 DEF SigTerm
<1>8. CASE \/ StopService \/ Fork \/ PollReturns \/ PollTimeout \/ Drain \/ ReapDone
           \/ ExitCheck \/ Crash \/ Restart \/ \E i \in Dirs : OpenControl(i)
  BY <1>2, <1>3, <1>8, Zenon
  DEF StopService, Fork, PollReturns, PollTimeout, Drain, ReapDone, ExitCheck, Crash,
      Restart, OpenControl, PCs
<1>9. CASE \/ Reap \/ SendTerm \/ Terminated \/ UNCHANGED vars
           \/ \E sig \in {"TERM", "CHLD"} : Deliver(sig)
           \/ \E p \in Pids : ChildEnds(p)
           \/ \E i \in Dirs, c \in CommandChars : SendCommand(i, c)
  <2>1. CASE Reap
    BY <2>1 DEF Reap, StartIdle
  <2>2. QED
    BY <1>1, <1>9, <2>1, Zenon DEF SendTerm, Terminated, vars, Deliver, ChildEnds, SendCommand
<1>10. QED
  BY <1>4, <1>5, <1>6, <1>7, <1>8, <1>9 DEF Next, LoopStep, Environment

----------------------------------------------------------------------------
(* The steps that the abstract life sees.                                  *)

(* A child that ends is still there to be reaped.                          *)
LEMMA ChildEndsStep ==
  ASSUME TypeOK, OwnOnly, NEW p \in Pids, ChildEnds(p)
  PROVE  OwnOnly' /\ SameLife
<1>1. svd' = svd /\ Up' = Up
  BY DEF ChildEnds, Up
<1>2. \A q \in Pids \ {p} : procs'[q] = procs[q]
  BY DEF ChildEnds, TypeOK
<1>3. procs'[p].child = procs[p].child /\ (procs[p].child => procs'[p].prog = procs[p].prog)
  <2>1. CASE procs[p].child
    <3>1. PICK how \in {"exited", "signaled"} :
            procs' = [procs EXCEPT ![p].st = "zombie", ![p].how = how]
      BY <2>1 DEF ChildEnds
    <3>2. procs'[p] = [procs[p] EXCEPT !.st = "zombie", !.how = how]
      BY <3>1 DEF TypeOK
    <3>3. QED
      BY <3>2 DEF TypeOK, Proc
  <2>2. CASE ~procs[p].child
    <3>1. procs'[p] = FreeProc
      BY <2>2 DEF ChildEnds, TypeOK
    <3>2. procs[p].child \in BOOLEAN
      BY DEF TypeOK, Proc
    <3>3. QED
      <4>1. procs'[p].child = FALSE
        BY <3>1 DEF FreeProc
      <4>2. procs[p].child = FALSE
        BY <2>2, <3>2, Zenon
      <4>3. QED
        BY <2>2, <4>1, <4>2, Zenon
  <2>3. QED
    BY <2>1, <2>2
<1>4. Children' = Children /\ \A q \in Children : DirOf(q)' = DirOf(q)
  BY <1>2, <1>3 DEF Children, DirOf
<1>5. OwnOnly'
  BY <1>1, <1>4 DEF OwnOnly
<1>6. ServiceLive' = ServiceLive
  BY <1>1, <1>4 DEF ServiceLive, ChildrenOf
<1>7. QED
  BY <1>1, <1>5, <1>6 DEF SameLife, ServicePhase

(* runsv goes away: the abstract supervisor abandons its service.          *)
LEMMA GoneStep ==
  ASSUME TypeOK, ChildInv, Up, Gone, ~Up'
  PROVE  OwnOnly' /\ Life!Abandon
<1>1. Children' = {}
  BY GoneKeeps
<1>2. OwnOnly'
  BY <1>1 DEF OwnOnly
<1>3. QED
  BY <1>2 DEF Life!Abandon, ServicePhase, ServiceLive

(* vfork(): the only child of its directory; for the service, the start of *)
(* ./run in S_DOWN and of ./finish in S_FINISH.                            *)
LEMMA ForkStep ==
  ASSUME TypeOK, ChildInv, OwnOnly, StartIdle, Fork
  PROVE  OwnOnly' /\ (SameLife \/ \E p \in Pids : Life!StartRun(p) \/ Life!StartFinish(p))
<1>0. PICK i \in Dirs : i = call.dir
  BY DEF TypeOK
<1>1. PICK p \in FreePids :
        /\ procs' = [procs EXCEPT ![p] = Spawned(i)]
        /\ SetAndRecord(i, [svd[i] EXCEPT !.pid = p, !.ctrl = {},
                             !.state = IF @ = "finish" THEN @ ELSE "run"], TRUE)
  BY <1>0, Zenon DEF Fork
<1>2. /\ p \in Pids /\ p # NoPid /\ p \notin Children
      /\ Up /\ Up' /\ svd[i].pid = NoPid
  BY <1>0, PidAssumption DEF TypeOK, FreePids, ChildInv, FreeIsNobody, Children, Fork, Up,
     StartIdle, Goto, Returns
<1>3. Spawned(i).child /\ Spawned(i).prog = ProgOf(i)
  BY DEF Spawned
<1>4. procs'[p] = Spawned(i) /\ \A q \in Pids \ {p} : procs'[q] = procs[q]
  BY <1>1, <1>2 DEF TypeOK
<1>5. Children' = Children \cup {p} /\ DirOf(p)' = i
  BY <1>2, <1>3, <1>4 DEF Children, DirOf, ProgOf, Dirs
<1>6. \A q \in Children : DirOf(q)' = DirOf(q)
  BY <1>2, <1>4 DEF DirOf, Children
<1>7. /\ svd'[i].pid = p /\ \A j \in Dirs \ {i} : svd'[j] = svd[j]
      /\ svd'[i].state = IF svd[i].state = "finish" THEN "finish" ELSE "run"
  BY <1>1, <1>2 DEF SetAndRecord, TypeOK, Svdir
<1>8. \A q \in Children : DirOf(q) \in Dirs \ {i}
  BY <1>2, PidAssumption DEF OwnOnly, Children, DirOf, Dirs
<1>9. OwnOnly'
  <2>1. \A q \in Children' : q = svd'[DirOf(q)'].pid
    BY <1>5, <1>6, <1>7, <1>8 DEF OwnOnly
  <2>2. \A j \in Dirs : svd'[j].state = "down" => svd'[j].pid = NoPid
    BY <1>2, <1>7 DEF OwnOnly
  <2>3. QED
    BY <1>2, <2>1, <2>2 DEF OwnOnly
<1>10. CASE i = 0
  <2>1. ServiceLive = {} /\ ServiceLive' = {p}
    BY <1>2, <1>5, <1>6, <1>8, <1>10 DEF ServiceLive, ChildrenOf
  <2>2. /\ ServicePhase = svd[0].state /\ ServicePhase' = svd'[0].state
        /\ svd[0].state \in {"down", "finish"}
    BY <1>2, <1>10 DEF ServicePhase, ChildInv, SignalsHitOwnChild, TypeOK, Svdir, States
  <2>3. Life!StartRun(p) \/ Life!StartFinish(p)
    BY <1>2, <1>7, <1>10, <2>1, <2>2 DEF Life!StartRun, Life!StartFinish
  <2>4. QED
    BY <1>2, <1>9, <2>3
<1>11. CASE i = 1
  <2>1. ServiceLive' = ServiceLive
    BY <1>2, <1>5, <1>6, <1>11 DEF ServiceLive, ChildrenOf
  <2>2. ServicePhase' = ServicePhase
    BY <1>2, <1>7, <1>11 DEF ServicePhase, Dirs
  <2>3. QED
    BY <1>2, <1>9, <2>1, <2>2 DEF SameLife
<1>12. QED
  BY <1>10, <1>11 DEF Dirs

(* The wait loop: the service's process ends its phase, the log's none.    *)
LEMMA ReapStep ==
  ASSUME TypeOK, ChildInv, OwnOnly, Reap
  PROVE  OwnOnly' /\ (SameLife \/ Life!RunEnds \/ Life!FinishEnds)
<1>1. PICK p \in Zombies :
        /\ procs' = [procs EXCEPT ![p] = FreeProc]
        /\ \/ p = svd[0].pid /\ ReapService(p)
           \/ p # svd[0].pid /\ HasLog /\ p = svd[1].pid /\ ReapLog(p)
           \/ p # svd[0].pid /\ p # svd[1].pid
              /\ UNCHANGED <<svd, wstat, files, pidchanged>>
  BY Zenon DEF Reap
<1>2. /\ p \in Pids /\ p \in Children /\ p # NoPid /\ Up /\ Up' /\ Dirs = {0, 1}
      /\ svd[0] \in Svdir /\ svd[1] \in Svdir /\ svd \in [Dirs -> Svdir]
  BY PidAssumption DEF Zombies, Children, Reap, Up, TypeOK, Dirs
<1>3. procs'[p] = FreeProc /\ \A q \in Pids \ {p} : procs'[q] = procs[q]
  <2>1. procs \in [Pids -> Proc]
    BY Zenon DEF TypeOK
  <2>2. QED
    BY <1>1, <1>2, <2>1, OneChanged, Zenon
<1>4. Children' = Children \ {p} /\ \A q \in Children \ {p} : DirOf(q)' = DirOf(q)
  <2>1. FreeProc.child = FALSE
    BY Zenon DEF FreeProc
  <2>2. Children' = Children \ {p}
    BY <1>2, <1>3, <2>1, Zenon DEF Children
  <2>3. \A q \in Children \ {p} : DirOf(q)' = DirOf(q)
    BY <1>3, Zenon DEF Children, DirOf
  <2>4. QED
    BY <2>2, <2>3, Zenon
<1>5. \A q \in Children : q = svd[DirOf(q)].pid /\ DirOf(q) \in Dirs
  BY <1>2 DEF OwnOnly, DirOf
<1>6. CASE p = svd[0].pid /\ ReapService(p)
  <2>1. /\ svd'[0].pid = NoPid /\ svd'[1] = svd[1]
        /\ svd'[0].state = IF svd[0].state # "finish" /\ HasFinish THEN "finish" ELSE "down"
    BY <1>2, <1>6 DEF ReapService, SetAndRecord, Svdir
  <2>2. \A q \in Children : q # p => DirOf(q) = 1
    BY <1>2, <1>5, <1>6
  <2>3. OwnOnly'
    BY <1>2, <1>4, <1>5, <2>1, <2>2 DEF OwnOnly
  <2>4. p \in ChildrenOf(0)
    BY <1>2, <1>6 DEF ChildInv, SignalsHitOwnChild
  <2>5. p \in ServiceLive /\ ServiceLive' = {}
    BY <1>2, <1>4, <2>2, <2>4 DEF ServiceLive, ChildrenOf
  <2>6. svd[0].state \in {"run", "finish"}
    BY <1>2, <1>6 DEF OwnOnly, Svdir, States
  <2>7. Life!RunEnds \/ Life!FinishEnds
    BY <1>2, <2>1, <2>5, <2>6 DEF Life!RunEnds, Life!FinishEnds, ServicePhase
  <2>8. QED
    BY <2>3, <2>7
<1>7. CASE p # svd[0].pid /\ p = svd[1].pid /\ ReapLog(p)
  <2>1. svd'[1].pid = NoPid /\ svd'[0] = svd[0] /\ svd'[1].state = "down"
    BY <1>2, <1>7 DEF ReapLog, SetAndRecord, Svdir
  <2>2. \A q \in Children : q # p => DirOf(q) = 0
    BY <1>2, <1>5, <1>7
  <2>3. OwnOnly'
    BY <1>2, <1>4, <1>5, <2>1, <2>2 DEF OwnOnly
  <2>4. DirOf(p) = 1
    BY <1>2, <1>5, <1>7
  <2>5. ServiceLive' = ServiceLive
    BY <1>2, <1>4, <2>4 DEF ServiceLive, ChildrenOf
  <2>6. QED
    BY <1>2, <2>1, <2>3, <2>5 DEF SameLife, ServicePhase
<1>8. CASE p # svd[0].pid /\ p # svd[1].pid
  BY <1>2, <1>5, <1>8
<1>9. QED
  BY <1>1, <1>6, <1>7, <1>8

(* Every step keeps OwnOnly, and is a step or a stutter of the life.       *)
LEMMA LifeStep ==
  ASSUME TypeOK, ChildInv, LifeInv, [Next]_vars
  PROVE  OwnOnly' /\ (SameLife \/ Life!LifeNext)
<1> USE DEF LifeInv
<1>1. CASE \E i \in Dirs : OpenControl(i)
  BY <1>1, UnchangedStep DEF OpenControl, Goto, LoopTop, Up
<1>2. CASE TopLog \/ TopService \/ PollReturns \/ PollTimeout \/ Drain \/ ReapDone
  BY <1>2, UnchangedStep
  DEF TopLog, TopService, PollReturns, PollTimeout, Drain, ReapDone, Call, Goto, Up
<1>3. CASE StopService \/ StopFirst
  <2>1. call.dir \in Dirs /\ Up /\ Up' /\ StopBody(call.dir)
    BY <1>3 DEF TypeOK, StopService, StopFirst, Up, Goto, Returns
  <2>2. QED
    BY <2>1, StopBodyKeeps, QuietStep DEF SameStates
<1>4. CASE Fork
  BY <1>4, ForkStep DEF Life!LifeNext
<1>5. CASE Reap
  BY <1>5, ReapStep DEF Life!LifeNext
<1>6. ASSUME NEW i \in Dirs, NEW c, c # "k", NEW ret \in Returns, Ctrl(i, c, ret), Up
      PROVE  OwnOnly' /\ SameLife
  <2>1. SameFamily /\ SameStates
    BY <1>6, CtrlKeeps DEF SameStates
  <2>2. Up'
    BY <1>6 DEF Ctrl, CtrlWant, CtrlTerm, CtrlKill, CtrlPause, CtrlOther, Goto, Call, Up,
       Returns
  <2>3. QED
    BY <1>6, <2>1, <2>2, QuietStep
<1>7. CASE \E i \in Dirs : ReadControl(i)
  <2>1. PICK i \in Dirs : ReadControl(i)
    BY <1>7
  <2>2. PICK ret \in {"ctl1", "term"} :
          \/ Goto(ret) /\ svd' = svd /\ procs' = procs
          \/ fifo[i] # <<>> /\ Ctrl(i, Head(fifo[i]), ret)
    BY <2>1 DEF ReadControl
  <2>3. Up /\ ret \in Returns
    BY <2>1 DEF ReadControl, Up, Returns
  <2>4. CASE Goto(ret) /\ svd' = svd /\ procs' = procs
    BY <2>3, <2>4, UnchangedStep DEF Goto, Up
  <2>5. CASE fifo[i] # <<>> /\ Ctrl(i, Head(fifo[i]), ret)
    <3>1. Head(fifo[i]) # "k"
      BY <2>5 DEF FifoClean
    <3>2. QED
      BY <1>6, <2>3, <2>5, <3>1
  <2>6. QED
    BY <2>2, <2>4, <2>5
<1>8. CASE SigTerm
  <2>1. Up /\ 0 \in Dirs /\ "exitck" \in Returns
    BY <1>8 DEF SigTerm, Up, Dirs, Returns
  <2>2. CASE Ctrl(0, "x", "exitck")
    BY <1>6, <2>1, <2>2
  <2>3. CASE Goto("exitck") /\ svd' = svd /\ procs' = procs
    BY <2>1, <2>3, UnchangedStep DEF Goto, Up
  <2>4. QED
    BY <1>8, <2>2, <2>3 DEF SigTerm
<1>9. CASE ExitCheck
  <2>1. Up
    BY <1>9 DEF ExitCheck, Up
  <2>2. CASE Goto("exited") /\ Gone
    BY <2>1, <2>2, GoneStep DEF Goto, Up, Life!LifeNext
  <2>3. CASE /\ SetAndRecord(1, [svd[1] EXCEPT !.want = "exit"], pidchanged)
             /\ Goto(LoopTop) /\ procs' = procs
    <3>1. SameFamily /\ SameStates
      BY <2>3 DEF SetAndRecord, SameFamily, SameProcs, SameStates, TypeOK, Svdir, Dirs
    <3>2. Up'
      BY <2>3 DEF Goto, LoopTop, Up
    <3>3. QED
      BY <2>1, <3>1, <3>2, QuietStep
  <2>4. CASE Goto(LoopTop) /\ svd' = svd /\ procs' = procs
    BY <2>1, <2>4, UnchangedStep DEF Goto, LoopTop, Up
  <2>5. QED
    BY <1>9, <2>2, <2>3, <2>4 DEF ExitCheck
<1>10. CASE \E sig \in {"TERM", "CHLD"} : Deliver(sig)
  BY <1>10, UnchangedStep DEF Deliver, Up
<1>11. CASE \E p \in Pids : ChildEnds(p)
  BY <1>11, ChildEndsStep
<1>12. CASE SendTerm \/ \E i \in Dirs, c \in CommandChars : SendCommand(i, c)
  BY <1>12, UnchangedStep DEF SendTerm, SendCommand, Up
<1>13. CASE Crash
  BY <1>13, GoneStep DEF Crash, Goto, Up, Life!LifeNext
<1>14. CASE Restart
  <2>1. ~Up /\ Up' /\ Children = {} /\ Children' = {}
    BY <1>14 DEF Restart, Goto, Up, OwnOnly, Children
  <2>2. \A i \in Dirs : svd'[i].pid = NoPid /\ svd'[i].state = "down"
    BY <1>14, FreshIsSafe DEF Restart
  <2>3. OwnOnly'
    BY <2>1, <2>2 DEF OwnOnly
  <2>4. Life!TakeOver
    BY <2>1, <2>2 DEF Life!TakeOver, ServicePhase, ServiceLive, ChildrenOf, Dirs
  <2>5. QED
    BY <2>3, <2>4 DEF Life!LifeNext
<1>15. CASE Terminated \/ UNCHANGED vars
  BY <1>15, UnchangedStep DEF Terminated, vars, Up
<1>16. QED
  BY <1>1, <1>2, <1>3, <1>4, <1>5, <1>7, <1>8, <1>9, <1>10, <1>11, <1>12, <1>13,
     <1>14, <1>15
  DEF Next, LoopStep, Environment

----------------------------------------------------------------------------
(* Theorems *)

(* In the initial states nothing runs and nothing is in the fifos.         *)
LEMMA LifeInvInit ==
  ASSUME Init
  PROVE  LifeInv
<1>1. FifoClean
  <2>1. <<>> \in Seq(CommandChars \ {"k"})
    OBVIOUS
  <2>2. QED
    BY <2>1 DEF Init, FifoClean
<1>2. Children = {}
  BY DEF Init, Children, FreeProc
<1>3. OwnOnly
  BY <1>2, FreshIsSafe DEF Init, OwnOnly
<1>4. QED
  BY <1>1, <1>3 DEF Init, StartIdle, LifeInv

(* LifeInv, the inductive form of the three results below.                 *)
THEOREM LifeInvHolds ==
  ASSUME NoKill
  PROVE  Spec => []LifeInv
<1>1. Init => LifeInv
  BY LifeInvInit
<1>2. TypeOK /\ ChildInv /\ LifeInv /\ [Next]_vars => LifeInv'
  <2> SUFFICES ASSUME TypeOK, ChildInv, LifeInv, [Next]_vars PROVE LifeInv'
    OBVIOUS
  <2>1. FifoClean'
    BY FifoStep DEF LifeInv
  <2>2. OwnOnly' /\ StartIdle'
    BY LifeStep, IdleStep
  <2>3. QED
    BY <2>1, <2>2 DEF LifeInv
<1>3. QED
  BY <1>1, <1>2, TypeCorrect, ChildInvHolds, PTL DEF Spec

(* Without 'k', no directory ever has two processes at a time.             *)
THEOREM OneProcess ==
  ASSUME NoKill
  PROVE  Spec => []OneInstance
<1>1. LifeInv => OneInstance
  BY DEF LifeInv, OwnOnly, OneInstance, ChildrenOf
<1>2. QED
  BY <1>1, LifeInvHolds, PTL

(* Without 'k', the branch of startservice() marked "should never happen"  *)
(* never happens.                                                          *)
THEOREM NeverHappens ==
  ASSUME NoKill
  PROVE  Spec => []StartsOnlyWhenIdle
<1>1. LifeInv => StartsOnlyWhenIdle
  BY DEF LifeInv, StartIdle, StartsOnlyWhenIdle
<1>2. QED
  BY <1>1, LifeInvHolds, PTL

(* Without 'k', runsv exits by itself only when every child is reaped.     *)
THEOREM ExitIsClean ==
  ASSUME NoKill
  PROVE  Spec => ExitLeavesNoChild
<1>1. LifeInv /\ [Next]_vars => [pc = "exitck" /\ pc' = "exited" => Children = {}]_vars
  <2> SUFFICES ASSUME LifeInv, Next, pc = "exitck", pc' = "exited" PROVE Children = {}
    BY DEF vars
  <2>1. ExitCheck
    BY DEF Next, LoopStep, Environment, OpenControl, TopLog, TopService, StopService,
       StopFirst, Fork, PollReturns, PollTimeout, Drain, Reap, ReapDone, ReadControl,
       SigTerm, Deliver, ChildEnds, SendCommand, SendTerm, Crash, Restart, Terminated,
       Goto, Up, vars
  <2>2. svd[0].state = "down" /\ svd[1].pid = NoPid
    BY <2>1 DEF ExitCheck, Goto, LoopTop
  <2>3. \A i \in Dirs : svd[i].pid = NoPid
    BY <2>2 DEF LifeInv, OwnOnly, Up, Dirs
  <2>4. \A p \in Children : p \in Pids /\ p = svd[DirOf(p)].pid /\ DirOf(p) \in Dirs
    BY DEF LifeInv, OwnOnly, Children, DirOf, Dirs
  <2>5. QED
    BY <2>3, <2>4, PidAssumption
<1>2. QED
  BY <1>1, LifeInvHolds, PTL DEF Spec, ExitLeavesNoChild

(* Without 'k', runsv implements ServiceLife: ./run, ./finish, ./run, one  *)
(* at a time, across crashes and restarts of runsv.                        *)
THEOREM RunsvImplementsLife ==
  ASSUME NoKill
  PROVE  Spec => ImplementsLife
<1>1. Init => Life!LifeInit
  <2> SUFFICES ASSUME Init PROVE Life!LifeInit
    OBVIOUS
  <2>1. Up /\ Children = {}
    BY DEF Init, Up, Children, FreeProc
  <2>2. svd[0].state = "down"
    BY FreshIsSafe DEF Init, Dirs
  <2>3. QED
    BY <2>1, <2>2 DEF Life!LifeInit, ServicePhase, ServiceLive, ChildrenOf
<1>2. TypeOK /\ ChildInv /\ LifeInv /\ [Next]_vars => [Life!LifeNext]_(Life!lifeVars)
  BY LifeStep, Zenon DEF SameLife, Life!lifeVars
<1>3. QED
  BY <1>1, <1>2, TypeCorrect, ChildInvHolds, LifeInvHolds, PTL
  DEF Spec, ImplementsLife, Life!LifeSpec

----------------------------------------------------------------------------
(* The files, on a disk that works                                         *)

(* What supervise/ of directory i is to say.                               *)
Described(i) ==
  /\ files[i].status = StatusOf(svd[i])
  /\ files[i].stat = StatOf(svd[i])
  /\ i = 0 \/ svd[i].pid # NoPid => files[i].pid = svd[i].pid

(* RecordedStatus for every stretch of the loop, not only for poll(): the  *)
(* files are right from open_control() on, and pidchanged is used up there.*)
RecordInv ==
  Up => /\ pidchanged <=> pc = "boot0"
        /\ pc # "boot0" => Described(0)
        /\ HasLog /\ pc \notin Boot => Described(1)
        /\ pc \in Boot => svd[1].pid = NoPid

(* update_status() leaves files that describe the directory.               *)
LEMMA RecordDescribes ==
  ASSUME DiskErrors = {}, TypeOK, NEW i \in Dirs, Recording(i)
  PROVE  /\ pidchanged' = FALSE
         /\ \A j \in Dirs \ {i} : svd'[j] = svd[j] /\ (Described(j) => Described(j)')
         /\ Described(i) \/ pidchanged \/ (i = 1 /\ svd[i].pid = NoPid) => Described(i)'
<1>1. PICK s \in Svdir, changed \in BOOLEAN : Records(i, s, changed)
  BY DEF Recording
<1>2. svd'[i] = s /\ \A j \in Dirs \ {i} : svd'[j] = svd[j]
  BY <1>1 DEF Records, SetAndRecord, TypeOK
<1>3. pidchanged' = FALSE /\ files' = [files EXCEPT ![i] = NewFiles(@, s, changed, {})]
  <2>1. Failures = {{}}
    BY DEF Failures
  <2>2. QED
    BY <1>1, <2>1, Zenon DEF Records, SetAndRecord, UpdateStatus
<1>4. files'[i] = NewFiles(files[i], s, changed, {}) /\ \A j \in Dirs \ {i} : files'[j] = files[j]
  BY <1>3 DEF TypeOK
<1>5. files'[i].status = StatusOf(s) /\ files'[i].stat = StatOf(s)
  <2>1. /\ NewFiles(files[i], s, changed, {}).status = StatusOf(s)
        /\ NewFiles(files[i], s, changed, {}).stat = StatOf(s)
    BY Zenon DEF NewFiles
  <2>2. QED
    BY <1>4, <2>1, Zenon
<1>6. changed => files'[i].pid = s.pid
  <2>1. NewFiles(files[i], s, TRUE, {}).pid = s.pid
    BY Zenon DEF NewFiles
  <2>2. QED
    BY <1>4, <2>1, Zenon
<1>7. ~changed => /\ ~pidchanged /\ s.pid = svd[i].pid
                  /\ files'[i].pid = files[i].pid
  <2>1. NewFiles(files[i], s, FALSE, {}).pid = files[i].pid
    BY Zenon DEF NewFiles
  <2>2. ~changed => files'[i].pid = files[i].pid
    BY <1>4, <2>1, Zenon
  <2>3. QED
    BY <1>1, <2>2, Zenon DEF Records
<1>8. \A j \in Dirs \ {i} : Described(j) => Described(j)'
  BY <1>2, <1>4, Zenon DEF Described
<1>9. Described(i) \/ pidchanged \/ (i = 1 /\ svd[i].pid = NoPid) => Described(i)'
  <2>1. CASE changed
    BY <1>2, <1>5, <1>6, <2>1 DEF Described
  <2>2. CASE ~changed
    BY <1>2, <1>5, <1>7, <2>2 DEF Described, Dirs
  <2>3. QED
    BY <2>1, <2>2, Zenon
<1>10. QED
  BY <1>2, <1>3, <1>8, <1>9, Zenon

(* Every step but 'k' keeps the files right.                               *)
LEMMA RecordStep ==
  ASSUME DiskErrors = {}, TypeOK, FifoClean, LogUnused, RecordInv, [Next]_vars
  PROVE  RecordInv'
<1>1. CASE Quiet
  <2>1. \A i \in Dirs : Described(i)' <=> Described(i)
    BY <1>1 DEF Quiet, Standing, Described
  <2>2. QED
    BY <1>1, <2>1, Zenon DEF Quiet, Standing, RecordInv, Boot, Dirs
<1>2. CASE Restart
  BY <1>2, FreshIsSafe DEF Restart, Goto, RecordInv, Boot, Dirs
<1>3. CASE \E i \in Dirs : Recorded(i)
  <2>1. PICK i \in Dirs : Recorded(i)
    BY <1>3
  <2>2. /\ pidchanged' = FALSE
        /\ \A j \in Dirs \ {i} : svd'[j] = svd[j] /\ (Described(j) => Described(j)')
        /\ Described(i) \/ pidchanged \/ (i = 1 /\ svd[i].pid = NoPid) => Described(i)'
    BY <2>1, RecordDescribes, Zenon DEF Recorded
  <2>3. CASE pc \notin Boot /\ pc' \notin Boot
    <3>1. Described(0) /\ (HasLog => Described(1)) /\ (i = 1 => HasLog)
      BY <2>1, <2>3 DEF RecordInv, Recorded, Recording, Records, Boot
    <3>2. Described(0)' /\ (HasLog => Described(1)')
      BY <2>2, <3>1 DEF Dirs
    <3>3. QED
      BY <2>2, <2>3, <3>2 DEF RecordInv, Boot
  <2>4. CASE pc = "boot0" /\ i = 0 /\ pc' = IF HasLog THEN "boot1" ELSE "top0"
    <3>1. pidchanged /\ svd[1].pid = NoPid
      BY <2>1, <2>4 DEF RecordInv, Recorded, Boot
    <3>2. Described(0)' /\ svd'[1].pid = NoPid
      BY <2>2, <2>4, <3>1 DEF Dirs
    <3>3. QED
      BY <2>2, <2>4, <3>2 DEF RecordInv, Boot
  <2>5. CASE pc = "boot1" /\ i = 1 /\ pc' = "top1"
    <3>1. Described(0) /\ svd[1].pid = NoPid
      BY <2>1, <2>5 DEF RecordInv, Recorded, Boot
    <3>2. Described(0)' /\ Described(1)'
      BY <2>2, <2>5, <3>1 DEF Dirs
    <3>3. QED
      BY <2>2, <2>5, <3>2 DEF RecordInv, Boot
  <2>6. QED
    BY <2>1, <2>3, <2>4, <2>5 DEF Recorded
<1>4. ~KillRead
  BY DEF KillRead, FifoClean
<1>5. QED
  BY <1>1, <1>2, <1>3, <1>4, StepRecords

(* Without 'k', and on a disk that works, whenever runsv sleeps the files  *)
(* say what is in memory: after every command, fork and reaped child,      *)
(* after crashes and restarts, for the service and for its log.            *)
THEOREM FilesAreRight ==
  ASSUME NoKill, DiskErrors = {}
  PROVE  Spec => []RecordedStatus
<1>1. Init => RecordInv
  BY FreshIsSafe DEF Init, RecordInv, Boot, Dirs
<1>2. TypeOK /\ LifeInv /\ LogUnused /\ RecordInv /\ [Next]_vars => RecordInv'
  BY RecordStep DEF LifeInv
<1>3. RecordInv => RecordedStatus
  BY DEF RecordInv, RecordedStatus, Described, Boot, Up, Dirs
<1>4. QED
  BY <1>1, <1>2, <1>3, TypeCorrect, LogIsUnused, LifeInvHolds, PTL DEF Spec

----------------------------------------------------------------------------
(* What ./finish is told                                                   *)

(* Without a log, the wait status that startservice() passes to ./finish   *)
(* is that of ./run: S_FINISH without a process is entered only when the   *)
(* process of S_RUN is reaped, and that one runs ./run.                    *)
FinishInv ==
  /\ FinishGetsRunStatus
  /\ Up => /\ svd[0].state = "finish" /\ svd[0].pid = NoPid => wstat.prog = "run"
           /\ svd[0].state = "run" => procs[svd[0].pid].prog = "run"

(* Steps that keep the family and the states keep FinishInv.               *)
LEMMA FinishSame ==
  ASSUME TypeOK, ChildInv, FinishInv, SameFamily, SameStates, wstat' = wstat, Up' => Up
  PROVE  FinishInv'
<1>1. FinishGetsRunStatus'
  BY DEF FinishInv, FinishGetsRunStatus, SameFamily, SameProcs
<1>2. ASSUME Up', svd'[0].state = "run" PROVE procs'[svd'[0].pid].prog = "run"
  <2>1. svd[0].state = "run" /\ svd'[0].pid = svd[0].pid /\ svd[0].pid \in Pids
    BY <1>2 DEF SameStates, SameFamily, Dirs, ChildInv, SignalsHitOwnChild, ChildrenOf, Children
  <2>2. QED
    BY <1>2, <2>1 DEF FinishInv, SameFamily, SameProcs
<1>3. ASSUME Up', svd'[0].state = "finish", svd'[0].pid = NoPid PROVE wstat'.prog = "run"
  BY <1>3 DEF SameStates, SameFamily, Dirs, FinishInv
<1>4. QED
  BY <1>1, <1>2, <1>3 DEF FinishInv

(* The same where neither svd nor the processes change.                    *)
LEMMA FinishUnchanged ==
  ASSUME TypeOK, ChildInv, FinishInv, UNCHANGED <<svd, procs, wstat>>, Up' => Up
  PROVE  FinishInv'
<1>1. SameFamily /\ SameStates
  BY DEF SameFamily, SameProcs, SameStates
<1>2. QED
  BY <1>1, FinishSame

(* vfork(): ./finish is given the status of ./run; ./run is on record as   *)
(* S_RUN.                                                                  *)
LEMMA FinishFork ==
  ASSUME ~HasLog, TypeOK, LogUnused, StartIdle, FinishInv, Fork
  PROVE  FinishInv'
<1>0. PICK i \in Dirs : i = call.dir /\ i = 0
  BY DEF TypeOK, LogUnused
<1>1. PICK p \in FreePids :
        /\ procs' = [procs EXCEPT ![p] = Spawned(i)]
        /\ SetAndRecord(i, [svd[i] EXCEPT !.pid = p, !.ctrl = {},
                             !.state = IF @ = "finish" THEN @ ELSE "run"], TRUE)
  BY <1>0, Zenon DEF Fork
<1>2. p \in Pids /\ p # NoPid /\ Up /\ svd[i].pid = NoPid
  BY <1>0, PidAssumption DEF FreePids, Fork, Up, StartIdle
<1>3. procs'[p] = Spawned(i) /\ \A q \in Pids \ {p} : procs'[q] = procs[q]
  BY <1>1, <1>2 DEF TypeOK
<1>4. /\ svd'[i].pid = p
      /\ svd'[i].state = IF svd[i].state = "finish" THEN "finish" ELSE "run"
  BY <1>1, <1>2 DEF SetAndRecord, TypeOK, Svdir
<1>5. Spawned(i).prog = IF svd[i].state = "finish" THEN "finish" ELSE "run"
  BY <1>0 DEF Spawned, ProgOf
<1>6. Spawned(i).prog = "finish" => Spawned(i).args.prog = "run"
  <2>1. ASSUME svd[i].state = "finish" PROVE Spawned(i).args.prog = wstat.prog /\ wstat.prog = "run"
    BY <1>0, <1>2, <2>1 DEF Spawned, ProgOf, FinishArgs, FinishInv
  <2>2. QED
    BY <1>5, <2>1
<1>7. FinishGetsRunStatus'
  BY <1>3, <1>6 DEF FinishInv, FinishGetsRunStatus
<1>8. QED
  BY <1>0, <1>2, <1>3, <1>4, <1>5, <1>7 DEF FinishInv

(* wait(): S_FINISH comes after S_RUN, whose process was ./run.            *)
LEMMA FinishReap ==
  ASSUME ~HasLog, TypeOK, ChildInv, OwnOnly, FinishInv, Reap
  PROVE  FinishInv'
<1>1. PICK p \in Zombies :
        /\ procs' = [procs EXCEPT ![p] = FreeProc]
        /\ \/ p = svd[0].pid /\ ReapService(p)
           \/ p # svd[0].pid /\ UNCHANGED <<svd, wstat>>
  BY Zenon DEF Reap
<1>2. /\ p \in Pids /\ p # NoPid /\ Up /\ svd[0] \in Svdir
      /\ svd \in [Dirs -> Svdir] /\ 0 \in Dirs
  BY PidAssumption DEF Zombies, Children, Reap, Up, TypeOK, Dirs
<1>3. procs'[p] = FreeProc /\ \A q \in Pids \ {p} : procs'[q] = procs[q]
  <2>1. procs \in [Pids -> Proc]
    BY Zenon DEF TypeOK
  <2>2. QED
    BY <1>1, <1>2, <2>1, OneChanged, Zenon
<1>4. FinishGetsRunStatus'
  <2>1. FreeProc.prog = "none"
    BY Zenon DEF FreeProc
  <2>2. \A q \in Pids \ {p} : procs'[q].prog = procs[q].prog /\ procs'[q].args = procs[q].args
    BY <1>3, Zenon
  <2>3. QED
    BY <1>3, <2>1, <2>2, Zenon DEF FinishInv, FinishGetsRunStatus
<1>5. CASE p = svd[0].pid /\ ReapService(p)
  <2>1. /\ svd'[0].state = IF svd[0].state # "finish" /\ HasFinish THEN "finish" ELSE "down"
        /\ wstat'.prog = procs[p].prog
    BY <1>2, <1>5 DEF ReapService, SetAndRecord, Svdir
  <2>2. svd[0].state \in {"run", "finish"}
    BY <1>2, <1>5 DEF OwnOnly, Svdir, States
  <2>3. svd[0].state = "run" => wstat'.prog = "run"
    BY <1>2, <1>5, <2>1 DEF FinishInv
  <2>4. QED
    BY <1>4, <2>1, <2>2, <2>3, Zenon DEF FinishInv
<1>6. CASE p # svd[0].pid /\ UNCHANGED <<svd, wstat>>
  <2>1. svd[0].state = "run" => svd[0].pid \in Pids \ {p}
    BY <1>2, <1>6 DEF ChildInv, SignalsHitOwnChild, ChildrenOf, Children
  <2>2. QED
    BY <1>2, <1>3, <1>4, <1>6, <2>1 DEF FinishInv
<1>7. QED
  BY <1>1, <1>5, <1>6

(* A process that ends keeps its arguments, or is forgotten.               *)
LEMMA FinishEnds ==
  ASSUME TypeOK, ChildInv, FinishInv, NEW p \in Pids, ChildEnds(p)
  PROVE  FinishInv'
<1>1. UNCHANGED <<svd, wstat>> /\ Up' = Up
  BY DEF ChildEnds, Up
<1>2. \A q \in Pids \ {p} : procs'[q] = procs[q]
  BY DEF ChildEnds, TypeOK
<1>3. CASE procs[p].child
  <2>1. PICK how \in {"exited", "signaled"} :
          procs' = [procs EXCEPT ![p].st = "zombie", ![p].how = how]
    BY <1>3 DEF ChildEnds
  <2>2. procs'[p] = [procs[p] EXCEPT !.st = "zombie", !.how = how]
    BY <2>1 DEF TypeOK
  <2>3. procs'[p].prog = procs[p].prog /\ procs'[p].args = procs[p].args
    BY <2>2 DEF TypeOK, Proc
  <2>4. \A q \in Pids : procs'[q].prog = procs[q].prog /\ procs'[q].args = procs[q].args
    BY <1>2, <2>3
  <2>5. Up /\ svd[0].state = "run" => svd[0].pid \in Pids
    BY Zenon DEF ChildInv, SignalsHitOwnChild, ChildrenOf, Children, Dirs
  <2>6. QED
    BY <1>1, <2>4, <2>5, Zenon DEF FinishInv, FinishGetsRunStatus
<1>4. CASE ~procs[p].child
  <2>1. procs'[p] = FreeProc
    BY <1>4 DEF ChildEnds, TypeOK
  <2>2. Up /\ svd[0].state = "run" => svd[0].pid \in Pids \ {p}
    BY <1>4, Zenon DEF ChildInv, SignalsHitOwnChild, ChildrenOf, Children, Dirs
  <2>3. QED
    BY <1>1, <1>2, <2>1, <2>2 DEF FinishInv, FinishGetsRunStatus, FreeProc
<1>5. QED
  BY <1>3, <1>4

(* A runsv that goes leaves its processes to end by themselves.            *)
LEMMA FinishGone ==
  ASSUME TypeOK, FinishInv, Gone, ~Up'
  PROVE  FinishInv'
<1>1. \A q \in Pids : /\ procs'[q].prog \in {procs[q].prog, "none"}
                      /\ procs'[q].prog = "finish" => procs'[q].args = procs[q].args
  BY DEF Gone, Orphan, FreeProc, TypeOK, Proc
<1>2. QED
  BY <1>1 DEF FinishInv, FinishGetsRunStatus

(* Every step keeps FinishInv.                                             *)
LEMMA FinishStep ==
  ASSUME ~HasLog, TypeOK, ChildInv, LifeInv, LogUnused, FinishInv, [Next]_vars
  PROVE  FinishInv'
<1> USE DEF LifeInv
<1>1. CASE TopLog \/ TopService \/ PollReturns \/ PollTimeout \/ Drain \/ ReapDone
  BY <1>1, FinishUnchanged
  DEF TopLog, TopService, PollReturns, PollTimeout, Drain, ReapDone, Up
<1>2. CASE \E i \in Dirs : OpenControl(i)
  BY <1>2, FinishUnchanged DEF OpenControl, Up
<1>3. CASE StopService \/ StopFirst
  <2>1. call.dir \in Dirs /\ Up /\ StopBody(call.dir) /\ wstat' = wstat
    BY <1>3 DEF TypeOK, StopService, StopFirst, Up
  <2>2. QED
    BY <2>1, StopBodyKeeps, FinishSame DEF SameStates
<1>4. CASE Fork
  BY <1>4, FinishFork
<1>5. CASE Reap
  BY <1>5, FinishReap
<1>6. ASSUME NEW i \in Dirs, NEW c, c # "k", NEW ret, Ctrl(i, c, ret), Up, wstat' = wstat
      PROVE  FinishInv'
  BY <1>6, CtrlKeeps, FinishSame DEF SameStates
<1>7. CASE \E i \in Dirs : ReadControl(i)
  <2>1. PICK i \in Dirs : ReadControl(i)
    BY <1>7
  <2>2. Up /\ wstat' = wstat
    BY <2>1 DEF ReadControl, Up
  <2>3. CASE svd' = svd /\ procs' = procs
    BY <2>2, <2>3, FinishUnchanged
  <2>4. CASE fifo[i] # <<>> /\ \E ret : Ctrl(i, Head(fifo[i]), ret)
    <3>1. Head(fifo[i]) # "k"
      BY <2>4 DEF FifoClean
    <3>2. QED
      BY <1>6, <2>2, <2>4, <3>1
  <2>5. QED
    BY <2>1, <2>3, <2>4 DEF ReadControl
<1>8. CASE SigTerm
  <2>1. Up /\ 0 \in Dirs /\ wstat' = wstat
    BY <1>8 DEF SigTerm, Up, Dirs
  <2>2. CASE Ctrl(0, "x", "exitck")
    BY <1>6, <2>1, <2>2
  <2>3. QED
    BY <1>8, <2>1, <2>2, FinishUnchanged DEF SigTerm
<1>9. CASE ExitCheck
  <2>1. Up /\ wstat' = wstat
    BY <1>9 DEF ExitCheck, Up
  <2>2. CASE Goto("exited") /\ Gone
    BY <2>2, FinishGone DEF Goto, Up
  <2>3. CASE svd' = svd /\ procs' = procs
    BY <2>1, <2>3, FinishUnchanged
  <2>4. QED
    BY <1>9, <2>2, <2>3 DEF ExitCheck, LogUnused
<1>10. CASE \E p \in Pids : ChildEnds(p)
  BY <1>10, FinishEnds
<1>11. CASE Crash
  BY <1>11, FinishGone DEF Crash, Goto, Up
<1>12. CASE Restart
  <2>1. FinishGetsRunStatus'
    BY <1>12 DEF Restart, FinishInv, FinishGetsRunStatus
  <2>2. svd'[0].state = "down"
    BY <1>12, FreshIsSafe DEF Restart, Dirs
  <2>3. QED
    BY <2>1, <2>2 DEF FinishInv
<1>13. CASE \/ SendTerm \/ Terminated \/ UNCHANGED vars
            \/ \E sig \in {"TERM", "CHLD"} : Deliver(sig)
            \/ \E i \in Dirs, c \in CommandChars : SendCommand(i, c)
  <2>1. UNCHANGED <<pc, svd, procs, wstat>>
    BY <1>13 DEF SendTerm, Terminated, vars, Deliver, SendCommand
  <2>2. QED
    BY <2>1, FinishUnchanged DEF Up
<1>14. QED
  BY <1>1, <1>2, <1>3, <1>4, <1>5, <1>7, <1>8, <1>9, <1>10, <1>11, <1>12, <1>13, Zenon
  DEF Next, LoopStep, Environment

(* Without 'k' and without a log, every ./finish is told how ./run ended;  *)
(* with a log, the wait status may be that of the log.                     *)
THEOREM FinishIsTold ==
  ASSUME NoKill, ~HasLog
  PROVE  Spec => []FinishGetsRunStatus
<1>1. Init => FinishInv
  <2> SUFFICES ASSUME Init PROVE FinishInv
    OBVIOUS
  <2>1. FinishGetsRunStatus
    BY DEF Init, FinishGetsRunStatus, FreeProc
  <2>2. svd[0].state = "down"
    BY FreshIsSafe DEF Init, Dirs
  <2>3. QED
    BY <2>1, <2>2 DEF FinishInv
<1>2. TypeOK /\ ChildInv /\ LifeInv /\ LogUnused /\ FinishInv /\ [Next]_vars => FinishInv'
  BY FinishStep
<1>3. FinishInv => FinishGetsRunStatus
  BY DEF FinishInv
<1>4. QED
  BY <1>1, <1>2, <1>3, TypeCorrect, ChildInvHolds, LifeInvHolds, LogIsUnused, PTL DEF Spec

=============================================================================
