------------------------------ MODULE Runsvdir ------------------------------
(***************************************************************************)
(* runit/runsvdir.c: keeps one runsv for every directory in a directory    *)
(* of services.                                                            *)
(*                                                                         *)
(* A directory is its inode, the table sv[] a function from the inodes in  *)
(* it.  Around runsvdir, directories come and go, runsv processes end, and *)
(* signals arrive.  A runsv is what Runsv promises of it: it takes the     *)
(* lock of its directory or gives up, and ends some time after a SIGTERM.  *)
(***************************************************************************)
EXTENDS Naturals, FiniteSets

CONSTANTS
  Dirs,        \* inodes of service directories
  Pids,        \* process ids
  NoPid,       \* service.pid == 0
  Script,      \* what the script of -s has in place of a directory
  Options      \* ways runsvdir is used, see OptionType

(* init: it is process 1; script: it has -s; nofork: vfork() and realloc() *)
(* may fail.  Bounds: the directories that may appear and the times        *)
(* runsvdir is started.                                                    *)
OptionType == [init : BOOLEAN, script : BOOLEAN, nofork : BOOLEAN,
               dirs : SUBSET Dirs, starts : Nat]

ASSUME RunsvdirAssumption ==
  /\ NoPid \notin Pids /\ Script \notin Dirs
  /\ Options \subseteq OptionType

VARIABLES
  opts,        \* the options in force
  pc,          \* the next stretch of runsvdir_main, or "exited"
  sv,          \* struct service sv[svnum]
  need_rescan,
  toRead,      \* entries readdir() has still to return
  stayed,      \* directories that were there since the scan began
  seen,        \* last_mtime, last_dev and last_ino are those of svdir
  gotSignal,   \* bb_got_signal
  sig,         \* the signal being handled
  present,     \* the service directories there are
  fresh,       \* they changed within the current second
  procs,       \* the process table
  starts       \* times runsvdir was started

scan == <<toRead, stayed>>
signals == <<gotSignal, sig>>
svdir == <<present, fresh>>
vars == <<opts, pc, sv, need_rescan, scan, seen, signals, svdir, procs, starts>>

----------------------------------------------------------------------------
(* State *)

Signals == {"none", "HUP", "TERM"}
PCs == {"reap", "check", "wait", "scan", "sleep", "script", "act", "exited"}
Service == [pid : Pids \cup {NoPid}, isgone : BOOLEAN]
Proc == [dir : Dirs \cup {Script}, st : {"free", "start", "run", "zombie"},
         mine : BOOLEAN, termed : BOOLEAN]

TypeOK ==
  /\ opts \in Options
  /\ pc \in PCs
  /\ DOMAIN sv \in SUBSET Dirs /\ sv \in [DOMAIN sv -> Service]
  /\ toRead \in SUBSET Dirs /\ stayed \in SUBSET Dirs /\ present \in SUBSET Dirs
  /\ need_rescan \in BOOLEAN /\ seen \in BOOLEAN /\ fresh \in BOOLEAN
  /\ gotSignal \in Signals /\ sig \in Signals
  /\ procs \in [Pids -> Proc]
  /\ starts \in Nat

FreeProc == [dir |-> Script, st |-> "free", mine |-> FALSE, termed |-> FALSE]
Child(dir, st) == [dir |-> dir, st |-> st, mine |-> TRUE, termed |-> FALSE]
FreePids == {p \in Pids : procs[p].st = "free"}
Live(p) == procs[p].st \in {"start", "run"}

Empty == [d \in {} |-> NoPid]
Recorded(ds) == {sv[d].pid : d \in ds} \ {NoPid}

(* Children that wait to be reaped.                                        *)
Dead == {p \in Pids : procs[p].mine /\ procs[p].st = "zombie"}
Reaped(ps) == [p \in Pids |-> IF p \in ps THEN FreeProc ELSE procs[p]]

(* kill(pid, SIGTERM) for each pid in a set.                               *)
Term(ps) == [p \in Pids |-> IF p \in ps /\ Live(p) THEN [procs[p] EXCEPT !.termed = TRUE]
                            ELSE procs[p]]

Init ==
  /\ opts \in Options
  /\ pc = "reap" /\ sv = Empty /\ need_rescan = TRUE
  /\ toRead = {} /\ stayed = {}
  /\ seen = FALSE /\ gotSignal = "none" /\ sig = "none"
  /\ present \in SUBSET opts.dirs /\ fresh \in BOOLEAN
  /\ procs = [p \in Pids |-> FreeProc]
  /\ starts = 1

----------------------------------------------------------------------------
(* The loop of runsvdir_main *)

(* Collect children.                                                       *)
Collect ==
  /\ pc = "reap" /\ pc' = "check"
  /\ procs' = Reaped(Dead)
  /\ sv' = [d \in DOMAIN sv |-> IF sv[d].pid \in Dead THEN [sv[d] EXCEPT !.pid = NoPid] ELSE sv[d]]
  /\ need_rescan' = (need_rescan \/ \E d \in DOMAIN sv : sv[d].pid \in Dead)
  /\ UNCHANGED <<opts, scan, seen, signals, svdir, starts>>

(* Is it time to look, and is there a reason to?  It is not before         *)
(* stampcheck, and stat() and chdir() on svdir may fail.                   *)
Check ==
  /\ pc = "check"
  /\ \/ (need_rescan \/ ~seen) /\ pc' = "wait" /\ seen' = TRUE
     \/ pc' = "sleep" /\ UNCHANGED seen
  /\ UNCHANGED <<opts, sv, need_rescan, scan, signals, svdir, procs, starts>>

(* Mutant: the scan does not wait for the second of last_mtime to end.     *)
OpenDirAtOnce ==
  /\ pc = "wait" /\ pc' = "scan"
  /\ need_rescan' = FALSE
  /\ sv' = [d \in DOMAIN sv |-> [sv[d] EXCEPT !.isgone = TRUE]]
  /\ toRead' = present /\ stayed' = present
  /\ UNCHANGED <<opts, seen, signals, svdir, procs, starts>>

(* opendir() of do_rescan(), once the second of last_mtime is over.        *)
OpenDir ==
  /\ pc = "wait" /\ ~(seen /\ fresh) /\ pc' = "scan"
  /\ need_rescan' = FALSE
  /\ sv' = [d \in DOMAIN sv |-> [sv[d] EXCEPT !.isgone = TRUE]]
  /\ toRead' = present /\ stayed' = present
  /\ UNCHANGED <<opts, seen, signals, svdir, procs, starts>>

(* opendir() fails, or readdir() does in the course of the scan.           *)
ScanFails ==
  /\ pc = "scan" \/ (pc = "wait" /\ ~(seen /\ fresh))
  /\ pc' = "sleep" /\ need_rescan' = TRUE /\ toRead' = {} /\ stayed' = {}
  /\ UNCHANGED <<opts, sv, seen, signals, svdir, procs, starts>>

(* runsv(): the pid, or none, that is recorded for the directory.  Where   *)
(* all of Pids are taken, it waits for one (a bound of the model).         *)
RunsvMay(pid) ==
  \/ pid = NoPid /\ (gotSignal # "none" \/ opts.nofork)
  \/ pid \in FreePids /\ gotSignal = "none"

Enter(d) ==
  \E pid \in Pids \cup {NoPid} :
    /\ RunsvMay(pid)
    /\ sv' = [e \in DOMAIN sv \cup {d} |-> IF e = d THEN [pid |-> pid, isgone |-> FALSE] ELSE sv[e]]
    /\ procs' = [p \in Pids |-> IF p = pid THEN Child(d, "start") ELSE procs[p]]

(* Mutant: a service whose runsv runs is started once more.                *)
ReadEntryAgain(d) ==
  /\ pc = "scan" /\ d \in toRead /\ toRead' = toRead \ {d}
  /\ \/ d \notin present /\ UNCHANGED <<sv, procs>>
     \/ d \in present /\ Enter(d)
  /\ UNCHANGED <<opts, pc, need_rescan, stayed, seen, signals, svdir, starts>>

(* Mutant: a service that is started again is not marked as seen.          *)
ReadEntryUnseen(d) ==
  /\ pc = "scan" /\ d \in toRead /\ toRead' = toRead \ {d}
  /\ \/ d \notin present /\ UNCHANGED <<sv, procs>>
     \/ d \in present /\ d \in DOMAIN sv /\ sv[d].pid # NoPid /\ UNCHANGED <<sv, procs>>
     \/ d \in present /\ ~(d \in DOMAIN sv /\ sv[d].pid # NoPid) /\ Enter(d)
  /\ UNCHANGED <<opts, pc, need_rescan, stayed, seen, signals, svdir, starts>>

(* One entry: gone again before stat(), listed with a runsv, no memory for *)
(* a new service, or listed without a runsv or new.                        *)
ReadEntry(d) ==
  /\ pc = "scan" /\ d \in toRead /\ toRead' = toRead \ {d}
  /\ \/ d \notin present /\ UNCHANGED <<sv, procs, need_rescan>>
     \/ /\ d \in present /\ d \in DOMAIN sv /\ sv[d].pid # NoPid
        /\ sv' = [sv EXCEPT ![d].isgone = FALSE] /\ UNCHANGED <<procs, need_rescan>>
     \/ /\ d \in present /\ d \notin DOMAIN sv /\ opts.nofork
        /\ need_rescan' = TRUE /\ UNCHANGED <<sv, procs>>
     \/ /\ d \in present /\ ~(d \in DOMAIN sv /\ sv[d].pid # NoPid)
        /\ Enter(d) /\ UNCHANGED need_rescan
  /\ UNCHANGED <<opts, pc, stayed, seen, signals, svdir, starts>>

Gone == {d \in DOMAIN sv : sv[d].isgone}

(* The services that were no longer found get a SIGTERM and are forgotten. *)
Prune ==
  /\ pc = "scan" /\ toRead = {} /\ pc' = "sleep" /\ stayed' = {}
  /\ procs' = Term(Recorded(Gone))
  /\ sv' = [d \in DOMAIN sv \ Gone |-> sv[d]]
  /\ UNCHANGED <<opts, need_rescan, toRead, seen, signals, svdir, starts>>

(* sleep() ends with the time or a signal; a signal is taken.              *)
Sleep ==
  /\ pc = "sleep"
  /\ \/ gotSignal = "none" /\ pc' = "reap" /\ UNCHANGED signals
     \/ /\ gotSignal # "none" /\ sig' = gotSignal /\ gotSignal' = "none"
        /\ pc' = IF opts.script THEN "script" ELSE "act"
  /\ UNCHANGED <<opts, sv, need_rescan, scan, seen, svdir, procs, starts>>

(* The script of -s: spawned if possible, and waited for; the children     *)
(* reaped on the way are not looked up in sv[].                            *)
Scripts == {p \in Pids : procs[p].mine /\ procs[p].dir = Script}
SpawnScript ==
  /\ pc = "script" /\ Scripts = {}
  /\ \/ \E p \in FreePids : procs' = [procs EXCEPT ![p] = Child(Script, "run")] /\ UNCHANGED pc
     \/ opts.nofork /\ pc' = "act" /\ UNCHANGED procs
  /\ UNCHANGED <<opts, sv, need_rescan, scan, seen, signals, svdir, starts>>
WaitScript ==
  /\ pc = "script" /\ Scripts # {}
  /\ \E p \in Dead : /\ procs' = Reaped({p})
                     /\ pc' = IF p \in Scripts THEN "act" ELSE pc
  /\ UNCHANGED <<opts, sv, need_rescan, scan, seen, signals, svdir, starts>>

(* runsvdir is gone; its children get another parent, which reaps them.    *)
Leave(ps) ==
  /\ pc' = "exited" /\ sv' = Empty /\ toRead' = {} /\ stayed' = {}
  /\ procs' = [p \in Pids |-> IF ps[p].st = "zombie" THEN FreeProc
                              ELSE [ps[p] EXCEPT !.mine = FALSE]]

(* SIGHUP stops all services; unless it is init, runsvdir exits.           *)
Act ==
  /\ pc = "act" /\ sig' = "none"
  /\ LET ps == IF sig = "HUP" THEN Term(Recorded(DOMAIN sv)) ELSE procs
     IN \/ opts.init /\ pc' = "reap" /\ procs' = ps /\ UNCHANGED <<sv, scan>>
        \/ ~opts.init /\ Leave(ps)
  /\ UNCHANGED <<opts, need_rescan, seen, gotSignal, svdir, starts>>

----------------------------------------------------------------------------
(* Around it *)

(* The second in which svdir changed is over.                              *)
Tick ==
  /\ fresh /\ fresh' = FALSE
  /\ UNCHANGED <<opts, pc, sv, need_rescan, scan, seen, signals, present, procs, starts>>

(* svdir gets new contents; a running scan may or may not see an addition. *)
(* A second change within a second leaves the modification time alone.     *)
Change(ds) ==
  /\ ds # present /\ present' = ds
  /\ stayed' = stayed \cap ds
  /\ toRead' \in {toRead, IF pc = "scan" THEN toRead \cup (ds \ present) ELSE toRead}
  /\ fresh' = TRUE /\ seen' = (seen /\ fresh)
  /\ UNCHANGED <<opts, pc, sv, need_rescan, signals, procs, starts>>

(* record_signo: SIGTERM or SIGHUP arrives.                                *)
Signal(s) ==
  /\ pc # "exited" /\ gotSignal' = s
  /\ UNCHANGED <<opts, pc, sv, need_rescan, scan, seen, sig, svdir, procs, starts>>

(* A process ends.  One that is not on record is reaped at once, as that   *)
(* changes nothing in runsvdir; the script is waited for.                  *)
Awaited(p) == procs[p].mine /\ (procs[p].dir = Script \/ p \in Recorded(DOMAIN sv))
End(p) == procs' = [procs EXCEPT ![p] = IF Awaited(p) THEN [@ EXCEPT !.st = "zombie", !.termed = FALSE]
                                        ELSE FreeProc]

(* A runsv takes the lock of its directory, or gives up.                   *)
Holder(p) == procs[p].st = "run" /\ procs[p].dir # Script
RunsvLocks(p) ==
  /\ procs[p].st = "start"
  /\ IF procs[p].dir \in present /\ \A q \in Pids : Holder(q) => procs[q].dir # procs[p].dir
     THEN procs' = [procs EXCEPT ![p].st = "run"]
     ELSE End(p)
  /\ UNCHANGED <<opts, pc, sv, need_rescan, scan, seen, signals, svdir, starts>>
ProcessEnds(p) ==
  /\ procs[p].st = "run" \/ (procs[p].st = "start" /\ procs[p].termed)
  /\ End(p)
  /\ UNCHANGED <<opts, pc, sv, need_rescan, scan, seen, signals, svdir, starts>>

(* runsvdir is killed, and started again.                                  *)
Crash ==
  /\ pc # "exited" /\ ~opts.init /\ starts < opts.starts
  /\ Leave(procs)
  /\ UNCHANGED <<opts, need_rescan, seen, signals, svdir, starts>>
Restart ==
  /\ pc = "exited" /\ starts < opts.starts /\ starts' = starts + 1
  /\ pc' = "reap" /\ need_rescan' = TRUE /\ seen' = FALSE
  /\ gotSignal' = "none" /\ sig' = "none"
  /\ UNCHANGED <<opts, sv, scan, svdir, procs>>

Step == \/ Collect \/ Check \/ OpenDir \/ Prune \/ Sleep
        \/ SpawnScript \/ WaitScript \/ Act \/ \E d \in Dirs : ReadEntry(d)
Next ==
  \/ Step \/ ScanFails \/ Tick \/ Crash \/ Restart
  \/ \E ds \in SUBSET opts.dirs : Change(ds)
  \/ \E s \in {"HUP", "TERM"} : Signal(s)
  \/ \E p \in Pids : RunsvLocks(p) \/ ProcessEnds(p)

Spec == Init /\ [][Next]_vars

(* runsvdir, a runsv that starts and time go on, and a runsv ends after a  *)
(* SIGTERM.  The time to look at svdir comes again and again, and from     *)
(* some time on reading it succeeds.                                       *)
FairSpec ==
  /\ Spec
  /\ WF_vars(Step) /\ WF_vars(Tick) /\ SF_vars(Check /\ pc' = "wait")
  /\ <>[][~ScanFails]_vars
  /\ \A p \in Pids : WF_vars(RunsvLocks(p)) /\ WF_vars(procs[p].termed /\ ProcessEnds(p))

----------------------------------------------------------------------------
(* Properties *)

(* A pid on record is a child for that directory that was not yet reaped,  *)
(* so that kill() in do_rescan() and on SIGHUP hits no other process.      *)
(* With -s, wait() in runsvdir_main may reap such a child unnoticed.       *)
PidsAreMine ==
  ~opts.script => \A d \in DOMAIN sv : sv[d].pid # NoPid =>
    LET proc == procs[sv[d].pid] IN proc.mine /\ proc.dir = d /\ proc.st # "free"

(* No runsv is left behind: a child that runs is on record for its         *)
(* directory, or was sent SIGTERM when the directory went.                 *)
Accounted ==
  ~opts.script => \A p \in Pids : procs[p].mine /\ Live(p) =>
    procs[p].termed \/ (procs[p].dir \in DOMAIN sv /\ sv[procs[p].dir].pid = p)

(* The table of services and the processes agree, both ways.               *)
TableAgrees == PidsAreMine /\ Accounted

(* do_rescan() stops no service whose directory was there all the time     *)
(* (with -s the pid on record may have become that of another service).    *)
KeepsRunning ==
  [][~opts.script /\ pc = "scan" =>
       \A p \in Pids : ~procs[p].termed /\ procs'[p].termed => procs[p].dir \notin stayed]_vars

Serves(d) == \E p \in Pids : Holder(p) /\ procs[p].dir = d

(* "Start a runsv process for each subdirectory. If it exits, restart it": *)
(* once svdir keeps its contents, each directory is served time and again, *)
(* also if runsv started before an earlier runsvdir ended still hold locks.*)
(* The runsv of a directory that was removed for good ends, unless it is   *)
(* one that an earlier runsvdir left.                                      *)
Supervised ==
  ~opts.init /\ ~opts.nofork /\ ~opts.script =>
    \A ds \in SUBSET Dirs : <>[](present = ds /\ pc # "exited") =>
      /\ \A d \in ds : []<>Serves(d)
      /\ <>[](\A p \in Pids : procs[p].mine => procs[p].dir \in ds)

=============================================================================
