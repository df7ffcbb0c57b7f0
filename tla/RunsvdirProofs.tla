--------------------------- MODULE RunsvdirProofs ---------------------------
(***************************************************************************)
(* Proofs about Runsvdir, for any directories, processes and options.      *)
(***************************************************************************)
EXTENDS Runsvdir, TLAPS

(* A directory that was there all the time and is listed has been seen, or *)
(* will be in this scan.                                                   *)
Marked ==
  pc = "scan" => /\ stayed \subseteq present
                 /\ \A d \in stayed \cap DOMAIN sv : d \in toRead \/ ~sv[d].isgone

IInv ==
  /\ TypeOK /\ PidsAreMine /\ Accounted /\ Marked
  /\ pc = "script" => opts.script

Loop == \/ Collect \/ Check \/ OpenDir \/ ScanFails \/ Prune \/ Sleep
        \/ SpawnScript \/ WaitScript \/ Act \/ \E d \in Dirs : ReadEntry(d)
Around == \/ Tick \/ Crash \/ Restart \/ \E ds \in SUBSET opts.dirs : Change(ds)
          \/ \E s \in {"HUP", "TERM"} : Signal(s)
          \/ \E p \in Pids : RunsvLocks(p) \/ ProcessEnds(p)

(* The entries of the process table that runsvdir makes are of their type. *)
LEMMA ProcTypes ==
  ASSUME procs \in [Pids -> Proc]
  PROVE  /\ FreeProc \in Proc
         /\ \A d \in Dirs \cup {Script} : Child(d, "start") \in Proc /\ Child(d, "run") \in Proc
         /\ \A ps : Reaped(ps) \in [Pids -> Proc] /\ Term(ps) \in [Pids -> Proc]
<1>1. FreeProc \in Proc
  BY DEF FreeProc, Proc
<1>2. ASSUME NEW d \in Dirs \cup {Script}
      PROVE  Child(d, "start") \in Proc /\ Child(d, "run") \in Proc
  BY <1>2 DEF Child, Proc
<1>3. ASSUME NEW p \in Pids PROVE [procs[p] EXCEPT !.termed = TRUE] \in Proc
  BY <1>3, Zenon DEF Proc
<1>4. ASSUME NEW ps PROVE Reaped(ps) \in [Pids -> Proc] /\ Term(ps) \in [Pids -> Proc]
  BY <1>1, <1>3 DEF Reaped, Term
<1> QED BY <1>1, <1>2, <1>4

(* End(p) leaves all entries but p's alone, and p no longer live.          *)
LEMMA EndEffect ==
  ASSUME procs \in [Pids -> Proc], NEW p \in Pids, End(p)
  PROVE  /\ procs' \in [Pids -> Proc]
         /\ \A q \in Pids \ {p} : procs'[q] = procs[q]
         /\ procs'[p].st \notin {"start", "run"}
         /\ ~procs'[p].termed
         /\ Awaited(p) => /\ procs'[p].st = "zombie" /\ procs'[p].dir = procs[p].dir
                          /\ procs'[p].mine = procs[p].mine
<1> DEFINE z == [procs[p] EXCEPT !.st = "zombie", !.termed = FALSE]
<1>1. z \in Proc /\ z.st = "zombie" /\ z.termed = FALSE /\ z.dir = procs[p].dir /\ z.mine = procs[p].mine
  BY Zenon DEF Proc
<1>2. FreeProc \in Proc /\ FreeProc.st = "free" /\ FreeProc.termed = FALSE
  BY ProcTypes DEF FreeProc
<1>3. procs' = [procs EXCEPT ![p] = IF Awaited(p) THEN z ELSE FreeProc]
  BY DEF End
<1> HIDE DEF z
<1> QED BY <1>1, <1>2, <1>3

(* A process that starts to run stays the same otherwise.                  *)
LEMMA LocksEffect ==
  ASSUME procs \in [Pids -> Proc], NEW p \in Pids, procs' = [procs EXCEPT ![p].st = "run"]
  PROVE  /\ procs' \in [Pids -> Proc]
         /\ \A q \in Pids \ {p} : procs'[q] = procs[q]
         /\ procs'[p].st = "run" /\ procs'[p].dir = procs[p].dir
         /\ procs'[p].mine = procs[p].mine /\ procs'[p].termed = procs[p].termed
BY DEF Proc

(* What SIGTERM changes.                                                   *)
LEMMA TermEffect ==
  ASSUME procs \in [Pids -> Proc], NEW ps, NEW q \in Pids
  PROVE  /\ Term(ps)[q].dir = procs[q].dir /\ Term(ps)[q].st = procs[q].st
         /\ Term(ps)[q].mine = procs[q].mine
         /\ procs[q].termed => Term(ps)[q].termed
         /\ q \in ps /\ Live(q) => Term(ps)[q].termed
         /\ Term(ps)[q].termed => procs[q].termed \/ q \in ps
BY DEF Term, Proc

(* The invariant holds at the start.                                       *)
LEMMA InitHolds == Init => IInv
<1> SUFFICES ASSUME Init PROVE IInv
  OBVIOUS
<1>1. DOMAIN sv = {} /\ sv \in [{} -> Service]
  BY DEF Init, Empty
<1>2. procs \in [Pids -> Proc] /\ \A p \in Pids : procs[p].mine = FALSE
  BY DEF Init, FreeProc, Proc
<1>3. TypeOK
  BY <1>1, <1>2, RunsvdirAssumption, Zenon DEF Init, TypeOK, OptionType, PCs, Signals
<1>4. PidsAreMine /\ Accounted
  BY <1>1, <1>2 DEF PidsAreMine, Accounted
<1>5. Marked /\ pc # "script"
  BY DEF Init, Marked
<1> QED BY <1>3, <1>4, <1>5 DEF IInv

(* Reaping the children that ended, and forgetting their pids.             *)
LEMMA CollectKeeps == IInv /\ Collect => IInv'
<1> SUFFICES ASSUME IInv, Collect PROVE IInv'
  OBVIOUS
<1> USE DEF IInv
<1>0. procs \in [Pids -> Proc] /\ sv \in [DOMAIN sv -> Service] /\ DOMAIN sv \in SUBSET Dirs
  BY DEF TypeOK
<1>1. /\ DOMAIN sv' = DOMAIN sv
      /\ \A d \in DOMAIN sv : /\ sv'[d] \in Service /\ sv'[d].isgone = sv[d].isgone
                              /\ sv[d].pid \in Dead => sv'[d].pid = NoPid
                              /\ sv[d].pid \notin Dead => sv'[d].pid = sv[d].pid
  <2>1. \A d \in DOMAIN sv : [sv[d] EXCEPT !.pid = NoPid] \in Service
    BY <1>0 DEF Service
  <2> QED BY <1>0, <2>1 DEF Collect, Service
<1>2. /\ procs' \in [Pids -> Proc]
      /\ \A p \in Pids : p \notin Dead => procs'[p] = procs[p]
      /\ \A p \in Dead : procs'[p].mine = FALSE
  BY <1>0, ProcTypes DEF Collect, Reaped, FreeProc, Dead
<1>3. TypeOK'
  BY <1>1, <1>2 DEF TypeOK, Collect, PCs, scan, signals, svdir
<1>4. PidsAreMine'
  BY <1>0, <1>1, <1>2 DEF PidsAreMine, Collect, Service
<1>5. Accounted'
  <2> SUFFICES ASSUME ~opts.script, NEW p \in Pids, procs'[p].mine, Live(p)'
               PROVE  procs'[p].termed \/ (procs'[p].dir \in DOMAIN sv' /\ sv'[procs'[p].dir].pid = p)
    BY DEF Accounted, Collect
  <2>1. p \notin Dead /\ procs'[p] = procs[p]
    BY <1>2
  <2> QED BY <1>1, <2>1 DEF Accounted, Live
<1>6. Marked' /\ (pc = "script" => opts.script)'
  BY DEF Marked, Collect
<1> QED BY <1>3, <1>4, <1>5, <1>6

(* Reading an entry of svdir.                                              *)
LEMMA ReadEntryKeeps == ASSUME NEW d \in Dirs, IInv, ReadEntry(d) PROVE IInv'
<1> USE DEF IInv
<1>0. procs \in [Pids -> Proc] /\ sv \in [DOMAIN sv -> Service] /\ DOMAIN sv \in SUBSET Dirs
  BY DEF TypeOK
<1>1. CASE UNCHANGED <<sv, procs>> /\ need_rescan' \in BOOLEAN /\ (d \in present => d \notin DOMAIN sv)
  <2>1. TypeOK'
    BY <1>1 DEF TypeOK, ReadEntry, signals, svdir
  <2>2. PidsAreMine' /\ Accounted'
    BY <1>1 DEF PidsAreMine, Accounted, ReadEntry, Live
  <2>3. Marked' /\ (pc = "script" => opts.script)'
    BY <1>1 DEF Marked, ReadEntry, svdir
  <2> QED BY <2>1, <2>2, <2>3
<1>2. CASE d \in DOMAIN sv /\ sv' = [sv EXCEPT ![d].isgone = FALSE] /\ UNCHANGED <<procs, need_rescan>>
  <2>1. /\ DOMAIN sv' = DOMAIN sv /\ sv' \in [DOMAIN sv -> Service] /\ sv'[d].isgone = FALSE
        /\ \A e \in DOMAIN sv : sv'[e].pid = sv[e].pid /\ (e # d => sv'[e] = sv[e])
    BY <1>0, <1>2, Zenon DEF Service
  <2>2. TypeOK'
    BY <1>2, <2>1 DEF TypeOK, ReadEntry, signals, svdir
  <2>3. PidsAreMine' /\ Accounted'
    BY <1>2, <2>1 DEF PidsAreMine, Accounted, ReadEntry, Live
  <2>4. Marked' /\ (pc = "script" => opts.script)'
    BY <1>2, <2>1 DEF Marked, ReadEntry, svdir
  <2> QED BY <2>2, <2>3, <2>4
<1>3. CASE ~(d \in DOMAIN sv /\ sv[d].pid # NoPid) /\ Enter(d) /\ UNCHANGED need_rescan
  <2>1. PICK pid \in Pids \cup {NoPid} :
          /\ RunsvMay(pid)
          /\ sv' = [e \in DOMAIN sv \cup {d} |-> IF e = d THEN [pid |-> pid, isgone |-> FALSE] ELSE sv[e]]
          /\ procs' = [p \in Pids |-> IF p = pid THEN Child(d, "start") ELSE procs[p]]
    BY <1>3, Zenon DEF Enter
  <2>2. /\ DOMAIN sv' = DOMAIN sv \cup {d} /\ sv' \in [DOMAIN sv \cup {d} -> Service]
        /\ sv'[d].pid = pid /\ sv'[d].isgone = FALSE
        /\ \A e \in DOMAIN sv : e # d => sv'[e] = sv[e]
    BY <1>0, <2>1 DEF Service
  <2>3. /\ procs' \in [Pids -> Proc]
        /\ \A p \in Pids : p # pid => procs'[p] = procs[p]
        /\ pid \in Pids => procs'[pid].dir = d /\ procs'[pid].mine /\ procs'[pid].st = "start"
    BY <1>0, <2>1, ProcTypes, Zenon DEF Child
  <2>4. pid \in Pids => procs[pid].st = "free"
    BY <2>1, RunsvdirAssumption DEF RunsvMay, FreePids
  <2>5. TypeOK'
    BY <1>3, <2>2, <2>3 DEF TypeOK, ReadEntry, signals, svdir
  <2>6. PidsAreMine'
    BY <1>0, <2>2, <2>3, <2>4 DEF PidsAreMine, ReadEntry, Service
  <2>7. Accounted'
    <3> SUFFICES ASSUME ~opts.script, NEW p \in Pids, procs'[p].mine, Live(p)'
                 PROVE  procs'[p].termed \/ (procs'[p].dir \in DOMAIN sv' /\ sv'[procs'[p].dir].pid = p)
      BY DEF Accounted, ReadEntry
    <3>1. CASE p = pid
      BY <3>1, <2>2, <2>3
    <3>2. CASE p # pid
      <4>1. procs'[p] = procs[p]
        BY <3>2, <2>3
      <4>2. procs[p].termed \/ (procs[p].dir \in DOMAIN sv /\ sv[procs[p].dir].pid = p)
        BY <4>1 DEF Accounted, Live
      <4> QED BY <4>1, <4>2, <1>3, <2>2, RunsvdirAssumption
    <3> QED BY <3>1, <3>2
  <2>8. Marked' /\ (pc = "script" => opts.script)'
    BY <2>2 DEF Marked, ReadEntry, svdir
  <2> QED BY <2>5, <2>6, <2>7, <2>8
<1> QED BY <1>1, <1>2, <1>3, Zenon DEF ReadEntry, TypeOK

(* SIGTERM to any set of processes changes neither whose they are nor      *)
(* whether they are accounted for.                                         *)
LEMMA TermKeeps ==
  ASSUME IInv, NEW ps, procs' = Term(ps), UNCHANGED <<sv, opts>>
  PROVE  PidsAreMine' /\ Accounted' /\ procs' \in [Pids -> Proc]
<1>0. procs \in [Pids -> Proc] /\ PidsAreMine /\ Accounted /\ sv \in [DOMAIN sv -> Service]
  BY DEF IInv, TypeOK
<1>1. procs' \in [Pids -> Proc]
  BY <1>0, ProcTypes
<1>2. \A q \in Pids : /\ procs'[q].dir = procs[q].dir /\ procs'[q].st = procs[q].st
                      /\ procs'[q].mine = procs[q].mine /\ (procs[q].termed => procs'[q].termed)
  BY <1>0, TermEffect
<1>3. PidsAreMine'
  BY <1>0, <1>2 DEF PidsAreMine, Service
<1>4. Accounted'
  BY <1>0, <1>2 DEF Accounted, Live
<1> QED BY <1>1, <1>3, <1>4

(* Ending the services that are gone.                                      *)
LEMMA PruneKeeps == IInv /\ Prune => IInv'
<1> SUFFICES ASSUME IInv, Prune PROVE IInv'
  OBVIOUS
<1> USE DEF IInv
<1>0. procs \in [Pids -> Proc] /\ sv \in [DOMAIN sv -> Service] /\ DOMAIN sv \in SUBSET Dirs
  BY DEF TypeOK
<1>1. /\ DOMAIN sv' = DOMAIN sv \ Gone /\ sv' \in [DOMAIN sv' -> Service]
      /\ \A d \in DOMAIN sv' : sv'[d] = sv[d]
  BY <1>0 DEF Prune
<1>2. procs' \in [Pids -> Proc] /\ procs' = Term(Recorded(Gone))
  BY <1>0, ProcTypes DEF Prune
<1>3. \A q \in Pids : /\ procs'[q].dir = procs[q].dir /\ procs'[q].st = procs[q].st
                      /\ procs'[q].mine = procs[q].mine /\ (procs[q].termed => procs'[q].termed)
                      /\ (q \in Recorded(Gone) /\ Live(q) => procs'[q].termed)
  BY <1>0, <1>2, TermEffect
<1>4. TypeOK'
  BY <1>0, <1>1, <1>2 DEF TypeOK, Prune, PCs, signals, svdir
<1>5. PidsAreMine'
  BY <1>0, <1>1, <1>3 DEF PidsAreMine, Prune, Service
<1>6. Accounted'
  <2> SUFFICES ASSUME ~opts.script, NEW p \in Pids, procs'[p].mine, Live(p)'
               PROVE  procs'[p].termed \/ (procs'[p].dir \in DOMAIN sv' /\ sv'[procs'[p].dir].pid = p)
    BY Zenon DEF Accounted, Prune
  <2>1. procs[p].termed \/ (procs[p].dir \in DOMAIN sv /\ sv[procs[p].dir].pid = p)
    BY <1>3 DEF Accounted, Live
  <2>2. CASE procs[p].dir \in Gone /\ sv[procs[p].dir].pid = p
    <3>1. p \in Recorded(Gone)
      BY <2>2, RunsvdirAssumption DEF Recorded
    <3> QED BY <3>1, <1>3 DEF Live
  <2> QED BY <1>1, <1>3, <2>1, <2>2
<1>7. Marked' /\ (pc = "script" => opts.script)'
  BY DEF Marked, Prune
<1> QED BY <1>4, <1>5, <1>6, <1>7

(* When runsvdir ends it has no children.                                  *)
LEMMA LeaveKeeps ==
  ASSUME NEW ps \in [Pids -> Proc], Leave(ps)
  PROVE  /\ procs' \in [Pids -> Proc] /\ \A p \in Pids : procs'[p].mine = FALSE
         /\ DOMAIN sv' = {} /\ sv' \in [{} -> Service] /\ pc' = "exited"
         /\ toRead' = {} /\ stayed' = {}
<1>1. \A p \in Pids : /\ [ps[p] EXCEPT !.mine = FALSE] \in Proc
                      /\ [ps[p] EXCEPT !.mine = FALSE].mine = FALSE
  BY Zenon DEF Proc
<1>2. FreeProc \in Proc /\ FreeProc.mine = FALSE
  BY DEF FreeProc, Proc
<1>3. /\ procs' \in [Pids -> Proc] /\ \A p \in Pids : procs'[p].mine = FALSE
  BY <1>1, <1>2 DEF Leave
<1> QED BY <1>3 DEF Leave, Empty

(* With no children and no services the invariant holds.                   *)
LEMMA LeftHolds ==
  ASSUME IInv, NEW ps \in [Pids -> Proc], Leave(ps), UNCHANGED <<opts, svdir, starts>>,
         need_rescan' \in BOOLEAN, seen' \in BOOLEAN, gotSignal' \in Signals, sig' \in Signals
  PROVE  IInv'
<1>1. /\ procs' \in [Pids -> Proc] /\ \A p \in Pids : procs'[p].mine = FALSE
      /\ DOMAIN sv' = {} /\ sv' \in [{} -> Service] /\ pc' = "exited"
      /\ toRead' = {} /\ stayed' = {}
  BY LeaveKeeps, Zenon
<1>2. TypeOK'
  BY <1>1 DEF IInv, TypeOK, svdir, PCs
<1>3. PidsAreMine' /\ Accounted'
  BY <1>1 DEF PidsAreMine, Accounted
<1> QED BY <1>1, <1>2, <1>3 DEF IInv, Marked

(* Handling a signal.                                                      *)
LEMMA ActKeeps == IInv /\ Act => IInv'
<1> SUFFICES ASSUME IInv, Act PROVE IInv'
  OBVIOUS
<1> DEFINE ps == IF sig = "HUP" THEN Term(Recorded(DOMAIN sv)) ELSE procs
<1>1. ps \in [Pids -> Proc]
  BY ProcTypes DEF IInv, TypeOK
<1>2. CASE opts.init /\ pc' = "reap" /\ procs' = ps /\ UNCHANGED <<sv, scan>>
  <2>1. PidsAreMine' /\ Accounted' /\ procs' \in [Pids -> Proc]
    <3>1. CASE sig = "HUP"
      BY <1>2, <3>1, TermKeeps DEF Act
    <3>2. CASE sig # "HUP"
      BY <1>1, <1>2, <3>2 DEF IInv, Act, PidsAreMine, Accounted, Live
    <3> QED BY <3>1, <3>2
  <2>2. TypeOK'
    BY <1>2, <2>1 DEF IInv, TypeOK, Act, PCs, Signals, svdir, scan
  <2> QED BY <1>2, <2>1, <2>2 DEF IInv, Marked
<1>3. CASE Leave(ps)
  <2>1. /\ UNCHANGED <<opts, svdir, starts>> /\ need_rescan' \in BOOLEAN /\ seen' \in BOOLEAN
        /\ gotSignal' \in Signals /\ sig' \in Signals
    BY DEF Act, IInv, TypeOK, Signals
  <2> HIDE DEF ps
  <2> QED BY <1>1, <1>3, <2>1, LeftHolds
<1> QED BY <1>2, <1>3 DEF Act

(* The other steps of the loop.                                            *)
LEMMA LoopKeeps == IInv /\ Loop => IInv'
<1> SUFFICES ASSUME IInv, Loop PROVE IInv'
  OBVIOUS
<1> USE DEF IInv
<1>0. procs \in [Pids -> Proc] /\ sv \in [DOMAIN sv -> Service] /\ DOMAIN sv \in SUBSET Dirs
  BY DEF TypeOK
<1>1. CASE Check
  BY <1>1, Zenon DEF Check, TypeOK, PCs, scan, signals, svdir, PidsAreMine, Accounted, Live, Marked
<1>2. CASE OpenDir
  <2>1. /\ DOMAIN sv' = DOMAIN sv
        /\ \A d \in DOMAIN sv : sv'[d] \in Service /\ sv'[d].pid = sv[d].pid
    BY <1>0, <1>2, Zenon DEF OpenDir, Service
  <2>2. TypeOK'
    BY <1>2, <2>1, Zenon DEF OpenDir, TypeOK, PCs, signals, svdir
  <2>3. PidsAreMine' /\ Accounted'
    BY <1>2, <2>1 DEF OpenDir, PidsAreMine, Accounted, Live
  <2>4. Marked' /\ (pc = "script" => opts.script)'
    BY <1>2, <2>1 DEF OpenDir, Marked, svdir
  <2> QED BY <2>2, <2>3, <2>4
<1>3. CASE ScanFails
  BY <1>3 DEF ScanFails, TypeOK, PCs, signals, svdir, PidsAreMine, Accounted, Live, Marked
<1>4. CASE Sleep
  <2>1. TypeOK'
    BY <1>4 DEF Sleep, TypeOK, PCs, scan, signals, svdir, Signals
  <2>2. PidsAreMine' /\ Accounted'
    BY <1>4 DEF Sleep, PidsAreMine, Accounted, Live
  <2>3. Marked' /\ (pc = "script" => opts.script)'
    BY <1>4 DEF Sleep, Marked
  <2> QED BY <2>1, <2>2, <2>3
<1>5. CASE SpawnScript
  <2>1. procs' \in [Pids -> Proc]
    BY <1>0, <1>5, ProcTypes DEF SpawnScript, FreePids
  <2>2. TypeOK'
    BY <1>5, <2>1 DEF SpawnScript, TypeOK, PCs, scan, signals, svdir
  <2> QED BY <1>5, <2>2 DEF SpawnScript, PidsAreMine, Accounted, Marked
<1>6. CASE WaitScript
  <2>1. procs' \in [Pids -> Proc]
    BY <1>0, <1>6, ProcTypes DEF WaitScript
  <2>2. TypeOK'
    BY <1>6, <2>1 DEF WaitScript, TypeOK, PCs, scan, signals, svdir
  <2> QED BY <1>6, <2>2 DEF WaitScript, PidsAreMine, Accounted, Marked
<1> HIDE DEF IInv
<1> QED BY <1>1, <1>2, <1>3, <1>4, <1>5, <1>6, CollectKeeps, PruneKeeps, ActKeeps, ReadEntryKeeps DEF Loop

(* What happens around runsvdir.                                           *)
LEMMA AroundKeeps == IInv /\ Around => IInv'
<1> SUFFICES ASSUME IInv, Around PROVE IInv'
  OBVIOUS
<1> USE DEF IInv
<1>0. procs \in [Pids -> Proc] /\ sv \in [DOMAIN sv -> Service] /\ DOMAIN sv \in SUBSET Dirs
  BY DEF TypeOK
<1>1. CASE Tick
  BY <1>1, Zenon DEF Tick, TypeOK, scan, signals, PidsAreMine, Accounted, Live, Marked
<1>2. CASE \E ds \in SUBSET opts.dirs : Change(ds)
  <2>1. PICK ds \in SUBSET opts.dirs : Change(ds)
    BY <1>2
  <2>2. ds \in SUBSET Dirs
    BY <2>1, RunsvdirAssumption DEF TypeOK, OptionType
  <2>3. TypeOK'
    BY <2>1, <2>2 DEF Change, TypeOK, signals
  <2>4. PidsAreMine' /\ Accounted'
    BY <2>1 DEF Change, PidsAreMine, Accounted, Live
  <2>5. Marked' /\ (pc = "script" => opts.script)'
    BY <2>1 DEF Change, Marked
  <2> QED BY <2>3, <2>4, <2>5
<1>3. CASE \E s \in {"HUP", "TERM"} : Signal(s)
  BY <1>3 DEF Signal, TypeOK, Signals, scan, svdir, PidsAreMine, Accounted, Live, Marked
<1>4. ASSUME NEW p \in Pids, RunsvLocks(p) \/ ProcessEnds(p) PROVE IInv'
  <2>1. UNCHANGED <<opts, pc, sv, need_rescan, scan, seen, signals, svdir, starts>>
    BY <1>4 DEF RunsvLocks, ProcessEnds
  <2>2. CASE procs' = [procs EXCEPT ![p].st = "run"] /\ procs[p].st = "start"
    <3>1. /\ procs' \in [Pids -> Proc]
          /\ \A q \in Pids \ {p} : procs'[q] = procs[q]
          /\ procs'[p].st = "run" /\ procs'[p].dir = procs[p].dir
          /\ procs'[p].mine = procs[p].mine /\ procs'[p].termed = procs[p].termed
      BY <1>0, <2>2, LocksEffect, Zenon
    <3>2. TypeOK'
      BY <2>1, <3>1 DEF TypeOK, scan, signals, svdir
    <3>3. PidsAreMine'
      BY <1>0, <2>1, <3>1 DEF PidsAreMine, Service
    <3>4. Accounted'
      BY <2>1, <2>2, <3>1 DEF Accounted, Live
    <3> QED BY <2>1, <3>2, <3>3, <3>4 DEF Marked, scan, svdir
  <2>3. CASE End(p)
    <3>1. /\ procs' \in [Pids -> Proc]
          /\ \A q \in Pids \ {p} : procs'[q] = procs[q]
          /\ procs'[p].st \notin {"start", "run"}
          /\ Awaited(p) => /\ procs'[p].st = "zombie" /\ procs'[p].dir = procs[p].dir
                           /\ procs'[p].mine = procs[p].mine
      BY <1>0, <2>3, EndEffect
    <3>2. TypeOK'
      BY <2>1, <3>1 DEF TypeOK, scan, signals, svdir
    <3>3. PidsAreMine'
      <4> SUFFICES ASSUME ~opts.script, NEW d \in DOMAIN sv, sv[d].pid # NoPid
                   PROVE  /\ procs'[sv[d].pid].mine /\ procs'[sv[d].pid].dir = d
                          /\ procs'[sv[d].pid].st # "free"
        BY <2>1 DEF PidsAreMine
      <4>1. /\ sv[d].pid \in Pids /\ procs[sv[d].pid].mine
            /\ procs[sv[d].pid].dir = d /\ procs[sv[d].pid].st # "free"
        BY <1>0 DEF PidsAreMine, Service
      <4>2. sv[d].pid = p => Awaited(p)
        BY <4>1, RunsvdirAssumption DEF Awaited, Recorded
      <4> QED BY <3>1, <4>1, <4>2
    <3>4. Accounted'
      BY <2>1, <3>1 DEF Accounted, Live
    <3> QED BY <2>1, <3>2, <3>3, <3>4 DEF Marked, scan, svdir
  <2> QED BY <1>4, <2>2, <2>3 DEF RunsvLocks, ProcessEnds
<1>5. CASE Crash
  <2>1. /\ Leave(procs) /\ UNCHANGED <<opts, svdir, starts>> /\ need_rescan' \in BOOLEAN
        /\ seen' \in BOOLEAN /\ gotSignal' \in Signals /\ sig' \in Signals
    BY <1>5 DEF Crash, TypeOK, signals
  <2> HIDE DEF IInv
  <2> QED BY <1>0, <2>1, LeftHolds
<1>6. CASE Restart
  <2>1. starts \in Nat /\ starts' = starts + 1
    BY <1>6 DEF Restart, TypeOK
  <2>2. starts' \in Nat /\ need_rescan' \in BOOLEAN /\ seen' \in BOOLEAN
    <3>1. starts' \in Nat
      BY ONLY <2>1
    <3> QED BY <1>6, <3>1, Zenon DEF Restart
  <2>3. TypeOK'
    BY <1>6, <2>2 DEF Restart, TypeOK, PCs, Signals, scan, svdir
  <2>4. PidsAreMine' /\ Accounted'
    BY <1>6 DEF Restart, PidsAreMine, Accounted, Live
  <2> QED BY <1>6, <2>3, <2>4 DEF Restart, Marked
<1> QED BY <1>1, <1>2, <1>3, <1>4, <1>5, <1>6 DEF Around

(* The invariant is inductive.                                             *)
LEMMA StepKeeps == IInv /\ [Next]_vars => IInv'
<1> SUFFICES ASSUME IInv, [Next]_vars PROVE IInv'
  OBVIOUS
<1>1. CASE Next
  BY <1>1, LoopKeeps, AroundKeeps DEF Next, Step, Loop, Around
<1>2. CASE UNCHANGED vars
  BY <1>2 DEF vars, scan, signals, svdir, IInv, TypeOK, PidsAreMine, Accounted, Live, Marked
<1> QED BY <1>1, <1>2

(* IInv holds always.                                                      *)
LEMMA Invariance == Spec => []IInv
BY InitHolds, StepKeeps, PTL DEF Spec

(* The table of services and the process table keep their types.           *)
THEOREM RunsvdirTypeCorrect == Spec => []TypeOK
<1>1. IInv => TypeOK
  BY DEF IInv
<1> QED BY <1>1, Invariance, PTL

(* Without -s the table of services that runsvdir keeps and the processes  *)
(* it started agree, both ways.                                            *)
THEOREM TableIsRight == Spec => []TableAgrees
  BY Invariance, PTL DEF IInv, TableAgrees

(* Without -s, a scan sends no SIGTERM to the runsv of a directory that    *)
(* was there from its first to its last step.                              *)
THEOREM ScansKeepServices == Spec => KeepsRunning
<1> DEFINE A == ~opts.script /\ pc = "scan" =>
                  \A p \in Pids : ~procs[p].termed /\ procs'[p].termed => procs[p].dir \notin stayed
<1>1. IInv /\ [Next]_vars => [A]_vars
  <2> SUFFICES ASSUME IInv, Next, ~opts.script, pc = "scan", NEW p \in Pids,
                      ~procs[p].termed, procs'[p].termed
               PROVE  procs[p].dir \notin stayed
    OBVIOUS
  <2>0. procs \in [Pids -> Proc] /\ sv \in [DOMAIN sv -> Service] /\ PidsAreMine /\ Marked
    BY DEF IInv, TypeOK
  <2>1. CASE Prune
    <3>1. p \in Recorded(Gone)
      BY <2>0, <2>1, TermEffect DEF Prune
    <3>2. PICK d \in Gone : sv[d].pid = p /\ p # NoPid
      BY <3>1 DEF Recorded
    <3>3. procs[p].dir = d
      BY <2>0, <3>2 DEF PidsAreMine, Gone
    <3> QED BY <2>0, <2>1, <3>2, <3>3 DEF Marked, Gone, Prune
  <2>2. CASE \E d \in Dirs : ReadEntry(d)
    <3>1. PICK d \in Dirs : ReadEntry(d)
      BY <2>2
    <3>2. procs' # procs
      OBVIOUS
    <3>3. PICK pid \in Pids \cup {NoPid} :
            procs' = [q \in Pids |-> IF q = pid THEN Child(d, "start") ELSE procs[q]]
      BY <3>1, <3>2 DEF ReadEntry, Enter
    <3> QED BY <3>3 DEF Child
  <2>3. CASE \E q \in Pids : RunsvLocks(q) \/ ProcessEnds(q)
    <3>1. PICK q \in Pids : End(q) \/ procs' = [procs EXCEPT ![q].st = "run"]
      BY <2>3 DEF RunsvLocks, ProcessEnds
    <3> QED BY <2>0, <3>1, EndEffect, LocksEffect
  <2>4. CASE Crash
    <3>1. procs'[p] = IF procs[p].st = "zombie" THEN FreeProc ELSE [procs[p] EXCEPT !.mine = FALSE]
      BY <2>4 DEF Crash, Leave
    <3>2. [procs[p] EXCEPT !.mine = FALSE].termed = procs[p].termed /\ FreeProc.termed = FALSE
      BY <2>0 DEF Proc, FreeProc
    <3> QED BY <3>1, <3>2
  <2>5. ~(Prune \/ (\E d \in Dirs : ReadEntry(d)) \/ Crash
          \/ \E q \in Pids : RunsvLocks(q) \/ ProcessEnds(q)) => procs' = procs
    BY DEF Next, Step, Collect, Check, OpenDir, Sleep, SpawnScript, WaitScript, Act, ScanFails,
           Tick, Restart, Change, Signal
  <2> QED BY <2>1, <2>2, <2>3, <2>4, <2>5
<1>2. IInv /\ [Next]_vars => [~opts.script /\ pc = "scan" =>
        \A p \in Pids : ~procs[p].termed /\ procs'[p].termed => procs[p].dir \notin stayed]_vars
  BY <1>1
<1> QED BY <1>2, Invariance, PTL DEF Spec, KeepsRunning

=============================================================================
