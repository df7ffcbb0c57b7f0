-------------------------- MODULE SyslogRingProofs --------------------------
(***************************************************************************)
(* Proofs about SyslogRing: the two semaphores keep syslogd and logread    *)
(* apart, for any number of readers and of starts of syslogd, whoever is   *)
(* killed and wherever.                                                    *)
(***************************************************************************)
EXTENDS SyslogRing, FiniteSetTheorems, TLAPS

(* The readers that hold a count of semaphore set s.                       *)
Insiders(s) == {p \in Readers : r[p].at \in Inside /\ r[p].sem = s}

(* What the steps need to know of the variables' shape.                    *)
RingShape ==
  /\ opts.starts \in 0..MaxStarts
  /\ DOMAIN shm = Segments /\ sem \in [Segments -> [rd : Nat, wr : 0..1]]
  /\ {"at", "starts"} \subseteq DOMAIN w
  /\ DOMAIN r = Readers
  /\ \A p \in Readers : {"at", "sem"} \subseteq DOMAIN r[p]

(* Semaphore sets are numbered by the start of syslogd that made them: one *)
(* that no start has made yet is as new, and no reader has found it.       *)
Unmade(s) == s > w.starts \/ (w.at = "sem" /\ s = w.starts)
Numbered ==
  /\ w.starts \in 0..MaxStarts /\ (w.at # "off" => w.starts # 0)
  /\ semKey \in 0..MaxStarts /\ ~Unmade(semKey)
  /\ \A s \in Segments : Unmade(s) => sem[s] = NewSem
  /\ \A p \in Readers : r[p].sem \in 0..MaxStarts /\ ~Unmade(r[p].sem)

(* A reader that is to lock or inside has found a set; syslogd, once past  *)
(* ipcsyslog_init() and until ipcsyslog_cleanup() is done, has one.        *)
Found ==
  /\ \A p \in Readers : r[p].at \in Inside \cup {"lock"} => r[p].sem # 0
  /\ w.at \notin {"off", "sem"} => semKey # 0

(* The count of readers is right, and syslogd is inside alone.             *)
Counted ==
  /\ semKey # 0 => sem[semKey].rd = Cardinality(Insiders(semKey))
  /\ w.at \in {"store", "up"} => sem[semKey] = [rd |-> 0, wr |-> 1]

RingInv == RingShape /\ Numbered /\ Found /\ Counted

----------------------------------------------------------------------------
(* Counting *)

(* Of finitely many readers, finitely many are inside.                     *)
LEMMA InsidersFinite ==
  ASSUME NEW s
  PROVE  IsFiniteSet(Insiders(s)) /\ Cardinality(Insiders(s)) \in Nat
<1>1. Insiders(s) \in SUBSET Readers BY DEF Insiders
<1>2. IsFiniteSet(Insiders(s)) BY <1>1, RingAssumption, FS_Subset
<1> QED BY <1>2, FS_CardinalityType

(* When the count is zero nobody is inside.                                *)
LEMMA NobodyInside ==
  ASSUME NEW s, Cardinality(Insiders(s)) = 0
  PROVE  \A p \in Readers : ~(r[p].at \in Inside /\ r[p].sem = s)
<1>1. Insiders(s) = {} BY InsidersFinite, FS_EmptySet
<1> QED BY <1>1 DEF Insiders

(* A step of syslogd leaves the readers where they are.                    *)
LEMMA SameInsiders ==
  ASSUME NEW s, \A p \in Readers : r'[p].at = r[p].at /\ r'[p].sem = r[p].sem
  PROVE  Insiders(s)' = Insiders(s)
BY DEF Insiders

(* So does a reader that stays inside, or outside.                         *)
LEMMA StaysInsider ==
  ASSUME NEW s, NEW p \in Readers,
         \A q \in Readers \ {p} : r'[q] = r[q],
         (r'[p].at \in Inside /\ r'[p].sem = s) <=> (r[p].at \in Inside /\ r[p].sem = s)
  PROVE  Insiders(s)' = Insiders(s)
BY DEF Insiders

(* A reader that comes in adds one.                                        *)
LEMMA EntersInsider ==
  ASSUME NEW s, NEW p \in Readers,
         \A q \in Readers \ {p} : r'[q] = r[q],
         ~(r[p].at \in Inside /\ r[p].sem = s), r'[p].at \in Inside, r'[p].sem = s
  PROVE  Cardinality(Insiders(s)') = Cardinality(Insiders(s)) + 1
<1>1. Insiders(s)' = Insiders(s) \cup {p} BY DEF Insiders
<1>2. p \notin Insiders(s) BY DEF Insiders
<1> QED BY <1>1, <1>2, InsidersFinite, FS_AddElement, Zenon

(* One that leaves, or is killed inside, takes one away, and there was one.*)
LEMMA LeavesInsider ==
  ASSUME NEW s, NEW p \in Readers,
         \A q \in Readers \ {p} : r'[q] = r[q],
         r[p].at \in Inside, r[p].sem = s, ~(r'[p].at \in Inside /\ r'[p].sem = s)
  PROVE  /\ Cardinality(Insiders(s)') = Cardinality(Insiders(s)) - 1
         /\ Cardinality(Insiders(s)) # 0
<1>1. Insiders(s)' = Insiders(s) \ {p} BY DEF Insiders
<1>2. p \in Insiders(s) BY DEF Insiders
<1>3. Cardinality(Insiders(s)) # 0 BY <1>2, InsidersFinite, FS_EmptySet
<1> QED BY <1>1, <1>2, <1>3, InsidersFinite, FS_RemoveElement, Zenon

----------------------------------------------------------------------------
(* syslogd *)

(* At first there are no sets and no readers.                              *)
LEMMA InitRing == Init => RingInv
<1> SUFFICES ASSUME Init PROVE RingInv OBVIOUS
<1>1. opts.starts \in 0..MaxStarts /\ MaxStarts \in Nat
  BY RingAssumption DEF Init, OptionType
<1>2. \A p \in Readers : r[p].sem = 0 /\ r[p].at \in {"new", "failed"}
                         /\ {"at", "sem"} \subseteq DOMAIN r[p]
  BY DEF Init, NewReader, Failed
<1>3. w.at = "off" /\ w.starts = 0 /\ {"at", "starts"} \subseteq DOMAIN w
  BY DEF Init, Off
<1>4. RingShape BY <1>1, <1>2, <1>3 DEF Init, RingShape, NewSem, Segments
<1>5. Numbered BY <1>1, <1>2, <1>3 DEF Init, Numbered, Unmade, Segments
<1>6. Found BY <1>2, <1>3 DEF Init, Found, Inside
<1>7. Counted BY <1>3 DEF Init, Counted
<1> QED BY <1>4, <1>5, <1>6, <1>7 DEF RingInv

(* Steps of syslogd that touch no semaphore and do not begin or end it.    *)
LEMMA SyslogdKeeps ==
  ASSUME RingInv, UNCHANGED <<opts, sem, semKey, r>>, DOMAIN shm' = DOMAIN shm,
         {"at", "starts"} \subseteq DOMAIN w', w'.starts = w.starts, w.at # "sem", w'.at # "sem",
         w'.at \notin {"off", "sem"} => w.at \notin {"off", "sem"},
         w'.at \in {"store", "up"} => w.at \in {"store", "up"}
  PROVE  RingInv'
<1>1. RingShape' BY DEF RingInv, RingShape
<1>2. \A s : Unmade(s)' <=> Unmade(s) BY DEF Unmade
<1>3. Numbered' BY <1>2 DEF RingInv, Numbered
<1>4. Found' BY DEF RingInv, Found
<1>5. Insiders(semKey)' = Insiders(semKey) BY DEF Insiders
<1>6. Counted' BY <1>5 DEF RingInv, Counted
<1> QED BY <1>1, <1>3, <1>4, <1>6 DEF RingInv

(* ipcsyslog_init(), shared memory: this start's number is a new one.      *)
LEMMA InitShmRing == RingInv /\ InitShm => RingInv'
<1> SUFFICES ASSUME RingInv, InitShm PROVE RingInv' OBVIOUS
<1>1. \A p \in Readers : /\ r'[p].at = r[p].at /\ r'[p].sem = r[p].sem
                         /\ DOMAIN r'[p] = DOMAIN r[p]
  BY DEF InitShm, RingInv, RingShape
<1>2. /\ w'.at = "sem" /\ w'.starts = w.starts + 1 /\ {"at", "starts"} \subseteq DOMAIN w'
      /\ w.at = "off" /\ w.starts < opts.starts
  BY DEF InitShm, Off
<1>3. RingShape' BY <1>1, <1>2 DEF InitShm, RingInv, RingShape
<1>4. w.starts \in Nat /\ MaxStarts \in Nat /\ opts.starts \in 0..MaxStarts
  BY RingAssumption DEF RingInv, RingShape, Numbered
<1>5. \A s \in Nat : Unmade(s)' <=> Unmade(s) BY <1>2, <1>4 DEF Unmade
<1>6. Numbered'
  <2>1. w'.starts \in 0..MaxStarts /\ w'.starts # 0 BY <1>2, <1>4
  <2>2. semKey' \in 0..MaxStarts /\ ~Unmade(semKey)'
    BY <1>4, <1>5 DEF InitShm, RingInv, Numbered
  <2>3. \A s \in Segments : Unmade(s)' => sem'[s] = NewSem
    BY <1>4, <1>5 DEF InitShm, RingInv, Numbered, Segments
  <2>4. (\A p \in Readers : r[p].sem \in 0..MaxStarts /\ ~Unmade(r[p].sem))'
    <3> SUFFICES ASSUME NEW p \in Readers
                 PROVE  r'[p].sem \in 0..MaxStarts /\ ~Unmade(r[p].sem)'
      OBVIOUS
    <3>1. r'[p].sem = r[p].sem /\ r[p].sem \in 0..MaxStarts /\ ~Unmade(r[p].sem)
      BY <1>1 DEF RingInv, Numbered
    <3> QED BY <1>2, <1>4, <3>1 DEF Unmade
  <2> QED BY <2>1, <2>2, <2>3, <2>4 DEF Numbered
<1>7. Found' BY <1>1, <1>2 DEF RingInv, Found
<1>8. Insiders(semKey)' = Insiders(semKey) BY <1>1 DEF Insiders, InitShm
<1>9. Counted' BY <1>2, <1>8 DEF InitShm, RingInv, Counted
<1> QED BY <1>3, <1>6, <1>7, <1>9 DEF RingInv

(* ipcsyslog_init(), semaphores: a set that is made now has no reader yet. *)
LEMMA InitSemRing == RingInv /\ InitSem => RingInv'
<1> SUFFICES ASSUME RingInv, InitSem PROVE RingInv' OBVIOUS
<1>1. /\ w.at = "sem" /\ w'.at = "wait" /\ w'.starts = w.starts
      /\ {"at", "starts"} \subseteq DOMAIN w'
  BY DEF InitSem, NextMessage, RingInv, RingShape
<1>2. RingShape' BY <1>1 DEF InitSem, RingInv, RingShape
<1>3. w.starts \in 1..MaxStarts /\ MaxStarts \in Nat
  BY <1>1, RingAssumption DEF RingInv, Numbered
<1>4. \A s \in Nat : Unmade(s) <=> s >= w.starts BY <1>1, <1>3 DEF Unmade
<1>5. \A s \in Nat : Unmade(s)' <=> s > w.starts BY <1>1, <1>3 DEF Unmade
<1>6. semKey' \in 0..w.starts BY <1>3, <1>4 DEF InitSem, RingInv, Numbered
<1>7. Numbered'
  <2>1. semKey' \in 0..MaxStarts /\ ~Unmade(semKey)'
    <3>1. semKey' \in Nat /\ ~(semKey' > w.starts) BY <1>3, <1>6
    <3>2. ~(w'.at = "sem") /\ w'.starts = w.starts BY <1>1
    <3> QED BY <1>3, <1>6, <3>1, <3>2 DEF Unmade
  <2>2. \A s \in Segments : Unmade(s)' => sem'[s] = NewSem
    BY <1>3, <1>4, <1>5 DEF InitSem, RingInv, Numbered, Segments
  <2>3. (\A p \in Readers : r[p].sem \in 0..MaxStarts /\ ~Unmade(r[p].sem))'
    <3> SUFFICES ASSUME NEW p \in Readers
                 PROVE  r'[p].sem \in 0..MaxStarts /\ ~Unmade(r[p].sem)'
      OBVIOUS
    <3>1. r'[p].sem = r[p].sem /\ r[p].sem \in 0..MaxStarts /\ ~Unmade(r[p].sem)
      BY DEF InitSem, RingInv, Numbered
    <3> QED BY <1>1, <1>3, <3>1 DEF Unmade
  <2> QED BY <1>1, <1>3, <2>1, <2>2, <2>3 DEF Numbered
<1>8. semKey' # 0 BY <1>3 DEF InitSem
<1>9. Found' BY <1>8 DEF InitSem, RingInv, Found
<1>10. sem[semKey'].rd = Cardinality(Insiders(semKey'))
  <2>1. CASE semKey # 0 BY <2>1 DEF InitSem, RingInv, Counted
  <2>2. CASE semKey = 0
    <3>1. semKey' = w.starts BY <2>2 DEF InitSem
    <3>2. sem[w.starts] = NewSem BY <1>3, <1>4 DEF RingInv, Numbered, Segments
    <3>3. \A p \in Readers : r[p].sem # w.starts BY <1>3, <1>4 DEF RingInv, Numbered
    <3>4. Insiders(w.starts) = {} BY <3>3 DEF Insiders
    <3> QED BY <3>1, <3>2, <3>4, FS_EmptySet DEF NewSem
  <2> QED BY <2>1, <2>2
<1>11. Insiders(semKey)' = Insiders(semKey') BY DEF Insiders, InitSem
<1>12. Counted' BY <1>1, <1>10, <1>11 DEF InitSem, Counted
<1> QED BY <1>2, <1>7, <1>9, <1>12 DEF RingInv

(* log_to_shmem() takes the lock: nobody was inside.                       *)
LEMMA DownRing == RingInv /\ Down => RingInv'
<1> SUFFICES ASSUME RingInv, Down PROVE RingInv' OBVIOUS
<1>1. /\ w.at = "wait" /\ w'.at = "store" /\ w'.starts = w.starts
      /\ {"at", "starts"} \subseteq DOMAIN w'
  BY DEF Down, W, RingInv, RingShape
<1>2. semKey \in Segments BY <1>1, RingAssumption DEF RingInv, Numbered, Found, Segments
<1>3. sem' = [sem EXCEPT ![semKey] = [rd |-> 0, wr |-> 1]]
  <2>1. [sem[semKey] EXCEPT !.wr = 1] = [rd |-> 0, wr |-> 1] BY DEF Down, NewSem
  <2> QED BY <2>1, Zenon DEF Down
<1>4. RingShape' BY <1>1, <1>2, <1>3 DEF Down, RingInv, RingShape
<1>5. \A s : Unmade(s)' <=> Unmade(s) BY <1>1 DEF Unmade
<1>6. Numbered' BY <1>1, <1>2, <1>3, <1>5 DEF Down, RingInv, RingShape, Numbered
<1>7. Found' BY <1>1 DEF Down, RingInv, Found
<1>8. Insiders(semKey)' = Insiders(semKey) BY DEF Insiders, Down
<1>9. sem[semKey].rd = 0 /\ sem'[semKey] = [rd |-> 0, wr |-> 1]
  BY <1>2, <1>3 DEF Down, NewSem, RingInv, RingShape
<1>10. Counted' BY <1>8, <1>9 DEF Down, RingInv, Counted
<1> QED BY <1>4, <1>6, <1>7, <1>10 DEF RingInv

(* It gives it back; sem_up() never fails.                                 *)
LEMMA UpRing == RingInv /\ Up => RingInv'
<1> SUFFICES ASSUME RingInv, Up PROVE RingInv' OBVIOUS
<1>1. w.at = "up" /\ sem[semKey] = [rd |-> 0, wr |-> 1] BY DEF Up, RingInv, Counted
<1>2. semKey \in Segments BY <1>1, RingAssumption DEF RingInv, Numbered, Found, Segments
<1>3. /\ sem' = [sem EXCEPT ![semKey].wr = @ - 1]
      /\ w'.at \in {"rmshm", "idle"} /\ w'.starts = w.starts
      /\ {"at", "starts"} \subseteq DOMAIN w'
  BY <1>1 DEF Up, W, RingInv, RingShape
<1>4. sem' = [sem EXCEPT ![semKey] = NewSem]
  <2>1. [sem[semKey] EXCEPT !.wr = sem[semKey].wr - 1] = NewSem BY <1>1 DEF NewSem
  <2> QED BY <1>3, <2>1, Zenon
<1>5. RingShape' BY <1>2, <1>3, <1>4 DEF Up, RingInv, RingShape, NewSem
<1>6. \A s : Unmade(s)' <=> Unmade(s) BY <1>1, <1>3 DEF Unmade
<1>7. Numbered' BY <1>2, <1>3, <1>4, <1>6 DEF Up, RingInv, RingShape, Numbered
<1>8. Found' BY <1>1, <1>3 DEF Up, RingInv, Found
<1>9. Insiders(semKey)' = Insiders(semKey) BY DEF Insiders, Up
<1>10. sem'[semKey].rd = 0 BY <1>2, <1>4 DEF NewSem, RingInv, RingShape
<1>11. Counted' BY <1>1, <1>3, <1>9, <1>10 DEF Up, RingInv, Counted
<1> QED BY <1>5, <1>7, <1>8, <1>11 DEF RingInv

(* ipcsyslog_cleanup() removes the set, whoever still uses it.             *)
LEMMA RmSemRing == RingInv /\ RmSem => RingInv'
<1> SUFFICES ASSUME RingInv, RmSem PROVE RingInv' OBVIOUS
<1>1. /\ w.at = "rmsem" /\ w'.at = "off" /\ w'.starts = w.starts /\ semKey' = 0
      /\ {"at", "starts"} \subseteq DOMAIN w'
  BY DEF RmSem, W, RingInv, RingShape
<1>2. RingShape' BY <1>1 DEF RmSem, RingInv, RingShape
<1>3. \A s : Unmade(s)' <=> Unmade(s) BY <1>1 DEF Unmade
<1>4. w.starts \in 0..MaxStarts /\ MaxStarts \in Nat
  BY RingAssumption DEF RingInv, Numbered
<1>5. ~Unmade(0)' BY <1>1, <1>4 DEF Unmade
<1>6. Numbered' BY <1>1, <1>3, <1>4, <1>5 DEF RmSem, RingInv, Numbered
<1>7. Found' BY <1>1 DEF RmSem, RingInv, Found
<1>8. Counted' BY <1>1 DEF Counted
<1> QED BY <1>2, <1>6, <1>7, <1>8 DEF RingInv

----------------------------------------------------------------------------
(* logread *)

(* What a reader may become in any step: its set is one that was made.     *)
Proper(rec) ==
  /\ {"at", "sem"} \subseteq DOMAIN rec
  /\ rec.sem \in 0..MaxStarts /\ ~Unmade(rec.sem)
  /\ rec.at \in Inside \cup {"lock"} => rec.sem # 0

(* A reader that dies forgets its set.                                     *)
LEMMA FailedProper == RingInv => Proper(Failed) /\ Failed.at = "failed"
<1> SUFFICES ASSUME RingInv PROVE Proper(Failed) /\ Failed.at = "failed" OBVIOUS
<1>1. Failed.at = "failed" /\ Failed.sem = 0 /\ {"at", "sem"} \subseteq DOMAIN Failed
  BY DEF Failed, NewReader
<1>2. ~Unmade(0) /\ 0 \in 0..MaxStarts BY RingAssumption DEF RingInv, Numbered, Unmade
<1> QED BY <1>1, <1>2 DEF Proper, Inside

(* Of a step of a reader, all but the count.                               *)
LEMMA ReaderKeeps ==
  ASSUME RingInv, NEW p \in Readers, NEW rec, R(p, rec), Proper(rec),
         UNCHANGED <<opts, shm, semKey, w>>,
         sem' \in [Segments -> [rd : Nat, wr : 0..1]],
         \A s \in Segments : Unmade(s) => sem'[s] = NewSem
  PROVE  RingShape' /\ Numbered' /\ Found' /\ r'[p] = rec /\ \A q \in Readers \ {p} : r'[q] = r[q]
<1>1. r'[p] = rec /\ DOMAIN r' = Readers /\ \A q \in Readers \ {p} : r'[q] = r[q]
  BY DEF R, RingInv, RingShape
<1>2. RingShape'
  <2>1. \A q \in Readers : {"at", "sem"} \subseteq DOMAIN r'[q]
    BY <1>1 DEF Proper, RingInv, RingShape
  <2> QED BY <1>1, <2>1 DEF RingInv, RingShape
<1>3. Numbered'
  <2>1. \A s : Unmade(s)' <=> Unmade(s) BY DEF Unmade
  <2>2. (\A q \in Readers : r[q].sem \in 0..MaxStarts /\ ~Unmade(r[q].sem))'
    <3> SUFFICES ASSUME NEW q \in Readers
                 PROVE  r'[q].sem \in 0..MaxStarts /\ ~Unmade(r[q].sem)'
      OBVIOUS
    <3>1. CASE q = p BY <1>1, <3>1 DEF Proper, Unmade
    <3>2. CASE q # p BY <1>1, <3>2 DEF RingInv, Numbered, Unmade
    <3> QED BY <3>1, <3>2
  <2> QED BY <2>1, <2>2 DEF RingInv, Numbered
<1>4. Found' BY <1>1 DEF RingInv, Found, Proper
<1> QED BY <1>1, <1>2, <1>3, <1>4

(* A step of a reader that neither takes nor gives back a count.           *)
LEMMA ReaderQuiet ==
  ASSUME RingInv, NEW p \in Readers, NEW rec, R(p, rec), Proper(rec),
         UNCHANGED <<opts, shm, sem, semKey, w>>,
         semKey # 0 => ((rec.at \in Inside /\ rec.sem = semKey) <=> 
                        (r[p].at \in Inside /\ r[p].sem = semKey))
  PROVE  RingInv'
<1>1. RingShape' /\ Numbered' /\ Found' /\ r'[p] = rec /\ \A q \in Readers \ {p} : r'[q] = r[q]
  BY ReaderKeeps DEF RingInv, RingShape, Numbered
<1>2. ASSUME semKey # 0 PROVE Insiders(semKey)' = Insiders(semKey)
  <2>1. \A s : s = semKey => Insiders(s)' = Insiders(s) BY <1>1, <1>2, StaysInsider
  <2> QED BY <2>1 DEF Insiders
<1>3. Counted' BY <1>2 DEF RingInv, Counted
<1> QED BY <1>1, <1>3 DEF RingInv

(* shmget(): the reader has no set of semaphores yet, or dies.             *)
LEMMA AttachRing == \A p \in Readers : RingInv /\ Attach(p) => RingInv'
<1> SUFFICES ASSUME NEW p \in Readers, RingInv, Attach(p) PROVE RingInv' OBVIOUS
<1>1. CASE shmKey = 0
  BY <1>1, ReaderQuiet, FailedProper DEF Attach, Dies, ipc, Inside
<1>2. CASE shmKey # 0
  <2>1. PICK mode \in opts.modes :
          R(p, [r[p] EXCEPT !.at = "sem", !.mode = mode, !.follow = mode, !.shm = shmKey])
    BY <1>2, Zenon DEF Attach
  <2> DEFINE rec == [r[p] EXCEPT !.at = "sem", !.mode = mode, !.follow = mode, !.shm = shmKey]
  <2>2. rec.at = "sem" /\ rec.sem = r[p].sem /\ {"at", "sem"} \subseteq DOMAIN rec
    BY DEF RingInv, RingShape
  <2>3. Proper(rec) BY <2>2 DEF Proper, RingInv, Numbered, Inside
  <2> HIDE DEF rec
  <2>4. R(p, rec) BY <2>1 DEF rec
  <2> QED BY <2>2, <2>3, <2>4, ReaderQuiet, Zenon DEF Attach, ipc, Inside
<1> QED BY <1>1, <1>2

(* semget(): it finds the set that has KEY_ID, or dies.                    *)
LEMMA ReadTailRing == \A p \in Readers : RingInv /\ ReadTail(p) => RingInv'
<1> SUFFICES ASSUME NEW p \in Readers, RingInv, ReadTail(p) PROVE RingInv' OBVIOUS
<1>1. CASE semKey = 0
  BY <1>1, ReaderQuiet, FailedProper DEF ReadTail, BeginAt, Dies, ipc, Inside
<1>2. CASE semKey # 0
  <2> DEFINE n == Len(ShmOf(p).log)
             rec == [r[p] EXCEPT !.at = "lock", !.sem = semKey, !.cur = ShmOf(p).tail,
                                 !.from = n, !.pos = n]
  <2>1. R(p, rec) BY <1>2 DEF ReadTail, BeginAt
  <2>2. rec.at = "lock" /\ rec.sem = semKey /\ {"at", "sem"} \subseteq DOMAIN rec
    BY DEF RingInv, RingShape
  <2> HIDE DEF rec
  <2>3. Proper(rec) BY <1>2, <2>2 DEF Proper, RingInv, Numbered
  <2> QED BY <2>1, <2>2, <2>3, ReaderQuiet DEF ReadTail, BeginAt, ipc, Inside
<1> QED BY <1>1, <1>2

(* A reader inside looks and copies, and is still inside.                  *)
LEMMA InsideStays ==
  ASSUME RingInv, NEW p \in Readers, NEW rec, R(p, rec), UNCHANGED <<opts, shm, sem, semKey, w>>,
         r[p].at \in Inside, rec.at \in Inside, rec.sem = r[p].sem, DOMAIN rec = DOMAIN r[p]
  PROVE  RingInv'
<1>1. Proper(rec) BY DEF Proper, RingInv, RingShape, Numbered, Found
<1> QED BY <1>1, ReaderQuiet

(* The search for the oldest message, or for news with -f.                 *)
LEMMA LookRing == \A p \in Readers : RingInv /\ Look(p) => RingInv'
<1> SUFFICES ASSUME NEW p \in Readers, RingInv, Look(p) PROVE RingInv' OBVIOUS
<1> DEFINE nothing == r[p].cur = r[p].tail
           follows == [r[p] EXCEPT !.at = IF nothing THEN "up" ELSE "copy", !.copy.set = nothing]
<1>1. {"at", "sem"} \subseteq DOMAIN r[p] BY DEF RingInv, RingShape
<1>2. /\ Oldest(p).at \in Inside /\ Oldest(p).sem = r[p].sem
      /\ DOMAIN Oldest(p) = DOMAIN r[p]
  BY <1>1 DEF Oldest, Inside
<1>3. follows.at \in Inside /\ follows.sem = r[p].sem /\ DOMAIN follows = DOMAIN r[p]
  BY <1>1 DEF Inside
<1>4. R(p, Oldest(p)) \/ R(p, follows) BY DEF Look, LookFrom
<1>5. r[p].at \in Inside /\ UNCHANGED <<opts, shm, sem, semKey, w>>
  BY DEF Look, LookFrom, ipc, Inside
<1> HIDE DEF follows
<1> QED BY <1>2, <1>3, <1>4, <1>5, InsideStays

(* The copy of all, or of one string.                                      *)
LEMMA CopyRing == \A p \in Readers : RingInv /\ Copy(p) => RingInv'
<1> SUFFICES ASSUME NEW p \in Readers, RingInv, Copy(p) PROVE RingInv' OBVIOUS
<1>1. {"at", "sem"} \subseteq DOMAIN r[p] /\ r[p].at = "copy"
  BY DEF RingInv, RingShape, Copy, CopyTo
<1>2. PICK rec : /\ R(p, rec) /\ rec.at \in Inside /\ rec.sem = r[p].sem
                 /\ DOMAIN rec = DOMAIN r[p]
  <2> DEFINE d == ShmOf(p).data
             bytes == IF r[p].cur <= r[p].tail THEN Bytes(d, r[p].cur, r[p].tail)
                      ELSE First(p) \o Second(p)
             next == IF r[p].cur + Step(p) >= Size THEN 0 ELSE r[p].cur + Step(p)
             all == [r[p] EXCEPT !.at = "up", !.cur = r[p].tail, !.pos = r[p].end,
                                 !.copy = [set |-> TRUE, bytes |-> bytes]]
             over == [r[p] EXCEPT !.at = "up", !.pos = r[p].end]
             string == [r[p] EXCEPT !.out = @ \o Bytes(d, r[p].cur, r[p].cur + Strlen(d, r[p].cur)),
                                    !.cur = next]
  <2>1. R(p, all) \/ R(p, over) \/ R(p, string) BY DEF Copy, CopyTo
  <2>2. all.at = "up" /\ all.sem = r[p].sem /\ DOMAIN all = DOMAIN r[p] BY <1>1
  <2>3. over.at = "up" /\ over.sem = r[p].sem /\ DOMAIN over = DOMAIN r[p] BY <1>1
  <2>4. string.at = "copy" /\ string.sem = r[p].sem /\ DOMAIN string = DOMAIN r[p] BY <1>1
  <2> HIDE DEF all, over, string
  <2> QED BY <2>1, <2>2, <2>3, <2>4 DEF Inside
<1>3. r[p].at \in Inside /\ UNCHANGED <<opts, shm, sem, semKey, w>>
  BY <1>1 DEF Copy, CopyTo, ipc, Inside
<1> QED BY <1>2, <1>3, InsideStays

(* sem_down() of a reader, where there is a set: one more is inside, and   *)
(* syslogd is not.                                                         *)
LEMMA LockRing == \A p \in Readers : RingInv /\ Lock(p) => RingInv'
<1> SUFFICES ASSUME NEW p \in Readers, RingInv, Lock(p) PROVE RingInv' OBVIOUS
<1>1. CASE Removed(p) /\ Dies(p) /\ UNCHANGED sem
  <2>1. r[p].at = "lock" BY DEF Lock
  <2> QED BY <1>1, <2>1, ReaderQuiet, FailedProper DEF Lock, Dies, Inside
<1>2. CASE ~Removed(p) /\ sem[semKey].wr = 0
  <2> DEFINE n == Len(ShmOf(p).log)
             rec == [r[p] EXCEPT !.at = "look", !.tail = ShmOf(p).tail, !.copy = NewReader.copy,
                                 !.end = n, !.lapped = @ \/ n >= r[p].pos + Size]
  <2>1. R(p, rec) /\ sem' = [sem EXCEPT ![semKey].rd = @ + 1] /\ r[p].at = "lock"
        /\ UNCHANGED <<opts, shm, semKey, w>> /\ r[p].sem = semKey
    BY <1>2 DEF Lock, Removed
  <2>2. rec.at = "look" /\ rec.sem = semKey /\ {"at", "sem"} \subseteq DOMAIN rec
    BY <2>1 DEF RingInv, RingShape
  <2> HIDE DEF rec
  <2>3. semKey \in Segments BY <2>1, RingAssumption DEF RingInv, Numbered, Found, Segments
  <2>4. Proper(rec) BY <2>1, <2>2 DEF Proper, RingInv, Numbered, Found
  <2>5. ~Unmade(semKey) BY DEF RingInv, Numbered
  <2>6. sem' \in [Segments -> [rd : Nat, wr : 0..1]] /\ sem'[semKey].rd = sem[semKey].rd + 1
        /\ \A s \in Segments \ {semKey} : sem'[s] = sem[s]
    BY <2>1, <2>3 DEF RingInv, RingShape
  <2>7. \A s \in Segments : Unmade(s) => sem'[s] = NewSem
    BY <2>5, <2>6 DEF RingInv, Numbered
  <2>8. RingShape' /\ Numbered' /\ Found' /\ r'[p] = rec /\ \A q \in Readers \ {p} : r'[q] = r[q]
    BY <2>1, <2>4, <2>6, <2>7, ReaderKeeps
  <2>9. Cardinality(Insiders(semKey)') = Cardinality(Insiders(semKey)) + 1
    <3>1. \A s : s = semKey => Cardinality(Insiders(s)') = Cardinality(Insiders(s)) + 1
      BY <2>1, <2>2, <2>8, EntersInsider DEF Inside
    <3> QED BY <2>1, <3>1 DEF Insiders
  <2>10. w.at \notin {"store", "up"} BY <1>2 DEF RingInv, Counted
  <2>11. Counted' BY <2>1, <2>3, <2>6, <2>9, <2>10 DEF RingInv, Counted, Segments
  <2> QED BY <2>8, <2>11 DEF RingInv
<1> QED BY <1>1, <1>2 DEF Lock

(* A reader that is counted gives its count back, in sem_up() or by        *)
(* SEM_UNDO: the count was not zero.                                       *)
LEMMA CountGivenBack ==
  ASSUME RingInv, NEW p \in Readers, NEW rec, R(p, rec), Proper(rec),
         UNCHANGED <<opts, shm, semKey, w>>, r[p].at \in Inside, ~Removed(p), rec.at \notin Inside,
         sem' = [sem EXCEPT ![semKey].rd = @ - 1]
  PROVE  RingInv'
<1>1. r[p].sem = semKey BY DEF Removed
<1>2. semKey \in Segments /\ semKey # 0
  BY <1>1, RingAssumption DEF RingInv, Numbered, Found, Segments
<1>3. p \in Insiders(semKey) BY <1>1 DEF Insiders
<1>4. sem[semKey].rd \in Nat \ {0} /\ sem[semKey].rd = Cardinality(Insiders(semKey))
  BY <1>2, <1>3, InsidersFinite, FS_EmptySet DEF RingInv, Counted
<1>5. ~Unmade(semKey) BY DEF RingInv, Numbered
<1>6. sem' \in [Segments -> [rd : Nat, wr : 0..1]] /\ sem'[semKey].rd = sem[semKey].rd - 1
      /\ \A s \in Segments \ {semKey} : sem'[s] = sem[s]
  <2>1. PICK n \in Nat : n = sem[semKey].rd - 1 BY <1>4
  <2>2. sem' = [sem EXCEPT ![semKey].rd = n] BY <2>1
  <2>3. sem \in [Segments -> [rd : Nat, wr : 0..1]] BY DEF RingInv, RingShape
  <2> QED BY <1>2, <2>1, <2>2, <2>3
<1>7. \A s \in Segments : Unmade(s) => sem'[s] = NewSem
  BY <1>5, <1>6 DEF RingInv, Numbered
<1>8. RingShape' /\ Numbered' /\ Found' /\ r'[p] = rec /\ \A q \in Readers \ {p} : r'[q] = r[q]
  BY <1>6, <1>7, ReaderKeeps
<1>9. Cardinality(Insiders(semKey)') = Cardinality(Insiders(semKey)) - 1
  <2>1. \A s : s = semKey => Cardinality(Insiders(s)') = Cardinality(Insiders(s)) - 1
    BY <1>1, <1>8, LeavesInsider
  <2> QED BY <2>1 DEF Insiders
<1>10. w.at \notin {"store", "up"} BY <1>4 DEF RingInv, Counted
<1>11. Counted' BY <1>4, <1>6, <1>9, <1>10 DEF RingInv, Counted
<1> QED BY <1>8, <1>11 DEF RingInv

(* sem_up() of a reader fails only where the set was removed.              *)
LEMMA UnlockRing == \A p \in Readers : RingInv /\ Unlock(p) => RingInv'
<1> SUFFICES ASSUME NEW p \in Readers, RingInv, Unlock(p) PROVE RingInv' OBVIOUS
<1>1. r[p].at = "up" /\ r[p].at \in Inside /\ UNCHANGED <<opts, shm, semKey, w>>
  BY DEF Unlock, Inside
<1>2. CASE Removed(p)
  <2>1. Dies(p) /\ UNCHANGED sem /\ r[p].sem # semKey BY <1>2 DEF Unlock, Removed
  <2> QED BY <1>1, <2>1, ReaderQuiet, FailedProper DEF Dies, Inside
<1>3. CASE ~Removed(p)
  <2>1. r[p].sem = semKey /\ semKey # 0 BY <1>1, <1>3 DEF Removed, RingInv, Found
  <2>2. p \in Insiders(semKey) BY <1>1, <2>1 DEF Insiders
  <2>3. sem[semKey].rd # 0 BY <2>1, <2>2, InsidersFinite, FS_EmptySet DEF RingInv, Counted
  <2> DEFINE rec == [r[p] EXCEPT !.at = IF r[p].follow # 0 THEN "lock" ELSE "done",
                                 !.out = @ \o Text(r[p].copy.bytes)]
  <2>4. R(p, rec) /\ sem' = [sem EXCEPT ![semKey].rd = @ - 1] BY <1>3, <2>3 DEF Unlock
  <2>5. rec.at \in {"lock", "done"} /\ rec.sem = semKey /\ {"at", "sem"} \subseteq DOMAIN rec
    BY <2>1 DEF RingInv, RingShape
  <2> HIDE DEF rec
  <2>6. Proper(rec) BY <2>1, <2>5 DEF Proper, RingInv, Numbered
  <2> QED BY <1>1, <1>3, <2>4, <2>5, <2>6, CountGivenBack DEF Inside
<1> QED BY <1>2, <1>3

(* A reader is killed.                                                     *)
LEMMA KillReaderRing == \A p \in Readers : RingInv /\ KillReader(p) => RingInv'
<1> SUFFICES ASSUME NEW p \in Readers, RingInv, KillReader(p) PROVE RingInv' OBVIOUS
<1>1. R(p, Failed) /\ UNCHANGED <<opts, shm, semKey, w>> BY DEF KillReader, Dies
<1>2. CASE r[p].at \in Inside /\ ~Removed(p)
  BY <1>1, <1>2, FailedProper, CountGivenBack DEF KillReader, Inside
<1>3. CASE ~(r[p].at \in Inside /\ ~Removed(p))
  BY <1>1, <1>3, FailedProper, ReaderQuiet DEF KillReader, Removed, Inside
<1> QED BY <1>2, <1>3

----------------------------------------------------------------------------
(* All together *)

(* Every step keeps the invariant.                                         *)
LEMMA StepRing == RingInv /\ [Next]_vars => RingInv'
<1> SUFFICES ASSUME RingInv, [Next]_vars PROVE RingInv' OBVIOUS
<1> USE DEF ipc
<1>1. CASE InitShm BY <1>1, InitShmRing
<1>2. CASE InitSem BY <1>2, InitSemRing
<1>3. CASE Receive BY <1>3, SyslogdKeeps DEF Receive, NextMessage, RingInv, RingShape
<1>4. CASE Exiting BY <1>4, SyslogdKeeps DEF Exiting, NextMessage, RingInv, RingShape
<1>5. CASE Down BY <1>5, DownRing
<1>6. CASE Store
  <2> DEFINE fits == ShmTail + Len(w.left) < Size
             rest == [w EXCEPT !.at = IF fits THEN "up" ELSE "store",
                               !.left = SubSeq(@, Room(Len(w.left)) + 1, Len(w.left))]
  <2>1. w.at = "store" /\ w' = rest /\ UNCHANGED <<opts, sem, semKey, r>> /\ DOMAIN shm' = DOMAIN shm
    BY <1>6, Zenon DEF Store, Pass
  <2>2. rest.at \in {"store", "up"} /\ rest.starts = w.starts /\ DOMAIN rest = DOMAIN w
    BY DEF RingInv, RingShape
  <2> HIDE DEF rest
  <2> QED BY <2>1, <2>2, SyslogdKeeps DEF RingInv, RingShape
<1>7. CASE Up BY <1>7, UpRing
<1>8. CASE RmShm BY <1>8, SyslogdKeeps DEF RmShm, W, RingInv, RingShape
<1>9. CASE RmSem BY <1>9, RmSemRing
<1>10. CASE Signal BY <1>10, SyslogdKeeps DEF Signal, W, RingInv, RingShape
<1>11. CASE Kill
  <2>1. /\ w'.at = "off" /\ w'.starts = w.starts /\ {"at", "starts"} \subseteq DOMAIN w'
        /\ UNCHANGED <<opts, shm, sem, semKey, r>>
    BY <1>11 DEF Kill, W, RingInv, RingShape
  <2>2. RingShape' BY <2>1 DEF RingInv, RingShape
  <2>3. \A s : Unmade(s)' => Unmade(s) BY <2>1 DEF Unmade
  <2>4. Numbered' BY <2>1, <2>3 DEF RingInv, Numbered
  <2>5. Found' BY <2>1 DEF RingInv, Found
  <2>6. Insiders(semKey)' = Insiders(semKey) BY <2>1 DEF Insiders
  <2>7. Counted' BY <2>1, <2>6 DEF RingInv, Counted
  <2> QED BY <2>2, <2>4, <2>5, <2>7 DEF RingInv
<1>12. ASSUME NEW p \in Readers,
              Attach(p) \/ ReadTail(p) \/ Lock(p) \/ Look(p) \/ Copy(p) \/ Unlock(p) \/ KillReader(p)
       PROVE  RingInv'
  BY <1>12, AttachRing, ReadTailRing, LockRing, LookRing, CopyRing, UnlockRing, KillReaderRing
<1>13. CASE UNCHANGED vars
  <2>1. \A s : Unmade(s)' <=> Unmade(s) BY <1>13 DEF vars, Unmade
  <2>2. Insiders(semKey)' = Insiders(semKey) BY <1>13 DEF vars, Insiders
  <2> QED BY <1>13, <2>1, <2>2 DEF vars, RingInv, RingShape, Numbered, Found, Counted
<1> QED
  BY <1>1, <1>2, <1>3, <1>4, <1>5, <1>6, <1>7, <1>8, <1>9, <1>10, <1>11, <1>12, <1>13 DEF Next

(* The invariant of the semaphores, for all readers, starts and kills.     *)
THEOREM RingCorrect == Spec => []RingInv
BY InitRing, StepRing, PTL DEF Spec

(* syslogd stores alone, and the count of readers is that of the readers   *)
(* inside whatever is killed, so that no semop() with IPC_NOWAIT fails     *)
(* (syslogd.c: log_to_shmem(), logread.c: logread_main(), sem_up()).       *)
THEOREM LocksExclude == Spec => []Excluded
<1>1. RingInv => Excluded
  <2> SUFFICES ASSUME RingInv PROVE Excluded OBVIOUS
  <2>1. Insiders(semKey) = {p \in Readers : r[p].at \in Inside /\ ~Removed(p)}
    BY DEF Insiders, Removed
  <2> QED BY <2>1 DEF RingInv, Counted, Excluded
<1> QED BY <1>1, RingCorrect, PTL

(* A step never changes the buffer under a reader that is inside with the  *)
(* set in use, but for a new syslogd that clears a segment it finds: what  *)
(* a reader looked at is what it copies.                                   *)
Undisturbed ==
  \A p \in Readers : r[p].at \in Inside /\ ~Removed(p) =>
    \A s \in Segments : shm'[s] = shm[s] \/ (w.at = "off" /\ shm'[s] = NewShm)

(* logread never sees the ring change while it is inside.                  *)
THEOREM ReadersUndisturbed == Spec => [][Undisturbed]_vars
<1>1. RingInv /\ [Next]_vars => [Undisturbed]_vars
  <2> SUFFICES ASSUME RingInv, Next, NEW p \in Readers, r[p].at \in Inside, ~Removed(p),
                      NEW s \in Segments
               PROVE  shm'[s] = shm[s] \/ (w.at = "off" /\ shm'[s] = NewShm)
    BY DEF Undisturbed
  <2>1. ~Store
    <3>1. r[p].sem = semKey /\ semKey # 0 BY DEF Removed, RingInv, Found
    <3>2. p \in Insiders(semKey) BY <3>1 DEF Insiders
    <3>3. sem[semKey].rd # 0 BY <3>1, <3>2, InsidersFinite, FS_EmptySet DEF RingInv, Counted
    <3>4. w.at \notin {"store", "up"} BY <3>3 DEF RingInv, Counted
    <3> QED BY <3>4, Zenon DEF Store, Pass
  <2>2. CASE InitShm
    <3> DEFINE t == IF shmKey = 0 THEN w.starts + 1 ELSE shmKey
    <3>1. shm' = [shm EXCEPT ![t] = NewShm] /\ w.at = "off" BY <2>2 DEF InitShm
    <3> HIDE DEF t
    <3>2. DOMAIN shm = Segments BY DEF RingInv, RingShape
    <3> QED BY <3>1, <3>2
  <2>3. CASE ~InitShm
    <3>1. UNCHANGED shm
      BY <2>1, <2>3, Zenon DEF Next, InitSem, Receive, Exiting, Down, Up, RmShm, RmSem, Signal, Kill,
         Attach, ReadTail, BeginAt, Lock, Look, LookFrom, Copy, CopyTo, Unlock, KillReader, ipc
    <3> QED BY <3>1
  <2> QED BY <2>2, <2>3
<1> QED BY <1>1, RingCorrect, PTL DEF Spec
=============================================================================
