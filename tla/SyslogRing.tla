----------------------------- MODULE SyslogRing -----------------------------
(***************************************************************************)
(* sysklogd/syslogd.c with -C and sysklogd/logread.c: the circular buffer  *)
(* in shared memory, which syslogd fills and logread prints.               *)
(*                                                                         *)
(* Two semaphores exclude them: .rd counts the readers inside, .wr is 1    *)
(* while syslogd is inside.  The kernel takes a reader's count back when   *)
(* the reader dies (SEM_UNDO), but not syslogd's.  A byte of a message is  *)
(* its number and its place, so that the bytes of two messages differ.     *)
(***************************************************************************)
EXTENDS Naturals, Sequences, FiniteSets

CONSTANTS
  Size,        \* shbuf->size: data has one byte more
  Readers,     \* logread processes
  MaxStarts,   \* bound: times syslogd is started
  Options      \* kinds of use, see OptionType

(* reduced: FEATURE_LOGREAD_REDUCED_LOCKING; local: syslogd has -L, or is  *)
(* built without FEATURE_REMOTE_LOG; modes: none, -f or -F; kill:          *)
(* processes may be killed; lens: lengths of messages, the NUL included.   *)
(* Bounds: the readers, the messages, the starts of syslogd.               *)
OptionType ==
  [reduced : BOOLEAN, local : BOOLEAN, modes : SUBSET (0..2), kill : BOOLEAN,
   lens : SUBSET (Nat \ {0}), readers : SUBSET Readers, msgs : Nat, starts : 0..MaxStarts]

ASSUME RingAssumption ==
  Size \in Nat \ {0} /\ MaxStarts \in Nat /\ IsFiniteSet(Readers) /\ Options \subseteq OptionType

VARIABLES
  opts,        \* the kind of use
  shm,         \* shared memory segments: [data, tail, log], see NewShm
  sem,         \* semaphore sets
  shmKey,      \* the segment and the set that have KEY_ID, 0 for none
  semKey,
  w,           \* syslogd
  r,           \* the logread processes
  sent         \* messages so far

ipc == <<shm, sem, shmKey, semKey>>
vars == <<opts, shm, sem, shmKey, semKey, w, r, sent>>

----------------------------------------------------------------------------
(* Bytes and strings *)

NUL == <<>>
Message(m, len) == [k \in 1..len |-> IF k = len THEN NUL ELSE <<m, k>>]
Text(bytes) == SelectSeq(bytes, LAMBDA b : b # NUL)

(* The bytes of d from index a to index b - 1.                             *)
Bytes(d, a, b) == [k \in 1..(b - a) |-> d[a + k - 1]]

(* strnlen(d + a, n): the data ends with a NUL, so strlen has a limit too. *)
Strnlen(d, a, n) ==
  CHOOSE k \in 0..n : /\ k = n \/ d[a + k] = NUL
                      /\ \A j \in 0..(k - 1) : d[a + j] # NUL
Strlen(d, a) == Strnlen(d, a, Size - a)

(* log: all bytes stored since the segment was cleared.                    *)
NewShm == [data |-> [i \in 0..Size |-> NUL], tail |-> 0, log |-> <<>>]
NewSem == [rd |-> 0, wr |-> 0]
Segments == 1..MaxStarts

Off == [at |-> "off", starts |-> 0, sig |-> FALSE, bye |-> FALSE, left |-> <<>>]

(* copy.set: len_total and copy have values.  What a reader does not know: *)
(* from, pos, end: the length of log when logread came, when it printed,   *)
(* and when it took the lock; lapped: it was overtaken by a whole buffer;  *)
(* cleared: the segment was cleared under it.                              *)
NewReader ==
  [at |-> "new", mode |-> 0, follow |-> 0, shm |-> 0, sem |-> 0, cur |-> 0, tail |-> 0,
   copy |-> [set |-> FALSE, bytes |-> <<>>], out |-> <<>>,
   from |-> 0, pos |-> 0, end |-> 0, lapped |-> FALSE, cleared |-> FALSE]
Failed == [NewReader EXCEPT !.at = "failed"]

Init ==
  /\ opts \in Options
  /\ shm = [s \in Segments |-> NewShm] /\ sem = [s \in Segments |-> NewSem]
  /\ shmKey = 0 /\ semKey = 0 /\ sent = 0
  /\ w = Off
  /\ r = [p \in Readers |-> IF p \in opts.readers THEN NewReader ELSE Failed]

----------------------------------------------------------------------------
(* syslogd *)

W(at) == w' = [w EXCEPT !.at = at]
Data == shm[shmKey].data
ShmTail == shm[shmKey].tail

(* The message that is to be stored next.                                  *)
NextMessage(len, at, bye) ==
  /\ sent' = sent + 1
  /\ w' = [w EXCEPT !.at = at, !.left = Message(sent + 1, len), !.bye = bye]

(* ipcsyslog_init(): a segment that is left over is used again, cleared.   *)
(* A reader that is inside is not waited for; between memset() and the     *)
(* assignment of size, one step here, it would see a size of 0.            *)
InitShm ==
  /\ w.at = "off" /\ w.starts < opts.starts
  /\ LET s == IF shmKey = 0 THEN w.starts + 1 ELSE shmKey IN
     /\ shmKey' = s /\ shm' = [shm EXCEPT ![s] = NewShm]
     /\ r' = [p \in DOMAIN r |-> [r[p] EXCEPT !.cleared = @ \/ r[p].shm = s]]
  /\ w' = [Off EXCEPT !.at = "sem", !.starts = w.starts + 1]
  /\ UNCHANGED <<opts, sem, semKey, sent>>

(* So is a set of semaphores, as it is.  "syslogd started" comes next.     *)
InitSem ==
  /\ w.at = "sem" /\ \E len \in opts.lens : NextMessage(len, "wait", FALSE)
  /\ semKey' = IF semKey = 0 THEN w.starts ELSE semKey
  /\ UNCHANGED <<opts, shm, sem, shmKey, r>>

(* A message arrives at /dev/log.  Without OPT_locallog in opts it is read *)
(* and not stored.                                                         *)
Receive ==
  /\ w.at = "idle" /\ ~w.sig /\ opts.local /\ sent < opts.msgs
  /\ \E len \in opts.lens : NextMessage(len, "wait", FALSE)
  /\ UNCHANGED <<opts, ipc, r>>

(* A SIGTERM ends the loop: "syslogd exiting" is stored.                   *)
Exiting ==
  /\ w.at = "idle" /\ w.sig /\ \E len \in opts.lens : NextMessage(len, "wait", TRUE)
  /\ UNCHANGED <<opts, ipc, r>>

(* Mutant: readers are not waited for.                                     *)
DownAnyway ==
  /\ w.at = "wait" /\ sem[semKey].wr = 0
  /\ sem' = [sem EXCEPT ![semKey].wr = 1] /\ W("store")
  /\ UNCHANGED <<opts, shm, shmKey, semKey, r, sent>>

(* log_to_shmem() takes the lock when nobody is inside.                    *)
Down ==
  /\ w.at = "wait" /\ sem[semKey] = NewSem
  /\ sem' = [sem EXCEPT ![semKey].wr = 1] /\ W("store")
  /\ UNCHANGED <<opts, shm, shmKey, semKey, r, sent>>

(* One pass of the loop at "again": n bytes are copied.                    *)
Pass(fits, n) ==
  LET len == Len(w.left) IN
  /\ w.at = "store"
  /\ shm' = [shm EXCEPT
       ![shmKey].data = [i \in 0..Size |-> IF i \in ShmTail..(ShmTail + n - 1)
                                           THEN w.left[i - ShmTail + 1] ELSE @[i]],
       ![shmKey].tail = IF fits THEN ShmTail + len ELSE 0,
       ![shmKey].log = @ \o SubSeq(w.left, 1, n)]
  /\ w' = [w EXCEPT !.at = IF fits THEN "up" ELSE "store", !.left = SubSeq(@, n + 1, len)]
  /\ UNCHANGED <<opts, sem, shmKey, semKey, r, sent>>
Room(len) == IF ShmTail + len < Size THEN len ELSE Size - ShmTail

Store == Pass(ShmTail + Len(w.left) < Size, Room(Len(w.left)))

(* Mutant: the lock is not given back.                                     *)
UpForgets ==
  /\ w.at = "up" /\ W(IF w.bye THEN "rmshm" ELSE "idle")
  /\ UNCHANGED <<opts, ipc, r, sent>>

Up ==
  /\ w.at = "up"
  /\ IF sem[semKey].wr = 0 THEN W("off") /\ UNCHANGED sem
     ELSE sem' = [sem EXCEPT ![semKey].wr = @ - 1] /\ W(IF w.bye THEN "rmshm" ELSE "idle")
  /\ UNCHANGED <<opts, shm, shmKey, semKey, r, sent>>

(* ipcsyslog_cleanup() *)
RmShm ==
  /\ w.at = "rmshm" /\ shmKey' = 0 /\ W("rmsem")
  /\ UNCHANGED <<opts, shm, sem, semKey, r, sent>>

RmSem ==
  /\ w.at = "rmsem" /\ semKey' = 0 /\ W("off")
  /\ UNCHANGED <<opts, shm, sem, shmKey, r, sent>>

(* SIGTERM; where semop() waits it ends syslogd at once, with EINTR.       *)
Signal ==
  /\ w.at \notin {"off", "sem"}
  /\ \/ ~w.sig /\ w' = [w EXCEPT !.sig = TRUE]
     \/ w.at = "wait" /\ sem[semKey] # NewSem /\ W("off")
  /\ UNCHANGED <<opts, ipc, r, sent>>

Kill ==
  /\ opts.kill /\ w.at # "off" /\ W("off")
  /\ UNCHANGED <<opts, ipc, r, sent>>

Syslogd == InitSem \/ Exiting \/ Down \/ Store \/ Up \/ RmShm \/ RmSem

----------------------------------------------------------------------------
(* logread *)

R(p, rec) == r' = [r EXCEPT ![p] = rec]
Dies(p) == R(p, Failed)
ShmOf(p) == shm[r[p].shm]
Inside == {"look", "copy", "up"}
Running == Inside \cup {"sem", "lock"}

(* semop() fails on a set that was removed.                                *)
Removed(p) == r[p].sem # semKey

(* shmget() and shmat() *)
Attach(p) ==
  /\ r[p].at = "new"
  /\ IF shmKey = 0 THEN Dies(p)
     ELSE \E mode \in opts.modes :
            R(p, [r[p] EXCEPT !.at = "sem", !.mode = mode, !.follow = mode, !.shm = shmKey])
  /\ UNCHANGED <<opts, ipc, w, sent>>

(* semget(), and the first look at tail, without the lock.                 *)
BeginAt(p, cur) ==
  /\ r[p].at = "sem"
  /\ LET n == Len(ShmOf(p).log) IN
     IF semKey = 0 THEN Dies(p)
     ELSE R(p, [r[p] EXCEPT !.at = "lock", !.sem = semKey, !.cur = cur, !.from = n, !.pos = n])
  /\ UNCHANGED <<opts, ipc, w, sent>>

ReadTail(p) == BeginAt(p, ShmOf(p).tail)

Lock(p) ==
  /\ r[p].at = "lock"
  /\ \/ Removed(p) /\ Dies(p) /\ UNCHANGED sem
     \/ /\ ~Removed(p) /\ sem[semKey].wr = 0
        /\ sem' = [sem EXCEPT ![semKey].rd = @ + 1]
        /\ LET n == Len(ShmOf(p).log) IN
           R(p, [r[p] EXCEPT !.at = "look", !.tail = ShmOf(p).tail, !.copy = NewReader.copy,
                             !.end = n, !.lapped = @ \/ n >= r[p].pos + Size])
  /\ UNCHANGED <<opts, shm, shmKey, semKey, w, sent>>

(* Where to begin without -f: at the first byte after a NUL, from cur on.  *)
(* -F becomes -f.                                                          *)
Oldest(p) ==
  LET d == ShmOf(p).data
      nul == r[p].cur + Strlen(d, r[p].cur)
      at == IF nul < Size THEN nul ELSE Strnlen(d, 0, r[p].tail)
  IN [r[p] EXCEPT !.follow = @ \div 2,
                  !.at = IF nul >= Size /\ at = r[p].tail THEN "up" ELSE "copy",
                  !.cur = IF nul >= Size /\ at = r[p].tail THEN at ELSE (at + 1) % Size]

(* With -f there may be nothing to print.                                  *)
LookFrom(p, oldest, nothing) ==
  /\ r[p].at = "look"
  /\ R(p, IF r[p].follow # 1 THEN oldest
          ELSE [r[p] EXCEPT !.at = IF nothing THEN "up" ELSE "copy", !.copy.set = nothing])
  /\ UNCHANGED <<opts, ipc, w, sent>>

(* Mutant: the rest of a message that wraps is taken for one.              *)
LookZero(p) == LookFrom(p, [Oldest(p) EXCEPT !.cur =
  IF r[p].cur + Strlen(ShmOf(p).data, r[p].cur) >= Size THEN 0 ELSE @], r[p].cur = r[p].tail)

(* Mutant: with -f, too, the first message is skipped.                     *)
LookOldest(p) ==
  /\ r[p].at = "look" /\ R(p, [Oldest(p) EXCEPT !.follow = IF r[p].mode = 0 THEN 0 ELSE 1])
  /\ UNCHANGED <<opts, ipc, w, sent>>

(* Mutant: after tail went round, -f sees nothing new.                     *)
LookBehind(p) == LookFrom(p, Oldest(p), r[p].cur >= r[p].tail)

Look(p) == LookFrom(p, Oldest(p), r[p].cur = r[p].tail)

(* From cur to tail: all in one copy, or one string after the other.       *)
CopyTo(p, wrapped, step) ==
  LET d == ShmOf(p).data  cur == r[p].cur  tail == r[p].tail IN
  /\ r[p].at = "copy"
  /\ R(p, IF opts.reduced
          THEN [r[p] EXCEPT !.at = "up", !.cur = tail, !.pos = r[p].end, !.copy =
                 [set |-> TRUE, bytes |-> IF cur <= tail THEN Bytes(d, cur, tail) ELSE wrapped]]
          ELSE IF cur = tail THEN [r[p] EXCEPT !.at = "up", !.pos = r[p].end]
          ELSE [r[p] EXCEPT !.out = @ \o Bytes(d, cur, cur + Strlen(d, cur)),
                            !.cur = IF cur + step >= Size THEN 0 ELSE cur + step])
  /\ UNCHANGED <<opts, ipc, w, sent>>
First(p) == Bytes(ShmOf(p).data, r[p].cur, Size)
Second(p) == Bytes(ShmOf(p).data, 0, r[p].tail)
Step(p) == Strlen(ShmOf(p).data, r[p].cur) + 1

Copy(p) == CopyTo(p, First(p) \o Second(p), Step(p))

(* sem_up(), then the copy is printed.                                     *)
Unlock(p) ==
  /\ r[p].at = "up"
  /\ IF Removed(p) \/ sem[semKey].rd = 0 THEN Dies(p) /\ UNCHANGED sem
     ELSE /\ sem' = [sem EXCEPT ![semKey].rd = @ - 1]
          /\ R(p, [r[p] EXCEPT !.at = IF r[p].follow # 0 THEN "lock" ELSE "done",
                               !.out = @ \o Text(r[p].copy.bytes)])
  /\ UNCHANGED <<opts, shm, shmKey, semKey, w, sent>>

(* logread is killed: its count is undone.                                 *)
KillReader(p) ==
  /\ opts.kill /\ r[p].at \in Running /\ Dies(p)
  /\ sem' = IF r[p].at \in Inside /\ ~Removed(p)
            THEN [sem EXCEPT ![semKey].rd = @ - 1] ELSE sem
  /\ UNCHANGED <<opts, shm, shmKey, semKey, w, sent>>

Logread(p) == ReadTail(p) \/ Look(p) \/ Copy(p) \/ Unlock(p)

Next ==
  \/ InitShm \/ InitSem \/ Receive \/ Exiting \/ Down \/ Store \/ Up
  \/ RmShm \/ RmSem \/ Signal \/ Kill
  \/ \E p \in Readers : \/ Attach(p) \/ ReadTail(p) \/ Lock(p) \/ Look(p)
                             \/ Copy(p) \/ Unlock(p) \/ KillReader(p)

Spec == Init /\ [][Next]_vars

(* Both programs go on.  Neither is left out for ever when the lock comes  *)
(* free again and again: a reader with -f sleeps between its looks.        *)
FairSpec ==
  /\ Spec /\ WF_vars(Syslogd) /\ SF_vars(Down)
  /\ \A p \in Readers : /\ WF_vars(Logread(p))
                        /\ SF_vars(Lock(p))

----------------------------------------------------------------------------
(* Properties *)

TypeOK ==
  /\ opts \in Options
  /\ \A s \in Segments : /\ shm[s].tail \in 0..(Size - 1) /\ DOMAIN shm[s].data = 0..Size
                         /\ sem[s].rd \in Nat /\ sem[s].wr \in 0..1
  /\ {shmKey, semKey} \subseteq 0..MaxStarts /\ sent \in Nat
  /\ \A p \in Readers : r[p].cur \in 0..(Size - 1) /\ r[p].tail \in 0..(Size - 1)

(* The buffer holds the last bytes that were stored, in order; what was    *)
(* never stored, and the last byte of all, is NUL.                         *)
RingHoldsLog ==
  \A s \in Segments : LET n == Len(shm[s].log) IN
    /\ shm[s].tail = n % Size /\ shm[s].data[Size] = NUL
    /\ \A i \in 0..(Size - 1) :
         shm[s].data[i] = IF i < n THEN shm[s].log[CHOOSE k \in 1..n : /\ (k - 1) % Size = i
                                                                      /\ k > n - Size]
                          ELSE NUL

(* syslogd never stores while a reader is inside; the count of readers     *)
(* survives those that are killed, so that no semop() without waiting      *)
(* fails.                                                                  *)
Excluded ==
  /\ w.at \in {"store", "up"} => sem[semKey] = [rd |-> 0, wr |-> 1]
  /\ semKey # 0 => sem[semKey].rd = Cardinality({p \in Readers : r[p].at \in Inside /\ ~Removed(p)})

(* "No complete messages" never happens, so the copy that FEATURE_LOGREAD_ *)
(* REDUCED_LOCKING prints has always been made.                            *)
CopyIsMade == opts.reduced => \A p \in Readers : r[p].at = "up" => r[p].copy.set

(* Where a message begins in a log.                                        *)
Starts(log) == {b \in 0..Len(log) : b = 0 \/ log[b] = NUL}
Dumped(p) == r[p].at = "done" /\ ~r[p].cleared
Followed(p) == r[p].at = "lock" /\ r[p].follow = 1 /\ ~r[p].cleared
From(p, b) == r[p].out = Text(SubSeq(ShmOf(p).log, b + 1, r[p].pos))

(* What logread -f prints is what came since it was started, every byte of *)
(* it, in order, unless syslogd overtook it by a whole buffer; with -F,    *)
(* earlier messages come first.                                            *)
FollowsLog ==
  \A p \in Readers : Followed(p) /\ ~r[p].lapped =>
    IF r[p].mode = 1 THEN From(p, r[p].from) ELSE \E b \in Starts(ShmOf(p).log) : From(p, b)

(* What logread prints are the last messages, each of them whole, and, if  *)
(* nothing was stored while it started, all that are in the buffer but one *)
(* that fills it to the last byte.                                         *)
ShowsOldest(p, b) == \A c \in Starts(ShmOf(p).log) : c + Size > r[p].pos => b <= c
PrintsMessages ==
  \A p \in Readers : Dumped(p) =>
    \E b \in Starts(ShmOf(p).log) :
      From(p, b) /\ (r[p].pos = r[p].from => ShowsOldest(p, b))

(* logread.c:41: "Show messages in syslogd's circular buffer".              *)
ShowsMessages ==
  \A p \in Readers : Dumped(p) => \E b \in Starts(ShmOf(p).log) : From(p, b) /\ ShowsOldest(p, b)

(* syslogd.c:594: "we'll trust the OS to set initial semval to 0".         *)
StartsUnlocked == w.at = "wait" => sem[semKey].wr = 0

(* A message that log_to_shmem() was given is stored, unless a SIGTERM     *)
(* ends its semop().  Two things keep syslogd out for ever: readers that   *)
(* overlap all the time, and a lock that a killed syslogd has left.        *)
ReadersOut == \A p \in Readers : r[p].at \notin Inside
Stores ==
  []<>ReadersOut =>
    (w.at = "wait" /\ (opts.kill => sem[semKey].wr = 0) ~> w.at # "wait")

(* A reader comes out again, whatever is in the buffer.                    *)
ReadersLeave == \A p \in Readers :
  r[p].at \in Inside ~> r[p].at \notin Inside

(* logread -f has in the end printed all there is, if it is not overtaken. *)
CatchesUp == opts.kill \/ \A p \in Readers :
  <>[](r[p].at \in Inside \cup {"lock"} /\ r[p].follow = 1 /\ ~r[p].lapped)
    => []<>(r[p].shm # 0 /\ r[p].pos = Len(ShmOf(p).log))
=============================================================================
