------------------------------ MODULE SvlogdDir ------------------------------
(***************************************************************************)
(* runit/svlogd.c: the files of one log directory.  `current' and the old  *)
(* log files, their rotation, the processor that old files are fed         *)
(* through, reopening, and what a crash of svlogd between any two of these *)
(* steps leaves behind.                                                    *)
(*                                                                         *)
(* A line is a number, in order of arrival.  A file is the set of lines in *)
(* it; the name of an old file is its timestamp and its suffix.            *)
(***************************************************************************)
EXTENDS Naturals, FiniteSets, Functions

CONSTANTS
  Options,      \* the log directories to look at, each a record of
                \*   nmax       ld->nmax: old log files to maintain, 0: no limit
                \*   nmin       ld->nmin: those to keep when the disk is full
                \*   processor  the config has a !processor line
                \*   clockBack  the clock may be set back between two runs
                \*   events     what else may happen: "HUP", "ENOSPC", "TERM",
                \*              "SIG" (a signal kills a processor) and "EIO"
                \*              (a file cannot be deleted)
                \*   lines      bound: lines logged
                \*   crashes    bound: crashes of svlogd
  MaxLines      \* the largest of the bounds on lines

ASSUME DirAssumption ==
  /\ MaxLines \in Nat
  /\ \A o \in Options :
       /\ o.nmax \in Nat /\ o.nmin \in Nat /\ o.lines \in 0..MaxLines
       /\ o.processor \in BOOLEAN /\ o.clockBack \in BOOLEAN
       /\ o.events \subseteq {"HUP", "ENOSPC", "TERM", "SIG", "EIO"} /\ o.crashes \in Nat

Lines == 1..MaxLines
(* Each rotation takes at least one new line, so these are enough.         *)
Stamps == 1..MaxLines
Names == Stamps \X {"s", "t", "u"}

VARIABLES
  opts,         \* the one of Options that is looked at
  pc,           \* "closed", "idle" (in poll()), or a step of a rotation,
                \* of processorstop() or of logdir_open()
  then,         \* what processorstop() returns to
  current,      \* `current': [lines, x], x its S_IXUSR bit, or NoFile
  pending,      \* lines in the stdio buffer of `current'
  old,          \* the old log files
  save,         \* ld->fnsave, a timestamp
  proc,         \* the processor ld->ppid: "none", "run", "ok" or "fail"
  clock,        \* the last timestamp given out since the clock was set
  next,         \* the next line
  removed,      \* lines of the files svlogd deleted
  missed,       \* lines that a processor was killed before it wrote
  synced,       \* lines that reached `current' on disk
  crashes       \* crashes so far

vars == <<opts, pc, then, current, pending, old, save, proc, clock, next, removed,
          missed, synced, crashes>>

NoFile == [lines |-> {}, x |-> TRUE]

(* The order of strcmp() on names.                                         *)
Rank(suffix) == CASE suffix = "s" -> 0 [] suffix = "t" -> 1 [] OTHER -> 2
Before(f, g) == 3 * f[1] + Rank(f[2]) < 3 * g[1] + Rank(g[2])
Smallest(S) == {f \in S : \A g \in S \ {f} : Before(f, g)}

----------------------------------------------------------------------------
(* Helpers of the steps *)

Delete(fs, gone) == Restrict(fs, DOMAIN fs \ gone)
Put(fs, f, lines) == [g \in DOMAIN fs \cup {f} |-> IF g = f THEN lines ELSE fs[g]]

(* fmt_time_bernstein_25() until stat() finds no file of that name, with   *)
(* that suffix.  Only the order of timestamps matters: the next free one.  *)
Suffix == IF opts.processor THEN "u" ELSE "s"
NewStamps(now, suffix) ==
  LET free == {ts \in Stamps : ts > now /\ <<ts, suffix>> \notin DOMAIN old}
  IN {ts \in free : \A other \in free : ts <= other}

(* The files that go when svlogd deletes fs: it goes on if unlink() fails. *)
Unlinked(fs) == IF "EIO" \in opts.events THEN SUBSET fs ELSE {fs}
LinesOf(fs) == UNION {old[f] : f \in {g \in fs : g[2] # "t"}}

(* rmoldest(): processor leftovers go, and one file above the maximum.     *)
(* Mutant: a file too many is kept.                                        *)
ExpiredLate(fs) ==
  LET logs == {f \in DOMAIN fs : f[2] # "t"}
  IN IF opts.nmax # 0 /\ Cardinality(logs) > opts.nmax + 1 THEN Smallest(logs) ELSE {}
Expired(fs) ==
  LET logs == {f \in DOMAIN fs : f[2] # "t"}
  IN IF opts.nmax # 0 /\ Cardinality(logs) > opts.nmax THEN Smallest(logs) ELSE {}
Rmoldest ==
  \E gone \in Unlinked(Expired(old) \cup {f \in DOMAIN old : f[2] = "t"}) :
    old' = Delete(old, gone) /\ removed' = removed \cup LinesOf(gone)

----------------------------------------------------------------------------
(* Logging *)

(* A line arrives and is put in the stdio buffer.                          *)
Write ==
  /\ pc = "idle" /\ next <= opts.lines
  /\ pending' = pending \cup {next}
  /\ next' = next + 1
  /\ UNCHANGED <<opts, pc, then, current, old, save, proc, clock, removed,
                 synced, missed, crashes>>

Sync == /\ current' = [current EXCEPT !.lines = @ \cup pending]
        /\ synced' = synced \cup pending
        /\ pending' = {}

(* The stdio buffer is flushed, at the latest by fflush_all().             *)
Flush ==
  /\ pc = "idle" /\ pending # {}
  /\ Sync
  /\ UNCHANGED <<opts, pc, then, old, save, proc, clock, next, removed, missed,
                 crashes>>

(* A write finds the disk full: with more than nmin files in the directory *)
(* the first one goes, a file that a processor is writing too.             *)
DiskFull ==
  /\ "ENOSPC" \in opts.events /\ pc = "idle" /\ pending # {}
  /\ opts.nmin < opts.nmax /\ Cardinality(DOMAIN old) > opts.nmin
  /\ \E gone \in Unlinked(Smallest(DOMAIN old)) :
       old' = Delete(old, gone) /\ removed' = removed \cup LinesOf(gone)
  /\ UNCHANGED <<opts, pc, then, current, pending, save, proc, clock, next,
                 synced, missed, crashes>>

----------------------------------------------------------------------------
(* Rotation: rotate() *)

(* A running processor is waited for first, even if there is nothing to    *)
(* rotate.                                                                 *)
RotateBegin ==
  /\ pc = "idle"
  /\ pc' = IF proc = "none" THEN "sync" ELSE "wait"
  /\ then' = "sync"
  /\ UNCHANGED <<opts, current, pending, old, save, proc, clock, next, removed,
                 synced, missed, crashes>>

(* An empty `current' is left alone.                                       *)
RotateEmpty ==
  /\ pc = "sync" /\ current.lines \cup pending = {}
  /\ pc' = "idle"
  /\ UNCHANGED <<opts, then, current, pending, old, save, proc, clock, next,
                 removed, synced, missed, crashes>>

(* fflush(), fsync() and fchmod(0744).                                     *)
RotateSync ==
  /\ pc = "sync" /\ current.lines \cup pending # {}
  /\ Sync
  /\ pc' = "mark"
  /\ UNCHANGED <<opts, then, old, save, proc, clock, next, removed, missed,
                 crashes>>
RotateMark ==
  /\ pc = "mark"
  /\ current' = [current EXCEPT !.x = TRUE]
  /\ pc' = "rename"
  /\ UNCHANGED <<opts, then, pending, old, save, proc, clock, next, removed,
                 synced, missed, crashes>>

RotateRename ==
  /\ pc = "rename"
  /\ \E ts \in NewStamps(clock, Suffix) :
       /\ save' = ts /\ clock' = ts
       /\ old' = Put(old, <<ts, Suffix>>, current.lines)
  /\ current' = NoFile
  /\ pc' = "create"
  /\ UNCHANGED <<opts, then, pending, proc, next, removed, synced, missed,
                 crashes>>

(* A new `current', with mode 0644.                                        *)
RotateCreate ==
  /\ pc = "create"
  /\ current' = [lines |-> {}, x |-> FALSE]
  /\ pc' = "remove"
  /\ UNCHANGED <<opts, then, pending, old, save, proc, clock, next, removed,
                 synced, missed, crashes>>

RotateRemove ==
  /\ pc = "remove"
  /\ Rmoldest
  /\ pc' = IF opts.processor THEN "start" ELSE "idle"
  /\ UNCHANGED <<opts, then, current, pending, save, proc, clock, next, synced,
                 missed, crashes>>

----------------------------------------------------------------------------
(* The processor *)

(* processorstart() of the file save.u, with the child up to its exec().   *)
(* If the file is gone the child exits with "fake success".  The child     *)
(* reads save.u through a descriptor, so that its output does not depend   *)
(* on the file any more: the contents of save.t are the output of a        *)
(* processor that comes to its end, and nobody looks at them before.       *)
Start(files) ==
  IF <<save, "u">> \in DOMAIN files
  THEN proc' = "run" /\ old' = Put(files, <<save, "t">>, files[<<save, "u">>])
  ELSE proc' = "ok" /\ old' = files

RotateStart ==
  /\ pc = "start"
  /\ Start(old)
  /\ pc' = "idle"
  /\ UNCHANGED <<opts, then, current, pending, save, clock, next, removed,
                 synced, missed, crashes>>

(* The processor has written its output, or exits with an error.           *)
ProcessorOk ==
  /\ proc = "run"
  /\ proc' = "ok"
  /\ UNCHANGED <<opts, pc, then, current, pending, old, save, clock, next, removed,
                 missed, synced, crashes>>
ProcessorFails ==
  /\ proc = "run"
  /\ proc' = "fail"
  /\ UNCHANGED <<opts, pc, then, current, pending, old, save, clock, next, removed,
                 missed, synced, crashes>>

(* A signal kills the processor before it has written all of its output.   *)
(* processorstop() looks at WEXITSTATUS() only, which is 0 then, as if it  *)
(* had succeeded.                                                          *)
ProcessorKilled ==
  /\ "SIG" \in opts.events /\ proc = "run" /\ <<save, "t">> \in DOMAIN old
  /\ proc' = "ok"
  /\ LET out == old[<<save, "t">>] IN
     \E line \in out :
       LET written == {l \in out : l < line}
       IN old' = Put(old, <<save, "t">>, written) /\ missed' = missed \cup (out \ written)
  /\ UNCHANGED <<opts, pc, then, current, pending, save, clock, next, removed, synced,
                 crashes>>

(* sig_child_handler(), while svlogd polls.                                *)
SigChild ==
  /\ pc = "idle" /\ proc \in {"ok", "fail"}
  /\ pc' = "wait" /\ then' = "idle"
  /\ UNCHANGED <<opts, current, pending, old, save, proc, clock, next, removed,
                 synced, missed, crashes>>

(* processorstop() of one that exited with an error: started again.  The   *)
(* signal handler leaves it at that, rotate() and main() wait again.       *)
(* Mutants: it is not started again; it is given up.                       *)
StopFailedIdle ==
  /\ pc = "wait" /\ proc = "fail"
  /\ old' = Delete(old, {<<save, "t">>})
  /\ pc' = IF then = "idle" THEN "idle" ELSE "wait"
  /\ UNCHANGED <<opts, then, current, pending, save, proc, clock, next,
                 removed, synced, missed, crashes>>
StopFailedGivesUp ==
  /\ pc = "wait" /\ proc = "fail"
  /\ old' = Delete(old, {<<save, "t">>})
  /\ proc' = "none"
  /\ pc' = then
  /\ UNCHANGED <<opts, then, current, pending, save, clock, next, removed,
                 synced, missed, crashes>>
StopFailed ==
  /\ pc = "wait" /\ proc = "fail"
  /\ Start(Delete(old, {<<save, "t">>}))
  /\ pc' = IF then = "idle" THEN "idle" ELSE "wait"
  /\ UNCHANGED <<opts, then, current, pending, save, clock, next, removed,
                 synced, missed, crashes>>

(* Mutant: .u is deleted and .t not renamed.                               *)
StopRenameLast ==
  /\ pc = "wait" /\ proc = "ok"
  /\ <<save, "t">> \in DOMAIN old
  /\ old' = Delete(old, {<<save, "u">>})
  /\ pc' = "unlink"
  /\ proc' = "none"
  /\ UNCHANGED <<opts, then, current, pending, save, clock, next, removed,
                 synced, missed, crashes>>
(* processorstop() of one that succeeded: .t is renamed to .s, for which   *)
(* svlogd tries until it can; then .u is deleted, if that is possible.     *)
StopRename ==
  /\ pc = "wait" /\ proc = "ok"
  /\ <<save, "t">> \in DOMAIN old
  /\ old' = Put(Delete(old, {<<save, "t">>}), <<save, "s">>, old[<<save, "t">>])
  /\ pc' = "unlink"
  /\ proc' = "none"
  /\ UNCHANGED <<opts, then, current, pending, save, clock, next, removed,
                 synced, missed, crashes>>
StopUnlink ==
  /\ pc = "unlink"
  /\ \E gone \in Unlinked({<<save, "u">>}) : old' = Delete(old, gone)
  /\ pc' = then
  /\ UNCHANGED <<opts, then, current, pending, save, proc, clock, next,
                 removed, synced, missed, crashes>>

----------------------------------------------------------------------------
(* Opening and closing *)

(* SIGTERM, or the end of the input: the processor is waited for.          *)
Term ==
  /\ "TERM" \in opts.events /\ pc = "idle"
  /\ Sync
  /\ pc' = IF proc = "none" THEN "close" ELSE "wait"
  /\ then' = "close"
  /\ UNCHANGED <<opts, old, save, proc, clock, next, removed, missed, crashes>>

(* logdir_close(): sync, and mode 0744 for a log that is complete.         *)
Close ==
  /\ pc = "close"
  /\ current' = [current EXCEPT !.x = TRUE]
  /\ pc' = "closed"
  /\ UNCHANGED <<opts, then, pending, old, save, proc, clock, next, removed,
                 synced, missed, crashes>>

(* SIGHUP: logdir_close(), and logdir_open() forgets a running processor.  *)
Hup ==
  /\ "HUP" \in opts.events /\ pc = "idle"
  /\ Sync
  /\ pc' = "close"
  /\ proc' = "none"
  /\ UNCHANGED <<opts, then, old, save, clock, next, removed, missed, crashes>>

(* The clock of the machine on which svlogd is started.                    *)
Clocks == IF opts.clockBack THEN 0..clock ELSE {clock}

(* logdir_open(): `current' is missing, empty, or complete: append to it.  *)
OpenAppend ==
  /\ pc = "closed"
  /\ current.lines = {} \/ current.x
  /\ current' = [current EXCEPT !.x = FALSE]
  /\ pc' = "idle"
  /\ clock' \in Clocks
  /\ UNCHANGED <<opts, then, pending, old, save, proc, next, removed, synced,
                 missed, crashes>>

(* `current' was left by a crash: it becomes an old file, unprocessed.     *)
OpenAside ==
  /\ pc = "closed"
  /\ current.lines # {} /\ ~current.x
  /\ \E now \in Clocks : \E ts \in NewStamps(now, "u") :
       /\ save' = ts /\ clock' = ts
       /\ old' = Put(old, <<ts, "u">>, current.lines)
  /\ current' = NoFile
  /\ pc' = "tidy"
  /\ UNCHANGED <<opts, then, pending, proc, next, removed, synced, missed,
                 crashes>>
OpenTidy ==
  /\ pc = "tidy"
  /\ Rmoldest
  /\ current' = [lines |-> {}, x |-> FALSE]
  /\ pc' = "idle"
  /\ UNCHANGED <<opts, then, pending, save, proc, clock, next, synced, missed,
                 crashes>>

(* svlogd is killed.  Its processor goes on, or not; nobody waits for it.  *)
Crash ==
  /\ crashes < opts.crashes /\ pc # "closed"
  /\ crashes' = crashes + 1
  /\ pc' = "closed" /\ pending' = {} /\ proc' = "none"
  /\ UNCHANGED <<opts, then, current, old, save, clock, next, removed, synced,
                 missed>>

Init ==
  /\ opts \in Options
  /\ pc = "closed" /\ then = "idle"
  /\ current = NoFile /\ pending = {}
  /\ old = [f \in {} |-> {}]
  /\ save = 0 /\ proc = "none" /\ clock = 0 /\ next = 1
  /\ removed = {} /\ missed = {} /\ synced = {} /\ crashes = 0

Rotation == \/ RotateEmpty \/ RotateSync \/ RotateMark \/ RotateRename \/ RotateCreate
            \/ RotateRemove \/ RotateStart
Stop == SigChild \/ StopFailed \/ StopRename \/ StopUnlink
Opening == OpenAppend \/ OpenAside \/ OpenTidy
Next ==
  \/ Write \/ Flush \/ DiskFull \/ RotateBegin \/ Rotation
  \/ ProcessorOk \/ ProcessorFails \/ ProcessorKilled \/ Stop
  \/ Term \/ Close \/ Hup \/ Opening \/ Crash

Spec == Init /\ [][Next]_vars

(* svlogd runs on and is started again, a processor succeeds in the end.   *)
Fairness ==
  /\ WF_vars(Rotation) /\ WF_vars(StopFailed \/ StopRename \/ StopUnlink)
  /\ SF_vars(SigChild) /\ WF_vars(Close) /\ WF_vars(Opening)
  /\ SF_vars(ProcessorOk)
FairSpec == Spec /\ Fairness

----------------------------------------------------------------------------
(* Properties *)

TypeOK ==
  /\ pc \in {"closed", "tidy", "idle", "wait", "unlink", "sync", "mark", "rename",
             "create", "remove", "start", "close"}
  /\ then \in {"idle", "sync", "close"}
  /\ current \in [lines : SUBSET Lines, x : BOOLEAN]
  /\ DOMAIN old \subseteq Names /\ \A f \in DOMAIN old : old[f] \subseteq Lines
  /\ save \in 0..MaxLines /\ clock \in 0..MaxLines /\ next \in 1..MaxLines + 1
  /\ proc \in {"none", "run", "ok", "fail"}
  /\ {pending, removed, missed, synced} \subseteq SUBSET Lines
  /\ crashes \in 0..opts.crashes

LogFiles == {f \in DOMAIN old : f[2] # "t"}
Saved == UNION {old[f] : f \in LogFiles}

(* What is deleted is older than all that is kept.                         *)
OldestDeleted ==
  \A gone \in removed \ Saved, line \in (Saved \ removed) \cup current.lines : gone < line

(* A line that reached the disk stays in `current' or in an old log file   *)
(* until svlogd deletes that file as the oldest: no crash between two      *)
(* steps of a rotation or of processorstop(), no processor that exits with *)
(* an error and no file that cannot be deleted loses it.  A processor that *)
(* a signal kills does: of its file, svlogd keeps what it had written.     *)
Kept == synced \subseteq current.lines \cup Saved \cup removed \cup missed /\ OldestDeleted

(* nnum: after a rotation there are no more old files than the maximum,    *)
(* but one for each crash, which rmoldest() never makes up for, as long as *)
(* files can be deleted.                                                   *)
Retention ==
  opts.nmax # 0 /\ "EIO" \notin opts.events /\ pc = "idle" => Cardinality(LogFiles) <= opts.nmax + crashes

(* After an unclean stop nothing is appended to the file it left: a line   *)
(* that was lost in a crash is at the end of its file.                     *)
GapsAtEnd ==
  \A S \in {current.lines} \cup {old[f] : f \in LogFiles} :
    \A a, b \in S : \A c \in Lines : a < c /\ c < b => c \in S

(* svlogd does not block: a rotation, a processorstop() and a reopening    *)
(* come to their end, whatever SIGHUP, SIGTERM and crashes come between,   *)
(* on a disk with room and with a clock that is not set back.              *)
NeverStuck ==
  pc # "idle" ~> (pc = "idle" \/ "ENOSPC" \in opts.events \/ opts.clockBack)

(* The same whatever happens: not so, processorstop() tries to rename a .t *)
(* file for ever that rmoldest() or a full disk made svlogd delete.        *)
NeverBlocks == pc # "idle" ~> pc = "idle"

(* Each old log file is fed through the processor and replaced, as long as *)
(* svlogd is not killed and gets no SIGHUP.                                *)
Undisturbed == opts.events \subseteq {"TERM", "SIG"} /\ opts.crashes = 0 /\ ~opts.clockBack
AllProcessed ==
  \A ts \in Stamps :
    <<ts, "u">> \in DOMAIN old ~> (<<ts, "u">> \notin DOMAIN old \/ ~Undisturbed)

(* The same with SIGHUP: not so, logdir_open() forgets the processor.      *)
EachProcessed ==
  \A ts \in Stamps : <<ts, "u">> \in DOMAIN old ~> <<ts, "u">> \notin DOMAIN old

=============================================================================
