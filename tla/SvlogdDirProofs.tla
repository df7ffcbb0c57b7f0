--------------------------- MODULE SvlogdDirProofs ---------------------------
(***************************************************************************)
(* Proofs about the files of a log directory, for any limits, lines,       *)
(* signals and crashes: no line that reached the disk is lost but with the *)
(* oldest files or by a killed processor, and the oldest files are not     *)
(* kept beyond the limit.                                                  *)
(***************************************************************************)
EXTENDS SvlogdDir, FiniteSetTheorems, TLAPS

(* The lines in the old log files fs; Saved is LogLines(old).              *)
LogLines(fs) == UNION {fs[f] : f \in {g \in DOMAIN fs : g[2] # "t"}}

(* Files are in the order of their timestamps; .s and .t have lines of the *)
(* file .u of their timestamp, which they are made from.                   *)
Sorted(fs) ==
  \A f, g \in DOMAIN fs :
    /\ f[1] < g[1] => \A a \in fs[f], b \in fs[g] : a < b
    /\ f[1] = g[1] /\ g[2] = "u" => fs[f] \subseteq fs[g]

(* The lines of the files fs and the deleted lines gone come before the    *)
(* lines cur that are not in an old file yet, and before line n, the next. *)
Earlier(fs, gone, cur, n) ==
  /\ n \in Nat /\ cur \subseteq Nat /\ gone \subseteq Nat
  /\ \A f \in DOMAIN fs : fs[f] \subseteq Nat
  /\ \A f \in DOMAIN fs : \A a \in fs[f] : a < n /\ \A b \in cur : a < b
  /\ \A a \in gone : a < n /\ \A b \in cur : a < b
  /\ \A a \in cur : a < n

(* No log file comes before f; one of the same timestamp has its lines.    *)
Oldest(fs, f) ==
  \A g \in DOMAIN fs :
    g[2] # "t" => f[1] <= g[1] /\ (f[1] = g[1] => fs[f] \subseteq fs[g])

OldestGone(fs, gone) ==
  \A a \in gone \ LogLines(fs), b \in LogLines(fs) \ gone : a < b

(* Files that were named while the clock went up to `now'.                 *)
Named(fs, now) ==
  /\ now \in Nat
  /\ DOMAIN fs \subseteq Names
  /\ \A f \in DOMAIN fs : f[1] <= now

InOrder(fs, gone, cur, n, now) ==
  Named(fs, now) /\ Sorted(fs) /\ Earlier(fs, gone, cur, n) /\ OldestGone(fs, gone)

----------------------------------------------------------------------------
(* Operations on the files *)

(* A line is among the old log files if one of them has it.                *)
LEMMA InLogLines ==
  ASSUME NEW fs, NEW a
  PROVE  a \in LogLines(fs) <=> \E f \in DOMAIN fs : f[2] # "t" /\ a \in fs[f]
BY Zenon DEF LogLines

(* `current' becomes an old file with a timestamp that is later than all:  *)
(* rotate(), or logdir_open() after a crash.                               *)
LEMMA AsideInOrder ==
  ASSUME NEW fs, NEW gone, NEW cur, NEW n, NEW now, InOrder(fs, gone, cur, n, now),
         NEW ts, ts \in Stamps, ts > now, NEW suffix, suffix \in {"s", "u"}
  PROVE  LET new == Put(fs, <<ts, suffix>>, cur)
         IN InOrder(new, gone, {}, n, ts) /\ LogLines(new) = LogLines(fs) \cup cur
<1> DEFINE x == <<ts, suffix>>
           new == Put(fs, x, cur)
<1>1. now \in Nat /\ ts \in Nat /\ MaxLines \in Nat
  BY DirAssumption DEF Stamps, InOrder, Named
<1>2. x \in Names /\ x[1] = ts /\ x[2] # "t" BY DEF Names
<1>3. x \notin DOMAIN fs BY <1>1, <1>2 DEF InOrder, Named
<1>4. /\ DOMAIN new = DOMAIN fs \cup {x} /\ new[x] = cur
      /\ \A f \in DOMAIN fs : new[f] = fs[f]
  BY <1>3, Zenon DEF Put
<1>5. \A f \in DOMAIN fs : f \in Names /\ f[1] \in Nat /\ f[1] < ts
  BY <1>1 DEF InOrder, Named, Names, Stamps
<1> HIDE DEF x, new
<1>6. Named(new, ts) BY <1>1, <1>2, <1>4, <1>5 DEF Named
<1>7. Sorted(new)
  <2> SUFFICES ASSUME NEW f \in DOMAIN new, NEW g \in DOMAIN new
               PROVE  /\ f[1] < g[1] => \A a \in new[f], b \in new[g] : a < b
                      /\ f[1] = g[1] /\ g[2] = "u" => new[f] \subseteq new[g]
    BY Zenon DEF Sorted
  <2>1. CASE f \in DOMAIN fs /\ g \in DOMAIN fs
    BY <1>4, <2>1, Zenon DEF InOrder, Sorted
  <2>2. CASE f \in DOMAIN fs /\ g = x
    <3>1. f[1] < g[1] /\ f[1] # g[1] BY <1>1, <1>2, <1>5, <2>2
    <3> QED BY <1>4, <2>2, <3>1, Zenon DEF InOrder, Earlier
  <2>3. CASE f = x /\ g \in DOMAIN fs
    <3>1. ~(f[1] < g[1]) /\ f[1] # g[1] BY <1>1, <1>2, <1>5, <2>3
    <3> QED BY <3>1
  <2>4. CASE f = x /\ g = x BY <1>1, <1>2, <2>4
  <2> QED BY <1>4, <2>1, <2>2, <2>3, <2>4
<1>8. Earlier(new, gone, {}, n) BY <1>4, Zenon DEF InOrder, Earlier
<1>9. LogLines(new) = LogLines(fs) \cup cur
  <2>1. \A a : a \in LogLines(new) <=> a \in LogLines(fs) \/ a \in cur
    BY <1>2, <1>4, InLogLines, Zenon
  <2> QED BY <2>1
<1>10. OldestGone(new, gone) BY <1>9, Zenon DEF InOrder, Earlier, OldestGone
<1> QED BY <1>6, <1>7, <1>8, <1>9, <1>10 DEF InOrder, new, x

(* Files are deleted, log files only as the oldest: rmoldest(), a write to *)
(* a full disk, and the removal of what a processor wrote.                 *)
LEMMA DeleteInOrder ==
  ASSUME NEW fs, NEW gone, NEW cur, NEW n, NEW now, InOrder(fs, gone, cur, n, now), NEW X,
         \A f \in X \cap DOMAIN fs : f[2] # "t" => Oldest(fs, f)
  PROVE  LET new == Delete(fs, X)
             more == gone \cup UNION {fs[f] : f \in {g \in X \cap DOMAIN fs : g[2] # "t"}}
         IN InOrder(new, more, cur, n, now) /\ LogLines(fs) \subseteq LogLines(new) \cup more
<1> DEFINE new == Delete(fs, X)
           more == gone \cup UNION {fs[f] : f \in {g \in X \cap DOMAIN fs : g[2] # "t"}}
<1>1. DOMAIN new = DOMAIN fs \ X /\ \A f \in DOMAIN new : new[f] = fs[f]
  BY Zenon DEF Delete, Restrict
<1>2. \A a : a \in more <=> a \in gone \/ \E f \in X \cap DOMAIN fs : f[2] # "t" /\ a \in fs[f]
  BY Zenon
<1> HIDE DEF new, more
<1>3. Named(new, now) BY <1>1 DEF InOrder, Named
<1>4. Sorted(new) BY <1>1 DEF InOrder, Sorted
<1>5. Earlier(new, more, cur, n)
  <2>1. more \subseteq Nat BY <1>2, Zenon DEF InOrder, Earlier
  <2>2. \A a \in more : a < n /\ \A b \in cur : a < b BY <1>2, Zenon DEF InOrder, Earlier
  <2> QED BY <1>1, <2>1, <2>2 DEF InOrder, Earlier
<1>6. \A a : a \in LogLines(new) => a \in LogLines(fs) BY <1>1, InLogLines
<1>7. LogLines(fs) \subseteq LogLines(new) \cup more BY <1>1, <1>2, InLogLines
<1>8. OldestGone(new, more)
  <2> SUFFICES ASSUME NEW a \in more \ LogLines(new), NEW b \in LogLines(new) \ more PROVE a < b
    BY Zenon DEF OldestGone
  <2>1. CASE a \notin LogLines(fs)
    <3>1. a \in gone BY <1>2, <2>1, InLogLines
    <3> QED BY <1>2, <1>6, <2>1, <3>1 DEF InOrder, OldestGone
  <2>2. CASE a \in LogLines(fs)
    <3>1. PICK f \in DOMAIN fs : f[2] # "t" /\ a \in fs[f] BY <2>2, InLogLines
    <3>2. f \in X BY <1>1, <3>1, InLogLines
    <3>3. PICK g \in DOMAIN new : g[2] # "t" /\ b \in new[g] BY InLogLines
    <3>0. Oldest(fs, f) BY <3>1, <3>2
    <3>4. f[1] <= g[1] /\ f[1] \in Nat /\ g[1] \in Nat
      BY <1>1, <3>0, <3>1, <3>3 DEF Oldest, InOrder, Named, Names, Stamps
    <3>5. f[1] # g[1]
      <4>1. ASSUME f[1] = g[1] PROVE a \in new[g]
        BY <1>1, <3>0, <3>1, <3>3, <4>1, Zenon DEF Oldest
      <4> QED BY <3>3, <4>1, InLogLines
    <3> QED BY <1>1, <3>1, <3>3, <3>4, <3>5 DEF InOrder, Sorted
  <2> QED BY <2>1, <2>2
<1> QED BY <1>3, <1>4, <1>5, <1>7, <1>8 DEF InOrder, new, more

(* A file x is made from lines of a file y of the same timestamp.  Lines   *)
(* that a log file gets back this way were not deleted, or are counted as  *)
(* deleted still.                                                          *)
LEMMA CopyInOrder ==
  ASSUME NEW fs, NEW gone, NEW cur, NEW n, NEW now, InOrder(fs, gone, cur, n, now),
         NEW x \in Names, NEW y \in DOMAIN fs, x[1] = y[1], x[2] # "u",
         NEW lines, lines \subseteq fs[y],
         \/ x[2] = "t"
         \/ x \notin DOMAIN fs /\ lines \subseteq LogLines(fs) \cup gone
  PROVE  LET new == Put(fs, x, lines)
         IN /\ InOrder(new, gone, cur, n, now)
            /\ LogLines(fs) \subseteq LogLines(new)
<1> DEFINE new == Put(fs, x, lines)
<1>1. /\ DOMAIN new = DOMAIN fs \cup {x} /\ new[x] = lines
      /\ \A f \in DOMAIN fs : f # x => new[f] = fs[f]
  BY Zenon DEF Put
<1> HIDE DEF new
<1>2. \A f \in DOMAIN new : \E ff \in DOMAIN fs : new[f] \subseteq fs[ff] /\ f[1] = ff[1]
  <2> SUFFICES ASSUME NEW f \in DOMAIN new
               PROVE  \E ff \in DOMAIN fs : new[f] \subseteq fs[ff] /\ f[1] = ff[1]
    BY Zenon
  <2>1. CASE f = x BY <1>1, <2>1, Zenon
  <2>2. CASE f # x
    <3>1. f \in DOMAIN fs /\ new[f] \subseteq fs[f] BY <1>1, <2>2
    <3> QED BY <3>1, Zenon
  <2> QED BY <2>1, <2>2
<1>3. Named(new, now) BY <1>1 DEF InOrder, Named
<1>4. Sorted(new)
  <2> SUFFICES ASSUME NEW f \in DOMAIN new, NEW g \in DOMAIN new
               PROVE  /\ f[1] < g[1] => \A a \in new[f], b \in new[g] : a < b
                      /\ f[1] = g[1] /\ g[2] = "u" => new[f] \subseteq new[g]
    BY Zenon DEF Sorted
  <2>1. PICK ff \in DOMAIN fs : new[f] \subseteq fs[ff] /\ f[1] = ff[1] BY <1>2, Zenon
  <2>2. PICK gg \in DOMAIN fs : new[g] \subseteq fs[gg] /\ g[1] = gg[1] BY <1>2, Zenon
  <2>3. ASSUME f[1] < g[1], NEW a \in new[f], NEW b \in new[g] PROVE a < b
    <3>1. a \in fs[ff] /\ b \in fs[gg] /\ ff[1] < gg[1] BY <2>1, <2>2, <2>3
    <3> QED BY <3>1, Zenon DEF InOrder, Sorted
  <2>4. ASSUME f[1] = g[1], g[2] = "u" PROVE new[f] \subseteq new[g]
    <3>1. g # x /\ g \in DOMAIN fs /\ new[g] = fs[g] BY <1>1, <2>4, Zenon
    <3>2. fs[ff] \subseteq fs[g] BY <2>1, <2>4, <3>1, Zenon DEF InOrder, Sorted
    <3> QED BY <2>1, <3>1, <3>2
  <2> QED BY <2>3, <2>4, Zenon
<1>5. Earlier(new, gone, cur, n)
  <2> SUFFICES ASSUME NEW f \in DOMAIN new
               PROVE  new[f] \subseteq Nat /\ \A a \in new[f] : a < n /\ \A b \in cur : a < b
    BY Zenon DEF InOrder, Earlier
  <2>1. PICK ff \in DOMAIN fs : new[f] \subseteq fs[ff] BY <1>2, Zenon
  <2> QED BY <2>1, Zenon DEF InOrder, Earlier
<1>6. \A a \in LogLines(fs) : a \in LogLines(new)
  <2> SUFFICES ASSUME NEW a \in LogLines(fs) PROVE a \in LogLines(new) BY Zenon
  <2>1. PICK f \in DOMAIN fs : f[2] # "t" /\ a \in fs[f] BY InLogLines, Zenon
  <2>2. f # x BY <2>1
  <2> QED BY <1>1, <2>1, <2>2, InLogLines
<1>7. \A a \in LogLines(new) : a \in LogLines(fs) \/ a \in gone
  <2> SUFFICES ASSUME NEW a \in LogLines(new) PROVE a \in LogLines(fs) \/ a \in gone
    BY Zenon
  <2>1. PICK f \in DOMAIN new : f[2] # "t" /\ a \in new[f] BY InLogLines
  <2>2. CASE f = x BY <1>1, <2>1, <2>2
  <2>3. CASE f # x BY <1>1, <2>1, <2>3, InLogLines
  <2> QED BY <2>2, <2>3
<1>8. OldestGone(new, gone) BY <1>6, <1>7 DEF InOrder, OldestGone
<1> QED BY <1>3, <1>4, <1>5, <1>6, <1>8 DEF InOrder, new

(* The files of timestamp ts, one for each suffix.                         *)
LEMMA SuffixNames ==
  ASSUME NEW fs, NEW now, Named(fs, now), NEW ts, NEW suffix \in {"s", "t", "u"},
         <<ts, suffix>> \in DOMAIN fs
  PROVE  {<<ts, "s">>, <<ts, "t">>, <<ts, "u">>} \subseteq Names
<1>1. <<ts, suffix>> \in Names BY DEF Named
<1>2. ts \in Stamps BY <1>1 DEF Names
<1> QED BY <1>2 DEF Names

(* What a processor wrote is deleted: no log file is touched.              *)
LEMMA DropInOrder ==
  ASSUME NEW fs, NEW gone, NEW cur, NEW n, NEW now, InOrder(fs, gone, cur, n, now), NEW ts
  PROVE  LET new == Delete(fs, {<<ts, "t">>})
         IN InOrder(new, gone, cur, n, now) /\ LogLines(new) = LogLines(fs)
<1> DEFINE X == {<<ts, "t">>}
           new == Delete(fs, X)
           none == {g \in X \cap DOMAIN fs : g[2] # "t"}
<1>1. none = {} OBVIOUS
<1>2. UNION {fs[f] : f \in none} = {} BY <1>1
<1>3. /\ InOrder(new, gone \cup UNION {fs[f] : f \in none}, cur, n, now)
      /\ LogLines(fs) \subseteq LogLines(new) \cup (gone \cup UNION {fs[f] : f \in none})
  <2>1. \A f \in X \cap DOMAIN fs : f[2] # "t" => Oldest(fs, f)
    OBVIOUS
  <2> QED BY <2>1, DeleteInOrder, Zenon
<1>4. InOrder(new, gone, cur, n, now) BY <1>2, <1>3, Zenon
<1>5. DOMAIN new = DOMAIN fs \ X /\ \A f \in DOMAIN new : new[f] = fs[f]
  BY Zenon DEF Delete, Restrict
<1> HIDE DEF new
<1>6. \A f \in DOMAIN fs : f[2] # "t" => f \in DOMAIN new BY <1>5
<1>7. \A a : a \in LogLines(new) <=> a \in LogLines(fs)
  BY <1>5, <1>6, InLogLines
<1> QED BY <1>4, <1>7 DEF new

(* processorstop(): .t becomes .s.                                         *)
LEMMA RenameInOrder ==
  ASSUME NEW fs, NEW gone, NEW cur, NEW n, NEW now, InOrder(fs, gone, cur, n, now), NEW ts,
         <<ts, "t">> \in DOMAIN fs, <<ts, "s">> \notin DOMAIN fs,
         <<ts, "u">> \in DOMAIN fs \/ fs[<<ts, "t">>] \subseteq gone
  PROVE  LET new == Put(Delete(fs, {<<ts, "t">>}), <<ts, "s">>, fs[<<ts, "t">>])
         IN /\ InOrder(new, gone, cur, n, now)
            /\ LogLines(fs) \subseteq LogLines(new)
            /\ DOMAIN new = (DOMAIN fs \ {<<ts, "t">>}) \cup {<<ts, "s">>}
            /\ new[<<ts, "s">>] = fs[<<ts, "t">>]
            /\ <<ts, "u">> \in DOMAIN fs => new[<<ts, "u">>] = fs[<<ts, "u">>]
<1> DEFINE x == <<ts, "s">>
           y == <<ts, "t">>
           z == <<ts, "u">>
           both == Put(fs, x, fs[y])
           new == Put(Delete(fs, {y}), x, fs[y])
<1>1. /\ x \in Names /\ x[1] = y[1] /\ z[1] = y[1] /\ z[2] = "u" /\ x[2] # "u"
      /\ x # y /\ z # x /\ z # y
  BY SuffixNames, Zenon DEF InOrder
<1>2. fs[y] \subseteq LogLines(fs) \cup gone
  <2>1. CASE fs[y] \subseteq gone BY <2>1
  <2>2. CASE z \in DOMAIN fs
    <3>1. fs[y] \subseteq fs[z] BY <1>1, <2>2, Zenon DEF InOrder, Sorted
    <3>2. \A a \in fs[z] : a \in LogLines(fs) BY <1>1, <2>2, InLogLines
    <3> QED BY <3>1, <3>2
  <2> QED BY <2>1, <2>2
<1>3. InOrder(both, gone, cur, n, now) /\ LogLines(fs) \subseteq LogLines(both)
  BY <1>1, <1>2, CopyInOrder, Zenon
<1>4. /\ InOrder(Delete(both, {y}), gone, cur, n, now)
      /\ LogLines(Delete(both, {y})) = LogLines(both)
  BY <1>3, DropInOrder, Zenon
<1>5. new = Delete(both, {y})
  BY <1>1, Zenon DEF Put, Delete, Restrict
<1>6. DOMAIN new = (DOMAIN fs \ {y}) \cup {x} /\ new[x] = fs[y]
  BY Zenon DEF Put, Delete, Restrict
<1>7. z \in DOMAIN fs => new[z] = fs[z] BY <1>1, Zenon DEF Put, Delete, Restrict
<1> QED BY <1>3, <1>4, <1>5, <1>6, <1>7

(* Then .u is deleted, if it can be: .s has its lines, but those that the  *)
(* processor missed, and none of them was deleted before.                  *)
LEMMA UnlinkInOrder ==
  ASSUME NEW fs, NEW gone, NEW cur, NEW n, NEW now, InOrder(fs, gone, cur, n, now), NEW ts,
         NEW miss, <<ts, "s">> \in DOMAIN fs,
         <<ts, "u">> \in DOMAIN fs =>
           /\ fs[<<ts, "u">>] \subseteq fs[<<ts, "s">>] \cup miss
           /\ fs[<<ts, "u">>] \cap gone = {},
         NEW X, X \subseteq {<<ts, "u">>}
  PROVE  LET new == Delete(fs, X)
         IN InOrder(new, gone, cur, n, now) /\ LogLines(fs) \subseteq LogLines(new) \cup miss
<1> DEFINE x == <<ts, "s">>
           y == <<ts, "u">>
           new == Delete(fs, X)
<1>1. x # y /\ x[2] # "t" OBVIOUS
<1>2. DOMAIN new = DOMAIN fs \ X /\ \A f \in DOMAIN new : new[f] = fs[f]
  BY Zenon DEF Delete, Restrict
<1>3. y \in DOMAIN fs => fs[y] \subseteq fs[x] \cup miss /\ fs[y] \cap gone = {} OBVIOUS
<1>4. x \in DOMAIN new BY <1>1, <1>2
<1>5. \A f \in DOMAIN fs : f # y => f \in DOMAIN new BY <1>2
<1> HIDE DEF new, x, y
<1>6. \A a \in LogLines(new) : a \in LogLines(fs) BY <1>2, InLogLines
<1>7. ASSUME NEW a \in LogLines(fs), a \notin LogLines(new)
      PROVE  y \in DOMAIN fs /\ a \in fs[y] /\ a \in miss
  <2>1. PICK f \in DOMAIN fs : f[2] # "t" /\ a \in fs[f] BY InLogLines, Zenon
  <2>2. f = y BY <1>2, <1>5, <1>7, <2>1, InLogLines, Zenon
  <2>3. a \notin fs[x] BY <1>1, <1>2, <1>4, <1>7, InLogLines, Zenon
  <2> QED BY <1>3, <2>1, <2>2, <2>3
<1>8. LogLines(fs) \subseteq LogLines(new) \cup miss BY <1>7
<1>9. Named(new, now) /\ Sorted(new) /\ Earlier(new, gone, cur, n)
  BY <1>2, Zenon DEF InOrder, Named, Sorted, Earlier
<1>10. OldestGone(new, gone)
  <2>1. \A a \in gone : a \in LogLines(fs) => a \in LogLines(new) BY <1>3, <1>7
  <2> QED BY <1>6, <2>1 DEF InOrder, OldestGone
<1> QED BY <1>8, <1>9, <1>10 DEF InOrder, new

----------------------------------------------------------------------------
(* The inductive invariant *)

(* Where svlogd is; where it does not write, its stdio buffer is empty;    *)
(* while there is no `current', it has no lines.                           *)
Control ==
  /\ opts \in Options /\ {"lines"} \subseteq DOMAIN current
  /\ then \in {"idle", "sync", "close"}
  /\ proc # "none" => pc \in {"idle", "wait"}
  /\ pc \in {"create", "tidy"} => current.lines = {}
  /\ \/ pc \in {"closed", "tidy", "mark", "rename", "create", "remove", "start", "close"}
     \/ pc \in {"wait", "unlink"} /\ then = "close"
     => pending = {}

(* The file .u that a processor is to be started for, or has been; where a *)
(* rotation has just named it, if there is a processor at all.             *)
InWork == \/ proc # "none" \/ pc \in {"start", "unlink"}
          \/ opts.processor /\ pc \in {"create", "remove"}

(* What becomes of .u: nothing is made from it before the processor is     *)
(* started; then .t, and in the end .s, has its lines but for the missed   *)
(* ones.  A line of .u is not deleted while .u is there, and if .u has     *)
(* been deleted, .t has only deleted lines.                                *)
WorkInv ==
  LET s == <<save, "s">>  t == <<save, "t">>  u == <<save, "u">>
  IN /\ InWork /\ u \in DOMAIN old => old[u] \cap removed = {}
     /\ InWork /\ pc # "unlink" => s \notin DOMAIN old
     /\ pc \in {"create", "remove", "start"} => t \notin DOMAIN old
     /\ proc # "none" /\ t \in DOMAIN old =>
          IF u \in DOMAIN old THEN old[u] \subseteq old[t] \cup missed
                              ELSE old[t] \subseteq removed
     /\ pc = "unlink" =>
          s \in DOMAIN old /\ (u \in DOMAIN old => old[u] \subseteq old[s] \cup missed)

Unsaved == current.lines \cup pending
LineInv ==
  /\ InOrder(old, removed, Unsaved, next, clock)
  /\ synced \subseteq current.lines \cup LogLines(old) \cup removed \cup missed
  /\ WorkInv

DirInv == Control /\ (opts.clockBack \/ LineInv)

(* svlogd starts with no files.                                            *)
LEMMA InitLines == Init => DirInv
<1> SUFFICES ASSUME Init PROVE DirInv OBVIOUS
<1>1. Control BY DEF Init, Control, NoFile
<1>2. DOMAIN old = {} /\ Unsaved = {} BY DEF Init, Unsaved, NoFile
<1>3. InOrder(old, removed, Unsaved, next, clock)
  <2>1. LogLines(old) = {} BY <1>2, InLogLines
  <2> QED BY <1>2, <2>1 DEF Init, InOrder, Named, Sorted, Earlier, OldestGone
<1>4. LineInv BY <1>2, <1>3 DEF Init, LineInv, WorkInv, InWork
<1> QED BY <1>1, <1>4 DEF DirInv

(* Every step keeps the control in order.                                  *)
LEMMA ControlStep == Control /\ [Next]_vars => Control'
<1> SUFFICES ASSUME Control, [Next]_vars PROVE Control' OBVIOUS
<1> USE DEF Control, Sync, NoFile
<1>1. CASE Write \/ Flush \/ DiskFull BY <1>1 DEF Write, Flush, DiskFull
<1>2. CASE RotateBegin BY <1>2 DEF RotateBegin
<1>3. CASE Rotation
  BY <1>3 DEF Rotation, RotateEmpty, RotateSync, RotateMark, RotateRename, RotateCreate,
     RotateRemove, RotateStart
<1>4. CASE ProcessorOk \/ ProcessorFails \/ ProcessorKilled
  BY <1>4, Zenon DEF ProcessorOk, ProcessorFails, ProcessorKilled
<1>5. CASE Stop BY <1>5 DEF Stop, SigChild, StopFailed, StopRename, StopUnlink
<1>6. CASE Term BY <1>6 DEF Term
<1>7. CASE Close \/ Hup BY <1>7 DEF Close, Hup
<1>8. CASE Opening BY <1>8 DEF Opening, OpenAppend, OpenAside, OpenTidy
<1>9. CASE Crash BY <1>9 DEF Crash
<1>10. CASE UNCHANGED vars BY <1>10 DEF vars
<1> QED BY <1>1, <1>2, <1>3, <1>4, <1>5, <1>6, <1>7, <1>8, <1>9, <1>10 DEF Next

(* The options stay as they are.                                           *)
LEMMA OptsKept == [Next]_vars => opts' = opts
BY Zenon DEF Next, vars, Write, Flush, DiskFull, RotateBegin, Rotation, RotateEmpty, RotateSync,
   RotateMark, RotateRename, RotateCreate, RotateRemove, RotateStart, ProcessorOk,
   ProcessorFails, ProcessorKilled, Stop, SigChild, StopFailed, StopRename, StopUnlink, Term,
   Close, Hup, Opening, OpenAppend, OpenAside, OpenTidy, Crash

(* Steps that leave the old files alone.                                   *)
LEMMA LinesQuiet ==
  ASSUME Control, LineInv, UNCHANGED <<opts, old, removed, clock, next, save, missed>>,
         Unsaved' \subseteq Unsaved,
         synced' \subseteq current'.lines \cup LogLines(old) \cup removed \cup missed,
         proc' # "none" => proc # "none", pc' \notin {"unlink", "start", "create"},
         pc' = "remove" => pc = "create"
  PROVE  LineInv'
<1>1. InOrder(old, removed, Unsaved', next, clock)
  BY Zenon DEF LineInv, InOrder, Earlier
<1>2. (InOrder(old, removed, Unsaved, next, clock))'
  BY <1>1 DEF InOrder, Named, Sorted, Earlier, Oldest, OldestGone, LogLines
<1>3. (synced \subseteq current.lines \cup LogLines(old) \cup removed \cup missed)' BY DEF LogLines
<1>4. InWork' => InWork /\ pc # "unlink" BY DEF InWork, Control
<1>5. WorkInv' BY <1>4, Zenon DEF LineInv, WorkInv
<1> QED BY <1>2, <1>3, <1>5 DEF LineInv

(* The stdio buffer is written out.                                        *)
LEMMA SyncLines ==
  ASSUME Control, LineInv, Sync
  PROVE  /\ Unsaved' = Unsaved
         /\ synced' \subseteq current'.lines \cup LogLines(old) \cup removed \cup missed
BY Zenon DEF Control, LineInv, Sync, Unsaved

(* Log files are deleted, as the oldest.                                   *)
LEMMA LinesDeleted ==
  ASSUME Control, LineInv, UNCHANGED <<opts, synced, clock, next, save, proc, missed>>,
         NEW X, \A f \in X \cap DOMAIN old : f[2] # "t" => Oldest(old, f),
         old' = Delete(old, X),
         removed' = removed \cup UNION {old[f] : f \in {g \in X \cap DOMAIN old : g[2] # "t"}},
         current'.lines = current.lines, pending' = pending, pc # "unlink",
         pc' \notin {"create", "remove", "unlink"},
         pc' = "start" => pc = "remove" /\ opts.processor
  PROVE  LineInv'
<1> DEFINE s == <<save, "s">>
           t == <<save, "t">>
           u == <<save, "u">>
<1>1. /\ InOrder(old', removed', Unsaved, next, clock)
      /\ LogLines(old) \subseteq LogLines(old') \cup removed'
  BY DeleteInOrder, Zenon DEF LineInv
<1>2. removed \subseteq removed' OBVIOUS
<1>3. synced' \subseteq current'.lines \cup LogLines(old') \cup removed' \cup missed'
  BY <1>1, <1>2, Zenon DEF LineInv
<1>4. DOMAIN old' = DOMAIN old \ X /\ \A f \in DOMAIN old' : old'[f] = old[f]
  BY Zenon DEF Delete, Restrict
<1>5. InWork' => InWork BY DEF InWork
<1>6. t[1] = u[1] /\ u[2] = "u" OBVIOUS
<1>7. ASSUME InWork', u \in DOMAIN old' PROVE old'[u] \cap removed' = {}
  <2> SUFFICES ASSUME NEW a \in old[u], a \in removed' PROVE FALSE BY <1>4, <1>7
  <2>1. a \notin removed BY <1>4, <1>5, <1>7 DEF LineInv, WorkInv
  <2>2. PICK f \in X \cap DOMAIN old : f[2] # "t" /\ a \in old[f] BY <2>1
  <2>3. f \in Names /\ u \in Names /\ u \notin X /\ u \in DOMAIN old
    BY <1>4, <1>7, <2>2, Zenon DEF LineInv, InOrder, Named
  <2>4. s \notin DOMAIN old BY <1>5, <1>7, Zenon DEF LineInv, WorkInv
  <2>5. f[1] # u[1]
    <3>1. f = <<f[1], f[2]>> /\ f[2] \in {"s", "t", "u"} BY <2>3 DEF Names
    <3> QED BY <2>2, <2>3, <2>4, <3>1
  <2>6. f[1] \in Nat /\ u[1] \in Nat BY <2>3, DirAssumption DEF Names, Stamps
  <2>7. f[1] < u[1] \/ u[1] < f[1] BY <2>5, <2>6
  <2>8. a < a BY <2>2, <2>3, <2>7, Zenon DEF LineInv, InOrder, Sorted
  <2>9. a \in Nat BY <2>3, Zenon DEF LineInv, InOrder, Earlier
  <2> QED BY <2>8, <2>9
<1>8. ASSUME proc' # "none", t \in DOMAIN old'
      PROVE  IF u \in DOMAIN old' THEN old'[u] \subseteq old'[t] \cup missed'
                                  ELSE old'[t] \subseteq removed'
  <2>0. proc # "none" /\ t \in DOMAIN old /\ old'[t] = old[t] /\ missed' = missed BY <1>4, <1>8
  <2>1. CASE u \in DOMAIN old'
    <3>1. u \in DOMAIN old /\ old'[u] = old[u] BY <1>4, <2>1
    <3>2. old[u] \subseteq old[t] \cup missed BY <2>0, <3>1, Zenon DEF LineInv, WorkInv
    <3> QED BY <2>0, <2>1, <3>1, <3>2
  <2>2. CASE u \notin DOMAIN old' /\ u \in DOMAIN old
    <3>1. u \in X BY <1>4, <2>2
    <3>2. old[t] \subseteq old[u] BY <1>6, <2>0, <2>2, Zenon DEF LineInv, InOrder, Sorted
    <3>3. \A a \in old[u] : a \in removed' BY <1>6, <2>2, <3>1
    <3> QED BY <2>0, <2>2, <3>2, <3>3
  <2>3. CASE u \notin DOMAIN old
    <3>1. old[t] \subseteq removed BY <2>0, <2>3, Zenon DEF LineInv, WorkInv
    <3> QED BY <1>2, <1>4, <2>0, <2>3, <3>1
  <2> QED BY <2>1, <2>2, <2>3
<1>9. InWork' => s \notin DOMAIN old' BY <1>4, <1>5, Zenon DEF LineInv, WorkInv
<1>10. pc' = "start" => t \notin DOMAIN old' BY <1>4 DEF LineInv, WorkInv
<1>11. Unsaved' = Unsaved BY DEF Unsaved
<1>12. WorkInv' BY <1>7, <1>8, <1>9, <1>10, Zenon DEF WorkInv
<1> QED BY <1>1, <1>3, <1>11, <1>12 DEF LineInv

(* The first file in the order of strcmp() has the earliest timestamp; of  *)
(* that timestamp, .s comes before .u.                                     *)
LEMMA SmallestIsOldest ==
  ASSUME Sorted(old), NEW S \in SUBSET Names, NEW f \in Smallest(S), f[2] # "t",
         S \subseteq DOMAIN old, \A g \in DOMAIN old : g[2] # "t" => g \in S
  PROVE  Oldest(old, f)
<1> SUFFICES ASSUME NEW g \in DOMAIN old, g[2] # "t"
             PROVE  f[1] <= g[1] /\ (f[1] = g[1] => old[f] \subseteq old[g])
  BY Zenon DEF Oldest
<1>0. f \in S /\ f \in DOMAIN old /\ g \in S BY DEF Smallest
<1>1. /\ f[1] \in Nat /\ g[1] \in Nat
      /\ f[2] \in {"s", "u"} /\ g[2] \in {"s", "u"}
      /\ Rank(f[2]) \in 0..2 /\ Rank(g[2]) \in 0..2
  BY <1>0, DirAssumption DEF Names, Stamps, Rank
<1>2. CASE f = g BY <1>1, <1>2
<1>3. CASE f # g
  <2>1. 3 * f[1] + Rank(f[2]) < 3 * g[1] + Rank(g[2]) BY <1>0, <1>3 DEF Smallest, Before
  <2>2. f[1] <= g[1] BY <1>1, <2>1
  <2>3. ASSUME f[1] = g[1] PROVE g[2] = "u"
    <3>1. Rank(f[2]) < Rank(g[2]) BY <1>1, <2>1, <2>3
    <3> QED BY <1>1, <3>1 DEF Rank
  <2> QED BY <1>0, <2>2, <2>3, Zenon DEF Sorted
<1> QED BY <1>2, <1>3

(* Files that svlogd wants to delete and can.                              *)
LEMMA UnlinkedSome ==
  ASSUME NEW fs, NEW gone \in Unlinked(fs)
  PROVE  gone \subseteq fs
BY Zenon DEF Unlinked

(* rmoldest()                                                              *)
LEMMA RmoldestLines ==
  ASSUME Control, LineInv, Rmoldest,
         UNCHANGED <<opts, synced, clock, next, save, proc, missed>>,
         current'.lines = current.lines, pending' = pending, pc # "unlink",
         pc' \notin {"create", "remove", "unlink"},
         pc' = "start" => pc = "remove" /\ opts.processor
  PROVE  LineInv'
<1> DEFINE all == Expired(old) \cup {f \in DOMAIN old : f[2] = "t"}
           logs == {f \in DOMAIN old : f[2] # "t"}
<1>1. PICK X \in Unlinked(all) : old' = Delete(old, X) /\ removed' = removed \cup LinesOf(X)
  BY Zenon DEF Rmoldest
<1>2. X \subseteq all BY UnlinkedSome
<1>3. Expired(old) \subseteq Smallest(logs) BY DEF Expired
<1>4. logs \in SUBSET Names /\ Sorted(old) BY DEF LineInv, InOrder, Named
<1>5. \A f \in X \cap DOMAIN old : f[2] # "t" => Oldest(old, f)
  <2> SUFFICES ASSUME NEW f \in X, f[2] # "t" PROVE Oldest(old, f)
    BY Zenon
  <2>1. f \in Smallest(logs) BY <1>2, <1>3
  <2>2. logs \subseteq DOMAIN old /\ \A g \in DOMAIN old : g[2] # "t" => g \in logs OBVIOUS
  <2> HIDE DEF logs
  <2> QED BY <1>4, <2>1, <2>2, SmallestIsOldest
<1>6. X \subseteq DOMAIN old BY <1>2, <1>3 DEF Smallest
<1> HIDE DEF all, logs
<1>7. {g \in X \cap DOMAIN old : g[2] # "t"} = {g \in X : g[2] # "t"} BY <1>6
<1>8. removed' = removed \cup UNION {old[f] : f \in {g \in X \cap DOMAIN old : g[2] # "t"}}
  BY <1>1, <1>7, Zenon DEF LinesOf
<1> QED BY <1>1, <1>5, <1>8, LinesDeleted

(* `current' is put aside under a new name.                                *)
LEMMA AsideLines ==
  ASSUME Control, LineInv, ~opts.clockBack, pending = {},
         NEW suffix \in {"s", "u"}, NEW ts \in NewStamps(clock, suffix),
         save' = ts, clock' = ts, old' = Put(old, <<ts, suffix>>, current.lines),
         current' = NoFile, proc = "none",
         UNCHANGED <<opts, pending, next, removed, synced, proc, missed>>,
         pc' \in {"create", "tidy"}, pc' = "create" /\ opts.processor => suffix = "u"
  PROVE  LineInv'
<1>1. ts \in Stamps /\ ts > clock BY DEF NewStamps
<1>2. Unsaved = current.lines /\ Unsaved' = {} /\ current'.lines = {} BY DEF Unsaved, NoFile
<1>3. /\ InOrder(old', removed, {}, next, ts)
      /\ LogLines(old') = LogLines(old) \cup current.lines
  <2>1. InOrder(old, removed, current.lines, next, clock) BY <1>2 DEF LineInv
  <2>0. suffix \in {"s", "u"} OBVIOUS
  <2> DEFINE new == Put(old, <<ts, suffix>>, current.lines)
  <2>2. InOrder(new, removed, {}, next, ts) /\ LogLines(new) = LogLines(old) \cup current.lines
    BY <1>1, <2>0, <2>1, AsideInOrder
  <2> QED BY <2>2
<1>4. InOrder(old', removed', Unsaved', next', clock') BY <1>2, <1>3
<1>5. synced' \subseteq current'.lines \cup LogLines(old') \cup removed' \cup missed'
  BY <1>2, <1>3, Zenon DEF LineInv
<1>6. /\ DOMAIN old' = DOMAIN old \cup {<<ts, suffix>>}
      /\ old'[<<ts, suffix>>] = current.lines
  BY Zenon DEF Put
<1>7. ASSUME NEW other, <<ts, other>> \in DOMAIN old' PROVE other = suffix
  <2>1. \A f \in DOMAIN old : f[1] # ts
    BY <1>1, DirAssumption DEF LineInv, InOrder, Named, Names, Stamps
  <2>2. <<ts, other>> = <<ts, suffix>> BY <1>6, <1>7, <2>1
  <2> QED BY <2>2
<1>8. current.lines \cap removed = {}
  <2> SUFFICES ASSUME NEW a \in current.lines, a \in removed PROVE FALSE OBVIOUS
  <2>1. a < a /\ a \in Nat BY <1>2, Zenon DEF LineInv, InOrder, Earlier
  <2> QED BY <2>1
<1>9. <<ts, "u">> \in DOMAIN old' => old'[<<ts, "u">>] = current.lines BY <1>6, <1>7
<1>10. <<ts, "t">> \notin DOMAIN old' BY <1>7
<1>11. InWork' => <<ts, "s">> \notin DOMAIN old' BY <1>7 DEF InWork
<1>12. WorkInv' BY <1>8, <1>9, <1>10, <1>11 DEF WorkInv
<1> QED BY <1>4, <1>5, <1>12 DEF LineInv

(* processorstart(): the output file is a copy to be.                      *)
LEMMA StartLines ==
  ASSUME NEW fs, InOrder(fs, removed, Unsaved, next, clock), Start(fs),
         synced \subseteq current.lines \cup LogLines(fs) \cup removed \cup missed,
         <<save, "t">> \notin DOMAIN fs, <<save, "s">> \notin DOMAIN fs,
         <<save, "u">> \in DOMAIN fs => fs[<<save, "u">>] \cap removed = {},
         UNCHANGED <<opts, current, pending, save, clock, next, removed, synced, missed>>,
         pc' \in {"idle", "wait"}
  PROVE  LineInv'
<1> DEFINE x == <<save, "t">>
           y == <<save, "u">>
<1>0. Unsaved' = Unsaved BY DEF Unsaved
<1>1. CASE y \in DOMAIN fs
  <2>1. old' = Put(fs, x, fs[y]) BY <1>1 DEF Start
  <2>2. x \in Names /\ x[1] = y[1] /\ x[2] = "t" /\ x # y
    BY <1>1, SuffixNames, Zenon DEF InOrder
  <2>3. /\ InOrder(old', removed, Unsaved, next, clock)
        /\ LogLines(fs) \subseteq LogLines(old')
    <3>1. PICK lines : lines = fs[y] BY Zenon
    <3>2. old' = Put(fs, x, lines) /\ lines \subseteq fs[y] /\ x[2] # "u" BY <2>1, <2>2, <3>1
    <3> QED BY <1>1, <2>2, <3>2, CopyInOrder, Zenon
  <2>4. DOMAIN old' = DOMAIN fs \cup {x} /\ old'[x] = fs[y] /\ old'[y] = fs[y]
    BY <1>1, <2>1, <2>2, Zenon DEF Put
  <2>5. synced' \subseteq current'.lines \cup LogLines(old') \cup removed' \cup missed' BY <2>3
  <2>6. <<save, "s">> \notin DOMAIN old' BY <2>4
  <2>7. WorkInv' BY <1>1, <2>4, <2>6 DEF WorkInv
  <2> QED BY <1>0, <2>3, <2>5, <2>7 DEF LineInv
<1>2. CASE y \notin DOMAIN fs
  <2>1. old' = fs BY <1>2 DEF Start
  <2>2. WorkInv' BY <1>2, <2>1 DEF WorkInv
  <2> QED BY <1>0, <2>1, <2>2 DEF LineInv
<1> QED BY <1>1, <1>2

(* A processor is killed: its output is cut off.                           *)
LEMMA KilledLines ==
  ASSUME Control, LineInv, ProcessorKilled
  PROVE  LineInv'
<1> DEFINE s == <<save, "s">>
           t == <<save, "t">>
           u == <<save, "u">>
<1>1. t \in DOMAIN old /\ proc # "none" /\ pc \in {"idle", "wait"} /\ t # u /\ t[2] = "t" /\ t # s
  BY Zenon DEF ProcessorKilled, Control
<1>2. PICK line \in old[t] :
        LET written == {l \in old[t] : l < line}
        IN old' = Put(old, t, written) /\ missed' = missed \cup (old[t] \ written)
  BY Zenon DEF ProcessorKilled
<1>3. PICK written : written = {l \in old[t] : l < line} BY Zenon
<1>4. /\ old' = Put(old, t, written) /\ missed' = missed \cup (old[t] \ written)
      /\ written \subseteq old[t]
  BY <1>2, <1>3, Zenon
<1>5. t \in Names BY <1>1 DEF LineInv, InOrder, Named
<1>6. /\ InOrder(old', removed, Unsaved, next, clock)
      /\ LogLines(old) \subseteq LogLines(old')
  <2>1. InOrder(old, removed, Unsaved, next, clock) /\ t[2] # "u" BY <1>1 DEF LineInv
  <2> HIDE DEF t
  <2> QED BY <1>1, <1>4, <1>5, <2>1, CopyInOrder, Zenon
<1>7. /\ DOMAIN old' = DOMAIN old /\ old'[t] = written
      /\ \A f \in DOMAIN old : f # t => old'[f] = old[f]
  <2> HIDE DEF t
  <2>1. DOMAIN old' = DOMAIN old \cup {t} BY <1>4, Zenon DEF Put
  <2>2. DOMAIN old' = DOMAIN old BY <1>1, <2>1
  <2> QED BY <1>1, <1>4, <2>2, Zenon DEF Put
<1>8. UNCHANGED <<opts, pc, current, pending, save, clock, next, removed, synced>>
  BY Zenon DEF ProcessorKilled
<1>9. InWork /\ pc # "unlink" /\ proc # "none" BY <1>1 DEF InWork
<1> HIDE DEF s, t, u
<1>10. u \in DOMAIN old => old'[u] = old[u] BY <1>1, <1>7
<1>11. s \notin DOMAIN old /\ (u \in DOMAIN old => old[u] \cap removed = {})
  BY <1>9, Zenon DEF LineInv, WorkInv, s, u
<1>12. IF u \in DOMAIN old' THEN old'[u] \subseteq old'[t] \cup missed'
                            ELSE old'[t] \subseteq removed
  <2>1. CASE u \in DOMAIN old
    <3>1. old[u] \subseteq old[t] \cup missed
      BY <1>1, <1>9, <2>1, Zenon DEF LineInv, WorkInv, u, t
    <3> QED BY <1>4, <1>7, <1>10, <2>1, <3>1
  <2>2. CASE u \notin DOMAIN old
    <3>1. old[t] \subseteq removed BY <1>1, <1>9, <2>2, Zenon DEF LineInv, WorkInv, u, t
    <3> QED BY <1>4, <1>7, <2>2, <3>1
  <2> QED BY <2>1, <2>2
<1>13. WorkInv'
  <2>1. pc' \notin {"unlink", "create", "remove", "start"} BY <1>1, <1>8
  <2>2. u \in DOMAIN old' => old'[u] \cap removed = {} BY <1>7, <1>10, <1>11
  <2>3. s \notin DOMAIN old' BY <1>7, <1>11
  <2> QED BY <1>8, <1>12, <2>1, <2>2, <2>3, Zenon DEF WorkInv, s, t, u
<1>14. Unsaved' = Unsaved BY <1>8 DEF Unsaved
<1>15. synced' \subseteq current'.lines \cup LogLines(old') \cup removed' \cup missed'
  BY <1>4, <1>6, <1>8, Zenon DEF LineInv
<1> QED BY <1>6, <1>8, <1>13, <1>14, <1>15 DEF LineInv

(* processorstop() of a processor that ended: .t is renamed.               *)
LEMMA RenameLines ==
  ASSUME Control, LineInv, StopRename
  PROVE  LineInv'
<1> DEFINE s == <<save, "s">>
           t == <<save, "t">>
           u == <<save, "u">>
<1>1. /\ proc # "none" /\ pc = "wait" /\ t \in DOMAIN old
      /\ old' = Put(Delete(old, {t}), s, old[t]) /\ pc' = "unlink" /\ proc' = "none"
      /\ UNCHANGED <<opts, current, pending, save, clock, next, removed, synced, missed>>
  BY Zenon DEF StopRename
<1>2. InWork /\ pc # "unlink" BY <1>1 DEF InWork
<1>3. s \notin DOMAIN old /\ (u \in DOMAIN old => old[u] \cap removed = {})
  BY <1>2, Zenon DEF LineInv, WorkInv
<1>4. IF u \in DOMAIN old THEN old[u] \subseteq old[t] \cup missed ELSE old[t] \subseteq removed
  BY <1>1, Zenon DEF LineInv, WorkInv
<1>5. InOrder(old, removed, Unsaved, next, clock) BY DEF LineInv
<1>6. /\ InOrder(old', removed, Unsaved, next, clock) /\ LogLines(old) \subseteq LogLines(old')
      /\ DOMAIN old' = (DOMAIN old \ {t}) \cup {s} /\ old'[s] = old[t]
      /\ u \in DOMAIN old => old'[u] = old[u]
  BY <1>1, <1>3, <1>4, <1>5, RenameInOrder, Zenon
<1>7. s # u OBVIOUS
<1> HIDE DEF s, t, u
<1>8. u \in DOMAIN old' =>
        u \in DOMAIN old /\ old'[u] \subseteq old'[s] \cup missed /\ old'[u] \cap removed = {}
  BY <1>3, <1>4, <1>6, <1>7, Zenon
<1>9. s \in DOMAIN old' BY <1>6
<1>10. WorkInv' BY <1>1, <1>8, <1>9, Zenon DEF WorkInv, s, t, u
<1>11. Unsaved' = Unsaved BY <1>1 DEF Unsaved
<1>12. synced' \subseteq current'.lines \cup LogLines(old') \cup removed' \cup missed'
  BY <1>1, <1>6, Zenon DEF LineInv
<1> QED BY <1>1, <1>6, <1>10, <1>11, <1>12 DEF LineInv

(* Then .u is deleted.                                                     *)
LEMMA UnlinkLines ==
  ASSUME Control, LineInv, StopUnlink
  PROVE  LineInv'
<1>1. pc = "unlink" /\ UNCHANGED <<opts, current, pending, save, clock, next, removed, synced, missed>>
  BY Zenon DEF StopUnlink
<1>2. proc' = "none" /\ pc' \in {"idle", "sync", "close"} BY DEF StopUnlink, Control
<1>3. PICK X \in Unlinked({<<save, "u">>}) : old' = Delete(old, X) BY Zenon DEF StopUnlink
<1>4. X \subseteq {<<save, "u">>} BY UnlinkedSome
<1>5. InOrder(old, removed, Unsaved, next, clock) BY DEF LineInv
<1>6. /\ <<save, "s">> \in DOMAIN old
      /\ <<save, "u">> \in DOMAIN old =>
           /\ old[<<save, "u">>] \subseteq old[<<save, "s">>] \cup missed
           /\ old[<<save, "u">>] \cap removed = {}
  <2>1. InWork BY <1>1 DEF InWork
  <2> QED BY <1>1, <2>1, Zenon DEF LineInv, WorkInv
<1>7. /\ InOrder(old', removed, Unsaved, next, clock)
      /\ LogLines(old) \subseteq LogLines(old') \cup missed
  BY <1>3, <1>4, <1>5, <1>6, UnlinkInOrder, Zenon
<1>8. WorkInv' BY <1>2 DEF WorkInv, InWork
<1>9. Unsaved' = Unsaved BY <1>1 DEF Unsaved
<1>10. synced' \subseteq current'.lines \cup LogLines(old') \cup removed' \cup missed'
  BY <1>1, <1>7, Zenon DEF LineInv
<1> QED BY <1>1, <1>7, <1>8, <1>9, <1>10 DEF LineInv

(* Every step keeps the lines, unless the clock is set back.               *)
LEMMA LineStep == Control /\ ~opts.clockBack /\ LineInv /\ [Next]_vars => LineInv'
<1> SUFFICES ASSUME Control, ~opts.clockBack, LineInv, [Next]_vars PROVE LineInv' OBVIOUS
<1>0. {"lines"} \subseteq DOMAIN current BY DEF Control
<1>s. synced \subseteq current.lines \cup LogLines(old) \cup removed \cup missed BY DEF LineInv
<1>1. CASE Write
  <2>1. next \in Nat /\ Unsaved' = Unsaved \cup {next} /\ next' = next + 1
    BY <1>1, Zenon DEF Write, Unsaved, LineInv, InOrder, Earlier
  <2>2. Earlier(old, removed, Unsaved', next')
    <3>1. next' \in Nat /\ next < next' /\ \A a \in Nat : a < next => a < next' BY <2>1
    <3>2. Unsaved' \subseteq Nat /\ \A b \in Unsaved' : b < next'
      BY <2>1, <3>1, Zenon DEF LineInv, InOrder, Earlier
    <3>3. \A a \in removed : a < next' /\ \A b \in Unsaved' : a < b
      BY <2>1, <3>1, Zenon DEF LineInv, InOrder, Earlier
    <3>4. \A f \in DOMAIN old : \A a \in old[f] : a < next' /\ \A b \in Unsaved' : a < b
      BY <2>1, <3>1, Zenon DEF LineInv, InOrder, Earlier
    <3> QED BY <3>1, <3>2, <3>3, <3>4, Zenon DEF LineInv, InOrder, Earlier
  <2>3. InOrder(old', removed', Unsaved', next', clock')
    BY <1>1, <2>2, Zenon DEF Write, LineInv, InOrder
  <2> QED BY <1>1, <2>3 DEF Write, LineInv, WorkInv, InWork
<1>2. CASE Flush BY <1>2, SyncLines, LinesQuiet DEF Flush
<1>3. CASE DiskFull
  <2>1. PICK X \in Unlinked(Smallest(DOMAIN old)) :
          old' = Delete(old, X) /\ removed' = removed \cup LinesOf(X)
    BY <1>3, Zenon DEF DiskFull
  <2>2. DOMAIN old \in SUBSET Names /\ Sorted(old) BY DEF LineInv, InOrder, Named
  <2>3. X \subseteq Smallest(DOMAIN old) /\ X \subseteq DOMAIN old BY UnlinkedSome DEF Smallest
  <2>4. \A f \in X \cap DOMAIN old : f[2] # "t" => Oldest(old, f)
    BY <2>2, <2>3, SmallestIsOldest, Zenon
  <2>5. {g \in X \cap DOMAIN old : g[2] # "t"} = {g \in X : g[2] # "t"} BY <2>3
  <2>6. removed' = removed \cup UNION {old[f] : f \in {g \in X \cap DOMAIN old : g[2] # "t"}}
    BY <2>1, <2>5, Zenon DEF LinesOf
  <2> QED BY <1>3, <2>1, <2>4, <2>6, LinesDeleted DEF DiskFull
<1>4. CASE RotateBegin BY <1>s, <1>4, LinesQuiet DEF RotateBegin, Unsaved
<1>5. CASE RotateEmpty BY <1>s, <1>5, LinesQuiet DEF RotateEmpty, Unsaved
<1>6. CASE RotateSync BY <1>6, SyncLines, LinesQuiet DEF RotateSync
<1>7. CASE RotateMark BY <1>0, <1>s, <1>7, LinesQuiet DEF RotateMark, Unsaved
<1>8. CASE RotateRename
  <2>1. PICK ts \in NewStamps(clock, Suffix) :
          save' = ts /\ clock' = ts /\ old' = Put(old, <<ts, Suffix>>, current.lines)
    BY <1>8, Zenon DEF RotateRename
  <2>2. Suffix \in {"s", "u"} BY DEF Suffix
  <2>3. pending = {} /\ proc = "none" BY <1>8 DEF Control, RotateRename
  <2>4. opts.processor => Suffix = "u" BY DEF Suffix
  <2> QED BY <1>8, <2>1, <2>2, <2>3, <2>4, AsideLines DEF RotateRename
<1>9. CASE RotateCreate
  <2>1. current.lines = {} /\ current'.lines = {} BY <1>9 DEF RotateCreate, Control
  <2> QED BY <1>s, <1>9, <2>1, LinesQuiet DEF RotateCreate, Unsaved
<1>10. CASE RotateRemove BY <1>10, RmoldestLines DEF RotateRemove
<1>11. CASE RotateStart
  <2>1. InWork /\ pc # "unlink" /\ pc = "start" BY <1>11 DEF RotateStart, InWork
  <2>2. /\ <<save, "t">> \notin DOMAIN old /\ <<save, "s">> \notin DOMAIN old
        /\ <<save, "u">> \in DOMAIN old => old[<<save, "u">>] \cap removed = {}
    BY <2>1, Zenon DEF LineInv, WorkInv
  <2>3. InOrder(old, removed, Unsaved, next, clock) BY DEF LineInv
  <2> QED BY <1>s, <1>11, <2>2, <2>3, StartLines DEF RotateStart
<1>12. CASE ProcessorOk \/ ProcessorFails \/ ProcessorKilled
  <2>1. CASE ProcessorOk \/ ProcessorFails
    <3>1. pc' = pc /\ proc # "none" /\ InWork /\ pc \in {"idle", "wait"}
      BY <2>1, Zenon DEF ProcessorOk, ProcessorFails, InWork, Control
    <3>2. WorkInv' BY <2>1, <3>1, Zenon DEF ProcessorOk, ProcessorFails, LineInv, WorkInv
    <3> QED BY <2>1, <3>2, Zenon DEF ProcessorOk, ProcessorFails, LineInv, Unsaved
  <2> QED BY <1>12, <2>1, KilledLines
<1>13. CASE SigChild BY <1>s, <1>13, LinesQuiet DEF SigChild, Unsaved
<1>14. CASE StopFailed
  <2> DEFINE fs == Delete(old, {<<save, "t">>})
  <2>1. InOrder(fs, removed, Unsaved, next, clock) /\ LogLines(fs) = LogLines(old)
    BY DropInOrder, Zenon DEF LineInv
  <2>2. /\ DOMAIN fs = DOMAIN old \ {<<save, "t">>}
        /\ \A f \in DOMAIN fs : fs[f] = old[f]
    BY Zenon DEF Delete, Restrict
  <2>3. Start(fs) BY <1>14 DEF StopFailed
  <2> HIDE DEF fs
  <2>4. pc' \in {"idle", "wait"} BY <1>14 DEF StopFailed
  <2>5. InWork /\ pc # "unlink" BY <1>14 DEF StopFailed, InWork
  <2>6. /\ <<save, "s">> \notin DOMAIN old
        /\ <<save, "u">> \in DOMAIN old => old[<<save, "u">>] \cap removed = {}
    BY <2>5, Zenon DEF LineInv, WorkInv
  <2>7. /\ <<save, "t">> \notin DOMAIN fs /\ <<save, "s">> \notin DOMAIN fs
        /\ <<save, "u">> \in DOMAIN fs => fs[<<save, "u">>] \cap removed = {}
    BY <2>2, <2>6, Zenon
  <2> QED BY <1>s, <1>14, <2>1, <2>3, <2>4, <2>7, StartLines DEF StopFailed
<1>15. CASE StopRename BY <1>15, RenameLines
<1>16. CASE StopUnlink BY <1>16, UnlinkLines
<1>17. CASE Term
  <2>1. pc' \in {"close", "wait"} BY <1>17 DEF Term
  <2> QED BY <1>17, <2>1, SyncLines, LinesQuiet DEF Term
<1>18. CASE Close BY <1>0, <1>s, <1>18, LinesQuiet DEF Close, Unsaved
<1>19. CASE Hup BY <1>19, SyncLines, LinesQuiet DEF Hup
<1>20. CASE OpenAppend
  <2>1. clock' = clock /\ current'.lines = current.lines BY <1>0, <1>20 DEF OpenAppend, Clocks
  <2> QED BY <1>s, <1>20, <2>1, LinesQuiet DEF OpenAppend, Unsaved
<1>21. CASE OpenAside
  <2>1. PICK ts \in NewStamps(clock, "u") :
          save' = ts /\ clock' = ts /\ old' = Put(old, <<ts, "u">>, current.lines)
    BY <1>21, Zenon DEF OpenAside, Clocks
  <2>2. pending = {} /\ proc = "none" BY <1>21 DEF Control, OpenAside
  <2>3. PICK suffix \in {"s", "u"} : suffix = "u" OBVIOUS
  <2> QED BY <1>21, <2>1, <2>2, <2>3, AsideLines DEF OpenAside
<1>22. CASE OpenTidy
  <2>1. current.lines = {} /\ current'.lines = {} BY <1>22 DEF OpenTidy, Control
  <2> QED BY <1>22, <2>1, RmoldestLines DEF OpenTidy
<1>23. CASE Crash BY <1>s, <1>23, LinesQuiet DEF Crash, Unsaved
<1>24. CASE UNCHANGED vars
  BY <1>24, Zenon DEF vars, LineInv, WorkInv, InWork, Unsaved
<1> QED BY <1>1, <1>2, <1>3, <1>4, <1>5, <1>6, <1>7, <1>8, <1>9, <1>10, <1>11, <1>12, <1>13,
  <1>14, <1>15, <1>16, <1>17, <1>18, <1>19, <1>20, <1>21, <1>22, <1>23, <1>24
  DEF Next, Rotation, Stop, Opening

(* The invariant, whatever svlogd's directory, signals and crashes.        *)
THEOREM DirInvHolds == Spec => []DirInv
<1>1. DirInv /\ [Next]_vars => DirInv'
  <2> SUFFICES ASSUME DirInv, [Next]_vars PROVE DirInv' OBVIOUS
  <2>1. Control' BY ControlStep DEF DirInv
  <2>2. opts' = opts BY OptsKept
  <2>3. CASE opts.clockBack BY <2>1, <2>2, <2>3 DEF DirInv
  <2>4. CASE ~opts.clockBack BY <2>1, <2>4, LineStep DEF DirInv
  <2> QED BY <2>3, <2>4
<1> QED BY <1>1, InitLines, PTL DEF Spec

(* With a clock that is not set back, no line that reached the disk is     *)
(* ever lost, in a crash between any two steps of rotate(), of             *)
(* processorstop() or of logdir_open() either, or where a file cannot be   *)
(* deleted, but in a file that svlogd deletes, and those are the oldest,   *)
(* or in one whose processor a signal killed before it had written it.     *)
THEOREM LinesAreKept == Spec => [](~opts.clockBack => Kept)
<1>1. DirInv => (~opts.clockBack => Kept)
  <2> SUFFICES ASSUME LineInv PROVE Kept BY DEF DirInv
  <2>1. Saved = LogLines(old) BY DEF Saved, LogFiles, LogLines
  <2>2. OldestDeleted
    BY <2>1, Zenon DEF LineInv, InOrder, Earlier, OldestGone, OldestDeleted, Unsaved
  <2> QED BY <2>1, <2>2 DEF Kept, LineInv
<1> QED BY <1>1, DirInvHolds, PTL

----------------------------------------------------------------------------
(* The number of old log files, if files can be deleted *)

(* A file that StopRename will give the directory back, if it was deleted  *)
(* while its processor ran, is counted as long as that may happen.         *)
Awaited == {f \in {<<save, "u">>} : proc # "none" /\ <<save, "t">> \in DOMAIN old}
Bound == opts.nmax + crashes
Extra == {"create", "remove", "tidy"}

(* One file more than the limit while a rotation or a reopening is under   *)
(* way, or while .s and .u are both there.                                 *)
Counted ==
  /\ pc \in Extra => Cardinality(LogFiles) <= Bound + 1
  /\ pc = "unlink" => Cardinality(LogFiles \ {<<save, "u">>}) <= Bound
  /\ pc \notin Extra \cup {"unlink"} => Cardinality(LogFiles \cup Awaited) <= Bound

CountInv ==
  /\ DOMAIN old \subseteq Names /\ crashes \in Nat
  /\ pc = "start" => <<save, "t">> \notin DOMAIN old
  /\ opts.nmax # 0 => Counted

(* A set of natural numbers that is not empty has a least element.         *)
LEMMA NatMin ==
  ASSUME NEW T, T \subseteq Nat, T # {}
  PROVE  \E x \in T : \A y \in T : x <= y
<1> DEFINE Less == OpToRel(<, Nat)
<1>1. IsWellFoundedOn(Less, Nat) BY NatLessThanWellFounded, Zenon
<1>2. \A x, y \in Nat : y < x => <<y, x>> \in Less BY DEF OpToRel
<1> HIDE DEF Less
<1>3. PICK x \in T : \A y \in T : ~ (<<y, x>> \in Less) BY <1>1, WFMin, Zenon
<1>4. ASSUME NEW y \in T PROVE x <= y
  <2>1. ~(y < x) BY <1>2, <1>3, Zenon
  <2> QED BY <2>1
<1> QED BY <1>4

(* Among files there is a first one, which rmoldest() finds.               *)
LEMMA SmallestExists ==
  ASSUME NEW S, S \subseteq Names, S # {}
  PROVE  Smallest(S) # {}
<1> DEFINE key(f) == 3 * f[1] + Rank(f[2])
           keys == {key(f) : f \in S}
<1>1. \A f \in S : f = <<f[1], f[2]>> /\ f[1] \in Nat /\ f[2] \in {"s", "t", "u"}
  BY DirAssumption DEF Names, Stamps
<1>2. \A f \in S : Rank(f[2]) \in 0..2 BY <1>1 DEF Rank
<1>3. \A f \in S : key(f) \in Nat BY <1>1, <1>2
<1>4. \A f, g \in S : key(f) = key(g) => f = g
  <2> SUFFICES ASSUME NEW f \in S, NEW g \in S, key(f) = key(g) PROVE f = g OBVIOUS
  <2>1. f[1] = g[1] /\ Rank(f[2]) = Rank(g[2]) BY <1>1, <1>2
  <2>2. f[2] = g[2] BY <1>1, <2>1 DEF Rank
  <2> QED BY <1>1, <2>1, <2>2
<1>5. keys \subseteq Nat /\ keys # {} BY <1>3
<1>6. PICK k \in keys : \A j \in keys : k <= j BY <1>5, NatMin, Zenon
<1>7. PICK f \in S : key(f) = k OBVIOUS
<1>8. ASSUME NEW g \in S \ {f} PROVE Before(f, g)
  <2>1. key(f) <= key(g) /\ key(f) # key(g) BY <1>4, <1>6, <1>7
  <2>2. key(f) \in Nat /\ key(g) \in Nat BY <1>3
  <2> HIDE DEF key
  <2>3. key(f) < key(g) BY <2>1, <2>2
  <2> QED BY <2>3 DEF Before, key
<1> QED BY <1>8 DEF Smallest

(* There are only finitely many names.                                     *)
LEMMA FilesFinite ==
  ASSUME NEW S, S \subseteq Names
  PROVE  IsFiniteSet(S) /\ Cardinality(S) \in Nat
<1>1. IsFiniteSet(Stamps) BY DirAssumption, FS_Interval DEF Stamps
<1>2. IsFiniteSet({"s", "t", "u"})
  <2>1. IsFiniteSet({"s"}) BY FS_Singleton
  <2>2. IsFiniteSet({"s"} \cup {"t"}) BY <2>1, FS_AddElement
  <2>3. IsFiniteSet({"s"} \cup {"t"} \cup {"u"}) BY <2>2, FS_AddElement
  <2>4. {"s"} \cup {"t"} \cup {"u"} = {"s", "t", "u"} OBVIOUS
  <2> QED BY <2>3, <2>4
<1>3. IsFiniteSet(Names) BY <1>1, <1>2, FS_Product DEF Names
<1>4. IsFiniteSet(S) BY <1>3, FS_Subset
<1> QED BY <1>4, FS_CardinalityType

(* One more file, at most.                                                 *)
LEMMA OneMore ==
  ASSUME NEW S, NEW x, S \subseteq Names, NEW T, T \subseteq S \cup {x}
  PROVE  Cardinality(T) <= Cardinality(S) + 1 /\ Cardinality(T) \in Nat
<1>1. IsFiniteSet(S) /\ Cardinality(S) \in Nat BY FilesFinite
<1>2. IsFiniteSet(S \cup {x}) /\ Cardinality(S \cup {x}) <= Cardinality(S) + 1
  <2>1. PICK n \in Nat : n = Cardinality(S) BY <1>1
  <2>2. /\ IsFiniteSet(S \cup {x})
        /\ Cardinality(S \cup {x}) = IF x \in S THEN Cardinality(S) ELSE Cardinality(S) + 1
    BY <1>1, FS_AddElement, Zenon
  <2>3. Cardinality(S \cup {x}) \in {n, n + 1} BY <2>1, <2>2
  <2> QED BY <2>1, <2>2, <2>3
<1>3. IsFiniteSet(T) /\ Cardinality(T) <= Cardinality(S \cup {x}) BY <1>2, FS_Subset
<1>4. Cardinality(S \cup {x}) \in Nat /\ Cardinality(T) \in Nat
  BY <1>2, <1>3, FS_CardinalityType, Zenon
<1> QED BY <1>1, <1>2, <1>3, <1>4

(* No more files.                                                          *)
LEMMA NoMore ==
  ASSUME NEW S, IsFiniteSet(S), NEW T, T \subseteq S
  PROVE  /\ Cardinality(T) <= Cardinality(S)
         /\ Cardinality(T) \in Nat /\ Cardinality(S) \in Nat
<1>1. IsFiniteSet(T) /\ Cardinality(T) <= Cardinality(S) BY FS_Subset
<1> QED BY <1>1, FS_CardinalityType

(* rmoldest() deletes a file as soon as there is one too many.             *)
LEMMA RmoldestCount ==
  ASSUME "EIO" \notin opts.events,
         DOMAIN old \subseteq Names, opts.nmax \in Nat, opts.nmax # 0, Rmoldest,
         NEW m \in Nat, Cardinality(LogFiles) <= opts.nmax + m + 1
  PROVE  Cardinality(LogFiles') <= opts.nmax + m
<1>1. LogFiles \subseteq Names BY DEF LogFiles
<1>2. IsFiniteSet(LogFiles) /\ Cardinality(LogFiles) \in Nat BY <1>1, FilesFinite
<1>3. DOMAIN old' = DOMAIN old \ (Expired(old) \cup {f \in DOMAIN old : f[2] = "t"})
  BY Zenon DEF Rmoldest, Unlinked, Delete, Restrict
<1>4. LogFiles' = LogFiles \ Expired(old) BY <1>3 DEF LogFiles
<1>5. CASE Cardinality(LogFiles) > opts.nmax
  <2>1. Expired(old) = Smallest(LogFiles) BY <1>5 DEF Expired, LogFiles
  <2>2. LogFiles # {} BY <1>2, <1>5, FS_EmptySet
  <2>3. PICK f \in LogFiles : f \in Expired(old)
    BY <1>1, <2>1, <2>2, SmallestExists, Zenon DEF Smallest
  <2>4. /\ IsFiniteSet(LogFiles \ {f})
        /\ Cardinality(LogFiles \ {f}) = Cardinality(LogFiles) - 1
    BY <1>2, <2>3, FS_RemoveElement, Zenon
  <2>5. LogFiles' \subseteq LogFiles \ {f} BY <1>4, <2>3
  <2>6. Cardinality(LogFiles') <= Cardinality(LogFiles \ {f}) /\ Cardinality(LogFiles') \in Nat
    BY <2>4, <2>5, NoMore, Zenon
  <2> QED BY <1>2, <2>4, <2>6
<1>6. CASE ~(Cardinality(LogFiles) > opts.nmax)
  <2>1. Cardinality(LogFiles') <= Cardinality(LogFiles) /\ Cardinality(LogFiles') \in Nat
    BY <1>2, <1>4, NoMore, Zenon
  <2> QED BY <1>2, <1>6, <2>1
<1> QED BY <1>5, <1>6

(* The files that are counted have names.                                  *)
LEMMA CountedNames ==
  ASSUME CountInv
  PROVE  LogFiles \subseteq Names /\ Awaited \subseteq Names
<1>1. ASSUME <<save, "t">> \in Names PROVE <<save, "u">> \in Names
  BY <1>1, Zenon DEF Names
<1> QED BY <1>1 DEF CountInv, LogFiles, Awaited

(* A step that gives no file that was not counted.                         *)
LEMMA CountWithin ==
  ASSUME Control, CountInv, UNCHANGED <<opts, crashes>>, DOMAIN old' \subseteq Names,
         pc \notin Extra \cup {"unlink"}, pc' \notin Extra \cup {"unlink", "start"},
         (LogFiles \cup Awaited)' \subseteq LogFiles \cup Awaited
  PROVE  CountInv'
<1> SUFFICES ASSUME opts.nmax # 0 PROVE (Cardinality(LogFiles \cup Awaited) <= Bound)'
  BY Zenon DEF CountInv, Counted
<1> DEFINE A == LogFiles \cup Awaited
<1>1. IsFiniteSet(A) BY CountedNames, FilesFinite
<1>2. opts.nmax \in Nat /\ crashes \in Nat BY DirAssumption DEF Control, CountInv
<1>3. Cardinality(A) <= Bound BY DEF CountInv, Counted
<1>4. PICK B : B = A' BY Zenon
<1> HIDE DEF A
<1>5. /\ Cardinality(B) <= Cardinality(A)
      /\ Cardinality(B) \in Nat /\ Cardinality(A) \in Nat
  BY <1>1, <1>4, NoMore, Zenon DEF A
<1>6. Cardinality(B) <= Bound BY <1>2, <1>3, <1>5 DEF Bound
<1>7. Bound' = Bound BY DEF Bound
<1> QED BY <1>4, <1>6, <1>7 DEF A

(* A rotation or a reopening gives a file more.                            *)
LEMMA AsideCount ==
  ASSUME Control, CountInv, UNCHANGED <<opts, crashes>>, pc \notin Extra \cup {"unlink"},
         pc' \in Extra, NEW f \in Names, NEW lines, old' = Put(old, f, lines)
  PROVE  CountInv'
<1>1. DOMAIN old' = DOMAIN old \cup {f} BY DEF Put
<1>2. DOMAIN old' \subseteq Names /\ crashes' \in Nat BY <1>1 DEF CountInv
<1> SUFFICES ASSUME opts.nmax # 0 PROVE (Cardinality(LogFiles) <= Bound + 1)'
  BY <1>2, Zenon DEF CountInv, Counted, Extra
<1> DEFINE A == LogFiles \cup Awaited
<1>3. A \subseteq Names BY CountedNames
<1>4. opts.nmax \in Nat /\ crashes \in Nat BY DirAssumption DEF Control, CountInv
<1>5. Cardinality(A) <= Bound BY DEF CountInv, Counted
<1>6. LogFiles' \subseteq A \cup {f} BY <1>1 DEF LogFiles
<1> HIDE DEF A
<1>7. Cardinality(A) \in Nat BY <1>3, FilesFinite
<1>8. Cardinality(LogFiles') <= Cardinality(A) + 1 /\ Cardinality(LogFiles') \in Nat
  BY <1>3, <1>6, OneMore, Zenon
<1>9. Cardinality(LogFiles') <= Bound + 1 BY <1>4, <1>5, <1>7, <1>8 DEF Bound
<1> QED BY <1>9 DEF Bound

(* rmoldest() makes up for it.                                             *)
LEMMA TidyCount ==
  ASSUME Control, CountInv, UNCHANGED <<opts, crashes, save, proc>>, pc \in {"remove", "tidy"},
         pc' \in {"idle", "start"}, Rmoldest, "EIO" \notin opts.events
  PROVE  CountInv'
<1>1. DOMAIN old' = DOMAIN old \ (Expired(old) \cup {f \in DOMAIN old : f[2] = "t"})
  BY Zenon DEF Rmoldest, Unlinked, Delete, Restrict
<1>2. DOMAIN old' \subseteq Names /\ crashes' \in Nat /\ <<save', "t">> \notin DOMAIN old'
  BY <1>1, Zenon DEF CountInv
<1> SUFFICES ASSUME opts.nmax # 0 PROVE (Cardinality(LogFiles \cup Awaited) <= Bound)'
  BY <1>2, Zenon DEF CountInv, Counted, Extra
<1>3. (LogFiles \cup Awaited)' = LogFiles' BY <1>2 DEF Awaited
<1>4. opts.nmax \in Nat /\ crashes \in Nat BY DirAssumption DEF Control, CountInv
<1>5. Cardinality(LogFiles) <= opts.nmax + crashes + 1
  BY Zenon DEF CountInv, Counted, Extra, Bound
<1>6. Cardinality(LogFiles') <= opts.nmax + crashes
  BY <1>4, <1>5, RmoldestCount, Zenon DEF CountInv
<1> QED BY <1>3, <1>6 DEF Bound

(* Where processorstop() renames .t, .u is there or was counted.           *)
LEMMA RenameCount ==
  ASSUME Control, CountInv, StopRename
  PROVE  CountInv'
<1> DEFINE u == <<save, "u">>
           s == <<save, "s">>
           A == LogFiles \cup Awaited
<1>1. DOMAIN old' = (DOMAIN old \ {<<save, "t">>}) \cup {s}
  BY Zenon DEF StopRename, Put, Delete, Restrict
<1>2. s \in Names /\ u \in Names BY DEF StopRename, CountInv, Names
<1>3. DOMAIN old' \subseteq Names /\ crashes' \in Nat BY <1>1, <1>2 DEF CountInv, StopRename
<1> SUFFICES ASSUME opts.nmax # 0 PROVE (Cardinality(LogFiles \ {<<save, "u">>}) <= Bound)'
  BY <1>3, Zenon DEF CountInv, Counted, Extra, StopRename
<1>4. A \subseteq Names /\ u \in A BY CountedNames DEF Awaited, StopRename
<1>5. opts.nmax \in Nat /\ crashes \in Nat BY DirAssumption DEF Control, CountInv
<1>6. Cardinality(A) <= Bound BY DEF CountInv, Counted, Extra, StopRename
<1>7. LogFiles' \ {u} \subseteq (A \ {u}) \cup {s} BY <1>1 DEF LogFiles
<1>8. PICK B : B = LogFiles' \ {u} BY Zenon
<1> HIDE DEF A, u, s
<1>9. IsFiniteSet(A) /\ Cardinality(A) \in Nat BY <1>4, FilesFinite
<1>10. Cardinality(A \ {u}) = Cardinality(A) - 1 BY <1>4, <1>9, FS_RemoveElement, Zenon
<1>11. Cardinality(B) <= Cardinality(A \ {u}) + 1 /\ Cardinality(B) \in Nat
  <2>1. A \ {u} \subseteq Names BY <1>4
  <2> QED BY <1>7, <1>8, <2>1, OneMore, Zenon
<1>12. Cardinality(B) <= Bound BY <1>5, <1>6, <1>9, <1>10, <1>11 DEF Bound
<1> QED BY <1>8, <1>12 DEF Bound, StopRename, u

(* A crash leaves one file more, at most.                                  *)
LEMMA CrashCount ==
  ASSUME Control, CountInv, Crash
  PROVE  CountInv'
<1>1. DOMAIN old' \subseteq Names /\ crashes' \in Nat BY DEF CountInv, Crash
<1> SUFFICES ASSUME opts.nmax # 0 PROVE (Cardinality(LogFiles \cup Awaited) <= Bound)'
  BY <1>1, Zenon DEF CountInv, Counted, Extra, Crash
<1>2. (LogFiles \cup Awaited)' = LogFiles BY DEF Awaited, LogFiles, Crash
<1>3. opts.nmax \in Nat /\ crashes \in Nat BY DirAssumption DEF Control, CountInv
<1>4. LogFiles \subseteq Names BY CountedNames
<1>5. Cardinality(LogFiles) \in Nat BY <1>4, FilesFinite
<1>6. Cardinality(LogFiles) <= Bound + 1
  <2>1. CASE pc \in Extra BY <2>1 DEF CountInv, Counted
  <2>2. CASE pc = "unlink"
    <3> DEFINE C == LogFiles \ {<<save, "u">>}
    <3>1. C \subseteq Names /\ LogFiles \subseteq C \cup {<<save, "u">>} BY <1>4
    <3>2. Cardinality(C) <= Bound BY <2>2 DEF CountInv, Counted
    <3> HIDE DEF C
    <3>3. Cardinality(LogFiles) <= Cardinality(C) + 1 BY <3>1, OneMore, Zenon
    <3>4. Cardinality(C) \in Nat BY <3>1, FilesFinite
    <3> QED BY <1>3, <1>5, <3>2, <3>3, <3>4 DEF Bound
  <2>3. CASE pc \notin Extra \cup {"unlink"}
    <3> DEFINE A == LogFiles \cup Awaited
    <3>1. A \subseteq Names /\ LogFiles \subseteq A BY CountedNames
    <3>2. Cardinality(A) <= Bound BY <2>3 DEF CountInv, Counted
    <3> HIDE DEF A
    <3>3. IsFiniteSet(A) BY <3>1, FilesFinite
    <3>4. Cardinality(LogFiles) <= Cardinality(A) /\ Cardinality(A) \in Nat
      BY <3>1, <3>3, NoMore, Zenon
    <3> QED BY <1>3, <1>5, <3>2, <3>4 DEF Bound
  <2> QED BY <2>1, <2>2, <2>3
<1>7. Bound' = Bound + 1 BY <1>3 DEF Bound, Crash
<1> QED BY <1>2, <1>6, <1>7

(* Every step of svlogd keeps the number of files within its bound.        *)
LEMMA CountStep ==
  Control /\ "EIO" \notin opts.events /\ CountInv /\ [Next]_vars => CountInv'
<1> SUFFICES ASSUME Control, "EIO" \notin opts.events, CountInv, [Next]_vars PROVE CountInv'
  BY Zenon
<1> DEFINE Within == /\ UNCHANGED <<opts, crashes>> /\ DOMAIN old' \subseteq Names
                     /\ pc \notin Extra \cup {"unlink"}
                     /\ pc' \notin Extra \cup {"unlink", "start"}
                     /\ (LogFiles \cup Awaited)' \subseteq LogFiles \cup Awaited
<1>0. Within => CountInv' BY CountWithin
<1> HIDE DEF Within
<1>1. CASE Write \/ Flush \/ RotateBegin
  <2>1. Within BY <1>1 DEF Within, Write, Flush, RotateBegin, CountInv, Extra, LogFiles, Awaited
  <2> QED BY <1>0, <2>1
<1>2. CASE DiskFull
  <2>0. PICK X : old' = Delete(old, X) BY <1>2, Zenon DEF DiskFull
  <2>1. DOMAIN old' \subseteq DOMAIN old BY <2>0 DEF Delete, Restrict
  <2>2. Within BY <1>2, <2>1 DEF Within, DiskFull, CountInv, Extra, LogFiles, Awaited
  <2> QED BY <1>0, <2>2
<1>3. CASE RotateEmpty \/ RotateSync \/ RotateMark
  <2>1. Within
    BY <1>3, Zenon DEF Within, RotateEmpty, RotateSync, RotateMark, CountInv, Extra, LogFiles, Awaited
  <2> QED BY <1>0, <2>1
<1>4. CASE RotateRename
  <2>1. PICK ts \in NewStamps(clock, Suffix) : old' = Put(old, <<ts, Suffix>>, current.lines)
    BY <1>4, Zenon DEF RotateRename
  <2>2. PICK f : f = <<ts, Suffix>> BY Zenon
  <2>3. f \in Names BY <2>1, <2>2 DEF NewStamps, Suffix, Names
  <2>4. old' = Put(old, f, current.lines) BY <2>1, <2>2
  <2>5. /\ UNCHANGED <<opts, crashes>> /\ pc \notin Extra \cup {"unlink"} /\ pc' \in Extra
    BY <1>4, Zenon DEF RotateRename, Extra
  <2> QED BY <2>3, <2>4, <2>5, AsideCount
<1>5. CASE RotateCreate
  <2>1. LogFiles' = LogFiles /\ Bound' = Bound BY <1>5 DEF RotateCreate, LogFiles, Bound
  <2> QED BY <1>5, <2>1 DEF RotateCreate, CountInv, Counted, Extra
<1>6. CASE RotateRemove BY <1>6, TidyCount DEF RotateRemove
<1>7. CASE RotateStart
  <2>1. CASE <<save, "u">> \in DOMAIN old
    <3>1. DOMAIN old' = DOMAIN old \cup {<<save, "t">>} BY <1>7, <2>1 DEF RotateStart, Start, Put
    <3>2. <<save, "t">> \in Names BY <2>1 DEF CountInv, Names
    <3>3. Within
      BY <1>7, <2>1, <3>1, <3>2 DEF Within, RotateStart, CountInv, Extra, LogFiles, Awaited
    <3> QED BY <1>0, <3>3
  <2>2. CASE <<save, "u">> \notin DOMAIN old
    <3>1. old' = old BY <1>7, <2>2 DEF RotateStart, Start
    <3>2. Within
      BY <1>7, <3>1, Zenon DEF Within, RotateStart, CountInv, Extra, LogFiles, Awaited
    <3> QED BY <1>0, <3>2
  <2> QED BY <2>1, <2>2
<1>8. CASE ProcessorOk \/ ProcessorFails \/ ProcessorKilled
  <2>1. pc \in {"idle", "wait"} BY <1>8 DEF Control, ProcessorOk, ProcessorFails, ProcessorKilled
  <2>2. CASE ProcessorOk \/ ProcessorFails
    <3>1. Within
      BY <2>1, <2>2, Zenon
      DEF Within, ProcessorOk, ProcessorFails, CountInv, Extra, LogFiles, Awaited
    <3> QED BY <1>0, <3>1
  <2>3. CASE ProcessorKilled
    <3>1. <<save, "t">> \in DOMAIN old /\ \E lines : old' = Put(old, <<save, "t">>, lines)
      BY <2>3, Zenon DEF ProcessorKilled
    <3>2. DOMAIN old' = DOMAIN old BY <3>1 DEF Put
    <3>3. Within
      BY <2>1, <2>3, <3>2, Zenon DEF Within, ProcessorKilled, CountInv, Extra, LogFiles, Awaited
    <3> QED BY <1>0, <3>3
  <2> QED BY <1>8, <2>2, <2>3
<1>9. CASE SigChild
  <2>1. Within BY <1>9 DEF Within, SigChild, CountInv, Extra, LogFiles, Awaited
  <2> QED BY <1>0, <2>1
<1>10. CASE StopFailed
  <2>1. DOMAIN Delete(old, {<<save, "t">>}) = DOMAIN old \ {<<save, "t">>}
    BY Zenon DEF Delete, Restrict
  <2>2. CASE <<save, "u">> \in DOMAIN old
    <3>1. DOMAIN old' = DOMAIN old \cup {<<save, "t">>}
      BY <1>10, <2>1, <2>2, Zenon DEF StopFailed, Start, Put
    <3>2. <<save, "t">> \in Names BY <2>2 DEF CountInv, Names
    <3>3. Within
      BY <1>10, <2>2, <3>1, <3>2 DEF Within, StopFailed, CountInv, Extra, LogFiles, Awaited
    <3> QED BY <1>0, <3>3
  <2>3. CASE <<save, "u">> \notin DOMAIN old
    <3>1. DOMAIN old' = DOMAIN old \ {<<save, "t">>}
      BY <1>10, <2>1, <2>3, Zenon DEF StopFailed, Start
    <3>2. Within
      BY <1>10, <3>1, Zenon DEF Within, StopFailed, CountInv, Extra, LogFiles, Awaited
    <3> QED BY <1>0, <3>2
  <2> QED BY <2>2, <2>3
<1>11. CASE StopRename BY <1>11, RenameCount
<1>12. CASE StopUnlink
  <2>1. DOMAIN old' = DOMAIN old \ {<<save, "u">>}
    BY <1>12, Zenon DEF StopUnlink, Unlinked, Delete, Restrict
  <2>2. LogFiles' = LogFiles \ {<<save, "u">>} BY <2>1 DEF LogFiles
  <2>3. Awaited' = {} BY <1>12 DEF Control, StopUnlink, Awaited
  <2>4. (LogFiles \cup Awaited)' = LogFiles \ {<<save, "u">>} BY <2>2, <2>3
  <2>5. Bound' = Bound BY <1>12 DEF StopUnlink, Bound
  <2>6. pc' \notin Extra \cup {"unlink", "start"} BY <1>12 DEF Control, StopUnlink, Extra
  <2>7. opts.nmax # 0 => Cardinality(LogFiles \ {<<save, "u">>}) <= Bound
    BY <1>12, Zenon DEF StopUnlink, CountInv, Counted
  <2>8. Counted' \/ opts.nmax = 0 BY <2>4, <2>5, <2>6, <2>7 DEF Counted
  <2> QED BY <1>12, <2>1, <2>6, <2>8 DEF StopUnlink, CountInv
<1>13. CASE Term \/ Close \/ Hup
  <2>1. Within BY <1>13 DEF Within, Term, Close, Hup, CountInv, Extra, LogFiles, Awaited
  <2> QED BY <1>0, <2>1
<1>14. CASE OpenAppend
  <2>1. Within BY <1>14 DEF Within, OpenAppend, CountInv, Extra, LogFiles, Awaited
  <2> QED BY <1>0, <2>1
<1>15. CASE OpenAside
  <2>0. PICK now \in Clocks : \E ts \in NewStamps(now, "u") :
          old' = Put(old, <<ts, "u">>, current.lines)
    BY <1>15, Zenon DEF OpenAside
  <2>1. PICK ts \in NewStamps(now, "u") : old' = Put(old, <<ts, "u">>, current.lines)
    BY <2>0, Zenon
  <2>2. PICK f : f = <<ts, "u">> BY Zenon
  <2>3. f \in Names BY <2>1, <2>2 DEF NewStamps, Names
  <2>4. old' = Put(old, f, current.lines) BY <2>1, <2>2
  <2>5. /\ UNCHANGED <<opts, crashes>> /\ pc \notin Extra \cup {"unlink"} /\ pc' \in Extra
    BY <1>15, Zenon DEF OpenAside, Extra
  <2> QED BY <2>3, <2>4, <2>5, AsideCount
<1>16. CASE OpenTidy BY <1>16, TidyCount DEF OpenTidy
<1>17. CASE Crash BY <1>17, CrashCount
<1>18. CASE UNCHANGED vars
  BY <1>18, Zenon DEF vars, CountInv, Counted, Bound, LogFiles, Awaited
<1> QED BY <1>1, <1>2, <1>3, <1>4, <1>5, <1>6, <1>7, <1>8, <1>9, <1>10, <1>11, <1>12, <1>13,
           <1>14, <1>15, <1>16, <1>17, <1>18 DEF Next, Rotation, Stop, Opening

(* When svlogd waits for input there are no more old log files than the    *)
(* configured number, and one for each crash: whatever processors fail or  *)
(* are killed, files are deleted on a full disk, and clocks are set back,  *)
(* as long as files can be deleted.                                        *)
THEOREM FilesAreFew == Spec => []Retention
<1> DEFINE Few == Control /\ ("EIO" \in opts.events \/ CountInv)
<1>1. Init => Few
  <2> SUFFICES ASSUME Init PROVE Control /\ CountInv OBVIOUS
  <2>1. Control BY InitLines DEF DirInv
  <2>2. LogFiles \cup Awaited = {} BY DEF Init, LogFiles, Awaited
  <2>3. Cardinality({}) = 0 BY FS_EmptySet
  <2>4. opts.nmax \in Nat /\ Bound = opts.nmax
    BY <2>1, DirAssumption DEF Control, Init, Bound
  <2>5. Cardinality(LogFiles \cup Awaited) <= Bound BY <2>2, <2>3, <2>4
  <2> QED BY <2>1, <2>5 DEF Init, CountInv, Counted, Extra
<1>2. Few /\ [Next]_vars => Few'
  <2> SUFFICES ASSUME Few, [Next]_vars PROVE Few' OBVIOUS
  <2>1. Control' /\ opts' = opts BY ControlStep, OptsKept
  <2>2. "EIO" \notin opts.events => CountInv' BY CountStep
  <2> QED BY <2>1, <2>2
<1>3. Few => Retention
  <2> SUFFICES ASSUME Control, CountInv, opts.nmax # 0, pc = "idle"
               PROVE  Cardinality(LogFiles) <= opts.nmax + crashes
    BY Zenon DEF Retention
  <2> DEFINE A == LogFiles \cup Awaited
  <2>1. A \subseteq Names /\ LogFiles \subseteq A BY CountedNames
  <2>2. Cardinality(A) <= Bound BY DEF CountInv, Counted, Extra
  <2>3. opts.nmax \in Nat /\ crashes \in Nat BY DirAssumption DEF Control, CountInv
  <2> HIDE DEF A
  <2>4. IsFiniteSet(A) BY <2>1, FilesFinite
  <2>5. /\ Cardinality(LogFiles) <= Cardinality(A)
        /\ Cardinality(A) \in Nat /\ Cardinality(LogFiles) \in Nat
    BY <2>1, <2>4, NoMore, Zenon
  <2> QED BY <2>2, <2>3, <2>5 DEF Bound
<1> QED BY <1>1, <1>2, <1>3, PTL DEF Spec
=============================================================================
