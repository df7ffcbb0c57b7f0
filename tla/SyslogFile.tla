----------------------------- MODULE SyslogFile -----------------------------
(***************************************************************************)
(* sysklogd/syslogd.c, log_locally(): a message is appended to a log file, *)
(* which is opened anew every second and rotated when it is too large.     *)
(*                                                                         *)
(* The file's name is 0, the name of its backlog "f.i" is i + 1.  A name   *)
(* is a link to an inode, an inode the messages in it; all messages have   *)
(* the same length.                                                        *)
(***************************************************************************)
EXTENDS Naturals, Sequences, SequencesExt

VARIABLES
  opts,        \* the options in force, .fails: what can happen
  at,          \* where log_locally() is, "out" when it is not called
  msg,         \* the message
  i,           \* the number of the backlog in the loop of rename()s
  fd,          \* log_file->fd: an inode, 0 for -1
  size,        \* log_file->size
  sameSec,     \* last_log_time is the current second
  links,       \* names to inodes, 0 for none
  inodes,      \* contents
  stored,      \* how many of them were there after the last power failure
  moved,       \* the admin took the file away in this second
  written,     \* the messages that were written and no power failure lost
  hurt         \* the admin or a power failure has touched names or contents

file == <<fd, size, sameSec>>
disk == <<links, inodes, stored, moved, written, hurt>>
LogFileSize == opts.size       \* G.logFileSize, in messages
LogFileRotate == opts.rotate   \* G.logFileRotate

fvars == <<at, msg, i, file, disk>>

Names == 0..LogFileRotate

FileInit ==
  /\ at = "out" /\ msg = 0 /\ i = 0 /\ fd = 0 /\ size = 0 /\ sameSec = FALSE
  /\ links = [n \in Names |-> 0] /\ inodes = <<>> /\ stored = <<>>
  /\ moved = FALSE /\ written = <<>> /\ hurt = FALSE

----------------------------------------------------------------------------
(* log_locally(msg) *)

(* A file that is open is opened again if this is a new second.            *)
Enter(m) ==
  /\ at = "out" /\ msg' = m
  /\ IF fd # 0 /\ sameSec THEN at' = "check" /\ UNCHANGED <<fd, sameSec>>
     ELSE at' = "open" /\ sameSec' = (fd # 0 \/ sameSec) /\ fd' = 0
  /\ UNCHANGED <<i, size, disk>>

(* Where open() fails, the message goes to the console.                    *)
Open ==
  /\ at = "open"
  /\ \/ "open" \in opts.fails /\ at' = "out" /\ UNCHANGED <<fd, size, links, inodes, stored, moved>>
     \/ LET new == links[0] = 0
            inode == IF new THEN Len(inodes) + 1 ELSE links[0]
        IN /\ inodes' = IF new THEN Append(inodes, <<>>) ELSE inodes
           /\ stored' = IF new THEN Append(stored, 0) ELSE stored
           /\ links' = [links EXCEPT ![0] = inode]
           /\ fd' = inode /\ size' = Len(inodes'[inode]) /\ at' = "check" /\ moved' = FALSE
  /\ UNCHANGED <<msg, i, sameSec, written, hurt>>

Check ==
  /\ at = "check"
  /\ IF LogFileSize # 0 /\ size > LogFileSize
     THEN at' = (IF LogFileRotate # 0 THEN "shift" ELSE "unlink") /\ i' = LogFileRotate
     ELSE at' = "write" /\ UNCHANGED i
  /\ UNCHANGED <<msg, file, disk>>

(* rename(): nothing if there is no old name, or if both are links to the  *)
(* same inode.                                                             *)
Rename(old, new) ==
  IF links[old] = 0 \/ links[old] = links[new] THEN links
  ELSE [links EXCEPT ![new] = links[old], ![old] = 0]

(* Mutant: the newest backlog is moved first.                              *)
ShiftUp ==
  /\ at = "shift" /\ i > 0
  /\ links' = Rename(LogFileRotate - i, LogFileRotate - i + 1)
  /\ i' = i - 1 /\ at' = IF i = 1 THEN "unlink" ELSE "shift"
  /\ UNCHANGED <<msg, file, inodes, stored, moved, written, hurt>>

(* f.8 -> f.9, f.7 -> f.8, ..., f -> f.0                                   *)
Shift ==
  /\ at = "shift"
  /\ \/ links' = Rename(i - 1, i)
     \/ "rename" \in opts.fails /\ UNCHANGED links
  /\ i' = i - 1 /\ at' = IF i = 1 THEN "unlink" ELSE "shift"
  /\ UNCHANGED <<msg, file, inodes, stored, moved, written, hurt>>

(* Mutant: the file is unlinked only where there is no backlog.            *)
UnlinkIfKept ==
  /\ at = "unlink" /\ at' = "open" /\ fd' = 0
  /\ links' = IF LogFileRotate = 0 THEN [links EXCEPT ![0] = 0] ELSE links
  /\ UNCHANGED <<msg, i, size, sameSec, inodes, stored, moved, written, hurt>>

Unlink ==
  /\ at = "unlink" /\ at' = "open" /\ fd' = 0
  /\ \/ links' = [links EXCEPT ![0] = 0]
     \/ "unlink" \in opts.fails /\ UNCHANGED links
  /\ UNCHANGED <<msg, i, size, sameSec, inodes, stored, moved, written, hurt>>

(* full_write(): nothing is written to a disk that is full.                *)
Write ==
  /\ at = "write" /\ at' = "out"
  /\ \/ /\ inodes' = [inodes EXCEPT ![fd] = Append(@, msg)] /\ size' = size + 1
        /\ written' = Append(written, msg)
     \/ "write" \in opts.fails /\ UNCHANGED <<inodes, size, written>>
  /\ UNCHANGED <<msg, i, fd, sameSec, links, stored, moved, hurt>>

LogLocally == Open \/ Check \/ Shift \/ Unlink \/ Write

----------------------------------------------------------------------------
(* What happens around it *)

(* A second passes between two messages.                                   *)
Tick ==
  /\ at = "out" /\ (sameSec \/ moved) /\ sameSec' = FALSE /\ moved' = FALSE
  /\ UNCHANGED <<at, msg, i, fd, size, links, inodes, stored, written, hurt>>

(* The admin deletes the file or moves it away.                            *)
Admin ==
  /\ "admin" \in opts.fails /\ links[0] # 0
  /\ links' = [links EXCEPT ![0] = 0] /\ moved' = TRUE /\ hurt' = TRUE
  /\ UNCHANGED <<at, msg, i, file, inodes, stored, written>>

(* How much there may be left of an inode: log_locally() calls no fsync(), *)
(* and the kernel writes a file when it likes.                             *)
Left(k) == IF \E m \in Names : links[m] = k THEN stored[k]..Len(inodes[k]) ELSE {Len(inodes[k])}

(* A power failure cuts off the ends of files.  If it comes in rename(),   *)
(* both names may be there.                                                *)
PowerFails ==
  /\ "power" \in opts.fails
  /\ at' = "out" /\ fd' = 0 /\ sameSec' = FALSE /\ UNCHANGED <<msg, i, size, moved>>
  /\ \E left \in [DOMAIN inodes -> UNION {Left(k) : k \in DOMAIN inodes}] :
       /\ \A k \in DOMAIN inodes : left[k] \in Left(k)
       /\ inodes' = [k \in DOMAIN inodes |-> SubSeq(inodes[k], 1, left[k])]
       /\ stored' = left
  /\ LET lost == UNION {ToSet(inodes[k]) \ ToSet(inodes'[k]) : k \in DOMAIN inodes}
     IN /\ \/ links' = links
           \/ /\ at = "shift" /\ Rename(i - 1, i) # links
              /\ links' = [links EXCEPT ![i] = links[i - 1]]
        /\ written' = SelectSeq(written, LAMBDA m : m \notin lost)
        /\ hurt' = (hurt \/ lost # {} \/ links' # links)

=============================================================================
