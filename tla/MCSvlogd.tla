------------------------------ MODULE MCSvlogd ------------------------------
(***************************************************************************)
(* The two parts of svlogd that do not share state, in one model: the      *)
(* files of a log directory (SvlogdDir), and the pattern matcher of its    *)
(* filter lines (SvlogdMatch), which runs in a directory without any log.  *)
(***************************************************************************)
EXTENDS SvlogdDir

CONSTANTS Letters, MaxPattern, MaxText
VARIABLES pattern, message, cut, after

matchVars == <<pattern, message, cut, after>>
Match == INSTANCE SvlogdMatch

Dir(back, events, lines, kills) ==
  [nmax |-> 2, nmin |-> IF "ENOSPC" \in events THEN 1 ELSE 2, processor |-> TRUE,
   clockBack |-> back, events |-> events, lines |-> lines, crashes |-> kills]

(* All signals, crashes and a full disk; processors that are killed, too;  *)
(* a svlogd that is left alone; no processor; no limit on old files; files *)
(* that cannot be deleted; no log at all.                                  *)
Rough == Dir(FALSE, {"HUP", "TERM", "ENOSPC"}, 5, 2)
Killed == Dir(FALSE, {"HUP", "TERM", "SIG"}, 4, 1)
Calm == Dir(FALSE, {"TERM", "SIG"}, 4, 0)
Plain == [Dir(FALSE, {"HUP", "ENOSPC"}, 4, 1) EXCEPT !.processor = FALSE]
Unlimited == [Dir(FALSE, {"TERM"}, 3, 1) EXCEPT !.nmax = 0]
Stale == [Dir(FALSE, {"ENOSPC", "SIG", "EIO"}, 3, 1) EXCEPT !.nmax = 1, !.nmin = 0]
Filter == Dir(FALSE, {}, 0, 0)
All == {Rough, Killed, Calm, Plain, Unlimited, Stale, Filter}

(* The clock set back between two runs of svlogd; SIGHUP alone.            *)
SetBack == {Dir(TRUE, {"TERM"}, 4, 0)}
BackOrFilter == SetBack \cup {Filter}
BackOrHangUp == SetBack \cup {Dir(FALSE, {"HUP"}, 4, 0)}

MCInit ==
  /\ Init /\ Match!Init
  /\ opts # Filter => pattern = <<>> /\ after = CHOOSE c \in Letters : TRUE
MCNext ==
  \/ opts # Filter /\ Next /\ UNCHANGED matchVars
  \/ opts = Filter /\ Match!Next /\ UNCHANGED vars
MCSpec == MCInit /\ [][MCNext]_<<vars, matchVars>> /\ Fairness

(* What SvlogdMatch states of pmatch() and logmatch() in svlogd.c.         *)
AgreesWithMeaning == Match!AgreesWithMeaning
NewlineIsHarmless == Match!NewlineIsHarmless
PlusAgrees == Match!PlusAgrees
FilterSeesMessage == Match!FilterSeesMessage
ExactPattern == Match!ExactPattern

=============================================================================
