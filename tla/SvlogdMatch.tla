---------------------------- MODULE SvlogdMatch ----------------------------
(***************************************************************************)
(* runit/svlogd.c: pmatch(), the pattern matcher of the filter lines in a  *)
(* log directory's config, and the piece of a message it is applied to.    *)
(*                                                                         *)
(* A pattern and a text are sequences of characters.  "*" and "+" are the  *)
(* two special ones, "n" is the newline that ends a message.               *)
(***************************************************************************)
EXTENDS Naturals, Sequences, SequencesExt

CONSTANTS
  Letters,      \* ordinary characters: none of "*", "+", "n"
  MaxPattern,   \* bound: length of a pattern
  MaxText       \* bound: length of a message, without its newline

VARIABLES
  pattern,      \* a pattern of the config file
  message,      \* a log message, without its newline
  cut,          \* bytes of it, newline included, that the first read() got
  after         \* the byte that follows them in the line buffer

vars == <<pattern, message, cut, after>>

----------------------------------------------------------------------------
(* pmatch() *)

(* The first position from i on at which s holds, or does not hold, c;     *)
(* Len(s) + 1 where there is none.                                         *)
FirstAt(s, i, c) ==
  CHOOSE k \in i..Len(s) + 1 : /\ k = Len(s) + 1 \/ s[k] = c
                               /\ \A j \in i..k - 1 : s[j] # c
FirstNot(s, i, c) ==
  CHOOSE k \in i..Len(s) + 1 : /\ k = Len(s) + 1 \/ s[k] # c
                               /\ \A j \in i..k - 1 : s[j] = c

(* Mutant: the "*" eats the character it stops at.                         *)
PmatchGreedy(p, s, next) ==
  LET m[i \in 1..Len(p) + 2, k \in 1..Len(s) + 1] ==
        IF i > Len(p) THEN k > Len(s)
        ELSE IF p[i] = "*"
        THEN \/ i = Len(p)
             \/ LET stop == FirstAt(s, k, p[i + 1])
                IN stop <= Len(s) /\ m[i + 1, stop + 1]
        ELSE IF p[i] = "+"
        THEN LET c == IF i < Len(p) THEN p[i + 1] ELSE "end"
             IN /\ Append(s, next)[k] = c
                /\ LET stop == FirstNot(s, k, c)
                   IN stop > Len(s) \/ m[i + 2, stop]
        ELSE k <= Len(s) /\ s[k] = p[i] /\ m[i + 1, k + 1]
  IN m[1, 1]

(* pmatch(p, s, Len(s)); m[i, k] is the verdict with p[i..] and s[k..]     *)
(* left.  A "+" looks at the next byte whether or not there is one left,   *)
(* and ends the match when it reaches the end of the text.                 *)
Pmatch(p, s, next) ==
  LET m[i \in 1..Len(p) + 2, k \in 1..Len(s) + 1] ==
        IF i > Len(p) THEN k > Len(s)
        ELSE IF p[i] = "*"
        THEN \/ i = Len(p)
             \/ LET stop == FirstAt(s, k, p[i + 1])
                IN stop <= Len(s) /\ m[i + 1, stop]
        ELSE IF p[i] = "+"
        THEN LET c == IF i < Len(p) THEN p[i + 1] ELSE "end"
             IN /\ Append(s, next)[k] = c
                /\ LET stop == FirstNot(s, k, c)
                   IN stop > Len(s) \/ m[i + 2, stop]
        ELSE k <= Len(s) /\ s[k] = p[i] /\ m[i + 1, k + 1]
  IN m[1, 1]

(* What logmatch() sees of a message: the bytes that are in the buffer     *)
(* when the main loop gets to it, up to the newline, newline included.     *)
PieceOf(msg, k) == SubSeq(Append(msg, "n"), 1, k)

(* logmatch() with one "-" line: is the message deselected?                *)
Deselected(p, msg, k, next) == Pmatch(p, PieceOf(msg, k), next)

----------------------------------------------------------------------------
(* The cases: every pattern and every message up to the bounds.  In a      *)
(* pattern, the character after a special one is an ordinary one.          *)

WellFormed(p) ==
  \A i \in 1..Len(p) : /\ p[i] = "*" /\ i < Len(p) => p[i + 1] \in Letters
                       /\ p[i] = "+" => i < Len(p) /\ p[i + 1] \in Letters

Init ==
  /\ pattern \in {p \in BoundedSeq(Letters \cup {"*", "+"}, MaxPattern) : WellFormed(p)}
  /\ message = <<>>
  /\ cut = 1
  /\ after \in Letters

(* One more character of a message, read in any number of pieces.          *)
Next ==
  /\ Len(message) < MaxText
  /\ \E c \in Letters : message' = Append(message, c)
  /\ cut' \in 1..Len(message) + 2
  /\ UNCHANGED <<pattern, after>>

Spec == Init /\ [][Next]_vars

----------------------------------------------------------------------------
(* The documented meaning, as a relation: a pattern matches a text when    *)
(* the text can be cut up into what its elements stand for.                *)

RECURSIVE Meaning(_, _)
Meaning(p, s) ==
  IF p = <<>> THEN s = <<>>
  ELSE IF p = <<"*">> THEN TRUE
  ELSE \E k \in 0..Len(s) :
         LET front == SubSeq(s, 1, k)
             back == SubSeq(s, k + 1, Len(s))
         IN CASE Head(p) = "*" -> /\ \A j \in 1..k : front[j] # p[2]
                                  /\ Meaning(Tail(p), back)
              [] Head(p) = "+" -> /\ k >= 1 /\ \A j \in 1..k : front[j] = p[2]
                                  /\ back = <<>> \/ back[1] # p[2]
                                  /\ Meaning(SubSeq(p, 3, Len(p)), back)
              [] OTHER -> k = 1 /\ front[1] = p[1] /\ Meaning(Tail(p), back)

(* pmatch() returns what "Pattern Matching" in svlogd.c says: a star       *)
(* matches any string that does not include the next character, a plus     *)
(* that character one or more times, any other character itself.  Without  *)
(* a plus it does so on any piece of a message; with one, on a message     *)
(* that is whole, where the newline keeps it from the end of the text.     *)
AgreesWithMeaning ==
  cut = Len(message) + 1 \/ (\A i \in DOMAIN pattern : pattern[i] # "+")
    => Deselected(pattern, message, cut, after) = Meaning(pattern, PieceOf(message, cut))

(* The same of any piece of a message: not so, a plus looks at the byte    *)
(* behind the text, and ends the match when it reaches the end.            *)
PlusAgrees ==
  Deselected(pattern, message, cut, after) = Meaning(pattern, PieceOf(message, cut))

EndsInStar(p) == p # <<>> /\ Last(p) = "*"

(* A pattern that ends in a star decides alike with and without the        *)
(* newline, when the message is read in one piece.                         *)
NewlineIsHarmless ==
  EndsInStar(pattern) /\ cut = Len(message) + 1
    => Deselected(pattern, message, cut, after) = Meaning(pattern, message)

(* A message that such a pattern matches is deselected however it arrives: *)
(* "svlogd matches the first len characters of each log message".          *)
FilterSeesMessage ==
  EndsInStar(pattern) /\ Meaning(pattern, message)
    => Deselected(pattern, message, cut, after)

(* A message equal to a pattern of ordinary characters is deselected when  *)
(* it arrives in one piece: each of them "matches itself".                 *)
ExactPattern ==
  message # <<>> /\ message = pattern /\ cut = Len(message) + 1
    => Deselected(pattern, message, cut, after)

=============================================================================
