---------------------------- MODULE LogFormatter ----------------------------
(***************************************************************************)
(* The parser of log patterns, LogFormatter::init() of code/common/log.cpp,*)
(* and the items it makes.  A pattern is a sequence of characters; a step  *)
(* is one turn of the outer loop of init(), the inner loop being told by   *)
(* where it ends.  m_error is left out: the constructor does not set it    *)
(* and nothing reads it.                                                   *)
(*                                                                         *)
(* What comes out for patterns that a reader might take to mean something  *)
(* else:                                                                   *)
(*   "%%d"     the text "%" and then the placeholder d: the second % is    *)
(*             not part of an escape, it starts a placeholder              *)
(*   "%dx"     the unknown placeholder dx: letters and } join the name     *)
(*   "a%d{x"   the error text first, and then the text "ad{x"              *)
(* Operators called Mut... are slips to try, as in Fiber.                  *)
(***************************************************************************)
EXTENDS Naturals, SequencesExt

CONSTANTS Letter,     \* the characters isalpha() holds of
          Patterns    \* the patterns a formatter is constructed with

\* The one text that is not taken from a pattern; no character is it.
ErrorText == "<<pattern_error>>"

\* The braces around an argument.
Open == "{"
Close == "}"

ASSUME PatternAssumption ==
  /\ Letter \cap {"%", Open, Close} = {}
  /\ \A p \in Patterns : p \in Seq(ToSet(p)) /\ ErrorText \notin ToSet(p)

VARIABLES
  pattern,   \* m_pattern
  i,         \* the index of the outer loop, counted from 1
  nstr,      \* text that is not in vec yet
  vec,       \* texts and placeholders found
  items      \* m_items, or <<>> until the second loop

vars == <<pattern, i, nstr, vec, items>>

Text(s) == [kind |-> "text", text |-> s, arg |-> <<>>]
Placeholder(name, arg) == [kind |-> "format", text |-> name, arg |-> arg]
Error == Text(<<ErrorText>>)

Init ==
  /\ pattern \in Patterns
  /\ i = 1
  /\ nstr = <<>>
  /\ vec = <<>>
  /\ items = <<>>

-----------------------------------------------------------------------------
(* The first loop.                                                         *)

\* The least index after n at which Test holds, or the one past the end.
FirstAfter(p, n, Test(_)) == Min({k \in n + 1..Len(p) : Test(p[k])} \cup {Len(p) + 1})

\* Where the name of the placeholder at n ends.
NameEnd(p, n) == FirstAfter(p, n, LAMBDA c : c \notin Letter \cup {Close})

\* Its name is followed by an argument in braces.
Braced(p, n) == NameEnd(p, n) <= Len(p) /\ p[NameEnd(p, n)] = Open

\* Where its argument ends.
ArgEnd(p, n) == FirstAfter(p, NameEnd(p, n), LAMBDA c : c = Close)

Unclosed(p, n) == Braced(p, n) /\ ArgEnd(p, n) > Len(p)

Scanned(p, n) ==
  Placeholder(SubSeq(p, n + 1, NameEnd(p, n) - 1),
              IF Braced(p, n) THEN SubSeq(p, NameEnd(p, n) + 1, ArgEnd(p, n) - 1)
                              ELSE <<>>)

\* Where the scan goes on.
After(p, n) == IF Braced(p, n) THEN ArgEnd(p, n) + 1 ELSE NameEnd(p, n)

\* The text that waits for its end to be known.
Flush == IF nstr = <<>> THEN <<>> ELSE <<Text(nstr)>>

\* Mutant: the text is cleared and not added.
MutFlushed == vec

\* It is added.
Flushed == vec \o Flush

Scanning == i <= Len(pattern)

AtDouble == i < Len(pattern) /\ pattern[i + 1] = "%"

\* A character of a text, or a % with another behind it.
Character ==
  /\ Scanning
  /\ pattern[i] # "%" \/ AtDouble
  /\ nstr' = Append(nstr, pattern[i])
  /\ i' = i + 1
  /\ UNCHANGED <<pattern, vec, items>>

\* A placeholder.
Format ==
  /\ Scanning
  /\ pattern[i] = "%" /\ ~AtDouble
  /\ ~Unclosed(pattern, i)
  /\ vec' = Append(Flushed, Scanned(pattern, i))
  /\ nstr' = <<>>
  /\ i' = After(pattern, i)
  /\ UNCHANGED <<pattern, items>>

\* Mutant: the loop stays at the %.
MutPatternError == Scanning /\ pattern[i] = "%" /\ ~AtDouble /\ Unclosed(pattern, i)
                   /\ UNCHANGED vars

\* A placeholder whose brace is never closed: the error is noted ahead of the text
\* before it, and what follows the % is scanned as text.
PatternError ==
  /\ Scanning
  /\ pattern[i] = "%" /\ ~AtDouble
  /\ Unclosed(pattern, i)
  /\ vec' = Append(vec, Error)
  /\ i' = i + 1
  /\ UNCHANGED <<pattern, nstr, items>>

-----------------------------------------------------------------------------
(* The second loop.                                                        *)

\* What the item of each letter shows of an event.
Shows ==
  [d |-> "time", t |-> "threadId", N |-> "threadName", f |-> "fileName",
   l |-> "fileLine", T |-> "tab", n |-> "newline", p |-> "level", c |-> "logger",
   m |-> "content", F |-> "fiberId"]

DefaultDate == <<"%", "Y", "-", "%", "m", "-", "%", "d", " ",
                 "%", "H", ":", "%", "M", ":", "%", "S">>

Known(e) == Len(e.text) = 1 /\ e.text[1] \in DOMAIN Shows

\* The item of a text or a placeholder.
Item(e) ==
  IF e.kind = "text" THEN [shows |-> "text", text |-> e.text]
  ELSE IF ~Known(e) THEN [shows |-> "text", text |-> <<"<<error_format %">> \o e.text \o <<">>">>]
  ELSE IF e.text = <<"d">>
       THEN [shows |-> "time", text |-> IF e.arg = <<>> THEN DefaultDate ELSE e.arg]
  ELSE [shows |-> Shows[e.text[1]], text |-> <<>>]

\* The last text is added, and the items are made.
Finish ==
  /\ ~Scanning
  /\ i = Len(pattern) + 1
  /\ items = <<>>
  /\ vec' = Flushed
  /\ nstr' = <<>>
  /\ items' = [k \in DOMAIN vec' |-> Item(vec'[k])]
  /\ UNCHANGED <<pattern, i>>

Next == Character \/ Format \/ PatternError \/ Finish

Spec == Init /\ [][Next]_vars

FairSpec == Spec /\ WF_vars(Next)

-----------------------------------------------------------------------------
(* Properties.                                                             *)

Done == ~Scanning /\ nstr = <<>> /\ Len(items) = Len(vec)

\* What an element of vec is written like in a pattern.
Written(e) ==
  IF e = Error THEN <<"%">>
  ELSE IF e.kind = "text" THEN e.text
  ELSE <<"%">> \o e.text \o (IF e.arg = <<>> THEN <<>> ELSE <<Open>> \o e.arg \o <<Close>>)

Count(c, s) == Cardinality({k \in DOMAIN s : s[k] = c})

\* Nothing of the pattern is lost, doubled or moved: what was found so far, written
\* as a pattern again, is the part that was read.  An argument of no characters is
\* not seen in what was found, and where a brace is never closed text may come later
\* than it should; nothing is lost even then.
Lossless ==
  LET read  == SubSeq(pattern, 1, i - 1)
      found == FlattenSeq([k \in DOMAIN vec |-> Written(vec[k])]) \o nstr
  IN (~\E k \in 1..Len(pattern) - 1 : pattern[k] = Open /\ pattern[k + 1] = Close) =>
       /\ Error \notin ToSet(vec) => found = read
       /\ \A c \in ToSet(read) \cup ToSet(found) : Count(c, found) = Count(c, read)

\* The pattern that the constructor of Logger gives its formatter.
StandardPattern ==
  <<"%", "d", "{">> \o DefaultDate \o
  <<"}", "%", "T", "%", "t", "%", "T", "%", "F", "%", "T", "[", "%", "p", "]", "%", "T",
    "[", "%", "c", "]", "%", "T", "%", "f", ":", "%", "l", "%", "T", "%", "m", "%", "n">>

\* Whatever the pattern, the parser comes to its end.
ParseEnds == <>Done
=============================================================================
