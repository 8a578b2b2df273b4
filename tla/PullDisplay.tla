----------------------------- MODULE PullDisplay -----------------------------
(****************************************************************************)
(* The display of a docker pull, pkg/util/jsonstream.go: one row of the     *)
(* user's terminal per layer, updated in place by moving the cursor up and  *)
(* down again, with other lines in between.                                 *)
(*                                                                          *)
(* A message is only its order of arrival and whose it is.  Every text ends *)
(* at the left margin, so the column is left out, and so are lines longer   *)
(* than the terminal is wide.  An agent's output is always taken for a      *)
(* terminal: runtime.go:131 says so.                                        *)
(****************************************************************************)
EXTENDS Integers, Sequences, FiniteSets

CONSTANTS
  Ids,          \* of the layers
  Height,       \* rows of the terminal
  MaxMessages   \* bound on the messages of the daemon

ASSUME HeightAssumption == Height \in Nat \ {0, 1}
ASSUME MessagesAssumption == MaxMessages \in Nat

VARIABLES
  screen,   \* the terminal: all rows, scrolled ones too, the first in view, and the cursor's
  ids,      \* the layers since the last other line, numbered in order of appearance
  count,    \* messages received
  since,    \* the last message that began a new block of layers
  ended     \* how the stream ended, if it did

vars == <<screen, ids, count, since, ended>>

Blank == [owner |-> "none", at |-> 0]
Cells == [owner : Ids \cup {"none", "shell", "status"}, at : 0..MaxMessages]

Screens == [rows : Seq(Cells), top : Nat \ {0}, cursor : Nat \ {0}]

TypeOK ==
  /\ screen \in Screens
  /\ screen.cursor \in screen.top..(screen.top + Height - 1)
  /\ screen.cursor \in DOMAIN screen.rows
  /\ Len(screen.rows) < screen.top + Height
  /\ DOMAIN ids \subseteq Ids /\ \A id \in DOMAIN ids : ids[id] < Cardinality(DOMAIN ids)
  /\ count \in 0..MaxMessages
  /\ since \in 0..count
  /\ ended \in {"no", "eof", "broken", "failed"}

\* The user's shell has used some of the rows.
Init ==
  /\ \E used \in 0..(Height - 1) :
        screen = [rows   |-> Append([r \in 1..used |-> [owner |-> "shell", at |-> 0]], Blank),
                  top    |-> 1,
                  cursor |-> used + 1]
  /\ ids = <<>>
  /\ count = 0
  /\ since = 0
  /\ ended = "no"

------------------------------------------------------------------------------
\* What the terminal does.  The cursor stops at the edges of the screen; only a
\* line feed on the last row scrolls.

Larger(a, b)  == IF a > b THEN a ELSE b
Smaller(a, b) == IF a < b THEN a ELSE b

LineFeed(s) ==
  LET next == s.cursor + 1
  IN  [rows   |-> IF next \in DOMAIN s.rows THEN s.rows ELSE Append(s.rows, Blank),
       top    |-> Larger(s.top, next + 1 - Height),
       cursor |-> next]

CursorUp(s, n) == [s EXCEPT !.cursor = Larger(@ - n, s.top)]

\* Rows below the last one used are blank: the cursor never gets there, which
\* TypeOK checks.
CursorDown(s, n) == [s EXCEPT !.cursor = Smaller(@ + n, s.top + Height - 1)]

Write(s, owner) == [s EXCEPT !.rows[s.cursor] = [owner |-> owner, at |-> count + 1]]

------------------------------------------------------------------------------
\* DisplayJSONMessagesStream, message by message.

Receive == ended = "no" /\ count < MaxMessages /\ count' = count + 1

\* Mutated Numbered: the layer is counted before it gets its number.
NumberedFromOne(id) ==
  IF id \in DOMAIN ids THEN ids
  ELSE [i \in DOMAIN ids \cup {id} |-> IF i = id THEN Cardinality(DOMAIN ids) + 1 ELSE ids[i]]

Numbered(id) ==
  IF id \in DOMAIN ids THEN ids
  ELSE [i \in DOMAIN ids \cup {id} |-> IF i = id THEN Cardinality(DOMAIN ids) ELSE ids[i]]

\* Mutated LinesUp: the cursor is thought to rest on the last layer's row.
LinesUpFromLast(id) == Cardinality(DOMAIN Numbered(id)) - Numbered(id)[id] - 1

LinesUp(id) == Cardinality(DOMAIN Numbered(id)) - Numbered(id)[id]

\* Mutated Progress: the cursor is left on the layer's row.
ProgressStays(id) ==
  LET fresh == IF id \in DOMAIN ids THEN screen ELSE LineFeed(screen)
  IN  /\ Receive
      /\ screen' = Write(CursorUp(fresh, LinesUp(id)), id)
      /\ ids' = Numbered(id)
      /\ UNCHANGED <<since, ended>>

\* The progress of a layer: a new one gets a row of its own first.
Progress(id) ==
  LET fresh == IF id \in DOMAIN ids THEN screen ELSE LineFeed(screen)
  IN  /\ Receive
      /\ screen' = CursorDown(Write(CursorUp(fresh, LinesUp(id)), id), LinesUp(id))
      /\ ids' = Numbered(id)
      /\ UNCHANGED <<since, ended>>

\* Mutated Status: the layers are not forgotten.
StatusRemembers ==
  /\ Receive
  /\ screen' = LineFeed(Write(screen, "status"))
  /\ since' = count'
  /\ UNCHANGED <<ids, ended>>

\* Any other message is a line of its own; the layers above it keep their rows
\* for good.
Status ==
  /\ Receive
  /\ screen' = LineFeed(Write(screen, "status"))
  /\ ids' = <<>>
  /\ since' = count'
  /\ UNCHANGED ended

\* An error is returned, not displayed, and PullImage does not look at it.
Error ==
  /\ Receive
  /\ ended' = "failed"
  /\ ids' = <<>>
  /\ since' = count'
  /\ UNCHANGED screen

StreamEnds ==
  /\ ended = "no"
  /\ ended' \in {"eof", "broken"}
  /\ UNCHANGED <<screen, ids, count, since>>

Done == ended # "no" /\ UNCHANGED vars

Next == (\E id \in Ids : Progress(id)) \/ Status \/ Error \/ StreamEnds \/ Done

Spec == Init /\ [][Next]_vars

------------------------------------------------------------------------------
\* Properties.

\* The row where the display expects a layer.
RowOf(id) == screen.cursor - (Cardinality(DOMAIN ids) - ids[id])

\* As long as the layers fit the screen, each has the row where the next update
\* will look for it, whatever order the updates came in and however far the
\* terminal has scrolled.
LayersKeepTheirRows ==
  Cardinality(DOMAIN ids) < Height =>
    \A id \in DOMAIN ids : RowOf(id) \in DOMAIN screen.rows /\ screen.rows[RowOf(id)].owner = id

\* An update never overwrites what was there before its block of layers: the
\* user's shell, other lines, the layers of an earlier image.  It holds even for
\* more layers than the screen has rows, where updates do hit each other.
EarlierLinesKept ==
  [][\A r \in DOMAIN screen.rows :
        screen.rows[r] # Blank /\ screen.rows[r].at <= since => screen'.rows[r] = screen.rows[r]]_vars

\* What is written after the display, however it ended, starts on a blank row
\* below everything else.
RestsBelow ==
  /\ screen.cursor = Len(screen.rows)
  /\ screen.rows[screen.cursor] = Blank
==============================================================================
