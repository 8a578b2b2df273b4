-------------------------- MODULE PullDisplayProofs --------------------------
(****************************************************************************)
(* The safety properties of PullDisplay, for any layers, any number of      *)
(* messages and any terminal of at least two rows.                          *)
(*                                                                          *)
(* The cursor always rests on a blank row below the others, and the view is *)
(* the last rows of the terminal; so a movement that the screen's edge cuts *)
(* short on the way up is cut short on the way down by the same rows.       *)
(****************************************************************************)
EXTENDS PullDisplay, FiniteSetTheorems, SequenceTheorems, TLAPS

\* A terminal with the cursor on its last row, and in view the rows that fit.
AtEnd(s) ==
  /\ s \in Screens
  /\ s.cursor = Len(s.rows)
  /\ s.top = Larger(1, Len(s.rows) + 1 - Height)

\* A terminal between two messages.
Settled(s) == AtEnd(s) /\ s.rows[s.cursor] = Blank

Layers == Cardinality(DOMAIN ids)

\* The row on which a movement of n rows up ends, and what an update there leaves.
Landing(s, n)     == CursorUp(s, n).cursor
Updated(s, id, n) == CursorDown(Write(CursorUp(s, n), id), n)
Cell(id)          == [owner |-> id, at |-> count + 1]

\* The layers of a block are numbered from 0 without repetition, and have had a
\* line feed each.
LayersNumbered ==
  /\ IsFiniteSet(DOMAIN ids)
  /\ DOMAIN ids \subseteq Ids
  /\ \A id \in DOMAIN ids : ids[id] \in 0 .. Layers - 1
  /\ \A i, j \in DOMAIN ids : ids[i] = ids[j] => i = j
  /\ Layers < Len(screen.rows)

\* The rows of the present block hold nothing from before it.
BlockIsNew ==
  \A r \in Len(screen.rows) - Layers .. Len(screen.rows) :
    screen.rows[r] = Blank \/ screen.rows[r].at > since

IInv ==
  /\ Settled(screen)
  /\ LayersNumbered /\ BlockIsNew /\ LayersKeepTheirRows
  /\ count \in 0 .. MaxMessages /\ since \in 0 .. count
  /\ ended \in {"no", "eof", "broken", "failed"}

------------------------------------------------------------------------------

\* The fields of a terminal.
LEMMA ScreenFields ==
  ASSUME NEW s \in Screens
  PROVE  /\ s = [rows |-> s.rows, top |-> s.top, cursor |-> s.cursor]
         /\ s.rows \in Seq(Cells) /\ Len(s.rows) \in Nat /\ DOMAIN s.rows = 1 .. Len(s.rows)
         /\ s.top \in Nat \ {0} /\ s.cursor \in Nat \ {0}
<1>1. s.rows \in Seq(Cells)
  BY DEF Screens
<1>2. Len(s.rows) \in Nat /\ DOMAIN s.rows = 1 .. Len(s.rows)
  BY <1>1, LenProperties
<1> QED
  BY <1>1, <1>2 DEF Screens

\* A line feed at the end adds a blank row and shifts the view if it was full.
LEMMA LineFeedSettles ==
  ASSUME NEW s, AtEnd(s)
  PROVE  /\ Settled(LineFeed(s))
         /\ Len(LineFeed(s).rows) = Len(s.rows) + 1
         /\ \A r \in 1 .. Len(s.rows) : LineFeed(s).rows[r] = s.rows[r]
<1> DEFINE len == Len(s.rows)
           t   == LineFeed(s)
<1>1. /\ s.rows \in Seq(Cells) /\ len \in Nat \ {0} /\ DOMAIN s.rows = 1 .. len
      /\ s.cursor = len /\ s.top = Larger(1, len + 1 - Height)
  BY ScreenFields DEF AtEnd
<1>2. t = [rows |-> Append(s.rows, Blank), top |-> Larger(s.top, len + 2 - Height), cursor |-> len + 1]
  <2>1. len + 1 \notin DOMAIN s.rows
    BY <1>1
  <2>2. (len + 1) + 1 - Height = len + 2 - Height
    BY <1>1, HeightAssumption
  <2> QED
    BY <1>1, <2>1, <2>2 DEF LineFeed
<1>3. Blank \in Cells
  BY MessagesAssumption DEF Blank, Cells
<1>4. /\ Append(s.rows, Blank) \in Seq(Cells) /\ Len(Append(s.rows, Blank)) = len + 1
      /\ \A r \in 1 .. len : Append(s.rows, Blank)[r] = s.rows[r]
      /\ Append(s.rows, Blank)[len + 1] = Blank
  BY <1>1, <1>3, AppendProperties
<1>5. t.top \in Nat \ {0} /\ t.top = Larger(1, len + 2 - Height)
  BY <1>1, <1>2, HeightAssumption DEF Larger
<1>6. t \in Screens
  BY <1>1, <1>2, <1>4, <1>5 DEF Screens
<1>7. Len(t.rows) = len + 1 /\ t.rows[len + 1] = Blank /\ t.cursor = len + 1
      /\ \A r \in 1 .. len : t.rows[r] = s.rows[r]
  BY <1>2, <1>4
<1>8. t.top = Larger(1, Len(t.rows) + 1 - Height)
  <2>1. (len + 1) + 1 - Height = len + 2 - Height
    BY <1>1, HeightAssumption
  <2> QED
    BY <1>5, <1>7, <2>1
<1> QED
  BY <1>6, <1>7, <1>8 DEF Settled, AtEnd

\* A movement up that stays within the rows ends above the cursor, n rows above it
\* if the screen has as many, and the movement down returns to where it began.
LEMMA UpAndDown ==
  ASSUME NEW s, AtEnd(s), NEW n \in Nat \ {0}, n < Len(s.rows)
  PROVE  /\ Landing(s, n) \in 1 .. Len(s.rows) - 1
         /\ Landing(s, n) >= Len(s.rows) - n
         /\ n < Height => Landing(s, n) = Len(s.rows) - n
         /\ Smaller(Landing(s, n) + n, s.top + Height - 1) = Len(s.rows)
<1> DEFINE len == Len(s.rows)
<1>1. len \in Nat /\ s.cursor = len /\ s.top = Larger(1, len + 1 - Height)
  BY ScreenFields DEF AtEnd
<1>2. Landing(s, n) = Larger(len - n, s.top)
  BY <1>1 DEF Landing, CursorUp, AtEnd, Screens
<1>3. \A m \in Nat : n < m =>
        LET top == Larger(1, m + 1 - Height)
            r   == Larger(m - n, top)
        IN  /\ r \in 1 .. m - 1 /\ r >= m - n
            /\ n < Height => r = m - n
            /\ Smaller(r + n, top + Height - 1) = m
  BY HeightAssumption DEF Larger, Smaller
<1> QED
  BY <1>1, <1>2, <1>3

\* An update writes the one row it has moved to, and leaves the terminal settled.
LEMMA UpdateSettles ==
  ASSUME NEW s, Settled(s), NEW n \in Nat \ {0}, n < Len(s.rows), NEW id \in Ids,
         count \in 0 .. MaxMessages, count < MaxMessages
  PROVE  /\ Settled(Updated(s, id, n))
         /\ Len(Updated(s, id, n).rows) = Len(s.rows)
         /\ \A r \in 1 .. Len(s.rows) :
              Updated(s, id, n).rows[r] = IF r = Landing(s, n) THEN Cell(id) ELSE s.rows[r]
<1> DEFINE len  == Len(s.rows)
           row  == Landing(s, n)
           rows == [s.rows EXCEPT ![row] = Cell(id)]
           t    == Updated(s, id, n)
<1>1. /\ s.rows \in Seq(Cells) /\ len \in Nat /\ s.cursor = len /\ s.rows[len] = Blank
      /\ s.top \in Nat \ {0} /\ s.top = Larger(1, len + 1 - Height)
      /\ s = [rows |-> s.rows, top |-> s.top, cursor |-> s.cursor]
  BY ScreenFields DEF Settled, AtEnd
<1>2. /\ row \in 1 .. len - 1 /\ row # len /\ row \in 1 .. len /\ len \in 1 .. len
      /\ Smaller(row + n, s.top + Height - 1) = len
  BY <1>1, UpAndDown DEF Settled
<1>3. Cell(id) \in Cells
  BY MessagesAssumption DEF Cell, Cells
<1>4. /\ rows \in Seq(Cells) /\ Len(rows) = len
      /\ \A r \in 1 .. len : rows[r] = IF r = row THEN Cell(id) ELSE s.rows[r]
  BY <1>1, <1>2, <1>3, ExceptSeq
<1>5. CursorUp(s, n) = [rows |-> s.rows, top |-> s.top, cursor |-> row]
  BY <1>1 DEF CursorUp, Landing
<1>6. Write(CursorUp(s, n), id) = [rows |-> rows, top |-> s.top, cursor |-> row]
  BY <1>5 DEF Write, Cell
<1>7. t = [rows |-> rows, top |-> s.top, cursor |-> len]
  <2> DEFINE u == Write(CursorUp(s, n), id)
  <2>1. t = [u EXCEPT !.cursor = Smaller(u.cursor + n, u.top + Height - 1)]
    BY DEF Updated, CursorDown
  <2>2. u = [rows |-> rows, top |-> s.top, cursor |-> row]
    BY <1>6
  <2> HIDE DEF u, t, row, rows, len
  <2>3. t = [rows |-> rows, top |-> s.top, cursor |-> Smaller(row + n, s.top + Height - 1)]
    BY <2>1, <2>2
  <2> QED
    BY <1>2, <2>3
<1>8. t \in Screens
  BY <1>1, <1>2, <1>4, <1>7 DEF Screens
<1> QED
  BY <1>1, <1>2, <1>4, <1>7, <1>8 DEF Settled, AtEnd

\* Another line is written on the cursor's row, and the row below becomes blank.
LEMMA LineSettles ==
  ASSUME Settled(screen), count \in 0 .. MaxMessages, count < MaxMessages
  PROVE  /\ Settled(LineFeed(Write(screen, "status")))
         /\ Len(LineFeed(Write(screen, "status")).rows) = Len(screen.rows) + 1
         /\ \A r \in 1 .. Len(screen.rows) - 1 :
              LineFeed(Write(screen, "status")).rows[r] = screen.rows[r]
<1> DEFINE len  == Len(screen.rows)
           rows == [screen.rows EXCEPT ![len] = Cell("status")]
           s    == Write(screen, "status")
<1>1. /\ screen.rows \in Seq(Cells) /\ len \in Nat \ {0} /\ screen.cursor = len
      /\ screen.top \in Nat \ {0} /\ screen.top = Larger(1, len + 1 - Height)
      /\ screen = [rows |-> screen.rows, top |-> screen.top, cursor |-> screen.cursor]
  BY ScreenFields DEF Settled, AtEnd
<1>2. Cell("status") \in Cells
  BY MessagesAssumption DEF Cell, Cells
<1>3. /\ rows \in Seq(Cells) /\ Len(rows) = len
      /\ \A r \in 1 .. len - 1 : rows[r] = screen.rows[r]
  BY <1>1, <1>2, ExceptSeq
<1>4. s = [rows |-> rows, top |-> screen.top, cursor |-> len]
  <2>1. s = [screen EXCEPT !.rows = rows]
    BY <1>1 DEF Write, Cell
  <2> HIDE DEF s, rows
  <2> QED
    BY <1>1, <2>1
<1>5. AtEnd(s)
  BY <1>1, <1>3, <1>4 DEF AtEnd, Screens
<1>6. Len(s.rows) = len /\ \A r \in 1 .. len - 1 : s.rows[r] = screen.rows[r]
  BY <1>3, <1>4
<1>7. \A r \in 1 .. len - 1 : r \in 1 .. len
  BY <1>1
<1> QED
  BY <1>5, <1>6, <1>7, LineFeedSettles

------------------------------------------------------------------------------

\* A layer's number is its own and stays with it; a new layer gets the next.
LEMMA NumbersGiven ==
  ASSUME LayersNumbered, NEW id \in Ids
  PROVE  LET new == Numbered(id)
             n   == Cardinality(DOMAIN Numbered(id))
         IN  /\ Layers \in Nat
             /\ IsFiniteSet(DOMAIN new) /\ DOMAIN new = DOMAIN ids \cup {id}
             /\ n = IF id \in DOMAIN ids THEN Layers ELSE Layers + 1
             /\ \A i \in DOMAIN new : new[i] \in 0 .. n - 1
             /\ \A i, j \in DOMAIN new : new[i] = new[j] => i = j
             /\ \A i \in DOMAIN ids : new[i] = ids[i]
             /\ id \notin DOMAIN ids => new[id] = Layers
<1>1. Layers \in Nat /\ IsFiniteSet(DOMAIN ids)
  BY FS_CardinalityType DEF LayersNumbered, Layers
<1>2. CASE id \in DOMAIN ids
  <2>1. Numbered(id) = ids /\ DOMAIN ids \cup {id} = DOMAIN ids
    BY <1>2 DEF Numbered
  <2> QED
    BY <1>1, <1>2, <2>1 DEF LayersNumbered, Layers
<1>3. CASE id \notin DOMAIN ids
  <2> DEFINE new == Numbered(id)
  <2>1. new = [i \in DOMAIN ids \cup {id} |-> IF i = id THEN Layers ELSE ids[i]]
    BY <1>3 DEF Numbered, Layers
  <2>2. DOMAIN new = DOMAIN ids \cup {id} /\ new[id] = Layers
        /\ \A i \in DOMAIN ids : new[i] = ids[i]
    BY <1>3, <2>1
  <2>3. IsFiniteSet(DOMAIN new) /\ Cardinality(DOMAIN new) = Layers + 1
    BY <1>1, <1>3, <2>2, FS_AddElement DEF Layers
  <2>4. \A i \in DOMAIN ids : ids[i] \in 0 .. Layers - 1
    BY DEF LayersNumbered
  <2>5. \A i, j \in DOMAIN ids : ids[i] = ids[j] => i = j
    BY DEF LayersNumbered
  <2> HIDE DEF new
  <2>6. \A i \in DOMAIN new : new[i] \in 0 .. (Layers + 1) - 1
    BY <1>1, <2>2, <2>4
  <2>7. \A i, j \in DOMAIN new : new[i] = new[j] => i = j
    BY <1>1, <2>2, <2>4, <2>5
  <2> QED
    BY <1>1, <1>3, <2>2, <2>3, <2>6, <2>7 DEF new
<1> QED
  BY <1>2, <1>3

\* What a layer's progress does to the terminal: one row is written, and it is a
\* row of the block, the layer's own if the screen has as many rows.
LEMMA ProgressWrites ==
  ASSUME IInv, NEW id \in Ids, Progress(id)
  PROVE  LET len == Len(screen'.rows)
             n   == LinesUp(id)
         IN  /\ Settled(screen') /\ len - Layers' = Len(screen.rows) - Layers
             /\ n \in 1 .. Layers' /\ n < len
             /\ \E row \in 1 .. len - 1 :
                  /\ row >= len - n
                  /\ n < Height => row = len - n
                  /\ \A r \in 1 .. len :
                       screen'.rows[r] = IF r = row THEN Cell(id)
                                         ELSE IF r \in DOMAIN screen.rows THEN screen.rows[r]
                                         ELSE Blank
<1> DEFINE fresh == IF id \in DOMAIN ids THEN screen ELSE LineFeed(screen)
           old   == Len(screen.rows)
           len   == Len(fresh.rows)
           n     == LinesUp(id)
           m     == Cardinality(DOMAIN Numbered(id))
<1>1. /\ screen' = Updated(fresh, id, n) /\ Layers' = m
      /\ count \in 0 .. MaxMessages /\ count < MaxMessages
  BY DEF IInv, Progress, Receive, Updated, Layers
<1>2. LayersNumbered /\ Settled(screen) /\ Layers < old
  BY DEF IInv, LayersNumbered
<1>3. old \in Nat /\ DOMAIN screen.rows = 1 .. old /\ screen.rows[old] = Blank
  BY <1>2, ScreenFields DEF Settled, AtEnd
<1>4. Layers \in Nat /\ m = IF id \in DOMAIN ids THEN Layers ELSE Layers + 1
  BY <1>2, NumbersGiven
<1>5. n \in 1 .. m
  <2>1. Numbered(id)[id] \in 0 .. m - 1
    BY <1>2, NumbersGiven
  <2> QED
    BY <1>4, <2>1 DEF LinesUp
<1>6. /\ Settled(fresh)
      /\ len = IF id \in DOMAIN ids THEN old ELSE old + 1
      /\ \A r \in 1 .. len : fresh.rows[r] = IF r \in DOMAIN screen.rows THEN screen.rows[r] ELSE Blank
  <2>1. CASE id \in DOMAIN ids
    BY <1>2, <1>3, <2>1
  <2>2. CASE id \notin DOMAIN ids
    <3>1. /\ Settled(LineFeed(screen)) /\ Len(LineFeed(screen).rows) = old + 1
          /\ \A r \in 1 .. old : LineFeed(screen).rows[r] = screen.rows[r]
      BY <1>2, LineFeedSettles DEF Settled
    <3>2. LineFeed(screen).rows[old + 1] = Blank
      BY <3>1 DEF Settled, AtEnd
    <3>3. \A r \in 1 .. old + 1 : r \in 1 .. old \/ r = old + 1
      BY <1>3
    <3>4. old + 1 \notin 1 .. old
      BY <1>3
    <3> QED
      BY <1>3, <2>2, <3>1, <3>2, <3>3, <3>4
  <2> QED
    BY <2>1, <2>2
<1> HIDE DEF fresh
<1>7. n \in Nat \ {0} /\ n < len /\ len \in Nat
  <2> HIDE DEF n, m
  <2> QED
    BY <1>2, <1>3, <1>4, <1>5, <1>6
<1>8. /\ Settled(screen') /\ Len(screen'.rows) = len
      /\ \A r \in 1 .. len :
           screen'.rows[r] = IF r = Landing(fresh, n) THEN Cell(id) ELSE fresh.rows[r]
  BY <1>1, <1>6, <1>7, UpdateSettles
<1>9. /\ Landing(fresh, n) \in 1 .. len - 1 /\ Landing(fresh, n) >= len - n
      /\ n < Height => Landing(fresh, n) = len - n
  BY <1>6, <1>7, UpAndDown DEF Settled
<1>10. len - m = old - Layers
  <2> HIDE DEF m, n, len, old
  <2> QED
    BY <1>3, <1>4, <1>6
<1>11. \E row \in 1 .. len - 1 :
         /\ row >= len - n
         /\ n < Height => row = len - n
         /\ \A r \in 1 .. len :
              screen'.rows[r] = IF r = row THEN Cell(id)
                                ELSE IF r \in DOMAIN screen.rows THEN screen.rows[r]
                                ELSE Blank
  <2> HIDE DEF n, len, m
  <2>1. \A r \in 1 .. len :
          screen'.rows[r] = IF r = Landing(fresh, n) THEN Cell(id)
                            ELSE IF r \in DOMAIN screen.rows THEN screen.rows[r]
                            ELSE Blank
    BY <1>6, <1>8
  <2> QED
    BY <1>9, <2>1
<1>12. len = Len(screen'.rows)
  BY <1>8
<1> HIDE DEF len
<1> QED
  BY <1>1, <1>5, <1>7, <1>8, <1>10, <1>11, <1>12

------------------------------------------------------------------------------

LEMMA InitInv == Init => IInv
<1> SUFFICES ASSUME Init PROVE IInv
  OBVIOUS
<1>1. PICK used \in 0 .. Height - 1 :
        screen = [rows   |-> Append([r \in 1 .. used |-> [owner |-> "shell", at |-> 0]], Blank),
                  top    |-> 1,
                  cursor |-> used + 1]
  BY DEF Init
<1> DEFINE shell == [r \in 1 .. used |-> [owner |-> "shell", at |-> 0]]
<1>2. used \in Nat /\ used < Height /\ Height \in Nat
  BY <1>1, HeightAssumption
<1>3. shell \in Seq(Cells) /\ Len(shell) = used /\ Blank \in Cells
  <2>1. [owner |-> "shell", at |-> 0] \in Cells /\ Blank \in Cells
    BY MessagesAssumption DEF Cells, Blank
  <2>2. shell \in [1 .. used -> Cells]
    BY <2>1
  <2> QED
    BY <1>2, <2>1, <2>2, SeqDef, LenProperties
<1>4. Append(shell, Blank) \in Seq(Cells) /\ Len(Append(shell, Blank)) = used + 1
      /\ Append(shell, Blank)[used + 1] = Blank
  BY <1>3, AppendProperties
<1>5. /\ screen.rows \in Seq(Cells) /\ Len(screen.rows) = used + 1 /\ screen.cursor = used + 1
      /\ screen.top = 1 /\ screen.rows[used + 1] = Blank
  BY <1>1, <1>4
<1>6. screen \in Screens
  <2>1. screen = [rows |-> screen.rows, top |-> screen.top, cursor |-> screen.cursor]
    BY <1>1
  <2> QED
    BY <1>2, <1>5, <2>1 DEF Screens
<1>7. Larger(1, (used + 1) + 1 - Height) = 1
  BY <1>2 DEF Larger
<1>8. Settled(screen)
  BY <1>5, <1>6, <1>7 DEF Settled, AtEnd
<1>9. DOMAIN ids = {} /\ Layers = 0 /\ IsFiniteSet(DOMAIN ids)
  BY FS_EmptySet DEF Init, Layers
<1>10. LayersNumbered /\ LayersKeepTheirRows
  BY <1>2, <1>5, <1>9 DEF LayersNumbered, LayersKeepTheirRows
<1>11. BlockIsNew
  <2>1. \A r \in (used + 1) - 0 .. used + 1 : r = used + 1
    BY <1>2
  <2> QED
    BY <1>5, <1>9, <2>1 DEF BlockIsNew
<1> QED
  BY <1>8, <1>10, <1>11, MessagesAssumption DEF Init, IInv

\* A line, or an error, ends the block; the next one is empty.
LEMMA NoLayers ==
  ASSUME Settled(screen)', ids' = <<>>
  PROVE  (LayersNumbered /\ LayersKeepTheirRows /\ BlockIsNew)'
<1>1. DOMAIN ids' = {} /\ Layers' = 0 /\ IsFiniteSet(DOMAIN ids')
  BY FS_EmptySet DEF Layers
<1>2. /\ Len(screen'.rows) \in Nat \ {0}
      /\ screen'.rows[Len(screen'.rows)] = Blank
  BY ScreenFields DEF Settled, AtEnd
<1>3. LayersNumbered' /\ LayersKeepTheirRows'
  BY <1>1, <1>2 DEF LayersNumbered, LayersKeepTheirRows
<1>4. \A n \in Nat : \A r \in n - 0 .. n : r = n
  OBVIOUS
<1>5. BlockIsNew'
  BY <1>1, <1>2, <1>4 DEF BlockIsNew
<1> QED
  BY <1>3, <1>5

LEMMA StepInv == IInv /\ [Next]_vars => IInv'
<1> SUFFICES ASSUME IInv, [Next]_vars PROVE IInv'
  OBVIOUS
<1>1. ASSUME NEW id \in Ids, Progress(id) PROVE IInv'
  <2> DEFINE len == Len(screen'.rows)
             old == Len(screen.rows)
             now == Layers'
             was == Layers
             n   == LinesUp(id)
  <2>1. Settled(screen') /\ len - now = old - was /\ n \in 1 .. now
    BY <1>1, ProgressWrites
  <2>2. PICK row \in 1 .. len - 1 :
          /\ row >= len - n
          /\ n < Height => row = len - n
          /\ \A r \in 1 .. len :
               screen'.rows[r] = IF r = row THEN Cell(id)
                                 ELSE IF r \in DOMAIN screen.rows THEN screen.rows[r]
                                 ELSE Blank
    BY <1>1, ProgressWrites
  <2>3. /\ len \in Nat /\ DOMAIN screen'.rows = 1 .. len /\ screen'.cursor = len
        /\ old \in Nat /\ DOMAIN screen.rows = 1 .. old /\ screen.cursor = old
    BY <2>1, ScreenFields DEF IInv, Settled, AtEnd
  <2>4. /\ ids' = Numbered(id) /\ count' = count + 1 /\ since' = since /\ ended' = ended
        /\ count < MaxMessages /\ count \in 0 .. MaxMessages /\ since \in 0 .. count
    BY <1>1 DEF Progress, Receive, IInv
  <2>5. /\ was \in Nat /\ now = IF id \in DOMAIN ids THEN was ELSE was + 1
        /\ IsFiniteSet(DOMAIN ids') /\ DOMAIN ids' = DOMAIN ids \cup {id}
        /\ \A i \in DOMAIN ids' : ids'[i] \in 0 .. now - 1
        /\ \A i, j \in DOMAIN ids' : ids'[i] = ids'[j] => i = j
        /\ \A i \in DOMAIN ids : ids'[i] = ids[i]
    BY <2>4, NumbersGiven DEF IInv, Layers
  <2>6. was < old /\ DOMAIN ids \subseteq Ids /\ \A i \in DOMAIN ids : ids[i] \in 0 .. was - 1
    BY DEF IInv, LayersNumbered
  <2>7. n = now - ids'[id]
    BY <2>4 DEF LinesUp, Layers
  <2> HIDE DEF len, old, now, was, n
  <2>8. now \in Nat /\ was <= now /\ now < len /\ len = old + (now - was)
    BY <2>1, <2>3, <2>5, <2>6
  <2>9. LayersNumbered'
    <3>1. DOMAIN ids' \subseteq Ids
      BY <2>5, <2>6
    <3> QED
      BY <2>5, <2>8, <3>1 DEF LayersNumbered, len, now
  <2>10. BlockIsNew'
    <3> SUFFICES ASSUME NEW r \in len - now .. len
                 PROVE  screen'.rows[r] = Blank \/ screen'.rows[r].at > since
      BY <2>4 DEF BlockIsNew, len, now
    <3>1. r \in 1 .. len /\ r >= old - was
      BY <2>3, <2>5, <2>8
    <3>2. CASE r = row
      BY <2>2, <2>4, <3>1, <3>2 DEF Cell
    <3>3. CASE r # row /\ r \notin DOMAIN screen.rows
      BY <2>2, <3>1, <3>3
    <3>4. CASE r # row /\ r \in DOMAIN screen.rows
      <4>1. screen'.rows[r] = screen.rows[r]
        BY <2>2, <3>1, <3>4
      <4>2. r \in old - was .. old
        BY <2>3, <2>5, <3>1, <3>4
      <4>3. screen.rows[r] = Blank \/ screen.rows[r].at > since
        BY <4>2 DEF IInv, BlockIsNew, old, was
      <4> QED
        BY <4>1, <4>3
    <3> QED
      BY <3>2, <3>3, <3>4
  <2>11. LayersKeepTheirRows'
    <3> SUFFICES ASSUME now < Height, NEW i \in DOMAIN ids'
                 PROVE  /\ len - (now - ids'[i]) \in 1 .. len
                        /\ screen'.rows[len - (now - ids'[i])].owner = i
      BY <2>3 DEF LayersKeepTheirRows, RowOf, Layers, len, now
    <3> DEFINE at == len - (now - ids'[i])
    <3>1. at \in 1 .. len
      BY <2>3, <2>5, <2>8
    <3>2. row = len - n
      BY <2>1, <2>2, <2>8, HeightAssumption
    <3>3. CASE i = id
      <4>1. screen'.rows[at] = Cell(id)
        BY <2>2, <2>7, <3>1, <3>2, <3>3
      <4> QED
        BY <3>1, <3>3, <4>1 DEF Cell
    <3>4. CASE i # id
      <4>1. i \in DOMAIN ids /\ ids'[i] = ids[i] /\ ids'[i] # ids'[id] /\ ids[i] \in 0 .. was - 1
        BY <2>5, <2>6, <3>4
      <4>2. at # row
        <5>1. ids'[i] \in Int /\ ids'[id] \in Int /\ len \in Int /\ now \in Int
          BY <2>3, <2>5, <2>8
        <5>2. row = len - (now - ids'[id])
          BY <2>7, <3>2
        <5> QED
          BY <4>1, <5>1, <5>2
      <4>3. at = old - (was - ids[i]) /\ at \in DOMAIN screen.rows
        BY <2>3, <2>5, <2>6, <2>8, <4>1
      <4>4. was < Height
        BY <2>5, <2>8, HeightAssumption
      <4>5. screen.rows[at].owner = i
        BY <2>3, <4>1, <4>3, <4>4 DEF IInv, LayersKeepTheirRows, RowOf, Layers, old, was
      <4>6. screen'.rows[at] = screen.rows[at]
        BY <2>2, <3>1, <4>2, <4>3
      <4> QED
        BY <3>1, <4>5, <4>6
    <3> QED
      BY <3>3, <3>4
  <2>12. count' \in 0 .. MaxMessages /\ since' \in 0 .. count'
    BY <2>4, MessagesAssumption
  <2> HIDE <1>1
  <2> QED
    BY <2>1, <2>4, <2>9, <2>10, <2>11, <2>12 DEF IInv
<1>2. CASE Status
  <2>1. /\ count \in 0 .. MaxMessages /\ count < MaxMessages /\ count' = count + 1
        /\ Settled(screen) /\ screen' = LineFeed(Write(screen, "status"))
        /\ ids' = <<>> /\ since' = count' /\ ended' = ended
    BY <1>2 DEF Status, Receive, IInv
  <2>2. Settled(screen')
    BY <2>1, LineSettles
  <2>3. (LayersNumbered /\ LayersKeepTheirRows /\ BlockIsNew)'
    BY <2>1, <2>2, NoLayers
  <2>4. count' \in 0 .. MaxMessages /\ since' \in 0 .. count'
    BY <2>1, MessagesAssumption
  <2> HIDE <1>2
  <2> QED
    BY <2>1, <2>2, <2>3, <2>4 DEF IInv
<1>3. CASE Error
  <2>1. /\ count \in 0 .. MaxMessages /\ count < MaxMessages /\ count' = count + 1
        /\ Settled(screen) /\ screen' = screen
        /\ ids' = <<>> /\ since' = count' /\ ended' = "failed"
    BY <1>3 DEF Error, Receive, IInv
  <2>2. (LayersNumbered /\ LayersKeepTheirRows /\ BlockIsNew)'
    BY <2>1, NoLayers
  <2>3. count' \in 0 .. MaxMessages /\ since' \in 0 .. count'
    BY <2>1, MessagesAssumption
  <2> HIDE <1>3
  <2> QED
    BY <2>1, <2>2, <2>3 DEF IInv
<1>4. CASE StreamEnds
  BY <1>4 DEF StreamEnds, IInv, LayersNumbered, LayersKeepTheirRows, RowOf, BlockIsNew, Layers
<1>5. CASE Done \/ UNCHANGED vars
  BY <1>5 DEF Done, vars, IInv, LayersNumbered, LayersKeepTheirRows, RowOf, BlockIsNew, Layers
<1> QED
  BY <1>1, <1>2, <1>3, <1>4, <1>5 DEF Next

\* IInv is an invariant of the display.
THEOREM Invariance == Spec => []IInv
  BY InitInv, StepInv, PTL DEF Spec

------------------------------------------------------------------------------

\* The display keeps its types: the cursor never leaves the rows in view, and
\* never goes below the last one used, which CursorDown takes for granted.
THEOREM TypeCorrect == Spec => []TypeOK
<1>1. IInv => TypeOK
  <2> SUFFICES ASSUME IInv PROVE TypeOK
    OBVIOUS
  <2> DEFINE len == Len(screen.rows)
  <2>1. /\ len \in Nat \ {0} /\ DOMAIN screen.rows = 1 .. len /\ screen.cursor = len
        /\ screen.top \in Nat /\ screen.top = Larger(1, len + 1 - Height)
    BY ScreenFields DEF IInv, Settled, AtEnd
  <2>2. \A m \in Nat \ {0} : LET top == Larger(1, m + 1 - Height)
                             IN  m \in top .. top + Height - 1 /\ m < top + Height
    BY HeightAssumption DEF Larger
  <2>3. screen.cursor \in screen.top .. screen.top + Height - 1 /\ len < screen.top + Height
    BY <2>1, <2>2
  <2>4. DOMAIN ids \subseteq Ids /\ \A id \in DOMAIN ids : ids[id] < Layers
    <3>1. Layers \in Nat
      BY FS_CardinalityType DEF IInv, LayersNumbered, Layers
    <3>2. DOMAIN ids \subseteq Ids /\ \A id \in DOMAIN ids : ids[id] \in 0 .. Layers - 1
      BY DEF IInv, LayersNumbered
    <3> QED
      BY <3>1, <3>2
  <2> QED
    BY <2>1, <2>3, <2>4 DEF TypeOK, IInv, Settled, AtEnd, Layers
<1> QED
  BY <1>1, Invariance, PTL

\* Every update finds its layer's row, for as many layers as fit the screen, on a
\* terminal of any height that has scrolled any number of times.
THEOREM LayersFound == Spec => []LayersKeepTheirRows
<1>1. IInv => LayersKeepTheirRows
  BY DEF IInv
<1> QED
  BY <1>1, Invariance, PTL

\* Between two messages the cursor rests on a blank row below all others, so what
\* follows the display overwrites nothing, however the stream ends.
THEOREM RestsOnBlank == Spec => []RestsBelow
<1>1. IInv => RestsBelow
  BY DEF IInv, Settled, AtEnd, RestsBelow
<1> QED
  BY <1>1, Invariance, PTL

\* No message changes a row from before its block of layers: an update cut short
\* by the top of the screen lands below the layer's row, so still in the block,
\* and any other line is written on the blank row of the cursor.
THEOREM EarlierKept == Spec => EarlierLinesKept
<1> DEFINE Kept == \A r \in DOMAIN screen.rows :
                     screen.rows[r] # Blank /\ screen.rows[r].at <= since
                       => screen'.rows[r] = screen.rows[r]
<1>1. IInv /\ [Next]_vars => [Kept]_vars
  <2> SUFFICES ASSUME IInv, Next,
                      NEW r \in DOMAIN screen.rows,
                      screen.rows[r] # Blank, screen.rows[r].at <= since
               PROVE  screen'.rows[r] = screen.rows[r]
    OBVIOUS
  <2> DEFINE old == Len(screen.rows)
  <2>1. /\ old \in Nat /\ DOMAIN screen.rows = 1 .. old /\ screen.rows \in Seq(Cells)
        /\ screen.rows[old] = Blank
    BY ScreenFields DEF IInv, Settled, AtEnd
  <2>2. r \in 1 .. old - 1
    BY <2>1
  <2>3. ASSUME NEW id \in Ids, Progress(id) PROVE screen'.rows[r] = screen.rows[r]
    <3> DEFINE len == Len(screen'.rows)
               now == Layers'
               was == Layers
               n   == LinesUp(id)
    <3>1. Settled(screen') /\ len - now = old - was /\ n \in 1 .. now
      BY <2>3, ProgressWrites
    <3>2. PICK row \in 1 .. len - 1 :
            /\ row >= len - n
            /\ \A q \in 1 .. len :
                 screen'.rows[q] = IF q = row THEN Cell(id)
                                   ELSE IF q \in DOMAIN screen.rows THEN screen.rows[q]
                                   ELSE Blank
      BY <2>3, ProgressWrites
    <3>3. len \in Nat /\ was \in Nat /\ (now = was \/ now = was + 1)
      <4>1. ids' = Numbered(id)
        BY <2>3 DEF Progress
      <4> QED
        BY <3>1, <4>1, ScreenFields, NumbersGiven DEF IInv, Layers, Settled, AtEnd
    <3>4. r \in old - was .. old => screen.rows[r].at > since
      BY DEF IInv, BlockIsNew
    <3>5. screen.rows[r].at \in Int /\ since \in Int
      <4>1. screen.rows[r] \in Cells
        BY <2>1, ElementOfSeq
      <4> QED
        BY <4>1, MessagesAssumption DEF IInv, Cells
    <3> HIDE DEF len, now, was, n, old
    <3>6. r \notin old - was .. old
      BY <3>4, <3>5
    <3>7. r # row /\ r \in 1 .. len
      BY <2>1, <2>2, <3>1, <3>2, <3>3, <3>6
    <3> QED
      BY <3>2, <3>7
  <2>4. CASE Status
    <3>1. /\ count \in 0 .. MaxMessages /\ count < MaxMessages
          /\ Settled(screen) /\ screen' = LineFeed(Write(screen, "status"))
      BY <2>4 DEF Status, Receive, IInv
    <3>2. \A q \in 1 .. old - 1 : LineFeed(Write(screen, "status")).rows[q] = screen.rows[q]
      BY <3>1, LineSettles
    <3> QED
      BY <2>2, <3>1, <3>2
  <2>5. CASE Error \/ StreamEnds \/ Done
    BY <2>5 DEF Error, StreamEnds, Done, vars
  <2> QED
    BY <2>3, <2>4, <2>5 DEF Next
<1> QED
  BY <1>1, Invariance, PTL DEF Spec, EarlierLinesKept
==============================================================================
