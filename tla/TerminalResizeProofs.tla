------------------------- MODULE TerminalResizeProofs -------------------------
(****************************************************************************)
(* The safety properties of TerminalResize, for any number of resizes and   *)
(* any sizes that have a zero side.                                         *)
(*                                                                          *)
(* Both rest on the path of a size: what is further on the path is not      *)
(* newer, and unless something was missed the newest size that each stage   *)
(* has let go is the last of the stages behind it.                          *)
(****************************************************************************)
EXTENDS TerminalResize, SequenceTheorems, TLAPS

\* What is on the path is sorted: the last size taken, the connection, resizeChan,
\* the relay's hand, resizeEvents, the monitor, the terminal.  The relay's hand
\* keeps its last size, so that held is a bound for all that lies behind it.
PathSorted ==
  /\ held <= seen /\ seen <= now
  /\ \A i \in 1 .. Len(events) : held <= events[i] /\ events[i] <= seen
  /\ \A i \in 1 .. Len(sizes) : sizes[i] <= held
  /\ \A i \in 1 .. Len(wire) :
       /\ wire[i] <= held
       /\ \A j \in i .. Len(wire) : wire[i] <= wire[j]
       /\ \A j \in 1 .. Len(sizes) : wire[i] <= sizes[j]
  /\ taken # None =>
       /\ taken <= held
       /\ \A i \in 1 .. Len(wire) : taken <= wire[i]
       /\ \A j \in 1 .. Len(sizes) : taken <= sizes[j]

\* The monitor has read the terminal's size, or will read it.
MonitorFresh ==
  \/ seen = now
  \/ monitor \in {"waiting", "holding"} /\ (winch \/ platform = "windows")
  \/ monitor \in {"reading", "done"}

\* What the monitor has sent last is in the channel, or the relay took it.
EventsFresh ==
  monitor # "holding" => seen = IF events = <<>> THEN held ELSE events[Len(events)]

\* What the relay has offered last is in its channel, on the connection, or taken.
SizesFresh ==
  relay # "holding" =>
    held = IF sizes # <<>> THEN sizes[Len(sizes)]
           ELSE IF wire # <<>> THEN wire[Len(wire)] ELSE taken

\* The container has the last size taken, if that can be a size.
AppliedLast == taken # None /\ taken \notin Tiny => applied = taken

IInv == /\ TypeOK /\ PathSorted /\ AppliedLast
        /\ ~missed => MonitorFresh /\ EventsFresh /\ SizesFresh

------------------------------------------------------------------------------

\* A channel of one slot, seen as what it holds.
LEMMA OneSlot ==
  ASSUME NEW S, NEW s \in Seq(S), Len(s) <= Slots
  PROVE  \/ s = <<>> /\ Len(s) = 0
         \/ s # <<>> /\ Len(s) = 1 /\ Head(s) = s[1] /\ s[1] \in S /\ Tail(s) = <<>>
<1>0. Len(s) \in Nat
  BY LenProperties
<1>1. s = <<>> <=> Len(s) = 0
  BY EmptySeq
<1>2. Len(s) = 0 \/ Len(s) = 1
  <2>1. \A n \in Nat : n <= Slots => n = 0 \/ n = 1
    BY DEF Slots
  <2> QED
    BY <1>0, <2>1
<1>3. ASSUME s # <<>> PROVE Head(s) = s[1] /\ s[1] \in S
  BY <1>1, <1>2, <1>3, ElementOfSeq
<1>4. ASSUME s # <<>> PROVE Tail(s) = <<>>
  <2>1. Tail(s) \in Seq(S) /\ Len(Tail(s)) = Len(s) - 1
    BY <1>4, HeadTailProperties
  <2>2. Len(Tail(s)) = 0
    BY <1>1, <1>2, <1>4, <2>1
  <2> QED
    BY <2>1, <2>2, EmptySeq
<1> QED
  BY <1>1, <1>2, <1>3, <1>4

\* An empty channel and one with a single size are within the bound.
LEMMA SlotsSuffice == Len(<<>>) <= Slots /\ \A e : Len(<<e>>) <= Slots
<1>1. Len(<<>>) = 0 /\ \A e : Len(<<e>>) = 1
  OBVIOUS
<1>2. 0 <= Slots /\ 1 <= Slots
  BY DEF Slots
<1> QED
  BY <1>1, <1>2

\* The last size on the connection is the one a send has put there.
LEMMA SendAppends ==
  ASSUME NEW s \in Seq(Sizes), NEW e \in Sizes
  PROVE  /\ Append(s, e) \in Seq(Sizes) /\ Append(s, e) # <<>>
         /\ Len(s) \in Nat /\ Len(Append(s, e)) = Len(s) + 1
         /\ \A i \in 1 .. Len(s) : Append(s, e)[i] = s[i]
         /\ Append(s, e)[Len(s) + 1] = e
  BY AppendProperties, LenProperties

\* A receive takes the first size and moves the others up.
LEMMA ReceiveShifts ==
  ASSUME NEW s \in Seq(Sizes), s # <<>>
  PROVE  /\ Head(s) = s[1] /\ s[1] \in Sizes
         /\ Tail(s) \in Seq(Sizes) /\ Len(s) \in Nat \ {0} /\ Len(Tail(s)) = Len(s) - 1
         /\ \A i \in 1 .. Len(s) - 1 : Tail(s)[i] = s[i + 1]
         /\ Tail(s) = <<>> <=> Len(s) = 1
<1>1. Len(s) \in Nat \ {0}
  BY EmptySeq, LenProperties
<1>2. /\ Tail(s) \in Seq(Sizes) /\ Len(Tail(s)) = Len(s) - 1
      /\ \A i \in 1 .. Len(Tail(s)) : Tail(s)[i] = s[i + 1]
  BY HeadTailProperties
<1>3. Head(s) = s[1] /\ s[1] \in Sizes
  BY <1>1, ElementOfSeq
<1>4. Tail(s) = <<>> <=> Len(Tail(s)) = 0
  BY <1>2, EmptySeq
<1> QED
  BY <1>1, <1>2, <1>3, <1>4

\* On the path there are only sizes, which compare as integers.
LEMMA PathOfSizes ==
  ASSUME TypeOK
  PROVE  /\ now \in Int /\ seen \in Int /\ held \in Int /\ taken \in Int
         /\ Len(events) \in Nat /\ \A i \in 1 .. Len(events) : events[i] \in Int
         /\ Len(sizes) \in Nat /\ \A i \in 1 .. Len(sizes) : sizes[i] \in Int
         /\ Len(wire) \in Nat /\ \A i \in 1 .. Len(wire) : wire[i] \in Int
<1>1. Sizes \subseteq Int /\ None \in Int
  BY ResizesAssumption DEF Sizes, None
<1>2. events \in Seq(Sizes) /\ sizes \in Seq(Sizes) /\ wire \in Seq(Sizes)
  BY DEF TypeOK
<1>3. ASSUME NEW s \in Seq(Sizes) PROVE Len(s) \in Nat /\ \A i \in 1 .. Len(s) : s[i] \in Int
  BY <1>1, LenProperties, ElementOfSeq
<1> QED
  BY <1>1, <1>2, <1>3 DEF TypeOK

\* IInv holds when MonitorSize has spawned its goroutines.
LEMMA InitInv == Init => IInv
<1> SUFFICES ASSUME Init PROVE IInv
  OBVIOUS
<1> USE ResizesAssumption DEF Init
<1>1. 0 \in Sizes /\ <<>> \in Seq(Sizes) /\ <<0>> \in Seq(Sizes)
  BY DEF Sizes
<1>2. CASE sizes = <<0>> /\ missed = FALSE
  <2>1. Len(sizes) = 1 /\ sizes[1] = 0
    BY <1>2
  <2>2. Len(events) = 0 /\ Len(wire) = 0
    OBVIOUS
  <2>3. TypeOK
    BY <1>1, <1>2, SlotsSuffice DEF TypeOK
  <2>4. PathSorted /\ AppliedLast
    BY <2>1, <2>2 DEF PathSorted, AppliedLast
  <2>5. MonitorFresh /\ EventsFresh /\ SizesFresh
    BY <1>2, <2>1 DEF MonitorFresh, EventsFresh, SizesFresh
  <2> QED
    BY <2>3, <2>4, <2>5 DEF IInv
<1>3. CASE sizes = <<>> /\ missed = TRUE
  <2>1. Len(events) = 0 /\ Len(wire) = 0 /\ Len(sizes) = 0
    BY <1>3
  <2>2. TypeOK
    BY <1>1, <1>3, SlotsSuffice DEF TypeOK
  <2>3. PathSorted /\ AppliedLast
    BY <2>1, PathOfSizes DEF PathSorted, AppliedLast
  <2> QED
    BY <1>3, <2>2, <2>3 DEF IInv
<1> QED
  BY <1>2, <1>3

\* Every step preserves IInv.
LEMMA StepInv == IInv /\ [Next]_vars => IInv'
<1> SUFFICES ASSUME IInv, [Next]_vars PROVE IInv'
  OBVIOUS
<1> USE ResizesAssumption DEF IInv, plugin, remote, Monitor, Relay
<1>1. CASE UserResizes
  <2> USE <1>1 DEF UserResizes
  <2>1. TypeOK'
    BY DEF TypeOK, Sizes
  <2>2. PathSorted' /\ AppliedLast'
    BY PathOfSizes DEF PathSorted, AppliedLast
  <2>3. ~missed' => MonitorFresh' /\ EventsFresh' /\ SizesFresh'
    BY DEF TypeOK, MonitorFresh, EventsFresh, SizesFresh
  <2> QED
    BY <2>1, <2>2, <2>3
<1>2. CASE Stop \/ StreamStarts
  <2> USE <1>2 DEF Stop, StreamStarts
  <2>1. TypeOK' /\ AppliedLast'
    BY DEF TypeOK, AppliedLast
  <2>2. PathSorted'
    BY DEF PathSorted
  <2>3. ~missed' => MonitorFresh' /\ EventsFresh' /\ SizesFresh'
    BY DEF MonitorFresh, EventsFresh, SizesFresh
  <2> QED
    BY <2>1, <2>2, <2>3
<1>3. CASE MonitorStarts \/ MonitorGivesUp \/ MonitorStops
  <2> USE <1>3 DEF MonitorStarts, MonitorGivesUp, MonitorStops
  <2>1. TypeOK'
    BY DEF TypeOK
  <2>2. PathSorted' /\ AppliedLast'
    BY PathOfSizes DEF PathSorted, AppliedLast
  <2>3. ~missed' => MonitorFresh' /\ EventsFresh' /\ SizesFresh'
    BY DEF TypeOK, MonitorFresh, EventsFresh, SizesFresh
  <2> QED
    BY <2>1, <2>2, <2>3
<1>4. CASE Wake \/ ReadSize
  <2> USE <1>4 DEF Wake, ReadSize
  <2>1. TypeOK'
    BY DEF TypeOK
  <2>2. PathSorted' /\ AppliedLast'
    BY PathOfSizes DEF PathSorted, AppliedLast
  <2>3. ~missed' => MonitorFresh' /\ EventsFresh' /\ SizesFresh'
    BY DEF TypeOK, MonitorFresh, EventsFresh, SizesFresh
  <2> QED
    BY <2>1, <2>2, <2>3
<1>5. CASE SendEvent
  <2> USE <1>5 DEF SendEvent
  <2>1. Len(events) \in Nat /\ (Len(events) < Slots <=> events = <<>>)
    BY OneSlot, LenProperties DEF TypeOK, Slots
  <2>2. CASE events = <<>> /\ events' = <<seen>> /\ UNCHANGED missed
    <3>1. TypeOK'
      BY <2>2, SlotsSuffice DEF TypeOK
    <3>2. PathSorted' /\ AppliedLast'
      BY <2>2, PathOfSizes DEF PathSorted, AppliedLast
    <3>3. ~missed' => MonitorFresh' /\ EventsFresh' /\ SizesFresh'
      BY <2>2 DEF TypeOK, MonitorFresh, EventsFresh, SizesFresh
    <3> QED
      BY <3>1, <3>2, <3>3
  <2>3. CASE missed' = TRUE /\ UNCHANGED events
    BY <2>3 DEF TypeOK, PathSorted, AppliedLast
  <2>4. events = <<>> => Append(events, seen) = <<seen>>
    OBVIOUS
  <2> QED
    BY <2>1, <2>2, <2>3, <2>4
<1>6. CASE TakeEvent
  <2> USE <1>6 DEF TakeEvent
  <2>1. Len(events) = 1 /\ held' = events[1] /\ held' \in Sizes /\ events' = <<>>
    BY OneSlot DEF TypeOK
  <2>2. TypeOK'
    BY <2>1, EmptySeq, SlotsSuffice DEF TypeOK
  <2>3. PathSorted' /\ AppliedLast'
    <3>1. held <= held' /\ held' <= seen' /\ seen' <= now' /\ held' \in Int
      BY <2>1, PathOfSizes DEF PathSorted
    <3>2. Len(events') = 0
      BY <2>1
    <3>3. \A n \in Int : n <= held => n <= held'
      BY <3>1, PathOfSizes
    <3>4. \A i \in 1 .. Len(sizes) : sizes[i] <= held'
      BY <3>3, PathOfSizes DEF PathSorted
    <3>5. \A i \in 1 .. Len(wire) : wire[i] <= held'
      BY <3>3, PathOfSizes DEF PathSorted
    <3>6. taken # None => taken <= held'
      BY <3>3, PathOfSizes DEF PathSorted
    <3>7. \A i \in 1 .. Len(events') : held' <= events'[i] /\ events'[i] <= seen'
      BY <3>2
    <3>8. UNCHANGED <<sizes, wire, taken, applied>>
      OBVIOUS
    <3>9. AppliedLast'
      BY <3>8 DEF AppliedLast
    <3> HIDE <1>6
    <3> QED
      BY <3>1, <3>4, <3>5, <3>6, <3>7, <3>8, <3>9 DEF PathSorted
  <2>4. ~missed' => MonitorFresh' /\ EventsFresh' /\ SizesFresh'
    BY <2>1 DEF TypeOK, MonitorFresh, EventsFresh, SizesFresh
  <2> QED
    BY <2>2, <2>3, <2>4
<1>7. CASE OfferSize
  <2> USE <1>7 DEF OfferSize
  <2>1. Len(sizes) \in Nat /\ (Len(sizes) < Slots <=> sizes = <<>>)
    BY OneSlot, LenProperties DEF TypeOK, Slots
  <2>2. CASE sizes = <<>> /\ sizes' = <<held>> /\ UNCHANGED missed
    <3>1. TypeOK'
      BY <2>2, SlotsSuffice DEF TypeOK
    <3>2. PathSorted' /\ AppliedLast'
      BY <2>2, PathOfSizes DEF PathSorted, AppliedLast
    <3>3. ~missed' => MonitorFresh' /\ EventsFresh' /\ SizesFresh'
      BY <2>2 DEF TypeOK, MonitorFresh, EventsFresh, SizesFresh
    <3> QED
      BY <3>1, <3>2, <3>3
  <2>3. CASE missed' = TRUE /\ UNCHANGED sizes
    BY <2>3 DEF TypeOK, PathSorted, AppliedLast
  <2>4. sizes = <<>> => Append(sizes, held) = <<held>>
    OBVIOUS
  <2> QED
    BY <2>1, <2>2, <2>3, <2>4
<1>8. CASE RelayStops
  BY <1>8 DEF RelayStops, TypeOK, PathSorted, AppliedLast, MonitorFresh, EventsFresh, SizesFresh
<1>9. CASE NextSize
  <2> USE <1>9 DEF NextSize
  <2> DEFINE e == sizes[1]
  <2>1. Len(sizes) = 1 /\ e \in Sizes /\ wire' = Append(wire, e) /\ sizes' = <<>> /\ Len(sizes') = 0
    BY OneSlot, EmptySeq DEF TypeOK
  <2>2. /\ wire' \in Seq(Sizes) /\ wire' # <<>> /\ Len(wire) \in Nat /\ Len(wire') = Len(wire) + 1
        /\ \A i \in 1 .. Len(wire) : wire'[i] = wire[i]
        /\ wire'[Len(wire')] = e
    BY <2>1, SendAppends DEF TypeOK
  <2>3. TypeOK'
    BY <2>1, <2>2, EmptySeq, SlotsSuffice DEF TypeOK
  <2>4. PathSorted' /\ AppliedLast'
    <3>1. Len(sizes') = 0
      BY <2>1
    <3>2. e <= held /\ (taken # None => taken <= e) /\ \A i \in 1 .. Len(wire) : wire[i] <= e
      BY <2>1 DEF PathSorted
    <3>3. \A i \in 1 .. Len(wire') : wire'[i] <= held /\ wire'[i] <= e
      BY <2>1, <2>2, <3>2, PathOfSizes DEF PathSorted
    <3>4. ASSUME NEW i \in 1 .. Len(wire'), NEW j \in i .. Len(wire') PROVE wire'[i] <= wire'[j]
      <4>1. CASE j = Len(wire')
        BY <2>2, <3>3, <4>1
      <4>2. CASE j # Len(wire')
        <5>1. i \in 1 .. Len(wire) /\ j \in i .. Len(wire)
          BY <2>2, <4>2
        <5> QED
          BY <2>2, <5>1 DEF PathSorted
      <4> QED
        BY <4>1, <4>2
    <3>5. ASSUME taken # None, NEW i \in 1 .. Len(wire') PROVE taken <= wire'[i]
      BY <2>2, <3>2, <3>5 DEF PathSorted
    <3>6. UNCHANGED <<events, held, seen, now, taken, applied>>
      OBVIOUS
    <3>7. AppliedLast'
      BY <3>6 DEF AppliedLast
    <3> HIDE <1>9
    <3> QED
      BY <3>1, <3>3, <3>4, <3>5, <3>6, <3>7 DEF PathSorted
  <2>5. ~missed' => MonitorFresh' /\ EventsFresh' /\ SizesFresh'
    BY <2>1, <2>2 DEF TypeOK, MonitorFresh, EventsFresh, SizesFresh
  <2> QED
    BY <2>3, <2>4, <2>5
<1>10. CASE HandleResizing
  <2> USE <1>10 DEF HandleResizing
  <2>1. /\ taken' = wire[1] /\ wire[1] \in Sizes
        /\ wire' \in Seq(Sizes) /\ Len(wire) \in Nat \ {0} /\ Len(wire') = Len(wire) - 1
        /\ \A i \in 1 .. Len(wire) - 1 : wire'[i] = wire[i + 1]
        /\ wire' = <<>> <=> Len(wire) = 1
    BY ReceiveShifts DEF TypeOK
  <2>2. TypeOK'
    BY <2>1, ReceiveShifts DEF TypeOK
  <2>3. PathSorted'
    <3>1. /\ wire[1] <= held
          /\ \A i \in 1 .. Len(wire) : wire[1] <= wire[i]
          /\ \A j \in 1 .. Len(sizes) : wire[1] <= sizes[j]
      BY <2>1 DEF PathSorted
    <3>2. ASSUME NEW i \in 1 .. Len(wire')
          PROVE  /\ wire'[i] <= held /\ wire[1] <= wire'[i]
                 /\ \A j \in i .. Len(wire') : wire'[i] <= wire'[j]
                 /\ \A j \in 1 .. Len(sizes) : wire'[i] <= sizes[j]
      <4>1. i + 1 \in 1 .. Len(wire) /\ wire'[i] = wire[i + 1]
        BY <2>1
      <4>2. ASSUME NEW j \in i .. Len(wire') PROVE wire'[i] <= wire'[j]
        <5>1. j + 1 \in i + 1 .. Len(wire) /\ wire'[j] = wire[j + 1]
          BY <2>1
        <5> QED
          BY <4>1, <5>1 DEF PathSorted
      <4> QED
        BY <3>1, <4>1, <4>2 DEF PathSorted
    <3> QED
      BY <2>1, <3>1, <3>2 DEF PathSorted
  <2>4. AppliedLast'
    BY <2>1, ReceiveShifts DEF TypeOK, AppliedLast
  <2>5. ~missed' => MonitorFresh' /\ EventsFresh' /\ SizesFresh'
    BY <2>1 DEF TypeOK, MonitorFresh, EventsFresh, SizesFresh
  <2> QED
    BY <2>2, <2>3, <2>4, <2>5
<1>11. CASE UNCHANGED vars
  BY <1>11 DEF vars, TypeOK, PathSorted, AppliedLast, MonitorFresh, EventsFresh, SizesFresh
<1> QED
  BY <1>1, <1>2, <1>3, <1>4, <1>5, <1>6, <1>7, <1>8, <1>9, <1>10, <1>11
     DEF Next, MonitorStep, RelayStep, Idle

\* IInv is an invariant of the pipeline.
THEOREM Invariance == Spec => []IInv
  BY InitInv, StepInv, PTL DEF Spec

------------------------------------------------------------------------------

\* The pipeline keeps its types: no channel holds more than it has slots, though
\* two of its three sends do not look before they send.
THEOREM TypeCorrect == Spec => []TypeOK
<1>1. IInv => TypeOK
  BY DEF IInv
<1> QED
  BY <1>1, Invariance, PTL

\* When all is at rest and nothing was missed, the container has the terminal's
\* size: the stages' last sizes are equal from one end of the path to the other.
THEOREM FreshWhenQuiet == Spec => []FreshAtRest
<1>1. IInv => FreshAtRest
  <2> SUFFICES ASSUME IInv, Quiet, ~missed PROVE taken = now /\ (now \notin Tiny => applied = now)
    BY DEF FreshAtRest
  <2>1. seen = now
    BY DEF IInv, Quiet, TypeOK, MonitorFresh
  <2>2. held = seen /\ taken = held
    BY DEF IInv, Quiet, EventsFresh, SizesFresh
  <2>3. now # None
    BY ResizesAssumption DEF IInv, TypeOK, Sizes, None
  <2> QED
    BY <2>1, <2>2, <2>3 DEF IInv, AppliedLast
<1> QED
  BY <1>1, Invariance, PTL

\* The agent is never given an older size after a newer one: only HandleResizing
\* takes a size, the first of the connection, and the path is sorted.
THEOREM SizesInOrder == Spec => NeverBackwards
<1>1. IInv /\ [Next]_vars => [taken # None => taken' >= taken]_vars
  <2> SUFFICES ASSUME IInv, Next, taken # None PROVE taken' >= taken
    BY DEF vars
  <2>1. taken \in Int
    BY ResizesAssumption DEF IInv, TypeOK, Sizes, None
  <2>2. CASE HandleResizing
    <3>1. taken' = wire[1] /\ Len(wire) \in Nat \ {0} /\ wire[1] \in Sizes
      BY <2>2, ReceiveShifts DEF IInv, TypeOK, HandleResizing
    <3> QED
      BY <3>1, <2>1 DEF IInv, PathSorted, Sizes
  <2>3. CASE ~HandleResizing
    <3>1. UNCHANGED taken
      BY <2>3 DEF Next, UserResizes, Stop, MonitorStep, MonitorStarts, MonitorStops, Wake, ReadSize,
                  SendEvent, MonitorGivesUp, RelayStep, TakeEvent, OfferSize, RelayStops,
                  StreamStarts, NextSize, Idle, Monitor, Relay, vars, remote
    <3> QED
      BY <3>1, <2>1
  <2> QED
    BY <2>2, <2>3
<1> QED
  BY <1>1, Invariance, PTL DEF Spec, NeverBackwards
==============================================================================
