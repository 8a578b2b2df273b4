---------------------------- MODULE TerminalResize ----------------------------
(****************************************************************************)
(* How the size of the user's terminal reaches the debug container: the     *)
(* goroutines of pkg/util/resize.go and resizeevents*.go in the plugin, and *)
(* HandleResizing of pkg/agent/resize.go in the agent.                      *)
(*                                                                          *)
(*   terminal -> monitor -> resizeEvents -> relay -> resizeChan -> Next     *)
(*            -> connection -> HandleResizing -> container                  *)
(*                                                                          *)
(* Both channels of the plugin have one slot and are filled by sends that   *)
(* do not block (but for the Windows monitor's).  The sizes of the terminal *)
(* are numbered in the order in which it takes them.                        *)
(****************************************************************************)
EXTENDS Naturals, Sequences

CONSTANTS
  MaxResizes,  \* how many times the user resizes the terminal
  Tiny         \* the sizes that have a zero side

ASSUME ResizesAssumption == MaxResizes \in Nat /\ Tiny \subseteq Nat

VARIABLES
  platform,   \* which monitorResizeEvents the plugin was built with
  now,        \* the terminal's size
  winch,      \* a SIGWINCH is pending for the monitor
  monitor,    \* the goroutine of monitorResizeEvents
  seen,       \* the last size it read
  events,     \* resizeEvents
  relay,      \* the goroutine of monitorSize
  held,       \* the size it took from resizeEvents
  sizes,      \* resizeChan
  stopped,    \* stopResizing is closed
  streaming,  \* the client's stream is up and calls Next
  wire,       \* sizes on the connection
  taken,      \* the last size HandleResizing took
  applied,    \* the last size it gave to the container
  missed      \* a resize that nobody heard of, or a size that was dropped

plugin == <<monitor, seen, events, relay, held, sizes>>
remote == <<streaming, wire, taken, applied>>
vars == <<platform, now, winch, plugin, stopped, remote, missed>>

Sizes == 0 .. MaxResizes
None  == MaxResizes + 1   \* no size has arrived yet

Slots == 1  \* of resizeEvents, and of resizeChan: MonitorSize is given one size

\* Every variable has its type: among others, no channel holds more sizes than it
\* has slots.
TypeOK ==
  /\ platform \in {"unix", "windows"}
  /\ now \in Sizes
  /\ winch \in BOOLEAN
  /\ monitor \in {"starting", "waiting", "reading", "holding", "done"}
  /\ seen \in Sizes
  /\ events \in Seq(Sizes) /\ Len(events) <= Slots
  /\ relay \in {"waiting", "holding", "done"}
  /\ held \in Sizes
  /\ sizes \in Seq(Sizes) /\ Len(sizes) <= Slots
  /\ stopped \in BOOLEAN
  /\ streaming \in BOOLEAN
  /\ wire \in Seq(Sizes)
  /\ taken \in Sizes \cup {None}
  /\ applied \in Sizes \cup {None}
  /\ missed \in BOOLEAN

\* MonitorSize has primed resizeChan, unless the size could not be read, and has
\* spawned the goroutines.
Init ==
  /\ platform \in {"unix", "windows"}
  /\ now = 0
  /\ winch = FALSE
  /\ monitor = "starting"
  /\ seen = 0
  /\ events = <<>>
  /\ relay = "waiting"
  /\ held = 0
  /\ \/ sizes = <<0>> /\ missed = FALSE
     \/ sizes = <<>> /\ missed = TRUE
  /\ stopped = FALSE
  /\ streaming = FALSE
  /\ wire = <<>>
  /\ taken = None
  /\ applied = None

------------------------------------------------------------------------------
\* The terminal.

\* A signal is lost on a monitor that has not asked for it yet.  The pending
\* signals are one.
UserResizes ==
  /\ now < MaxResizes
  /\ now' = now + 1
  /\ winch' = (platform = "unix" /\ monitor \notin {"starting", "done"})
  /\ missed' = (missed \/ monitor \in {"starting", "done"})
  /\ UNCHANGED <<platform, plugin, stopped, remote>>

\* stop, called once when TTY.Safe returns or is interrupted.
Stop ==
  /\ ~stopped
  /\ stopped' = TRUE
  /\ UNCHANGED <<platform, now, winch, plugin, remote, missed>>

------------------------------------------------------------------------------
\* monitorResizeEvents.

Monitor(from, to) ==
  /\ monitor = from
  /\ monitor' = to
  /\ UNCHANGED <<platform, now, relay, held, sizes, stopped, remote>>

\* The Windows monitor first reads the size with which it compares the next.
MonitorStarts ==
  /\ Monitor("starting", "waiting")
  /\ seen' = IF platform = "windows" THEN now ELSE seen
  /\ UNCHANGED <<winch, events, missed>>

\* GetSize returned nil: the goroutine gives up.
MonitorGivesUp ==
  /\ \/ Monitor("reading", "done")
     \/ platform = "windows" /\ Monitor("starting", "done")
  /\ missed' = TRUE
  /\ UNCHANGED <<winch, seen, events>>

MonitorStops ==
  /\ stopped
  /\ Monitor("waiting", "done")
  /\ UNCHANGED <<winch, seen, events, missed>>

\* The Unix monitor waits for a signal, the Windows one polls unless it finds
\* that it is to stop.
Wake ==
  /\ \/ platform = "unix" /\ winch
     \/ platform = "windows" /\ ~stopped
  /\ winch' = FALSE
  /\ Monitor("waiting", "reading")
  /\ UNCHANGED <<seen, events, missed>>

\* Mutated ReadSize: the size sent is the one of the previous event.
ReadSizeBefore ==
  /\ Monitor("reading", IF platform = "windows" /\ seen = now THEN "waiting" ELSE "holding")
  /\ UNCHANGED <<seen, winch, events, missed>>

\* The Windows monitor sends the size only if it is another one.
ReadSize ==
  /\ Monitor("reading", IF platform = "windows" /\ seen = now THEN "waiting" ELSE "holding")
  /\ seen' = now
  /\ UNCHANGED <<winch, events, missed>>

\* Mutated SendEvent: the Unix monitor waits for room as the Windows one does.
SendEventBlocking ==
  /\ Monitor("holding", "waiting")
  /\ Len(events) < Slots
  /\ events' = Append(events, seen)
  /\ UNCHANGED <<winch, seen, missed>>

\* The Unix monitor drops the size when the channel is full, the Windows one
\* waits for room.
SendEvent ==
  /\ Monitor("holding", "waiting")
  /\ \/ Len(events) < Slots /\ events' = Append(events, seen) /\ UNCHANGED missed
     \/ platform = "unix" /\ Len(events) = Slots /\ missed' = TRUE /\ UNCHANGED events
  /\ UNCHANGED <<winch, seen>>

------------------------------------------------------------------------------
\* monitorSize and Next.

Relay(from, to) ==
  /\ relay = from
  /\ relay' = to
  /\ UNCHANGED <<platform, now, winch, monitor, seen, stopped, remote>>

TakeEvent ==
  /\ events # <<>>
  /\ held' = Head(events)
  /\ events' = Tail(events)
  /\ Relay("waiting", "holding")
  /\ UNCHANGED <<sizes, missed>>

\* Mutated OfferSize: room is made for the new size, and none is dropped.
OfferSizeAnyway ==
  /\ Relay("holding", "waiting")
  /\ sizes' = Append(sizes, held)
  /\ UNCHANGED <<events, held, missed>>

\* A new size does not replace the one that waits in resizeChan.
OfferSize ==
  /\ Relay("holding", "waiting")
  /\ \/ Len(sizes) < Slots /\ sizes' = Append(sizes, held) /\ UNCHANGED missed
     \/ Len(sizes) = Slots /\ missed' = TRUE /\ UNCHANGED sizes
  /\ UNCHANGED <<events, held>>

RelayStops ==
  /\ stopped
  /\ Relay("waiting", "done")
  /\ UNCHANGED <<events, held, sizes, missed>>

\* Until the stream is up, while the agent pulls the image, nobody calls Next.
StreamStarts ==
  /\ ~streaming
  /\ streaming' = TRUE
  /\ UNCHANGED <<platform, now, winch, plugin, stopped, wire, taken, applied, missed>>

\* Mutated NextSize: the newest size is sent before those on their way.
NextOvertakes ==
  /\ streaming
  /\ sizes # <<>>
  /\ wire' = sizes \o wire
  /\ sizes' = <<>>
  /\ UNCHANGED <<platform, now, winch, monitor, seen, events, relay, held, stopped, streaming, taken,
                 applied, missed>>

\* sizeQueue.Next, called by the client's stream, which sends what it returns.
NextSize ==
  /\ streaming
  /\ sizes # <<>>
  /\ wire' = Append(wire, Head(sizes))
  /\ sizes' = Tail(sizes)
  /\ UNCHANGED <<platform, now, winch, monitor, seen, events, relay, held, stopped, streaming, taken,
                 applied, missed>>

\* HandleResizing ignores a size that has a zero side.
HandleResizing ==
  /\ wire # <<>>
  /\ taken' = Head(wire)
  /\ applied' = IF Head(wire) \in Tiny THEN applied ELSE Head(wire)
  /\ wire' = Tail(wire)
  /\ UNCHANGED <<platform, now, winch, plugin, stopped, streaming, missed>>

------------------------------------------------------------------------------

MonitorStep == MonitorStarts \/ MonitorStops \/ Wake \/ ReadSize \/ SendEvent
RelayStep   == TakeEvent \/ OfferSize \/ RelayStops

\* Nothing is left to do once the user and the session are done.
Idle ==
  /\ now = MaxResizes /\ stopped
  /\ UNCHANGED vars

Next ==
  \/ UserResizes \/ Stop
  \/ MonitorStep \/ MonitorGivesUp \/ RelayStep
  \/ StreamStarts \/ NextSize \/ HandleResizing
  \/ Idle

\* The scheduler runs every goroutine that can run.  The user need not resize or
\* end the session, nor the stream ever start.
Fairness ==
  /\ WF_vars(MonitorStep)
  /\ WF_vars(RelayStep)
  /\ WF_vars(NextSize)
  /\ WF_vars(HandleResizing)

Spec     == Init /\ [][Next]_vars
FairSpec == Spec /\ Fairness

------------------------------------------------------------------------------
\* Properties.

\* The container is never given an older size after a newer one, whatever was
\* dropped on the way.
NeverBackwards == [][taken # None => taken' >= taken]_vars

Quiet ==
  /\ ~winch /\ monitor = "waiting" /\ relay = "waiting"
  /\ events = <<>> /\ sizes = <<>> /\ wire = <<>>
  /\ platform = "windows" => seen = now

\* When everything has come to rest and nothing was missed, the agent has taken
\* the terminal's size: a resize during any step of the relay is not lost.
FreshAtRest == Quiet /\ ~missed => taken = now /\ (now \notin Tiny => applied = now)

\* The one goroutine that stop does not end, against the comment of
\* resizeevents_windows.go: the Windows monitor waits for room that nobody makes.
StuckInSend == platform = "windows" /\ monitor = "holding" /\ Len(events) = Slots

\* stop ends both goroutines, whatever the channels hold; it leaves the Windows
\* monitor only where its send has no default branch.
StopEndsMonitoring == stopped ~> (relay = "done" /\ (monitor = "done" \/ StuckInSend))
==============================================================================
