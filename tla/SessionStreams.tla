---------------------------- MODULE SessionStreams ----------------------------
(****************************************************************************)
(* What a debug session has around its handler whatever the container       *)
(* runtime: the SPDY connection of the client, the copiers of the input and *)
(* of the output, and the two goroutines that bring the terminal's sizes,   *)
(* the kubelet's reader of resize events and HandleResizing's, joined by an *)
(* unbuffered channel.  DockerSession and ContainerdSession extend it.      *)
(****************************************************************************)

VARIABLES
  conn,       \* the SPDY connection of the client
  stdin,      \* copies the client's input to the container
  stdout,     \* copies the container's output to the client
  events,     \* reads resize events from the client
  resizer     \* applies them to the container

streams == <<conn, stdin, stdout>>
resizing == <<events, resizer>>

StreamTypes ==
  /\ conn \in {"open", "closed"}
  /\ stdin \in {"idle", "copying", "done"}
  /\ stdout \in {"idle", "copying", "sending", "done"}
  /\ events \in {"reading", "offering", "done"}
  /\ resizer \in {"off", "waiting", "calling", "done"}

\* The kubelet reads resize events as soon as it has the streams.
StreamsInit ==
  /\ conn \in {"open", "closed"}
  /\ stdin = "idle"
  /\ stdout = "idle"
  /\ events = "reading"
  /\ resizer = "off"

\* The input ends with the user's end of file or with the connection.
StdinEnds ==
  /\ stdin = "copying"
  /\ stdin' = "done"
  /\ UNCHANGED <<conn, stdout, resizing>>

\* A size arrives, or the stream ends with the connection.
ReadEvent ==
  /\ events = "reading"
  /\ \/ conn = "open" /\ events' = "offering"
     \/ conn = "closed" /\ events' = "done"
  /\ UNCHANGED <<streams, resizer>>

\* The channel has no buffer: a size is taken by a waiting HandleResizing.
TakeSize ==
  /\ events = "offering"
  /\ resizer = "waiting"
  /\ events' = "reading"
  /\ resizer' = "calling"
  /\ UNCHANGED streams

\* The request to the runtime ends, and its error is dropped.
ResizeDone ==
  /\ resizer = "calling"
  /\ resizer' = "waiting"
  /\ UNCHANGED <<streams, events>>

ResizeClosed ==
  /\ resizer = "waiting"
  /\ events = "done"
  /\ resizer' = "done"
  /\ UNCHANGED <<streams, events>>

Resizing == ReadEvent \/ TakeSize \/ ResizeDone \/ ResizeClosed

ClientLeaves ==
  /\ conn = "open"
  /\ conn' = "closed"
  /\ UNCHANGED <<stdin, stdout, resizing>>
==============================================================================
