--------------------------- MODULE StreamPipeline ---------------------------
(***************************************************************************)
(* One message/stream request, from the module's output to the client: the *)
(* executor task that forwards the module's chunks over one bounded        *)
(* channel, the driver of handle_stream that turns them into events and    *)
(* sends these over another, and the client that reads the response.       *)
(*                                                                         *)
(* A send to a full channel waits for room; a send to a channel whose      *)
(* receiver is gone returns at once. Tokens, webhooks and tasks/cancel are *)
(* in TaskServer.                                                          *)
(***************************************************************************)
EXTENDS Naturals, Sequences, SequencesExt, TaskStates

CONSTANTS
  Capacity,   \* capacity of either channel (16 in the code)
  MaxChunks,  \* bound on the chunks a module yields
  None        \* no outcome yet

ASSUME PipelineAssumption ==
  /\ Capacity \in Nat \ {0}
  /\ MaxChunks \in Nat
  /\ None \notin TaskState

VARIABLES
  producer,   \* the executor task; "ended" after the module's stream ended by itself
  produced,   \* chunks the module's stream has yielded
  chunks,     \* channel from the executor task to the driver
  driver,     \* where the driver stands
  held,       \* the chunk the driver is sending
  error,      \* status of the error that ended the output, or None
  events,     \* channel from the driver to the response
  stored,     \* status the task store took, "lost" if the write failed, or None
  log,        \* the events the client has read
  client      \* "open", "left" or "ended"

producerVars == <<producer, produced>>
driverVars == <<driver, held, error, stored>>
clientVars == <<log, client>>
vars == <<producerVars, chunks, driverVars, events, clientVars>>

Session == INSTANCE SseSession
StatusUpdate(s) == Session!StatusUpdate(s)
ArtifactUpdate(n, append, last) == Session!ArtifactUpdate(n, append, last)

\* What a module's stream yields: a chunk, or the error that ends it.
Ok(n) == [ok |-> TRUE, chunk |-> n, status |-> "COMPLETED"]
Err(s) == [ok |-> FALSE, chunk |-> 0, status |-> s]

\* What the two channels carry.
Item == [ok : BOOLEAN, chunk : 0..MaxChunks, status : TaskState]
Event == [type : {"status"}, state : TaskState]
           \cup [type : {"artifact"}, chunk : 0..MaxChunks, append : BOOLEAN, last_chunk : BOOLEAN]

\* The channels keep to their capacity; the two events of a rejected message are
\* not sent through one.
TypeOK ==
  /\ producer \in {"idle", "driving", "expired", "ended", "failed"}
  /\ produced \in 0..MaxChunks
  /\ chunks \in Seq(Item) /\ Len(chunks) =< Capacity
  /\ driver \in {"idle", "submitted", "refuse", "working", "receive", "forward", "marker",
                 "save", "last", "done", "dropped"}
  /\ held \in 0..MaxChunks
  /\ error \in TaskState \cup {None}
  /\ events \in Seq(Event) /\ (Len(events) =< Capacity \/ Len(events) = 2)
  /\ stored \in TaskState \cup {"lost", None}
  /\ log \in Seq(Event)
  /\ client \in {"open", "left", "ended"}

Init ==
  /\ producer = "idle" /\ produced = 0 /\ chunks = <<>>
  /\ driver = "idle" /\ held = 0 /\ error = None /\ stored = None
  /\ events = <<>>
  /\ Session!Init

-----------------------------------------------------------------------------
(* The executor task: ApCoreAgentExecutor::stream_channel *)

\* The module's stream yields its next chunk and the channel takes it.
ModuleYields ==
  /\ producer = "driving"
  /\ produced < MaxChunks
  /\ Len(chunks) < Capacity
  /\ produced' = produced + 1
  /\ chunks' = Append(chunks, Ok(produced + 1))
  /\ UNCHANGED <<producer, driverVars, events, clientVars>>

\* The module's stream fails; forwarding stops after the error.
ModuleFails ==
  /\ producer = "driving"
  /\ Len(chunks) < Capacity
  /\ \E e \in ErrorKind : chunks' = Append(chunks, Err(error_to_status(e)))
  /\ producer' = "failed"
  /\ UNCHANGED <<produced, driverVars, events, clientVars>>

ModuleEnds ==
  /\ producer = "driving"
  /\ producer' = "ended"
  /\ UNCHANGED <<produced, chunks, driverVars, events, clientVars>>

\* Mutants of TimeoutElapses: the budget never runs out; it closes the channel
\* without a word.
NoTimeout == FALSE /\ UNCHANGED vars

TimeoutSilent ==
  /\ producer = "driving"
  /\ producer' = "failed"
  /\ UNCHANGED <<produced, chunks, driverVars, events, clientVars>>

\* The budget of the whole stream runs out, also while a send waits for room.
TimeoutElapses ==
  /\ producer = "driving"
  /\ producer' = "expired"
  /\ UNCHANGED <<produced, chunks, driverVars, events, clientVars>>

SendTimeout ==
  /\ producer = "expired"
  /\ Len(chunks) < Capacity
  /\ chunks' = Append(chunks, Err(error_to_status("ModuleTimeout")))
  /\ producer' = "failed"
  /\ UNCHANGED <<produced, driverVars, events, clientVars>>

-----------------------------------------------------------------------------
(* The driver: the task handle_stream spawns *)

\* Sends an event and goes on to step next. A client that left is ignored.
send(ev, next) ==
  /\ \/ client = "open" /\ Len(events) < Capacity /\ events' = Append(events, ev)
     \/ client # "open" /\ UNCHANGED events
  /\ driver' = next

\* A message without usable parts or skill id: failed_task_stream writes the
\* FAILED task before it answers with two ready events.
ReceiveRejected ==
  /\ driver = "idle" /\ client = "open"
  /\ driver' = "refuse"
  /\ UNCHANGED <<producerVars, chunks, held, error, stored, events, clientVars>>

AnswerRejected ==
  /\ driver = "refuse" /\ client = "open"
  /\ stored' \in {"FAILED", "lost"}
  /\ events' = <<StatusUpdate("SUBMITTED"), StatusUpdate("FAILED")>>
  /\ driver' = "done"
  /\ UNCHANGED <<producerVars, chunks, held, error, clientVars>>

\* That handler is dropped with its request when the client has left.
DropRejected ==
  /\ driver = "refuse" /\ client = "left"
  /\ driver' = "dropped"
  /\ UNCHANGED <<producerVars, chunks, held, error, stored, events, clientVars>>

Start ==
  /\ driver = "idle" /\ client = "open"
  /\ driver' = "submitted"
  /\ UNCHANGED <<producerVars, chunks, held, error, stored, events, clientVars>>

\* A skill the registry does not know fails the task without running a module.
SendSubmitted ==
  /\ driver = "submitted"
  /\ \/ send(StatusUpdate("SUBMITTED"), "working") /\ UNCHANGED error
     \/ send(StatusUpdate("SUBMITTED"), "save") /\ error' = "FAILED"
  /\ UNCHANGED <<producerVars, chunks, held, stored, clientVars>>

\* After WORKING the driver starts the executor task.
SendWorking ==
  /\ driver = "working"
  /\ send(StatusUpdate("WORKING"), "receive")
  /\ producer' = "driving"
  /\ UNCHANGED <<produced, chunks, held, error, stored, clientVars>>

ReceiveChunk ==
  /\ driver = "receive"
  /\ chunks # <<>> /\ Head(chunks).ok
  /\ held' = Head(chunks).chunk
  /\ chunks' = Tail(chunks)
  /\ driver' = "forward"
  /\ UNCHANGED <<producerVars, error, stored, events, clientVars>>

ReceiveError ==
  /\ driver = "receive"
  /\ chunks # <<>> /\ ~ Head(chunks).ok
  /\ error' = Head(chunks).status
  /\ chunks' = Tail(chunks)
  /\ driver' = "save"
  /\ UNCHANGED <<producerVars, held, stored, events, clientVars>>

\* The channel is empty and its sender gone.
ReceiveEnd ==
  /\ driver = "receive"
  /\ chunks = <<>> /\ producer \in {"ended", "failed"}
  /\ driver' = "marker"
  /\ UNCHANGED <<producerVars, chunks, held, error, stored, events, clientVars>>

\* Mutant of SendChunk: every chunk opens the artifact anew.
SendChunkUnappended ==
  /\ driver = "forward"
  /\ send(ArtifactUpdate(held, FALSE, FALSE), "receive")
  /\ UNCHANGED <<producerVars, chunks, held, error, stored, clientVars>>

\* Chunks are received in order: the first is the one numbered 1.
SendChunk ==
  /\ driver = "forward"
  /\ send(ArtifactUpdate(held, held > 1, FALSE), "receive")
  /\ UNCHANGED <<producerVars, chunks, held, error, stored, clientVars>>

\* The end marker of a successful output.
SendMarker ==
  /\ driver = "marker"
  /\ send(ArtifactUpdate(0, held > 0, TRUE), "save")
  /\ UNCHANGED <<producerVars, chunks, held, error, stored, clientVars>>

\* Mutant of final_status: the success case forgotten.
final_status_unset == error

final_status == IF error = None THEN "COMPLETED" ELSE error

\* Mutant of SaveTask: the task is left to be written later.
SaveTaskLater ==
  /\ driver = "save"
  /\ driver' = "last"
  /\ UNCHANGED <<producerVars, chunks, held, error, stored, events, clientVars>>

\* save_task of the outcome: a failed write is logged and the stream goes on.
SaveTask ==
  /\ driver = "save"
  /\ stored' \in {final_status, "lost"}
  /\ driver' = "last"
  /\ UNCHANGED <<producerVars, chunks, held, error, events, clientVars>>

SendLast ==
  /\ driver = "last"
  /\ send(StatusUpdate(final_status), "done")
  /\ UNCHANGED <<producerVars, chunks, held, error, stored, clientVars>>

-----------------------------------------------------------------------------
(* The response *)

ClientReads ==
  /\ client = "open" /\ events # <<>>
  /\ log' = Append(log, Head(events))
  /\ events' = Tail(events)
  /\ UNCHANGED <<producerVars, chunks, driverVars, client>>

\* The client disconnects: the response and its end of the channel are dropped.
ClientLeaves ==
  /\ client = "open"
  /\ client' = "left"
  /\ events' = <<>>
  /\ UNCHANGED <<producerVars, chunks, driverVars, log>>

\* The response ends when the driver is done and its events are read.
ResponseEnds ==
  /\ client = "open" /\ driver = "done" /\ events = <<>>
  /\ client' = "ended"
  /\ UNCHANGED <<producerVars, chunks, driverVars, events, log>>

-----------------------------------------------------------------------------
Executor == ModuleYields \/ ModuleFails \/ ModuleEnds \/ TimeoutElapses \/ SendTimeout

Driver ==
  \/ AnswerRejected \/ DropRejected \/ SendSubmitted \/ SendWorking
  \/ ReceiveChunk \/ ReceiveError \/ ReceiveEnd \/ SendChunk \/ SendMarker
  \/ SaveTask \/ SendLast

Next ==
  \/ ReceiveRejected \/ Start \/ Executor \/ Driver
  \/ ClientReads \/ ClientLeaves \/ ResponseEnds

\* The server's tasks run and the timeout elapses; a module need not return.
ServerFairness ==
  /\ WF_vars(Driver) /\ WF_vars(TimeoutElapses) /\ WF_vars(SendTimeout)
  /\ WF_vars(ResponseEnds)

\* A client that reads what it is sent.
Spec == Init /\ [][Next]_vars /\ ServerFairness /\ WF_vars(ClientReads)
-----------------------------------------------------------------------------
(* Properties *)

\* The client reads the events of a session, in order: two bounded channels and
\* a timeout that may cut the output anywhere keep the A2A event grammar.
ReadsSession == Session!Spec

\* COMPLETED closes a whole output only: every chunk the module yielded was read
\* before it, and no timeout or error cut the output short.
CompletedIsWhole ==
  log # <<>> /\ Last(log) = StatusUpdate("COMPLETED") =>
    /\ Session!ChunksIn(log) = produced
    /\ producer = "ended"

\* The final status is read only after the task store was asked to take it, so
\* a tasks/get that follows finds it unless the write failed.
FinalReadAfterWrite ==
  Session!Final => stored \in {Last(log).state, "lost"}

\* A stream that began ends, with its outcome stored or its client gone, as long
\* as the client reads or leaves: one that does neither keeps both channels full
\* past the executor's timeout.
StreamEnds ==
  driver # "idle" ~> driver \in {"done", "dropped"} /\ client # "open"
=============================================================================
