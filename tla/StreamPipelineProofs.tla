------------------------ MODULE StreamPipelineProofs ------------------------
(***************************************************************************)
(* Theorems about StreamPipeline, for any capacity of the channels and any *)
(* number of chunks.                                                       *)
(***************************************************************************)
EXTENDS StreamPipeline, SequenceTheorems, FiniteSetTheorems, TLAPS

-----------------------------------------------------------------------------
(* The inductive invariant *)

\* The events sent so far, read or not.
Flow == log \o events

\* The events of an output, by their place in the response.
Body(i) ==
  CASE i = 1 -> StatusUpdate("SUBMITTED")
    [] i = 2 -> StatusUpdate("WORKING")
    [] i > 2 -> ArtifactUpdate(i - 2, i > 3, FALSE)

\* f begins as an output with n events does.
Begins(f, n) == n =< Len(f) /\ \A i \in 1..n : f[i] = Body(i)

\* The chunks in the channel are those that follow the one held; only an error
\* that ended the output comes last, and the executor sent one if it failed.
ChannelInv ==
  /\ producer # "idle" /\ error = None /\ stored = None
  /\ \A j \in 1..Len(chunks) :
       \/ chunks[j].ok /\ chunks[j].chunk = held + j
       \/ /\ ~ chunks[j].ok /\ j = Len(chunks)
          /\ producer = "failed" /\ chunks[j].status \in Session!ErrorStatus
  /\ producer = "failed" => chunks # <<>> /\ ~ chunks[Len(chunks)].ok
  /\ producer # "failed" => produced = held + Len(chunks)

\* The first n events of f are an output that ended: refused after SUBMITTED,
\* with an error, or whole.
Ended(f, n) ==
  \/ error = "FAILED" /\ n = 1 /\ Begins(f, 1)
  \/ error \in Session!ErrorStatus /\ n = held + 2 /\ Begins(f, held + 2)
  \/ /\ error = None /\ producer = "ended" /\ produced = held
     /\ n = held + 3 /\ Begins(f, held + 2) /\ f[n] = ArtifactUpdate(0, held > 0, TRUE)

Whole == error = None => producer = "ended" /\ produced = held

DriverInv ==
  /\ driver \in {"idle", "submitted", "refuse", "working"} =>
       /\ producer = "idle" /\ produced = 0 /\ chunks = <<>>
       /\ held = 0 /\ error = None /\ stored = None
  /\ driver \in {"receive", "forward"} => ChannelInv
  /\ driver = "forward" => held > 0
  /\ driver = "marker" => error = None /\ Whole
  /\ driver \in {"save", "last"} => error \in Session!ErrorStatus \cup {None} /\ Whole
  /\ driver \in {"marker", "save"} => stored = None
  /\ driver = "last" => stored \in {final_status, "lost"}

\* What has been sent, as long as the client is there to be sent it.
FlowInv ==
  /\ driver \in {"idle", "submitted", "refuse"} => Flow = <<>>
  /\ driver = "working" => Len(Flow) = 1 /\ Begins(Flow, 1)
  /\ driver = "forward" => Len(Flow) = held + 1 /\ Begins(Flow, held + 1)
  /\ driver \in {"receive", "marker"} => Len(Flow) = held + 2 /\ Begins(Flow, held + 2)
  /\ driver \in {"save", "last"} => Ended(Flow, Len(Flow))
  /\ driver = "done" =>
       \/ /\ Ended(Flow, Len(Flow) - 1)
          /\ Flow[Len(Flow)] = StatusUpdate(final_status)
          /\ stored \in {final_status, "lost"}
       \/ /\ Len(Flow) = 2 /\ Begins(Flow, 1) /\ Flow[2] = StatusUpdate("FAILED")
          /\ stored \in {"FAILED", "lost"}

\* What was read stays true after the client has left.
LogInv ==
  /\ Session!Final => driver = "done" /\ stored \in {Last(log).state, "lost"}
  /\ CompletedIsWhole

PipeInv ==
  /\ DriverInv
  /\ client = "open" => driver # "dropped" /\ FlowInv
  /\ client # "open" => events = <<>>
  /\ LogInv
-----------------------------------------------------------------------------
(* Types *)

LEMMA ErrorStatusType == Session!ErrorStatus \subseteq TaskState \ {"COMPLETED", None}
  BY PipelineAssumption DEF Session!ErrorStatus, TaskState

LEMMA ErrorsFail == \A e \in ErrorKind : error_to_status(e) \in Session!ErrorStatus
  BY DEF ErrorKind, error_to_status, Session!ErrorStatus

LEMMA ItemType ==
  /\ \A n \in 0..MaxChunks : Ok(n) \in Item
  /\ \A s \in TaskState : Err(s) \in Item
  BY PipelineAssumption DEF Ok, Err, Item, TaskState

LEMMA EventType ==
  /\ \A s \in TaskState : StatusUpdate(s) \in Event
  /\ \A n \in 0..MaxChunks, a, l \in BOOLEAN : ArtifactUpdate(n, a, l) \in Event
  BY DEF StatusUpdate, Session!StatusUpdate, ArtifactUpdate, Session!ArtifactUpdate, Event

\* The outcome of an output is a status.
LEMMA OutcomeType == TypeOK => final_status \in TaskState
  BY DEF TypeOK, final_status, TaskState

\* What a channel carries and how much of it, in the words of TypeOK.
ChunksFit(s) == s \in Seq(Item) /\ Len(s) =< Capacity
EventsFit(s) == s \in Seq(Event) /\ (Len(s) =< Capacity \/ Len(s) = 2)

\* A sender that found room leaves the executor's channel within its capacity.
LEMMA ForwardType ==
  ASSUME TypeOK, Len(chunks) < Capacity, NEW item \in Item
  PROVE  ChunksFit(Append(chunks, item))
<1>1. chunks \in Seq(Item) /\ Len(chunks) \in Nat /\ Capacity \in Nat
  BY PipelineAssumption DEF TypeOK
<1>2. Append(chunks, item) \in Seq(Item) /\ Len(Append(chunks, item)) = Len(chunks) + 1
  BY <1>1
<1> QED BY <1>1, <1>2 DEF ChunksFit

\* What is left after the first element is received is shorter.
LEMMA RestType ==
  ASSUME NEW S, NEW s \in Seq(S), s # <<>>
  PROVE  Head(s) \in S /\ Tail(s) \in Seq(S) /\ Len(s) \in Nat /\ Len(Tail(s)) = Len(s) - 1
  BY HeadTailProperties

\* A send leaves a sequence of events the channel has room for.
LEMMA SendType ==
  ASSUME TypeOK, NEW STATE ev, ev \in Event, NEW next, send(ev, next)
  PROVE  EventsFit(events') /\ driver' = next
<1>1. /\ events \in Seq(Event) /\ Len(events) \in Nat /\ Capacity \in Nat
      /\ Len(events) =< Capacity \/ Len(events) = 2
  BY PipelineAssumption DEF TypeOK
<1>2. Append(events, ev) \in Seq(Event) /\ Len(Append(events, ev)) = Len(events) + 1
  BY <1>1
<1>d. driver' = next
  BY DEF send
<1>3. CASE Len(events) < Capacity /\ events' = Append(events, ev)
  <2>1. Len(events) + 1 =< Capacity
    BY <1>1, <1>3
  <2>2. events' \in Seq(Event) /\ Len(events') =< Capacity
    BY <1>2, <1>3, <2>1
  <2> QED BY <1>d, <2>2 DEF EventsFit
<1>4. CASE events' = events
  <2>1. events' \in Seq(Event) /\ (Len(events') =< Capacity \/ Len(events') = 2)
    BY <1>1, <1>4
  <2> QED BY <1>d, <2>1 DEF EventsFit
<1> QED BY <1>3, <1>4 DEF send

LEMMA TypeInit == Init => TypeOK
  BY PipelineAssumption DEF Init, TypeOK, Session!Init

LEMMA ExecutorType == TypeOK /\ Executor => TypeOK'
<1> SUFFICES ASSUME TypeOK, Executor PROVE TypeOK'
  OBVIOUS
<1> USE DEF TypeOK, driverVars, clientVars
<1>1. CASE ModuleYields
  <2>1. Ok(produced + 1) \in Item /\ produced + 1 \in 0..MaxChunks
    BY <1>1, ItemType, PipelineAssumption DEF ModuleYields
  <2>2. ChunksFit(chunks')
    BY <1>1, <2>1, ForwardType DEF ModuleYields
  <2> QED BY <1>1, <2>1, <2>2 DEF ModuleYields, ChunksFit
<1>2. CASE ModuleFails
  <2>1. \A e \in ErrorKind : Err(error_to_status(e)) \in Item
    BY ItemType, ErrorsFail, ErrorStatusType
  <2>2. ChunksFit(chunks')
    BY <1>2, <2>1, ForwardType DEF ModuleFails
  <2> QED BY <1>2, <2>2 DEF ModuleFails, ChunksFit
<1>3. CASE ModuleEnds \/ TimeoutElapses
  BY <1>3 DEF ModuleEnds, TimeoutElapses
<1>4. CASE SendTimeout
  <2>1. Err(error_to_status("ModuleTimeout")) \in Item
    BY ItemType, ErrorsFail, ErrorStatusType DEF ErrorKind
  <2>2. ChunksFit(chunks')
    BY <1>4, <2>1, ForwardType DEF SendTimeout
  <2> QED BY <1>4, <2>2 DEF SendTimeout, ChunksFit
<1> QED BY <1>1, <1>2, <1>3, <1>4 DEF Executor

LEMMA DriverType == TypeOK /\ Driver => TypeOK'
<1> SUFFICES ASSUME TypeOK, Driver PROVE TypeOK'
  OBVIOUS
<1>0. "SUBMITTED" \in TaskState /\ "FAILED" \in TaskState /\ "WORKING" \in TaskState
  BY DEF TaskState
<1>t. held \in 0..MaxChunks /\ 0 \in 0..MaxChunks /\ chunks \in Seq(Item)
  BY PipelineAssumption DEF TypeOK
<1>a. (held > 0) \in BOOLEAN /\ (held > 1) \in BOOLEAN
  BY <1>t
<1>1. CASE AnswerRejected
  <2>1. events' \in Seq(Event) /\ Len(events') = 2
    BY <1>0, <1>1, EventType DEF AnswerRejected
  <2> QED BY <1>0, <1>1, <2>1 DEF AnswerRejected, TypeOK, producerVars, clientVars
<1>2. CASE DropRejected
  BY <1>2 DEF DropRejected, TypeOK, producerVars, clientVars
<1>3. CASE SendSubmitted
  <2>1. EventsFit(events') /\ driver' \in {"working", "save"}
    BY <1>0, <1>3, EventType, SendType DEF SendSubmitted
  <2> QED BY <1>0, <1>3, <2>1 DEF SendSubmitted, TypeOK, EventsFit, producerVars, clientVars
<1>4. CASE SendWorking
  <2>1. EventsFit(events') /\ driver' = "receive"
    BY <1>0, <1>4, EventType, SendType DEF SendWorking
  <2> QED BY <1>4, <2>1 DEF SendWorking, TypeOK, EventsFit, clientVars
<1>5. CASE ReceiveChunk \/ ReceiveError
  <2>1. chunks # <<>> /\ chunks' = Tail(chunks)
    BY <1>5 DEF ReceiveChunk, ReceiveError
  <2>2. Head(chunks) \in Item /\ Tail(chunks) \in Seq(Item) /\ Len(chunks) \in Nat
        /\ Len(Tail(chunks)) = Len(chunks) - 1
    BY <1>t, <2>1, RestType
  <2>3. Head(chunks).chunk \in 0..MaxChunks /\ Head(chunks).status \in TaskState
    BY <2>2 DEF Item
  <2>4. Tail(chunks) \in Seq(Item) /\ Len(Tail(chunks)) =< Capacity
    BY <2>2, PipelineAssumption DEF TypeOK
  <2> QED BY <1>5, <2>3, <2>4 DEF ReceiveChunk, ReceiveError, TypeOK, producerVars, clientVars
<1>6. CASE ReceiveEnd
  BY <1>6 DEF ReceiveEnd, TypeOK, producerVars, clientVars
<1>7. CASE SendChunk
  <2>1. ArtifactUpdate(held, held > 1, FALSE) \in Event
    BY <1>t, <1>a, EventType, Zenon
  <2>2. EventsFit(events') /\ driver' = "receive"
    BY <1>7, <2>1, SendType DEF SendChunk
  <2> QED BY <1>7, <2>2 DEF SendChunk, TypeOK, EventsFit, producerVars, clientVars
<1>8. CASE SendMarker
  <2>1. ArtifactUpdate(0, held > 0, TRUE) \in Event
    BY <1>t, <1>a, EventType, Zenon
  <2>2. EventsFit(events') /\ driver' = "save"
    BY <1>8, <2>1, SendType DEF SendMarker
  <2> QED BY <1>8, <2>2 DEF SendMarker, TypeOK, EventsFit, producerVars, clientVars
<1>9. CASE SaveTask
  BY <1>9, OutcomeType DEF SaveTask, TypeOK, producerVars, clientVars
<1>10. CASE SendLast
  <2>1. StatusUpdate(final_status) \in Event
    BY EventType, OutcomeType
  <2>2. EventsFit(events') /\ driver' = "done"
    BY <1>10, <2>1, SendType DEF SendLast
  <2> QED BY <1>10, <2>2 DEF SendLast, TypeOK, EventsFit, producerVars, clientVars
<1> QED BY <1>1, <1>2, <1>3, <1>4, <1>5, <1>6, <1>7, <1>8, <1>9, <1>10 DEF Driver

LEMMA TypeNext == TypeOK /\ [Next]_vars => TypeOK'
<1> SUFFICES ASSUME TypeOK, [Next]_vars PROVE TypeOK'
  OBVIOUS
<1>1. CASE UNCHANGED vars
  BY <1>1 DEF vars, producerVars, driverVars, clientVars, TypeOK
<1>2. CASE ReceiveRejected \/ Start
  BY <1>2 DEF ReceiveRejected, Start, producerVars, clientVars, TypeOK
<1>3. CASE ClientReads
  <2>1. events # <<>> /\ events \in Seq(Event) /\ log \in Seq(Event)
    BY <1>3 DEF ClientReads, TypeOK
  <2>2. Head(events) \in Event /\ Tail(events) \in Seq(Event) /\ Len(events) \in Nat
        /\ Len(Tail(events)) = Len(events) - 1
    BY <2>1, RestType
  <2>3. Len(Tail(events)) =< Capacity
    BY <2>2, PipelineAssumption DEF TypeOK
  <2> QED BY <1>3, <2>1, <2>2, <2>3 DEF ClientReads, producerVars, driverVars, TypeOK
<1>4. CASE ClientLeaves
  <2>1. <<>> \in Seq(Event) /\ Len(<<>>) =< Capacity
    BY EmptySeq, PipelineAssumption
  <2> QED BY <1>4, <2>1 DEF ClientLeaves, producerVars, driverVars, TypeOK
<1>5. CASE ResponseEnds
  BY <1>5 DEF ResponseEnds, producerVars, driverVars, TypeOK
<1> QED BY <1>1, <1>2, <1>3, <1>4, <1>5, ExecutorType, DriverType DEF Next

\* Type correctness: whichever way the executor, the driver and the client
\* interleave, both channels carry what their
\* receivers expect and no more of it than their capacity.
THEOREM TypeCorrect == Spec => []TypeOK
<1> QED BY TypeInit, TypeNext, PTL DEF Spec
-----------------------------------------------------------------------------
(* The executor task and the driver *)

\* What the channel holds while the driver receives.
LEMMA ChannelNext ==
  TypeOK /\ ChannelInv /\ Executor => ChannelInv'
<1> SUFFICES ASSUME TypeOK, ChannelInv, Executor PROVE ChannelInv'
  OBVIOUS
<1>t. /\ chunks \in Seq(Item) /\ Len(chunks) \in Nat
      /\ held \in Nat /\ produced \in Nat
  BY PipelineAssumption DEF TypeOK
<1>1. producer = "driving" \/ producer = "expired"
  BY DEF Executor, ModuleYields, ModuleFails, ModuleEnds, TimeoutElapses, SendTimeout
<1>2. \A j \in 1..Len(chunks) : chunks[j].ok /\ chunks[j].chunk = held + j
  BY <1>1 DEF ChannelInv
<1>3. /\ producer' # "idle" /\ UNCHANGED <<error, stored, held>>
  BY <1>1 DEF Executor, ModuleYields, ModuleFails, ModuleEnds, TimeoutElapses, SendTimeout,
              ChannelInv, producerVars, driverVars
<1>4. CASE ModuleYields
  <2>1. chunks' = Append(chunks, Ok(produced + 1)) /\ produced' = produced + 1
        /\ UNCHANGED producer
    BY <1>4 DEF ModuleYields
  <2>2. /\ Len(chunks') = Len(chunks) + 1
        /\ \A j \in 1..Len(chunks) : chunks'[j] = chunks[j]
        /\ chunks'[Len(chunks) + 1] = Ok(produced + 1)
    BY <1>t, <2>1, ItemType
  <2>3. Ok(produced + 1).ok /\ Ok(produced + 1).chunk = produced + 1
    BY DEF Ok
  <2>4. \A j \in 1..Len(chunks') : chunks'[j].ok /\ chunks'[j].chunk = held' + j
    <3> SUFFICES ASSUME NEW j \in 1..Len(chunks')
                 PROVE  chunks'[j].ok /\ chunks'[j].chunk = held + j
      BY <1>3
    <3>1. CASE j \in 1..Len(chunks)
      BY <1>2, <2>2, <3>1
    <3>2. CASE j = Len(chunks) + 1
      <4>1. produced = held + Len(chunks)
        BY <1>1 DEF ChannelInv
      <4> QED BY <1>t, <2>2, <2>3, <3>2, <4>1
    <3> QED BY <1>t, <2>2, <3>1, <3>2
  <2>5. produced' = held' + Len(chunks') /\ producer' # "failed"
    <3>1. produced = held + Len(chunks) /\ producer # "failed"
      BY <1>1 DEF ChannelInv
    <3> QED BY <1>t, <1>3, <2>1, <2>2, <3>1
  <2>6. error = None /\ stored = None
    BY DEF ChannelInv
  <2> QED BY <1>3, <2>4, <2>5, <2>6 DEF ChannelInv
<1>5. CASE ModuleFails \/ SendTimeout
  <2>1. PICK s \in Session!ErrorStatus :
          chunks' = Append(chunks, Err(s)) /\ producer' = "failed"
    BY <1>5, ErrorsFail DEF ModuleFails, SendTimeout, ErrorKind
  <2>2. /\ Len(chunks') = Len(chunks) + 1
        /\ \A j \in 1..Len(chunks) : chunks'[j] = chunks[j]
        /\ chunks'[Len(chunks) + 1] = Err(s)
    BY <1>t, <2>1
  <2>3. ~ Err(s).ok /\ Err(s).status = s
    BY DEF Err
  <2>4. chunks' # <<>>
    BY <1>t, <2>1
  <2> QED BY <1>t, <1>2, <1>3, <2>1, <2>2, <2>3, <2>4 DEF ChannelInv
<1>6. CASE ModuleEnds \/ TimeoutElapses
  BY <1>1, <1>3, <1>6 DEF ModuleEnds, TimeoutElapses, ChannelInv
<1> QED BY <1>4, <1>5, <1>6 DEF Executor

\* The driver takes the chunk that follows the one it sent.
LEMMA ReceiveChunkChannel ==
  TypeOK /\ ChannelInv /\ ReceiveChunk => ChannelInv' /\ held' = held + 1
<1> SUFFICES ASSUME TypeOK, ChannelInv, ReceiveChunk PROVE ChannelInv' /\ held' = held + 1
  OBVIOUS
<1>t. /\ chunks \in Seq(Item) /\ Len(chunks) \in Nat
      /\ held \in Nat /\ produced \in Nat
  BY PipelineAssumption DEF TypeOK
<1>1. /\ chunks # <<>> /\ chunks[1].ok /\ held' = chunks[1].chunk /\ chunks' = Tail(chunks)
      /\ UNCHANGED <<producer, produced, error, stored>>
  BY DEF ReceiveChunk, producerVars
<1>2. Len(chunks) > 0 /\ held' = held + 1
  BY <1>t, <1>1 DEF ChannelInv
<1>3. /\ Len(chunks') = Len(chunks) - 1
      /\ \A j \in 1..Len(chunks') : chunks'[j] = chunks[j + 1]
  BY <1>t, <1>1, HeadTailProperties
<1>4. \A j \in 1..Len(chunks') : j + 1 \in 1..Len(chunks)
  BY <1>t, <1>2, <1>3
<1>5. \A j \in 1..Len(chunks') :
        \/ chunks'[j].ok /\ chunks'[j].chunk = held' + j
        \/ /\ ~ chunks'[j].ok /\ j = Len(chunks')
           /\ producer' = "failed" /\ chunks'[j].status \in Session!ErrorStatus
  <2> SUFFICES ASSUME NEW j \in 1..Len(chunks')
               PROVE  \/ chunks[j + 1].ok /\ chunks[j + 1].chunk = held' + j
                      \/ /\ ~ chunks[j + 1].ok /\ j = Len(chunks')
                         /\ producer = "failed" /\ chunks[j + 1].status \in Session!ErrorStatus
    BY <1>1, <1>3
  <2>1. j + 1 \in 1..Len(chunks) /\ held + (j + 1) = held' + j
    BY <1>t, <1>2, <1>4
  <2>2. j + 1 = Len(chunks) => j = Len(chunks')
    BY <1>t, <1>3
  <2> QED BY <2>1, <2>2 DEF ChannelInv
<1>6. producer' = "failed" => chunks' # <<>> /\ ~ chunks'[Len(chunks')].ok
  <2> SUFFICES ASSUME producer = "failed" PROVE chunks' # <<>> /\ ~ chunks'[Len(chunks')].ok
    BY <1>1
  <2>1. ~ chunks[Len(chunks)].ok
    BY DEF ChannelInv
  <2>2. Len(chunks) > 1
    BY <1>t, <1>1, <1>2, <2>1
  <2>3. Len(chunks') \in 1..Len(chunks') /\ Len(chunks') + 1 = Len(chunks)
    BY <1>t, <1>3, <2>2
  <2> QED BY <1>3, <2>1, <2>3
<1>7. producer' # "failed" => produced' = held' + Len(chunks')
  <2>1. producer # "failed" => produced = held + Len(chunks)
    BY DEF ChannelInv
  <2> QED BY <1>t, <1>1, <1>2, <1>3, <2>1
<1> QED BY <1>1, <1>2, <1>5, <1>6, <1>7 DEF ChannelInv

\* The error the driver receives ends the output.
LEMMA ReceiveErrorStatus ==
  TypeOK /\ ChannelInv /\ ReceiveError => error' \in Session!ErrorStatus
<1> SUFFICES ASSUME TypeOK, ChannelInv, ReceiveError PROVE error' \in Session!ErrorStatus
  OBVIOUS
<1>1. chunks \in Seq(Item) /\ chunks # <<>> /\ ~ chunks[1].ok /\ error' = chunks[1].status
  BY DEF TypeOK, ReceiveError
<1>2. 1 \in 1..Len(chunks)
  BY <1>1
<1> QED BY <1>1, <1>2 DEF ChannelInv

\* The output ends without an error only when every chunk was sent.
LEMMA ReceiveEndWhole ==
  TypeOK /\ ChannelInv /\ ReceiveEnd => producer = "ended" /\ produced = held
<1> SUFFICES ASSUME TypeOK, ChannelInv, ReceiveEnd
             PROVE  producer = "ended" /\ produced = held
  OBVIOUS
<1>1. Len(chunks) = 0 /\ held \in Nat
  BY PipelineAssumption DEF ReceiveEnd, TypeOK
<1> QED BY <1>1 DEF ChannelInv, ReceiveEnd

LEMMA DriverInvInit == Init => DriverInv
  BY DEF Init, DriverInv

LEMMA DriverInvNext == TypeOK /\ DriverInv /\ [Next]_vars => DriverInv'
<1> SUFFICES ASSUME TypeOK, DriverInv, [Next]_vars PROVE DriverInv'
  OBVIOUS
<1>0. "FAILED" \in Session!ErrorStatus
  BY DEF Session!ErrorStatus
<1>1. CASE UNCHANGED <<producer, produced, chunks, driver, held, error, stored>>
  BY <1>1 DEF DriverInv, ChannelInv, Whole, final_status
<1>2. CASE ReceiveRejected \/ Start
  BY <1>2 DEF ReceiveRejected, Start, producerVars, DriverInv
<1>3. CASE Executor
  <2>1. producer # "idle" /\ producer # "ended" /\ UNCHANGED driverVars
    BY <1>3 DEF Executor, ModuleYields, ModuleFails, ModuleEnds, TimeoutElapses, SendTimeout
  <2>2. /\ driver \notin {"idle", "submitted", "refuse", "working", "marker"}
        /\ Whole => Whole'
        /\ UNCHANGED <<driver, held, error, stored, final_status>>
    BY <2>1 DEF DriverInv, driverVars, Whole, final_status
  <2> QED BY <1>3, <2>2, ChannelNext DEF DriverInv
<1>4. CASE AnswerRejected \/ DropRejected \/ SendLast
  BY <1>4 DEF AnswerRejected, DropRejected, SendLast, send, DriverInv
<1>5. CASE SendSubmitted
  BY <1>0, <1>5, PipelineAssumption
     DEF SendSubmitted, send, producerVars, DriverInv, Whole, TaskState
<1>6. CASE SendWorking
  <2>1. /\ driver' = "receive" /\ producer' = "driving" /\ produced' = 0 /\ chunks' = <<>>
        /\ held' = 0 /\ error' = None /\ stored' = None
    BY <1>6 DEF SendWorking, send, DriverInv
  <2>2. Len(chunks') = 0
    BY <2>1
  <2>3. ChannelInv'
    BY <2>1, <2>2 DEF ChannelInv
  <2> QED BY <2>1, <2>3 DEF DriverInv
<1>7. CASE ReceiveChunk
  <2>1. driver' = "forward" /\ ChannelInv' /\ held' > 0
    BY <1>7, ReceiveChunkChannel, PipelineAssumption DEF ReceiveChunk, DriverInv, TypeOK
  <2> QED BY <2>1 DEF DriverInv
<1>8. CASE ReceiveError
  <2>1. /\ driver' = "save" /\ error' \in Session!ErrorStatus /\ stored' = None
    BY <1>8, ReceiveErrorStatus DEF ReceiveError, DriverInv, ChannelInv
  <2>2. error' # None
    BY <2>1, ErrorStatusType
  <2> QED BY <2>1, <2>2 DEF DriverInv, Whole
<1>9. CASE ReceiveEnd
  <2>1. /\ driver' = "marker" /\ error' = None /\ stored' = None
        /\ producer' = "ended" /\ produced' = held'
    BY <1>9, ReceiveEndWhole DEF ReceiveEnd, DriverInv, ChannelInv, producerVars
  <2> QED BY <2>1 DEF DriverInv, Whole
<1>10. CASE SendChunk
  BY <1>10 DEF SendChunk, send, DriverInv, ChannelInv, producerVars
<1>11. CASE SendMarker
  BY <1>11 DEF SendMarker, send, DriverInv, Whole, producerVars
<1>12. CASE SaveTask
  BY <1>12 DEF SaveTask, DriverInv, Whole, final_status, producerVars
<1>13. CASE ClientReads \/ ClientLeaves \/ ResponseEnds \/ UNCHANGED vars
  BY <1>1, <1>13 DEF ClientReads, ClientLeaves, ResponseEnds, vars, producerVars, driverVars
<1> QED BY <1>2, <1>3, <1>4, <1>5, <1>6, <1>7, <1>8, <1>9, <1>10, <1>11, <1>12, <1>13
        DEF Next, Driver
-----------------------------------------------------------------------------
(* The events on their way to the client *)

LEMMA FlowType ==
  ASSUME TypeOK
  PROVE  /\ Flow \in Seq(Event) /\ Len(Flow) = Len(log) + Len(events)
         /\ Len(log) \in Nat /\ Len(events) \in Nat /\ Len(Flow) \in Nat
         /\ \A i \in 1..Len(log) : Flow[i] = log[i]
         /\ events # <<>> => Flow[Len(log) + 1] = Head(events) /\ Len(events) > 0
         /\ events = <<>> => Flow = log
<1>1. log \in Seq(Event) /\ events \in Seq(Event)
  BY DEF TypeOK
<1>2. /\ Flow \in Seq(Event) /\ Len(Flow) = Len(log) + Len(events)
      /\ \A i \in 1..Len(log) + Len(events) :
           Flow[i] = IF i <= Len(log) THEN log[i] ELSE events[i - Len(log)]
  BY <1>1, ConcatProperties DEF Flow
<1>3. Len(log) \in Nat /\ Len(events) \in Nat
  BY <1>1
<1>4. events # <<>> => Len(events) > 0 /\ Head(events) = events[1]
  BY <1>1
<1>5. events # <<>> => /\ Len(log) + 1 \in 1..Len(log) + Len(events)
                       /\ (Len(log) + 1) - Len(log) = 1 /\ ~ (Len(log) + 1 <= Len(log))
  BY <1>3, <1>4
<1>6. events = <<>> => Flow = log
  BY <1>1, ConcatEmptySeq DEF Flow
<1>7. \A i \in 1..Len(log) : i \in 1..Len(log) + Len(events) /\ i <= Len(log)
  BY <1>3
<1> QED BY <1>2, <1>3, <1>4, <1>5, <1>6, <1>7

\* An event sent to a client that reads is the last on its way.
LEMMA SendFlow ==
  ASSUME TypeOK, NEW STATE ev, ev \in Event, NEW next, send(ev, next),
         client = "open", UNCHANGED log
  PROVE  /\ Len(Flow)' = Len(Flow) + 1
         /\ \A i \in 1..Len(Flow) : Flow'[i] = Flow[i]
         /\ Flow'[Len(Flow) + 1] = ev
<1>1. log \in Seq(Event) /\ events \in Seq(Event) /\ <<ev>> \in Seq(Event)
  BY DEF TypeOK
<1>2. events' = events \o <<ev>>
  <2>1. events' = Append(events, ev)
    BY DEF send
  <2> QED BY <1>1, <2>1, AppendIsConcat
<1>3. Flow' = Flow \o <<ev>>
  BY <1>1, <1>2, ConcatAssociative DEF Flow
<1>4. /\ Len(Flow') = Len(Flow) + Len(<<ev>>)
      /\ \A i \in 1..Len(Flow) + Len(<<ev>>) :
           Flow'[i] = IF i <= Len(Flow) THEN Flow[i] ELSE <<ev>>[i - Len(Flow)]
  BY <1>1, <1>3, FlowType, ConcatProperties
<1>5. Len(<<ev>>) = 1 /\ <<ev>>[1] = ev /\ Len(Flow) \in Nat
  BY FlowType
<1>6. (Len(Flow) + 1) - Len(Flow) = 1 /\ ~ (Len(Flow) + 1 <= Len(Flow))
  BY <1>5
<1> QED BY <1>4, <1>5, <1>6

\* Reading an event only moves it to the client.
LEMMA ReadFlow == TypeOK /\ ClientReads => Flow' = Flow
<1> SUFFICES ASSUME TypeOK, ClientReads PROVE Flow' = Flow
  OBVIOUS
<1>1. /\ log \in Seq(Event) /\ events \in Seq(Event) /\ events # <<>>
      /\ log' = Append(log, Head(events)) /\ events' = Tail(events)
  BY DEF TypeOK, ClientReads
<1>2. Head(events) \in Event /\ Tail(events) \in Seq(Event)
  BY <1>1, HeadTailProperties
<1>3. log' = log \o <<Head(events)>> /\ events = <<Head(events)>> \o Tail(events)
  BY <1>1, <1>2
<1>4. Flow' = log \o (<<Head(events)>> \o Tail(events))
  BY <1>1, <1>2, <1>3, ConcatAssociative DEF Flow
<1> QED BY <1>3, <1>4 DEF Flow

\* A flow that has n events of an output keeps them, and one more may follow.
LEMMA BeginsKept ==
  ASSUME NEW f, NEW g, NEW n \in Nat, Len(f) \in Nat, Len(g) = Len(f) + 1,
         \A i \in 1..Len(f) : g[i] = f[i], Begins(f, n)
  PROVE  /\ Begins(g, n)
         /\ n = Len(f) /\ g[n + 1] = Body(n + 1) => Begins(g, n + 1)
<1>1. \A i \in 1..n : g[i] = Body(i)
  BY DEF Begins
<1>2. n =< Len(g) /\ (n = Len(f) => n + 1 =< Len(g))
  BY DEF Begins
<1>3. \A i \in 1..(n + 1) : i \in 1..n \/ i = n + 1
  OBVIOUS
<1> QED BY <1>1, <1>2, <1>3 DEF Begins

LEMMA EndedKept ==
  ASSUME NEW f, NEW g, NEW n \in Nat, Len(f) \in Nat, Len(g) = Len(f) + 1,
         held \in Nat, n =< Len(f),
         \A i \in 1..Len(f) : g[i] = f[i], Ended(f, n)
  PROVE  Ended(g, n)
<1>1. \A k \in Nat : Begins(f, k) => Begins(g, k)
  BY BeginsKept
<1>2. n > 0 => g[n] = f[n]
  OBVIOUS
<1>3. 1 \in Nat /\ held + 2 \in Nat /\ held + 3 > 0
  OBVIOUS
<1> QED BY <1>1, <1>2, <1>3 DEF Ended

LEMMA FlowInvInit == Init => FlowInv
<1> SUFFICES ASSUME Init PROVE FlowInv
  OBVIOUS
<1>1. Flow = <<>>
  BY TypeInit, FlowType DEF Init, Session!Init
<1> QED BY <1>1 DEF FlowInv, Init

\* What has been sent grows with the driver's steps, in the order of an output.
LEMMA FlowInvNext ==
  ASSUME TypeOK, DriverInv, FlowInv, driver # "dropped", client = "open", [Next]_vars,
         client' = "open"
  PROVE  FlowInv' /\ driver' # "dropped"
<1>t. held \in Nat /\ Len(Flow) \in Nat /\ held \in 0..MaxChunks /\ 0 \in 0..MaxChunks
  BY FlowType, PipelineAssumption DEF TypeOK
<1>s. "SUBMITTED" \in TaskState /\ "FAILED" \in TaskState /\ "WORKING" \in TaskState
      /\ "FAILED" \in Session!ErrorStatus
  BY DEF TaskState, Session!ErrorStatus
<1>a. (held > 0) \in BOOLEAN /\ (held > 1) \in BOOLEAN
  BY <1>t
<1>1. CASE UNCHANGED <<Flow, producer, produced, driver, held, error, stored>>
  BY <1>1 DEF FlowInv, Ended, Begins, final_status
<1>2. CASE ReceiveRejected \/ Start
  <2>1. UNCHANGED Flow
    BY <1>2 DEF ReceiveRejected, Start, clientVars, Flow
  <2> QED BY <1>2, <2>1 DEF ReceiveRejected, Start, FlowInv
<1>3. CASE Executor
  <2>1. producer # "idle" /\ producer # "ended"
        /\ UNCHANGED <<Flow, driver, held, error, stored, final_status>>
    BY <1>3 DEF Executor, ModuleYields, ModuleFails, ModuleEnds, TimeoutElapses, SendTimeout,
                driverVars, clientVars, Flow, final_status
  <2>2. \A n : Ended(Flow, n) => Ended(Flow, n)'
    BY <2>1 DEF Ended, Begins
  <2>3. \A n : Begins(Flow, n) => Begins(Flow, n)'
    BY <2>1 DEF Begins
  <2> QED BY <2>1, <2>2, <2>3 DEF FlowInv
<1>4. CASE AnswerRejected
  <2>1. log = <<>>
    BY <1>4, FlowType DEF AnswerRejected, FlowInv, Flow
  <2>2. events' = <<StatusUpdate("SUBMITTED"), StatusUpdate("FAILED")>>
    BY <1>4 DEF AnswerRejected
  <2>3. events' \in Seq(Event)
    BY <1>s, <2>2, EventType
  <2>4. Flow' = events'
    BY <1>4, <2>1, <2>3, ConcatEmptySeq DEF AnswerRejected, clientVars, Flow
  <2>5. Len(Flow') = 2 /\ Flow'[1] = StatusUpdate("SUBMITTED") /\ Flow'[2] = StatusUpdate("FAILED")
    BY <2>2, <2>4
  <2>6. Begins(Flow, 1)'
    BY <2>5 DEF Begins, Body
  <2>7. driver' = "done" /\ stored' \in {"FAILED", "lost"}
    BY <1>4 DEF AnswerRejected
  <2> QED BY <2>5, <2>6, <2>7 DEF FlowInv
<1>5. CASE DropRejected
  BY <1>5 DEF DropRejected
<1>6. CASE SendSubmitted
  <2>1. /\ Len(Flow)' = Len(Flow) + 1 /\ Flow'[Len(Flow) + 1] = StatusUpdate("SUBMITTED")
    BY <1>6, <1>s, EventType, SendFlow DEF SendSubmitted, clientVars
  <2>2. Len(Flow) = 0
    BY <1>6 DEF SendSubmitted, FlowInv
  <2>3. Len(Flow') = 1 /\ Begins(Flow, 1)'
    BY <2>1, <2>2 DEF Begins, Body
  <2>4. driver' = "working" \/ (driver' = "save" /\ error' = "FAILED")
    BY <1>6 DEF SendSubmitted, send
  <2> QED BY <2>3, <2>4 DEF FlowInv, Ended
<1>7. CASE SendWorking
  <2>1. /\ Len(Flow)' = Len(Flow) + 1 /\ Flow'[Len(Flow) + 1] = StatusUpdate("WORKING")
        /\ \A i \in 1..Len(Flow) : Flow'[i] = Flow[i]
    BY <1>7, <1>s, EventType, SendFlow DEF SendWorking, clientVars
  <2>2. Len(Flow) = 1 /\ Begins(Flow, 1) /\ held = 0
    BY <1>7 DEF SendWorking, FlowInv, DriverInv
  <2>3. Len(Flow') = 2 /\ Begins(Flow', 2)
    <3>1. Flow'[2] = Body(2)
      BY <2>1, <2>2 DEF Body
    <3>2. Len(Flow) \in Nat /\ 1 \in Nat /\ 1 + 1 = 2
      BY <1>t
    <3> QED BY <2>1, <2>2, <3>1, <3>2, BeginsKept
  <2>4. driver' = "receive" /\ held' = 0
    BY <1>7, <2>2 DEF SendWorking, send
  <2> QED BY <2>3, <2>4 DEF FlowInv
<1>8. CASE ReceiveChunk
  <2>1. UNCHANGED Flow /\ driver = "receive" /\ driver' = "forward"
    BY <1>8 DEF ReceiveChunk, clientVars, Flow
  <2>2. held' = held + 1
    BY <1>8, ReceiveChunkChannel DEF ReceiveChunk, DriverInv
  <2>3. Len(Flow) = held + 2 /\ Begins(Flow, held + 2) /\ held' + 1 = held + 2
    BY <1>t, <2>1, <2>2 DEF FlowInv
  <2> QED BY <2>1, <2>3 DEF FlowInv, Begins
<1>9. CASE ReceiveError
  <2>1. UNCHANGED <<Flow, held>> /\ driver = "receive" /\ driver' = "save"
    BY <1>9 DEF ReceiveError, clientVars, Flow
  <2>2. error' \in Session!ErrorStatus
    BY <1>9, ReceiveErrorStatus DEF ReceiveError, DriverInv
  <2>3. Len(Flow) = held + 2 /\ Begins(Flow, held + 2)
    BY <2>1 DEF FlowInv
  <2>4. Ended(Flow, Len(Flow))'
    BY <2>1, <2>2, <2>3 DEF Ended, Begins
  <2> QED BY <2>1, <2>4 DEF FlowInv
<1>10. CASE ReceiveEnd
  <2>1. UNCHANGED <<Flow, held>> /\ driver = "receive" /\ driver' = "marker"
    BY <1>10 DEF ReceiveEnd, clientVars, Flow
  <2> QED BY <2>1 DEF FlowInv, Begins
<1>11. CASE SendChunk
  <2>e. ArtifactUpdate(held, held > 1, FALSE) \in Event
    BY <1>t, <1>a, EventType, Zenon
  <2>1. /\ Len(Flow)' = Len(Flow) + 1
        /\ Flow'[Len(Flow) + 1] = ArtifactUpdate(held, held > 1, FALSE)
        /\ \A i \in 1..Len(Flow) : Flow'[i] = Flow[i]
    BY <1>11, <2>e, SendFlow DEF SendChunk, clientVars
  <2>2. Len(Flow) = held + 1 /\ Begins(Flow, held + 1) /\ held > 0
    BY <1>11 DEF SendChunk, FlowInv, DriverInv
  <2>3. Len(Flow') = held + 2 /\ Begins(Flow', held + 2)
    <3>1. Flow'[held + 2] = Body(held + 2)
      <4>1. Body(held + 2) = ArtifactUpdate((held + 2) - 2, held + 2 > 3, FALSE)
        <5>1. held + 2 # 1 /\ held + 2 # 2 /\ held + 2 > 2
          BY <1>t, <2>2
        <5> QED BY <5>1, Zenon DEF Body
      <4>2. (held + 2) - 2 = held /\ (held + 2 > 3) = (held > 1) /\ Len(Flow) + 1 = held + 2
        BY <1>t, <2>2
      <4> QED BY <2>1, <4>1, <4>2
    <3>2. held + 1 \in Nat /\ (held + 1) + 1 = held + 2
      BY <1>t
    <3> QED BY <1>t, <2>1, <2>2, <3>1, <3>2, BeginsKept
  <2>4. driver' = "receive" /\ held' = held
    BY <1>11 DEF SendChunk, send
  <2> QED BY <2>3, <2>4 DEF FlowInv
<1>12. CASE SendMarker
  <2>e. ArtifactUpdate(0, held > 0, TRUE) \in Event
    BY <1>t, <1>a, EventType, Zenon
  <2>1. /\ Len(Flow)' = Len(Flow) + 1
        /\ Flow'[Len(Flow) + 1] = ArtifactUpdate(0, held > 0, TRUE)
        /\ \A i \in 1..Len(Flow) : Flow'[i] = Flow[i]
    BY <1>12, <2>e, SendFlow DEF SendMarker, clientVars
  <2>2. Len(Flow) = held + 2 /\ Begins(Flow, held + 2)
    BY <1>12 DEF SendMarker, FlowInv
  <2>3. Len(Flow') = held + 3 /\ Begins(Flow', held + 2)
    BY <1>t, <2>1, <2>2, BeginsKept
  <2>4. /\ driver' = "save" /\ UNCHANGED <<held, error, producer, produced>>
        /\ error = None /\ producer = "ended" /\ produced = held
    BY <1>12 DEF SendMarker, send, DriverInv, Whole, producerVars
  <2>5. Ended(Flow, Len(Flow))'
    BY <1>t, <2>1, <2>2, <2>3, <2>4 DEF Ended
  <2> QED BY <2>4, <2>5 DEF FlowInv
<1>13. CASE SaveTask
  <2>1. UNCHANGED <<Flow, producer, produced, held, error>> /\ driver = "save" /\ driver' = "last"
    BY <1>13 DEF SaveTask, producerVars, clientVars, Flow
  <2> QED BY <2>1 DEF FlowInv, Ended, Begins
<1>14. CASE SendLast
  <2>e. StatusUpdate(final_status) \in Event
    BY EventType, OutcomeType
  <2>1. /\ Len(Flow)' = Len(Flow) + 1
        /\ Flow'[Len(Flow) + 1] = StatusUpdate(final_status)
        /\ \A i \in 1..Len(Flow) : Flow'[i] = Flow[i]
    BY <1>14, <2>e, SendFlow DEF SendLast, clientVars
  <2>2. Ended(Flow, Len(Flow))
    BY <1>14 DEF SendLast, FlowInv
  <2>3. Ended(Flow', Len(Flow))
    BY <1>t, <2>1, <2>2, EndedKept
  <2>4. /\ driver' = "done" /\ UNCHANGED <<producer, produced, held, error, stored, final_status>>
        /\ stored \in {final_status, "lost"}
    BY <1>14 DEF SendLast, send, DriverInv, final_status, producerVars
  <2>5. Len(Flow') - 1 = Len(Flow)
    BY <1>t, <2>1
  <2>6. Ended(Flow, Len(Flow) - 1)'
    BY <2>3, <2>4, <2>5 DEF Ended
  <2> QED BY <2>1, <2>4, <2>6 DEF FlowInv
<1>15. CASE ClientReads \/ ResponseEnds \/ UNCHANGED vars
  BY <1>1, <1>15, ReadFlow
     DEF ClientReads, ResponseEnds, vars, producerVars, driverVars, clientVars, Flow
<1>16. CASE ClientLeaves
  BY <1>16 DEF ClientLeaves
<1>17. driver' # "dropped"
  BY <1>5, TypeNext
     DEF Next, Executor, Driver, ReceiveRejected, Start, ModuleYields, ModuleFails, ModuleEnds,
         TimeoutElapses, SendTimeout, AnswerRejected, DropRejected, SendSubmitted, SendWorking,
         ReceiveChunk, ReceiveError, ReceiveEnd, SendChunk, SendMarker, SaveTask, SendLast, send,
         ClientReads, ClientLeaves, ResponseEnds, vars, driverVars
<1> QED BY <1>2, <1>3, <1>4, <1>5, <1>6, <1>7, <1>8, <1>9, <1>10, <1>11, <1>12, <1>13, <1>14,
           <1>15, <1>16, <1>17 DEF Next, Driver
-----------------------------------------------------------------------------
(* What has been read *)

FinalEvent(ev) == ev.type = "status" /\ ev.state \in Session!ErrorStatus \cup {"COMPLETED"}

\* The events of an output: none is final, and the third on are its chunks.
LEMMA BodyEvents ==
  ASSUME NEW i \in Nat \ {0}
  PROVE  /\ ~ FinalEvent(Body(i))
         /\ Session!IsChunk(Body(i)) <=> i > 2
<1> USE DEF StatusUpdate, Session!StatusUpdate, ArtifactUpdate, Session!ArtifactUpdate,
            FinalEvent, Session!IsChunk, Session!ErrorStatus
<1>1. CASE i = 1
  <2>1. Body(i) = StatusUpdate("SUBMITTED")
    BY <1>1 DEF Body
  <2> QED BY <1>1, <2>1
<1>2. CASE i = 2
  <2>1. Body(i) = StatusUpdate("WORKING")
    BY <1>2 DEF Body
  <2> QED BY <1>2, <2>1
<1>3. CASE i > 2
  <2>1. i # 1 /\ i # 2
    BY <1>3
  <2>2. Body(i) = ArtifactUpdate(i - 2, i > 3, FALSE)
    BY <1>3, <2>1, Zenon DEF Body
  <2> QED BY <1>3, <2>2
<1> QED BY <1>1, <1>2, <1>3

LEMMA MarkerEvent ==
  ASSUME NEW b PROVE ~ FinalEvent(ArtifactUpdate(0, b, TRUE))
                     /\ ~ Session!IsChunk(ArtifactUpdate(0, b, TRUE))
BY DEF ArtifactUpdate, Session!ArtifactUpdate, FinalEvent, Session!IsChunk

LEMMA StatusEvent ==
  ASSUME NEW s PROVE ~ Session!IsChunk(StatusUpdate(s)) /\ StatusUpdate(s).state = s
BY DEF StatusUpdate, Session!StatusUpdate, Session!IsChunk

\* Session's copies of the library's operators.
LEMMA SessionLibrary ==
  /\ \A s : Session!Last(s) = s[Len(s)] /\ Last(s) = s[Len(s)]
  /\ \A S : Session!Cardinality(S) = Cardinality(S)
<1>1. \A s : Session!Last(s) = s[Len(s)] /\ Last(s) = s[Len(s)]
  BY DEF Session!Last, Last
<1>2. \A S : Session!Cardinality(S) = Cardinality(S)
  BY Zenon DEF Session!Cardinality, Cardinality
<1> QED BY <1>1, <1>2

\* An output of n events, with no chunk after them, has n - 2 chunks.
LEMMA ChunkCount ==
  ASSUME NEW f, f \in Seq(Event), NEW n \in Nat, n > 1, Begins(f, n),
         \A i \in (n + 1)..Len(f) : ~ Session!IsChunk(f[i])
  PROVE  Session!ChunksIn(f) = n - 2
<1>1. DOMAIN f = 1..Len(f) /\ Len(f) \in Nat /\ n =< Len(f)
  BY DEF Begins
<1>2. \A i \in 1..n : Session!IsChunk(f[i]) <=> i > 2
  BY BodyEvents DEF Begins
<1>3. \A i \in 1..Len(f) : i \in 1..n \/ i \in (n + 1)..Len(f)
  BY <1>1
<1>4. \A i : i \in 3..n <=> i \in 1..n /\ i > 2
  OBVIOUS
<1>5. 1..n \subseteq 1..Len(f)
  BY <1>1
<1>6. {i \in DOMAIN f : Session!IsChunk(f[i])} = 3..n
  BY <1>1, <1>2, <1>3, <1>4, <1>5
<1>7. Cardinality(3..n) = IF 3 > n THEN 0 ELSE n - 3 + 1
  BY FS_Interval
<1>8. Session!ChunksIn(f) = Session!Cardinality(3..n)
  BY <1>6 DEF Session!ChunksIn
<1>9. (IF 3 > n THEN 0 ELSE n - 3 + 1) = n - 2
  OBVIOUS
<1> QED BY <1>7, <1>8, <1>9, SessionLibrary

\* Only the last event of a finished stream is final.
LEMMA OnlyLastFinal ==
  ASSUME TypeOK, FlowInv, driver # "dropped", NEW i \in 1..Len(Flow), FinalEvent(Flow[i])
  PROVE  driver = "done" /\ i = Len(Flow)
<1>t. held \in Nat /\ Len(Flow) \in Nat
  BY FlowType, PipelineAssumption DEF TypeOK
<1>1. \A n \in Nat : Begins(Flow, n) => i \notin 1..n
  BY BodyEvents DEF Begins
<1>2. \A n \in Nat : Ended(Flow, n) => i \notin 1..n
  <2> SUFFICES ASSUME NEW n \in Nat, Ended(Flow, n), i \in 1..n PROVE FALSE
    OBVIOUS
  <2>1. held + 2 \in Nat /\ 1 \in Nat
    BY <1>t
  <2>2. n = held + 3 /\ Begins(Flow, held + 2) /\ Flow[n] = ArtifactUpdate(0, held > 0, TRUE)
    BY <1>1, <2>1 DEF Ended
  <2>3. i = n
    BY <1>t, <1>1, <2>1, <2>2
  <2> QED BY <2>2, <2>3, MarkerEvent
<1>3. i \in 1..Len(Flow) /\ held + 1 \in Nat /\ held + 2 \in Nat /\ 1 \in Nat
  BY <1>t
<1>4. driver = "done"
  BY <1>1, <1>2, <1>3, <1>t DEF FlowInv, TypeOK
<1>5. i = Len(Flow)
  <2>1. CASE Ended(Flow, Len(Flow) - 1)
    BY <1>2, <1>t, <1>3, <2>1
  <2>2. CASE Len(Flow) = 2 /\ Begins(Flow, 1)
    BY <1>1, <1>t, <1>3, <2>2
  <2> QED BY <1>4, <2>1, <2>2 DEF FlowInv
<1> QED BY <1>4, <1>5

LEMMA LogInvInit == Init => LogInv
  BY DEF Init, Session!Init, LogInv, Session!Final, CompletedIsWhole

LEMMA FinalLast ==
  TypeOK => (Session!Final <=> log # <<>> /\ FinalEvent(log[Len(log)]))
  BY SessionLibrary DEF Session!Final, FinalEvent

\* The final status reaches the client when the driver is done.
LEMMA LogInvRead ==
  ASSUME TypeOK, FlowInv, LogInv, driver # "dropped", ClientReads
  PROVE  LogInv'
<1>t. /\ held \in Nat /\ Len(Flow) \in Nat /\ Len(log) \in Nat /\ TypeOK' /\ log' \in Seq(Event)
      /\ Flow \in Seq(Event)
  BY FlowType, TypeNext, PipelineAssumption DEF TypeOK, Next
<1>1. log' = Append(log, Head(events)) /\ events # <<>> /\ events' = Tail(events)
      /\ UNCHANGED <<producer, produced, driver, held, error, stored, client>>
  BY DEF ClientReads, producerVars, driverVars
<1>2. log \in Seq(Event) /\ Head(events) \in Event /\ events \in Seq(Event)
  BY <1>1, HeadTailProperties DEF TypeOK
<1>3. Len(log') = Len(log) + 1 /\ log'[Len(log) + 1] = Head(events) /\ log' # <<>>
  BY <1>1, <1>2, AppendProperties
<1>4. Flow[Len(log) + 1] = Head(events) /\ Len(log) + 1 \in 1..Len(Flow)
  BY <1>1, <1>t, FlowType
<1>5. SUFFICES ASSUME FinalEvent(Head(events)) PROVE LogInv'
  <2>1. Last(log') = Head(events)
    BY <1>3, SessionLibrary
  <2>2. FinalEvent(StatusUpdate("COMPLETED"))
    BY DEF FinalEvent, StatusUpdate, Session!StatusUpdate
  <2> QED BY <2>1, <2>2, SessionLibrary DEF LogInv, Session!Final, CompletedIsWhole, FinalEvent
<1>6. driver = "done" /\ Len(log) + 1 = Len(Flow)
  BY <1>4, <1>5, OnlyLastFinal
<1>7. log' = Flow /\ Last(log') = Flow[Len(Flow)]
  <2>1. Len(events) = 1
    <3>1. Len(Flow) = Len(log) + Len(events) /\ Len(events) \in Nat
      BY FlowType
    <3>2. Len(log) \in Nat
      BY <1>t
    <3> QED BY <1>6, <3>1, <3>2
  <2>2. events' = <<>>
    BY <1>1, <1>2, <2>1
  <2>3. Flow' = log'
    BY <1>t, <2>2, ConcatEmptySeq DEF Flow
  <2> QED BY <1>3, <1>6, <2>3, ReadFlow DEF Last
<1>8. driver' = "done" /\ stored' \in {Last(log').state, "lost"}
  BY <1>1, <1>6, <1>7, StatusEvent DEF FlowInv
<1>9. ASSUME Flow[Len(Flow)] = StatusUpdate("COMPLETED")
      PROVE  Session!ChunksIn(Flow) = produced /\ producer = "ended"
  <2>1. /\ Ended(Flow, Len(Flow) - 1)
        /\ final_status = "COMPLETED"
    <3>1. StatusUpdate("FAILED") # StatusUpdate("COMPLETED")
      BY DEF StatusUpdate, Session!StatusUpdate
    <3>2. \A s : StatusUpdate(s) = StatusUpdate("COMPLETED") => s = "COMPLETED"
      BY DEF StatusUpdate, Session!StatusUpdate
    <3> QED BY <1>6, <1>9, <3>1, <3>2 DEF FlowInv
  <2>2. error \notin Session!ErrorStatus /\ error # "FAILED"
    <3>1. error \in Session!ErrorStatus => error # None /\ error # "COMPLETED"
      BY ErrorStatusType
    <3>2. "FAILED" \in Session!ErrorStatus
      BY DEF Session!ErrorStatus
    <3> QED BY <2>1, <3>1, <3>2 DEF final_status
  <2>3. /\ producer = "ended" /\ produced = held /\ Len(Flow) - 1 = held + 3
        /\ Begins(Flow, held + 2) /\ Flow[held + 3] = ArtifactUpdate(0, held > 0, TRUE)
    BY <2>1, <2>2 DEF Ended
  <2>4. Len(Flow) = held + 4
    BY <1>t, <2>3
  <2>5. \A i \in ((held + 2) + 1)..Len(Flow) : ~ Session!IsChunk(Flow[i])
    <3>1. \A i \in ((held + 2) + 1)..Len(Flow) : i = held + 3 \/ i = Len(Flow)
      BY <1>t, <2>4
    <3> QED BY <1>9, <2>3, <3>1, MarkerEvent, StatusEvent
  <2>6. held + 2 \in Nat /\ held + 2 > 1 /\ (held + 2) - 2 = held
    BY <1>t
  <2> QED BY <1>t, <2>3, <2>5, <2>6, ChunkCount
<1>10. CompletedIsWhole'
  BY <1>1, <1>7, <1>9 DEF CompletedIsWhole, StatusUpdate
<1> QED BY <1>8, <1>10 DEF LogInv

\* A final status the client has read stays true.
LEMMA LogInvKept ==
  ASSUME TypeOK, LogInv, [Next]_vars, UNCHANGED log
  PROVE  LogInv'
<1>1. Session!Final' <=> Session!Final
  BY DEF Session!Final
<1>2. CASE ~ Session!Final
  <2>1. ~ (log # <<>> /\ Last(log) = StatusUpdate("COMPLETED"))
    BY <1>2, SessionLibrary DEF Session!Final, StatusUpdate, Session!StatusUpdate
  <2> QED BY <1>1, <1>2, <2>1 DEF LogInv, CompletedIsWhole
<1>3. CASE Session!Final
  <2>1. driver = "done"
    BY <1>3 DEF LogInv
  <2>2. UNCHANGED <<driver, stored>> /\ (producer = "ended" => UNCHANGED <<producer, produced>>)
    BY <2>1
       DEF Next, Executor, Driver, ReceiveRejected, Start, ModuleYields, ModuleFails, ModuleEnds,
           TimeoutElapses, SendTimeout, AnswerRejected, DropRejected, SendSubmitted, SendWorking,
           ReceiveChunk, ReceiveError, ReceiveEnd, SendChunk, SendMarker, SaveTask, SendLast,
           ClientReads, ClientLeaves, ResponseEnds, vars, producerVars, driverVars
  <2> QED BY <1>1, <2>2 DEF LogInv, CompletedIsWhole
<1> QED BY <1>2, <1>3

-----------------------------------------------------------------------------
LEMMA PipeInit == Init => PipeInv
  BY DriverInvInit, FlowInvInit, LogInvInit DEF Init, Session!Init, PipeInv

LEMMA PipeNext == TypeOK /\ PipeInv /\ [Next]_vars => PipeInv'
<1> SUFFICES ASSUME TypeOK, PipeInv, [Next]_vars PROVE PipeInv'
  OBVIOUS
<1>1. DriverInv'
  BY DriverInvNext DEF PipeInv
<1>2. client' = "open" => client = "open"
  BY DEF Next, Executor, Driver, ReceiveRejected, Start, ModuleYields, ModuleFails, ModuleEnds,
         TimeoutElapses, SendTimeout, AnswerRejected, DropRejected, SendSubmitted, SendWorking,
         ReceiveChunk, ReceiveError, ReceiveEnd, SendChunk, SendMarker, SaveTask, SendLast,
         ClientReads, ClientLeaves, ResponseEnds, vars, clientVars
<1>3. client' = "open" => driver' # "dropped" /\ FlowInv'
  BY <1>2, FlowInvNext DEF PipeInv
<1>4. client' # "open" => events' = <<>>
  BY DEF PipeInv, Next, Executor, Driver, ReceiveRejected, Start, ModuleYields, ModuleFails,
         ModuleEnds, TimeoutElapses, SendTimeout, AnswerRejected, DropRejected, SendSubmitted,
         SendWorking, ReceiveChunk, ReceiveError, ReceiveEnd, SendChunk, SendMarker, SaveTask,
         SendLast, send, ClientReads, ClientLeaves, ResponseEnds, vars, clientVars
<1>5. LogInv'
  <2>1. CASE ClientReads
    BY <2>1, LogInvRead DEF PipeInv, ClientReads
  <2>2. CASE ~ ClientReads
    <3>1. UNCHANGED log
      BY <2>2 DEF Next, Executor, Driver, ReceiveRejected, Start, ModuleYields, ModuleFails,
           ModuleEnds, TimeoutElapses, SendTimeout, AnswerRejected, DropRejected, SendSubmitted,
           SendWorking, ReceiveChunk, ReceiveError, ReceiveEnd, SendChunk, SendMarker, SaveTask,
           SendLast, ClientLeaves, ResponseEnds, vars, clientVars
    <3> QED BY <3>1, LogInvKept DEF PipeInv
  <2> QED BY <2>1, <2>2
<1> QED BY <1>1, <1>3, <1>4, <1>5 DEF PipeInv

LEMMA PipeCorrect == Spec => [](TypeOK /\ PipeInv)
<1> QED BY TypeInit, TypeNext, PipeInit, PipeNext, PTL DEF Spec

\* COMPLETED closes a whole output only, whatever the timeout and the two
\* channels do: every chunk the module yielded was read before it.
THEOREM CompletedWhole == Spec => []CompletedIsWhole
<1>1. PipeInv => CompletedIsWhole
  BY DEF PipeInv, LogInv
<1> QED BY <1>1, PipeCorrect, PTL

\* No client reads a final status before the task store was asked to take it.
THEOREM FinalAfterWrite == Spec => []FinalReadAfterWrite
<1>1. PipeInv => FinalReadAfterWrite
  BY DEF PipeInv, LogInv, FinalReadAfterWrite
<1> QED BY <1>1, PipeCorrect, PTL
-----------------------------------------------------------------------------
(* The client reads a session *)

\* Where the event f[i] stands in a response.
Told(f, i) ==
  \/ Begins(f, i)
  \/ i > 2 /\ Begins(f, i - 1) /\ f[i] = ArtifactUpdate(0, i > 3, TRUE)
  \/ /\ i > 3 /\ Begins(f, i - 2) /\ f[i - 1] = ArtifactUpdate(0, i > 4, TRUE)
     /\ f[i] = StatusUpdate("COMPLETED")
  \/ /\ i > 1 /\ Begins(f, i - 1)
     /\ \E s \in Session!ErrorStatus : f[i] = StatusUpdate(s) /\ (i = 2 => s = "FAILED")

FlowTold == client = "open" => \A i \in 1..Len(Flow) : Told(Flow, i)

LEMMA FlowIsTold == TypeOK /\ PipeInv => FlowTold
<1> SUFFICES ASSUME TypeOK, PipeInv, client = "open", NEW i \in 1..Len(Flow)
             PROVE  Told(Flow, i)
  BY DEF FlowTold
<1>t. held \in Nat /\ Len(Flow) \in Nat /\ i \in Nat
  BY FlowType, PipelineAssumption DEF TypeOK
<1>0. \A s \in Session!ErrorStatus : s # None
  BY ErrorStatusType
<1>1. \A n \in Nat : Begins(Flow, n) /\ i =< n => Begins(Flow, i)
  BY <1>t DEF Begins
<1>2. ASSUME NEW n \in Nat, Ended(Flow, n), i =< n PROVE Told(Flow, i)
  <2>1. CASE Begins(Flow, i)
    BY <2>1 DEF Told
  <2>2. CASE ~ Begins(Flow, i)
    <3>1. 1 \in Nat /\ held + 2 \in Nat
      BY <1>t
    <3>2. n = held + 3 /\ Begins(Flow, held + 2) /\ Flow[n] = ArtifactUpdate(0, held > 0, TRUE)
      BY <1>1, <1>2, <2>2, <3>1 DEF Ended
    <3>3. i = held + 3
      BY <1>t, <1>1, <1>2, <2>2, <3>1, <3>2
    <3>4. i > 2 /\ i - 1 = held + 2 /\ (held > 0) = (i > 3)
      BY <1>t, <3>3
    <3> QED BY <3>2, <3>3, <3>4 DEF Told
  <2> QED BY <2>1, <2>2
<1>3. ASSUME Ended(Flow, i - 1), Flow[i] = StatusUpdate(final_status) PROVE Told(Flow, i)
  <2>1. CASE error = "FAILED" /\ i - 1 = 1 /\ Begins(Flow, 1)
    <3>1. i = 2 /\ i - 1 = 1
      BY <1>t, <2>1
    <3>2. Flow[i] = StatusUpdate("FAILED") /\ "FAILED" \in Session!ErrorStatus
      BY <1>0, <1>3, <2>1 DEF final_status, Session!ErrorStatus
    <3> QED BY <2>1, <3>1, <3>2 DEF Told
  <2>2. CASE error \in Session!ErrorStatus /\ i - 1 = held + 2 /\ Begins(Flow, held + 2)
    <3>1. i > 2 /\ i # 2
      BY <1>t, <2>2
    <3>2. Flow[i] = StatusUpdate(error)
      BY <1>0, <1>3, <2>2 DEF final_status
    <3>3. i > 1 /\ i - 1 = held + 2
      BY <2>2, <3>1
    <3>4. \E s \in Session!ErrorStatus : Flow[i] = StatusUpdate(s) /\ (i = 2 => s = "FAILED")
      BY <2>2, <3>1, <3>2
    <3> QED BY <2>2, <3>3, <3>4 DEF Told
  <2>3. CASE /\ error = None /\ i - 1 = held + 3 /\ Begins(Flow, held + 2)
             /\ Flow[i - 1] = ArtifactUpdate(0, held > 0, TRUE)
    <3>1. i > 3 /\ i - 2 = held + 2 /\ (held > 0) = (i > 4)
      BY <1>t, <2>3
    <3>2. Flow[i] = StatusUpdate("COMPLETED")
      BY <1>3, <2>3 DEF final_status
    <3> QED BY <2>3, <3>1, <3>2 DEF Told
  <2> QED BY <1>3, <2>1, <2>2, <2>3 DEF Ended
<1>f. FlowInv /\ i =< Len(Flow) /\ i > 0
  BY <1>t DEF PipeInv
<1>4. CASE driver \in {"idle", "submitted", "refuse"}
  <2>1. Len(Flow) = 0
    BY <1>4, <1>f DEF FlowInv
  <2> QED BY <1>t, <1>f, <2>1
<1>5. CASE driver \in {"working", "forward", "receive", "marker"}
  <2>1. Begins(Flow, Len(Flow))
    BY <1>5, <1>f DEF FlowInv
  <2> QED BY <1>t, <1>1, <1>f, <2>1 DEF Told
<1>6. CASE driver \in {"save", "last"}
  BY <1>t, <1>2, <1>6, <1>f DEF FlowInv
<1>7. CASE driver = "done"
  <2>1. CASE Ended(Flow, Len(Flow) - 1) /\ Flow[Len(Flow)] = StatusUpdate(final_status)
    <3>1. CASE i = Len(Flow)
      BY <1>3, <2>1, <3>1
    <3>2. CASE i # Len(Flow)
      <4>1. Len(Flow) - 1 \in Nat /\ i =< Len(Flow) - 1
        BY <1>t, <1>f, <3>2
      <4> QED BY <1>2, <2>1, <4>1
    <3> QED BY <3>1, <3>2
  <2>2. CASE Len(Flow) = 2 /\ Begins(Flow, 1) /\ Flow[2] = StatusUpdate("FAILED")
    <3>1. CASE i = 1
      BY <2>2, <3>1 DEF Told
    <3>2. CASE i = 2
      <4>1. i > 1 /\ i - 1 = 1 /\ "FAILED" \in Session!ErrorStatus
        BY <3>2 DEF Session!ErrorStatus
      <4> QED BY <2>2, <3>2, <4>1 DEF Told
    <3> QED BY <1>t, <1>f, <2>2, <3>1, <3>2
  <2> QED BY <1>7, <1>f, <2>1, <2>2 DEF FlowInv
<1> QED BY <1>4, <1>5, <1>6, <1>7 DEF PipeInv, TypeOK

\* A client that has read n events of an output, two at least, has read WORKING
\* or a chunk last.
LEMMA ReadSoFar ==
  ASSUME log \in Seq(Event), NEW n \in Nat, Len(log) = n, Begins(log, n)
  PROVE  /\ n = 1 => log = <<StatusUpdate("SUBMITTED")>>
         /\ n > 1 => Session!Running /\ Session!ChunksIn(log) = n - 2
<1>1. n = 1 => log = <<StatusUpdate("SUBMITTED")>>
  <2> SUFFICES ASSUME n = 1 PROVE log = <<StatusUpdate("SUBMITTED")>>
    OBVIOUS
  <2>1. log[1] = StatusUpdate("SUBMITTED")
    BY DEF Begins, Body
  <2> QED BY <2>1
<1>2. ASSUME n > 1 PROVE Session!Running
  <2>1. n \in 1..n /\ log # <<>> /\ n \in Nat \ {0}
    BY <1>2
  <2>2. Session!Last(log) = Body(n)
    BY <2>1, SessionLibrary DEF Begins
  <2>3. CASE n = 2
    <3>1. Body(n) = Session!StatusUpdate("WORKING")
      BY <2>3 DEF Body, StatusUpdate
    <3> QED BY <2>1, <2>2, <3>1 DEF Session!Running
  <2>4. CASE n > 2
    BY <2>1, <2>2, <2>4, BodyEvents DEF Session!Running
  <2> QED BY <1>2, <2>3, <2>4
<1>3. ASSUME n > 1 PROVE Session!ChunksIn(log) = n - 2
  <2>1. \A i \in (n + 1)..Len(log) : ~ Session!IsChunk(log[i])
    OBVIOUS
  <2> QED BY <1>3, <2>1, ChunkCount
<1> QED BY <1>1, <1>2, <1>3

\* Each event the client reads is the session's next one.
LEMMA ReadRefines ==
  ASSUME TypeOK, PipeInv, ClientReads
  PROVE  Session!Next
<1> DEFINE p == Len(log) + 1
<1>1. /\ client = "open" /\ events # <<>> /\ UNCHANGED client
      /\ log' = Append(log, Head(events)) /\ log \in Seq(Event)
  BY DEF ClientReads, TypeOK
<1>2. /\ p \in 1..Len(Flow) /\ p \in Nat /\ Len(log) \in Nat /\ p - 1 = Len(log)
      /\ Flow[p] = Head(events)
      /\ \A i \in 1..Len(log) : Flow[i] = log[i]
  <2>1. /\ Len(Flow) = Len(log) + Len(events) /\ Len(events) > 0
        /\ Len(log) \in Nat /\ Len(events) \in Nat /\ Flow[p] = Head(events)
        /\ \A i \in 1..Len(log) : Flow[i] = log[i]
    BY <1>1, FlowType
  <2> QED BY <2>1
<1>3. \A ev : ev = Flow[p] => Session!Read(ev)
  BY <1>1, <1>2 DEF Session!Read
<1>4. \A n \in Nat : Begins(Flow, n) /\ n =< Len(log) => Begins(log, n)
  BY <1>2 DEF Begins
<1>5. Told(Flow, p)
  BY <1>1, <1>2, FlowIsTold DEF FlowTold
<1> HIDE DEF p
<1>6. CASE Begins(Flow, p)
  <2>1. Flow[p] = Body(p) /\ Begins(log, Len(log))
    BY <1>2, <1>6 DEF Begins
  <2>2. CASE p = 1
    <3>1. log = <<>> /\ Flow[p] = Session!StatusUpdate("SUBMITTED")
      BY <1>1, <1>2, <2>1, <2>2 DEF Body, StatusUpdate
    <3> QED BY <1>3, <3>1 DEF Session!Next, Session!ReadSubmitted
  <2>3. CASE p = 2
    <3>1. log = <<Session!StatusUpdate("SUBMITTED")>>
      <4>1. Len(log) = 1 /\ Begins(log, 1)
        <5>1. Len(log) = 1
          BY <1>2, <2>3
        <5> QED BY <2>1, <5>1
      <4> QED BY <1>1, <4>1, ReadSoFar DEF StatusUpdate
    <3>2. Flow[p] = Session!StatusUpdate("WORKING")
      BY <2>1, <2>3 DEF Body, StatusUpdate
    <3> QED BY <1>3, <3>1, <3>2 DEF Session!Next, Session!ReadWorking
  <2>4. CASE p > 2
    <3>1. p # 1 /\ p # 2 /\ Len(log) > 1
      BY <1>2, <2>4
    <3>2. Flow[p] = ArtifactUpdate(p - 2, p > 3, FALSE)
      BY <2>1, <2>4, <3>1, Zenon DEF Body
    <3>3. Session!Running /\ Session!ChunksIn(log) = Len(log) - 2
      BY <1>1, <1>2, <2>1, <3>1, ReadSoFar
    <3>4. p - 2 = (Len(log) - 2) + 1 /\ (p > 3) = (Len(log) - 2 > 0)
      BY <1>2
    <3>5. Flow[p] = Session!ArtifactUpdate(Session!ChunksIn(log) + 1, Session!ChunksIn(log) > 0, FALSE)
      BY <3>2, <3>3, <3>4 DEF ArtifactUpdate
    <3>6. Session!ReadChunk
      BY <1>3, <3>3, <3>5, Zenon DEF Session!ReadChunk
    <3> QED BY <3>6 DEF Session!Next
  <2> QED BY <1>2, <2>2, <2>3, <2>4
<1>7. CASE p > 2 /\ Begins(Flow, p - 1) /\ Flow[p] = ArtifactUpdate(0, p > 3, TRUE)
  <2>1. Begins(log, Len(log)) /\ Len(log) > 1
    BY <1>2, <1>4, <1>7
  <2>2. Session!Running /\ Session!ChunksIn(log) = Len(log) - 2
    BY <1>1, <1>2, <2>1, ReadSoFar
  <2>3. (p > 3) = (Len(log) - 2 > 0)
    BY <1>2
  <2>4. Flow[p] = Session!ArtifactUpdate(0, Session!ChunksIn(log) > 0, TRUE)
    BY <1>7, <2>2, <2>3 DEF ArtifactUpdate
  <2>5. Session!ReadEndMarker
    BY <1>3, <2>2, <2>4, Zenon DEF Session!ReadEndMarker
  <2> QED BY <2>5 DEF Session!Next
<1>8. CASE /\ p > 3 /\ Flow[p - 1] = ArtifactUpdate(0, p > 4, TRUE)
           /\ Flow[p] = StatusUpdate("COMPLETED")
  <2>1. log # <<>> /\ Session!Last(log) = ArtifactUpdate(0, p > 4, TRUE)
    <3>1. Len(log) > 2 /\ p - 1 = Len(log)
      BY <1>2, <1>8
    <3>2. log # <<>> /\ log[Len(log)] = Flow[p - 1]
      BY <1>1, <1>2, <3>1
    <3> QED BY <1>8, <3>2, SessionLibrary
  <2>2. Session!Last(log).type = "artifact" /\ Session!Last(log).last_chunk
    BY <2>1 DEF ArtifactUpdate, Session!ArtifactUpdate
  <2>3. Session!ReadCompleted
    BY <1>3, <1>8, <2>1, <2>2 DEF Session!ReadCompleted, StatusUpdate
  <2> QED BY <2>3 DEF Session!Next
<1>9. CASE p > 1 /\ Begins(Flow, p - 1)
           /\ \E s \in Session!ErrorStatus : Flow[p] = StatusUpdate(s) /\ (p = 2 => s = "FAILED")
  <2>1. PICK s \in Session!ErrorStatus : Flow[p] = StatusUpdate(s) /\ (p = 2 => s = "FAILED")
    BY <1>9
  <2>2. Begins(log, Len(log)) /\ Session!Read(Session!StatusUpdate(s))
    BY <1>2, <1>3, <1>4, <1>9, <2>1 DEF StatusUpdate
  <2>3. CASE p = 2
    <3>1. log = <<Session!StatusUpdate("SUBMITTED")>>
      <4>1. Len(log) = 1 /\ Begins(log, 1)
        <5>1. Len(log) = 1
          BY <1>2, <2>3
        <5> QED BY <2>2, <5>1
      <4> QED BY <1>1, <4>1, ReadSoFar DEF StatusUpdate
    <3> QED BY <2>1, <2>2, <2>3, <3>1 DEF Session!Next, Session!ReadError
  <2>4. CASE p > 2
    <3>1. Session!Running
      BY <1>1, <1>2, <2>2, <2>4, ReadSoFar
    <3> QED BY <2>2, <3>1 DEF Session!Next, Session!ReadError
  <2> QED BY <1>2, <1>9, <2>3, <2>4
<1> QED BY <1>5, <1>6, <1>7, <1>8, <1>9 DEF Told

\* The server closes the response only after a final status.
LEMMA EndRefines ==
  ASSUME TypeOK, PipeInv, ResponseEnds
  PROVE  Session!Next
<1>1. client = "open" /\ driver = "done" /\ events = <<>> /\ client' = "ended" /\ UNCHANGED log
  BY DEF ResponseEnds
<1>2. log = Flow /\ FlowInv /\ log \in Seq(Event) /\ held \in Nat /\ Len(log) \in Nat
  BY <1>1, FlowType, PipelineAssumption DEF PipeInv, TypeOK
<1>3. \E s \in TaskState : log # <<>> /\ log[Len(log)] = StatusUpdate(s)
                           /\ s \in Session!ErrorStatus \cup {"COMPLETED"}
  <2>1. CASE Ended(log, Len(log) - 1) /\ log[Len(log)] = StatusUpdate(final_status)
    <3>1. log # <<>>
      <4>1. Len(log) - 1 > 0
        <5>1. \/ Len(log) - 1 = 1 \/ Len(log) - 1 = held + 2 \/ Len(log) - 1 = held + 3
          BY <2>1 DEF Ended
        <5>2. Len(log) \in Nat /\ held \in Nat
          BY <1>2
        <5>3. \A m, h \in Nat : m - 1 = 1 \/ m - 1 = h + 2 \/ m - 1 = h + 3 => m - 1 > 0
          OBVIOUS
        <5> QED BY <5>1, <5>2, <5>3, Zenon
      <4> QED BY <1>2, <4>1
    <3>2. final_status \in Session!ErrorStatus \cup {"COMPLETED"}
      BY <2>1, ErrorStatusType DEF Ended, final_status, Session!ErrorStatus
    <3> QED BY <2>1, <3>1, <3>2, OutcomeType
  <2>2. CASE Len(log) = 2 /\ log[2] = StatusUpdate("FAILED")
    BY <1>2, <2>2 DEF Session!ErrorStatus, TaskState
  <2> QED BY <1>1, <1>2, <2>1, <2>2 DEF FlowInv
<1>4. Session!Final
  BY <1>3, SessionLibrary DEF Session!Final, StatusUpdate, Session!StatusUpdate
<1> QED BY <1>1, <1>4 DEF Session!Next, Session!End

LEMMA StepRefines ==
  TypeOK /\ PipeInv /\ [Next]_vars => [Session!Next]_(Session!sessionVars)
<1> SUFFICES ASSUME TypeOK, PipeInv, [Next]_vars
             PROVE  Session!Next \/ UNCHANGED <<log, client>>
  BY DEF Session!sessionVars
<1>1. CASE ClientReads
  BY <1>1, ReadRefines
<1>2. CASE ClientLeaves
  BY <1>2 DEF ClientLeaves, Session!Next, Session!Leave
<1>3. CASE ResponseEnds
  BY <1>3, EndRefines
<1>4. CASE ~ (ClientReads \/ ClientLeaves \/ ResponseEnds)
  BY <1>4
     DEF Next, Executor, Driver, ReceiveRejected, Start, ModuleYields, ModuleFails, ModuleEnds,
         TimeoutElapses, SendTimeout, AnswerRejected, DropRejected, SendSubmitted, SendWorking,
         ReceiveChunk, ReceiveError, ReceiveEnd, SendChunk, SendMarker, SaveTask, SendLast,
         vars, clientVars
<1> QED BY <1>1, <1>2, <1>3, <1>4

\* Whatever the two bounded channels, the timeout and the client do, the client
\* reads the events of one session, in the order the A2A protocol gives them.
THEOREM ReadsASession == Spec => ReadsSession
<1>1. Init => Session!Init
  BY DEF Init
<1> QED BY <1>1, StepRefines, PipeCorrect, PTL DEF Spec, ReadsSession, Session!Spec
=============================================================================
