----------------------------- MODULE SseSession -----------------------------
(***************************************************************************)
(* What a message/stream response promises its client: the order of the    *)
(* events it reads, and that the server ends the response only after a     *)
(* final status.                                                           *)
(***************************************************************************)
EXTENDS Naturals, Sequences, FiniteSets, SequencesExt

VARIABLES
  log,     \* the events the client has read
  client   \* "open" while it reads, "left" once it disconnected, "ended" once
           \* the server closed the response

sessionVars == <<log, client>>

StatusUpdate(s) == [type |-> "status", state |-> s]

\* Chunk n of the output; the first one opens the artifact and later ones are
\* appended to it. The end marker carries no output: chunk 0.
ArtifactUpdate(n, append, last_chunk) ==
  [type |-> "artifact", chunk |-> n, append |-> append, last_chunk |-> last_chunk]

IsChunk(ev) == ev.type = "artifact" /\ ~ ev.last_chunk

ChunksIn(events) == Cardinality({i \in DOMAIN events : IsChunk(events[i])})

\* What may come before more output or a failure: a running task.
Running == log # <<>> /\ (Last(log) = StatusUpdate("WORKING") \/ IsChunk(Last(log)))

\* The statuses an error may end a stream with.
ErrorStatus == {"FAILED", "CANCELED", "REJECTED", "INPUT_REQUIRED"}

Final == log # <<>> /\ Last(log).type = "status"
                    /\ Last(log).state \in ErrorStatus \cup {"COMPLETED"}

Read(ev) ==
  /\ client = "open"
  /\ log' = Append(log, ev)
  /\ UNCHANGED client

ReadSubmitted == log = <<>> /\ Read(StatusUpdate("SUBMITTED"))

ReadWorking == log = <<StatusUpdate("SUBMITTED")>> /\ Read(StatusUpdate("WORKING"))

ReadChunk ==
  /\ Running
  /\ Read(ArtifactUpdate(ChunksIn(log) + 1, ChunksIn(log) > 0, FALSE))

ReadEndMarker == Running /\ Read(ArtifactUpdate(0, ChunksIn(log) > 0, TRUE))

ReadCompleted ==
  /\ log # <<>>
  /\ Last(log).type = "artifact" /\ Last(log).last_chunk
  /\ Read(StatusUpdate("COMPLETED"))

\* A message that is refused outright fails right after SUBMITTED.
ReadError ==
  \/ Running /\ \E s \in ErrorStatus : Read(StatusUpdate(s))
  \/ log = <<StatusUpdate("SUBMITTED")>> /\ Read(StatusUpdate("FAILED"))

Leave == client = "open" /\ client' = "left" /\ UNCHANGED log

End == client = "open" /\ Final /\ client' = "ended" /\ UNCHANGED log

Init == log = <<>> /\ client = "open"

Next == ReadSubmitted \/ ReadWorking \/ ReadChunk \/ ReadEndMarker \/ ReadCompleted
          \/ ReadError \/ Leave \/ End

Spec == Init /\ [][Next]_sessionVars
=============================================================================
