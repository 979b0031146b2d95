------------------------------ MODULE ClientStream ------------------------------
(***************************************************************************)
(* A2AClient::stream_message (client/client.rs): the client's reading of   *)
(* one SSE response.  The network cuts the body into chunks anywhere, also *)
(* inside a line and inside a multi-byte character; the client decodes     *)
(* each chunk on its own, appends it to a buffer and takes complete lines  *)
(* from it.                                                                *)
(*                                                                         *)
(* A line of the body is a "data:" frame (an event, or an error frame), or *)
(* one the client skips (a keepalive comment, the blank separator, another *)
(* SSE field).  A byte of its text is a character of its own ("text") or   *)
(* half of one ("lead", "cont"); its newline is named for what the line    *)
(* is, and a frame is named by where in the body it ends.                  *)
(***************************************************************************)
EXTENDS Naturals, Sequences, SequencesExt

CONSTANT MaxBytes       \* bound on the bytes of one response

ASSUME ClientStreamAssumption == MaxBytes \in Nat

Event == {"update", "terminal", "error"}
Line == Event \cup {"skipped"}
Byte == {"text", "lead", "cont"} \cup Line

VARIABLES
    body,       \* the bytes the server sends
    pos,        \* how many of them have been read
    buf,        \* decoded symbols not yet parsed
    out,        \* what was yielded: the frame, and whether its text is intact
    ended       \* how the stream ended, "no" before it did

vars == <<body, pos, buf, out, ended>>

Symbol == [at : Nat, lost : BOOLEAN]

(* What a server sends is UTF-8, and an event has a text.  The last line   *)
(* may be unfinished.                                                      *)
WellFormed(b) ==
    \A i \in 1..Len(b) :
        /\ b[i] = "lead" => i < Len(b) /\ b[i + 1] = "cont"
        /\ b[i] = "cont" => i > 1 /\ b[i - 1] = "lead"
        /\ b[i] \in Event => i > 1 /\ b[i - 1] \notin Line

(* String::from_utf8_lossy of the chunk from first to last: a character    *)
(* cut by its border becomes replacement characters.                       *)
from_utf8_lossy(first, last) ==
    [i \in 1..(last - first + 1) |->
        [at   |-> first + i - 1,
         lost |-> \/ body[first + i - 1] = "lead" /\ first + i - 1 = last
                  \/ body[first + i - 1] = "cont" /\ i = 1]]

Init ==
    /\ body \in BoundedSeq(Byte, MaxBytes) /\ WellFormed(body)
    /\ pos = 0
    /\ buf = << >>
    /\ out = << >>
    /\ ended = "no"

newlines == {i \in 1..Len(buf) : body[buf[i].at] \in Line}

(* Mutant: bytes held back for the next read are also decoded now. *)
ReadChunkRepeated ==
    /\ ended = "no"
    /\ newlines = {}
    /\ \E upto \in pos + 1 .. Len(body) :
        /\ buf' = buf \o from_utf8_lossy(pos + 1, upto)
        /\ pos' = pos
    /\ UNCHANGED <<body, out, ended>>

(* byte_stream.next(): some more bytes. *)
ReadChunk ==
    /\ ended = "no"
    /\ newlines = {}
    /\ \E upto \in pos + 1 .. Len(body) :
        /\ buf' = buf \o from_utf8_lossy(pos + 1, upto)
        /\ pos' = upto
    /\ UNCHANGED <<body, out, ended>>

(* Mutant: a terminal status no longer ends the stream. *)
is_terminal_event_never(i) == FALSE

(* TERMINAL_STATES.contains(state) *)
is_terminal_event(i) == body[i] = "terminal"

(* Mutant: the buffer is cleared with the line it gave. *)
drained_all(nl) == << >>

(* buf.drain(..=nl) *)
drained(nl) == SubSeq(buf, nl + 1, Len(buf))

(* One turn of the inner loop: drain the first complete line and act on it. *)
ParseLine ==
    /\ ended = "no"
    /\ \E nl \in newlines :
        LET frame == buf[nl].at
        IN /\ \A i \in newlines : nl <= i
           /\ buf' = drained(nl)
           /\ out' = IF body[frame] \in {"update", "terminal"}
                     THEN Append(out, [frame |-> frame,
                                       intact |-> \A i \in 1..nl : ~buf[i].lost])
                     ELSE out
           /\ ended' = CASE body[frame] = "error"     -> "error_frame"
                         [] is_terminal_event(frame)  -> "terminal"
                         [] OTHER                     -> "no"
    /\ UNCHANGED <<body, pos>>

(* The server closes: what the buffer holds of an unfinished line is gone. *)
ServerCloses ==
    /\ ended = "no"
    /\ newlines = {}
    /\ pos = Len(body)
    /\ ended' = "closed"
    /\ UNCHANGED <<body, pos, buf, out>>

(* The request or a read fails; the http client's timer runs over the      *)
(* whole response, its body included, and makes it fail too.  Both are     *)
(* Connection errors.  Or the consumer drops the stream.                   *)
ReadFails ==
    /\ ended = "no"
    /\ newlines = {}
    /\ ended' \in {"connection_lost", "timed_out", "dropped"}
    /\ UNCHANGED <<body, pos, buf, out>>

Next == ReadChunk \/ ParseLine \/ ServerCloses \/ ReadFails

Spec == Init /\ [][Next]_vars

-----------------------------------------------------------------------------
(* The frames a reader should see: the events up to the first terminal     *)
(* one, and none from the first error frame on.                            *)
Stops(i) == body[i] \in {"terminal", "error"}

Due == {i \in 1..Len(body) : /\ body[i] \in {"update", "terminal"}
                             /\ \A j \in 1..(i - 1) : ~Stops(j)}

Yielded == {out[j].frame : j \in 1..Len(out)}

(* The buffer is the tail of what was read, symbol for byte, and the       *)
(* output keeps its shape.                                                 *)
TypeOK ==
    /\ body \in Seq(Byte)
    /\ pos \in 0..Len(body)
    /\ buf \in Seq(Symbol)
    /\ Len(buf) <= pos
    /\ \A i \in 1..Len(buf) : buf[i].at = pos - Len(buf) + i
    /\ out \in Seq([frame : 1..Len(body), intact : BOOLEAN])
    /\ ended \in {"no", "terminal", "error_frame", "closed", "connection_lost",
                  "timed_out", "dropped"}

(* However the body is cut into chunks, the stream yields the server's     *)
(* events in order, each once and none left out, and none after a terminal *)
(* event or an error frame.                                                *)
YieldsInOrder ==
    /\ \A j, k \in 1..Len(out) : j < k => out[j].frame < out[k].frame
    /\ \A j \in 1..Len(out) : {i \in Due : i <= out[j].frame}
                                = {out[k].frame : k \in 1..j}

(* A stream that ended without a connection error or the consumer's drop   *)
(* yielded every event it should.  (The timer of the http client ends a    *)
(* stream that lasts longer with a connection error.)                      *)
NothingLost ==
    ended \in {"terminal", "error_frame", "closed"} => Yielded = Due

(* The claim of client.rs:106 that the parsed SSE event objects are what   *)
(* is yielded: each has the text the server sent.                          *)
EventsIntact == \A j \in 1..Len(out) : out[j].intact

==================================================================================
