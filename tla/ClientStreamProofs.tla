---------------------------- MODULE ClientStreamProofs ----------------------------
(***************************************************************************)
(* Theorems about ClientStream, for any response and any way the network   *)
(* cuts it into chunks.                                                    *)
(***************************************************************************)
EXTENDS ClientStream, TLAPS

(* How much of the body the client has parsed: what it read but does not    *)
(* hold in its buffer.                                                      *)
Parsed == pos - Len(buf)

(* Newlines are of the body too, and the buffer's symbols stand for it.     *)
LEMMA BufferOf ==
  ASSUME TypeOK
  PROVE  /\ Len(buf) \in Nat /\ Len(body) \in Nat /\ pos \in Nat /\ Parsed \in Nat
         /\ Parsed + Len(buf) = pos /\ pos =< Len(body)
         /\ \A i \in 1..Len(buf) : buf[i].at = Parsed + i /\ Parsed + i \in 1..Len(body)
<1>1. /\ Len(buf) \in Nat /\ Len(body) \in Nat /\ pos \in 0..Len(body) /\ Len(buf) =< pos
      /\ \A i \in 1..Len(buf) : buf[i].at = pos - Len(buf) + i
  BY DEF TypeOK
<1> QED BY <1>1 DEF Parsed

(* A chunk that is read is decoded byte by byte and follows what was read.  *)
LEMMA ReadIs ==
  ASSUME TypeOK, ReadChunk
  PROVE  \E upto \in pos + 1 .. Len(body) :
           /\ pos' = upto
           /\ buf' \in Seq(Symbol) /\ Len(buf') = Len(buf) + (upto - pos)
           /\ \A i \in 1..Len(buf') : buf'[i].at = Parsed + i
<1>1. PICK upto \in pos + 1 .. Len(body) :
        buf' = buf \o from_utf8_lossy(pos + 1, upto) /\ pos' = upto
  BY DEF ReadChunk
<1> DEFINE chunk == from_utf8_lossy(pos + 1, upto)
<1>2. /\ buf \in Seq(Symbol) /\ pos \in Nat /\ upto \in Nat /\ upto > pos
      /\ Len(buf) \in Nat /\ Parsed \in Nat /\ Parsed + Len(buf) = pos
      /\ \A i \in 1..Len(buf) : buf[i].at = Parsed + i
  BY BufferOf DEF TypeOK
<1>3. chunk \in Seq(Symbol) /\ Len(chunk) = upto - pos
      /\ \A i \in 1..Len(chunk) : chunk[i].at = pos + i
  <2>1. (upto - (pos + 1)) + 1 = upto - pos /\ upto - pos \in Nat
    BY <1>2
  <2>2. DOMAIN chunk = 1..(upto - pos)
    BY <2>1 DEF from_utf8_lossy
  <2>3. ASSUME NEW i \in 1..(upto - pos)
        PROVE  chunk[i] \in Symbol /\ chunk[i].at = pos + i
    <3>1. i \in 1..((upto - (pos + 1)) + 1) /\ (pos + 1) + i - 1 = pos + i /\ pos + i \in Nat
      BY <1>2, <2>1, <2>3
    <3> QED BY <3>1 DEF from_utf8_lossy, Symbol
  <2>4. chunk = [i \in 1..(upto - pos) |-> chunk[i]]
    BY <2>1 DEF from_utf8_lossy
  <2> QED BY <2>1, <2>2, <2>3, <2>4
<1> HIDE DEF chunk
<1>4. /\ buf' \in Seq(Symbol) /\ Len(buf') = Len(buf) + (upto - pos)
      /\ \A i \in 1..Len(buf') : buf'[i] = IF i =< Len(buf) THEN buf[i] ELSE chunk[i - Len(buf)]
  <2>1. buf' = buf \o chunk /\ Len(chunk) \in Nat
    BY <1>1, <1>2, <1>3 DEF chunk
  <2>2. buf' \in Seq(Symbol) /\ Len(buf') = Len(buf) + Len(chunk)
    <3>1. buf \in Seq(Symbol) /\ chunk \in Seq(Symbol)
      BY <1>2, <1>3
    <3> QED BY <2>1, <3>1
  <2>3. ASSUME NEW i \in 1..(Len(buf) + Len(chunk))
        PROVE  buf'[i] = IF i =< Len(buf) THEN buf[i] ELSE chunk[i - Len(buf)]
    BY <1>2, <1>3, <2>1
  <2> QED BY <1>3, <2>2, <2>3
<1>5. ASSUME NEW i \in 1..Len(buf') PROVE buf'[i].at = Parsed + i
  <2>1. CASE i =< Len(buf)
    BY <1>2, <1>4, <1>5, <2>1
  <2>2. CASE i > Len(buf)
    <3>1. i - Len(buf) \in 1..(upto - pos) /\ pos + (i - Len(buf)) = Parsed + i
      <4>1. Len(buf') = Len(buf) + (upto - pos)
        BY <1>4
      <4>2. /\ pos \in Nat /\ upto \in Nat /\ upto > pos
            /\ Len(buf) \in Nat /\ Parsed \in Nat /\ Parsed + Len(buf) = pos
        BY <1>2
      <4>3. i \in Nat /\ i > Len(buf) /\ i =< Len(buf) + (upto - pos)
        BY <2>2, <4>1, <4>2
      <4> QED BY <4>2, <4>3
    <3>2. buf'[i] = chunk[i - Len(buf)]
      BY <1>2, <1>4, <1>5, <2>2
    <3> QED BY <1>3, <3>1, <3>2, Zenon
  <2> QED BY <1>2, <1>4, <1>5, <2>1, <2>2
<1> QED BY <1>1, <1>4, <1>5

(* A line that is parsed ends at the next newline of the body: frame.       *)
LEMMA ParseIs ==
  ASSUME TypeOK, ParseLine
  PROVE  \E frame \in (Parsed + 1)..pos :
           /\ body[frame] \in Line
           /\ \A i \in (Parsed + 1)..(frame - 1) : body[i] \notin Line
           /\ buf' \in Seq(Symbol) /\ Len(buf') = pos - frame
           /\ \A i \in 1..Len(buf') : buf'[i].at = frame + i
           /\ IF body[frame] \in {"update", "terminal"}
              THEN \E b \in BOOLEAN : out' = Append(out, [frame |-> frame, intact |-> b])
              ELSE out' = out
           /\ ended' = CASE body[frame] = "error"    -> "error_frame"
                         [] body[frame] = "terminal" -> "terminal"
                         [] OTHER                    -> "no"
<1>1. PICK nl \in newlines :
        /\ \A i \in newlines : nl =< i
        /\ buf' = drained(nl)
        /\ out' = IF body[buf[nl].at] \in {"update", "terminal"}
                  THEN Append(out, [frame |-> buf[nl].at,
                                    intact |-> \A i \in 1..nl : ~buf[i].lost])
                  ELSE out
        /\ ended' = CASE body[buf[nl].at] = "error"        -> "error_frame"
                      [] is_terminal_event(buf[nl].at)     -> "terminal"
                      [] OTHER                             -> "no"
  BY DEF ParseLine
<1>2. /\ buf \in Seq(Symbol) /\ pos \in Nat /\ Len(buf) \in Nat /\ Parsed \in Nat
      /\ Parsed + Len(buf) = pos
      /\ \A i \in 1..Len(buf) : buf[i].at = Parsed + i
  BY BufferOf DEF TypeOK
<1>3. nl \in 1..Len(buf) /\ nl \in Nat /\ body[buf[nl].at] \in Line /\ buf[nl].at = Parsed + nl
  BY <1>1, <1>2 DEF newlines
<1> DEFINE frame == Parsed + nl
<1>4. frame \in (Parsed + 1)..pos /\ body[frame] \in Line /\ frame \in Nat
  BY <1>2, <1>3
<1>5. ASSUME NEW i \in (Parsed + 1)..(frame - 1) PROVE body[i] \notin Line
  <2>1. i - Parsed \in 1..Len(buf) /\ i - Parsed < nl /\ Parsed + (i - Parsed) = i
    BY <1>2, <1>3, <1>5
  <2>2. buf[i - Parsed].at = i /\ i - Parsed \notin newlines
    BY <1>1, <1>2, <1>3, <2>1
  <2> QED BY <2>1, <2>2 DEF newlines
<1>6. /\ buf' \in Seq(Symbol) /\ Len(buf') = Len(buf) - nl
      /\ \A i \in 1..Len(buf') : buf'[i] = buf[nl + i]
  <2>1. buf' = SubSeq(buf, nl + 1, Len(buf))
    BY <1>1 DEF drained
  <2> QED BY <1>2, <1>3, <2>1
<1>7. Len(buf') = pos - frame
  BY <1>2, <1>3, <1>6
<1>8. ASSUME NEW i \in 1..Len(buf') PROVE buf'[i].at = frame + i
  <2>1. nl + i \in 1..Len(buf) /\ Parsed + (nl + i) = frame + i
    BY <1>2, <1>3, <1>6, <1>8
  <2> QED BY <1>2, <1>6, <1>8, <2>1
<1>9. \/ body[frame] \notin {"update", "terminal"} /\ out' = out
      \/ /\ body[frame] \in {"update", "terminal"}
         /\ \E b \in BOOLEAN : out' = Append(out, [frame |-> frame, intact |-> b])
  BY <1>1, <1>3
<1>10. ended' = CASE body[frame] = "error"    -> "error_frame"
                  [] body[frame] = "terminal" -> "terminal"
                  [] OTHER                    -> "no"
  BY <1>1, <1>3 DEF is_terminal_event
<1> HIDE DEF frame
<1> QED BY <1>4, <1>5, <1>6, <1>7, <1>8, <1>9, <1>10

-----------------------------------------------------------------------------
(* Types *)

LEMMA TypeInit == Init => TypeOK
<1> SUFFICES ASSUME Init PROVE TypeOK
  OBVIOUS
<1>1. body \in Seq(Byte)
  BY DEF Init, BoundedSeq, SeqOf
<1>2. Len(body) \in Nat /\ buf = << >> /\ out = << >> /\ pos = 0 /\ ended = "no"
  BY <1>1 DEF Init
<1> QED BY <1>1, <1>2 DEF TypeOK

LEMMA TypeNext == TypeOK /\ [Next]_vars => TypeOK'
<1> SUFFICES ASSUME TypeOK, [Next]_vars PROVE TypeOK'
  OBVIOUS
<1>0. /\ Len(buf) \in Nat /\ Len(body) \in Nat /\ pos \in Nat /\ Parsed \in Nat
      /\ Parsed + Len(buf) = pos /\ pos =< Len(body)
  BY BufferOf
<1>1. CASE ReadChunk
  <2>1. PICK upto \in pos + 1 .. Len(body) :
          /\ pos' = upto
          /\ buf' \in Seq(Symbol) /\ Len(buf') = Len(buf) + (upto - pos)
          /\ \A i \in 1..Len(buf') : buf'[i].at = Parsed + i
    BY <1>1, ReadIs
  <2>2. UNCHANGED <<body, out, ended>>
    BY <1>1 DEF ReadChunk
  <2>3. pos' \in 0..Len(body) /\ Len(buf') =< pos' /\ pos' - Len(buf') = Parsed
    <3>1. upto \in Nat /\ upto > pos /\ upto =< Len(body)
      BY <1>0
    <3>2. pos' = upto /\ Len(buf') = Len(buf) + (upto - pos)
      BY <2>1
    <3> QED BY <1>0, <3>1, <3>2
  <2> QED BY <2>1, <2>2, <2>3 DEF TypeOK
<1>2. CASE ParseLine
  <2>1. PICK frame \in (Parsed + 1)..pos :
          /\ body[frame] \in Line
          /\ buf' \in Seq(Symbol) /\ Len(buf') = pos - frame
          /\ \A i \in 1..Len(buf') : buf'[i].at = frame + i
          /\ IF body[frame] \in {"update", "terminal"}
             THEN \E b \in BOOLEAN : out' = Append(out, [frame |-> frame, intact |-> b])
             ELSE out' = out
          /\ ended' = CASE body[frame] = "error"    -> "error_frame"
                        [] body[frame] = "terminal" -> "terminal"
                        [] OTHER                    -> "no"
    BY <1>2, ParseIs
  <2>2. UNCHANGED <<body, pos>>
    BY <1>2 DEF ParseLine
  <2>3. frame \in 1..Len(body) /\ Len(buf') =< pos /\ pos - Len(buf') = frame
    <3>1. frame \in Nat /\ frame > Parsed /\ frame =< pos
      BY <1>0
    <3>2. Len(buf') = pos - frame
      BY <2>1
    <3> QED BY <1>0, <3>1, <3>2
  <2>4. out' \in Seq([frame : 1..Len(body), intact : BOOLEAN])
    <3>1. \A b \in BOOLEAN :
            [frame |-> frame, intact |-> b] \in [frame : 1..Len(body), intact : BOOLEAN]
      BY <2>3
    <3>2. out \in Seq([frame : 1..Len(body), intact : BOOLEAN])
      BY DEF TypeOK
    <3>3. \A e \in [frame : 1..Len(body), intact : BOOLEAN] :
            Append(out, e) \in Seq([frame : 1..Len(body), intact : BOOLEAN])
      BY <3>2
    <3> QED BY <2>1, <3>1, <3>2, <3>3, Zenon
  <2>5. ended' \in {"no", "terminal", "error_frame"}
    BY <2>1
  <2> QED BY <2>1, <2>2, <2>3, <2>4, <2>5 DEF TypeOK
<1>3. CASE ServerCloses \/ ReadFails
  BY <1>3 DEF ServerCloses, ReadFails, TypeOK
<1>4. CASE UNCHANGED vars
  BY <1>4 DEF vars, TypeOK
<1> QED BY <1>1, <1>2, <1>3, <1>4 DEF Next

(* The buffer is the tail of what was read, whatever the chunks.            *)
THEOREM TypeCorrect == Spec => []TypeOK
  BY TypeInit, TypeNext, PTL DEF Spec

-----------------------------------------------------------------------------
(* What was yielded *)

(* The frames yielded are those due of what was parsed, in order. Nothing   *)
(* that was parsed stops the stream until it ended, and once it ended       *)
(* nothing more is due.                                                     *)
Increasing == \A j, k \in 1..Len(out) : j < k => out[j].frame < out[k].frame

StreamInv ==
  /\ Increasing
  /\ Yielded = {i \in Due : i =< Parsed}
  /\ ended = "no" => \A i \in 1..Parsed : ~Stops(i)
  /\ ended \in {"terminal", "error_frame", "closed"} => \A i \in Due : i =< Parsed

(* A frame yielded after all the others keeps their order.                  *)
LEMMA YieldIs ==
  ASSUME TypeOK, Increasing, NEW f \in 1..Len(body), \A i \in Yielded : i < f,
         NEW b \in BOOLEAN, out' = Append(out, [frame |-> f, intact |-> b])
  PROVE  Increasing' /\ Yielded' = Yielded \cup {f}
<1> DEFINE e == [frame |-> f, intact |-> b]
<1>1. Len(out) \in Nat /\ out \in Seq([frame : 1..Len(body), intact : BOOLEAN])
  BY DEF TypeOK
<1>2. /\ Len(out') = Len(out) + 1 /\ out'[Len(out) + 1] = e
      /\ \A j \in 1..Len(out) : out'[j] = out[j]
  <2>1. e \in [frame : 1..Len(body), intact : BOOLEAN] /\ out' = Append(out, e)
    OBVIOUS
  <2> HIDE DEF e
  <2> QED BY <1>1, <2>1
<1>3. e.frame = f
  OBVIOUS
<1> HIDE DEF e
<1>4. 1..Len(out') = 1..Len(out) \cup {Len(out) + 1}
  BY <1>1, <1>2
<1>5. ASSUME NEW j \in 1..Len(out'), NEW k \in 1..Len(out'), j < k
      PROVE  out'[j].frame < out'[k].frame
  <2>1. j \in 1..Len(out)
    BY <1>1, <1>2, <1>5
  <2>2. CASE k \in 1..Len(out)
    BY <1>2, <1>5, <2>1, <2>2 DEF Increasing
  <2>3. CASE k = Len(out) + 1
    BY <1>2, <1>3, <2>1, <2>3 DEF Yielded
  <2> QED BY <1>4, <2>2, <2>3
<1>6. Yielded' = Yielded \cup {f}
  BY <1>2, <1>3, <1>4 DEF Yielded
<1> QED BY <1>5, <1>6 DEF Increasing

LEMMA StreamInit == Init => StreamInv
<1> SUFFICES ASSUME Init PROVE StreamInv
  OBVIOUS
<1>1. TypeOK
  BY TypeInit
<1>2. out = << >> /\ Len(out) = 0 /\ Len(buf) = 0 /\ pos = 0 /\ ended = "no"
  BY DEF Init
<1>3. Parsed = 0
  BY <1>2 DEF Parsed
<1>4. \A i \in Due : i \in Nat /\ i > 0
  BY <1>1, BufferOf DEF Due
<1>5. Yielded = {} /\ Increasing
  BY <1>2 DEF Yielded, Increasing
<1> QED BY <1>2, <1>3, <1>4, <1>5 DEF StreamInv

LEMMA StreamNext == TypeOK /\ StreamInv /\ [Next]_vars => StreamInv'
<1> SUFFICES ASSUME TypeOK, StreamInv, [Next]_vars PROVE StreamInv'
  OBVIOUS
<1>0. /\ Len(buf) \in Nat /\ Len(body) \in Nat /\ pos \in Nat /\ Parsed \in Nat
      /\ Parsed + Len(buf) = pos /\ pos =< Len(body)
  BY BufferOf
<1>1. CASE ReadChunk
  <2>1. UNCHANGED <<body, out, ended>> /\ ended = "no"
    BY <1>1 DEF ReadChunk
  <2>2. Parsed' = Parsed
    <3>1. PICK upto \in pos + 1 .. Len(body) :
            pos' = upto /\ Len(buf') = Len(buf) + (upto - pos)
      BY <1>1, ReadIs
    <3>2. upto \in Nat
      BY <1>0
    <3> QED BY <1>0, <3>1, <3>2 DEF Parsed
  <2> QED BY <2>1, <2>2 DEF StreamInv, Increasing, Yielded, Due, Stops
<1>2. CASE ParseLine
  <2>1. PICK frame \in (Parsed + 1)..pos :
          /\ body[frame] \in Line
          /\ \A i \in (Parsed + 1)..(frame - 1) : body[i] \notin Line
          /\ Len(buf') = pos - frame
          /\ IF body[frame] \in {"update", "terminal"}
             THEN \E b \in BOOLEAN : out' = Append(out, [frame |-> frame, intact |-> b])
             ELSE out' = out
          /\ ended' = CASE body[frame] = "error"    -> "error_frame"
                        [] body[frame] = "terminal" -> "terminal"
                        [] OTHER                    -> "no"
    BY <1>2, ParseIs
  <2>2. UNCHANGED <<body, pos>> /\ ended = "no" /\ \A i \in 1..Parsed : ~Stops(i)
    BY <1>2 DEF ParseLine, StreamInv
  <2>3. frame \in Nat /\ frame > Parsed /\ frame =< pos /\ frame \in 1..Len(body)
    BY <1>0
  <2>4. Parsed' = frame
    <3>1. Len(buf') = pos - frame /\ pos' = pos
      BY <2>1, <2>2
    <3> QED BY <1>0, <2>3, <3>1 DEF Parsed
  <2>5. \A i \in 1..(frame - 1) : ~Stops(i)
    <3>1. ASSUME NEW i \in 1..(frame - 1)
          PROVE  i \in 1..Parsed \/ i \in (Parsed + 1)..(frame - 1)
      BY <1>0, <2>3
    <3> QED BY <2>1, <2>2, <3>1 DEF Stops, Line, Event
  <2>6. Due' = Due /\ \A i \in Due : i \in Nat
    BY <1>0, <2>2 DEF Due, Stops
  <2>7. {i \in Due : i =< frame} = {i \in Due : i =< Parsed}
                                     \cup (IF body[frame] \in {"update", "terminal"}
                                           THEN {frame} ELSE {})
    <3>1. frame \in Due <=> body[frame] \in {"update", "terminal"}
      BY <2>3, <2>5 DEF Due
    <3>2. ASSUME NEW i \in Due, i =< frame, i # frame PROVE i =< Parsed
      <4>1. i \in (Parsed + 1)..(frame - 1) \/ i =< Parsed
        BY <1>0, <2>3, <2>6, <3>2
      <4>2. body[i] \in Line
        BY DEF Due, Line, Event
      <4> QED BY <2>1, <4>1, <4>2
    <3>3. \A i \in Due : i =< Parsed => i =< frame
      BY <1>0, <2>3, <2>6
    <3> QED BY <2>3, <3>1, <3>2, <3>3
  <2>8. Increasing' /\ Yielded' = {i \in Due : i =< frame}
    <3>1. Increasing /\ Yielded = {i \in Due : i =< Parsed}
      BY DEF StreamInv
    <3>2. CASE body[frame] \in {"update", "terminal"}
      <4>1. \A i \in Yielded : i < frame
        BY <1>0, <2>3, <2>6, <3>1
      <4> QED BY <2>1, <2>3, <2>7, <3>1, <3>2, <4>1, YieldIs
    <3>3. CASE body[frame] \notin {"update", "terminal"}
      <4>1. out' = out
        BY <2>1, <3>3
      <4> QED BY <2>7, <3>1, <3>3, <4>1 DEF Increasing, Yielded
    <3> QED BY <3>2, <3>3
  <2>9. CASE Stops(frame)
    <3>1. ended' \in {"terminal", "error_frame"}
      BY <2>1, <2>9 DEF Stops
    <3>2. ASSUME NEW i \in Due PROVE i =< frame
      <4>1. frame \notin 1..(i - 1)
        BY <2>9 DEF Due
      <4> QED BY <2>3, <2>6, <4>1
    <3> QED BY <2>4, <2>6, <2>8, <3>1, <3>2 DEF StreamInv
  <2>10. CASE ~Stops(frame)
    <3>1. ended' = "no"
      BY <2>1, <2>10 DEF Stops
    <3>2. \A i \in 1..frame : ~Stops(i)'
      <4>1. ASSUME NEW i \in 1..frame PROVE i = frame \/ i \in 1..(frame - 1)
        BY <2>3
      <4> QED BY <2>2, <2>5, <2>10, <4>1 DEF Stops
    <3> QED BY <2>4, <2>6, <2>8, <3>1, <3>2 DEF StreamInv
  <2> QED BY <2>9, <2>10
<1>3. CASE ServerCloses
  <2>1. UNCHANGED <<body, pos, buf, out>> /\ newlines = {} /\ pos = Len(body) /\ ended' = "closed"
    BY <1>3 DEF ServerCloses
  <2>2. ASSUME NEW i \in Due PROVE i =< Parsed
    <3>1. i \in Nat /\ i =< Len(body) /\ body[i] \in Line
      BY <1>0 DEF Due, Line, Event
    <3>2. ASSUME i > Parsed PROVE FALSE
      <4>1. i - Parsed \in 1..Len(buf) /\ Parsed + (i - Parsed) = i
        BY <1>0, <2>1, <3>1, <3>2
      <4>2. buf[i - Parsed].at = i
        BY <4>1, BufferOf
      <4> QED BY <2>1, <3>1, <4>1, <4>2 DEF newlines
    <3> QED BY <1>0, <3>1, <3>2
  <2> QED BY <2>1, <2>2 DEF StreamInv, Increasing, Yielded, Due, Stops, Parsed
<1>4. CASE ReadFails
  BY <1>4 DEF ReadFails, StreamInv, Increasing, Yielded, Due, Stops, Parsed
<1>5. CASE UNCHANGED vars
  BY <1>5 DEF vars, StreamInv, Increasing, Yielded, Due, Stops, Parsed
<1> QED BY <1>1, <1>2, <1>3, <1>4, <1>5 DEF Next

(* However the body is cut, the events are yielded in order, each once, and *)
(* none after a terminal event or an error frame.                           *)
THEOREM InOrder == Spec => []YieldsInOrder
<1>1. TypeOK /\ StreamInv => YieldsInOrder
  <2> SUFFICES ASSUME TypeOK, StreamInv, NEW j \in 1..Len(out)
               PROVE  {i \in Due : i =< out[j].frame} = {out[k].frame : k \in 1..j}
    BY DEF StreamInv, Increasing, YieldsInOrder
  <2>1. Len(out) \in Nat /\ \A k \in 1..Len(out) : out[k].frame \in Nat
    <3> DEFINE Frame == [frame : 1..Len(body), intact : BOOLEAN]
    <3>1. \A e \in Frame : e.frame \in Nat
      BY BufferOf
    <3>2. out \in Seq(Frame)
      BY DEF TypeOK
    <3> HIDE DEF Frame
    <3>3. Len(out) \in Nat /\ \A k \in 1..Len(out) : out[k] \in Frame
      BY <3>2
    <3> QED BY <3>1, <3>3
  <2>2. \A k \in 1..Len(out) : out[k].frame \in Due /\ out[k].frame =< Parsed
    BY DEF StreamInv, Yielded
  <2>3. ASSUME NEW i \in Due, i =< out[j].frame PROVE i \in {out[k].frame : k \in 1..j}
    <3>1. i \in Nat /\ i =< Parsed /\ Parsed \in Nat
      BY <2>1, <2>2, <2>3, BufferOf DEF Due
    <3>2. PICK k \in 1..Len(out) : out[k].frame = i
      BY <3>1 DEF StreamInv, Yielded
    <3>3. ~ j < k
      BY <2>1, <2>3, <3>1, <3>2 DEF StreamInv, Increasing
    <3> QED BY <2>1, <3>2, <3>3
  <2>4. ASSUME NEW k \in 1..j PROVE out[k].frame \in Due /\ out[k].frame =< out[j].frame
    <3>1. k \in 1..Len(out) /\ (k = j \/ k < j)
      BY <2>1
    <3> QED BY <2>1, <2>2, <3>1 DEF StreamInv, Increasing
  <2> QED BY <2>3, <2>4
<1> QED BY <1>1, TypeInit, TypeNext, StreamInit, StreamNext, PTL DEF Spec

(* A stream that ended on its own yielded every event it should.            *)
THEOREM AllYielded == Spec => []NothingLost
<1>1. StreamInv => NothingLost
  BY DEF StreamInv, NothingLost
<1> QED BY <1>1, TypeInit, TypeNext, StreamInit, StreamNext, PTL DEF Spec
==================================================================================
