------------------------------ MODULE SseRelay ------------------------------
(***************************************************************************)
(* The relay of a native event stream: the frame decoder of                *)
(* crates/protocol/src/sse, which cuts the upstream's bytes into frames    *)
(* wherever the network happened to cut them into chunks, and the rewrite  *)
(* of the model name in the frames that are sent on.                       *)
(*                                                                         *)
(* A byte is one of the two line ending bytes, the field prefix "data:", a *)
(* piece of JSON text that names the upstream's model or, in what the      *)
(* client receives, one that names the public model.  A line that does not *)
(* begin with the prefix stands for a comment or for any other field.      *)
(***************************************************************************)
EXTENDS Integers, Sequences, FiniteSetsExt, SequencesExt

CONSTANTS
    MaxFrame,       \* max_frame_bytes
    MaxReceived     \* bound: bytes the upstream sends

VARIABLES
    received,       \* what the upstream has sent so far
    chunk,          \* buffered_chunk: what is left of the last chunk
    buffer,         \* the bytes of the frame being read
    frame_ready,    \* whether the buffer holds a whole frame
    upstream_done,  \* the upstream has ended the body
    finished,       \* decoder_finished
    sent,           \* the frames sent to the client, end to end
    error           \* the pending error, if any

vars == <<received, chunk, buffer, frame_ready, upstream_done, finished, sent,
          error>>

LF == "lf"
CR == "cr"
Data == "data:"
Model == "upstream model"
Public == "public model"
Byte == {LF, CR, Data, Model}

Unset == -1

Init ==
    /\ received = <<>>
    /\ chunk = <<>>
    /\ buffer = <<>>
    /\ frame_ready = FALSE
    /\ upstream_done = FALSE
    /\ finished = FALSE
    /\ sent = <<>>
    /\ error = "none"

----------------------------------------------------------------------------
(* Cutting frames. *)

\* The length of the line ending at an index, 0 if there is none there or,
\* after a carriage return, not enough bytes to tell.
LineEndingLen(bytes, index) ==
    IF index > Len(bytes) THEN 0
    ELSE IF bytes[index] = LF THEN 1
    ELSE IF bytes[index] # CR THEN 0
    ELSE IF index = Len(bytes) THEN 0
    ELSE IF bytes[index + 1] = LF THEN 2 ELSE 1

\* Where the first two line endings in a row end.
FindEventEnd(bytes) ==
    LET Second(index) == index + LineEndingLen(bytes, index)
        Found == {index \in 1 .. Len(bytes) :
                     /\ LineEndingLen(bytes, index) > 0
                     /\ LineEndingLen(bytes, Second(index)) > 0}
    IN  IF Found = {} THEN Unset
        ELSE LET second == Second(Min(Found))
             IN  second + LineEndingLen(bytes, second) - 1

BoundaryBytes == 3
PrefixBytes == 4

Prefix(bytes, n) == SubSeq(bytes, 1, Min({n, Len(bytes)}))

\* A faulty variant: only one byte of the buffer is looked at again.
Tail1(bytes) == SubSeq(bytes, Max({1, Len(bytes)}), Len(bytes))

Tail3(bytes) == SubSeq(bytes, Max({1, Len(bytes) - BoundaryBytes + 1}), Len(bytes))

\* How many bytes of the input end the event; only the bytes around the
\* boundary between what is buffered and the input are looked at again.
EventEndAfterAppend(buffered, input) ==
    LET tail == Tail3(buffered)
        end == FindEventEnd(tail \o Prefix(input, PrefixBytes))
        crossing == IF end >= Len(tail) THEN {end - Len(tail)} ELSE {}
        within == {FindEventEnd(input)} \ {Unset}
    IN  IF crossing \cup within = {} THEN Unset ELSE Min(crossing \cup within)

NextInputLimit == IF frame_ready THEN 0 ELSE MaxFrame - Len(buffer) + 1

----------------------------------------------------------------------------
(* Reading a frame and rewriting the model it names. *)

\* One line without its ending, and where the next one begins.
NextLine(bytes, start) ==
    LET ends == {i \in start .. Len(bytes) : bytes[i] \in {LF, CR}}
        end == IF ends = {} THEN Len(bytes) + 1 ELSE Min(ends)
        crlf == /\ end < Len(bytes)
                /\ bytes[end] = CR
                /\ bytes[end + 1] = LF
    IN  [text |-> SubSeq(bytes, start, end - 1), start |-> start,
         next |-> IF crlf THEN end + 2 ELSE end + 1,
         ended |-> ends # {}]

Lines(bytes) ==
    LET From[start \in 1 .. Len(bytes) + 2] ==
            IF start > Len(bytes) THEN <<>>
            ELSE LET line == NextLine(bytes, start)
                 IN  <<line>> \o From[line.next]
    IN  From[1]

IsDataLine(line) == line.text # <<>> /\ Head(line.text) = Data
FieldValue(line) == Tail(line.text)
DataLines(bytes) == SelectSeq(Lines(bytes), IsDataLine)

\* The values of the data lines, joined by line feeds.
JoinData(values) ==
    FlattenSeq([i \in DOMAIN values |->
                   IF i = 1 THEN values[i] ELSE <<LF>> \o values[i]])

ParseEventPayload(frame) ==
    LET values == [i \in 1 .. Len(DataLines(frame)) |->
                      FieldValue(DataLines(frame)[i])]
    IN  IF values = <<>> THEN <<>> ELSE JoinData(values)

\* JSON is what names a model and has no field prefix inside.
IsJson(data) == Model \in Range(data) /\ Data \notin Range(data)

ModelSpans(data) == {i \in DOMAIN data : data[i] = Model}
SpliceRanges(source, spans) ==
    [i \in DOMAIN source |-> IF i \in spans THEN Public ELSE source[i]]

\* A faulty variant: the data is written back as it was joined.
SplitDataRaw(data) == <<Data>> \o data \o <<LF>>

\* The data, written again as one data line per line feed in it.
SplitData(data) ==
    <<Data>> \o FlattenSeq([i \in DOMAIN data |->
                    IF data[i] = LF THEN <<LF, Data>> ELSE <<data[i]>>]) \o <<LF>>

\* Several data lines: the frame is written again, the data where the first of
\* its lines was, every other line but the empty ones, and a closing line.
RebuildFrame(frame, data) ==
    LET lines == Lines(frame)
        first == Min({i \in DOMAIN lines : IsDataLine(lines[i])})
        Written(i) == IF IsDataLine(lines[i])
                      THEN IF i = first THEN SplitData(data) ELSE <<>>
                      ELSE IF lines[i].text = <<>> THEN <<>>
                      ELSE lines[i].text \o <<LF>>
    IN  FlattenSeq([i \in DOMAIN lines |-> Written(i)]) \o <<LF>>

\* A single data line: its bytes are replaced in place.
SpliceFrame(frame) ==
    LET line == Head(DataLines(frame))
        range == line.start + 1 .. line.start + Len(line.text) - 1
    IN  SpliceRanges(frame, range \cap ModelSpans(frame))

RewriteKnownModel(frame) ==
    LET data == ParseEventPayload(frame)
    IN  IF ~IsJson(data) THEN frame
        ELSE IF Len(DataLines(frame)) = 1 THEN SpliceFrame(frame)
        ELSE RebuildFrame(frame, SpliceRanges(data, ModelSpans(data)))

----------------------------------------------------------------------------
(* The frame pipeline of a response body. *)

Open == error = "none" /\ ~finished

\* poll_frame polls the upstream only when the decoder needs more bytes.
ReceiveChunk ==
    /\ Open /\ ~upstream_done
    /\ chunk = <<>> /\ ~frame_ready
    /\ Len(received) < MaxReceived
    /\ \E n \in 1 .. MaxReceived - Len(received) :
         \E bytes \in [1 .. n -> Byte] :
             /\ chunk' = bytes
             /\ received' = received \o bytes
    /\ UNCHANGED <<buffer, frame_ready, upstream_done, finished, sent, error>>

ReceiveEof ==
    /\ Open /\ ~upstream_done
    /\ chunk = <<>> /\ ~frame_ready
    /\ upstream_done' = TRUE
    /\ UNCHANGED <<received, chunk, buffer, frame_ready, finished, sent, error>>

Extend(bytes) == Len(buffer) + Len(bytes) <= MaxFrame + 1

\* next_frame has nothing yet: give the decoder what it takes of the chunk.
Push ==
    /\ Open /\ ~frame_ready /\ Len(buffer) <= MaxFrame
    /\ chunk # <<>>
    /\ LET input == Prefix(chunk, NextInputLimit)
           event_end == EventEndAfterAppend(buffer, input)
           consumed == IF event_end = Unset THEN Len(input) ELSE event_end
       IN  IF Extend(SubSeq(input, 1, consumed))
           THEN /\ buffer' = buffer \o SubSeq(input, 1, consumed)
                /\ frame_ready' = (event_end # Unset)
                /\ chunk' = SubSeq(chunk, consumed + 1, Len(chunk))
                /\ error' = error
           ELSE /\ error' = "internal"
                /\ UNCHANGED <<buffer, frame_ready, chunk>>
    /\ UNCHANGED <<received, upstream_done, finished, sent>>

NextFrame ==
    /\ Open /\ frame_ready /\ Len(buffer) <= MaxFrame
    /\ sent' = sent \o RewriteKnownModel(buffer)
    /\ buffer' = <<>>
    /\ frame_ready' = FALSE
    /\ UNCHANGED <<received, chunk, upstream_done, finished, error>>

\* A faulty variant: a frame of the very limit is refused.
FrameAtLimit ==
    /\ Open
    /\ Len(buffer) >= MaxFrame
    /\ error' = "limit"
    /\ UNCHANGED <<received, chunk, buffer, frame_ready, upstream_done,
                   finished, sent>>

FrameTooLong ==
    /\ Open
    /\ Len(buffer) > MaxFrame
    /\ error' = "limit"
    /\ UNCHANGED <<received, chunk, buffer, frame_ready, upstream_done,
                   finished, sent>>

\* finish_decoder: what is left at the end is a frame too.
Finish ==
    /\ Open /\ upstream_done
    /\ chunk = <<>> /\ ~frame_ready /\ Len(buffer) <= MaxFrame
    /\ finished' = TRUE
    /\ sent' = IF buffer = <<>> THEN sent ELSE sent \o RewriteKnownModel(buffer)
    /\ buffer' = <<>>
    /\ UNCHANGED <<received, chunk, frame_ready, upstream_done, error>>

Next == \/ ReceiveChunk
        \/ ReceiveEof
        \/ Push
        \/ NextFrame
        \/ FrameTooLong
        \/ Finish

Spec == Init /\ [][Next]_vars

----------------------------------------------------------------------------
(* Properties. *)

TypeOK ==
    /\ received \in Seq(Byte) /\ chunk \in Seq(Byte) /\ buffer \in Seq(Byte)
    /\ sent \in Seq(Byte \cup {Public})
    /\ {frame_ready, upstream_done, finished} \subseteq BOOLEAN
    /\ error \in {"none", "limit", "internal"}

\* What the event stream standard reads in a sequence of bytes: an empty line
\* closes an event, which is the data lines since the one before it.  The data
\* lines after the last empty line belong to no event.
Read(bytes) ==
    LET lines == Lines(bytes)
        closers == {i \in DOMAIN lines : lines[i].text = <<>> /\ lines[i].ended}
        Values(i) == LET mine == {j \in 1 .. i - 1 : /\ IsDataLine(lines[j])
                                                    /\ j .. i \cap closers \subseteq {i}}
                         order == SetToSortSeq(mine, <)
                     IN  [k \in DOMAIN order |-> FieldValue(lines[order[k]])]
        closing == SetToSortSeq({i \in closers : Values(i) # <<>>}, <)
    IN  [events |-> [k \in DOMAIN closing |-> JoinData(Values(closing[k]))],
         data |-> Values(Len(lines) + 1)]

Rewritten(data) ==
    IF IsJson(data) THEN SpliceRanges(data, ModelSpans(data)) ELSE data

Expected == [i \in DOMAIN Read(received).events |->
                Rewritten(Read(received).events[i])]
Unclosed == IF Read(received).data = <<>> THEN <<>>
            ELSE <<Rewritten(JoinData(Read(received).data))>>

(***************************************************************************)
(* The client reads the events the upstream wrote, with the public model   *)
(* name and in order, however the network cut the bytes and whichever line *)
(* endings the upstream uses: no event is split, merged or lost.  At the   *)
(* end of the body the client has all of them; the one the upstream never  *)
(* closed may or may not be among them.                                    *)
(***************************************************************************)
ClientSeesTheEvents ==
    LET seen == Read(sent).events
    IN  /\ IsPrefix(seen, Expected \o Unclosed)
        /\ finished => Len(seen) >= Len(Expected)

\* The lengths of the frames in what was received: a frame ends with the first
\* empty line that is not its first line.
FrameLengths ==
    LET lines == Lines(received)
        Since[i \in 0 .. Len(lines)] ==    \* the lines of the open frame
            IF i = 0 THEN 0
            ELSE LET n == Since[i - 1]
                 IN  IF n > 0 /\ lines[i].text = <<>> /\ lines[i].ended
                     THEN 0 ELSE n + 1
        ends == {i \in 1 .. Len(lines) : Since[i] = 0 \/ i = Len(lines)}
        Start(i) == lines[i - Since[i - 1]].start
        End(i) == Min({lines[i].next, Len(received) + 1})
    IN  {0} \cup {End(i) - Start(i) : i \in ends}

(***************************************************************************)
(* The decoder gives up exactly on a stream that has a frame longer than   *)
(* the limit: a frame of the very limit passes, even when its last byte is *)
(* a carriage return that the next byte has to explain.                    *)
(***************************************************************************)
LimitIsExact ==
    /\ error # "none" => error = "limit" /\ Max(FrameLengths) > MaxFrame
    /\ finished => Max(FrameLengths) <= MaxFrame
=============================================================================
