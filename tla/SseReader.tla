------------------------------- MODULE SseReader -------------------------------
(***************************************************************************)
(* readSseStream and parseSseFrames (frontend/src/lib/streaming/           *)
(* sse-parser.ts): the body of the chat response arrives in chunks that    *)
(* are cut anywhere, also between a carriage return and its line feed.     *)
(*                                                                         *)
(* A character is text ("t"), a carriage return ("r") or a line feed       *)
(* ("n"); an event is the sequence of the lines of a frame that has text.  *)
(* Field names, JSON and UTF-8 decoding (which keeps an unfinished         *)
(* character for the next chunk) do not decide where a frame ends.         *)
(***************************************************************************)
EXTENDS Folding

CONSTANT MaxWire    \* bound: characters of a body

ASSUME WireAssumption == MaxWire \in Nat

VARIABLES
    wire,       \* the body, as the server wrote it
    position,   \* characters read so far
    buffer,     \* what no frame has taken yet
    events,     \* events yielded
    ended       \* the reader returned

sseVars == <<wire, position, buffer, events, ended>>

Characters == {"t", "r", "n"}
Text == Seq(Characters)

\* A carriage return occurs in a line end only: the server writes JSON, which
\* escapes it, and line feeds, which a proxy may turn into CRLF.
Bodies ==
    {s \in UNION {[1..n -> Characters] : n \in 0..MaxWire} :
        \A k \in DOMAIN s : s[k] = "r" => k < Len(s) /\ s[k + 1] = "n"}

SseInit ==
    /\ wire \in Bodies
    /\ position = 0
    /\ buffer = <<>>
    /\ events = <<>>
    /\ ended = FALSE

-----------------------------------------------------------------------------
\* buffer.replace(/\r\n/gu, "\n")
Normalized(s) ==
    LET put == [out \in Text |-> [c \in Characters |->
                   IF c = "n" /\ out # <<>> /\ Last(out) = "r" THEN Append(Front(out), "n")
                   ELSE Append(out, c)]]
    IN  Fold(put, <<>>, s)

\* split("\n\n") of a normalised buffer: the frames that are closed, and the last
\* part.  Of a run of line feeds every second one closes a frame.
Frames(s) ==
    LET cut == [acc \in [closed : Seq(Text), open : Text] |-> [c \in Characters |->
                   IF c = "n" /\ acc.open # <<>> /\ Last(acc.open) = "n"
                   THEN [closed |-> Append(acc.closed, Front(acc.open)), open |-> <<>>]
                   ELSE [acc EXCEPT !.open = Append(@, c)]]]
    IN  Fold(cut, [closed |-> <<>>, open |-> <<>>], s)

HasText(s) == \E k \in DOMAIN s : s[k] = "t"

\* The lines that have characters.
Filled(lines, line) == IF line = <<>> THEN lines ELSE Append(lines, line)

\* frame.split("\n"): the lines that are complete, and the last one.
Split(frame) ==
    LET put == [acc \in [lines : Seq(Text), line : Text] |-> [c \in Characters |->
                   IF c = "n" THEN [lines |-> Filled(acc.lines, acc.line), line |-> <<>>]
                   ELSE [acc EXCEPT !.line = Append(@, c)]]]
    IN  Fold(put, [lines |-> <<>>, line |-> <<>>], frame)

\* parseFrame
ParseFrame(frame) ==
    IF HasText(frame) THEN <<Filled(Split(frame).lines, Split(frame).line)>> ELSE <<>>

\* frames.flatMap(parseFrame), yielded after the events before.
Yielded(before, frames) ==
    LET yield == [found \in Seq(Seq(Text)) |-> [frame \in Text |-> found \o ParseFrame(frame)]]
    IN  Fold(yield, before, frames)

\* Mutant: every chunk is normalised on its own.
Buffered_ChunkOnly(rest, chunk) == rest \o Normalized(chunk)

\* The buffer that parseSseFrames splits.
Buffered(rest, chunk) == Normalized(rest \o chunk)

\* A chunk of any length; the last part stays in the buffer.
ReadChunk(n) ==
    LET frames == Frames(Buffered(buffer, SubSeq(wire, position + 1, position + n)))
    IN
    /\ ~ended
    /\ position' = position + n
    /\ buffer' = frames.open
    /\ events' = Yielded(events, frames.closed)
    /\ UNCHANGED <<wire, ended>>

\* The end of the body: what is left is a frame as well.
ReadEnd ==
    /\ ~ended
    /\ position = Len(wire)
    /\ events' = events \o ParseFrame(buffer)
    /\ buffer' = <<>>
    /\ ended' = TRUE
    /\ UNCHANGED <<wire, position>>

SseNext ==
    \/ \E n \in 1..(Len(wire) - position) : ReadChunk(n)
    \/ ReadEnd

SseSpec == SseInit /\ [][SseNext]_sseVars

-----------------------------------------------------------------------------
(***************************************************************************)
(* The reference: one character at a time, a line ends with a line feed or *)
(* with a carriage return and a line feed, an empty line ends an event.    *)
(***************************************************************************)
EndLine(acc, line) ==
    CASE line # <<>> -> [acc EXCEPT !.line = <<>>, !.event = Append(@, line)]
      [] line = <<>> /\ (\E k \in DOMAIN acc.event : HasText(acc.event[k])) ->
           [acc EXCEPT !.line = <<>>, !.event = <<>>, !.events = Append(@, acc.event)]
      [] OTHER -> [acc EXCEPT !.line = <<>>, !.event = <<>>]

ReadCharacter(acc, c) ==
    CASE c # "n" -> [acc EXCEPT !.line = Append(@, c)]
      [] c = "n" /\ acc.line # <<>> /\ Last(acc.line) = "r" -> EndLine(acc, Front(acc.line))
      [] OTHER -> EndLine(acc, acc.line)

Reading == [line : Text, event : Seq(Text), events : Seq(Seq(Text))]

ReferenceEvents(s) ==
    LET reference == [acc \in Reading |-> [c \in Characters |-> ReadCharacter(acc, c)]]
        read == Fold(reference, [line |-> <<>>, event |-> <<>>, events |-> <<>>], s)
    IN  EndLine(EndLine(read, read.line), <<>>).events

\* However the body is cut into chunks, the reader yields the events that are
\* in it, each once and in order.
FramesSurviveChunking == ended => events = ReferenceEvents(wire)
=============================================================================
