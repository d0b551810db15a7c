------------------------------- MODULE ChatStream -------------------------------
(***************************************************************************)
(* streamChat() of providers/chatStream.ts: the lines of a response, whose *)
(* reads end anywhere, each with a piece of the answer or of the model's   *)
(* reasoning, which also comes inside the answer, between two markers.     *)
(*                                                                         *)
(* Text is a sequence of characters; a marker has three of them here.      *)
(***************************************************************************)
EXTENDS Integers, Sequences, FiniteSets, SequencesExt

CONSTANT Responses

(* A response is a record of                                               *)
(*   frames  <<[kind, text], ...>>: what each line carries.  kind is       *)
(*           "content", "reasoning" (a field of its own) or "noise", which *)
(*           is no JSON                                                    *)
(*   ended   whether the last line has its newline                         *)
(*   status  "ok", "refused" (any other status, or no body) or "unbound"   *)
(*           (no endpoint is known)                                        *)
(*   breaks  whether the connection may break                              *)

OpenMarker  == <<"<", "t", ">">>
CloseMarker == <<"<", "/", ">">>

VARIABLES
  response,   \* which never changes
  reading,    \* "called", "reading", "done"
  read,       \* how many half lines were read
  pending,    \* ThinkingSplitter
  inThinking,
  content,    \* what take() was given, and the caller with it
  reasoning,
  ok

streamVars == <<response, reading, read, pending, inThinking, content, reasoning, ok>>

StreamInit ==
  /\ response \in Responses
  /\ reading = "called" /\ read = 0 /\ pending = <<>> /\ inThinking = FALSE
  /\ content = <<>> /\ reasoning = <<>> /\ ok = FALSE

-----------------------------------------------------------------------------
(* ThinkingSplitter.                                                       *)

MarkerAt(text, i, marker) ==
  i + Len(marker) - 1 <= Len(text) /\ SubSeq(text, i, i + Len(marker) - 1) = marker

\* Variant for mutation: nothing is held back.
NoPartialMarker(text, marker) == 0

\* How long a suffix of the text could still become the marker.
PartialMarkerLength(text, marker) ==
  LET fits == {n \in 1..(Len(marker) - 1) :
                 n <= Len(text) /\ IsPrefix(SubSeq(text, Len(text) - n + 1, Len(text)), marker)}
  IN IF fits = {} THEN 0 ELSE CHOOSE n \in fits : \A m \in fits : m <= n

Put(s, text) == IF s.inThinking THEN [s EXCEPT !.reasoning = @ \o text]
                                ELSE [s EXCEPT !.content = @ \o text]

\* One round of the loop of push(): up to the next marker, or as much as is safe.
Round(s) ==
  LET marker == IF s.inThinking THEN CloseMarker ELSE OpenMarker
      at     == {i \in DOMAIN s.pending : MarkerAt(s.pending, i, marker)}
  IN IF at = {}
     THEN LET safe == Len(s.pending) - PartialMarkerLength(s.pending, marker) IN
          [Put(s, SubSeq(s.pending, 1, safe)) EXCEPT
             !.pending = SubSeq(s.pending, safe + 1, Len(s.pending)), !.over = TRUE]
     ELSE LET first == CHOOSE i \in at : \A j \in at : i <= j IN
          [Put(s, SubSeq(s.pending, 1, first - 1)) EXCEPT
             !.pending = SubSeq(s.pending, first + Len(marker), Len(s.pending)),
             !.inThinking = ~s.inThinking]

\* As many rounds as there can be: each but the last takes a marker out.
PushText(s, text) ==
  LET all == [s EXCEPT !.pending = @ \o text, !.over = FALSE] IN
  FoldLeft(LAMBDA acc, i : IF acc.over THEN acc ELSE Round(acc), all,
           [i \in 1..(Len(all.pending) + 1) |-> i])

Flush(s) == [Put(s, s.pending) EXCEPT !.pending = <<>>]

-----------------------------------------------------------------------------
(* The lines.                                                              *)

Splitter == [pending |-> pending, inThinking |-> inThinking, content |-> content,
             reasoning |-> reasoning, over |-> FALSE]

Keep(s) == /\ pending' = s.pending /\ inThinking' = s.inThinking
           /\ content' = s.content /\ reasoning' = s.reasoning

\* readDelta(), and what becomes of its chunk.
Delta(s, frame) ==
  CASE frame.kind = "content"   -> PushText(s, frame.text)
    [] frame.kind = "reasoning" -> [s EXCEPT !.reasoning = @ \o frame.text]
    [] frame.kind = "noise"     -> s

Halves == 2 * Len(response.frames)

\* A line is there with its newline, which comes with its second half.
LinesUpTo(halves) ==
  IF halves = Halves /\ ~response.ended THEN halves \div 2 - 1 ELSE halves \div 2

TakeLines(s, from, to) == FoldLeft(Delta, s, SubSeq(response.frames, from, to))

Refused ==
  /\ reading = "called" /\ response.status # "ok"
  /\ reading' = "done"
  /\ UNCHANGED <<response, read, pending, inThinking, content, reasoning, ok>>

Answered ==
  /\ reading = "called" /\ response.status = "ok"
  /\ reading' = "reading"
  /\ UNCHANGED <<response, read, pending, inThinking, content, reasoning, ok>>

Read(n) ==
  /\ reading = "reading" /\ read + n <= Halves
  /\ read' = read + n
  /\ Keep(TakeLines(Splitter, LinesUpTo(read) + 1, LinesUpTo(read + n)))
  /\ UNCHANGED <<response, reading, ok>>

\* A last line without its newline, and what the splitter held back.
EndOfBody ==
  /\ reading = "reading" /\ read = Halves
  /\ reading' = "done" /\ ok' = TRUE
  /\ Keep(Flush(TakeLines(Splitter, LinesUpTo(Halves) + 1, Len(response.frames))))
  /\ UNCHANGED <<response, read>>

\* What was read so far is the answer of a failure.
Breaks ==
  /\ reading = "reading" /\ response.breaks
  /\ reading' = "done"
  /\ UNCHANGED <<response, read, pending, inThinking, content, reasoning, ok>>

StreamNext ==
  Refused \/ Answered \/ (\E n \in 1..Halves : Read(n)) \/ EndOfBody \/ Breaks

-----------------------------------------------------------------------------
(* Properties.                                                             *)

AllContent ==
  FlattenSeq([i \in DOMAIN response.frames |->
                IF response.frames[i].kind = "content" THEN response.frames[i].text ELSE <<>>])

\* The two parts of a whole text, read character by character.
Parts(text) ==
  LET from[i \in 1..(Len(text) + 3), thinking \in BOOLEAN] ==
        IF i > Len(text) THEN [content |-> <<>>, reasoning |-> <<>>]
        ELSE IF MarkerAt(text, i, IF thinking THEN CloseMarker ELSE OpenMarker)
             THEN from[i + 3, ~thinking]
             ELSE LET rest == from[i + 1, thinking] IN
                  IF thinking THEN [rest EXCEPT !.reasoning = <<text[i]>> \o @]
                              ELSE [rest EXCEPT !.content = <<text[i]>> \o @]
  IN from[1, FALSE]

\* What the field for reasoning carried is marked "r" here.
Inline(text) == SelectSeq(text, LAMBDA c : c # "r")

\* However the response is cut, what the user saw of the answer so far is the beginning of
\* it, without the reasoning and its markers, and in the end all of it (chatStream.ts:75).
AnswersAreWhole ==
  LET whole == Parts(AllContent) IN
  /\ IsPrefix(content, whole.content) /\ IsPrefix(Inline(reasoning), whole.reasoning)
  /\ ok => content = whole.content /\ Inline(reasoning) = whole.reasoning
=============================================================================
