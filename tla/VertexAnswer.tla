---------------------------- MODULE VertexAnswer ----------------------------
(***************************************************************************)
(* How the body of an upstream answer is read (streamVertexResponse and    *)
(* what it calls in src/proxy/vertex.go).  The upstream sends its elements *)
(* as a JSON array, as objects one after the other, or as server-sent      *)
(* events; each is decoded as it arrives and handed to the emitter of      *)
(* StreamEmitter.  The connection may be closed or break anywhere.         *)
(*                                                                         *)
(* An answer is a record of its form, its events (sequences of items), the *)
(* number of events that arrived, torn (NotTorn, or how many whole items   *)
(* of the next event arrived before the cut) and its end: "whole",         *)
(* "closed" early, or "broken" by a read error.  An item is an error of    *)
(* the upstream, junk that does not decode, or data: a sequence of records *)
(* of parts and finish reason, the wrapper's before those nested in it.    *)
(* Candidates after the first, metadata, and lines between the events      *)
(* other than data are left out; a cut event has part of its data.         *)
(***************************************************************************)
EXTENDS StreamEmitter, Integers, SequencesExt, FiniteSetsExt

Forms == {"array", "objects", "sse"}
NotTorn == -1

Items ==
  [kind : {"data", "error", "junk"},
   data : Seq([parts : Seq(PartKinds \cup {"blank"}), finish : Reasons \cup {None}])]

Torn(answer) == answer.torn # NotTorn

Decodes(item) == item.kind = "data"

-----------------------------------------------------------------------------
(* collectVertexStreamResult: the parts that hold something, each named by *)
(* where it stands, and the last finish reason.                            *)

ItemParts(data, place) ==
  LET parts(d) == OfKind([p \in DOMAIN data[d].parts |->
                            [kind |-> data[d].parts[p], from |-> place \o <<d, p>>]], PartKinds)
  IN  FlattenSeq([d \in DOMAIN data |-> parts(d)])

ItemFinishes(data) == SelectSeq([d \in DOMAIN data |-> data[d].finish], LAMBDA f : f # None)

(* The items of an answer, given by their places.                          *)
ItemAt(answer, place) == answer.events[place[1]][place[2]]

PartsAt(answer, places) ==
  FlattenSeq([n \in DOMAIN places |-> ItemParts(ItemAt(answer, places[n]).data, places[n])])

FinishesAt(answer, places) ==
  FlattenSeq([n \in DOMAIN places |-> ItemFinishes(ItemAt(answer, places[n]).data)])

(* The result of a group of items.                                         *)
Collected(answer, group) ==
  LET finishes == FinishesAt(answer, group)
  IN  [EmptyResult EXCEPT
         !.parts  = PartsAt(answer, group),
         !.finish = IF finishes = <<>> THEN None ELSE Last(finishes)]

-----------------------------------------------------------------------------
(* What is decoded together: an item of the JSON forms, also of an element *)
(* that is not there as a whole; a whole event of the SSE form.            *)

ItemsOf(answer, e) ==
  LET arrived == IF e <= answer.read THEN Len(answer.events[e]) ELSE answer.torn
  IN  [i \in 1 .. arrived |-> <<e, i>>]

Groups(answer) ==
  LET begun == IF Torn(answer) THEN answer.read + 1 ELSE answer.read
      items == FlattenSeq([e \in 1 .. begun |-> ItemsOf(answer, e)])
  IN  IF answer.form = "sse" THEN [e \in 1 .. answer.read |-> ItemsOf(answer, e)]
      ELSE [n \in DOMAIN items |-> <<items[n]>>]

GroupFails(answer, group) ==
  \E n \in DOMAIN group : ~Decodes(ItemAt(answer, group[n]))

(* An array is over at its bracket.  The other forms are over when the     *)
(* connection is closed between two elements, and not before the first.    *)
(* (VertexDecoder shows what the decoders do for that, token by token.)    *)
EndsWell(answer) ==
  \/ answer.form = "array" /\ answer.end = "whole"
  \/ answer.form # "array" /\ answer.end # "broken" /\ ~Torn(answer) /\ answer.read > 0

(* The groups before the first that fails, and their results.              *)
Decoded(answer) ==
  Max({n \in 0 .. Len(Groups(answer)) : \A g \in 1 .. n : ~GroupFails(answer, Groups(answer)[g])})

ResultsOf(answer) == [n \in 1 .. Decoded(answer) |-> Collected(answer, Groups(answer)[n])]

(* The emitter: results without their finish reasons, and the last of these.*)
HandedOn(results) ==
  LET detached == [n \in DOMAIN results |-> DetachFinish(results[n])]
  IN  ItemsAt(detached, {n \in DOMAIN detached : ~IsEmpty(detached[n])})

FinishOf(results) == FoldLeft(HeldBack, None, results)

(* streamVertexResponse: what is handed on, and whether an error is        *)
(* returned in the end.                                                    *)
StreamVertexResponse(answer) ==
  LET failed == Decoded(answer) < Len(Groups(answer)) \/ ~EndsWell(answer)
      finish == FinishOf(ResultsOf(answer))
  IN  [ out    |-> HandedOn(ResultsOf(answer))
                     \o (IF failed \/ finish = None THEN <<>> ELSE <<FinishResult(finish)>>),
        failed |-> failed ]

-----------------------------------------------------------------------------
(* The answer of doCall: the parts of all chunks, with neighbouring texts  *)
(* joined.  A joined part has the places of its texts.                     *)

Mergeable(kind) == kind \in {"text", "thought"}

JoinAnyText(parts, part) ==   \* mutant of JoinText: thoughts are texts
  IF parts # <<>> /\ Mergeable(part.kind) /\ Mergeable(Last(parts).kind)
    THEN [parts EXCEPT ![Len(parts)].from = Append(@, part.from)]
  ELSE Append(parts, [kind |-> part.kind, from |-> <<part.from>>])

JoinText(parts, part) ==
  IF parts # <<>> /\ Mergeable(part.kind) /\ Last(parts).kind = part.kind
    THEN [parts EXCEPT ![Len(parts)].from = Append(@, part.from)]
  ELSE Append(parts, [kind |-> part.kind, from |-> <<part.from>>])

PartsOf(results) == FlattenSeq([n \in DOMAIN results |-> results[n].parts])

CoalesceVertexParts(parts) ==
  LET joined[n \in 0 .. Len(parts)] ==
        IF n = 0 THEN <<>> ELSE JoinText(joined[n - 1], parts[n])
  IN  joined[Len(parts)]

Separated(joined) ==
  FlattenSeq([n \in DOMAIN joined |->
    [k \in DOMAIN joined[n].from |-> [kind |-> joined[n].kind, from |-> joined[n].from[k]]]])

-----------------------------------------------------------------------------
(* What is promised of it.                                                 *)

(* All parts of an answer, as the upstream wrote them.                     *)
Wrote(answer) ==
  FlattenSeq([e \in DOMAIN answer.events |->
    FlattenSeq([i \in DOMAIN answer.events[e] |-> ItemParts(answer.events[e][i].data, <<e, i>>)])])

AllDecode(answer) ==
  \A e \in DOMAIN answer.events :
    \A i \in DOMAIN answer.events[e] : Decodes(answer.events[e][i])

InForm(answer, form) == [answer EXCEPT !.form = form]

(* What is handed on is the beginning of what was written, in any form and *)
(* up to any failure, and all of it if nothing failed; a finish reason     *)
(* comes once and last; and the texts an answer consists of are the same   *)
(* after they were joined.                                                 *)
AnswerIsRead(answer, reading) ==
  LET parts  == PartsOf(reading.out)
      joined == CoalesceVertexParts(parts)
  IN  /\ IsPrefix(parts, Wrote(answer))
      /\ IsPrefix(parts, PartsOf(StreamVertexResponse(InForm(answer, "objects")).out))
      /\ answer.end = "whole" /\ AllDecode(answer) /\ answer.events # <<>> =>
           ~reading.failed /\ parts = Wrote(answer)
      /\ \A n \in DOMAIN reading.out : reading.out[n].finish # None =>
           n = Len(reading.out) /\ ~reading.failed
      /\ Separated(joined) = parts
      /\ \A n \in 1 .. Len(joined) - 1 :
           joined[n].kind = joined[n + 1].kind => ~Mergeable(joined[n].kind)
=============================================================================
