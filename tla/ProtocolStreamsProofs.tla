----------------------- MODULE ProtocolStreamsProofs -----------------------
(***************************************************************************)
(* Theorems about ProtocolStreams, for every choice of results and every   *)
(* number of them: the types and the measured usage, what of the content   *)
(* the client has been shown, and how a stream ends.                       *)
(*                                                                         *)
(* What the emitter and the handlers hold back decides the content: the    *)
(* events on the wire, what the handler still holds and the results to     *)
(* come balance in every state (ContentInv).  How a stream ends is read    *)
(* off the wire as chunks followed by what closes it (EndInv).             *)
(***************************************************************************)
EXTENDS ProtocolStreams, SequenceFacts, SequenceTheorems, TLAPS

(***************************************************************************)
(* Sequences of events of some types.                                      *)
(***************************************************************************)
(* The events of a Responses stream before the one that ends it; no other  *)
(* event is about an item.                                                 *)
ItemTypes ==
  {"created", "in_progress", "output_item.added", "content_part.added",
   "output_text.delta", "output_text.done", "content_part.done", "annotation.added",
   "arguments.delta", "arguments.done", "output_item.done"}

IsEvent(e, types) ==
  /\ e.type \in types
  /\ "index" \in DOMAIN e => e.type \in ItemTypes

Typed(s, types) == \E S : s \in Seq(S) /\ \A e \in S : IsEvent(e, types)

(* A sequence over a set of such events.                                  *)
LEMMA TypedBy ==
  ASSUME NEW types, NEW S, NEW s \in Seq(S), \A e \in S : IsEvent(e, types)
  PROVE  Typed(s, types)
BY DEF Typed

(* Three events.                                                           *)
LEMMA TypedThree ==
  ASSUME NEW types, NEW a, NEW b, NEW c,
         IsEvent(a, types), IsEvent(b, types), IsEvent(c, types)
  PROVE  Typed(<< a, b, c >>, types)
<1> DEFINE S == {a, b, c}
<1>1. << a, b, c >> \in Seq(S) /\ \A d \in S : IsEvent(d, types)
  OBVIOUS
<1> HIDE DEF S
<1> QED  BY <1>1, TypedBy

(* No event at all.                                                        *)
LEMMA TypedEmpty == ASSUME NEW types PROVE Typed(<< >>, types)
<1> DEFINE S == {}
<1>1. << >> \in Seq(S) /\ \A e \in S : IsEvent(e, types)
  OBVIOUS
<1> HIDE DEF S
<1> QED  BY <1>1, TypedBy

(* One event.                                                             *)
LEMMA TypedOne == ASSUME NEW types, NEW e, IsEvent(e, types) PROVE Typed(<< e >>, types)
<1> DEFINE S == {e}
<1>1. << e >> \in Seq(S) /\ \A d \in S : IsEvent(d, types)
  OBVIOUS
<1> HIDE DEF S
<1> QED  BY <1>1, TypedBy

(* Two events.                                                             *)
LEMMA TypedTwo ==
  ASSUME NEW types, NEW a, NEW b, IsEvent(a, types), IsEvent(b, types)
  PROVE  Typed(<< a, b >>, types)
<1> DEFINE S == {a, b}
<1>1. << a, b >> \in Seq(S) /\ \A d \in S : IsEvent(d, types)
  OBVIOUS
<1> HIDE DEF S
<1> QED  BY <1>1, TypedBy

(* One sequence after the other.                                           *)
LEMMA TypedConcat ==
  ASSUME NEW types, NEW s, NEW t, Typed(s, types), Typed(t, types)
  PROVE  Typed(s \o t, types)
<1>1. PICK S : s \in Seq(S) /\ \A e \in S : IsEvent(e, types)
  BY DEF Typed
<1>2. PICK T : t \in Seq(T) /\ \A e \in T : IsEvent(e, types)
  BY DEF Typed
<1>3. s \in Seq(S \cup T) /\ t \in Seq(S \cup T)
  BY <1>1, <1>2, SeqMonotonic
<1>4. s \o t \in Seq(S \cup T)
  BY <1>3, ConcatProperties
<1>5. \A e \in S \cup T : IsEvent(e, types)
  BY <1>1, <1>2
<1> QED  BY <1>4, <1>5 DEF Typed

(* What is written before a write fails.                                  *)
LEMMA TypedPrefix ==
  ASSUME NEW types, NEW s, Typed(s, types), NEW k \in 0 .. Len(s) - 1
  PROVE  Typed(SubSeq(s, 1, k), types)
<1>1. PICK S : s \in Seq(S) /\ \A e \in S : IsEvent(e, types)
  BY DEF Typed
<1>2. Len(s) \in Nat /\ \A i \in 1 .. k : s[i] \in S
  BY <1>1, ElementOfSeq, LenProperties
<1>3. SubSeq(s, 1, k) \in Seq(S)
  BY <1>2, SubSeqProperties
<1> QED  BY <1>1, <1>3 DEF Typed

(* The events one by one.                                                 *)
LEMMA TypedEvents ==
  ASSUME NEW types, NEW s, Typed(s, types)
  PROVE  /\ Len(s) \in Nat /\ DOMAIN s = 1 .. Len(s)
         /\ \A i \in DOMAIN s : IsEvent(s[i], types) /\ s[i].type \in types
<1>1. PICK S : s \in Seq(S) /\ \A e \in S : IsEvent(e, types)
  BY DEF Typed
<1>2. Len(s) \in Nat /\ DOMAIN s = 1 .. Len(s)
  BY <1>1, LenProperties
<1>3. \A i \in DOMAIN s : s[i] \in S
  BY <1>1, <1>2, ElementOfSeq
<1> QED  BY <1>1, <1>2, <1>3 DEF IsEvent

(***************************************************************************)
(* The handlers' bookkeeping: the shape of their variables, the revision,  *)
(* what they write and whether they have committed themselves to it.       *)
(***************************************************************************)
GeminiFields == {"includeThoughts", "revision", "responseId", "identityCommitted", "pending"}
ResponsesFields ==
  {"aggregate", "revision", "output", "commentary", "commentaryText", "message", "messageText"}

(* A step of the Gemini handler that measures nothing.                     *)
GeminiStep(s, o) ==
  /\ DOMAIN o.state = GeminiFields
  /\ o.state.revision = s.revision
  /\ Typed(o.events, {"gemini"})
  /\ s.identityCommitted = TRUE \/ o.events # << >> => o.state.identityCommitted = TRUE

(* Writing a chunk is such a step.                                         *)
LEMMA EmitStep ==
  ASSUME NEW s, DOMAIN s = GeminiFields, NEW payload, NEW usage
  PROVE  GeminiStep(s, Emit(s, payload, usage))
<1> DEFINE id == IF s.responseId = None THEN "generated" ELSE s.responseId
           event == [type |-> "gemini", payload |-> payload, usage |-> usage, id |-> id]
           next == [s EXCEPT !.responseId = id, !.identityCommitted = TRUE]
<1>1. CASE payload = NoPayload
  <2>1. Emit(s, payload, usage) = [state |-> s, events |-> << >>]
    BY <1>1 DEF Emit
  <2> QED  BY <2>1, TypedEmpty DEF GeminiStep
<1>2. CASE payload # NoPayload
  <2>1. Emit(s, payload, usage) = [state |-> next, events |-> << event >>]
    BY <1>2 DEF Emit
  <2>2. Typed(<< event >>, {"gemini"})
    <3>1. IsEvent(event, {"gemini"})
      BY DEF IsEvent
    <3> QED  BY <3>1, TypedOne
  <2> HIDE DEF id, event
  <2>3. /\ DOMAIN next = GeminiFields
        /\ next.revision = s.revision
        /\ next.identityCommitted = TRUE
    BY DEF GeminiFields
  <2> HIDE DEF next
  <2> QED  BY <2>1, <2>2, <2>3 DEF GeminiStep
<1> QED  BY <1>1, <1>2

(* Replacing the pending chunk changes nothing else.                       *)
LEMMA PendingStep ==
  ASSUME NEW s, NEW o, GeminiStep(s, o), o = [state |-> o.state, events |-> o.events],
         NEW pending
  PROVE  GeminiStep(s, [o EXCEPT !.state.pending = pending])
<1> DEFINE next == [o.state EXCEPT !.pending = pending]
<1>1. /\ [o EXCEPT !.state.pending = pending].state = next
      /\ [o EXCEPT !.state.pending = pending].events = o.events
  OBVIOUS
<1>2. /\ DOMAIN next = GeminiFields
      /\ next.revision = o.state.revision
      /\ next.identityCommitted = o.state.identityCommitted
  BY DEF GeminiStep, GeminiFields
<1> HIDE DEF next
<1> QED  BY <1>1, <1>2 DEF GeminiStep

(* So writing the pending chunk is such a step.                            *)
LEMMA EmitPendingStep ==
  ASSUME NEW s, DOMAIN s = GeminiFields
  PROVE  /\ GeminiStep(s, EmitPending(s))
         /\ EmitPending(s) = [state |-> EmitPending(s).state, events |-> EmitPending(s).events]
<1> DEFINE emitted == Emit(s, s.pending.payload, s.pending.usage)
<1>1. GeminiStep(s, emitted)
  BY EmitStep
<1>2. emitted = [state |-> emitted.state, events |-> emitted.events]
  BY DEF Emit
<1>3. EmitPending(s) = [emitted EXCEPT !.state.pending = NoPending]
  BY DEF EmitPending
<1> HIDE DEF emitted
<1>4. [emitted EXCEPT !.state.pending = NoPending] =
        [state |-> [emitted.state EXCEPT !.pending = NoPending], events |-> emitted.events]
  BY <1>2
<1> QED  BY <1>1, <1>2, <1>3, <1>4, PendingStep

(* Two such steps are one, with the events of both.                        *)
LEMMA TwoSteps ==
  ASSUME NEW s, NEW o, NEW q, GeminiStep(s, o), GeminiStep(o.state, q)
  PROVE  GeminiStep(s, [state |-> q.state, events |-> o.events \o q.events])
<1>1. Typed(o.events \o q.events, {"gemini"})
  BY TypedConcat DEF GeminiStep
<1>2. o.events = << >> /\ q.events = << >> => o.events \o q.events = << >>
  OBVIOUS
<1> QED  BY <1>1, <1>2 DEF GeminiStep

(* Not writing anything is one.                                            *)
LEMMA SilentStep ==
  ASSUME NEW s, DOMAIN s = GeminiFields
  PROVE  GeminiStep(s, [state |-> s, events |-> << >>])
BY TypedEmpty DEF GeminiStep

(* Content joins the pending chunk or replaces it.                         *)
LEMMA HoldStep ==
  ASSUME NEW s, DOMAIN s = GeminiFields, NEW payload, NEW usage
  PROVE  GeminiStep(s, Hold(s, payload, usage))
<1> DEFINE splits  == s.pending.substantive /\ Substantive(payload)
           emitted == IF splits THEN EmitPending(s) ELSE [state |-> s, events |-> << >>]
           joined  == IF splits THEN payload ELSE Merge(s.pending.payload, payload)
<1>1. /\ GeminiStep(s, emitted)
      /\ emitted = [state |-> emitted.state, events |-> emitted.events]
  <2> HIDE DEF splits
  <2> QED  BY EmitPendingStep, SilentStep
<1>2. Hold(s, payload, usage) = [emitted EXCEPT !.state.pending = Pending(joined, usage)]
  BY DEF Hold
<1> HIDE DEF emitted, joined
<1> QED  BY <1>1, <1>2, PendingStep

(* A finish reason writes the last chunk, and before it the pending one.   *)
LEMMA FinishStep ==
  ASSUME NEW s, DOMAIN s = GeminiFields, NEW reason, NEW usage
  PROVE  GeminiStep(s, Finish(s, reason, usage))
<1> DEFINE last    == [NoPayload EXCEPT !.finish = reason]
           flushed == IF s.pending.substantive THEN EmitPending(s)
                      ELSE [state |-> [s EXCEPT !.pending = NoPending], events |-> << >>]
           payload == IF s.pending.substantive THEN last ELSE Merge(last, s.pending.payload)
           ended   == Emit(flushed.state, payload, usage)
<1>1. GeminiStep(s, flushed)
  <2>1. CASE s.pending.substantive
    BY <2>1, EmitPendingStep
  <2>2. CASE ~s.pending.substantive
    <3> DEFINE o == [state |-> s, events |-> << >>]
    <3>1. GeminiStep(s, o) /\ o = [state |-> o.state, events |-> o.events]
      BY SilentStep
    <3>2. flushed = [o EXCEPT !.state.pending = NoPending]
      BY <2>2
    <3> HIDE DEF o
    <3> QED  BY <3>1, <3>2, PendingStep
  <2> QED  BY <2>1, <2>2
<1>2. DOMAIN flushed.state = GeminiFields
  BY <1>1 DEF GeminiStep
<1> HIDE DEF flushed, payload
<1>3. GeminiStep(flushed.state, ended)
  BY <1>2, EmitStep
<1>4. Finish(s, reason, usage) = [state |-> ended.state, events |-> flushed.events \o ended.events]
  BY DEF Finish, flushed, payload
<1> HIDE DEF ended
<1> QED  BY <1>1, <1>3, <1>4, TwoSteps

(* A result is measured, and then the pending chunk is dealt with.         *)
LEMMA GeminiResultStep ==
  ASSUME NEW s, DOMAIN s = GeminiFields, NEW r
  PROVE  /\ GeminiStep(Absorb(s, r), GeminiResult(s, r))
         /\ Absorb(s, r).revision = Observe(s.revision, r)
         /\ Absorb(s, r).identityCommitted = s.identityCommitted
<1> DEFINE absorbed == Absorb(s, r)
           payload  == Payload(r, s.includeThoughts)
           usage    == CurrentMetadata(absorbed.revision)
<1>1. /\ DOMAIN absorbed = GeminiFields
      /\ absorbed.revision = Observe(s.revision, r)
      /\ absorbed.identityCommitted = s.identityCommitted
  BY DEF Absorb, GeminiFields
<1> HIDE DEF absorbed
<1>2. GeminiStep(absorbed, GeminiResult(s, r))
  <2>1. CASE payload = NoPayload
    <3> DEFINE next == IF absorbed.pending.payload = NoPayload THEN absorbed
                       ELSE [absorbed EXCEPT !.pending.usage = usage]
    <3>1. GeminiResult(s, r) = [state |-> next, events |-> << >>]
      BY <2>1 DEF GeminiResult, absorbed
    <3>2. /\ DOMAIN next = GeminiFields
          /\ next.revision = absorbed.revision
          /\ next.identityCommitted = absorbed.identityCommitted
      BY <1>1 DEF GeminiFields
    <3> HIDE DEF next
    <3> QED  BY <3>1, <3>2, TypedEmpty DEF GeminiStep
  <2>2. CASE payload # NoPayload /\ payload.finish # None
    <3>1. GeminiResult(s, r) = Finish(absorbed, payload.finish, usage)
      BY <2>2 DEF GeminiResult, absorbed
    <3> QED  BY <3>1, <1>1, FinishStep
  <2>3. CASE payload # NoPayload /\ payload.finish = None
    <3>1. GeminiResult(s, r) = Hold(absorbed, payload, usage)
      BY <2>3 DEF GeminiResult, absorbed
    <3> QED  BY <3>1, <1>1, HoldStep
  <2> QED  BY <2>1, <2>2, <2>3
<1> QED  BY <1>1, <1>2 DEF absorbed

ResponsesStep(s, o) ==
  /\ DOMAIN o.state = ResponsesFields /\ o.state.revision = s.revision
  /\ Typed(o.events, ItemTypes)

(* The end of an item.                                                     *)
LEMMA ClosedTyped == ASSUME NEW i, NEW item PROVE Typed(Closed(i, item), ItemTypes)
<1>1. PICK a, b, c : a = TextDone(i, item.parts) /\ b = PartDone(i, item.parts) /\ c = Done(i, item)
  OBVIOUS
<1>2. IsEvent(a, ItemTypes) /\ IsEvent(b, ItemTypes) /\ IsEvent(c, ItemTypes)
  BY <1>1 DEF TextDone, PartDone, Done, ItemTypes, IsEvent
<1>3. Typed(<< a, b, c >>, ItemTypes)
  BY <1>2, TypedThree
<1> QED  BY <1>1, <1>3 DEF Closed

(* The events of a text, which opens an item if there is none.             *)
LEMMA TextTyped ==
  ASSUME NEW opens, NEW i, NEW type, NEW text
  PROVE  Typed((IF opens THEN Opened(i, type) ELSE << >>) \o << TextDelta(i, text) >>, ItemTypes)
<1>1. PICK a, b, c : a = Added(i, Item(type, << >>)) /\ b = PartAdded(i) /\ c = TextDelta(i, text)
  OBVIOUS
<1>2. IsEvent(a, ItemTypes) /\ IsEvent(b, ItemTypes) /\ IsEvent(c, ItemTypes)
  BY <1>1 DEF Added, PartAdded, TextDelta, ItemTypes, IsEvent
<1>3. Typed(<< a, b >>, ItemTypes) /\ Typed(<< c >>, ItemTypes) /\ Typed(<< >>, ItemTypes)
  BY <1>2, TypedOne, TypedTwo, TypedEmpty
<1>4. PICK first : first = IF opens THEN Opened(i, type) ELSE << >>
  OBVIOUS
<1>5. Typed(first, ItemTypes)
  BY <1>1, <1>3, <1>4 DEF Opened
<1> QED  BY <1>1, <1>3, <1>4, <1>5, TypedConcat

(* Closing the commentary measures nothing.                                *)
LEMMA FinishCommentaryStep ==
  ASSUME NEW s, DOMAIN s = ResponsesFields
  PROVE  ResponsesStep(s, FinishCommentary(s))
<1> DEFINE item == Item("commentary", s.commentaryText)
           next == [s EXCEPT !.output[s.commentary + 1] = item,
                             !.commentary = NoItem, !.commentaryText = << >>]
<1>1. CASE s.commentary = NoItem
  BY <1>1, TypedEmpty DEF FinishCommentary, ResponsesStep
<1>2. CASE s.commentary # NoItem
  <2>1. FinishCommentary(s) = [state |-> next, events |-> Closed(s.commentary, item)]
    BY <1>2 DEF FinishCommentary
  <2> HIDE DEF item
  <2>2. DOMAIN next = ResponsesFields /\ next.revision = s.revision
    BY DEF ResponsesFields
  <2> HIDE DEF next
  <2> QED  BY <2>1, <2>2, ClosedTyped DEF ResponsesStep
<1> QED  BY <1>1, <1>2

(* Nor does adding to it.                                                  *)
LEMMA ReasonStep ==
  ASSUME NEW s, DOMAIN s = ResponsesFields, NEW thoughts
  PROVE  ResponsesStep(s, Reason(s, thoughts))
<1> DEFINE opens == s.commentary = NoItem
           index == IF opens THEN Len(s.output) ELSE s.commentary
           output == IF opens THEN Append(s.output, Item("commentary", << >>)) ELSE s.output
           text == s.commentaryText \o thoughts
           next == [s EXCEPT !.commentary = index, !.commentaryText = text, !.output = output]
           events == (IF opens THEN Opened(index, "commentary") ELSE << >>)
                       \o << TextDelta(index, thoughts) >>
<1>1. CASE thoughts = << >>
  BY <1>1, TypedEmpty DEF Reason, ResponsesStep
<1>2. CASE thoughts # << >>
  <2>1. Reason(s, thoughts) = [state |-> next, events |-> events]
    BY <1>2 DEF Reason
  <2> HIDE DEF index, output, text
  <2>2. DOMAIN next = ResponsesFields /\ next.revision = s.revision
    BY DEF ResponsesFields
  <2> HIDE DEF next, opens
  <2>3. Typed(events, ItemTypes)
    BY TextTyped
  <2> HIDE DEF events
  <2> QED  BY <2>1, <2>2, <2>3 DEF ResponsesStep
<1> QED  BY <1>1, <1>2

(* Nor does adding to the message.                                         *)
LEMMA SayStep ==
  ASSUME NEW s, DOMAIN s = ResponsesFields, NEW text
  PROVE  ResponsesStep(s, Say(s, text))
<1> DEFINE opens == s.message = NoItem
           index == IF opens THEN Len(s.output) ELSE s.message
           output == IF opens THEN Append(s.output, Item("message", << >>)) ELSE s.output
           whole == s.messageText \o text
           next == [s EXCEPT !.message = index, !.messageText = whole, !.output = output]
           events == (IF opens THEN Opened(index, "message") ELSE << >>)
                       \o << TextDelta(index, text) >>
<1>1. CASE text = << >>
  BY <1>1, TypedEmpty DEF Say, ResponsesStep
<1>2. CASE text # << >>
  <2>1. Say(s, text) = [state |-> next, events |-> events]
    BY <1>2 DEF Say
  <2> HIDE DEF index, output, whole
  <2>2. DOMAIN next = ResponsesFields /\ next.revision = s.revision
    BY DEF ResponsesFields
  <2> HIDE DEF next, opens
  <2>3. Typed(events, ItemTypes)
    BY TextTyped
  <2> HIDE DEF events
  <2> QED  BY <2>1, <2>2, <2>3 DEF ResponsesStep
<1> QED  BY <1>1, <1>2

(* A result is measured whatever its parts do.                             *)
LEMMA ResponsesResultStep ==
  ASSUME NEW s, DOMAIN s = ResponsesFields, NEW r, ~IsEmpty(r)
  PROVE  /\ DOMAIN ResponsesResult(s, r).state = ResponsesFields
         /\ ResponsesResult(s, r).state.revision = Observe(s.revision, r)
         /\ Typed(ResponsesResult(s, r).events, ItemTypes)
<1> DEFINE text     == OfKind(r.parts, {"text"})
           observed == [s EXCEPT !.aggregate = Accumulate(@, r), !.revision = Observe(@, r)]
           reasoned == Reason(observed, OfKind(r.parts, {"thought"}))
           finished == IF text # << >> \/ Has(r.parts, Calls)
                         THEN FinishCommentary(reasoned.state)
                         ELSE [state |-> reasoned.state, events |-> << >>]
           said     == Say(finished.state, text)
<1>1. DOMAIN observed = ResponsesFields /\ observed.revision = Observe(s.revision, r)
  BY DEF ResponsesFields
<1>2. ResponsesResult(s, r) = [state |-> said.state,
                                events |-> reasoned.events \o finished.events \o said.events]
  BY DEF ResponsesResult
<1> HIDE DEF observed, text
<1>3. ResponsesStep(observed, reasoned)
  BY <1>1, ReasonStep
<1> HIDE DEF reasoned
<1>4. ResponsesStep(reasoned.state, finished)
  BY <1>3, FinishCommentaryStep, TypedEmpty DEF ResponsesStep
<1> HIDE DEF finished
<1>5. ResponsesStep(finished.state, said)
  BY <1>4, SayStep DEF ResponsesStep
<1> HIDE DEF said
<1>6. Typed(reasoned.events \o finished.events \o said.events, ItemTypes)
  BY <1>3, <1>4, <1>5, TypedConcat DEF ResponsesStep
<1> QED  BY <1>1, <1>2, <1>3, <1>4, <1>5, <1>6 DEF ResponsesStep

(***************************************************************************)
(* What is known of the results, and what the revision says of them.       *)
(***************************************************************************)
Part == [kind : PartKinds, from : Nat]

ResultSet ==
  [parts : Seq(Part), grounding : BOOLEAN, usage : Nat,
   id : STRING, feedback : BOOLEAN, finish : Reasons \cup {None}]

Revisions == [outputRevision : Nat, metadataAt : Nat, metadata : Nat]

(* The result with number n.                                               *)
IsResult(r, n) ==
  /\ r \in ResultSet
  /\ r.usage \in {0, n}
  /\ \A j \in DOMAIN r.parts : r.parts[j].from = n

(* The metadata is the last that was measured, and is of the present       *)
(* revision exactly if nothing was generated since.                        *)
Measures(u, results) ==
  /\ u.metadata \in 0 .. Len(results)
  /\ \A n \in 1 .. Len(results) : n > u.metadata => results[n].usage = 0
  /\ u.metadata # 0 =>
       /\ results[u.metadata].usage # 0
       /\ u.metadataAt = u.outputRevision <=>
            \A n \in 1 .. Len(results) : n > u.metadata => ~Generates(results[n])

Bounded(u, n) ==
  u \in Revisions /\ u.metadataAt <= u.outputRevision /\ u.outputRevision <= n

(* Numbering makes a result of what arrives.                               *)
LEMMA NumberedIsResult ==
  ASSUME NEW r \in Shapes, NEW n \in Nat
  PROVE  IsResult(Numbered(r, n), n)
<1> DEFINE parts == [i \in DOMAIN r.parts |-> [kind |-> r.parts[i], from |-> n]]
           usage == IF r.usage THEN n ELSE 0
<1>1. r.parts \in Seq(PartKinds)
  BY DEF Shapes
<1>2. /\ Len(r.parts) \in Nat /\ DOMAIN r.parts = 1 .. Len(r.parts)
      /\ \A i \in 1 .. Len(r.parts) : r.parts[i] \in PartKinds
  BY <1>1, LenProperties, ElementOfSeq
<1>3. parts \in Seq(Part)
  <2>1. \A i \in 1 .. Len(r.parts) : [kind |-> r.parts[i], from |-> n] \in Part
    BY <1>2 DEF Part
  <2>2. parts = [i \in 1 .. Len(r.parts) |-> [kind |-> r.parts[i], from |-> n]]
    BY <1>2
  <2> HIDE DEF parts
  <2>3. [i \in 1 .. Len(r.parts) |-> [kind |-> r.parts[i], from |-> n]] \in Seq(Part)
    BY <1>2, <2>1, IsASeq
  <2> QED  BY <2>2, <2>3
<1>4. \A j \in DOMAIN parts : parts[j].from = n
  OBVIOUS
<1>5. usage \in {0, n} /\ usage \in Nat
  OBVIOUS
<1>6. Numbered(r, n) = [r EXCEPT !.parts = parts, !.usage = usage]
  BY DEF Numbered
<1> HIDE DEF parts, usage
<1>7. /\ Numbered(r, n) \in ResultSet
      /\ Numbered(r, n).parts = parts
      /\ Numbered(r, n).usage = usage
  BY <1>3, <1>5, <1>6 DEF ResultSet, Shapes
<1> QED  BY <1>4, <1>5, <1>7 DEF IsResult

(* Holding its finish reason back leaves what is measured.                 *)
LEMMA DetachKeeps ==
  ASSUME NEW r \in ResultSet
  PROVE  /\ DetachFinish(r).parts = r.parts
         /\ DetachFinish(r).usage = r.usage
BY DEF DetachFinish, ResultSet

(* A result that is handed on is measured: the revision is as exact as     *)
(* before.                                                                 *)
LEMMA ObserveMeasures ==
  ASSUME NEW results \in Seq(ResultSet), NEW u, Bounded(u, Len(results)),
         Measures(u, results), NEW r, IsResult(r, Len(results) + 1),
         NEW rest, rest.parts = r.parts, rest.usage = r.usage
  PROVE  /\ Bounded(Observe(u, rest), Len(results) + 1)
         /\ Measures(Observe(u, rest), Append(results, r))
<1> DEFINE N == Len(results)
           v == Observe(u, rest)
           all == Append(results, r)
<1> SUFFICES Bounded(v, N + 1) /\ Measures(v, all)
  OBVIOUS
<1>1. N \in Nat /\ u \in Revisions
  BY LenProperties DEF Bounded
<1>2. Generates(rest) <=> Generates(r)
  BY DEF Generates
<1>3. /\ Len(all) = N + 1 /\ all[N + 1] = r
      /\ \A n \in 1 .. N : all[n] = results[n]
  BY DEF IsResult
<1>4. /\ v.outputRevision = IF Generates(r) THEN u.outputRevision + 1 ELSE u.outputRevision
      /\ v.metadataAt = IF r.usage # 0 THEN v.outputRevision ELSE u.metadataAt
      /\ v.metadata = IF r.usage # 0 THEN r.usage ELSE u.metadata
  BY <1>2 DEF Observe
<1>5. Bounded(v, N + 1)
  <2>1. v \in Revisions
    BY <1>1 DEF Observe, Revisions, IsResult, ResultSet
  <2> HIDE DEF v
  <2> QED  BY <1>1, <1>4, <2>1 DEF Bounded, Revisions
<1> HIDE DEF v, all
<1>6. CASE r.usage # 0
  <2>1. v.metadata = N + 1 /\ v.metadataAt = v.outputRevision
    BY <1>4, <1>6 DEF IsResult
  <2>2. Measures(v, all)
    BY <1>1, <1>3, <1>6, <2>1 DEF Measures
  <2> QED  BY <1>5, <2>2
<1>7. CASE r.usage = 0
  <2>1. v.metadata = u.metadata /\ v.metadataAt = u.metadataAt
    BY <1>4, <1>7
  <2>2. /\ v.metadata \in 0 .. N + 1
        /\ \A n \in 1 .. N + 1 : n > v.metadata => all[n].usage = 0
    BY <1>1, <1>3, <1>7, <2>1 DEF Measures
  <2>3. ASSUME v.metadata # 0
        PROVE  /\ all[v.metadata].usage # 0
               /\ v.metadataAt = v.outputRevision <=>
                    \A n \in 1 .. N + 1 : n > v.metadata => ~Generates(all[n])
    <3>1. u.metadata \in 1 .. N /\ all[v.metadata].usage # 0
      BY <1>1, <1>3, <2>1, <2>3 DEF Measures
    <3>2. (\A n \in 1 .. N + 1 : n > v.metadata => ~Generates(all[n]))
            <=> /\ ~Generates(r)
                /\ \A n \in 1 .. N : n > u.metadata => ~Generates(results[n])
      BY <1>1, <1>3, <2>1, <3>1
    <3>3. v.metadataAt = v.outputRevision
            <=> ~Generates(r) /\ u.metadataAt = u.outputRevision
      BY <1>1, <1>4, <2>1 DEF Bounded, Revisions
    <3> QED  BY <2>1, <2>3, <3>1, <3>2, <3>3 DEF Measures
  <2>4. Measures(v, all)
    BY <1>3, <2>2, <2>3 DEF Measures
  <2> QED  BY <1>5, <2>4
<1> QED  BY <1>5, <1>6, <1>7

(* A result that is dropped as empty changes nothing that is measured.     *)
LEMMA EmptyMeasures ==
  ASSUME NEW results \in Seq(ResultSet), NEW u, Bounded(u, Len(results)),
         Measures(u, results), NEW r, IsResult(r, Len(results) + 1),
         IsEmpty(DetachFinish(r))
  PROVE  /\ Bounded(u, Len(results) + 1)
         /\ Measures(u, Append(results, r))
<1> DEFINE N == Len(results)
           all == Append(results, r)
<1>1. N \in Nat /\ u \in Revisions
  BY LenProperties DEF Bounded
<1>2. r.parts = << >> /\ r.usage = 0
  BY DetachKeeps DEF IsEmpty, HasContent, HasMetadata, IsResult
<1>3. ~Generates(r)
  BY <1>2 DEF Generates, Has
<1>4. /\ Len(all) = N + 1 /\ all[N + 1] = r
      /\ \A n \in 1 .. N : all[n] = results[n]
  BY DEF IsResult
<1> HIDE DEF all
<1>5. Measures(u, all)
  <2>1. /\ u.metadata \in 0 .. N + 1
        /\ \A n \in 1 .. N + 1 : n > u.metadata => all[n].usage = 0
    BY <1>1, <1>2, <1>4 DEF Measures
  <2>2. u.metadata # 0 => all[u.metadata].usage # 0
    BY <1>1, <1>4 DEF Measures
  <2>3. (\A n \in 1 .. N + 1 : n > u.metadata => ~Generates(all[n]))
          <=> \A n \in 1 .. N : n > u.metadata => ~Generates(results[n])
    BY <1>1, <1>3, <1>4 DEF Measures
  <2> QED  BY <1>4, <2>1, <2>2, <2>3 DEF Measures
<1> QED  BY <1>1, <1>5 DEF Bounded, Revisions, all

(***************************************************************************)
(* Any handler at a result.                                                *)
(***************************************************************************)
HandlerShape(p, s) ==
  /\ p.name = "gemini" => DOMAIN s = GeminiFields
  /\ p.name = "responses" => DOMAIN s = ResponsesFields

(* The events a handler writes before the one that ends the stream, and    *)
(* whether it has written any; a Responses stream always has.              *)
ChunkTypes(p) ==
  IF p.name = "chat" THEN {"chunk"}
  ELSE IF p.name = "gemini" THEN {"gemini"} ELSE ItemTypes

Committed(p, s) ==
  \/ p.name = "responses"
  \/ p.name = "chat" /\ s.committed = TRUE
  \/ p.name = "gemini" /\ s.identityCommitted = TRUE

HandlerStep(p, s, r, o) ==
  /\ HandlerShape(p, o.state)
  /\ o.state.revision = Observe(s.revision, r)
  /\ Typed(o.events, ChunkTypes(p))
  /\ Committed(p, s) \/ o.events # << >> => Committed(p, o.state)

(* Every protocol's handler measures a result that is handed to it and     *)
(* writes chunks only, and knows that it has.                              *)
LEMMA OnResultStep ==
  ASSUME protocol \in Protocols, HandlerShape(protocol, handler), NEW r, ~IsEmpty(r)
  PROVE  HandlerStep(protocol, handler, r, OnResult(r))
<1> DEFINE o == OnResult(r)
<1>1. CASE protocol.name = "chat"
  <2> DEFINE chunk == ChatChunk(r, handler.emittedGrounding)
  <2>1. /\ o.state.revision = Observe(handler.revision, r)
        /\ o.state.committed = (handler.committed \/ HasContent(r))
        /\ o.events = IF HasContent(r) THEN << chunk >> ELSE << >>
    BY <1>1 DEF OnResult, ChatResult
  <2>2. IsEvent(chunk, {"chunk"})
    BY DEF ChatChunk, IsEvent
  <2> HIDE DEF chunk, o
  <2>3. Typed(<< chunk >>, {"chunk"}) /\ Typed(<< >>, {"chunk"})
    BY <2>2, TypedOne, TypedEmpty
  <2>4. Typed(o.events, {"chunk"})
    BY <2>1, <2>3
  <2>5. handler.committed = TRUE \/ o.events # << >> => o.state.committed = TRUE
    BY <2>1
  <2>6. HandlerStep(protocol, handler, r, o)
    BY <1>1, <2>1, <2>4, <2>5 DEF HandlerStep, HandlerShape, ChunkTypes, Committed
  <2> QED  BY <2>6 DEF o
<1>2. CASE protocol.name = "responses"
  <2>1. o = ResponsesResult(handler, r)
    BY <1>2 DEF OnResult
  <2>2. DOMAIN handler = ResponsesFields
    BY <1>2 DEF HandlerShape
  <2>3. /\ DOMAIN ResponsesResult(handler, r).state = ResponsesFields
        /\ ResponsesResult(handler, r).state.revision = Observe(handler.revision, r)
        /\ Typed(ResponsesResult(handler, r).events, ItemTypes)
    BY <2>2, ResponsesResultStep
  <2> QED  BY <1>2, <2>1, <2>3 DEF HandlerStep, HandlerShape, ChunkTypes, Committed
<1>3. CASE protocol.name = "gemini"
  <2>1. o = GeminiResult(handler, r)
    BY <1>3 DEF OnResult
  <2>2. DOMAIN handler = GeminiFields
    BY <1>3 DEF HandlerShape
  <2>3. /\ GeminiStep(Absorb(handler, r), GeminiResult(handler, r))
        /\ Absorb(handler, r).revision = Observe(handler.revision, r)
        /\ Absorb(handler, r).identityCommitted = handler.identityCommitted
    BY <2>2, GeminiResultStep
  <2> QED  BY <1>3, <2>1, <2>3
           DEF HandlerStep, HandlerShape, GeminiStep, ChunkTypes, Committed
<1> QED  BY <1>1, <1>2, <1>3 DEF Protocols, Names

(* What a callback leaves.                                                 *)
LEMMA DeliverStep ==
  ASSUME protocol \in Protocols, HandlerShape(protocol, handler), gone = FALSE,
         NEW r, ~IsEmpty(r), NEW next, Deliver(r, next)
  PROVE  \/ canceled /\ pc' = "done" /\ UNCHANGED <<handler, wire, gone>>
         \/ /\ HandlerStep(protocol, handler, r, OnResult(r))
            /\ handler' = OnResult(r).state
            /\ \/ /\ pc' = next /\ gone' = FALSE
                  /\ wire' = wire \o OnResult(r).events
               \/ /\ pc' = "done" /\ gone' = TRUE
                  /\ \E k \in 0 .. Len(OnResult(r).events) - 1 :
                       wire' = wire \o SubSeq(OnResult(r).events, 1, k)
<1>1. HandlerStep(protocol, handler, r, OnResult(r))
  BY OnResultStep
<1>2. CASE canceled
  BY <1>2 DEF Deliver
<1>3. CASE ~canceled
  <2>1. handler' = OnResult(r).state /\ Write(OnResult(r).events, next)
    BY <1>3 DEF Deliver
  <2> QED  BY <1>1, <2>1 DEF Write
<1> QED  BY <1>2, <1>3

(* A result of the flush is not empty and measures nothing.                *)
LEMMA FinishMeasures ==
  ASSUME NEW reason \in Reasons, NEW u \in Revisions
  PROVE  /\ ~IsEmpty(FinishResult(reason))
         /\ Observe(u, FinishResult(reason)) = u
<1> DEFINE r == FinishResult(reason)
<1>1. r.finish = reason /\ r.parts = << >> /\ r.usage = 0
  BY DEF FinishResult, EmptyResult
<1>2. reason # None
  BY DEF Reasons, None
<1> HIDE DEF r
<1>3. ~Generates(r)
  BY <1>1 DEF Generates, Has
<1> QED  BY <1>1, <1>2, <1>3 DEF r, IsEmpty, Observe, Revisions

(***************************************************************************)
(* Type correctness.                                                       *)
(***************************************************************************)
RevisionInv ==
  /\ protocol \in Protocols
  /\ pc \in {"open", "stream", "flushed", "done"}
  /\ pendingFinish \in Reasons \cup {None}
  /\ canceled \in BOOLEAN /\ gone \in BOOLEAN
  /\ sent \in Seq(ResultSet) /\ Len(sent) <= MaxResults
  /\ \A i \in 1 .. Len(sent) : IsResult(sent[i], i)
  /\ HandlerShape(protocol, handler)
  /\ Bounded(handler.revision, Len(sent))
  /\ gone => pc = "done"
  /\ pc # "done" => Measures(handler.revision, sent)

(* The first state has nothing to measure.                                 *)
LEMMA InitRevision == Init => RevisionInv
<1> SUFFICES ASSUME Init PROVE RevisionInv
  OBVIOUS
<1>1. /\ sent = << >> /\ sent \in Seq(ResultSet) /\ Len(sent) = 0
  BY DEF Init
<1>2. protocol \in Protocols /\ handler = InitialHandler(protocol)
  BY DEF Init
<1>3. handler.revision = Unmeasured /\ HandlerShape(protocol, handler)
  <2>1. CASE protocol.name = "chat"
    BY <1>2, <2>1 DEF InitialHandler, ChatState, HandlerShape
  <2>2. CASE protocol.name = "responses"
    <3>1. handler = ResponsesState(protocol.option)
      BY <1>2, <2>2 DEF InitialHandler
    <3> QED  BY <2>2, <3>1 DEF ResponsesState, HandlerShape, ResponsesFields
  <2>3. CASE protocol.name = "gemini"
    <3>1. handler = GeminiState(protocol.option)
      BY <1>2, <2>3 DEF InitialHandler
    <3> QED  BY <2>3, <3>1 DEF GeminiState, HandlerShape, GeminiFields
  <2> QED  BY <1>2, <2>1, <2>2, <2>3 DEF Protocols, Names
<1>4. Bounded(handler.revision, 0) /\ Measures(handler.revision, sent)
  BY <1>1, <1>3 DEF Bounded, Measures, Unmeasured, Revisions
<1>5. /\ pc = "open" /\ pendingFinish = None
      /\ canceled \in BOOLEAN /\ gone \in BOOLEAN /\ (gone => pc = "done")
  BY DEF Init
<1>6. Len(sent) <= MaxResults /\ \A i \in 1 .. Len(sent) : IsResult(sent[i], i)
  BY <1>1, MaxAssumption
<1>7. Bounded(handler.revision, Len(sent))
  BY <1>1, <1>4
<1> QED  BY <1>1, <1>2, <1>3, <1>4, <1>5, <1>6, <1>7 DEF RevisionInv

(* A result that arrives is measured when it is handed on, and need not be *)
(* when it is dropped.                                                     *)
LEMMA ArrivalKeepsRevision ==
  ASSUME RevisionInv, ResultArrives
  PROVE  RevisionInv'
<1> DEFINE N == Len(sent)
<1>1. /\ pc = "stream" /\ N < MaxResults /\ gone = FALSE
      /\ protocol' = protocol /\ canceled' = canceled
  BY DEF ResultArrives, RevisionInv
<1>2. N \in Nat /\ sent \in Seq(ResultSet) /\ protocol \in Protocols
  BY LenProperties DEF RevisionInv
<1>3. PICK shape \in Arrivals(protocol.name) :
        LET result == Numbered(shape, N + 1)
            rest   == DetachFinish(result)
        IN
        /\ sent' = Append(sent, result)
        /\ pendingFinish' = HeldBack(pendingFinish, result)
        /\ IF IsEmpty(rest) THEN UNCHANGED <<pc, handler, wire, gone>>
                            ELSE Deliver(rest, "stream")
  BY DEF ResultArrives
<1> DEFINE result == Numbered(shape, N + 1)
           rest   == DetachFinish(result)
<1>4. shape \in Shapes
  BY <1>2, ArrivalAssumption DEF Protocols
<1>5. IsResult(result, N + 1)
  BY <1>2, <1>4, NumberedIsResult
<1>6. /\ sent' = Append(sent, result)
      /\ pendingFinish' = HeldBack(pendingFinish, result)
      /\ IF IsEmpty(rest) THEN UNCHANGED <<pc, handler, wire, gone>>
                          ELSE Deliver(rest, "stream")
  BY <1>3
<1> HIDE DEF result
<1>7. rest.parts = result.parts /\ rest.usage = result.usage
  BY <1>5, DetachKeeps DEF IsResult
<1>8. /\ sent' \in Seq(ResultSet) /\ Len(sent') = N + 1 /\ Len(sent') <= MaxResults
      /\ \A i \in 1 .. Len(sent') : IsResult(sent'[i], i)
  <2>1. sent' \in Seq(ResultSet) /\ Len(sent') = N + 1 /\ sent'[N + 1] = result
    BY <1>2, <1>5, <1>6 DEF IsResult
  <2>2. \A i \in 1 .. N : sent'[i] = sent[i] /\ IsResult(sent[i], i)
    BY <1>2, <1>5, <1>6 DEF IsResult, RevisionInv
  <2> QED  BY <1>1, <1>2, <1>5, <2>1, <2>2, MaxAssumption
<1>9. pendingFinish' \in Reasons \cup {None}
  <2>1. result.finish \in Reasons \cup {None}
    BY <1>5 DEF IsResult, ResultSet
  <2> QED  BY <1>6, <2>1 DEF HeldBack, RevisionInv
<1>10. Bounded(handler.revision, N) /\ Measures(handler.revision, sent)
  BY <1>1 DEF RevisionInv
<1>11. HandlerShape(protocol, handler)
  BY DEF RevisionInv
<1>12. CASE IsEmpty(rest)
  <2>1. UNCHANGED <<pc, handler, wire, gone>>
    BY <1>6, <1>12
  <2>2. Bounded(handler.revision, N + 1) /\ Measures(handler.revision, sent')
    BY <1>2, <1>5, <1>6, <1>10, <1>12, EmptyMeasures
  <2> QED  BY <1>1, <1>8, <1>9, <2>1, <2>2 DEF RevisionInv
<1>13. CASE ~IsEmpty(rest)
  <2>1. Deliver(rest, "stream")
    BY <1>6, <1>13
  <2>2. /\ Bounded(Observe(handler.revision, rest), N + 1)
        /\ Measures(Observe(handler.revision, rest), sent')
    BY <1>2, <1>5, <1>6, <1>7, <1>10, ObserveMeasures
  <2> HIDE DEF rest
  <2>3. CASE canceled /\ pc' = "done" /\ UNCHANGED <<handler, wire, gone>>
    <3>1. Bounded(handler.revision, N + 1)
      BY <1>2, <1>10 DEF Bounded, Revisions
    <3> QED  BY <1>1, <1>8, <1>9, <2>3, <3>1 DEF RevisionInv
  <2>4. CASE /\ HandlerStep(protocol, handler, rest, OnResult(rest))
             /\ handler' = OnResult(rest).state
             /\ (pc' = "stream" /\ gone' = FALSE) \/ (pc' = "done" /\ gone' = TRUE)
    <3>1. HandlerShape(protocol, handler') /\ handler'.revision = Observe(handler.revision, rest)
      BY <2>4 DEF HandlerStep
    <3> QED  BY <1>1, <1>8, <1>9, <2>2, <2>4, <3>1 DEF RevisionInv
  <2>5. \/ canceled /\ pc' = "done" /\ UNCHANGED <<handler, wire, gone>>
        \/ /\ HandlerStep(protocol, handler, rest, OnResult(rest))
           /\ handler' = OnResult(rest).state
           /\ (pc' = "stream" /\ gone' = FALSE) \/ (pc' = "done" /\ gone' = TRUE)
    BY <1>1, <1>2, <1>11, <1>13, <2>1, DeliverStep
  <2> QED  BY <2>3, <2>4, <2>5
<1> QED  BY <1>12, <1>13

(* The flush measures nothing.                                             *)
LEMMA FlushKeepsRevision ==
  ASSUME RevisionInv, UpstreamEnds
  PROVE  RevisionInv'
<1>1. /\ pc = "stream" /\ gone = FALSE /\ pendingFinish' = None
      /\ UNCHANGED <<protocol, canceled, sent>>
  BY DEF UpstreamEnds, RevisionInv
<1>2. Bounded(handler.revision, Len(sent)) /\ Measures(handler.revision, sent)
  BY <1>1 DEF RevisionInv
<1>3. CASE pendingFinish = None
  BY <1>1, <1>2, <1>3 DEF UpstreamEnds, RevisionInv
<1>4. CASE pendingFinish # None
  <2> DEFINE rest == FinishResult(pendingFinish)
  <2>1. Deliver(rest, "flushed") /\ pendingFinish \in Reasons
    BY <1>4 DEF UpstreamEnds, RevisionInv
  <2>2. ~IsEmpty(rest) /\ Observe(handler.revision, rest) = handler.revision
    BY <1>2, <2>1, FinishMeasures DEF Bounded
  <2> HIDE DEF rest
  <2>3. CASE canceled /\ pc' = "done" /\ UNCHANGED <<handler, wire, gone>>
    BY <1>1, <1>2, <2>3 DEF RevisionInv
  <2>4. CASE /\ HandlerStep(protocol, handler, rest, OnResult(rest))
             /\ handler' = OnResult(rest).state
             /\ (pc' = "flushed" /\ gone' = FALSE) \/ (pc' = "done" /\ gone' = TRUE)
    <3>1. HandlerShape(protocol, handler') /\ handler'.revision = handler.revision
      BY <2>2, <2>4 DEF HandlerStep
    <3> QED  BY <1>1, <1>2, <2>4, <3>1 DEF RevisionInv
  <2>5. \/ canceled /\ pc' = "done" /\ UNCHANGED <<handler, wire, gone>>
        \/ /\ HandlerStep(protocol, handler, rest, OnResult(rest))
           /\ handler' = OnResult(rest).state
           /\ (pc' = "flushed" /\ gone' = FALSE) \/ (pc' = "done" /\ gone' = TRUE)
    <3>1. protocol \in Protocols /\ HandlerShape(protocol, handler)
      BY DEF RevisionInv
    <3> QED  BY <1>1, <2>1, <2>2, <3>1, DeliverStep
  <2> QED  BY <2>3, <2>4, <2>5
<1> QED  BY <1>3, <1>4

(* Nothing else touches the revision.                                      *)
LEMMA NextRevision == RevisionInv /\ [Next]_vars => RevisionInv'
<1> SUFFICES ASSUME RevisionInv, [Next]_vars PROVE RevisionInv'
  OBVIOUS
<1>1. CASE ResultArrives
  BY <1>1, ArrivalKeepsRevision
<1>2. CASE UpstreamEnds
  BY <1>2, FlushKeepsRevision
<1>3. CASE Open
  <2>1. /\ pc = "open" /\ UNCHANGED <<protocol, pendingFinish, handler, canceled, sent>>
        /\ (pc' = "stream" /\ gone' = FALSE) \/ (pc' = "done" /\ gone' = TRUE)
    BY <1>3 DEF Open, Write, RevisionInv
  <2> QED  BY <2>1 DEF RevisionInv
<1>4. CASE HandlerEnds
  BY <1>4 DEF HandlerEnds, Write, RevisionInv
<1>5. CASE StreamFails
  BY <1>5 DEF StreamFails, Write, RevisionInv
<1>6. CASE Cancel
  BY <1>6 DEF Cancel, RevisionInv
<1>7. CASE UNCHANGED vars
  BY <1>7 DEF vars, RevisionInv
<1> QED  BY <1>1, <1>2, <1>3, <1>4, <1>5, <1>6, <1>7 DEF Next

(* The invariant holds.                                                    *)
LEMMA StreamRevision == Spec => []RevisionInv
BY InitRevision, NextRevision, PTL DEF Spec

(* Every variable keeps its type: results are numbered as they came, and   *)
(* no handler counts more outputs than there were results.                 *)
THEOREM StreamTypeCorrect == Spec => []TypeOK
<1>1. RevisionInv => TypeOK
  <2> SUFFICES ASSUME RevisionInv PROVE TypeOK
    OBVIOUS
  <2>1. Len(sent) \in Nat /\ DOMAIN sent = 1 .. Len(sent)
    BY LenProperties DEF RevisionInv
  <2>2. ASSUME NEW i \in DOMAIN sent
        PROVE  /\ sent[i].usage \in {0, i}
               /\ \A j \in DOMAIN sent[i].parts :
                    sent[i].parts[j].kind \in PartKinds /\ sent[i].parts[j].from = i
    <3>1. IsResult(sent[i], i)
      BY <2>1, <2>2 DEF RevisionInv
    <3>2. sent[i].parts \in Seq([kind : PartKinds, from : Nat])
      BY <3>1 DEF IsResult, ResultSet, Part
    <3>3. \A j \in DOMAIN sent[i].parts : sent[i].parts[j] \in [kind : PartKinds, from : Nat]
      BY <3>2, LenProperties, ElementOfSeq
    <3> QED  BY <3>1, <3>3 DEF IsResult
  <2>3. /\ handler.revision.metadataAt <= handler.revision.outputRevision
        /\ handler.revision.outputRevision <= Len(sent)
    BY DEF RevisionInv, Bounded
  <2> QED  BY <2>2, <2>3 DEF TypeOK, RevisionInv
<1> QED  BY <1>1, StreamRevision, PTL

(***************************************************************************)
(* The measured usage.                                                     *)
(***************************************************************************)

(* A revision that measures the results gives the right usage.             *)
LEMMA MeasuredIsRight ==
  ASSUME RevisionInv, Measures(handler.revision, sent)
  PROVE  CurrentMetadata(handler.revision) = RightUsage
<1> DEFINE u == handler.revision
           measured == {n \in DOMAIN sent : sent[n].usage # 0}
           last == IF measured = {} THEN 0 ELSE Max(measured)
<1>1. Len(sent) \in Nat /\ DOMAIN sent = 1 .. Len(sent)
  BY LenProperties DEF RevisionInv
<1>2. last = u.metadata
  <2>1. CASE u.metadata = 0
    <3>1. measured = {}
      BY <1>1, <2>1 DEF Measures
    <3> QED  BY <2>1, <3>1
  <2>2. CASE u.metadata # 0
    <3>1. u.metadata \in measured /\ measured \subseteq Nat
      BY <1>1, <2>2 DEF Measures
    <3>2. \A n \in measured : n <= u.metadata
      BY <1>1 DEF Measures
    <3> HIDE DEF measured
    <3>3. Max(measured) = u.metadata
      BY <3>1, <3>2, MaxIsGreatest
    <3> QED  BY <3>1, <3>3
  <2> QED  BY <2>1, <2>2
<1>3. RightUsage =
        [from  |-> last,
         whole |-> last # 0 /\ \A n \in DOMAIN sent : n > last => ~Generates(sent[n])]
  BY DEF RightUsage
<1> HIDE DEF last
<1>4. (u.metadata # 0 /\ u.metadataAt = u.outputRevision)
        <=> (last # 0 /\ \A n \in DOMAIN sent : n > last => ~Generates(sent[n]))
  BY <1>1, <1>2 DEF Measures
<1> QED  BY <1>2, <1>3, <1>4, Zenon DEF CurrentMetadata

(* Whatever the protocol, and whatever its handler holds back or hides, the*)
(* usage it would report at any time before its end is the last the        *)
(* upstream measured, whole exactly if nothing was generated since.        *)
THEOREM RevisionIsExact ==
  Spec => [](pc # "done" => CurrentMetadata(handler.revision) = RightUsage)
<1>1. RevisionInv => (pc # "done" => CurrentMetadata(handler.revision) = RightUsage)
  BY MeasuredIsRight DEF RevisionInv
<1> QED  BY <1>1, StreamRevision, PTL

(***************************************************************************)
(* Parts of some kinds.                                                    *)
(***************************************************************************)
PartOf(kinds) == {x \in Part : x.kind \in kinds}

(* No part.                                                                *)
LEMMA KindsEmpty == ASSUME NEW K PROVE OfKind(<< >>, K) = << >> /\ ~Has(<< >>, K)
BY ItemsAtEmpty DEF OfKind, Has

(* One part more.                                                          *)
LEMMA KindsAppend ==
  ASSUME NEW p \in Seq(Part), NEW x \in Part, NEW K
  PROVE  /\ OfKind(Append(p, x), K) = IF x.kind \in K THEN Append(OfKind(p, K), x)
                                                      ELSE OfKind(p, K)
         /\ Has(Append(p, x), K) <=> Has(p, K) \/ x.kind \in K
<1> DEFINE q == Append(p, x)
           I == {i \in DOMAIN p : p[i].kind \in K}
           J == {i \in DOMAIN q : q[i].kind \in K}
<1>1. /\ q \in Seq(Part) /\ Len(p) \in Nat /\ Len(q) = Len(p) + 1
      /\ DOMAIN q = 1 .. Len(p) + 1 /\ DOMAIN p = 1 .. Len(p)
      /\ q[Len(p) + 1] = x /\ \A i \in 1 .. Len(p) : q[i] = p[i]
  BY AppendProperties, LenProperties
<1> HIDE DEF q
<1>2. ItemsAt(p, I) = ItemsAt(p, J)
  <2>1. \A n \in 1 .. Len(p) : n \in I <=> n \in J
    BY <1>1
  <2> HIDE DEF I, J
  <2> QED  BY <2>1, ItemsAtSame
<1>3. Len(p) + 1 \in J <=> x.kind \in K
  BY <1>1
<1>4. Has(q, K) <=> Has(p, K) \/ x.kind \in K
  BY <1>1 DEF Has
<1>5. OfKind(p, K) = ItemsAt(p, I) /\ OfKind(q, K) = ItemsAt(q, J)
  BY DEF OfKind
<1> HIDE DEF I, J
<1>6. ItemsAt(Append(p, x), J) =
        IF Len(p) + 1 \in J THEN Append(ItemsAt(p, J), x) ELSE ItemsAt(p, J)
  BY ItemsAtAppend
<1>7. OfKind(q, K) = IF x.kind \in K THEN Append(OfKind(p, K), x) ELSE OfKind(p, K)
  BY <1>2, <1>3, <1>5, <1>6 DEF q
<1> QED  BY <1>4, <1>7 DEF q

(* The parts of some kinds are parts of these kinds.                       *)
LEMMA KindsType ==
  ASSUME NEW p \in Seq(Part), NEW K
  PROVE  OfKind(p, K) \in Seq(PartOf(K)) /\ OfKind(p, K) \in Seq(Part)
<1> DEFINE Good == {s \in Seq(Part) : OfKind(s, K) \in Seq(PartOf(K))}
<1>1. << >> \in Good
  BY KindsEmpty, EmptySeq
<1>2. ASSUME NEW s \in Seq(Part), s \in Good, NEW x \in Part PROVE Append(s, x) \in Good
  <2>1. Append(s, x) \in Seq(Part)
    BY AppendProperties
  <2>2. x.kind \in K => x \in PartOf(K)
    BY DEF PartOf
  <2>3. OfKind(Append(s, x), K) \in Seq(PartOf(K))
    BY <1>2, <2>2, KindsAppend, AppendProperties
  <2> QED  BY <2>1, <2>3
<1>3. Seq(Part) \subseteq Good
  <2> HIDE DEF Good
  <2> QED  BY <1>1, <1>2, InductionOnSeq
<1>4. PartOf(K) \subseteq Part
  BY DEF PartOf
<1>5. OfKind(p, K) \in Seq(PartOf(K))
  BY <1>3
<1> QED  BY <1>4, <1>5, SeqMonotonic

(* There is one exactly if there is any.                                   *)
LEMMA KindsHas ==
  ASSUME NEW p \in Seq(Part), NEW K PROVE Has(p, K) <=> OfKind(p, K) # << >>
<1> DEFINE Good == {s \in Seq(Part) : Has(s, K) <=> OfKind(s, K) # << >>}
<1>1. << >> \in Good
  BY KindsEmpty
<1>2. ASSUME NEW s \in Seq(Part), s \in Good, NEW x \in Part PROVE Append(s, x) \in Good
  <2>1. Append(s, x) \in Seq(Part) /\ OfKind(s, K) \in Seq(Part)
    BY KindsType, AppendProperties
  <2>2. Append(OfKind(s, K), x) # << >>
    BY <2>1, AppendProperties, EmptySeq
  <2>3. Has(Append(s, x), K) <=> OfKind(Append(s, x), K) # << >>
    BY <1>2, <2>2, KindsAppend
  <2> QED  BY <2>1, <2>3
<1>3. Seq(Part) \subseteq Good
  <2> HIDE DEF Good
  <2> QED  BY <1>1, <1>2, InductionOnSeq
<1> QED  BY <1>3

(* One sequence of parts after the other.                                  *)
LEMMA KindsConcat ==
  ASSUME NEW p \in Seq(Part), NEW q \in Seq(Part), NEW K
  PROVE  /\ OfKind(p \o q, K) = OfKind(p, K) \o OfKind(q, K)
         /\ Has(p \o q, K) <=> Has(p, K) \/ Has(q, K)
<1> DEFINE I == {i \in DOMAIN p : p[i].kind \in K}
           J == {i \in DOMAIN q : q[i].kind \in K}
           B == {i \in DOMAIN (p \o q) : (p \o q)[i].kind \in K}
<1>1. /\ p \o q \in Seq(Part) /\ Len(p) \in Nat /\ Len(q) \in Nat
      /\ DOMAIN (p \o q) = 1 .. Len(p) + Len(q)
      /\ DOMAIN p = 1 .. Len(p) /\ DOMAIN q = 1 .. Len(q)
      /\ \A i \in 1 .. Len(p) : (p \o q)[i] = p[i]
      /\ \A i \in 1 .. Len(q) : (p \o q)[Len(p) + i] = q[i]
  BY ConcatProperties, LenProperties
<1>2. ItemsAt(p, I) = ItemsAt(p, B)
  <2>1. \A n \in 1 .. Len(p) : n \in I <=> n \in B
    BY <1>1
  <2> HIDE DEF I, B
  <2> QED  BY <2>1, ItemsAtSame
<1>3. ItemsAt(p \o q, B) = ItemsAt(p, B) \o ItemsAt(q, J)
  <2>1. \A n \in 1 .. Len(q) : Len(p) + n \in B <=> n \in J
    BY <1>1
  <2> HIDE DEF B, J
  <2> QED  BY <2>1, ItemsAtConcat
<1>4. OfKind(p \o q, K) = OfKind(p, K) \o OfKind(q, K)
  BY <1>2, <1>3 DEF OfKind
<1>5. OfKind(p, K) \in Seq(Part) /\ OfKind(q, K) \in Seq(Part)
  BY KindsType
<1>6. OfKind(p, K) \o OfKind(q, K) # << >> <=> OfKind(p, K) # << >> \/ OfKind(q, K) # << >>
  BY <1>5, ConcatProperties, EmptySeq
<1> QED  BY <1>1, <1>4, <1>6, KindsHas

(* All parts, and none.                                                    *)
LEMMA KindsAll ==
  ASSUME NEW A, NEW p \in Seq(PartOf(A)), NEW K
  PROVE  /\ A \subseteq K => OfKind(p, K) = p
         /\ A \cap K = {} => OfKind(p, K) = << >>
<1> DEFINE Good == {s \in Seq(PartOf(A)) : /\ A \subseteq K => OfKind(s, K) = s
                                           /\ A \cap K = {} => OfKind(s, K) = << >>}
<1>1. << >> \in Good
  BY KindsEmpty
<1>2. ASSUME NEW s \in Seq(PartOf(A)), s \in Good, NEW x \in PartOf(A)
      PROVE  Append(s, x) \in Good
  <2>1. Append(s, x) \in Seq(PartOf(A))
    BY AppendProperties
  <2>2. x \in Part /\ x.kind \in A /\ s \in Seq(Part)
    <3>1. PartOf(A) \subseteq Part
      BY DEF PartOf
    <3> QED  BY <3>1, SeqMonotonic DEF PartOf
  <2> QED  BY <1>2, <2>1, <2>2, KindsAppend
<1>3. Seq(PartOf(A)) \subseteq Good
  <2> HIDE DEF Good
  <2> QED  BY <1>1, <1>2, InductionOnSeq
<1> QED  BY <1>3

(* Parts of some kinds among parts of others.                              *)
LEMMA KindsOfKinds ==
  ASSUME NEW p \in Seq(Part), NEW A, NEW K
  PROVE  /\ A \subseteq K => OfKind(OfKind(p, A), K) = OfKind(p, A)
         /\ A \cap K = {} => OfKind(OfKind(p, A), K) = << >>
BY KindsType, KindsAll

(* The type of a concatenation, and nothing else of it.                    *)
LEMMA ConcatType ==
  ASSUME NEW X, NEW s \in Seq(X), NEW t \in Seq(X) PROVE s \o t \in Seq(X)
BY ConcatProperties

LEMMA ConcatRegroup ==
  ASSUME NEW X, NEW s \in Seq(X), NEW t \in Seq(X), NEW u \in Seq(X)
  PROVE  (s \o t) \o u = s \o (t \o u)
BY ConcatAssociative

(* Beginnings.                                                             *)
LEMMA PrefixFacts ==
  ASSUME NEW X, NEW s \in Seq(X), NEW t \in Seq(X)
  PROVE  IsPrefix(s, s) /\ IsPrefix(<< >>, s) /\ IsPrefix(s, s \o t)
<1>1. IsPrefix(s, s \o t)
  BY PrefixIsConcat, ConcatProperties
<1>2. IsPrefix(s, s)
  <2>1. << >> \in Seq(X) /\ s \o << >> = s
    BY ConcatEmptySeq
  <2> QED  BY <2>1, PrefixIsConcat
<1>3. IsPrefix(<< >>, s)
  <2>1. << >> \in Seq(X) /\ << >> \o s = s
    BY ConcatEmptySeq
  <2> QED  BY <2>1, PrefixIsConcat
<1> QED  BY <1>1, <1>2, <1>3

LEMMA PrefixTransitive ==
  ASSUME NEW X, NEW s \in Seq(X), NEW t \in Seq(X), NEW u \in Seq(X),
         IsPrefix(s, t), IsPrefix(t, u)
  PROVE  IsPrefix(s, u)
<1>1. PICK a \in Seq(X) : t = s \o a
  BY PrefixIsConcat
<1>2. PICK b \in Seq(X) : u = t \o b
  BY PrefixIsConcat
<1>3. u = s \o (a \o b) /\ a \o b \in Seq(X)
  BY <1>1, <1>2, ConcatAssociative, ConcatProperties
<1> QED  BY <1>3, PrefixIsConcat

LEMMA PrefixOfLongerEnd ==
  ASSUME NEW X, NEW a \in Seq(X), NEW b \in Seq(X), NEW c \in Seq(X), NEW x \in Seq(X),
         IsPrefix(b, c), IsPrefix(a \o c, x)
  PROVE  IsPrefix(a \o b, x)
<1>1. PICK d \in Seq(X) : c = b \o d
  BY PrefixIsConcat
<1>2. (a \o b) \o d = a \o c
  BY <1>1, ConcatRegroup
<1>3. a \o b \in Seq(X) /\ a \o c \in Seq(X)
  BY ConcatType
<1>4. IsPrefix(a \o b, a \o c)
  BY <1>1, <1>2, <1>3, PrefixFacts
<1> QED  BY <1>3, <1>4, PrefixTransitive

(* A beginning of parts has a beginning of those of some kinds.            *)
LEMMA KindsPrefix ==
  ASSUME NEW p \in Seq(Part), NEW q \in Seq(Part), NEW K, IsPrefix(p, q)
  PROVE  IsPrefix(OfKind(p, K), OfKind(q, K))
<1>1. PICK u \in Seq(Part) : q = p \o u
  BY PrefixIsConcat
<1>2. OfKind(q, K) = OfKind(p, K) \o OfKind(u, K)
  BY <1>1, KindsConcat
<1>3. OfKind(p, K) \in Seq(Part) /\ OfKind(u, K) \in Seq(Part)
  BY KindsType
<1> QED  BY <1>2, <1>3, PrefixFacts

(***************************************************************************)
(* The content of a sequence of events.                                    *)
(***************************************************************************)
Shows(s) == \E S : s \in Seq(S) /\ \A e \in S : ContentOf(e) \in Seq(Part)

Contents(s) == FlattenSeq([i \in DOMAIN s |-> ContentOf(s[i])])

ShownBy(s, kinds) == OfKind(Contents(s), kinds)

LEMMA ShowsEmpty == Shows(<< >>) /\ Contents(<< >>) = << >>
<1>1. Shows(<< >>)
  <2> DEFINE S == {}
  <2>1. << >> \in Seq(S) /\ \A e \in S : ContentOf(e) \in Seq(Part)
    OBVIOUS
  <2> HIDE DEF S
  <2> QED  BY <2>1 DEF Shows
<1>2. [i \in DOMAIN << >> |-> ContentOf(<< >>[i])] = << >>
  OBVIOUS
<1>3. Contents(<< >>) = << >>
  <2> DEFINE f == [i \in DOMAIN << >> |-> ContentOf(<< >>[i])]
  <2>1. Contents(<< >>) = FlattenSeq(f)
    BY DEF Contents
  <2>2. f = << >>
    BY <1>2
  <2> HIDE DEF f
  <2> QED  BY <2>1, <2>2, FlattenEmpty
<1> QED  BY <1>1, <1>3

(* What the events show, as a sequence of sequences of parts.              *)
LEMMA ShowsParts ==
  ASSUME NEW s, Shows(s)
  PROVE  /\ Len(s) \in Nat /\ DOMAIN s = 1 .. Len(s)
         /\ [i \in DOMAIN s |-> ContentOf(s[i])] \in Seq(Seq(Part))
         /\ Len([i \in DOMAIN s |-> ContentOf(s[i])]) = Len(s)
<1>1. PICK S : s \in Seq(S) /\ \A e \in S : ContentOf(e) \in Seq(Part)
  BY DEF Shows
<1>2. Len(s) \in Nat /\ DOMAIN s = 1 .. Len(s) /\ \A i \in 1 .. Len(s) : s[i] \in S
  BY <1>1, LenProperties, ElementOfSeq
<1>3. \A i \in 1 .. Len(s) : ContentOf(s[i]) \in Seq(Part)
  BY <1>1, <1>2
<1> DEFINE f == [i \in 1 .. Len(s) |-> ContentOf(s[i])]
<1>4. f \in Seq(Seq(Part)) /\ DOMAIN f = 1 .. Len(s)
  BY <1>2, <1>3, IsASeq
<1>5. Len(f) = Len(s)
  <2> HIDE DEF f
  <2> QED  BY <1>2, <1>4, LenProperties
<1> QED  BY <1>2, <1>4, <1>5

LEMMA ContentsType ==
  ASSUME NEW s, Shows(s) PROVE Contents(s) \in Seq(Part)
<1> DEFINE f == [i \in DOMAIN s |-> ContentOf(s[i])]
<1>1. f \in Seq(Seq(Part))
  BY ShowsParts
<1>2. Contents(s) = FlattenSeq(f)
  BY DEF Contents
<1> HIDE DEF f
<1> QED  BY <1>1, <1>2, FlattenType

(* One event.                                                              *)
LEMMA ShowsOne ==
  ASSUME NEW e, ContentOf(e) \in Seq(Part)
  PROVE  Shows(<< e >>) /\ Contents(<< e >>) = ContentOf(e)
<1>1. Shows(<< e >>)
  <2> DEFINE S == {e}
  <2>1. << e >> \in Seq(S) /\ \A d \in S : ContentOf(d) \in Seq(Part)
    OBVIOUS
  <2> HIDE DEF S
  <2> QED  BY <2>1 DEF Shows
<1> DEFINE f == [i \in DOMAIN << e >> |-> ContentOf(<< e >>[i])]
           x == ContentOf(e)
<1>2. f = << x >>
  <2>1. f \in Seq(Seq(Part)) /\ Len(f) = Len(<< e >>)
    BY <1>1, ShowsParts
  <2>2. Len(<< e >>) = 1 /\ f[1] = x
    OBVIOUS
  <2>3. << x >> \in Seq(Seq(Part)) /\ Len(<< x >>) = 1 /\ << x >>[1] = x
    OBVIOUS
  <2> HIDE DEF f, x
  <2>4. \A i \in 1 .. Len(f) : f[i] = << x >>[i]
    BY <2>1, <2>2, <2>3
  <2> QED  BY <2>1, <2>2, <2>3, <2>4, SeqEqual
<1>3. Contents(<< e >>) = FlattenSeq(f)
  BY DEF Contents
<1> HIDE DEF f, x
<1>4. FlattenSeq(<< x >>) = x
  BY FlattenOne DEF x
<1> QED  BY <1>1, <1>2, <1>3, <1>4 DEF x

(* One sequence of events after the other.                                 *)
LEMMA ShowsConcat ==
  ASSUME NEW s, NEW t, Shows(s), Shows(t)
  PROVE  Shows(s \o t) /\ Contents(s \o t) = Contents(s) \o Contents(t)
<1>1. PICK S : s \in Seq(S) /\ \A e \in S : ContentOf(e) \in Seq(Part)
  BY DEF Shows
<1>2. PICK T : t \in Seq(T) /\ \A e \in T : ContentOf(e) \in Seq(Part)
  BY DEF Shows
<1>3. s \in Seq(S \cup T) /\ t \in Seq(S \cup T) /\ s \o t \in Seq(S \cup T)
  <2>1. s \in Seq(S \cup T) /\ t \in Seq(S \cup T)
    BY <1>1, <1>2, SeqMonotonic
  <2> QED  BY <2>1, ConcatProperties
<1>4. \A e \in S \cup T : ContentOf(e) \in Seq(Part)
  BY <1>1, <1>2
<1>5. Shows(s \o t)
  BY <1>3, <1>4 DEF Shows
<1> DEFINE f == [i \in DOMAIN s |-> ContentOf(s[i])]
           g == [i \in DOMAIN t |-> ContentOf(t[i])]
           h == [i \in DOMAIN (s \o t) |-> ContentOf((s \o t)[i])]
<1>6. /\ f \in Seq(Seq(Part)) /\ g \in Seq(Seq(Part)) /\ h \in Seq(Seq(Part))
      /\ Len(f) = Len(s) /\ Len(g) = Len(t) /\ Len(h) = Len(s \o t)
      /\ Len(s) \in Nat /\ Len(t) \in Nat /\ DOMAIN s = 1 .. Len(s) /\ DOMAIN t = 1 .. Len(t)
      /\ DOMAIN (s \o t) = 1 .. Len(s \o t)
  BY <1>5, ShowsParts
<1>7. /\ Len(s \o t) = Len(s) + Len(t)
      /\ \A i \in 1 .. Len(s) + Len(t) :
           (s \o t)[i] = IF i <= Len(s) THEN s[i] ELSE t[i - Len(s)]
  BY <1>3, ConcatProperties
<1>8. h = f \o g
  <2>1. \A i \in 1 .. Len(s) + Len(t) :
          h[i] = IF i <= Len(s) THEN f[i] ELSE g[i - Len(s)]
    BY <1>6, <1>7
  <2> HIDE DEF f, g, h
  <2>2. /\ f \o g \in Seq(Seq(Part)) /\ Len(f \o g) = Len(s) + Len(t)
        /\ \A i \in 1 .. Len(s) + Len(t) :
             (f \o g)[i] = IF i <= Len(s) THEN f[i] ELSE g[i - Len(s)]
    <3>1. PICK X : X = Seq(Part)
      OBVIOUS
    <3>2. f \in Seq(X) /\ g \in Seq(X)
      BY <1>6, <3>1
    <3>3. /\ f \o g \in Seq(X) /\ Len(f \o g) = Len(f) + Len(g)
          /\ \A i \in 1 .. Len(f) + Len(g) :
               (f \o g)[i] = IF i <= Len(f) THEN f[i] ELSE g[i - Len(f)]
      BY <3>2, ConcatProperties
    <3> QED  BY <1>6, <3>1, <3>3
  <2>3. \A i \in 1 .. Len(h) : h[i] = (f \o g)[i]
    BY <1>6, <1>7, <2>1, <2>2
  <2> QED  BY <1>6, <1>7, <2>2, <2>3, SeqEqual
<1>9. Contents(s \o t) = FlattenSeq(h) /\ Contents(s) = FlattenSeq(f) /\ Contents(t) = FlattenSeq(g)
  BY DEF Contents
<1> HIDE DEF f, g, h
<1>10. FlattenSeq(f \o g) = FlattenSeq(f) \o FlattenSeq(g)
  BY <1>6, FlattenConcat
<1> QED  BY <1>5, <1>8, <1>9, <1>10

(* What is written before a write fails.                                   *)
LEMMA ShowsPrefix ==
  ASSUME NEW s, Shows(s), NEW k \in 0 .. Len(s)
  PROVE  /\ Shows(SubSeq(s, 1, k))
         /\ IsPrefix(Contents(SubSeq(s, 1, k)), Contents(s))
<1> DEFINE a == SubSeq(s, 1, k)
           b == SubSeq(s, k + 1, Len(s))
<1>1. PICK S : s \in Seq(S) /\ \A e \in S : ContentOf(e) \in Seq(Part)
  BY DEF Shows
<1>2. Len(s) \in Nat /\ \A i \in 1 .. Len(s) : s[i] \in S
  BY <1>1, LenProperties, ElementOfSeq
<1>3. a \in Seq(S) /\ b \in Seq(S)
  <2>1. \A i \in 1 .. k : s[i] \in S
    BY <1>2
  <2>2. \A i \in k + 1 .. Len(s) : s[i] \in S
    BY <1>2
  <2>3. 1 - 1 <= k /\ k <= Len(s)
    BY <1>2
  <2> QED  BY <1>2, <2>1, <2>2, <2>3, SubSeqProperties
<1>4. s = a \o b
  <2>1. SubSeq(s, 1, Len(s)) = s
    BY <1>1, SubSeqFull
  <2>2. 1 \in 1 .. Len(s) + 1 /\ k \in 1 - 1 .. Len(s) /\ Len(s) \in k .. Len(s)
    BY <1>2
  <2> QED  BY <1>1, <2>1, <2>2, ConcatAdjacentSubSeq
<1> HIDE DEF a, b
<1>5. Shows(a) /\ Shows(b)
  BY <1>1, <1>3 DEF Shows
<1>6. Contents(s) = Contents(a) \o Contents(b)
  BY <1>4, <1>5, ShowsConcat
<1>7. Contents(a) \in Seq(Part) /\ Contents(b) \in Seq(Part)
  BY <1>5, ContentsType
<1> QED  BY <1>5, <1>6, <1>7, PrefixFacts DEF a

(* By kinds of parts.                                                      *)
LEMMA ShownConcat ==
  ASSUME NEW s, NEW t, Shows(s), Shows(t), NEW K
  PROVE  /\ ShownBy(s \o t, K) = ShownBy(s, K) \o ShownBy(t, K)
         /\ ShownBy(s, K) \in Seq(Part) /\ ShownBy(t, K) \in Seq(Part)
<1>1. Contents(s \o t) = Contents(s) \o Contents(t)
  BY ShowsConcat
<1>2. Contents(s) \in Seq(Part) /\ Contents(t) \in Seq(Part)
  BY ContentsType
<1>3. PICK p, q : p = Contents(s) /\ q = Contents(t)
  OBVIOUS
<1>4. p \in Seq(Part) /\ q \in Seq(Part)
  BY <1>2, <1>3
<1>5. /\ OfKind(p \o q, K) = OfKind(p, K) \o OfKind(q, K)
      /\ OfKind(p, K) \in Seq(Part) /\ OfKind(q, K) \in Seq(Part)
  BY <1>4, KindsConcat, KindsType
<1> QED  BY <1>1, <1>3, <1>5 DEF ShownBy

(* What a sequence of events shows is begun by what its beginnings show.   *)
LEMMA BeginningShows ==
  ASSUME NEW w, Shows(w), NEW events, Shows(events), NEW k \in 0 .. Len(events), NEW K,
         NEW x \in Seq(Part), IsPrefix(ShownBy(w, K) \o ShownBy(events, K), x)
  PROVE  /\ Shows(w \o SubSeq(events, 1, k))
         /\ IsPrefix(ShownBy(w \o SubSeq(events, 1, k), K), x)
<1> DEFINE begin == SubSeq(events, 1, k)
<1>1. Shows(begin) /\ IsPrefix(Contents(begin), Contents(events))
  BY ShowsPrefix
<1> HIDE DEF begin
<1>2. Shows(w \o begin)
  BY <1>1, ShowsConcat
<1>3. ShownBy(w \o begin, K) = ShownBy(w, K) \o ShownBy(begin, K)
  BY <1>1, ShownConcat
<1>4. IsPrefix(ShownBy(begin, K), ShownBy(events, K))
  BY <1>1, ContentsType, KindsPrefix DEF ShownBy
<1>5. PICK a, b, c : a = ShownBy(w, K) /\ b = ShownBy(begin, K) /\ c = ShownBy(events, K)
  OBVIOUS
<1>6. a \in Seq(Part) /\ b \in Seq(Part) /\ c \in Seq(Part)
  BY <1>1, <1>5, ShownConcat
<1>7. IsPrefix(b, c) /\ IsPrefix(a \o c, x)
  BY <1>4, <1>5
<1>8. IsPrefix(a \o b, x)
  BY <1>6, <1>7, PrefixOfLongerEnd
<1> QED  BY <1>2, <1>3, <1>5, <1>8 DEF begin

LEMMA WholeShows ==
  ASSUME NEW w, Shows(w), NEW events, Shows(events), NEW K,
         NEW x, IsPrefix(ShownBy(w, K) \o ShownBy(events, K), x)
  PROVE  Shows(w \o events) /\ IsPrefix(ShownBy(w \o events, K), x)
<1>1. ShownBy(w \o events, K) = ShownBy(w, K) \o ShownBy(events, K)
  BY ShownConcat
<1> QED  BY <1>1, ShowsConcat

(* A write that may fail shows a beginning of what all of it would show.   *)
LEMMA WriteShows ==
  ASSUME Shows(wire), NEW events, Shows(events), NEW next, Write(events, next)
  PROVE  /\ Shows(wire')
         /\ \A K : \A x \in Seq(Part) :
              IsPrefix(ShownBy(wire, K) \o ShownBy(events, K), x)
                => IsPrefix(ShownBy(wire', K), x)
<1>1. PICK w : w = wire
  OBVIOUS
<1>2. PICK v : v = wire'
  OBVIOUS
<1>3. Shows(w)
  BY <1>1
<1>4. CASE wire' = wire \o events
  <2>1. v = w \o events
    BY <1>1, <1>2, <1>4
  <2>2. Shows(v)
    BY <1>3, <2>1, ShowsConcat
  <2>3. ASSUME NEW K, NEW x \in Seq(Part), IsPrefix(ShownBy(w, K) \o ShownBy(events, K), x)
        PROVE  IsPrefix(ShownBy(v, K), x)
    BY <1>3, <2>1, <2>3, WholeShows
  <2> QED  BY <1>1, <1>2, <2>2, <2>3
<1>5. CASE \E k \in 0 .. Len(events) - 1 : wire' = wire \o SubSeq(events, 1, k)
  <2>1. PICK k \in 0 .. Len(events) - 1 : v = w \o SubSeq(events, 1, k)
    BY <1>1, <1>2, <1>5
  <2>2. k \in 0 .. Len(events) /\ Shows(SubSeq(events, 1, k))
    BY ShowsParts, ShowsPrefix
  <2>3. Shows(v)
    BY <1>3, <2>1, <2>2, ShowsConcat
  <2>4. ASSUME NEW K, NEW x \in Seq(Part), IsPrefix(ShownBy(w, K) \o ShownBy(events, K), x)
        PROVE  IsPrefix(ShownBy(v, K), x)
    BY <1>3, <2>1, <2>2, <2>4, BeginningShows
  <2> QED  BY <1>1, <1>2, <2>3, <2>4
<1> QED  BY <1>4, <1>5 DEF Write

(***************************************************************************)
(* What of the content that was sent is not shown yet: a Gemini handler    *)
(* holds a chunk back, a Responses handler the calls.                      *)
(***************************************************************************)
OrderedBy(p) == IF p.name = "gemini" THEN {Kept(p.option)} ELSE {{"text"}, {"thought"}, Calls}

GivenBy(p, r) == IF p.name = "gemini" /\ r.feedback THEN << >> ELSE r.parts
Given(p, results) == FlattenSeq([i \in DOMAIN results |-> GivenBy(p, results[i])])

HeldBy(p, s, K) ==
  IF p.name = "gemini" THEN s.pending.payload.parts
  ELSE IF p.name = "responses" /\ K = Calls THEN OfKind(s.aggregate.parts, Calls)
  ELSE << >>

Holding(p, s) ==
  /\ p.name = "gemini" =>
       /\ s.includeThoughts = p.option
       /\ s.pending.payload.parts \in Seq(PartOf(Kept(p.option)))
  /\ p.name # "gemini" => s.aggregate.parts \in Seq(Part)

(* A step of a handler that is given some parts.                           *)
ContentStep(p, s, parts, o) ==
  /\ Shows(o.events)
  /\ Holding(p, o.state)
  /\ \A K \in OrderedBy(p) :
       ShownBy(o.events, K) \o HeldBy(p, o.state, K) = HeldBy(p, s, K) \o OfKind(parts, K)
  /\ p.name # "gemini" => o.state.aggregate.parts = s.aggregate.parts \o parts

(* The parts that were given.                                              *)
LEMMA GivenAppend ==
  ASSUME NEW p, NEW results \in Seq(ResultSet), NEW r \in ResultSet
  PROVE  /\ Given(p, results) \in Seq(Part)
         /\ Given(p, Append(results, r)) = Given(p, results) \o GivenBy(p, r)
         /\ GivenBy(p, r) \in Seq(Part)
<1>1. \A q \in ResultSet : GivenBy(p, q) \in Seq(Part)
  <2>1. ASSUME NEW q \in ResultSet PROVE q.parts \in Seq(Part)
    BY DEF ResultSet
  <2> QED  BY <2>1, EmptySeq DEF GivenBy
<1> DEFINE f == [i \in DOMAIN results |-> GivenBy(p, results[i])]
           all == Append(results, r)
           g == [i \in DOMAIN all |-> GivenBy(p, all[i])]
           x == GivenBy(p, r)
           N == Len(results)
<1>2. /\ N \in Nat /\ DOMAIN results = 1 .. N /\ DOMAIN all = 1 .. N + 1
      /\ \A i \in 1 .. N : results[i] \in ResultSet /\ all[i] = results[i]
      /\ all[N + 1] = r
  <2>1. all \in Seq(ResultSet) /\ Len(all) = N + 1
    BY AppendProperties
  <2>2. N \in Nat /\ DOMAIN results = 1 .. N /\ \A i \in 1 .. N : results[i] \in ResultSet
    BY LenProperties, ElementOfSeq
  <2>3. DOMAIN all = 1 .. N + 1
    BY <2>1, LenProperties
  <2> QED  BY <2>2, <2>3, AppendProperties
<1>3. /\ f = [i \in 1 .. N |-> GivenBy(p, results[i])]
      /\ \A i \in 1 .. N : f[i] \in Seq(Part)
  BY <1>1, <1>2
<1>4. f \in Seq(Seq(Part)) /\ Len(f) = N
  <2>1. \A i \in 1 .. N : GivenBy(p, results[i]) \in Seq(Part)
    BY <1>1, <1>2
  <2>2. [i \in 1 .. N |-> GivenBy(p, results[i])] \in Seq(Seq(Part))
    BY <1>2, <2>1, IsASeq
  <2>3. DOMAIN f = 1 .. N
    BY <1>2
  <2> HIDE DEF f
  <2>4. f \in Seq(Seq(Part))
    BY <1>3, <2>2
  <2> QED  BY <1>2, <2>3, <2>4, LenProperties
<1>5. /\ DOMAIN g = 1 .. N + 1
      /\ \A i \in 1 .. N : g[i] = f[i]
      /\ g[N + 1] = x
  <2> HIDE DEF all
  <2> QED  BY <1>2
<1> HIDE DEF f, x
<1>6. /\ Append(f, x) \in Seq(Seq(Part)) /\ Len(Append(f, x)) = N + 1
      /\ Append(f, x)[N + 1] = x
      /\ \A i \in 1 .. N : Append(f, x)[i] = f[i]
  <2>1. x \in Seq(Part)
    BY <1>1 DEF x
  <2> QED  BY <1>2, <1>4, <2>1, AppendProperties
<1>7. g = Append(f, x)
  <2>1. g = [i \in 1 .. N + 1 |-> g[i]]
    BY <1>5
  <2>2. DOMAIN Append(f, x) = 1 .. N + 1
    BY <1>6, LenProperties
  <2>3. Append(f, x) = [i \in 1 .. N + 1 |-> Append(f, x)[i]]
    BY <1>2, <1>6, <2>2, LenProperties
  <2>4. \A i \in 1 .. N + 1 : g[i] = Append(f, x)[i]
    <3> HIDE DEF g
    <3> QED  BY <1>2, <1>5, <1>6
  <2> HIDE DEF g
  <2> QED  BY <2>1, <2>3, <2>4
<1>8. Given(p, results) = FlattenSeq(f) /\ Given(p, all) = FlattenSeq(g)
  BY DEF Given, f
<1> HIDE DEF g
<1>9. x \in Seq(Part)
  BY <1>1 DEF x
<1> QED  BY <1>4, <1>7, <1>8, <1>9, FlattenType, FlattenAppend DEF x

(* A Chat handler shows what it is given.                                  *)
LEMMA ChatContent ==
  ASSUME NEW p, p.name = "chat", NEW s, Holding(p, s), NEW r, r.parts \in Seq(Part),
         ~IsEmpty(r)
  PROVE  ContentStep(p, s, r.parts, ChatResult(s, r))
<1> DEFINE o == ChatResult(s, r)
           chunk == ChatChunk(r, s.emittedGrounding)
           text == OfKind(r.parts, {"text"})
           thought == OfKind(r.parts, {"thought"})
           calls == OfKind(r.parts, Calls)
<1>1. /\ o.state.aggregate = Accumulate(s.aggregate, r)
      /\ o.events = IF HasContent(r) THEN << chunk >> ELSE << >>
  BY DEF ChatResult
<1>2. text \in Seq(Part) /\ thought \in Seq(Part) /\ calls \in Seq(Part)
  BY KindsType
<1>3. ContentOf(chunk) = (text \o thought) \o calls
  <2> DEFINE shown == [i \in DOMAIN ToolCalls(calls) |-> ToolCalls(calls)[i].call]
  <2>1. ContentOf(chunk) = (text \o thought) \o shown
    BY DEF ContentOf, ChatChunk
  <2>2. shown = calls
    <3> HIDE DEF calls
    <3>1. /\ DOMAIN ToolCalls(calls) = DOMAIN calls
          /\ \A i \in DOMAIN calls : ToolCalls(calls)[i].call = calls[i]
      BY DEF ToolCalls
    <3>2. shown = [i \in DOMAIN calls |-> calls[i]]
      BY <3>1
    <3>3. calls = [i \in 1 .. Len(calls) |-> calls[i]] /\ DOMAIN calls = 1 .. Len(calls)
      BY <1>2, LenProperties
    <3> QED  BY <3>2, <3>3
  <2> QED  BY <2>1, <2>2
<1> HIDE DEF text, thought, calls, chunk, o
<1>4. ContentOf(chunk) \in Seq(Part)
  BY <1>2, <1>3, ConcatType
<1>5. ASSUME NEW K \in {{"text"}, {"thought"}, Calls}
      PROVE  OfKind(ContentOf(chunk), K) = OfKind(r.parts, K)
  <2>1. OfKind(ContentOf(chunk), K) = (OfKind(text, K) \o OfKind(thought, K)) \o OfKind(calls, K)
    <3>1. text \o thought \in Seq(Part)
      BY <1>2, ConcatType
    <3>2. OfKind((text \o thought) \o calls, K) = OfKind(text \o thought, K) \o OfKind(calls, K)
      BY <1>2, <3>1, KindsConcat
    <3>3. OfKind(text \o thought, K) = OfKind(text, K) \o OfKind(thought, K)
      BY <1>2, KindsConcat
    <3> QED  BY <1>3, <3>2, <3>3
  <2>2. CASE K = {"text"}
    <3>1. OfKind(text, K) = text /\ OfKind(thought, K) = << >> /\ OfKind(calls, K) = << >>
      BY <2>2, KindsOfKinds, CallAssumption DEF text, thought, calls
    <3> QED  BY <1>2, <2>1, <2>2, <3>1, ConcatEmptySeq DEF text
  <2>3. CASE K = {"thought"}
    <3>1. OfKind(text, K) = << >> /\ OfKind(thought, K) = thought /\ OfKind(calls, K) = << >>
      BY <2>3, KindsOfKinds, CallAssumption DEF text, thought, calls
    <3> QED  BY <1>2, <2>1, <2>3, <3>1, ConcatEmptySeq DEF thought
  <2>4. CASE K = Calls
    <3>1. OfKind(text, K) = << >> /\ OfKind(thought, K) = << >> /\ OfKind(calls, K) = calls
      BY <2>4, KindsOfKinds, CallAssumption DEF text, thought, calls
    <3>2. << >> \o << >> = << >>
      OBVIOUS
    <3> QED  BY <1>2, <2>1, <2>4, <3>1, <3>2, ConcatEmptySeq DEF calls
  <2> QED  BY <2>2, <2>3, <2>4
<1>6. /\ Shows(o.events)
      /\ \A K \in {{"text"}, {"thought"}, Calls} : ShownBy(o.events, K) = OfKind(r.parts, K)
  <2>1. CASE HasContent(r)
    <3>1. o.events = << chunk >>
      BY <1>1, <2>1
    <3> QED  BY <1>4, <1>5, <3>1, ShowsOne DEF ShownBy
  <2>2. CASE ~HasContent(r)
    <3>1. o.events = << >> /\ r.parts = << >>
      BY <1>1, <2>2 DEF HasContent
    <3> QED  BY <3>1, ShowsEmpty DEF ShownBy
  <2> QED  BY <2>1, <2>2
<1>7. o.state.aggregate.parts = s.aggregate.parts \o r.parts
  <2>1. Accumulate(s.aggregate, r).parts = s.aggregate.parts \o r.parts
    BY DEF Accumulate
  <2> QED  BY <1>1, <2>1
<1>8. Holding(p, o.state)
  BY <1>7, ConcatType DEF Holding
<1>9. \A K : HeldBy(p, s, K) = << >> /\ HeldBy(p, o.state, K) = << >>
  BY DEF HeldBy
<1>10. ASSUME NEW K \in {{"text"}, {"thought"}, Calls}
       PROVE  ShownBy(o.events, K) \o << >> = << >> \o OfKind(r.parts, K)
  BY <1>6, KindsType, ConcatEmptySeq
<1> QED  BY <1>6, <1>7, <1>8, <1>9, <1>10 DEF ContentStep, OrderedBy, o

(***************************************************************************)
(* The Gemini handler.                                                     *)
(***************************************************************************)

(* A step that is given parts of kinds K: they are shown or pending.       *)
GeminiMove(K, s, parts, o) ==
  /\ DOMAIN o.state = GeminiFields
  /\ o.state.includeThoughts = s.includeThoughts
  /\ Shows(o.events)
  /\ o.state.pending.payload.parts \in Seq(PartOf(K))
  /\ ShownBy(o.events, K) \o o.state.pending.payload.parts = s.pending.payload.parts \o parts

LEMMA PartOfIsPart == ASSUME NEW K, NEW q \in Seq(PartOf(K)) PROVE q \in Seq(Part)
<1>1. PartOf(K) \subseteq Part
  BY DEF PartOf
<1> QED  BY <1>1, SeqMonotonic

(* Writing a chunk shows its parts, and leaves what is pending.            *)
LEMMA EmitShows ==
  ASSUME NEW K, NEW s, DOMAIN s = GeminiFields, NEW payload, NEW usage,
         payload.parts \in Seq(PartOf(K))
  PROVE  /\ DOMAIN Emit(s, payload, usage).state = GeminiFields
         /\ Emit(s, payload, usage).state.includeThoughts = s.includeThoughts
         /\ Emit(s, payload, usage).state.pending = s.pending
         /\ Shows(Emit(s, payload, usage).events)
         /\ ShownBy(Emit(s, payload, usage).events, K) = payload.parts
<1> DEFINE id == IF s.responseId = None THEN "generated" ELSE s.responseId
           event == [type |-> "gemini", payload |-> payload, usage |-> usage, id |-> id]
           next == [s EXCEPT !.responseId = id, !.identityCommitted = TRUE]
<1>1. CASE payload = NoPayload
  <2>1. Emit(s, payload, usage) = [state |-> s, events |-> << >>] /\ payload.parts = << >>
    BY <1>1 DEF Emit, NoPayload
  <2> QED  BY <2>1, ShowsEmpty, KindsEmpty DEF ShownBy
<1>2. CASE payload # NoPayload
  <2>1. Emit(s, payload, usage) = [state |-> next, events |-> << event >>]
    BY <1>2 DEF Emit
  <2>2. ContentOf(event) = payload.parts
    BY DEF ContentOf
  <2> HIDE DEF id, event
  <2>3. /\ DOMAIN next = GeminiFields
        /\ next.includeThoughts = s.includeThoughts
        /\ next.pending = s.pending
    BY DEF GeminiFields
  <2> HIDE DEF next
  <2>4. payload.parts \in Seq(Part)
    BY PartOfIsPart
  <2>5. Shows(<< event >>) /\ Contents(<< event >>) = payload.parts
    BY <2>2, <2>4, ShowsOne
  <2>6. OfKind(payload.parts, K) = payload.parts
    BY KindsAll
  <2> QED  BY <2>1, <2>3, <2>5, <2>6 DEF ShownBy
<1> QED  BY <1>1, <1>2

(* Writing the pending chunk leaves nothing pending.                       *)
LEMMA EmitPendingShows ==
  ASSUME NEW K, NEW s, DOMAIN s = GeminiFields, s.pending.payload.parts \in Seq(PartOf(K))
  PROVE  /\ DOMAIN EmitPending(s).state = GeminiFields
         /\ EmitPending(s).state.includeThoughts = s.includeThoughts
         /\ EmitPending(s).state.pending = NoPending
         /\ Shows(EmitPending(s).events)
         /\ ShownBy(EmitPending(s).events, K) = s.pending.payload.parts
         /\ EmitPending(s) = [state |-> EmitPending(s).state, events |-> EmitPending(s).events]
<1> DEFINE emitted == Emit(s, s.pending.payload, s.pending.usage)
           next == [emitted.state EXCEPT !.pending = NoPending]
<1>1. emitted = [state |-> emitted.state, events |-> emitted.events]
  BY DEF Emit
<1>2. EmitPending(s) = [emitted EXCEPT !.state.pending = NoPending]
  BY DEF EmitPending
<1>3. /\ DOMAIN emitted.state = GeminiFields
      /\ emitted.state.includeThoughts = s.includeThoughts
      /\ Shows(emitted.events)
      /\ ShownBy(emitted.events, K) = s.pending.payload.parts
  BY EmitShows
<1> HIDE DEF emitted
<1>4. EmitPending(s) = [state |-> next, events |-> emitted.events]
  BY <1>1, <1>2
<1>5. /\ DOMAIN next = GeminiFields
      /\ next.includeThoughts = s.includeThoughts
      /\ next.pending = NoPending
  BY <1>3 DEF GeminiFields
<1> HIDE DEF next
<1> QED  BY <1>3, <1>4, <1>5

(* Another pending chunk.                                                  *)
LEMMA PendingMove ==
  ASSUME NEW K, NEW s, NEW parts, NEW o, NEW pending,
         o = [state |-> o.state, events |-> o.events],
         DOMAIN o.state = GeminiFields, o.state.includeThoughts = s.includeThoughts,
         Shows(o.events), pending.payload.parts \in Seq(PartOf(K)),
         ShownBy(o.events, K) \o pending.payload.parts = s.pending.payload.parts \o parts
  PROVE  GeminiMove(K, s, parts, [o EXCEPT !.state.pending = pending])
<1> DEFINE next == [o.state EXCEPT !.pending = pending]
<1>1. [o EXCEPT !.state.pending = pending] = [state |-> next, events |-> o.events]
  OBVIOUS
<1>2. /\ DOMAIN next = GeminiFields
      /\ next.includeThoughts = s.includeThoughts
      /\ next.pending = pending
  BY DEF GeminiFields
<1> HIDE DEF next
<1> QED  BY <1>1, <1>2 DEF GeminiMove

(* Content joins the pending chunk or comes after it.                      *)
LEMMA HoldMove ==
  ASSUME NEW K, NEW s, DOMAIN s = GeminiFields, s.pending.payload.parts \in Seq(PartOf(K)),
         NEW payload, payload.parts \in Seq(PartOf(K)), NEW usage
  PROVE  GeminiMove(K, s, payload.parts, Hold(s, payload, usage))
<1> DEFINE splits  == s.pending.substantive /\ Substantive(payload)
           emitted == IF splits THEN EmitPending(s) ELSE [state |-> s, events |-> << >>]
           joined  == IF splits THEN payload ELSE Merge(s.pending.payload, payload)
           next    == Pending(joined, usage)
<1>1. Hold(s, payload, usage) = [emitted EXCEPT !.state.pending = next]
  BY DEF Hold
<1>2. next.payload.parts = joined.parts
  BY DEF Pending
<1>3. CASE splits
  <2>1. emitted = EmitPending(s) /\ joined = payload
    BY <1>3
  <2> HIDE DEF splits, emitted, joined, next
  <2>2. /\ emitted = [state |-> emitted.state, events |-> emitted.events]
        /\ DOMAIN emitted.state = GeminiFields
        /\ emitted.state.includeThoughts = s.includeThoughts
        /\ Shows(emitted.events)
        /\ ShownBy(emitted.events, K) = s.pending.payload.parts
    BY <2>1, EmitPendingShows
  <2>3. /\ next.payload.parts \in Seq(PartOf(K))
        /\ ShownBy(emitted.events, K) \o next.payload.parts = s.pending.payload.parts \o payload.parts
    BY <1>2, <2>1, <2>2
  <2>4. GeminiMove(K, s, payload.parts, [emitted EXCEPT !.state.pending = next])
    BY <2>2, <2>3, PendingMove
  <2> QED  BY <1>1, <2>4
<1>4. CASE ~splits
  <2>1. /\ emitted = [state |-> s, events |-> << >>]
        /\ joined.parts = s.pending.payload.parts \o payload.parts
    BY <1>4 DEF Merge
  <2> HIDE DEF splits, emitted, joined, next
  <2>2. emitted = [state |-> emitted.state, events |-> emitted.events]
    BY <2>1
  <2>3. Shows(emitted.events) /\ ShownBy(emitted.events, K) = << >>
    BY <2>1, ShowsEmpty, KindsEmpty DEF ShownBy
  <2>4. joined.parts \in Seq(PartOf(K)) /\ << >> \o joined.parts = joined.parts
    BY <2>1, ConcatType, ConcatEmptySeq
  <2>5. /\ next.payload.parts \in Seq(PartOf(K))
        /\ ShownBy(emitted.events, K) \o next.payload.parts = s.pending.payload.parts \o payload.parts
    BY <1>2, <2>1, <2>3, <2>4
  <2>6. DOMAIN emitted.state = GeminiFields /\ emitted.state.includeThoughts = s.includeThoughts
    BY <2>1
  <2>7. GeminiMove(K, s, payload.parts, [emitted EXCEPT !.state.pending = next])
    BY <2>2, <2>3, <2>5, <2>6, PendingMove
  <2> QED  BY <1>1, <2>7
<1> QED  BY <1>3, <1>4

(* The finish chunk shows what was pending, or comes after it.             *)
LEMMA FinishMove ==
  ASSUME NEW K, NEW s, DOMAIN s = GeminiFields, s.pending.payload.parts \in Seq(PartOf(K)),
         NEW reason, NEW usage
  PROVE  GeminiMove(K, s, << >>, Finish(s, reason, usage))
<1> DEFINE last    == [NoPayload EXCEPT !.finish = reason]
           flushed == IF s.pending.substantive THEN EmitPending(s)
                      ELSE [state |-> [s EXCEPT !.pending = NoPending], events |-> << >>]
           payload == IF s.pending.substantive THEN last ELSE Merge(last, s.pending.payload)
           ended   == Emit(flushed.state, payload, usage)
           held == s.pending.payload.parts
<1>1. Finish(s, reason, usage) = [state |-> ended.state, events |-> flushed.events \o ended.events]
  BY DEF Finish
<1>2. last.parts = << >>
  BY DEF NoPayload
<1>3. /\ DOMAIN flushed.state = GeminiFields
      /\ flushed.state.includeThoughts = s.includeThoughts
      /\ flushed.state.pending = NoPending
      /\ Shows(flushed.events)
      /\ payload.parts \in Seq(PartOf(K))
      /\ ShownBy(flushed.events, K) \o payload.parts = held
  <2>1. CASE s.pending.substantive
    <3>1. flushed = EmitPending(s) /\ payload = last
      BY <2>1
    <3> HIDE DEF flushed, payload, last
    <3>2. held \o << >> = held
      BY ConcatEmptySeq
    <3> QED  BY <1>2, <3>1, <3>2, EmitPendingShows, EmptySeq
  <2>2. CASE ~s.pending.substantive
    <3> DEFINE next == [s EXCEPT !.pending = NoPending]
    <3>1. flushed = [state |-> next, events |-> << >>] /\ payload = Merge(last, s.pending.payload)
      BY <2>2
    <3>2. DOMAIN next = GeminiFields /\ next.includeThoughts = s.includeThoughts
          /\ next.pending = NoPending
      BY DEF GeminiFields
    <3>3. payload.parts = << >> \o held
      BY <1>2, <3>1 DEF Merge
    <3> HIDE DEF flushed, payload, last, next
    <3>4. << >> \o held = held
      BY ConcatEmptySeq
    <3>5. Shows(flushed.events) /\ ShownBy(flushed.events, K) = << >>
      BY <3>1, ShowsEmpty, KindsEmpty DEF ShownBy
    <3> QED  BY <3>1, <3>2, <3>3, <3>4, <3>5
  <2> QED  BY <2>1, <2>2
<1> HIDE DEF flushed, payload
<1>4. /\ DOMAIN ended.state = GeminiFields
      /\ ended.state.includeThoughts = s.includeThoughts
      /\ ended.state.pending = NoPending
      /\ Shows(ended.events)
      /\ ShownBy(ended.events, K) = payload.parts
  BY <1>3, EmitShows
<1> HIDE DEF ended
<1>5. /\ Shows(flushed.events \o ended.events)
      /\ ShownBy(flushed.events \o ended.events, K) = held
  <2>1. Shows(flushed.events) /\ Shows(ended.events)
    BY <1>3, <1>4
  <2>2. PICK a : a = flushed.events
    OBVIOUS
  <2>3. PICK b : b = ended.events
    OBVIOUS
  <2>4. Shows(a) /\ Shows(b)
    BY <2>1, <2>2, <2>3
  <2>5. ShownBy(a \o b, K) = ShownBy(a, K) \o ShownBy(b, K)
    BY <2>4, ShownConcat
  <2>6. Shows(a \o b)
    BY <2>4, ShowsConcat
  <2>7. ShownBy(a, K) \o ShownBy(b, K) = held
    BY <1>3, <1>4, <2>2, <2>3
  <2> QED  BY <2>2, <2>3, <2>5, <2>6, <2>7
<1>6. NoPending.payload.parts = << >> /\ held \o << >> = held
  BY ConcatEmptySeq DEF NoPending, NoPayload
<1>7. << >> \in Seq(PartOf(K))
  BY EmptySeq
<1> DEFINE o == [state |-> ended.state, events |-> flushed.events \o ended.events]
<1>8. /\ DOMAIN o.state = GeminiFields
      /\ o.state.includeThoughts = s.includeThoughts
      /\ o.state.pending.payload.parts = << >>
      /\ Shows(o.events) /\ ShownBy(o.events, K) = held
  BY <1>3, <1>4, <1>5, <1>6
<1> HIDE DEF o
<1>9. GeminiMove(K, s, << >>, o)
  BY <1>6, <1>7, <1>8 DEF GeminiMove
<1> QED  BY <1>1, <1>9 DEF o

(* A Gemini handler shows or holds back what it is given and asked for.    *)
LEMMA GeminiContent ==
  ASSUME NEW p, p.name = "gemini", NEW s, DOMAIN s = GeminiFields, Holding(p, s),
         NEW r, r.parts \in Seq(Part), r.finish # None => r.parts = << >>
  PROVE  ContentStep(p, s, GivenBy(p, r), GeminiResult(s, r))
<1> DEFINE K        == Kept(p.option)
           absorbed == Absorb(s, r)
           payload  == Payload(r, s.includeThoughts)
           usage    == CurrentMetadata(absorbed.revision)
           parts    == GivenBy(p, r)
           o        == GeminiResult(s, r)
<1>1. /\ s.includeThoughts = p.option
      /\ s.pending.payload.parts \in Seq(PartOf(K))
  BY DEF Holding
<1>2. /\ DOMAIN absorbed = GeminiFields
      /\ absorbed.includeThoughts = s.includeThoughts
      /\ absorbed.pending = s.pending
  BY DEF Absorb, GeminiFields
<1>3. payload.parts = OfKind(parts, K)
  <2>1. CASE r.feedback
    BY <1>1, <2>1, KindsEmpty DEF Payload, GivenBy, NoPayload
  <2>2. CASE ~r.feedback
    BY <1>1, <2>2 DEF Payload, GivenBy
  <2> QED  BY <2>1, <2>2
<1>4. parts \in Seq(Part)
  BY EmptySeq DEF GivenBy
<1>5. OfKind(parts, K) \in Seq(PartOf(K))
  BY <1>4, KindsType
<1> HIDE DEF K, absorbed, parts
<1>6. GeminiMove(K, absorbed, OfKind(parts, K), o)
  <2>1. CASE payload = NoPayload
    <3> DEFINE next == IF absorbed.pending.payload = NoPayload THEN absorbed
                       ELSE [absorbed EXCEPT !.pending.usage = usage]
    <3>1. o = [state |-> next, events |-> << >>]
      BY <2>1 DEF GeminiResult, absorbed
    <3>2. OfKind(parts, K) = << >>
      BY <1>3, <2>1 DEF NoPayload
    <3>3. /\ DOMAIN next = GeminiFields
          /\ next.includeThoughts = absorbed.includeThoughts
          /\ next.pending.payload = s.pending.payload
      <4>1. CASE absorbed.pending.payload = NoPayload
        BY <1>2, <4>1
      <4>2. CASE absorbed.pending.payload # NoPayload
        <5> DEFINE pending == [absorbed.pending EXCEPT !.usage = usage]
        <5>1. next = [absorbed EXCEPT !.pending = pending]
          BY <4>2
        <5>2. pending.payload = absorbed.pending.payload
          OBVIOUS
        <5> HIDE DEF pending, next
        <5> QED  BY <1>2, <5>1, <5>2 DEF GeminiFields
      <4> QED  BY <4>1, <4>2
    <3> HIDE DEF next
    <3>4. Shows(<< >>) /\ ShownBy(<< >>, K) = << >>
      BY ShowsEmpty, KindsEmpty DEF ShownBy
    <3>5. << >> \o s.pending.payload.parts = s.pending.payload.parts \o << >>
      BY <1>1, ConcatEmptySeq
    <3> HIDE DEF o
    <3>6. /\ Shows(o.events) /\ ShownBy(o.events, K) = << >>
          /\ o.state = next
      BY <3>1, <3>4
    <3>7. absorbed.pending.payload.parts = s.pending.payload.parts
      BY <1>2
    <3>8. o.state.pending.payload.parts = s.pending.payload.parts
      BY <3>3, <3>6
    <3>9. o.state.pending.payload.parts \in Seq(PartOf(K))
      BY <1>1, <3>8 DEF K
    <3>10. ShownBy(o.events, K) \o o.state.pending.payload.parts
             = absorbed.pending.payload.parts \o OfKind(parts, K)
      BY <3>2, <3>5, <3>6, <3>7, <3>8
    <3> QED  BY <3>3, <3>6, <3>9, <3>10 DEF GeminiMove
  <2>2. CASE payload # NoPayload /\ payload.finish # None
    <3>1. o = Finish(absorbed, payload.finish, usage)
      BY <2>2 DEF GeminiResult, absorbed
    <3>2. r.finish # None
      BY <2>2 DEF Payload, NoPayload
    <3>3. OfKind(parts, K) = << >>
      BY <3>2, KindsEmpty DEF parts, GivenBy
    <3> HIDE DEF o
    <3>4. GeminiMove(K, absorbed, << >>, o)
      BY <1>1, <1>2, <3>1, FinishMove DEF K
    <3> QED  BY <3>3, <3>4
  <2>3. CASE payload # NoPayload /\ payload.finish = None
    <3>1. o = Hold(absorbed, payload, usage)
      BY <2>3 DEF GeminiResult, absorbed
    <3> HIDE DEF o
    <3>2. absorbed.pending.payload.parts \in Seq(PartOf(K)) /\ payload.parts \in Seq(PartOf(K))
      BY <1>1, <1>2, <1>3, <1>5
    <3> HIDE DEF payload, usage
    <3>3. GeminiMove(K, absorbed, payload.parts, o)
      BY <1>2, <3>1, <3>2, HoldMove
    <3> QED  BY <1>3, <3>3
  <2> QED  BY <2>1, <2>2, <2>3
<1>7. \A q \in {K} : HeldBy(p, s, q) = s.pending.payload.parts
                    /\ HeldBy(p, o.state, q) = o.state.pending.payload.parts
  BY DEF HeldBy
<1>8. Holding(p, o.state)
  BY <1>1, <1>2, <1>6 DEF Holding, GeminiMove, K
<1>9. OrderedBy(p) = {K}
  BY DEF OrderedBy, K
<1> HIDE DEF o
<1>10. ContentStep(p, s, parts, o)
  BY <1>2, <1>6, <1>7, <1>8, <1>9 DEF ContentStep, GeminiMove
<1> QED  BY <1>10 DEF o, parts

(***************************************************************************)
(* The Responses handler.                                                  *)
(***************************************************************************)

(* Events that show nothing.                                               *)
LEMMA ShowsNothing ==
  ASSUME NEW S, NEW s \in Seq(S), \A e \in S : ContentOf(e) = << >>
  PROVE  Shows(s) /\ Contents(s) = << >>
<1> DEFINE Good == {t \in Seq(S) : Shows(t) /\ Contents(t) = << >>}
<1>1. << >> \in Good
  BY ShowsEmpty
<1>2. ASSUME NEW t \in Seq(S), t \in Good, NEW e \in S PROVE Append(t, e) \in Good
  <2>1. Append(t, e) \in Seq(S) /\ Append(t, e) = t \o << e >>
    BY AppendProperties, AppendIsConcat
  <2>2. ContentOf(e) = << >> /\ << >> \in Seq(Part)
    BY EmptySeq
  <2>3. Shows(<< e >>) /\ Contents(<< e >>) = << >>
    BY <2>2, ShowsOne
  <2>4. PICK u : u = << e >>
    OBVIOUS
  <2>5. Shows(t \o u) /\ Contents(t \o u) = << >> \o << >>
    BY <1>2, <2>3, <2>4, ShowsConcat
  <2>6. << >> \o << >> = << >>
    OBVIOUS
  <2> QED  BY <2>1, <2>4, <2>5, <2>6
<1>3. Seq(S) \subseteq Good
  <2> HIDE DEF Good
  <2> QED  BY <1>1, <1>2, InductionOnSeq
<1> QED  BY <1>3

(* A step that shows x and leaves the aggregate alone.                     *)
ShowingStep(s, o, x) ==
  /\ DOMAIN o.state = ResponsesFields /\ o.state.aggregate = s.aggregate
  /\ Shows(o.events) /\ Contents(o.events) = x

(* The end of an item repeats its text, which is not shown again.          *)
LEMMA ClosedShows == ASSUME NEW i, NEW item PROVE Shows(Closed(i, item)) /\ Contents(Closed(i, item)) = << >>
<1> DEFINE S == {TextDone(i, item.parts), PartDone(i, item.parts), Done(i, item)}
<1>1. \A e \in S : ContentOf(e) = << >>
  BY DEF TextDone, PartDone, Done, ContentOf
<1>2. Closed(i, item) \in Seq(S)
  <2>1. PICK a, b, c : a = TextDone(i, item.parts) /\ b = PartDone(i, item.parts) /\ c = Done(i, item)
    OBVIOUS
  <2>2. Closed(i, item) = << a, b, c >> /\ S = {a, b, c}
    BY <2>1 DEF Closed
  <2> HIDE DEF S
  <2> QED  BY <2>2
<1> HIDE DEF S
<1> QED  BY <1>1, <1>2, ShowsNothing

LEMMA FinishCommentaryShows ==
  ASSUME NEW s, DOMAIN s = ResponsesFields PROVE ShowingStep(s, FinishCommentary(s), << >>)
<1> DEFINE item == Item("commentary", s.commentaryText)
           next == [s EXCEPT !.output[s.commentary + 1] = item,
                             !.commentary = NoItem, !.commentaryText = << >>]
<1>1. CASE s.commentary = NoItem
  <2>1. FinishCommentary(s) = [state |-> s, events |-> << >>]
    BY <1>1 DEF FinishCommentary
  <2> QED  BY <2>1, ShowsEmpty DEF ShowingStep
<1>2. CASE s.commentary # NoItem
  <2>1. FinishCommentary(s) = [state |-> next, events |-> Closed(s.commentary, item)]
    BY <1>2 DEF FinishCommentary
  <2> HIDE DEF item
  <2>2. DOMAIN next = ResponsesFields /\ next.aggregate = s.aggregate
    BY DEF ResponsesFields
  <2> HIDE DEF next
  <2>3. Shows(Closed(s.commentary, item)) /\ Contents(Closed(s.commentary, item)) = << >>
    BY ClosedShows
  <2> QED  BY <2>1, <2>2, <2>3 DEF ShowingStep
<1> QED  BY <1>1, <1>2

(* The events of a text, which opens an item if there is none.             *)
LEMMA TextShows ==
  ASSUME NEW opens, NEW i, NEW type, NEW text \in Seq(Part)
  PROVE  LET events == (IF opens THEN Opened(i, type) ELSE << >>) \o << TextDelta(i, text) >>
         IN  Shows(events) /\ Contents(events) = text
<1> DEFINE first == IF opens THEN Opened(i, type) ELSE << >>
           delta == TextDelta(i, text)
<1>1. Shows(first) /\ Contents(first) = << >>
  <2>1. CASE opens
    <3> DEFINE S == {Added(i, Item(type, << >>)), PartAdded(i)}
    <3>1. \A e \in S : ContentOf(e) = << >>
      BY DEF Added, PartAdded, Item, ContentOf
    <3>2. first \in Seq(S)
      <4>1. PICK a, b : a = Added(i, Item(type, << >>)) /\ b = PartAdded(i)
        OBVIOUS
      <4>2. first = << a, b >> /\ S = {a, b}
        BY <2>1, <4>1 DEF Opened
      <4> HIDE DEF S, first
      <4> QED  BY <4>2
    <3> HIDE DEF S, first
    <3> QED  BY <3>1, <3>2, ShowsNothing
  <2>2. CASE ~opens
    BY <2>2, ShowsEmpty
  <2> QED  BY <2>1, <2>2
<1>2. ContentOf(delta) = text
  BY DEF TextDelta, ContentOf
<1> HIDE DEF first, delta
<1>3. Shows(<< delta >>) /\ Contents(<< delta >>) = text
  BY <1>2, ShowsOne
<1>4. PICK u : u = << delta >>
  OBVIOUS
<1>5. Shows(first \o u) /\ Contents(first \o u) = << >> \o text
  BY <1>1, <1>3, <1>4, ShowsConcat
<1>6. << >> \o text = text
  BY ConcatEmptySeq
<1> QED  BY <1>4, <1>5, <1>6 DEF first, delta

LEMMA ReasonShows ==
  ASSUME NEW s, DOMAIN s = ResponsesFields, NEW thoughts \in Seq(Part)
  PROVE  ShowingStep(s, Reason(s, thoughts), thoughts)
<1> DEFINE opens == s.commentary = NoItem
           index == IF opens THEN Len(s.output) ELSE s.commentary
           output == IF opens THEN Append(s.output, Item("commentary", << >>)) ELSE s.output
           text == s.commentaryText \o thoughts
           next == [s EXCEPT !.commentary = index, !.commentaryText = text, !.output = output]
           events == (IF opens THEN Opened(index, "commentary") ELSE << >>)
                       \o << TextDelta(index, thoughts) >>
<1>1. CASE thoughts = << >>
  <2>1. Reason(s, thoughts) = [state |-> s, events |-> << >>]
    BY <1>1 DEF Reason
  <2> QED  BY <1>1, <2>1, ShowsEmpty DEF ShowingStep
<1>2. CASE thoughts # << >>
  <2>1. Reason(s, thoughts) = [state |-> next, events |-> events]
    BY <1>2 DEF Reason
  <2> HIDE DEF output, text
  <2>2. DOMAIN next = ResponsesFields /\ next.aggregate = s.aggregate
    BY DEF ResponsesFields
  <2> HIDE DEF next, opens, index
  <2>3. Shows(events) /\ Contents(events) = thoughts
    BY TextShows
  <2> HIDE DEF events
  <2> QED  BY <2>1, <2>2, <2>3 DEF ShowingStep
<1> QED  BY <1>1, <1>2

LEMMA SayShows ==
  ASSUME NEW s, DOMAIN s = ResponsesFields, NEW text \in Seq(Part)
  PROVE  ShowingStep(s, Say(s, text), text)
<1> DEFINE opens == s.message = NoItem
           index == IF opens THEN Len(s.output) ELSE s.message
           output == IF opens THEN Append(s.output, Item("message", << >>)) ELSE s.output
           whole == s.messageText \o text
           next == [s EXCEPT !.message = index, !.messageText = whole, !.output = output]
           events == (IF opens THEN Opened(index, "message") ELSE << >>)
                       \o << TextDelta(index, text) >>
<1>1. CASE text = << >>
  <2>1. Say(s, text) = [state |-> s, events |-> << >>]
    BY <1>1 DEF Say
  <2> QED  BY <1>1, <2>1, ShowsEmpty DEF ShowingStep
<1>2. CASE text # << >>
  <2>1. Say(s, text) = [state |-> next, events |-> events]
    BY <1>2 DEF Say
  <2> HIDE DEF output, whole
  <2>2. DOMAIN next = ResponsesFields /\ next.aggregate = s.aggregate
    BY DEF ResponsesFields
  <2> HIDE DEF next, opens, index
  <2>3. Shows(events) /\ Contents(events) = text
    BY TextShows
  <2> HIDE DEF events
  <2> QED  BY <2>1, <2>2, <2>3 DEF ShowingStep
<1> QED  BY <1>1, <1>2

(* The thoughts of a result are shown, then its text; calls are held.      *)
LEMMA ResponsesContent ==
  ASSUME NEW p, p.name = "responses", NEW s, DOMAIN s = ResponsesFields, Holding(p, s),
         NEW r, r.parts \in Seq(Part), ~IsEmpty(r)
  PROVE  ContentStep(p, s, r.parts, ResponsesResult(s, r))
<1> DEFINE o        == ResponsesResult(s, r)
           text     == OfKind(r.parts, {"text"})
           thoughts == OfKind(r.parts, {"thought"})
           aggregate == Accumulate(s.aggregate, r)
           observed == [s EXCEPT !.aggregate = aggregate, !.revision = Observe(@, r)]
           reasoned == Reason(observed, thoughts)
           finished == IF text # << >> \/ Has(r.parts, Calls)
                         THEN FinishCommentary(reasoned.state)
                         ELSE [state |-> reasoned.state, events |-> << >>]
           said     == Say(finished.state, text)
<1>1. o = [state |-> said.state, events |-> reasoned.events \o finished.events \o said.events]
  BY DEF ResponsesResult
<1>2. text \in Seq(Part) /\ thoughts \in Seq(Part)
  BY KindsType
<1>3. aggregate.parts = s.aggregate.parts \o r.parts
  BY DEF Accumulate
<1> HIDE DEF text, thoughts, aggregate, o
<1>4. DOMAIN observed = ResponsesFields /\ observed.aggregate = aggregate
  BY DEF ResponsesFields
<1> HIDE DEF observed
<1>5. ShowingStep(observed, reasoned, thoughts)
  BY <1>2, <1>4, ReasonShows
<1> HIDE DEF reasoned
<1>6. ShowingStep(reasoned.state, finished, << >>)
  <2>1. DOMAIN reasoned.state = ResponsesFields
    BY <1>5 DEF ShowingStep
  <2>2. ShowingStep(reasoned.state, FinishCommentary(reasoned.state), << >>)
    BY <2>1, FinishCommentaryShows
  <2>3. ShowingStep(reasoned.state, [state |-> reasoned.state, events |-> << >>], << >>)
    BY <2>1, ShowsEmpty DEF ShowingStep
  <2> QED  BY <2>2, <2>3
<1> HIDE DEF finished
<1>7. ShowingStep(finished.state, said, text)
  <2>1. DOMAIN finished.state = ResponsesFields
    BY <1>6 DEF ShowingStep
  <2> QED  BY <1>2, <2>1, SayShows
<1> HIDE DEF said
<1>8. o.state.aggregate.parts = s.aggregate.parts \o r.parts
  <2>1. o.state = said.state
    BY <1>1
  <2> QED  BY <1>3, <1>4, <1>5, <1>6, <1>7, <2>1 DEF ShowingStep
<1>9. Shows(o.events) /\ Contents(o.events) = (thoughts \o << >>) \o text
  <2>1. PICK a, b, c : a = reasoned.events /\ b = finished.events /\ c = said.events
    OBVIOUS
  <2>2. Shows(a) /\ Shows(b) /\ Shows(c)
    BY <1>5, <1>6, <1>7, <2>1 DEF ShowingStep
  <2>3. Shows(a \o b) /\ Contents(a \o b) = Contents(a) \o Contents(b)
    BY <2>2, ShowsConcat
  <2>4. Shows((a \o b) \o c) /\ Contents((a \o b) \o c) = Contents(a \o b) \o Contents(c)
    BY <2>2, <2>3, ShowsConcat
  <2>5. Contents(a) = thoughts /\ Contents(b) = << >> /\ Contents(c) = text
    BY <1>5, <1>6, <1>7, <2>1 DEF ShowingStep
  <2>6. o.events = (a \o b) \o c
    BY <1>1, <2>1
  <2> QED  BY <2>3, <2>4, <2>5, <2>6
<1>10. Contents(o.events) = thoughts \o text
  <2>1. thoughts \o << >> = thoughts
    BY <1>2, ConcatEmptySeq
  <2> QED  BY <1>9, <2>1
<1>11. ASSUME NEW K PROVE ShownBy(o.events, K) = OfKind(thoughts, K) \o OfKind(text, K)
  <2>1. OfKind(thoughts \o text, K) = OfKind(thoughts, K) \o OfKind(text, K)
    BY <1>2, KindsConcat
  <2> QED  BY <1>10, <2>1 DEF ShownBy
<1>12. Holding(p, o.state)
  BY <1>8, ConcatType DEF Holding
<1>13. ASSUME NEW K \in {{"text"}, {"thought"}, Calls}
       PROVE  ShownBy(o.events, K) \o HeldBy(p, o.state, K) = HeldBy(p, s, K) \o OfKind(r.parts, K)
  <2>0. "text" \notin Calls /\ "thought" \notin Calls
    BY CallAssumption
  <2>1. CASE K = {"text"}
    <3>1. OfKind(text, K) = text /\ OfKind(thoughts, K) = << >>
      BY <2>1, KindsOfKinds DEF text, thoughts
    <3>2. ShownBy(o.events, K) = text
      BY <1>2, <1>11, <3>1, ConcatEmptySeq
    <3>3. HeldBy(p, o.state, K) = << >> /\ HeldBy(p, s, K) = << >>
      BY <2>0, <2>1 DEF HeldBy
    <3>4. text \o << >> = << >> \o text
      BY <1>2, ConcatEmptySeq
    <3> QED  BY <2>1, <3>2, <3>3, <3>4 DEF text
  <2>2. CASE K = {"thought"}
    <3>1. OfKind(text, K) = << >> /\ OfKind(thoughts, K) = thoughts
      BY <2>2, KindsOfKinds DEF text, thoughts
    <3>2. ShownBy(o.events, K) = thoughts
      BY <1>2, <1>11, <3>1, ConcatEmptySeq
    <3>3. HeldBy(p, o.state, K) = << >> /\ HeldBy(p, s, K) = << >>
      BY <2>0, <2>2 DEF HeldBy
    <3>4. thoughts \o << >> = << >> \o thoughts
      BY <1>2, ConcatEmptySeq
    <3> QED  BY <2>2, <3>2, <3>3, <3>4 DEF thoughts
  <2>3. CASE K = Calls
    <3>1. OfKind(text, K) = << >> /\ OfKind(thoughts, K) = << >>
      BY <2>3, KindsOfKinds, CallAssumption DEF text, thoughts
    <3>2. ShownBy(o.events, K) = << >>
      BY <1>11, <3>1
    <3>3. /\ HeldBy(p, o.state, K) = OfKind(o.state.aggregate.parts, K)
          /\ HeldBy(p, s, K) = OfKind(s.aggregate.parts, K)
      BY <2>3 DEF HeldBy
    <3>4. s.aggregate.parts \in Seq(Part)
      BY DEF Holding
    <3>5. OfKind(s.aggregate.parts \o r.parts, K) = OfKind(s.aggregate.parts, K) \o OfKind(r.parts, K)
      BY <3>4, KindsConcat
    <3>6. OfKind(s.aggregate.parts \o r.parts, K) \in Seq(Part)
      BY <3>4, ConcatType, KindsType
    <3> QED  BY <1>8, <3>2, <3>3, <3>5, <3>6, ConcatEmptySeq
  <2> QED  BY <2>1, <2>2, <2>3
<1>14. Shows(o.events)
  BY <1>9
<1> QED  BY <1>8, <1>12, <1>13, <1>14 DEF ContentStep, OrderedBy, o

(***************************************************************************)
(* The calls a Responses handler writes at the end.                        *)
(***************************************************************************)
CallEvents(base, calls) == FlattenSeq([i \in DOMAIN calls |-> WholeCall(base + i - 1, calls[i])])

(* The events of the calls: any set of events is enough that holds them.   *)
LEMMA CallEventsSteps ==
  ASSUME NEW base, NEW calls \in Seq(Part), NEW x \in Part, NEW E,
         \A i \in Nat : \A c \in Part : WholeCall(base + i - 1, c) \in Seq(E)
  PROVE  /\ CallEvents(base, calls) \in Seq(E)
         /\ CallEvents(base, Append(calls, x))
              = CallEvents(base, calls) \o WholeCall(base + (Len(calls) + 1) - 1, x)
<1> DEFINE N == Len(calls)
           all == Append(calls, x)
           f == [i \in DOMAIN calls |-> WholeCall(base + i - 1, calls[i])]
           g == [i \in DOMAIN all |-> WholeCall(base + i - 1, all[i])]
           y == WholeCall(base + (N + 1) - 1, x)
<1>1. /\ N \in Nat /\ DOMAIN calls = 1 .. N /\ DOMAIN all = 1 .. N + 1
      /\ \A i \in 1 .. N : calls[i] \in Part /\ all[i] = calls[i]
      /\ all[N + 1] = x
  <2>1. all \in Seq(Part) /\ Len(all) = N + 1
    BY AppendProperties
  <2>2. DOMAIN all = 1 .. N + 1
    BY <2>1, LenProperties
  <2> QED  BY <2>2, LenProperties, ElementOfSeq, AppendProperties
<1> HIDE DEF all
<1>2. \A i \in 1 .. N : WholeCall(base + i - 1, calls[i]) \in Seq(E)
  BY <1>1
<1>3. f \in Seq(Seq(E)) /\ Len(f) = N
  <2>1. [i \in 1 .. N |-> WholeCall(base + i - 1, calls[i])] \in Seq(Seq(E))
    BY <1>1, <1>2, IsASeq
  <2>2. f = [i \in 1 .. N |-> WholeCall(base + i - 1, calls[i])] /\ DOMAIN f = 1 .. N
    BY <1>1
  <2> HIDE DEF f
  <2>3. f \in Seq(Seq(E))
    BY <2>1, <2>2
  <2> QED  BY <1>1, <2>2, <2>3, LenProperties
<1>4. y \in Seq(E)
  <2>1. N + 1 \in Nat
    BY <1>1
  <2> QED  BY <2>1
<1>5. /\ DOMAIN g = 1 .. N + 1 /\ g[N + 1] = y
      /\ \A i \in 1 .. N : g[i] = f[i]
  BY <1>1
<1>6. g = Append(f, y)
  <2> HIDE DEF f, y
  <2>1. /\ Append(f, y) \in Seq(Seq(E)) /\ Len(Append(f, y)) = N + 1
        /\ Append(f, y)[N + 1] = y
        /\ \A i \in 1 .. N : Append(f, y)[i] = f[i]
    BY <1>1, <1>3, <1>4, AppendProperties
  <2>2. Append(f, y) = [i \in 1 .. N + 1 |-> Append(f, y)[i]]
    BY <1>1, <2>1, LenProperties
  <2>3. g = [i \in 1 .. N + 1 |-> g[i]]
    BY <1>5
  <2>4. \A i \in 1 .. N + 1 : g[i] = Append(f, y)[i]
    <3> HIDE DEF g
    <3> QED  BY <1>1, <1>5, <2>1
  <2> HIDE DEF g
  <2> QED  BY <2>2, <2>3, <2>4
<1>7. CallEvents(base, calls) = FlattenSeq(f) /\ CallEvents(base, all) = FlattenSeq(g)
  BY DEF CallEvents
<1> HIDE DEF f, g, y
<1>8. FlattenSeq(f) \in Seq(E) /\ FlattenSeq(Append(f, y)) = FlattenSeq(f) \o y
  BY <1>3, <1>4, FlattenType, FlattenAppend
<1> QED  BY <1>6, <1>7, <1>8 DEF y, all

LEMMA NoCallEvents == ASSUME NEW base PROVE CallEvents(base, << >>) = << >>
<1> DEFINE f == [i \in DOMAIN << >> |-> WholeCall(base + i - 1, << >>[i])]
<1>1. f = << >>
  OBVIOUS
<1>2. CallEvents(base, << >>) = FlattenSeq(f)
  BY DEF CallEvents
<1> HIDE DEF f
<1> QED  BY <1>1, <1>2, FlattenEmpty

CallEventSet(base) ==
  {WholeCall(base + i - 1, c)[k] : i \in Nat, c \in Part, k \in 1 .. 4}

LEMMA WholeCallEvents ==
  ASSUME NEW base, NEW i \in Nat, NEW c \in Part
  PROVE  WholeCall(base + i - 1, c) \in Seq(CallEventSet(base))
<1> DEFINE n == base + i - 1
<1>1. PICK a, b, d, e : /\ a = Added(n, Item("function_call", << c >>))
                        /\ b = [type |-> "arguments.delta", index |-> n]
                        /\ d = [type |-> "arguments.done", index |-> n]
                        /\ e = Done(n, Item("function_call", << c >>))
  OBVIOUS
<1>2. WholeCall(n, c) = << a, b, d, e >>
  BY <1>1 DEF WholeCall
<1>3. PICK E : E = CallEventSet(base)
  OBVIOUS
<1>4. ASSUME NEW k \in 1 .. 4 PROVE WholeCall(n, c)[k] \in E
  <2>1. \A j \in Nat, x \in Part, m \in 1 .. 4 :
          WholeCall(base + j - 1, x)[m] \in CallEventSet(base)
    BY SMTT(30) DEF CallEventSet
  <2>2. WholeCall(base + i - 1, c)[k] \in CallEventSet(base)
    BY <2>1, Zenon
  <2> QED  BY <1>3, <2>2, Zenon
<1>5. a \in E /\ b \in E /\ d \in E /\ e \in E
  BY <1>2, <1>4
<1>6. << a, b, d, e >> \in Seq(E)
  BY <1>5
<1> QED  BY <1>2, <1>3, <1>6

(* One element and three more.                                             *)
LEMMA OneAndThree == ASSUME NEW a, NEW b, NEW d, NEW e PROVE << a >> \o << b, d, e >> = << a, b, d, e >>
<1>1. PICK S : S = {a, b, d, e}
  OBVIOUS
<1>2. a \in S /\ b \in S /\ d \in S /\ e \in S
  BY <1>1
<1>3. PICK s, t, u : s = << a >> /\ t = << b, d, e >> /\ u = << a, b, d, e >>
  OBVIOUS
<1>4. s \in Seq(S) /\ t \in Seq(S) /\ u \in Seq(S)
  BY <1>2, <1>3
<1>5. /\ Len(s) = 1 /\ Len(t) = 3 /\ Len(u) = 4
      /\ s[1] = u[1] /\ t[1] = u[2] /\ t[2] = u[3] /\ t[3] = u[4]
  BY <1>3
<1>6. /\ s \o t \in Seq(S) /\ Len(s \o t) = 4
      /\ \A i \in 1 .. 4 : (s \o t)[i] = IF i <= 1 THEN s[i] ELSE t[i - 1]
  <2>1. /\ s \o t \in Seq(S) /\ Len(s \o t) = Len(s) + Len(t)
        /\ \A i \in 1 .. Len(s) + Len(t) :
             (s \o t)[i] = IF i <= Len(s) THEN s[i] ELSE t[i - Len(s)]
    BY <1>4, ConcatProperties
  <2>2. Len(s) + Len(t) = 4
    BY <1>5
  <2> QED  BY <1>5, <2>1, <2>2
<1>7. \A i \in 1 .. 4 : (s \o t)[i] = u[i]
  BY <1>5, <1>6
<1>8. s \o t = u
  BY <1>4, <1>5, <1>6, <1>7, SeqEqual
<1> QED  BY <1>3, <1>8

(* A whole call shows the call.                                            *)
LEMMA WholeCallShows ==
  ASSUME NEW i, NEW c \in Part
  PROVE  Shows(WholeCall(i, c)) /\ Contents(WholeCall(i, c)) = << c >>
<1>1. PICK a, b, d, e : /\ a = Added(i, Item("function_call", << c >>))
                        /\ b = [type |-> "arguments.delta", index |-> i]
                        /\ d = [type |-> "arguments.done", index |-> i]
                        /\ e = Done(i, Item("function_call", << c >>))
  OBVIOUS
<1>2. ContentOf(a) = << c >> /\ << c >> \in Seq(Part)
  BY <1>1 DEF Added, Item, ContentOf
<1>3. \A x \in {b, d, e} : ContentOf(x) = << >>
  BY <1>1 DEF Done, ContentOf
<1>4. WholeCall(i, c) = << a >> \o << b, d, e >>
  <2>1. << a >> \o << b, d, e >> = << a, b, d, e >>
    BY OneAndThree
  <2> QED  BY <1>1, <2>1 DEF WholeCall
<1>5. Shows(<< a >>) /\ Contents(<< a >>) = << c >>
  BY <1>2, ShowsOne
<1>6. Shows(<< b, d, e >>) /\ Contents(<< b, d, e >>) = << >>
  <2>1. PICK S : S = {b, d, e}
    OBVIOUS
  <2>2. PICK s : s = << b, d, e >>
    OBVIOUS
  <2>3. s \in Seq(S) /\ \A x \in S : ContentOf(x) = << >>
    BY <1>3, <2>1, <2>2
  <2>4. Shows(s) /\ Contents(s) = << >>
    BY <2>3, ShowsNothing
  <2> QED  BY <2>2, <2>4
<1>7. PICK u, v : u = << a >> /\ v = << b, d, e >>
  OBVIOUS
<1>8. Shows(u \o v) /\ Contents(u \o v) = Contents(u) \o Contents(v)
  BY <1>5, <1>6, <1>7, ShowsConcat
<1>9. Contents(u) \o Contents(v) = << c >>
  BY <1>2, <1>5, <1>6, <1>7, ConcatEmptySeq
<1> QED  BY <1>4, <1>7, <1>8, <1>9

LEMMA CallEventsShow ==
  ASSUME NEW base, NEW calls \in Seq(Part)
  PROVE  Shows(CallEvents(base, calls)) /\ Contents(CallEvents(base, calls)) = calls
<1> DEFINE Good == {c \in Seq(Part) : Shows(CallEvents(base, c)) /\ Contents(CallEvents(base, c)) = c}
<1>1. << >> \in Good
  BY NoCallEvents, ShowsEmpty, EmptySeq
<1>2. ASSUME NEW c \in Seq(Part), c \in Good, NEW x \in Part PROVE Append(c, x) \in Good
  <2> DEFINE e == CallEvents(base, c)
             y == WholeCall(base + (Len(c) + 1) - 1, x)
  <2>1. CallEvents(base, Append(c, x)) = e \o y
    <3>1. \A i \in Nat : \A d \in Part : WholeCall(base + i - 1, d) \in Seq(CallEventSet(base))
      BY WholeCallEvents
    <3> QED  BY <3>1, CallEventsSteps
  <2>2. Shows(e) /\ Contents(e) = c
    BY <1>2
  <2>3. Shows(y) /\ Contents(y) = << x >>
    BY WholeCallShows
  <2> HIDE DEF e, y
  <2>4. Shows(e \o y) /\ Contents(e \o y) = c \o << x >>
    BY <2>2, <2>3, ShowsConcat
  <2>5. Append(c, x) = c \o << x >> /\ Append(c, x) \in Seq(Part)
    BY AppendIsConcat, AppendProperties
  <2> QED  BY <2>1, <2>4, <2>5
<1>3. Seq(Part) \subseteq Good
  <2> HIDE DEF Good
  <2> QED  BY <1>1, <1>2, InductionOnSeq
<1> QED  BY <1>3

LEMMA DistinctCallsType ==
  ASSUME NEW p \in Seq(Part)
  PROVE  DistinctCalls(p) \in Seq(PartOf(Calls)) /\ DistinctCalls(p) \in Seq(Part)
<1>1. OfKind(p, Calls) \in Seq(PartOf(Calls))
  BY KindsType
<1>2. DistinctCalls(p) \in Seq(PartOf(Calls))
  BY <1>1, ItemsAtType DEF DistinctCalls
<1> QED  BY <1>2, PartOfIsPart

(***************************************************************************)
(* What the events at the end show.                                        *)
(***************************************************************************)
FinalOf(p, s, K) ==
  IF p.name = "responses" /\ K = Calls THEN DistinctCalls(s.aggregate.parts) ELSE HeldBy(p, s, K)

(* Three and five sequences that show nothing but in the middle.           *)
LEMMA ShowsAmong ==
  ASSUME NEW a, NEW b, NEW c, Shows(a), Shows(b), Shows(c), Contents(a) = << >>, Contents(c) = << >>
  PROVE  Shows((a \o b) \o c) /\ Contents((a \o b) \o c) = Contents(b)
<1>1. Contents(b) \in Seq(Part)
  BY ContentsType
<1>2. Shows(a \o b) /\ Contents(a \o b) = Contents(b)
  <2>1. Shows(a \o b) /\ Contents(a \o b) = << >> \o Contents(b)
    BY ShowsConcat
  <2> QED  BY <1>1, <2>1, ConcatEmptySeq
<1>3. PICK d : d = a \o b
  OBVIOUS
<1>4. Shows(d) /\ Contents(d) = Contents(b)
  BY <1>2, <1>3
<1>5. Shows(d \o c) /\ Contents(d \o c) = Contents(d) \o Contents(c)
  BY <1>4, ShowsConcat
<1>6. Contents(b) \o << >> = Contents(b)
  BY <1>1, ConcatEmptySeq
<1> QED  BY <1>3, <1>4, <1>5, <1>6

LEMMA ShowsAlso ==
  ASSUME NEW a, NEW c, Shows(a), Shows(c), Contents(c) = << >>
  PROVE  Shows(a \o c) /\ Contents(a \o c) = Contents(a)
<1>1. Contents(a) \in Seq(Part)
  BY ContentsType
<1>2. Shows(a \o c) /\ Contents(a \o c) = Contents(a) \o << >>
  BY ShowsConcat
<1> QED  BY <1>1, <1>2, ConcatEmptySeq

LEMMA FinishMessageShows ==
  ASSUME NEW s, DOMAIN s = ResponsesFields PROVE ShowingStep(s, FinishMessage(s), << >>)
<1> DEFINE item == Item("message", s.messageText)
           next == [s EXCEPT !.output[s.message + 1] = item]
           note == [type |-> "annotation.added", index |-> s.message]
           first == IF s.aggregate.grounding THEN << note >> ELSE << >>
           last  == Closed(s.message, item)
<1>1. CASE s.message = NoItem
  <2>1. FinishMessage(s) = [state |-> s, events |-> << >>]
    BY <1>1 DEF FinishMessage
  <2> QED  BY <2>1, ShowsEmpty DEF ShowingStep
<1>2. CASE s.message # NoItem
  <2>1. FinishMessage(s) = [state |-> next, events |-> first \o last]
    BY <1>2 DEF FinishMessage
  <2>2. Shows(first) /\ Contents(first) = << >>
    <3>1. ContentOf(note) = << >> /\ << >> \in Seq(Part)
      BY EmptySeq DEF ContentOf
    <3> HIDE DEF note
    <3>2. Shows(<< note >>) /\ Contents(<< note >>) = << >>
      BY <3>1, ShowsOne
    <3> QED  BY <3>2, ShowsEmpty
  <2>3. Shows(last) /\ Contents(last) = << >>
    BY ClosedShows
  <2> HIDE DEF item
  <2>4. DOMAIN next = ResponsesFields /\ next.aggregate = s.aggregate
    BY DEF ResponsesFields
  <2> HIDE DEF next, first, last
  <2>5. Shows(first \o last) /\ Contents(first \o last) = << >>
    BY <2>2, <2>3, ShowsAlso
  <2> QED  BY <2>1, <2>4, <2>5 DEF ShowingStep
<1> QED  BY <1>1, <1>2

(* A Responses stream ends with its calls, each once.                      *)
LEMMA ResponsesEndShows ==
  ASSUME NEW s, DOMAIN s = ResponsesFields, s.aggregate.parts \in Seq(Part)
  PROVE  Shows(ResponsesEnd(s)) /\ Contents(ResponsesEnd(s)) = DistinctCalls(s.aggregate.parts)
<1> DEFINE commented == FinishCommentary(s)
           messaged  == FinishMessage(commented.state)
           calls     == DistinctCalls(s.aggregate.parts)
           base      == Len(messaged.state.output)
           searches  == IF s.aggregate.grounding THEN 1 ELSE 0
           output    == messaged.state.output
                        \o [i \in DOMAIN calls |-> Item("function_call", << calls[i] >>)]
                        \o [i \in 1 .. searches |-> Item("web_search_call", << >>)]
           found     == IF searches = 1 THEN WholeSearch(base + Len(calls)) ELSE << >>
           final     == [type |-> IF HasResponseOutput(s.aggregate) THEN "completed" ELSE "failed",
                         output |-> output, usage |-> CurrentMetadata(s.revision)]
<1>1. ResponsesEnd(s) = (((commented.events \o messaged.events) \o CallEvents(base, calls)) \o found)
                        \o << final >>
  BY DEF ResponsesEnd, CallEvents
<1>2. calls \in Seq(Part)
  BY DistinctCallsType
<1>3. Shows(found) /\ Contents(found) = << >>
  <2>1. CASE searches = 1
    <3>1. PICK a, b : /\ a = Added(base + Len(calls), Item("web_search_call", << >>))
                      /\ b = Done(base + Len(calls), Item("web_search_call", << >>))
      OBVIOUS
    <3>2. ContentOf(a) = << >> /\ ContentOf(b) = << >>
      <4>1. ContentOf(a) = << >>
        BY <3>1 DEF Added, Item, ContentOf
      <4>2. ContentOf(b) = << >>
        BY <3>1 DEF Done, ContentOf
      <4> QED  BY <4>1, <4>2
    <3>3. found = << a, b >>
      BY <2>1, <3>1 DEF WholeSearch
    <3>4. PICK S : S = {a, b}
      OBVIOUS
    <3> HIDE DEF found
    <3>5. found \in Seq(S) /\ \A x \in S : ContentOf(x) = << >>
      BY <3>2, <3>3, <3>4
    <3> QED  BY <3>5, ShowsNothing
  <2>2. CASE searches # 1
    <3>1. found = << >>
      BY <2>2
    <3> HIDE DEF found
    <3> QED  BY <3>1, ShowsEmpty
  <2> QED  BY <2>1, <2>2
<1>4. Shows(<< final >>) /\ Contents(<< final >>) = << >>
  <2>1. ContentOf(final) = << >> /\ << >> \in Seq(Part)
    BY EmptySeq DEF ContentOf
  <2> HIDE DEF final
  <2> QED  BY <2>1, ShowsOne
<1> HIDE DEF found, final, calls
<1>5. Shows(CallEvents(base, calls)) /\ Contents(CallEvents(base, calls)) = calls
  BY <1>2, CallEventsShow
<1> HIDE DEF base
<1>6. ShowingStep(s, commented, << >>)
  BY FinishCommentaryShows
<1> HIDE DEF commented
<1>7. ShowingStep(commented.state, messaged, << >>)
  BY <1>6, FinishMessageShows DEF ShowingStep
<1> HIDE DEF messaged
<1>8. PICK a, b, c, d, e : /\ a = commented.events /\ b = messaged.events
                           /\ c = CallEvents(base, calls) /\ d = found /\ e = << final >>
  OBVIOUS
<1>9. /\ Shows(a) /\ Shows(b) /\ Shows(c) /\ Shows(d) /\ Shows(e)
      /\ Contents(a) = << >> /\ Contents(b) = << >> /\ Contents(c) = calls
      /\ Contents(d) = << >> /\ Contents(e) = << >>
  BY <1>3, <1>4, <1>5, <1>6, <1>7, <1>8 DEF ShowingStep
<1>10. PICK f : f = a \o b
  OBVIOUS
<1>11. Shows(f) /\ Contents(f) = << >>
  BY <1>9, <1>10, ShowsAlso
<1>12. PICK g : g = (f \o c) \o d
  OBVIOUS
<1>13. Shows(g) /\ Contents(g) = calls
  BY <1>9, <1>11, <1>12, ShowsAmong
<1>14. Shows(g \o e) /\ Contents(g \o e) = calls
  BY <1>9, <1>13, ShowsAlso
<1> QED  BY <1>1, <1>8, <1>10, <1>12, <1>14 DEF calls

(* The events after a stream without error show all that was held.         *)
LEMMA EndShows ==
  ASSUME protocol \in Protocols, HandlerShape(protocol, handler), Holding(protocol, handler)
  PROVE  /\ Shows(EndEvents)
         /\ \A K \in OrderedBy(protocol) : ShownBy(EndEvents, K) = FinalOf(protocol, handler, K)
<1>1. PICK p, s : p = protocol /\ s = handler
  OBVIOUS
<1>2. CASE p.name = "chat"
  <2> DEFINE a == [type |-> "end", reason |-> OpenAIFinishReason(s.aggregate),
                   usage |-> CurrentMetadata(s.revision)]
             b == [type |-> "[DONE]"]
  <2>1. EndEvents = << a, b >>
    BY <1>1, <1>2 DEF EndEvents, ChatEnd
  <2>2. \A x \in {a, b} : ContentOf(x) = << >>
    BY DEF ContentOf
  <2> HIDE DEF a, b
  <2>3. PICK S : S = {a, b}
    OBVIOUS
  <2>6. PICK e : e = << a, b >>
    OBVIOUS
  <2>7. e \in Seq(S) /\ \A x \in S : ContentOf(x) = << >>
    BY <2>2, <2>3, <2>6
  <2>8. Shows(e) /\ Contents(e) = << >>
    BY <2>7, ShowsNothing
  <2>4. Shows(EndEvents) /\ Contents(EndEvents) = << >>
    BY <2>1, <2>6, <2>8
  <2>5. \A K : ShownBy(EndEvents, K) = << >> /\ FinalOf(p, s, K) = << >>
    BY <1>2, <2>4, KindsEmpty DEF ShownBy, FinalOf, HeldBy
  <2> QED  BY <1>1, <2>4, <2>5
<1>3. CASE p.name = "responses"
  <2>1. EndEvents = ResponsesEnd(s) /\ DOMAIN s = ResponsesFields /\ s.aggregate.parts \in Seq(Part)
    BY <1>1, <1>3 DEF EndEvents, HandlerShape, Holding
  <2>2. PICK d : d = DistinctCalls(s.aggregate.parts)
    OBVIOUS
  <2>3. Shows(EndEvents) /\ Contents(EndEvents) = d
    BY <2>1, <2>2, ResponsesEndShows
  <2>4. d \in Seq(PartOf(Calls))
    BY <2>1, <2>2, DistinctCallsType
  <2>5. OfKind(d, Calls) = d /\ OfKind(d, {"text"}) = << >> /\ OfKind(d, {"thought"}) = << >>
    BY <2>4, KindsAll, CallAssumption
  <2>6. {"text"} # Calls /\ {"thought"} # Calls
    BY CallAssumption
  <2>7. \A K \in {{"text"}, {"thought"}, Calls} : ShownBy(EndEvents, K) = FinalOf(p, s, K)
    BY <1>3, <2>2, <2>3, <2>5, <2>6 DEF ShownBy, FinalOf, HeldBy
  <2> QED  BY <1>1, <1>3, <2>3, <2>7 DEF OrderedBy
<1>4. CASE p.name = "gemini"
  <2> DEFINE K == Kept(p.option)
  <2>1. /\ EndEvents = EmitPending(s).events
        /\ DOMAIN s = GeminiFields /\ s.pending.payload.parts \in Seq(PartOf(K))
    BY <1>1, <1>4 DEF EndEvents, GeminiEnd, HandlerShape, Holding
  <2>2. OrderedBy(p) = {K} /\ FinalOf(p, s, K) = s.pending.payload.parts
    BY <1>4 DEF OrderedBy, FinalOf, HeldBy
  <2> HIDE DEF K
  <2>3. Shows(EndEvents) /\ ShownBy(EndEvents, K) = s.pending.payload.parts
    BY <2>1, EmitPendingShows
  <2> QED  BY <1>1, <2>2, <2>3
<1> QED  BY <1>1, <1>2, <1>3, <1>4 DEF Protocols, Names

(* An error shows all but the calls of a Responses stream.                 *)
LEMMA ErrorShows ==
  ASSUME protocol \in Protocols, HandlerShape(protocol, handler), Holding(protocol, handler)
  PROVE  /\ Shows(ErrorEvents)
         /\ \A K \in OrderedBy(protocol) :
              ShownBy(ErrorEvents, K)
                = IF protocol.name = "responses" THEN << >> ELSE FinalOf(protocol, handler, K)
         /\ protocol.name = "responses" => ErrorEvents = << [type |-> "error"] >>
<1>1. PICK p, s : p = protocol /\ s = handler
  OBVIOUS
<1>2. ASSUME NEW t, t \in {"error", "http_error"}
      PROVE  Shows(<< [type |-> t] >>) /\ Contents(<< [type |-> t] >>) = << >>
  <2>1. ContentOf([type |-> t]) = << >> /\ << >> \in Seq(Part)
    BY <1>2, EmptySeq DEF ContentOf
  <2> QED  BY <2>1, ShowsOne
<1>3. CASE p.name # "gemini"
  <2>1. PICK t \in {"error", "http_error"} : ErrorEvents = << [type |-> t] >>
                                             /\ (p.name = "responses" => t = "error")
    <3>1. CASE p.name = "chat"
      BY <1>1, <3>1 DEF ErrorEvents, ChatError
    <3>2. CASE p.name = "responses"
      BY <1>1, <3>2 DEF ErrorEvents, ResponsesError
    <3> QED  BY <1>1, <1>3, <3>1, <3>2 DEF Protocols, Names
  <2>2. Shows(ErrorEvents) /\ Contents(ErrorEvents) = << >>
    BY <1>2, <2>1
  <2>3. \A K : ShownBy(ErrorEvents, K) = << >>
    BY <2>2, KindsEmpty DEF ShownBy
  <2>4. p.name # "responses" => \A K : FinalOf(p, s, K) = << >>
    BY <1>3 DEF FinalOf, HeldBy
  <2> QED  BY <1>1, <2>1, <2>2, <2>3, <2>4
<1>4. CASE p.name = "gemini"
  <2> DEFINE K == Kept(p.option)
             last == EmitPending(s)
             t == IF last.state.identityCommitted THEN "error" ELSE "http_error"
  <2>1. /\ ErrorEvents = last.events \o << [type |-> t] >>
        /\ DOMAIN s = GeminiFields /\ s.pending.payload.parts \in Seq(PartOf(K))
    BY <1>1, <1>4 DEF ErrorEvents, GeminiError, HandlerShape, Holding
  <2>2. OrderedBy(p) = {K} /\ FinalOf(p, s, K) = s.pending.payload.parts
    BY <1>4 DEF OrderedBy, FinalOf, HeldBy
  <2> HIDE DEF K
  <2>3. Shows(last.events) /\ ShownBy(last.events, K) = s.pending.payload.parts
    BY <2>1, EmitPendingShows
  <2>4. t \in {"error", "http_error"}
    OBVIOUS
  <2> HIDE DEF last, t
  <2>5. PICK a, b : a = last.events /\ b = << [type |-> t] >>
    OBVIOUS
  <2>6. Shows(a \o b) /\ Contents(a \o b) = Contents(a)
    BY <1>2, <2>3, <2>4, <2>5, ShowsAlso
  <2>7. Shows(ErrorEvents) /\ ShownBy(ErrorEvents, K) = s.pending.payload.parts
    BY <2>1, <2>3, <2>5, <2>6 DEF ShownBy
  <2> QED  BY <1>1, <1>4, <2>2, <2>7
<1> QED  BY <1>1, <1>3, <1>4

(***************************************************************************)
(* Content, all along the stream: what is shown and what is held back are  *)
(* together what was sent.                                                 *)
(***************************************************************************)
Balance(p, s, w, x) ==
  /\ Shows(w) /\ Holding(p, s)
  /\ \A K \in OrderedBy(p) : ShownBy(w, K) \o HeldBy(p, s, K) = OfKind(x, K)
  /\ p.name # "gemini" => s.aggregate.parts = x

ExpectedOf(p, x, K) ==
  IF p.name = "responses" /\ K = Calls THEN DistinctCalls(x) ELSE OfKind(x, K)

InOrder(p, w, x) == \A K \in OrderedBy(p) : IsPrefix(ShownBy(w, K), ExpectedOf(p, x, K))

Broken == gone \/ canceled

ContentInv ==
  /\ Shows(wire)
  /\ pc # "done" => Balance(protocol, handler, wire, SentParts)
  /\ pc = "done" => ContentInOrder

LEMMA ContentNames ==
  /\ SentParts = Given(protocol, sent)
  /\ Ordered = OrderedBy(protocol)
  /\ \A K : Shown(K) = ShownBy(wire, K)
  /\ \A K : Expected(K) = ExpectedOf(protocol, SentParts, K)
BY DEF SentParts, PartsOf, Given, GivenBy, Ordered, OrderedBy, Shown, ShownBy, Contents,
       Expected, ExpectedOf

(* Of a stream that broke off no more is asked.                            *)
LEMMA BrokenInOrder == InOrder(protocol, wire, SentParts) /\ Broken => ContentInOrder
BY ContentNames DEF InOrder, Broken, ContentInOrder, Concluded

(* Of one that ended with an error the calls may be missing.               *)
LEMMA WholeInOrder ==
  /\ InOrder(protocol, wire, SentParts)
  /\ \A K \in OrderedBy(protocol) :
       \/ ShownBy(wire, K) = ExpectedOf(protocol, SentParts, K)
       \/ K = Calls /\ \E i \in DOMAIN wire : wire[i].type = "error"
  => ContentInOrder
BY ContentNames DEF InOrder, ContentInOrder

(* Nothing is shown where everything is held back.                         *)
LEMMA NothingShown ==
  ASSUME NEW X, NEW a \in Seq(X), NEW b \in Seq(X), a \o b = b
  PROVE  a = << >>
<1>1. Len(a) + Len(b) = Len(b) /\ Len(a) \in Nat /\ Len(b) \in Nat
  BY ConcatProperties, LenProperties
<1>2. Len(a) = 0
  BY <1>1
<1> QED  BY <1>2, EmptySeq

LEMMA HeldType ==
  ASSUME NEW p \in Protocols, NEW s, Holding(p, s), NEW K \in OrderedBy(p)
  PROVE  HeldBy(p, s, K) \in Seq(Part)
<1>1. CASE p.name = "gemini"
  BY <1>1, PartOfIsPart DEF Holding, HeldBy
<1>2. CASE p.name # "gemini"
  <2>1. OfKind(s.aggregate.parts, Calls) \in Seq(Part)
    BY <1>2, KindsType DEF Holding
  <2> QED  BY <1>2, <2>1, EmptySeq DEF HeldBy
<1> QED  BY <1>1, <1>2

LEMMA ExpectedType ==
  ASSUME NEW p, NEW x \in Seq(Part), NEW K PROVE ExpectedOf(p, x, K) \in Seq(Part)
BY KindsType, DistinctCallsType DEF ExpectedOf

(* A balanced stream shows a beginning of what is expected.                *)
LEMMA BalancedInOrder ==
  ASSUME NEW p \in Protocols, NEW s, NEW w, NEW x \in Seq(Part), Balance(p, s, w, x)
  PROVE  /\ InOrder(p, w, x)
         /\ p.name = "responses" => ShownBy(w, Calls) = << >>
<1> SUFFICES ASSUME NEW K \in OrderedBy(p)
             PROVE  /\ IsPrefix(ShownBy(w, K), ExpectedOf(p, x, K))
                    /\ p.name = "responses" /\ K = Calls => ShownBy(w, K) = << >>
  BY DEF InOrder, OrderedBy
<1>1. PICK a, b : a = ShownBy(w, K) /\ b = HeldBy(p, s, K)
  OBVIOUS
<1>2. a \in Seq(Part) /\ b \in Seq(Part) /\ a \o b = OfKind(x, K)
  <2>1. a \in Seq(Part)
    BY <1>1, ContentsType, KindsType DEF ShownBy, Balance
  <2>2. b \in Seq(Part)
    BY <1>1, HeldType DEF Balance
  <2> QED  BY <1>1, <2>1, <2>2 DEF Balance
<1>3. CASE p.name = "responses" /\ K = Calls
  <2>1. b = OfKind(x, K)
    BY <1>1, <1>3 DEF HeldBy, Balance
  <2>2. a = << >>
    BY <1>2, <2>1, NothingShown
  <2> QED  BY <1>1, <2>2, ExpectedType, PrefixFacts
<1>4. CASE ~(p.name = "responses" /\ K = Calls)
  <2>1. IsPrefix(a, a \o b)
    BY <1>2, PrefixFacts
  <2> QED  BY <1>1, <1>2, <1>4, <2>1 DEF ExpectedOf
<1> QED  BY <1>3, <1>4

(* Sending more keeps it a beginning.                                      *)
LEMMA MoreIsSent ==
  ASSUME NEW p \in Protocols, NEW s, NEW w, NEW x \in Seq(Part), NEW y \in Seq(Part),
         Balance(p, s, w, x)
  PROVE  InOrder(p, w, x \o y)
<1> SUFFICES ASSUME NEW K \in OrderedBy(p)
             PROVE  IsPrefix(ShownBy(w, K), ExpectedOf(p, x \o y, K))
  BY DEF InOrder
<1>1. x \o y \in Seq(Part) /\ ShownBy(w, K) \in Seq(Part)
  BY ConcatType, ContentsType, KindsType DEF ShownBy, Balance
<1>2. CASE p.name = "responses" /\ K = Calls
  <2>1. ShownBy(w, K) = << >>
    BY <1>2, BalancedInOrder
  <2> QED  BY <1>1, <2>1, ExpectedType, PrefixFacts
<1>3. CASE ~(p.name = "responses" /\ K = Calls)
  <2>1. PICK a, b, c : a = ShownBy(w, K) /\ b = OfKind(x, K) /\ c = OfKind(x \o y, K)
    OBVIOUS
  <2>2. a \in Seq(Part) /\ b \in Seq(Part) /\ c \in Seq(Part)
    BY <1>1, <2>1, KindsType
  <2>3. IsPrefix(a, b)
    BY <1>3, <2>1, BalancedInOrder DEF InOrder, ExpectedOf
  <2>4. IsPrefix(x, x \o y)
    BY PrefixFacts
  <2>5. IsPrefix(b, c)
    BY <1>1, <2>1, <2>4, KindsPrefix
  <2>6. IsPrefix(a, c)
    BY <2>2, <2>3, <2>5, PrefixTransitive
  <2> QED  BY <1>3, <2>1, <2>6 DEF ExpectedOf
<1> QED  BY <1>2, <1>3

(* A step that is given the parts that were sent keeps the balance.        *)
LEMMA StepBalances ==
  ASSUME NEW p \in Protocols, NEW s, NEW w, NEW x \in Seq(Part), NEW y \in Seq(Part), NEW o,
         Balance(p, s, w, x), ContentStep(p, s, y, o)
  PROVE  Balance(p, o.state, w \o o.events, x \o y)
<1>1. PICK e : e = o.events
  OBVIOUS
<1>2. Shows(w) /\ Shows(e)
  BY <1>1 DEF Balance, ContentStep
<1>3. Shows(w \o e)
  BY <1>2, ShowsConcat
<1>4. ASSUME NEW K \in OrderedBy(p)
      PROVE  ShownBy(w \o e, K) \o HeldBy(p, o.state, K) = OfKind(x \o y, K)
  <2>1. PICK a, b, c, d, f : /\ a = ShownBy(w, K) /\ b = ShownBy(e, K)
                             /\ c = HeldBy(p, o.state, K) /\ d = HeldBy(p, s, K)
                             /\ f = OfKind(y, K)
    OBVIOUS
  <2>2. a \in Seq(Part) /\ b \in Seq(Part)
    <3>1. Contents(w) \in Seq(Part) /\ Contents(e) \in Seq(Part)
      BY <1>2, ContentsType
    <3>2. OfKind(Contents(w), K) \in Seq(Part) /\ OfKind(Contents(e), K) \in Seq(Part)
      BY <3>1, KindsType
    <3> QED  BY <2>1, <3>2 DEF ShownBy
  <2>3. c \in Seq(Part) /\ d \in Seq(Part) /\ f \in Seq(Part)
    <3>1. Holding(p, s) /\ Holding(p, o.state)
      BY DEF Balance, ContentStep
    <3>2. HeldBy(p, s, K) \in Seq(Part) /\ HeldBy(p, o.state, K) \in Seq(Part)
      BY <3>1, HeldType
    <3> QED  BY <2>1, <3>2, KindsType
  <2>4. ShownBy(w \o e, K) = a \o b
    BY <1>2, <2>1, ShownConcat
  <2>5. b \o c = d \o f
    BY <1>1, <2>1 DEF ContentStep
  <2>6. a \o d = OfKind(x, K)
    BY <2>1 DEF Balance
  <2>7. (a \o b) \o c = (a \o d) \o f
    <3>1. (a \o b) \o c = a \o (b \o c)
      <4>1. a \in Seq(Part) /\ b \in Seq(Part) /\ c \in Seq(Part)
        BY <2>2, <2>3
      <4> QED  BY <4>1, ConcatRegroup
    <3>2. (a \o d) \o f = a \o (d \o f)
      <4>1. a \in Seq(Part) /\ d \in Seq(Part) /\ f \in Seq(Part)
        BY <2>2, <2>3
      <4> QED  BY <4>1, SMTT(30)
    <3> QED  BY <2>5, <3>1, <3>2
  <2>9. OfKind(x \o y, K) = OfKind(x, K) \o OfKind(y, K)
    BY KindsConcat
  <2> QED  BY <2>1, <2>4, <2>6, <2>7, <2>9
<1>5. Holding(p, o.state) /\ (p.name # "gemini" => o.state.aggregate.parts = x \o y)
  BY DEF Balance, ContentStep
<1> QED  BY <1>1, <1>3, <1>4, <1>5 DEF Balance

(* A callback of any protocol.                                             *)
LEMMA OnResultContent ==
  ASSUME protocol \in Protocols, HandlerShape(protocol, handler), Holding(protocol, handler),
         NEW r, r.parts \in Seq(Part), r.finish # None => r.parts = << >>, ~IsEmpty(r)
  PROVE  ContentStep(protocol, handler, GivenBy(protocol, r), OnResult(r))
<1>1. PICK p, s : p = protocol /\ s = handler
  OBVIOUS
<1>2. p \in Protocols /\ HandlerShape(p, s) /\ Holding(p, s)
  BY <1>1
<1>3. CASE p.name = "chat"
  <2>1. ContentStep(p, s, r.parts, ChatResult(s, r))
    BY <1>2, <1>3, ChatContent
  <2>2. OnResult(r) = ChatResult(s, r) /\ GivenBy(p, r) = r.parts
    BY <1>1, <1>3 DEF OnResult, GivenBy
  <2> QED  BY <1>1, <2>1, <2>2
<1>4. CASE p.name = "responses"
  <2>1. ContentStep(p, s, r.parts, ResponsesResult(s, r))
    BY <1>2, <1>4, ResponsesContent DEF HandlerShape
  <2>2. OnResult(r) = ResponsesResult(s, r) /\ GivenBy(p, r) = r.parts
    BY <1>1, <1>4 DEF OnResult, GivenBy
  <2> QED  BY <1>1, <2>1, <2>2
<1>5. CASE p.name = "gemini"
  <2>1. ContentStep(p, s, GivenBy(p, r), GeminiResult(s, r))
    BY <1>2, <1>5, GeminiContent DEF HandlerShape
  <2>2. OnResult(r) = GeminiResult(s, r)
    BY <1>1, <1>5 DEF OnResult
  <2> QED  BY <1>1, <2>1, <2>2
<1> QED  BY <1>2, <1>3, <1>4, <1>5 DEF Protocols, Names

(* What is left when a result has been handed on, or has not.              *)
LEMMA DeliverBalances ==
  ASSUME protocol \in Protocols, HandlerShape(protocol, handler),
         NEW x \in Seq(Part), Balance(protocol, handler, wire, x),
         NEW r, r.parts \in Seq(Part), r.finish # None => r.parts = << >>, ~IsEmpty(r),
         NEW next, next # "done", canceled' = canceled, Deliver(r, next)
  PROVE  LET y == x \o GivenBy(protocol, r) IN
         /\ Shows(wire')
         /\ pc' # "done" => Balance(protocol, handler', wire', y)
         /\ pc' = "done" => InOrder(protocol, wire', y) /\ Broken'
<1>1. PICK p, s, w, o, g : /\ p = protocol /\ s = handler /\ w = wire /\ o = OnResult(r)
                           /\ g = GivenBy(protocol, r)
  OBVIOUS
<1>2. PICK w1, s1 : w1 = wire' /\ s1 = handler'
  OBVIOUS
<1>3. p \in Protocols /\ Balance(p, s, w, x) /\ g \in Seq(Part)
  BY <1>1, EmptySeq DEF GivenBy
<1> DEFINE y == x \o g
<1>4. y \in Seq(Part)
  BY <1>3, ConcatType
<1>5. CASE canceled
  <2>1. pc' = "done" /\ w1 = w /\ Broken'
    BY <1>1, <1>2, <1>5 DEF Deliver, Broken
  <2>2. InOrder(p, w, y)
    BY <1>3, MoreIsSent
  <2>3. Shows(w)
    BY <1>3 DEF Balance
  <2> QED  BY <1>1, <1>2, <2>1, <2>2, <2>3
<1>6. CASE ~canceled
  <2>1. s1 = o.state /\ Write(o.events, next)
    BY <1>1, <1>2, <1>6 DEF Deliver
  <2>2. ContentStep(p, s, g, o)
    <3>1. Holding(protocol, handler)
      BY DEF Balance
    <3> QED  BY <1>1, <3>1, OnResultContent
  <2>3. Balance(p, s1, w \o o.events, y)
    BY <1>3, <2>1, <2>2, StepBalances
  <2>4. CASE wire' = wire \o o.events /\ pc' = next
    <3>1. w1 = w \o o.events
      BY <1>1, <1>2, <2>4
    <3>2. Shows(w1)
      BY <2>3, <3>1 DEF Balance
    <3> QED  BY <1>1, <1>2, <2>3, <2>4, <3>1, <3>2
  <2>5. CASE /\ \E k \in 0 .. Len(o.events) - 1 : wire' = wire \o SubSeq(o.events, 1, k)
             /\ pc' = "done" /\ gone' = TRUE
    <3>1. PICK k \in 0 .. Len(o.events) - 1 : w1 = w \o SubSeq(o.events, 1, k)
      BY <1>1, <1>2, <2>5
    <3>2. PICK e : e = o.events
      OBVIOUS
    <3>3. Shows(w) /\ Shows(e)
      BY <1>3, <2>2, <3>2 DEF Balance, ContentStep
    <3>4. k \in 0 .. Len(e)
      BY <3>1, <3>2, <3>3, ShowsParts
    <3>5. InOrder(p, w \o e, y)
      BY <1>3, <1>4, <2>3, <3>2, BalancedInOrder
    <3>6. ASSUME NEW K \in OrderedBy(p)
          PROVE  IsPrefix(ShownBy(w1, K), ExpectedOf(p, y, K))
      <4>1. PICK z : z = ExpectedOf(p, y, K)
        OBVIOUS
      <4>2. z \in Seq(Part)
        BY <1>4, <4>1, ExpectedType
      <4>3. ShownBy(w \o e, K) = ShownBy(w, K) \o ShownBy(e, K)
        BY <3>3, ShownConcat
      <4>4. IsPrefix(ShownBy(w, K) \o ShownBy(e, K), z)
        BY <3>5, <4>1, <4>3 DEF InOrder
      <4>5. IsPrefix(ShownBy(w \o SubSeq(e, 1, k), K), z)
        BY <3>3, <3>4, <4>2, <4>4, BeginningShows
      <4> QED  BY <3>1, <3>2, <4>1, <4>5
    <3>7. Shows(SubSeq(e, 1, k))
      BY <3>3, <3>4, ShowsPrefix
    <3>8. Shows(w1)
      <4>1. PICK f : f = SubSeq(e, 1, k)
        OBVIOUS
      <4>2. Shows(w \o f)
        BY <3>3, <3>7, <4>1, ShowsConcat
      <4> QED  BY <3>1, <3>2, <4>1, <4>2
    <3>9. InOrder(p, w1, y) /\ Broken'
      BY <2>5, <3>6 DEF InOrder, Broken
    <3> QED  BY <1>1, <1>2, <2>5, <3>8, <3>9
  <2> QED  BY <2>1, <2>4, <2>5 DEF Write
<1> QED  BY <1>5, <1>6

(* The first state shows nothing, and nothing was sent.                    *)
LEMMA InitContent == Init => ContentInv
<1> SUFFICES ASSUME Init PROVE ContentInv
  OBVIOUS
<1>1. /\ protocol \in Protocols /\ handler = InitialHandler(protocol)
      /\ sent = << >> /\ wire = << >> /\ pc = "open"
  BY DEF Init
<1>2. PICK p, s : p = protocol /\ s = handler
  OBVIOUS
<1>3. SentParts = << >>
  <2>1. [i \in DOMAIN sent |-> PartsOf(sent[i])] = << >>
    BY <1>1
  <2>2. PICK f : f = [i \in DOMAIN sent |-> PartsOf(sent[i])]
    OBVIOUS
  <2>3. FlattenSeq(f) = << >>
    BY <2>1, <2>2, FlattenEmpty
  <2> QED  BY <2>2, <2>3 DEF SentParts
<1>4. Holding(p, s) /\ (p.name # "gemini" => s.aggregate.parts = << >>)
      /\ \A K \in OrderedBy(p) : HeldBy(p, s, K) = << >>
  <2>1. << >> \in Seq(Part) /\ \A K : << >> \in Seq(PartOf(K))
    BY EmptySeq
  <2>2. CASE p.name = "chat"
    <3>1. s.aggregate.parts = << >>
      BY <1>1, <1>2, <2>2 DEF InitialHandler, ChatState, Nothing
    <3> QED  BY <2>1, <2>2, <3>1 DEF Holding, HeldBy
  <2>3. CASE p.name = "responses"
    <3>1. s.aggregate.parts = << >>
      BY <1>1, <1>2, <2>3 DEF InitialHandler, ResponsesState, Nothing
    <3> QED  BY <2>1, <2>3, <3>1, KindsEmpty DEF Holding, HeldBy
  <2>4. CASE p.name = "gemini"
    <3>1. s.pending.payload.parts = << >> /\ s.includeThoughts = p.option
      BY <1>1, <1>2, <2>4 DEF InitialHandler, GeminiState, NoPending, NoPayload
    <3> QED  BY <2>1, <2>4, <3>1 DEF Holding, HeldBy
  <2> QED  BY <1>1, <1>2, <2>2, <2>3, <2>4 DEF Protocols, Names
<1>5. Shows(<< >>) /\ \A K : ShownBy(<< >>, K) = << >>
  BY ShowsEmpty, KindsEmpty DEF ShownBy
<1>6. \A K : OfKind(<< >>, K) = << >>
  BY KindsEmpty
<1>7. Balance(p, s, << >>, << >>)
  <2>1. << >> \o << >> = << >>
    OBVIOUS
  <2> QED  BY <1>4, <1>5, <1>6, <2>1 DEF Balance
<1> QED  BY <1>1, <1>2, <1>3, <1>5, <1>7 DEF ContentInv

(* A result arrives.                                                       *)
LEMMA ArrivalKeepsContent ==
  ASSUME RevisionInv, ContentInv, ResultArrives
  PROVE  ContentInv'
<1> DEFINE N == Len(sent)
<1>1. pc = "stream" /\ protocol' = protocol /\ canceled' = canceled
  BY DEF ResultArrives
<1>2. N \in Nat /\ sent \in Seq(ResultSet) /\ protocol \in Protocols
      /\ HandlerShape(protocol, handler)
  BY LenProperties DEF RevisionInv
<1>3. PICK shape \in Arrivals(protocol.name) :
        LET result == Numbered(shape, N + 1)
            rest   == DetachFinish(result)
        IN
        /\ sent' = Append(sent, result)
        /\ IF IsEmpty(rest) THEN UNCHANGED <<pc, handler, wire, gone>>
                            ELSE Deliver(rest, "stream")
  BY DEF ResultArrives
<1> DEFINE result == Numbered(shape, N + 1)
           rest   == DetachFinish(result)
<1>4. result \in ResultSet
  <2>1. shape \in Shapes
    BY <1>2, ArrivalAssumption DEF Protocols
  <2> QED  BY <1>2, <2>1, NumberedIsResult DEF IsResult
<1>5. /\ sent' = Append(sent, result)
      /\ IF IsEmpty(rest) THEN UNCHANGED <<pc, handler, wire, gone>>
                          ELSE Deliver(rest, "stream")
  BY <1>3
<1> HIDE DEF result
<1>6. /\ rest.parts = result.parts /\ rest.finish = None
      /\ GivenBy(protocol, rest) = GivenBy(protocol, result)
  BY <1>4 DEF DetachFinish, ResultSet, GivenBy
<1>7. PICK x, y, z : x = SentParts /\ y = SentParts' /\ z = GivenBy(protocol, result)
  OBVIOUS
<1>8. x \in Seq(Part) /\ z \in Seq(Part) /\ y = x \o z
  <2>1. x = Given(protocol, sent) /\ y = Given(protocol, Append(sent, result))
    <3>1. x = Given(protocol, sent)
      BY <1>7, ContentNames
    <3>2. y = Given(protocol, sent')
      BY <1>1, <1>7 DEF SentParts, PartsOf, Given, GivenBy
    <3> QED  BY <1>5, <3>1, <3>2
  <2>2. PICK p, q : p = protocol /\ q = sent
    OBVIOUS
  <2>3. /\ Given(p, q) \in Seq(Part) /\ GivenBy(p, result) \in Seq(Part)
        /\ Given(p, Append(q, result)) = Given(p, q) \o GivenBy(p, result)
    <3>1. q \in Seq(ResultSet)
      BY <1>2, <2>2
    <3> QED  BY <1>4, <3>1, GivenAppend
  <2> QED  BY <1>7, <2>1, <2>2, <2>3
<1>9. Balance(protocol, handler, wire, x) /\ Shows(wire)
  BY <1>1, <1>7 DEF ContentInv
<1>10. CASE IsEmpty(rest)
  <2>1. UNCHANGED <<pc, handler, wire, gone>>
    BY <1>5, <1>10
  <2>2. z = << >>
    BY <1>6, <1>7, <1>10 DEF IsEmpty, HasContent, GivenBy
  <2>3. y = x
    BY <1>8, <2>2, ConcatEmptySeq
  <2> QED  BY <1>1, <1>7, <1>9, <2>1, <2>3 DEF ContentInv
<1>11. CASE ~IsEmpty(rest)
  <2>1. Deliver(rest, "stream")
    BY <1>5, <1>11
  <2>2. rest.parts \in Seq(Part)
    BY <1>4, <1>6 DEF ResultSet
  <2> HIDE DEF rest
  <2>3. /\ Shows(wire')
        /\ pc' # "done" => Balance(protocol, handler', wire', x \o GivenBy(protocol, rest))
        /\ pc' = "done" => InOrder(protocol, wire', x \o GivenBy(protocol, rest)) /\ Broken'
    BY <1>1, <1>2, <1>6, <1>8, <1>9, <1>11, <2>1, <2>2, DeliverBalances
  <2>4. x \o GivenBy(protocol, rest) = y
    BY <1>6, <1>7, <1>8
  <2>5. pc' # "done" => Balance(protocol, handler, wire, SentParts)'
    BY <1>1, <1>7, <2>3, <2>4
  <2>6. pc' = "done" => ContentInOrder'
    <3>1. (InOrder(protocol, wire, SentParts) /\ Broken => ContentInOrder)'
      BY BrokenInOrder, PTL
    <3> QED  BY <1>1, <1>7, <2>3, <2>4, <3>1
  <2> QED  BY <2>3, <2>5, <2>6 DEF ContentInv
<1> QED  BY <1>10, <1>11

(* What a stream may write at its end.                                     *)
Completes(p, s, e) ==
  /\ Shows(e)
  /\ \A K \in OrderedBy(p) :
       IF p.name = "responses" /\ K = Calls
         THEN \/ ShownBy(e, K) = DistinctCalls(s.aggregate.parts)
              \/ ShownBy(e, K) = << >> /\ e = << [type |-> "error"] >>
         ELSE ShownBy(e, K) = HeldBy(p, s, K)

LEMMA EndCompletes ==
  ASSUME protocol \in Protocols, HandlerShape(protocol, handler), Holding(protocol, handler)
  PROVE  Completes(protocol, handler, EndEvents) /\ Completes(protocol, handler, ErrorEvents)
<1>1. Completes(protocol, handler, EndEvents)
  <2>1. /\ Shows(EndEvents)
        /\ \A K \in OrderedBy(protocol) : ShownBy(EndEvents, K) = FinalOf(protocol, handler, K)
    BY EndShows
  <2> QED  BY <2>1 DEF Completes, FinalOf
<1>2. Completes(protocol, handler, ErrorEvents)
  <2>1. /\ Shows(ErrorEvents)
        /\ \A K \in OrderedBy(protocol) :
             ShownBy(ErrorEvents, K)
               = IF protocol.name = "responses" THEN << >> ELSE FinalOf(protocol, handler, K)
        /\ protocol.name = "responses" => ErrorEvents = << [type |-> "error"] >>
    BY ErrorShows
  <2> QED  BY <2>1 DEF Completes, FinalOf, HeldBy
<1> QED  BY <1>1, <1>2

(* All that is written then, and a beginning of it.                        *)
LEMMA CompletedInOrder ==
  ASSUME NEW p \in Protocols, NEW s, NEW w, NEW x \in Seq(Part), Balance(p, s, w, x),
         NEW e, Completes(p, s, e)
  PROVE  /\ Shows(w \o e) /\ InOrder(p, w \o e, x)
         /\ \A K \in OrderedBy(p) :
              \/ ShownBy(w \o e, K) = ExpectedOf(p, x, K)
              \/ K = Calls /\ e = << [type |-> "error"] >>
<1>1. Shows(w) /\ Shows(e)
  BY DEF Balance, Completes
<1>2. Shows(w \o e)
  BY <1>1, ShowsConcat
<1>3. ASSUME NEW K \in OrderedBy(p)
      PROVE  /\ IsPrefix(ShownBy(w \o e, K), ExpectedOf(p, x, K))
             /\ \/ ShownBy(w \o e, K) = ExpectedOf(p, x, K)
                \/ K = Calls /\ e = << [type |-> "error"] >>
  <2>1. PICK z : z = ExpectedOf(p, x, K)
    OBVIOUS
  <2>2. z \in Seq(Part)
    BY <2>1, ExpectedType
  <2>3. ShownBy(w \o e, K) = ShownBy(w, K) \o ShownBy(e, K)
    BY <1>1, ShownConcat
  <2>4. CASE p.name = "responses" /\ K = Calls
    <3>1. ShownBy(w, K) = << >> /\ z = DistinctCalls(x) /\ s.aggregate.parts = x
      BY <2>1, <2>4, BalancedInOrder DEF ExpectedOf, Balance
    <3>2. CASE ShownBy(e, K) = z
      <4>1. ShownBy(w \o e, K) = z
        BY <2>2, <2>3, <3>1, <3>2, ConcatEmptySeq
      <4> QED  BY <2>1, <2>2, <4>1, PrefixFacts
    <3>3. CASE ShownBy(e, K) = << >> /\ e = << [type |-> "error"] >>
      <4>1. << >> \o << >> = << >>
        OBVIOUS
      <4>2. ShownBy(w \o e, K) = << >>
        BY <2>3, <3>1, <3>3, <4>1
      <4> QED  BY <2>1, <2>2, <2>4, <3>3, <4>2, PrefixFacts
    <3> QED  BY <2>4, <3>1, <3>2, <3>3 DEF Completes
  <2>5. CASE ~(p.name = "responses" /\ K = Calls)
    <3>1. ShownBy(w \o e, K) = ShownBy(w, K) \o HeldBy(p, s, K)
      BY <2>3, <2>5 DEF Completes
    <3>2. ShownBy(w \o e, K) = z
      BY <2>1, <2>5, <3>1 DEF Balance, ExpectedOf
    <3> QED  BY <2>1, <2>2, <3>2, PrefixFacts
  <2> QED  BY <2>4, <2>5
<1> QED  BY <1>2, <1>3 DEF InOrder

(* The write that ends a stream.                                           *)
LEMMA EndKeepsContent ==
  ASSUME RevisionInv, ContentInv, pc # "done", SentParts \in Seq(Part),
         NEW events, Completes(protocol, handler, events), Write(events, "done"),
         UNCHANGED <<protocol, handler, canceled, sent>>
  PROVE  ContentInv'
<1>1. PICK p, s, w, x, e : /\ p = protocol /\ s = handler /\ w = wire /\ x = SentParts /\ e = events
  OBVIOUS
<1>2. PICK w1 : w1 = wire'
  OBVIOUS
<1>3. p \in Protocols /\ Balance(p, s, w, x) /\ x \in Seq(Part) /\ Completes(p, s, e)
  BY <1>1 DEF RevisionInv, ContentInv
<1>4. /\ Shows(w \o e) /\ InOrder(p, w \o e, x)
      /\ \A K \in OrderedBy(p) :
           \/ ShownBy(w \o e, K) = ExpectedOf(p, x, K)
           \/ K = Calls /\ e = << [type |-> "error"] >>
  BY <1>3, CompletedInOrder
<1>5. p = protocol' /\ x = SentParts'
  BY <1>1 DEF SentParts, PartsOf
<1>6. pc' = "done"
  BY DEF Write
<1>7. CASE wire' = wire \o events
  <2>1. w1 = w \o e
    BY <1>1, <1>2, <1>7
  <2>2. (\E i \in DOMAIN w1 : w1[i].type = "error") \/ e # << [type |-> "error"] >>
    <3>1. CASE e = << [type |-> "error"] >>
      <4>1. PICK S : w \in Seq(S)
        BY <1>3 DEF Balance, Shows
      <4>2. PICK d : d = [type |-> "error"]
        OBVIOUS
      <4>3. Len(w) \in Nat
        BY <4>1, LenProperties
      <4>4. w1 = Append(w, d)
        BY <2>1, <3>1, <4>1, <4>2, AppendIsConcat
      <4>5. Len(w) + 1 \in DOMAIN w1 /\ w1[Len(w) + 1] = d
        BY <4>1, <4>3, <4>4
      <4> QED  BY <4>2, <4>5
    <3> QED  BY <3>1
  <2>3. \A K \in OrderedBy(p) :
          \/ ShownBy(w1, K) = ExpectedOf(p, x, K)
          \/ K = Calls /\ \E i \in DOMAIN w1 : w1[i].type = "error"
    BY <1>4, <2>1, <2>2
  <2>4. InOrder(p, w1, x) /\ Shows(w1)
    BY <1>4, <2>1
  <2>5. (/\ InOrder(protocol, wire, SentParts)
         /\ \A K \in OrderedBy(protocol) :
              \/ ShownBy(wire, K) = ExpectedOf(protocol, SentParts, K)
              \/ K = Calls /\ \E i \in DOMAIN wire : wire[i].type = "error")'
    BY <1>2, <1>5, <2>3, <2>4
  <2>6. ContentInOrder'
    BY <2>5, WholeInOrder, PTL
  <2> QED  BY <1>2, <1>6, <2>4, <2>6 DEF ContentInv
<1>8. CASE (\E k \in 0 .. Len(events) - 1 : wire' = wire \o SubSeq(events, 1, k)) /\ gone' = TRUE
  <2>1. PICK k \in 0 .. Len(events) - 1 : w1 = w \o SubSeq(events, 1, k)
    BY <1>1, <1>2, <1>8
  <2>2. Shows(w) /\ Shows(e)
    BY <1>3 DEF Balance, Completes
  <2>3. k \in 0 .. Len(e)
    BY <1>1, <2>1, <2>2, ShowsParts
  <2>4. w1 = w \o SubSeq(e, 1, k)
    BY <1>1, <2>1
  <2>5. ASSUME NEW K \in OrderedBy(p)
        PROVE  IsPrefix(ShownBy(w1, K), ExpectedOf(p, x, K))
    <3>1. PICK z : z = ExpectedOf(p, x, K)
      OBVIOUS
    <3>2. z \in Seq(Part)
      BY <1>3, <3>1, ExpectedType
    <3>3. ShownBy(w \o e, K) = ShownBy(w, K) \o ShownBy(e, K)
      BY <2>2, ShownConcat
    <3>4. IsPrefix(ShownBy(w, K) \o ShownBy(e, K), z)
      BY <1>4, <3>1, <3>3 DEF InOrder
    <3>5. IsPrefix(ShownBy(w \o SubSeq(e, 1, k), K), z)
      BY <2>2, <2>3, <3>2, <3>4, BeginningShows
    <3> QED  BY <2>4, <3>1, <3>5
  <2>6. Shows(w1)
    <3>1. PICK f : f = SubSeq(e, 1, k)
      OBVIOUS
    <3>2. Shows(f)
      BY <2>2, <2>3, <3>1, ShowsPrefix
    <3>3. Shows(w \o f)
      BY <2>2, <3>2, ShowsConcat
    <3> QED  BY <2>4, <3>1, <3>3
  <2>7. InOrder(p, w1, x)
    BY <2>5 DEF InOrder
  <2>8. (InOrder(protocol, wire, SentParts) /\ Broken)'
    BY <1>2, <1>5, <1>8, <2>7 DEF Broken
  <2>9. ContentInOrder'
    BY <2>8, BrokenInOrder, PTL
  <2> QED  BY <1>2, <1>6, <2>6, <2>9 DEF ContentInv
<1> QED  BY <1>7, <1>8 DEF Write

(* A canceled stream ends silently.                                        *)
LEMMA SilentEndKeepsContent ==
  ASSUME RevisionInv, ContentInv, pc # "done", SentParts \in Seq(Part), canceled, pc' = "done",
         UNCHANGED <<protocol, canceled, wire, sent>>
  PROVE  ContentInv'
<1>1. PICK p, s, w, x : p = protocol /\ s = handler /\ w = wire /\ x = SentParts
  OBVIOUS
<1>2. p \in Protocols /\ Balance(p, s, w, x) /\ x \in Seq(Part)
  BY <1>1 DEF RevisionInv, ContentInv
<1>3. InOrder(p, w, x) /\ Shows(w)
  BY <1>2, BalancedInOrder DEF Balance
<1>4. p = protocol' /\ x = SentParts' /\ w = wire'
  BY <1>1 DEF SentParts, PartsOf
<1>5. (InOrder(protocol, wire, SentParts) /\ Broken)'
  BY <1>3, <1>4 DEF Broken
<1>6. ContentInOrder'
  BY <1>5, BrokenInOrder, PTL
<1> QED  BY <1>3, <1>4, <1>6 DEF ContentInv

LEMMA SentPartsType == ASSUME RevisionInv PROVE SentParts \in Seq(Part)
<1>1. PICK p, q : p = protocol /\ q = sent
  OBVIOUS
<1>2. q \in Seq(ResultSet)
  BY <1>1 DEF RevisionInv
<1>5. SentParts = Given(p, q)
  BY <1>1, ContentNames
<1>3. CASE q = << >>
  <2>1. [i \in DOMAIN q |-> GivenBy(p, q[i])] = << >>
    BY <1>3
  <2>2. PICK f : f = [i \in DOMAIN q |-> GivenBy(p, q[i])]
    OBVIOUS
  <2>3. FlattenSeq(f) = << >>
    BY <2>1, <2>2, FlattenEmpty
  <2>4. Given(p, q) = << >>
    BY <2>2, <2>3 DEF Given
  <2> QED  BY <1>5, <2>4, EmptySeq
<1>4. CASE q # << >>
  <2>1. PICK r : r = q[1]
    OBVIOUS
  <2>2. r \in ResultSet
    BY <1>2, <1>4, <2>1, EmptySeq, LenProperties
  <2> QED  BY <1>2, <1>5, <2>2, GivenAppend
<1> QED  BY <1>3, <1>4

(* The flush hands the finish reason on, which has no content.             *)
LEMMA FlushKeepsContent ==
  ASSUME RevisionInv, ContentInv, UpstreamEnds
  PROVE  ContentInv'
<1>1. pc = "stream" /\ UNCHANGED <<protocol, canceled, sent>>
  BY DEF UpstreamEnds
<1>2. protocol \in Protocols /\ HandlerShape(protocol, handler)
  BY DEF RevisionInv
<1>3. PICK x : x = SentParts
  OBVIOUS
<1>4. x \in Seq(Part) /\ Balance(protocol, handler, wire, x) /\ Shows(wire)
  BY <1>1, <1>3, SentPartsType DEF ContentInv
<1>5. x = SentParts'
  BY <1>1, <1>3 DEF SentParts, PartsOf
<1>6. CASE pendingFinish = None
  <2>1. pc' = "flushed" /\ UNCHANGED <<handler, wire, gone>>
    BY <1>6 DEF UpstreamEnds
  <2> QED  BY <1>1, <1>4, <1>5, <2>1 DEF ContentInv
<1>7. CASE pendingFinish # None
  <2>1. PICK rest : rest = FinishResult(pendingFinish)
    OBVIOUS
  <2>2. Deliver(rest, "flushed") /\ pendingFinish \in Reasons
    BY <1>7, <2>1 DEF UpstreamEnds, RevisionInv
  <2>3. rest.parts = << >> /\ rest.feedback = FALSE
    BY <2>1 DEF FinishResult, EmptyResult
  <2>4. ~IsEmpty(rest)
    BY <2>1, <2>2, FinishMeasures DEF RevisionInv, Bounded
  <2>5. rest.parts \in Seq(Part) /\ GivenBy(protocol, rest) = << >>
    BY <2>3, EmptySeq DEF GivenBy
  <2>6. x \o GivenBy(protocol, rest) = x
    BY <1>4, <2>5, ConcatEmptySeq
  <2>7. /\ Shows(wire')
        /\ pc' # "done" => Balance(protocol, handler', wire', x \o GivenBy(protocol, rest))
        /\ pc' = "done" => InOrder(protocol, wire', x \o GivenBy(protocol, rest)) /\ Broken'
    BY <1>1, <1>2, <1>4, <2>2, <2>3, <2>4, <2>5, DeliverBalances
  <2>8. pc' # "done" => Balance(protocol, handler, wire, SentParts)'
    BY <1>1, <1>5, <2>6, <2>7
  <2>9. pc' = "done" => ContentInOrder'
    <3>1. (InOrder(protocol, wire, SentParts) /\ Broken => ContentInOrder)'
      BY BrokenInOrder, PTL
    <3> QED  BY <1>1, <1>5, <2>6, <2>7, <3>1
  <2> QED  BY <2>7, <2>8, <2>9 DEF ContentInv
<1> QED  BY <1>6, <1>7

(* The first events of a stream show nothing.                              *)
LEMMA StartShows ==
  ASSUME NEW compacted
  PROVE  Shows(ResponsesStart(compacted)) /\ Contents(ResponsesStart(compacted)) = << >>
<1> DEFINE none == Item("compaction", << >>)
<1>1. PICK a, b, c, d : /\ a = [type |-> "created"] /\ b = [type |-> "in_progress"]
                        /\ c = Added(0, none) /\ d = Done(0, none)
  OBVIOUS
<1>2. ContentOf(a) = << >> /\ ContentOf(b) = << >>
  BY <1>1 DEF ContentOf
<1>3. ContentOf(c) = << >> /\ ContentOf(d) = << >>
  <2>1. ContentOf(c) = << >>
    BY <1>1 DEF Added, Item, ContentOf
  <2>2. ContentOf(d) = << >>
    BY <1>1 DEF Done, ContentOf
  <2> QED  BY <2>1, <2>2
<1>4. PICK s, t : s = << a, b >> /\ t = IF compacted THEN << c, d >> ELSE << >>
  OBVIOUS
<1>5. ResponsesStart(compacted) = s \o t
  BY <1>1, <1>4 DEF ResponsesStart
<1>6. PICK S : S = {a, b, c, d}
  OBVIOUS
<1>7. s \in Seq(S) /\ t \in Seq(S)
  <2>1. a \in S /\ b \in S /\ c \in S /\ d \in S
    BY <1>6
  <2>2. << a, b >> \in Seq(S) /\ << c, d >> \in Seq(S) /\ << >> \in Seq(S)
    BY <2>1
  <2> QED  BY <1>4, <2>2
<1>8. \A e \in S : ContentOf(e) = << >>
  BY <1>2, <1>3, <1>6
<1>9. PICK u : u = s \o t
  OBVIOUS
<1>10. u \in Seq(S)
  BY <1>7, <1>9, ConcatType
<1>11. Shows(u) /\ Contents(u) = << >>
  BY <1>8, <1>10, ShowsNothing
<1> QED  BY <1>5, <1>9, <1>11

LEMMA OpenKeepsContent ==
  ASSUME RevisionInv, ContentInv, Open
  PROVE  ContentInv'
<1>1. pc = "open" /\ UNCHANGED <<protocol, handler, canceled, sent>>
  BY DEF Open
<1>2. PICK p, s, w, x : p = protocol /\ s = handler /\ w = wire /\ x = SentParts
  OBVIOUS
<1>3. PICK e : e = IF p.name = "responses" THEN ResponsesStart(p.option) ELSE << >>
  OBVIOUS
<1>4. Write(e, "stream")
  BY <1>2, <1>3 DEF Open
<1>5. Shows(e) /\ Contents(e) = << >>
  BY <1>3, StartShows, ShowsEmpty
<1>6. p \in Protocols /\ Balance(p, s, w, x) /\ x \in Seq(Part)
  BY <1>1, <1>2, SentPartsType DEF RevisionInv, ContentInv
<1>7. PICK w1 : w1 = wire'
  OBVIOUS
<1>8. p = protocol' /\ x = SentParts' /\ s = handler'
  BY <1>1, <1>2 DEF SentParts, PartsOf
<1>9. ASSUME NEW f, Shows(f), Contents(f) = << >>, w1 = w \o f
      PROVE  Balance(p, s, w1, x) /\ Shows(w1)
  <2>1. Shows(w1)
    BY <1>6, <1>9, ShowsConcat DEF Balance
  <2>2. ASSUME NEW K PROVE ShownBy(w1, K) = ShownBy(w, K)
    <3>1. Shows(w)
      BY <1>6 DEF Balance
    <3>2. Contents(w) \in Seq(Part) /\ Contents(w1) = Contents(w) \o << >>
      BY <1>9, <3>1, ShowsConcat, ContentsType
    <3>3. Contents(w1) = Contents(w)
      BY <3>2, ConcatEmptySeq
    <3> QED  BY <3>3 DEF ShownBy
  <2> QED  BY <1>6, <2>1, <2>2 DEF Balance
<1>10. CASE wire' = wire \o e /\ pc' = "stream"
  <2>1. Balance(p, s, w1, x) /\ Shows(w1)
    BY <1>2, <1>5, <1>7, <1>9, <1>10
  <2> QED  BY <1>7, <1>8, <1>10, <2>1 DEF ContentInv
<1>11. CASE (\E k \in 0 .. Len(e) - 1 : wire' = wire \o SubSeq(e, 1, k)) /\ pc' = "done" /\ gone' = TRUE
  <2>1. PICK k \in 0 .. Len(e) - 1 : w1 = w \o SubSeq(e, 1, k)
    BY <1>2, <1>7, <1>11
  <2>2. PICK f : f = SubSeq(e, 1, k)
    OBVIOUS
  <2>3. Shows(f) /\ Contents(f) = << >>
    <3>1. k \in 0 .. Len(e)
      BY <1>5, <2>1, ShowsParts
    <3>2. Shows(f) /\ IsPrefix(Contents(f), << >>)
      BY <1>5, <2>2, <3>1, ShowsPrefix
    <3>3. Contents(f) \in Seq(Part)
      BY <3>2, ContentsType
    <3>4. PICK u \in Seq(Part) : << >> = Contents(f) \o u
      BY <3>2, <3>3, EmptySeq, PrefixIsConcat
    <3>5. Len(<< >>) = Len(Contents(f)) + Len(u)
      BY <3>3, <3>4, ConcatProperties, Zenon
    <3>6. Len(Contents(f)) = 0
      <4>1. Len(Contents(f)) \in Nat /\ Len(u) \in Nat
        BY <3>3, <3>4, LenProperties, Zenon
      <4>2. Len(<< >>) = 0
        OBVIOUS
      <4> QED  BY <3>5, <4>1, <4>2
    <3> QED  BY <3>2, <3>3, <3>6, EmptySeq
  <2>4. Balance(p, s, w1, x) /\ Shows(w1)
    BY <1>9, <2>1, <2>2, <2>3
  <2>5. InOrder(p, w1, x)
    BY <1>6, <2>4, BalancedInOrder
  <2>6. (InOrder(protocol, wire, SentParts) /\ Broken)'
    BY <1>7, <1>8, <1>11, <2>5 DEF Broken
  <2>7. ContentInOrder'
    BY <2>6, BrokenInOrder, PTL
  <2> QED  BY <1>7, <1>11, <2>4, <2>7 DEF ContentInv
<1> QED  BY <1>4, <1>10, <1>11 DEF Write

LEMMA NextContent == RevisionInv /\ ContentInv /\ [Next]_vars => ContentInv'
<1> SUFFICES ASSUME RevisionInv, ContentInv, [Next]_vars PROVE ContentInv'
  OBVIOUS
<1>1. SentParts \in Seq(Part)
  BY SentPartsType
<1>2. pc # "done" => Completes(protocol, handler, EndEvents) /\ Completes(protocol, handler, ErrorEvents)
  BY EndCompletes DEF RevisionInv, ContentInv, Balance
<1>3. CASE Open
  BY <1>3, OpenKeepsContent
<1>4. CASE ResultArrives
  BY <1>4, ArrivalKeepsContent
<1>5. CASE UpstreamEnds
  BY <1>5, FlushKeepsContent
<1>6. CASE HandlerEnds
  <2>1. pc = "flushed" /\ UNCHANGED <<protocol, handler, canceled, sent>>
    BY <1>6 DEF HandlerEnds
  <2>2. CASE canceled /\ protocol.name = "chat"
    <3>1. pc' = "done" /\ wire' = wire
      BY <1>6, <2>2 DEF HandlerEnds
    <3> QED  BY <1>1, <2>1, <2>2, <3>1, SilentEndKeepsContent
  <2>3. CASE ~(canceled /\ protocol.name = "chat")
    <3>1. Write(EndEvents, "done")
      BY <1>6, <2>3 DEF HandlerEnds
    <3> QED  BY <1>1, <1>2, <2>1, <3>1, EndKeepsContent
  <2> QED  BY <2>2, <2>3
<1>7. CASE StreamFails
  <2>1. pc # "done" /\ UNCHANGED <<protocol, handler, canceled, sent>>
    BY <1>7 DEF StreamFails
  <2>2. CASE canceled
    <3>1. pc' = "done" /\ wire' = wire
      BY <1>7, <2>2 DEF StreamFails
    <3> QED  BY <1>1, <2>1, <2>2, <3>1, SilentEndKeepsContent
  <2>3. CASE ~canceled
    <3>1. Write(ErrorEvents, "done")
      BY <1>7, <2>3 DEF StreamFails
    <3> QED  BY <1>1, <1>2, <2>1, <3>1, EndKeepsContent
  <2> QED  BY <2>2, <2>3
<1>8. CASE Cancel
  <2>1. pc # "done" /\ UNCHANGED <<protocol, pc, handler, wire, sent>>
    BY <1>8 DEF Cancel
  <2>2. SentParts' = SentParts
    BY <2>1 DEF SentParts, PartsOf
  <2> QED  BY <2>1, <2>2 DEF ContentInv
<1>9. CASE UNCHANGED vars
  <2>1. UNCHANGED <<protocol, pc, handler, wire, sent, gone, canceled>>
    BY <1>9 DEF vars
  <2>2. SentParts' = SentParts
    BY <2>1 DEF SentParts, PartsOf
  <2>3. ContentInOrder => ContentInOrder'
    BY <2>1, <2>2 DEF ContentInOrder, Ordered, Shown, Expected, Concluded
  <2> QED  BY <2>1, <2>2, <2>3 DEF ContentInv
<1> QED  BY <1>3, <1>4, <1>5, <1>6, <1>7, <1>8, <1>9 DEF Next

LEMMA StreamContent == Spec => []ContentInv
BY InitContent, NextContent, StreamRevision, PTL DEF Spec

(* What the client is shown is at any time a beginning of what the upstream*)
(* sent, in its order and nothing twice, and all of it at the end: for any *)
(* results, calls and lengths of the stream.                               *)
THEOREM ContentIsInOrder == Spec => []ContentInOrder
<1>1. RevisionInv /\ ContentInv => ContentInOrder
  <2> SUFFICES ASSUME RevisionInv, ContentInv, pc # "done" PROVE ContentInOrder
    BY DEF ContentInv
  <2>1. protocol \in Protocols /\ Balance(protocol, handler, wire, SentParts)
    BY DEF RevisionInv, ContentInv
  <2>2. PICK p, s, w, x : p = protocol /\ s = handler /\ w = wire /\ x = SentParts
    OBVIOUS
  <2>3. p \in Protocols /\ Balance(p, s, w, x) /\ x \in Seq(Part)
    BY <2>1, <2>2, SentPartsType
  <2>4. InOrder(p, w, x)
    BY <2>3, BalancedInOrder
  <2>5. InOrder(protocol, wire, SentParts) /\ ~Concluded
    BY <2>2, <2>4 DEF Concluded
  <2> QED  BY <2>5, ContentNames DEF InOrder, ContentInOrder
<1> QED  BY <1>1, StreamRevision, StreamContent, PTL

(***************************************************************************)
(* The end of a stream: chunks, and then what closes it.                   *)
(***************************************************************************)
EndEvent(reason) == [type |-> "end", reason |-> reason, usage |-> RightUsage]
FinalEvent(type, output) == [type |-> type, output |-> output, usage |-> RightUsage]

Closes(chunks, closing) ==
  \/ closing = << >> /\ (~Concluded \/ protocol.name = "gemini")
  \/ /\ protocol.name = "chat" /\ gone
     /\ \E reason : closing = << EndEvent(reason) >>
  \/ /\ protocol.name = "chat"
     /\ \E reason : closing = << EndEvent(reason), [type |-> "[DONE]"] >>
  \/ /\ protocol.name = "responses"
     /\ \E type \in {"completed", "failed"} : \E output : closing = << FinalEvent(type, output) >>
  \/ closing = << [type |-> "error"] >>
  \/ closing = << [type |-> "http_error"] >> /\ chunks = << >>

Running ==
  /\ Typed(wire, ChunkTypes(protocol))
  /\ wire # << >> => Committed(protocol, handler)

Ended ==
  \E chunks, closing :
    /\ wire = chunks \o closing
    /\ Typed(chunks, ChunkTypes(protocol))
    /\ Closes(chunks, closing)

EndInv == IF pc # "done" THEN Running ELSE Ended

(* The events of chunks with their closing.                                *)
LEMMA WireParts ==
  ASSUME NEW types, NEW chunks, Typed(chunks, types), NEW S, NEW closing \in Seq(S)
  PROVE  /\ Len(chunks) \in Nat /\ Len(closing) \in Nat
         /\ Len(chunks \o closing) = Len(chunks) + Len(closing)
         /\ DOMAIN (chunks \o closing) = 1 .. Len(chunks) + Len(closing)
         /\ \A i \in 1 .. Len(chunks) :
              (chunks \o closing)[i].type \in types /\ IsEvent((chunks \o closing)[i], types)
         /\ \A i \in 1 .. Len(closing) : (chunks \o closing)[Len(chunks) + i] = closing[i]
<1>1. PICK T : chunks \in Seq(T) /\ \A e \in T : IsEvent(e, types)
  BY DEF Typed
<1>2. chunks \in Seq(S \cup T) /\ closing \in Seq(S \cup T)
  BY <1>1, SeqMonotonic
<1>3. Len(chunks) \in Nat /\ Len(closing) \in Nat
  BY <1>2, LenProperties
<1>4. /\ chunks \o closing \in Seq(S \cup T)
      /\ Len(chunks \o closing) = Len(chunks) + Len(closing)
      /\ \A i \in 1 .. Len(chunks) + Len(closing) :
           (chunks \o closing)[i] = IF i <= Len(chunks) THEN chunks[i] ELSE closing[i - Len(chunks)]
  BY <1>2, ConcatProperties
<1>5. DOMAIN (chunks \o closing) = 1 .. Len(chunks) + Len(closing)
  BY <1>4, LenProperties
<1>6. \A i \in 1 .. Len(chunks) : chunks[i].type \in types /\ IsEvent(chunks[i], types)
  BY TypedEvents
<1>7. \A i \in 1 .. Len(chunks) :
        (chunks \o closing)[i].type \in types /\ IsEvent((chunks \o closing)[i], types)
  BY <1>3, <1>4, <1>6
<1>8. \A i \in 1 .. Len(closing) : (chunks \o closing)[Len(chunks) + i] = closing[i]
  BY <1>3, <1>4
<1> QED  BY <1>3, <1>4, <1>5, <1>7, <1>8

(* A sequence of chunks is one with an empty closing.                      *)
LEMMA NoClosing ==
  ASSUME NEW types, NEW chunks, Typed(chunks, types)
  PROVE  chunks \o << >> = chunks
<1>1. PICK T : chunks \in Seq(T) /\ \A e \in T : IsEvent(e, types)
  BY DEF Typed
<1> QED  BY <1>1, ConcatEmptySeq

(* What closes is a sequence of at most two events.                        *)
LEMMA ClosingEvents ==
  ASSUME NEW chunks, NEW closing, Closes(chunks, closing)
  PROVE  /\ \E S : closing \in Seq(S)
         /\ Len(closing) \in {0, 1, 2}
<1>1. CASE closing = << >>
  <2> DEFINE S == {}
  <2>1. closing \in Seq(S) /\ Len(closing) = 0
    BY <1>1
  <2> HIDE DEF S
  <2> QED  BY <2>1
<1>2. ASSUME NEW e, closing = << e >>
      PROVE  /\ \E S : closing \in Seq(S)
             /\ Len(closing) \in {0, 1, 2}
  <2> DEFINE S == {e}
  <2>1. closing \in Seq(S) /\ Len(closing) = 1
    BY <1>2
  <2> HIDE DEF S
  <2> QED  BY <2>1
<1>3. ASSUME NEW e, NEW d, closing = << e, d >>
      PROVE  /\ \E S : closing \in Seq(S)
             /\ Len(closing) \in {0, 1, 2}
  <2> DEFINE S == {e, d}
  <2>1. closing \in Seq(S) /\ Len(closing) = 2
    BY <1>3
  <2> HIDE DEF S
  <2> QED  BY <2>1
<1> QED  BY <1>1, <1>2, <1>3 DEF Closes

(* Such a wire is as it should be at the end.                              *)
LEMMA EndedIsRight ==
  ASSUME protocol \in Protocols, pc = "done", Ended
  PROVE  EndIsLast /\ (protocol.name # "gemini" => UsageIsCurrent)
<1> DEFINE types == ChunkTypes(protocol)
           Final == {"end", "completed", "failed", "gemini"}
<1>1. PICK chunks, closing :
        /\ wire = chunks \o closing
        /\ Typed(chunks, types)
        /\ Closes(chunks, closing)
  BY DEF Ended
<1> DEFINE n == Len(chunks)
<1>2. /\ types \cap EndTypes = {}
      /\ protocol.name # "gemini" => types \cap Final = {}
      /\ protocol.name \in Names
  BY DEF ChunkTypes, ItemTypes, EndTypes, Protocols, Names
<1> HIDE DEF types
<1>3. /\ n \in Nat /\ Len(wire) = n + Len(closing)
      /\ DOMAIN wire = 1 .. n + Len(closing)
      /\ \A i \in 1 .. n : wire[i].type \in types
      /\ \A i \in 1 .. Len(closing) : wire[n + i] = closing[i]
  <2>1. PICK S : closing \in Seq(S)
    BY <1>1, ClosingEvents
  <2> QED  BY <1>1, <2>1, WireParts
<1>4. \A i \in 1 .. n : wire[i].type \notin EndTypes /\ wire[i].type # "http_error"
  BY <1>2, <1>3 DEF EndTypes
<1> HIDE DEF n
<1>5. CASE closing = << >> /\ (~Concluded \/ protocol.name = "gemini")
  <2>1. Len(closing) = 0
    BY <1>5
  <2>2. \A i \in DOMAIN wire : wire[i].type \notin EndTypes /\ wire[i].type # "http_error"
    BY <1>3, <1>4, <2>1
  <2> QED  BY <1>5, <2>2 DEF EndIsLast, UsageIsCurrent
<1>6. CASE /\ protocol.name = "chat" /\ gone
           /\ \E reason : closing = << EndEvent(reason) >>
  <2>1. PICK reason : closing = << EndEvent(reason) >>
    BY <1>6
  <2>2. Len(closing) = 1 /\ 1 \in 1 .. Len(closing) /\ closing[1].type = "end"
    BY <2>1 DEF EndEvent
  <2>3. wire[n + 1].type = "end" /\ DOMAIN wire = 1 .. n + 1
    BY <1>3, <2>2
  <2>4. \A i \in DOMAIN wire : wire[i].type \notin EndTypes /\ wire[i].type # "http_error"
    BY <1>3, <1>4, <2>3 DEF EndTypes
  <2>5. ~Concluded
    BY <1>6 DEF Concluded
  <2> QED  BY <2>4, <2>5 DEF EndIsLast, UsageIsCurrent
<1>7. CASE /\ protocol.name = "chat"
           /\ \E reason : closing = << EndEvent(reason), [type |-> "[DONE]"] >>
  <2>1. PICK reason : closing = << EndEvent(reason), [type |-> "[DONE]"] >>
    BY <1>7
  <2>2. /\ Len(closing) = 2 /\ 1 \in 1 .. Len(closing) /\ 2 \in 1 .. Len(closing)
        /\ closing[1].type = "end" /\ closing[1].usage = RightUsage
        /\ closing[2].type = "[DONE]"
    BY <2>1 DEF EndEvent
  <2>3. /\ wire[n + 1].type = "end" /\ wire[n + 1].usage = RightUsage
        /\ wire[n + 2].type = "[DONE]"
        /\ Len(wire) = n + 2 /\ DOMAIN wire = 1 .. n + 2
    BY <1>3, <2>2
  <2>4. EndIsLast
    BY <1>3, <1>4, <2>3 DEF EndIsLast, EndTypes, Last
  <2>5. UsageIsCurrent
    <3> DEFINE measured == {i \in DOMAIN wire : wire[i].type \in Final}
    <3>1. \A i \in DOMAIN wire : wire[i].type \in Final <=> i = n + 1
      BY <1>2, <1>3, <1>7, <2>3
    <3>2. measured \in SUBSET Nat /\ n + 1 \in measured /\ \A i \in measured : i <= n + 1
      BY <1>3, <2>3, <3>1
    <3>3. Max(measured) = n + 1
      BY <3>2, MaxIsGreatest
    <3> QED  BY <2>3, <3>3 DEF UsageIsCurrent
  <2> QED  BY <2>4, <2>5
<1>8. CASE closing = << [type |-> "error"] >>
  <2>1. Len(closing) = 1 /\ 1 \in 1 .. Len(closing) /\ closing[1].type = "error"
    BY <1>8
  <2>2. wire[n + 1].type = "error" /\ Len(wire) = n + 1 /\ DOMAIN wire = 1 .. n + 1
    BY <1>3, <2>1
  <2>3. EndIsLast
    BY <1>3, <1>4, <2>2 DEF EndIsLast, EndTypes, Last
  <2>4. protocol.name # "gemini" => {i \in DOMAIN wire : wire[i].type \in Final} = {}
    BY <1>2, <1>3, <2>2
  <2> QED  BY <2>3, <2>4 DEF UsageIsCurrent
<1>9. CASE closing = << [type |-> "http_error"] >> /\ chunks = << >>
  <2>1. n = 0 /\ Len(closing) = 1 /\ 1 \in 1 .. Len(closing) /\ closing[1].type = "http_error"
    BY <1>9 DEF n
  <2>2. Len(wire) = 1 /\ DOMAIN wire = 1 .. 1 /\ wire[1].type = "http_error"
    BY <1>3, <2>1
  <2>3. EndIsLast
    BY <2>2 DEF EndIsLast, EndTypes, Last
  <2>4. {i \in DOMAIN wire : wire[i].type \in Final} = {}
    BY <2>2
  <2> QED  BY <2>3, <2>4 DEF UsageIsCurrent
<1>10. CASE /\ protocol.name = "responses"
            /\ \E type \in {"completed", "failed"} : \E output : closing = << FinalEvent(type, output) >>
  <2>1. PICK type \in {"completed", "failed"} :
          \E output : closing = << FinalEvent(type, output) >>
    BY <1>10
  <2>9. PICK output : closing = << FinalEvent(type, output) >>
    BY <2>1
  <2>2. /\ Len(closing) = 1 /\ 1 \in 1 .. Len(closing)
        /\ closing[1].type = type /\ closing[1].usage = RightUsage
    BY <2>9 DEF FinalEvent
  <2>3. /\ wire[n + 1].type = type /\ wire[n + 1].usage = RightUsage
        /\ Len(wire) = n + 1 /\ DOMAIN wire = 1 .. n + 1
    BY <1>3, <2>2
  <2>4. type \in EndTypes /\ type # "http_error"
    BY DEF EndTypes
  <2>5. EndIsLast
    BY <1>3, <1>4, <2>3, <2>4 DEF EndIsLast, Last
  <2>6. UsageIsCurrent
    <3> DEFINE measured == {i \in DOMAIN wire : wire[i].type \in Final}
    <3>1. \A i \in DOMAIN wire : wire[i].type \in Final <=> i = n + 1
      BY <1>2, <1>3, <1>10, <2>3
    <3>2. measured \in SUBSET Nat /\ n + 1 \in measured /\ \A i \in measured : i <= n + 1
      BY <1>3, <2>3, <3>1
    <3>3. Max(measured) = n + 1
      BY <3>2, MaxIsGreatest
    <3> QED  BY <2>3, <3>3 DEF UsageIsCurrent
  <2> QED  BY <2>5, <2>6
<1> QED  BY <1>1, <1>5, <1>6, <1>7, <1>8, <1>9, <1>10 DEF Closes

(* The first k of some chunks and one more event are chunks.               *)
LEMMA PrefixOfLonger ==
  ASSUME NEW types, NEW s, Typed(s, types), NEW e, NEW k \in 0 .. Len(s)
  PROVE  Typed(SubSeq(s \o << e >>, 1, k), types)
<1>1. PICK S : s \in Seq(S) /\ \A x \in S : IsEvent(x, types)
  BY DEF Typed
<1>2. Len(s) \in Nat
  BY <1>1, LenProperties
<1>3. \A i \in 1 .. k : (s \o << e >>)[i] = s[i] /\ s[i] \in S
  <2> DEFINE T == S \cup {e}
  <2>1. s \in Seq(T) /\ << e >> \in Seq(T) /\ Len(<< e >>) = 1
    BY <1>1, SeqMonotonic
  <2> HIDE DEF T
  <2>2. \A i \in 1 .. Len(s) + 1 :
          (s \o << e >>)[i] = IF i <= Len(s) THEN s[i] ELSE << e >>[i - Len(s)]
    BY <2>1, ConcatProperties
  <2>3. \A i \in 1 .. k : i \in 1 .. Len(s) + 1 /\ i \in 1 .. Len(s) /\ i <= Len(s)
    BY <1>2
  <2> QED  BY <1>1, <2>2, <2>3, ElementOfSeq
<1>4. SubSeq(s \o << e >>, 1, k) \in Seq(S)
  BY <1>2, <1>3, SubSeqProperties
<1> QED  BY <1>1, <1>4, TypedBy

(* The beginnings of two events.                                           *)
LEMMA BeginningsOfTwo ==
  ASSUME NEW a, NEW b
  PROVE  SubSeq(<< a, b >>, 1, 0) = << >> /\ SubSeq(<< a, b >>, 1, 1) = << a >>
<1> DEFINE S == {a, b}
           s == SubSeq(<< a, b >>, 1, 1)
<1>1. SubSeq(<< a, b >>, 1, 0) = << >>
  BY SubSeqEmpty
<1>2. << a, b >>[1] = a /\ a \in S /\ << a >> \in Seq(S) /\ Len(<< a >>) = 1
  OBVIOUS
<1> HIDE DEF S
<1>3. \A i \in 1 .. 1 : << a, b >>[i] \in S
  BY <1>2
<1>4. s \in Seq(S) /\ Len(s) = 1 /\ s[1] = a
  BY <1>2, <1>3, SubSeqProperties
<1> HIDE DEF s
<1>5. \A i \in 1 .. Len(s) : s[i] = << a >>[i]
  BY <1>4
<1>6. s = << a >>
  BY <1>2, <1>4, <1>5, SeqEqual
<1> QED  BY <1>1, <1>6 DEF s

(* A stream that breaks off, or ends without a word, leaves chunks.        *)
LEMMA BrokenOff ==
  ASSUME pc' = "done", Typed(wire', ChunkTypes(protocol')),
         gone' \/ canceled' \/ protocol'.name = "gemini"
  PROVE  Ended'
<1>1. PICK chunks : chunks = wire'
  OBVIOUS
<1>2. PICK closing : closing = << >>
  OBVIOUS
<1>3. Closes(chunks, closing)'
  BY <1>2 DEF Closes, Concluded
<1>4. wire' = chunks \o closing /\ Typed(chunks, ChunkTypes(protocol'))
  BY <1>1, <1>2, NoClosing
<1> QED  BY <1>3, <1>4 DEF Ended

(* A callback adds chunks, or the first of them and the stream is over.    *)
LEMMA DeliverEnds ==
  ASSUME protocol \in Protocols, gone = FALSE, HandlerShape(protocol, handler), Running,
         NEW r, ~IsEmpty(r), NEW next, next # "done", Deliver(r, next),
         protocol' = protocol, canceled' = canceled
  PROVE  EndInv'
<1> DEFINE types == ChunkTypes(protocol)
           o == OnResult(r)
<1>1. Typed(wire, types) /\ (wire # << >> => Committed(protocol, handler))
  BY DEF Running
<1>2. CASE canceled /\ pc' = "done" /\ UNCHANGED <<handler, wire, gone>>
  BY <1>1, <1>2, BrokenOff DEF EndInv
<1>3. CASE /\ HandlerStep(protocol, handler, r, o)
           /\ handler' = o.state
           /\ pc' = next /\ gone' = FALSE /\ wire' = wire \o o.events
  <2>1. /\ Typed(o.events, types)
        /\ Committed(protocol, handler) \/ o.events # << >> => Committed(protocol, o.state)
    BY <1>3 DEF HandlerStep
  <2>2. Typed(wire', types)
    BY <1>1, <1>3, <2>1, TypedConcat
  <2>3. wire = << >> /\ o.events = << >> => wire' = << >>
    BY <1>3
  <2>4. wire' # << >> => Committed(protocol, handler')
    BY <1>1, <1>3, <2>1, <2>3
  <2>5. Running'
    BY <2>2, <2>4 DEF Running
  <2> QED  BY <1>3, <2>5 DEF EndInv
<1>4. CASE /\ HandlerStep(protocol, handler, r, o)
           /\ pc' = "done" /\ gone' = TRUE
           /\ \E k \in 0 .. Len(o.events) - 1 : wire' = wire \o SubSeq(o.events, 1, k)
  <2>1. Typed(o.events, types)
    BY <1>4 DEF HandlerStep
  <2>2. PICK k \in 0 .. Len(o.events) - 1 : wire' = wire \o SubSeq(o.events, 1, k)
    BY <1>4
  <2> HIDE DEF o
  <2>3. Typed(wire', types)
    BY <1>1, <2>1, <2>2, TypedPrefix, TypedConcat
  <2> QED  BY <1>4, <2>3, BrokenOff DEF EndInv
<1>5. \/ canceled /\ pc' = "done" /\ UNCHANGED <<handler, wire, gone>>
      \/ /\ HandlerStep(protocol, handler, r, o)
         /\ handler' = o.state
         /\ \/ pc' = next /\ gone' = FALSE /\ wire' = wire \o o.events
            \/ /\ pc' = "done" /\ gone' = TRUE
               /\ \E k \in 0 .. Len(o.events) - 1 : wire' = wire \o SubSeq(o.events, 1, k)
  BY DeliverStep
<1> HIDE DEF o
<1> QED  BY <1>2, <1>3, <1>4, <1>5

(* Chunks already written and something that closes them.                  *)
LEMMA EndedWith ==
  ASSUME NEW chunks, NEW closing, pc' = "done", protocol' = protocol,
         wire' = chunks \o closing, Typed(chunks, ChunkTypes(protocol)),
         Closes(chunks, closing)'
  PROVE  Ended'
BY DEF Ended

(* A Chat stream ends with its reason, its usage and [DONE].               *)
LEMMA ChatEnds ==
  ASSUME RevisionInv, protocol.name = "chat", Running, HandlerEnds
  PROVE  EndInv'
<1>1. /\ pc = "flushed" /\ pc' = "done" /\ UNCHANGED <<protocol, handler, canceled, sent>>
  BY DEF HandlerEnds, Write
<1>2. Typed(wire, ChunkTypes(protocol))
  BY DEF Running
<1>3. RightUsage' = RightUsage
  BY <1>1 DEF RightUsage
<1> DEFINE reason == OpenAIFinishReason(handler.aggregate)
           end == EndEvent(reason)
           last == [type |-> "[DONE]"]
<1>4. CASE canceled
  <2>1. wire' = wire /\ canceled'
    BY <1>1, <1>4 DEF HandlerEnds
  <2> QED  BY <1>1, <1>2, <2>1, BrokenOff DEF EndInv
<1>5. CASE ~canceled
  <2>1. Write(ChatEnd(handler), "done")
    BY <1>5 DEF HandlerEnds, EndEvents
  <2>2. ChatEnd(handler) = << end, last >>
    <3>1. CurrentMetadata(handler.revision) = RightUsage
      BY <1>1, MeasuredIsRight DEF RevisionInv
    <3> QED  BY <3>1 DEF ChatEnd, EndEvent
  <2>3. PICK r : r = reason
    OBVIOUS
  <2>4. PICK chunks : chunks = wire
    OBVIOUS
  <2> HIDE DEF reason
  <2>5. CASE wire' = wire \o << end, last >>
    <3>1. PICK closing : closing = << end, last >>
      OBVIOUS
    <3>2. closing = << EndEvent(r)', [type |-> "[DONE]"] >>
      BY <1>3, <2>3, <3>1 DEF EndEvent
    <3>3. Closes(chunks, closing)'
      BY <1>1, <3>2 DEF Closes
    <3> QED  BY <1>1, <1>2, <2>4, <2>5, <3>1, <3>3, EndedWith DEF EndInv
  <2>6. CASE gone' = TRUE /\ wire' = wire
    BY <1>1, <1>2, <2>6, BrokenOff DEF EndInv
  <2>7. CASE gone' = TRUE /\ wire' = wire \o << end >>
    <3>1. PICK closing : closing = << end >>
      OBVIOUS
    <3>2. closing = << EndEvent(r)' >>
      BY <1>3, <2>3, <3>1 DEF EndEvent
    <3>3. Closes(chunks, closing)'
      BY <1>1, <2>7, <3>2 DEF Closes
    <3> QED  BY <1>1, <1>2, <2>4, <2>7, <3>1, <3>3, EndedWith DEF EndInv
  <2>8. ASSUME NEW k \in 0 .. Len(<< end, last >>) - 1, gone' = TRUE,
               wire' = wire \o SubSeq(<< end, last >>, 1, k)
        PROVE  gone' = TRUE /\ (wire' = wire \/ wire' = wire \o << end >>)
    <3> HIDE DEF end, last
    <3>1. k \in {0, 1}
      BY <2>8
    <3>2. SubSeq(<< end, last >>, 1, 0) = << >> /\ SubSeq(<< end, last >>, 1, 1) = << end >>
      BY BeginningsOfTwo
    <3>3. wire \o << >> = wire
      BY <1>2, NoClosing
    <3> QED  BY <2>8, <3>1, <3>2, <3>3
  <2> HIDE DEF end, last
  <2> QED  BY <2>1, <2>2, <2>5, <2>6, <2>7, <2>8 DEF Write
<1> QED  BY <1>4, <1>5

(* A Gemini stream ends with what is pending.                              *)
LEMMA GeminiEnds ==
  ASSUME RevisionInv, protocol.name = "gemini", Running, HandlerEnds
  PROVE  EndInv'
<1> DEFINE types == ChunkTypes(protocol)
           events == EmitPending(handler).events
<1>1. /\ pc' = "done" /\ protocol' = protocol /\ Write(events, "done")
  BY DEF HandlerEnds, Write, EndEvents, GeminiEnd
<1>2. Typed(wire, types) /\ Typed(events, types)
  <2>1. DOMAIN handler = GeminiFields
    BY DEF RevisionInv, HandlerShape
  <2> QED  BY <2>1, EmitPendingStep DEF Running, GeminiStep, ChunkTypes
<1> HIDE DEF events, types
<1>3. Typed(wire', types)
  <2>1. CASE wire' = wire \o events
    BY <1>2, <2>1, TypedConcat
  <2>2. ASSUME NEW k \in 0 .. Len(events) - 1, wire' = wire \o SubSeq(events, 1, k)
        PROVE  Typed(wire', types)
    BY <1>2, <2>2, TypedConcat, TypedPrefix
  <2> QED  BY <1>1, <2>1, <2>2 DEF Write
<1> QED  BY <1>1, <1>3, BrokenOff DEF EndInv, types

(* Chunks, or the first of them and the stream is over.                    *)
LEMMA ChunksWritten ==
  ASSUME NEW types, Typed(wire, types), NEW events, Typed(events, types), NEW next,
         Write(events, next)
  PROVE  /\ Typed(wire', types)
         /\ \/ pc' = next /\ gone' = gone /\ wire' = wire \o events
            \/ pc' = "done" /\ gone' = TRUE
<1>1. CASE wire' = wire \o events /\ pc' = next /\ UNCHANGED gone
  BY <1>1, TypedConcat
<1>2. ASSUME NEW k \in 0 .. Len(events) - 1, wire' = wire \o SubSeq(events, 1, k),
             pc' = "done", gone' = TRUE
      PROVE  Typed(wire', types)
  BY <1>2, TypedConcat, TypedPrefix
<1> QED  BY <1>1, <1>2 DEF Write

(* Chunks and the event that ends the stream, or some of the chunks.       *)
LEMMA LastWritten ==
  ASSUME NEW types, Typed(wire, types), NEW events, Typed(events, types), NEW e,
         Write(events \o << e >>, "done")
  PROVE  /\ pc' = "done" /\ Typed(wire \o events, types)
         /\ \/ gone' = gone /\ wire' = (wire \o events) \o << e >>
            \/ gone' = TRUE /\ Typed(wire', types)
<1>1. PICK S : wire \in Seq(S)
  BY DEF Typed
<1>2. PICK T : events \in Seq(T)
  BY DEF Typed
<1> DEFINE U == S \cup T \cup {e}
<1>3. wire \in Seq(U) /\ events \in Seq(U) /\ << e >> \in Seq(U) /\ Len(<< e >>) = 1
  BY <1>1, <1>2, SeqMonotonic
<1> HIDE DEF U
<1>4. wire \o (events \o << e >>) = (wire \o events) \o << e >>
  BY <1>3, ConcatAssociative
<1>5. Len(events) \in Nat /\ Len(events \o << e >>) = Len(events) + 1
  BY <1>3, ConcatProperties, LenProperties
<1>6. Typed(wire \o events, types)
  BY TypedConcat
<1>7. ASSUME NEW k \in 0 .. Len(events \o << e >>) - 1,
             wire' = wire \o SubSeq(events \o << e >>, 1, k)
      PROVE  Typed(wire', types)
  <2>1. k \in 0 .. Len(events)
    BY <1>5, <1>7
  <2>2. Typed(SubSeq(events \o << e >>, 1, k), types)
    BY <2>1, PrefixOfLonger
  <2> QED  BY <1>7, <2>2, TypedConcat
<1> QED  BY <1>4, <1>6, <1>7 DEF Write

(* An error ends a stream that has chunks, and is an HTTP error otherwise. *)
LEMMA ErrorEnds ==
  ASSUME RevisionInv, Running, StreamFails
  PROVE  EndInv'
<1> DEFINE types == ChunkTypes(protocol)
<1>1. /\ pc # "done" /\ pc' = "done" /\ UNCHANGED <<protocol, handler, canceled, sent>>
  BY DEF StreamFails, Write
<1>2. Typed(wire, types) /\ (wire # << >> => Committed(protocol, handler))
  BY DEF Running
<1>3. protocol.name \in Names
  BY DEF RevisionInv, Protocols
<1>4. CASE canceled
  <2>1. wire' = wire /\ canceled'
    BY <1>1, <1>4 DEF StreamFails
  <2> QED  BY <1>1, <1>2, <2>1, BrokenOff DEF EndInv
<1>5. CASE ~canceled
  <2>1. Write(ErrorEvents, "done")
    BY <1>5 DEF StreamFails
  <2>2. PICK events, error :
          /\ ErrorEvents = events \o << error >>
          /\ Typed(events, types)
          /\ \/ error = [type |-> "error"]
             \/ error = [type |-> "http_error"] /\ events = << >> /\ wire = << >>
    <3>1. ASSUME NEW error PROVE << >> \o << error >> = << error >>
      <4>1. << error >> \in Seq({error})
        OBVIOUS
      <4> QED  BY <4>1, ConcatEmptySeq
    <3>2. CASE protocol.name = "chat"
      <4> DEFINE error == [type |-> IF handler.committed THEN "error" ELSE "http_error"]
      <4>1. ErrorEvents = << error >>
        BY <3>2 DEF ErrorEvents, ChatError
      <4>2. \/ error = [type |-> "error"]
            \/ error = [type |-> "http_error"] /\ wire = << >>
        BY <1>2, <3>2 DEF Committed
      <4> HIDE DEF error
      <4> QED  BY <3>1, <4>1, <4>2, TypedEmpty
    <3>3. CASE protocol.name = "responses"
      <4>1. PICK error : error = [type |-> "error"]
        OBVIOUS
      <4>2. ErrorEvents = << error >>
        BY <3>3, <4>1 DEF ErrorEvents, ResponsesError
      <4> QED  BY <3>1, <4>1, <4>2, TypedEmpty
    <3>4. CASE protocol.name = "gemini"
      <4> DEFINE last == EmitPending(handler)
                 error == [type |-> IF last.state.identityCommitted THEN "error" ELSE "http_error"]
      <4>1. ErrorEvents = last.events \o << error >>
        BY <3>4 DEF ErrorEvents, GeminiError
      <4>2. GeminiStep(handler, last)
        BY <3>4, EmitPendingStep DEF RevisionInv, HandlerShape
      <4> HIDE DEF last
      <4>3. Typed(last.events, types)
        BY <3>4, <4>2 DEF GeminiStep, ChunkTypes
      <4>4. \/ error = [type |-> "error"]
            \/ error = [type |-> "http_error"] /\ last.events = << >> /\ wire = << >>
        BY <1>2, <3>4, <4>2 DEF Committed, GeminiStep
      <4> HIDE DEF error
      <4> QED  BY <4>1, <4>3, <4>4
    <3> QED  BY <1>3, <3>2, <3>3, <3>4 DEF Names
  <2>3. PICK chunks : chunks = wire \o events
    OBVIOUS
  <2>4. /\ Typed(chunks, types)
        /\ \/ gone' = gone /\ wire' = chunks \o << error >>
           \/ gone' = TRUE /\ Typed(wire', types)
    <3>1. Write(events \o << error >>, "done")
      BY <2>1, <2>2
    <3> QED  BY <1>2, <2>2, <2>3, <3>1, LastWritten
  <2>5. wire = << >> /\ events = << >> => chunks = << >>
    BY <2>3
  <2>6. CASE wire' = chunks \o << error >>
    <3>1. PICK closing : closing = << error >>
      OBVIOUS
    <3>2. Closes(chunks, closing)'
      BY <2>2, <2>5, <3>1 DEF Closes
    <3> QED  BY <1>1, <2>4, <2>6, <3>1, <3>2, EndedWith DEF EndInv
  <2>7. CASE gone' = TRUE /\ Typed(wire', types)
    BY <1>1, <2>7, BrokenOff DEF EndInv
  <2> QED  BY <2>4, <2>6, <2>7
<1> QED  BY <1>4, <1>5

(* The events of a call written whole.                                     *)
LEMMA CallEventsTyped ==
  ASSUME NEW base, NEW calls \in Seq(Part)
  PROVE  Typed(CallEvents(base, calls), ItemTypes)
<1> DEFINE Good == {c \in Seq(Part) : Typed(CallEvents(base, c), ItemTypes)}
<1>1. << >> \in Good
  BY NoCallEvents, TypedEmpty, EmptySeq
<1>2. ASSUME NEW c \in Seq(Part), c \in Good, NEW x \in Part PROVE Append(c, x) \in Good
  <2> DEFINE n == base + (Len(c) + 1) - 1
  <2>1. CallEvents(base, Append(c, x)) = CallEvents(base, c) \o WholeCall(n, x)
    <3>1. \A i \in Nat : \A d \in Part : WholeCall(base + i - 1, d) \in Seq(CallEventSet(base))
      BY WholeCallEvents
    <3> QED  BY <3>1, CallEventsSteps
  <2> HIDE DEF n
  <2>2. Typed(WholeCall(n, x), ItemTypes)
    <3>1. PICK a, b, d, e : /\ a = Added(n, Item("function_call", << x >>))
                            /\ b = [type |-> "arguments.delta", index |-> n]
                            /\ d = [type |-> "arguments.done", index |-> n]
                            /\ e = Done(n, Item("function_call", << x >>))
      OBVIOUS
    <3>2. IsEvent(a, ItemTypes) /\ IsEvent(b, ItemTypes) /\ IsEvent(d, ItemTypes) /\ IsEvent(e, ItemTypes)
      BY <3>1 DEF Added, Done, ItemTypes, IsEvent
    <3>3. Typed(<< a >>, ItemTypes) /\ Typed(<< b, d, e >>, ItemTypes)
      BY <3>2, TypedOne, TypedThree
    <3>4. PICK u, v : u = << a >> /\ v = << b, d, e >>
      OBVIOUS
    <3>5. Typed(u \o v, ItemTypes)
      BY <3>3, <3>4, TypedConcat
    <3>6. WholeCall(n, x) = u \o v
      <4>1. << a >> \o << b, d, e >> = << a, b, d, e >>
        BY OneAndThree
      <4> QED  BY <3>1, <3>4, <4>1 DEF WholeCall
    <3> QED  BY <3>5, <3>6
  <2>3. Append(c, x) \in Seq(Part)
    BY AppendProperties
  <2> QED  BY <1>2, <2>1, <2>2, <2>3, TypedConcat
<1>3. Seq(Part) \subseteq Good
  <2> HIDE DEF Good
  <2> QED  BY <1>1, <1>2, InductionOnSeq
<1> QED  BY <1>3

(* The message ends with its annotations, if there are any.                *)
LEMMA FinishMessageStep ==
  ASSUME NEW s, DOMAIN s = ResponsesFields
  PROVE  ResponsesStep(s, FinishMessage(s))
<1> DEFINE item == Item("message", s.messageText)
           next == [s EXCEPT !.output[s.message + 1] = item]
           note == [type |-> "annotation.added", index |-> s.message]
           first == IF s.aggregate.grounding THEN << note >> ELSE << >>
           last  == Closed(s.message, item)
<1>1. CASE s.message = NoItem
  BY <1>1, TypedEmpty DEF FinishMessage, ResponsesStep
<1>2. CASE s.message # NoItem
  <2>1. FinishMessage(s) = [state |-> next, events |-> first \o last]
    BY <1>2 DEF FinishMessage
  <2>2. Typed(first, ItemTypes)
    <3>1. IsEvent(note, ItemTypes)
      BY DEF ItemTypes, IsEvent
    <3> HIDE DEF note
    <3> QED  BY <3>1, TypedOne, TypedEmpty
  <2>3. Typed(last, ItemTypes)
    BY ClosedTyped
  <2> HIDE DEF item, first, last
  <2>4. DOMAIN next = ResponsesFields /\ next.revision = s.revision
    BY DEF ResponsesFields
  <2> HIDE DEF next
  <2> QED  BY <2>1, <2>2, <2>3, <2>4, TypedConcat DEF ResponsesStep
<1> QED  BY <1>1, <1>2

(* The items a Responses stream still writes at its end.                   *)
EndState(s) == FinishMessage(FinishCommentary(s).state).state
Base(s) == Len(EndState(s).output)
LateCalls(s) == DistinctCalls(s.aggregate.parts)
Search(s) == IF s.aggregate.grounding THEN WholeSearch(Base(s) + Len(LateCalls(s))) ELSE << >>
LateItems(s) ==
  ((FinishCommentary(s).events \o FinishMessage(FinishCommentary(s).state).events)
     \o CallEvents(Base(s), LateCalls(s))) \o Search(s)

FinalOutput(s) ==
  EndState(s).output
  \o [i \in DOMAIN LateCalls(s) |-> Item("function_call", << LateCalls(s)[i] >>)]
  \o [i \in 1 .. (IF s.aggregate.grounding THEN 1 ELSE 0) |-> Item("web_search_call", << >>)]

Outcome(s) == IF HasResponseOutput(s.aggregate) THEN "completed" ELSE "failed"

LEMMA ResponsesEndParts ==
  ASSUME NEW s, DOMAIN s = ResponsesFields, s.aggregate.parts \in Seq(Part)
  PROVE  /\ ResponsesEnd(s)
              = LateItems(s) \o << [type   |-> Outcome(s),
                                     output |-> FinalOutput(s),
                                     usage  |-> CurrentMetadata(s.revision)] >>
         /\ Typed(LateItems(s), ItemTypes)
<1> DEFINE searches == IF s.aggregate.grounding THEN 1 ELSE 0
<1>1. (IF searches = 1 THEN WholeSearch(Base(s) + Len(LateCalls(s))) ELSE << >>) = Search(s)
  BY DEF Search
<1>2. ResponsesEnd(s)
        = LateItems(s) \o << [type   |-> Outcome(s),
                               output |-> FinalOutput(s),
                               usage  |-> CurrentMetadata(s.revision)] >>
  BY <1>1 DEF ResponsesEnd, LateItems, CallEvents, EndState, Base, LateCalls, FinalOutput, Outcome
<1>3. PICK a, b : a = FinishCommentary(s) /\ b = FinishMessage(a.state)
  OBVIOUS
<1>4. ResponsesStep(s, a) /\ ResponsesStep(a.state, b)
  BY <1>3, FinishCommentaryStep, FinishMessageStep DEF ResponsesStep
<1>5. Typed(CallEvents(Base(s), LateCalls(s)), ItemTypes)
  BY DistinctCallsType, CallEventsTyped DEF LateCalls
<1>6. Typed(Search(s), ItemTypes)
  <2>1. ASSUME NEW n PROVE Typed(WholeSearch(n), ItemTypes)
    <3>1. PICK d, e : d = Added(n, Item("web_search_call", << >>)) /\ e = Done(n, Item("web_search_call", << >>))
      OBVIOUS
    <3>2. IsEvent(d, ItemTypes) /\ IsEvent(e, ItemTypes)
      BY <3>1 DEF Added, Done, ItemTypes, IsEvent
    <3>3. Typed(<< d, e >>, ItemTypes)
      BY <3>2, TypedTwo
    <3> QED  BY <3>1, <3>3 DEF WholeSearch
  <2> QED  BY <2>1, TypedEmpty DEF Search
<1>7. Typed(LateItems(s), ItemTypes)
  <2>1. PICK c, d : c = CallEvents(Base(s), LateCalls(s)) /\ d = Search(s)
    OBVIOUS
  <2>2. Typed(a.events \o b.events, ItemTypes)
    BY <1>4, TypedConcat DEF ResponsesStep
  <2>3. Typed((a.events \o b.events) \o c, ItemTypes)
    BY <1>5, <2>1, <2>2, TypedConcat
  <2>4. Typed(((a.events \o b.events) \o c) \o d, ItemTypes)
    BY <1>6, <2>1, <2>3, TypedConcat
  <2> QED  BY <1>3, <2>1, <2>4 DEF LateItems
<1> QED  BY <1>2, <1>7

(* So a Responses stream ends with one event and its usage.                *)
LEMMA ResponsesEnds ==
  ASSUME RevisionInv, Holding(protocol, handler), protocol.name = "responses", Running, HandlerEnds
  PROVE  EndInv'
<1>1. /\ pc = "flushed" /\ pc' = "done" /\ UNCHANGED <<protocol, handler, canceled, sent>>
      /\ Write(ResponsesEnd(handler), "done")
  BY DEF HandlerEnds, Write, EndEvents
<1>2. Typed(wire, ItemTypes) /\ ChunkTypes(protocol) = ItemTypes
  BY DEF Running, ChunkTypes
<1>3. RightUsage' = RightUsage /\ CurrentMetadata(handler.revision) = RightUsage
  <2>1. RightUsage' = RightUsage
    BY <1>1 DEF RightUsage
  <2> QED  BY <1>1, <2>1, MeasuredIsRight DEF RevisionInv
<1>4. PICK events, type, output, last :
        /\ type \in {"completed", "failed"} /\ last = FinalEvent(type, output)
        /\ ResponsesEnd(handler) = events \o << last >>
        /\ Typed(events, ItemTypes)
  <2>1. DOMAIN handler = ResponsesFields /\ handler.aggregate.parts \in Seq(Part)
    BY DEF RevisionInv, HandlerShape, Holding
  <2>2. Outcome(handler) \in {"completed", "failed"}
    BY DEF Outcome
  <2>3. FinalEvent(Outcome(handler), FinalOutput(handler))
          = [type |-> Outcome(handler), output |-> FinalOutput(handler),
             usage |-> CurrentMetadata(handler.revision)]
    BY <1>3 DEF FinalEvent
  <2>4. PICK e, t, o, l : /\ e = LateItems(handler) /\ t = Outcome(handler)
                          /\ o = FinalOutput(handler) /\ l = FinalEvent(t, o)
    OBVIOUS
  <2>5. ResponsesEnd(handler) = e \o << l >> /\ Typed(e, ItemTypes)
    BY <2>1, <2>3, <2>4, ResponsesEndParts
  <2> QED  BY <2>2, <2>4, <2>5
<1>5. PICK chunks : chunks = wire \o events
  OBVIOUS
<1>6. /\ Typed(chunks, ItemTypes)
      /\ \/ gone' = gone /\ wire' = chunks \o << last >>
         \/ gone' = TRUE /\ Typed(wire', ItemTypes)
  <2>1. Write(events \o << last >>, "done")
    BY <1>1, <1>4
  <2> QED  BY <1>2, <1>4, <1>5, <2>1, LastWritten
<1>7. CASE wire' = chunks \o << last >>
  <2>1. PICK closing : closing = << last >>
    OBVIOUS
  <2>2. closing = << FinalEvent(type, output)' >> /\ type \in {"completed", "failed"}
    BY <1>3, <1>4, <2>1 DEF FinalEvent
  <2>3. Closes(chunks, closing)'
    BY <1>1, <2>2 DEF Closes
  <2> QED  BY <1>1, <1>2, <1>6, <1>7, <2>1, <2>3, EndedWith DEF EndInv
<1>8. CASE gone' = TRUE /\ Typed(wire', ItemTypes)
  BY <1>1, <1>2, <1>8, BrokenOff DEF EndInv
<1> QED  BY <1>6, <1>7, <1>8

(* What is written before the upstream is asked.                           *)
LEMMA StartTyped == ASSUME NEW compacted PROVE Typed(ResponsesStart(compacted), ItemTypes)
<1>1. PICK a, b, c, d : /\ a = [type |-> "created"] /\ b = [type |-> "in_progress"]
                        /\ c = Added(0, Item("compaction", << >>))
                        /\ d = Done(0, Item("compaction", << >>))
  OBVIOUS
<1>2. IsEvent(a, ItemTypes) /\ IsEvent(b, ItemTypes) /\ IsEvent(c, ItemTypes) /\ IsEvent(d, ItemTypes)
  BY <1>1 DEF Added, Done, ItemTypes, IsEvent
<1>3. Typed(<< a, b >>, ItemTypes) /\ Typed(<< c, d >>, ItemTypes) /\ Typed(<< >>, ItemTypes)
  BY <1>2, TypedTwo, TypedEmpty
<1>4. PICK u, v : u = << a, b >> /\ v = IF compacted THEN << c, d >> ELSE << >>
  OBVIOUS
<1>5. Typed(u \o v, ItemTypes)
  BY <1>3, <1>4, TypedConcat
<1> QED  BY <1>1, <1>4, <1>5 DEF ResponsesStart

(* A request keeps its protocol.                                           *)
LEMMA ProtocolStays == [Next]_vars => protocol' = protocol
<1>1. Open => protocol' = protocol
  BY DEF Open
<1>2. ResultArrives => protocol' = protocol
  BY DEF ResultArrives
<1>3. UpstreamEnds => protocol' = protocol
  BY DEF UpstreamEnds
<1>4. HandlerEnds => protocol' = protocol
  BY DEF HandlerEnds
<1>5. StreamFails => protocol' = protocol
  BY DEF StreamFails
<1>6. Cancel => protocol' = protocol
  BY DEF Cancel
<1>7. UNCHANGED vars => protocol' = protocol
  BY DEF vars
<1> QED  BY <1>1, <1>2, <1>3, <1>4, <1>5, <1>6, <1>7 DEF Next

(* Each step leaves a running stream, or one that is closed.               *)
LEMMA NextEnd == RevisionInv /\ ContentInv /\ EndInv /\ [Next]_vars => EndInv'
<1> SUFFICES ASSUME RevisionInv, ContentInv, EndInv, [Next]_vars
             PROVE  EndInv'
  OBVIOUS
<1>1. protocol \in Protocols /\ HandlerShape(protocol, handler)
  BY DEF RevisionInv
<1>2. pc # "done" => Running /\ gone = FALSE
  BY DEF EndInv, RevisionInv
<1>3. CASE Open
  <2> DEFINE events == IF protocol.name = "responses" THEN ResponsesStart(protocol.option) ELSE << >>
  <2>1. /\ pc = "open" /\ Write(events, "stream")
        /\ UNCHANGED <<protocol, handler, canceled>>
    BY <1>3 DEF Open
  <2>2. Typed(events, ChunkTypes(protocol))
    BY StartTyped, TypedEmpty DEF ChunkTypes
  <2>3. events = << >> \/ protocol.name = "responses"
    OBVIOUS
  <2> HIDE DEF events
  <2>4. /\ Typed(wire', ChunkTypes(protocol))
        /\ \/ pc' = "stream" /\ gone' = gone /\ wire' = wire \o events
           \/ pc' = "done" /\ gone' = TRUE
    BY <1>2, <2>1, <2>2, ChunksWritten DEF Running
  <2>5. CASE pc' = "stream" /\ wire' = wire \o events
    <3>1. wire' # << >> => Committed(protocol, handler)
      BY <1>2, <2>1, <2>3, <2>5 DEF Running, Committed
    <3>2. Running'
      BY <2>1, <2>4, <3>1 DEF Running
    <3> QED  BY <2>5, <3>2 DEF EndInv
  <2>6. CASE pc' = "done" /\ gone' = TRUE
    BY <2>1, <2>4, <2>6, BrokenOff DEF EndInv
  <2> QED  BY <2>4, <2>5, <2>6
<1>4. CASE ResultArrives
  <2>1. /\ pc = "stream" /\ protocol' = protocol /\ canceled' = canceled
        /\ \/ UNCHANGED <<pc, handler, wire, gone>>
           \/ \E rest : ~IsEmpty(rest) /\ Deliver(rest, "stream")
    BY <1>4 DEF ResultArrives
  <2>2. CASE UNCHANGED <<pc, handler, wire, gone>>
    BY <1>2, <2>1, <2>2 DEF EndInv, Running
  <2>3. CASE \E rest : ~IsEmpty(rest) /\ Deliver(rest, "stream")
    <3>1. PICK rest : ~IsEmpty(rest) /\ Deliver(rest, "stream")
      BY <2>3
    <3> QED  BY <1>1, <1>2, <2>1, <3>1, DeliverEnds
  <2> QED  BY <2>1, <2>2, <2>3
<1>5. CASE UpstreamEnds
  <2>1. pc = "stream" /\ protocol' = protocol /\ canceled' = canceled
    BY <1>5 DEF UpstreamEnds
  <2>2. CASE pendingFinish = None
    BY <1>2, <1>5, <2>1, <2>2 DEF UpstreamEnds, EndInv, Running
  <2>3. CASE pendingFinish # None
    <3>1. PICK rest : rest = FinishResult(pendingFinish)
      OBVIOUS
    <3>2. Deliver(rest, "flushed") /\ pendingFinish \in Reasons
      BY <1>5, <2>3, <3>1 DEF UpstreamEnds, RevisionInv
    <3>3. ~IsEmpty(rest)
      BY <3>1, <3>2, FinishMeasures DEF RevisionInv, Bounded
    <3> QED  BY <1>1, <1>2, <2>1, <3>2, <3>3, DeliverEnds
  <2> QED  BY <2>2, <2>3
<1>6. CASE HandlerEnds
  <2>1. pc = "flushed"
    BY <1>6 DEF HandlerEnds
  <2>2. Holding(protocol, handler)
    BY <2>1 DEF ContentInv, Balance
  <2> QED  BY <1>1, <1>2, <1>6, <2>1, <2>2, ChatEnds, ResponsesEnds, GeminiEnds DEF Protocols, Names
<1>7. CASE StreamFails
  <2>1. pc # "done"
    BY <1>7 DEF StreamFails
  <2> QED  BY <1>2, <1>7, <2>1, ErrorEnds
<1>8. CASE Cancel
  <2>1. pc # "done" /\ UNCHANGED <<protocol, pc, handler, wire>>
    BY <1>8 DEF Cancel
  <2> QED  BY <1>2, <2>1 DEF EndInv, Running
<1>9. CASE UNCHANGED vars
  <2>1. UNCHANGED <<protocol, pc, handler, wire, canceled, gone, sent>>
    BY <1>9 DEF vars
  <2>2. Ended => Ended'
    <3>1. SUFFICES ASSUME NEW chunks, NEW closing, wire = chunks \o closing,
                          Typed(chunks, ChunkTypes(protocol)), Closes(chunks, closing)
                   PROVE  Ended'
      BY DEF Ended
    <3>2. Closes(chunks, closing)'
      BY <2>1, <3>1 DEF Closes, EndEvent, FinalEvent, RightUsage, Concluded
    <3>3. wire' = chunks \o closing /\ Typed(chunks, ChunkTypes(protocol'))
      BY <2>1, <3>1
    <3> QED  BY <3>2, <3>3 DEF Ended
  <2> QED  BY <2>1, <2>2 DEF EndInv, Running
<1> QED  BY <1>3, <1>4, <1>5, <1>6, <1>7, <1>8, <1>9 DEF Next

(* The invariant holds.                                                    *)
LEMMA StreamEnds == Spec => []EndInv
<1>1. Init => EndInv
  BY TypedEmpty DEF Init, EndInv, Running
<1> QED  BY <1>1, NextEnd, StreamRevision, StreamContent, PTL DEF Spec

(* A running stream has written chunks only.                               *)
LEMMA RunningIsRight ==
  ASSUME protocol \in Protocols, pc # "done", Running
  PROVE  EndIsLast /\ UsageIsCurrent
<1>1. ChunkTypes(protocol) \cap EndTypes = {}
  BY DEF ChunkTypes, ItemTypes, EndTypes
<1>2. \A i \in DOMAIN wire : wire[i].type \in ChunkTypes(protocol)
  BY TypedEvents DEF Running
<1>3. \A i \in DOMAIN wire : wire[i].type \notin EndTypes /\ wire[i].type # "http_error"
  BY <1>1, <1>2 DEF EndTypes
<1> QED  BY <1>3 DEF EndIsLast, UsageIsCurrent, Concluded

(* A stream has one end: nothing follows the event that ends it, an HTTP   *)
(* error is the only thing written, and a Chat or Responses stream that the*)
(* client stays for has an end.                                            *)
THEOREM StreamsEndOnce == Spec => []EndIsLast
<1>1. RevisionInv /\ EndInv => EndIsLast
  BY RunningIsRight, EndedIsRight DEF RevisionInv, EndInv
<1> QED  BY <1>1, StreamRevision, StreamEnds, PTL
=============================================================================
