------------------------ MODULE ProtocolWireProofs -------------------------
(***************************************************************************)
(* What the events on the wire of ProtocolStreams tell a client: the finish*)
(* reason of a Chat stream, the items of a Responses stream, the chunks of *)
(* a Gemini stream, and the usage all of them end with.                    *)
(*                                                                         *)
(* Items are proved by way of a reader: an account of the items seen that  *)
(* takes in one event after the other, with the one rule per event a client*)
(* relies on.  A wire is good exactly if a reader gets through it (Reads), *)
(* and every step of the handler writes events that take the reader that   *)
(* agrees with the handler before it to one that agrees with it after it.  *)
(* For Gemini the invariant says what the pending chunk owes to the wire.  *)
(***************************************************************************)
EXTENDS ProtocolStreamsProofs

(***************************************************************************)
(* The finish reason of a Chat stream.                                     *)
(***************************************************************************)
LastFinish(results) ==
  LET finished == {i \in DOMAIN results : results[i].finish # None}
  IN  IF finished = {} THEN None ELSE results[Max(finished)].finish

SomeFeedback(results) == \E i \in DOMAIN results : results[i].feedback

ShowsCall(w) == \E i \in DOMAIN w : w[i].type = "chunk" /\ w[i].toolCalls # << >>

ReasonState(s, w) ==
  /\ ShowsCall(w) <=> Has(s.aggregate.parts, Calls)
  /\ s.aggregate.feedback \in BOOLEAN
  /\ s.aggregate.feedback <=> SomeFeedback(sent)
  /\ pc # "flushed" => s.aggregate.finish = None /\ pendingFinish = LastFinish(sent)
  /\ pc = "flushed" => s.aggregate.finish = LastFinish(sent)

ReasonInv ==
  protocol.name = "chat" =>
    IF pc = "done" THEN ReasonMatches ELSE ReasonState(handler, wire)

(* One result more.                                                        *)
LEMMA SentAppend ==
  ASSUME NEW results \in Seq(ResultSet), NEW r \in ResultSet
  PROVE  /\ LastFinish(Append(results, r)) = HeldBack(LastFinish(results), r)
         /\ SomeFeedback(Append(results, r)) <=> SomeFeedback(results) \/ r.feedback
<1> DEFINE all == Append(results, r)
           N == Len(results)
           F == {i \in DOMAIN results : results[i].finish # None}
           G == {i \in DOMAIN all : all[i].finish # None}
<1>1. /\ N \in Nat /\ DOMAIN results = 1 .. N /\ DOMAIN all = 1 .. N + 1
      /\ \A i \in 1 .. N : all[i] = results[i]
      /\ all[N + 1] = r
  <2>1. all \in Seq(ResultSet) /\ Len(all) = N + 1
    BY AppendProperties
  <2>2. N \in Nat /\ DOMAIN results = 1 .. N /\ DOMAIN all = 1 .. N + 1
    BY <2>1, LenProperties
  <2> QED  BY <2>2, AppendProperties
<1>2. LastFinish(results) = IF F = {} THEN None ELSE results[Max(F)].finish
  BY DEF LastFinish
<1>3. LastFinish(all) = IF G = {} THEN None ELSE all[Max(G)].finish
  BY DEF LastFinish
<1>4. SomeFeedback(all) <=> SomeFeedback(results) \/ r.feedback
  <2> HIDE DEF all
  <2>1. \A i \in 1 .. N + 1 : i = N + 1 \/ i \in 1 .. N
    BY <1>1
  <2>2. N + 1 \in 1 .. N + 1 /\ \A i \in 1 .. N : i \in 1 .. N + 1
    BY <1>1
  <2> QED  BY <1>1, <2>1, <2>2 DEF SomeFeedback
<1>5. F \in SUBSET (1 .. N) /\ F = {i \in 1 .. N : results[i].finish # None}
  BY <1>1
<1>6. CASE r.finish # None
  <2>1. G \in SUBSET Nat /\ N + 1 \in G /\ \A i \in G : i <= N + 1
    BY <1>1, <1>6
  <2> HIDE DEF G, all
  <2>2. Max(G) = N + 1
    BY <2>1, MaxIsGreatest
  <2> QED  BY <1>1, <1>3, <1>4, <1>6, <2>1, <2>2 DEF HeldBack, all
<1>7. CASE r.finish = None
  <2>1. G = F
    BY <1>1, <1>5, <1>7
  <2>2. CASE F = {}
    BY <1>2, <1>3, <1>4, <1>7, <2>1, <2>2 DEF HeldBack
  <2>3. CASE F # {}
    <3>1. PICK m \in F : \A i \in F : i <= m
      <4> HIDE DEF F
      <4> QED  BY <1>1, <1>5, <2>3, GreatestBelow
    <3>2. Max(F) = m /\ m \in 1 .. N
      BY <1>1, <1>5, <3>1, MaxIsGreatest
    <3> QED  BY <1>1, <1>2, <1>3, <1>4, <1>7, <2>1, <2>3, <3>2 DEF HeldBack
  <2> QED  BY <2>2, <2>3
<1> QED  BY <1>4, <1>6, <1>7

(* One write more.                                                         *)
LEMMA ShowsCallConcat ==
  ASSUME NEW types, NEW w, Typed(w, types), NEW S, NEW e \in Seq(S)
  PROVE  ShowsCall(w \o e) <=> ShowsCall(w) \/ ShowsCall(e)
<1>1. PICK T : w \in Seq(T)
  BY DEF Typed
<1>2. w \in Seq(S \cup T) /\ e \in Seq(S \cup T)
  BY <1>1, SeqMonotonic
<1>3. PICK U : U = S \cup T
  OBVIOUS
<1>4. /\ w \o e \in Seq(U) /\ Len(w \o e) = Len(w) + Len(e)
      /\ \A i \in 1 .. Len(w) + Len(e) :
           (w \o e)[i] = IF i <= Len(w) THEN w[i] ELSE e[i - Len(w)]
  BY <1>2, <1>3, ConcatProperties
<1>5. /\ Len(w) \in Nat /\ Len(e) \in Nat /\ DOMAIN w = 1 .. Len(w) /\ DOMAIN e = 1 .. Len(e)
      /\ DOMAIN (w \o e) = 1 .. Len(w) + Len(e)
  BY <1>2, <1>4, LenProperties
<1>6. ASSUME ShowsCall(w \o e) PROVE ShowsCall(w) \/ ShowsCall(e)
  <2>1. PICK i \in 1 .. Len(w) + Len(e) :
          (w \o e)[i].type = "chunk" /\ (w \o e)[i].toolCalls # << >>
    BY <1>5, <1>6 DEF ShowsCall
  <2>2. i <= Len(w) => i \in 1 .. Len(w)
    BY <1>5
  <2>3. ~(i <= Len(w)) => i - Len(w) \in 1 .. Len(e)
    BY <1>5
  <2> QED  BY <1>4, <1>5, <2>1, <2>2, <2>3 DEF ShowsCall
<1>7. ASSUME ShowsCall(w) PROVE ShowsCall(w \o e)
  <2>1. PICK i \in 1 .. Len(w) : w[i].type = "chunk" /\ w[i].toolCalls # << >>
    BY <1>5, <1>7 DEF ShowsCall
  <2>2. i \in 1 .. Len(w) + Len(e) /\ (w \o e)[i] = w[i]
    BY <1>4, <1>5
  <2> QED  BY <1>5, <2>1, <2>2 DEF ShowsCall
<1>8. ASSUME ShowsCall(e) PROVE ShowsCall(w \o e)
  <2>1. PICK i \in 1 .. Len(e) : e[i].type = "chunk" /\ e[i].toolCalls # << >>
    BY <1>5, <1>8 DEF ShowsCall
  <2>2. /\ Len(w) + i \in 1 .. Len(w) + Len(e) /\ ~(Len(w) + i <= Len(w))
        /\ (Len(w) + i) - Len(w) = i
    BY <1>5
  <2>3. (w \o e)[Len(w) + i] = e[i]
    BY <1>4, <2>2
  <2> QED  BY <1>5, <2>1, <2>2, <2>3 DEF ShowsCall
<1> QED  BY <1>6, <1>7, <1>8

(* No event ends the message, or all that was written are chunks.          *)
LEMMA NoReason ==
  ASSUME NEW types, Typed(wire', types), "end" \notin types
  PROVE  ReasonMatches'
<1>1. PICK w : w = wire'
  OBVIOUS
<1>2. \A i \in DOMAIN w : w[i].type # "end"
  BY <1>1, TypedEvents
<1> QED  BY <1>1, <1>2 DEF ReasonMatches

(* A result adds its calls and its block notice to the aggregate.          *)
LEMMA ChatReason ==
  ASSUME NEW s, NEW r, ~IsEmpty(r), r.parts \in Seq(Part), r.feedback \in BOOLEAN,
         r.grounding \in BOOLEAN, s.aggregate.parts \in Seq(Part), s.aggregate.feedback \in BOOLEAN
  PROVE  LET o == ChatResult(s, r) IN
         /\ ShowsCall(o.events) <=> Has(r.parts, Calls)
         /\ Has(o.state.aggregate.parts, Calls) <=> Has(s.aggregate.parts, Calls) \/ Has(r.parts, Calls)
         /\ o.state.aggregate.feedback \in BOOLEAN
         /\ o.state.aggregate.feedback <=> s.aggregate.feedback \/ r.feedback
         /\ o.state.aggregate.finish = HeldBack(s.aggregate.finish, r)
<1> DEFINE o == ChatResult(s, r)
           chunk == ChatChunk(r, s.emittedGrounding)
<1>1. /\ o.state.aggregate = Accumulate(s.aggregate, r)
      /\ o.events = IF HasContent(r) THEN << chunk >> ELSE << >>
  BY DEF ChatResult
<1>2. ShowsCall(o.events) <=> Has(r.parts, Calls)
  <2>1. chunk.type = "chunk" /\ chunk.toolCalls = ToolCalls(OfKind(r.parts, Calls))
    BY DEF ChatChunk
  <2>2. ToolCalls(OfKind(r.parts, Calls)) # << >> <=> Has(r.parts, Calls)
    <3>1. PICK q : q = OfKind(r.parts, Calls)
      OBVIOUS
    <3>2. q \in Seq(Part) /\ (q # << >> <=> Has(r.parts, Calls))
      BY <3>1, KindsType, KindsHas
    <3>3. Len(q) \in Nat /\ DOMAIN q = 1 .. Len(q) /\ (q = << >> <=> Len(q) = 0)
      BY <3>2, LenProperties, EmptySeq
    <3>4. q # << >> => 1 \in DOMAIN ToolCalls(q)
      BY <3>3 DEF ToolCalls
    <3>5. q = << >> => ToolCalls(q) = << >>
      BY <3>3 DEF ToolCalls
    <3> QED  BY <3>1, <3>2, <3>4, <3>5
  <2>3. Has(r.parts, Calls) => HasContent(r)
    BY DEF Has, HasContent
  <2> HIDE DEF chunk
  <2>4. CASE HasContent(r)
    <3>1. o.events = << chunk >>
      BY <1>1, <2>4
    <3>2. ShowsCall(<< chunk >>) <=> chunk.toolCalls # << >>
      BY <2>1 DEF ShowsCall
    <3> QED  BY <2>1, <2>2, <3>1, <3>2
  <2>5. CASE ~HasContent(r)
    <3>1. ~ShowsCall(<< >>)
      BY DEF ShowsCall
    <3> QED  BY <1>1, <2>3, <2>5, <3>1
  <2> QED  BY <2>4, <2>5
<1>3. /\ o.state.aggregate.parts = s.aggregate.parts \o r.parts
      /\ o.state.aggregate.feedback = (s.aggregate.feedback \/ r.feedback)
      /\ o.state.aggregate.finish = HeldBack(s.aggregate.finish, r)
  <2>1. PICK a : a = o.state.aggregate
    OBVIOUS
  <2>2. a = Accumulate(s.aggregate, r)
    BY <1>1, <2>1
  <2> HIDE DEF o
  <2>3. a.parts = s.aggregate.parts \o r.parts
    BY <2>2 DEF Accumulate
  <2>4. a.feedback = (s.aggregate.feedback \/ r.feedback)
    BY <2>2 DEF Accumulate
  <2>5. a.finish = HeldBack(s.aggregate.finish, r)
    BY <2>2 DEF Accumulate, HeldBack
  <2> QED  BY <2>1, <2>3, <2>4, <2>5
<1>4. Has(s.aggregate.parts \o r.parts, Calls) <=> Has(s.aggregate.parts, Calls) \/ Has(r.parts, Calls)
  BY KindsConcat
<1> QED  BY <1>2, <1>3, <1>4

(* A result that is handed on.                                             *)
LEMMA DeliverReason ==
  ASSUME RevisionInv, ContentInv, EndInv, ReasonInv, protocol.name = "chat", pc = "stream",
         NEW r, ~IsEmpty(r), r.parts \in Seq(Part), r.feedback \in BOOLEAN, r.grounding \in BOOLEAN,
         NEW next \in {"stream", "flushed"}, Deliver(r, next), protocol' = protocol,
         SomeFeedback(sent') <=> SomeFeedback(sent) \/ r.feedback,
         next = "stream" => r.finish = None /\ pendingFinish' = LastFinish(sent'),
         next = "flushed" => r.finish = LastFinish(sent') /\ r.finish # None
  PROVE  ReasonInv'
<1> DEFINE o == OnResult(r)
<1>1. /\ ReasonState(handler, wire) /\ gone = FALSE
      /\ HandlerShape(protocol, handler) /\ handler.aggregate.parts \in Seq(Part)
      /\ Typed(wire, {"chunk"})
  <2>1. Holding(protocol, handler)
    BY DEF ContentInv, Balance
  <2>2. Typed(wire, ChunkTypes(protocol))
    BY DEF EndInv, Running
  <2>3. gone = FALSE /\ HandlerShape(protocol, handler)
    BY DEF RevisionInv
  <2> QED  BY <2>1, <2>2, <2>3 DEF ReasonInv, Holding, ChunkTypes
<1>2. \/ canceled /\ pc' = "done" /\ UNCHANGED <<handler, wire, gone>>
      \/ /\ HandlerStep(protocol, handler, r, o) /\ handler' = o.state
         /\ \/ pc' = next /\ gone' = FALSE /\ wire' = wire \o o.events
            \/ /\ pc' = "done" /\ gone' = TRUE
               /\ \E k \in 0 .. Len(o.events) - 1 : wire' = wire \o SubSeq(o.events, 1, k)
  BY <1>1, DeliverStep DEF RevisionInv
<1>3. o = ChatResult(handler, r)
  BY DEF OnResult
<1> HIDE DEF o
<1>4. CASE pc' = "done"
  <2>1. Typed(wire', {"chunk"})
    <3>1. CASE wire' = wire
      BY <1>1, <3>1
    <3>2. CASE /\ HandlerStep(protocol, handler, r, o)
               /\ \E k \in 0 .. Len(o.events) - 1 : wire' = wire \o SubSeq(o.events, 1, k)
      <4>1. Typed(o.events, {"chunk"})
        BY <3>2 DEF HandlerStep, ChunkTypes
      <4> QED  BY <1>1, <3>2, <4>1, TypedPrefix, TypedConcat
    <3> QED  BY <1>2, <1>4, <3>1, <3>2
  <2>2. ReasonMatches'
    BY <2>1, NoReason
  <2> QED  BY <1>4, <2>2 DEF ReasonInv
<1>5. CASE /\ HandlerStep(protocol, handler, r, o) /\ handler' = o.state
           /\ pc' = next /\ wire' = wire \o o.events
  <2>1. PICK s, t : s = handler.aggregate /\ t = o.state.aggregate
    OBVIOUS
  <2>2. /\ ShowsCall(o.events) <=> Has(r.parts, Calls)
        /\ Has(t.parts, Calls) <=> Has(s.parts, Calls) \/ Has(r.parts, Calls)
        /\ t.feedback \in BOOLEAN /\ (t.feedback <=> s.feedback \/ r.feedback)
        /\ t.finish = HeldBack(s.finish, r)
    <3>1. s.feedback \in BOOLEAN
      BY <1>1, <2>1 DEF ReasonState
    <3> QED  BY <1>1, <1>3, <2>1, <3>1, ChatReason
  <2>3. ShowsCall(wire \o o.events) <=> ShowsCall(wire) \/ ShowsCall(o.events)
    <3>1. PICK S : o.events \in Seq(S)
      BY <1>5 DEF HandlerStep, Typed
    <3> QED  BY <1>1, <3>1, ShowsCallConcat
  <2>4. ShowsCall(wire') <=> Has(t.parts, Calls)
    BY <1>1, <1>5, <2>1, <2>2, <2>3 DEF ReasonState
  <2>5. t.feedback <=> SomeFeedback(sent')
    BY <1>1, <2>1, <2>2 DEF ReasonState
  <2>6. s.finish = None
    BY <1>1, <2>1 DEF ReasonState
  <2>7. /\ next # "flushed" => t.finish = None /\ pendingFinish' = LastFinish(sent')
        /\ next = "flushed" => t.finish = LastFinish(sent')
    BY <2>2, <2>6 DEF HeldBack
  <2>8. handler'.aggregate = t
    BY <1>5, <2>1
  <2>9. ReasonState(handler, wire)'
    BY <1>5, <2>2, <2>4, <2>5, <2>7, <2>8 DEF ReasonState, ShowsCall, SomeFeedback, LastFinish
  <2>10. pc' # "done"
    BY <1>5
  <2> QED  BY <2>9, <2>10 DEF ReasonInv
<1> QED  BY <1>2, <1>4, <1>5

(* The next result of the upstream.                                        *)
LEMMA ArrivalKeepsReason ==
  ASSUME RevisionInv, ContentInv, EndInv, ReasonInv, protocol.name = "chat", ResultArrives
  PROVE  ReasonInv'
<1>1. PICK shape \in Arrivals(protocol.name) :
        LET result == Numbered(shape, Len(sent) + 1)
            rest   == DetachFinish(result)
        IN
        /\ sent' = Append(sent, result)
        /\ pendingFinish' = HeldBack(pendingFinish, result)
        /\ IF IsEmpty(rest) THEN UNCHANGED <<pc, handler, wire, gone>>
                            ELSE Deliver(rest, "stream")
  BY DEF ResultArrives
<1>2. PICK r : r = Numbered(shape, Len(sent) + 1)
  OBVIOUS
<1>3. PICK d : d = DetachFinish(r)
  OBVIOUS
<1>4. pc = "stream" /\ protocol' = protocol
  BY DEF ResultArrives
<1>5. r \in ResultSet
  <2>1. shape \in Shapes /\ Len(sent) + 1 \in Nat
    <3>1. protocol.name \in Names
      BY DEF RevisionInv, Protocols
    <3>2. Len(sent) \in Nat
      BY LenProperties DEF RevisionInv
    <3> QED  BY <3>1, <3>2, ArrivalAssumption
  <2> QED  BY <1>2, <2>1, NumberedIsResult DEF IsResult
<1>6. /\ d.parts = r.parts /\ d.feedback = r.feedback /\ d.grounding = r.grounding
      /\ d.finish = None
      /\ d.parts \in Seq(Part) /\ d.feedback \in BOOLEAN /\ d.grounding \in BOOLEAN
  BY <1>3, <1>5 DEF DetachFinish, ResultSet
<1>7. /\ LastFinish(sent') = HeldBack(LastFinish(sent), r)
      /\ SomeFeedback(sent') <=> SomeFeedback(sent) \/ r.feedback
  BY <1>1, <1>2, <1>5, SentAppend DEF RevisionInv
<1>8. ReasonState(handler, wire)
  BY <1>4 DEF ReasonInv
<1>9. pendingFinish' = LastFinish(sent')
  BY <1>1, <1>2, <1>4, <1>7, <1>8 DEF ReasonState
<1>10. CASE IsEmpty(d)
  <2>1. UNCHANGED <<pc, handler, wire, gone>>
    BY <1>1, <1>2, <1>3, <1>10
  <2>2. ~r.feedback
    BY <1>6, <1>10 DEF IsEmpty, HasMetadata
  <2>3. SomeFeedback(sent') <=> SomeFeedback(sent)
    BY <1>7, <2>2
  <2>4. ReasonState(handler, wire)'
    BY <1>4, <1>8, <1>9, <2>1, <2>3 DEF ReasonState, ShowsCall, SomeFeedback, LastFinish
  <2> QED  BY <1>4, <2>1, <2>4 DEF ReasonInv
<1>11. CASE ~IsEmpty(d)
  <2>1. Deliver(d, "stream")
    BY <1>1, <1>2, <1>3, <1>11
  <2> QED  BY <1>4, <1>6, <1>7, <1>9, <1>11, <2>1, DeliverReason
<1> QED  BY <1>10, <1>11

(* The finish reason held back comes at the end.                           *)
LEMMA FlushKeepsReason ==
  ASSUME RevisionInv, ContentInv, EndInv, ReasonInv, protocol.name = "chat", UpstreamEnds
  PROVE  ReasonInv'
<1>1. pc = "stream" /\ protocol' = protocol /\ sent' = sent
  BY DEF UpstreamEnds
<1>2. ReasonState(handler, wire)
  BY <1>1 DEF ReasonInv
<1>3. pendingFinish = LastFinish(sent) /\ handler.aggregate.finish = None
  BY <1>1, <1>2 DEF ReasonState
<1>4. CASE pendingFinish = None
  <2>1. pc' = "flushed" /\ UNCHANGED <<handler, wire>>
    BY <1>4 DEF UpstreamEnds
  <2>2. ReasonState(handler, wire)'
    BY <1>1, <1>2, <1>3, <1>4, <2>1 DEF ReasonState, ShowsCall, SomeFeedback, LastFinish
  <2> QED  BY <2>1, <2>2 DEF ReasonInv
<1>5. CASE pendingFinish # None
  <2>1. PICK r : r = FinishResult(pendingFinish)
    OBVIOUS
  <2>2. Deliver(r, "flushed") /\ pendingFinish \in Reasons
    BY <1>5, <2>1 DEF UpstreamEnds, RevisionInv
  <2>3. ~IsEmpty(r)
    BY <2>1, <2>2, FinishMeasures DEF RevisionInv, Bounded
  <2>4. /\ r.parts = << >> /\ r.feedback = FALSE /\ r.grounding = FALSE
        /\ r.finish = pendingFinish
    BY <2>1 DEF FinishResult, EmptyResult
  <2>5. r.parts \in Seq(Part)
    BY <2>4, EmptySeq
  <2>6. LastFinish(sent') = LastFinish(sent) /\ (SomeFeedback(sent') <=> SomeFeedback(sent))
    BY <1>1
  <2> QED  BY <1>1, <1>3, <1>5, <2>2, <2>3, <2>4, <2>5, <2>6, DeliverReason
<1> QED  BY <1>4, <1>5

(* So the handler finds the reason that is expected.                       *)
LEMMA EndKeepsReason ==
  ASSUME RevisionInv, ContentInv, EndInv, ReasonInv, protocol.name = "chat", HandlerEnds
  PROVE  ReasonInv'
<1>1. pc = "flushed" /\ pc' = "done" /\ UNCHANGED <<protocol, handler, sent>>
  BY DEF HandlerEnds, Write
<1>2. ReasonState(handler, wire) /\ Typed(wire, {"chunk"})
  BY <1>1 DEF ReasonInv, EndInv, Running, ChunkTypes
<1>3. CASE canceled
  <2>1. Typed(wire', {"chunk"})
    BY <1>2, <1>3 DEF HandlerEnds
  <2>2. ReasonMatches'
    BY <2>1, NoReason
  <2> QED  BY <1>1, <2>2 DEF ReasonInv
<1>4. CASE ~canceled
  <2>1. PICK end, last : /\ end = [type |-> "end", reason |-> OpenAIFinishReason(handler.aggregate),
                                  usage |-> CurrentMetadata(handler.revision)]
                         /\ last = [type |-> "[DONE]"]
    OBVIOUS
  <2>2. PICK e : e = << end, last >>
    OBVIOUS
  <2>3. Write(e, "done")
    BY <1>4, <2>1, <2>2 DEF HandlerEnds, EndEvents, ChatEnd
  <2>4. PICK c : /\ wire' = wire \o c /\ c \in Seq({end, last})
    <3>1. e \in Seq({end, last}) /\ Len(e) = 2 /\ \A i \in 1 .. 2 : e[i] \in {end, last}
      BY <2>2
    <3>2. ASSUME NEW k \in 0 .. Len(e) - 1 PROVE SubSeq(e, 1, k) \in Seq({end, last})
      <4>1. PICK S : S = {end, last}
        OBVIOUS
      <4>2. \A i \in 1 .. k : e[i] \in S
        BY <3>1, <4>1
      <4> QED  BY <3>1, <4>1, <4>2, SubSeqProperties
    <3> QED  BY <2>3, <3>1, <3>2 DEF Write
  <2>5. ~ShowsCall(c)
    <3>1. \A i \in DOMAIN c : c[i] \in {end, last}
      BY <2>4, LenProperties, ElementOfSeq
    <3> QED  BY <2>1, <3>1 DEF ShowsCall
  <2>6. ShowsCall(wire') <=> ShowsCall(wire)
    BY <1>2, <2>4, <2>5, ShowsCallConcat
  <2>7. \A i \in DOMAIN wire' : wire'[i].type = "end" => wire'[i] = end
    <3>1. PICK S : wire \in Seq(S) /\ \A x \in S : IsEvent(x, {"chunk"})
      BY <1>2 DEF Typed
    <3>2. PICK T : T = S \cup {end, last}
      OBVIOUS
    <3>3. wire \in Seq(T) /\ c \in Seq(T)
      BY <2>4, <3>1, <3>2, SeqMonotonic
    <3>4. wire' \in Seq(T)
      BY <2>4, <3>3, ConcatType
    <3>5. \A i \in DOMAIN wire' : wire'[i] \in T
      BY <3>4, LenProperties, ElementOfSeq
    <3>6. \A x \in T : x.type = "end" => x = end
      BY <2>1, <3>1, <3>2 DEF IsEvent
    <3> QED  BY <3>5, <3>6
  <2>8. ExpectedReason' = end.reason
    <3>1. PICK f : f = LastFinish(sent)
      OBVIOUS
    <3>2. /\ handler.aggregate.finish = f
          /\ Has(handler.aggregate.parts, Calls) <=> ShowsCall(wire')
          /\ handler.aggregate.feedback <=> SomeFeedback(sent')
          /\ LastFinish(sent') = f
      <4>1. SomeFeedback(sent') <=> SomeFeedback(sent)
        BY <1>1
      <4>2. LastFinish(sent') = LastFinish(sent)
        BY <1>1
      <4> QED  BY <1>1, <1>2, <2>6, <3>1, <4>1, <4>2 DEF ReasonState
    <3>3. end.reason = IF ShowsCall(wire') THEN "tool_calls"
                       ELSE IF f = "MAX_TOKENS" THEN "length"
                       ELSE IF f = "SAFETY" \/ SomeFeedback(sent') THEN "content_filter" ELSE "stop"
      BY <2>1, <3>2 DEF OpenAIFinishReason
    <3>4. ExpectedReason' = IF ShowsCall(wire') THEN "tool_calls"
                            ELSE IF LastFinish(sent') = "MAX_TOKENS" THEN "length"
                            ELSE IF LastFinish(sent') = "SAFETY" \/ SomeFeedback(sent')
                              THEN "content_filter" ELSE "stop"
      BY DEF ExpectedReason, ShowsCall, SomeFeedback, LastFinish
    <3> QED  BY <3>2, <3>3, <3>4
  <2>9. ReasonMatches'
    BY <2>7, <2>8 DEF ReasonMatches
  <2> QED  BY <1>1, <2>9 DEF ReasonInv
<1> QED  BY <1>3, <1>4

(* An error has no reason.                                                 *)
LEMMA ErrorKeepsReason ==
  ASSUME EndInv, protocol.name = "chat", StreamFails
  PROVE  ReasonInv'
<1> DEFINE types == {"chunk", "error", "http_error"}
<1>1. pc # "done" /\ pc' = "done" /\ protocol' = protocol
  BY DEF StreamFails, Write
<1>2. Typed(wire, types)
  <2>1. PICK S : wire \in Seq(S) /\ \A e \in S : IsEvent(e, {"chunk"})
    BY <1>1 DEF EndInv, Running, ChunkTypes, Typed
  <2>2. \A e \in S : IsEvent(e, types)
    BY <2>1 DEF IsEvent
  <2> HIDE DEF types
  <2> QED  BY <2>1, <2>2, TypedBy
<1>3. Typed(wire', types)
  <2>1. CASE canceled
    BY <1>2, <2>1 DEF StreamFails
  <2>2. CASE ~canceled
    <3>1. PICK e : e = [type |-> IF handler.committed THEN "error" ELSE "http_error"]
      OBVIOUS
    <3>2. IsEvent(e, types)
      BY <3>1 DEF IsEvent
    <3>3. PICK events : events = << e >>
      OBVIOUS
    <3>4. Write(events, "done")
      BY <2>2, <3>1, <3>3 DEF StreamFails, ErrorEvents, ChatError
    <3> HIDE DEF types
    <3>5. Typed(events, types)
      BY <3>2, <3>3, TypedOne
    <3> QED  BY <1>2, <3>4, <3>5, ChunksWritten
  <2> QED  BY <2>1, <2>2
<1>4. ReasonMatches'
  BY <1>3, NoReason
<1> QED  BY <1>1, <1>4 DEF ReasonInv

(* The reason is right at every end.                                       *)
LEMMA NextReason == RevisionInv /\ ContentInv /\ EndInv /\ ReasonInv /\ [Next]_vars => ReasonInv'
<1> SUFFICES ASSUME RevisionInv, ContentInv, EndInv, ReasonInv, [Next]_vars, protocol.name = "chat"
             PROVE  ReasonInv'
  BY ProtocolStays DEF ReasonInv
<1>1. CASE Open
  <2>1. pc = "open" /\ Write(<< >>, "stream") /\ UNCHANGED <<protocol, pendingFinish, handler, sent>>
    BY <1>1 DEF Open
  <2>2. wire \o << >> = wire
    BY <2>1, NoClosing DEF EndInv, Running
  <2>3. wire' = wire /\ pc' = "stream"
    BY <2>1, <2>2 DEF Write
  <2>4. ReasonState(handler, wire)
    BY <2>1 DEF ReasonInv
  <2>5. ReasonState(handler, wire)'
    BY <2>1, <2>3, <2>4 DEF ReasonState, ShowsCall, SomeFeedback, LastFinish
  <2> QED  BY <2>3, <2>5 DEF ReasonInv
<1>2. CASE Cancel
  <2>1. pc # "done" /\ UNCHANGED <<protocol, pc, pendingFinish, handler, wire, sent>>
    BY <1>2 DEF Cancel
  <2>2. ReasonState(handler, wire)'
    BY <2>1 DEF ReasonInv, ReasonState, ShowsCall, SomeFeedback, LastFinish
  <2> QED  BY <2>1, <2>2 DEF ReasonInv
<1>3. CASE UNCHANGED vars
  <2>1. UNCHANGED <<protocol, pc, pendingFinish, handler, wire, sent>>
    BY <1>3 DEF vars
  <2> QED  BY <2>1 DEF ReasonInv, ReasonState, ShowsCall, SomeFeedback, LastFinish,
                       ReasonMatches, ExpectedReason
<1> QED  BY <1>1, <1>2, <1>3, ArrivalKeepsReason, FlushKeepsReason, EndKeepsReason,
            ErrorKeepsReason DEF Next

LEMMA StreamReason == Spec => []ReasonInv
<1>1. Init => ReasonInv
  <2> SUFFICES ASSUME Init, protocol.name = "chat" PROVE ReasonInv
    BY DEF ReasonInv
  <2>1. /\ handler = ChatState /\ wire = << >> /\ sent = << >> /\ pc = "open"
        /\ pendingFinish = None
    BY DEF Init, InitialHandler
  <2>2. /\ handler.aggregate.parts = << >> /\ handler.aggregate.feedback = FALSE
        /\ handler.aggregate.finish = None
    BY <2>1 DEF ChatState, Nothing
  <2>3. ~ShowsCall(wire) /\ ~SomeFeedback(sent) /\ ~Has(handler.aggregate.parts, Calls)
    BY <2>1, <2>2 DEF ShowsCall, SomeFeedback, Has
  <2>4. LastFinish(sent) = None
    BY <2>1 DEF LastFinish
  <2> QED  BY <2>1, <2>2, <2>3, <2>4 DEF ReasonInv, ReasonState
<1> QED  BY <1>1, NextReason, StreamRevision, StreamContent, StreamEnds, PTL DEF Spec

(***************************************************************************)
(* What a client keeps of the items of a Responses stream.                 *)
(***************************************************************************)
AboutItem(e) == "index" \in DOMAIN e
OfTypeIn(w, type) == ItemsAt(w, {i \in DOMAIN w : w[i].type = type})
DeltaOf(e, i) == IF e.type = "output_text.delta" /\ e.index = i THEN e.parts ELSE << >>
DeltasIn(w, i) == FlattenSeq([k \in DOMAIN w |-> DeltaOf(w[k], i)])
ShowsItem(w) == \E i \in DOMAIN w : w[i].type = "output_item.done" /\ w[i].item.type # "compaction"

(* An event the reader can take in.                                        *)
Plain(e) == e.type = "output_text.delta" => e.parts \in Seq(Part)
Plains(w) == \E S : w \in Seq(S) /\ \A e \in S : Plain(e)

ItemSet ==
  [type : {"compaction", "commentary", "message", "function_call", "web_search_call"},
   parts : Seq(Part)]

(* The reader c: how many items were added, which of them are open, the    *)
(* text and the end of each, how many have ended, whether one of these is  *)
(* of this generation, and whether the response is over.                   *)
NoReader ==
  [n |-> 0, open |-> {}, text |-> [i \in Nat |-> << >>],
   items |-> [i \in Nat |-> Item("compaction", << >>)], ended |-> 0,
   shown |-> FALSE, over |-> FALSE]

IsReader(c) ==
  /\ c \in [n : Nat, open : SUBSET Nat, text : [Nat -> Seq(Part)],
            items : [Nat -> ItemSet], ended : Nat, shown : BOOLEAN, over : BOOLEAN]
  /\ \A i \in c.open : i < c.n
  /\ \A i \in Nat : i >= c.n => c.text[i] = << >>

KnowsAdded(w, c) ==
  LET added == OfTypeIn(w, "output_item.added") IN
  /\ Len(added) = c.n
  /\ \A k \in DOMAIN added : added[k].index = k - 1

KnowsEvents(w, c) ==
  /\ \A i \in 0 .. c.n - 1 :
       \E a \in DOMAIN w : w[a].type = "output_item.added" /\ AboutItem(w[a]) /\ w[a].index = i
  /\ \A p \in DOMAIN w : AboutItem(w[p]) =>
       /\ w[p].index \in 0 .. c.n - 1
       /\ w[p].type = "output_item.done" => w[p].index \notin c.open
       /\ \E a \in DOMAIN w :
            /\ a <= p
            /\ w[a].type = "output_item.added" /\ AboutItem(w[a]) /\ w[a].index = w[p].index
  /\ \A p, q \in DOMAIN w :
       p < q /\ AboutItem(w[p]) /\ AboutItem(w[q]) /\ w[p].index = w[q].index =>
         w[p].type # "output_item.done" /\ w[q].type # "output_item.added"

KnowsDone(w, c) ==
  LET done == OfTypeIn(w, "output_item.done") IN
  /\ Len(done) = c.ended
  /\ \A k \in DOMAIN done :
       /\ done[k].index \in 0 .. c.n - 1 /\ done[k].index \notin c.open
       /\ done[k].item = c.items[done[k].index]
       /\ done[k].item.type \in {"commentary", "message"} =>
            done[k].item.parts = c.text[done[k].index]

KnowsTexts(w, c) == \A i \in Nat : DeltasIn(w, i) = c.text[i]

(* The output of a response that is over is the finished items.            *)
Whole(output, c) ==
  /\ c.open = {} /\ c.ended = c.n /\ Len(output) = c.n
  /\ \A i \in 0 .. c.n - 1 : output[i + 1] = c.items[i]

KnowsOver(w, c) ==
  /\ c.shown <=> ShowsItem(w)
  /\ \A p \in DOMAIN w : w[p].type \in {"completed", "failed"} =>
       /\ c.over /\ Whole(w[p].output, c)
       /\ w[p].type = "completed" <=> c.shown

Reads(w, c) ==
  /\ IsReader(c) /\ Plains(w)
  /\ KnowsAdded(w, c) /\ KnowsEvents(w, c) /\ KnowsDone(w, c) /\ KnowsTexts(w, c)
  /\ KnowsOver(w, c)

(* What the reader makes of an event it can take in.                       *)
Passing == {"content_part.added", "output_text.done", "content_part.done", "annotation.added",
            "arguments.delta", "arguments.done"}
Marking == {"output_item.added", "output_text.delta", "output_item.done"}

WithItem(c) == [c EXCEPT !.n = c.n + 1, !.open = c.open \cup {c.n}]
WithText(c, i, text) == [c EXCEPT !.text = [c.text EXCEPT ![i] = c.text[i] \o text]]
WithDone(c, i, item) ==
  [c EXCEPT !.open = c.open \ {i}, !.items = [c.items EXCEPT ![i] = item],
            !.ended = c.ended + 1, !.shown = (c.shown \/ item.type # "compaction")]
WithEnd(c) == [c EXCEPT !.over = TRUE]

TakesAdded(c, e, d) == d = WithItem(c) /\ \E item : e = Added(c.n, item)

TakesPassing(c, e, d) == e.type \in Passing /\ AboutItem(e) /\ e.index \in c.open /\ d = c

TakesDelta(c, e, d) ==
  \E i \in c.open : \E text \in Seq(Part) : e = TextDelta(i, text) /\ d = WithText(c, i, text)

TakesDone(c, e, d) ==
  \E i \in c.open : \E item \in ItemSet :
    /\ item.type \in {"commentary", "message"} => item.parts = c.text[i]
    /\ e = Done(i, item) /\ d = WithDone(c, i, item)

TakesEnd(c, e, d) ==
  /\ ~AboutItem(e) /\ e.type \in {"completed", "failed"}
  /\ Whole(e.output, c) /\ (e.type = "completed" <=> c.shown)
  /\ d = WithEnd(c)

TakesOther(c, e, d) ==
  ~AboutItem(e) /\ e.type \notin Marking \cup {"completed", "failed"} /\ d = c

Takes(c, e, d) ==
  /\ ~c.over
  /\ \/ TakesAdded(c, e, d) \/ TakesPassing(c, e, d) \/ TakesDelta(c, e, d)
     \/ TakesDone(c, e, d) \/ TakesEnd(c, e, d) \/ TakesOther(c, e, d)

(* The events of a type, with one more.                                    *)
LEMMA OfTypeAppend ==
  ASSUME NEW S, NEW w \in Seq(S), NEW e \in S, NEW type
  PROVE  /\ OfTypeIn(w, type) \in Seq(S)
         /\ OfTypeIn(Append(w, e), type)
              = IF e.type = type THEN Append(OfTypeIn(w, type), e) ELSE OfTypeIn(w, type)
<1> DEFINE v == Append(w, e)
           I == {i \in DOMAIN w : w[i].type = type}
           J == {i \in DOMAIN v : v[i].type = type}
<1>1. /\ v \in Seq(S) /\ Len(w) \in Nat /\ DOMAIN w = 1 .. Len(w)
      /\ Len(v) = Len(w) + 1 /\ DOMAIN v = 1 .. Len(w) + 1
      /\ \A i \in 1 .. Len(w) : v[i] = w[i]
      /\ v[Len(w) + 1] = e
  <2>1. v \in Seq(S) /\ Len(v) = Len(w) + 1
    BY AppendProperties
  <2>2. DOMAIN v = 1 .. Len(w) + 1 /\ DOMAIN w = 1 .. Len(w) /\ Len(w) \in Nat
    BY <2>1, LenProperties
  <2> QED  BY <2>1, <2>2, AppendProperties
<1>2. OfTypeIn(w, type) = ItemsAt(w, I) /\ OfTypeIn(v, type) = ItemsAt(v, J)
  BY DEF OfTypeIn
<1>3. ItemsAt(w, I) = ItemsAt(w, J)
  <2>1. \A n \in 1 .. Len(w) : n \in I <=> n \in J
    <3> HIDE DEF v
    <3> QED  BY <1>1
  <2> HIDE DEF I, J, v
  <2> QED  BY <2>1, ItemsAtSame
<1>4. Len(w) + 1 \in J <=> e.type = type
  <2> HIDE DEF v
  <2> QED  BY <1>1
<1> HIDE DEF I, J
<1>5. ItemsAt(v, J) = IF Len(w) + 1 \in J THEN Append(ItemsAt(w, J), e) ELSE ItemsAt(w, J)
  BY ItemsAtAppend
<1>6. ItemsAt(w, I) \in Seq(S)
  BY ItemsAtType
<1> QED  BY <1>2, <1>3, <1>4, <1>5, <1>6

(* Their text, with one more.                                              *)
LEMMA DeltasAppend ==
  ASSUME NEW S, NEW w \in Seq(S), \A x \in S : Plain(x), NEW e \in S, NEW i
  PROVE  /\ DeltasIn(w, i) \in Seq(Part) /\ DeltaOf(e, i) \in Seq(Part)
         /\ DeltasIn(Append(w, e), i) = DeltasIn(w, i) \o DeltaOf(e, i)
<1>1. \A x \in S : DeltaOf(x, i) \in Seq(Part)
  BY EmptySeq DEF DeltaOf, Plain
<1> DEFINE f == [k \in DOMAIN w |-> DeltaOf(w[k], i)]
           v == Append(w, e)
           g == [k \in DOMAIN v |-> DeltaOf(v[k], i)]
           x == DeltaOf(e, i)
           N == Len(w)
<1>2. /\ N \in Nat /\ DOMAIN w = 1 .. N /\ DOMAIN v = 1 .. N + 1
      /\ \A k \in 1 .. N : w[k] \in S /\ v[k] = w[k]
      /\ v[N + 1] = e
  <2>1. v \in Seq(S) /\ Len(v) = N + 1
    BY AppendProperties
  <2>2. N \in Nat /\ DOMAIN w = 1 .. N /\ \A k \in 1 .. N : w[k] \in S
    BY LenProperties, ElementOfSeq
  <2>3. DOMAIN v = 1 .. N + 1
    BY <2>1, LenProperties
  <2> QED  BY <2>2, <2>3, AppendProperties
<1>3. \A k \in 1 .. N : DeltaOf(w[k], i) \in Seq(Part)
  BY <1>1, <1>2
<1>4. f \in Seq(Seq(Part)) /\ Len(f) = N
  <2>1. [k \in 1 .. N |-> DeltaOf(w[k], i)] \in Seq(Seq(Part))
    BY <1>2, <1>3, IsASeq
  <2>2. f = [k \in 1 .. N |-> DeltaOf(w[k], i)] /\ DOMAIN f = 1 .. N
    BY <1>2
  <2> HIDE DEF f
  <2>3. f \in Seq(Seq(Part))
    BY <2>1, <2>2
  <2> QED  BY <1>2, <2>2, <2>3, LenProperties
<1>5. /\ DOMAIN g = 1 .. N + 1 /\ g[N + 1] = x
      /\ \A k \in 1 .. N : g[k] = f[k]
  <2> HIDE DEF v
  <2> QED  BY <1>2
<1>6. x \in Seq(Part)
  BY <1>1
<1>7. g = Append(f, x)
  <2> HIDE DEF f, x
  <2>1. /\ Append(f, x) \in Seq(Seq(Part)) /\ Len(Append(f, x)) = N + 1
        /\ Append(f, x)[N + 1] = x
        /\ \A k \in 1 .. N : Append(f, x)[k] = f[k]
    BY <1>2, <1>4, <1>6, AppendProperties
  <2>2. Append(f, x) = [k \in 1 .. N + 1 |-> Append(f, x)[k]]
    BY <1>2, <2>1, LenProperties
  <2>3. g = [k \in 1 .. N + 1 |-> g[k]]
    BY <1>5
  <2>4. \A k \in 1 .. N + 1 : g[k] = Append(f, x)[k]
    <3> HIDE DEF g
    <3> QED  BY <1>2, <1>5, <2>1
  <2> HIDE DEF g
  <2> QED  BY <2>2, <2>3, <2>4
<1>8. DeltasIn(w, i) = FlattenSeq(f) /\ DeltasIn(v, i) = FlattenSeq(g)
  BY DEF DeltasIn
<1> HIDE DEF f, g, x
<1>9. FlattenSeq(f) \in Seq(Part) /\ FlattenSeq(Append(f, x)) = FlattenSeq(f) \o x
  BY <1>4, <1>6, FlattenType, FlattenAppend
<1> QED  BY <1>6, <1>7, <1>8, <1>9 DEF x, v

(* What one more event makes of the events.                                *)
LEMMA WireAppend ==
  ASSUME NEW w, Plains(w), NEW e, Plain(e)
  PROVE  /\ Plains(Append(w, e))
         /\ Len(w) \in Nat /\ DOMAIN w = 1 .. Len(w)
         /\ DOMAIN Append(w, e) = 1 .. Len(w) + 1
         /\ \A k \in 1 .. Len(w) : Append(w, e)[k] = w[k]
         /\ Append(w, e)[Len(w) + 1] = e
         /\ \A type :
              /\ \E S : OfTypeIn(w, type) \in Seq(S)
              /\ OfTypeIn(Append(w, e), type)
                   = IF e.type = type THEN Append(OfTypeIn(w, type), e) ELSE OfTypeIn(w, type)
         /\ \A i : /\ DeltasIn(w, i) \in Seq(Part) /\ DeltaOf(e, i) \in Seq(Part)
                   /\ DeltasIn(Append(w, e), i) = DeltasIn(w, i) \o DeltaOf(e, i)
<1>1. PICK T : w \in Seq(T) /\ \A x \in T : Plain(x)
  BY DEF Plains
<1>2. PICK S : S = T \cup {e}
  OBVIOUS
<1>3. w \in Seq(S) /\ e \in S /\ \A x \in S : Plain(x)
  BY <1>1, <1>2, SeqMonotonic
<1>4. Append(w, e) \in Seq(S) /\ Len(Append(w, e)) = Len(w) + 1
  BY <1>3, AppendProperties
<1>5. Plains(Append(w, e))
  BY <1>3, <1>4 DEF Plains
<1>6. /\ Len(w) \in Nat /\ DOMAIN w = 1 .. Len(w)
      /\ DOMAIN Append(w, e) = 1 .. Len(w) + 1
  BY <1>3, <1>4, LenProperties
<1>7. /\ \A k \in 1 .. Len(w) : Append(w, e)[k] = w[k]
      /\ Append(w, e)[Len(w) + 1] = e
  BY <1>3, AppendProperties
<1>8. ASSUME NEW type
      PROVE  /\ \E X : OfTypeIn(w, type) \in Seq(X)
             /\ OfTypeIn(Append(w, e), type)
                  = IF e.type = type THEN Append(OfTypeIn(w, type), e) ELSE OfTypeIn(w, type)
  BY <1>3, OfTypeAppend
<1>9. ASSUME NEW i
      PROVE  /\ DeltasIn(w, i) \in Seq(Part) /\ DeltaOf(e, i) \in Seq(Part)
             /\ DeltasIn(Append(w, e), i) = DeltasIn(w, i) \o DeltaOf(e, i)
  BY <1>3, DeltasAppend
<1> QED  BY <1>5, <1>6, <1>7, <1>8, <1>9

(* Events of one type, with one more of them: its length and elements.     *)
LEMMA OneMore ==
  ASSUME NEW s, \E S : s \in Seq(S), NEW e
  PROVE  /\ Len(s) \in Nat /\ DOMAIN s = 1 .. Len(s)
         /\ Len(Append(s, e)) = Len(s) + 1 /\ DOMAIN Append(s, e) = 1 .. Len(s) + 1
         /\ \A k \in 1 .. Len(s) : Append(s, e)[k] = s[k]
         /\ Append(s, e)[Len(s) + 1] = e
<1>1. PICK T : s \in Seq(T)
  OBVIOUS
<1>2. PICK S : S = T \cup {e}
  OBVIOUS
<1>3. s \in Seq(S) /\ e \in S
  BY <1>1, <1>2, SeqMonotonic
<1>4. Append(s, e) \in Seq(S) /\ Len(Append(s, e)) = Len(s) + 1
  BY <1>3, AppendProperties
<1> QED  BY <1>3, <1>4, AppendProperties, LenProperties

LEMMA WireAppendTypes ==
  ASSUME NEW w, Plains(w), NEW e, Plain(e), NEW type, e.type # type
  PROVE  OfTypeIn(Append(w, e), type) = OfTypeIn(w, type)
BY WireAppend

LEMMA WireAppendDeltas ==
  ASSUME NEW w, Plains(w), NEW e, Plain(e)
  PROVE  \A i : DeltasIn(Append(w, e), i) = DeltasIn(w, i) \o DeltaOf(e, i)
BY WireAppend

(* The parts of a reader.                                                  *)
LEMMA ReaderParts ==
  ASSUME NEW c, IsReader(c)
  PROVE  /\ c.n \in Nat /\ c.ended \in Nat /\ c.shown \in BOOLEAN /\ c.over \in BOOLEAN
         /\ c.text \in [Nat -> Seq(Part)] /\ c.items \in [Nat -> ItemSet]
         /\ \A i \in c.open : i \in Nat /\ i \in 0 .. c.n - 1
<1> HIDE DEF ItemSet, Part
<1>1. /\ c \in [n : Nat, open : SUBSET Nat, text : [Nat -> Seq(Part)],
               items : [Nat -> ItemSet], ended : Nat, shown : BOOLEAN, over : BOOLEAN]
      /\ \A i \in c.open : i < c.n
  BY DEF IsReader
<1>2. /\ c.n \in Nat /\ c.ended \in Nat /\ c.shown \in BOOLEAN /\ c.over \in BOOLEAN
      /\ c.text \in [Nat -> Seq(Part)] /\ c.items \in [Nat -> ItemSet] /\ c.open \in SUBSET Nat
  BY <1>1, Zenon
<1>3. \A i \in c.open : i \in Nat /\ i < c.n
  BY <1>1, <1>2
<1>4. \A i \in c.open : i \in 0 .. c.n - 1
  <2>1. \A n \in Nat : \A i \in Nat : i < n => i \in 0 .. n - 1
    OBVIOUS
  <2>2. c.n \in Nat
    BY <1>2
  <2> QED  BY <1>3, <2>1, <2>2, Zenon
<1> QED  BY <1>2, <1>3, <1>4, Zenon

(* An event that is about no item, and neither ends one nor the response.  *)
LEMMA KnowsMore ==
  ASSUME NEW w, NEW c, Reads(w, c), NEW e, Plain(e), NEW d, IsReader(d),
         d.n = c.n, d.open = c.open, d.items = c.items, d.ended = c.ended,
         d.shown = c.shown, c.over => d.over,
         e.type \notin Marking \ {"output_text.delta"}, ~c.over,
         AboutItem(e) => e.index \in c.open,
         \A i \in Nat : d.text[i] = c.text[i] \o DeltaOf(e, i),
         \A i \in Nat : i \notin c.open => d.text[i] = c.text[i],
         e.type \in {"completed", "failed"} =>
           d.over /\ Whole(e.output, c) /\ (e.type = "completed" <=> c.shown)
  PROVE  Reads(Append(w, e), d)
<1> DEFINE v == Append(w, e)
           N == Len(w)
<1>1. Plains(w) /\ IsReader(c)
  BY DEF Reads
<1>2. /\ Plains(v)
      /\ N \in Nat /\ DOMAIN w = 1 .. N /\ DOMAIN v = 1 .. N + 1
      /\ \A k \in 1 .. N : v[k] = w[k]
      /\ v[N + 1] = e
  BY <1>1, WireAppend
<1>3. /\ OfTypeIn(v, "output_item.added") = OfTypeIn(w, "output_item.added")
      /\ OfTypeIn(v, "output_item.done") = OfTypeIn(w, "output_item.done")
      /\ \A i : DeltasIn(v, i) = DeltasIn(w, i) \o DeltaOf(e, i)
  <2>1. e.type # "output_item.added" /\ e.type # "output_item.done"
    BY DEF Marking
  <2> QED  BY <1>1, <2>1, WireAppendTypes, WireAppendDeltas
<1> HIDE DEF v, N
<1>4. KnowsAdded(v, d)
  BY <1>3 DEF Reads, KnowsAdded
<1>5. KnowsEvents(v, d)
  <2>1. KnowsEvents(w, c)
    BY DEF Reads
  <2>2. ASSUME NEW i \in 0 .. c.n - 1
        PROVE  \E a \in DOMAIN v : /\ v[a].type = "output_item.added" /\ AboutItem(v[a])
                                   /\ v[a].index = i
    <3>1. PICK a \in DOMAIN w : /\ w[a].type = "output_item.added" /\ AboutItem(w[a])
                                /\ w[a].index = i
      BY <2>1 DEF KnowsEvents
    <3>2. a \in DOMAIN v /\ v[a] = w[a]
      BY <1>2
    <3> QED  BY <3>1, <3>2
  <2>3. AboutItem(e) => e.index \in 0 .. c.n - 1 /\ e.index \in c.open
    BY <1>1, ReaderParts
  <2>4. e.type # "output_item.done" /\ e.type # "output_item.added"
    BY DEF Marking
  <2>5. ASSUME NEW p \in DOMAIN v, AboutItem(v[p])
        PROVE  /\ v[p].index \in 0 .. c.n - 1
               /\ v[p].type = "output_item.done" => v[p].index \notin c.open
               /\ \E a \in DOMAIN v :
                    /\ a <= p
                    /\ v[a].type = "output_item.added" /\ AboutItem(v[a])
                    /\ v[a].index = v[p].index
    <3>1. CASE p \in 1 .. N
      <4>1. v[p] = w[p] /\ p \in DOMAIN w
        BY <1>2, <3>1
      <4>2. /\ w[p].index \in 0 .. c.n - 1
            /\ w[p].type = "output_item.done" => w[p].index \notin c.open
        BY <2>1, <2>5, <4>1 DEF KnowsEvents
      <4>3. PICK a \in DOMAIN w :
              /\ a <= p
              /\ w[a].type = "output_item.added" /\ AboutItem(w[a]) /\ w[a].index = w[p].index
        BY <2>1, <2>5, <4>1 DEF KnowsEvents
      <4>4. a \in DOMAIN v /\ v[a] = w[a]
        BY <1>2
      <4> QED  BY <4>1, <4>2, <4>3, <4>4
    <3>2. CASE p = N + 1
      <4>1. v[p] = e
        BY <1>2, <3>2
      <4>2. e.index \in 0 .. c.n - 1
        BY <2>3, <2>5, <4>1
      <4>3. PICK a \in DOMAIN v : /\ v[a].type = "output_item.added" /\ AboutItem(v[a])
                                  /\ v[a].index = e.index
        BY <2>2, <4>2
      <4>4. a <= p
        BY <1>2, <3>2
      <4> QED  BY <2>4, <4>1, <4>2, <4>3, <4>4
    <3> QED  BY <1>2, <3>1, <3>2
  <2>6. ASSUME NEW p \in DOMAIN v, NEW q \in DOMAIN v, p < q,
               AboutItem(v[p]), AboutItem(v[q]), v[p].index = v[q].index
        PROVE  v[p].type # "output_item.done" /\ v[q].type # "output_item.added"
    <3>1. p \in DOMAIN w /\ v[p] = w[p]
      BY <1>2, <2>6
    <3>2. CASE q \in 1 .. N
      <4>1. q \in DOMAIN w /\ v[q] = w[q]
        BY <1>2, <3>2
      <4> QED  BY <2>1, <2>6, <3>1, <4>1 DEF KnowsEvents
    <3>3. CASE q = N + 1
      <4>1. v[q] = e /\ e.index \in c.open
        BY <1>2, <2>3, <2>6, <3>3
      <4>2. w[p].type = "output_item.done" => w[p].index \notin c.open
        BY <2>1, <2>6, <3>1 DEF KnowsEvents
      <4> QED  BY <2>4, <2>6, <3>1, <4>1, <4>2
    <3> QED  BY <1>2, <3>2, <3>3
  <2> QED  BY <2>2, <2>5, <2>6 DEF KnowsEvents
<1>6. KnowsDone(v, d)
  <2>1. PICK done : done = OfTypeIn(w, "output_item.done")
    OBVIOUS
  <2>2. /\ Len(done) = c.ended
        /\ \A k \in DOMAIN done :
             /\ done[k].index \in 0 .. c.n - 1 /\ done[k].index \notin c.open
             /\ done[k].item = c.items[done[k].index]
             /\ done[k].item.type \in {"commentary", "message"} =>
                  done[k].item.parts = c.text[done[k].index]
    BY <2>1 DEF Reads, KnowsDone
  <2>3. \A k \in DOMAIN done : d.text[done[k].index] = c.text[done[k].index]
    <3>1. \A i \in 0 .. c.n - 1 : i \in Nat
      BY <1>1, ReaderParts
    <3> QED  BY <2>2, <3>1
  <2> QED  BY <1>3, <2>1, <2>2, <2>3 DEF KnowsDone
<1>7. KnowsTexts(v, d)
  <2>1. \A i \in Nat : DeltasIn(w, i) = c.text[i]
    BY DEF Reads, KnowsTexts
  <2>2. ASSUME NEW i \in Nat PROVE DeltasIn(v, i) = d.text[i]
    <3>1. DeltasIn(v, i) = DeltasIn(w, i) \o DeltaOf(e, i)
      BY <1>3
    <3>2. DeltasIn(w, i) = c.text[i]
      BY <2>1
    <3>3. d.text[i] = c.text[i] \o DeltaOf(e, i)
      OBVIOUS
    <3> QED  BY <3>1, <3>2, <3>3
  <2> QED  BY <2>2 DEF KnowsTexts
<1>8. KnowsOver(v, d)
  <2>1. KnowsOver(w, c)
    BY DEF Reads
  <2>2. \A p \in DOMAIN w : w[p].type \notin {"completed", "failed"}
    BY <2>1 DEF KnowsOver
  <2>3. ShowsItem(v) <=> ShowsItem(w)
    <3>1. \A p \in DOMAIN v : v[p].type = "output_item.done" => p \in DOMAIN w /\ v[p] = w[p]
      BY <1>2 DEF Marking
    <3>2. \A p \in DOMAIN w : p \in DOMAIN v /\ v[p] = w[p]
      BY <1>2
    <3> QED  BY <3>1, <3>2 DEF ShowsItem
  <2>4. \A p \in DOMAIN v : v[p].type \in {"completed", "failed"} => v[p] = e
    BY <1>2, <2>2
  <2>5. \A output : Whole(output, c) => Whole(output, d)
    BY DEF Whole
  <2> QED  BY <2>1, <2>3, <2>4, <2>5 DEF KnowsOver
<1> QED  BY <1>2, <1>4, <1>5, <1>6, <1>7, <1>8 DEF Reads, v

(* The readers of the steps.                                               *)
LEMMA ReaderSteps ==
  ASSUME NEW c, IsReader(c)
  PROVE  /\ IsReader(WithItem(c)) /\ IsReader(WithEnd(c))
         /\ \A i \in c.open : \A text \in Seq(Part) : IsReader(WithText(c, i, text))
         /\ \A i \in c.open : \A item \in ItemSet : IsReader(WithDone(c, i, item))
<1>1. /\ c \in [n : Nat, open : SUBSET Nat, text : [Nat -> Seq(Part)],
               items : [Nat -> ItemSet], ended : Nat, shown : BOOLEAN, over : BOOLEAN]
      /\ \A i \in c.open : i < c.n
      /\ \A i \in Nat : i >= c.n => c.text[i] = << >>
  BY DEF IsReader
<1>2. /\ c.n \in Nat /\ c.ended \in Nat /\ c.shown \in BOOLEAN /\ c.over \in BOOLEAN
      /\ c.text \in [Nat -> Seq(Part)] /\ c.items \in [Nat -> ItemSet]
      /\ \A i \in c.open : i \in Nat /\ i \in 0 .. c.n - 1
  BY ReaderParts
<1>9. PICK Texts, Items : Texts = [Nat -> Seq(Part)] /\ Items = [Nat -> ItemSet]
  OBVIOUS
<1> DEFINE Records == [n : Nat, open : SUBSET Nat, text : Texts,
                       items : Items, ended : Nat, shown : BOOLEAN, over : BOOLEAN]
<1>10. /\ c \in Records /\ c.text \in Texts /\ c.items \in Items
       /\ c.n \in Nat /\ c.ended \in Nat /\ c.shown \in BOOLEAN /\ c.over \in BOOLEAN
  BY <1>1, <1>2, <1>9
<1>11. \A d \in Records : /\ \A i \in d.open : i < d.n
                          /\ \A i \in Nat : i >= d.n => d.text[i] = << >>
                          => IsReader(d)
  BY <1>9, Zenon DEF IsReader
<1>3. c.open \in SUBSET Nat
  BY <1>2
<1> HIDE DEF Records
<1>12. DOMAIN c = {"n", "open", "text", "items", "ended", "shown", "over"}
  BY <1>10 DEF Records
<1>13. \A i \in c.open : i \in Nat /\ i < c.n
  BY <1>1, <1>2, Zenon
<1>4. IsReader(WithItem(c))
  <2>1. WithItem(c) \in Records
    <3>1. PICK n, open : n = c.n + 1 /\ open = c.open \cup {c.n}
      OBVIOUS
    <3>2. n \in Nat /\ open \in SUBSET Nat
      BY <1>3, <1>10, <3>1
    <3>3. [c EXCEPT !.n = n, !.open = open] \in Records
      BY <1>10, <3>2 DEF Records
    <3> QED  BY <3>1, <3>3 DEF WithItem
  <2>2. /\ WithItem(c).n = c.n + 1 /\ WithItem(c).open = c.open \cup {c.n}
        /\ WithItem(c).text = c.text
    BY <1>12 DEF WithItem
  <2>3. \A i \in c.open \cup {c.n} : i < c.n + 1
    BY <1>10, <1>13
  <2>4. \A i \in Nat : i >= c.n + 1 => c.text[i] = << >>
    BY <1>1, <1>2
  <2> QED  BY <1>11, <2>1, <2>2, <2>3, <2>4
<1>5. IsReader(WithEnd(c))
  <2>1. WithEnd(c) \in Records
    <3>1. [c EXCEPT !.over = TRUE] \in Records
      BY <1>10 DEF Records
    <3> QED  BY <3>1 DEF WithEnd
  <2>2. /\ WithEnd(c).n = c.n /\ WithEnd(c).open = c.open /\ WithEnd(c).text = c.text
    BY <1>12 DEF WithEnd
  <2> QED  BY <1>1, <1>11, <2>1, <2>2
<1>6. ASSUME NEW i \in c.open, NEW text \in Seq(Part)
      PROVE  IsReader(WithText(c, i, text))
  <2>1. i \in Nat /\ c.text[i] \in Seq(Part)
    BY <1>2
  <2>2. c.text[i] \o text \in Seq(Part)
    BY <2>1, ConcatType
  <2>3. PICK f : f = [c.text EXCEPT ![i] = c.text[i] \o text]
    OBVIOUS
  <2>4. f \in [Nat -> Seq(Part)]
    BY <1>2, <2>2, <2>3
  <2>5. WithText(c, i, text) = [c EXCEPT !.text = f]
    BY <2>3 DEF WithText
  <2>6. [c EXCEPT !.text = f] \in Records
    BY <1>9, <1>10, <2>4 DEF Records
  <2>7. /\ WithText(c, i, text).n = c.n /\ WithText(c, i, text).open = c.open
        /\ WithText(c, i, text).text = f
    BY <1>12, <2>5
  <2>8. \A j \in Nat : j >= c.n => j # i /\ f[j] = << >>
    BY <1>1, <1>2, <2>3
  <2> QED  BY <1>1, <1>11, <2>5, <2>6, <2>7, <2>8
<1>7. ASSUME NEW i \in c.open, NEW item \in ItemSet
      PROVE  IsReader(WithDone(c, i, item))
  <2>1. PICK f : f = [c.items EXCEPT ![i] = item]
    OBVIOUS
  <2>2. f \in [Nat -> ItemSet]
    BY <1>2, <2>1
  <2>3. PICK open, ended, shown :
          open = c.open \ {i} /\ ended = c.ended + 1 /\ shown = (c.shown \/ item.type # "compaction")
    OBVIOUS
  <2>4. open \in SUBSET Nat /\ ended \in Nat /\ shown \in BOOLEAN
    BY <1>3, <1>10, <2>3
  <2>5. WithDone(c, i, item) = [c EXCEPT !.open = open, !.items = f, !.ended = ended, !.shown = shown]
    BY <2>1, <2>3 DEF WithDone
  <2>6. [c EXCEPT !.open = open, !.items = f, !.ended = ended, !.shown = shown] \in Records
    BY <1>9, <1>10, <2>2, <2>4 DEF Records
  <2>7. /\ WithDone(c, i, item).n = c.n /\ WithDone(c, i, item).open = open
        /\ WithDone(c, i, item).text = c.text
    BY <1>12, <2>5
  <2>8. \A j \in open : j < c.n
    BY <1>1, <2>3
  <2> QED  BY <1>1, <1>11, <2>5, <2>6, <2>7, <2>8
<1> QED  BY <1>4, <1>5, <1>6, <1>7

(* Their parts.                                                            *)
ReaderFields == {"n", "open", "text", "items", "ended", "shown", "over"}

LEMMA ItemParts ==
  ASSUME NEW c, IsReader(c), NEW d, d = WithItem(c)
  PROVE  /\ d.n = c.n + 1 /\ d.open = c.open \cup {c.n} /\ d.text = c.text
         /\ d.items = c.items /\ d.ended = c.ended /\ d.shown = c.shown /\ d.over = c.over
<1>1. DOMAIN c = ReaderFields
  BY DEF IsReader, ReaderFields
<1> QED  BY <1>1 DEF WithItem, ReaderFields

LEMMA EndParts ==
  ASSUME NEW c, IsReader(c), NEW d, d = WithEnd(c)
  PROVE  /\ d.n = c.n /\ d.open = c.open /\ d.text = c.text
         /\ d.items = c.items /\ d.ended = c.ended /\ d.shown = c.shown /\ d.over = TRUE
<1>1. DOMAIN c = ReaderFields
  BY DEF IsReader, ReaderFields
<1> QED  BY <1>1 DEF WithEnd, ReaderFields

LEMMA TextParts ==
  ASSUME NEW c, IsReader(c), NEW f, NEW d, d = [c EXCEPT !.text = f]
  PROVE  /\ d.n = c.n /\ d.open = c.open /\ d.text = f
         /\ d.items = c.items /\ d.ended = c.ended /\ d.shown = c.shown /\ d.over = c.over
<1>1. DOMAIN c = ReaderFields
  BY DEF IsReader, ReaderFields
<1> QED  BY <1>1 DEF ReaderFields

LEMMA DoneParts ==
  ASSUME NEW c, IsReader(c), NEW i \in c.open, NEW item, NEW d, d = WithDone(c, i, item)
  PROVE  /\ d.n = c.n /\ d.open = c.open \ {i} /\ d.text = c.text
         /\ d.items[i] = item /\ \A j \in Nat : j # i => d.items[j] = c.items[j]
         /\ d.ended = c.ended + 1 /\ d.over = c.over
         /\ d.shown <=> c.shown \/ item.type # "compaction"
<1>1. DOMAIN c = ReaderFields
  BY DEF IsReader, ReaderFields
<1>2. PICK f, open, ended, shown :
        /\ f = [c.items EXCEPT ![i] = item] /\ open = c.open \ {i} /\ ended = c.ended + 1
        /\ shown = (c.shown \/ item.type # "compaction")
  OBVIOUS
<1>3. d = [c EXCEPT !.open = open, !.items = f, !.ended = ended, !.shown = shown]
  BY <1>2 DEF WithDone
<1>4. /\ d.n = c.n /\ d.open = open /\ d.text = c.text /\ d.items = f
      /\ d.ended = ended /\ d.over = c.over /\ d.shown = shown
  BY <1>1, <1>3 DEF ReaderFields
<1>5. c.items \in [Nat -> ItemSet] /\ i \in Nat
  BY ReaderParts
<1>6. f[i] = item /\ \A j \in Nat : j # i => f[j] = c.items[j]
  BY <1>2, <1>5
<1> QED  BY <1>2, <1>4, <1>6

(* An item is added.                                                       *)
LEMMA AddedReads ==
  ASSUME NEW w, NEW c, Reads(w, c), ~c.over, NEW item
  PROVE  Reads(Append(w, Added(c.n, item)), WithItem(c))
<1>1. PICK e, d : e = Added(c.n, item) /\ d = WithItem(c)
  OBVIOUS
<1> DEFINE v == Append(w, e)
           N == Len(w)
<1>2. e.type = "output_item.added" /\ e.index = c.n /\ AboutItem(e) /\ Plain(e)
  BY <1>1 DEF Added, AboutItem, Plain
<1>3. /\ Plains(w) /\ IsReader(c) /\ KnowsAdded(w, c) /\ KnowsEvents(w, c) /\ KnowsDone(w, c)
      /\ KnowsTexts(w, c) /\ KnowsOver(w, c)
  BY DEF Reads
<1>4. /\ IsReader(d) /\ d.n = c.n + 1 /\ d.open = c.open \cup {c.n} /\ d.text = c.text
      /\ d.items = c.items /\ d.ended = c.ended /\ d.shown = c.shown /\ d.over = c.over
      /\ c.n \in Nat /\ c.shown \in BOOLEAN
  <2>1. IsReader(d) /\ c.n \in Nat /\ c.shown \in BOOLEAN
    BY <1>1, <1>3, ReaderParts, ReaderSteps
  <2> QED  BY <1>1, <1>3, <2>1, ItemParts
<1>5. /\ Plains(v)
      /\ N \in Nat /\ DOMAIN w = 1 .. N /\ DOMAIN v = 1 .. N + 1
      /\ \A k \in 1 .. N : v[k] = w[k]
      /\ v[N + 1] = e
  BY <1>2, <1>3, WireAppend
<1>6. /\ OfTypeIn(v, "output_item.added") = Append(OfTypeIn(w, "output_item.added"), e)
      /\ \E S : OfTypeIn(w, "output_item.added") \in Seq(S)
      /\ OfTypeIn(v, "output_item.done") = OfTypeIn(w, "output_item.done")
      /\ \A i : DeltasIn(v, i) = DeltasIn(w, i) \o DeltaOf(e, i) /\ DeltasIn(w, i) \in Seq(Part)
  <2>1. ASSUME NEW type
        PROVE  /\ \E S : OfTypeIn(w, type) \in Seq(S)
               /\ OfTypeIn(v, type)
                    = IF e.type = type THEN Append(OfTypeIn(w, type), e) ELSE OfTypeIn(w, type)
    BY <1>2, <1>3, WireAppend
  <2>2. ASSUME NEW i
        PROVE  DeltasIn(v, i) = DeltasIn(w, i) \o DeltaOf(e, i) /\ DeltasIn(w, i) \in Seq(Part)
    BY <1>2, <1>3, WireAppend
  <2> HIDE DEF v
  <2>3. OfTypeIn(v, "output_item.added") = Append(OfTypeIn(w, "output_item.added"), e)
    BY <1>2, <2>1
  <2>4. OfTypeIn(v, "output_item.done") = OfTypeIn(w, "output_item.done")
    BY <1>2, <2>1
  <2> QED  BY <2>1, <2>2, <2>3, <2>4
<1> HIDE DEF v, N
<1>7. KnowsAdded(v, d)
  <2>1. PICK added : added = OfTypeIn(w, "output_item.added")
    OBVIOUS
  <2>2. /\ Len(Append(added, e)) = c.n + 1 /\ DOMAIN Append(added, e) = 1 .. c.n + 1
        /\ DOMAIN added = 1 .. c.n
        /\ \A k \in 1 .. c.n : Append(added, e)[k] = added[k]
        /\ Append(added, e)[c.n + 1] = e
    BY <1>3, <1>6, <2>1, OneMore DEF KnowsAdded
  <2>3. \A k \in 1 .. c.n : added[k].index = k - 1
    BY <1>3, <2>1, <2>2 DEF KnowsAdded
  <2>4. \A k \in 1 .. c.n + 1 : Append(added, e)[k].index = k - 1
    BY <1>2, <1>4, <2>2, <2>3
  <2> QED  BY <1>4, <1>6, <2>1, <2>2, <2>4 DEF KnowsAdded
<1>8. KnowsEvents(v, d)
  <2>1. \A p \in DOMAIN w : p \in DOMAIN v /\ v[p] = w[p]
    BY <1>5
  <2>2. \A p \in DOMAIN w : AboutItem(w[p]) => w[p].index \in 0 .. c.n - 1 /\ w[p].index # c.n
    BY <1>3, <1>4 DEF KnowsEvents
  <2>3. \A p \in DOMAIN v : p \in DOMAIN w \/ (p = N + 1 /\ v[p] = e)
    BY <1>5
  <2>4. N + 1 \in DOMAIN v /\ v[N + 1] = e
    BY <1>5
  <2>5. ASSUME NEW i \in 0 .. d.n - 1
        PROVE  \E a \in DOMAIN v : /\ v[a].type = "output_item.added" /\ AboutItem(v[a])
                                   /\ v[a].index = i
    <3>1. CASE i = c.n
      BY <1>2, <2>4, <3>1
    <3>2. CASE i # c.n
      <4>1. i \in 0 .. c.n - 1
        BY <1>4, <3>2
      <4> QED  BY <1>3, <2>1, <4>1 DEF KnowsEvents
    <3> QED  BY <3>1, <3>2
  <2>6. ASSUME NEW p \in DOMAIN v, AboutItem(v[p])
        PROVE  /\ v[p].index \in 0 .. d.n - 1
               /\ v[p].type = "output_item.done" => v[p].index \notin d.open
               /\ \E a \in DOMAIN v :
                    /\ a <= p
                    /\ v[a].type = "output_item.added" /\ AboutItem(v[a])
                    /\ v[a].index = v[p].index
    <3>1. CASE p \in DOMAIN w
      <4>1. PICK a \in DOMAIN w :
              /\ a <= p
              /\ w[a].type = "output_item.added" /\ AboutItem(w[a]) /\ w[a].index = w[p].index
        BY <1>3, <2>1, <2>6, <3>1 DEF KnowsEvents
      <4>2. /\ w[p].index \in 0 .. c.n - 1
            /\ w[p].type = "output_item.done" => w[p].index \notin c.open
        BY <1>3, <2>1, <2>6, <3>1 DEF KnowsEvents
      <4>3. w[p].index \in 0 .. d.n - 1
        BY <1>4, <4>2
      <4> QED  BY <1>4, <2>1, <2>2, <2>6, <3>1, <4>1, <4>2, <4>3
    <3>2. CASE p = N + 1
      <4>1. c.n \in 0 .. d.n - 1 /\ p <= p
        BY <1>4, <1>5, <3>2
      <4> QED  BY <1>2, <2>4, <3>2, <4>1
    <3> QED  BY <2>3, <3>1, <3>2
  <2>7. ASSUME NEW p \in DOMAIN v, NEW q \in DOMAIN v, p < q,
               AboutItem(v[p]), AboutItem(v[q]), v[p].index = v[q].index
        PROVE  v[p].type # "output_item.done" /\ v[q].type # "output_item.added"
    <3>1. p \in DOMAIN w
      BY <1>5, <2>7
    <3>2. q \in DOMAIN w
      BY <1>2, <2>1, <2>2, <2>3, <2>7, <3>1
    <3> QED  BY <1>3, <2>1, <2>7, <3>1, <3>2 DEF KnowsEvents
  <2> QED  BY <2>5, <2>6, <2>7 DEF KnowsEvents
<1>9. KnowsDone(v, d)
  <2>1. PICK done : done = OfTypeIn(w, "output_item.done")
    OBVIOUS
  <2>2. /\ Len(done) = c.ended
        /\ \A k \in DOMAIN done :
             /\ done[k].index \in 0 .. c.n - 1 /\ done[k].index \notin c.open
             /\ done[k].item = c.items[done[k].index]
             /\ done[k].item.type \in {"commentary", "message"} =>
                  done[k].item.parts = c.text[done[k].index]
    BY <1>3, <2>1 DEF KnowsDone
  <2>3. \A i \in 0 .. c.n - 1 : i \in 0 .. c.n + 1 - 1 /\ i # c.n
    BY <1>4
  <2> QED  BY <1>4, <1>6, <2>1, <2>2, <2>3 DEF KnowsDone
<1>10. KnowsTexts(v, d)
  <2>1. \A i : DeltaOf(e, i) = << >>
    BY <1>2 DEF DeltaOf
  <2>2. \A i : DeltasIn(v, i) = DeltasIn(w, i)
    BY <1>6, <2>1, ConcatEmptySeq
  <2> QED  BY <1>3, <1>4, <2>2 DEF KnowsTexts
<1>11. KnowsOver(v, d)
  <2>1. \A p \in DOMAIN v : (p \in DOMAIN w /\ v[p] = w[p]) \/ v[p] = e
    BY <1>5
  <2>2. \A p \in DOMAIN w : p \in DOMAIN v /\ v[p] = w[p]
    BY <1>5
  <2>3. ShowsItem(v) <=> ShowsItem(w)
    BY <1>2, <2>1, <2>2 DEF ShowsItem
  <2>4. \A p \in DOMAIN v : v[p].type \notin {"completed", "failed"}
    BY <1>2, <1>3, <2>1 DEF KnowsOver
  <2> QED  BY <1>3, <1>4, <2>3, <2>4 DEF KnowsOver
<1>12. Reads(v, d)
  BY <1>4, <1>5, <1>7, <1>8, <1>9, <1>10, <1>11 DEF Reads
<1> QED  BY <1>1, <1>12 DEF v

(* An item is finished.                                                    *)
LEMMA DoneReads ==
  ASSUME NEW w, NEW c, Reads(w, c), ~c.over, NEW i \in c.open, NEW item \in ItemSet,
         item.type \in {"commentary", "message"} => item.parts = c.text[i]
  PROVE  Reads(Append(w, Done(i, item)), WithDone(c, i, item))
<1>1. PICK e, d : e = Done(i, item) /\ d = WithDone(c, i, item)
  OBVIOUS
<1> DEFINE v == Append(w, e)
           N == Len(w)
<1>2. /\ e.type = "output_item.done" /\ e.index = i /\ e.item = item
      /\ AboutItem(e) /\ Plain(e)
  BY <1>1 DEF Done, AboutItem, Plain
<1>3. /\ Plains(w) /\ IsReader(c) /\ KnowsAdded(w, c) /\ KnowsEvents(w, c) /\ KnowsDone(w, c)
      /\ KnowsTexts(w, c) /\ KnowsOver(w, c)
  BY DEF Reads
<1>4. /\ IsReader(d) /\ d.n = c.n /\ d.open = c.open \ {i} /\ d.text = c.text
      /\ d.items[i] = item /\ (\A j \in Nat : j # i => d.items[j] = c.items[j])
      /\ d.ended = c.ended + 1 /\ d.over = c.over
      /\ (d.shown <=> c.shown \/ item.type # "compaction")
      /\ c.n \in Nat /\ c.ended \in Nat /\ c.shown \in BOOLEAN
      /\ i \in 0 .. c.n - 1 /\ c.items \in [Nat -> ItemSet]
  <2>1. /\ IsReader(d) /\ c.n \in Nat /\ c.ended \in Nat /\ c.shown \in BOOLEAN
        /\ i \in 0 .. c.n - 1 /\ c.items \in [Nat -> ItemSet]
    BY <1>1, <1>3, ReaderParts, ReaderSteps
  <2>2. IsReader(c) /\ i \in c.open /\ d = WithDone(c, i, item)
    BY <1>1, <1>3
  <2> HIDE DEF v, N
  <2>3. d.n = c.n /\ d.text = c.text
    BY <2>2, DoneParts
  <2>7. d.open = c.open \ {i}
    <3>1. PICK f, open, ended, shown :
            /\ f = [c.items EXCEPT ![i] = item] /\ open = c.open \ {i} /\ ended = c.ended + 1
            /\ shown = (c.shown \/ item.type # "compaction")
      OBVIOUS
    <3>2. d = [c EXCEPT !.open = open, !.items = f, !.ended = ended, !.shown = shown]
      BY <2>2, <3>1 DEF WithDone
    <3>3. DOMAIN c = ReaderFields
      BY <2>2 DEF IsReader, ReaderFields
    <3>4. d.open = open
      BY <3>2, <3>3 DEF ReaderFields
    <3> QED  BY <3>1, <3>4
  <2>4. d.items[i] = item /\ \A j \in Nat : j # i => d.items[j] = c.items[j]
    BY <2>2, DoneParts
  <2>5. d.ended = c.ended + 1 /\ d.over = c.over
    BY <2>2, DoneParts
  <2>6. d.shown <=> c.shown \/ item.type # "compaction"
    BY <2>2, DoneParts
  <2> QED  BY <2>1, <2>3, <2>4, <2>5, <2>6, <2>7
<1>5. /\ Plains(v)
      /\ N \in Nat /\ DOMAIN w = 1 .. N /\ DOMAIN v = 1 .. N + 1
      /\ \A k \in 1 .. N : v[k] = w[k]
      /\ v[N + 1] = e
  BY <1>2, <1>3, WireAppend
<1>6. /\ OfTypeIn(v, "output_item.done") = Append(OfTypeIn(w, "output_item.done"), e)
      /\ \E S : OfTypeIn(w, "output_item.done") \in Seq(S)
      /\ OfTypeIn(v, "output_item.added") = OfTypeIn(w, "output_item.added")
      /\ \A j : DeltasIn(v, j) = DeltasIn(w, j) \o DeltaOf(e, j) /\ DeltasIn(w, j) \in Seq(Part)
  <2>1. ASSUME NEW type
        PROVE  /\ \E S : OfTypeIn(w, type) \in Seq(S)
               /\ OfTypeIn(v, type)
                    = IF e.type = type THEN Append(OfTypeIn(w, type), e) ELSE OfTypeIn(w, type)
    BY <1>2, <1>3, WireAppend
  <2>2. ASSUME NEW j
        PROVE  DeltasIn(v, j) = DeltasIn(w, j) \o DeltaOf(e, j) /\ DeltasIn(w, j) \in Seq(Part)
    BY <1>2, <1>3, WireAppend
  <2> HIDE DEF v
  <2>3. OfTypeIn(v, "output_item.added") = OfTypeIn(w, "output_item.added")
    BY <1>2, <2>1
  <2>4. OfTypeIn(v, "output_item.done") = Append(OfTypeIn(w, "output_item.done"), e)
    BY <1>2, <2>1
  <2> QED  BY <2>1, <2>2, <2>3, <2>4
<1> HIDE DEF v, N
<1>7. KnowsAdded(v, d)
  BY <1>3, <1>4, <1>6 DEF KnowsAdded
<1>8. KnowsEvents(v, d)
  <2>1. \A p \in DOMAIN w : p \in DOMAIN v /\ v[p] = w[p]
    BY <1>5
  <2>2. \A p \in DOMAIN w :
          AboutItem(w[p]) /\ w[p].type = "output_item.done" => w[p].index # i
    BY <1>3 DEF KnowsEvents
  <2>3. \A p \in DOMAIN v : p \in DOMAIN w \/ (p = N + 1 /\ v[p] = e)
    BY <1>5
  <2>4. N + 1 \in DOMAIN v /\ v[N + 1] = e
    BY <1>5
  <2>5. ASSUME NEW j \in 0 .. d.n - 1
        PROVE  \E a \in DOMAIN v : /\ v[a].type = "output_item.added" /\ AboutItem(v[a])
                                   /\ v[a].index = j
    BY <1>3, <1>4, <2>1 DEF KnowsEvents
  <2>6. ASSUME NEW p \in DOMAIN v, AboutItem(v[p])
        PROVE  /\ v[p].index \in 0 .. d.n - 1
               /\ v[p].type = "output_item.done" => v[p].index \notin d.open
               /\ \E a \in DOMAIN v :
                    /\ a <= p
                    /\ v[a].type = "output_item.added" /\ AboutItem(v[a])
                    /\ v[a].index = v[p].index
    <3>1. CASE p \in DOMAIN w
      <4>1. PICK a \in DOMAIN w :
              /\ a <= p
              /\ w[a].type = "output_item.added" /\ AboutItem(w[a]) /\ w[a].index = w[p].index
        BY <1>3, <2>1, <2>6, <3>1 DEF KnowsEvents
      <4>2. /\ w[p].index \in 0 .. c.n - 1
            /\ w[p].type = "output_item.done" => w[p].index \notin c.open
        BY <1>3, <2>1, <2>6, <3>1 DEF KnowsEvents
      <4> QED  BY <1>4, <2>1, <2>6, <3>1, <4>1, <4>2
    <3>2. CASE p = N + 1
      <4>1. PICK a \in DOMAIN v : /\ v[a].type = "output_item.added" /\ AboutItem(v[a])
                                  /\ v[a].index = i
        BY <1>4, <2>5
      <4>2. a <= p
        BY <1>5, <3>2
      <4> QED  BY <1>2, <1>4, <2>4, <3>2, <4>1, <4>2
    <3> QED  BY <2>3, <3>1, <3>2
  <2>7. ASSUME NEW p \in DOMAIN v, NEW q \in DOMAIN v, p < q,
               AboutItem(v[p]), AboutItem(v[q]), v[p].index = v[q].index
        PROVE  v[p].type # "output_item.done" /\ v[q].type # "output_item.added"
    <3>1. p \in DOMAIN w
      BY <1>5, <2>7
    <3>2. CASE q \in DOMAIN w
      BY <1>3, <2>1, <2>7, <3>1, <3>2 DEF KnowsEvents
    <3>3. CASE q = N + 1
      BY <1>2, <2>1, <2>2, <2>4, <2>7, <3>1, <3>3
    <3> QED  BY <2>3, <3>2, <3>3
  <2> QED  BY <2>5, <2>6, <2>7 DEF KnowsEvents
<1>9. KnowsDone(v, d)
  <2>1. PICK done : done = OfTypeIn(w, "output_item.done")
    OBVIOUS
  <2>2. /\ Len(done) = c.ended
        /\ \A k \in DOMAIN done :
             /\ done[k].index \in 0 .. c.n - 1 /\ done[k].index \notin c.open
             /\ done[k].item = c.items[done[k].index]
             /\ done[k].item.type \in {"commentary", "message"} =>
                  done[k].item.parts = c.text[done[k].index]
    BY <1>3, <2>1 DEF KnowsDone
  <2>3. PICK more : more = Append(done, e)
    OBVIOUS
  <2>4. /\ Len(more) = c.ended + 1 /\ DOMAIN more = 1 .. c.ended + 1
        /\ DOMAIN done = 1 .. c.ended
        /\ \A k \in 1 .. c.ended : more[k] = done[k]
        /\ more[c.ended + 1] = e
    BY <1>6, <2>1, <2>2, <2>3, OneMore
  <2>5. \A j \in 0 .. c.n - 1 : /\ j # i => d.items[j] = c.items[j]
                                /\ d.items[i] = item
    BY <1>4
  <2>6. ASSUME NEW k \in DOMAIN more
        PROVE  /\ more[k].index \in 0 .. d.n - 1 /\ more[k].index \notin d.open
               /\ more[k].item = d.items[more[k].index]
               /\ more[k].item.type \in {"commentary", "message"} =>
                    more[k].item.parts = d.text[more[k].index]
    <3>1. CASE k \in 1 .. c.ended
      <4>1. more[k] = done[k] /\ done[k].index # i
        BY <2>2, <2>4, <3>1
      <4> QED  BY <1>4, <2>2, <2>4, <2>5, <3>1, <4>1
    <3>2. CASE k = c.ended + 1
      BY <1>2, <1>4, <2>4, <2>5, <3>2
    <3> QED  BY <1>4, <2>4, <3>1, <3>2
  <2>7. OfTypeIn(v, "output_item.done") = more /\ Len(more) = d.ended
    BY <1>4, <1>6, <2>1, <2>3, <2>4
  <2> QED  BY <2>6, <2>7 DEF KnowsDone
<1>10. KnowsTexts(v, d)
  <2>1. \A j : DeltaOf(e, j) = << >>
    BY <1>2 DEF DeltaOf
  <2>2. \A j : DeltasIn(v, j) = DeltasIn(w, j)
    BY <1>6, <2>1, ConcatEmptySeq
  <2> QED  BY <1>3, <1>4, <2>2 DEF KnowsTexts
<1>11. KnowsOver(v, d)
  <2>1. \A p \in DOMAIN v : (p \in DOMAIN w /\ v[p] = w[p]) \/ v[p] = e
    BY <1>5
  <2>2. \A p \in DOMAIN w : p \in DOMAIN v /\ v[p] = w[p]
    BY <1>5
  <2>3. ShowsItem(v) <=> ShowsItem(w) \/ item.type # "compaction"
    <3>1. N + 1 \in DOMAIN v /\ v[N + 1] = e
      BY <1>5
    <3> QED  BY <1>2, <2>1, <2>2, <3>1 DEF ShowsItem
  <2>4. \A p \in DOMAIN v : v[p].type \notin {"completed", "failed"}
    BY <1>2, <1>3, <2>1 DEF KnowsOver
  <2>5. c.shown <=> ShowsItem(w)
    BY <1>3 DEF KnowsOver
  <2> QED  BY <1>4, <2>3, <2>4, <2>5 DEF KnowsOver
<1>12. Reads(v, d)
  BY <1>4, <1>5, <1>7, <1>8, <1>9, <1>10, <1>11 DEF Reads
<1> QED  BY <1>1, <1>12 DEF v

(* The reader takes an event in.                                           *)
LEMMA TakesReads ==
  ASSUME NEW w, NEW c, Reads(w, c), NEW e, NEW d, Takes(c, e, d)
  PROVE  Reads(Append(w, e), d)
<1>1. IsReader(c) /\ ~c.over
  BY DEF Reads, Takes
<1>2. /\ c.text \in [Nat -> Seq(Part)] /\ c.over \in BOOLEAN
      /\ \A i \in c.open : i \in Nat
  BY <1>1, ReaderParts
<1>9. \A i \in Nat : c.text[i] \in Seq(Part) /\ c.text[i] \o << >> = c.text[i]
  <2>1. \A i \in Nat : c.text[i] \in Seq(Part)
    BY <1>2
  <2> QED  BY <2>1, ConcatEmptySeq
<1>3. CASE TakesAdded(c, e, d)
  BY <1>1, <1>3, AddedReads DEF TakesAdded
<1>4. CASE TakesPassing(c, e, d)
  <2>1. /\ Plain(e) /\ e.type \notin Marking /\ e.type \notin {"completed", "failed"}
        /\ e.index \in c.open /\ d = c
    BY <1>4 DEF TakesPassing, Passing, Marking, Plain
  <2>2. \A i : DeltaOf(e, i) = << >>
    BY <2>1 DEF DeltaOf, Marking
  <2>3. \A i \in Nat : d.text[i] = c.text[i] \o DeltaOf(e, i)
    BY <1>9, <2>1, <2>2
  <2> QED  BY <1>1, <2>1, <2>3, KnowsMore, SMTT(30)
<1>5. CASE TakesDelta(c, e, d)
  <2>1. PICK i \in c.open : \E text \in Seq(Part) : e = TextDelta(i, text) /\ d = WithText(c, i, text)
    BY <1>5 DEF TakesDelta
  <2>2. PICK text \in Seq(Part) : e = TextDelta(i, text) /\ d = WithText(c, i, text)
    BY <2>1
  <2>3. /\ e.type = "output_text.delta" /\ e.index = i /\ e.parts = text /\ Plain(e)
    BY <2>2 DEF TextDelta, Plain
  <2>4. /\ IsReader(d) /\ d.n = c.n /\ d.open = c.open
        /\ d.text = [c.text EXCEPT ![i] = c.text[i] \o text]
        /\ d.items = c.items /\ d.ended = c.ended /\ d.shown = c.shown /\ d.over = c.over
    <3>1. IsReader(d)
      BY <1>1, <2>2, ReaderSteps
    <3>2. IsReader(c) /\ d = WithText(c, i, text)
      BY <1>1, <2>2
    <3>3. /\ d.n = c.n /\ d.open = c.open /\ d.text = [c.text EXCEPT ![i] = c.text[i] \o text]
          /\ d.items = c.items /\ d.ended = c.ended /\ d.shown = c.shown /\ d.over = c.over
      <4>1. PICK f : f = [c.text EXCEPT ![i] = c.text[i] \o text]
        OBVIOUS
      <4>2. /\ d.n = c.n /\ d.open = c.open /\ d.text = f
            /\ d.items = c.items /\ d.ended = c.ended /\ d.shown = c.shown /\ d.over = c.over
        <5>1. d = [c EXCEPT !.text = f]
          BY <3>2, <4>1 DEF WithText
        <5> QED  BY <3>2, <5>1, TextParts
      <4> QED  BY <4>1, <4>2
    <3> QED  BY <3>1, <3>3
  <2>5. \A j \in Nat : d.text[j] = c.text[j] \o DeltaOf(e, j)
    <3>1. \A j : DeltaOf(e, j) = IF j = i THEN text ELSE << >>
      BY <2>3 DEF DeltaOf
    <3>2. ASSUME NEW j \in Nat PROVE d.text[j] = c.text[j] \o DeltaOf(e, j)
      <4>1. CASE j = i
        BY <1>2, <2>4, <3>1, <4>1
      <4>2. CASE j # i
        <5>1. d.text[j] = c.text[j]
          BY <1>2, <2>4, <4>2
        <5> QED  BY <1>9, <3>1, <4>2, <5>1
      <4> QED  BY <4>1, <4>2
    <3> QED  BY <3>2
  <2>6. \A j \in Nat : j \notin c.open => d.text[j] = c.text[j]
    BY <1>2, <2>4
  <2>7. e.type \notin Marking \ {"output_text.delta"} /\ e.type \notin {"completed", "failed"}
    BY <2>3
  <2>8. /\ IsReader(d) /\ d.n = c.n /\ d.open = c.open /\ d.items = c.items
        /\ d.ended = c.ended /\ d.shown = c.shown /\ d.over = c.over
        /\ e.index \in c.open /\ Plain(e)
    BY <2>3, <2>4
  <2> QED  BY <1>1, <2>5, <2>6, <2>7, <2>8, KnowsMore
<1>6. CASE TakesDone(c, e, d)
  BY <1>1, <1>6, DoneReads DEF TakesDone
<1>7. CASE TakesEnd(c, e, d)
  <2>1. /\ Plain(e) /\ e.type \notin Marking /\ ~AboutItem(e) /\ d = WithEnd(c)
        /\ Whole(e.output, c) /\ (e.type = "completed" <=> c.shown)
    BY <1>7 DEF TakesEnd, Marking, Plain
  <2>2. /\ IsReader(d) /\ d.n = c.n /\ d.open = c.open /\ d.text = c.text
        /\ d.items = c.items /\ d.ended = c.ended /\ d.shown = c.shown /\ d.over = TRUE
    <3>1. IsReader(d)
      BY <1>1, <2>1, ReaderSteps
    <3> QED  BY <1>1, <2>1, <3>1, EndParts
  <2>3. \A i : DeltaOf(e, i) = << >>
    BY <2>1 DEF DeltaOf, Marking
  <2>4. \A i \in Nat : d.text[i] = c.text[i] \o DeltaOf(e, i)
    BY <1>9, <2>2, <2>3
  <2> QED  BY <1>1, <2>1, <2>2, <2>4, KnowsMore
<1>8. CASE TakesOther(c, e, d)
  <2>1. /\ Plain(e) /\ e.type \notin Marking /\ e.type \notin {"completed", "failed"}
        /\ ~AboutItem(e) /\ d = c
    BY <1>8 DEF TakesOther, Marking, Plain
  <2>2. \A i : DeltaOf(e, i) = << >>
    BY <2>1 DEF DeltaOf, Marking
  <2>3. \A i \in Nat : d.text[i] = c.text[i] \o DeltaOf(e, i)
    BY <1>9, <2>1, <2>2
  <2> QED  BY <1>1, <2>1, <2>3, KnowsMore, SMTT(30)
<1> QED  BY <1>3, <1>4, <1>5, <1>6, <1>7, <1>8 DEF Takes

(* A reader of some events, whole and in any beginning.                    *)
Run(c, events, d) ==
  /\ \E S : events \in Seq(S)
  /\ \A w : Reads(w, c) =>
       /\ Reads(w \o events, d)
       /\ \A k \in 0 .. Len(events) : \E x : Reads(w \o SubSeq(events, 1, k), x)

LEMMA ReadsSeq == ASSUME NEW w, NEW c, Reads(w, c) PROVE \E S : w \in Seq(S)
BY DEF Reads, Plains

(* No event.                                                               *)
LEMMA RunNone == ASSUME NEW c PROVE Run(c, << >>, c)
<1>1. PICK none : none = << >>
  OBVIOUS
<1>2. (\E S : none \in Seq(S)) /\ Len(none) = 0 /\ SubSeq(none, 1, 0) = << >>
  <2>1. \E S : none \in Seq(S)
    BY <1>1, EmptySeq
  <2> QED  BY <1>1, <2>1, SubSeqEmpty
<1>3. ASSUME NEW w, Reads(w, c) PROVE w \o << >> = w
  BY <1>3, ReadsSeq, ConcatEmptySeq
<1>4. \A k \in 0 .. Len(none) : k = 0
  BY <1>2
<1> QED  BY <1>1, <1>2, <1>3, <1>4 DEF Run

(* One event.                                                              *)
LEMMA RunOne == ASSUME NEW c, NEW e, NEW d, Takes(c, e, d) PROVE Run(c, << e >>, d)
<1>1. PICK one : one = << e >>
  OBVIOUS
<1>2. PICK E : E = {e}
  OBVIOUS
<1>3. one \in Seq(E) /\ Len(one) = 1
  BY <1>1, <1>2
<1>4. SubSeq(one, 1, 0) = << >> /\ SubSeq(one, 1, 1) = one
  BY <1>3, SubSeqEmpty, SubSeqFull
<1>5. ASSUME NEW w, Reads(w, c)
      PROVE  w \o one = Append(w, e) /\ w \o << >> = w
  <2>1. PICK S : w \in Seq(S)
    BY <1>5, ReadsSeq
  <2>2. PICK T : T = S \cup {e}
    OBVIOUS
  <2>3. w \in Seq(T) /\ e \in T
    BY <2>1, <2>2, SeqMonotonic
  <2> QED  BY <1>1, <2>3, AppendIsConcat, ConcatEmptySeq
<1>6. ASSUME NEW w, Reads(w, c) PROVE Reads(Append(w, e), d)
  BY <1>6, TakesReads
<1>7. \A k \in 0 .. Len(one) : k = 0 \/ k = 1
  BY <1>3
<1> QED  BY <1>1, <1>3, <1>4, <1>5, <1>6, <1>7 DEF Run

(* A beginning of two sequences.                                           *)
LEMMA BeginningOfConcat ==
  ASSUME NEW S, NEW a \in Seq(S), NEW b \in Seq(S)
  PROVE  /\ \A k \in 0 .. Len(a) : SubSeq(a \o b, 1, k) = SubSeq(a, 1, k)
         /\ \A m \in 0 .. Len(b) : SubSeq(a \o b, 1, Len(a) + m) = a \o SubSeq(b, 1, m)
<1> DEFINE ab == a \o b
<1>1. /\ ab \in Seq(S) /\ Len(ab) = Len(a) + Len(b)
      /\ \A i \in 1 .. Len(a) + Len(b) : ab[i] = IF i <= Len(a) THEN a[i] ELSE b[i - Len(a)]
      /\ Len(a) \in Nat /\ Len(b) \in Nat
  BY ConcatProperties, LenProperties
<1> HIDE DEF ab
<1>2. ASSUME NEW k \in 0 .. Len(a) PROVE SubSeq(ab, 1, k) = SubSeq(a, 1, k)
  <2>1. \A i \in 1 .. k : ab[i] = a[i]
    BY <1>1
  <2> QED  BY <2>1, <1>1
<1>3. ASSUME NEW m \in 0 .. Len(b) PROVE SubSeq(ab, 1, Len(a) + m) = a \o SubSeq(b, 1, m)
  <2>1. PICK u, v : u = SubSeq(ab, 1, Len(a) + m) /\ v = SubSeq(b, 1, m)
    OBVIOUS
  <2>2. \A i \in 1 .. Len(a) + m : ab[i] \in S
    BY <1>1, ElementOfSeq
  <2>3. \A i \in 1 .. m : b[i] \in S
    BY <1>1, ElementOfSeq
  <2>4. /\ u \in Seq(S) /\ Len(u) = Len(a) + m
        /\ \A i \in 1 .. Len(a) + m : u[i] = ab[i]
    <3>1. Len(a) + m \in Nat /\ 1 - 1 <= Len(a) + m
      BY <1>1
    <3>2. Len(a) + m - 1 + 1 = Len(a) + m /\ \A i \in 1 .. Len(a) + m : i + 1 - 1 = i
      BY <3>1
    <3> QED  BY <2>1, <2>2, <3>1, <3>2, SubSeqProperties
  <2>5. /\ v \in Seq(S) /\ Len(v) = m /\ \A i \in 1 .. m : v[i] = b[i]
    <3>1. m \in Nat /\ 1 - 1 <= m /\ m - 1 + 1 = m /\ \A i \in 1 .. m : i + 1 - 1 = i
      BY <1>1
    <3> QED  BY <2>1, <2>3, <3>1, SubSeqProperties
  <2>6. /\ a \o v \in Seq(S) /\ Len(a \o v) = Len(a) + m
        /\ \A i \in 1 .. Len(a) + m : (a \o v)[i] = IF i <= Len(a) THEN a[i] ELSE v[i - Len(a)]
    BY <2>5, ConcatProperties
  <2>7. \A i \in 1 .. Len(a) + m : u[i] = (a \o v)[i]
    <3>1. ASSUME NEW i \in 1 .. Len(a) + m PROVE u[i] = (a \o v)[i]
      <4>1. u[i] = ab[i] /\ ab[i] = IF i <= Len(a) THEN a[i] ELSE b[i - Len(a)]
        BY <1>1, <2>4
      <4>2. i > Len(a) => i - Len(a) \in 1 .. m /\ v[i - Len(a)] = b[i - Len(a)]
        BY <1>1, <2>5
      <4>3. i <= Len(a) \/ i > Len(a)
        BY <1>1
      <4> QED  BY <2>6, <4>1, <4>2, <4>3
    <3> QED  BY <3>1
  <2>8. u = a \o v
    <3>1. PICK z : z = a \o v
      OBVIOUS
    <3>2. \A i \in 1 .. Len(u) : u[i] = z[i]
      BY <2>4, <2>7, <3>1
    <3> QED  BY <2>4, <2>6, <3>1, <3>2, SeqEqual
  <2> QED  BY <2>1, <2>8
<1> QED  BY <1>2, <1>3 DEF ab

(* One run after another.                                                  *)
LEMMA RunConcat ==
  ASSUME NEW c, NEW a, NEW d, Run(c, a, d), NEW b, NEW x, Run(d, b, x)
  PROVE  Run(c, a \o b, x)
<1>1. PICK S : a \in Seq(S)
  BY DEF Run
<1>2. PICK T : b \in Seq(T)
  BY DEF Run
<1>3. PICK U : U = S \cup T
  OBVIOUS
<1>4. a \in Seq(U) /\ b \in Seq(U)
  BY <1>1, <1>2, <1>3, SeqMonotonic
<1>5. a \o b \in Seq(U) /\ Len(a \o b) = Len(a) + Len(b) /\ Len(a) \in Nat /\ Len(b) \in Nat
  BY <1>4, ConcatProperties, LenProperties
<1>6. ASSUME NEW w, Reads(w, c)
      PROVE  /\ Reads(w \o (a \o b), x)
             /\ \A k \in 0 .. Len(a \o b) : \E y : Reads(w \o SubSeq(a \o b, 1, k), y)
  <2>1. PICK V : w \in Seq(V)
    BY <1>6, ReadsSeq
  <2>2. PICK X : X = V \cup U
    OBVIOUS
  <2>3. w \in Seq(X) /\ a \in Seq(X) /\ b \in Seq(X)
    BY <1>4, <2>1, <2>2, SeqMonotonic
  <2>4. PICK v : v = w \o a
    OBVIOUS
  <2>5. Reads(v, d) /\ w \o (a \o b) = v \o b
    BY <1>6, <2>3, <2>4, ConcatAssociative DEF Run
  <2>6. Reads(v \o b, x)
    BY <2>5 DEF Run
  <2>7. ASSUME NEW k \in 0 .. Len(a \o b) PROVE \E y : Reads(w \o SubSeq(a \o b, 1, k), y)
    <3>1. CASE k <= Len(a)
      <4>1. k \in 0 .. Len(a)
        BY <1>5, <3>1
      <4>2. SubSeq(a \o b, 1, k) = SubSeq(a, 1, k)
        BY <2>3, <4>1, BeginningOfConcat
      <4> QED  BY <1>6, <4>1, <4>2 DEF Run
    <3>2. CASE k > Len(a)
      <4>1. PICK m : m = k - Len(a)
        OBVIOUS
      <4>2. m \in 0 .. Len(b) /\ k = Len(a) + m
        BY <1>5, <3>2, <4>1
      <4>3. SubSeq(a \o b, 1, k) = a \o SubSeq(b, 1, m)
        BY <2>3, <4>2, BeginningOfConcat
      <4>4. PICK z : z = SubSeq(b, 1, m)
        OBVIOUS
      <4>5. z \in Seq(X)
        <5>1. Len(b) \in Nat /\ \A i \in 1 .. Len(b) : b[i] \in X
          BY <2>3, LenProperties, ElementOfSeq
        <5>2. \A i \in 1 .. m : b[i] \in X
          BY <4>2, <5>1
        <5> QED  BY <4>2, <4>4, <5>2, SubSeqProperties
      <4>6. w \o (a \o z) = v \o z
        <5>1. (w \o a) \o z = w \o (a \o z)
          BY <2>3, <4>5, SMTT(30)
        <5> QED  BY <2>4, <5>1
      <4>7. \E y : Reads(v \o z, y)
        BY <2>5, <4>2, <4>4 DEF Run
      <4> QED  BY <4>3, <4>4, <4>6, <4>7
    <3> QED  BY <1>5, <3>1, <3>2
  <2> QED  BY <2>5, <2>6, <2>7
<1> QED  BY <1>5, <1>6 DEF Run

(* Two events, and three.                                                  *)
LEMMA OneAndMore ==
  ASSUME NEW a, NEW b, NEW d
  PROVE  << a >> \o << b >> = << a, b >> /\ << a >> \o << b, d >> = << a, b, d >>
<1>1. PICK S : S = {a, b, d}
  OBVIOUS
<1>2. PICK s, t, u, x, y : /\ s = << a >> /\ t = << b >> /\ u = << a, b >>
                           /\ x = << b, d >> /\ y = << a, b, d >>
  OBVIOUS
<1>3. /\ s \in Seq(S) /\ Len(s) = 1 /\ s[1] = a
      /\ t \in Seq(S) /\ Len(t) = 1 /\ t[1] = b
      /\ u \in Seq(S) /\ Len(u) = 2 /\ u[1] = a /\ u[2] = b
      /\ x \in Seq(S) /\ Len(x) = 2 /\ x[1] = b /\ x[2] = d
      /\ y \in Seq(S) /\ Len(y) = 3 /\ y[1] = a /\ y[2] = b /\ y[3] = d
  <2>1. a \in S /\ b \in S /\ d \in S
    BY <1>1
  <2>2. s \in Seq(S) /\ Len(s) = 1 /\ s[1] = a /\ t \in Seq(S) /\ Len(t) = 1 /\ t[1] = b
    BY <1>2, <2>1
  <2>3. /\ u \in Seq(S) /\ Len(u) = 2 /\ u[1] = a /\ u[2] = b
        /\ x \in Seq(S) /\ Len(x) = 2 /\ x[1] = b /\ x[2] = d
    BY <1>2, <2>1
  <2>4. y \in Seq(S) /\ Len(y) = 3 /\ y[1] = a /\ y[2] = b /\ y[3] = d
    BY <1>2, <2>1
  <2> QED  BY <2>2, <2>3, <2>4
<1>4. s \o t = u
  <2>1. /\ s \o t \in Seq(S) /\ Len(s \o t) = 2
        /\ \A i \in 1 .. 2 : (s \o t)[i] = IF i <= 1 THEN s[i] ELSE t[i - 1]
    BY <1>3, ConcatProperties
  <2>2. \A i \in 1 .. 2 : i = 1 \/ i = 2
    OBVIOUS
  <2>3. \A i \in 1 .. 2 : (s \o t)[i] = u[i]
    BY <1>3, <2>1, <2>2
  <2> QED  BY <1>3, <2>1, <2>3, SeqEqual
<1>5. s \o x = y
  <2>1. /\ s \o x \in Seq(S) /\ Len(s \o x) = 3
        /\ \A i \in 1 .. 3 : (s \o x)[i] = IF i <= 1 THEN s[i] ELSE x[i - 1]
    <3>1. /\ s \o x \in Seq(S) /\ Len(s \o x) = Len(s) + Len(x)
          /\ \A i \in 1 .. Len(s) + Len(x) :
               (s \o x)[i] = IF i <= Len(s) THEN s[i] ELSE x[i - Len(s)]
      BY <1>3, ConcatProperties
    <3>2. Len(s) + Len(x) = 3
      BY <1>3
    <3> QED  BY <1>3, <3>1, <3>2
  <2>2. \A i \in 1 .. 3 : i = 1 \/ i = 2 \/ i = 3
    OBVIOUS
  <2>3. \A i \in 1 .. 3 : (s \o x)[i] = y[i]
    BY <1>3, <2>1, <2>2
  <2> QED  BY <1>3, <2>1, <2>3, SeqEqual
<1> QED  BY <1>2, <1>4, <1>5

LEMMA RunTwo ==
  ASSUME NEW c, NEW a, NEW d, Takes(c, a, d), NEW b, NEW x, Takes(d, b, x)
  PROVE  Run(c, << a, b >>, x)
<1>1. PICK u, v : u = << a >> /\ v = << b >>
  OBVIOUS
<1>2. Run(c, u, d) /\ Run(d, v, x)
  BY <1>1, RunOne
<1>3. Run(c, u \o v, x)
  BY <1>2, RunConcat
<1> QED  BY <1>1, <1>3, OneAndMore

LEMMA RunThree ==
  ASSUME NEW c, NEW e1, NEW c1, Takes(c, e1, c1), NEW e2, NEW c2, Takes(c1, e2, c2),
         NEW e3, NEW c3, Takes(c2, e3, c3)
  PROVE  Run(c, << e1, e2, e3 >>, c3)
<1>1. PICK u, v : u = << e1 >> /\ v = << e2, e3 >>
  OBVIOUS
<1>2. Run(c, u, c1) /\ Run(c1, v, c3)
  BY <1>1, RunOne, RunTwo
<1>3. Run(c, u \o v, c3)
  BY <1>2, RunConcat
<1> QED  BY <1>1, <1>3, OneAndMore

(* The text of an item, which is opened if it is not.                      *)
LEMMA TextRun ==
  ASSUME NEW c, IsReader(c), ~c.over, NEW opens \in BOOLEAN, NEW i,
         IF opens THEN i = c.n ELSE i \in c.open, NEW type, NEW text \in Seq(Part)
  PROVE  Run(c, (IF opens THEN Opened(i, type) ELSE << >>) \o << TextDelta(i, text) >>,
             WithText(IF opens THEN WithItem(c) ELSE c, i, text))
<1>1. PICK first, last, d, x :
        /\ first = IF opens THEN Opened(i, type) ELSE << >>
        /\ last = << TextDelta(i, text) >>
        /\ d = IF opens THEN WithItem(c) ELSE c
        /\ x = WithText(d, i, text)
  OBVIOUS
<1>2. Run(c, first, d) /\ ~d.over /\ i \in d.open
  <2>1. CASE opens
    <3>1. d = WithItem(c) /\ i = c.n
      BY <1>1, <2>1
    <3>2. d.open = c.open \cup {c.n} /\ d.over = c.over
      BY <3>1, ItemParts
    <3>3. PICK a, b : a = Added(i, Item(type, << >>)) /\ b = PartAdded(i)
      OBVIOUS
    <3>4. Takes(c, a, d)
      BY <3>1, <3>3 DEF Takes, TakesAdded
    <3>5. b.type \in Passing /\ AboutItem(b) /\ b.index = i
      BY <3>3 DEF PartAdded, Passing, AboutItem
    <3>6. Takes(d, b, d)
      BY <3>1, <3>2, <3>5 DEF Takes, TakesPassing
    <3>7. Run(c, << a, b >>, d)
      BY <3>4, <3>6, RunTwo
    <3> QED  BY <1>1, <2>1, <3>1, <3>2, <3>3, <3>7 DEF Opened
  <2>2. CASE ~opens
    BY <1>1, <2>2, RunNone
  <2> QED  BY <2>1, <2>2
<1>3. Run(d, last, x)
  <2>1. PICK e : e = TextDelta(i, text)
    OBVIOUS
  <2>2. Takes(d, e, x)
    BY <1>1, <1>2, <2>1 DEF Takes, TakesDelta
  <2> QED  BY <1>1, <2>1, <2>2, RunOne
<1>4. Run(c, first \o last, x)
  BY <1>2, <1>3, RunConcat
<1> QED  BY <1>1, <1>4

(* The end of a text.                                                      *)
LEMMA ClosedRun ==
  ASSUME NEW c, IsReader(c), ~c.over, NEW i \in c.open, NEW item \in ItemSet,
         item.type \in {"commentary", "message"}, item.parts = c.text[i]
  PROVE  Run(c, Closed(i, item), WithDone(c, i, item))
<1>1. PICK e1, e2, e3, d : /\ e1 = TextDone(i, item.parts) /\ e2 = PartDone(i, item.parts)
                           /\ e3 = Done(i, item) /\ d = WithDone(c, i, item)
  OBVIOUS
<1>2. e1.type \in Passing /\ AboutItem(e1) /\ e1.index = i
  BY <1>1 DEF TextDone, Passing, AboutItem
<1>3. e2.type \in Passing /\ AboutItem(e2) /\ e2.index = i
  BY <1>1 DEF PartDone, Passing, AboutItem
<1>4. Takes(c, e1, c) /\ Takes(c, e2, c)
  BY <1>2, <1>3 DEF Takes, TakesPassing
<1>5. Takes(c, e3, d)
  BY <1>1 DEF Takes, TakesDone
<1>6. Run(c, << e1, e2, e3 >>, d)
  BY <1>4, <1>5, RunThree
<1> QED  BY <1>1, <1>6 DEF Closed

(* The handler and the reader: their items and their open texts.           *)
Agrees(s, c) ==
  /\ DOMAIN s = ResponsesFields
  /\ IsReader(c) /\ ~c.over
  /\ s.output \in Seq(ItemSet) /\ Len(s.output) = c.n
  /\ c.open = {s.commentary, s.message} \ {NoItem}
  /\ s.commentary = s.message => s.message = NoItem
  /\ s.commentaryText = IF s.commentary = NoItem THEN << >> ELSE c.text[s.commentary]
  /\ s.messageText = IF s.message = NoItem THEN << >> ELSE c.text[s.message]
  /\ \A i \in 0 .. c.n - 1 : i \notin c.open => s.output[i + 1] = c.items[i]
  /\ c.n = c.ended + (IF s.commentary = NoItem THEN 0 ELSE 1) + (IF s.message = NoItem THEN 0 ELSE 1)

(* An item of this generation has been added.                              *)
Told(s, c) == c.shown \/ s.commentary # NoItem \/ s.message # NoItem

ReadStep(s, c, o, more) ==
  \E d : /\ Run(c, o.events, d) /\ Agrees(o.state, d)
         /\ Told(o.state, d) <=> Told(s, c) \/ more

LEMMA AgreesTypes ==
  ASSUME NEW s, NEW c, Agrees(s, c)
  PROVE  /\ c.n \in Nat /\ c.ended \in Nat /\ c.shown \in BOOLEAN /\ NoItem \notin Nat
         /\ c.text \in [Nat -> Seq(Part)] /\ c.items \in [Nat -> ItemSet]
         /\ s.commentary # NoItem => s.commentary \in c.open /\ s.commentary \in 0 .. c.n - 1
         /\ s.message # NoItem => s.message \in c.open /\ s.message \in 0 .. c.n - 1
         /\ s.commentaryText \in Seq(Part) /\ s.messageText \in Seq(Part)
         /\ c.n \notin c.open /\ \A i \in Nat : i >= c.n => c.text[i] = << >>
<1>1. /\ c.n \in Nat /\ c.ended \in Nat /\ c.shown \in BOOLEAN
      /\ c.text \in [Nat -> Seq(Part)] /\ c.items \in [Nat -> ItemSet]
      /\ \A i \in c.open : i \in Nat /\ i \in 0 .. c.n - 1
  BY ReaderParts DEF Agrees
<1>2. /\ s.commentary # NoItem => s.commentary \in c.open /\ s.commentary \in 0 .. c.n - 1
      /\ s.message # NoItem => s.message \in c.open /\ s.message \in 0 .. c.n - 1
  BY <1>1 DEF Agrees
<1>3. NoItem \notin Nat /\ c.n \notin c.open
  <2>1. NoItem \notin Nat
    BY DEF NoItem
  <2>2. ~(c.n \in 0 .. c.n - 1)
    <3>1. \A n \in Nat : ~(n \in 0 .. n - 1)
      OBVIOUS
    <3> QED  BY <1>1, <3>1, Zenon
  <2> QED  BY <1>1, <2>1, <2>2
<1>4. /\ s.commentary # NoItem => s.commentary \in Nat
      /\ s.message # NoItem => s.message \in Nat
  BY <1>1, <1>2
<1>5. s.commentaryText \in Seq(Part) /\ s.messageText \in Seq(Part)
  BY <1>1, <1>4, EmptySeq DEF Agrees
<1>6. \A i \in Nat : i >= c.n => c.text[i] = << >>
  BY DEF Agrees, IsReader
<1> QED  BY <1>1, <1>2, <1>3, <1>5, <1>6

(* An item at the end of the output.                                       *)
LEMMA OutputAppend ==
  ASSUME NEW output \in Seq(ItemSet), NEW item \in ItemSet
  PROVE  /\ Append(output, item) \in Seq(ItemSet) /\ Len(output) \in Nat
         /\ Len(Append(output, item)) = Len(output) + 1
         /\ \A i \in 0 .. Len(output) - 1 : Append(output, item)[i + 1] = output[i + 1]
         /\ Append(output, item)[Len(output) + 1] = item
<1>1. Len(output) \in Nat
  BY LenProperties
<1>2. \A i \in 0 .. Len(output) - 1 : i + 1 \in 1 .. Len(output)
  BY <1>1
<1> QED  BY <1>1, <1>2, AppendProperties

(* An item in the place of another.                                        *)
Put(output, i, item) == [output EXCEPT ![i + 1] = item]

LEMMA OutputExcept ==
  ASSUME NEW output \in Seq(ItemSet), NEW item \in ItemSet, NEW i \in 0 .. Len(output) - 1,
         NEW next, next = Put(output, i, item)
  PROVE  /\ next \in Seq(ItemSet) /\ Len(next) = Len(output)
         /\ next[i + 1] = item
         /\ \A j \in 0 .. Len(output) - 1 : j # i => next[j + 1] = output[j + 1]
<1>1. Len(output) \in Nat /\ DOMAIN output = 1 .. Len(output)
  BY LenProperties
<1>2. i + 1 \in 1 .. Len(output)
  BY <1>1
<1>3. next \in Seq(ItemSet) /\ Len(next) = Len(output)
  BY <1>2, ExceptSeq DEF Put
<1>4. next[i + 1] = item
  BY <1>1, <1>2 DEF Put
<1>5. \A j \in 0 .. Len(output) - 1 : j + 1 \in DOMAIN output /\ (j # i => j + 1 # i + 1)
  BY <1>1
<1>6. \A k \in DOMAIN output : k # i + 1 => next[k] = output[k]
  BY <1>1 DEF Put
<1> QED  BY <1>3, <1>4, <1>5, <1>6

LEMMA ItemIs ==
  ASSUME NEW type \in {"compaction", "commentary", "message", "function_call", "web_search_call"},
         NEW parts \in Seq(Part)
  PROVE  /\ Item(type, parts) \in ItemSet
         /\ Item(type, parts).type = type /\ Item(type, parts).parts = parts
BY DEF Item, ItemSet

(* Thoughts go to the commentary.                                          *)
LEMMA ReasonReads ==
  ASSUME NEW s, NEW c, Agrees(s, c), NEW thoughts \in Seq(Part)
  PROVE  ReadStep(s, c, Reason(s, thoughts), thoughts # << >>)
<1> DEFINE opens == s.commentary = NoItem
           index == IF opens THEN Len(s.output) ELSE s.commentary
           output == IF opens THEN Append(s.output, Item("commentary", << >>)) ELSE s.output
           text == s.commentaryText \o thoughts
           next == [s EXCEPT !.commentary = index, !.commentaryText = text, !.output = output]
           events == (IF opens THEN Opened(index, "commentary") ELSE << >>)
                       \o << TextDelta(index, thoughts) >>
<1>1. CASE thoughts = << >>
  <2>1. Reason(s, thoughts) = [state |-> s, events |-> << >>]
    BY <1>1 DEF Reason
  <2> QED  BY <1>1, <2>1, RunNone DEF ReadStep
<1>2. CASE thoughts # << >>
  <2>1. Reason(s, thoughts) = [state |-> next, events |-> events]
    BY <1>2 DEF Reason
  <2>2. PICK o, i, t, b : o = output /\ i = index /\ t = text /\ b = opens
    OBVIOUS
  <2>3. PICK n : n = [s EXCEPT !.commentary = i, !.commentaryText = t, !.output = o]
    OBVIOUS
  <2>4. /\ DOMAIN n = ResponsesFields /\ n.commentary = i /\ n.commentaryText = t /\ n.output = o
        /\ n.message = s.message /\ n.messageText = s.messageText
    BY <2>3 DEF Agrees, ResponsesFields
  <2>5. /\ c.n \in Nat /\ c.ended \in Nat /\ c.shown \in BOOLEAN /\ NoItem \notin Nat
        /\ c.text \in [Nat -> Seq(Part)]
        /\ s.commentary # NoItem => s.commentary \in c.open /\ s.commentary \in 0 .. c.n - 1
        /\ s.message # NoItem => s.message \in c.open /\ s.message \in 0 .. c.n - 1
        /\ s.commentaryText \in Seq(Part) /\ c.n \notin c.open
        /\ \A j \in Nat : j >= c.n => c.text[j] = << >>
    BY AgreesTypes
  <2>6. /\ b \in BOOLEAN /\ (b <=> s.commentary = NoItem)
        /\ i = IF b THEN c.n ELSE s.commentary
        /\ IsReader(c) /\ ~c.over
        /\ IF b THEN i = c.n ELSE i \in c.open
        /\ i \in Nat
    <3>1. Len(s.output) = c.n /\ IsReader(c) /\ ~c.over
      BY DEF Agrees
    <3>2. b \in BOOLEAN /\ (b <=> s.commentary = NoItem) /\ i = IF b THEN c.n ELSE s.commentary
      BY <2>2, <3>1
    <3>3. CASE b
      BY <2>5, <3>1, <3>2, <3>3
    <3>4. CASE ~b
      <4>1. s.commentary \in 0 .. c.n - 1
        BY <2>5, <3>2, <3>4
      <4> QED  BY <2>5, <3>1, <3>2, <3>4, <4>1
    <3> QED  BY <3>2, <3>3, <3>4
  <2> HIDE DEF opens, index, output, text, events, next
  <2>7. PICK d1, d : d1 = (IF b THEN WithItem(c) ELSE c) /\ d = WithText(d1, i, thoughts)
    OBVIOUS
  <2>8. Run(c, events, d)
    <3>1. events = (IF b THEN Opened(i, "commentary") ELSE << >>) \o << TextDelta(i, thoughts) >>
      BY <2>2, <2>6 DEF events
    <3> QED  BY <2>6, <2>7, <3>1, TextRun
  <2>9. /\ IsReader(d1) /\ d1.text = c.text /\ d1.items = c.items /\ d1.ended = c.ended
        /\ d1.shown = c.shown /\ d1.over = c.over
        /\ d1.n = (IF b THEN c.n + 1 ELSE c.n)
        /\ d1.open = c.open \cup {i}
    <3>1. CASE b
      <4>1. IsReader(d1) /\ d1 = WithItem(c)
        BY <2>6, <2>7, <3>1, ReaderSteps
      <4> QED  BY <2>6, <3>1, <4>1, ItemParts
    <3>2. CASE ~b
      BY <2>6, <2>7, <3>2
    <3> QED  BY <2>6, <3>1, <3>2
  <2>10. /\ IsReader(d) /\ d.n = d1.n /\ d.open = d1.open /\ d.items = c.items
         /\ d.text = [c.text EXCEPT ![i] = c.text[i] \o thoughts]
         /\ d.ended = c.ended /\ d.shown = c.shown /\ ~d.over
    <3>1. IsReader(d)
      BY <2>7, <2>9, ReaderSteps
    <3>2. PICK f : f = [c.text EXCEPT ![i] = c.text[i] \o thoughts]
      OBVIOUS
    <3>3. d = [d1 EXCEPT !.text = f]
      BY <2>7, <2>9, <3>2 DEF WithText
    <3>4. /\ d.n = d1.n /\ d.open = d1.open /\ d.text = f
          /\ d.items = d1.items /\ d.ended = d1.ended /\ d.shown = d1.shown /\ d.over = d1.over
      BY <2>9, <3>3, TextParts
    <3> QED  BY <2>6, <2>9, <3>1, <3>2, <3>4
  <2>11. o \in Seq(ItemSet) /\ Len(o) = d.n
         /\ \A j \in 0 .. c.n - 1 : o[j + 1] = s.output[j + 1]
    <3>1. s.output \in Seq(ItemSet) /\ Len(s.output) = c.n
      BY DEF Agrees
    <3>2. Item("commentary", << >>) \in ItemSet
      BY ItemIs, EmptySeq
    <3>3. o = IF b THEN Append(s.output, Item("commentary", << >>)) ELSE s.output
      BY <2>2 DEF output, opens
    <3> QED  BY <2>6, <2>9, <2>10, <3>1, <3>2, <3>3, OutputAppend
  <2>12. d.open = {n.commentary, n.message} \ {NoItem} /\ (n.commentary = n.message => n.message = NoItem)
    <3>1. c.open = {s.commentary, s.message} \ {NoItem} /\ (s.commentary = s.message => s.message = NoItem)
      BY DEF Agrees
    <3>2. d.open = c.open \cup {i} /\ n.commentary = i /\ n.message = s.message /\ i # NoItem
      BY <2>4, <2>5, <2>6, <2>9, <2>10
    <3>3. s.message # NoItem => s.message # i
      <4>1. CASE b
        BY <2>5, <2>6, <4>1
      <4>2. CASE ~b
        BY <2>6, <3>1, <4>2
      <4> QED  BY <2>6, <4>1, <4>2
    <3>4. c.open \cup {i} = {i, s.message} \ {NoItem}
      <4>1. CASE b
        BY <2>6, <3>1, <3>2, <4>1
      <4>2. CASE ~b
        BY <2>6, <3>1, <3>2, <4>2
      <4> QED  BY <2>6, <4>1, <4>2
    <3> QED  BY <3>2, <3>3, <3>4
  <2>13. n.commentaryText = d.text[i] /\ n.commentary # NoItem
    <3>1. s.commentaryText = c.text[i]
      <4>1. s.commentaryText = IF s.commentary = NoItem THEN << >> ELSE c.text[s.commentary]
        BY DEF Agrees
      <4>2. CASE b
        <5>1. i = c.n /\ c.n >= c.n
          BY <2>5, <2>6, <4>2
        <5>2. c.text[i] = << >>
          BY <2>5, <5>1
        <5> QED  BY <2>6, <4>1, <4>2, <5>2
      <4>3. CASE ~b
        BY <2>6, <4>1, <4>3
      <4> QED  BY <2>6, <4>2, <4>3
    <3>2. t = c.text[i] \o thoughts
      BY <2>2, <3>1 DEF text
    <3>3. d.text[i] = t
      <4>1. PICK u : u = c.text[i] \o thoughts
        OBVIOUS
      <4>2. d.text = [c.text EXCEPT ![i] = u]
        BY <2>10, <4>1
      <4> QED  BY <2>5, <2>6, <3>2, <4>1, <4>2
    <3>4. i # NoItem
      BY <2>5, <2>6
    <3> QED  BY <2>4, <3>3, <3>4
  <2>14. n.messageText = IF n.message = NoItem THEN << >> ELSE d.text[n.message]
    <3>1. s.messageText = IF s.message = NoItem THEN << >> ELSE c.text[s.message]
      BY DEF Agrees
    <3>2. n.message # NoItem => n.message # i /\ n.message \in Nat
      BY <2>4, <2>5, <2>6, <2>12
    <3>3. n.message # NoItem => d.text[n.message] = c.text[n.message]
      BY <2>5, <2>10, <3>2
    <3> QED  BY <2>4, <3>1, <3>3
  <2>15. \A j \in 0 .. d.n - 1 : j \notin d.open => n.output[j + 1] = d.items[j]
    <3>1. \A j \in 0 .. c.n - 1 : j \notin c.open => s.output[j + 1] = c.items[j]
      BY DEF Agrees
    <3>2. \A j \in 0 .. d.n - 1 : j \notin d.open => j \in 0 .. c.n - 1 /\ j \notin c.open
      <4>1. CASE b
        <5>1. d.n = c.n + 1 /\ d.open = c.open \cup {c.n}
          BY <2>6, <2>9, <2>10, <4>1
        <5>2. c.n \in Nat
          BY <2>5
        <5> QED  BY <5>1, <5>2
      <4>2. CASE ~b
        <5>1. d.n = c.n /\ d.open = c.open \cup {i}
          BY <2>6, <2>9, <2>10, <4>2
        <5> QED  BY <5>1
      <4> QED  BY <2>6, <4>1, <4>2
    <3> QED  BY <2>4, <2>10, <2>11, <3>1, <3>2
  <2>16. d.n = d.ended + (IF n.commentary = NoItem THEN 0 ELSE 1) + (IF n.message = NoItem THEN 0 ELSE 1)
    <3>1. c.n = c.ended + (IF s.commentary = NoItem THEN 0 ELSE 1)
                        + (IF s.message = NoItem THEN 0 ELSE 1)
      BY DEF Agrees
    <3> QED  BY <2>4, <2>5, <2>6, <2>9, <2>10, <2>13, <3>1
  <2>17. Agrees(n, d)
    BY <2>4, <2>10, <2>11, <2>12, <2>13, <2>14, <2>15, <2>16 DEF Agrees
  <2>18. Told(n, d) <=> Told(s, c) \/ thoughts # << >>
    BY <1>2, <2>13 DEF Told
  <2>19. next = n
    BY <2>2, <2>3 DEF next
  <2> QED  BY <2>1, <2>8, <2>17, <2>18, <2>19 DEF ReadStep
<1> QED  BY <1>1, <1>2
(* Text goes to the message.                                               *)
LEMMA SayReads ==
  ASSUME NEW s, NEW c, Agrees(s, c), NEW text \in Seq(Part)
  PROVE  ReadStep(s, c, Say(s, text), text # << >>)
<1> DEFINE opens == s.message = NoItem
           index == IF opens THEN Len(s.output) ELSE s.message
           output == IF opens THEN Append(s.output, Item("message", << >>)) ELSE s.output
           whole == s.messageText \o text
           next == [s EXCEPT !.message = index, !.messageText = whole, !.output = output]
           events == (IF opens THEN Opened(index, "message") ELSE << >>)
                       \o << TextDelta(index, text) >>
<1>1. CASE text = << >>
  <2>1. Say(s, text) = [state |-> s, events |-> << >>]
    BY <1>1 DEF Say
  <2> QED  BY <1>1, <2>1, RunNone DEF ReadStep
<1>2. CASE text # << >>
  <2>1. Say(s, text) = [state |-> next, events |-> events]
    BY <1>2 DEF Say
  <2>2. PICK o, i, t, b : o = output /\ i = index /\ t = whole /\ b = opens
    OBVIOUS
  <2>3. PICK n : n = [s EXCEPT !.message = i, !.messageText = t, !.output = o]
    OBVIOUS
  <2>4. /\ DOMAIN n = ResponsesFields /\ n.message = i /\ n.messageText = t /\ n.output = o
        /\ n.commentary = s.commentary /\ n.commentaryText = s.commentaryText
    BY <2>3 DEF Agrees, ResponsesFields
  <2>5. /\ c.n \in Nat /\ c.ended \in Nat /\ c.shown \in BOOLEAN /\ NoItem \notin Nat
        /\ c.text \in [Nat -> Seq(Part)]
        /\ s.message # NoItem => s.message \in c.open /\ s.message \in 0 .. c.n - 1
        /\ s.commentary # NoItem => s.commentary \in c.open /\ s.commentary \in 0 .. c.n - 1
        /\ s.messageText \in Seq(Part) /\ c.n \notin c.open
        /\ \A j \in Nat : j >= c.n => c.text[j] = << >>
    BY AgreesTypes
  <2>6. /\ b \in BOOLEAN /\ (b <=> s.message = NoItem)
        /\ i = IF b THEN c.n ELSE s.message
        /\ IsReader(c) /\ ~c.over
        /\ IF b THEN i = c.n ELSE i \in c.open
        /\ i \in Nat
    <3>1. Len(s.output) = c.n /\ IsReader(c) /\ ~c.over
      BY DEF Agrees
    <3>2. b \in BOOLEAN /\ (b <=> s.message = NoItem) /\ i = IF b THEN c.n ELSE s.message
      BY <2>2, <3>1
    <3>3. CASE b
      BY <2>5, <3>1, <3>2, <3>3
    <3>4. CASE ~b
      <4>1. s.message \in 0 .. c.n - 1
        BY <2>5, <3>2, <3>4
      <4> QED  BY <2>5, <3>1, <3>2, <3>4, <4>1
    <3> QED  BY <3>2, <3>3, <3>4
  <2> HIDE DEF opens, index, output, whole, events, next
  <2>7. PICK d1, d : d1 = (IF b THEN WithItem(c) ELSE c) /\ d = WithText(d1, i, text)
    OBVIOUS
  <2>8. Run(c, events, d)
    <3>1. events = (IF b THEN Opened(i, "message") ELSE << >>) \o << TextDelta(i, text) >>
      BY <2>2, <2>6 DEF events
    <3> QED  BY <2>6, <2>7, <3>1, TextRun
  <2>9. /\ IsReader(d1) /\ d1.text = c.text /\ d1.items = c.items /\ d1.ended = c.ended
        /\ d1.shown = c.shown /\ d1.over = c.over
        /\ d1.n = (IF b THEN c.n + 1 ELSE c.n)
        /\ d1.open = c.open \cup {i}
    <3>1. CASE b
      <4>1. IsReader(d1) /\ d1 = WithItem(c)
        BY <2>6, <2>7, <3>1, ReaderSteps
      <4> QED  BY <2>6, <3>1, <4>1, ItemParts
    <3>2. CASE ~b
      BY <2>6, <2>7, <3>2
    <3> QED  BY <2>6, <3>1, <3>2
  <2>10. /\ IsReader(d) /\ d.n = d1.n /\ d.open = d1.open /\ d.items = c.items
         /\ d.text = [c.text EXCEPT ![i] = c.text[i] \o text]
         /\ d.ended = c.ended /\ d.shown = c.shown /\ ~d.over
    <3>1. IsReader(d)
      BY <2>7, <2>9, ReaderSteps
    <3>2. PICK f : f = [c.text EXCEPT ![i] = c.text[i] \o text]
      OBVIOUS
    <3>3. d = [d1 EXCEPT !.text = f]
      BY <2>7, <2>9, <3>2 DEF WithText
    <3>4. /\ d.n = d1.n /\ d.open = d1.open /\ d.text = f
          /\ d.items = d1.items /\ d.ended = d1.ended /\ d.shown = d1.shown /\ d.over = d1.over
      BY <2>9, <3>3, TextParts
    <3> QED  BY <2>6, <2>9, <3>1, <3>2, <3>4
  <2>11. o \in Seq(ItemSet) /\ Len(o) = d.n
         /\ \A j \in 0 .. c.n - 1 : o[j + 1] = s.output[j + 1]
    <3>1. s.output \in Seq(ItemSet) /\ Len(s.output) = c.n
      BY DEF Agrees
    <3>2. Item("message", << >>) \in ItemSet
      BY ItemIs, EmptySeq
    <3>3. o = IF b THEN Append(s.output, Item("message", << >>)) ELSE s.output
      BY <2>2 DEF output, opens
    <3> QED  BY <2>6, <2>9, <2>10, <3>1, <3>2, <3>3, OutputAppend
  <2>12. d.open = {n.message, n.commentary} \ {NoItem} /\ (n.message = n.commentary => n.commentary = NoItem)
    <3>1. c.open = {s.message, s.commentary} \ {NoItem} /\ (s.message = s.commentary => s.commentary = NoItem)
      BY DEF Agrees
    <3>2. d.open = c.open \cup {i} /\ n.message = i /\ n.commentary = s.commentary /\ i # NoItem
      BY <2>4, <2>5, <2>6, <2>9, <2>10
    <3>3. s.commentary # NoItem => s.commentary # i
      <4>1. CASE b
        BY <2>5, <2>6, <4>1
      <4>2. CASE ~b
        BY <2>6, <3>1, <4>2
      <4> QED  BY <2>6, <4>1, <4>2
    <3>4. c.open \cup {i} = {i, s.commentary} \ {NoItem}
      <4>1. CASE b
        BY <2>6, <3>1, <3>2, <4>1
      <4>2. CASE ~b
        BY <2>6, <3>1, <3>2, <4>2
      <4> QED  BY <2>6, <4>1, <4>2
    <3> QED  BY <3>2, <3>3, <3>4
  <2>13. n.messageText = d.text[i] /\ n.message # NoItem
    <3>1. s.messageText = c.text[i]
      <4>1. s.messageText = IF s.message = NoItem THEN << >> ELSE c.text[s.message]
        BY DEF Agrees
      <4>2. CASE b
        <5>1. i = c.n /\ c.n >= c.n
          BY <2>5, <2>6, <4>2
        <5>2. c.text[i] = << >>
          BY <2>5, <5>1
        <5> QED  BY <2>6, <4>1, <4>2, <5>2
      <4>3. CASE ~b
        BY <2>6, <4>1, <4>3
      <4> QED  BY <2>6, <4>2, <4>3
    <3>2. t = c.text[i] \o text
      BY <2>2, <3>1 DEF whole
    <3>3. d.text[i] = t
      <4>1. PICK u : u = c.text[i] \o text
        OBVIOUS
      <4>2. d.text = [c.text EXCEPT ![i] = u]
        BY <2>10, <4>1
      <4> QED  BY <2>5, <2>6, <3>2, <4>1, <4>2
    <3>4. i # NoItem
      BY <2>5, <2>6
    <3> QED  BY <2>4, <3>3, <3>4
  <2>14. n.commentaryText = IF n.commentary = NoItem THEN << >> ELSE d.text[n.commentary]
    <3>1. s.commentaryText = IF s.commentary = NoItem THEN << >> ELSE c.text[s.commentary]
      BY DEF Agrees
    <3>2. n.commentary # NoItem => n.commentary # i /\ n.commentary \in Nat
      BY <2>4, <2>5, <2>6, <2>12
    <3>3. n.commentary # NoItem => d.text[n.commentary] = c.text[n.commentary]
      BY <2>5, <2>10, <3>2
    <3> QED  BY <2>4, <3>1, <3>3
  <2>15. \A j \in 0 .. d.n - 1 : j \notin d.open => n.output[j + 1] = d.items[j]
    <3>1. \A j \in 0 .. c.n - 1 : j \notin c.open => s.output[j + 1] = c.items[j]
      BY DEF Agrees
    <3>2. \A j \in 0 .. d.n - 1 : j \notin d.open => j \in 0 .. c.n - 1 /\ j \notin c.open
      <4>1. CASE b
        <5>1. d.n = c.n + 1 /\ d.open = c.open \cup {c.n}
          BY <2>6, <2>9, <2>10, <4>1
        <5>2. c.n \in Nat
          BY <2>5
        <5> QED  BY <5>1, <5>2
      <4>2. CASE ~b
        <5>1. d.n = c.n /\ d.open = c.open \cup {i}
          BY <2>6, <2>9, <2>10, <4>2
        <5> QED  BY <5>1
      <4> QED  BY <2>6, <4>1, <4>2
    <3> QED  BY <2>4, <2>10, <2>11, <3>1, <3>2
  <2>16. d.n = d.ended + (IF n.commentary = NoItem THEN 0 ELSE 1) + (IF n.message = NoItem THEN 0 ELSE 1)
    <3>1. c.n = c.ended + (IF s.commentary = NoItem THEN 0 ELSE 1)
                        + (IF s.message = NoItem THEN 0 ELSE 1)
      BY DEF Agrees
    <3>2. PICK m : m = IF s.commentary = NoItem THEN 0 ELSE 1
      OBVIOUS
    <3>3. m \in Nat /\ n.commentary = s.commentary /\ c.ended \in Nat /\ d.ended = c.ended
      BY <2>4, <2>5, <2>10, <3>2
    <3>4. c.n = c.ended + m + (IF b THEN 0 ELSE 1) /\ d.n = IF b THEN c.n + 1 ELSE c.n
      BY <2>6, <2>9, <2>10, <3>1, <3>2
    <3>5. d.n = c.ended + m + 1
      BY <2>6, <3>3, <3>4
    <3> QED  BY <2>13, <3>2, <3>3, <3>5
  <2>17. Agrees(n, d)
    BY <2>4, <2>10, <2>11, <2>12, <2>13, <2>14, <2>15, <2>16 DEF Agrees
  <2>18. Told(n, d) <=> Told(s, c) \/ text # << >>
    BY <1>2, <2>13 DEF Told
  <2>19. next = n
    BY <2>2, <2>3 DEF next
  <2> QED  BY <2>1, <2>8, <2>17, <2>18, <2>19 DEF ReadStep
<1> QED  BY <1>1, <1>2

(* An open text is closed with the item that holds it.                     *)
LEMMA CloseReads ==
  ASSUME NEW c, IsReader(c), ~c.over, NEW output \in Seq(ItemSet), Len(output) = c.n,
         \A j \in 0 .. c.n - 1 : j \notin c.open => output[j + 1] = c.items[j],
         NEW i \in c.open, NEW item \in ItemSet, NEW d, d = WithDone(c, i, item),
         item.type \in {"commentary", "message"}, item.parts = c.text[i],
         NEW next, next = Put(output, i, item)
  PROVE  /\ Run(c, Closed(i, item), d) /\ IsReader(d) /\ ~d.over
         /\ d.n = c.n /\ d.open = c.open \ {i} /\ d.text = c.text /\ d.ended = c.ended + 1 /\ d.shown
         /\ next \in Seq(ItemSet) /\ Len(next) = d.n
         /\ \A j \in 0 .. d.n - 1 : j \notin d.open => next[j + 1] = d.items[j]
<1>1. Run(c, Closed(i, item), d)
  BY ClosedRun
<1>2. IsReader(d)
  BY ReaderSteps
<1>3. /\ d.n = c.n /\ d.open = c.open \ {i} /\ d.text = c.text
      /\ d.items[i] = item /\ \A j \in Nat : j # i => d.items[j] = c.items[j]
      /\ d.ended = c.ended + 1 /\ d.over = c.over
      /\ d.shown <=> c.shown \/ item.type # "compaction"
  BY DoneParts
<1>4. d.shown
  BY <1>3
<1>5. c.n \in Nat /\ c.items \in [Nat -> ItemSet] /\ i \in 0 .. c.n - 1
  BY ReaderParts
<1>6. /\ next \in Seq(ItemSet) /\ Len(next) = c.n /\ next[i + 1] = item
      /\ \A j \in 0 .. c.n - 1 : j # i => next[j + 1] = output[j + 1]
  <2>1. i \in 0 .. Len(output) - 1
    BY <1>5
  <2> QED  BY <2>1, OutputExcept
<1>7. ASSUME NEW j \in 0 .. d.n - 1, j \notin d.open PROVE next[j + 1] = d.items[j]
  <2>1. CASE j = i
    BY <1>3, <1>5, <1>6, <2>1
  <2>2. CASE j # i
    <3>1. j \in 0 .. c.n - 1 /\ j \notin c.open /\ j \in Nat
      BY <1>3, <1>5, <1>7, <2>2
    <3>2. d.items[j] = c.items[j]
      BY <1>3, <1>5, <2>2, <3>1
    <3> QED  BY <1>6, <2>2, <3>1, <3>2
  <2> QED  BY <2>1, <2>2
<1> QED  BY <1>1, <1>2, <1>3, <1>4, <1>6, <1>7

(* The commentary is closed.                                               *)
LEMMA FinishCommentaryReads ==
  ASSUME NEW s, NEW c, Agrees(s, c)
  PROVE  /\ ReadStep(s, c, FinishCommentary(s), FALSE)
         /\ FinishCommentary(s).state.commentary = NoItem
<1> DEFINE item == Item("commentary", s.commentaryText)
           next == [s EXCEPT !.output[s.commentary + 1] = item,
                             !.commentary = NoItem, !.commentaryText = << >>]
<1>1. CASE s.commentary = NoItem
  <2>1. FinishCommentary(s) = [state |-> s, events |-> << >>]
    BY <1>1 DEF FinishCommentary
  <2> QED  BY <1>1, <2>1, RunNone DEF ReadStep
<1>2. CASE s.commentary # NoItem
  <2>1. FinishCommentary(s) = [state |-> next, events |-> Closed(s.commentary, item)]
    BY <1>2 DEF FinishCommentary
  <2>2. PICK i, t, o : /\ i = s.commentary /\ t = item /\ o = Put(s.output, i, t)
    OBVIOUS
  <2>3. PICK n : n = [s EXCEPT !.output = o, !.commentary = NoItem, !.commentaryText = << >>]
    OBVIOUS
  <2>4. next = n
    BY <2>2, <2>3 DEF Put
  <2> HIDE DEF next
  <2>5. /\ DOMAIN n = ResponsesFields /\ n.commentary = NoItem /\ n.commentaryText = << >>
        /\ n.output = o /\ n.message = s.message /\ n.messageText = s.messageText
    BY <2>3 DEF Agrees, ResponsesFields
  <2>6. /\ DOMAIN s = ResponsesFields /\ IsReader(c) /\ ~c.over
        /\ s.output \in Seq(ItemSet) /\ Len(s.output) = c.n
        /\ c.open = {s.commentary, s.message} \ {NoItem}
        /\ (s.commentary = s.message => s.message = NoItem)
        /\ s.commentaryText = c.text[i]
        /\ s.messageText = (IF s.message = NoItem THEN << >> ELSE c.text[s.message])
        /\ \A j \in 0 .. c.n - 1 : j \notin c.open => s.output[j + 1] = c.items[j]
        /\ c.n = c.ended + 1 + (IF s.message = NoItem THEN 0 ELSE 1)
    BY <1>2, <2>2 DEF Agrees
  <2>7. /\ s.commentaryText \in Seq(Part) /\ i \in c.open /\ c.n \in Nat /\ c.ended \in Nat
    BY <1>2, <2>2, AgreesTypes
  <2>8. t \in ItemSet /\ t.type = "commentary" /\ t.parts = c.text[i]
    BY <2>2, <2>6, <2>7, ItemIs
  <2> HIDE DEF item
  <2>9. PICK d : d = WithDone(c, i, t)
    OBVIOUS
  <2>10. /\ Run(c, Closed(i, t), d) /\ IsReader(d) /\ ~d.over
         /\ d.n = c.n /\ d.open = c.open \ {i} /\ d.text = c.text /\ d.ended = c.ended + 1 /\ d.shown
         /\ o \in Seq(ItemSet) /\ Len(o) = d.n
         /\ \A j \in 0 .. d.n - 1 : j \notin d.open => o[j + 1] = d.items[j]
    <3>1. t.type \in {"commentary", "message"}
      BY <2>8
    <3>2. PICK out : out = s.output
      OBVIOUS
    <3>3. /\ out \in Seq(ItemSet) /\ Len(out) = c.n
          /\ \A j \in 0 .. c.n - 1 : j \notin c.open => out[j + 1] = c.items[j]
          /\ o = Put(out, i, t)
      BY <2>2, <2>6, <3>2
    <3>4. IsReader(c) /\ ~c.over /\ i \in c.open
      BY <2>6, <2>7
    <3> QED  BY <2>8, <2>9, <3>1, <3>3, <3>4, CloseReads
  <2>11. d.open = {n.commentary, n.message} \ {NoItem}
    BY <1>2, <2>2, <2>5, <2>6, <2>10
  <2>12. n.commentary = n.message => n.message = NoItem
    BY <2>5
  <2>13. d.n = d.ended + 0 + (IF n.message = NoItem THEN 0 ELSE 1)
    BY <2>5, <2>6, <2>7, <2>10
  <2>14. Agrees(n, d)
    BY <2>5, <2>6, <2>10, <2>11, <2>12, <2>13 DEF Agrees
  <2>15. Told(n, d) <=> Told(s, c)
    BY <1>2, <2>10 DEF Told
  <2> QED  BY <2>1, <2>2, <2>4, <2>5, <2>10, <2>14, <2>15 DEF ReadStep
<1> QED  BY <1>1, <1>2

(* All items are finished.                                                 *)
Settled(output, c) ==
  IsReader(c) /\ ~c.over /\ output \in Seq(ItemSet) /\ Whole(output, c)

LEMMA FinishMessageReads ==
  ASSUME NEW s, NEW c, Agrees(s, c), s.commentary = NoItem
  PROVE  \E d : /\ Run(c, FinishMessage(s).events, d)
                /\ Settled(FinishMessage(s).state.output, d)
                /\ d.shown <=> Told(s, c)
<1> DEFINE item == Item("message", s.messageText)
           next == [s EXCEPT !.output[s.message + 1] = item]
           note == [type |-> "annotation.added", index |-> s.message]
           first == IF s.aggregate.grounding THEN << note >> ELSE << >>
           last  == Closed(s.message, item)
<1>1. CASE s.message = NoItem
  <2>1. FinishMessage(s) = [state |-> s, events |-> << >>]
    BY <1>1 DEF FinishMessage
  <2>2. c.open = {} /\ c.n = c.ended + 0 + 0 /\ c.ended \in Nat
    BY <1>1, AgreesTypes DEF Agrees
  <2>3. Settled(s.output, c)
    BY <2>2 DEF Agrees, Settled, Whole
  <2>4. c.shown <=> Told(s, c)
    BY <1>1 DEF Told
  <2> QED  BY <2>1, <2>3, <2>4, RunNone
<1>2. CASE s.message # NoItem
  <2>1. FinishMessage(s) = [state |-> next, events |-> first \o last]
    BY <1>2 DEF FinishMessage
  <2>2. PICK i, t, o : /\ i = s.message /\ t = item /\ o = Put(s.output, i, t)
    OBVIOUS
  <2>3. next.output = o
    <3>1. next = [s EXCEPT !.output = o]
      BY <2>2 DEF Put
    <3>2. "output" \in DOMAIN s
      BY DEF Agrees, ResponsesFields
    <3> HIDE DEF next
    <3> QED  BY <3>1, <3>2
  <2>4. /\ IsReader(c) /\ ~c.over
        /\ s.output \in Seq(ItemSet) /\ Len(s.output) = c.n
        /\ c.open = {i} /\ s.messageText = c.text[i]
        /\ \A j \in 0 .. c.n - 1 : j \notin c.open => s.output[j + 1] = c.items[j]
        /\ c.n = c.ended + 0 + 1
    BY <1>2, <2>2 DEF Agrees
  <2>5. s.messageText \in Seq(Part) /\ i \in c.open /\ c.n \in Nat /\ c.ended \in Nat
    BY <2>4, AgreesTypes
  <2>6. t \in ItemSet /\ t.type = "message" /\ t.parts = c.text[i]
    BY <2>2, <2>4, <2>5, ItemIs
  <2> HIDE DEF item, next
  <2>7. PICK d : d = WithDone(c, i, t)
    OBVIOUS
  <2>8. /\ Run(c, Closed(i, t), d) /\ IsReader(d) /\ ~d.over
        /\ d.n = c.n /\ d.open = c.open \ {i} /\ d.text = c.text /\ d.ended = c.ended + 1 /\ d.shown
        /\ o \in Seq(ItemSet) /\ Len(o) = d.n
        /\ \A j \in 0 .. d.n - 1 : j \notin d.open => o[j + 1] = d.items[j]
    <3>1. t.type \in {"commentary", "message"}
      BY <2>6
    <3>2. PICK out : out = s.output
      OBVIOUS
    <3>3. /\ out \in Seq(ItemSet) /\ Len(out) = c.n
          /\ \A j \in 0 .. c.n - 1 : j \notin c.open => out[j + 1] = c.items[j]
          /\ o = Put(out, i, t)
      BY <2>2, <2>4, <3>2
    <3>4. IsReader(c) /\ ~c.over /\ i \in c.open
      BY <2>4, <2>5
    <3> QED  BY <2>6, <2>7, <3>1, <3>3, <3>4, CloseReads
  <2>9. Run(c, first, c)
    <3>1. note.type \in Passing /\ AboutItem(note) /\ note.index \in c.open
      BY <2>2, <2>5 DEF Passing, AboutItem
    <3> HIDE DEF note
    <3>2. Takes(c, note, c)
      BY <2>4, <3>1 DEF Takes, TakesPassing
    <3>3. Run(c, << note >>, c)
      BY <3>2, RunOne
    <3> QED  BY <3>3, RunNone
  <2>10. Run(c, first \o last, d)
    <3>1. PICK e, f : e = first /\ f = last
      OBVIOUS
    <3>2. Run(c, e, c) /\ Run(c, f, d)
      BY <2>2, <2>8, <2>9, <3>1
    <3>3. Run(c, e \o f, d)
      BY <3>2, RunConcat
    <3> QED  BY <3>1, <3>3
  <2>11. d.open = {} /\ d.ended = d.n
    BY <2>4, <2>5, <2>8
  <2>12. Settled(o, d)
    BY <2>8, <2>11 DEF Settled, Whole
  <2>13. Told(s, c)
    BY <1>2 DEF Told
  <2> HIDE DEF first, last
  <2> QED  BY <2>1, <2>3, <2>8, <2>10, <2>12, <2>13
<1> QED  BY <1>1, <1>2

(* An item of this generation is there exactly if there was text.          *)
Signs(s, c) == Told(s, c) <=> Has(s.aggregate.parts, {"text", "thought"})

(* A result adds events the reader can take in.                            *)
LEMMA ResultReads ==
  ASSUME NEW s, NEW c, Agrees(s, c), Signs(s, c), s.aggregate.parts \in Seq(Part),
         NEW r, r.parts \in Seq(Part)
  PROVE  \E d : /\ Run(c, ResponsesResult(s, r).events, d)
                /\ Agrees(ResponsesResult(s, r).state, d)
                /\ Signs(ResponsesResult(s, r).state, d)
<1> DEFINE o        == ResponsesResult(s, r)
           text     == OfKind(r.parts, {"text"})
           thoughts == OfKind(r.parts, {"thought"})
           observed == [s EXCEPT !.aggregate = Accumulate(@, r), !.revision = Observe(@, r)]
           reasoned == Reason(observed, thoughts)
           finished == IF text # << >> \/ Has(r.parts, Calls)
                         THEN FinishCommentary(reasoned.state)
                         ELSE [state |-> reasoned.state, events |-> << >>]
           said     == Say(finished.state, text)
<1>1. CASE IsEmpty(r)
  <2>1. o = [state |-> s, events |-> << >>]
    BY <1>1 DEF ResponsesResult
  <2> HIDE DEF o
  <2>2. Run(c, o.events, c) /\ Agrees(o.state, c) /\ Signs(o.state, c)
    BY <2>1, RunNone
  <2> QED  BY <2>2 DEF o
<1>2. CASE ~IsEmpty(r)
  <2>1. o = [state |-> said.state, events |-> reasoned.events \o finished.events \o said.events]
    BY <1>2 DEF ResponsesResult
  <2>2. o.state.aggregate.parts = s.aggregate.parts \o r.parts
    <3>1. PICK p : p = [name |-> "responses"]
      OBVIOUS
    <3>2. p.name = "responses" /\ Holding(p, s) /\ DOMAIN s = ResponsesFields
      BY <3>1 DEF Holding, Agrees
    <3>3. ContentStep(p, s, r.parts, ResponsesResult(s, r))
      BY <1>2, <3>2, ResponsesContent
    <3> QED  BY <3>2, <3>3 DEF ContentStep
  <2>3. text \in Seq(Part) /\ thoughts \in Seq(Part)
    BY KindsType
  <2>4. Has(r.parts, {"text", "thought"}) <=> text # << >> \/ thoughts # << >>
    <3>1. Has(r.parts, {"text", "thought"}) <=> Has(r.parts, {"text"}) \/ Has(r.parts, {"thought"})
      BY DEF Has
    <3> QED  BY <3>1, KindsHas
  <2>5. Has(o.state.aggregate.parts, {"text", "thought"})
          <=> Has(s.aggregate.parts, {"text", "thought"}) \/ text # << >> \/ thoughts # << >>
    BY <2>2, <2>4, KindsConcat
  <2> HIDE DEF o, text, thoughts
  <2>6. Agrees(observed, c) /\ (Told(observed, c) <=> Told(s, c))
    <3>1. PICK x, y : x = Accumulate(s.aggregate, r) /\ y = Observe(s.revision, r)
      OBVIOUS
    <3>2. observed = [s EXCEPT !.aggregate = x, !.revision = y]
      BY <3>1
    <3> HIDE DEF observed
    <3>3. DOMAIN s = ResponsesFields
      BY DEF Agrees
    <3>4. /\ DOMAIN observed = ResponsesFields /\ observed.output = s.output
          /\ observed.commentary = s.commentary /\ observed.commentaryText = s.commentaryText
          /\ observed.message = s.message /\ observed.messageText = s.messageText
      BY <3>2, <3>3 DEF ResponsesFields
    <3> QED  BY <3>4 DEF Agrees, Told
  <2> HIDE DEF observed
  <2>7. ReadStep(observed, c, reasoned, thoughts # << >>)
    BY <2>3, <2>6, ReasonReads
  <2> HIDE DEF reasoned
  <2>8. PICK c1 : /\ Run(c, reasoned.events, c1) /\ Agrees(reasoned.state, c1)
                  /\ Told(reasoned.state, c1) <=> Told(observed, c) \/ thoughts # << >>
    BY <2>7 DEF ReadStep
  <2>9. ReadStep(reasoned.state, c1, finished, FALSE)
    <3>1. CASE text # << >> \/ Has(r.parts, Calls)
      BY <2>8, <3>1, FinishCommentaryReads
    <3>2. CASE ~(text # << >> \/ Has(r.parts, Calls))
      <4>1. finished = [state |-> reasoned.state, events |-> << >>]
        BY <3>2
      <4> HIDE DEF finished
      <4>2. finished.state = reasoned.state /\ finished.events = << >>
        BY <4>1
      <4> QED  BY <2>8, <4>2, RunNone DEF ReadStep
    <3> QED  BY <3>1, <3>2
  <2> HIDE DEF finished
  <2>10. PICK c2 : /\ Run(c1, finished.events, c2) /\ Agrees(finished.state, c2)
                   /\ Told(finished.state, c2) <=> Told(reasoned.state, c1)
    BY <2>9 DEF ReadStep
  <2>11. ReadStep(finished.state, c2, said, text # << >>)
    BY <2>3, <2>10, SayReads
  <2> HIDE DEF said
  <2>12. PICK d : /\ Run(c2, said.events, d) /\ Agrees(said.state, d)
                  /\ Told(said.state, d) <=> Told(finished.state, c2) \/ text # << >>
    BY <2>11 DEF ReadStep
  <2>13. Run(c, o.events, d)
    <3>1. PICK e1, e2, e3 : e1 = reasoned.events /\ e2 = finished.events /\ e3 = said.events
      OBVIOUS
    <3>2. Run(c, e1, c1) /\ Run(c1, e2, c2) /\ Run(c2, e3, d)
      BY <2>8, <2>10, <2>12, <3>1
    <3>3. Run(c, e1 \o e2, c2)
      BY <3>2, RunConcat
    <3>4. Run(c, (e1 \o e2) \o e3, d)
      BY <3>2, <3>3, RunConcat
    <3> QED  BY <2>1, <3>1, <3>4
  <2>14. o.state = said.state
    BY <2>1
  <2>15. Signs(o.state, d)
    BY <2>5, <2>6, <2>8, <2>10, <2>12, <2>14 DEF Signs
  <2> QED  BY <2>12, <2>13, <2>14, <2>15 DEF o
<1> QED  BY <1>1, <1>2

(* What is written before the upstream is asked.                           *)
LEMMA ReadsNothing == Reads(<< >>, NoReader)
<1>1. PICK w, c : w = << >> /\ c = NoReader
  OBVIOUS
<1>2. /\ c.n = 0 /\ c.open = {} /\ c.ended = 0 /\ c.shown = FALSE /\ c.over = FALSE
      /\ c.text = [i \in Nat |-> << >>]
  BY <1>1 DEF NoReader
<1>3. IsReader(c)
  <2>1. << >> \in Seq(Part) /\ Item("compaction", << >>) \in ItemSet
    BY EmptySeq, ItemIs
  <2>2. PICK text, items : /\ text = [i \in Nat |-> << >>]
                           /\ items = [i \in Nat |-> Item("compaction", << >>)]
    OBVIOUS
  <2>3. text \in [Nat -> Seq(Part)] /\ items \in [Nat -> ItemSet]
    BY <2>1, <2>2
  <2>4. c = [n |-> 0, open |-> {}, text |-> text, items |-> items, ended |-> 0,
             shown |-> FALSE, over |-> FALSE]
    BY <1>1, <2>2 DEF NoReader
  <2>5. PICK Texts, Items : Texts = [Nat -> Seq(Part)] /\ Items = [Nat -> ItemSet]
    OBVIOUS
  <2>6. c \in [n : Nat, open : SUBSET Nat, text : Texts,
               items : Items, ended : Nat, shown : BOOLEAN, over : BOOLEAN]
    BY <2>3, <2>4, <2>5
  <2>7. \A i \in Nat : c.text[i] = << >>
    BY <1>2
  <2> QED  BY <1>2, <2>5, <2>6, <2>7 DEF IsReader
<1>4. DOMAIN w = {} /\ \A S : w \in Seq(S)
  BY <1>1, EmptySeq
<1>5. Plains(w)
  <2>1. PICK S : S = {}
    OBVIOUS
  <2> QED  BY <1>4, <2>1 DEF Plains
<1>6. \A type : OfTypeIn(w, type) = << >>
  BY <1>1, ItemsAtEmpty DEF OfTypeIn
<1>7. \A i : DeltasIn(w, i) = << >>
  <2>1. ASSUME NEW i PROVE DeltasIn(w, i) = << >>
    <3>1. [k \in DOMAIN w |-> DeltaOf(w[k], i)] = << >>
      BY <1>4
    <3> QED  BY <3>1, FlattenEmpty DEF DeltasIn
  <2> QED  BY <2>1
<1>8. KnowsAdded(w, c) /\ KnowsDone(w, c)
  BY <1>2, <1>6 DEF KnowsAdded, KnowsDone
<1>9. KnowsEvents(w, c)
  BY <1>2, <1>4 DEF KnowsEvents
<1>10. KnowsTexts(w, c)
  BY <1>2, <1>7 DEF KnowsTexts
<1>11. KnowsOver(w, c)
  BY <1>2, <1>4 DEF KnowsOver, ShowsItem
<1> QED  BY <1>1, <1>3, <1>5, <1>8, <1>9, <1>10, <1>11 DEF Reads

(* An item that is added and finished at once.                             *)
LEMMA ItemRun ==
  ASSUME NEW output, NEW c, Settled(output, c), NEW item \in ItemSet,
         item.type \notin {"commentary", "message"}
  PROVE  \E c1, d : /\ Takes(c, Added(c.n, item), c1) /\ ~c1.over /\ c.n \in c1.open
                    /\ Takes(c1, Done(c.n, item), d)
                    /\ Settled(Append(output, item), d) /\ d.n = c.n + 1
                    /\ d.shown <=> c.shown \/ item.type # "compaction"
<1>1. /\ IsReader(c) /\ ~c.over /\ output \in Seq(ItemSet) /\ Len(output) = c.n
      /\ c.open = {} /\ c.ended = c.n
      /\ \A i \in 0 .. c.n - 1 : output[i + 1] = c.items[i]
  BY DEF Settled, Whole
<1>2. c.n \in Nat
  BY <1>1, ReaderParts
<1>3. PICK c1 : c1 = WithItem(c)
  OBVIOUS
<1>4. /\ IsReader(c1) /\ c1.n = c.n + 1 /\ c1.open = {c.n} /\ c1.text = c.text
      /\ c1.items = c.items /\ c1.ended = c.ended /\ c1.shown = c.shown /\ c1.over = c.over
  <2>1. IsReader(c1)
    BY <1>1, <1>3, ReaderSteps
  <2> QED  BY <1>1, <1>3, <2>1, ItemParts
<1>5. PICK d : d = WithDone(c1, c.n, item)
  OBVIOUS
<1>6. c.n \in c1.open
  BY <1>4
<1>7. IsReader(d)
  BY <1>4, <1>5, <1>6, ReaderSteps
<1>8. /\ d.n = c1.n /\ d.open = c1.open \ {c.n} /\ d.text = c1.text
      /\ d.items[c.n] = item /\ (\A j \in Nat : j # c.n => d.items[j] = c1.items[j])
      /\ d.ended = c1.ended + 1 /\ d.over = c1.over
      /\ (d.shown <=> c1.shown \/ item.type # "compaction")
  <2>1. PICK i : i = c.n
    OBVIOUS
  <2>2. i \in c1.open /\ d = WithDone(c1, i, item)
    BY <1>5, <1>6, <2>1
  <2>3. /\ d.n = c1.n /\ d.open = c1.open \ {i} /\ d.text = c1.text
        /\ d.items[i] = item /\ (\A j \in Nat : j # i => d.items[j] = c1.items[j])
        /\ d.ended = c1.ended + 1 /\ d.over = c1.over
        /\ (d.shown <=> c1.shown \/ item.type # "compaction")
    BY <1>4, <2>2, DoneParts
  <2> QED  BY <2>1, <2>3
<1>9. Takes(c, Added(c.n, item), c1)
  BY <1>1, <1>3 DEF Takes, TakesAdded
<1>10. Takes(c1, Done(c.n, item), d)
  BY <1>1, <1>4, <1>5, <1>6 DEF Takes, TakesDone
<1>11. PICK next : next = Append(output, item)
  OBVIOUS
<1>12. /\ next \in Seq(ItemSet) /\ Len(next) = c.n + 1
       /\ \A i \in 0 .. c.n - 1 : next[i + 1] = output[i + 1]
       /\ next[c.n + 1] = item
  BY <1>1, <1>11, OutputAppend
<1>13. \A i \in 0 .. d.n - 1 : next[i + 1] = d.items[i]
  <2>1. ASSUME NEW i \in 0 .. d.n - 1 PROVE next[i + 1] = d.items[i]
    <3>1. CASE i = c.n
      BY <1>8, <1>12, <3>1
    <3>2. CASE i # c.n
      <4>1. i \in 0 .. c.n - 1 /\ i \in Nat
        BY <1>2, <1>4, <1>8, <3>2
      <4>2. d.items[i] = c.items[i]
        BY <1>4, <1>8, <3>2, <4>1
      <4> QED  BY <1>1, <1>12, <4>1, <4>2
    <3> QED  BY <3>1, <3>2
  <2> QED  BY <2>1
<1>14. d.open = {} /\ d.ended = d.n /\ d.n = c.n + 1 /\ ~d.over
  BY <1>1, <1>4, <1>8
<1>15. Settled(next, d)
  BY <1>7, <1>12, <1>13, <1>14 DEF Settled, Whole
<1> QED  BY <1>4, <1>6, <1>8, <1>9, <1>10, <1>11, <1>14, <1>15, <1>1

(* A handler without open items agrees with a reader without any.          *)
LEMMA SettledAgrees ==
  ASSUME NEW s, NEW c, Settled(s.output, c), DOMAIN s = ResponsesFields,
         s.commentary = NoItem, s.message = NoItem,
         s.commentaryText = << >>, s.messageText = << >>
  PROVE  Agrees(s, c)
<1>1. c.n \in Nat
  BY ReaderParts DEF Settled
<1>2. c.n = c.ended + 0 + 0
  BY <1>1 DEF Settled, Whole
<1> QED  BY <1>2 DEF Settled, Whole, Agrees

(* What is written before the upstream is asked.                           *)
LEMMA StartReads ==
  ASSUME NEW option \in BOOLEAN
  PROVE  \E d : /\ Run(NoReader, ResponsesStart(option), d)
                /\ Agrees(ResponsesState(option), d) /\ Signs(ResponsesState(option), d)
<1>1. PICK a, b, c, item, s :
        /\ a = [type |-> "created"] /\ b = [type |-> "in_progress"] /\ c = NoReader
        /\ item = Item("compaction", << >>) /\ s = ResponsesState(option)
  OBVIOUS
<1>2. c.n = 0 /\ c.open = {} /\ c.ended = 0 /\ c.shown = FALSE /\ c.over = FALSE
  BY <1>1 DEF NoReader
<1>3. Run(c, << a, b >>, c)
  <2>1. Takes(c, a, c)
    BY <1>1, <1>2 DEF Takes, TakesOther, AboutItem, Marking
  <2>2. Takes(c, b, c)
    BY <1>1, <1>2 DEF Takes, TakesOther, AboutItem, Marking
  <2> QED  BY <2>1, <2>2, RunTwo
<1>4. Settled(<< >>, c)
  <2>1. IsReader(c)
    BY <1>1, ReadsNothing DEF Reads
  <2>2. PICK none : none = << >>
    OBVIOUS
  <2>3. none \in Seq(ItemSet) /\ Len(none) = 0
    BY <2>2, EmptySeq
  <2>4. Whole(none, c)
    BY <1>2, <2>3 DEF Whole
  <2> QED  BY <1>2, <2>1, <2>2, <2>3, <2>4 DEF Settled
<1>5. item \in ItemSet /\ item.type = "compaction"
  BY <1>1, ItemIs, EmptySeq
<1>6. /\ DOMAIN s = ResponsesFields /\ s.commentary = NoItem /\ s.message = NoItem
      /\ s.commentaryText = << >> /\ s.messageText = << >>
      /\ s.output = (IF option THEN << item >> ELSE << >>) /\ s.aggregate.parts = << >>
  BY <1>1 DEF ResponsesState, ResponsesFields, Nothing
<1>7. PICK first : first = << a, b >>
  OBVIOUS
<1>8. PICK rest : rest = IF option THEN << Added(0, item), Done(0, item) >> ELSE << >>
  OBVIOUS
<1>9. ResponsesStart(option) = first \o rest
  BY <1>1, <1>7, <1>8 DEF ResponsesStart
<1>10. \E d : Run(c, rest, d) /\ Settled(s.output, d) /\ d.shown = FALSE
  <2>1. CASE option
    <3>1. item.type \notin {"commentary", "message"}
      BY <1>5
    <3>2. PICK c1, d : /\ Takes(c, Added(c.n, item), c1) /\ Takes(c1, Done(c.n, item), d)
                       /\ Settled(Append(<< >>, item), d)
                       /\ d.shown <=> c.shown \/ item.type # "compaction"
      <4>1. PICK none : none = << >>
        OBVIOUS
      <4>2. Settled(none, c)
        BY <1>4, <4>1
      <4>3. \E c1, d : /\ Takes(c, Added(c.n, item), c1) /\ ~c1.over /\ c.n \in c1.open
                       /\ Takes(c1, Done(c.n, item), d)
                       /\ Settled(Append(none, item), d) /\ d.n = c.n + 1
                       /\ d.shown <=> c.shown \/ item.type # "compaction"
        BY <1>5, <3>1, <4>2, ItemRun
      <4> QED  BY <4>1, <4>3
    <3>3. Append(<< >>, item) = << item >>
      OBVIOUS
    <3>4. PICK e1, e2 : e1 = Added(0, item) /\ e2 = Done(0, item)
      OBVIOUS
    <3>5. Run(c, << e1, e2 >>, d)
      BY <1>2, <3>2, <3>4, RunTwo
    <3>6. d.shown = FALSE
      <4>1. d.shown \in BOOLEAN
        BY <3>2, ReaderParts DEF Settled
      <4> QED  BY <1>2, <1>5, <3>2, <4>1
    <3> QED  BY <1>6, <1>8, <2>1, <3>2, <3>3, <3>4, <3>5, <3>6
  <2>2. CASE ~option
    BY <1>2, <1>4, <1>6, <1>8, <2>2, RunNone
  <2> QED  BY <2>1, <2>2
<1>11. PICK d : Run(c, rest, d) /\ Settled(s.output, d) /\ d.shown = FALSE
  BY <1>10
<1>12. Run(c, first \o rest, d)
  BY <1>3, <1>7, <1>11, RunConcat
<1>13. Agrees(s, d)
  BY <1>6, <1>11, SettledAgrees
<1>14. Signs(s, d)
  BY <1>6, <1>11, KindsEmpty DEF Signs, Told
<1> QED  BY <1>1, <1>9, <1>12, <1>13, <1>14

(* What is chosen from a sequence is not nothing if anything is.           *)
LEMMA ItemsAtSome ==
  ASSUME NEW X, NEW s \in Seq(X), NEW I, NEW n \in 1 .. Len(s), n \in I
  PROVE  ItemsAt(s, I) # << >>
<1> DEFINE Good == {t \in Seq(X) : (\E m \in 1 .. Len(t) : m \in I) => ItemsAt(t, I) # << >>}
<1>1. << >> \in Good
  BY EmptySeq
<1>2. ASSUME NEW t \in Seq(X), t \in Good, NEW x \in X PROVE Append(t, x) \in Good
  <2>1. PICK u : u = Append(t, x)
    OBVIOUS
  <2>2. u \in Seq(X) /\ Len(u) = Len(t) + 1 /\ Len(t) \in Nat
    BY <2>1, AppendProperties, LenProperties
  <2>3. ItemsAt(u, I) = IF Len(t) + 1 \in I THEN Append(ItemsAt(t, I), x) ELSE ItemsAt(t, I)
    BY <2>1, ItemsAtAppend
  <2>4. Append(ItemsAt(t, I), x) # << >>
    <3>1. ItemsAt(t, I) \in Seq(X)
      BY ItemsAtType
    <3> QED  BY <3>1, AppendProperties, EmptySeq
  <2>5. ASSUME NEW m \in 1 .. Len(u), m \in I PROVE ItemsAt(u, I) # << >>
    <3>1. CASE m = Len(t) + 1
      BY <2>3, <2>4, <2>5, <3>1
    <3>2. CASE m # Len(t) + 1
      <4>1. m \in 1 .. Len(t)
        BY <2>2, <3>2
      <4>2. ItemsAt(t, I) # << >>
        BY <1>2, <2>5, <4>1
      <4> QED  BY <2>3, <2>4, <4>2
    <3> QED  BY <3>1, <3>2
  <2> QED  BY <2>1, <2>2, <2>5
<1>3. Seq(X) \subseteq Good
  <2> HIDE DEF Good
  <2> QED  BY <1>1, <1>2, InductionOnSeq
<1> QED  BY <1>3

(* There are distinct calls exactly if there are calls.                    *)
LEMMA DistinctCallsSome ==
  ASSUME NEW p \in Seq(Part) PROVE DistinctCalls(p) # << >> <=> Has(p, Calls)
<1>1. PICK calls : calls = OfKind(p, Calls)
  OBVIOUS
<1>2. PICK I : I = {i \in DOMAIN calls : \A j \in 1 .. i - 1 : calls[j].kind # calls[i].kind}
  OBVIOUS
<1>3. DistinctCalls(p) = ItemsAt(calls, I)
  BY <1>1, <1>2 DEF DistinctCalls
<1>4. calls \in Seq(Part) /\ Len(calls) \in Nat /\ DOMAIN calls = 1 .. Len(calls)
  BY <1>1, KindsType, LenProperties
<1>5. Has(p, Calls) <=> calls # << >>
  BY <1>1, KindsHas
<1>6. CASE calls = << >>
  BY <1>3, <1>5, <1>6, ItemsAtEmpty
<1>7. CASE calls # << >>
  <2>1. 1 \in 1 .. Len(calls)
    <3>1. Len(calls) # 0
      BY <1>4, <1>7, EmptySeq
    <3> QED  BY <1>4, <3>1
  <2>2. 1 \in I
    BY <1>2, <1>4, <2>1
  <2>3. ItemsAt(calls, I) # << >>
    BY <1>4, <2>1, <2>2, ItemsAtSome
  <2> QED  BY <1>3, <1>5, <1>7, <2>3
<1> QED  BY <1>6, <1>7

(* The items of the calls.                                                 *)
CallItem(call) == Item("function_call", << call >>)
CallItems(calls) == [i \in DOMAIN calls |-> CallItem(calls[i])]

LEMMA CallItemIs ==
  ASSUME NEW x \in Part PROVE CallItem(x) \in ItemSet /\ CallItem(x).type = "function_call"
<1>1. << x >> \in Seq(Part)
  OBVIOUS
<1> QED  BY <1>1, ItemIs DEF CallItem

LEMMA CallItemsType ==
  ASSUME NEW calls \in Seq(Part)
  PROVE  CallItems(calls) \in Seq(ItemSet) /\ Len(CallItems(calls)) = Len(calls)
<1>1. /\ Len(calls) \in Nat /\ DOMAIN calls = 1 .. Len(calls)
      /\ \A i \in 1 .. Len(calls) : calls[i] \in Part
  BY LenProperties, ElementOfSeq
<1>2. \A i \in 1 .. Len(calls) : CallItem(calls[i]) \in ItemSet
  BY <1>1, CallItemIs
<1>3. PICK f : f = [i \in 1 .. Len(calls) |-> CallItem(calls[i])]
  OBVIOUS
<1>4. f \in Seq(ItemSet) /\ DOMAIN f = 1 .. Len(calls)
  BY <1>1, <1>2, <1>3, IsASeq
<1>5. CallItems(calls) = f
  BY <1>1, <1>3 DEF CallItems
<1> QED  BY <1>1, <1>4, <1>5, LenProperties

LEMMA CallItemsAppend ==
  ASSUME NEW calls \in Seq(Part), NEW x \in Part
  PROVE  CallItems(Append(calls, x)) = Append(CallItems(calls), CallItem(x))
<1>1. PICK all, f, g, y : /\ all = Append(calls, x) /\ f = CallItems(calls)
                          /\ g = CallItems(all) /\ y = CallItem(x)
  OBVIOUS
<1>2. /\ all \in Seq(Part) /\ Len(calls) \in Nat /\ Len(all) = Len(calls) + 1
      /\ DOMAIN calls = 1 .. Len(calls) /\ DOMAIN all = 1 .. Len(calls) + 1
      /\ all[Len(calls) + 1] = x /\ \A i \in 1 .. Len(calls) : all[i] = calls[i]
  <2>1. all \in Seq(Part) /\ Len(all) = Len(calls) + 1 /\ Len(calls) \in Nat
    BY <1>1, AppendProperties, LenProperties
  <2> QED  BY <1>1, <2>1, AppendProperties, LenProperties
<1>3. /\ f \in Seq(ItemSet) /\ Len(f) = Len(calls) /\ g \in Seq(ItemSet) /\ Len(g) = Len(all)
      /\ y \in ItemSet
  BY <1>1, <1>2, CallItemsType, CallItemIs
<1>4. PICK h : h = Append(f, y)
  OBVIOUS
<1>5. /\ h \in Seq(ItemSet) /\ Len(h) = Len(calls) + 1 /\ h[Len(calls) + 1] = y
      /\ \A i \in 1 .. Len(calls) : h[i] = f[i]
  BY <1>3, <1>4, AppendProperties
<1>6. /\ \A i \in 1 .. Len(calls) : f[i] = CallItem(calls[i])
      /\ \A i \in 1 .. Len(calls) + 1 : g[i] = CallItem(all[i])
  BY <1>1, <1>2 DEF CallItems
<1>7. \A i \in 1 .. Len(g) : g[i] = h[i]
  <2>1. ASSUME NEW i \in 1 .. Len(calls) + 1 PROVE g[i] = h[i]
    <3>1. CASE i = Len(calls) + 1
      BY <1>1, <1>2, <1>5, <1>6, <3>1
    <3>2. CASE i # Len(calls) + 1
      <4>1. i \in 1 .. Len(calls)
        BY <1>2, <3>2
      <4> QED  BY <1>2, <1>5, <1>6, <4>1
    <3> QED  BY <3>1, <3>2
  <2> QED  BY <1>2, <1>3, <2>1
<1>8. g = h
  BY <1>2, <1>3, <1>5, <1>7, SeqEqual
<1> QED  BY <1>1, <1>4, <1>8

(* A call written whole.                                                   *)
LEMMA WholeCallReads ==
  ASSUME NEW output, NEW c, Settled(output, c), NEW x \in Part
  PROVE  \E d : /\ Run(c, WholeCall(c.n, x), d)
                /\ Settled(Append(output, CallItem(x)), d) /\ d.shown
<1>1. PICK item : item = CallItem(x)
  OBVIOUS
<1>2. item \in ItemSet /\ item.type = "function_call"
  BY <1>1, CallItemIs
<1>3. item.type \notin {"commentary", "message"} /\ item.type # "compaction"
  BY <1>2
<1>4. PICK c1, d : /\ Takes(c, Added(c.n, item), c1) /\ ~c1.over /\ c.n \in c1.open
                   /\ Takes(c1, Done(c.n, item), d)
                   /\ Settled(Append(output, item), d)
                   /\ d.shown <=> c.shown \/ item.type # "compaction"
  BY <1>2, <1>3, ItemRun
<1>5. PICK e1, e2, e3, e4 : /\ e1 = Added(c.n, item)
                            /\ e2 = [type |-> "arguments.delta", index |-> c.n]
                            /\ e3 = [type |-> "arguments.done", index |-> c.n]
                            /\ e4 = Done(c.n, item)
  OBVIOUS
<1>6. Takes(c1, e2, c1) /\ Takes(c1, e3, c1)
  <2>1. e2.type \in Passing /\ AboutItem(e2) /\ e2.index = c.n
    BY <1>5 DEF Passing, AboutItem
  <2>2. e3.type \in Passing /\ AboutItem(e3) /\ e3.index = c.n
    BY <1>5 DEF Passing, AboutItem
  <2> QED  BY <1>4, <2>1, <2>2 DEF Takes, TakesPassing
<1>7. PICK u, v : u = << e1 >> /\ v = << e2, e3, e4 >>
  OBVIOUS
<1>8. Run(c, u, c1)
  BY <1>4, <1>5, <1>7, RunOne
<1>9. Run(c1, v, d)
  BY <1>4, <1>5, <1>6, <1>7, RunThree
<1>10. Run(c, u \o v, d)
  BY <1>8, <1>9, RunConcat
<1>11. WholeCall(c.n, x) = << e1, e2, e3, e4 >>
  BY <1>1, <1>5 DEF WholeCall, CallItem
<1>12. u \o v = << e1, e2, e3, e4 >>
  BY <1>7, OneAndThree
<1>13. d.shown
  BY <1>3, <1>4
<1> QED  BY <1>1, <1>4, <1>10, <1>11, <1>12, <1>13

(* All calls.                                                              *)
LEMMA CallsRead ==
  ASSUME NEW output, NEW c, Settled(output, c), NEW calls \in Seq(Part)
  PROVE  \E d : /\ Run(c, CallEvents(c.n, calls), d)
                /\ Settled(output \o CallItems(calls), d)
                /\ d.shown <=> c.shown \/ calls # << >>
<1> DEFINE Good == {x \in Seq(Part) : \E d : /\ Run(c, CallEvents(c.n, x), d)
                                             /\ Settled(output \o CallItems(x), d)
                                             /\ d.shown <=> c.shown \/ x # << >>}
<1>0. output \in Seq(ItemSet) /\ Len(output) = c.n /\ c.n \in Nat
  BY ReaderParts DEF Settled, Whole
<1>1. << >> \in Good
  <2>1. PICK none : none = << >>
    OBVIOUS
  <2>2. none \in Seq(Part) /\ CallEvents(c.n, none) = << >>
    BY <2>1, EmptySeq, NoCallEvents
  <2>3. CallItems(none) = << >>
    BY <2>1 DEF CallItems
  <2>4. output \o CallItems(none) = output
    BY <1>0, <2>3, ConcatEmptySeq
  <2>5. Run(c, CallEvents(c.n, none), c) /\ Settled(output \o CallItems(none), c)
    BY <2>2, <2>4, RunNone
  <2>6. none \in Good
    BY <2>1, <2>2, <2>5
  <2> HIDE DEF Good
  <2> QED  BY <2>1, <2>6
<1>2. ASSUME NEW x \in Seq(Part), x \in Good, NEW y \in Part PROVE Append(x, y) \in Good
  <2>1. PICK d : /\ Run(c, CallEvents(c.n, x), d) /\ Settled(output \o CallItems(x), d)
                 /\ d.shown <=> c.shown \/ x # << >>
    BY <1>2
  <2>2. PICK out, all : out = output \o CallItems(x) /\ all = Append(x, y)
    OBVIOUS
  <2>3. Settled(out, d)
    BY <2>1, <2>2
  <2>4. PICK z : /\ Run(d, WholeCall(d.n, y), z) /\ Settled(Append(out, CallItem(y)), z) /\ z.shown
    BY <2>3, WholeCallReads
  <2>5. /\ CallItems(x) \in Seq(ItemSet) /\ Len(CallItems(x)) = Len(x) /\ Len(x) \in Nat
        /\ CallItem(y) \in ItemSet
    BY CallItemsType, CallItemIs, LenProperties
  <2>6. d.n = c.n + (Len(x) + 1) - 1
    <3>1. Len(out) = c.n + Len(x)
      BY <1>0, <2>2, <2>5, ConcatProperties
    <3>2. d.n = Len(out)
      BY <2>3 DEF Settled, Whole
    <3> QED  BY <1>0, <2>5, <3>1, <3>2
  <2>7. CallEvents(c.n, all) = CallEvents(c.n, x) \o WholeCall(d.n, y)
    <3>1. PICK n, E : n = c.n /\ E = CallEventSet(n)
      OBVIOUS
    <3>2. \A i \in Nat : \A p \in Part : WholeCall(n + i - 1, p) \in Seq(E)
      BY <3>1, WholeCallEvents
    <3>3. CallEvents(n, Append(x, y)) = CallEvents(n, x) \o WholeCall(n + (Len(x) + 1) - 1, y)
      BY <3>2, CallEventsSteps
    <3> QED  BY <2>2, <2>6, <3>1, <3>3
  <2>8. output \o CallItems(all) = Append(out, CallItem(y))
    <3>1. PICK items, item, one : items = CallItems(x) /\ item = CallItem(y) /\ one = << item >>
      OBVIOUS
    <3>2. items \in Seq(ItemSet) /\ item \in ItemSet /\ one \in Seq(ItemSet) /\ out \in Seq(ItemSet)
      <4>1. out \in Seq(ItemSet)
        BY <2>3 DEF Settled
      <4> QED  BY <2>5, <3>1, <4>1
    <3>3. CallItems(all) = items \o one /\ Append(out, item) = out \o one
      <4>1. CallItems(all) = Append(items, item)
        BY <2>2, <3>1, CallItemsAppend
      <4> QED  BY <3>1, <3>2, <4>1, AppendIsConcat
    <3>4. (output \o items) \o one = output \o (items \o one)
      <4>1. output \in Seq(ItemSet) /\ items \in Seq(ItemSet) /\ one \in Seq(ItemSet)
        BY <1>0, <3>2
      <4> HIDE DEF Good
      <4> QED  BY <4>1, SMTT(30)
    <3> QED  BY <2>2, <3>1, <3>3, <3>4
  <2>9. Run(c, CallEvents(c.n, all), z)
    <3>1. PICK a, b : a = CallEvents(c.n, x) /\ b = WholeCall(d.n, y)
      OBVIOUS
    <3>2. Run(c, a \o b, z)
      BY <2>1, <2>4, <3>1, RunConcat
    <3> QED  BY <2>7, <3>1, <3>2
  <2>10. all \in Seq(Part) /\ all # << >>
    BY <2>2, AppendProperties, EmptySeq
  <2>11. all \in Good
    BY <2>4, <2>8, <2>9, <2>10
  <2> HIDE DEF Good
  <2> QED  BY <2>2, <2>11
<1>3. Seq(Part) \subseteq Good
  <2> HIDE DEF Good
  <2> QED  BY <1>1, <1>2, InductionOnSeq
<1> QED  BY <1>3

SearchItems(searches) == [i \in 1 .. searches |-> Item("web_search_call", << >>)]

(* A search written whole, if there is one.                                *)
LEMMA SearchReads ==
  ASSUME NEW output, NEW c, Settled(output, c), NEW searched, NEW n, n = c.n
  PROVE  \E d : /\ Run(c, IF searched THEN WholeSearch(n) ELSE << >>, d)
                /\ Settled(output \o SearchItems(IF searched THEN 1 ELSE 0), d)
                /\ d.shown <=> c.shown \/ searched
<1>0. output \in Seq(ItemSet)
  BY DEF Settled
<1>1. CASE searched
  <2>1. PICK item : item = Item("web_search_call", << >>)
    OBVIOUS
  <2>2. item \in ItemSet /\ item.type = "web_search_call"
    BY <2>1, ItemIs, EmptySeq
  <2>3. item.type \notin {"commentary", "message"} /\ item.type # "compaction"
    BY <2>2
  <2>4. PICK c1, d : /\ Takes(c, Added(c.n, item), c1) /\ ~c1.over /\ c.n \in c1.open
                     /\ Takes(c1, Done(c.n, item), d)
                     /\ Settled(Append(output, item), d)
                     /\ d.shown <=> c.shown \/ item.type # "compaction"
    BY <2>2, <2>3, ItemRun
  <2>5. PICK e1, e2 : e1 = Added(n, item) /\ e2 = Done(n, item)
    OBVIOUS
  <2>6. Run(c, << e1, e2 >>, d)
    BY <2>4, <2>5, RunTwo
  <2>7. WholeSearch(n) = << e1, e2 >>
    BY <2>1, <2>5 DEF WholeSearch
  <2>8. PICK one : one = << item >>
    OBVIOUS
  <2>9. SearchItems(1) = one
    BY <2>1, <2>8 DEF SearchItems
  <2>10. output \o one = Append(output, item)
    BY <1>0, <2>2, <2>8, AppendIsConcat
  <2> QED  BY <1>1, <2>3, <2>4, <2>6, <2>7, <2>9, <2>10
<1>2. CASE ~searched
  <2>1. SearchItems(0) = << >>
    BY DEF SearchItems
  <2>2. output \o << >> = output
    BY <1>0, ConcatEmptySeq
  <2> QED  BY <1>2, <2>1, <2>2, RunNone
<1> QED  BY <1>1, <1>2

(* The end of a stream: all items are finished and the last event says so. *)
LEMMA EndReads ==
  ASSUME NEW s, NEW c, Agrees(s, c), Signs(s, c), s.aggregate.parts \in Seq(Part)
  PROVE  \E d : Run(c, ResponsesEnd(s), d)
<1>1. PICK a, b, out, calls, searched, parts :
        /\ a = FinishCommentary(s) /\ b = FinishMessage(a.state) /\ out = b.state.output
        /\ calls = DistinctCalls(s.aggregate.parts) /\ searched = s.aggregate.grounding
        /\ parts = s.aggregate.parts
  OBVIOUS
<1>2. PICK c1 : /\ Run(c, a.events, c1) /\ Agrees(a.state, c1) /\ (Told(a.state, c1) <=> Told(s, c))
                /\ a.state.commentary = NoItem
  <2>1. ReadStep(s, c, a, FALSE) /\ a.state.commentary = NoItem
    BY <1>1, FinishCommentaryReads
  <2> QED  BY <2>1 DEF ReadStep
<1>3. PICK c2 : Run(c1, b.events, c2) /\ Settled(out, c2) /\ (c2.shown <=> Told(a.state, c1))
  <2>1. PICK t : t = a.state
    OBVIOUS
  <2>2. \E d : /\ Run(c1, FinishMessage(t).events, d) /\ Settled(FinishMessage(t).state.output, d)
               /\ d.shown <=> Told(t, c1)
    BY <1>2, <2>1, FinishMessageReads
  <2> QED  BY <1>1, <2>1, <2>2
<1>4. out \in Seq(ItemSet) /\ Len(out) = c2.n /\ c2.n \in Nat
  BY <1>3, ReaderParts DEF Settled, Whole
<1>5. calls \in Seq(Part) /\ Len(calls) \in Nat
  BY <1>1, DistinctCallsType, LenProperties
<1>6. PICK items, more : items = CallItems(calls) /\ more = out \o items
  OBVIOUS
<1>7. PICK c3 : /\ Run(c2, CallEvents(c2.n, calls), c3) /\ Settled(more, c3)
                /\ c3.shown <=> c2.shown \/ calls # << >>
  <2>1. \E d : /\ Run(c2, CallEvents(c2.n, calls), d) /\ Settled(out \o CallItems(calls), d)
               /\ d.shown <=> c2.shown \/ calls # << >>
    BY <1>3, <1>5, CallsRead
  <2> QED  BY <1>6, <2>1
<1>8. c3.n = c2.n + Len(calls)
  <2>1. items \in Seq(ItemSet) /\ Len(items) = Len(calls)
    BY <1>5, <1>6, CallItemsType
  <2>2. Len(more) = c2.n + Len(calls)
    BY <1>4, <1>6, <2>1, ConcatProperties
  <2> QED  BY <1>7, <2>2 DEF Settled, Whole
<1>9. PICK n, found, whole : /\ n = c2.n + Len(calls)
                             /\ found = IF searched THEN WholeSearch(n) ELSE << >>
                             /\ whole = more \o SearchItems(IF searched THEN 1 ELSE 0)
  OBVIOUS
<1>10. PICK c4 : /\ Run(c3, found, c4) /\ Settled(whole, c4)
                 /\ c4.shown <=> c3.shown \/ searched
  <2>1. \E d : /\ Run(c3, IF searched THEN WholeSearch(n) ELSE << >>, d)
               /\ Settled(more \o SearchItems(IF searched THEN 1 ELSE 0), d)
               /\ d.shown <=> c3.shown \/ searched
    BY <1>7, <1>8, <1>9, SearchReads
  <2> QED  BY <1>9, <2>1
<1>11. PICK e, last, d : /\ e = [type |-> Outcome(s), output |-> FinalOutput(s),
                                 usage |-> CurrentMetadata(s.revision)]
                         /\ last = << e >> /\ d = WithEnd(c4)
  OBVIOUS
<1>12. e.output = whole
  BY <1>1, <1>6, <1>9, <1>11 DEF FinalOutput, EndState, LateCalls, CallItems, CallItem, SearchItems
<1>13. e.type = "completed" <=> c4.shown
  <2>1. e.type = "completed" <=> HasResponseOutput(s.aggregate)
    BY <1>11 DEF Outcome
  <2>2. HasResponseOutput(s.aggregate)
          <=> Has(parts, {"text", "thought"}) \/ Has(parts, Calls) \/ searched
    BY <1>1 DEF HasResponseOutput, Has
  <2>3. Has(parts, Calls) <=> calls # << >>
    BY <1>1, DistinctCallsSome
  <2>4. Has(parts, {"text", "thought"}) <=> c2.shown
    BY <1>1, <1>2, <1>3 DEF Signs
  <2> QED  BY <1>7, <1>10, <2>1, <2>2, <2>3, <2>4
<1>14. Takes(c4, e, d)
  <2>1. ~AboutItem(e) /\ e.type \in {"completed", "failed"}
    BY <1>11 DEF AboutItem, Outcome
  <2>2. ~c4.over /\ Whole(e.output, c4)
    BY <1>10, <1>12 DEF Settled
  <2> QED  BY <1>11, <1>13, <2>1, <2>2 DEF Takes, TakesEnd
<1>15. Run(c4, last, d)
  BY <1>11, <1>14, RunOne
<1>16. PICK e1, e2, e3 : e1 = a.events /\ e2 = b.events /\ e3 = CallEvents(c2.n, calls)
  OBVIOUS
<1>17. Run(c, e1 \o e2, c2)
  BY <1>2, <1>3, <1>16, RunConcat
<1>18. Run(c, (e1 \o e2) \o e3, c3)
  BY <1>7, <1>16, <1>17, RunConcat
<1>19. Run(c, ((e1 \o e2) \o e3) \o found, c4)
  BY <1>10, <1>18, RunConcat
<1>20. Run(c, (((e1 \o e2) \o e3) \o found) \o last, d)
  BY <1>15, <1>19, RunConcat
<1>21. LateItems(s) = ((e1 \o e2) \o e3) \o found
  <2>1. Base(s) = c2.n
    BY <1>1, <1>4 DEF Base, EndState
  <2> QED  BY <1>1, <1>9, <1>16, <2>1 DEF LateItems, Search, LateCalls
<1>22. ResponsesEnd(s) = LateItems(s) \o last
  BY <1>11, ResponsesEndParts DEF Agrees
<1> QED  BY <1>20, <1>21, <1>22

(***************************************************************************)
(* A Responses stream can be read all along.                               *)
(***************************************************************************)
Readable(w, s) == \E c : Reads(w, c) /\ Agrees(s, c) /\ Signs(s, c)
ReadSomehow(w) == \E c : Reads(w, c)

ReadInv ==
  protocol.name = "responses" =>
    /\ pc = "open" => wire = << >> /\ handler = ResponsesState(protocol.option)
    /\ pc \notin {"open", "done"} => Readable(wire, handler)
    /\ pc = "done" => ReadSomehow(wire)

(* Events the reader can take in are written, or the first of them.        *)
LEMMA RunWritten ==
  ASSUME NEW c, Reads(wire, c), NEW events, NEW d, Run(c, events, d),
         NEW next, Write(events, next)
  PROVE  \/ pc' = next /\ Reads(wire', d)
         \/ pc' = "done" /\ ReadSomehow(wire')
<1>1. PICK w : w = wire
  OBVIOUS
<1>2. Len(events) \in Nat
  <2>1. PICK S : events \in Seq(S)
    BY DEF Run
  <2> QED  BY <2>1, LenProperties
<1>3. /\ Reads(w \o events, d)
      /\ \A k \in 0 .. Len(events) : \E x : Reads(w \o SubSeq(events, 1, k), x)
  BY <1>1 DEF Run
<1>4. CASE wire' = wire \o events /\ pc' = next
  BY <1>1, <1>3, <1>4
<1>5. CASE \E k \in 0 .. Len(events) - 1 : wire' = wire \o SubSeq(events, 1, k) /\ pc' = "done"
  <2>1. PICK k \in 0 .. Len(events) - 1 : wire' = wire \o SubSeq(events, 1, k) /\ pc' = "done"
    BY <1>5
  <2>2. k \in 0 .. Len(events)
    BY <1>2
  <2>3. \E x : Reads(w \o SubSeq(events, 1, k), x)
    BY <1>3, <2>2
  <2> QED  BY <1>1, <2>1, <2>3 DEF ReadSomehow
<1> QED  BY <1>4, <1>5 DEF Write

(* A result that is handed on, or that finds the client gone.              *)
LEMMA DeliverReads ==
  ASSUME protocol.name = "responses", Readable(wire, handler), Holding(protocol, handler),
         protocol' = protocol, NEW r, r.parts \in Seq(Part),
         NEW next \in {"stream", "flushed"}, Deliver(r, next)
  PROVE  ReadInv'
<1>1. PICK s, c : s = handler /\ Reads(wire, c) /\ Agrees(s, c) /\ Signs(s, c)
  BY DEF Readable
<1>2. CASE canceled
  <2>1. pc' = "done" /\ wire' = wire
    BY <1>2 DEF Deliver
  <2> QED  BY <1>1, <2>1 DEF ReadInv, ReadSomehow
<1>3. CASE ~canceled
  <2>1. PICK o : o = ResponsesResult(s, r)
    OBVIOUS
  <2>2. handler' = o.state /\ Write(o.events, next)
    BY <1>1, <1>3, <2>1 DEF Deliver, OnResult
  <2>3. s.aggregate.parts \in Seq(Part)
    BY <1>1 DEF Holding
  <2>4. PICK d : Run(c, o.events, d) /\ Agrees(o.state, d) /\ Signs(o.state, d)
    BY <1>1, <2>1, <2>3, ResultReads
  <2>5. \/ pc' = next /\ Reads(wire', d)
        \/ pc' = "done" /\ ReadSomehow(wire')
    BY <1>1, <2>2, <2>4, RunWritten
  <2>6. CASE pc' = next /\ Reads(wire', d)
    <3>1. Readable(wire', handler')
      BY <2>2, <2>4, <2>6 DEF Readable
    <3> QED  BY <2>6, <3>1 DEF ReadInv
  <2>7. CASE pc' = "done" /\ ReadSomehow(wire')
    BY <2>7 DEF ReadInv
  <2> QED  BY <2>5, <2>6, <2>7
<1> QED  BY <1>2, <1>3

(* The start of a stream.                                                  *)
LEMMA OpenReads ==
  ASSUME RevisionInv, ReadInv, protocol.name = "responses", Open
  PROVE  ReadInv'
<1>1. pc = "open" /\ UNCHANGED <<protocol, handler>>
  BY DEF Open
<1>2. PICK option, s : option = protocol.option /\ s = ResponsesState(option)
  OBVIOUS
<1>3. option \in BOOLEAN
  BY <1>2 DEF RevisionInv, Protocols
<1>4. wire = << >> /\ handler = s
  BY <1>1, <1>2 DEF ReadInv
<1>5. Write(ResponsesStart(option), "stream")
  BY <1>2 DEF Open
<1>6. PICK d : Run(NoReader, ResponsesStart(option), d) /\ Agrees(s, d) /\ Signs(s, d)
  BY <1>2, <1>3, StartReads
<1>7. Reads(wire, NoReader)
  BY <1>4, ReadsNothing
<1>8. \/ pc' = "stream" /\ Reads(wire', d)
      \/ pc' = "done" /\ ReadSomehow(wire')
  BY <1>5, <1>6, <1>7, RunWritten
<1>9. CASE pc' = "stream" /\ Reads(wire', d)
  <2>1. Readable(wire', handler')
    BY <1>1, <1>4, <1>6, <1>9 DEF Readable
  <2> QED  BY <1>9, <2>1 DEF ReadInv
<1>10. CASE pc' = "done" /\ ReadSomehow(wire')
  BY <1>10 DEF ReadInv
<1> QED  BY <1>8, <1>9, <1>10

(* A result arrives.                                                       *)
LEMMA ArrivalReads ==
  ASSUME RevisionInv, ContentInv, ReadInv, protocol.name = "responses", ResultArrives
  PROVE  ReadInv'
<1> DEFINE N == Len(sent)
<1>1. pc = "stream" /\ protocol' = protocol
  BY DEF ResultArrives
<1>2. N \in Nat /\ protocol \in Protocols
  BY LenProperties DEF RevisionInv
<1>3. PICK shape \in Arrivals(protocol.name) :
        LET rest == DetachFinish(Numbered(shape, N + 1)) IN
        IF IsEmpty(rest) THEN UNCHANGED <<pc, handler, wire, gone>> ELSE Deliver(rest, "stream")
  BY DEF ResultArrives
<1> DEFINE result == Numbered(shape, N + 1)
           rest   == DetachFinish(result)
<1>4. result \in ResultSet
  <2>1. shape \in Shapes
    BY <1>2, ArrivalAssumption DEF Protocols
  <2> QED  BY <1>2, <2>1, NumberedIsResult DEF IsResult
<1>5. IF IsEmpty(rest) THEN UNCHANGED <<pc, handler, wire, gone>> ELSE Deliver(rest, "stream")
  BY <1>3
<1> HIDE DEF result
<1>6. rest.parts \in Seq(Part)
  <2>1. rest.parts = result.parts
    BY <1>4, DetachKeeps
  <2> HIDE DEF rest
  <2> QED  BY <1>4, <2>1 DEF ResultSet
<1> HIDE DEF rest
<1>7. Readable(wire, handler)
  BY <1>1 DEF ReadInv
<1>8. Holding(protocol, handler)
  BY <1>1 DEF ContentInv, Balance
<1>9. CASE IsEmpty(rest)
  BY <1>1, <1>5, <1>7, <1>9 DEF ReadInv
<1>10. CASE ~IsEmpty(rest)
  <2>1. Deliver(rest, "stream")
    BY <1>5, <1>10
  <2> QED  BY <1>1, <1>6, <1>7, <1>8, <2>1, DeliverReads
<1> QED  BY <1>9, <1>10

(* The finish reason comes by itself.                                      *)
LEMMA FlushReads ==
  ASSUME RevisionInv, ContentInv, ReadInv, protocol.name = "responses", UpstreamEnds
  PROVE  ReadInv'
<1>1. pc = "stream" /\ protocol' = protocol
  BY DEF UpstreamEnds
<1>2. Readable(wire, handler) /\ Holding(protocol, handler)
  BY <1>1 DEF ReadInv, ContentInv, Balance
<1>3. CASE pendingFinish = None
  <2>1. pc' = "flushed" /\ UNCHANGED <<handler, wire>>
    BY <1>3 DEF UpstreamEnds
  <2> QED  BY <1>2, <2>1 DEF ReadInv
<1>4. CASE pendingFinish # None
  <2>1. PICK r : r = FinishResult(pendingFinish)
    OBVIOUS
  <2>2. Deliver(r, "flushed")
    BY <1>4, <2>1 DEF UpstreamEnds
  <2>3. r.parts \in Seq(Part)
    BY <2>1, EmptySeq DEF FinishResult, EmptyResult
  <2> QED  BY <1>1, <1>2, <2>2, <2>3, DeliverReads
<1> QED  BY <1>3, <1>4

(* The end of a stream.                                                    *)
LEMMA HandlerEndReads ==
  ASSUME ContentInv, ReadInv, protocol.name = "responses", HandlerEnds
  PROVE  ReadInv'
<1>1. pc = "flushed" /\ protocol' = protocol
  BY DEF HandlerEnds
<1>2. Write(ResponsesEnd(handler), "done")
  BY DEF HandlerEnds, EndEvents
<1>3. PICK s, c : s = handler /\ Reads(wire, c) /\ Agrees(s, c) /\ Signs(s, c)
  BY <1>1 DEF ReadInv, Readable
<1>4. s.aggregate.parts \in Seq(Part)
  BY <1>1, <1>3 DEF ContentInv, Balance, Holding
<1>5. PICK d : Run(c, ResponsesEnd(s), d)
  BY <1>3, <1>4, EndReads
<1>6. pc' = "done" /\ ReadSomehow(wire')
  <2>1. \/ pc' = "done" /\ Reads(wire', d)
        \/ pc' = "done" /\ ReadSomehow(wire')
    BY <1>2, <1>3, <1>5, RunWritten
  <2> QED  BY <2>1 DEF ReadSomehow
<1> QED  BY <1>6 DEF ReadInv

(* An error.                                                               *)
LEMMA FailureReads ==
  ASSUME ReadInv, protocol.name = "responses", StreamFails
  PROVE  ReadInv'
<1>1. pc \notin {"open", "done"} /\ protocol' = protocol
  BY DEF StreamFails
<1>2. PICK c : Reads(wire, c) /\ ~c.over
  BY <1>1 DEF ReadInv, Readable, Agrees
<1>3. CASE canceled
  BY <1>2, <1>3 DEF StreamFails, ReadInv, ReadSomehow
<1>4. CASE ~canceled
  <2>1. PICK e : e = [type |-> "error"]
    OBVIOUS
  <2>2. PICK events : events = << e >>
    OBVIOUS
  <2>3. Write(events, "done")
    BY <1>4, <2>1, <2>2 DEF StreamFails, ErrorEvents, ResponsesError
  <2>4. ~AboutItem(e) /\ e.type = "error"
    BY <2>1 DEF AboutItem
  <2>5. Takes(c, e, c)
    BY <1>2, <2>4 DEF Takes, TakesOther, Marking
  <2>6. Run(c, events, c)
    BY <2>2, <2>5, RunOne
  <2>7. pc' = "done" /\ ReadSomehow(wire')
    <3>1. \/ pc' = "done" /\ Reads(wire', c)
          \/ pc' = "done" /\ ReadSomehow(wire')
      BY <1>2, <2>3, <2>6, RunWritten
    <3> QED  BY <3>1 DEF ReadSomehow
  <2> QED  BY <2>7 DEF ReadInv
<1> QED  BY <1>3, <1>4

LEMMA NextReads == RevisionInv /\ ContentInv /\ ReadInv /\ [Next]_vars => ReadInv'
<1> SUFFICES ASSUME RevisionInv, ContentInv, ReadInv, [Next]_vars, protocol.name = "responses"
             PROVE  ReadInv'
  BY ProtocolStays DEF ReadInv
<1>1. CASE Cancel
  <2>1. UNCHANGED <<protocol, pc, handler, wire>>
    BY <1>1 DEF Cancel
  <2> QED  BY <2>1 DEF ReadInv
<1>2. CASE UNCHANGED vars
  <2>1. UNCHANGED <<protocol, pc, handler, wire>>
    BY <1>2 DEF vars
  <2> QED  BY <2>1 DEF ReadInv
<1> QED  BY <1>1, <1>2, OpenReads, ArrivalReads, FlushReads, HandlerEndReads, FailureReads
         DEF Next

LEMMA StreamReads == Spec => []ReadInv
<1>1. Init => ReadInv
  BY DEF Init, ReadInv, InitialHandler
<1> QED  BY <1>1, NextReads, StreamRevision, StreamContent, PTL DEF Spec

(***************************************************************************)
(* What the client has of items, reasons and completions.                  *)
(***************************************************************************)
WireTypes(p) ==
  ChunkTypes(p) \cup {"error", "http_error"}
  \cup (IF p.name = "chat" THEN {"end", "[DONE]"} ELSE {})
  \cup (IF p.name = "responses" THEN {"completed", "failed"} ELSE {})

(* What a protocol may write at all.                                       *)
LEMMA WireTyped == ASSUME EndInv PROVE Typed(wire, WireTypes(protocol))
<1>0. PICK types : types = WireTypes(protocol)
  OBVIOUS
<1>1. ASSUME NEW chunks, Typed(chunks, ChunkTypes(protocol)) PROVE Typed(chunks, types)
  <2>1. PICK S : chunks \in Seq(S) /\ \A e \in S : IsEvent(e, ChunkTypes(protocol))
    BY <1>1 DEF Typed
  <2>2. \A e \in S : IsEvent(e, types)
    BY <1>0, <2>1 DEF IsEvent, WireTypes
  <2> QED  BY <2>1, <2>2, TypedBy
<1>2. CASE pc # "done"
  BY <1>0, <1>1, <1>2 DEF EndInv, Running
<1>3. CASE pc = "done"
  <2>1. PICK chunks, closing : /\ wire = chunks \o closing /\ Typed(chunks, ChunkTypes(protocol))
                               /\ Closes(chunks, closing)
    BY <1>3 DEF EndInv, Ended
  <2>9. SUFFICES Typed(closing, types)
    <3>1. ASSUME Typed(closing, types) PROVE Typed(wire, WireTypes(protocol))
      <4>1. Typed(chunks, types)
        BY <1>1, <2>1
      <4>2. Typed(chunks \o closing, types)
        BY <3>1, <4>1, TypedConcat
      <4> QED  BY <1>0, <2>1, <4>2
    <3> QED  BY <3>1
  <2>2. CASE closing = << >>
    BY <2>2, TypedEmpty
  <2>3. CASE \E e : closing = << e >> /\ e.type \in types /\ "index" \notin DOMAIN e
    <3>1. PICK e : closing = << e >> /\ IsEvent(e, types)
      BY <2>3 DEF IsEvent
    <3> QED  BY <3>1, TypedOne
  <2>4. CASE protocol.name = "chat" /\ \E reason : closing = << EndEvent(reason) >>
    <3>1. PICK reason : closing = << EndEvent(reason) >>
      BY <2>4
    <3>2. PICK e : e = EndEvent(reason)
      OBVIOUS
    <3>3. e.type \in types /\ "index" \notin DOMAIN e
      BY <1>0, <2>4, <3>2 DEF EndEvent, WireTypes
    <3>4. closing = << e >>
      BY <3>1, <3>2
    <3> QED  BY <2>3, <3>3, <3>4
  <2>5. CASE /\ protocol.name = "chat"
             /\ \E reason : closing = << EndEvent(reason), [type |-> "[DONE]"] >>
    <3>1. PICK reason : closing = << EndEvent(reason), [type |-> "[DONE]"] >>
      BY <2>5
    <3>2. PICK a, b : a = EndEvent(reason) /\ b = [type |-> "[DONE]"]
      OBVIOUS
    <3>3. IsEvent(a, types) /\ IsEvent(b, types)
      BY <1>0, <2>5, <3>2 DEF EndEvent, IsEvent, WireTypes
    <3>4. closing = << a, b >>
      BY <3>1, <3>2
    <3> QED  BY <3>3, <3>4, TypedTwo
  <2>6. CASE /\ protocol.name = "responses"
             /\ \E type \in {"completed", "failed"} : \E output :
                  closing = << FinalEvent(type, output) >>
    <3>1. PICK type \in {"completed", "failed"} : \E output :
                 closing = << FinalEvent(type, output) >>
      BY <2>6
    <3>2. PICK output : closing = << FinalEvent(type, output) >>
      BY <3>1
    <3>3. PICK e : e = FinalEvent(type, output)
      OBVIOUS
    <3>4. e.type \in types /\ "index" \notin DOMAIN e
      BY <1>0, <2>6, <3>3 DEF FinalEvent, WireTypes
    <3>5. closing = << e >>
      BY <3>2, <3>3
    <3> QED  BY <2>3, <3>4, <3>5
  <2>7. CASE closing = << [type |-> "error"] >> \/ closing = << [type |-> "http_error"] >>
    <3>1. PICK e : closing = << e >> /\ (e = [type |-> "error"] \/ e = [type |-> "http_error"])
      BY <2>7
    <3>2. e.type \in types /\ "index" \notin DOMAIN e
      BY <1>0, <3>1 DEF WireTypes
    <3> QED  BY <2>3, <3>1, <3>2
  <2> QED  BY <2>1, <2>2, <2>4, <2>5, <2>6, <2>7, Zenon DEF Closes
<1> QED  BY <1>2, <1>3

(* The finish reason of any protocol.                                      *)
LEMMA ReasonIsRight == RevisionInv /\ EndInv /\ ReasonInv => ReasonMatches
<1> SUFFICES ASSUME RevisionInv, EndInv, ReasonInv PROVE ReasonMatches
  OBVIOUS
<1>1. \A i \in DOMAIN wire : wire[i].type \in WireTypes(protocol)
  BY WireTyped, TypedEvents
<1>2. CASE protocol.name # "chat"
  <2>1. \A i \in DOMAIN wire : wire[i].type # "end"
    BY <1>1, <1>2 DEF WireTypes, ChunkTypes, ItemTypes
  <2> QED  BY <2>1 DEF ReasonMatches
<1>3. CASE protocol.name = "chat" /\ pc # "done"
  <2>1. \A i \in DOMAIN wire : wire[i].type \in ChunkTypes(protocol)
    BY <1>3, TypedEvents DEF EndInv, Running
  <2>2. \A i \in DOMAIN wire : wire[i].type # "end"
    BY <1>3, <2>1 DEF ChunkTypes, ItemTypes
  <2> QED  BY <2>2 DEF ReasonMatches
<1>4. CASE protocol.name = "chat" /\ pc = "done"
  BY <1>4 DEF ReasonInv
<1> QED  BY <1>2, <1>3, <1>4

(* No event of a type is written.                                          *)
LEMMA NoneOfType ==
  ASSUME NEW types, NEW w, Typed(w, types), NEW type, type \notin types
  PROVE  OfTypeIn(w, type) = << >>
<1> DEFINE I == {i \in DOMAIN w : w[i].type = type}
<1>1. PICK S : w \in Seq(S)
  BY DEF Typed
<1>2. PICK none : none = {}
  OBVIOUS
<1>3. \A i \in 1 .. Len(w) : i \in I <=> i \in none
  <2>1. \A i \in DOMAIN w : w[i].type # type
    BY TypedEvents
  <2> QED  BY <1>2, <2>1
<1> HIDE DEF I
<1>4. ItemsAt(w, I) = ItemsAt(w, none)
  BY <1>1, <1>3, ItemsAtSame
<1>5. ItemsAt(w, none) = << >>
  <2>1. PICK X, v : /\ X = {w[i] : i \in {j \in 1 .. Len(w) : j \in none}} /\ v = ItemsAt(w, none)
                    /\ v \in Seq(X)
    BY <1>1, ItemsAtElements
  <2>2. X = {}
    BY <1>2, <2>1
  <2>3. \A i \in DOMAIN v : v[i] \in X
    BY <2>1, LenProperties, ElementOfSeq
  <2>4. DOMAIN v = 1 .. Len(v) /\ Len(v) \in Nat
    BY <2>1, LenProperties
  <2>5. Len(v) = 0
    BY <2>2, <2>3, <2>4
  <2> QED  BY <2>1, <2>5, EmptySeq
<1> QED  BY <1>4, <1>5 DEF OfTypeIn, I

(* Where nothing is about an item, items are no trouble.                   *)
LEMMA NoItems ==
  ASSUME protocol \in Protocols, protocol.name # "responses", Typed(wire, WireTypes(protocol))
  PROVE  ItemsAreWhole /\ CompletedIfShown
<1>1. PICK w, types : w = wire /\ types = WireTypes(protocol)
  OBVIOUS
<1>2. \A t \in types : t \notin ItemTypes /\ t \notin {"completed", "failed"}
  <2>1. types \subseteq {"chunk", "gemini", "error", "http_error", "end", "[DONE]"}
    BY <1>1 DEF WireTypes, ChunkTypes, Protocols, Names
  <2> QED  BY <2>1 DEF ItemTypes
<1>3. Typed(w, types)
  BY <1>1
<1>4. \A i \in DOMAIN w : w[i].type \in types /\ IsEvent(w[i], types)
  BY <1>3, TypedEvents
<1>5. \A i \in DOMAIN w : "index" \notin DOMAIN w[i] /\ w[i].type \notin {"completed", "failed"}
  BY <1>2, <1>4 DEF IsEvent
<1>6. OfTypeIn(w, "output_item.added") = << >> /\ OfTypeIn(w, "output_item.done") = << >>
  BY <1>2, <1>3, NoneOfType DEF ItemTypes
<1>7. OfType("output_item.added") = << >> /\ OfType("output_item.done") = << >>
  BY <1>1, <1>6 DEF OfType, OfTypeIn
<1>8. ItemEvents = {}
  BY <1>1, <1>5 DEF ItemEvents
<1>9. ItemsAreWhole
  BY <1>1, <1>5, <1>7, <1>8 DEF ItemsAreWhole
<1> QED  BY <1>1, <1>5, <1>9 DEF CompletedIfShown

(* A stream that can be read has whole items.                              *)
LEMMA ReadIsWhole ==
  ASSUME ReadSomehow(wire)
  PROVE  ItemsAreWhole /\ CompletedIfShown
<1>1. PICK c : Reads(wire, c)
  BY DEF ReadSomehow
<1>2. PICK w, added, done : /\ w = wire /\ added = OfTypeIn(w, "output_item.added")
                            /\ done = OfTypeIn(w, "output_item.done")
  OBVIOUS
<1>3. /\ Len(added) = c.n
      /\ \A k \in DOMAIN added : added[k].index = k - 1
  BY <1>1, <1>2 DEF Reads, KnowsAdded
<1>4. /\ Len(done) = c.ended
      /\ \A k \in DOMAIN done :
           /\ done[k].index \in 0 .. c.n - 1
           /\ done[k].item = c.items[done[k].index]
           /\ done[k].item.type \in {"commentary", "message"} =>
                done[k].item.parts = c.text[done[k].index]
  BY <1>1, <1>2 DEF Reads, KnowsDone
<1>5. OfType("output_item.added") = added /\ OfType("output_item.done") = done
  BY <1>2 DEF OfType, OfTypeIn
<1>6. \A i : Deltas(i) = DeltasIn(w, i)
  BY <1>2 DEF Deltas, DeltasIn, DeltaOf
<1>7. \A k \in DOMAIN done : done[k].item.type \in {"commentary", "message"} =>
        done[k].item.parts = Deltas(done[k].index)
  <2>1. \A i \in 0 .. c.n - 1 : i \in Nat
    BY <1>1, ReaderParts DEF Reads
  <2>2. \A i \in Nat : DeltasIn(w, i) = c.text[i]
    BY <1>1, <1>2 DEF Reads, KnowsTexts
  <2> QED  BY <1>4, <1>6, <2>1, <2>2
<1>8. ASSUME NEW p \in ItemEvents
      PROVE  \E a \in ItemEvents :
               /\ a <= p /\ wire[a].type = "output_item.added" /\ wire[a].index = wire[p].index
  <2>1. p \in DOMAIN w /\ AboutItem(w[p])
    BY <1>2 DEF ItemEvents, AboutItem
  <2>2. PICK a \in DOMAIN w : /\ a <= p /\ w[a].type = "output_item.added"
                              /\ AboutItem(w[a]) /\ w[a].index = w[p].index
    BY <1>1, <1>2, <2>1 DEF Reads, KnowsEvents
  <2>3. a \in ItemEvents
    BY <1>2, <2>2 DEF ItemEvents, AboutItem
  <2> QED  BY <1>2, <2>2, <2>3
<1>9. ASSUME NEW p \in ItemEvents, NEW q \in ItemEvents, p < q, wire[p].index = wire[q].index
      PROVE  wire[p].type # "output_item.done" /\ wire[q].type # "output_item.added"
  <2>1. p \in DOMAIN w /\ AboutItem(w[p]) /\ q \in DOMAIN w /\ AboutItem(w[q])
    BY <1>2 DEF ItemEvents, AboutItem
  <2> QED  BY <1>1, <1>2, <1>9, <2>1 DEF Reads, KnowsEvents
<1>10. ASSUME NEW p \in DOMAIN wire, wire[p].type \in {"completed", "failed"}
       PROVE  /\ Len(wire[p].output) = Len(added) /\ Len(done) = Len(added)
              /\ \A k \in DOMAIN done : wire[p].output[done[k].index + 1] = done[k].item
              /\ wire[p].type = "completed" <=> ShowsItem(w)
  <2>1. /\ Whole(wire[p].output, c) /\ (wire[p].type = "completed" <=> c.shown)
        /\ c.shown <=> ShowsItem(w)
    BY <1>1, <1>2, <1>10 DEF Reads, KnowsOver
  <2> QED  BY <1>3, <1>4, <2>1 DEF Whole
<1>11. ItemsAreWhole
  BY <1>3, <1>5, <1>7, <1>8, <1>9, <1>10 DEF ItemsAreWhole
<1>12. CompletedIfShown
  BY <1>2, <1>10 DEF CompletedIfShown, ShowsItem
<1> QED  BY <1>11, <1>12

LEMMA ItemsAreRight == RevisionInv /\ EndInv /\ ReadInv => ItemsAreWhole /\ CompletedIfShown
<1> SUFFICES ASSUME RevisionInv, EndInv, ReadInv PROVE ItemsAreWhole /\ CompletedIfShown
  OBVIOUS
<1>1. CASE protocol.name # "responses"
  BY <1>1, WireTyped, NoItems DEF RevisionInv
<1>2. CASE protocol.name = "responses"
  <2>1. CASE pc = "open"
    BY <1>2, <2>1, ReadsNothing, ReadIsWhole DEF ReadInv, ReadSomehow
  <2>2. CASE pc # "open"
    BY <1>2, <2>2, ReadIsWhole DEF ReadInv, Readable, ReadSomehow
  <2> QED  BY <2>1, <2>2
<1> QED  BY <1>1, <1>2

(* The items of a Responses stream are whole for its client, in every state*)
(* of it: numbered as they were added, each between its own events, with   *)
(* the text of its deltas, and as the final event lists them.              *)
THEOREM StreamItemsAreWhole == Spec => []ItemsAreWhole
BY ItemsAreRight, StreamRevision, StreamEnds, StreamReads, PTL

(* The end of a stream is its last event, its only one, and says what is   *)
(* true: the reason of a Chat stream, the success of a Responses stream.   *)
THEOREM StreamsEndAsTheyRan == Spec => []EndMatches
<1>1. RevisionInv /\ EndInv /\ ReasonInv /\ ReadInv => EndMatches
  <2>1. RevisionInv /\ EndInv => EndIsLast
    BY RunningIsRight, EndedIsRight DEF RevisionInv, EndInv
  <2> QED  BY <2>1, ReasonIsRight, ItemsAreRight DEF EndMatches
<1> QED  BY <1>1, StreamRevision, StreamEnds, StreamReason, StreamReads, PTL

(***************************************************************************)
(* The chunks of a Gemini stream.                                          *)
(***************************************************************************)
IsChunk(e, id) == e.type = "gemini" /\ e.id = id /\ id # None
WholeChunk(e, id) == IsChunk(e, id) /\ Substantive(e.payload) /\ e.payload.finish = None
Chunks(w, id) == \E S : w \in Seq(S) /\ \A e \in S : WholeChunk(e, id)

(* A payload with something in it.                                         *)
Something(payload) ==
  \/ payload.parts # << >> \/ payload.grounding = TRUE \/ payload.feedback = TRUE
  \/ payload.finish # None

(* The handler while the upstream sends: what it has named, the usage and  *)
(* the weight of what it holds back.                                       *)
Named(s) == s.identityCommitted = TRUE => s.responseId # None

Keeps(s) ==
  /\ DOMAIN s = GeminiFields /\ Named(s)
  /\ DOMAIN s.pending = {"payload", "usage", "substantive"}
  /\ s.pending.payload.finish = None
  /\ s.pending.substantive <=> Substantive(s.pending.payload)

Dated(s) == s.pending.payload # NoPayload => s.pending.usage = CurrentMetadata(s.revision)

Held(w, s) ==
  /\ Keeps(s) /\ Dated(s) /\ Chunks(w, s.responseId)
  /\ w # << >> => s.identityCommitted = TRUE /\ s.pending.payload # NoPayload

(* The handler once it has written the finish chunk.                       *)
Finished(w, s) ==
  /\ s.pending.payload = NoPayload
  /\ \E v, e : /\ w = Append(v, e) /\ Chunks(v, s.responseId)
               /\ IsChunk(e, s.responseId) /\ e.usage = CurrentMetadata(s.revision)

(* A step that writes one chunk.                                           *)
OneChunk(s, o, e) ==
  /\ DOMAIN o.state = GeminiFields /\ o.state.revision = s.revision
  /\ o.events = << e >> /\ IsChunk(e, o.state.responseId)
  /\ o.state.identityCommitted = TRUE
  /\ s.identityCommitted = TRUE => o.state.responseId = s.responseId

LEMMA NothingWeighsNothing ==
  ASSUME NEW payload, payload = NoPayload
  PROVE  ~Substantive(payload) /\ ~Something(payload)
BY DEF Substantive, Has, Something, NoPayload

LEMMA EmitChunk ==
  ASSUME NEW s, DOMAIN s = GeminiFields, Named(s), NEW payload, payload # NoPayload, NEW usage
  PROVE  \E e : /\ OneChunk(s, Emit(s, payload, usage), e)
                /\ e.payload = payload /\ e.usage = usage
                /\ Emit(s, payload, usage).state.pending = s.pending
                /\ Emit(s, payload, usage) = [state  |-> Emit(s, payload, usage).state,
                                              events |-> Emit(s, payload, usage).events]
<1>1. PICK id : id = IF s.responseId = None THEN "generated" ELSE s.responseId
  OBVIOUS
<1>2. id # None /\ (s.identityCommitted = TRUE => id = s.responseId)
  BY <1>1 DEF Named, None
<1>3. PICK e : e = [type |-> "gemini", payload |-> payload, usage |-> usage, id |-> id]
  OBVIOUS
<1> DEFINE next == [s EXCEPT !.responseId = id, !.identityCommitted = TRUE]
<1>4. Emit(s, payload, usage) = [state |-> next, events |-> << e >>]
  BY <1>1, <1>3 DEF Emit
<1>5. /\ DOMAIN next = GeminiFields /\ next.revision = s.revision /\ next.pending = s.pending
      /\ next.responseId = id /\ next.identityCommitted = TRUE
  BY DEF GeminiFields
<1> HIDE DEF next
<1>6. IsChunk(e, id) /\ e.payload = payload /\ e.usage = usage
  BY <1>2, <1>3 DEF IsChunk
<1>7. PICK o : o = Emit(s, payload, usage)
  OBVIOUS
<1>8. o = [state |-> next, events |-> << e >>]
  BY <1>4, <1>7
<1>9. o.state = next /\ o.events = << e >> /\ o = [state |-> o.state, events |-> o.events]
  BY <1>8
<1>10. OneChunk(s, o, e)
  BY <1>2, <1>5, <1>6, <1>9 DEF OneChunk
<1> QED  BY <1>5, <1>6, <1>7, <1>9, <1>10

(* What is pending is written, if anything is.                             *)
LEMMA EmitPendingChunk ==
  ASSUME NEW s, DOMAIN s = GeminiFields, Named(s)
  PROVE  /\ s.pending.payload = NoPayload => EmitPending(s).events = << >>
         /\ s.pending.payload # NoPayload =>
              \E e : /\ OneChunk(s, EmitPending(s), e)
                     /\ e.payload = s.pending.payload /\ e.usage = s.pending.usage
                     /\ EmitPending(s).state.pending = NoPending
                     /\ EmitPending(s) = [state  |-> EmitPending(s).state,
                                          events |-> EmitPending(s).events]
<1>1. PICK q : q = Emit(s, s.pending.payload, s.pending.usage)
  OBVIOUS
<1>2. PICK o : o = EmitPending(s)
  OBVIOUS
<1>3. o = [q EXCEPT !.state.pending = NoPending]
  BY <1>1, <1>2 DEF EmitPending
<1>4. CASE s.pending.payload = NoPayload
  <2>1. q = [state |-> s, events |-> << >>]
    BY <1>1, <1>4 DEF Emit
  <2>2. o.events = << >>
    BY <1>3, <2>1
  <2> QED  BY <1>2, <1>4, <2>2
<1>5. CASE s.pending.payload # NoPayload
  <2>1. PICK e : /\ OneChunk(s, q, e) /\ e.payload = s.pending.payload
                 /\ e.usage = s.pending.usage
                 /\ q = [state |-> q.state, events |-> q.events]
    BY <1>1, <1>5, EmitChunk
  <2> DEFINE next == [q.state EXCEPT !.pending = NoPending]
  <2>2. DOMAIN q.state = GeminiFields
    BY <2>1 DEF OneChunk
  <2>3. /\ DOMAIN next = GeminiFields /\ next.revision = q.state.revision
        /\ next.responseId = q.state.responseId
        /\ next.identityCommitted = q.state.identityCommitted /\ next.pending = NoPending
    BY <2>2 DEF GeminiFields
  <2>4. o = [state |-> next, events |-> q.events]
    BY <1>3, <2>1
  <2> HIDE DEF next
  <2>5. o.state = next /\ o.events = q.events /\ o = [state |-> o.state, events |-> o.events]
    BY <2>4
  <2>6. OneChunk(s, o, e)
    BY <2>1, <2>3, <2>5 DEF OneChunk
  <2> QED  BY <1>2, <1>5, <2>1, <2>3, <2>5, <2>6
<1> QED  BY <1>4, <1>5

(* More events, one by one.                                                *)
LEMMA MoreEvents ==
  ASSUME NEW S, NEW w \in Seq(S), NEW a, NEW b
  PROVE  /\ w \o << >> = w
         /\ w \o << a >> = Append(w, a)
         /\ w \o << a, b >> = Append(Append(w, a), b)
<1>1. PICK T : T = S \cup {a, b}
  OBVIOUS
<1>2. w \in Seq(T) /\ a \in T /\ b \in T
  BY <1>1, SeqMonotonic
<1>3. Append(w, a) \in Seq(T)
  BY <1>2, AppendProperties
<1>4. << a >> \in Seq(T) /\ << b >> \in Seq(T)
  BY <1>2
<1>5. w \o << a >> = Append(w, a) /\ Append(w, a) \o << b >> = Append(Append(w, a), b)
  BY <1>2, <1>3, AppendIsConcat
<1>6. << a, b >> = << a >> \o << b >>
  BY OneAndMore
<1>7. (w \o << a >>) \o << b >> = w \o (<< a >> \o << b >>)
  BY <1>2, <1>4, ConcatRegroup
<1> QED  BY <1>2, <1>5, <1>6, <1>7, ConcatEmptySeq

LEMMA ChunksSeq == ASSUME NEW w, NEW id, Chunks(w, id) PROVE \E S : w \in Seq(S)
BY DEF Chunks

LEMMA ChunksNone == ASSUME NEW id PROVE Chunks(<< >>, id)
<1>1. PICK S : S = {}
  OBVIOUS
<1> QED  BY <1>1, EmptySeq DEF Chunks

LEMMA ChunksMore ==
  ASSUME NEW w, NEW id, Chunks(w, id), NEW e, WholeChunk(e, id)
  PROVE  Chunks(Append(w, e), id)
<1>1. PICK S : w \in Seq(S) /\ \A x \in S : WholeChunk(x, id)
  BY DEF Chunks
<1>2. PICK T : T = S \cup {e}
  OBVIOUS
<1>3. w \in Seq(T) /\ e \in T /\ \A x \in T : WholeChunk(x, id)
  BY <1>1, <1>2, SeqMonotonic
<1>4. Append(w, e) \in Seq(T)
  BY <1>3, AppendProperties
<1> QED  BY <1>3, <1>4 DEF Chunks

(* What the wire and the handler were before a step that keeps the id.     *)
LEMMA HeldId ==
  ASSUME NEW w, NEW s, Held(w, s), NEW id, s.identityCommitted = TRUE => id = s.responseId
  PROVE  Chunks(w, id)
<1>1. CASE w = << >>
  BY <1>1, ChunksNone
<1>2. CASE w # << >>
  BY <1>2 DEF Held
<1> QED  BY <1>1, <1>2

(* A result is measured, and may name the response.                        *)
LEMMA AbsorbKeeps ==
  ASSUME NEW w, NEW s, Held(w, s), NEW r
  PROVE  /\ Keeps(Absorb(s, r)) /\ Absorb(s, r).pending = s.pending
         /\ Absorb(s, r).includeThoughts = s.includeThoughts
         /\ Absorb(s, r).identityCommitted = s.identityCommitted
         /\ Chunks(w, Absorb(s, r).responseId)
<1>1. PICK id, revision : /\ id = (IF ~s.identityCommitted /\ s.responseId = None
                                     THEN r.id ELSE s.responseId)
                          /\ revision = Observe(s.revision, r)
  OBVIOUS
<1>2. s.identityCommitted = TRUE => id = s.responseId
  BY <1>1
<1> DEFINE next == [s EXCEPT !.revision = revision, !.responseId = id]
<1>3. Absorb(s, r) = next
  BY <1>1 DEF Absorb
<1>4. Keeps(s)
  BY DEF Held
<1>5. /\ DOMAIN next = GeminiFields /\ next.pending = s.pending /\ next.responseId = id
      /\ next.includeThoughts = s.includeThoughts /\ next.identityCommitted = s.identityCommitted
  BY <1>4 DEF GeminiFields, Keeps
<1> HIDE DEF next
<1>6. Keeps(next)
  BY <1>2, <1>4, <1>5 DEF Keeps, Named
<1>7. Chunks(w, id)
  BY <1>2, HeldId
<1> QED  BY <1>3, <1>5, <1>6, <1>7

(* Nothing for the client: what is pending gets the new usage.             *)
LEMMA SilentKeeps ==
  ASSUME NEW w, NEW s, Keeps(s), Chunks(w, s.responseId),
         w # << >> => s.identityCommitted = TRUE /\ s.pending.payload # NoPayload
  PROVE  Held(w, IF s.pending.payload = NoPayload THEN s
                 ELSE [s EXCEPT !.pending.usage = CurrentMetadata(s.revision)])
<1>1. CASE s.pending.payload = NoPayload
  BY <1>1 DEF Held, Dated
<1>2. CASE s.pending.payload # NoPayload
  <2>1. PICK usage : usage = CurrentMetadata(s.revision)
    OBVIOUS
  <2> DEFINE pending == [s.pending EXCEPT !.usage = usage]
             next    == [s EXCEPT !.pending = pending]
  <2>2. [s EXCEPT !.pending.usage = usage] = next
    OBVIOUS
  <2>3. /\ DOMAIN pending = {"payload", "usage", "substantive"}
        /\ pending.payload = s.pending.payload /\ pending.usage = usage
        /\ pending.substantive = s.pending.substantive
    BY DEF Keeps
  <2> HIDE DEF pending
  <2>4. /\ DOMAIN next = GeminiFields /\ next.pending = pending /\ next.revision = s.revision
        /\ next.responseId = s.responseId /\ next.identityCommitted = s.identityCommitted
    BY DEF Keeps, GeminiFields
  <2> HIDE DEF next
  <2>5. Keeps(next) /\ Dated(next)
    BY <2>1, <2>3, <2>4 DEF Keeps, Dated, Named
  <2>6. Held(w, next)
    BY <2>3, <2>4, <2>5 DEF Held
  <2> QED  BY <1>2, <2>1, <2>2, <2>6
<1> QED  BY <1>1, <1>2

(* What a payload adds to a pending one stays in it.                       *)
LEMMA MergeIsSomething ==
  ASSUME NEW a, NEW b, Something(b), NEW S, a.parts \in Seq(S), b.parts \in Seq(S),
         a.finish = None, b.finish = None
  PROVE  Merge(a, b) # NoPayload /\ Merge(a, b).finish = None
<1>1. PICK parts : parts = a.parts \o b.parts
  OBVIOUS
<1>2. b.parts # << >> => parts # << >>
  <2>1. PICK p, q : p = a.parts /\ q = b.parts
    OBVIOUS
  <2>2. p \in Seq(S) /\ q \in Seq(S) /\ parts = p \o q
    BY <1>1, <2>1
  <2>3. Len(p) \in Nat /\ Len(q) \in Nat /\ Len(parts) = Len(p) + Len(q)
    BY <2>2, ConcatProperties, LenProperties
  <2>4. Len(q) = 0 => q = << >>
    BY <2>2, EmptySeq
  <2>5. Len(<< >>) = 0
    OBVIOUS
  <2>6. parts = << >> => Len(parts) = 0
    BY <2>5
  <2>7. parts = << >> => q = << >>
    <3>1. PICK m, n : m = Len(p) /\ n = Len(q)
      OBVIOUS
    <3>2. m \in Nat /\ n \in Nat /\ (parts = << >> => m + n = 0)
      BY <2>3, <2>6, <3>1
    <3>3. parts = << >> => n = 0
      BY <3>2
    <3> QED  BY <2>4, <3>1, <3>3
  <2> QED  BY <2>1, <2>7
<1>3. PICK m : m = Merge(a, b)
  OBVIOUS
<1>4. /\ m.parts = parts /\ (b.grounding = TRUE => m.grounding = TRUE)
      /\ (b.feedback = TRUE => m.feedback = TRUE) /\ m.finish = None
  BY <1>1, <1>3 DEF Merge
<1>5. Something(m)
  BY <1>2, <1>4 DEF Something
<1> QED  BY <1>3, <1>4, <1>5, NothingWeighsNothing

(* Content is held, and what was held before it is written if it can stand *)
(* by itself.                                                              *)
LEMMA HoldKeeps ==
  ASSUME NEW w, NEW s, Keeps(s), Chunks(w, s.responseId),
         w # << >> => s.identityCommitted = TRUE,
         NEW payload, Something(payload), payload # NoPayload, payload.finish = None,
         NEW S, s.pending.payload.parts \in Seq(S), payload.parts \in Seq(S)
  PROVE  LET o == Hold(s, payload, CurrentMetadata(s.revision)) IN
         /\ Held(w \o o.events, o.state)
         /\ o.events = << >> \/ \E e : o.events = << e >>
<1>1. PICK usage : usage = CurrentMetadata(s.revision)
  OBVIOUS
<1> DEFINE splits  == s.pending.substantive /\ Substantive(payload)
           emitted == IF splits THEN EmitPending(s) ELSE [state |-> s, events |-> << >>]
           joined  == IF splits THEN payload ELSE Merge(s.pending.payload, payload)
<1>2. PICK o, q, pending : /\ o = Hold(s, payload, usage) /\ q = emitted
                           /\ pending = Pending(joined, usage)
  OBVIOUS
<1>3. o = [q EXCEPT !.state.pending = pending]
  BY <1>2 DEF Hold
<1>4. /\ DOMAIN pending = {"payload", "usage", "substantive"}
      /\ pending.payload # NoPayload /\ pending.payload.finish = None /\ pending.usage = usage
      /\ pending.substantive <=> Substantive(pending.payload)
  <2>1. joined # NoPayload /\ joined.finish = None
    <3>1. CASE splits
      BY <3>1
    <3>2. CASE ~splits
      BY <3>2, MergeIsSomething DEF Keeps
    <3> QED  BY <3>1, <3>2
  <2> HIDE DEF joined
  <2> QED  BY <1>2, <2>1 DEF Pending
<1>5. /\ q = [state |-> q.state, events |-> q.events]
      /\ DOMAIN q.state = GeminiFields /\ q.state.revision = s.revision /\ Named(q.state)
      /\ Chunks(w \o q.events, q.state.responseId)
      /\ w \o q.events # << >> => q.state.identityCommitted = TRUE
      /\ q.events = << >> \/ \E e : q.events = << e >>
  <2>0. PICK T : w \in Seq(T)
    BY ChunksSeq
  <2>1. CASE splits
    <3>1. q = EmitPending(s)
      BY <1>2, <2>1
    <3>2. s.pending.payload # NoPayload /\ Substantive(s.pending.payload)
      BY <2>1, NothingWeighsNothing DEF Keeps
    <3>3. PICK e : /\ OneChunk(s, q, e) /\ e.payload = s.pending.payload
                   /\ q = [state |-> q.state, events |-> q.events]
      BY <3>1, <3>2, EmitPendingChunk DEF Keeps
    <3>4. PICK id : id = q.state.responseId
      OBVIOUS
    <3>5. /\ DOMAIN q.state = GeminiFields /\ q.state.revision = s.revision
          /\ q.events = << e >> /\ IsChunk(e, id) /\ q.state.identityCommitted = TRUE
          /\ s.identityCommitted = TRUE => id = s.responseId
      BY <3>3, <3>4 DEF OneChunk
    <3>6. WholeChunk(e, id)
      BY <3>2, <3>3, <3>5 DEF WholeChunk, Keeps
    <3>7. Chunks(w, id)
      <4>1. CASE w = << >>
        BY <4>1, ChunksNone
      <4>2. CASE w # << >>
        BY <3>5, <4>2
      <4> QED  BY <4>1, <4>2
    <3>8. Chunks(Append(w, e), id)
      BY <3>6, <3>7, ChunksMore
    <3>9. w \o << e >> = Append(w, e)
      BY <2>0, MoreEvents
    <3>10. Named(q.state)
      BY <3>4, <3>5 DEF Named, IsChunk
    <3> QED  BY <3>3, <3>4, <3>5, <3>8, <3>9, <3>10
  <2>2. CASE ~splits
    <3>1. q = [state |-> s, events |-> << >>]
      BY <1>2, <2>2
    <3>2. w \o << >> = w
      BY <2>0, MoreEvents
    <3>3. q.state = s /\ q.events = << >>
      BY <3>1
    <3> HIDE DEF splits, emitted, joined
    <3> QED  BY <3>1, <3>2, <3>3 DEF Keeps
  <2> QED  BY <2>1, <2>2
<1> HIDE DEF splits, emitted, joined
<1> DEFINE next == [q.state EXCEPT !.pending = pending]
<1>6. o = [state |-> next, events |-> q.events]
  BY <1>3, <1>5
<1>7. /\ DOMAIN next = GeminiFields /\ next.pending = pending /\ next.revision = s.revision
      /\ next.responseId = q.state.responseId
      /\ next.identityCommitted = q.state.identityCommitted
  BY <1>5 DEF GeminiFields
<1> HIDE DEF next
<1>8. Keeps(next) /\ Dated(next)
  BY <1>1, <1>4, <1>5, <1>7 DEF Keeps, Dated, Named
<1>9. Held(w \o q.events, next)
  BY <1>4, <1>5, <1>7, <1>8 DEF Held
<1>10. o.state = next /\ o.events = q.events
  BY <1>6
<1> QED  BY <1>1, <1>2, <1>5, <1>9, <1>10

(* A result without a finish reason.                                       *)
LEMMA ResultHeld ==
  ASSUME NEW w, NEW s, Held(w, s), s.pending.payload.parts \in Seq(Part),
         NEW r, r.parts \in Seq(Part), r.grounding \in BOOLEAN, r.finish = None
  PROVE  /\ Held(w \o GeminiResult(s, r).events, GeminiResult(s, r).state)
         /\ GeminiResult(s, r).events = << >> \/ \E e : GeminiResult(s, r).events = << e >>
<1>1. PICK o, a, payload : /\ o = GeminiResult(s, r) /\ a = Absorb(s, r)
                           /\ payload = Payload(r, s.includeThoughts)
  OBVIOUS
<1>2. /\ Keeps(a) /\ Chunks(w, a.responseId) /\ a.pending = s.pending
      /\ w # << >> => a.identityCommitted = TRUE /\ a.pending.payload # NoPayload
  <2>1. w # << >> => s.identityCommitted = TRUE /\ s.pending.payload # NoPayload
    BY DEF Held
  <2> QED  BY <1>1, <2>1, AbsorbKeeps
<1>3. payload.finish = None /\ payload.parts \in Seq(Part) /\ (payload # NoPayload => Something(payload))
  <2>1. CASE r.feedback
    <3>1. payload = [parts |-> << >>, grounding |-> FALSE, feedback |-> TRUE, finish |-> None]
      BY <1>1, <2>1 DEF Payload, NoPayload
    <3> QED  BY <3>1, EmptySeq DEF Something
  <2>2. CASE ~r.feedback
    <3>1. PICK parts : parts = OfKind(r.parts, Kept(s.includeThoughts))
      OBVIOUS
    <3>2. payload = [parts |-> parts, grounding |-> r.grounding, feedback |-> FALSE,
                     finish |-> None]
      BY <1>1, <2>2, <3>1 DEF Payload
    <3>3. parts \in Seq(Part)
      BY <3>1, KindsType
    <3>4. parts = << >> /\ r.grounding = FALSE => payload = NoPayload
      BY <3>2 DEF NoPayload
    <3> QED  BY <3>2, <3>3, <3>4 DEF Something
  <2> QED  BY <2>1, <2>2
<1>4. CASE payload = NoPayload
  <2>1. PICK next : next = IF a.pending.payload = NoPayload THEN a
                           ELSE [a EXCEPT !.pending.usage = CurrentMetadata(a.revision)]
    OBVIOUS
  <2>2. Held(w, next)
    BY <1>2, <2>1, SilentKeeps
  <2>3. o = [state |-> next, events |-> << >>]
    BY <1>1, <1>4, <2>1 DEF GeminiResult
  <2>4. w \o << >> = w
    BY <1>2, ChunksSeq, ConcatEmptySeq
  <2>5. o.state = next /\ o.events = << >>
    BY <2>3
  <2> QED  BY <1>1, <2>2, <2>4, <2>5
<1>5. CASE payload # NoPayload
  <2>1. o = Hold(a, payload, CurrentMetadata(a.revision))
    BY <1>1, <1>3, <1>5 DEF GeminiResult
  <2>2. a.pending.payload.parts \in Seq(Part)
    BY <1>2
  <2>3. /\ Held(w \o o.events, o.state)
        /\ o.events = << >> \/ \E e : o.events = << e >>
    BY <1>2, <1>3, <1>5, <2>1, <2>2, HoldKeeps
  <2> QED  BY <1>1, <2>3
<1> QED  BY <1>4, <1>5

(* The finish reason.                                                      *)
LEMMA FinishHeld ==
  ASSUME NEW w, NEW s, Held(w, s), NEW reason, reason # None,
         NEW r, r = FinishResult(reason)
  PROVE  /\ Finished(w \o GeminiResult(s, r).events, GeminiResult(s, r).state)
         /\ \/ \E e : GeminiResult(s, r).events = << e >>
            \/ \E p, e, id : GeminiResult(s, r).events = << p, e >> /\ Chunks(Append(w, p), id)
<1>1. PICK o, a, payload, usage : /\ o = GeminiResult(s, r) /\ a = Absorb(s, r)
                                  /\ payload = Payload(r, s.includeThoughts)
                                  /\ usage = CurrentMetadata(a.revision)
  OBVIOUS
<1>2. Keeps(a) /\ Chunks(w, a.responseId) /\ (w # << >> => a.identityCommitted = TRUE)
  <2>1. w # << >> => s.identityCommitted = TRUE
    BY DEF Held
  <2> QED  BY <1>1, <2>1, AbsorbKeeps
<1>3. payload.finish = reason /\ payload # NoPayload
  <2>1. r.feedback = FALSE /\ r.finish = reason
    BY DEF FinishResult, EmptyResult
  <2>2. payload.finish = reason
    BY <1>1, <2>1 DEF Payload
  <2>3. NoPayload.finish = None
    BY DEF NoPayload
  <2> QED  BY <2>2, <2>3
<1>4. o = Finish(a, reason, usage)
  BY <1>1, <1>3 DEF GeminiResult
<1>5. PICK last : last = [NoPayload EXCEPT !.finish = reason]
  OBVIOUS
<1>6. last.finish = reason /\ last # NoPayload
  BY <1>5 DEF NoPayload
<1>7. PICK T : w \in Seq(T)
  BY <1>2, ChunksSeq
<1>8. ASSUME NEW id, a.identityCommitted = TRUE => id = a.responseId
      PROVE  Chunks(w, id)
  <2>1. CASE w = << >>
    BY <2>1, ChunksNone
  <2>2. CASE w # << >>
    BY <1>2, <1>8, <2>2
  <2> QED  BY <2>1, <2>2
<1>9. CASE a.pending.substantive
  <2>1. PICK q : q = EmitPending(a)
    OBVIOUS
  <2>2. a.pending.payload # NoPayload /\ Substantive(a.pending.payload)
    BY <1>2, <1>9, NothingWeighsNothing DEF Keeps
  <2>3. PICK p : /\ OneChunk(a, q, p) /\ p.payload = a.pending.payload
                 /\ q.state.pending = NoPending
    BY <1>2, <2>1, <2>2, EmitPendingChunk DEF Keeps
  <2>4. /\ DOMAIN q.state = GeminiFields /\ Named(q.state)
        /\ q.state.identityCommitted = TRUE /\ q.events = << p >>
    BY <2>3 DEF OneChunk, Named, IsChunk
  <2>5. PICK f : f = Emit(q.state, last, usage)
    OBVIOUS
  <2>6. PICK e : OneChunk(q.state, f, e) /\ e.usage = usage /\ f.state.pending = q.state.pending
    BY <1>6, <2>4, <2>5, EmitChunk
  <2>7. o = [state |-> f.state, events |-> << p >> \o << e >>]
    BY <1>4, <1>5, <1>9, <2>1, <2>4, <2>5, <2>6 DEF Finish, OneChunk
  <2>8. o.state = f.state /\ o.events = << p, e >>
    BY <2>7, OneAndMore
  <2>9. PICK id : id = f.state.responseId
    OBVIOUS
  <2>10. /\ IsChunk(p, id) /\ IsChunk(e, id) /\ (a.identityCommitted = TRUE => id = a.responseId)
         /\ f.state.revision = a.revision
    BY <2>3, <2>4, <2>6, <2>9 DEF OneChunk
  <2>11. WholeChunk(p, id)
    BY <1>2, <2>2, <2>3, <2>10 DEF WholeChunk, Keeps
  <2>12. Chunks(Append(w, p), id)
    BY <1>8, <2>10, <2>11, ChunksMore
  <2>13. w \o o.events = Append(Append(w, p), e)
    BY <1>7, <2>8, MoreEvents
  <2>14. o.state.pending.payload = NoPayload
    BY <2>3, <2>6, <2>8 DEF NoPending
  <2>15. Finished(w \o o.events, o.state)
    BY <1>1, <2>6, <2>8, <2>9, <2>10, <2>12, <2>13, <2>14 DEF Finished
  <2> QED  BY <1>1, <2>8, <2>12, <2>15
<1>10. CASE ~a.pending.substantive
  <2> DEFINE next == [a EXCEPT !.pending = NoPending]
  <2>1. PICK m, f : m = Merge(last, a.pending.payload) /\ f = Emit(next, m, usage)
    OBVIOUS
  <2>2. m.finish = reason /\ m # NoPayload
    <3>1. m.finish = reason
      BY <1>2, <1>6, <2>1 DEF Merge, Keeps
    <3>2. NoPayload.finish = None
      BY DEF NoPayload
    <3> QED  BY <3>1, <3>2
  <2>3. o = [state |-> f.state, events |-> << >> \o f.events]
    BY <1>4, <1>5, <1>10, <2>1 DEF Finish
  <2>4. /\ DOMAIN next = GeminiFields /\ next.revision = a.revision
        /\ next.responseId = a.responseId /\ next.identityCommitted = a.identityCommitted
        /\ next.pending = NoPending
    BY <1>2 DEF Keeps, GeminiFields
  <2> HIDE DEF next
  <2>5. Named(next)
    BY <1>2, <2>4 DEF Named, Keeps
  <2>6. PICK e : OneChunk(next, f, e) /\ e.usage = usage /\ f.state.pending = NoPending
    BY <2>1, <2>2, <2>4, <2>5, EmitChunk
  <2>7. PICK id : id = f.state.responseId
    OBVIOUS
  <2>8. /\ f.events = << e >> /\ IsChunk(e, id) /\ (a.identityCommitted = TRUE => id = a.responseId)
        /\ f.state.revision = a.revision
    BY <2>4, <2>6, <2>7 DEF OneChunk
  <2>9. o.state = f.state /\ o.events = << e >>
    BY <2>3, <2>8
  <2>10. w \o o.events = Append(w, e)
    BY <1>7, <2>9, MoreEvents
  <2>11. Chunks(w, id)
    BY <1>8, <2>8
  <2>12. o.state.pending.payload = NoPayload
    BY <2>6, <2>9 DEF NoPending
  <2>13. Finished(w \o o.events, o.state)
    BY <1>1, <2>6, <2>7, <2>8, <2>9, <2>10, <2>11, <2>12 DEF Finished
  <2> QED  BY <1>1, <2>9, <2>13
<1> QED  BY <1>9, <1>10

(* Few events are written, or the first of them and the stream is over.    *)
LEMMA WriteNone ==
  ASSUME \E S : wire \in Seq(S), NEW events, events = << >>, NEW next, Write(events, next)
  PROVE  wire' = wire /\ pc' = next
<1>1. Len(events) = 0 /\ ~(\E k \in 0 .. Len(events) - 1 : TRUE)
  BY SMT
<1>2. wire' = wire \o events /\ pc' = next
  BY <1>1 DEF Write
<1>3. PICK w : w = wire
  OBVIOUS
<1>4. w \o events = w
  BY <1>3, ConcatEmptySeq
<1> QED  BY <1>2, <1>3, <1>4

LEMMA WriteOne ==
  ASSUME \E S : wire \in Seq(S), NEW e, NEW events, events = << e >>, NEW next, Write(events, next)
  PROVE  \/ wire' = Append(wire, e) /\ pc' = next
         \/ wire' = wire /\ pc' = "done" /\ gone' = TRUE
<1>1. PICK w, S : w = wire /\ w \in Seq(S)
  BY Zenon
<1>2. Len(events) = 1 /\ \A k \in 0 .. Len(events) - 1 : k = 0
  OBVIOUS
<1>3. w \o events = Append(w, e) /\ w \o << >> = w /\ SubSeq(events, 1, 0) = << >>
  BY <1>1, MoreEvents, SubSeqEmpty
<1>4. CASE wire' = wire \o events /\ pc' = next
  BY <1>1, <1>3, <1>4
<1>5. CASE \E k \in 0 .. Len(events) - 1 :
             wire' = wire \o SubSeq(events, 1, k) /\ pc' = "done" /\ gone' = TRUE
  <2>1. wire' = wire \o SubSeq(events, 1, 0) /\ pc' = "done" /\ gone' = TRUE
    BY <1>2, <1>5
  <2> QED  BY <1>1, <1>3, <2>1
<1> QED  BY <1>4, <1>5 DEF Write

LEMMA WriteTwo ==
  ASSUME \E S : wire \in Seq(S), NEW d, NEW e, NEW events, events = << d, e >>,
         NEW next, Write(events, next)
  PROVE  \/ wire' = Append(Append(wire, d), e) /\ pc' = next
         \/ wire' \in {wire, Append(wire, d)} /\ pc' = "done" /\ gone' = TRUE
<1>1. PICK w, S : w = wire /\ w \in Seq(S)
  BY Zenon
<1>2. Len(events) = 2 /\ \A k \in 0 .. Len(events) - 1 : k = 0 \/ k = 1
  OBVIOUS
<1>3. /\ w \o events = Append(Append(w, d), e) /\ w \o << >> = w /\ w \o << d >> = Append(w, d)
      /\ SubSeq(events, 1, 0) = << >> /\ SubSeq(events, 1, 1) = << d >>
  BY <1>1, MoreEvents, BeginningsOfTwo
<1>4. CASE wire' = wire \o events /\ pc' = next
  BY <1>1, <1>3, <1>4
<1>5. CASE \E k \in 0 .. Len(events) - 1 :
             wire' = wire \o SubSeq(events, 1, k) /\ pc' = "done" /\ gone' = TRUE
  <2>1. \/ wire' = wire \o SubSeq(events, 1, 0) /\ pc' = "done" /\ gone' = TRUE
        \/ wire' = wire \o SubSeq(events, 1, 1) /\ pc' = "done" /\ gone' = TRUE
    BY <1>2, <1>5
  <2> QED  BY <1>1, <1>3, <2>1
<1> QED  BY <1>4, <1>5 DEF Write

(***************************************************************************)
(* A Gemini stream all along.                                              *)
(***************************************************************************)
GeminiDone ==
  \E id, w :
    /\ wire = w \/ \E e : e.type \in {"error", "http_error"} /\ wire = Append(w, e)
    /\ \/ Chunks(w, id) /\ (Concluded => w = << >>)
       \/ \E v, e : /\ w = Append(v, e) /\ Chunks(v, id) /\ IsChunk(e, id)
                    /\ Concluded => e.usage = RightUsage

GeminiInv ==
  protocol.name = "gemini" =>
    /\ pc \in {"open", "stream"} => Held(wire, handler)
    /\ pc = "flushed" => Held(wire, handler) \/ Finished(wire, handler)
    /\ pc = "done" => GeminiDone

LEMMA WireSeq == ASSUME NEW s, Held(wire, s) \/ Finished(wire, s) PROVE \E S : wire \in Seq(S)
<1>1. CASE Held(wire, s)
  BY <1>1, ChunksSeq DEF Held
<1>2. CASE Finished(wire, s)
  <2>1. PICK v, e : wire = Append(v, e) /\ Chunks(v, s.responseId)
    BY <1>2 DEF Finished
  <2>2. PICK S : v \in Seq(S)
    BY <2>1, ChunksSeq
  <2>3. PICK T : T = S \cup {e}
    OBVIOUS
  <2>4. v \in Seq(T) /\ e \in T
    BY <2>2, <2>3, SeqMonotonic
  <2> QED  BY <2>1, <2>4, AppendProperties
<1> QED  BY <1>1, <1>2

(* A client that is gone has chunks.                                       *)
LEMMA BrokenChunks ==
  ASSUME pc' = "done", NEW id, Chunks(wire', id), gone' \/ canceled'
  PROVE  GeminiDone'
<1>1. ~Concluded'
  BY DEF Concluded
<1>2. PICK w : w = wire'
  OBVIOUS
<1> QED  BY <1>1, <1>2 DEF GeminiDone

(* The start.                                                              *)
LEMMA InitGemini == Init => GeminiInv
<1> SUFFICES ASSUME Init, protocol.name = "gemini" PROVE GeminiInv
  BY DEF GeminiInv
<1>1. PICK s : s = handler
  OBVIOUS
<1>2. s = GeminiState(protocol.option) /\ wire = << >> /\ pc = "open"
  BY <1>1 DEF Init, InitialHandler
<1>3. DOMAIN s = GeminiFields /\ s.identityCommitted = FALSE /\ s.pending = NoPending
  BY <1>2 DEF GeminiState, GeminiFields
<1>4. /\ DOMAIN s.pending = {"payload", "usage", "substantive"} /\ s.pending.payload = NoPayload
      /\ s.pending.substantive = FALSE
  BY <1>3 DEF NoPending
<1>5. Keeps(s) /\ Dated(s)
  <2>1. s.pending.payload.finish = None
    BY <1>4 DEF NoPayload
  <2>2. s.pending.substantive <=> Substantive(s.pending.payload)
    BY <1>4, NothingWeighsNothing
  <2> QED  BY <1>3, <1>4, <2>1, <2>2 DEF Keeps, Dated, Named
<1>6. Held(wire, s)
  BY <1>2, <1>5, ChunksNone DEF Held
<1> QED  BY <1>1, <1>2, <1>6 DEF GeminiInv

(* A result arrives.                                                       *)
LEMMA ArrivalKeepsChunks ==
  ASSUME RevisionInv, ContentInv, GeminiInv, protocol.name = "gemini", ResultArrives
  PROVE  GeminiInv'
<1> DEFINE N == Len(sent)
<1>1. pc = "stream" /\ protocol' = protocol /\ canceled' = canceled
  BY DEF ResultArrives
<1>2. N \in Nat /\ protocol \in Protocols
  BY LenProperties DEF RevisionInv
<1>3. PICK shape \in Arrivals(protocol.name) :
        LET rest == DetachFinish(Numbered(shape, N + 1)) IN
        IF IsEmpty(rest) THEN UNCHANGED <<pc, handler, wire, gone>> ELSE Deliver(rest, "stream")
  BY DEF ResultArrives
<1>4. PICK result, r : result = Numbered(shape, N + 1) /\ r = DetachFinish(result)
  OBVIOUS
<1>5. IF IsEmpty(r) THEN UNCHANGED <<pc, handler, wire, gone>> ELSE Deliver(r, "stream")
  BY <1>3, <1>4
<1>6. result \in ResultSet
  <2>1. shape \in Shapes
    BY <1>2, ArrivalAssumption DEF Protocols
  <2> QED  BY <1>2, <1>4, <2>1, NumberedIsResult DEF IsResult
<1>7. r.parts \in Seq(Part) /\ r.grounding \in BOOLEAN /\ r.finish = None
  <2>1. r.parts = result.parts /\ r.grounding = result.grounding /\ r.finish = None
    BY <1>4, <1>6 DEF DetachFinish, ResultSet
  <2> QED  BY <1>6, <2>1 DEF ResultSet
<1>8. Held(wire, handler)
  BY <1>1 DEF GeminiInv
<1>9. CASE IsEmpty(r)
  <2>1. UNCHANGED <<pc, handler, wire>>
    BY <1>5, <1>9
  <2> QED  BY <1>1, <1>8, <2>1 DEF GeminiInv
<1>10. CASE ~IsEmpty(r) /\ canceled
  <2>1. pc' = "done" /\ wire' = wire
    BY <1>5, <1>10 DEF Deliver
  <2>2. Chunks(wire', handler.responseId)
    BY <1>8, <2>1 DEF Held
  <2> QED  BY <1>1, <1>10, <2>1, <2>2, BrokenChunks DEF GeminiInv
<1>11. CASE ~IsEmpty(r) /\ ~canceled
  <2>1. PICK s, w, o : s = handler /\ w = wire /\ o = GeminiResult(s, r)
    OBVIOUS
  <2>2. handler' = o.state /\ Write(o.events, "stream")
    BY <1>5, <1>11, <2>1 DEF Deliver, OnResult
  <2>3. s.pending.payload.parts \in Seq(Part)
    <3>1. PICK K : s.pending.payload.parts \in Seq(PartOf(K))
      BY <1>1, <2>1 DEF ContentInv, Balance, Holding
    <3> QED  BY <3>1, PartOfIsPart
  <2>4. Held(w \o o.events, o.state) /\ (o.events = << >> \/ \E e : o.events = << e >>)
    BY <1>7, <1>8, <2>1, <2>3, ResultHeld
  <2>5. PICK S : w \in Seq(S)
    BY <1>8, <2>1, ChunksSeq DEF Held
  <2>6. CASE o.events = << >>
    <3>1. wire' = wire /\ pc' = "stream"
      BY <2>1, <2>2, <2>5, <2>6, WriteNone
    <3>2. w \o o.events = w
      BY <2>5, <2>6, ConcatEmptySeq
    <3> QED  BY <2>1, <2>2, <2>4, <3>1, <3>2 DEF GeminiInv
  <2>7. ASSUME NEW e, o.events = << e >> PROVE GeminiInv'
    <3>1. \/ wire' = Append(wire, e) /\ pc' = "stream"
          \/ wire' = wire /\ pc' = "done" /\ gone' = TRUE
      BY <2>1, <2>2, <2>5, <2>7, WriteOne
    <3>2. w \o o.events = Append(w, e)
      BY <2>5, <2>7, MoreEvents
    <3>3. CASE wire' = Append(wire, e) /\ pc' = "stream"
      BY <2>1, <2>2, <2>4, <3>2, <3>3 DEF GeminiInv
    <3>4. CASE wire' = wire /\ pc' = "done" /\ gone' = TRUE
      <4>1. Chunks(wire', handler.responseId)
        BY <1>8, <3>4 DEF Held
      <4> QED  BY <3>4, <4>1, BrokenChunks DEF GeminiInv
    <3> QED  BY <3>1, <3>3, <3>4
  <2> QED  BY <2>4, <2>6, <2>7
<1> QED  BY <1>9, <1>10, <1>11

(* The finish reason comes by itself.                                      *)
LEMMA FlushKeepsChunks ==
  ASSUME RevisionInv, GeminiInv, protocol.name = "gemini", UpstreamEnds
  PROVE  GeminiInv'
<1>1. pc = "stream" /\ protocol' = protocol /\ canceled' = canceled
  BY DEF UpstreamEnds
<1>2. Held(wire, handler)
  BY <1>1 DEF GeminiInv
<1>3. CASE pendingFinish = None
  <2>1. pc' = "flushed" /\ UNCHANGED <<handler, wire>>
    BY <1>3 DEF UpstreamEnds
  <2> QED  BY <1>2, <2>1 DEF GeminiInv
<1>4. CASE pendingFinish # None
  <2>1. PICK s, w, r, o : /\ s = handler /\ w = wire /\ r = FinishResult(pendingFinish)
                          /\ o = GeminiResult(s, r)
    OBVIOUS
  <2>2. Deliver(r, "flushed")
    BY <1>4, <2>1 DEF UpstreamEnds
  <2>3. /\ Finished(w \o o.events, o.state)
        /\ \/ \E e : o.events = << e >>
           \/ \E p, e, id : o.events = << p, e >> /\ Chunks(Append(w, p), id)
    BY <1>2, <1>4, <2>1, FinishHeld
  <2>4. PICK S : w \in Seq(S)
    BY <1>2, <2>1, ChunksSeq DEF Held
  <2>5. Chunks(w, s.responseId)
    BY <1>2, <2>1 DEF Held
  <2>6. CASE canceled
    <3>1. pc' = "done" /\ wire' = wire
      BY <2>2, <2>6 DEF Deliver
    <3> QED  BY <1>1, <2>1, <2>5, <2>6, <3>1, BrokenChunks DEF GeminiInv
  <2>7. CASE ~canceled
    <3>1. handler' = o.state /\ Write(o.events, "flushed")
      BY <2>1, <2>2, <2>7 DEF Deliver, OnResult
    <3>2. ASSUME NEW e, o.events = << e >> PROVE GeminiInv'
      <4>1. \/ wire' = Append(wire, e) /\ pc' = "flushed"
            \/ wire' = wire /\ pc' = "done" /\ gone' = TRUE
        BY <2>1, <2>4, <3>1, <3>2, WriteOne
      <4>2. w \o o.events = Append(w, e)
        BY <2>4, <3>2, MoreEvents
      <4>3. CASE wire' = Append(wire, e) /\ pc' = "flushed"
        BY <2>1, <2>3, <3>1, <4>2, <4>3 DEF GeminiInv
      <4>4. CASE wire' = wire /\ pc' = "done" /\ gone' = TRUE
        BY <2>1, <2>5, <4>4, BrokenChunks DEF GeminiInv
      <4> QED  BY <4>1, <4>3, <4>4
    <3>3. ASSUME NEW p, NEW e, NEW id, o.events = << p, e >>, Chunks(Append(w, p), id)
          PROVE  GeminiInv'
      <4>1. \/ wire' = Append(Append(wire, p), e) /\ pc' = "flushed"
            \/ wire' \in {wire, Append(wire, p)} /\ pc' = "done" /\ gone' = TRUE
        BY <2>1, <2>4, <3>1, <3>3, WriteTwo
      <4>2. w \o o.events = Append(Append(w, p), e)
        BY <2>4, <3>3, MoreEvents
      <4>3. CASE wire' = Append(Append(wire, p), e) /\ pc' = "flushed"
        BY <2>1, <2>3, <3>1, <4>2, <4>3 DEF GeminiInv
      <4>4. CASE wire' = wire /\ pc' = "done" /\ gone' = TRUE
        BY <2>1, <2>5, <4>4, BrokenChunks DEF GeminiInv
      <4>5. CASE wire' = Append(wire, p) /\ pc' = "done" /\ gone' = TRUE
        BY <2>1, <3>3, <4>5, BrokenChunks DEF GeminiInv
      <4> QED  BY <4>1, <4>3, <4>4, <4>5
    <3> QED  BY <2>3, <3>2, <3>3
  <2> QED  BY <2>6, <2>7
<1> QED  BY <1>3, <1>4

(* What an ending handler still has to write.                              *)
LEMMA NothingPending ==
  ASSUME NEW s, s.pending.payload = NoPayload PROVE EmitPending(s).events = << >>
<1>1. PICK q : q = Emit(s, s.pending.payload, s.pending.usage)
  OBVIOUS
<1>2. PICK o : o = EmitPending(s)
  OBVIOUS
<1>3. q = [state |-> s, events |-> << >>]
  BY <1>1 DEF Emit
<1>4. o = [q EXCEPT !.state.pending = NoPending]
  BY <1>1, <1>2 DEF EmitPending
<1>5. o.events = << >>
  BY <1>3, <1>4
<1> QED  BY <1>2, <1>5

LEMMA PendingWritten ==
  ASSUME NEW w, NEW s, Held(w, s)
  PROVE  \/ EmitPending(s).events = << >> /\ w = << >>
         \/ \E id, e : /\ EmitPending(s).events = << e >> /\ Chunks(w, id) /\ IsChunk(e, id)
                       /\ e.usage = CurrentMetadata(s.revision)
<1>1. CASE s.pending.payload = NoPayload
  BY <1>1, NothingPending DEF Held
<1>2. CASE s.pending.payload # NoPayload
  <2>1. PICK o : o = EmitPending(s)
    OBVIOUS
  <2>2. PICK e : OneChunk(s, o, e) /\ e.usage = s.pending.usage
    BY <1>2, <2>1, EmitPendingChunk DEF Held, Keeps
  <2>3. PICK id : id = o.state.responseId
    OBVIOUS
  <2>4. o.events = << e >> /\ IsChunk(e, id) /\ (s.identityCommitted = TRUE => id = s.responseId)
    BY <2>2, <2>3 DEF OneChunk
  <2>5. Chunks(w, id)
    BY <2>4, HeldId
  <2>6. e.usage = CurrentMetadata(s.revision)
    BY <1>2, <2>2 DEF Held, Dated
  <2> QED  BY <2>1, <2>4, <2>5, <2>6
<1> QED  BY <1>1, <1>2

(* The handler writes what it holds back, and is done.                     *)
LEMMA HandlerEndKeepsChunks ==
  ASSUME RevisionInv, GeminiInv, protocol.name = "gemini", HandlerEnds
  PROVE  GeminiInv'
<1>1. /\ pc = "flushed" /\ protocol' = protocol /\ RightUsage' = RightUsage
      /\ Held(wire, handler) \/ Finished(wire, handler)
  BY DEF HandlerEnds, GeminiInv, RightUsage
<1>2. CurrentMetadata(handler.revision) = RightUsage
  BY <1>1, MeasuredIsRight DEF RevisionInv
<1>3. PICK s, w, events : s = handler /\ w = wire /\ events = EmitPending(s).events
  OBVIOUS
<1>4. Write(events, "done")
  BY <1>3 DEF HandlerEnds, EndEvents, GeminiEnd
<1>5. PICK S : w \in Seq(S)
  BY <1>1, <1>3, WireSeq
<1>6. SUFFICES pc' = "done" /\ GeminiDone'
  BY DEF GeminiInv
<1>7. CASE Finished(w, s)
  <2>1. wire' = w /\ pc' = "done"
    BY <1>3, <1>4, <1>5, <1>7, NothingPending, WriteNone DEF Finished
  <2>2. PICK v, e : /\ w = Append(v, e) /\ Chunks(v, s.responseId) /\ IsChunk(e, s.responseId)
                    /\ e.usage = CurrentMetadata(s.revision)
    BY <1>7 DEF Finished
  <2>3. e.usage = RightUsage'
    BY <1>1, <1>2, <1>3, <2>2
  <2> QED  BY <2>1, <2>2, <2>3 DEF GeminiDone
<1>8. CASE Held(w, s) /\ events = << >> /\ w = << >>
  <2>1. wire' = w /\ pc' = "done"
    BY <1>3, <1>4, <1>5, <1>8, WriteNone
  <2> QED  BY <1>8, <2>1, ChunksNone DEF GeminiDone
<1>9. ASSUME NEW id, NEW e, events = << e >>, Chunks(w, id), IsChunk(e, id),
             e.usage = CurrentMetadata(s.revision)
      PROVE  pc' = "done" /\ GeminiDone'
  <2>1. \/ wire' = Append(w, e) /\ pc' = "done"
        \/ wire' = w /\ pc' = "done" /\ gone' = TRUE
    BY <1>3, <1>4, <1>5, <1>9, WriteOne
  <2>2. CASE wire' = Append(w, e) /\ pc' = "done"
    <3>1. e.usage = RightUsage'
      BY <1>1, <1>2, <1>3, <1>9
    <3> QED  BY <1>9, <2>2, <3>1 DEF GeminiDone
  <2>3. CASE wire' = w /\ pc' = "done" /\ gone' = TRUE
    BY <1>9, <2>3, BrokenChunks
  <2> QED  BY <2>1, <2>2, <2>3
<1> QED  BY <1>1, <1>3, <1>7, <1>8, <1>9, PendingWritten

(* An error comes after what the handler holds back.                       *)
LEMMA FailureKeepsChunks ==
  ASSUME RevisionInv, GeminiInv, protocol.name = "gemini", StreamFails
  PROVE  GeminiInv'
<1>1. /\ pc = "stream" /\ protocol' = protocol /\ RightUsage' = RightUsage /\ canceled' = canceled
      /\ Held(wire, handler)
  BY DEF StreamFails, NoAssistantOutput, GeminiInv, RightUsage
<1>2. CurrentMetadata(handler.revision) = RightUsage
  BY <1>1, MeasuredIsRight DEF RevisionInv
<1>3. PICK s, w, events, last :
        /\ s = handler /\ w = wire /\ events = EmitPending(s).events
        /\ last = [type |-> IF EmitPending(s).state.identityCommitted
                              THEN "error" ELSE "http_error"]
  OBVIOUS
<1>4. last.type \in {"error", "http_error"}
  BY <1>3
<1>5. PICK S : w \in Seq(S)
  BY <1>1, <1>3, WireSeq
<1>6. SUFFICES pc' = "done" /\ GeminiDone'
  BY DEF GeminiInv
<1>7. CASE canceled
  <2>1. pc' = "done" /\ wire' = w
    BY <1>3, <1>7 DEF StreamFails
  <2>2. Chunks(wire', s.responseId)
    BY <1>1, <1>3, <2>1 DEF Held
  <2> QED  BY <1>1, <1>7, <2>1, <2>2, BrokenChunks
<1>8. CASE ~canceled
  <2>1. Write(events \o << last >>, "done")
    <3>1. ErrorEvents = GeminiError(s)
      BY <1>3 DEF ErrorEvents
    <3>2. GeminiError(s) = events \o << last >>
      BY <1>3 DEF GeminiError
    <3> QED  BY <1>8, <3>1, <3>2 DEF StreamFails
  <2>2. CASE events = << >> /\ w = << >>
    <3>1. events \o << last >> = << last >>
      BY <2>2
    <3>2. PICK all : all = events \o << last >>
      OBVIOUS
    <3>3. \/ wire' = Append(w, last) /\ pc' = "done"
          \/ wire' = w /\ pc' = "done" /\ gone' = TRUE
      BY <1>3, <1>5, <2>1, <3>1, <3>2, WriteOne
    <3>4. Chunks(w, "x")
      BY <2>2, ChunksNone
    <3>5. CASE wire' = Append(w, last) /\ pc' = "done"
      BY <1>4, <2>2, <3>4, <3>5 DEF GeminiDone
    <3>6. CASE wire' = w /\ pc' = "done" /\ gone' = TRUE
      BY <3>4, <3>6, BrokenChunks
    <3> QED  BY <3>3, <3>5, <3>6
  <2>3. ASSUME NEW id, NEW e, events = << e >>, Chunks(w, id), IsChunk(e, id),
               e.usage = CurrentMetadata(s.revision)
        PROVE  pc' = "done" /\ GeminiDone'
    <3>1. events \o << last >> = << e, last >>
      BY <2>3, OneAndMore
    <3>2. PICK all : all = events \o << last >>
      OBVIOUS
    <3>3. \/ wire' = Append(Append(w, e), last) /\ pc' = "done"
          \/ wire' \in {w, Append(w, e)} /\ pc' = "done" /\ gone' = TRUE
      BY <1>3, <1>5, <2>1, <3>1, <3>2, WriteTwo
    <3>4. e.usage = RightUsage'
      BY <1>1, <1>2, <1>3, <2>3
    <3>5. CASE wire' = Append(Append(w, e), last) /\ pc' = "done"
      <4>1. PICK v : v = Append(w, e)
        OBVIOUS
      <4>2. wire' = Append(v, last) /\ pc' = "done"
        BY <3>5, <4>1
      <4>3. \E x, d : v = Append(x, d) /\ Chunks(x, id) /\ IsChunk(d, id) /\ d.usage = RightUsage'
        BY <2>3, <3>4, <4>1
      <4>4. \E d : d.type \in {"error", "http_error"} /\ wire' = Append(v, d)
        BY <1>4, <4>2
      <4> QED  BY <4>2, <4>3, <4>4 DEF GeminiDone
    <3>6. CASE wire' = w /\ pc' = "done" /\ gone' = TRUE
      BY <2>3, <3>6, BrokenChunks
    <3>7. CASE wire' = Append(w, e) /\ pc' = "done" /\ gone' = TRUE
      BY <2>3, <3>4, <3>7 DEF GeminiDone
    <3> QED  BY <3>3, <3>5, <3>6, <3>7
  <2> QED  BY <1>1, <1>3, <2>2, <2>3, PendingWritten
<1> QED  BY <1>7, <1>8

(* The other steps write nothing.                                          *)
LEMMA OpenKeepsChunks ==
  ASSUME GeminiInv, protocol.name = "gemini", Open PROVE GeminiInv'
<1>1. /\ pc = "open" /\ protocol' = protocol /\ handler' = handler /\ Held(wire, handler)
      /\ Write(<< >>, "stream")
  BY DEF Open, GeminiInv
<1>2. PICK none : none = << >>
  OBVIOUS
<1>3. wire' = wire /\ pc' = "stream"
  BY <1>1, <1>2, WireSeq, WriteNone
<1> QED  BY <1>1, <1>3 DEF GeminiInv

LEMMA StillKeepsChunks ==
  ASSUME GeminiInv, UNCHANGED <<protocol, pc, handler, wire, gone, sent>>,
         canceled' = canceled \/ pc # "done"
  PROVE  GeminiInv'
<1>1. RightUsage' = RightUsage /\ wire' = wire /\ pc' = pc
  BY DEF RightUsage
<1>2. CASE pc # "done"
  BY <1>1, <1>2 DEF GeminiInv
<1>3. CASE pc = "done"
  <2>1. Concluded' <=> Concluded
    BY <1>3 DEF Concluded
  <2>2. SUFFICES ASSUME protocol.name = "gemini", GeminiDone PROVE GeminiDone'
    BY <1>1, <1>3 DEF GeminiInv
  <2>3. PICK id, w :
          /\ wire = w \/ \E e : e.type \in {"error", "http_error"} /\ wire = Append(w, e)
          /\ \/ Chunks(w, id) /\ (Concluded => w = << >>)
             \/ \E v, e : /\ w = Append(v, e) /\ Chunks(v, id) /\ IsChunk(e, id)
                          /\ Concluded => e.usage = RightUsage
    BY <2>2 DEF GeminiDone
  <2>4. wire' = w \/ \E e : e.type \in {"error", "http_error"} /\ wire' = Append(w, e)
    BY <1>1, <2>3
  <2>5. \/ Chunks(w, id) /\ (Concluded' => w = << >>)
        \/ \E v, e : /\ w = Append(v, e) /\ Chunks(v, id) /\ IsChunk(e, id)
                     /\ Concluded' => e.usage = RightUsage'
    BY <1>1, <2>1, <2>3
  <2> QED  BY <2>4, <2>5 DEF GeminiDone
<1> QED  BY <1>2, <1>3

LEMMA NextGemini == RevisionInv /\ ContentInv /\ GeminiInv /\ [Next]_vars => GeminiInv'
<1> SUFFICES ASSUME RevisionInv, ContentInv, GeminiInv, [Next]_vars PROVE GeminiInv'
  OBVIOUS
<1>1. CASE protocol.name # "gemini"
  BY <1>1, ProtocolStays DEF GeminiInv
<1>2. CASE protocol.name = "gemini"
  <2>1. CASE Open
    BY <1>2, <2>1, OpenKeepsChunks
  <2>2. CASE ResultArrives
    BY <1>2, <2>2, ArrivalKeepsChunks
  <2>3. CASE UpstreamEnds
    BY <1>2, <2>3, FlushKeepsChunks
  <2>4. CASE HandlerEnds
    BY <1>2, <2>4, HandlerEndKeepsChunks
  <2>5. CASE StreamFails
    BY <1>2, <2>5, FailureKeepsChunks
  <2>6. CASE Cancel
    BY <2>6, StillKeepsChunks DEF Cancel
  <2>7. CASE UNCHANGED vars
    BY <2>7, StillKeepsChunks DEF vars
  <2> QED  BY <2>1, <2>2, <2>3, <2>4, <2>5, <2>6, <2>7 DEF Next
<1> QED  BY <1>1, <1>2

LEMMA StreamChunks == Spec => []GeminiInv
BY InitGemini, NextGemini, StreamRevision, StreamContent, PTL DEF Spec

(* The chunks of a wire: whole ones, and then perhaps any one.             *)
ChunkSeq(v, id) ==
  Chunks(v, id) \/ \E u, e : v = Append(u, e) /\ Chunks(u, id) /\ IsChunk(e, id)

LEMMA ChunksAreChunks ==
  ASSUME NEW id, NEW v, Chunks(v, id)
  PROVE  /\ OfTypeIn(v, "gemini") = v
         /\ \A i \in DOMAIN v : WholeChunk(v[i], id)
<1>1. PICK S : v \in Seq(S) /\ \A x \in S : WholeChunk(x, id)
  BY DEF Chunks
<1> DEFINE Good == {s \in Seq(S) : OfTypeIn(s, "gemini") = s}
<1>2. << >> \in Good
  BY EmptySeq, ItemsAtEmpty DEF OfTypeIn
<1>3. \A s \in Seq(S) : s \in Good => \A x \in S : Append(s, x) \in Good
  <2> SUFFICES ASSUME NEW s \in Seq(S), s \in Good, NEW x \in S PROVE Append(s, x) \in Good
    OBVIOUS
  <2>1. Append(s, x) \in Seq(S) /\ x.type = "gemini"
    BY <1>1, AppendProperties DEF WholeChunk, IsChunk
  <2>2. OfTypeIn(Append(s, x), "gemini") = Append(OfTypeIn(s, "gemini"), x)
    BY <2>1, OfTypeAppend
  <2> QED  BY <2>1, <2>2
<1>4. v \in Good
  <2> HIDE DEF Good
  <2>1. Seq(S) \subseteq Good
    BY <1>2, <1>3, InductionOnSeq
  <2> QED  BY <1>1, <2>1
<1>5. \A i \in DOMAIN v : v[i] \in S
  BY <1>1, LenProperties, ElementOfSeq
<1> QED  BY <1>1, <1>4, <1>5

LEMMA ChunkSeqIs ==
  ASSUME NEW id, NEW v, ChunkSeq(v, id)
  PROVE  /\ \E S : v \in Seq(S)
         /\ OfTypeIn(v, "gemini") = v
         /\ \A i \in DOMAIN v : /\ IsChunk(v[i], id)
                                /\ i < Len(v) => WholeChunk(v[i], id)
<1>1. CASE Chunks(v, id)
  BY <1>1, ChunksSeq, ChunksAreChunks DEF WholeChunk
<1>2. CASE ~Chunks(v, id)
  <2>1. PICK u, e : v = Append(u, e) /\ Chunks(u, id) /\ IsChunk(e, id)
    BY <1>2 DEF ChunkSeq
  <2>2. PICK T : u \in Seq(T)
    BY <2>1, ChunksSeq
  <2>3. PICK S : S = T \cup {e}
    OBVIOUS
  <2>4. u \in Seq(S) /\ e \in S
    BY <2>2, <2>3, SeqMonotonic
  <2>5. v \in Seq(S) /\ Len(v) = Len(u) + 1
    BY <2>1, <2>4, AppendProperties
  <2>6. Len(u) \in Nat /\ DOMAIN u = 1 .. Len(u) /\ DOMAIN v = 1 .. Len(u) + 1
    BY <2>4, <2>5, LenProperties
  <2>7. v[Len(u) + 1] = e /\ \A i \in 1 .. Len(u) : v[i] = u[i]
    BY <2>1, <2>4, AppendProperties
  <2>8. OfTypeIn(v, "gemini") = v
    <3>1. OfTypeIn(u, "gemini") = u /\ e.type = "gemini"
      BY <2>1, ChunksAreChunks DEF IsChunk
    <3>2. OfTypeIn(Append(u, e), "gemini") = Append(OfTypeIn(u, "gemini"), e)
      BY <2>4, <3>1, OfTypeAppend
    <3> QED  BY <2>1, <3>1, <3>2
  <2>9. \A i \in 1 .. Len(u) : WholeChunk(u[i], id)
    BY <2>1, <2>6, ChunksAreChunks
  <2>10. ASSUME NEW i \in DOMAIN v PROVE IsChunk(v[i], id) /\ (i < Len(v) => WholeChunk(v[i], id))
    <3>1. i \in 1 .. Len(u) \/ i = Len(u) + 1
      BY <2>6
    <3>2. CASE i \in 1 .. Len(u)
      <4>1. WholeChunk(v[i], id)
        BY <2>7, <2>9, <3>2
      <4> QED  BY <4>1 DEF WholeChunk
    <3>3. CASE i = Len(u) + 1
      <4>1. IsChunk(v[i], id)
        BY <2>1, <2>7, <3>3
      <4>2. ~(i < Len(v))
        BY <2>5, <2>6, <3>3
      <4> QED  BY <4>1, <4>2
    <3> QED  BY <3>1, <3>2, <3>3
  <2> QED  BY <2>5, <2>8, <2>10
<1> QED  BY <1>1, <1>2

(* The wire of a Gemini stream in any state.                               *)
LEMMA GeminiWire ==
  ASSUME GeminiInv, protocol.name = "gemini", pc \in {"open", "stream", "flushed", "done"}
  PROVE  \E id, v : /\ ChunkSeq(v, id)
                    /\ wire = v \/ \E e : e.type \in {"error", "http_error"} /\ wire = Append(v, e)
                    /\ Concluded => v = << >> \/ v[Len(v)].usage = RightUsage
<1>1. CASE pc # "done"
  <2>1. Held(wire, handler) \/ Finished(wire, handler)
    BY <1>1 DEF GeminiInv
  <2>2. ChunkSeq(wire, handler.responseId)
    BY <2>1 DEF Held, Finished, ChunkSeq
  <2>3. ~Concluded
    BY <1>1 DEF Concluded
  <2> QED  BY <2>2, <2>3
<1>2. CASE pc = "done"
  <2>1. PICK id, w :
          /\ wire = w \/ \E e : e.type \in {"error", "http_error"} /\ wire = Append(w, e)
          /\ \/ Chunks(w, id) /\ (Concluded => w = << >>)
             \/ \E v, e : /\ w = Append(v, e) /\ Chunks(v, id) /\ IsChunk(e, id)
                          /\ Concluded => e.usage = RightUsage
    BY <1>2 DEF GeminiInv, GeminiDone
  <2>2. CASE Chunks(w, id) /\ (Concluded => w = << >>)
    BY <2>1, <2>2 DEF ChunkSeq
  <2>3. ASSUME NEW v, NEW e, w = Append(v, e), Chunks(v, id), IsChunk(e, id),
               Concluded => e.usage = RightUsage
        PROVE  ChunkSeq(w, id) /\ (Concluded => w[Len(w)].usage = RightUsage)
    <3>1. PICK T : v \in Seq(T)
      BY <2>3, ChunksSeq
    <3>2. PICK S : S = T \cup {e}
      OBVIOUS
    <3>3. v \in Seq(S) /\ e \in S
      BY <3>1, <3>2, SeqMonotonic
    <3>4. Len(w) = Len(v) + 1 /\ w[Len(v) + 1] = e
      BY <2>3, <3>3, AppendProperties
    <3>5. w[Len(w)] = e
      BY <3>4
    <3> QED  BY <2>3, <3>5 DEF ChunkSeq
  <2> QED  BY <2>1, <2>2, <2>3
<1> QED  BY <1>1, <1>2

(* The wire with the error that may end it.                                *)
LEMMA ErrorAppended ==
  ASSUME NEW v, NEW S, v \in Seq(S), NEW w,
         w = v \/ \E e : e.type \in {"error", "http_error"} /\ w = Append(v, e)
  PROVE  /\ OfTypeIn(w, "gemini") = OfTypeIn(v, "gemini")
         /\ Len(v) \in Nat /\ DOMAIN v = 1 .. Len(v)
         /\ \A i \in 1 .. Len(v) : i \in DOMAIN w /\ w[i] = v[i]
         /\ \A i \in DOMAIN w : i \in Nat /\ (i \in 1 .. Len(v) \/ w[i].type \in {"error", "http_error"})
<1>1. CASE w = v
  BY <1>1, LenProperties
<1>2. ASSUME NEW e, e.type \in {"error", "http_error"}, w = Append(v, e)
      PROVE  /\ OfTypeIn(w, "gemini") = OfTypeIn(v, "gemini")
             /\ \A i \in 1 .. Len(v) : i \in DOMAIN w /\ w[i] = v[i]
             /\ \A i \in DOMAIN w : i \in Nat /\ (i \in 1 .. Len(v) \/ w[i].type \in {"error", "http_error"})
  <2>1. PICK T : T = S \cup {e}
    OBVIOUS
  <2>2. v \in Seq(T) /\ e \in T
    BY <2>1, SeqMonotonic
  <2>3. OfTypeIn(w, "gemini") = OfTypeIn(v, "gemini")
    <3>1. e.type # "gemini"
      BY <1>2
    <3> QED  BY <1>2, <2>2, <3>1, OfTypeAppend
  <2>4. w \in Seq(T) /\ Len(w) = Len(v) + 1 /\ w[Len(v) + 1] = e /\ \A i \in 1 .. Len(v) : w[i] = v[i]
    BY <1>2, <2>2, AppendProperties
  <2>5. Len(v) \in Nat /\ DOMAIN w = 1 .. Len(v) + 1
    BY <2>2, <2>4, LenProperties
  <2> QED  BY <1>2, <2>3, <2>4, <2>5
<1> QED  BY <1>1, <1>2, LenProperties

LEMMA GeminiIsWhole == RevisionInv /\ EndInv /\ GeminiInv => GeminiChunksAreWhole
<1> SUFFICES ASSUME RevisionInv, EndInv, GeminiInv PROVE GeminiChunksAreWhole
  OBVIOUS
<1>1. PICK chunks : chunks = OfTypeIn(wire, "gemini")
  OBVIOUS
<1>2. SUFFICES \A i \in DOMAIN chunks :
        /\ i < Len(chunks) => Substantive(chunks[i].payload) /\ chunks[i].payload.finish = None
        /\ chunks[i].id = chunks[1].id /\ chunks[i].id # None
  BY <1>1 DEF GeminiChunksAreWhole, OfType, OfTypeIn
<1>3. CASE protocol.name # "gemini"
  <2>1. "gemini" \notin WireTypes(protocol)
    BY <1>3 DEF WireTypes, ChunkTypes, ItemTypes, RevisionInv, Protocols, Names
  <2>2. chunks = << >>
    BY <1>1, <2>1, WireTyped, NoneOfType
  <2> QED  BY <2>2
<1>4. CASE protocol.name = "gemini"
  <2>1. PICK id, v : /\ ChunkSeq(v, id)
                     /\ wire = v \/ \E e : e.type \in {"error", "http_error"} /\ wire = Append(v, e)
    BY <1>4, GeminiWire DEF RevisionInv
  <2>2. PICK S : v \in Seq(S)
    BY <2>1, ChunkSeqIs
  <2>3. chunks = v
    <3>1. OfTypeIn(v, "gemini") = v
      BY <2>1, ChunkSeqIs
    <3> QED  BY <1>1, <2>1, <2>2, <3>1, ErrorAppended
  <2>4. \A i \in DOMAIN chunks : IsChunk(chunks[i], id) /\ (i < Len(chunks) => WholeChunk(chunks[i], id))
    BY <2>1, <2>3, ChunkSeqIs
  <2>5. \A i \in DOMAIN chunks : 1 \in DOMAIN chunks
    BY <2>2, <2>3, LenProperties
  <2> QED  BY <2>4, <2>5 DEF IsChunk, WholeChunk
<1> QED  BY <1>3, <1>4

(* Every chunk of a Gemini stream but the last has content of its own, the *)
(* finish reason comes with the last, and all carry one response id.       *)
THEOREM GeminiStreamChunksAreWhole == Spec => []GeminiChunksAreWhole
BY GeminiIsWhole, StreamRevision, StreamEnds, StreamChunks, PTL

LEMMA GeminiUsage ==
  ASSUME RevisionInv, GeminiInv, protocol.name = "gemini" PROVE UsageIsCurrent
<1> DEFINE measured == {i \in DOMAIN wire : wire[i].type \in {"end", "completed", "failed", "gemini"}}
<1>1. SUFFICES ASSUME Concluded, measured # {} PROVE wire[Max(measured)].usage = RightUsage
  BY DEF UsageIsCurrent
<1>2. PICK id, v : /\ ChunkSeq(v, id)
                   /\ wire = v \/ \E e : e.type \in {"error", "http_error"} /\ wire = Append(v, e)
                   /\ v = << >> \/ v[Len(v)].usage = RightUsage
  BY <1>1, GeminiWire DEF RevisionInv
<1>3. PICK S : v \in Seq(S)
  BY <1>2, ChunkSeqIs
<1>4. /\ Len(v) \in Nat /\ DOMAIN v = 1 .. Len(v)
      /\ \A i \in 1 .. Len(v) : i \in DOMAIN wire /\ wire[i] = v[i]
      /\ \A i \in DOMAIN wire :
           i \in Nat /\ (i \in 1 .. Len(v) \/ wire[i].type \in {"error", "http_error"})
  BY <1>2, <1>3, ErrorAppended
<1>5. \A i \in 1 .. Len(v) : wire[i].type = "gemini"
  BY <1>2, <1>4, ChunkSeqIs DEF IsChunk
<1>6. PICK n, w : n = Len(v) /\ w = wire
  OBVIOUS
<1>7. PICK M : M = measured
  OBVIOUS
<1>8. \A i : i \in M <=> i \in 1 .. n
  BY <1>4, <1>5, <1>6, <1>7
<1>9. n \in M /\ M \in SUBSET Nat /\ \A i \in M : i <= n
  BY <1>1, <1>4, <1>6, <1>7, <1>8
<1>10. Max(M) = n
  BY <1>9, MaxIsGreatest
<1>11. v # << >>
  BY <1>4, <1>6, <1>8, <1>9
<1>12. wire[n].usage = RightUsage
  BY <1>2, <1>4, <1>6, <1>8, <1>9, <1>11
<1> QED  BY <1>7, <1>10, <1>12

(* The usage a stream ends with is the last the upstream reported, and     *)
(* whole exactly if nothing was generated since, in all three protocols.   *)
THEOREM StreamUsageIsCurrent == Spec => []UsageIsCurrent
<1>1. RevisionInv /\ EndInv /\ GeminiInv => UsageIsCurrent
  <2> SUFFICES ASSUME RevisionInv, EndInv, GeminiInv PROVE UsageIsCurrent
    OBVIOUS
  <2>1. CASE protocol.name = "gemini"
    BY <2>1, GeminiUsage
  <2>2. CASE protocol.name # "gemini"
    BY <2>2, RunningIsRight, EndedIsRight DEF RevisionInv, EndInv
  <2> QED  BY <2>1, <2>2
<1> QED  BY <1>1, StreamRevision, StreamEnds, StreamChunks, PTL
=============================================================================
