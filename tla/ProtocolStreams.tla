--------------------------- MODULE ProtocolStreams ---------------------------
(***************************************************************************)
(* A streaming request of one of three protocols, from the results the     *)
(* upstream sends to the events the client gets: the emitter, the callback *)
(* of the protocol's handler and what the handler does when the stream     *)
(* ends or fails.  Between two results the client may go away (Cancel);    *)
(* a write may fail at any event, and then nothing more is written.        *)
(*                                                                         *)
(* Responses runs over StreamRequireAssistantOutput, which keeps results   *)
(* without output back until the first with output (RetryLoop).  The       *)
(* handler writes nothing for such results, so they are handed on at once  *)
(* here; a stream that ends without any is the error ErrNoAssistantOutput. *)
(***************************************************************************)
EXTENDS ChatStream, ResponsesStream, GeminiStream

CONSTANTS
  Arrivals(_),    \* the results the upstream may send to a protocol
  MaxResults      \* bound of the results of one stream

Names == {"chat", "responses", "gemini"}

(* The results as they come, before they are numbered.                     *)
Shapes ==
  [parts : Seq(PartKinds), grounding : BOOLEAN, usage : BOOLEAN,
   id : STRING, feedback : BOOLEAN, finish : Reasons \cup {None}]

ASSUME ArrivalAssumption == \A name \in Names : \A r \in Arrivals(name) : r \in Shapes
ASSUME MaxAssumption == MaxResults \in Nat

VARIABLES
  protocol,       \* the protocol and the option of the request
  pc,             \* "open", "stream", "flushed", "done"
  pendingFinish,  \* the finish reason the emitter holds back
  handler,        \* the variables of the handler
  wire,           \* the events written
  canceled,       \* the context of the request is done
  gone,           \* a write has failed
  sent            \* history: the results the upstream sent

vars == <<protocol, pc, pendingFinish, handler, wire, canceled, gone, sent>>

(* The option: a compaction item in a Responses request, thoughts asked    *)
(* for in a Gemini request.  A Chat request asks for its usage.            *)
Protocols ==
  {p \in [name : Names, option : BOOLEAN] :
     p.name = "chat" => ~p.option}

(* A result numbered n marks its parts and its usage.                      *)
Numbered(r, n) ==
  [r EXCEPT !.parts = [i \in DOMAIN r.parts |-> [kind |-> r.parts[i], from |-> n]],
            !.usage = IF r.usage THEN n ELSE 0]

InitialHandler(p) ==
  CASE p.name = "chat"      -> ChatState
    [] p.name = "responses" -> ResponsesState(p.option)
    [] p.name = "gemini"    -> GeminiState(p.option)

Init ==
  /\ protocol \in Protocols
  /\ pc = "open" /\ pendingFinish = None
  /\ handler = InitialHandler(protocol)
  /\ wire = << >> /\ canceled = FALSE /\ gone = FALSE /\ sent = << >>

-----------------------------------------------------------------------------
(* Writing the events of a step: all of them, and the handler is at `next`,*)
(* or only the first k because a write fails.                              *)
Write(events, next) ==
  \/ /\ wire' = wire \o events
     /\ pc' = next
     /\ UNCHANGED gone
  \/ \E k \in 0 .. Len(events) - 1 :
       /\ wire' = wire \o SubSeq(events, 1, k)
       /\ pc' = "done"
       /\ gone' = TRUE

OnResult(r) ==
  CASE protocol.name = "chat"      -> ChatResult(handler, r)
    [] protocol.name = "responses" -> ResponsesResult(handler, r)
    [] protocol.name = "gemini"    -> GeminiResult(handler, r)

(* onChunk: every callback first looks at the context.                     *)
Deliver(r, next) ==
  IF canceled
    THEN pc' = "done" /\ UNCHANGED <<handler, wire, gone>>
    ELSE /\ handler' = OnResult(r).state
         /\ Write(OnResult(r).events, next)

Open ==
  /\ pc = "open"
  /\ Write(IF protocol.name = "responses" THEN ResponsesStart(protocol.option) ELSE << >>,
           "stream")
  /\ UNCHANGED <<protocol, pendingFinish, handler, canceled, sent>>

(* vertexStreamEmitter.emit                                                *)
ResultArrives ==
  /\ pc = "stream"
  /\ Len(sent) < MaxResults
  /\ \E shape \in Arrivals(protocol.name) :
       LET result == Numbered(shape, Len(sent) + 1)
           rest   == DetachFinish(result)
       IN
       /\ sent' = Append(sent, result)
       /\ pendingFinish' = HeldBack(pendingFinish, result)
       /\ IF IsEmpty(rest) THEN UNCHANGED <<pc, handler, wire, gone>>
                           ELSE Deliver(rest, "stream")
  /\ UNCHANGED <<protocol, canceled>>

(* The body of the upstream ends without an error: vertexStreamEmitter.flush. *)
UpstreamEnds ==
  /\ pc = "stream"
  /\ pendingFinish' = None
  /\ IF pendingFinish = None
       THEN pc' = "flushed" /\ UNCHANGED <<handler, wire, gone>>
       ELSE Deliver(FinishResult(pendingFinish), "flushed")
  /\ UNCHANGED <<protocol, canceled, sent>>

NoAssistantOutput ==
  protocol.name = "responses" /\ \A i \in DOMAIN sent : sent[i].parts = << >>

EndEvents ==
  CASE protocol.name = "chat"      -> ChatEnd(handler)
    [] protocol.name = "responses" -> ResponsesEnd(handler)
    [] protocol.name = "gemini"    -> GeminiEnd(handler)

ErrorEvents ==
  CASE protocol.name = "chat"      -> ChatError(handler)
    [] protocol.name = "responses" -> ResponsesError
    [] protocol.name = "gemini"    -> GeminiError(handler)

(* The handler after a stream without error; only Chat asks for the        *)
(* context again.                                                          *)
HandlerEnds ==
  /\ pc = "flushed" /\ ~NoAssistantOutput
  /\ IF canceled /\ protocol.name = "chat"
       THEN pc' = "done" /\ UNCHANGED <<wire, gone>>
       ELSE Write(EndEvents, "done")
  /\ UNCHANGED <<protocol, pendingFinish, handler, canceled, sent>>

(* An error of the upstream, at any result; a canceled request is silent.  *)
StreamFails ==
  /\ pc = "stream" \/ (pc = "flushed" /\ NoAssistantOutput)
  /\ IF canceled
       THEN pc' = "done" /\ UNCHANGED <<wire, gone>>
       ELSE Write(ErrorEvents, "done")
  /\ UNCHANGED <<protocol, pendingFinish, handler, canceled, sent>>

Cancel ==
  /\ pc # "done" /\ ~canceled
  /\ canceled' = TRUE
  /\ UNCHANGED <<protocol, pc, pendingFinish, handler, wire, gone, sent>>

Next ==
  \/ Open \/ ResultArrives \/ UpstreamEnds \/ HandlerEnds \/ StreamFails \/ Cancel

Spec == Init /\ [][Next]_vars

-----------------------------------------------------------------------------
(* Properties.                                                             *)

TypeOK ==
  /\ protocol \in Protocols
  /\ pc \in {"open", "stream", "flushed", "done"}
  /\ pendingFinish \in Reasons \cup {None}
  /\ {canceled, gone} \subseteq BOOLEAN
  /\ Len(sent) <= MaxResults
  /\ \A i \in DOMAIN sent :
       /\ sent[i].usage \in {0, i}
       /\ \A j \in DOMAIN sent[i].parts :
            sent[i].parts[j].kind \in PartKinds /\ sent[i].parts[j].from = i
  /\ handler.revision.metadataAt <= handler.revision.outputRevision
  /\ handler.revision.outputRevision <= Len(sent)
  /\ gone => pc = "done"

EndTypes == {"[DONE]", "completed", "failed", "error", "http_error"}

(* The stream came to its own end: the client stayed and nothing broke off.*)
Concluded == pc = "done" /\ ~gone /\ ~canceled

(* What a result has to show: Gemini has no candidates beside a block notice.*)
PartsOf(r) == IF protocol.name = "gemini" /\ r.feedback THEN << >> ELSE r.parts

SentParts == FlattenSeq([i \in DOMAIN sent |-> PartsOf(sent[i])])

ExpectedReason ==
  LET finished == {i \in DOMAIN sent : sent[i].finish # None}
      last == IF finished = {} THEN None ELSE sent[Max(finished)].finish
  IN
  IF \E i \in DOMAIN wire : wire[i].type = "chunk" /\ wire[i].toolCalls # << >>
    THEN "tool_calls"
  ELSE IF last = "MAX_TOKENS" THEN "length"
  ELSE IF last = "SAFETY" \/ \E i \in DOMAIN sent : sent[i].feedback
    THEN "content_filter" ELSE "stop"

EndIsLast ==
  /\ \A i \in DOMAIN wire :
       /\ wire[i].type \in EndTypes => i = Len(wire) /\ pc = "done"
       /\ wire[i].type = "http_error" => i = 1
  /\ Concluded /\ protocol.name # "gemini" => Last(wire).type \in EndTypes

ReasonMatches ==
  \A i \in DOMAIN wire : wire[i].type = "end" => wire[i].reason = ExpectedReason

CompletedIfShown ==
  \A i \in DOMAIN wire : wire[i].type \in {"completed", "failed"} =>
    (wire[i].type = "completed"
       <=> \E j \in DOMAIN wire : /\ wire[j].type = "output_item.done"
                                  /\ wire[j].item.type # "compaction")

(* Nothing follows the event that ends a stream, a stream that ran to its  *)
(* end has one, an HTTP error is the only thing written, the finish reason *)
(* of a Chat stream is that of everything the client has seen and the      *)
(* upstream has said, wherever it said it, and a Responses stream is       *)
(* completed exactly if an item of this generation was written.            *)
EndMatches == EndIsLast /\ ReasonMatches /\ CompletedIfShown

(* The content an event shows.                                             *)
ContentOf(e) ==
  CASE e.type = "chunk" ->
         e.content \o e.reasoning \o [i \in DOMAIN e.toolCalls |-> e.toolCalls[i].call]
    [] e.type = "gemini" -> e.payload.parts
    [] e.type = "output_text.delta" -> e.parts
    [] e.type = "output_item.added" -> e.item.parts
    [] OTHER -> << >>

Shown(kinds) == OfKind(FlattenSeq([i \in DOMAIN wire |-> ContentOf(wire[i])]), kinds)

(* The kinds of parts whose order among each other the protocol keeps.     *)
Ordered ==
  IF protocol.name = "gemini" THEN {Kept(protocol.option)}
                              ELSE {{"text"}, {"thought"}, Calls}

Expected(kinds) ==
  IF protocol.name = "responses" /\ kinds = Calls
    THEN DistinctCalls(SentParts) ELSE OfKind(SentParts, kinds)

(* What the client is shown is at any time a beginning of what the upstream*)
(* sent, in its order, nothing twice; and all of it when the stream comes  *)
(* to its end or to an error (Responses writes its calls only at the end), *)
(* whatever the emitter and the handlers hold back on the way.             *)
ContentInOrder ==
  \A kinds \in Ordered :
    /\ IsPrefix(Shown(kinds), Expected(kinds))
    /\ Concluded /\ (kinds = Calls => ~\E i \in DOMAIN wire : wire[i].type = "error")
         => Shown(kinds) = Expected(kinds)

(* The events about item i and the text of its deltas.                     *)
ItemEvents == {i \in DOMAIN wire : "index" \in DOMAIN wire[i]}
OfType(type) == ItemsAt(wire, {i \in DOMAIN wire : wire[i].type = type})
Deltas(i) ==
  FlattenSeq([k \in DOMAIN wire |->
    IF wire[k].type = "output_text.delta" /\ wire[k].index = i THEN wire[k].parts ELSE << >>])

(* Responses items are numbered without gaps in the order in which they are*)
(* added; every event of an item comes between its addition and its end,   *)
(* though commentary and message overlap; a finished text is the text of   *)
(* its deltas; and the output of the final event is the finished items.    *)
ItemsAreWhole ==
  LET added == OfType("output_item.added")
      done  == OfType("output_item.done")
  IN
  /\ \A k \in DOMAIN added : added[k].index = k - 1
  /\ \A p, q \in ItemEvents :
       /\ p < q /\ wire[p].index = wire[q].index =>
            wire[p].type # "output_item.done" /\ wire[q].type # "output_item.added"
       /\ \E a \in ItemEvents :
            a <= p /\ wire[a].type = "output_item.added" /\ wire[a].index = wire[p].index
  /\ \A k \in DOMAIN done :
       done[k].item.type \in {"commentary", "message"} =>
         done[k].item.parts = Deltas(done[k].index)
  /\ \A p \in DOMAIN wire : wire[p].type \in {"completed", "failed"} =>
       /\ Len(wire[p].output) = Len(added) /\ Len(done) = Len(added)
       /\ \A k \in DOMAIN done : wire[p].output[done[k].index + 1] = done[k].item

(* The usage that is right for everything that was sent.                   *)
RightUsage ==
  LET measured == {n \in DOMAIN sent : sent[n].usage # 0}
      last == IF measured = {} THEN 0 ELSE Max(measured)
  IN  [from  |-> last,
       whole |-> last # 0 /\ \A n \in DOMAIN sent : n > last => ~Generates(sent[n])]

(* The usage a stream ends with is the last the upstream reported, and     *)
(* passes for the whole only if no output came after it, whether the client*)
(* was shown that output or, as a hidden thought, was not.                 *)
UsageIsCurrent ==
  LET measured == {i \in DOMAIN wire : wire[i].type \in {"end", "completed", "failed", "gemini"}}
  IN  Concluded /\ measured # {} => wire[Max(measured)].usage = RightUsage

(* Every chunk of a Gemini stream but the last has content of its own, the *)
(* finish reason comes with the last, and all carry one response id.       *)
GeminiChunksAreWhole ==
  LET chunks == OfType("gemini") IN
  \A i \in DOMAIN chunks :
    /\ i < Len(chunks) => Substantive(chunks[i].payload) /\ chunks[i].payload.finish = None
    /\ chunks[i].id = chunks[1].id /\ chunks[i].id # None

(* The tool calls of a Chat message have indices of their own: README.md:29*)
(* says that tool calls use the standard fields, and in those a client     *)
(* joins the deltas of a call by its index.                                *)
ToolCallsAreDistinct ==
  \A i, j \in DOMAIN wire :
    wire[i].type = "chunk" /\ wire[j].type = "chunk" /\ i # j =>
      \A a \in DOMAIN wire[i].toolCalls, b \in DOMAIN wire[j].toolCalls :
        wire[i].toolCalls[a].index # wire[j].toolCalls[b].index
=============================================================================
