----------------------------- MODULE GeminiStream -----------------------------
(***************************************************************************)
(* The handler of a streaming Gemini request                               *)
(* (streamGeminiResponseWithProxyOptions, src/handler/gemini.go).  A chunk *)
(* is held back as `pending` so that what brings no content of its own,    *)
(* such as a thought signature or a block notice, joins a chunk that does, *)
(* and the finish reason comes alone.  A payload keeps the order of parts. *)
(***************************************************************************)
EXTENDS StreamEmitter

NoPayload == [parts |-> << >>, grounding |-> FALSE, feedback |-> FALSE, finish |-> None]

(* pendingGeminiStreamChunk                                                *)
NoPending == [payload |-> NoPayload, usage |-> CurrentMetadata(Unmeasured), substantive |-> FALSE]

GeminiState(includeThoughts) ==
  [includeThoughts |-> includeThoughts, revision |-> Unmeasured,
   responseId |-> None, identityCommitted |-> FALSE, pending |-> NoPending]

Kept(includeThoughts) == IF includeThoughts THEN PartKinds ELSE PartKinds \ {"thought"}

(* buildGeminiStreamResponseForRequest: a blocked prompt hides candidates. *)
Payload(r, includeThoughts) ==
  IF r.feedback THEN [NoPayload EXCEPT !.feedback = TRUE]
  ELSE [parts |-> OfKind(r.parts, Kept(includeThoughts)),
        grounding |-> r.grounding, feedback |-> FALSE, finish |-> r.finish]

(* geminiStreamChunkHasSubstantiveCandidateContent                         *)
Substantive(payload) == Has(payload.parts, PartKinds \ {"sign"})

MergeOverParts(dst, tail) ==   \* mutant of Merge: the parts of the tail replace
  [parts     |-> IF tail.parts = << >> THEN dst.parts ELSE tail.parts,
   grounding |-> dst.grounding \/ tail.grounding,
   feedback  |-> dst.feedback \/ tail.feedback,
   finish    |-> IF tail.finish # None THEN tail.finish ELSE dst.finish]

(* mergeGeminiStreamTail                                                   *)
Merge(dst, tail) ==
  [parts     |-> dst.parts \o tail.parts,
   grounding |-> dst.grounding \/ tail.grounding,
   feedback  |-> dst.feedback \/ tail.feedback,
   finish    |-> IF tail.finish # None THEN tail.finish ELSE dst.finish]

Pending(payload, usage) ==
  [payload |-> payload, usage |-> usage, substantive |-> Substantive(payload)]

(* emit with prepareChunkForEmission: the first chunk settles the id; an   *)
(* upstream that has named none by then gets a generated one.              *)
Emit(s, payload, usage) ==
  LET id == IF s.responseId = None THEN "generated" ELSE s.responseId IN
  IF payload = NoPayload THEN [state |-> s, events |-> << >>]
  ELSE [state |-> [s EXCEPT !.responseId = id, !.identityCommitted = TRUE],
        events |-> << [type |-> "gemini", payload |-> payload, usage |-> usage, id |-> id] >>]

EmitPending(s) ==
  LET emitted == Emit(s, s.pending.payload, s.pending.usage) IN
  [emitted EXCEPT !.state.pending = NoPending]

(* buildChunk: every result is measured and may name the response.         *)
Absorb(s, r) ==
  [s EXCEPT
     !.revision = Observe(@, r),
     !.responseId = IF ~s.identityCommitted /\ @ = None THEN r.id ELSE @]

(* Content: two substantive payloads stay two chunks, otherwise they join. *)
Hold(s, payload, usage) ==
  LET p       == s.pending
      splits  == p.substantive /\ Substantive(payload)
      emitted == IF splits THEN EmitPending(s) ELSE [state |-> s, events |-> << >>]
      joined  == IF splits THEN payload ELSE Merge(p.payload, payload)
  IN  [emitted EXCEPT !.state.pending = Pending(joined, usage)]

(* A finish reason: what is pending goes first if it has content, and with *)
(* the finish chunk otherwise.                                             *)
Finish(s, reason, usage) ==
  LET last    == [NoPayload EXCEPT !.finish = reason]
      flushed == IF s.pending.substantive THEN EmitPending(s)
                 ELSE [state |-> [s EXCEPT !.pending = NoPending], events |-> << >>]
      ended   == Emit(flushed.state,
                      IF s.pending.substantive THEN last ELSE Merge(last, s.pending.payload),
                      usage)
  IN  [state |-> ended.state, events |-> flushed.events \o ended.events]

(* The callback.  Content and a finish reason in one result would be split *)
(* (splitGeminiStreamFinishChunk); the emitter never hands on such a one.  *)
GeminiResult(s, r) ==
  LET absorbed == Absorb(s, r)
      payload  == Payload(r, s.includeThoughts)
      usage    == CurrentMetadata(absorbed.revision)
  IN
  IF payload = NoPayload
    THEN [state |-> IF absorbed.pending.payload = NoPayload THEN absorbed
                    ELSE [absorbed EXCEPT !.pending.usage = usage],
          events |-> << >>]
  ELSE IF payload.finish # None THEN Finish(absorbed, payload.finish, usage)
  ELSE Hold(absorbed, payload, usage)

GeminiEnd(s) == EmitPending(s).events

(* An error: what is pending is still written, then an error event, or an  *)
(* HTTP error if that was the first thing to write.                        *)
GeminiError(s) ==
  LET last == EmitPending(s)
  IN  last.events
      \o << [type |-> IF last.state.identityCommitted THEN "error" ELSE "http_error"] >>
=============================================================================
