------------------------------ MODULE ChatStream ------------------------------
(***************************************************************************)
(* The handler of a streaming Chat Completions request                     *)
(* (streamResponseForRequestWithProxy, src/handler/chat.go): what it does  *)
(* with a result, with the end of the stream and with an upstream error.   *)
(* Each operator gives the events to write and the state that is left.     *)
(***************************************************************************)
EXTENDS Integers, StreamEmitter

ChatState ==
  [aggregate |-> Nothing, revision |-> Unmeasured,
   committed |-> FALSE, emittedGrounding |-> FALSE]

(* buildOpenAIToolCalls numbers the calls of a chunk.                      *)
ToolCalls(calls) == [i \in DOMAIN calls |-> [index |-> i - 1, call |-> calls[i]]]

(* buildOpenAIDelta: text and thoughts are separate fields, and grounding  *)
(* is written once.                                                        *)
ChatChunk(r, cited) ==
  [type      |-> "chunk",
   content   |-> OfKind(r.parts, {"text"}),
   reasoning |-> OfKind(r.parts, {"thought"}),
   toolCalls |-> ToolCalls(OfKind(r.parts, Calls)),
   citations |-> r.grounding /\ ~cited]

ChatResult(s, r) ==
  IF IsEmpty(r) THEN [state |-> s, events |-> << >>]
  ELSE
    [state |->
       [aggregate        |-> Accumulate(s.aggregate, r),
        revision         |-> Observe(s.revision, r),
        committed        |-> s.committed \/ HasContent(r),
        emittedGrounding |-> s.emittedGrounding \/ r.grounding],
     events |-> IF HasContent(r) THEN << ChatChunk(r, s.emittedGrounding) >> ELSE << >>]

(* openAIFinishReason, over everything received.                           *)
FinishReasonFirst(a) ==   \* mutant of OpenAIFinishReason: a reason hides the calls
  IF a.finish = "MAX_TOKENS" THEN "length"
  ELSE IF a.finish = "SAFETY" \/ a.feedback THEN "content_filter"
  ELSE IF Has(a.parts, Calls) THEN "tool_calls" ELSE "stop"

OpenAIFinishReason(a) ==
  IF Has(a.parts, Calls) THEN "tool_calls"
  ELSE IF a.finish = "MAX_TOKENS" THEN "length"
  ELSE IF a.finish = "SAFETY" \/ a.feedback THEN "content_filter" ELSE "stop"

(* writeOpenAIStreamEnd                                                    *)
ChatEnd(s) ==
  << [type |-> "end", reason |-> OpenAIFinishReason(s.aggregate),
      usage |-> CurrentMetadata(s.revision)],
     [type |-> "[DONE]"] >>

ChatError(s) == << [type |-> IF s.committed THEN "error" ELSE "http_error"] >>
=============================================================================
