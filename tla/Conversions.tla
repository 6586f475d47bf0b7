----------------------------- MODULE Conversions -----------------------------
(***************************************************************************)
(* The conversions of one request and its answer that lose, add or guess   *)
(* something: the history of a request is normalised for the upstream      *)
(* (FunctionHistory), the body of the answer is decoded while it arrives   *)
(* (VertexDecoder), the results in it are handed on (VertexAnswer), and    *)
(* its token counts are reported (VertexUsage).  Each is a step of its     *)
(* own with any input of the sets below; the body takes one for each call  *)
(* of its decoder.                                                         *)
(***************************************************************************)
EXTENDS VertexUsage, FunctionHistory, VertexAnswer, VertexDecoder

CONSTANTS
  Messages,       \* what a conversation may consist of
  MaxMessages,    \* bound on its length
  EventSequences, \* what an answer may consist of
  Measures,       \* what the upstream may report
  EstimateSet,    \* what the handler may estimate
  Compactions     \* estimates and measures of a compaction before the answer

ASSUME InputAssumption ==
  Measures \subseteq Metadata /\ EstimateSet \subseteq Estimates
    /\ Compactions \subseteq Estimates \X Metadata
    /\ EventSequences \subseteq Seq(Seq(Items))
    /\ Messages \subseteq ChatMessages /\ MaxMessages \in Nat

VARIABLES
  conversion,     \* which conversion runs, or ran
  input,          \* what it was given
  result          \* what it made of it, Pending before

conversionVars == <<conversion, input, result, decoderVars>>

Pending == [done |-> FALSE]

(* An answer may be cut between its events or within the next one.         *)
CutsAt(events, read) ==
  {NotTorn} \cup (IF read < Len(events) THEN 0 .. Len(events[read + 1]) ELSE {})

ConversionInit ==
  /\ result = Pending /\ DecoderInit
  /\ \/ /\ conversion = "history"
        /\ \E kind \in ModelKinds, n \in 1 .. MaxMessages :
             \E history \in [1 .. n -> Messages] : input = <<kind, history>>
     \/ /\ conversion = "answer"
        /\ \E form \in Forms, events \in EventSequences :
             \E read \in 0 .. Len(events), end \in {"whole", "closed", "broken"} :
               \E torn \in CutsAt(events, read) :
                 /\ end = "whole" => read = Len(events) /\ torn = NotTorn
                 /\ input = [form |-> form, events |-> events, read |-> read,
                             torn |-> torn, end |-> end]
     \/ /\ conversion = "usage"
        /\ input \in EstimateSet \X Measures
     \/ conversion = "body" /\ input = <<>>

Finish(value) ==
  /\ result = Pending
  /\ result' = [done |-> TRUE, value |-> value]
  /\ UNCHANGED <<conversion, input, decoderVars>>

NormalizeHistory ==
  /\ conversion = "history"
  /\ LET contents == ConvertMessages(input[2])
     IN  Finish([ converted |-> contents,
                  repaired  |-> RepairTurns(contents, input[1].callIDs),
                  sent      |-> NormalizeContents(input[1], contents) ])

ReadAnswer ==
  /\ conversion = "answer"
  /\ Finish(StreamVertexResponse(input))

ReportUsage ==
  /\ conversion = "usage"
  /\ Finish([ openai    |-> OpenAIUsage(input[1], input[2]),
              anthropic |-> AnthropicUsage(input[1], input[2]),
              gemini    |-> GeminiUsageMetadata(input[1], input[2]) ])

ReadBody == conversion = "body" /\ DecoderNext /\ UNCHANGED <<conversion, input, result>>

ConversionNext == NormalizeHistory \/ ReadAnswer \/ ReportUsage \/ ReadBody

ConversionSpec == ConversionInit /\ [][ConversionNext]_conversionVars

-----------------------------------------------------------------------------
Done(kind) == result.done /\ conversion = kind

(* Whatever calls and responses a client lost, the upstream gets as many   *)
(* responses as calls, each the answer of its call (normalizeContents).    *)
HistoryPairsMatch ==
  Done("history") => PairsMatch(input[1], result.value.converted, result.value.repaired)

(* Responses that came in another order are only sorted: nothing of a      *)
(* complete turn is dropped or answered by another function's result.      *)
CompleteTurnsStay ==
  Done("history") => CompleteTurnsAreKept(result.value.converted, result.value.repaired)

(* Clients persist only the calls that completed (the comment on           *)
(* reconcileFunctionCallHistory); those are kept.                          *)
CompletedCallsAreKept ==
  Done("history") => AnsweredCallsAreKept(result.value.converted, result.value.repaired)

(* No text of the conversation is lost or moved, except the assistant's    *)
(* last for a model that cannot go on from it.                             *)
HistoryTextIsKept ==
  Done("history") => TextIsKept(input[1], result.value.converted, result.value.sent)

(* In each of the three forms a client gets what the upstream wrote, in    *)
(* order and once, up to the first failure.                                *)
AnswersAreRead == Done("answer") => AnswerIsRead(input, result.value)

(* The counts of a usage fit each other, also when the usage of a          *)
(* compaction is added to it (openAIUsage, combineOpenAIUsage).            *)
UsageAddsUp ==
  Done("usage") =>
    /\ AddsUp(result.value.openai)
    /\ \A c \in Compactions : AddsUp(CombineOpenAIUsage(OpenAIUsage(c[1], c[2]), result.value.openai))

(* The prompt, the output, the tools and the total that the upstream       *)
(* measured are not reported as less, whatever else it left out.  (The     *)
(* cached count is not among them: one above the prompt is cut down to it.)*)
MeasuredIsKept ==
  Done("usage") => KeepsMeasured(input[2], ResolveVertexUsage(input[1], input[2]))

(* A usage not marked as estimated is the same whatever the estimates from *)
(* the texts were, in all three protocols.                                 *)
ExactIsIndependent ==
  Done("usage") => \A f \in EstimateSet : SameKinds(input[1], f) =>
    /\ ~result.value.openai.estimated => result.value.openai = OpenAIUsage(f, input[2])
    /\ ~result.value.anthropic.estimated => result.value.anthropic = AnthropicUsage(f, input[2])
    /\ ~result.value.gemini.estimated => result.value.gemini = GeminiUsageMetadata(f, input[2])
=============================================================================
