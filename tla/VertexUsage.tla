----------------------------- MODULE VertexUsage -----------------------------
(***************************************************************************)
(* The token counts that the APIs report (src/handler/usage.go).  The      *)
(* upstream may report any subset of its counters, some of them unusable,  *)
(* and totals that do not fit their parts; what is missing is derived from *)
(* the others or taken from an estimate.  The estimates from texts are     *)
(* given here; how they are made is data.                                  *)
(*                                                                         *)
(* metadata maps each counter of the upstream to what it reported, or to   *)
(* Absent.  Negative numbers stand for everything that is not a count.     *)
(* estimate is what the handler found in the answer: tokens of the prompt, *)
(* of visible and of reasoning output, and whether the answer stopped at   *)
(* its token limit.  Requests with a limit of no tokens are left out.      *)
(***************************************************************************)
EXTENDS Integers

CONSTANTS
  MaxInt,     \* the largest int of the platform
  Absent      \* a counter that was not reported

ASSUME UsageAssumption == MaxInt \in Nat \ {0} /\ Absent \notin Int

Parts == {"prompt", "candidates", "thoughts", "toolUse"}

Counters == Parts \cup {"total", "cached"}

Metadata == [Counters -> Int \cup {Absent}]

Estimates == [prompt : 0 .. MaxInt, candidates : 0 .. MaxInt, reasoning : 0 .. MaxInt,
              limited : BOOLEAN]

Reported(metadata, c) == metadata[c] # Absent

(* usageMetadataIntOK: a number that is not negative ...                   *)
Usable(metadata, c) == Reported(metadata, c) /\ metadata[c] >= 0

(* ... clamped to the range of int.                                        *)
Value(metadata, c) == IF metadata[c] > MaxInt THEN MaxInt ELSE metadata[c]

ValueOr(metadata, c, otherwise) == IF Usable(metadata, c) THEN Value(metadata, c) ELSE otherwise

MinInt(a, b) == IF a < b THEN a ELSE b
MaxOf(a, b)  == IF a > b THEN a ELSE b

SaturatingTokenAddLate(a, b) ==   \* mutant of SaturatingTokenAdd
  IF a >= MaxInt \/ b > MaxInt - a + 1 THEN MaxInt ELSE a + b

SaturatingTokenAdd(a, b) == IF a >= MaxInt \/ b >= MaxInt - a THEN MaxInt ELSE a + b

NonNegativeTokenDifference(total, used) == IF total <= used THEN 0 ELSE total - used

Input(r)  == SaturatingTokenAdd(r.prompt, r.toolUse)
Output(r) == SaturatingTokenAdd(r.candidates, r.thoughts)
Whole(r)  == SaturatingTokenAdd(Input(r), Output(r))

-----------------------------------------------------------------------------
(* resolveVertexUsage: the counts, and those of them that are exact.       *)

Initial(estimate, metadata) ==
  [ prompt     |-> ValueOr(metadata, "prompt", estimate.prompt),
    candidates |-> ValueOr(metadata, "candidates", estimate.candidates),
    thoughts   |-> ValueOr(metadata, "thoughts", estimate.reasoning),
    toolUse    |-> ValueOr(metadata, "toolUse", 0),
    total      |-> ValueOr(metadata, "total", 0),
    exact      |-> {c \in Parts \cup {"total"} : Usable(metadata, c)}
                     \cup (IF Reported(metadata, "toolUse") THEN {} ELSE {"toolUse"}) ]

WithoutTotalNorThoughts(r, metadata) ==   \* mutant of WithoutTotal: the test for 0 is gone
  LET exact == r.exact \cup (IF ~Reported(metadata, "thoughts") THEN {"thoughts"} ELSE {})
  IN  [r EXCEPT !.total = Whole(r),
                !.exact = exact \cup (IF Parts \subseteq exact THEN {"total"} ELSE {})]

(* No total: it is the sum.  Reasoning that is neither reported nor seen   *)
(* is taken for none.                                                      *)
WithoutTotal(r, metadata) ==
  LET exact == r.exact \cup (IF ~Reported(metadata, "thoughts") /\ r.thoughts = 0
                               THEN {"thoughts"} ELSE {})
  IN  [r EXCEPT !.total = Whole(r),
                !.exact = exact \cup (IF Parts \subseteq exact THEN {"total"} ELSE {})]

(* The prompt and the total are known: they settle one unknown output      *)
(* count, and bound two.                                                   *)
SplitOutput(r) ==
  LET output == NonNegativeTokenDifference(
                  NonNegativeTokenDifference(r.total, r.prompt), r.toolUse)
      thoughts == MinInt(r.thoughts, output)
  IN  CASE "candidates" \in r.exact /\ "thoughts" \in r.exact -> r
        [] "candidates" \in r.exact /\ "thoughts" \notin r.exact ->
             [r EXCEPT !.thoughts = NonNegativeTokenDifference(output, r.candidates),
                       !.exact = @ \cup {"thoughts"}]
        [] "candidates" \notin r.exact /\ "thoughts" \in r.exact ->
             [r EXCEPT !.candidates = NonNegativeTokenDifference(output, r.thoughts),
                       !.exact = @ \cup {"candidates"}]
        [] OTHER -> [r EXCEPT !.thoughts = thoughts, !.candidates = output - thoughts]

FitTotalDown(r) ==   \* mutant of FitTotal: the total is always made to fit
  IF r.total = Whole(r) THEN r
  ELSE [r EXCEPT !.total = Whole(r), !.exact = @ \ {"total"}]

(* What the total has in excess of its parts is counted as input; a total  *)
(* below them is corrected.                                                *)
FitTotal(r) ==
  CASE r.total > Whole(r) ->
         [r EXCEPT !.toolUse = SaturatingTokenAdd(@, r.total - Whole(r)),
                   !.exact = @ \ {"toolUse"}]
    [] r.total < Whole(r) -> [r EXCEPT !.total = Whole(r), !.exact = @ \ {"total"}]
    [] OTHER -> r

(* Only the total is known: the prompt is what is left of it.              *)
PromptFromTotal(r) ==
  LET nonPrompt == SaturatingTokenAdd(r.toolUse, Output(r))
  IN  IF r.total < nonPrompt
        THEN [r EXCEPT !.prompt = 0, !.total = nonPrompt, !.exact = @ \ {"total", "prompt"}]
        ELSE [r EXCEPT !.prompt = r.total - nonPrompt,
                       !.exact = IF {"candidates", "thoughts", "toolUse"} \subseteq @
                                   THEN @ \cup {"prompt"} ELSE @]

ResolveVertexUsage(estimate, metadata) ==
  LET r == Initial(estimate, metadata)
  IN  CASE "total" \notin r.exact -> WithoutTotal(r, metadata)
        [] "total" \in r.exact /\ "prompt" \in r.exact -> FitTotal(SplitOutput(r))
        [] OTHER -> PromptFromTotal(r)

-----------------------------------------------------------------------------
(* openAIReasoningTokenDetails.  The share of visible output that was      *)
(* reasoning is rounded to the nearest count.                              *)
ReasoningShare(r, estimate) ==
  LET all == SaturatingTokenAdd(estimate.candidates, estimate.reasoning)
      share == (2 * r.candidates * estimate.reasoning + all) \div (2 * all)
  IN  MaxOf(1, MinInt(share, r.candidates))

ReasoningTokenDetails(r, estimate) ==
  LET known     == MinInt(r.thoughts, Output(r))
      exhausted == estimate.limited /\ estimate.candidates = 0 /\ r.thoughts > 0
      plus(n)   == MinInt(SaturatingTokenAdd(known, n), Output(r))
      measured  == {"thoughts", "candidates"} \subseteq r.exact
  IN  CASE (estimate.reasoning = 0 /\ ~exhausted) \/ r.candidates = 0 ->
             [tokens |-> known, exact |-> "thoughts" \in r.exact]
        [] ~((estimate.reasoning = 0 /\ ~exhausted) \/ r.candidates = 0) /\ ~measured ->
             [tokens |-> known, exact |-> FALSE]
        [] OTHER ->
             IF estimate.candidates = 0
               THEN [tokens |-> plus(r.candidates), exact |-> TRUE]
               ELSE [tokens |-> plus(ReasoningShare(r, estimate)), exact |-> FALSE]

Cached(metadata) == ValueOr(metadata, "cached", 0)

AllExact == Parts \cup {"total"}

OpenAIUsage(estimate, metadata) ==
  LET r == ResolveVertexUsage(estimate, metadata)
      reasoning == ReasoningTokenDetails(r, estimate)
  IN  [ prompt     |-> Input(r),
        completion |-> Output(r),
        total      |-> r.total,
        cached     |-> MinInt(Cached(metadata), r.prompt),
        reasoning  |-> reasoning.tokens,
        estimated  |-> ~( AllExact \subseteq r.exact /\ Cached(metadata) <= r.prompt
                          /\ reasoning.exact ) ]

(* combineOpenAIUsage: a compaction and the answer after it.               *)
CombineOpenAIUsage(u, v) ==
  [c \in {"prompt", "completion", "total", "cached", "reasoning"} |->
     SaturatingTokenAdd(u[c], v[c])]

(* The input is reported without what came from the cache.                 *)
AnthropicUsage(estimate, metadata) ==
  LET r == ResolveVertexUsage(estimate, metadata)
      output == IF Output(r) = 0 /\ "candidates" \notin r.exact THEN 1 ELSE Output(r)
  IN  [ input     |-> MaxOf(0, Input(r) - Cached(metadata)),
        output    |-> output,
        cached    |-> Cached(metadata),
        thinking  |-> r.thoughts,
        estimated |-> ~(Parts \subseteq r.exact) ]

(* Counts of tools and thoughts that are zero and were not reported are    *)
(* left out.                                                               *)
GeminiUsageMetadata(estimate, metadata) ==
  LET r == ResolveVertexUsage(estimate, metadata)
      shown(c) == r[c] > 0 \/ Usable(metadata, c)
  IN  [ counts    |-> [c \in {"prompt", "candidates", "total"}
                            \cup {d \in {"toolUse", "thoughts"} : shown(d)} |-> r[c]],
        estimated |-> ~(AllExact \subseteq r.exact) ]

-----------------------------------------------------------------------------
(* What is promised of them.                                               *)

(* The parts of a usage add up to its total, a detail is no more than what *)
(* it is a detail of, and this survives the sum of two usages.             *)
AddsUp(u) ==
  /\ u.total = SaturatingTokenAdd(u.prompt, u.completion)
  /\ u.cached <= u.prompt
  /\ u.reasoning <= u.completion

(* The prompt and the output that the upstream measured are reported as    *)
(* they are, tools and the total are at least what was measured.  (A       *)
(* cached count is cut down to the prompt: see AddsUp.)                    *)
KeepsMeasured(metadata, r) ==
  /\ \A c \in {"candidates", "thoughts"} : Usable(metadata, c) => r[c] = Value(metadata, c)
  /\ Usable(metadata, "toolUse") => r.toolUse >= Value(metadata, "toolUse")
  /\ Usable(metadata, "total") => r.total >= Value(metadata, "total")
  /\ Usable(metadata, "prompt") => r.prompt = Value(metadata, "prompt")

(* Two estimates that found the same kinds of output.                      *)
SameKinds(e, f) ==
  /\ e.candidates = 0 <=> f.candidates = 0
  /\ e.reasoning = 0 <=> f.reasoning = 0
  /\ e.limited = f.limited
=============================================================================
