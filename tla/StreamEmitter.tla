---------------------------- MODULE StreamEmitter ----------------------------
(***************************************************************************)
(* The results a Vertex stream is decoded into (CallResult), the emitter   *)
(* that hands them on with their finish reasons held back to the end of    *)
(* the stream (src/proxy/vertex.go), and the bookkeeping the three         *)
(* streaming protocol handlers share: the aggregate of what was received   *)
(* and the revision of the upstream's token usage (src/handler/chat.go,    *)
(* src/handler/usage.go).                                                  *)
(*                                                                         *)
(* A part is its kind and the number of the result that brought it; two    *)
(* function calls of one kind have the same id, name and arguments.  The   *)
(* usage of a result is its number, 0 without metadata.  A result has one  *)
(* candidate, the only one the two OpenAI streams read.                    *)
(***************************************************************************)
EXTENDS Naturals, Sequences, Subsequences

CONSTANT Calls      \* the function calls the upstream may make

ASSUME CallAssumption == Calls \cap {"text", "thought", "sign"} = {}

None == "none"
PartKinds == {"text", "thought", "sign"} \cup Calls
Reasons == {"STOP", "MAX_TOKENS", "SAFETY"}

EmptyResult ==
  [parts |-> << >>, grounding |-> FALSE, usage |-> 0,
   id |-> None, feedback |-> FALSE, finish |-> None]

OfKind(parts, kinds) == ItemsAt(parts, {i \in DOMAIN parts : parts[i].kind \in kinds})
Has(parts, kinds) == \E i \in DOMAIN parts : parts[i].kind \in kinds

HasContent(r) == r.parts # << >> \/ r.grounding

HasMetadata(r) == r.usage # 0 \/ r.id # None \/ r.feedback

IsEmpty(r) == ~HasContent(r) /\ ~HasMetadata(r) /\ r.finish = None

-----------------------------------------------------------------------------
(* vertexStreamEmitter: `pending` is the finish reason held back, if any.  *)

HandOnFinish(r) == r   \* mutant of DetachFinish: the reason stays in its result

DetachFinish(r) == [r EXCEPT !.finish = None]

HeldBack(pending, r) == IF r.finish # None THEN r.finish ELSE pending

FinishResult(reason) == [EmptyResult EXCEPT !.finish = reason]

-----------------------------------------------------------------------------
(* accumulateCallResult                                                    *)

Nothing == [parts |-> << >>, grounding |-> FALSE, feedback |-> FALSE, finish |-> None]

Accumulate(a, r) ==
  [parts     |-> a.parts \o r.parts,
   grounding |-> a.grounding \/ r.grounding,
   feedback  |-> a.feedback \/ r.feedback,
   finish    |-> IF r.finish # None THEN r.finish ELSE a.finish]

-----------------------------------------------------------------------------
(* streamUsageRevision: `metadata` is the number of the result with the    *)
(* usage, 0 when there was none.  A signature alone is no generated token. *)

Unmeasured == [outputRevision |-> 0, metadataAt |-> 0, metadata |-> 0]

Generates(r) == Has(r.parts, PartKinds \ {"sign"})

(* mutant of Observe: the metadata is taken to cover every later output    *)
ObserveAsCurrent(u, r) ==
  LET revision == IF Generates(r) THEN u.outputRevision + 1 ELSE u.outputRevision
  IN  [outputRevision |-> revision,
       metadataAt     |-> revision,
       metadata       |-> IF r.usage # 0 THEN r.usage ELSE u.metadata]

Observe(u, r) ==
  LET revision == IF Generates(r) THEN u.outputRevision + 1 ELSE u.outputRevision
  IN  [outputRevision |-> revision,
       metadataAt     |-> IF r.usage # 0 THEN revision ELSE u.metadataAt,
       metadata       |-> IF r.usage # 0 THEN r.usage ELSE u.metadata]

(* currentMetadata: all of the metadata, or only what later output leaves  *)
(* valid: the prompt and cache counters.                                   *)
CurrentMetadata(u) ==
  [from |-> u.metadata, whole |-> u.metadata # 0 /\ u.metadataAt = u.outputRevision]
=============================================================================
