------------------------------- MODULE Delivery -------------------------------
(***************************************************************************)
(* What a caller of VertexProxy is promised, whatever happens upstream:    *)
(* the chunks it is given are those of ONE upstream answer, in order and   *)
(* without gaps; the answer may be exchanged for that of a new attempt     *)
(* only while nothing of it was handed out; and "ok" is reported only for  *)
(* an answer handed out completely, which has assistant output when the    *)
(* caller requires it.                                                     *)
(***************************************************************************)
EXTENDS Naturals, Sequences

CONSTANT Kinds          \* kinds of chunks; "output" is assistant output

VARIABLES require,      \* the caller requires assistant output
          answer,       \* the chunks of the current upstream answer
          handed,       \* the chunks handed to the caller
          outcome       \* "open", "ok" or "error"

deliveryVars == <<require, answer, handed, outcome>>

IsPrefixOf(s, t) ==
  Len(s) <= Len(t) /\ \A i \in 1 .. Len(s) : s[i] = t[i]

HasOutput(s) == \E i \in 1 .. Len(s) : s[i] = "output"

Init ==
  /\ require \in BOOLEAN
  /\ answer = <<>> /\ handed = <<>>
  /\ outcome = "open"

(* A new attempt: allowed only as long as the caller has seen nothing.     *)
NewAnswer ==
  /\ outcome = "open" /\ handed = <<>>
  /\ answer' = <<>>
  /\ UNCHANGED <<require, handed, outcome>>

Extend ==
  /\ outcome = "open"
  /\ \E k \in Kinds : answer' = Append(answer, k)
  /\ UNCHANGED <<require, handed, outcome>>

(* One chunk is handed out, the first one the caller has not seen yet.     *)
HandOut ==
  /\ outcome = "open"
  /\ Len(handed) < Len(answer)
  /\ handed' = Append(handed, answer[Len(handed) + 1])
  /\ UNCHANGED <<require, answer, outcome>>

(* Success: the whole answer is in the caller's hands after this step.     *)
Succeed ==
  /\ outcome = "open"
  /\ IsPrefixOf(handed, answer)
  /\ require => HasOutput(answer)
  /\ handed' = answer
  /\ outcome' = "ok"
  /\ UNCHANGED <<require, answer>>

Fail ==
  /\ outcome = "open"
  /\ outcome' = "error"
  /\ UNCHANGED <<require, answer, handed>>

Next == NewAnswer \/ Extend \/ HandOut \/ Succeed \/ Fail

Spec == Init /\ [][Next]_deliveryVars
=============================================================================
