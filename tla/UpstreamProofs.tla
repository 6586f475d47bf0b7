---------------------------- MODULE UpstreamProofs ----------------------------
(***************************************************************************)
(* What the proxy promises of its upstream requests (src/proxy/vertex.go): *)
(* the theorems of RetryLoop, one request and its attempts, for every      *)
(* retry and refresh limit and answers of any length; and those of         *)
(* UpstreamAttempts, the attempts of concurrent requests with the counters *)
(* and the Code 3 log they leave behind, for any finite set of requests.   *)
(***************************************************************************)
EXTENDS RetryLoop, UpstreamAttempts, FiniteSetTheorems, SequenceTheorems, TLAPS

-----------------------------------------------------------------------------
(* RetryLoop.                                                              *)

(* onChunk is only called for chunks that have arrived.                    *)
SentArrived == sent <= Len(chunks) /\ (pc = "pass" => sent < Len(chunks))

TypeInv == TypeOK /\ SentArrived

LEMMA TypeInvHolds == Spec => []TypeInv
<1>1. Init => TypeInv
  <2> SUFFICES ASSUME Init PROVE TypeInv
    OBVIOUS
  <2>1. exempted \in BOOLEAN /\ bypassed \in BOOLEAN /\ emitted \in BOOLEAN /\ cancelled \in BOOLEAN
    BY Zenon DEF Init
  <2> QED
    BY <2>1, LoopAssumption DEF Init, TypeInv, SentArrived, TypeOK, Failures, Upstream
<1>2. TypeInv /\ [Next]_vars => TypeInv'
  <2> SUFFICES ASSUME TypeInv, [Next]_vars
               PROVE  TypeInv'
    OBVIOUS
  <2> USE LoopAssumption
      DEF TypeInv, SentArrived, TypeOK, loopVars, attemptVars, history, Begin, Pause, Failures, Upstream
  <2>1. CASE Cancel
    BY <2>1 DEF Cancel
  <2>2. ASSUME ReturnError PROVE TypeInv'
    BY <2>2 DEF ReturnError
  <2>3. CASE StartAttempt
    <3>1. emitted' \in BOOLEAN
      BY <2>3, Zenon DEF StartAttempt
    <3> QED
      BY <2>3, <3>1 DEF StartAttempt
  <2>4. CASE Receive
    <3>1. PICK k \in Kinds : chunks' = Append(chunks, k)
      BY <2>4 DEF Receive
    <3>2. chunks' \in Seq(Kinds) /\ Len(chunks') = Len(chunks) + 1
      BY <3>1
    <3> QED
      BY <2>4, <3>2 DEF Receive, Passes
  <2>5. CASE Pass
    <3>1. sent + 1 \in 1 .. Len(chunks)
      BY <2>5 DEF Pass
    <3>2. handed' \in Seq(Kinds)
      BY <2>5, <3>1 DEF Pass
    <3> QED
      BY <2>5, <3>1, <3>2 DEF Pass
  <2>6. CASE PassFails
    BY <2>6 DEF PassFails
  <2>7. CASE Succeed
    BY <2>7 DEF Succeed, Answered
  <2>8. CASE AttemptFails
    BY <2>8 DEF AttemptFails
  <2>9. CASE Bypass
    BY <2>9 DEF Bypass, MayGoOn
  <2>10. CASE Exempt
    BY <2>10 DEF Exempt, MayGoOn
  <2>11. CASE Retry
    BY <2>11 DEF Retry
  <2>12. CASE Exhaust
    BY <2>12 DEF Exhaust
  <2>13. CASE RejectToken
    BY <2>13 DEF RejectToken
  <2>14. CASE Refresh
    <3>1. exempted' \in BOOLEAN
      BY <2>14, Zenon DEF Refresh
    <3> QED
      BY <2>14, <3>1 DEF Refresh
  <2>15. CASE Wake
    BY <2>15 DEF Wake
  <2>16. CASE UNCHANGED vars
    BY <2>16 DEF vars
  <2>17. CASE LookBefore \/ LookAfter
    BY <2>17 DEF LookBefore, LookAfter, Looked
  <2> QED
    BY <2>1, <2>2, <2>3, <2>4, <2>5, <2>6, <2>7, <2>8, <2>9, <2>10, <2>11, <2>12,
       <2>13, <2>14, <2>15, <2>16, <2>17
       DEF Next, Step, Finished, ReturnCancelled, GiveUp, NotRetryable, RefreshFails
<1> QED
  BY <1>1, <1>2, PTL DEF Spec

(* The variables of the loop keep their types.                             *)
THEOREM TypeCorrect == Spec => []TypeOK
<1>1. TypeInv => TypeOK
  BY DEF TypeInv
<1> QED
  BY <1>1, TypeInvHolds, PTL

-----------------------------------------------------------------------------
(***************************************************************************)
(* The attempt budget.  Recorded bounds the attempts by what the counters  *)
(* record; PerToken is the budget of one token.                            *)
(***************************************************************************)
PerToken == MaxRetry + 2

Bit(b) == IF b THEN 1 ELSE 0

Recorded == refreshCount * PerToken + tokenRetry + Bit(exempted) + Bit(bypassed)

BudgetInv ==
  /\ pc \in {"check", "begin", "sleep", "receive", "pass", "failed", "decide"} =>
       tokenRetry <= MaxRetry
  /\ pc \in {"check", "begin", "sleep"} => attempts <= Recorded
  /\ pc \in {"receive", "pass", "failed", "decide"} => attempts <= Recorded + 1
  /\ attempts <= refreshCount * PerToken + PerToken + Bit(bypassed)

(* The only two facts of multiplication the budget needs.                  *)
LEMMA RefreshBudget ==
  ASSUME NEW r \in Nat, NEW k \in Nat
  PROVE  (r + 1) * k = r * k + k /\ r * k \in Nat
  OBVIOUS

LEMMA RefreshBudgetMonotone ==
  ASSUME NEW r \in Nat, NEW m \in Nat, NEW k \in Nat, r <= m
  PROVE  r * k <= m * k
<1>1. PICK d \in Nat : m = r + d
  <2>1. m - r \in Nat /\ m = r + (m - r)
    OBVIOUS
  <2> QED
    BY <2>1
<1>2. m * k = r * k + d * k
  BY <1>1
<1>3. d * k \in Nat /\ r * k \in Nat
  OBVIOUS
<1> QED
  BY <1>2, <1>3

LEMMA BudgetInvHolds == Spec => []BudgetInv
<1>1. Init => BudgetInv
  BY LoopAssumption, RefreshBudget DEF Init, BudgetInv, Recorded, Bit, PerToken
<1>2. TypeInv /\ BudgetInv /\ [Next]_vars => BudgetInv'
  <2> SUFFICES ASSUME TypeInv, BudgetInv, [Next]_vars
               PROVE  BudgetInv'
    OBVIOUS
  <2> DEFINE base == refreshCount * PerToken
  <2>b. base \in Nat /\ (refreshCount + 1) * PerToken = base + PerToken
    BY RefreshBudget, LoopAssumption DEF TypeInv, TypeOK, PerToken
  <2>r. UNCHANGED refreshCount => base' = base
    BY DEF PerToken
  <2> USE LoopAssumption DEF TypeInv, TypeOK, BudgetInv, Recorded, Bit, PerToken, loopVars, history, Pause
  <2> HIDE DEF base
  <2>1. CASE Cancel
    BY <2>1, <2>r DEF Cancel
  <2>2. ASSUME ReturnError PROVE BudgetInv'
    BY <2>2, <2>r DEF ReturnError
  <2>3. CASE StartAttempt
    BY <2>3, <2>r, <2>b DEF StartAttempt, base
  <2>4. CASE Receive
    BY <2>4, <2>r DEF Receive
  <2>5. CASE Pass
    BY <2>5, <2>r DEF Pass
  <2>6. CASE PassFails
    BY <2>6, <2>r DEF PassFails
  <2>7. CASE Succeed
    BY <2>7, <2>r DEF Succeed
  <2>8. CASE AttemptFails
    BY <2>8, <2>r DEF AttemptFails
  <2>9. CASE Bypass
    BY <2>9, <2>r, <2>b DEF Bypass, MayGoOn, base
  <2>10. CASE Exempt
    BY <2>10, <2>r, <2>b DEF Exempt, MayGoOn, base
  <2>11. CASE Retry
    BY <2>11, <2>r, <2>b DEF Retry, Charged, MayGoOn, base
  <2>12. CASE Exhaust
    BY <2>12, <2>r, <2>b DEF Exhaust, Charged, MayGoOn, base
  <2>13. CASE RejectToken
    BY <2>13, <2>r, <2>b DEF RejectToken, MayGoOn, base
  <2>14. CASE Refresh
    BY <2>14, <2>b DEF Refresh, base
  <2>15. CASE Wake
    BY <2>15, <2>r DEF Wake
  <2>16. CASE UNCHANGED vars
    BY <2>16, <2>r DEF vars
  <2>17. CASE LookBefore \/ LookAfter
    <3>1. CASE Looked("check", "begin")
      BY <3>1, <2>r DEF Looked
    <3>2. CASE Looked("failed", "decide")
      BY <3>2, <2>r DEF Looked
    <3> QED
      BY <2>17, <3>1, <3>2 DEF LookBefore, LookAfter
  <2> QED
    BY <2>1, <2>2, <2>3, <2>4, <2>5, <2>6, <2>7, <2>8, <2>9, <2>10, <2>11, <2>12,
       <2>13, <2>14, <2>15, <2>16, <2>17
       DEF Next, Step, Finished, ReturnCancelled, GiveUp, NotRetryable, RefreshFails
<1> QED
  BY <1>1, <1>2, TypeInvHolds, PTL DEF Spec

(* One request makes at most (MaxRefresh + 1) * (MaxRetry + 2) + 1         *)
(* upstream attempts, for every configuration of the limits.               *)
THEOREM AttemptBudget == Spec => []AttemptsBounded
<1>1. TypeInv /\ BudgetInv => AttemptsBounded
  <2> SUFFICES ASSUME TypeInv, BudgetInv PROVE AttemptsBounded
    OBVIOUS
  <2>1. refreshCount * PerToken <= MaxRefresh * PerToken
    BY RefreshBudgetMonotone, LoopAssumption DEF TypeInv, TypeOK, PerToken
  <2>2. (MaxRefresh + 1) * PerToken = MaxRefresh * PerToken + PerToken
    BY RefreshBudget, LoopAssumption DEF PerToken
  <2>3. /\ refreshCount * PerToken \in Nat /\ MaxRefresh * PerToken \in Nat
        /\ PerToken \in Nat /\ attempts \in Nat /\ Bit(bypassed) \in 0 .. 1
    BY RefreshBudget, LoopAssumption DEF TypeInv, TypeOK, PerToken, Bit
  <2>4. attempts <= refreshCount * PerToken + PerToken + Bit(bypassed)
    BY DEF BudgetInv
  <2>5. attempts <= (MaxRefresh + 1) * PerToken + 1
    BY <2>1, <2>2, <2>3, <2>4
  <2> QED
    BY <2>5 DEF AttemptsBounded, PerToken
<1> QED
  BY <1>1, TypeInvHolds, BudgetInvHolds, PTL

-----------------------------------------------------------------------------
(***************************************************************************)
(* What the caller holds.  HandedIsPrefix is not inductive alone: between  *)
(* attempts the caller must be known to hold nothing, and during one to    *)
(* hold exactly the chunks that were passed on.                            *)
(***************************************************************************)
Open == pc # "done"

Streaming == pc \in {"receive", "pass", "failed", "decide"}

HandInv ==
  /\ Open <=> outcome = "open"
  /\ pc \in {"check", "begin", "sleep", "refresh"} => handed = <<>>
  /\ mode = "call" /\ Open => handed = <<>>
  /\ mode = "stream" /\ Streaming => Len(handed) = sent
  /\ pc = "pass" => mode = "stream"
  /\ mode = "stream" /\ Streaming /\ ~emitted => sent = 0
  /\ mode = "stream" /\ pc = "receive" /\ (require => HasOutput(chunks)) => sent = Len(chunks)
  /\ HandedIsPrefix

LEMMA HasOutputAppend ==
  ASSUME NEW s \in Seq(Kinds), NEW k \in Kinds
  PROVE  HasOutput(Append(s, k)) <=> HasOutput(s) \/ k = "output"
<1>1. Len(Append(s, k)) = Len(s) + 1 /\ Append(s, k)[Len(s) + 1] = k
  OBVIOUS
<1>2. \A i \in 1 .. Len(s) : Append(s, k)[i] = s[i]
  OBVIOUS
<1> QED
  BY <1>1, <1>2 DEF HasOutput

LEMMA HandInvHolds == Spec => []HandInv
<1>1. Init => HandInv
  BY DEF Init, HandInv, Open, Streaming, HandedIsPrefix
<1>2. TypeInv /\ HandInv /\ [Next]_vars => HandInv'
  <2> SUFFICES ASSUME TypeInv, HandInv, [Next]_vars
               PROVE  HandInv'
    OBVIOUS
  <2> USE DEF TypeInv, SentArrived, TypeOK, HandInv, Open, Streaming, HandedIsPrefix,
              loopVars, attemptVars, Pause
  <2>1. CASE Cancel
    BY <2>1 DEF Cancel, HasOutput
  <2>2. ASSUME ReturnError, Open PROVE HandInv'
    BY <2>2 DEF ReturnError
  <2>3. CASE StartAttempt
    BY <2>3 DEF StartAttempt, HasOutput
  <2>4. CASE Receive
    <3>1. PICK k \in Kinds : chunks' = Append(chunks, k) /\ pc' = IF Passes(k) THEN "pass" ELSE "receive"
      BY <2>4 DEF Receive
    <3>2. /\ chunks' \in Seq(Kinds) /\ Len(chunks') = Len(chunks) + 1
          /\ \A i \in 1 .. Len(chunks) : chunks'[i] = chunks[i]
      BY <3>1
    <3>3. HasOutput(chunks') <=> HasOutput(chunks) \/ k = "output"
      BY <3>1, HasOutputAppend
    <3>4. /\ pc = "receive"
          /\ UNCHANGED <<mode, require, sent, emitted, handed, outcome>>
      BY <2>4 DEF Receive
    <3>5. HandedIsPrefix'
      BY <3>2, <3>4
    <3>6. CASE Passes(k)
      BY <3>1, <3>4, <3>5, <3>6 DEF Passes
    <3>7. CASE ~Passes(k)
      BY <3>1, <3>3, <3>4, <3>5, <3>7 DEF Passes
    <3> QED
      BY <3>6, <3>7
  <2>5. CASE Pass
    <3>1. sent + 1 \in 1 .. Len(chunks) /\ mode = "stream" /\ Len(handed) = sent
      BY <2>5 DEF Pass
    <3>2. handed' = Append(handed, chunks[sent + 1]) /\ chunks' = chunks
      BY <2>5 DEF Pass
    <3>3. Len(handed') = sent + 1 /\ \A i \in 1 .. sent + 1 : handed'[i] = chunks[i]
      BY <3>1, <3>2
    <3>4. emitted'
      BY <2>5, Zenon DEF Pass
    <3> QED
      BY <2>5, <3>1, <3>2, <3>3, <3>4 DEF Pass
  <2>6. CASE PassFails
    <3>1. emitted'
      BY <2>6, Zenon DEF PassFails
    <3> QED
      BY <2>6, <3>1 DEF PassFails
  <2>7. CASE Succeed
    BY <2>7 DEF Succeed, Answered
  <2>8. CASE AttemptFails
    BY <2>8 DEF AttemptFails
  <2>9. CASE Bypass
    BY <2>9 DEF Bypass, MayGoOn
  <2>10. CASE Exempt
    BY <2>10 DEF Exempt, MayGoOn
  <2>11. CASE Retry
    BY <2>11 DEF Retry, Charged, MayGoOn
  <2>12. CASE Exhaust
    BY <2>12 DEF Exhaust, Charged, MayGoOn
  <2>13. CASE RejectToken
    BY <2>13 DEF RejectToken, MayGoOn
  <2>14. CASE Refresh
    BY <2>14 DEF Refresh
  <2>15. CASE Wake
    BY <2>15 DEF Wake
  <2>16. CASE UNCHANGED vars
    BY <2>16 DEF vars, HasOutput
  <2>17. CASE LookBefore \/ LookAfter
    BY <2>17 DEF LookBefore, LookAfter, Looked, HasOutput
  <2> QED
    BY <2>1, <2>2, <2>3, <2>4, <2>5, <2>6, <2>7, <2>8, <2>9, <2>10, <2>11, <2>12,
       <2>13, <2>14, <2>15, <2>16, <2>17
       DEF Next, Step, Finished, ReturnCancelled, GiveUp, NotRetryable, RefreshFails,
           MayGoOn
<1> QED
  BY <1>1, <1>2, TypeInvHolds, PTL DEF Spec

(* No chunk of an abandoned attempt stays with the caller, and none is     *)
(* skipped, repeated or reordered.                                         *)
THEOREM HandedPrefix == Spec => []HandedIsPrefix
<1>1. HandInv => HandedIsPrefix
  BY DEF HandInv
<1> QED
  BY <1>1, HandInvHolds, PTL

(***************************************************************************)
(* Why a token is exchanged.  Blamed is inductive: only Exhaust and        *)
(* RejectToken lead to "refresh", and nothing is left to do there but to   *)
(* exchange the token or to return.                                        *)
(***************************************************************************)
Blamed ==
  \/ failure = "invalid"
  \/ failure = "exhausted" /\ tokenRetry = MaxRetry + 1
  \/ failure = "verify" /\ tokenRetry = MaxRetry + 1 /\ exempted

BlameInv == pc = "refresh" => Blamed

LEMMA BlameInvHolds == Spec => []BlameInv
<1>1. Init => BlameInv
  BY DEF Init, BlameInv
<1>2. BlameInv /\ [Next]_vars => BlameInv'
  <2> SUFFICES ASSUME BlameInv, [Next]_vars
               PROVE  BlameInv'
    OBVIOUS
  <2> USE DEF BlameInv, Blamed
  <2>1. CASE Exhaust
    <3>1. tokenRetry' = MaxRetry + 1 /\ failure' = failure /\ exempted' = exempted
      BY <2>1, LoopAssumption DEF Exhaust
    <3>2. pc' = "refresh" => failure # "noOutput"
      BY <2>1 DEF Exhaust
    <3>3. failure \in {"exhausted", "noOutput"} \/ (failure = "verify" /\ exempted)
      BY <2>1 DEF Exhaust, Charged
    <3> QED
      BY <3>1, <3>2, <3>3
  <2>2. CASE RejectToken
    BY <2>2 DEF RejectToken
  <2>3. CASE Cancel
    BY <2>3 DEF Cancel, loopVars
  <2>4. CASE UNCHANGED vars
    BY <2>4 DEF vars, loopVars
  <2>5. ASSUME \/ ReturnCancelled \/ LookBefore \/ LookAfter \/ StartAttempt \/ Receive \/ Pass \/ PassFails
               \/ Succeed \/ AttemptFails \/ GiveUp \/ Bypass \/ NotRetryable
               \/ Exempt \/ Retry \/ Refresh \/ RefreshFails \/ Wake
        PROVE  pc' # "refresh"
    BY <2>5 DEF ReturnCancelled, ReturnError, LookBefore, LookAfter, Looked, Pause, StartAttempt, Receive, Pass, PassFails,
         Succeed, AttemptFails, GiveUp, Bypass, NotRetryable, Exempt, Retry, Refresh,
         RefreshFails, Wake
  <2> QED
    BY <2>1, <2>2, <2>3, <2>4, <2>5 DEF Next, Step, Finished
<1> QED
  BY <1>1, <1>2, PTL DEF Spec

(* A token is exchanged only when it is to blame and the caller has        *)
(* nothing of the answer (the breaks out of the inner loop of call and     *)
(* stream).                                                                *)
THEOREM RefreshOnlyWhenDue == Spec => []RefreshIsDue
<1>1. BlameInv /\ HandInv => RefreshIsDue
  BY DEF BlameInv, Blamed, HandInv, RefreshIsDue
<1> QED
  BY <1>1, BlameInvHolds, HandInvHolds, PTL

(***************************************************************************)
(* What the loop still begins once ctx is done.  Where it is about to      *)
(* begin an attempt or to decide on a pause, nothing was begun too late:   *)
(* it came there past a look at ctx.                                       *)
(***************************************************************************)
WindDownInv ==
  late \in 0 .. 1 /\ (late = 1 => cancelled /\ pc \notin {"begin", "decide", "refresh"})

LEMMA WindDownInvHolds == Spec => []WindDownInv
<1>1. Init => WindDownInv
  BY DEF Init, WindDownInv
<1>2. WindDownInv /\ [Next]_vars => WindDownInv'
  <2> SUFFICES ASSUME WindDownInv, [Next]_vars
               PROVE  WindDownInv'
    OBVIOUS
  <2> USE DEF WindDownInv, history, Begin, Pause
  <2>1. CASE Cancel \/ Finished \/ UNCHANGED vars
    BY <2>1 DEF Cancel, Finished, vars
  <2>2. CASE LookBefore \/ LookAfter
    BY <2>2 DEF LookBefore, LookAfter, Looked
  <2>3. CASE StartAttempt
    BY <2>3 DEF StartAttempt
  <2>4. CASE Receive \/ Pass \/ PassFails \/ Succeed \/ AttemptFails
    BY <2>4 DEF Receive, Pass, PassFails, Succeed, Answered, AttemptFails
  <2>5. CASE Exempt \/ Retry \/ Refresh
    BY <2>5 DEF Exempt, Retry, Charged, MayGoOn, Refresh
  <2>6. CASE Bypass \/ Exhaust \/ RejectToken
    BY <2>6 DEF Bypass, Exhaust, Charged, RejectToken, MayGoOn
  <2>7. CASE Wake \/ ReturnError
    BY <2>7 DEF Wake, ReturnError
  <2> QED
    BY <2>1, <2>2, <2>3, <2>4, <2>5, <2>6, <2>7
       DEF Next, Step, ReturnCancelled, GiveUp, NotRetryable, RefreshFails
<1> QED
  BY <1>1, <1>2, PTL DEF Spec

(* Once ctx is done, wherever the loop is, it begins one more attempt or   *)
(* pause at most (call and stream).                                        *)
THEOREM CancelledRequestsWindDown == Spec => []WindsDown
<1>1. WindDownInv => WindsDown
  BY DEF WindDownInv, WindsDown
<1> QED
  BY <1>1, WindDownInvHolds, PTL

(* VertexProxy.call and VertexProxy.stream implement Delivery: one answer, *)
(* in order, reported as a success only when complete.                     *)
THEOREM ImplementsDelivery == Spec => DeliverySpec
<1>1. Init => Promise!Init
  BY DEF Init, Promise!Init
<1>2. TypeInv /\ HandInv /\ [Next]_vars => [Promise!Next]_(Promise!deliveryVars)
  <2> SUFFICES ASSUME TypeInv, HandInv, [Next]_vars
               PROVE  [Promise!Next]_(Promise!deliveryVars)
    OBVIOUS
  <2> USE DEF TypeInv, SentArrived, TypeOK, HandInv, Open, Streaming, HandedIsPrefix,
              attemptVars, Promise!Next, Promise!deliveryVars
  <2>1. CASE Cancel
    BY <2>1 DEF Cancel
  <2>2. ASSUME ReturnError, Open PROVE Promise!Fail
    BY <2>2 DEF ReturnError, Promise!Fail
  <2>3. CASE StartAttempt
    BY <2>3 DEF StartAttempt, Promise!NewAnswer
  <2>4. CASE Receive
    BY <2>4 DEF Receive, Promise!Extend
  <2>5. CASE Pass
    <3>1. mode = "stream" /\ Len(handed) = sent /\ sent < Len(chunks)
      BY <2>5 DEF Pass
    <3> QED
      BY <2>5, <3>1 DEF Pass, Promise!HandOut
  <2>6. CASE PassFails
    BY <2>6 DEF PassFails
  <2>7. CASE Succeed
    <3>1. handed' = chunks
      <4>1. CASE mode = "call"
        BY <2>7, <4>1 DEF Succeed
      <4>2. CASE mode = "stream"
        <5>1. Len(handed) = Len(chunks) /\ \A i \in 1 .. Len(chunks) : handed[i] = chunks[i]
          BY <2>7, <4>2 DEF Succeed, Answered
        <5>2. handed = chunks
          BY <5>1
        <5> QED
          BY <2>7, <4>2, <5>2 DEF Succeed
      <4> QED
        BY <4>1, <4>2
    <3>2. require => Promise!HasOutput(chunks)
      BY <2>7 DEF Succeed, Answered, HasOutput, Promise!HasOutput
    <3> QED
      BY <2>7, <3>1, <3>2 DEF Succeed, Answered, Promise!Succeed, Promise!IsPrefixOf
  <2>8. CASE AttemptFails
    BY <2>8 DEF AttemptFails
  <2>9. CASE Bypass
    BY <2>9 DEF Bypass
  <2>10. CASE Exempt
    BY <2>10 DEF Exempt
  <2>11. CASE Retry
    BY <2>11 DEF Retry
  <2>12. CASE Exhaust
    BY <2>12 DEF Exhaust, Charged, MayGoOn, Promise!Fail
  <2>13. CASE RejectToken
    BY <2>13 DEF RejectToken
  <2>14. CASE Refresh
    BY <2>14 DEF Refresh
  <2>15. CASE Wake
    BY <2>15 DEF Wake
  <2>16. CASE UNCHANGED vars
    BY <2>16 DEF vars
  <2>17. CASE LookBefore \/ LookAfter
    BY <2>17 DEF LookBefore, LookAfter, Looked
  <2> QED
    BY <2>1, <2>2, <2>3, <2>4, <2>5, <2>6, <2>7, <2>8, <2>9, <2>10, <2>11, <2>12,
       <2>13, <2>14, <2>15, <2>16, <2>17
       DEF Next, Step, Finished, ReturnCancelled, GiveUp, NotRetryable, RefreshFails,
           MayGoOn
<1> QED
  BY <1>1, <1>2, TypeInvHolds, HandInvHolds, PTL DEF Spec, DeliverySpec, Promise!Spec

-----------------------------------------------------------------------------
(* UpstreamAttempts.                                                       *)

(* A line without its newline is a line, and a capturer has an error.      *)
LogInv ==
  /\ LogTypeOK
  /\ ended \/ lines # << >>
  /\ \A g \in Capturers : capturePC[g] # "idle" => error[g] # NoError

(* The file after one more fragment is a sequence of lines.                *)
LEMMA AppendedIsLines ==
  ASSUME LogInv, NEW f \in Fragments
  PROVE  Appended(f) \in Seq(Seq(Fragments)) /\ Appended(f) # << >>
PROOF
  <1> DEFINE Lines == Seq(Fragments)
  <1>0. lines \in Seq(Lines) /\ << f >> \in Lines
    BY DEF LogInv, LogTypeOK
  <1>1. CASE ended
    <2> HIDE DEF Lines
    <2>1. Append(lines, << f >>) \in Seq(Lines)
      BY <1>0
    <2>3. Append(lines, << f >>) # << >>
      BY <1>0, AppendProperties
    <2> QED BY <1>1, <2>1, <2>3 DEF Appended, Lines
  <1>2. CASE ~ended
    <2>1. lines # << >> /\ Len(lines) \in Nat \ {0} /\ Len(lines) \in DOMAIN lines
      BY <1>0, <1>2 DEF LogInv
    <2>2. Append(Last(lines), f) \in Lines
      <3>1. lines[Len(lines)] \in Lines
        <4> HIDE DEF Lines
        <4> QED BY <1>0, <2>1
      <3> QED BY <3>1 DEF Last
    <2> HIDE DEF Lines
    <2>3. Front(lines) \in Seq(Lines)
      BY <1>0, <2>1 DEF Front
    <2>4. /\ Front(lines) \o << Append(Last(lines), f) >> \in Seq(Lines)
          /\ Front(lines) \o << Append(Last(lines), f) >> # << >>
      BY <2>2, <2>3
    <2> QED BY <1>2, <2>4 DEF Appended, Lines
  <1> QED BY <1>1, <1>2 DEF LogInv, LogTypeOK

(* A capturer past its lock has an entry to write.                         *)
LEMMA EntryIsFragment ==
  ASSUME LogInv, NEW g \in Capturers, capturePC[g] # "idle"
  PROVE  /\ error[g] \in Errors
         /\ Entry(g) \in Fragments
         /\ \A w \in BOOLEAN : [Entry(g) EXCEPT !.whole = w] \in Fragments
  BY DEF LogInv, LogTypeOK, Entry, Fragments

LEMMA CaptureKeepsTypes ==
  ASSUME LogInv, NEW g \in Capturers, Capture(g)
  PROVE  LogInv'
PROOF
  <1> USE LogAssumption DEF LogInv, LogTypeOK, CaptureStates, Goto, Leave
  <1>1. CASE Lock(g)
    BY <1>1 DEF Lock
  <1>2. CASE Scan(g)
    BY <1>2 DEF Scan
  <1>3. CASE OpenAppend(g)
    BY <1>3 DEF OpenAppend
  <1>4. CASE WriteEntry(g)
    <2>1. CASE orphan[g]
      BY <1>4, <2>1 DEF WriteEntry
    <2>2. CASE ~orphan[g]
      <3>1. lines' = Appended(Entry(g)) /\ capturePC[g] # "idle"
        BY <1>4, <2>2 DEF WriteEntry
      <3>2. lines' \in Seq(Seq(Fragments)) /\ lines' # << >>
        BY <3>1, EntryIsFragment, AppendedIsLines
      <3> QED BY <1>4, <3>2 DEF WriteEntry
    <2> QED BY <2>1, <2>2
  <1>5. CASE WriteTorn(g)
    <2>1. PICK w \in BOOLEAN : lines' = Appended([Entry(g) EXCEPT !.whole = w])
      BY <1>5 DEF WriteTorn
    <2>2. capturePC[g] # "idle"
      BY <1>5 DEF WriteTorn
    <2>3. lines' \in Seq(Seq(Fragments)) /\ lines' # << >>
      BY <2>1, <2>2, EntryIsFragment, AppendedIsLines
    <2>4. tears' \in 0 .. MaxTears
      BY <1>5 DEF WriteTorn
    <2> QED BY <1>5, <2>3, <2>4 DEF WriteTorn
  <1>6. CASE SyncAndClose(g)
    <2>1. captured' \in [Errors -> Nat]
      BY <1>6, EntryIsFragment DEF SyncAndClose
    <2> QED BY <1>6, <2>1 DEF SyncAndClose
  <1>7. CASE CaptureFails(g)
    BY <1>7 DEF CaptureFails
  <1> QED BY <1>1, <1>2, <1>3, <1>4, <1>5, <1>6, <1>7 DEF Capture

LEMMA DeleteKeepsTypes ==
  ASSUME LogInv, Delete
  PROVE  LogInv'
PROOF
  <1>1. lines' \in Seq(Seq(Fragments))
    <2> DEFINE Lines == Seq(Fragments)
    <2> HIDE DEF Lines
    <2>1. << >> \in Seq(Lines)
      OBVIOUS
    <2> QED BY <2>1 DEF Delete, Lines
  <1>2. ended' = TRUE /\ exists' = FALSE /\ deletes' \in 0 .. MaxDeletes
    BY LogAssumption DEF LogInv, LogTypeOK, Delete
  <1>3. orphan' \in [Capturers -> BOOLEAN]
    BY DEF Delete
  <1>4. UNCHANGED <<mutex, capturePC, error, captured, tears>>
    BY DEF Delete
  <1> QED BY <1>1, <1>2, <1>3, <1>4 DEF LogInv, LogTypeOK

LEMMA AbandonKeepsTypes ==
  ASSUME LogInv, Abandon
  PROVE  LogInv'
  BY DEF LogInv, LogTypeOK, Abandon, CaptureStates

(* All that an attempt, the process and the operator do to the log.        *)
LEMMA StepOfLog ==
  ASSUME [ServerNext]_serverVars
  PROVE  (\E g \in Capturers : Capture(g)) \/ Delete \/ Abandon \/ UNCHANGED logVars
  BY DEF ServerNext, serverVars, Start, Signal, Shutdown, Crash, End, DeleteLog, Request, Accept,
         RecordRequest, SendRequest, UpstreamFails, UpstreamRefuses, CaptureStep,
         UpstreamAnswers, RecordSuccess, Respond

LEMMA LogInvInductive ==
  ASSUME LogInv, [ServerNext]_serverVars
  PROVE  LogInv'
PROOF
  <1>1. CASE UNCHANGED logVars
    BY <1>1 DEF LogInv, LogTypeOK, logVars
  <1> QED BY <1>1, StepOfLog, CaptureKeepsTypes, DeleteKeepsTypes, AbandonKeepsTypes

LEMMA LogInvInitially ==
  ASSUME ServerInit
  PROVE  LogInv
PROOF
  <1>1. lines \in Seq(Seq(Fragments))
    <2> DEFINE Lines == Seq(Fragments)
    <2> HIDE DEF Lines
    <2>1. << >> \in Seq(Lines)
      OBVIOUS
    <2> QED BY <2>1 DEF ServerInit, LogInit, Lines
  <1>2. captured \in [Errors -> Nat] /\ orphan \in [Capturers -> BOOLEAN]
    BY DEF ServerInit, LogInit
  <1>3. /\ capturePC \in [Capturers -> CaptureStates] /\ error \in [Capturers -> Errors \cup {NoError}]
        /\ \A g \in Capturers : capturePC[g] = "idle"
    BY DEF ServerInit, LogInit, CaptureStates
  <1>4. /\ ended = TRUE /\ exists = FALSE /\ mutex = NoCapturer
        /\ tears \in 0 .. MaxTears /\ deletes \in 0 .. MaxDeletes
    BY LogAssumption DEF ServerInit, LogInit
  <1> QED BY <1>1, <1>2, <1>3, <1>4 DEF LogInv, LogTypeOK

-----------------------------------------------------------------------------
(* The counters and the places of the requests.                            *)

AttemptTypes ==
  /\ process \in {"down", "serving", "stopping"}
  /\ at \in [Capturers -> Places]
  /\ tokenBase \in [Capturers -> BOOLEAN]
  /\ total \in [URLs -> Nat] /\ success \in [URLs -> Nat] /\ failed \in [URLs -> Nat]
  /\ starts \in 0 .. MaxStarts

LEMMA CountedIsCounter ==
  ASSUME NEW counter \in [URLs -> Nat], NEW u \in URLs, NEW known \in BOOLEAN
  PROVE  /\ Counted(counter, u, known) \in [URLs -> Nat]
         /\ Counted(counter, u, known)[u] = counter[u] + (IF known THEN 1 ELSE 0)
         /\ \A v \in URLs \ {u} : Counted(counter, u, known)[v] = counter[v]
  BY DEF Counted

LEMMA AttemptTypesInductive ==
  ASSUME AttemptTypes, [ServerNext]_serverVars
  PROVE  AttemptTypes'
PROOF
  <1> USE AttemptAssumption DEF AttemptTypes
  <1>0. "vertex" \in URLs /\ "recaptcha" \in URLs
    BY DEF URLs
  <1>1. ASSUME NEW g \in Capturers, FailAttempt(g)
        PROVE  at' \in [Capturers -> Places] /\ tokenBase' \in [Capturers -> BOOLEAN]
                 /\ failed' \in [URLs -> Nat]
    <2>1. Counted(failed, "vertex", TRUE) \in [URLs -> Nat]
      BY <1>0, CountedIsCounter
    <2>2. failed' \in [URLs -> Nat]
      <3>1. PICK once, known : once = Counted(failed, "vertex", TRUE) /\ known = tokenBase[g]
        OBVIOUS
      <3>2. once \in [URLs -> Nat] /\ known \in BOOLEAN
        BY <1>1, <2>1, <3>1
      <3>3. Counted(once, "recaptcha", known) \in [URLs -> Nat]
        BY <1>0, <3>2, CountedIsCounter
      <3>4. failed' = Counted(once, "recaptcha", known)
        BY <1>1, <3>1 DEF FailAttempt
      <3> QED BY <3>3, <3>4
    <2> QED BY <1>1, <2>2 DEF FailAttempt, EndAttempt, GoesTo, Places
  <1>2. CASE Start
    BY <1>2 DEF Start
  <1>3. CASE Signal
    BY <1>3 DEF Signal
  <1>4. CASE Shutdown \/ Crash
    <2>1. End
      BY <1>4 DEF Shutdown, Crash
    <2>2. Zero \in [URLs -> Nat]
      BY DEF Zero
    <2>3. at' \in [Capturers -> Places] /\ tokenBase' \in [Capturers -> BOOLEAN]
      BY <2>1 DEF End, Places
    <2> QED BY <2>1, <2>2, <2>3 DEF End
  <1>5. CASE DeleteLog
    BY <1>5 DEF DeleteLog, countVars
  <1>6. ASSUME NEW g \in Capturers, Accept(g) \/ UpstreamRefuses(g) \/ Respond(g)
        PROVE  AttemptTypes'
    BY <1>6 DEF Accept, UpstreamRefuses, Respond, GoesTo, Places
  <1>7. ASSUME NEW g \in Capturers, RecordRequest(g)
        PROVE  AttemptTypes'
    BY <1>0, <1>7 DEF RecordRequest, GoesTo, Places
  <1>8. ASSUME NEW g \in Capturers, SendRequest(g)
        PROVE  AttemptTypes'
    BY <1>0, <1>8, CountedIsCounter DEF SendRequest, GoesTo, Places
  <1>9. ASSUME NEW g \in Capturers, UpstreamFails(g)
        PROVE  AttemptTypes'
    BY <1>1, <1>9 DEF UpstreamFails
  <1>10. ASSUME NEW g \in Capturers, CaptureStep(g)
         PROVE  AttemptTypes'
    BY <1>1, <1>10 DEF CaptureStep
  <1>11. ASSUME NEW g \in Capturers, UpstreamAnswers(g)
         PROVE  AttemptTypes'
    BY <1>0, <1>11 DEF UpstreamAnswers, GoesTo, Places
  <1>12. ASSUME NEW g \in Capturers, RecordSuccess(g)
         PROVE  AttemptTypes'
    <2>1. success' \in [URLs -> Nat]
      BY <1>0, <1>12, CountedIsCounter DEF RecordSuccess
    <2>2. at' \in [Capturers -> Places] /\ tokenBase' \in [Capturers -> BOOLEAN]
      BY <1>12 DEF RecordSuccess, EndAttempt, GoesTo, Places
    <2> QED BY <1>12, <2>1, <2>2 DEF RecordSuccess
  <1>13. CASE UNCHANGED serverVars
    BY <1>13 DEF serverVars, countVars
  <1> QED BY <1>2, <1>3, <1>4, <1>5, <1>6, <1>7, <1>8, <1>9, <1>10, <1>11, <1>12, <1>13
          DEF ServerNext, Request

(* Every state of a run has its types: requests are where an attempt can   *)
(* be, counters are counts, and the file is made of lines.                 *)
THEOREM ServerTypeCorrect == ServerSpec => []ServerTypeOK
PROOF
  <1> DEFINE Inv == LogInv /\ AttemptTypes
  <1>1. ServerInit => Inv
    BY LogInvInitially, AttemptAssumption DEF ServerInit, AttemptTypes, Zero, Places
  <1>2. Inv /\ [ServerNext]_serverVars => Inv'
    BY LogInvInductive, AttemptTypesInductive
  <1>3. Inv => ServerTypeOK
    BY DEF LogInv, AttemptTypes, ServerTypeOK
  <1> HIDE DEF Inv
  <1> QED BY <1>1, <1>2, <1>3, PTL DEF ServerSpec

-----------------------------------------------------------------------------
(* The statistics.                                                         *)

LEMMA OneMore ==
  ASSUME NEW S, IsFiniteSet(S), NEW g, g \notin S
  PROVE  Cardinality(S \cup {g}) = Cardinality(S) + 1 /\ Cardinality(S) \in Nat
  BY FS_AddElement, FS_CardinalityType

LEMMA OneLess ==
  ASSUME NEW S, IsFiniteSet(S), NEW g \in S
  PROVE  Cardinality(S \ {g}) = Cardinality(S) - 1 /\ Cardinality(S) \in Nat
  BY FS_RemoveElement, FS_CardinalityType

LEMMA InFlightIsFinite ==
  ASSUME NEW u
  PROVE  IsFiniteSet(InFlight(u)) /\ Cardinality(InFlight(u)) \in Nat
PROOF
  <1>1. InFlight(u) \subseteq Capturers
    BY DEF InFlight
  <1> QED BY <1>1, AttemptAssumption, FS_Subset, FS_CardinalityType

LEMMA UrlsDiffer == URLs = {"vertex", "recaptcha"} /\ "vertex" # "recaptcha"
  BY DEF URLs

(* When an attempt ends without success it leaves both sets of attempts    *)
(* under way, if it is in them, and is counted as failed there.            *)
LEMMA FailedAttemptAddsUp ==
  ASSUME AttemptTypes, StatsAddUp, NEW g \in Capturers, at[g] \in {"sent", "capture"},
         FailAttempt(g), UNCHANGED <<total, success>>
  PROVE  StatsAddUp'
PROOF
  <1>1. Counted(failed, "vertex", TRUE) \in [URLs -> Nat] /\ tokenBase[g] \in BOOLEAN
    BY CountedIsCounter, UrlsDiffer DEF AttemptTypes
  <1>2. /\ failed'["vertex"] = failed["vertex"] + 1
        /\ failed'["recaptcha"] = failed["recaptcha"] + (IF tokenBase[g] THEN 1 ELSE 0)
    <2> DEFINE c == Counted(failed, "vertex", TRUE)
    <2>1. c["vertex"] = failed["vertex"] + 1 /\ c["recaptcha"] = failed["recaptcha"]
      BY UrlsDiffer DEF AttemptTypes, Counted
    <2>2. failed' = Counted(c, "recaptcha", tokenBase[g])
      BY DEF FailAttempt
    <2> HIDE DEF c
    <2>3. /\ failed'["vertex"] = c["vertex"]
          /\ failed'["recaptcha"] = c["recaptcha"] + (IF tokenBase[g] THEN 1 ELSE 0)
      <3>1. c \in [URLs -> Nat]
        BY <1>1 DEF c
      <3> QED BY <1>1, <2>2, <3>1, CountedIsCounter, UrlsDiffer
    <2> QED BY <2>1, <2>3
  <1>3. InFlight("vertex")' = InFlight("vertex") \ {g} /\ g \in InFlight("vertex")
    BY DEF FailAttempt, EndAttempt, GoesTo, InFlight, AttemptTypes
  <1>4. CASE tokenBase[g]
    <2>1. InFlight("recaptcha")' = InFlight("recaptcha") \ {g} /\ g \in InFlight("recaptcha")
      BY <1>4, UrlsDiffer DEF FailAttempt, EndAttempt, GoesTo, InFlight, AttemptTypes
    <2> QED BY <1>2, <1>3, <1>4, <2>1, OneLess, InFlightIsFinite, UrlsDiffer
            DEF StatsAddUp, AttemptTypes
  <1>5. CASE ~tokenBase[g]
    <2>1. InFlight("recaptcha")' = InFlight("recaptcha")
      BY <1>5, UrlsDiffer DEF FailAttempt, EndAttempt, GoesTo, InFlight, AttemptTypes
    <2> QED BY <1>2, <1>3, <1>5, <2>1, OneLess, InFlightIsFinite, UrlsDiffer
            DEF StatsAddUp, AttemptTypes
  <1> QED BY <1>1, <1>4, <1>5

(* Neither a counter nor a set of attempts under way changes.              *)
LEMMA NothingToCount ==
  ASSUME StatsAddUp, UNCHANGED <<total, success, failed>>,
         \A u \in URLs : InFlight(u)' = InFlight(u)
  PROVE  StatsAddUp'
  BY DEF StatsAddUp

LEMMA BothAddUp ==
  ASSUME total'["vertex"] = success'["vertex"] + failed'["vertex"] + Cardinality(InFlight("vertex"))',
         total'["recaptcha"] = success'["recaptcha"] + failed'["recaptcha"]
                                 + Cardinality(InFlight("recaptcha"))'
  PROVE  StatsAddUp'
  BY UrlsDiffer DEF StatsAddUp

LEMMA StatsInductive ==
  ASSUME AttemptTypes, StatsAddUp, [ServerNext]_serverVars
  PROVE  StatsAddUp'
PROOF
  <1> USE DEF AttemptTypes
  <1>1. CASE Start \/ Signal \/ DeleteLog \/ UNCHANGED serverVars
    BY <1>1 DEF Start, Signal, DeleteLog, serverVars, countVars, StatsAddUp, InFlight
  <1>2. CASE Shutdown \/ Crash
    <2>1. End
      BY <1>2 DEF Shutdown, Crash
    <2>2. \A u \in URLs : InFlight(u)' = {}
      BY <2>1 DEF End, InFlight
    <2>3. \A u \in URLs : Cardinality(InFlight(u)') = 0
      BY <2>2, FS_EmptySet
    <2>4. \A u \in URLs : total'[u] = 0 /\ success'[u] = 0 /\ failed'[u] = 0
      BY <2>1 DEF End, Zero
    <2> QED BY <2>3, <2>4 DEF StatsAddUp
  <1>3. ASSUME NEW g \in Capturers, Accept(g) \/ UpstreamRefuses(g) \/ Respond(g)
        PROVE  StatsAddUp'
    <2>1. \A u \in URLs : InFlight(u)' = InFlight(u)
      BY <1>3, UrlsDiffer DEF Accept, UpstreamRefuses, Respond, GoesTo, InFlight
    <2> QED BY <1>3, <2>1, NothingToCount DEF Accept, UpstreamRefuses, Respond
  <1>4. ASSUME NEW g \in Capturers, RecordRequest(g)
        PROVE  StatsAddUp'
    <2>1. InFlight("vertex")' = InFlight("vertex") \cup {g} /\ g \notin InFlight("vertex")
      BY <1>4 DEF RecordRequest, GoesTo, InFlight
    <2>2. InFlight("recaptcha")' = InFlight("recaptcha")
      BY <1>4, UrlsDiffer DEF RecordRequest, GoesTo, InFlight
    <2>3. total'["vertex"] = total["vertex"] + 1 /\ total'["recaptcha"] = total["recaptcha"]
      BY <1>4, UrlsDiffer DEF RecordRequest
    <2> QED BY <1>4, <2>1, <2>2, <2>3, OneMore, InFlightIsFinite, UrlsDiffer
            DEF RecordRequest, StatsAddUp
  <1>5. ASSUME NEW g \in Capturers, SendRequest(g)
        PROVE  StatsAddUp'
    <2>1. InFlight("vertex")' = InFlight("vertex")
      BY <1>5 DEF SendRequest, GoesTo, InFlight
    <2>2. /\ total'["vertex"] = total["vertex"]
          /\ total'["recaptcha"] = total["recaptcha"] + (IF tokenBase[g] THEN 1 ELSE 0)
      BY <1>5, CountedIsCounter, UrlsDiffer DEF SendRequest
    <2>3. CASE tokenBase[g]
      <3>1. InFlight("recaptcha")' = InFlight("recaptcha") \cup {g} /\ g \notin InFlight("recaptcha")
        BY <1>5, <2>3, UrlsDiffer DEF SendRequest, GoesTo, InFlight
      <3>2. Cardinality(InFlight("recaptcha"))' = Cardinality(InFlight("recaptcha")) + 1
        BY <3>1, OneMore, InFlightIsFinite
      <3>3. total["recaptcha"] = success["recaptcha"] + failed["recaptcha"]
                                   + Cardinality(InFlight("recaptcha"))
        BY UrlsDiffer DEF StatsAddUp
      <3>4. total["vertex"] = success["vertex"] + failed["vertex"]
                                + Cardinality(InFlight("vertex"))
        BY UrlsDiffer DEF StatsAddUp
      <3>5. failed' = failed /\ success' = success
        BY <1>5 DEF SendRequest
      <3> QED BY <2>1, <2>2, <2>3, <3>2, <3>3, <3>4, <3>5, InFlightIsFinite, BothAddUp, UrlsDiffer
    <2>4. CASE ~tokenBase[g]
      <3>1. InFlight("recaptcha")' = InFlight("recaptcha")
        BY <1>5, <2>4, UrlsDiffer DEF SendRequest, GoesTo, InFlight
      <3> QED BY <1>5, <2>1, <2>2, <2>4, <3>1, UrlsDiffer DEF SendRequest, StatsAddUp
    <2> QED BY <2>3, <2>4
  <1>6. ASSUME NEW g \in Capturers, UpstreamFails(g)
        PROVE  StatsAddUp'
    BY <1>6, FailedAttemptAddsUp DEF UpstreamFails
  <1>7. ASSUME NEW g \in Capturers, CaptureStep(g)
        PROVE  StatsAddUp'
    <2>1. CASE capturePC'[g] = "idle"
      BY <1>7, <2>1, FailedAttemptAddsUp DEF CaptureStep
    <2>2. CASE capturePC'[g] # "idle"
      BY <1>7, <2>2 DEF CaptureStep, StatsAddUp, InFlight
    <2> QED BY <2>1, <2>2
  <1>8. ASSUME NEW g \in Capturers, UpstreamAnswers(g)
        PROVE  StatsAddUp'
    <2>1. InFlight("vertex")' = InFlight("vertex") \ {g} /\ g \in InFlight("vertex")
      BY <1>8 DEF UpstreamAnswers, GoesTo, InFlight
    <2>2. InFlight("recaptcha")' = InFlight("recaptcha")
      BY <1>8, UrlsDiffer DEF UpstreamAnswers, GoesTo, InFlight
    <2>3. success'["vertex"] = success["vertex"] + 1 /\ success'["recaptcha"] = success["recaptcha"]
      BY <1>8, UrlsDiffer DEF UpstreamAnswers
    <2> QED BY <1>8, <2>1, <2>2, <2>3, OneLess, InFlightIsFinite, UrlsDiffer
            DEF UpstreamAnswers, StatsAddUp
  <1>9. ASSUME NEW g \in Capturers, RecordSuccess(g)
        PROVE  StatsAddUp'
    <2>1. InFlight("vertex")' = InFlight("vertex")
      BY <1>9 DEF RecordSuccess, EndAttempt, GoesTo, InFlight
    <2>2. /\ success'["vertex"] = success["vertex"]
          /\ success'["recaptcha"] = success["recaptcha"] + (IF tokenBase[g] THEN 1 ELSE 0)
      BY <1>9, CountedIsCounter, UrlsDiffer DEF RecordSuccess
    <2>3. CASE tokenBase[g]
      <3>1. InFlight("recaptcha")' = InFlight("recaptcha") \ {g} /\ g \in InFlight("recaptcha")
        BY <1>9, <2>3, UrlsDiffer DEF RecordSuccess, EndAttempt, GoesTo, InFlight
      <3>2. Cardinality(InFlight("recaptcha"))' = Cardinality(InFlight("recaptcha")) - 1
        BY <3>1, OneLess, InFlightIsFinite
      <3>3. total["recaptcha"] = success["recaptcha"] + failed["recaptcha"]
                                   + Cardinality(InFlight("recaptcha"))
        BY UrlsDiffer DEF StatsAddUp
      <3>4. total["vertex"] = success["vertex"] + failed["vertex"]
                                + Cardinality(InFlight("vertex"))
        BY UrlsDiffer DEF StatsAddUp
      <3>5. failed' = failed /\ total' = total
        BY <1>9 DEF RecordSuccess
      <3> QED BY <2>1, <2>2, <2>3, <3>2, <3>3, <3>4, <3>5, InFlightIsFinite, BothAddUp, UrlsDiffer
    <2>4. CASE ~tokenBase[g]
      <3>1. InFlight("recaptcha")' = InFlight("recaptcha")
        BY <1>9, <2>4, UrlsDiffer DEF RecordSuccess, EndAttempt, GoesTo, InFlight
      <3> QED BY <1>9, <2>1, <2>2, <2>4, <3>1, UrlsDiffer DEF RecordSuccess, StatsAddUp
    <2> QED BY <2>3, <2>4
  <1> QED BY <1>1, <1>2, <1>3, <1>4, <1>5, <1>6, <1>7, <1>8, <1>9 DEF ServerNext, Request

(* The statistics add up between any two updates of any number of          *)
(* attempts, failed captures and restarts included.                        *)
THEOREM StatisticsAddUp == ServerSpec => []StatsAddUp
PROOF
  <1> DEFINE Inv == AttemptTypes /\ StatsAddUp
  <1>1. ServerInit => Inv
    <2>1. ASSUME ServerInit PROVE AttemptTypes
      BY <2>1, AttemptAssumption DEF ServerInit, AttemptTypes, Zero, Places
    <2>2. ASSUME ServerInit PROVE \A u \in URLs : InFlight(u) = {}
      BY <2>2 DEF ServerInit, InFlight
    <2> QED BY <2>1, <2>2, FS_EmptySet DEF ServerInit, Zero, StatsAddUp
  <1>2. Inv /\ [ServerNext]_serverVars => Inv'
    BY AttemptTypesInductive, StatsInductive
  <1> HIDE DEF AttemptTypes, StatsAddUp
  <1> QED BY <1>1, <1>2, PTL DEF ServerSpec

-----------------------------------------------------------------------------
(* What the log keeps.                                                     *)

(* The line that the next fragment goes to.                                *)
NextLine == IF ended THEN Len(lines) + 1 ELSE Len(lines)

(* A fragment changes only its line, and is the last of that.              *)
LEMMA AppendedLines ==
  ASSUME LogInv, NEW f \in Fragments
  PROVE  /\ NextLine \in Nat \ {0}
         /\ DOMAIN Appended(f) = 1 .. NextLine
         /\ Len(Appended(f)) = NextLine
         /\ \A i \in 1 .. NextLine - 1 : i \in DOMAIN lines /\ Appended(f)[i] = lines[i]
         /\ ended => Appended(f)[NextLine] = << f >>
         /\ Len(Appended(f)[NextLine]) \in Nat \ {0}
         /\ Appended(f)[NextLine][Len(Appended(f)[NextLine])] = f
PROOF
  <1> DEFINE Lines == Seq(Fragments)
  <1>0. lines \in Seq(Lines) /\ << f >> \in Lines
    BY DEF LogInv, LogTypeOK
  <1>1. CASE ended
    <2>1. Appended(f) = Append(lines, << f >>) /\ NextLine = Len(lines) + 1
      BY <1>1 DEF Appended, NextLine
    <2> HIDE DEF Lines
    <2>2. /\ Append(lines, << f >>) \in Seq(Lines)
          /\ Len(Append(lines, << f >>)) = Len(lines) + 1
          /\ \A i \in 1 .. Len(lines) : Append(lines, << f >>)[i] = lines[i]
          /\ Append(lines, << f >>)[Len(lines) + 1] = << f >>
      BY <1>0, AppendProperties
    <2>3. Len(lines) \in Nat /\ DOMAIN lines = 1 .. Len(lines)
      BY <1>0
    <2> QED BY <2>1, <2>2, <2>3
  <1>2. CASE ~ended
    <2>1. /\ lines # << >> /\ NextLine = Len(lines) /\ Len(lines) \in Nat \ {0}
          /\ DOMAIN lines = 1 .. Len(lines)
      BY <1>0, <1>2 DEF LogInv, NextLine
    <2> DEFINE joined == Append(lines[Len(lines)], f)
               before == Front(lines)
    <2>2. joined \in Lines /\ Len(joined) \in Nat \ {0} /\ joined[Len(joined)] = f
      <3>1. lines[Len(lines)] \in Lines
        <4> HIDE DEF Lines
        <4> QED BY <1>0, <2>1
      <3> QED BY <3>1, AppendProperties
    <2>3. Appended(f) = before \o << joined >>
      BY <1>2 DEF Appended, Last
    <2> HIDE DEF Lines, joined
    <2>4. /\ before \in Seq(Lines) /\ Len(before) = Len(lines) - 1
          /\ \A i \in 1 .. Len(lines) - 1 : before[i] = lines[i]
      BY <1>0, <2>1 DEF Front
    <2> HIDE DEF before
    <2>5. /\ Len(before \o << joined >>) = Len(lines)
          /\ DOMAIN (before \o << joined >>) = 1 .. Len(lines)
          /\ \A i \in 1 .. Len(lines) - 1 : (before \o << joined >>)[i] = before[i]
          /\ (before \o << joined >>)[Len(lines)] = joined
      BY <2>1, <2>2, <2>4
    <2> QED BY <1>2, <2>1, <2>2, <2>3, <2>4, <2>5
  <1> QED BY <1>1, <1>2 DEF LogInv, LogTypeOK

(* No write that ended early: each line is written at once, and what a     *)
(* capturer has written is there until the file is deleted.  A capturer    *)
(* past its scan has found no entry of its error, so every report of it so *)
(* far has been paid for by a deletion; one that has written to a deleted  *)
(* file has a deletion to pay for its own report, too.                     *)
Reports(g) == captured[error[g]] + (IF orphan[g] THEN 1 ELSE 0)

OneCaptures == \A g \in Capturers : capturePC[g] # "idle" => mutex = g

OrphansHaveOpened == \A g \in Capturers : orphan[g] => capturePC[g] \in {"write", "close"}

WrittenIsLogged ==
  /\ OneCaptures
  /\ OrphansHaveOpened
  /\ tears = 0 =>
       /\ ended
       /\ \A g \in Capturers : capturePC[g] \in {"open", "write", "close"} => Reports(g) <= deletes
       /\ \A g \in Capturers : capturePC[g] = "close" /\ ~orphan[g] => Logged(error[g])
       /\ ReportedIsReadable

(* An entry in a line of its own is logged, and so is what was logged.     *)
LEMMA AppendLogs ==
  ASSUME LogInv, NEW f \in Fragments, ended, lines' = Appended(f)
  PROVE  /\ f.whole => Logged(f.error)'
         /\ \A e \in Errors : Logged(e) => Logged(e)'
PROOF
  <1>1. /\ DOMAIN lines' = 1 .. Len(lines) + 1 /\ Len(lines) \in Nat
        /\ \A i \in 1 .. Len(lines) : lines'[i] = lines[i]
        /\ lines'[Len(lines) + 1] = << f >>
        /\ DOMAIN lines = 1 .. Len(lines)
    BY AppendedLines DEF NextLine, LogInv, LogTypeOK
  <1>2. f.whole => f = [error |-> f.error, whole |-> TRUE]
    BY DEF Fragments
  <1>3. ASSUME f.whole
        PROVE  Logged(f.error)'
    <2>1. lines'[Len(lines) + 1] = << [error |-> f.error, whole |-> TRUE] >>
      BY <1>1, <1>2, <1>3
    <2>2. Len(lines) + 1 \in DOMAIN lines'
      BY <1>1
    <2> QED BY <2>1, <2>2 DEF Logged, Readable
  <1>4. ASSUME NEW e \in Errors, Logged(e)
        PROVE  Logged(e)'
    <2>1. PICK i \in DOMAIN lines : Readable(lines[i], e)
      BY <1>4 DEF Logged
    <2>2. i \in DOMAIN lines' /\ lines'[i] = lines[i]
      BY <1>1
    <2> QED BY <2>1, <2>2 DEF Logged, Readable
  <1> QED BY <1>3, <1>4

LEMMA OneCapturesInductive ==
  ASSUME LogInv, OneCaptures, OrphansHaveOpened, [ServerNext]_serverVars
  PROVE  OneCaptures' /\ OrphansHaveOpened'
PROOF
  <1> USE DEF OneCaptures, OrphansHaveOpened, Goto, Leave
  <1>0. /\ capturePC \in [Capturers -> CaptureStates] /\ orphan \in [Capturers -> BOOLEAN]
        /\ NoCapturer \notin Capturers
    BY LogAssumption DEF LogInv, LogTypeOK
  <1>1. ASSUME NEW g \in Capturers, Capture(g)
        PROVE  OneCaptures' /\ OrphansHaveOpened'
    BY <1>0, <1>1 DEF Capture, Lock, Scan, OpenAppend, WriteEntry, WriteTorn, SyncAndClose, CaptureFails
  <1>2. CASE Delete
    BY <1>0, <1>2 DEF Delete
  <1>3. CASE Abandon
    BY <1>3 DEF Abandon
  <1>4. CASE UNCHANGED logVars
    BY <1>4 DEF logVars
  <1> QED BY <1>1, <1>2, <1>3, <1>4, StepOfLog

LEMMA WrittenIsLoggedInductive ==
  ASSUME LogInv, WrittenIsLogged, [ServerNext]_serverVars
  PROVE  WrittenIsLogged'
PROOF
  <1> USE DEF ReportedIsReadable, Reports, Goto, Leave
  <1>0. /\ capturePC \in [Capturers -> CaptureStates] /\ error \in [Capturers -> Errors \cup {NoError}]
        /\ orphan \in [Capturers -> BOOLEAN] /\ captured \in [Errors -> Nat]
        /\ tears \in Nat /\ deletes \in Nat
        /\ \A g \in Capturers : capturePC[g] # "idle" => error[g] \in Errors
    BY LogAssumption DEF LogInv, LogTypeOK
  <1>a. OneCaptures' /\ OrphansHaveOpened'
    BY OneCapturesInductive DEF WrittenIsLogged
  <1>b. tears' \in Nat /\ (tears' = 0 => tears = 0)
    <2>1. tears' = tears \/ tears' = tears + 1
      <3>1. ASSUME NEW g \in Capturers, Capture(g) PROVE tears' = tears \/ tears' = tears + 1
        BY <3>1 DEF Capture, Lock, Scan, OpenAppend, WriteEntry, WriteTorn, SyncAndClose, CaptureFails
      <3>2. CASE Delete \/ Abandon \/ UNCHANGED logVars
        BY <3>2 DEF Delete, Abandon, logVars
      <3> QED BY <3>1, <3>2, StepOfLog
    <2> QED BY <1>0, <2>1
  <1> SUFFICES ASSUME tears = 0, tears' = 0
               PROVE  /\ ended'
                      /\ \A g \in Capturers : capturePC'[g] \in {"open", "write", "close"} =>
                           Reports(g)' <= deletes'
                      /\ \A g \in Capturers : capturePC'[g] = "close" /\ ~orphan'[g] => Logged(error[g])'
                      /\ \A e \in Errors : captured'[e] <= deletes' + (IF Logged(e)' THEN 1 ELSE 0)
    BY <1>a, <1>b DEF WrittenIsLogged
  <1>c. /\ ended
        /\ \A g \in Capturers : capturePC[g] # "idle" => mutex = g
        /\ \A g \in Capturers : orphan[g] => capturePC[g] \in {"write", "close"}
        /\ \A g \in Capturers : capturePC[g] \in {"open", "write", "close"} => Reports(g) <= deletes
        /\ \A g \in Capturers : capturePC[g] = "close" /\ ~orphan[g] => Logged(error[g])
        /\ \A e \in Errors : captured[e] <= deletes + (IF Logged(e) THEN 1 ELSE 0)
    BY DEF WrittenIsLogged, OneCaptures, OrphansHaveOpened
  <1>1. ASSUME NEW g \in Capturers, Lock(g) \/ Scan(g) \/ OpenAppend(g) \/ CaptureFails(g)
        PROVE  WrittenIsLogged'
    <2>1. /\ UNCHANGED <<lines, ended, captured, deletes>>
          /\ \A h \in Capturers : capturePC'[h] = "close" =>
               capturePC[h] = "close" /\ error'[h] = error[h] /\ orphan'[h] = orphan[h]
      BY <1>0, <1>1 DEF Lock, Scan, OpenAppend, CaptureFails
    <2>2. \A e \in Errors : Logged(e)' = Logged(e)
      BY <2>1 DEF Logged
    <2>3. \A h \in Capturers : capturePC'[h] \in {"open", "write", "close"} =>
            /\ error'[h] = error[h] /\ orphan'[h] = orphan[h] /\ capturePC[h] # "idle"
            /\ capturePC[h] \in {"open", "write", "close"} \/ (capturePC[h] = "scan" /\ ~Logged(error[h]))
      BY <1>0, <1>1 DEF Lock, Scan, OpenAppend, CaptureFails
    <2>4. ASSUME NEW h \in Capturers, capturePC'[h] \in {"open", "write", "close"}
          PROVE  captured'[error'[h]] + (IF orphan'[h] THEN 1 ELSE 0) <= deletes'
      <3>1. CASE capturePC[h] \in {"open", "write", "close"}
        BY <1>c, <2>1, <2>3, <2>4, <3>1
      <3>2. CASE capturePC[h] = "scan" /\ ~Logged(error[h])
        BY <1>0, <1>c, <2>1, <2>3, <2>4, <3>2
      <3> QED BY <2>3, <2>4, <3>1, <3>2
    <2>5. \A h \in Capturers : capturePC'[h] = "close" /\ ~orphan'[h] => Logged(error[h])'
      BY <1>c, <2>1 DEF Logged
    <2> QED BY <1>a, <1>c, <2>1, <2>2, <2>4, <2>5 DEF WrittenIsLogged
  <1>2. ASSUME NEW g \in Capturers, WriteEntry(g)
        PROVE  WrittenIsLogged'
    <2>0. /\ UNCHANGED <<error, orphan, captured, deletes>> /\ capturePC[g] = "write"
          /\ \A h \in Capturers : h # g => capturePC[h] = "idle" /\ capturePC'[h] = "idle"
          /\ capturePC'[g] = "close" /\ error[g] \in Errors
      BY <1>0, <1>2, <1>c DEF WriteEntry
    <2>1. /\ ended'
          /\ \A e \in Errors : Logged(e) => Logged(e)'
          /\ ~orphan[g] => Logged(error[g])'
      <3>1. CASE orphan[g]
        BY <1>2, <1>c, <3>1 DEF WriteEntry, Logged
      <3>2. CASE ~orphan[g]
        <4>1. /\ lines' = Appended(Entry(g)) /\ ended'
              /\ error[g] \in Errors /\ Entry(g) \in Fragments
          BY <1>2, <2>0, <3>2, EntryIsFragment DEF WriteEntry
        <4>2. Logged(error[g])' /\ \A e \in Errors : Logged(e) => Logged(e)'
          <5>1. Entry(g).whole /\ Entry(g).error = error[g] /\ error' = error
            BY <2>0 DEF Entry
          <5>2. PICK f \in Fragments : f = Entry(g)
            BY <4>1
          <5>3. (f.whole => Logged(f.error)') /\ \A e \in Errors : Logged(e) => Logged(e)'
            BY <1>c, <4>1, <5>2, AppendLogs
          <5> QED BY <5>1, <5>2, <5>3 DEF Logged
        <4> QED BY <4>1, <4>2
      <3> QED BY <3>1, <3>2
    <2>2. \A e \in Errors : captured'[e] <= deletes' + (IF Logged(e)' THEN 1 ELSE 0)
      BY <1>0, <1>c, <2>0, <2>1
    <2>3. \A h \in Capturers : capturePC'[h] \in {"open", "write", "close"} => Reports(h)' <= deletes'
      BY <1>c, <2>0
    <2> QED BY <1>a, <2>0, <2>1, <2>2, <2>3 DEF WrittenIsLogged
  <1>3. ASSUME NEW g \in Capturers, WriteTorn(g)
        PROVE  WrittenIsLogged'
    BY <1>0, <1>3 DEF WriteTorn
  <1>4. ASSUME NEW g \in Capturers, SyncAndClose(g)
        PROVE  WrittenIsLogged'
    <2>1. /\ UNCHANGED <<lines, ended, deletes>> /\ capturePC[g] = "close" /\ error[g] \in Errors
          /\ captured' = [captured EXCEPT ![error[g]] = @ + 1]
      BY <1>0, <1>4 DEF SyncAndClose
    <2>2. \A h \in Capturers : capturePC'[h] = "idle"
      BY <1>0, <1>4, <1>c, <2>1 DEF SyncAndClose
    <2>3. \A e \in Errors : Logged(e)' = Logged(e)
      BY <2>1 DEF Logged
    <2>4. ASSUME NEW e \in Errors
          PROVE  captured'[e] <= deletes' + (IF Logged(e)' THEN 1 ELSE 0)
      <3>1. CASE e # error[g]
        BY <1>0, <1>c, <2>1, <2>3, <3>1
      <3>2. CASE e = error[g] /\ orphan[g]
        BY <1>0, <1>c, <2>1, <2>3, <3>2
      <3>3. CASE e = error[g] /\ ~orphan[g]
        BY <1>0, <1>c, <2>1, <2>3, <3>3
      <3> QED BY <3>1, <3>2, <3>3
    <2> QED BY <1>a, <1>c, <2>1, <2>2, <2>4 DEF WrittenIsLogged
  <1>5. ASSUME Delete PROVE WrittenIsLogged'
    <2>1. /\ deletes' = deletes + 1 /\ UNCHANGED <<capturePC, error, captured>> /\ ended'
          /\ \A g \in Capturers : orphan'[g] <=> capturePC[g] \in {"write", "close"}
      BY <1>0, <1>5 DEF Delete
    <2>2. \A e \in Errors : captured'[e] <= deletes'
      BY <1>0, <1>c, <2>1
    <2>3. ASSUME NEW g \in Capturers, capturePC'[g] \in {"open", "write", "close"}
          PROVE  captured'[error'[g]] + (IF orphan'[g] THEN 1 ELSE 0) <= deletes'
      <3>1. error[g] \in Errors /\ captured[error[g]] \in Nat /\ captured[error[g]] <= deletes
        BY <1>0, <1>c, <2>1, <2>3
      <3> QED BY <1>0, <2>1, <3>1
    <2>4. \A e \in Errors : captured'[e] <= deletes' + (IF Logged(e)' THEN 1 ELSE 0)
      BY <1>0, <2>1, <2>2
    <2> QED BY <1>a, <2>1, <2>3, <2>4 DEF WrittenIsLogged
  <1>6. ASSUME Abandon PROVE WrittenIsLogged'
    BY <1>6, <1>a, <1>c DEF Abandon, Logged, WrittenIsLogged
  <1>7. ASSUME UNCHANGED logVars PROVE WrittenIsLogged'
    <2>1. /\ UNCHANGED <<lines, ended, capturePC, error, orphan, captured, deletes>>
          /\ \A e \in Errors : Logged(e)' = Logged(e)
      BY <1>7 DEF logVars, Logged
    <2>2. \A g \in Capturers : capturePC'[g] \in {"open", "write", "close"} => Reports(g)' <= deletes'
      BY <1>c, <2>1
    <2>3. \A g \in Capturers : capturePC'[g] = "close" /\ ~orphan'[g] => Logged(error[g])'
      BY <1>c, <2>1 DEF Logged
    <2>4. \A e \in Errors : captured'[e] <= deletes' + (IF Logged(e)' THEN 1 ELSE 0)
      BY <1>c, <2>1
    <2> QED BY <1>a, <1>c, <2>1, <2>2, <2>3, <2>4 DEF WrittenIsLogged
  <1>8. WrittenIsLogged'
    BY <1>1, <1>2, <1>3, <1>4, <1>5, <1>6, <1>7, StepOfLog DEF Capture
  <1> QED BY <1>8 DEF WrittenIsLogged

(* Of the reports of an error a deletion costs one at most, and any other  *)
(* is found again, by any later capture of this or a later process, so     *)
(* long as no write ended early.                                           *)
THEOREM ReportedStays == ServerSpec => []ReportedIsReadable
PROOF
  <1> DEFINE Inv == LogInv /\ WrittenIsLogged
  <1>1. ServerInit => Inv
    <2>1. ASSUME ServerInit PROVE WrittenIsLogged
      BY <2>1 DEF ServerInit, LogInit, WrittenIsLogged, OneCaptures, OrphansHaveOpened,
           ReportedIsReadable, Reports
    <2> QED BY <2>1, LogInvInitially
  <1>2. Inv /\ [ServerNext]_serverVars => Inv'
    BY LogInvInductive, WrittenIsLoggedInductive
  <1>3. Inv => ReportedIsReadable
    BY DEF WrittenIsLogged, ReportedIsReadable
  <1> HIDE DEF Inv
  <1> QED BY <1>1, <1>2, <1>3, PTL DEF ServerSpec

-----------------------------------------------------------------------------
(* The entries of an error.                                                *)

(* The lines that a write which ended early has left behind, and the one   *)
(* it may still leave.                                                     *)
TornLines ==
  {i \in DOMAIN lines : Len(lines[i]) # 1} \cup (IF ended THEN {} ELSE {Len(lines)})

(* Why one entry is enough: the mutex keeps the scan of a capturer true    *)
(* until it writes, so that no two lines are an entry of one error, and a  *)
(* torn line costs a tear.                                                 *)
EntriesInv ==
  /\ \A g \in Capturers : capturePC[g] # "idle" => mutex = g
  /\ \A g \in Capturers : capturePC[g] \in {"open", "write"} /\ ~orphan[g] => ~Logged(error[g])
  /\ \A e \in Errors : \A i, j \in DOMAIN lines :
       Readable(lines[i], e) /\ Readable(lines[j], e) => i = j
  /\ Cardinality(TornLines) <= tears

LEMMA TornIsFinite ==
  ASSUME LogInv
  PROVE  IsFiniteSet(TornLines) /\ Cardinality(TornLines) \in Nat
PROOF
  <1>1. lines \in Seq(Seq(Fragments)) /\ (ended \/ lines # << >>)
    BY DEF LogInv, LogTypeOK
  <1>2. Len(lines) \in Nat /\ DOMAIN lines = 1 .. Len(lines)
    <2> DEFINE Lines == Seq(Fragments)
    <2> HIDE DEF Lines
    <2>1. lines \in Seq(Lines)
      BY <1>1 DEF Lines
    <2> QED BY <2>1
  <1>3. TornLines \subseteq 0 .. Len(lines)
    BY <1>2 DEF TornLines
  <1>4. IsFiniteSet(0 .. Len(lines))
    BY <1>2, FS_Interval
  <1>5. IsFiniteSet(TornLines)
    BY <1>3, <1>4, FS_Subset
  <1> QED BY <1>5, FS_CardinalityType

(* At most one element more.                                               *)
LEMMA AtMostOneMore ==
  ASSUME NEW S, IsFiniteSet(S), NEW x
  PROVE  /\ IsFiniteSet(S \cup {x}) /\ Cardinality(S \cup {x}) \in Nat
         /\ Cardinality(S \cup {x}) <= Cardinality(S) + 1
PROOF
  <1>1. IsFiniteSet(S \cup {x})
    BY FS_AddElement
  <1>2. Cardinality(S) \in Nat /\ Cardinality(S \cup {x}) \in Nat
    BY <1>1, FS_CardinalityType
  <1>3. Cardinality(S \cup {x}) = IF x \in S THEN Cardinality(S) ELSE Cardinality(S) + 1
    BY FS_AddElement
  <1> QED BY <1>1, <1>2, <1>3

(* One more fragment, of an error that was not logged: only its line is    *)
(* new, and it is an entry of no other error.                              *)
LEMMA AppendKeepsOne ==
  ASSUME LogInv, EntriesInv, NEW f \in Fragments, ~Logged(f.error), lines' = Appended(f)
  PROVE  \A e \in Errors : \A i, j \in DOMAIN lines' :
           Readable(lines'[i], e) /\ Readable(lines'[j], e) => i = j
PROOF
  <1>1. /\ NextLine \in Nat \ {0} /\ DOMAIN lines' = 1 .. NextLine
        /\ \A i \in 1 .. NextLine - 1 : i \in DOMAIN lines /\ lines'[i] = lines[i]
        /\ lines'[NextLine][Len(lines'[NextLine])] = f
    BY AppendedLines
  <1> SUFFICES ASSUME NEW e \in Errors, NEW i \in 1 .. NextLine, NEW j \in 1 .. NextLine,
                      Readable(lines'[i], e), Readable(lines'[j], e)
               PROVE  i = j
    BY <1>1
  <1>2. ASSUME Readable(lines'[NextLine], e)
        PROVE  e = f.error
    BY <1>1, <1>2 DEF Readable
  <1>3. \A k \in 1 .. NextLine - 1 : Readable(lines'[k], e) => e # f.error
    BY <1>1 DEF Logged
  <1>4. CASE i = NextLine \/ j = NextLine
    BY <1>1, <1>2, <1>3, <1>4
  <1>5. CASE i # NextLine /\ j # NextLine
    BY <1>1, <1>5 DEF EntriesInv
  <1> QED BY <1>4, <1>5

(* ... and only its line can be torn.                                      *)
LEMMA AppendTears ==
  ASSUME LogInv, NEW f \in Fragments, lines' = Appended(f)
  PROVE  /\ ended' => TornLines' \subseteq TornLines
         /\ TornLines' \subseteq TornLines \cup {NextLine}
PROOF
  <1>1. /\ NextLine \in Nat \ {0} /\ DOMAIN lines' = 1 .. NextLine /\ Len(lines') = NextLine
        /\ \A i \in 1 .. NextLine - 1 : i \in DOMAIN lines /\ lines'[i] = lines[i]
        /\ ended => lines'[NextLine] = << f >>
    BY AppendedLines
  <1>2. \A i \in 1 .. NextLine - 1 : Len(lines'[i]) # 1 => i \in TornLines
    BY <1>1 DEF TornLines
  <1>3. Len(lines'[NextLine]) # 1 => ~ended
    BY <1>1
  <1>4. ~ended => NextLine \in TornLines
    BY DEF NextLine, TornLines
  <1>5. TornLines' \subseteq {i \in 1 .. NextLine : Len(lines'[i]) # 1}
                              \cup (IF ended' THEN {} ELSE {NextLine})
    BY <1>1 DEF TornLines
  <1>6. \A i \in 1 .. NextLine : Len(lines'[i]) # 1 => i \in TornLines
    BY <1>1, <1>2, <1>3, <1>4
  <1>7. TornLines' \subseteq TornLines \cup (IF ended' THEN {} ELSE {NextLine})
    BY <1>5, <1>6
  <1> HIDE DEF TornLines
  <1> QED BY <1>7

LEMMA EntriesInvInductive ==
  ASSUME LogInv, EntriesInv, [ServerNext]_serverVars
  PROVE  EntriesInv'
PROOF
  <1> USE DEF EntriesInv, Goto, Leave
  <1>0. /\ capturePC \in [Capturers -> CaptureStates] /\ error \in [Capturers -> Errors \cup {NoError}]
        /\ orphan \in [Capturers -> BOOLEAN] /\ tears \in Nat /\ NoCapturer \notin Capturers
    BY LogAssumption DEF LogInv, LogTypeOK
  <1>1. ASSUME NEW g \in Capturers,
               Lock(g) \/ Scan(g) \/ OpenAppend(g) \/ SyncAndClose(g) \/ CaptureFails(g)
        PROVE  EntriesInv'
    <2>1. UNCHANGED <<lines, ended, tears>>
      BY <1>1 DEF Lock, Scan, OpenAppend, SyncAndClose, CaptureFails
    <2>2. \A h \in Capturers : capturePC'[h] # "idle" => mutex' = h
      BY <1>0, <1>1 DEF Lock, Scan, OpenAppend, SyncAndClose, CaptureFails
    <2>3. \A h \in Capturers : capturePC'[h] \in {"open", "write"} =>
            /\ error'[h] = error[h] /\ orphan'[h] = orphan[h]
            /\ capturePC[h] \in {"open", "write"} \/ ~Logged(error[h])
      BY <1>0, <1>1 DEF Lock, Scan, OpenAppend, SyncAndClose, CaptureFails
    <2>4. \A e : Logged(e)' = Logged(e)
      BY <2>1 DEF Logged
    <2>5. TornLines' = TornLines
      BY <2>1 DEF TornLines
    <2> QED BY <2>1, <2>2, <2>3, <2>4, <2>5
  <1>2. ASSUME NEW g \in Capturers, WriteEntry(g) \/ WriteTorn(g)
        PROVE  EntriesInv'
    <2>1. capturePC[g] = "write" /\ mutex = g
      BY <1>2 DEF WriteEntry, WriteTorn
    <2>2. \A h \in Capturers : capturePC'[h] # "idle" => mutex' = h
      BY <1>0, <1>2, <2>1 DEF WriteEntry, WriteTorn
    <2>3. \A h \in Capturers : capturePC'[h] \notin {"open", "write"}
      BY <1>0, <1>2, <2>1 DEF WriteEntry, WriteTorn
    <2>4. CASE orphan[g]
      <3>1. UNCHANGED <<lines, ended, tears>>
        BY <1>2, <2>4 DEF WriteEntry, WriteTorn
      <3> QED BY <2>2, <2>3, <3>1 DEF TornLines
    <2>5. CASE ~orphan[g]
      <3>1. PICK f \in Fragments : lines' = Appended(f) /\ f.error = error[g]
        <4>1. CASE WriteEntry(g)
          BY <2>1, <2>5, <4>1, EntryIsFragment DEF WriteEntry, Entry
        <4>2. CASE WriteTorn(g)
          <5>1. PICK w \in BOOLEAN : lines' = Appended([Entry(g) EXCEPT !.whole = w])
            BY <4>2 DEF WriteTorn
          <5>2. [Entry(g) EXCEPT !.whole = w] \in Fragments
            BY <2>1, EntryIsFragment
          <5>3. [Entry(g) EXCEPT !.whole = w].error = error[g]
            BY DEF Entry
          <5> QED BY <5>1, <5>2, <5>3
        <4> QED BY <1>2, <4>1, <4>2
      <3>2. ~Logged(error[g])
        BY <2>1, <2>5
      <3>3. \A e \in Errors : \A i, j \in DOMAIN lines' :
              Readable(lines'[i], e) /\ Readable(lines'[j], e) => i = j
        BY <3>1, <3>2, AppendKeepsOne
      <3>4. Cardinality(TornLines)' <= tears'
        <4>1. CASE WriteEntry(g)
          <5>1. TornLines' \subseteq TornLines /\ tears' = tears
            BY <2>5, <3>1, <4>1, AppendTears DEF WriteEntry
          <5>2. Cardinality(TornLines)' <= Cardinality(TornLines) /\ Cardinality(TornLines)' \in Nat
            BY <5>1, TornIsFinite, FS_Subset, FS_CardinalityType
          <5> QED BY <1>0, <5>1, <5>2, TornIsFinite
        <4>2. CASE WriteTorn(g)
          <5>1. TornLines' \subseteq TornLines \cup {NextLine} /\ tears' = tears + 1
            BY <3>1, <4>2, AppendTears DEF WriteTorn
          <5>2. /\ IsFiniteSet(TornLines \cup {NextLine})
                /\ Cardinality(TornLines \cup {NextLine}) <= Cardinality(TornLines) + 1
                /\ Cardinality(TornLines \cup {NextLine}) \in Nat
            BY TornIsFinite, AtMostOneMore
          <5>3. /\ Cardinality(TornLines)' <= Cardinality(TornLines \cup {NextLine})
                /\ Cardinality(TornLines)' \in Nat
            BY <5>1, <5>2, FS_Subset, FS_CardinalityType
          <5> QED BY <1>0, <5>1, <5>2, <5>3, TornIsFinite
        <4> QED BY <1>2, <4>1, <4>2
      <3> QED BY <2>2, <2>3, <3>3, <3>4
    <2> QED BY <1>0, <2>4, <2>5
  <1>3. CASE Delete
    <2>1. lines' = << >> /\ ended' = TRUE /\ UNCHANGED <<capturePC, mutex, tears>>
      BY <1>3 DEF Delete
    <2>2. DOMAIN lines' = {}
      BY <2>1
    <2>3. TornLines' = {} /\ \A e : ~Logged(e)'
      BY <2>1, <2>2 DEF TornLines, Logged
    <2>4. Cardinality(TornLines)' = 0
      BY <2>3, FS_EmptySet
    <2>5. \A g \in Capturers : capturePC'[g] # "idle" => mutex' = g
      BY <2>1
    <2>6. \A g \in Capturers : ~Logged(error[g])'
      BY <2>2 DEF Logged
    <2>7. Cardinality(TornLines)' <= tears'
      BY <1>0, <2>1, <2>4
    <2> QED BY <2>2, <2>5, <2>6, <2>7
  <1>4. CASE Abandon
    BY <1>4 DEF Abandon, TornLines
  <1>5. CASE UNCHANGED logVars
    BY <1>5 DEF logVars, TornLines, Logged
  <1> QED BY <1>1, <1>2, <1>3, <1>4, <1>5, StepOfLog DEF Capture

(* The whole entries of an error are its entry and those in torn lines.    *)
LEMMA OneEntry ==
  ASSUME LogInv, EntriesInv
  PROVE  OneEntryPerTear
PROOF
  <1> SUFFICES ASSUME NEW e \in Errors
               PROVE  Cardinality({i \in DOMAIN lines : Holds(lines[i], e)}) <= 1 + tears
    BY DEF OneEntryPerTear
  <1> DEFINE holding == {i \in DOMAIN lines : Holds(lines[i], e)}
  <1>1. \A i \in holding : i \in TornLines \/ Readable(lines[i], e)
    <2> SUFFICES ASSUME NEW i \in holding, i \notin TornLines
                 PROVE  Readable(lines[i], e)
      OBVIOUS
    <2>1. lines[i] \in Seq(Fragments)
      <3> DEFINE Lines == Seq(Fragments)
      <3>1. lines \in Seq(Lines)
        BY DEF LogInv, LogTypeOK
      <3> HIDE DEF Lines
      <3>2. lines[i] \in Lines
        BY <3>1
      <3> QED BY <3>2 DEF Lines
    <2>2. Len(lines[i]) = 1
      BY DEF TornLines
    <2>3. DOMAIN lines[i] = {1} /\ lines[i] = << lines[i][1] >>
      BY <2>1, <2>2
    <2> QED BY <2>3 DEF Holds, Readable
  <1>2. PICK r : holding \subseteq TornLines \cup {r}
    <2>1. CASE \E r \in holding : Readable(lines[r], e)
      BY <1>1, <2>1 DEF EntriesInv
    <2>2. CASE \A r \in holding : ~Readable(lines[r], e)
      BY <1>1, <2>2
    <2> QED BY <2>1, <2>2
  <1>3. /\ IsFiniteSet(TornLines \cup {r}) /\ Cardinality(TornLines \cup {r}) \in Nat
        /\ Cardinality(TornLines \cup {r}) <= Cardinality(TornLines) + 1
    BY TornIsFinite, AtMostOneMore
  <1>4. Cardinality(holding) <= Cardinality(TornLines \cup {r}) /\ Cardinality(holding) \in Nat
    BY <1>2, <1>3, FS_Subset, FS_CardinalityType
  <1>5. tears \in Nat
    BY LogAssumption DEF LogInv, LogTypeOK
  <1> QED BY <1>3, <1>4, <1>5, TornIsFinite DEF EntriesInv

(* An error is logged once, however many requests fail with it at the same *)
(* time, whatever captures fail and however often the process starts; only *)
(* a write that ends early can cost one entry more.                        *)
THEOREM EntriesAreFew == ServerSpec => []OneEntryPerTear
PROOF
  <1> DEFINE Inv == LogInv /\ EntriesInv
  <1>1. ServerInit => Inv
    <2>1. ASSUME ServerInit PROVE EntriesInv
      <3>1. lines = << >> /\ ended = TRUE /\ tears = 0
        BY <2>1 DEF ServerInit, LogInit
      <3>2. DOMAIN lines = {}
        BY <3>1
      <3>3. Cardinality(TornLines) = 0
        BY <3>1, <3>2, FS_EmptySet DEF TornLines
      <3>4. \A g \in Capturers : capturePC[g] = "idle"
        BY <2>1 DEF ServerInit, LogInit
      <3> QED BY <3>1, <3>2, <3>3, <3>4 DEF EntriesInv
    <2> QED BY <2>1, LogInvInitially
  <1>2. Inv /\ [ServerNext]_serverVars => Inv'
    BY LogInvInductive, EntriesInvInductive
  <1>3. Inv => OneEntryPerTear
    BY OneEntry
  <1> HIDE DEF Inv
  <1> QED BY <1>1, <1>2, <1>3, PTL DEF ServerSpec
=============================================================================
