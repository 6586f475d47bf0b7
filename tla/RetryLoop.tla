------------------------------ MODULE RetryLoop ------------------------------
(***************************************************************************)
(* One upstream request of src/proxy/vertex.go: VertexProxy.call (mode     *)
(* "call": the chunks of an attempt are merged and returned at the end)    *)
(* and VertexProxy.stream (mode "stream": every chunk is passed to the     *)
(* caller's onChunk as it arrives), with doCall/doStream below them.       *)
(*                                                                         *)
(* Both are two nested loops.  The inner one makes attempts with one       *)
(* reCAPTCHA token, the outer one replaces the token; ctx can be done at   *)
(* any moment.  Here a token is only the fact that it is a new one; the    *)
(* module RequestPool connects the loop to the token cache.                *)
(***************************************************************************)
EXTENDS Naturals, Sequences

CONSTANTS MaxRetry,    \* cfg.MaxRetry: retries per token
          MaxRefresh,  \* cfg.MaxRefresh: token replacements
          MaxChunks    \* bound of the chunks of one upstream answer

ASSUME LoopAssumption ==
  MaxRetry \in Nat \ {0} /\ MaxRefresh \in Nat \ {0} /\ MaxChunks \in Nat

VARIABLES
  mode,        \* "call" or "stream"
  require,     \* requireAssistantOutput
  pc,          \* where the loop is
  cancelled,   \* ctx is done
  failure,     \* class of lastErr and its status
  tokenRetry,  \* retries charged to the current token
  exempted,    \* verifyExemptUsed
  refreshCount,
  bypassed,    \* thoughtSignatureBypassApplied
  chunks,      \* the chunks the current attempt has received
  sent,        \* how many of them were passed to onChunk
  emitted,     \* emitted: onChunk was called during this attempt
  handed,      \* what the caller received over all attempts
  outcome,     \* "open" while running, then "ok" or "error"
  attempts,    \* history: upstream attempts made
  late         \* history: attempts and pauses that began after ctx was done

vars == <<mode, require, pc, cancelled, failure, tokenRetry, exempted, refreshCount,
          bypassed, chunks, sent, emitted, handed, outcome, attempts, late>>

history == <<attempts, late>>

loopVars    == <<tokenRetry, exempted, refreshCount, bypassed>>
attemptVars == <<chunks, sent, emitted>>

(* "output" is a chunk for which HasAssistantOutput holds, "meta" any      *)
(* other non-empty chunk (usage, metadata, a finish reason).               *)
Kinds == {"output", "meta"}

(* How an attempt can fail: status 0 (transport, HTTP status, decoding or  *)
(* onChunk), code 8, the code-3 messages the loop tells apart, any other   *)
(* code, and ErrNoAssistantOutput (status 999).                            *)
Upstream == {"transport", "exhausted", "verify", "invalid", "signature", "other"}
Failures == Upstream \cup {"noOutput"}

HasOutput(s) == \E i \in 1 .. Len(s) : s[i] = "output"

TypeOK ==
  /\ mode \in {"call", "stream"} /\ require \in BOOLEAN
  /\ pc \in {"check", "begin", "receive", "pass", "failed", "decide", "sleep", "refresh", "done"}
  /\ cancelled \in BOOLEAN
  /\ failure \in Failures \cup {"none"}
  /\ tokenRetry \in 0 .. MaxRetry + 1 /\ exempted \in BOOLEAN
  /\ refreshCount \in 0 .. MaxRefresh /\ bypassed \in BOOLEAN
  /\ chunks \in Seq(Kinds) /\ sent \in Nat /\ emitted \in BOOLEAN
  /\ handed \in Seq(Kinds)
  /\ outcome \in {"open", "ok", "error"}
  /\ attempts \in Nat /\ late \in Nat

Init ==
  /\ mode \in {"call", "stream"} /\ require \in BOOLEAN
  /\ pc = "check" /\ cancelled = FALSE /\ failure = "none"
  /\ tokenRetry = 0 /\ exempted = FALSE /\ refreshCount = 0 /\ bypassed = FALSE
  /\ chunks = <<>> /\ sent = 0 /\ emitted = FALSE
  /\ handed = <<>> /\ outcome = "open" /\ attempts = 0 /\ late = 0

-----------------------------------------------------------------------------
(* The client disconnects or the server shuts down: ctx is done.           *)
Cancel ==
  /\ ~cancelled /\ pc # "done"
  /\ cancelled' = TRUE
  /\ UNCHANGED <<mode, require, pc, failure, loopVars, attemptVars, handed,
                 outcome, history>>

(* Return an error from the position the loop is at.                       *)
ReturnError ==
  /\ pc' = "done" /\ outcome' = "error"
  /\ UNCHANGED <<mode, require, cancelled, failure, loopVars, attemptVars,
                 handed, history>>

(* ctx is looked at at the head of the inner loop, after an attempt, and   *)
(* while the loop pauses (sleepContext).  A look at the head or after an   *)
(* attempt is a step of its own: ctx can be done between the look and what *)
(* the loop then begins.                                                   *)
ReturnCancelled == pc \in {"check", "failed", "sleep"} /\ cancelled /\ ReturnError

Looked(here, next) ==
  /\ pc = here /\ pc' = next
  /\ UNCHANGED <<mode, require, cancelled, failure, loopVars, attemptVars, handed,
                 outcome, history>>

LookBeforeBlindly == Looked("check", "begin")   \* mutant of LookBefore

LookBefore == ~cancelled /\ Looked("check", "begin")

LookAfter == ~cancelled /\ Looked("failed", "decide")

(* An attempt or a pause begins; both may come too late for ctx.           *)
Begin == late' = IF cancelled THEN late + 1 ELSE late

Pause == pc' = "sleep" /\ Begin

StartAttempt ==
  /\ pc = "begin"
  /\ pc' = "receive"
  /\ chunks' = <<>> /\ sent' = 0 /\ emitted' = FALSE
  /\ attempts' = attempts + 1
  /\ Begin
  /\ UNCHANGED <<mode, require, cancelled, failure, loopVars, handed, outcome>>

(* A chunk arrives.  A stream passes it on at once, except that a caller   *)
(* that requires output gets nothing before the first output chunk: until  *)
(* then chunks are kept in pending.                                        *)
Passes(k) == mode = "stream" /\ (require => HasOutput(chunks) \/ k = "output")

Receive ==
  /\ pc = "receive" /\ Len(chunks) < MaxChunks
  /\ \E k \in Kinds :
       /\ chunks' = Append(chunks, k)
       /\ pc' = IF Passes(k) THEN "pass" ELSE "receive"
  /\ UNCHANGED <<mode, require, cancelled, failure, loopVars, sent, emitted,
                 handed, outcome, history>>

(* onChunk is called for the first chunk it has not seen: the pending ones *)
(* in order, then the new one.                                             *)
Pass ==
  /\ pc = "pass"
  /\ handed' = Append(handed, chunks[sent + 1])
  /\ sent' = sent + 1
  /\ emitted' = TRUE
  /\ pc' = IF sent + 1 < Len(chunks) THEN "pass" ELSE "receive"
  /\ UNCHANGED <<mode, require, cancelled, failure, loopVars, chunks, outcome, history>>

(* onChunk fails (the client is gone): the attempt ends with status 0.     *)
PassFails ==
  /\ pc = "pass"
  /\ emitted' = TRUE
  /\ failure' = "transport" /\ pc' = "failed"
  /\ UNCHANGED <<mode, require, cancelled, loopVars, chunks, sent, handed,
                 outcome, history>>

(* The upstream answer ends without error.                                 *)
AnsweredAnyhow == pc = "receive"   \* mutant of Answered

Answered == pc = "receive" /\ (require => HasOutput(chunks))

Succeed ==
  /\ Answered
  /\ handed' = IF mode = "call" THEN chunks ELSE handed
  /\ pc' = "done" /\ outcome' = "ok"
  /\ UNCHANGED <<mode, require, cancelled, failure, loopVars, attemptVars, history>>

(* It ends without assistant output, or with an error at any point.        *)
AttemptFails ==
  /\ pc = "receive"
  /\ \/ require /\ ~HasOutput(chunks) /\ failure' = "noOutput"
     \/ failure' \in Upstream
  /\ pc' = "failed"
  /\ UNCHANGED <<mode, require, cancelled, loopVars, attemptVars, handed,
                 outcome, history>>

-----------------------------------------------------------------------------
(* What the loop does about a failed attempt, in the order of its tests.   *)

(* It may go on at all: nothing emitted, no status 0.                      *)
MayGoOn == pc = "decide" /\ failure # "transport" /\ ~(mode = "stream" /\ emitted)

GiveUp == pc = "decide" /\ ~MayGoOn /\ ReturnError

(* A rejected thought signature: once, the history is rewritten and the    *)
(* attempt repeated at once, if there was anything to rewrite.             *)
Bypass ==
  /\ MayGoOn /\ failure = "signature" /\ ~bypassed
  /\ bypassed' = TRUE
  /\ pc' = "check"
  /\ UNCHANGED <<mode, require, cancelled, failure, tokenRetry, exempted,
                 refreshCount, attemptVars, handed, outcome, history>>

(* Not retryable; a signature error is not when no bypass is left or       *)
(* nothing was rewritten.                                                  *)
NotRetryable == MayGoOn /\ failure \in {"signature", "other"} /\ ReturnError

(* The first "Failed to verify action" of a token is not charged to it.    *)
ExemptAlways ==   \* mutant of Exempt: verifyExemptUsed is not set
  /\ MayGoOn /\ failure = "verify" /\ ~exempted
  /\ Pause
  /\ UNCHANGED <<mode, require, cancelled, failure, loopVars, attemptVars,
                 handed, outcome, attempts>>

Exempt ==
  /\ MayGoOn /\ failure = "verify" /\ ~exempted
  /\ exempted' = TRUE
  /\ Pause
  /\ UNCHANGED <<mode, require, cancelled, failure, tokenRetry, refreshCount,
                 bypassed, attemptVars, handed, outcome, attempts>>

Charged == MayGoOn /\ (failure \in {"exhausted", "noOutput"} \/ (failure = "verify" /\ exempted))

(* A charged failure: retry on the token while its budget lasts.           *)
Retry ==
  /\ Charged /\ tokenRetry < MaxRetry
  /\ tokenRetry' = tokenRetry + 1
  /\ Pause
  /\ UNCHANGED <<mode, require, cancelled, failure, exempted, refreshCount,
                 bypassed, attemptVars, handed, outcome, attempts>>

(* The budget is used up: another token, unless the attempt had no output, *)
(* for which no token is to blame.                                         *)
ExhaustAlways ==   \* mutant of Exhaust: a missing output costs the token too
  /\ Charged /\ tokenRetry = MaxRetry
  /\ tokenRetry' = tokenRetry + 1
  /\ pc' = "refresh"
  /\ UNCHANGED <<mode, require, cancelled, failure, exempted, refreshCount,
                 bypassed, attemptVars, handed, outcome, history>>

Exhaust ==
  /\ Charged /\ tokenRetry = MaxRetry
  /\ tokenRetry' = tokenRetry + 1
  /\ IF failure = "noOutput"
       THEN pc' = "done" /\ outcome' = "error"
       ELSE pc' = "refresh" /\ UNCHANGED outcome
  /\ UNCHANGED <<mode, require, cancelled, failure, exempted, refreshCount,
                 bypassed, attemptVars, handed, history>>

(* A token the upstream calls invalid or expired is given up at once.      *)
RejectToken ==
  /\ MayGoOn /\ failure = "invalid"
  /\ pc' = "refresh"
  /\ UNCHANGED <<mode, require, cancelled, failure, loopVars, attemptVars,
                 handed, outcome, history>>

(* The outer loop: a new token and a new inner loop, after a delay.  ctx   *)
(* can be done while the token is fetched; if it was done before, the      *)
(* fetch fails and with it the refresh.                                    *)
Refresh ==
  /\ pc = "refresh" /\ refreshCount < MaxRefresh
  /\ refreshCount' = refreshCount + 1
  /\ tokenRetry' = 0 /\ exempted' = FALSE
  /\ Pause
  /\ UNCHANGED <<mode, require, cancelled, failure, bypassed, attemptVars,
                 handed, outcome, attempts>>

(* No replacement could be had, or none is left.                           *)
RefreshFailsAgain == pc = "refresh" /\ UNCHANGED vars   \* mutant: tries on for ever

RefreshFails == pc = "refresh" /\ ReturnError

Wake ==
  /\ pc = "sleep"
  /\ pc' = "check"
  /\ UNCHANGED <<mode, require, cancelled, failure, loopVars, attemptVars,
                 handed, outcome, history>>

(* The program's own steps; the upstream and the client are answered for   *)
(* by the timeouts of the HTTP client and of the server.                   *)
Step ==
  \/ ReturnCancelled \/ LookBefore \/ LookAfter \/ StartAttempt \/ Receive \/ Pass \/ PassFails
  \/ Succeed \/ AttemptFails \/ GiveUp \/ Bypass \/ NotRetryable \/ Exempt
  \/ Retry \/ Exhaust \/ RejectToken \/ Refresh \/ RefreshFails \/ Wake

Finished == pc = "done" /\ UNCHANGED vars

Next == Step \/ Cancel \/ Finished

Spec == Init /\ [][Next]_vars

FairSpec == Spec /\ WF_vars(Step)

-----------------------------------------------------------------------------
(* Properties.                                                             *)

(* The retry budget of the whole request: for each of MaxRefresh + 1       *)
(* tokens a first attempt, one exempt one and MaxRetry charged ones, plus  *)
(* the one thought-signature bypass; the four counters reset separately.   *)
AttemptsBounded == attempts <= (MaxRefresh + 1) * (MaxRetry + 2) + 1

(* What the caller holds is always the beginning of the current attempt's  *)
(* answer: no chunk of an abandoned attempt stays with the caller, none is *)
(* skipped, repeated or reordered by the pending queue.                    *)
HandedIsPrefix ==
  Len(handed) <= Len(chunks) /\ \A i \in 1 .. Len(handed) : handed[i] = chunks[i]

(* A token is exchanged only when it is to blame - rejected, or out of     *)
(* retries by failures that count against it, the exempt one used - and    *)
(* only while the caller has nothing of the answer: after three kinds of   *)
(* retry have interleaved, never for an answer that just had no output.    *)
RefreshIsDue ==
  pc = "refresh" =>
    /\ handed = << >>
    /\ \/ failure = "invalid"
       \/ failure = "exhausted" /\ tokenRetry = MaxRetry + 1
       \/ failure = "verify" /\ tokenRetry = MaxRetry + 1 /\ exempted

(* Once ctx is done, wherever the loop is, it begins one more thing at     *)
(* most, the attempt or the pause it was about to begin: every way from    *)
(* there to another attempt or pause leads past a look at ctx.             *)
WindsDown == late <= 1

(* call and stream implement the promise to the caller.                    *)
Promise == INSTANCE Delivery WITH answer <- chunks
DeliverySpec == Promise!Spec

(* Every request ends, whatever the upstream answers.                      *)
Terminates == <>(pc = "done")
=============================================================================
