--------------------------- MODULE UpstreamAttempts ---------------------------
(***************************************************************************)
(* The attempts of concurrent requests (doStream in src/proxy/vertex.go)   *)
(* with what each of them leaves behind: the counters of src/stats, which  *)
(* live as long as the process, and the Code 3 log, which outlives it.     *)
(* The process serves until the signal, then waits for its requests for a  *)
(* while and ends (run in src/main.go); it can also crash, and is started  *)
(* again.                                                                  *)
(*                                                                         *)
(* Every capturer of Code3Log is a request here; its retries are attempts  *)
(* one after the other.  The counters are kept for the Vertex base URL and *)
(* for the reCAPTCHA one of the attempt's token, which it may not have.    *)
(***************************************************************************)
EXTENDS Code3Log

CONSTANTS
  MaxAttempts,    \* attempts of one process
  MaxStarts       \* starts of the process

ASSUME AttemptAssumption ==
  IsFiniteSet(Capturers) /\ MaxAttempts \in Nat /\ MaxStarts \in Nat

VARIABLES
  process,        \* "down", "serving" or "stopping"
  at,             \* at[g]: where request g is
  tokenBase,      \* tokenBase[g]: the attempt's token has a base URL
  total, success, \* the counters of a URL
  failed,         \* history: failed[u]: attempts with URL u that ended without success
  starts          \* history: starts of the process

countVars == <<process, at, tokenBase, total, success, failed, starts>>

serverVars == <<logVars, countVars>>

URLs == {"vertex", "recaptcha"}

Places == {"none", "ready", "recorded", "sent", "capture", "answered"}

ServerTypeOK ==
  /\ LogTypeOK
  /\ process \in {"down", "serving", "stopping"}
  /\ at \in [Capturers -> Places]
  /\ tokenBase \in [Capturers -> BOOLEAN]
  /\ total \in [URLs -> Nat] /\ success \in [URLs -> Nat] /\ failed \in [URLs -> Nat]
  /\ starts \in 0 .. MaxStarts

Zero == [u \in URLs |-> 0]

ServerInit ==
  /\ LogInit
  /\ process = "down"
  /\ at = [g \in Capturers |-> "none"]
  /\ tokenBase = [g \in Capturers |-> FALSE]
  /\ total = Zero /\ success = Zero /\ failed = Zero
  /\ starts = 0

GoesTo(g, place) == at' = [at EXCEPT ![g] = place]

-----------------------------------------------------------------------------
(* The life of the process.                                                *)

(* The counters are package variables: they begin at zero.                 *)
Start ==
  /\ process = "down" /\ starts < MaxStarts
  /\ process' = "serving"
  /\ starts' = starts + 1
  /\ UNCHANGED <<logVars, at, tokenBase, total, success, failed>>

Signal ==
  /\ process = "serving"
  /\ process' = "stopping"
  /\ UNCHANGED <<logVars, at, tokenBase, total, success, failed, starts>>

(* Whatever runs is cut off, and what was in memory is gone.               *)
End ==
  /\ process' = "down"
  /\ at' = [g \in Capturers |-> "none"]
  /\ total' = Zero /\ success' = Zero /\ failed' = Zero
  /\ Abandon
  /\ tokenBase' = [g \in Capturers |-> FALSE]
  /\ UNCHANGED starts

(* server.Shutdown returns when all requests are answered or after its     *)
(* deadline, and the process ends in both cases: a request that is still   *)
(* under way is cut off wherever it is.                                    *)
Shutdown == process = "stopping" /\ End

Crash == process # "down" /\ End

-----------------------------------------------------------------------------
(* One request.                                                            *)

(* The listener is closed by the signal.                                   *)
Accept(g) ==
  /\ process = "serving" /\ at[g] = "none"
  /\ GoesTo(g, "ready")
  /\ UNCHANGED <<logVars, process, tokenBase, total, success, failed, starts>>

(* doStream: stats.RecordRequest(vertexBase) ...                           *)
RecordRequest(g) ==
  /\ at[g] = "ready" /\ total["vertex"] < MaxAttempts
  /\ total' = [total EXCEPT !["vertex"] = @ + 1]
  /\ \E known \in BOOLEAN : tokenBase' = [tokenBase EXCEPT ![g] = known]
  /\ GoesTo(g, "recorded")
  /\ UNCHANGED <<logVars, process, success, failed, starts>>

Counted(counter, u, known) == IF known THEN [counter EXCEPT ![u] = @ + 1] ELSE counter

(* ... and stats.RecordRequest(recaptchaBase), then the request goes out.  *)
SendRequest(g) ==
  /\ at[g] = "recorded"
  /\ total' = Counted(total, "recaptcha", tokenBase[g])
  /\ GoesTo(g, "sent")
  /\ UNCHANGED <<logVars, process, tokenBase, success, failed, starts>>

EndAttempt(g) ==
  /\ GoesTo(g, "ready")
  /\ tokenBase' = [tokenBase EXCEPT ![g] = FALSE]

FailAttempt(g) ==
  /\ EndAttempt(g)
  /\ failed' = Counted(Counted(failed, "vertex", TRUE), "recaptcha", tokenBase[g])

UpstreamFails(g) ==
  /\ at[g] = "sent"
  /\ FailAttempt(g)
  /\ UNCHANGED <<logVars, process, total, success, starts>>

(* The upstream refuses the request with Code 3 and an error that is not   *)
(* transient.                                                              *)
UpstreamRefuses(g) ==
  /\ at[g] = "sent"
  /\ GoesTo(g, "capture")
  /\ UNCHANGED <<logVars, process, tokenBase, total, success, failed, starts>>

(* capture runs inside the attempt; when it returns, the attempt failed.   *)
CaptureStep(g) ==
  /\ at[g] = "capture"
  /\ Capture(g)
  /\ IF capturePC'[g] = "idle" THEN FailAttempt(g) ELSE UNCHANGED <<at, tokenBase, failed>>
  /\ UNCHANGED <<process, total, success, starts>>

(* stats.RecordSuccess, for the one URL and then for the other.            *)
UpstreamAnswers(g) ==
  /\ at[g] = "sent"
  /\ success' = [success EXCEPT !["vertex"] = @ + 1]
  /\ GoesTo(g, "answered")
  /\ UNCHANGED <<logVars, process, tokenBase, total, failed, starts>>

RecordAlways(g) ==   \* mutant of RecordSuccess: the token's URL is not looked at
  /\ at[g] = "answered"
  /\ success' = Counted(success, "recaptcha", TRUE)
  /\ EndAttempt(g)
  /\ UNCHANGED <<logVars, process, total, failed, starts>>

RecordSuccess(g) ==
  /\ at[g] = "answered"
  /\ success' = Counted(success, "recaptcha", tokenBase[g])
  /\ EndAttempt(g)
  /\ UNCHANGED <<logVars, process, total, failed, starts>>

(* The handler returns, with an answer or an error.                        *)
Respond(g) ==
  /\ at[g] = "ready"
  /\ GoesTo(g, "none")
  /\ UNCHANGED <<logVars, process, tokenBase, total, success, failed, starts>>

Request(g) ==
  \/ Accept(g) \/ RecordRequest(g) \/ SendRequest(g) \/ UpstreamFails(g) \/ UpstreamRefuses(g)
  \/ CaptureStep(g) \/ UpstreamAnswers(g) \/ RecordSuccess(g) \/ Respond(g)

DeleteLog == Delete /\ UNCHANGED countVars

ServerNext ==
  \/ Start \/ Signal \/ Shutdown \/ Crash \/ DeleteLog
  \/ \E g \in Capturers : Request(g)

ServerSpec == ServerInit /\ [][ServerNext]_serverVars

-----------------------------------------------------------------------------
(* Properties.                                                             *)

(* Attempts that were counted for u and have not ended for it.             *)
InFlight(u) ==
  IF u = "vertex" THEN {g \in Capturers : at[g] \in {"recorded", "sent", "capture"}}
  ELSE {g \in Capturers : at[g] \in {"sent", "capture", "answered"} /\ tokenBase[g]}

(* Whenever the statistics are read, between any two updates, each URL has *)
(* as many requests as successes, failures and attempts under way: no      *)
(* attempt is counted twice, or for one URL only, and the rate of success  *)
(* is at most 100% (RecordRequest, RecordSuccess, GetStats).               *)
StatsAddUp ==
  \A u \in URLs : total[u] = success[u] + failed[u] + Cardinality(InFlight(u))
=============================================================================
