----------------------------- MODULE RequestPool -----------------------------
(***************************************************************************)
(* Concurrent requests over one TokenCache: how the retry loops of         *)
(* src/proxy/vertex.go take, exchange, retire and return their leases.     *)
(*                                                                         *)
(* RetryLoop describes when one request retries, refreshes or returns;     *)
(* here those decisions are free and every critical section of the cache   *)
(* is the action of the module TokenCache.  A request has at most two      *)
(* leases: its current one and, while it refreshes, the one that is to     *)
(* replace it.  They live in two slots used in turn.                       *)
(***************************************************************************)
EXTENDS Integers

CONSTANTS Requests, MaxRefresh,
          Tokens, NoToken, TTL, MaxFetch, MaxCollisions, Reissue, MaxTime

ASSUME PoolAssumption ==
  /\ MaxRefresh \in Nat
  /\ NoToken \notin Tokens
  /\ TTL \in Nat /\ MaxTime \in Nat
  /\ MaxFetch \in Nat \ {0} /\ MaxCollisions \in Nat \ {0}
  /\ Reissue \in BOOLEAN

VARIABLES clock, entry, expiresAt, pc, now, token, fetches, collisions,
          issuedAt, retired, outlived,
          stage,         \* stage[r]: where request r is
          current,       \* current[r]: the slot of tokenLease
          refreshCount   \* refreshCount[r]

Slots == {1, 2}

Cache == INSTANCE TokenCache WITH Calls <- Requests \X Slots

cacheVars == <<clock, entry, expiresAt, pc, now, token, fetches, collisions,
               issuedAt, retired, outlived>>

vars == <<cacheVars, stage, current, refreshCount>>

Stages == {"idle", "first", "attempt", "refresh", "unwind", "done"}

TypeOK ==
  /\ Cache!TypeOK
  /\ stage \in [Requests -> Stages]
  /\ current \in [Requests -> Slots]
  /\ refreshCount \in [Requests -> 0 .. MaxRefresh]

Init ==
  /\ Cache!Init
  /\ stage = [r \in Requests |-> "idle"]
  /\ current = [r \in Requests |-> 1]
  /\ refreshCount = [r \in Requests |-> 0]

Lease(r)   == <<r, current[r]>>
Pending(r) == <<r, 3 - current[r]>>

Goto(r, s) == stage' = [stage EXCEPT ![r] = s]

-----------------------------------------------------------------------------
(* BuildBodyWithTokenWithOptionsContext: lease a token, build the body;    *)
(* a body that cannot be built gives the lease back.                       *)

Start(r) ==
  /\ stage[r] = "idle"
  /\ Cache!GetToken(Lease(r))
  /\ Goto(r, "first")
  /\ UNCHANGED <<current, refreshCount>>

NoFirstToken(r) ==
  /\ stage[r] = "first" /\ pc[Lease(r)] = "idle"
  /\ Goto(r, "done")
  /\ UNCHANGED <<cacheVars, current, refreshCount>>

BodyBuiltReleases(r) ==   \* mutant of BodyBuilt: the lease ends with the build
  /\ stage[r] = "first" /\ pc[Lease(r)] = "held"
  /\ Cache!Release(Lease(r))
  /\ Goto(r, "attempt")
  /\ UNCHANGED <<current, refreshCount>>

BodyBuilt(r) ==
  /\ stage[r] = "first" /\ pc[Lease(r)] = "held"
  /\ Goto(r, "attempt")
  /\ UNCHANGED <<cacheVars, current, refreshCount>>

BuildFails(r) ==
  /\ stage[r] = "first" /\ pc[Lease(r)] = "held"
  /\ Cache!Release(Lease(r))
  /\ Goto(r, "done")
  /\ UNCHANGED <<current, refreshCount>>

(* The loop returns a result or an error: the deferred Release is next.    *)
Return(r) ==
  /\ stage[r] = "attempt"
  /\ Goto(r, "unwind")
  /\ UNCHANGED <<cacheVars, current, refreshCount>>

(* The current token is given up, rejected by the upstream or with its     *)
(* retries used up.  The replacement is fetched while the old lease is     *)
(* still held; with no refresh left the loop returns.                      *)
MayRefresh(r) == refreshCount[r] < MaxRefresh

GiveUpToken(r) ==
  /\ stage[r] = "attempt"
  /\ IF MayRefresh(r)
       THEN /\ refreshCount' = [refreshCount EXCEPT ![r] = @ + 1]
            /\ Cache!GetToken(Pending(r))
            /\ Goto(r, "refresh")
       ELSE /\ Goto(r, "unwind")
            /\ UNCHANGED <<cacheVars, refreshCount>>
  /\ UNCHANGED current

(* replaceRecaptchaTokenForRetry: only a lease that made it into the body  *)
(* retires the old one.                                                    *)
Replace(r) ==
  /\ stage[r] = "refresh" /\ pc[Pending(r)] = "held"
  /\ Cache!Retire(Lease(r))
  /\ current' = [current EXCEPT ![r] = 3 - @]
  /\ Goto(r, "attempt")
  /\ UNCHANGED refreshCount

ReplaceFailsLeaks(r) ==   \* mutant of ReplaceFails: the new lease is dropped
  /\ stage[r] = "refresh" /\ pc[Pending(r)] \in {"idle", "held"}
  /\ Goto(r, "unwind")
  /\ UNCHANGED <<cacheVars, current, refreshCount>>

ReplaceFails(r) ==
  /\ stage[r] = "refresh"
  /\ \/ /\ pc[Pending(r)] = "idle"       \* no token was to be had
        /\ UNCHANGED cacheVars
     \/ /\ pc[Pending(r)] = "held"       \* the body could not be rewritten
        /\ Cache!Release(Pending(r))
  /\ Goto(r, "unwind")
  /\ UNCHANGED <<current, refreshCount>>

(* The deferred Release of call and stream.                                *)
UnwindWithoutRelease(r) ==   \* mutant of Unwind
  /\ stage[r] = "unwind"
  /\ Goto(r, "done")
  /\ UNCHANGED <<cacheVars, current, refreshCount>>

Unwind(r) ==
  /\ stage[r] = "unwind"
  /\ Cache!Release(Lease(r))
  /\ Goto(r, "done")
  /\ UNCHANGED <<current, refreshCount>>

(* GetTokenContext at work for r.                                          *)
Acquiring(r) ==
  /\ \E i \in Slots : Cache!Proceed(<<r, i>>)
  /\ UNCHANGED <<stage, current, refreshCount>>

(* A later request runs in the place of a finished one.                    *)
Again(r) ==
  /\ stage[r] = "done"
  /\ Goto(r, "idle")
  /\ refreshCount' = [refreshCount EXCEPT ![r] = 0]
  /\ UNCHANGED <<cacheVars, current>>

Tick == Cache!Tick /\ UNCHANGED <<stage, current, refreshCount>>

Work(r) ==
  \/ NoFirstToken(r) \/ BodyBuilt(r) \/ BuildFails(r) \/ Return(r)
  \/ GiveUpToken(r) \/ Replace(r) \/ ReplaceFails(r) \/ Unwind(r) \/ Acquiring(r)

Next == (\E r \in Requests : Start(r) \/ Work(r) \/ Again(r)) \/ Tick

Spec == Init /\ [][Next]_vars

-----------------------------------------------------------------------------
(* Properties.                                                             *)

(* Upstream attempts that run at the same time carry different tokens,     *)
(* also when a token expires under a slow attempt (fresh upstream).        *)
AttemptsExclusive ==
  \A r, q \in Requests :
    stage[r] = "attempt" /\ stage[q] = "attempt" /\ r # q
      => token[Lease(r)] # token[Lease(q)]

(* A token retired after a successful replacement is in nobody's hands and *)
(* out of the cache, whatever leases end afterwards (fresh upstream).      *)
RetiredIsGone == Cache!RetiredIsGone

(* A finished request has given back or retired every lease it ever took,  *)
(* on every error path of the build, the loop and the replacement.         *)
NoLeaseLeaks ==
  \A r \in Requests : stage[r] \in {"idle", "done"} =>
    \A i \in Slots : pc[<<r, i>>] \in {"idle", "spent"}

(* When no request runs, no token of the cache is marked in use.           *)
QuiescentCacheIsFree ==
  (\A r \in Requests : stage[r] \in {"idle", "done"})
    => \A t \in Tokens : entry[t] # "inUse"

(* A request with a lease keeps it until it has the next one: there is no  *)
(* moment of a refresh at which it has none to fall back to.               *)
AlwaysHasLease ==
  \A r \in Requests : stage[r] \in {"attempt", "refresh", "unwind"}
    => pc[Lease(r)] = "held" /\ token[Lease(r)] \in Tokens
=============================================================================
