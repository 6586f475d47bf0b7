-------------------------- MODULE RequestPoolProofs --------------------------
(***************************************************************************)
(* Theorems of RequestPool for any number of requests.  The pool is shown  *)
(* to drive the cache only by the cache's own operations; the theorems of  *)
(* TokenCacheProofs then hold of every lease a request has.                *)
(***************************************************************************)
EXTENDS RequestPool, TLAPS

CP == INSTANCE TokenCacheProofs WITH Calls <- Requests \X Slots

CacheStep == CP!Next \/ UNCHANGED cacheVars

LEMMA CacheOperations ==
  ASSUME NEW c \in Requests \X Slots
  PROVE  /\ Cache!GetToken(c) => CacheStep
         /\ Cache!Proceed(c) => CacheStep
         /\ Cache!Release(c) => CacheStep
         /\ Cache!Retire(c) => CacheStep
<1>1. Cache!GetToken(c) => CP!GetToken(c)
  BY DEF Cache!GetToken, CP!GetToken
<1>2. Cache!Release(c) => CP!Release(c)
  BY DEF Cache!Release, CP!Release, Cache!Expired, CP!Expired
<1>3. Cache!Retire(c) => CP!Retire(c)
  BY DEF Cache!Retire, CP!Retire
<1>4. Cache!Proceed(c) => CP!Proceed(c)
  BY DEF Cache!Proceed, CP!Proceed,
         Cache!AcquireCached, CP!AcquireCached, Cache!FetchSucceeds, CP!FetchSucceeds,
         Cache!FetchFails, CP!FetchFails, Cache!FetchCancelled, CP!FetchCancelled,
         Cache!StoreFetchedToken, CP!StoreFetchedToken,
         Cache!Pruned, CP!Pruned, Cache!PrunedExpiry, CP!PrunedExpiry,
         Cache!Outliving, CP!Outliving, Cache!Expired, CP!Expired,
         Cache!Issuable, CP!Issuable, Cache!Leasable, CP!Leasable,
         Cache!MoreFetches, CP!MoreFetches, Cache!Collide, CP!Collide
<1> QED BY <1>1, <1>2, <1>3, <1>4 DEF CacheStep, CP!Next

CurrentIsSlot == current \in [Requests -> Slots]

LEMMA CurrentHolds == Spec => []CurrentIsSlot
<1>1. Init => CurrentIsSlot
  BY DEF Init, CurrentIsSlot, Slots
<1>2. CurrentIsSlot /\ [Next]_vars => CurrentIsSlot'
  <2> SUFFICES ASSUME CurrentIsSlot, [Next]_vars PROVE CurrentIsSlot'
    OBVIOUS
  <2>1. ASSUME NEW r \in Requests, Replace(r) PROVE CurrentIsSlot'
    BY <2>1 DEF Replace, CurrentIsSlot, Slots
  <2>2. ASSUME NEW r \in Requests, Start(r) \/ Again(r) PROVE UNCHANGED current
    BY <2>2 DEF Start, Again
  <2>3. ASSUME NEW r \in Requests, Work(r), ~Replace(r) PROVE UNCHANGED current
    BY <2>3 DEF Work, NoFirstToken, BodyBuilt, BuildFails, Return, GiveUpToken,
                ReplaceFails, Unwind, Acquiring
  <2>4. CASE Tick \/ UNCHANGED vars
    BY <2>4 DEF Tick, vars, CurrentIsSlot
  <2> QED BY <2>1, <2>2, <2>3, <2>4 DEF Next, CurrentIsSlot
<1> QED BY <1>1, <1>2, PTL DEF Spec

(* Every step of the pool is one operation of the cache, or leaves the     *)
(* cache alone.                                                            *)
LEMMA StepsAreCacheSteps ==
  ASSUME CurrentIsSlot, [Next]_vars
  PROVE  CacheStep
<1>1. ASSUME NEW r \in Requests
      PROVE  Lease(r) \in Requests \X Slots /\ Pending(r) \in Requests \X Slots
  BY <1>1 DEF CurrentIsSlot, Lease, Pending, Slots
<1>2. ASSUME NEW r \in Requests, Start(r) PROVE CacheStep
  BY <1>1, <1>2, CacheOperations DEF Start
<1>3. ASSUME NEW r \in Requests, Work(r) PROVE CacheStep
  BY <1>1, <1>3, CacheOperations
     DEF Work, NoFirstToken, BodyBuilt, BuildFails, Return, GiveUpToken, Replace,
         ReplaceFails, Unwind, Acquiring, CacheStep
<1>4. ASSUME NEW r \in Requests, Again(r) PROVE CacheStep
  BY <1>4 DEF Again, CacheStep
<1>5. CASE Tick
  BY <1>5 DEF Tick, CacheStep, CP!Next, CP!Tick, Cache!Tick
<1>6. CASE UNCHANGED vars
  BY <1>6 DEF vars, CacheStep
<1> QED BY <1>2, <1>3, <1>4, <1>5, <1>6 DEF Next

LEMMA CacheSpecHolds == Spec => CP!Spec
<1>1. Init => CP!Init
  BY DEF Init, Cache!Init, CP!Init
<1>2. CurrentIsSlot /\ [Next]_vars => [CP!Next]_(CP!cacheVars)
  BY StepsAreCacheSteps DEF CacheStep, cacheVars, CP!cacheVars
<1> QED BY <1>1, <1>2, CurrentHolds, PTL DEF Spec, CP!Spec

-----------------------------------------------------------------------------
(***************************************************************************)
(* What a request owns at each of its stages.  A lease is bound to a stage *)
(* by the request's own control flow alone, so the invariant speaks of pc  *)
(* only and needs nothing of the cache's contents.                         *)
(***************************************************************************)
Ended == {"idle", "spent"}

Ownership ==
  \A r \in Requests :
    /\ stage[r] \in {"idle", "done"} => pc[Lease(r)] \in Ended /\ pc[Pending(r)] \in Ended
    /\ stage[r] = "first" => pc[Pending(r)] \in Ended
    /\ stage[r] \in {"attempt", "unwind"} => pc[Lease(r)] = "held" /\ pc[Pending(r)] \in Ended
    /\ stage[r] = "refresh" => pc[Lease(r)] = "held"

PoolTypes ==
  /\ CurrentIsSlot
  /\ stage \in [Requests -> Stages]
  /\ pc \in [Requests \X Slots -> {"idle", "acquire", "fetch", "store", "held", "spent"}]

LeaseInv == PoolTypes /\ Ownership

(* How one operation of the cache moves the call it is about.              *)
LEMMA CallSteps ==
  ASSUME PoolTypes, NEW c \in Requests \X Slots
  PROVE  /\ Cache!GetToken(c) => pc' = [pc EXCEPT ![c] = "acquire"]
         /\ Cache!Release(c) /\ pc[c] = "held" => pc' = [pc EXCEPT ![c] = "spent"]
         /\ Cache!Retire(c) /\ pc[c] = "held" => pc' = [pc EXCEPT ![c] = "spent"]
         /\ Cache!Proceed(c) =>
              /\ pc[c] \in {"acquire", "fetch", "store"}
              /\ \E s \in {"fetch", "store", "held", "idle"} : pc' = [pc EXCEPT ![c] = s]
<1>1. Cache!GetToken(c) => pc' = [pc EXCEPT ![c] = "acquire"]
  BY DEF Cache!GetToken
<1>2. /\ Cache!Release(c) /\ pc[c] = "held" => pc' = [pc EXCEPT ![c] = "spent"]
      /\ Cache!Retire(c) /\ pc[c] = "held" => pc' = [pc EXCEPT ![c] = "spent"]
  BY DEF Cache!Release, Cache!Retire
<1>3. ASSUME Cache!Proceed(c)
      PROVE  /\ pc[c] \in {"acquire", "fetch", "store"}
             /\ \E s \in {"fetch", "store", "held", "idle"} : pc' = [pc EXCEPT ![c] = s]
  <2>1. CASE Cache!AcquireCached(c)
    BY <2>1 DEF Cache!AcquireCached
  <2>2. CASE Cache!FetchSucceeds(c)
    BY <2>2 DEF Cache!FetchSucceeds
  <2>3. CASE Cache!FetchFails(c)
    <3>1. pc' = [pc EXCEPT ![c] = "idle"] \/ pc' = [pc EXCEPT ![c] = "fetch"]
      BY <2>3 DEF Cache!FetchFails, PoolTypes
    <3> QED BY <3>1, <2>3 DEF Cache!FetchFails
  <2>4. CASE Cache!FetchCancelled(c)
    BY <2>4 DEF Cache!FetchCancelled
  <2>5. CASE Cache!StoreFetchedToken(c)
    BY <2>5 DEF Cache!StoreFetchedToken, Cache!Collide
  <2> QED BY <1>3, <2>1, <2>2, <2>3, <2>4, <2>5 DEF Cache!Proceed
<1> QED BY <1>1, <1>2, <1>3

(* The two slots of a request are its lease and its pending lease.         *)
LEMMA TwoSlots ==
  ASSUME CurrentIsSlot, NEW r \in Requests
  PROVE  /\ Lease(r) \in Requests \X Slots /\ Pending(r) \in Requests \X Slots
         /\ Lease(r) # Pending(r)
         /\ \A i \in Slots : <<r, i>> \in {Lease(r), Pending(r)}
         /\ \A q \in Requests \ {r} : {Lease(r), Pending(r)} \cap {Lease(q), Pending(q)} = {}
  BY DEF CurrentIsSlot, Lease, Pending, Slots

(* A step in which one request moves one of its calls, or none, and        *)
(* changes its own stage only: Ownership need be checked for r alone.      *)
LEMMA OneRequestMoves ==
  ASSUME LeaseInv, NEW r \in Requests, NEW s \in Stages,
         Goto(r, s), UNCHANGED current,
         NEW c \in {Lease(r), Pending(r)}, NEW l,
         l \in {"idle", "acquire", "fetch", "store", "held", "spent"},
         pc' = [pc EXCEPT ![c] = l],
         /\ s \in {"idle", "done"} => pc'[Lease(r)] \in Ended /\ pc'[Pending(r)] \in Ended
         /\ s = "first" => pc'[Pending(r)] \in Ended
         /\ s \in {"attempt", "unwind"} =>
              pc'[Lease(r)] = "held" /\ pc'[Pending(r)] \in Ended
         /\ s = "refresh" => pc'[Lease(r)] = "held"
  PROVE  LeaseInv'
<1> USE DEF LeaseInv, PoolTypes, Goto
<1>1. \A q \in Requests : Lease(q)' = Lease(q) /\ Pending(q)' = Pending(q)
  BY DEF Lease, Pending
<1>2. PoolTypes'
  BY TwoSlots DEF CurrentIsSlot
<1>3. \A q \in Requests \ {r} :
        /\ stage'[q] = stage[q]
        /\ pc'[Lease(q)] = pc[Lease(q)] /\ pc'[Pending(q)] = pc[Pending(q)]
  BY TwoSlots
<1>4. stage'[r] = s
  OBVIOUS
<1>5. Ownership'
  BY <1>1, <1>3, <1>4 DEF Ownership
<1> QED BY <1>2, <1>5

LEMMA LeaseInvHolds == Spec => []LeaseInv
<1>1. Init => LeaseInv
  BY DEF Init, Cache!Init, LeaseInv, PoolTypes, Ownership, CurrentIsSlot, Slots,
         Stages, Ended, Lease, Pending
<1>2. LeaseInv /\ [Next]_vars => LeaseInv'
  <2> SUFFICES ASSUME LeaseInv, [Next]_vars PROVE LeaseInv'
    OBVIOUS
  <2> USE DEF LeaseInv
  <2>1. ASSUME NEW r \in Requests, Start(r) PROVE LeaseInv'
    <3>1. pc' = [pc EXCEPT ![Lease(r)] = "acquire"]
      BY <2>1, TwoSlots, CallSteps DEF Start, PoolTypes
    <3>2. pc'[Pending(r)] \in Ended
      BY <2>1, <3>1, TwoSlots DEF Start, Ownership, PoolTypes
    <3> QED
      BY <2>1, <3>1, <3>2, OneRequestMoves DEF Start, Stages
  <2>2. ASSUME NEW r \in Requests,
               NoFirstToken(r) \/ BodyBuilt(r) \/ Return(r) \/ Again(r)
        PROVE  LeaseInv'
    <3>1. pc' = pc /\ UNCHANGED current
      BY <2>2 DEF NoFirstToken, BodyBuilt, Return, Again, cacheVars
    <3>2. pc' = [pc EXCEPT ![Lease(r)] = pc[Lease(r)]]
      BY <3>1, TwoSlots DEF PoolTypes
    <3>3. pc[Lease(r)] \in {"idle", "acquire", "fetch", "store", "held", "spent"}
      BY TwoSlots DEF PoolTypes
    <3>4. CASE NoFirstToken(r)
      BY <3>1, <3>2, <3>3, <3>4, OneRequestMoves DEF NoFirstToken, Stages, Ownership, Ended
    <3>5. CASE BodyBuilt(r)
      BY <3>1, <3>2, <3>3, <3>5, OneRequestMoves DEF BodyBuilt, Stages, Ownership, Ended
    <3>6. CASE Return(r)
      BY <3>1, <3>2, <3>3, <3>6, OneRequestMoves DEF Return, Stages, Ownership, Ended
    <3>7. CASE Again(r)
      BY <3>1, <3>2, <3>3, <3>7, OneRequestMoves DEF Again, Stages, Ownership, Ended
    <3> QED BY <2>2, <3>4, <3>5, <3>6, <3>7
  <2>3. ASSUME NEW r \in Requests, BuildFails(r) \/ Unwind(r) PROVE LeaseInv'
    <3>1. pc[Lease(r)] = "held" /\ pc[Pending(r)] \in Ended /\ Cache!Release(Lease(r))
          /\ Goto(r, "done") /\ UNCHANGED current
      BY <2>3 DEF BuildFails, Unwind, Ownership
    <3>2. pc' = [pc EXCEPT ![Lease(r)] = "spent"]
      BY <3>1, TwoSlots, CallSteps DEF PoolTypes
    <3>3. pc'[Lease(r)] \in Ended /\ pc'[Pending(r)] \in Ended
      BY <3>1, <3>2, TwoSlots DEF PoolTypes, Ended
    <3> QED
      BY <3>1, <3>2, <3>3, OneRequestMoves DEF Stages
  <2>4. ASSUME NEW r \in Requests, GiveUpToken(r) PROVE LeaseInv'
    <3>1. CASE MayRefresh(r)
      <4>1. pc' = [pc EXCEPT ![Pending(r)] = "acquire"]
        BY <2>4, <3>1, TwoSlots, CallSteps DEF GiveUpToken, PoolTypes
      <4>2. pc'[Lease(r)] = "held"
        BY <2>4, <4>1, TwoSlots DEF GiveUpToken, Ownership, PoolTypes
      <4> QED
        BY <2>4, <3>1, <4>1, <4>2, OneRequestMoves DEF GiveUpToken, Stages
    <3>2. CASE ~MayRefresh(r)
      <4>1. pc' = pc /\ Goto(r, "unwind") /\ UNCHANGED current
        BY <2>4, <3>2 DEF GiveUpToken, cacheVars
      <4>2. pc[Lease(r)] = "held" /\ pc[Pending(r)] \in Ended
        BY <2>4 DEF GiveUpToken, Ownership
      <4>3. pc' = [pc EXCEPT ![Lease(r)] = "held"]
        BY <4>1, <4>2, TwoSlots DEF PoolTypes
      <4> QED
        BY <4>1, <4>2, <4>3, OneRequestMoves DEF Stages
    <3> QED BY <3>1, <3>2
  <2>5. ASSUME NEW r \in Requests, Replace(r) PROVE LeaseInv'
    <3>1. pc' = [pc EXCEPT ![Lease(r)] = "spent"]
      BY <2>5, TwoSlots, CallSteps DEF Replace, Ownership, PoolTypes
    <3>2. current' = [current EXCEPT ![r] = 3 - @] /\ stage' = [stage EXCEPT ![r] = "attempt"]
      BY <2>5 DEF Replace, Goto
    <3>3. Lease(r)' = Pending(r) /\ Pending(r)' = Lease(r)
      BY <3>2 DEF PoolTypes, CurrentIsSlot, Slots, Lease, Pending
    <3>4. \A q \in Requests \ {r} :
            /\ stage'[q] = stage[q]
            /\ Lease(q)' = Lease(q) /\ Pending(q)' = Pending(q)
            /\ pc'[Lease(q)] = pc[Lease(q)] /\ pc'[Pending(q)] = pc[Pending(q)]
      <4>1. \A q \in Requests \ {r} :
              /\ stage'[q] = stage[q]
              /\ Lease(q)' = Lease(q) /\ Pending(q)' = Pending(q)
        BY <3>2 DEF PoolTypes, CurrentIsSlot, Lease, Pending
      <4>2. \A q \in Requests \ {r} :
              pc'[Lease(q)] = pc[Lease(q)] /\ pc'[Pending(q)] = pc[Pending(q)]
        BY <3>1, TwoSlots DEF PoolTypes
      <4> QED BY <4>1, <4>2
    <3>5. pc'[Pending(r)] = "held" /\ pc'[Lease(r)] \in Ended
      BY <2>5, <3>1, TwoSlots DEF Replace, PoolTypes, Ended
    <3>6. PoolTypes'
      BY <3>1, <3>2, TwoSlots DEF PoolTypes, CurrentIsSlot, Slots, Stages
    <3>7. stage'[r] = "attempt"
      BY <3>2 DEF PoolTypes
    <3>8. Ownership'
      BY <3>3, <3>4, <3>5, <3>7 DEF Ownership
    <3> QED BY <3>6, <3>8
  <2>6. ASSUME NEW r \in Requests, ReplaceFails(r) PROVE LeaseInv'
    <3>1. stage[r] = "refresh" /\ pc[Lease(r)] = "held" /\ Goto(r, "unwind")
          /\ UNCHANGED current
      BY <2>6 DEF ReplaceFails, Ownership
    <3>2. \E l \in Ended : pc' = [pc EXCEPT ![Pending(r)] = l]
      <4>1. CASE pc[Pending(r)] = "idle" /\ UNCHANGED cacheVars
        BY <4>1, TwoSlots DEF cacheVars, PoolTypes, Ended
      <4>2. CASE pc[Pending(r)] = "held" /\ Cache!Release(Pending(r))
        BY <4>2, TwoSlots, CallSteps DEF PoolTypes, Ended
      <4> QED BY <2>6, <4>1, <4>2 DEF ReplaceFails
    <3>3. PICK l \in Ended : pc' = [pc EXCEPT ![Pending(r)] = l]
      BY <3>2
    <3>4. pc'[Lease(r)] = "held" /\ pc'[Pending(r)] \in Ended
      BY <3>1, <3>3, TwoSlots DEF PoolTypes
    <3> QED
      BY <3>1, <3>3, <3>4, OneRequestMoves DEF Stages, Ended
  <2>7. ASSUME NEW r \in Requests, Acquiring(r) PROVE LeaseInv'
    <3>1. PICK c \in {Lease(r), Pending(r)} : Cache!Proceed(c)
      BY <2>7, TwoSlots DEF Acquiring, PoolTypes
    <3>2. PICK l \in {"fetch", "store", "held", "idle"} : pc' = [pc EXCEPT ![c] = l]
      BY <3>1, TwoSlots, CallSteps DEF PoolTypes
    <3>3. pc[c] \in {"acquire", "fetch", "store"}
      BY <3>1, TwoSlots, CallSteps DEF PoolTypes
    <3>4. UNCHANGED <<stage, current>>
      BY <2>7 DEF Acquiring
    <3>5. \/ stage[r] = "first" /\ c = Lease(r)
          \/ stage[r] = "refresh" /\ c = Pending(r)
      BY <3>3 DEF Ownership, PoolTypes, Stages, Ended
    <3>6. Goto(r, stage[r]) /\ stage[r] \in Stages
      BY <3>4 DEF Goto, PoolTypes
    <3>7. /\ stage[r] = "first" => pc'[Pending(r)] \in Ended
          /\ stage[r] = "refresh" => pc'[Lease(r)] = "held"
      BY <3>2, <3>5, TwoSlots DEF Ownership, PoolTypes
    <3> QED
      BY <3>2, <3>4, <3>5, <3>6, <3>7, OneRequestMoves DEF Stages
  <2>8. CASE Tick \/ UNCHANGED vars
    BY <2>8 DEF Tick, Cache!Tick, vars, cacheVars, PoolTypes, CurrentIsSlot, Ownership,
                Lease, Pending
  <2> QED
    BY <2>1, <2>2, <2>3, <2>4, <2>5, <2>6, <2>7, <2>8 DEF Next, Work
<1> QED BY <1>1, <1>2, PTL DEF Spec

-----------------------------------------------------------------------------
(* The counter a request keeps besides its leases.                         *)
CounterTypes == refreshCount \in [Requests -> 0 .. MaxRefresh]

LEMMA CounterTypesHold == Spec => []CounterTypes
<1>1. Init => CounterTypes
  BY PoolAssumption DEF Init, CounterTypes
<1>2. LeaseInv /\ CP!TypeInv /\ CounterTypes /\ [Next]_vars => CounterTypes'
  <2> SUFFICES ASSUME LeaseInv, CP!TypeInv, CounterTypes, [Next]_vars
               PROVE  CounterTypes'
    OBVIOUS
  <2> USE PoolAssumption DEF CounterTypes
  <2>1. ASSUME NEW r \in Requests, GiveUpToken(r) PROVE CounterTypes'
    <3>1. \/ refreshCount[r] < MaxRefresh /\ refreshCount' = [refreshCount EXCEPT ![r] = @ + 1]
          \/ refreshCount' = refreshCount
      BY <2>1 DEF GiveUpToken, MayRefresh
    <3> QED BY <3>1
  <2>2. ASSUME NEW r \in Requests, Again(r) PROVE CounterTypes'
    BY <2>2 DEF Again
  <2>3. ASSUME NEW r \in Requests,
               \/ Start(r) \/ NoFirstToken(r) \/ BodyBuilt(r) \/ BuildFails(r) \/ Return(r)
               \/ Replace(r) \/ ReplaceFails(r) \/ Unwind(r) \/ Acquiring(r)
        PROVE  CounterTypes'
    BY <2>3 DEF Start, NoFirstToken, BodyBuilt, BuildFails, Return, Replace, ReplaceFails,
         Unwind, Acquiring
  <2>4. CASE Tick \/ UNCHANGED vars
    BY <2>4 DEF Tick, vars
  <2> QED BY <2>1, <2>2, <2>3, <2>4 DEF Next, Work
<1>3. CP!Spec => []CP!TypeInv
  BY PoolAssumption, CP!TypeInvHolds DEF CP!CacheAssumption
<1> QED BY <1>1, <1>2, <1>3, CacheSpecHolds, LeaseInvHolds, PTL DEF Spec

(* The requests and the cache under them keep their types.                 *)
THEOREM TypeCorrect == Spec => []TypeOK
<1>1. LeaseInv /\ CP!TypeOK /\ CounterTypes => TypeOK
  BY DEF LeaseInv, PoolTypes, CurrentIsSlot, CounterTypes, TypeOK, Cache!TypeOK, CP!TypeOK,
         Cache!Times, CP!Times, Cache!CacheStates, CP!CacheStates,
         Cache!CallStates, CP!CallStates
<1>2. CP!Spec => []CP!TypeOK
  BY PoolAssumption, CP!TypeCorrect DEF CP!CacheAssumption
<1> QED BY <1>1, <1>2, CacheSpecHolds, LeaseInvHolds, CounterTypesHold, PTL

-----------------------------------------------------------------------------
(* No error path of a request keeps a lease.                               *)
THEOREM NoLeaseLeaksEver == Spec => []NoLeaseLeaks
<1>1. LeaseInv => NoLeaseLeaks
  <2> SUFFICES ASSUME LeaseInv, NEW r \in Requests, stage[r] \in {"idle", "done"},
                      NEW i \in Slots
               PROVE  pc[<<r, i>>] \in {"idle", "spent"}
    BY DEF NoLeaseLeaks
  <2> QED BY TwoSlots DEF LeaseInv, PoolTypes, Ownership, Ended
<1> QED BY <1>1, LeaseInvHolds, PTL

(* A request that attempts, refreshes or unwinds has a live lease on a     *)
(* token.                                                                  *)
THEOREM LeaseAtHand == Spec => []AlwaysHasLease
<1>1. LeaseInv /\ CP!TypeInv => AlwaysHasLease
  BY TwoSlots DEF LeaseInv, PoolTypes, Ownership, AlwaysHasLease, CP!TypeInv, CP!CarriesToken
<1>2. CP!Spec => []CP!TypeInv
  BY PoolAssumption, CP!TypeInvHolds DEF CP!CacheAssumption
<1> QED BY <1>1, <1>2, CacheSpecHolds, LeaseInvHolds, PTL

(* When every request has ended, the whole cache can be leased again.      *)
THEOREM QuiescenceFreesAll == Spec => []QuiescentCacheIsFree
<1>1. LeaseInv /\ CP!InUseIsBacked => QuiescentCacheIsFree
  <2> SUFFICES ASSUME LeaseInv, CP!InUseIsBacked, NEW t \in Tokens, entry[t] = "inUse",
                      \A r \in Requests : stage[r] \in {"idle", "done"}
               PROVE  FALSE
    BY DEF QuiescentCacheIsFree
  <2>1. PICK c \in Requests \X Slots : pc[c] = "held"
    BY DEF CP!InUseIsBacked, CP!Holds
  <2>2. PICK r \in Requests, i \in Slots : c = <<r, i>>
    BY <2>1
  <2> QED BY <2>1, <2>2, TwoSlots DEF LeaseInv, PoolTypes, Ownership, Ended
<1>2. CP!Spec => []CP!InUseIsBacked
  BY PoolAssumption, CP!NoEntryLeaks DEF CP!CacheAssumption
<1> QED BY <1>1, <1>2, CacheSpecHolds, LeaseInvHolds, PTL

(* With an upstream that repeats no string, attempts under way at the same *)
(* time carry different tokens.                                            *)
THEOREM AttemptsAreExclusive ==
  ASSUME ~Reissue
  PROVE  Spec => []AttemptsExclusive
<1>1. LeaseInv /\ CP!TypeInv /\ CP!Exclusive => AttemptsExclusive
  <2> SUFFICES ASSUME LeaseInv, CP!TypeInv, CP!Exclusive, NEW r \in Requests,
                      NEW q \in Requests, stage[r] = "attempt", stage[q] = "attempt", r # q
               PROVE  token[Lease(r)] # token[Lease(q)]
    BY DEF AttemptsExclusive
  <2>1. pc[Lease(r)] = "held" /\ pc[Lease(q)] = "held"
    BY DEF LeaseInv, Ownership
  <2>2. /\ Lease(r) \in Requests \X Slots /\ Lease(q) \in Requests \X Slots
        /\ Lease(r) # Lease(q)
    BY TwoSlots DEF LeaseInv, PoolTypes
  <2>3. token[Lease(r)] \in Tokens
    BY <2>1, <2>2 DEF CP!TypeInv, CP!CarriesToken
  <2> QED BY <2>1, <2>2, <2>3 DEF CP!Exclusive, CP!Holds
<1>2. CP!Spec => []CP!TypeInv
  BY PoolAssumption, CP!TypeInvHolds DEF CP!CacheAssumption
<1>3. CP!Spec => []CP!Exclusive
  BY PoolAssumption, CP!LeasesAreExclusive DEF CP!CacheAssumption
<1> QED BY <1>1, <1>2, <1>3, CacheSpecHolds, LeaseInvHolds, PTL

(* With an upstream that repeats no string, a token retired by one request *)
(* is never attempted with, nor cached, by another.                        *)
THEOREM RetiredStaysGone ==
  ASSUME ~Reissue
  PROVE  Spec => []RetiredIsGone
<1>1. CP!RetiredIsGone => RetiredIsGone
  BY DEF RetiredIsGone, Cache!RetiredIsGone, CP!RetiredIsGone, Cache!Holds, CP!Holds
<1>2. CP!Spec => []CP!RetiredIsGone
  BY PoolAssumption, CP!RetirementIsFinal DEF CP!CacheAssumption
<1> QED BY <1>1, <1>2, CacheSpecHolds, PTL
=============================================================================
