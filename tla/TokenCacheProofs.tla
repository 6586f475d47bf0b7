--------------------------- MODULE TokenCacheProofs ---------------------------
(***************************************************************************)
(* Theorems of TokenCache, for every number of calls and tokens, every TTL *)
(* and every retry limit.                                                  *)
(***************************************************************************)
EXTENDS TokenCache, TLAPS

(* A call that fetched or leases a token has one.                          *)
CarriesToken == \A c \in Calls : pc[c] \in {"store", "held"} => token[c] \in Tokens

TypeInv == TypeOK /\ CarriesToken

LEMMA PruneType ==
  ASSUME TypeOK, NEW n
  PROVE  /\ Pruned(n) \in [Tokens -> CacheStates]
         /\ PrunedExpiry(n) \in [Tokens -> 0 .. MaxTime + TTL]
         /\ Outliving(n) \subseteq Tokens
  BY CacheAssumption
     DEF Pruned, PrunedExpiry, Outliving, Expired, TypeOK, CacheStates, Times

LEMMA TypeInvHolds == Spec => []TypeInv
<1>1. Init => TypeInv
  BY CacheAssumption
     DEF Init, TypeInv, CarriesToken, TypeOK, CacheStates, CallStates, Times
<1>2. TypeInv /\ [Next]_cacheVars => TypeInv'
  <2> SUFFICES ASSUME TypeInv, [Next]_cacheVars
               PROVE  TypeInv'
    OBVIOUS
  <2> USE CacheAssumption DEF TypeInv, CarriesToken, TypeOK, CacheStates, CallStates, Times
  <2>1. ASSUME NEW c \in Calls, GetToken(c) PROVE TypeInv'
    BY <2>1 DEF GetToken
  <2>2. ASSUME NEW c \in Calls, AcquireCached(c) PROVE TypeInv'
    <3>1. /\ Pruned(now[c]) \in [Tokens -> CacheStates]
          /\ PrunedExpiry(now[c]) \in [Tokens -> 0 .. MaxTime + TTL]
          /\ Outliving(now[c]) \subseteq Tokens
      BY PruneType
    <3>2. entry' \in [Tokens -> CacheStates]
      BY <2>2, <3>1 DEF AcquireCached, Leasable
    <3>3. /\ pc' \in [Calls -> CallStates]
          /\ token' \in [Calls -> Tokens \cup {NoToken}]
          /\ CarriesToken'
      BY <2>2 DEF AcquireCached, Leasable
    <3> QED
      BY <2>2, <3>1, <3>2, <3>3 DEF AcquireCached, Leasable
  <2>3. ASSUME NEW c \in Calls, FetchSucceeds(c) PROVE TypeInv'
    BY <2>3 DEF FetchSucceeds, Issuable
  <2>4. ASSUME NEW c \in Calls, FetchFails(c) PROVE TypeInv'
    BY <2>4 DEF FetchFails, MoreFetches
  <2>5. ASSUME NEW c \in Calls, FetchCancelled(c) PROVE TypeInv'
    BY <2>5 DEF FetchCancelled
  <2>6. ASSUME NEW c \in Calls, StoreFetchedToken(c) PROVE TypeInv'
    <3>1. /\ Pruned(now[c]) \in [Tokens -> CacheStates]
          /\ PrunedExpiry(now[c]) \in [Tokens -> 0 .. MaxTime + TTL]
          /\ Outliving(now[c]) \subseteq Tokens
      BY PruneType
    <3>2. now[c] + TTL \in 0 .. MaxTime + TTL
      OBVIOUS
    <3>3. entry' \in [Tokens -> CacheStates] /\ expiresAt' \in [Tokens -> 0 .. MaxTime + TTL]
      BY <2>6, <3>1, <3>2 DEF StoreFetchedToken, Collide
    <3>4. /\ pc' \in [Calls -> CallStates]
          /\ token' \in [Calls -> Tokens \cup {NoToken}]
          /\ fetches' \in [Calls -> 0 .. MaxFetch - 1]
          /\ collisions' \in [Calls -> 0 .. MaxCollisions - 1]
          /\ CarriesToken'
      BY <2>6 DEF StoreFetchedToken, Collide
    <3> QED
      BY <2>6, <3>1, <3>3, <3>4 DEF StoreFetchedToken, Collide
  <2>7. ASSUME NEW c \in Calls, Release(c) PROVE TypeInv'
    BY <2>7 DEF Release, Expired
  <2>8. ASSUME NEW c \in Calls, Retire(c) PROVE TypeInv'
    BY <2>8 DEF Retire
  <2>9. CASE Tick
    BY <2>9 DEF Tick
  <2>10. CASE UNCHANGED cacheVars
    BY <2>10 DEF cacheVars
  <2> QED
    BY <2>1, <2>2, <2>3, <2>4, <2>5, <2>6, <2>7, <2>8, <2>9, <2>10
       DEF Next, Proceed
<1> QED
  BY <1>1, <1>2, PTL DEF Spec

(* What acquireCached does: it leases one entry that was free, or none.    *)
LEMMA AcquireEffect ==
  ASSUME TypeInv, NEW c \in Calls, AcquireCached(c)
  PROVE  \/ /\ pc' = [pc EXCEPT ![c] = "held"] /\ token'[c] \in Tokens
            /\ entry[token'[c]] = "free"
            /\ entry' = [Pruned(now[c]) EXCEPT ![token'[c]] = "inUse"]
         \/ /\ pc' = [pc EXCEPT ![c] = "fetch"] /\ UNCHANGED token
            /\ entry' = Pruned(now[c])
<1> DEFINE kept == Pruned(now[c])
           free == Leasable(kept)
<1>1. \A t \in free : t \in Tokens /\ entry[t] = "free"
  BY DEF Pruned, Leasable
<1>2. CASE \E t \in free : /\ entry' = [kept EXCEPT ![t] = "inUse"]
                           /\ token' = [token EXCEPT ![c] = t]
                           /\ pc' = [pc EXCEPT ![c] = "held"]
  <2>1. PICK t \in free : /\ entry' = [kept EXCEPT ![t] = "inUse"]
                          /\ token' = [token EXCEPT ![c] = t]
                          /\ pc' = [pc EXCEPT ![c] = "held"]
    BY <1>2
  <2>2. token'[c] = t
    BY <2>1 DEF TypeInv, TypeOK
  <2> QED
    BY <1>1, <2>1, <2>2
<1>3. CASE /\ entry' = kept
           /\ pc' = [pc EXCEPT ![c] = "fetch"]
           /\ UNCHANGED token
  BY <1>3
<1> QED
  BY <1>2, <1>3 DEF AcquireCached

(* The variables of the cache keep their types.                            *)
THEOREM TypeCorrect == Spec => []TypeOK
<1>1. TypeInv => TypeOK
  BY DEF TypeInv
<1> QED
  BY <1>1, TypeInvHolds, PTL

-----------------------------------------------------------------------------
(***************************************************************************)
(* Exclusivity for any upstream.  ExclusiveUnlessOutlived is not inductive *)
(* alone: a lease must also be known to keep its entry marked inUse until  *)
(* the entry is pruned under it.                                           *)
(***************************************************************************)
LeaseBacked ==
  \A c \in Calls : \A t \in Tokens :
    Holds(c, t) => entry[t] = "inUse" \/ t \in outlived

LeaseInv == LeaseBacked /\ ExclusiveUnlessOutlived

LEMMA LeaseInvHolds == Spec => []LeaseInv
<1>1. Init => LeaseInv
  BY DEF Init, LeaseInv, LeaseBacked, ExclusiveUnlessOutlived, Holds
<1>2. TypeInv /\ LeaseInv /\ [Next]_cacheVars => LeaseInv'
  <2> SUFFICES ASSUME TypeInv, LeaseInv, [Next]_cacheVars
               PROVE  LeaseInv'
    OBVIOUS
  <2> USE DEF TypeInv, CarriesToken, TypeOK, LeaseInv, LeaseBacked,
              ExclusiveUnlessOutlived, Holds
  <2>1. ASSUME NEW c \in Calls, GetToken(c) PROVE LeaseInv'
    BY <2>1 DEF GetToken
  <2>2. ASSUME NEW c \in Calls, AcquireCached(c) PROVE LeaseInv'
    <3>1. \A d \in Calls : d # c => (pc'[d] = pc[d] /\ token'[d] = token[d])
      BY <2>2 DEF AcquireCached, Leasable
    <3>2. \A t \in Tokens : entry[t] = "inUse" => entry'[t] = "inUse" \/ t \in outlived'
      BY <2>2 DEF AcquireCached, Leasable, Pruned, Outliving, Expired
    <3>3. \A t \in Tokens : Holds(c, t)' => entry'[t] = "inUse" /\ entry[t] = "free"
      BY <2>2 DEF AcquireCached, Leasable, Pruned, Expired
    <3>4. outlived \subseteq outlived'
      BY <2>2 DEF AcquireCached, Leasable
    <3> QED
      BY <3>1, <3>2, <3>3, <3>4
  <2>3. ASSUME NEW c \in Calls, FetchSucceeds(c) PROVE LeaseInv'
    BY <2>3 DEF FetchSucceeds
  <2>4. ASSUME NEW c \in Calls, FetchFails(c) PROVE LeaseInv'
    BY <2>4 DEF FetchFails, MoreFetches
  <2>5. ASSUME NEW c \in Calls, FetchCancelled(c) PROVE LeaseInv'
    BY <2>5 DEF FetchCancelled
  <2>6. ASSUME NEW c \in Calls, StoreFetchedToken(c) PROVE LeaseInv'
    <3>1. \A d \in Calls : d # c => (pc'[d] = pc[d] /\ token'[d] = token[d])
      BY <2>6 DEF StoreFetchedToken, Collide
    <3>2. \A t \in Tokens : entry[t] = "inUse" => entry'[t] = "inUse" \/ t \in outlived'
      BY <2>6 DEF StoreFetchedToken, Collide, Pruned, Outliving, Expired
    <3>3. \A t \in Tokens :
            Holds(c, t)' => entry'[t] = "inUse" /\ (entry[t] # "inUse" \/ t \in outlived')
      BY <2>6 DEF StoreFetchedToken, Collide, Pruned, Outliving, Expired
    <3>4. outlived \subseteq outlived'
      BY <2>6 DEF StoreFetchedToken, Collide
    <3> QED
      BY <3>1, <3>2, <3>3, <3>4
  <2>7. ASSUME NEW c \in Calls, Release(c) PROVE LeaseInv'
    BY <2>7 DEF Release
  <2>8. ASSUME NEW c \in Calls, Retire(c) PROVE LeaseInv'
    BY <2>8 DEF Retire
  <2>9. CASE Tick
    BY <2>9 DEF Tick
  <2>10. CASE UNCHANGED cacheVars
    BY <2>10 DEF cacheVars
  <2> QED
    BY <2>1, <2>2, <2>3, <2>4, <2>5, <2>6, <2>7, <2>8, <2>9, <2>10
       DEF Next, Proceed
<1> QED
  BY <1>1, <1>2, TypeInvHolds, PTL DEF Spec

(* Two live leases share a token only after one of them outlived its       *)
(* entry, whatever strings the upstream issues.                            *)
THEOREM SharedOnlyIfOutlived == Spec => []ExclusiveUnlessOutlived
<1>1. LeaseInv => ExclusiveUnlessOutlived
  BY DEF LeaseInv
<1> QED
  BY <1>1, LeaseInvHolds, PTL

(* Every entry marked inUse is some live lease's: nothing leaks.           *)
THEOREM NoEntryLeaks == Spec => []InUseIsBacked
<1>1. Init => InUseIsBacked
  BY DEF Init, InUseIsBacked
<1>2. TypeInv /\ InUseIsBacked /\ [Next]_cacheVars => InUseIsBacked'
  <2> SUFFICES ASSUME TypeInv, InUseIsBacked, [Next]_cacheVars, NEW t \in Tokens,
                      entry'[t] = "inUse"
               PROVE  \E c \in Calls : Holds(c, t)'
    BY DEF InUseIsBacked
  <2> USE DEF TypeInv, CarriesToken, TypeOK, InUseIsBacked, Holds
  <2>1. ASSUME NEW c \in Calls, GetToken(c) PROVE \E d \in Calls : Holds(d, t)'
    BY <2>1 DEF GetToken
  <2>2. ASSUME NEW c \in Calls, AcquireCached(c) PROVE \E d \in Calls : Holds(d, t)'
    <3>1. Holds(c, t)' \/ (entry[t] = "inUse" /\ pc[c] = "acquire")
      <4>1. pc[c] = "acquire"
        BY <2>2 DEF AcquireCached, Leasable
      <4>2. entry'[t] = Pruned(now[c])[t] => entry[t] = "inUse"
        BY DEF Pruned
      <4>3. Pruned(now[c]) \in [Tokens -> CacheStates]
        BY PruneType
      <4> QED
        BY <2>2, <4>1, <4>2, <4>3, AcquireEffect
    <3>2. \A d \in Calls : pc[d] = "held" => (pc'[d] = "held" /\ token'[d] = token[d])
      BY <2>2 DEF AcquireCached, Leasable
    <3> QED
      BY <3>1, <3>2
  <2>3. ASSUME NEW c \in Calls, FetchSucceeds(c) PROVE \E d \in Calls : Holds(d, t)'
    BY <2>3 DEF FetchSucceeds
  <2>4. ASSUME NEW c \in Calls, FetchFails(c) PROVE \E d \in Calls : Holds(d, t)'
    BY <2>4 DEF FetchFails, MoreFetches
  <2>5. ASSUME NEW c \in Calls, FetchCancelled(c) PROVE \E d \in Calls : Holds(d, t)'
    BY <2>5 DEF FetchCancelled
  <2>6. ASSUME NEW c \in Calls, StoreFetchedToken(c) PROVE \E d \in Calls : Holds(d, t)'
    BY <2>6 DEF StoreFetchedToken, Collide, Pruned
  <2>7. ASSUME NEW c \in Calls, Release(c) PROVE \E d \in Calls : Holds(d, t)'
    BY <2>7 DEF Release
  <2>8. ASSUME NEW c \in Calls, Retire(c) PROVE \E d \in Calls : Holds(d, t)'
    BY <2>8 DEF Retire
  <2>9. CASE Tick
    BY <2>9 DEF Tick
  <2>10. CASE UNCHANGED cacheVars
    BY <2>10 DEF cacheVars
  <2> QED
    BY <2>1, <2>2, <2>3, <2>4, <2>5, <2>6, <2>7, <2>8, <2>9, <2>10
       DEF Next, Proceed
<1> QED
  BY <1>1, <1>2, TypeInvHolds, PTL DEF Spec

-----------------------------------------------------------------------------
(***************************************************************************)
(* Freshness of cached leases.  An entry's expiry was computed from a      *)
(* clock read after its token was issued, but a later issue of the string  *)
(* only moves issuedAt forward, so the expiry never runs ahead of it.      *)
(***************************************************************************)
ExpiryInv ==
  /\ \A t \in Tokens : issuedAt[t] <= clock
  /\ \A t \in Tokens : entry[t] # "absent" => expiresAt[t] <= issuedAt[t] + TTL
  /\ \A c \in Calls : pc[c] = "store" => now[c] <= issuedAt[token[c]]

LEMMA ExpiryInvHolds == Spec => []ExpiryInv
<1>1. Init => ExpiryInv
  BY DEF Init, ExpiryInv
<1>2. TypeInv /\ ExpiryInv /\ [Next]_cacheVars => ExpiryInv'
  <2> SUFFICES ASSUME TypeInv, ExpiryInv, [Next]_cacheVars
               PROVE  ExpiryInv'
    OBVIOUS
  <2> USE CacheAssumption DEF TypeInv, CarriesToken, TypeOK, ExpiryInv, Times
  <2>1. ASSUME NEW c \in Calls, GetToken(c) PROVE ExpiryInv'
    BY <2>1 DEF GetToken
  <2>2. ASSUME NEW c \in Calls, AcquireCached(c) PROVE ExpiryInv'
    <3>1. \A t \in Tokens : entry'[t] # "absent" =>
            entry[t] # "absent" /\ expiresAt'[t] = expiresAt[t]
      BY <2>2 DEF AcquireCached, Leasable, Pruned, PrunedExpiry, Expired
    <3>2. \A d \in Calls : pc'[d] = "store" =>
            pc[d] = "store" /\ token'[d] = token[d] /\ now'[d] = now[d]
      BY <2>2 DEF AcquireCached, Leasable
    <3>3. UNCHANGED <<clock, issuedAt>>
      BY <2>2 DEF AcquireCached
    <3> QED
      BY <3>1, <3>2, <3>3
  <2>3. ASSUME NEW c \in Calls, FetchSucceeds(c) PROVE ExpiryInv'
    <3>1. PICK t \in Tokens : /\ token' = [token EXCEPT ![c] = t]
                              /\ issuedAt' = [issuedAt EXCEPT ![t] = clock]
      BY <2>3 DEF FetchSucceeds, Issuable
    <3>2. \A u \in Tokens : issuedAt[u] <= issuedAt'[u] /\ issuedAt'[u] <= clock
      BY <3>1
    <3>3. UNCHANGED <<clock, entry, expiresAt>>
      BY <2>3 DEF FetchSucceeds
    <3>4. ASSUME NEW d \in Calls, pc'[d] = "store" PROVE now'[d] <= issuedAt'[token'[d]]
      <4>1. CASE d = c
        BY <2>3, <3>1, <4>1 DEF FetchSucceeds
      <4>2. CASE d # c
        <5>1. pc[d] = "store" /\ token'[d] = token[d] /\ now'[d] = now[d]
          BY <2>3, <3>1, <3>4, <4>2 DEF FetchSucceeds
        <5>2. token[d] \in Tokens /\ now[d] <= issuedAt[token[d]]
          BY <5>1
        <5>3. issuedAt'[token[d]] \in Int /\ issuedAt[token[d]] \in Int /\ now[d] \in Int
          BY <3>1, <5>2
        <5> QED
          BY <3>2, <5>1, <5>2, <5>3
      <4> QED
        BY <4>1, <4>2
    <3>5. \A u \in Tokens : entry[u] # "absent" => expiresAt[u] <= issuedAt'[u] + TTL
      <4>1. \A u \in Tokens : issuedAt[u] \in Int /\ issuedAt'[u] \in Int /\ expiresAt[u] \in Int
        BY <3>1
      <4> QED
        BY <3>2, <4>1
    <3> QED
      BY <3>2, <3>3, <3>4, <3>5
  <2>4. ASSUME NEW c \in Calls, FetchFails(c) PROVE ExpiryInv'
    BY <2>4 DEF FetchFails, MoreFetches
  <2>5. ASSUME NEW c \in Calls, FetchCancelled(c) PROVE ExpiryInv'
    BY <2>5 DEF FetchCancelled
  <2>6. ASSUME NEW c \in Calls, StoreFetchedToken(c) PROVE ExpiryInv'
    <3>1. \A t \in Tokens : entry'[t] # "absent" =>
            \/ entry[t] # "absent" /\ expiresAt'[t] = expiresAt[t]
            \/ t = token[c] /\ expiresAt'[t] = now[c] + TTL
      <4>1. \A t \in Tokens : Pruned(now[c])[t] # "absent" =>
              entry[t] # "absent" /\ PrunedExpiry(now[c])[t] = expiresAt[t]
        BY DEF Pruned, PrunedExpiry
      <4>2. PrunedExpiry(now[c]) \in [Tokens -> 0 .. MaxTime + TTL]
        BY PruneType
      <4>3. CASE Pruned(now[c])[token[c]] = "inUse"
        BY <2>6, <4>1, <4>3 DEF StoreFetchedToken
      <4>4. CASE Pruned(now[c])[token[c]] # "inUse"
        <5>1. entry' = [Pruned(now[c]) EXCEPT ![token[c]] = "inUse"]
          BY <2>6, <4>4 DEF StoreFetchedToken
        <5>2. expiresAt' = [PrunedExpiry(now[c]) EXCEPT ![token[c]] = now[c] + TTL]
          BY <2>6, <4>4 DEF StoreFetchedToken
        <5>3. \A t \in Tokens : t # token[c] => entry'[t] = Pruned(now[c])[t]
          BY <5>1 DEF Pruned
        <5> QED
          BY <4>1, <4>2, <5>2, <5>3
      <4> QED
        BY <4>3, <4>4
    <3>2. \A d \in Calls : pc'[d] = "store" =>
            pc[d] = "store" /\ token'[d] = token[d] /\ now'[d] = now[d]
      BY <2>6 DEF StoreFetchedToken, Collide
    <3>3. UNCHANGED <<clock, issuedAt>> /\ now[c] <= issuedAt[token[c]]
      BY <2>6 DEF StoreFetchedToken
    <3> QED
      BY <3>1, <3>2, <3>3
  <2>7. ASSUME NEW c \in Calls, Release(c) PROVE ExpiryInv'
    BY <2>7 DEF Release
  <2>8. ASSUME NEW c \in Calls, Retire(c) PROVE ExpiryInv'
    BY <2>8 DEF Retire
  <2>9. CASE Tick
    BY <2>9 DEF Tick
  <2>10. CASE UNCHANGED cacheVars
    BY <2>10 DEF cacheVars
  <2> QED
    BY <2>1, <2>2, <2>3, <2>4, <2>5, <2>6, <2>7, <2>8, <2>9, <2>10
       DEF Next, Proceed
<1> QED
  BY <1>1, <1>2, TypeInvHolds, PTL DEF Spec

(* A token leased from the cache was issued at most TTL before the moment  *)
(* at which its caller read the clock.                                     *)
THEOREM CachedIsFresh == Spec => CachedLeaseIsFresh
<1>1. TypeInv /\ ExpiryInv /\ [Next]_cacheVars
        => [\A c \in Calls : pc[c] = "acquire" /\ pc'[c] = "held"
              => now[c] <= issuedAt[token'[c]] + TTL]_cacheVars
  <2> SUFFICES ASSUME TypeInv, ExpiryInv, Next, NEW c \in Calls,
                      pc[c] = "acquire", pc'[c] = "held"
               PROVE  now[c] <= issuedAt[token'[c]] + TTL
    OBVIOUS
  <2>1. AcquireCached(c)
    BY DEF Next, Proceed, GetToken, AcquireCached, FetchSucceeds, FetchFails,
           FetchCancelled, StoreFetchedToken, Collide, Release, Retire, Tick,
           TypeInv, TypeOK
  <2>2. token'[c] \in Tokens /\ Pruned(now[c])[token'[c]] # "absent"
    <3>1. PICK t \in Leasable(Pruned(now[c])) : token' = [token EXCEPT ![c] = t]
      BY <2>1 DEF AcquireCached, TypeInv, TypeOK
    <3> QED
      BY <3>1 DEF Leasable, TypeInv, TypeOK
  <2>3. entry[token'[c]] # "absent" /\ ~(now[c] > expiresAt[token'[c]])
    BY <2>2 DEF Pruned, Expired
  <2> QED
    BY <2>2, <2>3, CacheAssumption DEF ExpiryInv, TypeInv, TypeOK, Times
<1> QED
  BY <1>1, TypeInvHolds, ExpiryInvHolds, PTL DEF Spec, CachedLeaseIsFresh

-----------------------------------------------------------------------------
(***************************************************************************)
(* With an upstream that never repeats a string, exclusivity is absolute   *)
(* and retirement is final.  A string is then fetched by one call only, so *)
(* between its fetch and its store nothing else in the cache carries it.   *)
(***************************************************************************)
Carries(c, t) == pc[c] \in {"store", "held"} /\ token[c] = t

OneCarrier ==
  \A c, d \in Calls : \A t \in Tokens : Carries(c, t) /\ Carries(d, t) => c = d

CarriedIsNotFree ==
  \A c \in Calls : \A t \in Tokens : Carries(c, t) =>
    /\ entry[t] # "free"
    /\ pc[c] = "store" => entry[t] = "absent"

SeenIsIssued ==
  \A t \in Tokens :
    (entry[t] # "absent" \/ t \in retired \/ \E c \in Calls : Carries(c, t))
      => issuedAt[t] # -1

RetiredIsCarriedByNone ==
  \A t \in retired : entry[t] = "absent" /\ \A c \in Calls : ~Carries(c, t)

FreshInv == OneCarrier /\ CarriedIsNotFree /\ SeenIsIssued /\ RetiredIsCarriedByNone

LEMMA FreshInvHolds == ASSUME ~Reissue PROVE Spec => []FreshInv
<1>1. Init => FreshInv
  BY DEF Init, FreshInv, OneCarrier, CarriedIsNotFree, SeenIsIssued,
         RetiredIsCarriedByNone, Carries
<1>2. TypeInv /\ FreshInv /\ [Next]_cacheVars => FreshInv'
  <2> SUFFICES ASSUME TypeInv, FreshInv, [Next]_cacheVars
               PROVE  FreshInv'
    OBVIOUS
  <2> USE DEF TypeInv, CarriesToken, TypeOK, FreshInv, OneCarrier, CarriedIsNotFree,
              SeenIsIssued, RetiredIsCarriedByNone, Carries
  <2>1. ASSUME NEW c \in Calls, GetToken(c) PROVE FreshInv'
    BY <2>1 DEF GetToken
  <2>2. ASSUME NEW c \in Calls, AcquireCached(c) PROVE FreshInv'
    <3>1. \A d \in Calls : d # c => (pc'[d] = pc[d] /\ token'[d] = token[d])
      BY <2>2 DEF AcquireCached, Leasable
    <3>2. \A t \in Tokens : /\ entry'[t] = "free" => entry[t] = "free"
                            /\ entry[t] = "absent" => entry'[t] = "absent"
      BY <2>2, AcquireEffect DEF Pruned
    <3>3. \A t \in Tokens :
            Carries(c, t)' => entry'[t] = "inUse" /\ entry[t] = "free" /\ pc'[c] = "held"
      BY <2>2, AcquireEffect DEF Pruned
    <3>4. UNCHANGED <<issuedAt, retired>>
      BY <2>2 DEF AcquireCached, Leasable
    <3> QED
      BY <3>1, <3>2, <3>3, <3>4
  <2>3. ASSUME NEW c \in Calls, FetchSucceeds(c) PROVE FreshInv'
    <3>1. PICK t \in Issuable : /\ token' = [token EXCEPT ![c] = t]
                                /\ issuedAt' = [issuedAt EXCEPT ![t] = clock]
      BY <2>3 DEF FetchSucceeds
    <3>2. t \in Tokens /\ issuedAt[t] = -1 /\ clock # -1
      BY DEF Issuable, Times
    <3>3. pc' = [pc EXCEPT ![c] = "store"] /\ UNCHANGED <<entry, retired>>
      BY <2>3 DEF FetchSucceeds
    <3>4. issuedAt'[t] # -1 /\ \A u \in Tokens : issuedAt[u] # -1 => issuedAt'[u] # -1
      BY <3>1, <3>2
    <3>5. entry[t] = "absent" /\ t \notin retired /\ \A d \in Calls : ~Carries(d, t)
      BY <3>2 DEF CacheStates
    <3>6. \A d \in Calls : \A u \in Tokens :
            Carries(d, u)' <=> IF d = c THEN u = t ELSE Carries(d, u)
      BY <3>1, <3>2, <3>3
    <3> QED
      BY <3>2, <3>3, <3>4, <3>5, <3>6, <3>1
  <2>4. ASSUME NEW c \in Calls, FetchFails(c) PROVE FreshInv'
    BY <2>4 DEF FetchFails, MoreFetches
  <2>5. ASSUME NEW c \in Calls, FetchCancelled(c) PROVE FreshInv'
    BY <2>5 DEF FetchCancelled
  <2>6. ASSUME NEW c \in Calls, StoreFetchedToken(c) PROVE FreshInv'
    <3>1. \A d \in Calls : d # c => (pc'[d] = pc[d] /\ token'[d] = token[d])
      BY <2>6 DEF StoreFetchedToken, Collide
    <3>2. token[c] \in Tokens /\ Carries(c, token[c]) /\ entry[token[c]] = "absent"
      BY <2>6 DEF StoreFetchedToken, Collide
    <3>3. pc'[c] = "held" /\ token' = token /\ entry'[token[c]] = "inUse"
      BY <2>6, <3>2 DEF StoreFetchedToken, Collide, Pruned, Expired
    <3>4. \A t \in Tokens : t # token[c] =>
            /\ entry'[t] = "free" => entry[t] = "free"
            /\ entry[t] = "absent" => entry'[t] = "absent"
      BY <2>6 DEF StoreFetchedToken, Collide, Pruned, Expired
    <3>5. UNCHANGED <<issuedAt, retired>>
      BY <2>6 DEF StoreFetchedToken, Collide
    <3> QED
      BY <3>1, <3>2, <3>3, <3>4, <3>5
  <2>7. ASSUME NEW c \in Calls, Release(c) PROVE FreshInv'
    BY <2>7 DEF Release
  <2>8. ASSUME NEW c \in Calls, Retire(c) PROVE FreshInv'
    BY <2>8 DEF Retire
  <2>9. CASE Tick
    BY <2>9 DEF Tick
  <2>10. CASE UNCHANGED cacheVars
    BY <2>10 DEF cacheVars
  <2> QED
    BY <2>1, <2>2, <2>3, <2>4, <2>5, <2>6, <2>7, <2>8, <2>9, <2>10
       DEF Next, Proceed
<1> QED
  BY <1>1, <1>2, TypeInvHolds, PTL DEF Spec

(* When the upstream never repeats a string, no two live leases ever share *)
(* a token, however leases outlive their entries.                          *)
THEOREM LeasesAreExclusive == ASSUME ~Reissue PROVE Spec => []Exclusive
<1>1. FreshInv => Exclusive
  BY DEF FreshInv, OneCarrier, Exclusive, Carries, Holds
<1> QED
  BY <1>1, FreshInvHolds, PTL

(* When the upstream never repeats a string, a retired token never comes   *)
(* back to the cache or to a caller.                                       *)
THEOREM RetirementIsFinal == ASSUME ~Reissue PROVE Spec => []RetiredIsGone
<1>1. FreshInv => RetiredIsGone
  BY DEF FreshInv, RetiredIsCarriedByNone, RetiredIsGone, Carries, Holds
<1> QED
  BY <1>1, FreshInvHolds, PTL
=============================================================================
