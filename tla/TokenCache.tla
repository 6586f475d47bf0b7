------------------------------ MODULE TokenCache ------------------------------
(***************************************************************************)
(* The reCAPTCHA token cache of src/recaptcha/recaptcha.go: a map from     *)
(* token strings to entries with an expiry and an inUse flag, shared by    *)
(* every request goroutine and guarded by one mutex.                       *)
(*                                                                         *)
(* A call is one execution of GetTokenContext together with the TokenLease *)
(* it returns.  Each critical section of the mutex is one action; the      *)
(* upstream fetch runs outside the mutex, so fetches of several calls, the *)
(* passing of time and the ends of other leases interleave with it.  The   *)
(* clock is read BEFORE the mutex is taken (time.Now() is an argument of   *)
(* acquireCached and storeFetchedToken), hence the variable now.           *)
(***************************************************************************)
EXTENDS Integers, FiniteSets

CONSTANTS
  Calls,          \* GetTokenContext calls and the leases they return
  Tokens,         \* token strings the upstream can issue
  NoToken,        \* the token of a call that has none yet
  TTL,            \* cacheTTL
  MaxFetch,       \* attempts of fetchWithRetry
  MaxCollisions,  \* maxTokenCollisions
  Reissue,        \* TRUE when the upstream may issue one string twice
  MaxTime         \* bound of the clock

ASSUME CacheAssumption ==
  /\ NoToken \notin Tokens
  /\ TTL \in Nat /\ MaxTime \in Nat
  /\ MaxFetch \in Nat \ {0} /\ MaxCollisions \in Nat \ {0}
  /\ Reissue \in BOOLEAN

VARIABLES
  clock,       \* wall clock, in units the TTL is measured in
  entry,       \* entry[t]: "absent" from the map, "free" or "inUse"
  expiresAt,   \* expiresAt[t], 0 when absent
  pc,          \* pc[c]: where call c is
  now,         \* now[c]: the clock value c read before taking the mutex
  token,       \* token[c]: the string c fetched or leases
  fetches,     \* fetches[c]: failed attempts of the running fetchWithRetry
  collisions,  \* collisions[c]: fetched strings that were already in use
  issuedAt,    \* history: when the upstream last issued t, -1 for never
  retired,     \* history: the strings some lease retired
  outlived     \* history: the strings pruned while a lease still used them

cacheVars == <<clock, entry, expiresAt, pc, now, token, fetches, collisions,
               issuedAt, retired, outlived>>

CacheStates == {"absent", "free", "inUse"}
CallStates  == {"idle", "acquire", "fetch", "store", "held", "spent"}
Running     == {"acquire", "fetch", "store"}
Times       == 0 .. MaxTime

TypeOK ==
  /\ clock \in Times
  /\ entry \in [Tokens -> CacheStates]
  /\ expiresAt \in [Tokens -> 0 .. MaxTime + TTL]
  /\ pc \in [Calls -> CallStates]
  /\ now \in [Calls -> Times]
  /\ token \in [Calls -> Tokens \cup {NoToken}]
  /\ fetches \in [Calls -> 0 .. MaxFetch - 1]
  /\ collisions \in [Calls -> 0 .. MaxCollisions - 1]
  /\ issuedAt \in [Tokens -> {-1} \cup Times]
  /\ retired \subseteq Tokens
  /\ outlived \subseteq Tokens

Init ==
  /\ clock = 0
  /\ entry = [t \in Tokens |-> "absent"]
  /\ expiresAt = [t \in Tokens |-> 0]
  /\ pc = [c \in Calls |-> "idle"]
  /\ now = [c \in Calls |-> 0]
  /\ token = [c \in Calls |-> NoToken]
  /\ fetches = [c \in Calls |-> 0]
  /\ collisions = [c \in Calls |-> 0]
  /\ issuedAt = [t \in Tokens |-> -1]
  /\ retired = {}
  /\ outlived = {}

-----------------------------------------------------------------------------
(* pruneExpiredLocked(n): expired entries go, in use or not.               *)

ExpiredLate(t, n) == entry[t] # "absent" /\ n > expiresAt[t] + TTL  \* mutant of Expired

Expired(t, n) == entry[t] # "absent" /\ n > expiresAt[t]

Pruned(n) == [t \in Tokens |-> IF Expired(t, n) THEN "absent" ELSE entry[t]]

PrunedExpiry(n) == [t \in Tokens |-> IF Expired(t, n) THEN 0 ELSE expiresAt[t]]

Outliving(n) == {t \in Tokens : Expired(t, n) /\ entry[t] = "inUse"}

-----------------------------------------------------------------------------
(* GetTokenContext.  A call that finds its context done at entry returns   *)
(* without a trace and is no step here.                                    *)

(* The clock is read for acquireCached, before its mutex is taken.         *)
GetToken(c) ==
  /\ pc[c] \in {"idle", "spent"}
  /\ pc' = [pc EXCEPT ![c] = "acquire"]
  /\ now' = [now EXCEPT ![c] = clock]
  /\ token' = [token EXCEPT ![c] = NoToken]
  /\ fetches' = [fetches EXCEPT ![c] = 0]
  /\ collisions' = [collisions EXCEPT ![c] = 0]
  /\ UNCHANGED <<clock, entry, expiresAt, issuedAt, retired, outlived>>

(* acquireCached: prune, then lease any free entry (map order), or fetch.  *)
LeasableInUse(kept) == {t \in Tokens : kept[t] # "absent"}   \* mutant of Leasable

Leasable(kept) == {t \in Tokens : kept[t] = "free"}

AcquireCached(c) ==
  LET kept == Pruned(now[c])
      free == Leasable(kept)
  IN
  /\ pc[c] = "acquire"
  /\ \/ \E t \in free :
          /\ entry' = [kept EXCEPT ![t] = "inUse"]
          /\ token' = [token EXCEPT ![c] = t]
          /\ pc' = [pc EXCEPT ![c] = "held"]
     \/ /\ free = {}
        /\ entry' = kept
        /\ pc' = [pc EXCEPT ![c] = "fetch"]
        /\ UNCHANGED token
  /\ expiresAt' = PrunedExpiry(now[c])
  /\ outlived' = outlived \cup Outliving(now[c])
  /\ UNCHANGED <<clock, now, fetches, collisions, issuedAt, retired>>

(* fetchToken succeeds: the upstream issues a string, and the clock is     *)
(* read for storeFetchedToken before its mutex is taken.                   *)
Issuable == {t \in Tokens : Reissue \/ issuedAt[t] = -1}

FetchSucceeds(c) ==
  /\ pc[c] = "fetch"
  /\ \E t \in Issuable :
       /\ token' = [token EXCEPT ![c] = t]
       /\ issuedAt' = [issuedAt EXCEPT ![t] = clock]
  /\ now' = [now EXCEPT ![c] = clock]
  /\ pc' = [pc EXCEPT ![c] = "store"]
  /\ UNCHANGED <<clock, entry, expiresAt, fetches, collisions, retired, outlived>>

(* fetchToken fails at the anchor or at the reload request; the last       *)
(* failure of fetchWithRetry fails GetTokenContext.                        *)
MoreFetchesLate(c) == fetches[c] < MaxFetch   \* mutant of MoreFetches

MoreFetches(c) == fetches[c] + 1 < MaxFetch

FetchFails(c) ==
  /\ pc[c] = "fetch"
  /\ IF MoreFetches(c)
       THEN /\ fetches' = [fetches EXCEPT ![c] = @ + 1]
            /\ UNCHANGED pc
       ELSE /\ pc' = [pc EXCEPT ![c] = "idle"]
            /\ UNCHANGED fetches
  /\ UNCHANGED <<clock, entry, expiresAt, now, token, collisions, issuedAt,
                 retired, outlived>>

(* The request's context is done at one of the checks around the fetches.  *)
FetchCancelled(c) ==
  /\ pc[c] = "fetch"
  /\ pc' = [pc EXCEPT ![c] = "idle"]
  /\ UNCHANGED <<clock, entry, expiresAt, now, token, fetches, collisions,
                 issuedAt, retired, outlived>>

(* storeFetchedToken: a string in use is refused and another one fetched,  *)
(* MaxCollisions times at most; any other string overwrites its entry.     *)
CollideUncounted(c) ==   \* mutant of Collide
  pc' = [pc EXCEPT ![c] = "fetch"] /\ UNCHANGED collisions

Collide(c) ==
  IF collisions[c] + 1 < MaxCollisions
    THEN /\ collisions' = [collisions EXCEPT ![c] = @ + 1]
         /\ pc' = [pc EXCEPT ![c] = "fetch"]
    ELSE /\ pc' = [pc EXCEPT ![c] = "idle"]
         /\ UNCHANGED collisions

StoreFetchedToken(c) ==
  LET kept == Pruned(now[c])
      t    == token[c]
  IN
  /\ pc[c] = "store"
  /\ IF kept[t] = "inUse"
       THEN /\ entry' = kept
            /\ expiresAt' = PrunedExpiry(now[c])
            /\ token' = [token EXCEPT ![c] = NoToken]
            /\ fetches' = [fetches EXCEPT ![c] = 0]
            /\ Collide(c)
       ELSE /\ entry' = [kept EXCEPT ![t] = "inUse"]
            /\ expiresAt' = [PrunedExpiry(now[c]) EXCEPT ![t] = now[c] + TTL]
            /\ pc' = [pc EXCEPT ![c] = "held"]
            /\ UNCHANGED <<token, fetches, collisions>>
  /\ outlived' = outlived \cup Outliving(now[c])
  /\ UNCHANGED <<clock, now, issuedAt, retired>>

-----------------------------------------------------------------------------
(* The end of a lease.  Release and Retire share one sync.Once: a second   *)
(* end of the same lease does nothing.                                     *)

ReleaseForgets(c) ==   \* mutant of Release: the entry stays in use
  /\ pc[c] \in {"held", "spent"}
  /\ pc' = [pc EXCEPT ![c] = "spent"]
  /\ UNCHANGED <<clock, entry, expiresAt, now, token, fetches, collisions,
                 issuedAt, retired, outlived>>

Release(c) ==
  LET t == token[c]
      after == IF entry[t] = "absent" \/ Expired(t, clock) THEN "absent" ELSE "free"
  IN
  /\ pc[c] \in {"held", "spent"}
  /\ IF pc[c] = "held"
       THEN /\ entry' = [entry EXCEPT ![t] = after]
            /\ expiresAt' = [expiresAt EXCEPT ![t] = IF after = "absent" THEN 0 ELSE @]
            /\ pc' = [pc EXCEPT ![c] = "spent"]
       ELSE UNCHANGED <<entry, expiresAt, pc>>
  /\ UNCHANGED <<clock, now, token, fetches, collisions, issuedAt, retired, outlived>>

RetireFrees(c) ==   \* mutant of Retire: the entry is freed, not removed
  /\ pc[c] = "held"
  /\ entry' = [entry EXCEPT ![token[c]] = "free"]
  /\ pc' = [pc EXCEPT ![c] = "spent"]
  /\ retired' = retired \cup {token[c]}
  /\ UNCHANGED <<clock, expiresAt, now, token, fetches, collisions, issuedAt, outlived>>

Retire(c) ==
  LET t == token[c] IN
  /\ pc[c] \in {"held", "spent"}
  /\ IF pc[c] = "held"
       THEN /\ entry' = [entry EXCEPT ![t] = "absent"]
            /\ expiresAt' = [expiresAt EXCEPT ![t] = 0]
            /\ pc' = [pc EXCEPT ![c] = "spent"]
            /\ retired' = retired \cup {t}
       ELSE UNCHANGED <<entry, expiresAt, pc, retired>>
  /\ UNCHANGED <<clock, now, token, fetches, collisions, issuedAt, outlived>>

Tick ==
  /\ clock < MaxTime
  /\ clock' = clock + 1
  /\ UNCHANGED <<entry, expiresAt, pc, now, token, fetches, collisions,
                 issuedAt, retired, outlived>>

(* The steps GetTokenContext takes by itself once it has been called.      *)
Proceed(c) ==
  \/ AcquireCached(c)
  \/ FetchSucceeds(c)
  \/ FetchFails(c)
  \/ FetchCancelled(c)
  \/ StoreFetchedToken(c)

Next ==
  \/ \E c \in Calls : GetToken(c) \/ Proceed(c) \/ Release(c) \/ Retire(c)
  \/ Tick

Spec == Init /\ [][Next]_cacheVars

(* A running call keeps running: its goroutine is scheduled, the mutex is  *)
(* held for bounded work only and every upstream request has a timeout.    *)
FairSpec == Spec /\ \A c \in Calls : WF_cacheVars(Proceed(c))

-----------------------------------------------------------------------------
(* Properties.                                                             *)

Holds(c, t) == pc[c] = "held" /\ token[c] = t

(* Two live leases never carry the same token, although entries are pruned *)
(* under running leases and leases end in any order (the promise behind    *)
(* cachedToken.inUse).  Holds when the upstream never repeats a string.    *)
Exclusive ==
  \A c, d \in Calls : \A t \in Tokens : Holds(c, t) /\ Holds(d, t) => c = d

(* Whatever the upstream repeats, a token can only be leased twice after   *)
(* its entry was pruned under a lease that outlived the TTL: that lease's  *)
(* late Release then frees the entry another lease is using.               *)
ExclusiveUnlessOutlived ==
  \A c, d \in Calls : \A t \in Tokens :
    Holds(c, t) /\ Holds(d, t) => c = d \/ t \in outlived

(* No entry stays marked inUse once the lease that marked it has ended, so *)
(* no ending of leases in any order strands a usable token.                *)
InUseIsBacked ==
  \A t \in Tokens : entry[t] = "inUse" => \E c \in Calls : Holds(c, t)

(* A retired token is neither in the cache nor leased again (the comment   *)
(* of TokenLease.Retire); holds when the upstream never repeats a string.  *)
RetiredIsGone ==
  \A t \in retired : entry[t] = "absent" /\ \A c \in Calls : ~Holds(c, t)

(* A lease served from the cache is at most TTL older, at the moment the   *)
(* caller asked for it, than the fetch that produced it.  That moment is   *)
(* read before the mutex is waited for; by this wait the lease may be      *)
(* older when it is handed out.                                            *)
CachedLeaseIsFresh ==
  [][\A c \in Calls : pc[c] = "acquire" /\ pc'[c] = "held"
       => now[c] <= issuedAt[token'[c]] + TTL]_cacheVars

(* Every GetTokenContext call returns a lease or an error: collisions and  *)
(* failed fetches are both bounded.                                        *)
GetTokenReturns ==
  \A c \in Calls : pc[c] \in Running ~> pc[c] \in {"held", "idle"}
=============================================================================
