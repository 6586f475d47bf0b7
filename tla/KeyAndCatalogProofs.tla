------------------------- MODULE KeyAndCatalogProofs -------------------------
(***************************************************************************)
(* What the server sets up before it answers requests: its API key and its *)
(* models.  The theorems of ApiKeyFile, for any number of starts that      *)
(* share the key file, and of ModelCatalog, for all models, lists of the   *)
(* upstream, and numbers of refreshes and requests.                        *)
(***************************************************************************)
EXTENDS ApiKeyFile, ModelCatalog, SequenceTheorems, TLAPS

-----------------------------------------------------------------------------
(* ApiKeyFile implements OneKey.  The invariant says who may still write:  *)
(* only the start that created the file, once, and only while the file is  *)
(* empty, so what a reader has accepted never changes.                     *)

Unserved == {"load", "create", "write", "close", "reload"}

WriterInv ==
  /\ KeyTypeOK
  /\ content # "absent" => owner \in Starts
  /\ \A s \in Starts :
       /\ pc[s] = "write" => owner = s /\ content = "empty"
       /\ pc[s] = "close" => owner = s /\ content = "whole"
       /\ pc[s] \in Unserved => adopted[s] = NoKey

(* At most one start ever holds the file open for writing.                 *)
LEMMA WriterInvHolds == KeySpec => []WriterInv
<1>1. KeyInit => WriterInv
  BY KeysAssumption
     DEF KeyInit, WriterInv, KeyTypeOK, StartStates, Contents, Unserved, Keys
<1>2. WriterInv /\ [KeyNext]_keyVars => WriterInv'
  <2> SUFFICES ASSUME WriterInv, [KeyNext]_keyVars PROVE WriterInv'
    OBVIOUS
  <2> USE KeysAssumption DEF WriterInv, KeyTypeOK, StartStates, Contents, Unserved,
                             Keys, Accepted, Goto
  <2>1. ASSUME NEW s \in Starts, Load(s) PROVE WriterInv'
    BY <2>1 DEF Load, Serve, Fail, FileKey
  <2>2. ASSUME NEW s \in Starts, Create(s) PROVE WriterInv'
    BY <2>2 DEF Create
  <2>3. ASSUME NEW s \in Starts, Reload(s) PROVE WriterInv'
    BY <2>3 DEF Reload, Serve, Fail, FileKey
  <2>4. ASSUME NEW s \in Starts, Write(s) PROVE WriterInv'
    BY <2>4 DEF Write
  <2>5. ASSUME NEW s \in Starts, Close(s) PROVE WriterInv'
    BY <2>5 DEF Close, Serve
  <2>6. ASSUME NEW s \in Starts, CallFails(s) PROVE WriterInv'
    BY <2>6 DEF CallFails
  <2>7. ASSUME NEW s \in Starts, Crash(s) PROVE WriterInv'
    BY <2>7 DEF Crash
  <2>8. CASE UNCHANGED keyVars
    BY <2>8 DEF keyVars
  <2> QED BY <2>1, <2>2, <2>3, <2>4, <2>5, <2>6, <2>7, <2>8 DEF KeyNext
<1> QED BY <1>1, <1>2, PTL DEF KeySpec

(* The starts and the file keep their types.                               *)
THEOREM KeyTypeCorrect == KeySpec => []KeyTypeOK
<1>1. WriterInv => KeyTypeOK
  BY DEF WriterInv
<1> QED BY <1>1, WriterInvHolds, PTL

(* Every server that shares the file serves with the one key in it: the    *)
(* detailed specification implements the write-once register.              *)
THEOREM ImplementsOneKey == KeySpec => OneKeySpec
<1>1. KeyInit => Register!Init
  BY DEF KeyInit, Register!Init, FileKey, Accepted
<1>2. WriterInv /\ [KeyNext]_keyVars => [Register!Next]_(Register!vars)
  <2> SUFFICES ASSUME WriterInv, [KeyNext]_keyVars
               PROVE  Register!Next \/ UNCHANGED Register!vars
    OBVIOUS
  <2> USE KeysAssumption DEF WriterInv, KeyTypeOK, StartStates, Contents, Unserved,
                             Keys, Accepted, FileKey, Register!vars
  <2>1. ASSUME NEW s \in Starts, NEW key \in Keys, key = FileKey,
               pc[s] \in Unserved, Serve(s, key)
        PROVE  Register!Adopt(s)
    BY <2>1 DEF Serve, Register!Adopt
  <2>2. ASSUME NEW s \in Starts, Load(s)
        PROVE  Register!Adopt(s) \/ UNCHANGED Register!vars
    BY <2>1, <2>2 DEF Load, Fail
  <2>3. ASSUME NEW s \in Starts, Create(s) PROVE UNCHANGED Register!vars
    BY <2>3 DEF Create
  <2>4. ASSUME NEW s \in Starts, Reload(s)
        PROVE  Register!Adopt(s) \/ UNCHANGED Register!vars
    BY <2>1, <2>4 DEF Reload, Fail
  <2>5. ASSUME NEW s \in Starts, Write(s) PROVE Register!Choose
    BY <2>5 DEF Write, Register!Choose
  <2>6. ASSUME NEW s \in Starts, Close(s) PROVE Register!Adopt(s)
    BY <2>1, <2>6 DEF Close
  <2>7. ASSUME NEW s \in Starts, CallFails(s)
        PROVE  Register!Choose \/ UNCHANGED Register!vars
    BY <2>7 DEF CallFails, Register!Choose
  <2>8. ASSUME NEW s \in Starts, Crash(s) PROVE UNCHANGED Register!vars
    BY <2>8 DEF Crash
  <2>9. CASE UNCHANGED keyVars
    BY <2>9 DEF keyVars
  <2> QED
    BY <2>2, <2>3, <2>4, <2>5, <2>6, <2>7, <2>8, <2>9 DEF KeyNext, Register!Next
<1> QED BY <1>1, <1>2, WriterInvHolds, PTL DEF KeySpec, OneKeySpec, Register!Spec

-----------------------------------------------------------------------------
(* Thinking levels.                                                        *)

LEMMA MinOfLevels ==
  ASSUME NEW S \in SUBSET Levels, S # {}
  PROVE  SetMin(S) \in S /\ \A y \in S : SetMin(S) <= y
<1> \A y \in S : y = 1 \/ y = 2 \/ y = 3 \/ y = 4
  BY DEF Levels
<1>1. \E x \in S : \A y \in S : x <= y
  <2>1. CASE 1 \in S BY <2>1
  <2>2. CASE 1 \notin S /\ 2 \in S BY <2>2
  <2>3. CASE 1 \notin S /\ 2 \notin S /\ 3 \in S BY <2>3
  <2>4. CASE 1 \notin S /\ 2 \notin S /\ 3 \notin S BY <2>4
  <2> QED BY <2>1, <2>2, <2>3, <2>4
<1> QED BY <1>1 DEF SetMin

LEMMA MaxOfLevels ==
  ASSUME NEW S \in SUBSET Levels, S # {}
  PROVE  SetMax(S) \in S /\ \A y \in S : y <= SetMax(S)
<1> \A y \in S : y = 1 \/ y = 2 \/ y = 3 \/ y = 4
  BY DEF Levels
<1>1. \E x \in S : \A y \in S : y <= x
  <2>1. CASE 4 \in S BY <2>1
  <2>2. CASE 4 \notin S /\ 3 \in S BY <2>2
  <2>3. CASE 4 \notin S /\ 3 \notin S /\ 2 \in S BY <2>3
  <2>4. CASE 4 \notin S /\ 3 \notin S /\ 2 \notin S BY <2>4
  <2> QED BY <2>1, <2>2, <2>3, <2>4
<1> QED BY <1>1 DEF SetMax

(* closestSupportedThinkingLevel: for every set of levels a model may      *)
(* publish and every level it does not take, the result is a level it      *)
(* takes, the nearest above the one asked for, or if there is none above,  *)
(* the highest below.                                                      *)
THEOREM ClosestIsNearest ==
  ASSUME NEW S \in SUBSET Levels, S # {}, NEW want \in Levels, want \notin S
  PROVE  IsNearest(Closest(want, S), want, S)
<1> DEFINE higher == {l \in S : l > want}
<1>0. S \subseteq Int /\ want \in Int
  BY DEF Levels
<1>1. CASE higher # {}
  <2>1. higher \in SUBSET Levels
    OBVIOUS
  <2>2. PICK m \in higher : m = SetMin(higher) /\ \A y \in higher : m <= y
    BY <1>1, <2>1, MinOfLevels
  <2>3. Closest(want, S) = m
    BY <1>1, <2>2 DEF Closest
  <2>4. \A l \in S : want <= l => m <= l
    BY <1>0, <2>2
  <2> QED BY <1>0, <2>2, <2>3, <2>4 DEF IsNearest
<1>2. CASE higher = {}
  <2>1. PICK m \in S : m = SetMax(S) /\ \A y \in S : y <= m
    BY MaxOfLevels
  <2>2. Closest(want, S) = m
    BY <1>2, <2>1 DEF Closest
  <2>3. m < want
    BY <1>0, <1>2
  <2> QED BY <2>1, <2>2, <2>3 DEF IsNearest
<1> QED BY <1>1, <1>2

-----------------------------------------------------------------------------
(* Catalogs.                                                               *)

LEMMA EntryType ==
  ASSUME NEW list \in Seq(RawCatalogs), published = list,
         NEW v \in 0 .. Len(published), NEW m \in Models
  PROVE  EntryOf(v, m) \in Entries
<1>1. CASE v = 0
  BY <1>1, CatalogAssumption DEF EntryOf, CatalogOf, IsList, Entries, Modalities
<1>2. CASE v # 0
  <2>1. published[v] \in RawCatalogs
    BY <1>2
  <2>2. IsList(published[v], Raw)
    BY <2>1, CatalogAssumption
  <2>3. \A n \in Filtered(published[v]) : published[v][n] \in Raw
    BY <2>2 DEF IsList, Filtered
  <2> QED BY <1>2, <2>3 DEF EntryOf, CatalogOf, Built, Filtered, Entries, Raw, Modalities
<1> QED BY <1>1, <1>2

(* Sanitising a body keeps its type.                                       *)
LEMMA SanitizedTypes ==
  ASSUME NEW entry \in Entries
  PROVE  /\ LowestLevel(entry.levels) \in Absent .. AnyLevel
         /\ \A l \in Absent .. AnyLevel :
              SanitizedLevel(l, entry.levels) \in Absent .. AnyLevel
         /\ \A w \in (SUBSET Modalities) \cup {Unset} :
              SanitizedModalities(w, entry.modalities) \in (SUBSET Modalities) \cup {Unset}
         /\ \A t \in Thresholds \cup {"none"} :
              SanitizedThreshold(t, entry.thresholds) \in Thresholds \cup {"none"}
<1>1. LowestLevel(entry.levels) \in Absent .. AnyLevel
  BY MinOfLevels DEF LowestLevel, Levels, Absent, AnyLevel, Entries
<1>2. ASSUME NEW l \in Absent .. AnyLevel
      PROVE  SanitizedLevel(l, entry.levels) \in Absent .. AnyLevel
  BY ClosestIsNearest DEF IsNearest, SanitizedLevel, Levels, Absent, AnyLevel, Entries
<1>3. ASSUME NEW w \in (SUBSET Modalities) \cup {Unset}
      PROVE  SanitizedModalities(w, entry.modalities) \in (SUBSET Modalities) \cup {Unset}
  BY DEF SanitizedModalities, TextOrFirst, Modalities, Unset, Entries
<1>4. ASSUME NEW t \in Thresholds \cup {"none"}
      PROVE  SanitizedThreshold(t, entry.thresholds) \in Thresholds \cup {"none"}
  BY DEF SanitizedThreshold, Thresholds
<1> QED BY <1>1, <1>2, <1>3, <1>4

(* Each refresh that holds an answer holds one at least as new as what was *)
(* in memory when it began, and what is in memory passed the filter.       *)
AnswersAreRecent ==
  \A r \in Refreshers : refresh[r].pc = "answered" =>
    refresh[r].answer # 0 /\ refresh[r].answer >= refresh[r].began

InstalledPassed == installed # 0 => Filtered(published[installed]) # {}

CatalogInv == TypeOK /\ AnswersAreRecent /\ InstalledPassed

LEMMA CatalogInvHolds == Spec => []CatalogInv
<1> USE CatalogAssumption
<1>1. Init => CatalogInv
  <2> SUFFICES ASSUME Init PROVE CatalogInv
    OBVIOUS
  <2>1. published \in Seq(RawCatalogs) /\ Len(published) = 0
    BY DEF Init
  <2>2. NoBody \in Bodies
    BY DEF NoBody, Bodies, Absent, AnyLevel, Unset
  <2>3. request \in [Requests -> [pc : {"new", "checked", "converted", "leveled", "sent", "refused"},
                                  want : Wants, body : Bodies]]
    BY <2>2 DEF Init
  <2>4. PICK auto \in {"fetching", "off"} :
          refresh = [r \in Refreshers |->
                       IF r = "auto" THEN At(auto) ELSE At("idle")]
    BY DEF Init
  <2>5. refresh \in [Refreshers -> [pc : {"idle", "fetching", "off"}, began : {0}, answer : {0}]]
    BY <2>4 DEF At
  <2>6. TypeOK
    <3>1. 0 .. Len(published) = {0}
      BY <2>1
    <3>2. refresh \in [Refreshers -> [pc : {"idle", "fetching", "answered", "stopped",
                                           "off", "updated", "kept", "failed"},
                                     began : {0}, answer : {0}]]
      BY <2>5
    <3>3. window \in [Requests -> SUBSET {0}] /\ installed \in {0}
      BY DEF Init
    <3>4. stopping \in BOOLEAN /\ allowCustom \in BOOLEAN
      BY DEF Init
    <3>5. Len(published) <= MaxVersion
      BY <2>1
    <3> QED BY ONLY <2>1, <2>3, <3>1, <3>2, <3>3, <3>4, <3>5 DEF TypeOK
  <2> QED BY <2>1, <2>5, <2>6 DEF Init, CatalogInv, AnswersAreRecent, InstalledPassed
<1>2. CatalogInv /\ [Next]_vars => CatalogInv'
  <2> SUFFICES ASSUME CatalogInv, [Next]_vars PROVE CatalogInv'
    OBVIOUS
  <2> USE DEF CatalogInv
  <2>0. Len(published) \in Nat
    BY DEF TypeOK
  <2>1. CASE Publish
    <3>1. PICK raw \in RawCatalogs : published' = Append(published, raw)
      BY <2>1 DEF Publish
    <3>2. /\ published' \in Seq(RawCatalogs) /\ Len(published') = Len(published) + 1
          /\ \A v \in 1 .. Len(published) : published'[v] = published[v]
      BY <3>1 DEF TypeOK
    <3>3. TypeOK'
      BY <2>0, <2>1, <3>2 DEF Publish, TypeOK, requestVars
    <3> QED BY <2>0, <2>1, <3>2, <3>3
            DEF Publish, TypeOK, AnswersAreRecent, InstalledPassed, Filtered
  <2>2. CASE Signal
    BY <2>2 DEF Signal, TypeOK, AnswersAreRecent, InstalledPassed, requestVars
  <2>3. ASSUME NEW r \in Refreshers, StartFetch(r) PROVE CatalogInv'
    BY <2>0, <2>3 DEF StartFetch, TypeOK, AnswersAreRecent, InstalledPassed, requestVars
  <2>4. CASE StopWhenIdle
    BY <2>0, <2>4 DEF StopWhenIdle, At, Refreshers, TypeOK, AnswersAreRecent, InstalledPassed, requestVars
  <2>5. ASSUME NEW r \in Refreshers, UpstreamAnswers(r) PROVE CatalogInv'
    <3>1. Len(published) # 0
      BY <2>5, EmptySeq DEF UpstreamAnswers, TypeOK
    <3> QED BY <2>0, <2>5, <3>1 DEF UpstreamAnswers, TypeOK, AnswersAreRecent, InstalledPassed, requestVars
  <2>6. ASSUME NEW r \in Refreshers, Install(r) PROVE CatalogInv'
    <3>1. installed' \in 0 .. Len(published) /\ published' = published
      BY <2>6 DEF Install, TypeOK
    <3>2. window' \in [Requests -> SUBSET (0 .. Len(published))]
      BY <2>6, <3>1 DEF Install, TypeOK
    <3>3. refresh' = [refresh EXCEPT ![r] = [pc |-> "updated", began |-> 0, answer |-> 0]]
      BY <2>6 DEF Install, At
    <3>4. TypeOK'
      BY <2>0, <2>6, <3>1, <3>2, <3>3 DEF Install, TypeOK
    <3> QED BY <2>6, <3>1, <3>3, <3>4 DEF Install, TypeOK, AnswersAreRecent, InstalledPassed
  <2>7. ASSUME NEW r \in Refreshers, KeepOnEmpty(r) \/ FetchFails(r) PROVE CatalogInv'
    <3>1. \E place \in {"kept", "failed"} :
            refresh' = [refresh EXCEPT ![r] = [pc |-> place, began |-> 0, answer |-> 0]]
      BY <2>7 DEF KeepOnEmpty, FetchFails, At
    <3>2. UNCHANGED <<published, installed, stopping, requestVars, allowCustom>>
      BY <2>7 DEF KeepOnEmpty, FetchFails
    <3>3. TypeOK'
      BY <2>0, <3>1, <3>2 DEF TypeOK, requestVars
    <3> QED BY <3>1, <3>2, <3>3 DEF TypeOK, AnswersAreRecent, InstalledPassed
  <2>8. ASSUME NEW q \in Requests,
               Validate(q) \/ Convert(q) \/ SanitizeThinking(q) \/ SanitizeModalities(q) \/ Finish(q)
        PROVE  CatalogInv'
    <3>1. TypeOK'
      <4>1. /\ request[q].want \in Wants /\ request[q].want.model \in Models
            /\ request[q].body \in Bodies
            /\ EntryOf(installed, request[q].want.model) \in Entries
        BY EntryType DEF TypeOK
      <4>2. NoBody \in Bodies
        BY DEF NoBody, Bodies, Absent, AnyLevel, Unset
      <4>3. ASSUME NEW place \in {"checked", "converted", "leveled", "sent", "refused"},
                   NEW body \in Bodies, Advance(q, place, body)
            PROVE  request' \in [Requests -> [pc : {"new", "checked", "converted", "leveled",
                                                   "sent", "refused"},
                                              want : Wants, body : Bodies]]
        BY <4>3 DEF Advance, TypeOK
      <4>4. CASE Validate(q)
        <5>1. window' \in [Requests -> SUBSET (0 .. Len(published))]
          BY <4>4 DEF Validate, TypeOK
        <5> QED BY <4>2, <4>3, <4>4, <5>1 DEF Validate, refreshVars, TypeOK
      <4>5. CASE Convert(q)
        <5> DEFINE want == request[q].want
                   entry == EntryOf(installed, want.model)
                   level == IF want.level = Lowest THEN LowestLevel(entry.levels) ELSE want.level
                   body == [level |-> level, budget |-> want.budget,
                            modalities |-> want.modalities,
                            threshold |-> SanitizedThreshold(want.threshold, entry.thresholds)]
        <5>1. /\ want.level \in Lowest .. AnyLevel /\ want.budget \in BOOLEAN
              /\ want.modalities \in (SUBSET Modalities) \cup {Unset}
              /\ want.threshold \in Thresholds \cup {"none"}
          BY <4>1
        <5>2. level \in Absent .. AnyLevel
          BY <4>1, <5>1, SanitizedTypes DEF Absent, AnyLevel, Lowest
        <5>3. SanitizedThreshold(want.threshold, entry.thresholds) \in Thresholds \cup {"none"}
          BY <4>1, <5>1, SanitizedTypes
        <5>4. body \in Bodies
          BY <5>1, <5>2, <5>3 DEF Bodies
        <5>5. Advance(q, "converted", body) /\ UNCHANGED <<window, refreshVars, allowCustom>>
          BY <4>5 DEF Convert
        <5> QED BY <4>3, <5>4, <5>5 DEF refreshVars, TypeOK
      <4>6. CASE SanitizeThinking(q)
        <5> DEFINE old == request[q].body
        <5>1. PICK level \in {Absent, SanitizedLevel(old.level, EntryOf(installed, request[q].want.model).levels)},
                   budget \in BOOLEAN :
                Advance(q, "leveled", [old EXCEPT !.level = level, !.budget = budget])
          BY <4>6 DEF SanitizeThinking
        <5>2. level \in Absent .. AnyLevel
          BY <4>1, <5>1, SanitizedTypes DEF Absent, AnyLevel, Bodies
        <5>3. [old EXCEPT !.level = level, !.budget = budget] \in Bodies
          BY <4>1, <5>2 DEF Bodies
        <5> QED BY <4>3, <4>6, <5>1, <5>3 DEF SanitizeThinking, refreshVars, TypeOK
      <4>7. CASE SanitizeModalities(q)
        BY <4>1, <4>3, <4>7, SanitizedTypes
           DEF SanitizeModalities, refreshVars, TypeOK, Bodies
      <4>8. CASE Finish(q)
        BY <4>2, <4>8, <2>0 DEF Finish, refreshVars, TypeOK
      <4> QED BY <2>8, <4>4, <4>5, <4>6, <4>7, <4>8
    <3> QED BY <2>8, <3>1
            DEF Validate, Convert, SanitizeThinking, SanitizeModalities, Finish, refreshVars,
                AnswersAreRecent, InstalledPassed
  <2>9. CASE UNCHANGED vars
    BY <2>9 DEF vars, refreshVars, requestVars, TypeOK, AnswersAreRecent, InstalledPassed
  <2> QED BY <2>1, <2>2, <2>3, <2>4, <2>5, <2>6, <2>7, <2>8, <2>9
          DEF Next, TimerFires, RefreshModels, Refreshers
<1> QED BY <1>1, <1>2, PTL DEF Spec
(* The catalog, the refreshes and the requests keep their types.           *)
THEOREM TypeCorrect == Spec => []TypeOK
<1>1. CatalogInv => TypeOK
  BY DEF CatalogInv
<1> QED BY <1>1, CatalogInvHolds, PTL

(* No sequence of fetches, failed, empty or late, leaves the program       *)
(* without a model (UpdateCatalogFromUpstream).                            *)
THEOREM CatalogStaysUsable == Spec => []CatalogIsUsable
<1>1. CatalogInv => CatalogIsUsable
  <2> SUFFICES ASSUME CatalogInv PROVE CatalogIsUsable
    OBVIOUS
  <2>1. CASE installed = 0
    BY <2>1, CatalogAssumption DEF CatalogIsUsable, CatalogOf
  <2>2. CASE installed # 0
    BY <2>2 DEF CatalogInv, InstalledPassed, CatalogIsUsable, CatalogOf, Built
  <2> QED BY <2>1, <2>2
<1> QED BY <1>1, CatalogInvHolds, PTL

(* However many refreshes overlap, none installs a list older than the one *)
(* in memory when it began.                                                *)
THEOREM InstallsAreRecent == Spec => InstallIsRecent
<1> DEFINE Recent ==
      installed' # installed =>
        \E r \in Refreshers :
          /\ refresh[r].pc = "answered" /\ refresh'[r].pc = "updated"
          /\ installed' = refresh[r].answer
          /\ installed' >= refresh[r].began
<1>1. CatalogInv /\ [Next]_vars => Recent
  <2> SUFFICES ASSUME CatalogInv, [Next]_vars, installed' # installed PROVE Recent
    OBVIOUS
  <2>1. \E r \in Refreshers : Install(r)
    BY DEF Next, vars, refreshVars, requestVars, Publish, Signal, TimerFires, StopWhenIdle,
           StartFetch, UpstreamAnswers, KeepOnEmpty, FetchFails, RefreshModels,
           Validate, Convert, SanitizeThinking, SanitizeModalities, Finish
  <2>2. PICK r \in Refreshers : Install(r)
    BY <2>1
  <2>3. refresh'[r].pc = "updated"
    BY <2>2 DEF Install, At, CatalogInv, TypeOK
  <2> QED BY <2>2, <2>3 DEF Install, CatalogInv, AnswersAreRecent
<1> QED BY <1>1, CatalogInvHolds, PTL DEF Spec, InstallIsRecent

-----------------------------------------------------------------------------
(* Bodies.  What each step makes of a body fits the catalog it reads ...   *)

LEMMA ThresholdSane ==
  ASSUME NEW t \in Thresholds \cup {"none"}, NEW allowed \in SUBSET Thresholds
  PROVE  ThresholdFits(SanitizedThreshold(t, allowed), allowed)
  BY DEF ThresholdFits, SanitizedThreshold, Thresholds

LEMMA ModalitiesSane ==
  ASSUME NEW w \in (SUBSET Modalities) \cup {Unset},
         NEW allowed \in (SUBSET Modalities) \ {{}}
  PROVE  ModalitiesFit(SanitizedModalities(w, allowed), w, allowed)
  BY DEF ModalitiesFit, SanitizedModalities, TextOrFirst, Modalities, Unset

LEMMA LevelSane ==
  ASSUME NEW want \in Lowest .. AnyLevel, NEW levels \in SUBSET Levels,
         NEW level \in Absent .. AnyLevel,
         want # Lowest => level = want, want = Lowest => level \in Levels \cup {Absent}
  PROVE  LevelFits(SanitizedLevel(level, levels), want, levels)
<1> USE DEF Absent, Lowest, AnyLevel, Levels
<1>1. CASE level \notin Levels
  BY <1>1 DEF LevelFits, SanitizedLevel
<1>2. CASE levels = {}
  BY <1>2 DEF LevelFits, SanitizedLevel
<1>3. CASE level \in levels
  BY <1>3 DEF LevelFits, SanitizedLevel, IsNearest
<1>4. CASE level \in Levels /\ levels # {} /\ level \notin levels
  <2>1. IsNearest(SanitizedLevel(level, levels), level, levels)
    BY <1>4, ClosestIsNearest DEF SanitizedLevel
  <2> QED BY <2>1, <1>4 DEF LevelFits, IsNearest
<1> QED BY <1>1, <1>2, <1>3, <1>4

(* ... and lists once published stay what they are.                        *)
LEMMA ListsStay ==
  ASSUME CatalogInv, [Next]_vars, NEW v \in 0 .. Len(published), NEW m \in Models
  PROVE  CatalogOf(v)' = CatalogOf(v) /\ EntryOf(v, m)' = EntryOf(v, m)
<1>1. v # 0 => published'[v] = published[v]
  <2>1. CASE Publish
    BY <2>1 DEF Publish, CatalogInv, TypeOK
  <2>2. CASE published' = published
    BY <2>2
  <2> QED BY <2>1, <2>2
          DEF Next, vars, refreshVars, requestVars, Signal, TimerFires, StopWhenIdle,
              StartFetch, UpstreamAnswers, Install, KeepOnEmpty, FetchFails, RefreshModels,
              Validate, Convert, SanitizeThinking, SanitizeModalities, Finish
<1>2. CatalogOf(v)' = CatalogOf(v)
  BY <1>1 DEF CatalogOf, Built, Filtered
<1> QED BY <1>2 DEF EntryOf

(* What is settled of a request after each of its steps.                   *)
Settled(q) ==
  /\ request[q].pc \in {"checked", "converted", "leveled"} => installed \in window[q]
  /\ request[q].pc \in {"checked", "converted", "leveled", "sent"} => WasKnown(q)
  /\ request[q].pc \in {"converted", "leveled", "sent"} => ThresholdWasFit(q)
  /\ request[q].pc \in {"converted", "leveled"} =>
       request[q].body.modalities = request[q].want.modalities
  /\ request[q].pc = "converted" =>
       IF request[q].want.level = Lowest
         THEN request[q].body.level \in Levels \cup {Absent}
         ELSE request[q].body.level = request[q].want.level
  /\ request[q].pc \in {"leveled", "sent"} => LevelWasFit(q)
  /\ request[q].pc = "sent" => ModalitiesWereFit(q)

BodyInv == \A q \in Requests : Settled(q)

(* A wider window offers no less.                                          *)
LEMMA FitsStay ==
  ASSUME CatalogInv, [Next]_vars, NEW q \in Requests,
         request'[q].want = request[q].want, allowCustom' = allowCustom,
         window[q] \subseteq window'[q]
  PROVE  /\ WasKnown(q) => WasKnown(q)'
         /\ Offers(q) \subseteq Offers(q)'
         /\ request'[q].body.threshold = request[q].body.threshold /\ ThresholdWasFit(q)
              => ThresholdWasFit(q)'
         /\ request'[q].body.level = request[q].body.level /\ LevelWasFit(q)
              => LevelWasFit(q)'
         /\ request'[q].body = request[q].body /\ ModalitiesWereFit(q)
              => ModalitiesWereFit(q)'
<1>1. window[q] \subseteq 0 .. Len(published) /\ request[q].want.model \in Models
  BY CatalogAssumption DEF CatalogInv, TypeOK
<1>2. Offers(q) \subseteq Offers(q)'
  BY <1>1, ListsStay DEF Offers
<1>3. WasKnown(q) => WasKnown(q)'
  BY <1>1, ListsStay DEF WasKnown
<1> QED BY <1>2, <1>3 DEF ThresholdWasFit, LevelWasFit, ModalitiesWereFit

(* The answer a request got from the catalog it has just read is one that  *)
(* its window offers.                                                      *)
LEMMA ReadIsOffered ==
  ASSUME CatalogInv, NEW q \in Requests, installed \in window[q]
  PROVE  /\ EntryOf(installed, request[q].want.model) \in Offers(q)
         /\ EntryOf(installed, request[q].want.model) \in Entries
         /\ request[q].want \in Wants /\ request[q].body \in Bodies
  BY EntryType, CatalogAssumption DEF Offers, CatalogInv, TypeOK

(* Steps that leave the requests alone.                                    *)
LEMMA OtherSteps ==
  ASSUME CatalogInv, BodyInv, [Next]_vars,
         request' = request, allowCustom' = allowCustom,
         \A q \in Requests : window[q] \subseteq window'[q],
         \A q \in Requests : window[q] # {} /\ installed' # installed => installed' \in window'[q]
  PROVE  BodyInv'
  BY FitsStay DEF BodyInv, Settled

LEMMA BodyInvHolds == Spec => []BodyInv
<1>1. Init => BodyInv
  BY DEF Init, BodyInv, Settled
<1>2. CatalogInv /\ BodyInv /\ [Next]_vars => BodyInv'
  <2> SUFFICES ASSUME CatalogInv, BodyInv, [Next]_vars PROVE BodyInv'
    OBVIOUS
  <2>1. ASSUME \/ Publish \/ Signal \/ TimerFires \/ StopWhenIdle \/ UNCHANGED vars
               \/ \E r \in Refreshers : UpstreamAnswers(r) \/ KeepOnEmpty(r) \/ FetchFails(r)
               \/ \E m \in Manual : RefreshModels(m)
        PROVE  BodyInv'
    <3>1. UNCHANGED <<request, allowCustom, window, installed>>
      BY <2>1 DEF Publish, Signal, TimerFires, StopWhenIdle, vars, refreshVars, requestVars,
                  UpstreamAnswers, KeepOnEmpty, FetchFails, RefreshModels, StartFetch
    <3> QED BY <3>1, OtherSteps
  <2>2. ASSUME NEW r \in Refreshers, Install(r) PROVE BodyInv'
    BY <2>2, OtherSteps DEF Install, CatalogInv, TypeOK
  <2>3. ASSUME NEW p \in Requests,
               Validate(p) \/ Convert(p) \/ SanitizeThinking(p) \/ SanitizeModalities(p) \/ Finish(p)
        PROVE  BodyInv'
    <3>1. UNCHANGED <<published, installed, allowCustom>>
      BY <2>3 DEF Validate, Convert, SanitizeThinking, SanitizeModalities, Finish, refreshVars
    <3>2. ASSUME NEW q \in Requests, q # p
          PROVE  request'[q] = request[q] /\ window'[q] = window[q]
      BY <2>3, <3>2 DEF Validate, Convert, SanitizeThinking, SanitizeModalities, Finish,
                        Advance, CatalogInv, TypeOK
    <3>3. ASSUME NEW q \in Requests, q # p PROVE Settled(q)'
      <4>1. request'[q] = request[q] /\ window'[q] = window[q]
        BY <3>2, <3>3
      <4> QED BY <3>1, <4>1, FitsStay DEF BodyInv, Settled
    <3> SUFFICES Settled(p)'
      BY <3>3 DEF BodyInv
    <3>4. request[p] \in [pc : {"new", "checked", "converted", "leveled", "sent", "refused"},
                          want : Wants, body : Bodies]
      BY DEF CatalogInv, TypeOK
    <3>5. ASSUME NEW place, NEW body, Advance(p, place, body)
          PROVE  request'[p] = [pc |-> place, want |-> request[p].want, body |-> body]
      BY <3>5 DEF Advance, CatalogInv, TypeOK
    <3>6. CASE Validate(p)
      <4>1. installed \in 0 .. Len(published) /\ request[p].want.model \in Models
        BY <3>4, CatalogAssumption DEF CatalogInv, TypeOK
      <4>2. CASE request[p].want.model \in DOMAIN CatalogOf(installed) \/ allowCustom
        <5>1. request'[p] = [pc |-> "checked", want |-> request[p].want, body |-> NoBody]
          BY <3>5, <3>6, <4>2 DEF Validate
        <5>2. window'[p] = {installed}
          BY <3>6, <4>2 DEF Validate, CatalogInv, TypeOK
        <5>3. WasKnown(p)'
          BY <3>1, <4>1, <4>2, <5>1, <5>2, ListsStay DEF WasKnown
        <5> QED BY <3>1, <5>1, <5>2, <5>3 DEF Settled
      <4>3. CASE ~(request[p].want.model \in DOMAIN CatalogOf(installed) \/ allowCustom)
        <5>1. request'[p] = [pc |-> "refused", want |-> request[p].want, body |-> NoBody]
          BY <3>5, <3>6, <4>3 DEF Validate
        <5> QED BY <5>1 DEF Settled
      <4> QED BY <4>2, <4>3
    <3> DEFINE entry == EntryOf(installed, request[p].want.model)
               old   == request[p].body
               want  == request[p].want
    <3> HIDE DEF entry
    <3>7. CASE Convert(p)
      <4> DEFINE level == IF want.level = Lowest THEN LowestLevel(entry.levels) ELSE want.level
                 body == [level |-> level, budget |-> want.budget,
                          modalities |-> want.modalities,
                          threshold |-> SanitizedThreshold(want.threshold, entry.thresholds)]
      <4>1. /\ request'[p] = [pc |-> "converted", want |-> want, body |-> body]
            /\ window' = window /\ request[p].pc = "checked"
        BY <3>5, <3>7 DEF Convert, entry
      <4>2. installed \in window[p] /\ WasKnown(p)
        BY <4>1 DEF BodyInv, Settled
      <4>3. entry \in Offers(p) /\ entry \in Entries /\ want \in Wants
        BY <4>2, ReadIsOffered DEF entry
      <4>4. want.level = Lowest => level \in Levels \cup {Absent}
        BY <4>3, MinOfLevels DEF LowestLevel, Entries
      <4>5. ThresholdFits(body.threshold, entry.thresholds)
        BY <4>3, ThresholdSane, CatalogAssumption DEF Entries
      <4>6. WasKnown(p)' /\ entry \in Offers(p)'
        BY <3>1, <4>1, <4>2, <4>3, FitsStay
      <4>7. ThresholdWasFit(p)'
        BY <4>1, <4>5, <4>6 DEF ThresholdWasFit
      <4> QED BY <3>1, <4>1, <4>2, <4>4, <4>6, <4>7 DEF Settled
    <3>8. CASE SanitizeThinking(p)
      <4>1. installed \in window[p] /\ WasKnown(p) /\ ThresholdWasFit(p)
            /\ old.modalities = want.modalities /\ request[p].pc = "converted"
        BY <3>8 DEF SanitizeThinking, BodyInv, Settled
      <4>2. entry \in Offers(p) /\ entry \in Entries /\ want \in Wants /\ old \in Bodies
        BY <4>1, ReadIsOffered DEF entry
      <4>3. PICK level \in {Absent, SanitizedLevel(old.level, entry.levels)}, budget \in BOOLEAN :
              Advance(p, "leveled", [old EXCEPT !.level = level, !.budget = budget])
        BY <3>8 DEF SanitizeThinking, entry
      <4> DEFINE body == [old EXCEPT !.level = level, !.budget = budget]
      <4>4. request'[p] = [pc |-> "leveled", want |-> want, body |-> body] /\ window' = window
        BY <3>5, <3>8, <4>3 DEF SanitizeThinking
      <4>5. body.level = level /\ body.threshold = old.threshold /\ body.modalities = old.modalities
        BY <4>2 DEF Bodies
      <4>6. IF want.level = Lowest THEN old.level \in Levels \cup {Absent}
                                   ELSE old.level = want.level
        BY <4>1 DEF BodyInv, Settled
      <4>7. want.level \in Lowest .. AnyLevel /\ entry.levels \in SUBSET Levels
            /\ old.level \in Absent .. AnyLevel
        BY <4>2, CatalogAssumption DEF Entries, Bodies
      <4>8. LevelFits(level, want.level, entry.levels)
        <5>1. LevelFits(SanitizedLevel(old.level, entry.levels), want.level, entry.levels)
          BY <4>6, <4>7, LevelSane
        <5>2. LevelFits(Absent, want.level, entry.levels)
          BY DEF LevelFits
        <5> QED BY <5>1, <5>2
      <4> HIDE DEF body
      <4>9. /\ WasKnown(p)' /\ entry \in Offers(p)' /\ ThresholdWasFit(p)'
        BY <3>1, <4>1, <4>2, <4>4, <4>5, FitsStay
      <4>10. LevelWasFit(p)'
        BY <4>4, <4>5, <4>8, <4>9 DEF LevelWasFit
      <4> QED BY <3>1, <4>1, <4>4, <4>5, <4>9, <4>10 DEF Settled
    <3>9. CASE SanitizeModalities(p)
      <4>1. installed \in window[p] /\ WasKnown(p) /\ ThresholdWasFit(p) /\ LevelWasFit(p)
            /\ old.modalities = want.modalities /\ request[p].pc = "leveled"
        BY <3>9 DEF SanitizeModalities, BodyInv, Settled
      <4>2. entry \in Offers(p) /\ entry \in Entries /\ want \in Wants /\ old \in Bodies
        BY <4>1, ReadIsOffered DEF entry
      <4> DEFINE body == [old EXCEPT !.modalities =
                            SanitizedModalities(old.modalities, entry.modalities)]
      <4>3. request'[p] = [pc |-> "sent", want |-> want, body |-> body] /\ window' = window
        BY <3>5, <3>9 DEF SanitizeModalities, entry
      <4>4. /\ body.level = old.level /\ body.threshold = old.threshold
            /\ body.modalities = SanitizedModalities(want.modalities, entry.modalities)
        BY <4>1, <4>2 DEF Bodies
      <4>5. ModalitiesFit(body.modalities, want.modalities, entry.modalities)
        BY <4>2, <4>4, ModalitiesSane, CatalogAssumption DEF Entries
      <4> HIDE DEF body
      <4>6. /\ WasKnown(p)' /\ entry \in Offers(p)'
            /\ ThresholdWasFit(p)' /\ LevelWasFit(p)'
        BY <3>1, <4>1, <4>2, <4>3, <4>4, FitsStay
      <4>7. ModalitiesWereFit(p)'
        BY <4>3, <4>5, <4>6 DEF ModalitiesWereFit
      <4> QED BY <4>3, <4>6, <4>7 DEF Settled
    <3>10. CASE Finish(p)
      BY <3>10 DEF Finish, CatalogInv, TypeOK, Settled
    <3> QED BY <2>3, <3>6, <3>7, <3>8, <3>9, <3>10
  <2>4. CASE \E r \in Refreshers :
               UpstreamAnswers(r) \/ Install(r) \/ KeepOnEmpty(r) \/ FetchFails(r)
    BY <2>1, <2>2, <2>4
  <2>5. CASE \E p \in Requests :
               Validate(p) \/ Convert(p) \/ SanitizeThinking(p) \/ SanitizeModalities(p) \/ Finish(p)
    BY <2>3, <2>5
  <2> QED BY <2>1, <2>4, <2>5, Zenon DEF Next
<1> QED BY <1>1, <1>2, CatalogInvHolds, PTL DEF Spec

(* Whatever refreshes run beside it, a request is sent only for a model    *)
(* that was known, with a level, modalities and a threshold each of which  *)
(* fits what the model published at some time while it was built.          *)
THEOREM BodiesFit == Spec => []BodyFits
<1>1. BodyInv => BodyFits
  BY DEF BodyInv, Settled, BodyFits
<1> QED BY <1>1, BodyInvHolds, PTL
=============================================================================
