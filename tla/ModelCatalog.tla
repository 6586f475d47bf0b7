---------------------------- MODULE ModelCatalog ----------------------------
(***************************************************************************)
(* The model catalog in memory (src/model/catalog.go), its refreshes by    *)
(* the scheduler and by hand (src/model/fetcher.go,                        *)
(* src/handler/models_refresh.go) and the requests that read it while they *)
(* are built (src/handler/validation.go, src/proxy/vertex.go).             *)
(*                                                                         *)
(* A refresh fetches outside the lock of the catalog and installs what it  *)
(* got; a request takes the lock anew for each question it asks.  A model  *)
(* publishes the modalities it can answer in, the thinking levels 1 .. 4   *)
(* (MINIMAL, LOW, MEDIUM, HIGH) it takes and the thresholds of its safety  *)
(* setting; the empty set stands for "nothing published" where the code    *)
(* treats both alike.                                                      *)
(***************************************************************************)
EXTENDS Integers, Sequences, FiniteSets

CONSTANTS
  Models,          \* names of models
  Family,          \* by the prefix of the name: "gemini-3", "gemini-2.5", "other"
  RawCatalogs,     \* lists of models the upstream may publish
  Fallback,        \* the catalog of loadDefaultCatalog
  MaxVersion,      \* bound of the lists the upstream publishes
  Manual,          \* concurrent calls of POST /v1/models/refresh
  Requests,        \* concurrent generation requests
  Wants            \* what they ask for

Levels == 1 .. 4
Absent == 0
Lowest == -1       \* Anthropic: the lowest level the model takes
AnyLevel == 5      \* a string that is no level
Modalities == {"TEXT", "IMAGE"}
Unset == {"unset"} \* responseModalities is not given
Thresholds == {"BLOCK_NONE", "OFF", "LOW"}

Raw == [accepted : BOOLEAN, types : SUBSET Modalities,
        levels : SUBSET Levels, thresholds : SUBSET Thresholds]
Entries == [modalities : (SUBSET Modalities) \ {{}},
            levels : SUBSET Levels, thresholds : SUBSET Thresholds]
Bodies == [level : Absent .. AnyLevel, budget : BOOLEAN,
           modalities : (SUBSET Modalities) \cup {Unset},
           threshold : Thresholds \cup {"none"}]

IsList(f, R) == DOMAIN f \subseteq Models /\ f \in [DOMAIN f -> R]

ASSUME CatalogAssumption ==
  /\ MaxVersion \in Nat
  /\ Family \in [Models -> {"gemini-3", "gemini-2.5", "other"}]
  /\ \A raw \in RawCatalogs : IsList(raw, Raw)
  /\ IsList(Fallback, Entries) /\ DOMAIN Fallback # {}
  /\ Wants \subseteq [model : Models, level : Lowest .. AnyLevel, budget : BOOLEAN,
                      modalities : (SUBSET Modalities) \cup {Unset},
                      threshold : Thresholds \cup {"none"}]
  /\ "auto" \notin Manual

Refreshers == Manual \cup {"auto"}

VARIABLES
  published,       \* the lists the upstream has published, newest last
  installed,       \* defaultCatalog: version of the list it is built from, or 0
  refresh,         \* each refresher's state
  stopping,        \* the context of the program is done
  request,         \* each request's state and body
  allowCustom,     \* ALLOW_CUSTOM_MODEL_NAMES
  window           \* history: versions in memory since the request was checked

refreshVars == <<published, installed, refresh, stopping>>
requestVars == <<request, window>>
vars == <<refreshVars, requestVars, allowCustom>>

Versions == 0 .. MaxVersion

-----------------------------------------------------------------------------
(* Pure parts.                                                             *)

SetMin(S) == CHOOSE x \in S : \A y \in S : x <= y
SetMax(S) == CHOOSE x \in S : \A y \in S : y <= x

(* FilterGoogleGlobalModels.                                               *)
Filtered(raw) == {m \in DOMAIN raw : raw[m].accepted}

(* buildModelCatalog of the filtered list.                                 *)
Built(raw) ==
  [m \in Filtered(raw) |->
     [modalities |-> IF raw[m].types = {} THEN {"TEXT"} ELSE raw[m].types,
      levels     |-> raw[m].levels,
      thresholds |-> raw[m].thresholds]]

CatalogOf(v) == IF v = 0 THEN Fallback ELSE Built(published[v])

(* What a lookup finds for a model; one not in the catalog answers in text *)
(* only and has neither levels nor a safety setting.                       *)
EntryOf(v, m) ==
  IF m \in DOMAIN CatalogOf(v) THEN CatalogOf(v)[m]
  ELSE [modalities |-> {"TEXT"}, levels |-> {}, thresholds |-> {}]

(* closestSupportedThinkingLevel: promote, and only then demote.           *)
ClosestDown(level, allowed) ==   \* mutant of Closest: demote first
  LET lower == {l \in allowed : l < level} IN
  IF lower # {} THEN SetMax(lower) ELSE SetMin(allowed)

Closest(level, allowed) ==
  LET higher == {l \in allowed : l > level} IN
  IF higher # {} THEN SetMin(higher) ELSE SetMax(allowed)

(* LowestSupportedThinkingLevel.                                           *)
LowestLevel(levels) == IF levels # {} THEN SetMin(levels) ELSE Absent

(* SanitizeGenerationConfigThinkingLevel.                                  *)
SanitizedLevel(level, allowed) ==
  IF level \notin Levels \/ allowed = {} \/ level \in allowed THEN level
  ELSE Closest(level, allowed)

(* SanitizeGenerationConfigResponseModalities, for lists without order or  *)
(* repetition.                                                             *)
TextOrFirst(allowed) == IF "TEXT" \in allowed THEN {"TEXT"} ELSE {"IMAGE"}

SanitizedModalities(wanted, allowed) ==
  IF wanted = Unset
    THEN IF "IMAGE" \in allowed THEN allowed ELSE Unset
    ELSE (IF wanted \cap allowed = {} THEN TextOrFirst(allowed)
                                      ELSE wanted \cap allowed)
         \cup ({"IMAGE"} \cap allowed)

(* matchSafetyThreshold: BLOCK_NONE and OFF stand in for each other.       *)
SanitizedThreshold(threshold, allowed) ==
  IF threshold = "BLOCK_NONE" /\ "BLOCK_NONE" \notin allowed /\ "OFF" \in allowed
    THEN "OFF"
  ELSE IF threshold = "OFF" /\ "OFF" \notin allowed /\ "BLOCK_NONE" \in allowed
    THEN "BLOCK_NONE"
    ELSE threshold

-----------------------------------------------------------------------------
At(pc) == [pc |-> pc, began |-> 0, answer |-> 0]   \* a refresher with nothing in hand
NoBody == [level |-> Absent, budget |-> FALSE, modalities |-> Unset, threshold |-> "none"]

Init ==
  /\ published = << >> /\ installed = 0 /\ stopping = FALSE
  /\ \E auto \in {"fetching", "off"} :     \* AUTO_FETCH_MODELS
       refresh = [r \in Refreshers |->
                    IF r = "auto" THEN At(auto) ELSE At("idle")]
  /\ request \in [Requests -> [pc : {"new"}, want : Wants, body : {NoBody}]]
  /\ allowCustom \in BOOLEAN
  /\ window = [q \in Requests |-> {}]

TypeOK ==
  /\ published \in Seq(RawCatalogs) /\ Len(published) <= MaxVersion
  /\ installed \in 0 .. Len(published)
  /\ refresh \in [Refreshers -> [pc : {"idle", "fetching", "answered", "stopped",
                                       "off", "updated", "kept", "failed"},
                                 began : 0 .. Len(published),
                                 answer : 0 .. Len(published)]]
  /\ stopping \in BOOLEAN /\ allowCustom \in BOOLEAN
  /\ request \in [Requests -> [pc : {"new", "checked", "converted", "leveled",
                                     "sent", "refused"},
                               want : Wants, body : Bodies]]
  /\ window \in [Requests -> SUBSET (0 .. Len(published))]

-----------------------------------------------------------------------------
(* The upstream and the refreshes.                                         *)

Publish ==
  /\ Len(published) < MaxVersion
  /\ \E raw \in RawCatalogs : published' = Append(published, raw)
  /\ UNCHANGED <<installed, refresh, stopping, requestVars, allowCustom>>

(* UpdateCatalogFromUpstream sends its request ...                         *)
StartFetch(r) ==
  /\ refresh' = [refresh EXCEPT ![r] = [pc |-> "fetching", began |-> installed, answer |-> 0]]
  /\ UNCHANGED <<published, installed, stopping, requestVars, allowCustom>>

(* ... the upstream answers it, and the answer may take its time ...       *)
AnswerFromStore(r) ==   \* mutant of UpstreamAnswers: a response of any age
  /\ refresh[r].pc = "fetching"
  /\ \E v \in 1 .. Len(published) :
       refresh' = [refresh EXCEPT ![r] = [@ EXCEPT !.pc = "answered", !.answer = v]]
  /\ UNCHANGED <<published, installed, stopping, requestVars, allowCustom>>

UpstreamAnswers(r) ==
  /\ refresh[r].pc = "fetching" /\ published # << >>
  /\ refresh' = [refresh EXCEPT
                   ![r] = [pc |-> "answered", began |-> @.began, answer |-> Len(published)]]
  /\ UNCHANGED <<published, installed, stopping, requestVars, allowCustom>>

(* ... and it is filtered and installed, unless nothing is left of it.     *)
InstallUnchecked(r) ==   \* mutant of Install
  /\ refresh[r].pc = "answered"
  /\ installed' = refresh[r].answer
  /\ window' = [q \in Requests |->
                  IF window[q] = {} THEN {} ELSE window[q] \cup {installed'}]
  /\ refresh' = [refresh EXCEPT ![r] = At("updated")]
  /\ UNCHANGED <<published, stopping, request, allowCustom>>

Install(r) ==
  /\ refresh[r].pc = "answered"
  /\ Filtered(published[refresh[r].answer]) # {}
  /\ installed' = refresh[r].answer
  /\ window' = [q \in Requests |->
                  IF window[q] = {} THEN {} ELSE window[q] \cup {installed'}]
  /\ refresh' = [refresh EXCEPT ![r] = At("updated")]
  /\ UNCHANGED <<published, stopping, request, allowCustom>>

KeepOnEmpty(r) ==
  /\ refresh[r].pc = "answered"
  /\ Filtered(published[refresh[r].answer]) = {}
  /\ refresh' = [refresh EXCEPT ![r] = At("kept")]
  /\ UNCHANGED <<published, installed, stopping, requestVars, allowCustom>>

(* No or a bad answer: the status, the body, a timeout, a context that is  *)
(* done (of the program, or of the manual call).                           *)
FetchFailsForGood(r) ==   \* mutant of FetchFails: the scheduler gives up
  /\ refresh[r].pc = "fetching"
  /\ refresh' = [refresh EXCEPT ![r] = At(IF r = "auto" THEN "off" ELSE "failed")]
  /\ UNCHANGED <<published, installed, stopping, requestVars, allowCustom>>

FetchFails(r) ==
  /\ refresh[r].pc = "fetching"
  /\ refresh' = [refresh EXCEPT ![r] = At("failed")]
  /\ UNCHANGED <<published, installed, stopping, requestVars, allowCustom>>

(* StartAutoFetcher waits for the next time of its schedule or the end of  *)
(* the program; RefreshModels has answered, and a later call may come.     *)
Ended == {"updated", "kept", "failed"}

TimerFires == refresh["auto"].pc \in Ended /\ StartFetch("auto")

StopAfterSuccess ==   \* mutant of StopWhenIdle
  /\ stopping
  /\ refresh["auto"].pc = "updated"
  /\ refresh' = [refresh EXCEPT !["auto"] = At("stopped")]
  /\ UNCHANGED <<published, installed, stopping, requestVars, allowCustom>>

StopWhenIdle ==
  /\ stopping
  /\ refresh["auto"].pc \in Ended
  /\ refresh' = [refresh EXCEPT !["auto"] = At("stopped")]
  /\ UNCHANGED <<published, installed, stopping, requestVars, allowCustom>>

RefreshModels(m) == refresh[m].pc \in Ended \cup {"idle"} /\ StartFetch(m)

Signal ==
  /\ ~stopping
  /\ stopping' = TRUE
  /\ UNCHANGED <<published, installed, refresh, requestVars, allowCustom>>

-----------------------------------------------------------------------------
(* A generation request.  Each step reads the catalog once.                *)

Advance(q, pc, body) ==
  request' = [request EXCEPT ![q] = [pc |-> pc, want |-> @.want, body |-> body]]

(* validateModelName.                                                      *)
Validate(q) ==
  LET known == request[q].want.model \in DOMAIN CatalogOf(installed) IN
  /\ request[q].pc = "new"
  /\ Advance(q, IF known \/ allowCustom THEN "checked" ELSE "refused", NoBody)
  /\ window' = [window EXCEPT ![q] = IF known \/ allowCustom THEN {installed} ELSE {}]
  /\ UNCHANGED <<refreshVars, allowCustom>>

(* The handler converts the request: the Gemini one sanitises the safety   *)
(* setting, the Anthropic one asks for the lowest level.                   *)
Convert(q) ==
  LET want  == request[q].want
      entry == EntryOf(installed, want.model)
      level == IF want.level = Lowest THEN LowestLevel(entry.levels) ELSE want.level
  IN
  /\ request[q].pc = "checked"
  /\ Advance(q, "converted",
             [level |-> level, budget |-> want.budget, modalities |-> want.modalities,
              threshold |-> SanitizedThreshold(want.threshold, entry.thresholds)])
  /\ UNCHANGED <<window, refreshVars, allowCustom>>

(* sanitizeThinkingConfig.                                                 *)
SanitizeThinking(q) ==
  LET body   == request[q].body
      family == Family[request[q].want.model]
      levels == EntryOf(installed, request[q].want.model).levels
      level  == IF family = "gemini-3" THEN SanitizedLevel(body.level, levels) ELSE Absent
      budget == /\ body.budget
                /\ family # "other"
                /\ ~(family = "gemini-3" /\ body.level # Absent)
  IN
  /\ request[q].pc = "converted"
  /\ Advance(q, "leveled", [body EXCEPT !.level = level, !.budget = budget])
  /\ UNCHANGED <<window, refreshVars, allowCustom>>

SanitizeModalities(q) ==
  LET body    == request[q].body
      allowed == EntryOf(installed, request[q].want.model).modalities
  IN
  /\ request[q].pc = "leveled"
  /\ Advance(q, "sent",
             [body EXCEPT !.modalities = SanitizedModalities(body.modalities, allowed)])
  /\ UNCHANGED <<window, refreshVars, allowCustom>>

(* The window of a request that was sent is not extended any more.         *)
Finish(q) ==
  /\ request[q].pc \in {"sent", "refused"}
  /\ \E want \in Wants : request' = [request EXCEPT ![q] = [pc |-> "new", want |-> want, body |-> NoBody]]
  /\ window' = [window EXCEPT ![q] = {}]
  /\ UNCHANGED <<refreshVars, allowCustom>>

-----------------------------------------------------------------------------
Scheduler ==
  \/ UpstreamAnswers("auto") \/ Install("auto") \/ KeepOnEmpty("auto")
  \/ FetchFails("auto") \/ TimerFires

Next ==
  \/ Publish \/ Signal \/ TimerFires \/ StopWhenIdle
  \/ \E r \in Refreshers :
       UpstreamAnswers(r) \/ Install(r) \/ KeepOnEmpty(r) \/ FetchFails(r)
  \/ \E m \in Manual : RefreshModels(m)
  \/ \E q \in Requests :
       \/ Validate(q) \/ Convert(q) \/ SanitizeThinking(q) \/ SanitizeModalities(q)
       \/ Finish(q)

(* The scheduler's goroutine runs, its fetch has a timeout and the timer   *)
(* fires.  Strong fairness of stopping: select picks at random between a   *)
(* context that is done and a timer that has fired.                        *)
Fairness == WF_vars(Scheduler) /\ SF_vars(StopWhenIdle)

Spec == Init /\ [][Next]_vars /\ Fairness

-----------------------------------------------------------------------------
(* Properties.                                                             *)

(* Whatever the upstream answers, the catalog in memory has a model: a     *)
(* failed or empty fetch keeps the last usable one (README.md:184).        *)
CatalogIsUsable == DOMAIN CatalogOf(installed) # {}

(* A refresh can install an older list than another one did in between,    *)
(* but never one older than what was in memory when it began: a refresh    *)
(* that follows another is not undone by a late answer of its own.         *)
InstallIsRecent ==
  [][installed' # installed =>
       \E r \in Refreshers :
         /\ refresh[r].pc = "answered" /\ refresh'[r].pc = "updated"
         /\ installed' = refresh[r].answer
         /\ installed' >= refresh[r].began]_vars

(* A body that was sent fits what the model published in some catalog      *)
(* between the check of its name and its completion, for each question     *)
(* apart: the model was known, a level is one it takes, or the nearest     *)
(* above the one asked for, an image is asked for if it makes images, and  *)
(* never of a model that does not, and a threshold it has only under the   *)
(* other name is not sent.                                                 *)
IsNearest(level, want, levels) ==
  /\ level \in levels
  /\ \/ level >= want /\ \A l \in levels : want <= l => level <= l
     \/ level < want /\ \A l \in levels : l <= level

LevelFits(level, want, levels) ==
  \/ level = Absent
  \/ level = want /\ (levels = {} \/ want \notin Levels)
  \/ want = Lowest /\ (levels = {} \/ level \in levels)
  \/ want \in Levels /\ IsNearest(level, want, levels)

ModalitiesFit(sent, want, allowed) ==
  \/ sent = Unset /\ want = Unset /\ "IMAGE" \notin allowed
  \/ /\ sent # {} /\ sent \subseteq allowed
     /\ "IMAGE" \in allowed => "IMAGE" \in sent

ThresholdFits(sent, allowed) ==
  sent \in {"BLOCK_NONE", "OFF"} =>
    sent \in allowed \/ {"BLOCK_NONE", "OFF"} \cap allowed = {}

(* What the model of a request published, at some time of its window.      *)
Offers(q) == {EntryOf(v, request[q].want.model) : v \in window[q]}

WasKnown(q) ==
  allowCustom \/ \E v \in window[q] : request[q].want.model \in DOMAIN CatalogOf(v)
LevelWasFit(q) ==
  \E e \in Offers(q) : LevelFits(request[q].body.level, request[q].want.level, e.levels)
ModalitiesWereFit(q) ==
  \E e \in Offers(q) :
    ModalitiesFit(request[q].body.modalities, request[q].want.modalities, e.modalities)
ThresholdWasFit(q) ==
  \E e \in Offers(q) : ThresholdFits(request[q].body.threshold, e.thresholds)

BodyFits ==
  \A q \in Requests : request[q].pc = "sent" =>
    WasKnown(q) /\ LevelWasFit(q) /\ ModalitiesWereFit(q) /\ ThresholdWasFit(q)

(* The scheduler goes on after failed, empty and successful fetches.       *)
ScheduleGoesOn ==
  (refresh["auto"].pc # "off" /\ []~stopping) => []<>(refresh["auto"].pc = "fetching")

(* After the signal the scheduler's goroutine ends.                        *)
SchedulerStops ==
  stopping /\ refresh["auto"].pc # "off" ~> refresh["auto"].pc \in {"stopped", "off"}
=============================================================================
