--------------------------- MODULE FunctionHistory ---------------------------
(***************************************************************************)
(* The conversation of a request as the upstream gets it: the messages of  *)
(* a Chat request become turns (convertMessages in src/handler/chat.go),   *)
(* and the calls and responses of the turns are matched and repaired       *)
(* (normalizeContents in src/proxy/vertex.go), because clients lose some   *)
(* of them and the upstream refuses turns whose numbers differ.            *)
(*                                                                         *)
(* A message is a record of its role, its text ("none", "blank" or         *)
(* "text"), the calls of an assistant and the id and name of a tool's      *)
(* result; "" is a missing id or name.  Names of functions do not begin    *)
(* with "call_".  A part remembers in from the message it was made of.     *)
(* Arguments, results, media, reasoning and signatures are data; of the    *)
(* roles only the four of the API are looked at.                           *)
(***************************************************************************)
EXTENDS Integers, Subsequences, SequencesExt, FiniteSetsExt, TLC

CONSTANT PrefixedIds        \* the ids that begin with "call_"

ChatMessages ==
  [role : {"system", "user", "assistant", "tool"}, text : {"none", "blank", "text"},
   calls : Seq([id : STRING, name : STRING]), id : STRING, name : STRING]

Part(kind, from, id, name) == [kind |-> kind, from |-> from, id |-> id, name |-> name]

CallsIn(messages) == FlattenSeq([k \in DOMAIN messages |-> messages[k].calls])

LastNameOr(calls, places, otherwise) ==
  IF places = {} THEN otherwise ELSE calls[Max(places)].name

(* toolCallNames: an id used several times means the last call before the  *)
(* result; an id only seen later means the last one that names it.         *)
ToolCallName(messages, k, id) ==
  LET before == CallsIn(SubSeq(messages, 1, k - 1))
      all    == CallsIn(messages)
      named  == {i \in DOMAIN all : all[i].id = id /\ all[i].name # ""}
  IN  LastNameOr(before, {i \in DOMAIN before : before[i].id = id}, LastNameOr(all, named, ""))

LastModelFunctionName(messages, k) ==
  LET before == CallsIn(SubSeq(messages, 1, k - 1))
  IN  LastNameOr(before, {i \in DOMAIN before : before[i].name # ""}, "")

Unresolved(name) == name = "" \/ name \in PrefixedIds

(* The function whose result message k is: its own name, that of its call, *)
(* its id if that can be a name, or else the function called last.         *)
ResultName(messages, k) ==
  LET m      == messages[k]
      called == IF m.name = "" /\ m.id # "" THEN ToolCallName(messages, k, m.id) ELSE m.name
      name   == IF called = "" /\ m.id \notin PrefixedIds THEN m.id ELSE called
      last   == LastModelFunctionName(messages, k)
  IN  IF Unresolved(name) /\ last # "" THEN last ELSE name

(* A result without a function becomes a text.                             *)
MessageParts(messages, k) ==
  LET m    == messages[k]
      name == ResultName(messages, k)
      text == IF m.text = "none" THEN <<>> ELSE <<Part(m.text, k, "", "")>>
  IN  CASE m.role = "system" -> <<>>
        [] m.role = "tool" ->
             IF Unresolved(name) THEN <<Part("text", k, "", "")>>
             ELSE <<Part("response", k, m.id, name)>>
        [] OTHER ->
             text \o [j \in DOMAIN m.calls |-> Part("call", k, m.calls[j].id, m.calls[j].name)]

RoleOf(m) == IF m.role = "assistant" THEN "model" ELSE "user"

AppendTurnInFront(contents, role, parts) ==   \* mutant of AppendTurn
  CASE parts = <<>> -> contents
    [] parts # <<>> /\ contents # <<>> /\ Last(contents).role = role ->
         [contents EXCEPT ![Len(contents)].parts = parts \o @]
    [] OTHER -> Append(contents, [role |-> role, parts |-> parts])

AppendTurn(contents, role, parts) ==
  CASE parts = <<>> -> contents
    [] parts # <<>> /\ contents # <<>> /\ Last(contents).role = role ->
         [contents EXCEPT ![Len(contents)].parts = @ \o parts]
    [] OTHER -> Append(contents, [role |-> role, parts |-> parts])

ConvertMessages(messages) ==
  LET contents[k \in 0 .. Len(messages)] ==
        IF k = 0 THEN <<>>
        ELSE AppendTurn(contents[k - 1], RoleOf(messages[k]), MessageParts(messages, k))
  IN  contents[Len(messages)]

-----------------------------------------------------------------------------
(* Matching the calls of a turn with the responses of the next.            *)

PlacesOf(parts, kind) == {i \in DOMAIN parts : parts[i].kind = kind}

PartIndices(parts, kind) == ItemsAt([i \in DOMAIN parts |-> i], PlacesOf(parts, kind))

Collect(parts, kind) == ItemsAt(parts, PlacesOf(parts, kind))

FirstOf(S) == IF S = {} THEN 0 ELSE Min(S)

ResponseByName(call, responses, used) ==   \* mutant of ResponseFor: names before ids
  LET free   == DOMAIN responses \ used
      byId   == {j \in free : call.id # "" /\ responses[j].id = call.id}
      byName == {j \in free : call.name # "" /\ responses[j].name = call.name}
  IN  IF byName # {} THEN Min(byName) ELSE FirstOf(byId)

(* The response a call gets, or 0: by id, by name, or both have neither.   *)
ResponseFor(call, responses, used) ==
  LET free   == DOMAIN responses \ used
      byId   == {j \in free : call.id # "" /\ responses[j].id = call.id}
      byName == {j \in free : call.name # "" /\ responses[j].name = call.name}
      bare   == {j \in free : /\ call.id = "" /\ call.name = ""
                              /\ responses[j].id = "" /\ responses[j].name = ""}
  IN  IF byId # {} THEN Min(byId) ELSE FirstOf(IF byName # {} THEN byName ELSE bare)

(* The pairs of a call's and a response's index, in the order of calls.    *)
AddPair(pairs, i, calls, responses) ==
  LET j == ResponseFor(calls[i], responses, {pairs[n][2] : n \in DOMAIN pairs})
  IN  IF j = 0 THEN pairs ELSE Append(pairs, <<i, j>>)

MatchFunctionHistoryParts(calls, responses) ==
  LET pairs[i \in 0 .. Len(calls)] ==
        IF i = 0 THEN <<>> ELSE AddPair(pairs[i - 1], i, calls, responses)
  IN  pairs[Len(calls)]

AlignedByNumber(calls, responses, pairs) ==   \* mutant of AlreadyAligned
  Len(pairs) = Len(calls) /\ Len(pairs) = Len(responses)

AlreadyAligned(calls, responses, pairs) ==
  /\ Len(pairs) = Len(calls) /\ Len(pairs) = Len(responses)
  /\ \A n \in DOMAIN pairs : pairs[n] = <<n, n>>

(* The id both parts of a pair get.                                        *)
GeneratedId(turn, partIndex) ==
  "call_vertex2api_" \o ToString(turn - 1) \o "_" \o ToString(partIndex - 1)

PairId(turn, partIndex, call, response) ==
  CASE call.id # ""                       -> call.id
    [] call.id = "" /\ response.id # ""   -> response.id
    [] OTHER -> GeneratedId(turn, partIndex)

(* The parts at the given positions get ids, if the model asks for them.   *)
SetIds(parts, places, ids, callIDs) ==
  [i \in DOMAIN parts |->
     LET n == FirstOf({k \in DOMAIN places : places[k] = i})
     IN  IF ~callIDs \/ n = 0 THEN parts[i] ELSE [parts[i] EXCEPT !.id = ids[n]]]

(* The parts of a call turn and of the turn after it, for the given pairs. *)
RepairedFor(pairs, turn, model, user, callIDs) ==
  LET callsAt   == PartIndices(model, "call")
      answersAt == PartIndices(user, "response")
      callAt    == [n \in DOMAIN pairs |-> callsAt[pairs[n][1]]]
      answerAt  == [n \in DOMAIN pairs |-> answersAt[pairs[n][2]]]
      ids       == [n \in DOMAIN pairs |->
                      PairId(turn, callAt[n], model[callAt[n]], user[answerAt[n]])]
      newModel  == SetIds(model, callAt, ids, callIDs)
      newUser   == SetIds(user, answerAt, ids, callIDs)
      stay      == {i \in DOMAIN model : model[i].kind = "call" => \E n \in DOMAIN pairs : callAt[n] = i}
  IN  IF AlreadyAligned(Collect(model, "call"), Collect(user, "response"), pairs)
        THEN [calls |-> newModel, responses |-> newUser]
        ELSE [ calls     |-> ItemsAt(newModel, stay),
               responses |-> ItemsAt(newUser, DOMAIN user \ PlacesOf(user, "response"))
                               \o [n \in DOMAIN pairs |-> newUser[answerAt[n]]] ]

(* The turns of one match are disjoint from those of the next, so the loop *)
(* over the turns is a map.                                                *)
Repaired(contents, turn, callIDs) ==
  LET model == contents[turn].parts
      user  == contents[turn + 1].parts
  IN  RepairedFor(MatchFunctionHistoryParts(Collect(model, "call"), Collect(user, "response")),
                  turn, model, user, callIDs)

HasPart(turn, kind) == \E i \in DOMAIN turn.parts : turn.parts[i].kind = kind

(* Only where the client sent a response at all.                           *)
IsCallTurn(contents, turn) ==
  /\ turn \in 1 .. Len(contents) - 1
  /\ contents[turn].role = "model" /\ HasPart(contents[turn], "call")
  /\ contents[turn + 1].role = "user" /\ HasPart(contents[turn + 1], "response")

ContentTurnHasContent(turn) == \E i \in DOMAIN turn.parts : turn.parts[i].kind # "blank"

RepairTurns(contents, callIDs) ==
  [t \in DOMAIN contents |->
     [contents[t] EXCEPT !.parts =
        CASE IsCallTurn(contents, t) -> Repaired(contents, t, callIDs).calls
          [] IsCallTurn(contents, t - 1) -> Repaired(contents, t - 1, callIDs).responses
          [] OTHER -> @]]

ReconcileFunctionCallHistory(contents, callIDs) ==
  LET repaired == RepairTurns(contents, callIDs)
  IN  ItemsAt(repaired, {t \in DOMAIN repaired : ContentTurnHasContent(repaired[t])})

-----------------------------------------------------------------------------
(* The turns up to the last of the wanted ones.                            *)
DropTrailing(contents, wanted) == SubSeq(contents, 1, Max({0} \cup wanted))

TrimTrailingEmptyModelTurns(contents) ==
  DropTrailing(contents, {t \in DOMAIN contents : contents[t].role # "model"
                                                  \/ ContentTurnHasContent(contents[t])})

TrimTrailingEmptyTurns(contents) ==
  DropTrailing(contents, {t \in DOMAIN contents : ContentTurnHasContent(contents[t])})

DropTrailingModelPrefill(contents) ==
  DropTrailing(contents, {t \in DOMAIN contents : contents[t].role # "model"})

(* What a model asks for: its last turn is a user's, pairs have ids.       *)
ModelKinds == { [trailingUser |-> FALSE, callIDs |-> FALSE],
                [trailingUser |-> TRUE,  callIDs |-> FALSE],
                [trailingUser |-> TRUE,  callIDs |-> TRUE] }

(* The turns for the upstream; none is an error.                           *)
NormalizeContents(kind, contents) ==
  LET repaired == TrimTrailingEmptyModelTurns(
                    ReconcileFunctionCallHistory(contents, kind.callIDs))
  IN  IF kind.trailingUser THEN DropTrailingModelPrefill(TrimTrailingEmptyTurns(repaired))
      ELSE repaired

-----------------------------------------------------------------------------
(* What is promised of it.                                                 *)

Answers(response, call) ==
  \/ call.id # "" /\ response.id = call.id
  \/ call.name # "" /\ response.name = call.name
  \/ call.id = "" /\ call.name = "" /\ response.id = "" /\ response.name = ""

Ids(parts) == {parts[i].id : i \in DOMAIN parts}

DistinctIds(parts) == "" \notin Ids(parts) /\ Cardinality(Ids(parts)) = Len(parts)

(* Calls that met a response turn have exactly their responses there, in   *)
(* the order of the calls, under a common id where the model asks for one. *)
PairsMatch(kind, contents, repaired) ==
  \A t \in DOMAIN contents : IsCallTurn(contents, t) =>
    LET calls     == Collect(repaired[t].parts, "call")
        responses == Collect(repaired[t + 1].parts, "response")
    IN  /\ Len(calls) = Len(responses)
        /\ \A n \in DOMAIN calls :
             /\ Answers(responses[n], calls[n])
             /\ kind.callIDs => calls[n].id # "" /\ responses[n].id = calls[n].id

(* A turn whose calls all have their response, in any order, keeps all of  *)
(* them, each with the response of its id.                                 *)
CompleteTurnsAreKept(contents, repaired) ==
  \A t \in DOMAIN contents : IsCallTurn(contents, t) =>
    LET before    == Collect(contents[t].parts, "call")
        given     == Collect(contents[t + 1].parts, "response")
        responses == Collect(repaired[t + 1].parts, "response")
    IN  DistinctIds(before) /\ DistinctIds(given) /\ Ids(before) = Ids(given)
          => /\ repaired[t].parts = contents[t].parts
             /\ [n \in DOMAIN responses |-> responses[n].id]
                  = [n \in DOMAIN before |-> before[n].id]

(* A call that was answered under its id is kept, even if others of its    *)
(* turn were not.                                                          *)
AnsweredCallsAreKept(contents, repaired) ==
  \A t \in DOMAIN contents : IsCallTurn(contents, t) =>
    LET before == Collect(contents[t].parts, "call")
        given  == Collect(contents[t + 1].parts, "response")
    IN  DistinctIds(before) /\ DistinctIds(given) /\ Ids(given) \subseteq Ids(before)
          => Ids(Collect(repaired[t].parts, "call")) = Ids(given)

OriginsOf(contents, role, kinds) ==
  UNION {{p.from : p \in {q \in ToSet(contents[t].parts) : q.kind \in kinds}} :
           t \in {u \in DOMAIN contents : contents[u].role = role}}

(* Texts go to the upstream in the order of the messages.  Only what the   *)
(* assistant said last is left out, and only for models that cannot go on  *)
(* from it: nothing a user or a tool said comes after it.                  *)
TextIsKept(kind, contents, sent) ==
  LET texts == FlattenSeq([t \in DOMAIN sent |-> Collect(sent[t].parts, "text")])
      lost  == OriginsOf(contents, "model", {"text"}) \ OriginsOf(sent, "model", {"text"})
  IN  /\ OriginsOf(sent, "user", {"text"}) = OriginsOf(contents, "user", {"text"})
      /\ \A m, n \in DOMAIN texts : m < n => texts[m].from < texts[n].from
      /\ lost # {} => kind.trailingUser
      /\ \A k \in lost, u \in OriginsOf(sent, "user", {"text", "response"}) : u < k
=============================================================================
