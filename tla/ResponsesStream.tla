--------------------------- MODULE ResponsesStream ---------------------------
(***************************************************************************)
(* The handler of a streaming Responses request (streamResponse,           *)
(* src/handler/responses.go): thoughts become commentary messages, text    *)
(* one final message, calls and searches items of their own at the end.    *)
(* `output` holds the items as they stand; NoItem stands for the index -1  *)
(* of an item that is not open.                                            *)
(***************************************************************************)
EXTENDS Integers, StreamEmitter, SequencesExt

NoItem == -1

Item(type, parts) == [type |-> type, parts |-> parts]

Added(i, item)     == [type |-> "output_item.added", index |-> i, item |-> item]
PartAdded(i)       == [type |-> "content_part.added", index |-> i]
TextDelta(i, text) == [type |-> "output_text.delta", index |-> i, parts |-> text]
TextDone(i, text)  == [type |-> "output_text.done", index |-> i, parts |-> text]
PartDone(i, text)  == [type |-> "content_part.done", index |-> i, parts |-> text]
Done(i, item)      == [type |-> "output_item.done", index |-> i, item |-> item]

Opened(i, type)  == << Added(i, Item(type, << >>)), PartAdded(i) >>
Closed(i, item) ==
  << TextDone(i, item.parts), PartDone(i, item.parts), Done(i, item) >>

(* What is written before the upstream is asked: a compaction item of the  *)
(* request, if there is one, is the first item.                            *)
ResponsesStart(compacted) ==
  << [type |-> "created"], [type |-> "in_progress"] >>
  \o (IF compacted
        THEN << Added(0, Item("compaction", << >>)), Done(0, Item("compaction", << >>)) >>
        ELSE << >>)

ResponsesState(compacted) ==
  [aggregate |-> Nothing, revision |-> Unmeasured,
   output |-> IF compacted THEN << Item("compaction", << >>) >> ELSE << >>,
   commentary |-> NoItem, commentaryText |-> << >>,
   message |-> NoItem, messageText |-> << >>]

(* finishCommentary; index i of the code is position i + 1 of output.      *)
FinishCommentaryKeepText(s) ==   \* mutant of FinishCommentary: no Reset
  LET item == Item("commentary", s.commentaryText) IN
  IF s.commentary = NoItem THEN [state |-> s, events |-> << >>]
  ELSE [state |-> [s EXCEPT !.output[s.commentary + 1] = item, !.commentary = NoItem],
        events |-> Closed(s.commentary, item)]

FinishCommentary(s) ==
  LET item == Item("commentary", s.commentaryText) IN
  IF s.commentary = NoItem THEN [state |-> s, events |-> << >>]
  ELSE [state |-> [s EXCEPT !.output[s.commentary + 1] = item,
                            !.commentary = NoItem, !.commentaryText = << >>],
        events |-> Closed(s.commentary, item)]

(* The reasoning of a result opens a commentary item unless one is open.   *)
Reason(s, thoughts) ==
  LET opens == s.commentary = NoItem
      index == IF opens THEN Len(s.output) ELSE s.commentary
  IN
  IF thoughts = << >> THEN [state |-> s, events |-> << >>]
  ELSE [state |-> [s EXCEPT
          !.commentary = index,
          !.commentaryText = @ \o thoughts,
          !.output = IF opens THEN Append(@, Item("commentary", << >>)) ELSE @],
        events |-> (IF opens THEN Opened(index, "commentary") ELSE << >>)
                   \o << TextDelta(index, thoughts) >>]

(* Its text goes to the one final message.                                 *)
Say(s, text) ==
  LET opens == s.message = NoItem
      index == IF opens THEN Len(s.output) ELSE s.message
  IN
  IF text = << >> THEN [state |-> s, events |-> << >>]
  ELSE [state |-> [s EXCEPT
          !.message = index,
          !.messageText = @ \o text,
          !.output = IF opens THEN Append(@, Item("message", << >>)) ELSE @],
        events |-> (IF opens THEN Opened(index, "message") ELSE << >>)
                   \o << TextDelta(index, text) >>]

(* Text or a call ends the commentary.                                     *)
ResponsesResult(s, r) ==
  LET text     == OfKind(r.parts, {"text"})
      observed == [s EXCEPT !.aggregate = Accumulate(@, r), !.revision = Observe(@, r)]
      reasoned == Reason(observed, OfKind(r.parts, {"thought"}))
      finished == IF text # << >> \/ Has(r.parts, Calls)
                    THEN FinishCommentary(reasoned.state)
                    ELSE [state |-> reasoned.state, events |-> << >>]
      said     == Say(finished.state, text)
  IN
  IF IsEmpty(r) THEN [state |-> s, events |-> << >>]
  ELSE [state |-> said.state,
        events |-> reasoned.events \o finished.events \o said.events]

-----------------------------------------------------------------------------
(* dedupeResponseFunctionCalls: the first of equal calls stays.            *)
DistinctCalls(parts) ==
  LET calls == OfKind(parts, Calls)
  IN  ItemsAt(calls, {i \in DOMAIN calls : \A j \in 1 .. i - 1 : calls[j].kind # calls[i].kind})

(* buildResponseOutput decides between completed and failed.               *)
HasResponseOutput(a) == Has(a.parts, {"text", "thought"} \cup Calls) \/ a.grounding

(* An item written whole at the end: a call with its arguments, a search.  *)
WholeCall(i, call) ==
  LET item == Item("function_call", << call >>) IN
  << Added(i, item),
     [type |-> "arguments.delta", index |-> i], [type |-> "arguments.done", index |-> i],
     Done(i, item) >>

WholeSearch(i) ==
  << Added(i, Item("web_search_call", << >>)), Done(i, Item("web_search_call", << >>)) >>

FinishMessage(s) ==
  LET item == Item("message", s.messageText) IN
  IF s.message = NoItem THEN [state |-> s, events |-> << >>]
  ELSE [state |-> [s EXCEPT !.output[s.message + 1] = item],
        events |-> (IF s.aggregate.grounding
                      THEN << [type |-> "annotation.added", index |-> s.message] >>
                      ELSE << >>)
                   \o Closed(s.message, item)]

ResponsesEnd(s) ==
  LET commented == FinishCommentary(s)
      messaged  == FinishMessage(commented.state)
      calls     == DistinctCalls(s.aggregate.parts)
      base      == Len(messaged.state.output)
      searches  == IF s.aggregate.grounding THEN 1 ELSE 0
      output    == messaged.state.output
                   \o [i \in DOMAIN calls |-> Item("function_call", << calls[i] >>)]
                   \o [i \in 1 .. searches |-> Item("web_search_call", << >>)]
  IN
  commented.events \o messaged.events
  \o FlattenSeq([i \in DOMAIN calls |-> WholeCall(base + i - 1, calls[i])])
  \o (IF searches = 1 THEN WholeSearch(base + Len(calls)) ELSE << >>)
  \o << [type |-> IF HasResponseOutput(s.aggregate) THEN "completed" ELSE "failed",
         output |-> output, usage |-> CurrentMetadata(s.revision)] >>

ResponsesError == << [type |-> "error"] >>
=============================================================================
