--------------------------- MODULE AnthropicStream ---------------------------
(***************************************************************************)
(* A streaming Anthropic Messages request (src/handler/anthropic.go): the  *)
(* signature fallback that may start the upstream request over, the state  *)
(* machine that turns upstream chunks into content blocks, and the client  *)
(* that reads the events.                                                  *)
(*                                                                         *)
(* The handler works out the events of a chunk in one step and then writes *)
(* them one at a time, so that the client can go away between any two.     *)
(* A chunk has one content block or none; one with several is the same as  *)
(* several chunks in a row.  Text is a sequence over a small alphabet,     *)
(* because anthropicTextDelta compares what comes with what it has seen.   *)
(***************************************************************************)
EXTENDS Integers, Sequences, SequencesExt

CONSTANTS
  Letters,
  MaxText,      \* bound of the text of one upstream block
  MaxBlocks     \* bound of the content blocks sent

ASSUME StreamAssumption == MaxText \in Nat /\ MaxBlocks \in Nat

VARIABLES
  pc,                 \* "stream" waits for the upstream; the others write
  stage,              \* stage of the signature fallback
  emitted,            \* a chunk of this stage reached the handler
  committed,          \* message_start has been written
  nextIndex, openTextIndex, openThinkingIndex,
  seenText, seenThinking, emittedSignature,
  todo,               \* events worked out and not yet written
  canceled,           \* the context of the request is done
  client,             \* what the client has understood
  shown,              \* history: the text the client has of its open block
  upstream            \* the answer to this stage's request: whether its chunks
                      \*   are cumulative (each repeats the text of its block so
                      \*   far) and, history, its current block and its text

blockVars == <<nextIndex, openTextIndex, openThinkingIndex,
               seenText, seenThinking, emittedSignature>>
vars == <<pc, stage, emitted, committed, blockVars, todo, canceled,
          client, shown, upstream>>

NoBlock == -1
Texts == UNION {[1 .. n -> Letters] : n \in 0 .. MaxText}
Indices == NoBlock .. MaxBlocks
BlockKinds == {"text", "thinking", "tool_use"}

-----------------------------------------------------------------------------
(* The client: the order of events the Messages streaming protocol allows. *)

Event(type, kind, index, text) ==
  [type |-> type, kind |-> kind, index |-> index, text |-> text]

Marker(type) == Event(type, "none", NoBlock, << >>)

Silent == [phase |-> "silent", open |-> NoBlock, kind |-> "none", next |-> 0]

Legal(c, e) ==
  CASE e.type = "message_start" -> c.phase = "silent"
    [] e.type = "http_error"    -> c.phase = "silent"
    [] e.type = "error"         -> c.phase = "message"
    [] e.type = "content_block_start" ->
         c.phase = "message" /\ c.open = NoBlock /\ e.index = c.next
    [] e.type \in {"content_block_delta", "content_block_stop"} ->
         c.phase = "message" /\ c.open = e.index /\ c.open # NoBlock /\ c.kind = e.kind
    [] e.type = "message_delta" -> c.phase = "message" /\ c.open = NoBlock
    [] e.type = "message_stop"  -> c.phase = "closing"

Understood(c, e) ==
  CASE e.type = "message_start" -> [c EXCEPT !.phase = "message"]
    [] e.type \in {"http_error", "error"} -> [c EXCEPT !.phase = "failed"]
    [] e.type = "content_block_start" ->
         [c EXCEPT !.open = e.index, !.kind = e.kind, !.next = @ + 1]
    [] e.type = "content_block_delta" -> c
    [] e.type = "content_block_stop" -> [c EXCEPT !.open = NoBlock, !.kind = "none"]
    [] e.type = "message_delta" -> [c EXCEPT !.phase = "closing"]
    [] e.type = "message_stop"  -> [c EXCEPT !.phase = "complete"]

Receive(c, e) == IF Legal(c, e) THEN Understood(c, e) ELSE [c EXCEPT !.phase = "broken"]

-----------------------------------------------------------------------------
(* A request the upstream has not begun to answer.                         *)
Unanswered == [kind : {"none"}, text : {<< >>}, cumulative : BOOLEAN]

Init ==
  /\ pc = "stream" /\ stage = 0 /\ emitted = FALSE /\ committed = FALSE
  /\ nextIndex = 0 /\ openTextIndex = NoBlock /\ openThinkingIndex = NoBlock
  /\ seenText = << >> /\ seenThinking = << >> /\ emittedSignature = FALSE
  /\ todo = << >> /\ canceled = FALSE
  /\ client = Silent /\ shown = << >>
  /\ upstream \in Unanswered

TypeOK ==
  /\ pc \in {"stream", "chunk", "finish", "error", "done"}
  /\ stage \in 0 .. 2
  /\ {emitted, committed, emittedSignature, canceled} \subseteq BOOLEAN
  /\ nextIndex \in 0 .. MaxBlocks
  /\ {openTextIndex, openThinkingIndex} \subseteq Indices
  /\ {seenText, seenThinking, shown, upstream.text} \subseteq Texts
  /\ \A i \in DOMAIN todo : todo[i].text \in Texts /\ todo[i].index \in Indices
  /\ client.open \in Indices /\ client.next \in 0 .. MaxBlocks

-----------------------------------------------------------------------------
(* anthropicTextDelta(seen, incoming): what is new and what has been seen. *)
AnthropicTextDelta(seen, incoming) ==
  IF IsPrefix(seen, incoming)
    THEN [delta |-> SubSeq(incoming, Len(seen) + 1, Len(incoming)), seen |-> incoming]
  ELSE IF IsPrefix(incoming, seen)
    THEN [delta |-> << >>, seen |-> seen]
    ELSE [delta |-> incoming, seen |-> seen \o incoming]

(* closeOpenBlocks: at most one event per kind, thinking first.            *)
CloseEventsText ==   \* mutant of CloseEvents: an open thinking block stays open
  IF openTextIndex # NoBlock
    THEN << Event("content_block_stop", "text", openTextIndex, << >>) >>
    ELSE << >>

CloseEvents ==
  (IF openThinkingIndex # NoBlock
     THEN << Event("content_block_stop", "thinking", openThinkingIndex, << >>) >>
     ELSE << >>)
  \o (IF openTextIndex # NoBlock
        THEN << Event("content_block_stop", "text", openTextIndex, << >>) >>
        ELSE << >>)

(* ... and what it leaves: the state of a block that was open is reset.    *)
CloseBlocksKeepSeen ==   \* mutant of CloseBlocks
  /\ openThinkingIndex' = NoBlock /\ openTextIndex' = NoBlock
  /\ UNCHANGED <<seenThinking, seenText, emittedSignature>>

CloseBlocks ==
  /\ openThinkingIndex' = NoBlock /\ openTextIndex' = NoBlock
  /\ IF openThinkingIndex # NoBlock
       THEN seenThinking' = << >> /\ emittedSignature' = FALSE
       ELSE UNCHANGED <<seenThinking, emittedSignature>>
  /\ IF openTextIndex # NoBlock THEN seenText' = << >> ELSE UNCHANGED seenText

CommitEvents == IF committed THEN << >> ELSE << Marker("message_start") >>

(* A chunk that is not empty is handed to the handler.                     *)
Chunk(events) ==
  /\ pc = "stream" /\ ~canceled
  /\ emitted' = TRUE
  /\ todo' = CommitEvents \o events
  /\ pc' = "chunk"
  /\ UNCHANGED <<stage, committed, canceled, client, shown>>

(* The upstream's own view: a part continues the block of the same kind.   *)
Continues(kind, text) ==
  upstream' = [upstream EXCEPT
    !.kind = kind,
    !.text = IF upstream.kind = kind THEN @ \o text ELSE text]

(* The text of the chunk that brings `new` more text of a block.           *)
Incoming(kind, new) ==
  IF upstream.cumulative /\ upstream.kind = kind THEN upstream.text \o new ELSE new

MetadataChunk == Chunk(<< >>) /\ UNCHANGED <<blockVars, upstream>>

ToolUseChunk ==
  LET i == nextIndex IN
  /\ i < MaxBlocks
  /\ Chunk(CloseEvents
            \o << Event("content_block_start", "tool_use", i, << >>),
                  Event("content_block_delta", "tool_use", i, << >>),
                  Event("content_block_stop", "tool_use", i, << >>) >>)
  /\ nextIndex' = i + 1
  /\ CloseBlocks
  /\ upstream' = [upstream EXCEPT !.kind = "tool_use", !.text = << >>]

(* writeThinkingDelta(thinking, signature).                                *)
ThinkingChunk(new, signature) ==
  LET read   == AnthropicTextDelta(seenThinking, Incoming("thinking", new))
      sign   == signature /\ ~emittedSignature
      opens  == openThinkingIndex = NoBlock
      index  == IF opens THEN nextIndex ELSE openThinkingIndex
  IN
  /\ Continues("thinking", new)
  /\ seenThinking' = read.seen
  /\ IF read.delta = << >> /\ ~sign
       THEN /\ Chunk(<< >>)
            /\ UNCHANGED <<nextIndex, openTextIndex, openThinkingIndex,
                           seenText, emittedSignature>>
       ELSE /\ index < MaxBlocks
            /\ Chunk((IF openTextIndex # NoBlock THEN CloseEvents ELSE << >>)
                 \o (IF opens
                       THEN << Event("content_block_start", "thinking", index, << >>) >>
                       ELSE << >>)
                 \o (IF read.delta # << >>
                       THEN << Event("content_block_delta", "thinking", index, read.delta) >>
                       ELSE << >>)
                 \o (IF sign
                       THEN << Event("content_block_delta", "thinking", index, << >>) >>
                       ELSE << >>))
            /\ openTextIndex' = NoBlock
            /\ seenText' = IF openTextIndex # NoBlock THEN << >> ELSE seenText
            /\ openThinkingIndex' = index
            /\ nextIndex' = IF opens THEN nextIndex + 1 ELSE nextIndex
            /\ emittedSignature' = (emittedSignature \/ sign)

(* writeTextDelta(text).                                                   *)
TextChunk(new) ==
  LET read  == AnthropicTextDelta(seenText, Incoming("text", new))
      opens == openTextIndex = NoBlock
      index == IF opens THEN nextIndex ELSE openTextIndex
  IN
  /\ Continues("text", new)
  /\ seenText' = read.seen
  /\ IF read.delta = << >>
       THEN /\ Chunk(<< >>)
            /\ UNCHANGED <<nextIndex, openTextIndex, openThinkingIndex,
                           seenThinking, emittedSignature>>
       ELSE /\ index < MaxBlocks
            /\ Chunk((IF openThinkingIndex # NoBlock THEN CloseEvents ELSE << >>)
                 \o (IF opens
                       THEN << Event("content_block_start", "text", index, << >>) >>
                       ELSE << >>)
                 \o << Event("content_block_delta", "text", index, read.delta) >>)
            /\ openThinkingIndex' = NoBlock
            /\ seenThinking' = IF openThinkingIndex # NoBlock THEN << >> ELSE seenThinking
            /\ emittedSignature' = (openThinkingIndex = NoBlock /\ emittedSignature)
            /\ openTextIndex' = index
            /\ nextIndex' = IF opens THEN nextIndex + 1 ELSE nextIndex

(* The parts an upstream chunk can bring; empty text comes only with a     *)
(* signature, or as the repetition of a cumulative upstream.               *)
NewTexts(kind) ==
  {t \in Texts : Len(t) + (IF upstream.kind = kind THEN Len(upstream.text) ELSE 0)
                   <= MaxText}

UpstreamChunk ==
  \/ MetadataChunk
  \/ ToolUseChunk
  \/ \E t \in NewTexts("thinking"), sig \in BOOLEAN :
       /\ sig \/ Incoming("thinking", t) # << >>
       /\ ThinkingChunk(t, sig)
  \/ \E t \in NewTexts("text") :
       /\ Incoming("text", t) # << >>
       /\ TextChunk(t)

-----------------------------------------------------------------------------
(* The upstream request of the stage ends.                                 *)

UpstreamEnds ==
  /\ pc = "stream" /\ ~canceled
  /\ pc' = "finish"
  /\ todo' = CommitEvents \o CloseEvents
               \o << Marker("message_delta"), Marker("message_stop") >>
  /\ CloseBlocks
  /\ UNCHANGED <<stage, emitted, committed, nextIndex, canceled, client, shown, upstream>>

(* streamAnthropicWithSignatureFallback: downgrade the history and start   *)
(* over, unless a chunk of this stage was handed on.  The next stage gets  *)
(* an answer of its own, and onChunk with its state is the same.           *)
StartOver ==
  /\ pc = "stream" /\ ~canceled /\ stage < 2
  /\ stage' = stage + 1
  /\ emitted' = FALSE
  /\ upstream' \in Unanswered
  /\ UNCHANGED <<pc, committed, blockVars, todo, canceled, client, shown>>

SignatureFallbackAlways == StartOver   \* mutant of SignatureFallback

SignatureFallback == ~emitted /\ StartOver

UpstreamFails ==
  /\ pc = "stream" /\ ~canceled
  /\ pc' = "error"
  /\ todo' = << Marker(IF committed THEN "error" ELSE "http_error") >>
  /\ UNCHANGED <<stage, emitted, committed, blockVars, canceled,
                 client, shown, upstream>>

Cancel ==
  /\ pc # "done" /\ ~canceled
  /\ canceled' = TRUE
  /\ UNCHANGED <<pc, stage, emitted, committed, blockVars, todo,
                 client, shown, upstream>>

(* The upstream request returns because of the cancellation.               *)
StreamCanceled ==
  /\ pc = "stream" /\ canceled
  /\ pc' = "done"
  /\ UNCHANGED <<stage, emitted, committed, blockVars, todo, canceled,
                 client, shown, upstream>>

-----------------------------------------------------------------------------
(* Writing.  After the last event the handler waits for the next chunk or  *)
(* is done; a write that fails means the client is gone.                   *)
WriteEvent ==
  /\ todo # << >>
  /\ client' = Receive(client, Head(todo))
  /\ shown' = IF Head(todo).type = "content_block_start" THEN << >>
              ELSE shown \o Head(todo).text
  /\ committed' = (committed \/ Head(todo).type = "message_start")
  /\ todo' = Tail(todo)
  /\ UNCHANGED <<pc, stage, emitted, blockVars, canceled, upstream>>

Written ==
  /\ pc \in {"chunk", "finish", "error"} /\ todo = << >>
  /\ pc' = IF pc = "chunk" THEN "stream" ELSE "done"
  /\ UNCHANGED <<stage, emitted, committed, blockVars, todo, canceled,
                 client, shown, upstream>>

WriteFails ==
  /\ todo # << >>
  /\ pc' = "done"
  /\ todo' = << >>
  /\ UNCHANGED <<stage, emitted, committed, blockVars, canceled,
                 client, shown, upstream>>

Next ==
  \/ UpstreamChunk \/ UpstreamEnds \/ UpstreamFails \/ SignatureFallback
  \/ Cancel \/ StreamCanceled
  \/ WriteEvent \/ Written \/ WriteFails

Spec == Init /\ [][Next]_vars

-----------------------------------------------------------------------------
(* Properties.                                                             *)

(* Every event the client gets is one the protocol allows there: blocks    *)
(* are numbered from 0 without gaps, one is open at a time, its deltas     *)
(* are of its kind, all are stopped before message_delta, an error ends    *)
(* the stream, whatever order text, thinking, signatures and tools come in.*)
ClientFollows == client.phase # "broken"

(* Between chunks, the client has exactly the text the upstream has sent   *)
(* of the current block of the answer it is sending (TestAnthropicText-    *)
(* Delta, anthropic_test.go:588: cumulative chunks, repetitions and        *)
(* incremental chunks are all read).                                       *)
TextIsExact ==
  pc = "stream" /\ upstream.kind \in {"text", "thinking"} => shown = upstream.text

(* It has when the upstream's chunks are cumulative, whatever blocks there *)
(* were before: nothing is lost, repeated, or taken from an earlier block  *)
(* or, after a fallback, from the answer that was given up.                *)
CumulativeTextIsExact == upstream.cumulative => TextIsExact
=============================================================================
