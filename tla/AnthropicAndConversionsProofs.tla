------------------- MODULE AnthropicAndConversionsProofs -------------------
(***************************************************************************)
(* The theorems about AnthropicStream and about the conversions of a       *)
(* request and its answer.                                                 *)
(*                                                                         *)
(* For every alphabet and every bound, the client of a streaming Messages  *)
(* request gets only events the protocol allows where they come, and from  *)
(* a cumulative upstream the exact text of the block it reads.  The        *)
(* handler changes its state when it works the events of a chunk out, the  *)
(* client changes its own as they are written, one at a time: between the  *)
(* two the handler is ahead.  The invariant therefore speaks of the client *)
(* to come: what is still to be written is a legal run of events (Plays)   *)
(* from the client as it is to one that agrees with the handler.           *)
(*                                                                         *)
(* A body of any length is taken for an answer only if it is whole.  The   *)
(* decoders count no brackets, so the invariant says how many are open in  *)
(* each of their calls, and what can come there.                           *)
(*                                                                         *)
(* The promises of the token counts hold for every estimate and every set  *)
(* of counters an upstream may report, whatever the range of int; those    *)
(* of a read answer for every answer, form and cut; those of a history for *)
(* every conversation, of any length.                                      *)
(***************************************************************************)
EXTENDS AnthropicStream, Conversions, SequenceFacts

(* What a client has, and what can be written to it.                       *)
Kinds == {"none"} \cup BlockKinds

Clients == [phase : {"silent", "message", "closing", "complete", "failed"},
            open : Indices, kind : Kinds, next : 0 .. MaxBlocks]
Readers == [client : Clients, shown : Texts]

Events == [type : {"message_start", "http_error", "error", "content_block_start",
                   "content_block_delta", "content_block_stop", "message_delta",
                   "message_stop"},
           kind : Kinds, index : Indices, text : Texts]

Reader(phase, open, kind, next, text) ==
  [client |-> [phase |-> phase, open |-> open, kind |-> kind, next |-> next],
   shown |-> text]

Reads(r, e) ==
  [client |-> Understood(r.client, e),
   shown  |-> IF e.type = "content_block_start" THEN << >> ELSE r.shown \o e.text]

(* run is what the reader goes through, event by event.                    *)
Runs(run, es, r, q) ==
  /\ run[1] = r /\ run[Len(es) + 1] = q
  /\ \A i \in 1 .. Len(es) :
       Legal(run[i].client, es[i]) /\ run[i + 1] = Reads(run[i], es[i])

Plays(es, r, q) ==
  es \in Seq(Events) /\ \E run \in [1 .. Len(es) + 1 -> Readers] : Runs(run, es, r, q)

-----------------------------------------------------------------------------
(* Texts.                                                                  *)

LEMMA TextsAreSequences ==
  ASSUME NEW t PROVE t \in Texts <=> t \in Seq(Letters) /\ Len(t) <= MaxText
<1>1. ASSUME t \in Texts PROVE t \in Seq(Letters) /\ Len(t) <= MaxText
  <2>1. PICK n \in 0 .. MaxText : t \in [1 .. n -> Letters]
    BY <1>1 DEF Texts
  <2>2. t \in Seq(Letters) /\ Len(t) = n
    BY <2>1, StreamAssumption, SeqDef, LenProperties
  <2> QED BY <2>2, StreamAssumption
<1>2. ASSUME t \in Seq(Letters), Len(t) <= MaxText PROVE t \in Texts
  <2>1. t \in [1 .. Len(t) -> Letters] /\ Len(t) \in 0 .. MaxText
    BY <1>2, StreamAssumption, LenProperties
  <2> QED BY <2>1 DEF Texts
<1> QED BY <1>1, <1>2

LEMMA NoText == << >> \in Texts /\ \A t \in Texts : t \o << >> = t /\ << >> \o t = t
<1>1. << >> \in Texts
  <2>1. << >> \in Seq(Letters) /\ Len(<< >>) <= MaxText
    BY EmptySeq, StreamAssumption
  <2> QED BY <2>1, TextsAreSequences
<1>2. ASSUME NEW t \in Texts PROVE t \o << >> = t /\ << >> \o t = t
  <2>1. t \in Seq(Letters)
    BY TextsAreSequences
  <2> QED BY <2>1, ConcatEmptySeq
<1> QED BY <1>1, <1>2

-----------------------------------------------------------------------------
(* Runs of events.                                                         *)

LEMMA PlaysNone ==
  ASSUME NEW r \in Readers PROVE Plays(<< >>, r, r)
<1>1. [i \in 1 .. 1 |-> r] \in [1 .. Len(<< >>) + 1 -> Readers]
  BY EmptySeq
<1>2. Runs([i \in 1 .. 1 |-> r], << >>, r, r)
  BY EmptySeq DEF Runs
<1> QED BY <1>1, <1>2, EmptySeq DEF Plays

LEMMA PlaysTypes ==
  ASSUME NEW es, NEW r, NEW q, Plays(es, r, q)
  PROVE  es \in Seq(Events) /\ r \in Readers /\ q \in Readers /\ (es = << >> => r = q)
<1>1. es \in Seq(Events) /\ Len(es) \in Nat
  BY LenProperties DEF Plays
<1>2. PICK run \in [1 .. Len(es) + 1 -> Readers] : Runs(run, es, r, q)
  BY DEF Plays
<1>3. run[1] \in Readers /\ run[Len(es) + 1] \in Readers
  BY <1>1
<1>4. es = << >> => Len(es) + 1 = 1
  BY EmptySeq
<1> QED BY <1>1, <1>2, <1>3, <1>4 DEF Runs

LEMMA PlaysOne ==
  ASSUME NEW e \in Events, NEW r \in Readers, Legal(r.client, e), Reads(r, e) \in Readers
  PROVE  Plays(<< e >>, r, Reads(r, e))
<1> DEFINE run == [i \in 1 .. 2 |-> IF i = 1 THEN r ELSE Reads(r, e)]
<1>1. << e >> \in Seq(Events) /\ Len(<< e >>) = 1 /\ << e >>[1] = e
  OBVIOUS
<1>2. run \in [1 .. 1 + 1 -> Readers] /\ run[1] = r /\ run[1 + 1] = Reads(r, e)
  OBVIOUS
<1> HIDE DEF run
<1>3. Runs(run, << e >>, r, Reads(r, e))
  BY <1>1, <1>2 DEF Runs
<1> QED BY <1>1, <1>2, <1>3 DEF Plays

LEMMA PlaysConcat ==
  ASSUME NEW a, NEW b, NEW r, NEW q, NEW p, Plays(a, r, q), Plays(b, q, p)
  PROVE  Plays(a \o b, r, p)
<1> DEFINE m == Len(a)  n == Len(b)
<1>1. a \in Seq(Events) /\ b \in Seq(Events) /\ m \in Nat /\ n \in Nat
  BY LenProperties DEF Plays
<1>2. PICK f \in [1 .. m + 1 -> Readers] : Runs(f, a, r, q)
  BY DEF Plays
<1>3. PICK g \in [1 .. n + 1 -> Readers] : Runs(g, b, q, p)
  BY DEF Plays
<1> DEFINE h == [i \in 1 .. (m + n) + 1 |-> IF i <= m THEN f[i] ELSE g[i - m]]
<1>4. h \in [1 .. (m + n) + 1 -> Readers]
  <2>1. ASSUME NEW i \in 1 .. (m + n) + 1
        PROVE  (IF i <= m THEN f[i] ELSE g[i - m]) \in Readers
    <3>1. CASE i <= m
      BY <1>1, <3>1
    <3>2. CASE ~(i <= m)
      <4>1. i - m \in 1 .. n + 1
        BY <1>1, <3>2
      <4> QED BY <3>2, <4>1
    <3> QED BY <3>1, <3>2
  <2> QED BY <2>1
<1>5. /\ a \o b \in Seq(Events) /\ Len(a \o b) = m + n
      /\ \A i \in 1 .. m : (a \o b)[i] = a[i]
      /\ \A i \in 1 .. n : (a \o b)[m + i] = b[i]
  BY <1>1, ConcatProperties
<1>6. \A i \in 1 .. m + 1 : h[i] = f[i]
  <2> TAKE i \in 1 .. m + 1
  <2>1. CASE i <= m
    BY <2>1, <1>1
  <2>2. CASE ~(i <= m)
    <3>1. i = m + 1 /\ i - m = 1 /\ i \in 1 .. (m + n) + 1
      BY <2>2, <1>1
    <3>2. h[i] = g[1]
      BY <3>1, <2>2
    <3>3. g[1] = q /\ f[m + 1] = q
      BY <1>2, <1>3 DEF Runs
    <3> QED BY <3>1, <3>2, <3>3
  <2> QED BY <2>1, <2>2
<1>7. \A i \in 1 .. n + 1 : h[m + i] = g[i]
  BY <1>1
<1> HIDE DEF h
<1>8. Runs(h, a \o b, r, p)
  <2>1. h[1] = r
    BY <1>6, <1>2, <1>1 DEF Runs
  <2>2. h[(m + n) + 1] = p
    <3>1. (m + n) + 1 = m + (n + 1) /\ n + 1 \in 1 .. n + 1
      BY <1>1
    <3>2. h[m + (n + 1)] = g[n + 1]
      BY <3>1, <1>7
    <3> QED BY <3>1, <3>2, <1>3 DEF Runs
  <2>3. ASSUME NEW i \in 1 .. m + n
        PROVE  Legal(h[i].client, (a \o b)[i]) /\ h[i + 1] = Reads(h[i], (a \o b)[i])
    <3>1. CASE i <= m
      <4>1. i \in 1 .. m /\ i \in 1 .. m + 1 /\ i + 1 \in 1 .. m + 1
        BY <3>1, <1>1
      <4>2. h[i] = f[i] /\ h[i + 1] = f[i + 1] /\ (a \o b)[i] = a[i]
        BY <4>1, <1>6, <1>5
      <4> QED BY <4>1, <4>2, <1>2 DEF Runs
    <3>2. CASE ~(i <= m)
      <4>1. PICK j \in 1 .. n : i = m + j
        <5>1. i - m \in 1 .. n /\ i = m + (i - m)
          BY <3>2, <1>1
        <5> QED BY <5>1
      <4>2. j \in 1 .. n + 1 /\ j + 1 \in 1 .. n + 1 /\ (m + j) + 1 = m + (j + 1)
        BY <1>1
      <4>3. h[i] = g[j] /\ h[i + 1] = g[j + 1] /\ (a \o b)[i] = b[j]
        BY <4>1, <4>2, <1>7, <1>5
      <4> QED BY <4>3, <1>3 DEF Runs
    <3> QED BY <3>1, <3>2
  <2> QED BY <2>1, <2>2, <2>3, <1>5 DEF Runs
<1> QED BY <1>4, <1>5, <1>8 DEF Plays

(* The first event of a run is legal, and the rest runs from there.        *)
LEMMA PlaysHead ==
  ASSUME NEW es, NEW r, NEW q, Plays(es, r, q), es # << >>
  PROVE  /\ Head(es) \in Events /\ Legal(r.client, Head(es))
         /\ Plays(Tail(es), Reads(r, Head(es)), q)
<1> DEFINE n == Len(es)
<1>1. /\ es \in Seq(Events) /\ n \in Nat /\ n >= 1
      /\ Head(es) = es[1] /\ Head(es) \in Events
      /\ Tail(es) \in Seq(Events) /\ Len(Tail(es)) = n - 1
      /\ \A i \in 1 .. n - 1 : Tail(es)[i] = es[i + 1]
  BY HeadTailProperties, EmptySeq, LenProperties DEF Plays
<1>2. PICK run \in [1 .. n + 1 -> Readers] : Runs(run, es, r, q)
  BY DEF Plays
<1> DEFINE rest == [i \in 1 .. (n - 1) + 1 |-> run[i + 1]]
<1>3. rest \in [1 .. (n - 1) + 1 -> Readers]
  BY <1>1
<1>4. \A i \in 1 .. (n - 1) + 1 : rest[i] = run[i + 1]
  OBVIOUS
<1> HIDE DEF rest
<1>5. Legal(r.client, Head(es)) /\ run[2] = Reads(r, Head(es))
  <2>1. 1 \in 1 .. n /\ 1 + 1 = 2
    BY <1>1
  <2> QED BY <2>1, <1>1, <1>2 DEF Runs
<1>6. Runs(rest, Tail(es), Reads(r, Head(es)), q)
  <2>1. rest[1] = run[2]
    BY <1>1, <1>4
  <2>2. rest[(n - 1) + 1] = q
    BY <1>1, <1>4, <1>2 DEF Runs
  <2>3. ASSUME NEW i \in 1 .. n - 1
        PROVE  /\ Legal(rest[i].client, Tail(es)[i])
               /\ rest[i + 1] = Reads(rest[i], Tail(es)[i])
    <3>1. i \in 1 .. (n - 1) + 1 /\ i + 1 \in 1 .. (n - 1) + 1 /\ i + 1 \in 1 .. n
      BY <1>1
    <3>2. rest[i] = run[i + 1] /\ rest[i + 1] = run[(i + 1) + 1] /\ Tail(es)[i] = es[i + 1]
      BY <3>1, <1>1, <1>4
    <3> QED BY <3>1, <3>2, <1>2 DEF Runs
  <2> QED BY <2>1, <2>2, <2>3, <1>5, <1>1 DEF Runs
<1> QED BY <1>1, <1>3, <1>5, <1>6 DEF Plays

-----------------------------------------------------------------------------
(* The events of a block.                                                  *)

LEMMA StartPlays ==
  ASSUME NEW kind \in BlockKinds, NEW i \in 0 .. MaxBlocks, i < MaxBlocks, NEW t \in Texts
  PROVE  Plays(<< Event("content_block_start", kind, i, << >>) >>,
               Reader("message", NoBlock, "none", i, t),
               Reader("message", i, kind, i + 1, << >>))
<1> DEFINE e == Event("content_block_start", kind, i, << >>)
           r == Reader("message", NoBlock, "none", i, t)
<1>1. e \in Events
  BY NoText, StreamAssumption DEF Event, Events, Kinds, BlockKinds, Indices, NoBlock
<1>2. r \in Readers
  BY StreamAssumption DEF Reader, Readers, Clients, Kinds, Indices, NoBlock
<1>3. Legal(r.client, e) /\ Reads(r, e) = Reader("message", i, kind, i + 1, << >>)
  BY DEF Legal, Reads, Understood, Event, Reader
<1>4. Reader("message", i, kind, i + 1, << >>) \in Readers
  BY NoText, StreamAssumption DEF Reader, Readers, Clients, Kinds, Indices, NoBlock
<1> HIDE DEF e, r
<1> QED BY <1>1, <1>2, <1>3, <1>4, PlaysOne DEF e, r

LEMMA DeltaPlays ==
  ASSUME NEW kind \in BlockKinds, NEW i \in 0 .. MaxBlocks, NEW n \in 0 .. MaxBlocks,
         NEW t \in Texts, NEW d \in Texts, t \o d \in Texts
  PROVE  Plays(<< Event("content_block_delta", kind, i, d) >>,
               Reader("message", i, kind, n, t), Reader("message", i, kind, n, t \o d))
<1> DEFINE e == Event("content_block_delta", kind, i, d)
           r == Reader("message", i, kind, n, t)
<1>1. e \in Events
  BY StreamAssumption DEF Event, Events, Kinds, BlockKinds, Indices, NoBlock
<1>2. r \in Readers /\ Reader("message", i, kind, n, t \o d) \in Readers
  BY StreamAssumption DEF Reader, Readers, Clients, Kinds, Indices, NoBlock
<1>3. Legal(r.client, e) /\ Reads(r, e) = Reader("message", i, kind, n, t \o d)
  BY DEF Legal, Reads, Understood, Event, Reader, NoBlock
<1> HIDE DEF e, r
<1> QED BY <1>1, <1>2, <1>3, PlaysOne DEF e, r

LEMMA StopPlays ==
  ASSUME NEW kind \in BlockKinds, NEW i \in 0 .. MaxBlocks, NEW n \in 0 .. MaxBlocks,
         NEW t \in Texts
  PROVE  Plays(<< Event("content_block_stop", kind, i, << >>) >>,
               Reader("message", i, kind, n, t), Reader("message", NoBlock, "none", n, t))
<1> DEFINE e == Event("content_block_stop", kind, i, << >>)
           r == Reader("message", i, kind, n, t)
<1>1. e \in Events
  BY NoText, StreamAssumption DEF Event, Events, Kinds, BlockKinds, Indices, NoBlock
<1>2. r \in Readers /\ Reader("message", NoBlock, "none", n, t) \in Readers
  BY StreamAssumption DEF Reader, Readers, Clients, Kinds, Indices, NoBlock
<1>3. Legal(r.client, e)
  BY StreamAssumption DEF Legal, Event, Reader, NoBlock
<1>4. Understood(r.client, e) = Reader("message", NoBlock, "none", n, t).client
  <2>1. e.type = "content_block_stop"
    BY DEF Event
  <2>2. Understood(r.client, e) = [r.client EXCEPT !.open = NoBlock, !.kind = "none"]
    BY <2>1 DEF Understood
  <2>3. r.client = [phase |-> "message", open |-> i, kind |-> kind, next |-> n]
    BY DEF Reader
  <2> QED BY <2>2, <2>3 DEF Reader
<1>5. Reads(r, e) = Reader("message", NoBlock, "none", n, t)
  BY <1>4, NoText DEF Reads, Event, Reader
<1> HIDE DEF e, r
<1> QED BY <1>1, <1>2, <1>3, <1>5, PlaysOne DEF e, r

(* The events that are not of a block, from a client with no block open.   *)
LEMMA MarkerPlays ==
  ASSUME NEW type, NEW from, NEW to, NEW n \in 0 .. MaxBlocks, NEW t \in Texts,
         << type, from, to >> \in
           { << "message_start", "silent", "message" >>,
             << "message_delta", "message", "closing" >>,
             << "message_stop", "closing", "complete" >>,
             << "http_error", "silent", "failed" >> }
  PROVE  Plays(<< Marker(type) >>, Reader(from, NoBlock, "none", n, t),
                                   Reader(to, NoBlock, "none", n, t))
<1> DEFINE e == Marker(type)
           r == Reader(from, NoBlock, "none", n, t)
<1>1. e \in Events
  BY NoText, StreamAssumption DEF Marker, Event, Events, Kinds, BlockKinds, Indices, NoBlock
<1>2. r \in Readers /\ Reader(to, NoBlock, "none", n, t) \in Readers
  BY StreamAssumption DEF Reader, Readers, Clients, Kinds, Indices, NoBlock
<1>3. Legal(r.client, e)
  BY DEF Legal, Marker, Event, Reader, NoBlock
<1>4. Understood(r.client, e) = Reader(to, NoBlock, "none", n, t).client
  <2>1. CASE type = "message_start" /\ to = "message"
    BY <2>1 DEF Understood, Marker, Event, Reader
  <2>2. CASE type = "message_delta" /\ to = "closing"
    BY <2>2 DEF Understood, Marker, Event, Reader
  <2>3. CASE type = "message_stop" /\ to = "complete"
    BY <2>3 DEF Understood, Marker, Event, Reader
  <2>4. CASE type = "http_error" /\ to = "failed"
    BY <2>4 DEF Understood, Marker, Event, Reader
  <2> QED BY <2>1, <2>2, <2>3, <2>4
<1>5. Reads(r, e) = Reader(to, NoBlock, "none", n, t)
  BY <1>4, NoText DEF Reads, Marker, Event, Reader
<1> HIDE DEF e, r
<1> QED BY <1>1, <1>2, <1>3, <1>5, PlaysOne DEF e, r

(* An error ends the stream whatever block is open.                        *)
LEMMA ErrorPlays ==
  ASSUME NEW r \in Readers, r.client.phase = "message"
  PROVE  \E q \in Readers : Plays(<< Marker("error") >>, r, q)
<1> DEFINE e == Marker("error")
<1>1. e \in Events
  BY NoText, StreamAssumption DEF Marker, Event, Events, Kinds, BlockKinds, Indices, NoBlock
<1>2. Legal(r.client, e)
  BY DEF Legal, Marker, Event
<1>3. Reads(r, e) = [client |-> [r.client EXCEPT !.phase = "failed"], shown |-> r.shown \o << >>]
  BY DEF Reads, Understood, Marker, Event
<1>4. r.shown \o << >> \in Texts
  BY NoText DEF Readers
<1>5. Reads(r, e) \in Readers
  BY <1>3, <1>4 DEF Readers, Clients
<1> HIDE DEF e
<1> QED BY <1>1, <1>2, <1>5, PlaysOne DEF e

-----------------------------------------------------------------------------
(* What anthropicTextDelta reads.                                          *)

LEMMA DeltaFacts ==
  ASSUME NEW X, NEW seen \in Seq(X), NEW incoming \in Seq(X)
  PROVE  LET read == AnthropicTextDelta(seen, incoming) IN
         /\ read.delta \in Seq(X) /\ read.seen \in Seq(X)
         /\ Len(read.delta) <= Len(incoming)
         /\ Len(read.seen) <= Len(seen) + Len(incoming)
         /\ \A new \in Seq(X) : incoming = seen \o new =>
              read.delta = new /\ read.seen = incoming
<1> DEFINE read == AnthropicTextDelta(seen, incoming)
<1> DEFINE Fine(delta, saw) ==
             /\ delta \in Seq(X) /\ saw \in Seq(X)
             /\ Len(delta) <= Len(incoming)
             /\ Len(saw) <= Len(seen) + Len(incoming)
             /\ \A new \in Seq(X) : incoming = seen \o new => delta = new /\ saw = incoming
<1> SUFFICES Fine(read.delta, read.seen)
  OBVIOUS
<1>1. Len(seen) \in Nat /\ Len(incoming) \in Nat
  BY LenProperties
<1>2. CASE IsPrefix(seen, incoming)
  <2>1. PICK u \in Seq(X) : incoming = seen \o u
    BY <1>2, PrefixIsConcat
  <2>2. Len(u) \in Nat /\ Len(incoming) = Len(seen) + Len(u)
    BY <2>1, ConcatProperties, LenProperties
  <2>3. SubSeq(incoming, Len(seen) + 1, Len(incoming)) = u
    BY <2>1, <2>2, <1>1
  <2>4. read.delta = u /\ read.seen = incoming
    BY <1>2, <2>3 DEF AnthropicTextDelta
  <2>5. ASSUME NEW new \in Seq(X), incoming = seen \o new PROVE new = u
    <3>1. SubSeq(incoming, Len(seen) + 1, Len(incoming)) = new
      BY <2>5, <1>1, ConcatProperties, LenProperties
    <3> QED BY <3>1, <2>3
  <2>6. \A new \in Seq(X) : incoming = seen \o new => u = new
    BY <2>5
  <2>7. Len(u) <= Len(incoming) /\ Len(incoming) <= Len(seen) + Len(incoming)
    BY <2>2, <1>1
  <2>8. Fine(u, incoming)
    BY <2>6, <2>7
  <2> QED BY <2>4, <2>8
<1>3. ASSUME ~IsPrefix(seen, incoming), NEW new \in Seq(X), incoming = seen \o new PROVE FALSE
  BY <1>3, PrefixIsConcat
<1>4. CASE ~IsPrefix(seen, incoming) /\ IsPrefix(incoming, seen)
  <2>1. read.delta = << >> /\ read.seen = seen
    BY <1>4 DEF AnthropicTextDelta
  <2>2. << >> \in Seq(X) /\ Len(<< >>) = 0
    BY EmptySeq
  <2>3. Fine(<< >>, seen)
    BY <2>2, <1>1, <1>3, <1>4
  <2> QED BY <2>1, <2>3
<1>5. CASE ~IsPrefix(seen, incoming) /\ ~IsPrefix(incoming, seen)
  <2>1. read.delta = incoming /\ read.seen = seen \o incoming
    BY <1>5 DEF AnthropicTextDelta
  <2>2. seen \o incoming \in Seq(X) /\ Len(seen \o incoming) = Len(seen) + Len(incoming)
    BY ConcatProperties
  <2>3. Fine(incoming, seen \o incoming)
    <3>1. Len(incoming) <= Len(incoming) /\ Len(seen \o incoming) <= Len(seen) + Len(incoming)
      BY <2>2, <1>1
    <3>2. \A new \in Seq(X) : incoming = seen \o new => FALSE
      BY <1>3, <1>5
    <3> QED BY <2>2, <3>1, <3>2
  <2> QED BY <2>1, <2>3
<1> QED BY <1>2, <1>4, <1>5

(* What the client has of a block whose text so far is text, and what the  *)
(* handler has seen of it.                                                 *)
Kept(seen, had, text) ==
  /\ Len(seen) <= Len(text) /\ Len(had) <= Len(text)
  /\ upstream.cumulative => seen = text /\ had = text

(* A chunk with new text of a block of kind keeps both: had is what the    *)
(* client has of the block, nothing when it begins with this chunk.        *)
LEMMA ReadKeeps ==
  ASSUME NEW kind, NEW new \in NewTexts(kind), NEW seen \in Texts, NEW had \in Texts,
         upstream.text \in Texts,
         IF upstream.kind = kind THEN Kept(seen, had, upstream.text)
                                 ELSE seen = << >> /\ had = << >>
  PROVE  LET read == AnthropicTextDelta(seen, Incoming(kind, new))
             text == IF upstream.kind = kind THEN upstream.text \o new ELSE new
         IN /\ read.delta \in Texts /\ read.seen \in Texts /\ text \in Texts
            /\ had \o read.delta \in Texts
            /\ Kept(read.seen, had \o read.delta, text)
            /\ upstream.kind # kind =>
                 Incoming(kind, new) = new /\ read.delta = new /\ read.seen = new
<1> DEFINE incoming == Incoming(kind, new)
           read == AnthropicTextDelta(seen, incoming)
           text == IF upstream.kind = kind THEN upstream.text \o new ELSE new
<1>1. /\ new \in Seq(Letters) /\ seen \in Seq(Letters) /\ had \in Seq(Letters)
      /\ upstream.text \in Seq(Letters)
  BY TextsAreSequences DEF NewTexts
<1>2. /\ Len(new) \in Nat /\ Len(seen) \in Nat /\ Len(had) \in Nat
      /\ Len(upstream.text) \in Nat
  BY <1>1, LenProperties
<1>3. text \in Seq(Letters) /\ incoming \in Seq(Letters)
  BY <1>1, ConcatProperties DEF Incoming
<1>4. Len(text) <= MaxText
      /\ Len(text) = (IF upstream.kind = kind THEN Len(upstream.text) ELSE 0) + Len(new)
  BY <1>1, <1>2, ConcatProperties DEF NewTexts
<1> HIDE DEF incoming
<1>5. /\ read.delta \in Seq(Letters) /\ read.seen \in Seq(Letters)
      /\ Len(read.delta) <= Len(incoming)
      /\ Len(read.seen) <= Len(seen) + Len(incoming)
      /\ \A u \in Seq(Letters) : incoming = seen \o u => read.delta = u /\ read.seen = incoming
  BY <1>1, <1>3, DeltaFacts
<1> HIDE DEF read, text
<1>6. /\ had \o read.delta \in Seq(Letters)
      /\ Len(had \o read.delta) = Len(had) + Len(read.delta)
      /\ Len(read.delta) \in Nat /\ Len(read.seen) \in Nat
  BY <1>1, <1>5, ConcatProperties, LenProperties
<1>7. CASE upstream.kind = kind /\ upstream.cumulative
  <2>1. seen = upstream.text /\ had = upstream.text
    BY <1>7 DEF Kept
  <2>2. incoming = upstream.text \o new /\ text = upstream.text \o new
    BY <1>7 DEF incoming, text, Incoming
  <2>3. read.delta = new /\ read.seen = text /\ had \o read.delta = text
    BY <2>1, <2>2, <1>1, <1>5
  <2>4. read.delta \in Texts
    <3>1. Len(new) <= MaxText
      BY <1>2, <1>4, <1>7, StreamAssumption
    <3> QED BY <2>3, <3>1, <1>1, TextsAreSequences
  <2>5. Kept(read.seen, had \o read.delta, text)
    BY <2>3, <1>3, LenProperties DEF Kept
  <2> QED BY <2>3, <2>4, <2>5, <1>3, <1>4, <1>7, TextsAreSequences DEF incoming, read, text
<1>8. CASE upstream.kind = kind /\ ~upstream.cumulative
  <2>1. incoming = new
    BY <1>8 DEF incoming, Incoming
  <2>2. Len(seen) <= Len(upstream.text) /\ Len(had) <= Len(upstream.text)
    BY <1>8 DEF Kept
  <2>3. /\ Len(read.delta) <= MaxText /\ Len(read.seen) <= Len(text)
        /\ Len(had \o read.delta) <= Len(text) /\ Len(text) \in Nat
    <3>1. Len(text) = Len(upstream.text) + Len(new)
      BY <1>4, <1>8
    <3> QED BY <3>1, <2>1, <2>2, <1>2, <1>4, <1>5, <1>6, StreamAssumption
  <2>4. Kept(read.seen, had \o read.delta, text)
    BY <2>3, <1>8 DEF Kept
  <2>5. Len(read.seen) <= MaxText /\ Len(had \o read.delta) <= MaxText
    BY <2>3, <1>4, <1>6, StreamAssumption
  <2> QED BY <2>3, <2>4, <2>5, <1>3, <1>4, <1>5, <1>6, <1>8, TextsAreSequences
          DEF incoming, read, text
<1>9. CASE upstream.kind # kind
  <2>1. incoming = new /\ text = new /\ seen = << >> /\ had = << >>
    BY <1>9 DEF incoming, text, Incoming
  <2>2. incoming = seen \o new
    BY <2>1, <1>1, ConcatEmptySeq
  <2>3. read.delta = new /\ read.seen = new
    BY <2>1, <2>2, <1>1, <1>5
  <2>4. had \o read.delta = new
    BY <2>1, <2>3, <1>1, ConcatEmptySeq
  <2>5. new \in Texts
    BY DEF NewTexts
  <2>6. Kept(new, new, new)
    BY <1>2 DEF Kept
  <2> QED BY <2>1, <2>3, <2>4, <2>5, <2>6, <1>9 DEF incoming, read, text
<1> QED BY <1>7, <1>8, <1>9

-----------------------------------------------------------------------------
(* The inductive invariant.                                                *)

Types ==
  /\ pc \in {"stream", "chunk", "finish", "error", "done"}
  /\ stage \in 0 .. 2
  /\ emitted \in BOOLEAN /\ committed \in BOOLEAN /\ canceled \in BOOLEAN
  /\ emittedSignature \in BOOLEAN
  /\ nextIndex \in 0 .. MaxBlocks
  /\ openTextIndex \in Indices /\ openThinkingIndex \in Indices
  /\ seenText \in Texts /\ seenThinking \in Texts
  /\ upstream \in [kind : Kinds, text : Texts, cumulative : BOOLEAN]

(* A block that is not open has no state, and until the answer ends the    *)
(* block that is open is the upstream's current one.                       *)
BlocksInv ==
  /\ openTextIndex = NoBlock => seenText = << >>
  /\ openThinkingIndex = NoBlock => seenThinking = << >> /\ ~emittedSignature
  /\ pc \in {"stream", "chunk"} =>
       /\ openTextIndex # NoBlock <=> upstream.kind = "text"
       /\ openThinkingIndex # NoBlock <=> upstream.kind = "thinking"
  /\ pc \in {"stream", "done"} => todo = << >>
  /\ pc \in {"stream", "chunk"} /\ ~emitted => upstream.kind = "none"

Heard ==
  /\ client.phase \in {"message", "closing", "complete"} => committed
  /\ client.phase = "silent" => ~committed

OpenIndex == IF upstream.kind = "text" THEN openTextIndex
             ELSE IF upstream.kind = "thinking" THEN openThinkingIndex ELSE NoBlock
OpenKind == IF upstream.kind \in {"text", "thinking"} THEN upstream.kind ELSE "none"
Seen == IF upstream.kind = "text" THEN seenText ELSE seenThinking

(* The client to come, its text and the handler agree.                     *)
Caught(text) == upstream.kind \in {"text", "thinking"} => Kept(Seen, text, upstream.text)

Agrees(q) ==
  pc \in {"stream", "chunk"} =>
    /\ Caught(q.shown)
    /\ \E phase \in {"silent", "message"} :
         /\ q = Reader(phase, OpenIndex, OpenKind, nextIndex, q.shown)
         /\ phase = "silent" => pc = "stream" /\ OpenIndex = NoBlock

Now == [client |-> client, shown |-> shown]

StreamInv ==
  Types /\ BlocksInv /\ Heard /\ \E q : Plays(todo, Now, q) /\ Agrees(q)

LEMMA InitStream == ASSUME Init PROVE StreamInv
<1>1. Types
  <2>1. upstream \in [kind : Kinds, text : Texts, cumulative : BOOLEAN]
    BY NoText DEF Init, Unanswered, Kinds
  <2>2. 0 \in 0 .. MaxBlocks /\ NoBlock \in Indices
    BY StreamAssumption DEF Indices, NoBlock
  <2>3. /\ nextIndex = 0 /\ openTextIndex = NoBlock /\ openThinkingIndex = NoBlock
        /\ seenText = << >> /\ seenThinking = << >>
    BY DEF Init
  <2>4. /\ pc = "stream" /\ stage = 0 /\ emitted = FALSE /\ committed = FALSE
        /\ canceled = FALSE /\ emittedSignature = FALSE
    BY DEF Init
  <2>5. /\ emitted \in BOOLEAN /\ committed \in BOOLEAN /\ canceled \in BOOLEAN
        /\ emittedSignature \in BOOLEAN
    BY <2>4, Zenon
  <2>6. seenText \in Texts /\ seenThinking \in Texts
    BY <2>3, NoText
  <2>7. pc \in {"stream", "chunk", "finish", "error", "done"} /\ stage \in 0 .. 2
    BY <2>4
  <2> QED BY <2>1, <2>2, <2>3, <2>5, <2>6, <2>7 DEF Types
<1>2. BlocksInv /\ Heard
  BY DEF Init, Unanswered, BlocksInv, Heard, Silent
<1>3. Now = Reader("silent", NoBlock, "none", 0, << >>)
  BY DEF Init, Now, Reader, Silent
<1>4. Now \in Readers
  BY <1>3, NoText, StreamAssumption DEF Reader, Readers, Clients, Kinds, Indices, NoBlock
<1>5. Plays(todo, Now, Now)
  BY <1>4, PlaysNone DEF Init
<1>6. Agrees(Now)
  BY <1>3 DEF Init, Unanswered, Agrees, Caught, OpenIndex, OpenKind, Reader
<1> QED BY <1>1, <1>2, <1>5, <1>6 DEF StreamInv

(* What holds while the handler waits for the upstream.                    *)
LEMMA Waiting ==
  ASSUME StreamInv, pc = "stream"
  PROVE  /\ Now \in Readers /\ shown \in Texts
         /\ Now = Reader(IF committed THEN "message" ELSE "silent",
                         OpenIndex, OpenKind, nextIndex, shown)
         /\ ~committed => OpenIndex = NoBlock /\ OpenKind = "none"
         /\ Caught(shown)
<1>1. PICK q : Plays(todo, Now, q) /\ Agrees(q)
  BY DEF StreamInv
<1>2. Now \in Readers /\ Now = q
  BY <1>1, PlaysTypes DEF StreamInv, BlocksInv
<1>3. Now.shown = shown /\ Now.client = client
  BY DEF Now
<1>4. PICK phase \in {"silent", "message"} :
        /\ Now = Reader(phase, OpenIndex, OpenKind, nextIndex, shown)
        /\ phase = "silent" => OpenIndex = NoBlock
  BY <1>1, <1>2, <1>3 DEF Agrees
<1>5. client.phase = phase
  BY <1>3, <1>4 DEF Reader
<1>6. phase = IF committed THEN "message" ELSE "silent"
  BY <1>5 DEF StreamInv, Heard
<1>7. OpenIndex = NoBlock => OpenKind = "none"
  BY DEF StreamInv, BlocksInv, OpenIndex, OpenKind
<1> QED BY <1>1, <1>2, <1>3, <1>4, <1>6, <1>7 DEF Agrees, Readers

(* A chunk begins with message_start if nothing has been written.          *)
LEMMA CommitPlays ==
  ASSUME StreamInv, pc = "stream"
  PROVE  Plays(CommitEvents, Now, Reader("message", OpenIndex, OpenKind, nextIndex, shown))
<1>1. CASE committed
  BY <1>1, Waiting, PlaysNone DEF CommitEvents
<1>2. CASE ~committed
  <2>1. /\ Now = Reader("silent", NoBlock, "none", nextIndex, shown)
        /\ OpenIndex = NoBlock /\ OpenKind = "none" /\ shown \in Texts
    BY <1>2, Waiting
  <2>2. nextIndex \in 0 .. MaxBlocks
    BY DEF StreamInv, Types
  <2> QED BY <1>2, <2>1, <2>2, MarkerPlays DEF CommitEvents
<1> QED BY <1>1, <1>2

(* closeOpenBlocks stops the block the client has open.                    *)
LEMMA ClosePlays ==
  ASSUME StreamInv, pc = "stream", NEW t \in Texts
  PROVE  Plays(CloseEvents, Reader("message", OpenIndex, OpenKind, nextIndex, t),
                            Reader("message", NoBlock, "none", nextIndex, t))
<1>1. nextIndex \in 0 .. MaxBlocks
  BY DEF StreamInv, Types
<1>2. ASSUME NEW e PROVE << e >> \o << >> = << e >> /\ << >> \o << e >> = << e >>
  OBVIOUS
<1>3. CASE upstream.kind = "text"
  <2>1. openThinkingIndex = NoBlock /\ openTextIndex # NoBlock /\ openTextIndex \in 0 .. MaxBlocks
    BY <1>3, StreamAssumption DEF StreamInv, BlocksInv, Types, Indices, NoBlock
  <2>2. CloseEvents = << Event("content_block_stop", "text", openTextIndex, << >>) >>
    BY <2>1, <1>2 DEF CloseEvents
  <2> QED BY <2>1, <2>2, <1>1, <1>3, StopPlays DEF OpenIndex, OpenKind, BlockKinds
<1>4. CASE upstream.kind = "thinking"
  <2>1. /\ openTextIndex = NoBlock /\ openThinkingIndex # NoBlock
        /\ openThinkingIndex \in 0 .. MaxBlocks
    BY <1>4, StreamAssumption DEF StreamInv, BlocksInv, Types, Indices, NoBlock
  <2>2. CloseEvents = << Event("content_block_stop", "thinking", openThinkingIndex, << >>) >>
    BY <2>1, <1>2 DEF CloseEvents
  <2> QED BY <2>1, <2>2, <1>1, <1>4, StopPlays DEF OpenIndex, OpenKind, BlockKinds
<1>5. CASE upstream.kind \notin {"text", "thinking"}
  <2>1. openThinkingIndex = NoBlock /\ openTextIndex = NoBlock
    BY <1>5 DEF StreamInv, BlocksInv
  <2>2. CloseEvents = << >>
    BY <2>1 DEF CloseEvents
  <2>3. OpenIndex = NoBlock /\ OpenKind = "none"
    BY <1>5 DEF OpenIndex, OpenKind
  <2>4. Reader("message", NoBlock, "none", nextIndex, t) \in Readers
    BY <1>1, StreamAssumption DEF Reader, Readers, Clients, Kinds, Indices, NoBlock
  <2> QED BY <2>2, <2>3, <2>4, PlaysNone
<1> QED BY <1>3, <1>4, <1>5

(* A chunk whose events run from the client of the handler as it is to one *)
(* of the handler as it will be keeps the invariant.                       *)
LEMMA ChunkKeeps ==
  ASSUME StreamInv, NEW events, Chunk(events), Types', BlocksInv',
         NEW t, Caught(t)',
         Plays(events, Reader("message", OpenIndex, OpenKind, nextIndex, shown),
                       Reader("message", OpenIndex', OpenKind', nextIndex', t))
  PROVE  StreamInv'
<1> PICK q : q = Reader("message", OpenIndex', OpenKind', nextIndex', t)
  OBVIOUS
<1>1. pc = "stream" /\ pc' = "chunk" /\ todo' = CommitEvents \o events
      /\ client' = client /\ shown' = shown /\ committed' = committed
  BY DEF Chunk
<1>2. Plays(CommitEvents \o events, Now, q)
  BY <1>1, CommitPlays, PlaysConcat
<1>3. Now' = Now
  BY <1>1 DEF Now
<1>4. q.shown = t
  BY DEF Reader
<1>5. Plays(todo, Now, q)'
  BY <1>1, <1>2, <1>3
<1>6. Agrees(q)'
  BY <1>1, <1>4 DEF Agrees
<1>7. Heard'
  BY <1>1 DEF StreamInv, Heard
<1> QED BY <1>5, <1>6, <1>7 DEF StreamInv

-----------------------------------------------------------------------------
(* The upstream's chunks.                                                  *)

LEMMA MetadataKeeps == ASSUME StreamInv, MetadataChunk PROVE StreamInv'
<1>1. UNCHANGED <<blockVars, upstream>> /\ Chunk(<< >>)
  BY DEF MetadataChunk
<1>2. pc = "stream" /\ pc' = "chunk" /\ emitted' = TRUE
      /\ UNCHANGED <<stage, committed, canceled>>
  BY <1>1 DEF Chunk
<1>3. Types' /\ BlocksInv'
  BY <1>1, <1>2 DEF StreamInv, Types, BlocksInv, blockVars
<1>4. OpenIndex' = OpenIndex /\ OpenKind' = OpenKind /\ nextIndex' = nextIndex
      /\ (Caught(shown) => Caught(shown)')
  BY <1>1 DEF OpenIndex, OpenKind, Caught, Seen, Kept, blockVars, Chunk
<1>5. Plays(<< >>, Reader("message", OpenIndex, OpenKind, nextIndex, shown),
                   Reader("message", OpenIndex, OpenKind, nextIndex, shown))
  BY <1>2, CommitPlays, PlaysTypes, PlaysNone
<1>6. shown' = shown
  BY <1>1 DEF Chunk
<1> QED BY <1>1, <1>2, <1>3, <1>4, <1>5, <1>6, Waiting, ChunkKeeps

LEMMA ToolUseKeeps == ASSUME StreamInv, ToolUseChunk PROVE StreamInv'
<1> DEFINE i == nextIndex
           start == << Event("content_block_start", "tool_use", i, << >>) >>
           delta == << Event("content_block_delta", "tool_use", i, << >>) >>
           stop  == << Event("content_block_stop", "tool_use", i, << >>) >>
           block == << Event("content_block_start", "tool_use", i, << >>),
                       Event("content_block_delta", "tool_use", i, << >>),
                       Event("content_block_stop", "tool_use", i, << >>) >>
<1>1. /\ i < MaxBlocks /\ nextIndex' = i + 1 /\ CloseBlocks
      /\ upstream' = [upstream EXCEPT !.kind = "tool_use", !.text = << >>]
      /\ Chunk(CloseEvents \o block)
  BY DEF ToolUseChunk
<1>2. pc = "stream" /\ pc' = "chunk" /\ emitted' = TRUE
      /\ UNCHANGED <<stage, committed, canceled>>
  BY <1>1 DEF Chunk
<1>3. i \in 0 .. MaxBlocks /\ i + 1 \in 0 .. MaxBlocks
  BY <1>1, StreamAssumption DEF StreamInv, Types
<1>4. /\ upstream' \in [kind : Kinds, text : Texts, cumulative : BOOLEAN]
      /\ upstream'.kind = "tool_use"
  BY <1>1, NoText DEF StreamInv, Types, Kinds, BlockKinds
<1>5. /\ openTextIndex' = NoBlock /\ openThinkingIndex' = NoBlock
      /\ seenText' = << >> /\ seenThinking' = << >> /\ emittedSignature' = FALSE
  BY <1>1 DEF CloseBlocks, StreamInv, BlocksInv, Types
<1>6. Types'
  <2>1. NoBlock \in Indices
    BY StreamAssumption DEF Indices, NoBlock
  <2> QED BY <1>1, <1>2, <1>3, <1>4, <1>5, <2>1, NoText DEF StreamInv, Types
<1>7. BlocksInv'
  BY <1>2, <1>4, <1>5 DEF BlocksInv
<1>8. Plays(block, Reader("message", NoBlock, "none", i, shown),
                   Reader("message", NoBlock, "none", i + 1, << >>))
  <2>1. shown \in Texts /\ << >> \o << >> = << >> /\ << >> \in Texts
    BY <1>2, Waiting, NoText
  <2>2. Plays(start, Reader("message", NoBlock, "none", i, shown),
                     Reader("message", i, "tool_use", i + 1, << >>))
    BY <1>1, <1>3, <2>1, StartPlays DEF BlockKinds
  <2>3. Plays(delta, Reader("message", i, "tool_use", i + 1, << >>),
                     Reader("message", i, "tool_use", i + 1, << >>))
    BY <1>3, <2>1, DeltaPlays DEF BlockKinds
  <2>4. Plays(stop, Reader("message", i, "tool_use", i + 1, << >>),
                    Reader("message", NoBlock, "none", i + 1, << >>))
    BY <1>3, <2>1, StopPlays DEF BlockKinds
  <2>5. block = start \o (delta \o stop)
    OBVIOUS
  <2> HIDE DEF start, delta, stop, block
  <2> QED BY <2>2, <2>3, <2>4, <2>5, PlaysConcat
<1> HIDE DEF block
<1>9. Plays(CloseEvents \o block, Reader("message", OpenIndex, OpenKind, i, shown),
                                  Reader("message", NoBlock, "none", i + 1, << >>))
  <2>1. shown \in Texts
    BY <1>2, Waiting
  <2> QED BY <1>2, <1>8, <2>1, ClosePlays, PlaysConcat
<1>10. OpenIndex' = NoBlock /\ OpenKind' = "none" /\ Caught(<< >>)'
  BY <1>4 DEF OpenIndex, OpenKind, Caught
<1> QED BY <1>1, <1>6, <1>7, <1>9, <1>10, ChunkKeeps

(* What a thinking or text chunk does to the record of the upstream.       *)
LEMMA ContinuesTypes ==
  ASSUME Types, NEW kind \in Kinds, NEW new, Continues(kind, new),
         (IF upstream.kind = kind THEN upstream.text \o new ELSE new) \in Texts
  PROVE  /\ upstream' \in [kind : Kinds, text : Texts, cumulative : BOOLEAN]
         /\ upstream'.kind = kind /\ upstream'.cumulative = upstream.cumulative
         /\ upstream'.text = IF upstream.kind = kind THEN upstream.text \o new ELSE new
BY DEF Continues, Types

LEMMA TextKeeps ==
  ASSUME StreamInv, NEW new \in NewTexts("text"), Incoming("text", new) # << >>, TextChunk(new)
  PROVE  StreamInv'
<1> DEFINE read  == AnthropicTextDelta(seenText, Incoming("text", new))
           opens == openTextIndex = NoBlock
           index == IF opens THEN nextIndex ELSE openTextIndex
           had   == IF opens THEN << >> ELSE shown
           text  == IF upstream.kind = "text" THEN upstream.text \o new ELSE new
           close == IF openThinkingIndex # NoBlock THEN CloseEvents ELSE << >>
           start == IF opens THEN << Event("content_block_start", "text", index, << >>) >>
                             ELSE << >>
           delta == << Event("content_block_delta", "text", index, read.delta) >>
<1>1. /\ pc = "stream" /\ pc' = "chunk" /\ emitted' = TRUE
      /\ UNCHANGED <<stage, committed, canceled, shown>>
  BY DEF TextChunk, Chunk
<1>2. /\ Types /\ BlocksInv /\ shown \in Texts /\ Caught(shown)
      /\ (opens <=> upstream.kind # "text")
  BY <1>1, Waiting DEF StreamInv, BlocksInv
<1>3. had \in Texts /\ seenText \in Texts /\ upstream.text \in Texts
  BY <1>2, NoText DEF Types
<1>4. IF upstream.kind = "text" THEN Kept(seenText, had, upstream.text)
                                ELSE seenText = << >> /\ had = << >>
  BY <1>2 DEF Caught, Seen, BlocksInv
<1>5. /\ read.delta \in Texts /\ read.seen \in Texts /\ text \in Texts
      /\ had \o read.delta \in Texts
      /\ Kept(read.seen, had \o read.delta, text)
      /\ opens => read.delta # << >>
  <2>1. upstream.kind # "text" => read.delta # << >>
    BY <1>3, <1>4, ReadKeeps
  <2> HIDE DEF had
  <2> QED BY <1>2, <1>3, <1>4, <2>1, ReadKeeps
<1>6. Continues("text", new) /\ seenText' = read.seen
  BY DEF TextChunk
<1> HIDE DEF read, text
<1>7. /\ upstream' \in [kind : Kinds, text : Texts, cumulative : BOOLEAN]
      /\ upstream'.kind = "text" /\ upstream'.cumulative = upstream.cumulative
      /\ upstream'.text = text
  BY <1>2, <1>5, <1>6, ContinuesTypes DEF Kinds, BlockKinds, text
<1> PICK t : t = had \o read.delta
  OBVIOUS
<1>8. Caught(t)'
  BY <1>5, <1>6, <1>7 DEF Caught, Seen, Kept
<1>9. CASE read.delta = << >>
  <2>1. /\ Chunk(<< >>)
        /\ UNCHANGED <<nextIndex, openTextIndex, openThinkingIndex, seenThinking,
                       emittedSignature>>
    BY <1>9 DEF TextChunk, read
  <2>2. ~opens /\ openThinkingIndex = NoBlock
    BY <1>1, <1>2, <1>5, <1>9 DEF BlocksInv
  <2>3. Types' /\ BlocksInv'
    BY <1>1, <1>2, <1>5, <1>6, <1>7, <2>1, <2>2 DEF Types, BlocksInv
  <2>4. OpenIndex' = OpenIndex /\ OpenKind' = OpenKind
    BY <1>2, <1>7, <2>1, <2>2 DEF OpenIndex, OpenKind
  <2>5. t = shown
    BY <1>2, <1>9, <2>2, NoText
  <2>6. Plays(<< >>, Reader("message", OpenIndex, OpenKind, nextIndex, shown),
                     Reader("message", OpenIndex, OpenKind, nextIndex, shown))
    BY <1>1, CommitPlays, PlaysTypes, PlaysNone
  <2> QED BY <1>8, <2>1, <2>3, <2>4, <2>5, <2>6, ChunkKeeps
<1>10. CASE read.delta # << >>
  <2>1. /\ index < MaxBlocks /\ Chunk(close \o start \o delta)
        /\ openThinkingIndex' = NoBlock
        /\ seenThinking' = IF openThinkingIndex # NoBlock THEN << >> ELSE seenThinking
        /\ emittedSignature' = (openThinkingIndex = NoBlock /\ emittedSignature)
        /\ openTextIndex' = index
        /\ nextIndex' = IF opens THEN nextIndex + 1 ELSE nextIndex
    BY <1>10 DEF TextChunk, read
  <2>2. /\ nextIndex \in 0 .. MaxBlocks /\ nextIndex' \in 0 .. MaxBlocks
        /\ index \in 0 .. MaxBlocks /\ index # NoBlock /\ index \in Indices
        /\ NoBlock \in Indices
    BY <1>2, <2>1, StreamAssumption DEF Types, Indices, NoBlock
  <2>3. seenThinking' = << >> /\ emittedSignature' = FALSE
    BY <1>2, <2>1 DEF BlocksInv, Types
  <2>4. Types'
    BY <1>1, <1>2, <1>5, <1>6, <1>7, <2>1, <2>2, <2>3, NoText DEF Types
  <2>5. BlocksInv'
    BY <1>1, <1>7, <2>1, <2>2, <2>3 DEF BlocksInv
  <2>6. OpenIndex' = index /\ OpenKind' = "text"
    BY <1>7, <2>1 DEF OpenIndex, OpenKind
  <2>7. Plays(close \o start,
              Reader("message", OpenIndex, OpenKind, nextIndex, shown),
              Reader("message", index, "text", nextIndex', had))
    <3>1. CASE opens
      <4>1. Plays(close, Reader("message", OpenIndex, OpenKind, nextIndex, shown),
                         Reader("message", NoBlock, "none", nextIndex, shown))
        <5>1. CASE openThinkingIndex # NoBlock
          BY <5>1, <1>1, <1>2, ClosePlays
        <5>2. CASE openThinkingIndex = NoBlock
          <6>1. OpenIndex = NoBlock /\ OpenKind = "none"
            BY <5>2, <3>1, <1>1, <1>2 DEF OpenIndex, OpenKind, BlocksInv
          <6> QED BY <5>2, <6>1, <1>1, CommitPlays, PlaysTypes, PlaysNone
        <5> QED BY <5>1, <5>2
      <4>2. Plays(start, Reader("message", NoBlock, "none", nextIndex, shown),
                         Reader("message", index, "text", nextIndex + 1, << >>))
        BY <3>1, <2>1, <2>2, <1>2, StartPlays DEF BlockKinds
      <4>3. had = << >> /\ nextIndex' = nextIndex + 1
        BY <3>1, <2>1
      <4> HIDE DEF close, start, index, had
      <4> QED BY <4>1, <4>2, <4>3, PlaysConcat
    <3>2. CASE ~opens
      <4>1. openThinkingIndex = NoBlock /\ OpenIndex = index /\ OpenKind = "text"
            /\ nextIndex' = nextIndex /\ had = shown
        BY <3>2, <2>1, <1>1, <1>2 DEF OpenIndex, OpenKind, BlocksInv
      <4>2. close = << >> /\ start = << >> /\ << >> \o << >> = << >>
        BY <3>2, <4>1
      <4> HIDE DEF close, start, index, had
      <4> QED BY <4>1, <4>2, <1>1, CommitPlays, PlaysTypes, PlaysNone
    <3> QED BY <3>1, <3>2
  <2>8. Plays(delta, Reader("message", index, "text", nextIndex', had),
                     Reader("message", index, "text", nextIndex', had \o read.delta))
    BY <1>3, <1>5, <2>2, DeltaPlays DEF BlockKinds
  <2> HIDE DEF close, start, delta, index, had
  <2>9. Plays((close \o start) \o delta,
              Reader("message", OpenIndex, OpenKind, nextIndex, shown),
              Reader("message", index, "text", nextIndex', t))
    BY <2>7, <2>8, PlaysConcat
  <2> QED BY <1>8, <2>1, <2>4, <2>5, <2>6, <2>9, ChunkKeeps
<1> QED BY <1>9, <1>10

LEMMA ThinkingKeeps ==
  ASSUME StreamInv, NEW new \in NewTexts("thinking"), NEW signature \in BOOLEAN,
         signature \/ Incoming("thinking", new) # << >>, ThinkingChunk(new, signature)
  PROVE  StreamInv'
<1> DEFINE read  == AnthropicTextDelta(seenThinking, Incoming("thinking", new))
           sign  == signature /\ ~emittedSignature
           opens == openThinkingIndex = NoBlock
           index == IF opens THEN nextIndex ELSE openThinkingIndex
           had   == IF opens THEN << >> ELSE shown
           text  == IF upstream.kind = "thinking" THEN upstream.text \o new ELSE new
           close == IF openTextIndex # NoBlock THEN CloseEvents ELSE << >>
           start == IF opens THEN << Event("content_block_start", "thinking", index, << >>) >>
                             ELSE << >>
           delta == IF read.delta # << >>
                      THEN << Event("content_block_delta", "thinking", index, read.delta) >>
                      ELSE << >>
           signs == IF sign THEN << Event("content_block_delta", "thinking", index, << >>) >>
                            ELSE << >>
<1>1. /\ pc = "stream" /\ pc' = "chunk" /\ emitted' = TRUE
      /\ UNCHANGED <<stage, committed, canceled, shown>>
  BY DEF ThinkingChunk, Chunk
<1>2. /\ Types /\ BlocksInv /\ shown \in Texts /\ Caught(shown)
      /\ (opens <=> upstream.kind # "thinking")
  BY <1>1, Waiting DEF StreamInv, BlocksInv
<1>3. had \in Texts /\ seenThinking \in Texts /\ upstream.text \in Texts
  BY <1>2, NoText DEF Types
<1>4. IF upstream.kind = "thinking" THEN Kept(seenThinking, had, upstream.text)
                                    ELSE seenThinking = << >> /\ had = << >>
  BY <1>2 DEF Caught, Seen, BlocksInv
<1>5. /\ read.delta \in Texts /\ read.seen \in Texts /\ text \in Texts
      /\ had \o read.delta \in Texts
      /\ Kept(read.seen, had \o read.delta, text)
      /\ opens => read.delta # << >> \/ sign
  <2>1. upstream.kind # "thinking" => read.delta # << >> \/ signature
    BY <1>3, <1>4, ReadKeeps
  <2>2. opens => ~emittedSignature
    BY <1>2 DEF BlocksInv
  <2> HIDE DEF had
  <2> QED BY <1>2, <1>3, <1>4, <2>1, <2>2, ReadKeeps
<1>6. Continues("thinking", new) /\ seenThinking' = read.seen
  BY DEF ThinkingChunk
<1> HIDE DEF read, text
<1>7. /\ upstream' \in [kind : Kinds, text : Texts, cumulative : BOOLEAN]
      /\ upstream'.kind = "thinking" /\ upstream'.cumulative = upstream.cumulative
      /\ upstream'.text = text
  BY <1>2, <1>5, <1>6, ContinuesTypes DEF Kinds, BlockKinds, text
<1> PICK t : t = had \o read.delta
  OBVIOUS
<1>8. Caught(t)'
  BY <1>5, <1>6, <1>7 DEF Caught, Seen, Kept
<1>9. CASE read.delta = << >> /\ ~sign
  <2>1. /\ Chunk(<< >>)
        /\ UNCHANGED <<nextIndex, openTextIndex, openThinkingIndex, seenText,
                       emittedSignature>>
    BY <1>9 DEF ThinkingChunk, read
  <2>2. ~opens /\ openTextIndex = NoBlock
    BY <1>1, <1>2, <1>5, <1>9 DEF BlocksInv
  <2>3. Types' /\ BlocksInv'
    BY <1>1, <1>2, <1>5, <1>6, <1>7, <2>1, <2>2 DEF Types, BlocksInv
  <2>4. OpenIndex' = OpenIndex /\ OpenKind' = OpenKind
    BY <1>2, <1>7, <2>1, <2>2 DEF OpenIndex, OpenKind
  <2>5. t = shown
    BY <1>2, <1>9, <2>2, NoText
  <2>6. Plays(<< >>, Reader("message", OpenIndex, OpenKind, nextIndex, shown),
                     Reader("message", OpenIndex, OpenKind, nextIndex, shown))
    BY <1>1, CommitPlays, PlaysTypes, PlaysNone
  <2> QED BY <1>8, <2>1, <2>3, <2>4, <2>5, <2>6, ChunkKeeps
<1>10. CASE ~(read.delta = << >> /\ ~sign)
  <2>1. /\ index < MaxBlocks /\ Chunk(close \o start \o delta \o signs)
        /\ openTextIndex' = NoBlock
        /\ seenText' = IF openTextIndex # NoBlock THEN << >> ELSE seenText
        /\ openThinkingIndex' = index
        /\ nextIndex' = IF opens THEN nextIndex + 1 ELSE nextIndex
        /\ emittedSignature' = (emittedSignature \/ sign)
    BY <1>10 DEF ThinkingChunk, read
  <2>2. /\ nextIndex \in 0 .. MaxBlocks /\ nextIndex' \in 0 .. MaxBlocks
        /\ index \in 0 .. MaxBlocks /\ index # NoBlock /\ index \in Indices
        /\ NoBlock \in Indices
    BY <1>2, <2>1, StreamAssumption DEF Types, Indices, NoBlock
  <2>3. seenText' = << >> /\ emittedSignature' \in BOOLEAN
    BY <1>2, <2>1 DEF BlocksInv, Types
  <2>4. Types'
    BY <1>1, <1>2, <1>5, <1>6, <1>7, <2>1, <2>2, <2>3, NoText DEF Types
  <2>5. BlocksInv'
    BY <1>1, <1>7, <2>1, <2>2, <2>3 DEF BlocksInv
  <2>6. OpenIndex' = index /\ OpenKind' = "thinking"
    BY <1>7, <2>1 DEF OpenIndex, OpenKind
  <2>7. Plays(close \o start,
              Reader("message", OpenIndex, OpenKind, nextIndex, shown),
              Reader("message", index, "thinking", nextIndex', had))
    <3>1. CASE opens
      <4>1. Plays(close, Reader("message", OpenIndex, OpenKind, nextIndex, shown),
                         Reader("message", NoBlock, "none", nextIndex, shown))
        <5>1. CASE openTextIndex # NoBlock
          BY <5>1, <1>1, <1>2, ClosePlays
        <5>2. CASE openTextIndex = NoBlock
          <6>1. OpenIndex = NoBlock /\ OpenKind = "none"
            BY <5>2, <3>1, <1>1, <1>2 DEF OpenIndex, OpenKind, BlocksInv
          <6> QED BY <5>2, <6>1, <1>1, CommitPlays, PlaysTypes, PlaysNone
        <5> QED BY <5>1, <5>2
      <4>2. Plays(start, Reader("message", NoBlock, "none", nextIndex, shown),
                         Reader("message", index, "thinking", nextIndex + 1, << >>))
        BY <3>1, <2>1, <2>2, <1>2, StartPlays DEF BlockKinds
      <4>3. had = << >> /\ nextIndex' = nextIndex + 1
        BY <3>1, <2>1
      <4> HIDE DEF close, start, index, had
      <4> QED BY <4>1, <4>2, <4>3, PlaysConcat
    <3>2. CASE ~opens
      <4>1. openTextIndex = NoBlock /\ OpenIndex = index /\ OpenKind = "thinking"
            /\ nextIndex' = nextIndex /\ had = shown
        BY <3>2, <2>1, <1>1, <1>2 DEF OpenIndex, OpenKind, BlocksInv
      <4>2. close = << >> /\ start = << >> /\ << >> \o << >> = << >>
        BY <3>2, <4>1
      <4> HIDE DEF close, start, index, had
      <4> QED BY <4>1, <4>2, <1>1, CommitPlays, PlaysTypes, PlaysNone
    <3> QED BY <3>1, <3>2
  <2>8. Plays(delta, Reader("message", index, "thinking", nextIndex', had),
                     Reader("message", index, "thinking", nextIndex', t))
    <3>1. CASE read.delta # << >>
      BY <3>1, <1>3, <1>5, <2>2, DeltaPlays DEF BlockKinds
    <3>2. CASE read.delta = << >>
      <4>1. delta = << >> /\ t = had
        BY <3>2, <1>3, NoText
      <4> HIDE DEF delta, index, had
      <4> QED BY <4>1, <2>7, PlaysTypes, PlaysNone
    <3> QED BY <3>1, <3>2
  <2>9. Plays(signs, Reader("message", index, "thinking", nextIndex', t),
                     Reader("message", index, "thinking", nextIndex', t))
    <3>1. CASE sign
      <4>1. t \in Texts /\ t \o << >> = t /\ << >> \in Texts
        BY <1>5, NoText
      <4> QED BY <3>1, <4>1, <2>2, DeltaPlays DEF BlockKinds
    <3>2. CASE ~sign
      <4>1. signs = << >>
        BY <3>2
      <4> HIDE DEF signs, index, delta
      <4> QED BY <4>1, <2>8, PlaysTypes, PlaysNone
    <3> QED BY <3>1, <3>2
  <2> HIDE DEF close, start, delta, signs, index, had
  <2>10. Plays(((close \o start) \o delta) \o signs,
               Reader("message", OpenIndex, OpenKind, nextIndex, shown),
               Reader("message", index, "thinking", nextIndex', t))
    BY <2>7, <2>8, <2>9, PlaysConcat
  <2> QED BY <1>8, <2>1, <2>4, <2>5, <2>6, <2>10, ChunkKeeps
<1> QED BY <1>9, <1>10

-----------------------------------------------------------------------------
(* The end of the upstream request, and the writing.                       *)

LEMMA EndKeeps == ASSUME StreamInv, UpstreamEnds PROVE StreamInv'
<1> DEFINE tail == << Marker("message_delta"), Marker("message_stop") >>
           last == Reader("complete", NoBlock, "none", nextIndex, shown)
<1>1. /\ pc = "stream" /\ pc' = "finish" /\ CloseBlocks
      /\ todo' = (CommitEvents \o CloseEvents) \o tail
      /\ UNCHANGED <<stage, emitted, committed, nextIndex, canceled, client, shown, upstream>>
  BY DEF UpstreamEnds
<1>2. /\ openTextIndex' = NoBlock /\ openThinkingIndex' = NoBlock
      /\ seenText' = << >> /\ seenThinking' = << >> /\ emittedSignature' = FALSE
  BY <1>1 DEF CloseBlocks, StreamInv, BlocksInv, Types
<1>3. Types' /\ BlocksInv' /\ Heard'
  <2>1. NoBlock \in Indices
    BY StreamAssumption DEF Indices, NoBlock
  <2> QED BY <1>1, <1>2, <2>1, NoText DEF StreamInv, Types, BlocksInv, Heard
<1>4. shown \in Texts /\ nextIndex \in 0 .. MaxBlocks
  BY <1>1, Waiting DEF StreamInv, Types
<1>5. Plays(tail, Reader("message", NoBlock, "none", nextIndex, shown), last)
  <2>1. Plays(<< Marker("message_delta") >>,
              Reader("message", NoBlock, "none", nextIndex, shown),
              Reader("closing", NoBlock, "none", nextIndex, shown))
    BY <1>4, MarkerPlays
  <2>2. Plays(<< Marker("message_stop") >>,
              Reader("closing", NoBlock, "none", nextIndex, shown), last)
    BY <1>4, MarkerPlays
  <2>3. tail = << Marker("message_delta") >> \o << Marker("message_stop") >>
    OBVIOUS
  <2> HIDE DEF tail, last
  <2> QED BY <2>1, <2>2, <2>3, PlaysConcat
<1> HIDE DEF tail, last
<1>6. Plays((CommitEvents \o CloseEvents) \o tail, Now, last)
  BY <1>1, <1>4, <1>5, CommitPlays, ClosePlays, PlaysConcat
<1> PICK q : q = last
  OBVIOUS
<1>7. Plays(todo, Now, q)' /\ Agrees(q)'
  BY <1>1, <1>6 DEF Now, Agrees
<1> QED BY <1>3, <1>7 DEF StreamInv

LEMMA FailKeeps == ASSUME StreamInv, UpstreamFails PROVE StreamInv'
<1>1. /\ pc = "stream" /\ pc' = "error"
      /\ todo' = << Marker(IF committed THEN "error" ELSE "http_error") >>
      /\ UNCHANGED <<stage, emitted, committed, blockVars, canceled, client, shown, upstream>>
  BY DEF UpstreamFails
<1>2. Types' /\ BlocksInv' /\ Heard'
  BY <1>1 DEF StreamInv, Types, BlocksInv, Heard, blockVars
<1>3. nextIndex \in 0 .. MaxBlocks
  BY DEF StreamInv, Types
<1>4. PICK q : Plays(todo', Now, q)
  <2>1. CASE committed
    <3>1. Now \in Readers /\ Now.client.phase = "message"
      BY <1>1, <2>1, Waiting DEF Reader
    <3> QED BY <3>1, <2>1, <1>1, ErrorPlays
  <2>2. CASE ~committed
    <3>1. /\ Now = Reader("silent", NoBlock, "none", nextIndex, shown)
          /\ shown \in Texts
      BY <1>1, <2>2, Waiting
    <3> QED BY <3>1, <2>2, <1>1, <1>3, MarkerPlays
  <2> QED BY <2>1, <2>2
<1>5. Plays(todo, Now, q)' /\ Agrees(q)'
  BY <1>1, <1>4 DEF Now, Agrees
<1> QED BY <1>2, <1>5 DEF StreamInv

LEMMA WriteKeeps == ASSUME StreamInv, WriteEvent PROVE StreamInv'
<1> DEFINE e == Head(todo)
<1>1. PICK q : Plays(todo, Now, q) /\ Agrees(q)
  BY DEF StreamInv
<1>2. /\ todo # << >> /\ client' = Receive(client, e)
      /\ shown' = IF e.type = "content_block_start" THEN << >> ELSE shown \o e.text
      /\ committed' = (committed \/ e.type = "message_start")
      /\ todo' = Tail(todo)
      /\ UNCHANGED <<pc, stage, emitted, blockVars, canceled, upstream>>
  BY DEF WriteEvent
<1>3. e \in Events /\ Legal(client, e) /\ Plays(Tail(todo), Reads(Now, e), q)
  BY <1>1, <1>2, PlaysHead DEF Now
<1>4. Now' = Reads(Now, e)
  BY <1>2, <1>3 DEF Now, Reads, Receive
<1>5. Types' /\ BlocksInv'
  <2>1. pc \notin {"stream", "done"}
    BY <1>2 DEF StreamInv, BlocksInv
  <2> QED BY <1>2, <2>1 DEF StreamInv, Types, BlocksInv, blockVars
<1>6. Heard'
  <2>1. Heard /\ committed \in BOOLEAN
    BY DEF StreamInv, Types
  <2>2. client' = Understood(client, e)
    BY <1>2, <1>3 DEF Receive
  <2>3. client \in Clients
    BY <1>1, PlaysTypes DEF Now, Readers
  <2> HIDE DEF e
  <2>4. CASE e.type = "message_start"
    BY <2>1, <2>2, <2>3, <2>4, <1>2 DEF Understood, Heard, Clients
  <2>5. CASE e.type \in {"http_error", "error"}
    BY <2>1, <2>2, <2>3, <2>5, <1>2 DEF Understood, Heard, Clients
  <2>6. CASE e.type \in {"content_block_start", "content_block_delta", "content_block_stop"}
    <3>1. client'.phase = client.phase
      BY <2>2, <2>3, <2>6 DEF Understood, Clients
    <3> QED BY <3>1, <2>1, <2>6, <1>2 DEF Heard
  <2>7. CASE e.type \in {"message_delta", "message_stop"}
    <3>1. committed
      BY <2>1, <2>7, <1>3 DEF Legal, Heard
    <3>2. client'.phase \in {"closing", "complete"}
      BY <2>2, <2>3, <2>7 DEF Understood, Clients
    <3> QED BY <3>1, <3>2, <1>2 DEF Heard
  <2> QED BY <2>4, <2>5, <2>6, <2>7, <1>3 DEF Events
<1>7. Agrees(q)'
  <2>1. pc # "stream"
    BY <1>2 DEF StreamInv, BlocksInv
  <2> QED BY <1>1, <1>2, <2>1
          DEF Agrees, Caught, Kept, Seen, OpenIndex, OpenKind, blockVars
<1>8. Plays(todo, Now, q)'
  BY <1>2, <1>3, <1>4
<1> QED BY <1>5, <1>6, <1>7, <1>8 DEF StreamInv

LEMMA WrittenKeeps == ASSUME StreamInv, Written PROVE StreamInv'
<1>1. PICK q : Plays(todo, Now, q) /\ Agrees(q)
  BY DEF StreamInv
<1>2. /\ pc \in {"chunk", "finish", "error"} /\ todo = << >>
      /\ pc' = IF pc = "chunk" THEN "stream" ELSE "done"
      /\ UNCHANGED <<stage, emitted, committed, blockVars, todo, canceled, client, shown,
                     upstream>>
  BY DEF Written
<1>3. Types' /\ BlocksInv' /\ Heard'
  BY <1>2 DEF StreamInv, Types, BlocksInv, Heard, blockVars
<1>4. Agrees(q)'
  BY <1>1, <1>2 DEF Agrees, Caught, Kept, Seen, OpenIndex, OpenKind, blockVars
<1>5. Plays(todo, Now, q)'
  BY <1>1, <1>2 DEF Now
<1> QED BY <1>3, <1>4, <1>5 DEF StreamInv

(* The write that fails leaves the client with what it has.                *)
LEMMA StopsKeep ==
  ASSUME StreamInv, WriteFails \/ StreamCanceled PROVE StreamInv'
<1>1. PICK q : Plays(todo, Now, q)
  BY DEF StreamInv
<1>2. /\ pc' = "done" /\ todo' = << >>
      /\ UNCHANGED <<stage, emitted, committed, blockVars, canceled, client, shown, upstream>>
      \/ /\ pc = "stream" /\ pc' = "done"
         /\ UNCHANGED <<stage, emitted, committed, blockVars, todo, canceled, client, shown,
                        upstream>>
  BY DEF WriteFails, StreamCanceled
<1>3. todo' = << >> /\ pc' = "done"
      /\ UNCHANGED <<stage, emitted, committed, blockVars, canceled, client, shown, upstream>>
  BY <1>2 DEF StreamInv, BlocksInv
<1>4. Types' /\ BlocksInv' /\ Heard'
  BY <1>3 DEF StreamInv, Types, BlocksInv, Heard, blockVars
<1>5. Plays(<< >>, Now, Now)
  BY <1>1, PlaysTypes, PlaysNone
<1> PICK p : p = Now
  OBVIOUS
<1>6. Plays(todo, Now, p)' /\ Agrees(p)'
  BY <1>3, <1>5 DEF Now, Agrees
<1> QED BY <1>4, <1>6 DEF StreamInv

(* A fallback meets a client that has nothing of the answer given up.      *)
LEMMA FallbackKeeps == ASSUME StreamInv, SignatureFallback PROVE StreamInv'
<1>1. PICK q : Plays(todo, Now, q) /\ Agrees(q)
  BY DEF StreamInv
<1>2. /\ ~emitted /\ pc = "stream" /\ stage < 2 /\ stage' = stage + 1 /\ emitted' = FALSE
      /\ upstream' \in Unanswered
      /\ UNCHANGED <<pc, committed, blockVars, todo, canceled, client, shown>>
  BY Zenon DEF SignatureFallback, StartOver
<1>3. upstream.kind = "none" /\ upstream'.kind = "none"
  BY <1>2 DEF StreamInv, BlocksInv, Unanswered
<1>4. Types'
  <2>1. upstream' \in [kind : Kinds, text : Texts, cumulative : BOOLEAN]
    BY <1>2, NoText DEF Unanswered, Kinds
  <2>2. stage' \in 0 .. 2
    BY <1>2 DEF StreamInv, Types
  <2> QED BY <1>2, <2>1, <2>2 DEF StreamInv, Types, blockVars
<1>5. BlocksInv' /\ Heard'
  BY <1>2, <1>3 DEF StreamInv, BlocksInv, Heard, blockVars
<1>6. Agrees(q)'
  BY <1>1, <1>2, <1>3 DEF Agrees, Caught, OpenIndex, OpenKind, blockVars
<1>7. Plays(todo, Now, q)'
  BY <1>1, <1>2 DEF Now
<1> QED BY <1>4, <1>5, <1>6, <1>7 DEF StreamInv

(* The steps that change neither the blocks nor what is to be written.     *)
LEMMA AsideKeeps ==
  ASSUME StreamInv, Cancel \/ UNCHANGED vars PROVE StreamInv'
<1>1. PICK q : Plays(todo, Now, q) /\ Agrees(q)
  BY DEF StreamInv
<1>2. /\ stage' \in 0 .. 2 /\ canceled' \in BOOLEAN
      /\ UNCHANGED <<pc, emitted, committed, blockVars, todo, client, shown, upstream>>
  <2>1. stage \in 0 .. 2 /\ canceled \in BOOLEAN
    BY DEF StreamInv, Types
  <2>3. CASE Cancel
    BY <2>1, <2>3, Zenon DEF Cancel
  <2>4. CASE UNCHANGED vars
    BY <2>1, <2>4 DEF vars
  <2> QED BY <2>3, <2>4
<1>3. Types' /\ BlocksInv' /\ Heard'
  BY <1>2 DEF StreamInv, Types, BlocksInv, Heard, blockVars
<1>4. Agrees(q)'
  BY <1>1, <1>2 DEF Agrees, Caught, Kept, Seen, OpenIndex, OpenKind, blockVars
<1>5. Plays(todo, Now, q)'
  BY <1>1, <1>2 DEF Now
<1> QED BY <1>3, <1>4, <1>5 DEF StreamInv

LEMMA StreamInvHolds == Spec => []StreamInv
<1>1. Init => StreamInv
  BY InitStream
<1>2. ASSUME StreamInv, [Next]_vars PROVE StreamInv'
  <2>1. CASE UpstreamChunk
    BY <1>2, <2>1, MetadataKeeps, ToolUseKeeps, ThinkingKeeps, TextKeeps DEF UpstreamChunk
  <2>2. CASE UpstreamEnds
    BY <1>2, <2>2, EndKeeps
  <2>3. CASE UpstreamFails
    BY <1>2, <2>3, FailKeeps
  <2>4. CASE WriteEvent
    BY <1>2, <2>4, WriteKeeps
  <2>5. CASE Written
    BY <1>2, <2>5, WrittenKeeps
  <2>6. CASE WriteFails \/ StreamCanceled
    BY <1>2, <2>6, StopsKeep
  <2>7. CASE SignatureFallback
    BY <1>2, <2>7, FallbackKeeps
  <2>8. CASE Cancel \/ UNCHANGED vars
    BY <1>2, <2>8, AsideKeeps
  <2> QED BY <1>2, <2>1, <2>2, <2>3, <2>4, <2>5, <2>6, <2>7, <2>8 DEF Next
<1> QED BY <1>1, <1>2, PTL DEF Spec

-----------------------------------------------------------------------------
(* Every event is one the protocol allows where it comes: writeThinking-   *)
(* Delta, writeTextDelta, the tool events and closeOpenBlocks keep the     *)
(* client's blocks numbered, one at a time, and closed at the end.         *)
THEOREM ClientAlwaysFollows == Spec => []ClientFollows
<1>1. StreamInv => ClientFollows
  <2>1. ASSUME StreamInv PROVE client \in Clients
    BY <2>1, PlaysTypes DEF StreamInv, Now, Readers
  <2> QED BY <2>1 DEF ClientFollows, Clients
<1> QED BY <1>1, StreamInvHolds, PTL

(* anthropicTextDelta loses and repeats nothing of cumulative chunks.      *)
THEOREM CumulativeTextReachesTheClient == Spec => []CumulativeTextIsExact
<1>1. ASSUME StreamInv, upstream.cumulative, pc = "stream",
             upstream.kind \in {"text", "thinking"}
      PROVE  shown = upstream.text
  BY <1>1, Waiting DEF Caught, Kept
<1>2. StreamInv => CumulativeTextIsExact
  BY <1>1 DEF CumulativeTextIsExact, TextIsExact
<1> QED BY <1>2, StreamInvHolds, PTL

(* The handler's and the client's state stay typed: block numbers within   *)
(* the bound, texts within what the upstream sent.                         *)
THEOREM AnthropicTypeCorrect == Spec => []TypeOK
<1>1. ASSUME StreamInv PROVE TypeOK
  <2>1. PICK q : Plays(todo, Now, q)
    BY <1>1 DEF StreamInv
  <2>2. todo \in Seq(Events) /\ client \in Clients /\ shown \in Texts
    BY <2>1, PlaysTypes DEF Now, Readers
  <2>3. \A i \in DOMAIN todo : todo[i].text \in Texts /\ todo[i].index \in Indices
    <3>1. ASSUME NEW i \in DOMAIN todo PROVE todo[i] \in Events
      BY <2>2, LenProperties
    <3> QED BY <3>1 DEF Events
  <2>4. client.open \in Indices /\ client.next \in 0 .. MaxBlocks
    BY <2>2 DEF Clients
  <2> QED BY <1>1, <2>2, <2>3, <2>4 DEF StreamInv, Types, TypeOK
<1> QED BY <1>1, StreamInvHolds, PTL

(***************************************************************************)
(* The token counts.                                                       *)
(***************************************************************************)
Count == 0 .. MaxInt

Usages ==
  [prompt : Count, candidates : Count, thoughts : Count, toolUse : Count, total : Count,
   exact : SUBSET AllExact]

-----------------------------------------------------------------------------
(* The arithmetic of the counts.                                           *)

LEMMA CountsAreNumbers ==
  /\ Count \subseteq Nat /\ 0 \in Count /\ MaxInt \in Count
  /\ \A n \in Nat : n <= MaxInt => n \in Count
  /\ \A n \in Count : n <= MaxInt
  BY UsageAssumption DEF Count

LEMMA AddIsBounded ==
  ASSUME NEW a \in Nat, NEW b \in Nat
  PROVE  /\ SaturatingTokenAdd(a, b) = MinInt(a + b, MaxInt)
         /\ SaturatingTokenAdd(a, b) \in Count
  BY UsageAssumption DEF SaturatingTokenAdd, MinInt, Count

LEMMA SumsAreCounts ==
  ASSUME NEW r \in Usages
  PROVE  /\ Input(r) = MinInt(r.prompt + r.toolUse, MaxInt)
         /\ Output(r) = MinInt(r.candidates + r.thoughts, MaxInt)
         /\ Whole(r) = MinInt(r.prompt + r.toolUse + r.candidates + r.thoughts, MaxInt)
         /\ Input(r) \in Count /\ Output(r) \in Count /\ Whole(r) \in Count
PROOF
  <1>1. /\ r.prompt \in Count /\ r.toolUse \in Count
        /\ r.candidates \in Count /\ r.thoughts \in Count
    BY DEF Usages
  <1>2. Input(r) = MinInt(r.prompt + r.toolUse, MaxInt) /\ Input(r) \in Count
    BY <1>1, AddIsBounded, CountsAreNumbers DEF Input
  <1>3. Output(r) = MinInt(r.candidates + r.thoughts, MaxInt) /\ Output(r) \in Count
    BY <1>1, AddIsBounded, CountsAreNumbers DEF Output
  <1>4. Whole(r) = MinInt(Input(r) + Output(r), MaxInt) /\ Whole(r) \in Count
    <2>1. Input(r) \in Nat /\ Output(r) \in Nat
      BY <1>2, <1>3, CountsAreNumbers
    <2> QED BY <2>1, AddIsBounded DEF Whole
  <1>5. Whole(r) = MinInt(r.prompt + r.toolUse + r.candidates + r.thoughts, MaxInt)
    <2>1. ASSUME NEW p \in Nat, NEW t \in Nat, NEW c \in Nat, NEW h \in Nat
          PROVE  MinInt(MinInt(p + t, MaxInt) + MinInt(c + h, MaxInt), MaxInt)
                   = MinInt(p + t + c + h, MaxInt)
      BY UsageAssumption DEF MinInt
    <2>2. r.prompt \in Nat /\ r.toolUse \in Nat /\ r.candidates \in Nat /\ r.thoughts \in Nat
      BY <1>1, CountsAreNumbers
    <2> QED BY <1>2, <1>3, <1>4, <2>1, <2>2
  <1> QED BY <1>2, <1>3, <1>4, <1>5

-----------------------------------------------------------------------------
(* The steps of the resolution.                                            *)

LEMMA ValueIsCount ==
  ASSUME NEW metadata \in Metadata, NEW c \in Counters, NEW otherwise \in Count
  PROVE  /\ ValueOr(metadata, c, otherwise) \in Count
         /\ Usable(metadata, c) => ValueOr(metadata, c, otherwise) = Value(metadata, c)
         /\ Usable(metadata, c) => Value(metadata, c) \in Count
PROOF
  <1>1. Usable(metadata, c) => metadata[c] \in Nat
    BY UsageAssumption DEF Usable, Reported, Metadata
  <1> QED BY <1>1, UsageAssumption DEF ValueOr, Value, Count

LEMMA InitialFacts ==
  ASSUME NEW estimate \in Estimates, NEW metadata \in Metadata
  PROVE  /\ Initial(estimate, metadata) \in Usages
         /\ Initial(estimate, metadata).prompt = ValueOr(metadata, "prompt", estimate.prompt)
         /\ Initial(estimate, metadata).candidates = ValueOr(metadata, "candidates", estimate.candidates)
         /\ Initial(estimate, metadata).thoughts = ValueOr(metadata, "thoughts", estimate.reasoning)
         /\ Initial(estimate, metadata).toolUse = ValueOr(metadata, "toolUse", 0)
         /\ Initial(estimate, metadata).total = ValueOr(metadata, "total", 0)
         /\ \A c \in {"prompt", "candidates", "thoughts", "total"} :
              c \in Initial(estimate, metadata).exact <=> Usable(metadata, c)
PROOF
  <1>1. /\ estimate.prompt \in Count /\ estimate.candidates \in Count /\ estimate.reasoning \in Count
        /\ 0 \in Count
    BY UsageAssumption DEF Estimates, Count
  <1>2. \A c \in {"prompt", "candidates", "thoughts", "toolUse", "total"} : c \in Counters
    BY DEF Counters, Parts
  <1>3. /\ ValueOr(metadata, "prompt", estimate.prompt) \in Count
        /\ ValueOr(metadata, "candidates", estimate.candidates) \in Count
        /\ ValueOr(metadata, "thoughts", estimate.reasoning) \in Count
        /\ ValueOr(metadata, "toolUse", 0) \in Count
        /\ ValueOr(metadata, "total", 0) \in Count
    BY <1>1, <1>2, ValueIsCount
  <1>4. Initial(estimate, metadata).exact \subseteq AllExact
    BY DEF Initial, AllExact, Parts
  <1>5. \A c \in {"prompt", "candidates", "thoughts", "total"} :
          c \in Initial(estimate, metadata).exact <=> Usable(metadata, c)
    BY DEF Initial, Parts
  <1> QED BY <1>3, <1>4, <1>5 DEF Initial, Usages

(* What a step may change.                                                 *)
LEMMA WithoutTotalFacts ==
  ASSUME NEW r \in Usages, NEW metadata, NEW s, s = WithoutTotal(r, metadata)
  PROVE  /\ s \in Usages /\ s.total = Whole(r)
         /\ s.prompt = r.prompt /\ s.candidates = r.candidates
         /\ s.thoughts = r.thoughts /\ s.toolUse = r.toolUse
PROOF
  <1>1. Whole(r) \in Count
    BY SumsAreCounts
  <1> DEFINE exact == r.exact \cup (IF ~Reported(metadata, "thoughts") /\ r.thoughts = 0
                                      THEN {"thoughts"} ELSE {})
             final == exact \cup (IF Parts \subseteq exact THEN {"total"} ELSE {})
  <1>2. final \subseteq AllExact
    BY DEF Usages, AllExact, Parts
  <1>3. s = [r EXCEPT !.total = Whole(r), !.exact = final]
    BY DEF WithoutTotal
  <1> HIDE DEF final
  <1> QED BY <1>1, <1>2, <1>3 DEF Usages

LEMMA SplitOutputFacts ==
  ASSUME NEW r \in Usages, NEW s, s = SplitOutput(r)
  PROVE  /\ s \in Usages
         /\ s.prompt = r.prompt /\ s.total = r.total /\ s.toolUse = r.toolUse
         /\ "candidates" \in r.exact => s.candidates = r.candidates
         /\ "thoughts" \in r.exact => s.thoughts = r.thoughts
PROOF
  <1> DEFINE output == NonNegativeTokenDifference(
                         NonNegativeTokenDifference(r.total, r.prompt), r.toolUse)
             thoughts == MinInt(r.thoughts, output)
  <1>1. /\ r.prompt \in Count /\ r.toolUse \in Count /\ r.total \in Count
        /\ r.candidates \in Count /\ r.thoughts \in Count /\ r.exact \subseteq AllExact
    BY DEF Usages
  <1>2. output \in Count
    BY <1>1, UsageAssumption DEF NonNegativeTokenDifference, Count
  <1>3. /\ thoughts \in Count /\ output - thoughts \in Count
        /\ NonNegativeTokenDifference(output, r.candidates) \in Count
        /\ NonNegativeTokenDifference(output, r.thoughts) \in Count
    <2> HIDE DEF output
    <2> QED BY <1>1, <1>2, UsageAssumption DEF NonNegativeTokenDifference, MinInt, Count
  <1>4. "thoughts" \in AllExact /\ "candidates" \in AllExact
    BY DEF AllExact, Parts
  <1>5. s =
          CASE "candidates" \in r.exact /\ "thoughts" \in r.exact -> r
            [] "candidates" \in r.exact /\ "thoughts" \notin r.exact ->
                 [r EXCEPT !.thoughts = NonNegativeTokenDifference(output, r.candidates),
                           !.exact = @ \cup {"thoughts"}]
            [] "candidates" \notin r.exact /\ "thoughts" \in r.exact ->
                 [r EXCEPT !.candidates = NonNegativeTokenDifference(output, r.thoughts),
                           !.exact = @ \cup {"candidates"}]
            [] OTHER -> [r EXCEPT !.thoughts = thoughts, !.candidates = output - thoughts]
    BY DEF SplitOutput
  <1> HIDE DEF output, thoughts
  <1>6. CASE "candidates" \in r.exact /\ "thoughts" \in r.exact
    BY <1>5, <1>6
  <1>7. CASE "candidates" \in r.exact /\ "thoughts" \notin r.exact
    BY <1>3, <1>4, <1>5, <1>7 DEF Usages
  <1>8. CASE "candidates" \notin r.exact /\ "thoughts" \in r.exact
    BY <1>3, <1>4, <1>5, <1>8 DEF Usages
  <1>9. CASE "candidates" \notin r.exact /\ "thoughts" \notin r.exact
    BY <1>3, <1>5, <1>9 DEF Usages
  <1> QED BY <1>6, <1>7, <1>8, <1>9

(* A total above the sum of its parts is not saturated, and its excess has *)
(* its place in one of them.                                               *)
LEMMA ExcessFits ==
  ASSUME NEW p \in Nat, NEW t \in Nat, NEW c \in Nat, NEW h \in Nat, NEW n \in Nat,
         n <= MaxInt, NEW w, w = MinInt(p + t + c + h, MaxInt), n > w
  PROVE  MinInt(p + (t + (n - w)) + c + h, MaxInt) = n
PROOF
  <1>1. w = p + t + c + h
    BY UsageAssumption DEF MinInt
  <1> QED BY <1>1, UsageAssumption DEF MinInt

LEMMA FitTotalFacts ==
  ASSUME NEW r \in Usages, NEW s, s = FitTotal(r)
  PROVE  /\ s \in Usages /\ s.total = Whole(s)
         /\ s.prompt = r.prompt /\ s.candidates = r.candidates /\ s.thoughts = r.thoughts
         /\ s.toolUse >= r.toolUse /\ s.total >= r.total
PROOF
  <1>1. /\ r.prompt \in Count /\ r.toolUse \in Count /\ r.total \in Count
        /\ r.candidates \in Count /\ r.thoughts \in Count /\ r.exact \subseteq AllExact
    BY DEF Usages
  <1>2. Whole(r) = MinInt(r.prompt + r.toolUse + r.candidates + r.thoughts, MaxInt)
          /\ Whole(r) \in Count
    BY SumsAreCounts
  <1>0. /\ r.prompt \in Nat /\ r.toolUse \in Nat /\ r.candidates \in Nat /\ r.thoughts \in Nat
        /\ r.total \in Nat /\ r.total <= MaxInt
    BY <1>1, UsageAssumption DEF Count
  <1>3. CASE r.total > Whole(r)
    <2> DEFINE t == SaturatingTokenAdd(r.toolUse, r.total - Whole(r))
    <2>1. t = r.toolUse + (r.total - Whole(r)) /\ t \in Count /\ t >= r.toolUse
      <3>1. r.total - Whole(r) \in Nat /\ r.toolUse \in Nat
        BY <1>1, <1>2, <1>3, UsageAssumption DEF Count
      <3>2. t = MinInt(r.toolUse + (r.total - Whole(r)), MaxInt)
        BY <3>1, AddIsBounded
      <3>3. /\ r.toolUse + (r.total - Whole(r)) \in Nat
            /\ r.toolUse + (r.total - Whole(r)) >= r.toolUse
            /\ r.toolUse + (r.total - Whole(r)) <= MaxInt
            /\ MinInt(r.toolUse + (r.total - Whole(r)), MaxInt) = r.toolUse + (r.total - Whole(r))
        <4>1. Whole(r) = r.prompt + r.toolUse + r.candidates + r.thoughts
          BY <1>0, <1>2, <1>3, UsageAssumption DEF MinInt
        <4>2. Whole(r) \in Nat /\ r.toolUse + (r.total - Whole(r)) \in Nat
          BY <1>0, <1>2, <1>3, UsageAssumption DEF Count
        <4>3. /\ r.toolUse + (r.total - Whole(r)) >= r.toolUse
              /\ r.toolUse + (r.total - Whole(r)) <= MaxInt
          BY <1>0, <1>3, <4>1, <4>2, UsageAssumption
        <4> QED BY <4>2, <4>3, UsageAssumption DEF MinInt
      <3> HIDE DEF t
      <3> QED BY <1>0, <3>2, <3>3, UsageAssumption DEF Count
    <2>2. s = [r EXCEPT !.toolUse = t, !.exact = @ \ {"toolUse"}]
      BY <1>1, <1>2, <1>3, UsageAssumption DEF FitTotal, Count
    <2> HIDE DEF t
    <2>3. /\ s \in Usages /\ s.prompt = r.prompt /\ s.candidates = r.candidates
          /\ s.thoughts = r.thoughts /\ s.toolUse = t /\ s.total = r.total
      BY <2>1, <2>2 DEF Usages
    <2>4. Whole(s) = MinInt(s.prompt + s.toolUse + s.candidates + s.thoughts, MaxInt)
      BY <2>3, SumsAreCounts
    <2>5. s.total = Whole(s)
      <3>1. MinInt(r.prompt + (r.toolUse + (r.total - Whole(r))) + r.candidates + r.thoughts, MaxInt)
              = r.total
        BY <1>0, <1>2, <1>3, ExcessFits
      <3> QED BY <2>1, <2>3, <2>4, <3>1
    <2> QED BY <1>1, <2>1, <2>3, <2>5, UsageAssumption DEF Count
  <1>4. CASE r.total <= Whole(r)
    <2>1. s = [r EXCEPT !.total = Whole(r), !.exact = @ \ {"total"}] \/ (s = r /\ r.total = Whole(r))
      <3>1. CASE r.total < Whole(r)
        BY <1>1, <1>2, <3>1, UsageAssumption DEF Count, FitTotal
      <3>2. CASE r.total = Whole(r)
        BY <1>1, <1>2, <3>2, UsageAssumption DEF Count, FitTotal
      <3> QED BY <1>1, <1>2, <1>4, <3>1, <3>2, UsageAssumption DEF Count
    <2>2. /\ s \in Usages /\ s.prompt = r.prompt /\ s.candidates = r.candidates
          /\ s.thoughts = r.thoughts /\ s.toolUse = r.toolUse /\ s.total = Whole(r)
      BY <1>2, <2>1 DEF Usages
    <2>3. Whole(s) = Whole(r)
      BY <2>2 DEF Whole, Input, Output
    <2> QED BY <1>1, <1>2, <1>4, <2>2, <2>3, UsageAssumption DEF Count
  <1> QED BY <1>1, <1>2, <1>3, <1>4, UsageAssumption DEF Count

LEMMA PromptFromTotalFacts ==
  ASSUME NEW r \in Usages, NEW s, s = PromptFromTotal(r)
  PROVE  /\ s \in Usages /\ s.total = Whole(s)
         /\ s.candidates = r.candidates /\ s.thoughts = r.thoughts
         /\ s.toolUse = r.toolUse /\ s.total >= r.total
PROOF
  <1> DEFINE nonPrompt == SaturatingTokenAdd(r.toolUse, Output(r))
             exact == IF {"candidates", "thoughts", "toolUse"} \subseteq r.exact
                        THEN r.exact \cup {"prompt"} ELSE r.exact
  <1>1. /\ r.prompt \in Count /\ r.toolUse \in Count /\ r.total \in Count
        /\ r.candidates \in Count /\ r.thoughts \in Count /\ r.exact \subseteq AllExact
    BY DEF Usages
  <1>2. nonPrompt = MinInt(r.toolUse + Output(r), MaxInt) /\ nonPrompt \in Count
    BY <1>1, SumsAreCounts, CountsAreNumbers, AddIsBounded
  <1>3. Output(r) = MinInt(r.candidates + r.thoughts, MaxInt) /\ Output(r) \in Count
    BY SumsAreCounts
  <1>4. /\ r.total < nonPrompt =>
             s = [r EXCEPT !.prompt = 0, !.total = nonPrompt, !.exact = @ \ {"total", "prompt"}]
        /\ ~(r.total < nonPrompt) => s = [r EXCEPT !.prompt = r.total - nonPrompt, !.exact = exact]
    BY DEF PromptFromTotal
  <1>5. exact \subseteq AllExact
    BY <1>1 DEF AllExact, Parts
  <1> HIDE DEF nonPrompt, exact
  <1>6. CASE r.total < nonPrompt
    <2>1. /\ s \in Usages /\ s.prompt = 0 /\ s.candidates = r.candidates
          /\ s.thoughts = r.thoughts /\ s.toolUse = r.toolUse /\ s.total = nonPrompt
      BY <1>1, <1>2, <1>4, <1>6, CountsAreNumbers DEF Usages
    <2>2. Whole(s) = MinInt(s.prompt + s.toolUse + s.candidates + s.thoughts, MaxInt)
      BY <2>1, SumsAreCounts
    <2>3. s.total = Whole(s)
      BY <1>1, <1>2, <1>3, <2>1, <2>2, UsageAssumption DEF MinInt, Count
    <2> QED BY <1>1, <1>2, <1>6, <2>1, <2>3, UsageAssumption DEF Count
  <1>7. CASE ~(r.total < nonPrompt)
    <2>1. r.total - nonPrompt \in Count
      BY <1>1, <1>2, <1>7, UsageAssumption DEF Count
    <2>2. /\ s \in Usages /\ s.prompt = r.total - nonPrompt /\ s.candidates = r.candidates
          /\ s.thoughts = r.thoughts /\ s.toolUse = r.toolUse /\ s.total = r.total
      BY <1>1, <1>4, <1>5, <1>7, <2>1 DEF Usages
    <2>3. Whole(s) = MinInt(s.prompt + s.toolUse + s.candidates + s.thoughts, MaxInt)
      BY <2>2, SumsAreCounts
    <2>4. ASSUME NEW n \in Nat, NEW u \in Nat, NEW c \in Nat, NEW h \in Nat, NEW rest \in Nat,
                 n <= MaxInt, rest = MinInt(u + MinInt(c + h, MaxInt), MaxInt), rest <= n
          PROVE  n = MinInt((n - rest) + u + c + h, MaxInt)
      BY <2>4, UsageAssumption DEF MinInt
    <2>5. /\ r.total \in Nat /\ r.total <= MaxInt /\ nonPrompt <= r.total
          /\ r.toolUse \in Nat /\ r.candidates \in Nat /\ r.thoughts \in Nat
          /\ nonPrompt \in Nat
      BY <1>1, <1>2, <1>7, UsageAssumption DEF Count
    <2>6. PICK n, u, c, h : n = r.total /\ u = r.toolUse /\ c = r.candidates /\ h = r.thoughts
      OBVIOUS
    <2>7. nonPrompt = MinInt(u + MinInt(c + h, MaxInt), MaxInt)
      BY <1>2, <1>3, <2>6
    <2>8. n = MinInt((n - nonPrompt) + u + c + h, MaxInt)
      BY <2>4, <2>5, <2>6, <2>7
    <2>9. s.total = Whole(s)
      BY <2>2, <2>3, <2>6, <2>8
    <2> QED BY <1>1, <2>2, <2>9, UsageAssumption DEF Count
  <1> QED BY <1>6, <1>7

-----------------------------------------------------------------------------
(* The resolution.                                                         *)

LEMMA ResolvedAddsUp ==
  ASSUME NEW estimate \in Estimates, NEW metadata \in Metadata
  PROVE  /\ ResolveVertexUsage(estimate, metadata) \in Usages
         /\ ResolveVertexUsage(estimate, metadata).total
              = Whole(ResolveVertexUsage(estimate, metadata))
PROOF
  <1> DEFINE r == Initial(estimate, metadata)
             s == ResolveVertexUsage(estimate, metadata)
  <1>1. r \in Usages
    BY InitialFacts
  <1>2. /\ "total" \notin r.exact => s = WithoutTotal(r, metadata)
        /\ "total" \in r.exact /\ "prompt" \in r.exact => s = FitTotal(SplitOutput(r))
        /\ "total" \in r.exact /\ "prompt" \notin r.exact => s = PromptFromTotal(r)
    BY DEF ResolveVertexUsage
  <1> HIDE DEF r, s
  <1>3. CASE "total" \notin r.exact
    <2>1. s = WithoutTotal(r, metadata)
      BY <1>2, <1>3
    <2>2. /\ s \in Usages /\ s.total = Whole(r) /\ s.prompt = r.prompt
          /\ s.candidates = r.candidates /\ s.thoughts = r.thoughts /\ s.toolUse = r.toolUse
      BY <1>1, <2>1, WithoutTotalFacts
    <2>3. Whole(s) = Whole(r)
      BY <2>2 DEF Whole, Input, Output
    <2> QED BY <2>2, <2>3 DEF s
  <1>4. CASE "total" \in r.exact /\ "prompt" \in r.exact
    <2>1. s = FitTotal(SplitOutput(r)) /\ SplitOutput(r) \in Usages
      BY <1>1, <1>2, <1>4, SplitOutputFacts
    <2> QED BY <2>1, FitTotalFacts DEF s
  <1>5. CASE "total" \in r.exact /\ "prompt" \notin r.exact
    BY <1>1, <1>2, <1>5, PromptFromTotalFacts DEF s
  <1> QED BY <1>3, <1>4, <1>5

LEMMA ResolvedKeepsMeasured ==
  ASSUME NEW estimate \in Estimates, NEW metadata \in Metadata
  PROVE  KeepsMeasured(metadata, ResolveVertexUsage(estimate, metadata))
PROOF
  <1> DEFINE r == Initial(estimate, metadata)
             s == ResolveVertexUsage(estimate, metadata)
  <1>1. /\ r \in Usages
        /\ \A c \in {"prompt", "candidates", "thoughts", "total"} :
             c \in r.exact <=> Usable(metadata, c)
    BY InitialFacts
  <1>2. /\ "total" \notin r.exact => s = WithoutTotal(r, metadata)
        /\ "total" \in r.exact /\ "prompt" \in r.exact => s = FitTotal(SplitOutput(r))
        /\ "total" \in r.exact /\ "prompt" \notin r.exact => s = PromptFromTotal(r)
    BY DEF ResolveVertexUsage
  <1>3. /\ Usable(metadata, "prompt") => r.prompt = Value(metadata, "prompt")
        /\ Usable(metadata, "candidates") => r.candidates = Value(metadata, "candidates")
        /\ Usable(metadata, "thoughts") => r.thoughts = Value(metadata, "thoughts")
        /\ Usable(metadata, "toolUse") => r.toolUse = Value(metadata, "toolUse")
        /\ Usable(metadata, "total") => r.total = Value(metadata, "total")
    BY InitialFacts DEF ValueOr
  <1>4. /\ r.toolUse \in Nat /\ r.total \in Nat
    BY <1>1, CountsAreNumbers DEF Usages
  <1> HIDE DEF r, s
  <1>5. CASE "total" \notin r.exact
    <2>1. /\ s.prompt = r.prompt /\ s.candidates = r.candidates
          /\ s.thoughts = r.thoughts /\ s.toolUse = r.toolUse
      BY <1>1, <1>2, <1>5, WithoutTotalFacts
    <2> QED BY <1>1, <1>3, <1>4, <1>5, <2>1 DEF KeepsMeasured, s
  <1>6. CASE "total" \in r.exact /\ "prompt" \in r.exact
    <2> DEFINE q == SplitOutput(r)
    <2>1. /\ q \in Usages /\ q.prompt = r.prompt /\ q.total = r.total /\ q.toolUse = r.toolUse
          /\ "candidates" \in r.exact => q.candidates = r.candidates
          /\ "thoughts" \in r.exact => q.thoughts = r.thoughts
      BY <1>1, SplitOutputFacts
    <2>2. s = FitTotal(q)
      BY <1>2, <1>6
    <2> HIDE DEF q
    <2>3. /\ s.prompt = q.prompt /\ s.candidates = q.candidates /\ s.thoughts = q.thoughts
          /\ s.toolUse >= q.toolUse /\ s.total >= q.total
      BY <2>1, <2>2, FitTotalFacts
    <2> QED BY <1>1, <1>3, <1>4, <2>1, <2>3 DEF KeepsMeasured, s
  <1>7. CASE "total" \in r.exact /\ "prompt" \notin r.exact
    <2>1. /\ s.candidates = r.candidates /\ s.thoughts = r.thoughts
          /\ s.toolUse = r.toolUse /\ s.total >= r.total
      BY <1>1, <1>2, <1>7, PromptFromTotalFacts
    <2> QED BY <1>1, <1>3, <1>4, <1>7, <2>1 DEF KeepsMeasured, s
  <1> QED BY <1>5, <1>6, <1>7

-----------------------------------------------------------------------------
(* The usage of the OpenAI protocols.                                      *)

LEMMA ShareIsBounded ==
  ASSUME NEW r \in Usages, NEW estimate \in Estimates,
         estimate.candidates # 0, r.candidates # 0
  PROVE  ReasoningShare(r, estimate) \in Nat
PROOF
  <1> DEFINE all == SaturatingTokenAdd(estimate.candidates, estimate.reasoning)
             weighted == 2 * r.candidates * estimate.reasoning
             share == (weighted + all) \div (2 * all)
  <1>1. /\ estimate.candidates \in Nat \ {0} /\ estimate.reasoning \in Nat
        /\ estimate.candidates <= MaxInt /\ r.candidates \in Nat
    <2>1. estimate.candidates \in Count /\ estimate.reasoning \in Count /\ r.candidates \in Count
      BY DEF Usages, Estimates, Count
    <2> QED BY <2>1, UsageAssumption DEF Count
  <1>2. all \in Nat \ {0}
    BY <1>1, UsageAssumption DEF SaturatingTokenAdd
  <1>3. weighted \in Int
    BY <1>1
  <1> HIDE DEF all, weighted
  <1>4. share \in Int
    BY <1>2, <1>3
  <1>5. ReasoningShare(r, estimate) = MaxOf(1, MinInt(share, r.candidates))
    BY DEF ReasoningShare, all, weighted
  <1> HIDE DEF share
  <1> QED BY <1>1, <1>4, <1>5 DEF MaxOf, MinInt

LEMMA ReasoningIsOutput ==
  ASSUME NEW r \in Usages, NEW estimate \in Estimates
  PROVE  /\ ReasoningTokenDetails(r, estimate).tokens \in Count
         /\ ReasoningTokenDetails(r, estimate).tokens <= Output(r)
PROOF
  <1> DEFINE known == MinInt(r.thoughts, Output(r))
             exhausted == estimate.limited /\ estimate.candidates = 0 /\ r.thoughts > 0
             plus(n) == MinInt(SaturatingTokenAdd(known, n), Output(r))
             none == (estimate.reasoning = 0 /\ ~exhausted) \/ r.candidates = 0
             measured == {"thoughts", "candidates"} \subseteq r.exact
  <1>1. r.thoughts \in Count /\ r.candidates \in Count /\ Output(r) \in Count
    BY SumsAreCounts DEF Usages
  <1>2. known \in Count /\ known <= Output(r)
    BY <1>1, UsageAssumption DEF MinInt, Count
  <1>3. ASSUME NEW n \in Nat
        PROVE  plus(n) \in Count /\ plus(n) <= Output(r)
    <2>1. SaturatingTokenAdd(known, n) \in Count
      BY <1>2, AddIsBounded, CountsAreNumbers
    <2> HIDE DEF known
    <2> QED BY <1>1, <2>1, UsageAssumption DEF MinInt, Count
  <1>4. /\ none => ReasoningTokenDetails(r, estimate).tokens = known
        /\ ~none /\ ~measured => ReasoningTokenDetails(r, estimate).tokens = known
        /\ ~none /\ measured /\ estimate.candidates = 0 =>
             ReasoningTokenDetails(r, estimate).tokens = plus(r.candidates)
        /\ ~none /\ measured /\ estimate.candidates # 0 =>
             ReasoningTokenDetails(r, estimate).tokens = plus(ReasoningShare(r, estimate))
    BY DEF ReasoningTokenDetails
  <1>5. ~none /\ estimate.candidates # 0 => ReasoningShare(r, estimate) \in Nat
    BY ShareIsBounded
  <1>6. r.candidates \in Nat
    BY <1>1, CountsAreNumbers
  <1> HIDE DEF known, plus, none, measured
  <1> QED BY <1>2, <1>3, <1>4, <1>5, <1>6

OpenAICounts(u) ==
  /\ u.prompt \in Count /\ u.completion \in Count /\ u.total \in Count
  /\ u.cached \in Count /\ u.reasoning \in Count

LEMMA OpenAIAddsUp ==
  ASSUME NEW estimate \in Estimates, NEW metadata \in Metadata
  PROVE  AddsUp(OpenAIUsage(estimate, metadata)) /\ OpenAICounts(OpenAIUsage(estimate, metadata))
PROOF
  <1> DEFINE r == ResolveVertexUsage(estimate, metadata)
             reasoning == ReasoningTokenDetails(r, estimate)
             u == OpenAIUsage(estimate, metadata)
  <1>1. r \in Usages /\ r.total = Whole(r)
    BY ResolvedAddsUp
  <1>2. /\ u.prompt = Input(r) /\ u.completion = Output(r) /\ u.total = r.total
        /\ u.cached = MinInt(Cached(metadata), r.prompt) /\ u.reasoning = reasoning.tokens
    BY DEF OpenAIUsage
  <1> HIDE DEF r, u
  <1>3. reasoning.tokens \in Count /\ reasoning.tokens <= Output(r)
    BY <1>1, ReasoningIsOutput
  <1> HIDE DEF reasoning
  <1>4. Input(r) \in Count /\ Output(r) \in Count /\ r.prompt \in Count /\ r.toolUse \in Count
          /\ r.total \in Count /\ Input(r) = MinInt(r.prompt + r.toolUse, MaxInt)
    BY <1>1, SumsAreCounts DEF Usages
  <1>5. Cached(metadata) \in Count
    BY ValueIsCount, CountsAreNumbers DEF Cached, Counters
  <1>6. /\ MinInt(Cached(metadata), r.prompt) \in Count
        /\ MinInt(Cached(metadata), r.prompt) <= Input(r)
    BY <1>4, <1>5, UsageAssumption DEF MinInt, Count
  <1>7. u.total = SaturatingTokenAdd(u.prompt, u.completion)
    BY <1>1, <1>2 DEF Whole
  <1> QED BY <1>2, <1>3, <1>4, <1>6, <1>7 DEF AddsUp, OpenAICounts, u

(* Saturating addition is a minimum, so that its order does not matter.    *)
LEMMA CombinedAddsUp ==
  ASSUME NEW u, NEW v, AddsUp(u), AddsUp(v), OpenAICounts(u), OpenAICounts(v)
  PROVE  AddsUp(CombineOpenAIUsage(u, v))
PROOF
  <1> DEFINE w == CombineOpenAIUsage(u, v)
  <1>1. /\ \A c \in {"prompt", "completion", "total", "cached", "reasoning"} :
             w[c] = SaturatingTokenAdd(u[c], v[c])
    BY DEF CombineOpenAIUsage
  <1>2. /\ u.prompt \in Nat /\ u.completion \in Nat /\ u.total \in Nat
        /\ u.cached \in Nat /\ u.reasoning \in Nat
        /\ v.prompt \in Nat /\ v.completion \in Nat /\ v.total \in Nat
        /\ v.cached \in Nat /\ v.reasoning \in Nat
    BY CountsAreNumbers DEF OpenAICounts
  <1>3. /\ w.prompt = MinInt(u.prompt + v.prompt, MaxInt)
        /\ w.completion = MinInt(u.completion + v.completion, MaxInt)
        /\ w.total = MinInt(u.total + v.total, MaxInt)
        /\ w.cached = MinInt(u.cached + v.cached, MaxInt)
        /\ w.reasoning = MinInt(u.reasoning + v.reasoning, MaxInt)
    BY <1>1, <1>2, AddIsBounded
  <1>4. /\ u.total = MinInt(u.prompt + u.completion, MaxInt)
        /\ v.total = MinInt(v.prompt + v.completion, MaxInt)
    BY <1>2, AddIsBounded DEF AddsUp
  <1>5. w.cached <= w.prompt /\ w.reasoning <= w.completion
    BY <1>2, <1>3, UsageAssumption DEF MinInt, AddsUp
  <1>6. w.total = SaturatingTokenAdd(w.prompt, w.completion)
    <2>1. w.prompt \in Nat /\ w.completion \in Nat
      BY <1>2, <1>3, UsageAssumption DEF MinInt
    <2>2. SaturatingTokenAdd(w.prompt, w.completion) = MinInt(w.prompt + w.completion, MaxInt)
      BY <2>1, AddIsBounded
    <2> HIDE DEF w
    <2> QED BY <1>2, <1>3, <1>4, <2>2, UsageAssumption DEF MinInt
  <1> QED BY <1>5, <1>6 DEF AddsUp

-----------------------------------------------------------------------------
(* Exact counts do not depend on the estimates.                            *)

LEMMA SameUsage ==
  ASSUME NEW r \in Usages, NEW q \in Usages, r.prompt = q.prompt,
         r.candidates = q.candidates, r.thoughts = q.thoughts, r.toolUse = q.toolUse,
         r.total = q.total, r.exact = q.exact
  PROVE  r = q
  BY DEF Usages

(* Two starts of the resolution agree in what is exact in them.            *)
LEMMA InitialsAgree ==
  ASSUME NEW e \in Estimates, NEW f \in Estimates, NEW metadata \in Metadata,
         NEW i, NEW j, i = Initial(e, metadata), j = Initial(f, metadata)
  PROVE  /\ i \in Usages /\ j \in Usages
         /\ i.exact = j.exact /\ i.toolUse = j.toolUse /\ i.total = j.total
         /\ "prompt" \in i.exact => i.prompt = j.prompt
         /\ "candidates" \in i.exact => i.candidates = j.candidates
         /\ "thoughts" \in i.exact => i.thoughts = j.thoughts
         /\ ~Reported(metadata, "thoughts") => i.thoughts = e.reasoning /\ j.thoughts = f.reasoning
PROOF
  <1>1. i \in Usages /\ j \in Usages
    BY InitialFacts
  <1>2. i.exact = j.exact
    BY DEF Initial
  <1>3. \A c \in {"prompt", "candidates", "thoughts", "total"} : c \in i.exact <=> Usable(metadata, c)
    BY InitialFacts
  <1>4. /\ i.prompt = ValueOr(metadata, "prompt", e.prompt)
        /\ j.prompt = ValueOr(metadata, "prompt", f.prompt)
        /\ i.candidates = ValueOr(metadata, "candidates", e.candidates)
        /\ j.candidates = ValueOr(metadata, "candidates", f.candidates)
        /\ i.thoughts = ValueOr(metadata, "thoughts", e.reasoning)
        /\ j.thoughts = ValueOr(metadata, "thoughts", f.reasoning)
        /\ i.toolUse = j.toolUse /\ i.total = j.total
    BY InitialFacts
  <1> QED BY <1>1, <1>2, <1>3, <1>4 DEF ValueOr, Usable

LEMMA FitTotalExact ==
  ASSUME NEW r \in Usages
  PROVE  FitTotal(r).exact \subseteq r.exact
PROOF
  <1>1. r.total \in Int /\ Whole(r) \in Int
    <2>1. r.total \in Count /\ Whole(r) \in Count
      BY SumsAreCounts DEF Usages
    <2> QED BY <2>1, UsageAssumption DEF Count
  <1>2. CASE r.total > Whole(r)
    <2>1. FitTotal(r) = [r EXCEPT !.toolUse = SaturatingTokenAdd(@, r.total - Whole(r)),
                                  !.exact = @ \ {"toolUse"}]
      BY <1>1, <1>2 DEF FitTotal
    <2> QED BY <2>1 DEF Usages
  <1>3. CASE r.total < Whole(r)
    <2>1. FitTotal(r) = [r EXCEPT !.total = Whole(r), !.exact = @ \ {"total"}]
      BY <1>1, <1>3 DEF FitTotal
    <2> QED BY <2>1 DEF Usages
  <1>4. CASE r.total = Whole(r)
    BY <1>1, <1>4 DEF FitTotal
  <1> QED BY <1>1, <1>2, <1>3, <1>4

(* A usage with no part left to an estimate has nothing of it.             *)
LEMMA ResolvedAgree ==
  ASSUME NEW e \in Estimates, NEW f \in Estimates, NEW metadata \in Metadata, SameKinds(e, f),
         Parts \subseteq ResolveVertexUsage(e, metadata).exact
  PROVE  ResolveVertexUsage(e, metadata) = ResolveVertexUsage(f, metadata)
PROOF
  <1> DEFINE i == Initial(e, metadata)
             j == Initial(f, metadata)
             r == ResolveVertexUsage(e, metadata)
             q == ResolveVertexUsage(f, metadata)
  <1>1. /\ i \in Usages /\ j \in Usages
        /\ i.exact = j.exact /\ i.toolUse = j.toolUse /\ i.total = j.total
        /\ "prompt" \in i.exact => i.prompt = j.prompt
        /\ "candidates" \in i.exact => i.candidates = j.candidates
        /\ "thoughts" \in i.exact => i.thoughts = j.thoughts
        /\ ~Reported(metadata, "thoughts") => i.thoughts = e.reasoning /\ j.thoughts = f.reasoning
    BY InitialsAgree
  <1>2. /\ "total" \notin i.exact => r = WithoutTotal(i, metadata) /\ q = WithoutTotal(j, metadata)
        /\ "total" \in i.exact /\ "prompt" \in i.exact =>
             r = FitTotal(SplitOutput(i)) /\ q = FitTotal(SplitOutput(j))
        /\ "total" \in i.exact /\ "prompt" \notin i.exact =>
             r = PromptFromTotal(i) /\ q = PromptFromTotal(j)
    <2>1. /\ "total" \notin i.exact => r = WithoutTotal(i, metadata)
          /\ "total" \in i.exact /\ "prompt" \in i.exact => r = FitTotal(SplitOutput(i))
          /\ "total" \in i.exact /\ "prompt" \notin i.exact => r = PromptFromTotal(i)
      BY DEF ResolveVertexUsage
    <2>2. /\ "total" \notin j.exact => q = WithoutTotal(j, metadata)
          /\ "total" \in j.exact /\ "prompt" \in j.exact => q = FitTotal(SplitOutput(j))
          /\ "total" \in j.exact /\ "prompt" \notin j.exact => q = PromptFromTotal(j)
      BY DEF ResolveVertexUsage
    <2> HIDE DEF i, j, r, q
    <2> QED BY <1>1, <2>1, <2>2
  <1>3. {"prompt", "candidates", "thoughts", "toolUse"} \subseteq r.exact
    BY DEF Parts
  <1> HIDE DEF i, j, r, q
  <1>4. CASE "total" \notin i.exact
    <2> DEFINE exact == i.exact \cup (IF ~Reported(metadata, "thoughts") /\ i.thoughts = 0
                                        THEN {"thoughts"} ELSE {})
               final == exact \cup (IF Parts \subseteq exact THEN {"total"} ELSE {})
    <2>1. r = [i EXCEPT !.total = Whole(i), !.exact = final]
      BY <1>2, <1>4 DEF WithoutTotal
    <2>2. r.exact = final
      <3> HIDE DEF final
      <3> QED BY <1>1, <2>1 DEF Usages
    <2>3. /\ "prompt" \in i.exact /\ "candidates" \in i.exact
          /\ "thoughts" \in i.exact \/ (~Reported(metadata, "thoughts") /\ i.thoughts = 0)
      BY <1>3, <2>2
    <2>4. i.thoughts = j.thoughts
      BY <1>1, <2>3 DEF SameKinds
    <2>5. i = j
      BY <1>1, <2>3, <2>4, SameUsage
    <2> QED BY <1>2, <1>4, <2>5 DEF r, q
  <1>5. CASE "total" \in i.exact /\ "prompt" \in i.exact
    <2> DEFINE output == NonNegativeTokenDifference(
                           NonNegativeTokenDifference(i.total, i.prompt), i.toolUse)
    <2>1. {"candidates", "thoughts"} \subseteq SplitOutput(i).exact
      BY <1>1, <1>2, <1>3, <1>5, SplitOutputFacts, FitTotalExact
    <2>2. CASE "candidates" \in i.exact /\ "thoughts" \in i.exact
      <3>1. i = j
        BY <1>1, <1>5, <2>2, SameUsage
      <3> QED BY <1>2, <1>5, <3>1 DEF r, q
    <2>3. CASE "candidates" \in i.exact /\ "thoughts" \notin i.exact
      <3> DEFINE t == NonNegativeTokenDifference(output, i.candidates)
      <3>1. /\ SplitOutput(i) = [i EXCEPT !.thoughts = t, !.exact = @ \cup {"thoughts"}]
            /\ SplitOutput(j) = [j EXCEPT !.thoughts = t, !.exact = @ \cup {"thoughts"}]
        BY <1>1, <1>5, <2>3 DEF SplitOutput
      <3> HIDE DEF t
      <3>2. SplitOutput(i) = SplitOutput(j)
        <4>1. /\ SplitOutput(i) \in Usages /\ SplitOutput(i).prompt = i.prompt
              /\ SplitOutput(i).total = i.total /\ SplitOutput(i).toolUse = i.toolUse
              /\ SplitOutput(i).candidates = i.candidates
          BY <1>1, <2>3, SplitOutputFacts
        <4>2. /\ SplitOutput(j) \in Usages /\ SplitOutput(j).prompt = j.prompt
              /\ SplitOutput(j).total = j.total /\ SplitOutput(j).toolUse = j.toolUse
              /\ SplitOutput(j).candidates = j.candidates
          BY <1>1, <2>3, SplitOutputFacts
        <4>3. /\ SplitOutput(i).thoughts = t /\ SplitOutput(j).thoughts = t
              /\ SplitOutput(i).exact = i.exact \cup {"thoughts"}
              /\ SplitOutput(j).exact = j.exact \cup {"thoughts"}
          <5> HIDE DEF output
          <5> QED BY <1>1, <3>1 DEF Usages
        <4> QED BY <1>1, <1>5, <2>3, <4>1, <4>2, <4>3, SameUsage
      <3> QED BY <1>2, <1>5, <3>2 DEF r, q
    <2>4. CASE "candidates" \notin i.exact /\ "thoughts" \in i.exact
      <3> DEFINE t == NonNegativeTokenDifference(output, i.thoughts)
      <3>1. /\ SplitOutput(i) = [i EXCEPT !.candidates = t, !.exact = @ \cup {"candidates"}]
            /\ SplitOutput(j) = [j EXCEPT !.candidates = t, !.exact = @ \cup {"candidates"}]
        BY <1>1, <1>5, <2>4 DEF SplitOutput
      <3> HIDE DEF t
      <3>2. SplitOutput(i) = SplitOutput(j)
        <4>1. /\ SplitOutput(i) \in Usages /\ SplitOutput(i).prompt = i.prompt
              /\ SplitOutput(i).total = i.total /\ SplitOutput(i).toolUse = i.toolUse
              /\ SplitOutput(i).thoughts = i.thoughts
          BY <1>1, <2>4, SplitOutputFacts
        <4>2. /\ SplitOutput(j) \in Usages /\ SplitOutput(j).prompt = j.prompt
              /\ SplitOutput(j).total = j.total /\ SplitOutput(j).toolUse = j.toolUse
              /\ SplitOutput(j).thoughts = j.thoughts
          BY <1>1, <2>4, SplitOutputFacts
        <4>3. /\ SplitOutput(i).candidates = t /\ SplitOutput(j).candidates = t
              /\ SplitOutput(i).exact = i.exact \cup {"candidates"}
              /\ SplitOutput(j).exact = j.exact \cup {"candidates"}
          <5> HIDE DEF output
          <5> QED BY <1>1, <3>1 DEF Usages
        <4> QED BY <1>1, <1>5, <2>4, <4>1, <4>2, <4>3, SameUsage
      <3> QED BY <1>2, <1>5, <3>2 DEF r, q
    <2>5. CASE "candidates" \notin i.exact /\ "thoughts" \notin i.exact
      <3> DEFINE t == MinInt(i.thoughts, output)
      <3>1. SplitOutput(i) = [i EXCEPT !.thoughts = t, !.candidates = output - t]
        BY <2>5 DEF SplitOutput
      <3> HIDE DEF t, output
      <3>2. SplitOutput(i).exact = i.exact
        BY <1>1, <3>1 DEF Usages
      <3> QED BY <2>1, <2>5, <3>2
    <2> QED BY <2>2, <2>3, <2>4, <2>5
  <1>6. CASE "total" \in i.exact /\ "prompt" \notin i.exact
    <2> DEFINE nonPrompt == SaturatingTokenAdd(i.toolUse, Output(i))
               exact == IF {"candidates", "thoughts", "toolUse"} \subseteq i.exact
                          THEN i.exact \cup {"prompt"} ELSE i.exact
    <2>1. /\ i.total < nonPrompt =>
               r = [i EXCEPT !.prompt = 0, !.total = nonPrompt, !.exact = @ \ {"total", "prompt"}]
          /\ ~(i.total < nonPrompt) => r = [i EXCEPT !.prompt = i.total - nonPrompt, !.exact = exact]
      BY <1>2, <1>6 DEF PromptFromTotal
    <2>2. ~(i.total < nonPrompt) /\ r.exact = exact
      <3> HIDE DEF nonPrompt, exact
      <3>1. CASE i.total < nonPrompt
        <4>1. r.exact = i.exact \ {"total", "prompt"}
          BY <1>1, <2>1, <3>1 DEF Usages
        <4> QED BY <1>3, <4>1
      <3>2. CASE ~(i.total < nonPrompt)
        BY <1>1, <2>1, <3>2 DEF Usages
      <3> QED BY <3>1, <3>2
    <2>3. "candidates" \in i.exact /\ "thoughts" \in i.exact
      BY <1>3, <1>6, <2>2
    <2>4. Output(i) = Output(j)
      BY <1>1, <2>3 DEF Output
    <2>5. q = [j EXCEPT !.prompt = i.total - nonPrompt, !.exact = exact]
      <3>1. nonPrompt = SaturatingTokenAdd(j.toolUse, Output(j))
        BY <1>1, <2>4
      <3>2. ~(j.total < nonPrompt) /\ q = PromptFromTotal(j) /\ i.total = j.total /\ i.exact = j.exact
        BY <1>1, <1>2, <1>6, <2>2
      <3> HIDE DEF nonPrompt
      <3> QED BY <3>1, <3>2 DEF PromptFromTotal
    <2>6. r = [i EXCEPT !.prompt = i.total - nonPrompt, !.exact = exact]
      BY <2>1, <2>2
    <2> HIDE DEF nonPrompt, exact
    <2>7. r = q
      BY <1>1, <2>3, <2>5, <2>6 DEF Usages
    <2> QED BY <2>7 DEF r, q
  <1> QED BY <1>4, <1>5, <1>6

(* Reasoning that is exact is not a share of an estimate.                  *)
LEMMA ReasoningAgrees ==
  ASSUME NEW r, NEW e, NEW f, SameKinds(e, f), ReasoningTokenDetails(r, e).exact
  PROVE  ReasoningTokenDetails(r, e) = ReasoningTokenDetails(r, f)
  BY DEF ReasoningTokenDetails, SameKinds

LEMMA ReportsAgree ==
  ASSUME NEW e \in Estimates, NEW f \in Estimates, NEW metadata \in Metadata, SameKinds(e, f)
  PROVE  /\ ~OpenAIUsage(e, metadata).estimated =>
              OpenAIUsage(e, metadata) = OpenAIUsage(f, metadata)
         /\ ~AnthropicUsage(e, metadata).estimated =>
              AnthropicUsage(e, metadata) = AnthropicUsage(f, metadata)
         /\ ~GeminiUsageMetadata(e, metadata).estimated =>
              GeminiUsageMetadata(e, metadata) = GeminiUsageMetadata(f, metadata)
PROOF
  <1> DEFINE r == ResolveVertexUsage(e, metadata)
             q == ResolveVertexUsage(f, metadata)
  <1>1. Parts \subseteq r.exact => r = q
    BY ResolvedAgree
  <1>2. AllExact \subseteq r.exact => Parts \subseteq r.exact
    BY DEF AllExact
  <1>3. ASSUME ~OpenAIUsage(e, metadata).estimated
        PROVE  OpenAIUsage(e, metadata) = OpenAIUsage(f, metadata)
    <2>1. AllExact \subseteq r.exact /\ ReasoningTokenDetails(r, e).exact
      BY <1>3 DEF OpenAIUsage
    <2>2. r = q /\ ReasoningTokenDetails(r, e) = ReasoningTokenDetails(r, f)
      BY <1>1, <1>2, <2>1, ReasoningAgrees
    <2> QED BY <2>2 DEF OpenAIUsage
  <1>4. ASSUME ~AnthropicUsage(e, metadata).estimated
        PROVE  AnthropicUsage(e, metadata) = AnthropicUsage(f, metadata)
    <2>1. Parts \subseteq r.exact
      BY <1>4 DEF AnthropicUsage
    <2> QED BY <1>1, <2>1 DEF AnthropicUsage
  <1>5. ASSUME ~GeminiUsageMetadata(e, metadata).estimated
        PROVE  GeminiUsageMetadata(e, metadata) = GeminiUsageMetadata(f, metadata)
    <2>1. AllExact \subseteq r.exact
      BY <1>5 DEF GeminiUsageMetadata
    <2> QED BY <1>1, <1>2, <2>1 DEF GeminiUsageMetadata
  <1> QED BY <1>3, <1>4, <1>5

-----------------------------------------------------------------------------
(* The specification.                                                      *)

(* A finished report is that of its input.                                 *)
Report ==
  /\ conversion = "usage" => input \in EstimateSet \X Measures
  /\ Done("usage") =>
       /\ result.value.openai = OpenAIUsage(input[1], input[2])
       /\ result.value.anthropic = AnthropicUsage(input[1], input[2])
       /\ result.value.gemini = GeminiUsageMetadata(input[1], input[2])

LEMMA ReportInvariant == ConversionSpec => []Report
PROOF
  <1>1. ConversionInit => Report
    BY DEF ConversionInit, Report, Done, Pending
  <1>2. Report /\ [ConversionNext]_conversionVars => Report'
    <2> SUFFICES ASSUME Report, [ConversionNext]_conversionVars PROVE Report'
      OBVIOUS
    <2>1. CASE NormalizeHistory \/ ReadAnswer \/ ReadBody
      <3>1. conversion' = conversion /\ input' = input /\ conversion # "usage"
        BY <2>1 DEF NormalizeHistory, ReadAnswer, ReadBody, Finish
      <3> QED BY <3>1 DEF Report, Done
    <2>2. CASE ReportUsage
      <3>1. conversion' = conversion /\ input' = input
        BY <2>2 DEF ReportUsage, Finish
      <3>2. /\ result'.value.openai = OpenAIUsage(input[1], input[2])
            /\ result'.value.anthropic = AnthropicUsage(input[1], input[2])
            /\ result'.value.gemini = GeminiUsageMetadata(input[1], input[2])
        BY <2>2 DEF ReportUsage, Finish
      <3> QED BY <3>1, <3>2 DEF Report, Done
    <2>3. CASE UNCHANGED conversionVars
      BY <2>3 DEF conversionVars, Report, Done
    <2> QED BY <2>1, <2>2, <2>3 DEF ConversionNext
  <1> QED BY <1>1, <1>2, PTL DEF ConversionSpec

(* The parts of a reported usage always add up to its total, and no detail *)
(* is more than what it is a detail of.                                    *)
THEOREM UsagesAddUp == ConversionSpec => []UsageAddsUp
PROOF
  <1>1. Report => UsageAddsUp
    <2> SUFFICES ASSUME Report, Done("usage") PROVE
          /\ AddsUp(result.value.openai)
          /\ \A c \in Compactions :
               AddsUp(CombineOpenAIUsage(OpenAIUsage(c[1], c[2]), result.value.openai))
      BY DEF UsageAddsUp
    <2>1. input[1] \in Estimates /\ input[2] \in Metadata
      BY InputAssumption DEF Report, Done
    <2>2. AddsUp(result.value.openai) /\ OpenAICounts(result.value.openai)
      BY <2>1, OpenAIAddsUp DEF Report
    <2>3. ASSUME NEW c \in Compactions
          PROVE  AddsUp(CombineOpenAIUsage(OpenAIUsage(c[1], c[2]), result.value.openai))
      <3>1. c[1] \in Estimates /\ c[2] \in Metadata
        BY InputAssumption
      <3> QED BY <2>2, <3>1, OpenAIAddsUp, CombinedAddsUp
    <2> QED BY <2>2, <2>3
  <1> QED BY <1>1, ReportInvariant, PTL

(* What the upstream measured, apart from the cached count, is never       *)
(* reported as less, whatever else it left out or got wrong.               *)
THEOREM MeasuredStays == ConversionSpec => []MeasuredIsKept
PROOF
  <1>1. Report => MeasuredIsKept
    <2>1. ASSUME Report, Done("usage")
          PROVE  KeepsMeasured(input[2], ResolveVertexUsage(input[1], input[2]))
      <3>1. input[1] \in Estimates /\ input[2] \in Metadata
        BY <2>1, InputAssumption DEF Report, Done
      <3> QED BY <3>1, ResolvedKeepsMeasured
    <2> QED BY <2>1 DEF MeasuredIsKept
  <1> QED BY <1>1, ReportInvariant, PTL

(* A count that is not marked as estimated is none: no other estimate that *)
(* found the same kinds of output would have changed it, in any protocol.  *)
THEOREM ExactIsMeasured == ConversionSpec => []ExactIsIndependent
PROOF
  <1>1. Report => ExactIsIndependent
    <2>1. ASSUME Report, Done("usage"), NEW f \in EstimateSet, SameKinds(input[1], f)
          PROVE  /\ ~result.value.openai.estimated =>
                      result.value.openai = OpenAIUsage(f, input[2])
                 /\ ~result.value.anthropic.estimated =>
                      result.value.anthropic = AnthropicUsage(f, input[2])
                 /\ ~result.value.gemini.estimated =>
                      result.value.gemini = GeminiUsageMetadata(f, input[2])
      <3>1. input[1] \in Estimates /\ input[2] \in Metadata /\ f \in Estimates
        BY <2>1, InputAssumption DEF Report, Done
      <3> QED BY <2>1, <3>1, ReportsAgree DEF Report
    <2> QED BY <2>1 DEF ExactIsIndependent
  <1> QED BY <1>1, ReportInvariant, PTL

(***************************************************************************)
(* Reading an answer.                                                      *)
(***************************************************************************)

AnswerData == [parts : Seq(PartKinds \cup {"blank"}), finish : Reasons \cup {None}]
WrittenPart == [kind : PartKinds, from : Seq(Int)]

(* Where items can stand, and an answer with the ways it can be cut.       *)
Spot == {p \in Seq(Int) : Len(p) = 2}
SpotsOf(events) == {p \in Spot : p[1] \in DOMAIN events /\ p[2] \in DOMAIN events[p[1]]}

IsAnswer(a) ==
  /\ a \in [form : Forms, events : Seq(Seq(Items)), read : Nat, torn : Int,
            end : {"whole", "closed", "broken"}]
  /\ a.read <= Len(a.events)
  /\ a.torn # NotTorn =>
       a.read + 1 \in 1 .. Len(a.events) /\ a.torn \in 0 .. Len(a.events[a.read + 1])
  /\ a.end = "whole" => a.read = Len(a.events) /\ a.torn = NotTorn

LEMMA CutsAreAnswers ==
  ASSUME NEW form \in Forms, NEW events \in Seq(Seq(Items)), NEW read \in 0 .. Len(events),
         NEW end \in {"whole", "closed", "broken"}, NEW torn \in CutsAt(events, read),
         end = "whole" => read = Len(events) /\ torn = NotTorn
  PROVE  IsAnswer([form |-> form, events |-> events, read |-> read, torn |-> torn, end |-> end])
<1>1. Len(events) \in Nat BY LenProperties
<1>2. torn \in Int
        /\ (torn # NotTorn => read + 1 \in 1 .. Len(events) /\ torn \in 0 .. Len(events[read + 1]))
  <2>1. CASE torn = NotTorn BY <2>1 DEF NotTorn
  <2>2. CASE torn # NotTorn
    <3>1. read < Len(events) /\ torn \in 0 .. Len(events[read + 1]) BY <2>2 DEF CutsAt
    <3>. QED BY <1>1, <3>1
  <2>. QED BY <2>1, <2>2
<1>. QED BY <1>1, <1>2 DEF IsAnswer

(* The parts of an item are parts.                                         *)
LEMMA ItemPartsType ==
  ASSUME NEW data \in Seq(AnswerData), NEW place \in Seq(Int)
  PROVE  ItemParts(data, place) \in Seq(WrittenPart)
<1>. DEFINE named(d) == [p \in DOMAIN data[d].parts |->
                           [kind |-> data[d].parts[p], from |-> place \o <<d, p>>]]
            Named == [kind : PartKinds \cup {"blank"}, from : Seq(Int)]
<1>1. ASSUME NEW d \in DOMAIN data PROVE OfKind(named(d), PartKinds) \in Seq(WrittenPart)
  <2>1. data[d] \in AnswerData /\ d \in Int
    BY ElementOfSeq, LenProperties
  <2>2. PICK ps : ps = data[d].parts OBVIOUS
  <2>3. ps \in Seq(PartKinds \cup {"blank"}) BY <2>1, <2>2 DEF AnswerData
  <2>4. Len(ps) \in Nat /\ DOMAIN ps = 1 .. Len(ps)
          /\ \A p \in 1 .. Len(ps) : ps[p] \in PartKinds \cup {"blank"}
    BY <2>3, LenProperties, ElementOfSeq
  <2>5. \A p \in 1 .. Len(ps) : place \o <<d, p>> \in Seq(Int)
    BY <2>1, <2>4
  <2>6. named(d) = [p \in 1 .. Len(ps) |-> [kind |-> ps[p], from |-> place \o <<d, p>>]]
    BY <2>2, <2>4
  <2>7. PICK q : q = named(d) OBVIOUS
  <2>8. q \in Seq(Named) /\ Len(q) = Len(ps)
    <3>1. q \in [1 .. Len(ps) -> Named] BY <2>4, <2>5, <2>6, <2>7
    <3>. HIDE DEF Named
    <3>. QED BY <2>4, <3>1
  <2>9. \A i \in 1 .. Len(q) : q[i] \in Named BY <2>8, ElementOfSeq
  <2>10. PICK I : I = {i \in DOMAIN q : q[i].kind \in PartKinds} OBVIOUS
  <2>11. ItemsAt(q, I) \in Seq({q[i] : i \in {j \in 1 .. Len(q) : j \in I}})
    BY <2>8, ItemsAtElements
  <2>12. {q[i] : i \in {j \in 1 .. Len(q) : j \in I}} \subseteq WrittenPart
    BY <2>9, <2>10 DEF WrittenPart
  <2>13. ItemsAt(q, I) \in Seq(WrittenPart)
    BY <2>11, <2>12, SeqMonotonic
  <2>. QED BY <2>7, <2>10, <2>13 DEF OfKind
<1>2. ItemParts(data, place) = FlattenSeq([d \in DOMAIN data |-> OfKind(named(d), PartKinds)])
  BY DEF ItemParts
<1>. HIDE DEF named
<1>3. [d \in DOMAIN data |-> OfKind(named(d), PartKinds)] \in Seq(Seq(WrittenPart))
  <2>1. PICK T : T = Seq(WrittenPart) OBVIOUS
  <2>2. Len(data) \in Nat /\ DOMAIN data = 1 .. Len(data) BY LenProperties
  <2>3. [d \in DOMAIN data |-> OfKind(named(d), PartKinds)] \in [1 .. Len(data) -> T]
    BY <1>1, <2>1, <2>2
  <2>. QED BY <2>1, <2>2, <2>3
<1>. QED BY <1>2, <1>3, FlattenType

(* The items of the events, each with what it holds.                       *)
PartsOfSpot(events) ==
  [p \in SpotsOf(events) |-> ItemParts(events[p[1]][p[2]].data, p)]

LEMMA ItemsStand ==
  ASSUME NEW events \in Seq(Seq(Items)), NEW p \in SpotsOf(events)
  PROVE  /\ p \in Seq(Int) /\ events[p[1]][p[2]] \in Items
         /\ events[p[1]][p[2]].data \in Seq(AnswerData)
<1>1. p \in Seq(Int) /\ p[1] \in DOMAIN events /\ p[2] \in DOMAIN events[p[1]]
  BY DEF SpotsOf, Spot
<1>2. events[p[1]] \in Seq(Items) BY <1>1, ElementOfSeq
<1>3. events[p[1]][p[2]] \in Items BY <1>1, <1>2, ElementOfSeq
<1>4. events[p[1]][p[2]].data \in Seq(AnswerData) BY <1>3 DEF Items, AnswerData
<1>. QED BY <1>1, <1>3, <1>4

LEMMA PartsOfSpotType ==
  ASSUME NEW events \in Seq(Seq(Items))
  PROVE  IsMap(PartsOfSpot(events), SpotsOf(events), Seq(WrittenPart))
<1>1. \A p \in SpotsOf(events) : ItemParts(events[p[1]][p[2]].data, p) \in Seq(WrittenPart)
  BY ItemsStand, ItemPartsType
<1>. QED BY <1>1 DEF IsMap, PartsOfSpot

LEMMA PartsAtIsMap ==
  ASSUME NEW a, NEW events, a.events = events, NEW places \in Seq(SpotsOf(events))
  PROVE  PartsAt(a, places) = FlatMap(PartsOfSpot(events), places)
<1>1. \A n \in DOMAIN places : places[n] \in SpotsOf(events) BY ElementOfSeq
<1>2. \A n \in DOMAIN places :
        ItemParts(ItemAt(a, places[n]).data, places[n]) = PartsOfSpot(events)[places[n]]
  BY <1>1 DEF ItemAt, PartsOfSpot
<1>. QED BY <1>2 DEF PartsAt, FlatMap, Mapped

(* The places of the items, event by event.                                *)
Row(events, e) == [i \in DOMAIN events[e] |-> <<e, i>>]
Rows(events) == [e \in DOMAIN events |-> Row(events, e)]

LEMMA RowsType ==
  ASSUME NEW events \in Seq(Seq(Items))
  PROVE  /\ Rows(events) \in Seq(Seq(SpotsOf(events))) /\ Len(Rows(events)) = Len(events)
         /\ \A e \in DOMAIN events :
              /\ Rows(events)[e] = Row(events, e)
              /\ Row(events, e) \in Seq(SpotsOf(events))
              /\ Len(Row(events, e)) = Len(events[e])
<1>1. Len(events) \in Nat /\ DOMAIN events = 1 .. Len(events) BY LenProperties
<1>2. ASSUME NEW e \in DOMAIN events
      PROVE  Row(events, e) \in Seq(SpotsOf(events)) /\ Len(Row(events, e)) = Len(events[e])
  <2>1. events[e] \in Seq(Items) BY ElementOfSeq
  <2>2. PICK ev : ev = events[e] OBVIOUS
  <2>3. Len(ev) \in Nat /\ DOMAIN ev = 1 .. Len(ev) BY <2>1, <2>2, LenProperties
  <2>4. ASSUME NEW i \in 1 .. Len(ev) PROVE <<e, i>> \in SpotsOf(events)
    BY <1>1, <2>2, <2>3 DEF SpotsOf, Spot
  <2>5. PICK S : S = SpotsOf(events) OBVIOUS
  <2>6. Row(events, e) = [i \in 1 .. Len(ev) |-> <<e, i>>] BY <2>2, <2>3 DEF Row
  <2>7. PICK r, n : r = Row(events, e) /\ n = Len(ev) OBVIOUS
  <2>8. n \in Nat /\ r \in [1 .. n -> S] BY <2>3, <2>4, <2>5, <2>6, <2>7
  <2>9. r \in Seq(S) /\ Len(r) = n BY <2>8
  <2>. QED BY <2>2, <2>5, <2>7, <2>9
<1>3. PICK T : T = Seq(SpotsOf(events)) OBVIOUS
<1>4. Rows(events) \in [1 .. Len(events) -> T] BY <1>1, <1>2, <1>3 DEF Rows
<1>. QED BY <1>1, <1>2, <1>3, <1>4 DEF Rows

(* All that was written.                                                   *)
LEMMA WroteIsMap ==
  ASSUME NEW a, IsAnswer(a)
  PROVE  Wrote(a) = FlatMap(PartsOfSpot(a.events), FlattenSeq(Rows(a.events)))
<1>1. PICK events : events = a.events OBVIOUS
<1>2. events \in Seq(Seq(Items)) BY <1>1 DEF IsAnswer
<1>3. PICK f, rows, S : f = PartsOfSpot(events) /\ rows = Rows(events) /\ S = SpotsOf(events)
  OBVIOUS
<1>4. IsMap(f, S, Seq(WrittenPart)) /\ rows \in Seq(Seq(S))
  BY <1>2, <1>3, PartsOfSpotType, RowsType
<1>5. DOMAIN rows = DOMAIN events BY <1>3 DEF Rows
<1>6. ASSUME NEW e \in DOMAIN events
      PROVE  FlattenSeq([i \in DOMAIN events[e] |-> ItemParts(events[e][i].data, <<e, i>>)])
               = FlatMap(f, rows[e])
  <2>1. rows[e] = Row(events, e) /\ DOMAIN Row(events, e) = DOMAIN events[e]
    BY <1>3 DEF Rows, Row
  <2>2. ASSUME NEW i \in DOMAIN events[e]
        PROVE  f[Row(events, e)[i]] = ItemParts(events[e][i].data, <<e, i>>)
    <3>1. Row(events, e)[i] = <<e, i>> BY DEF Row
    <3>2. <<e, i>> \in SpotsOf(events)
      <4>1. Row(events, e) \in Seq(SpotsOf(events)) BY <1>2, RowsType
      <4>. QED BY <2>1, <3>1, <4>1, ElementOfSeq
    <3>. QED BY <1>3, <3>1, <3>2 DEF PartsOfSpot
  <2>. QED BY <2>1, <2>2 DEF FlatMap, Mapped
<1>7. Wrote(a) = FlattenSeq([e \in DOMAIN rows |-> FlatMap(f, rows[e])])
  BY <1>1, <1>5, <1>6 DEF Wrote
<1>8. FlatMap(f, FlattenSeq(rows)) = FlattenSeq([e \in DOMAIN rows |-> FlatMap(f, rows[e])])
  BY <1>4, FlatMapFlatten
<1>. QED BY <1>1, <1>3, <1>7, <1>8

(* The items that arrived.                                                 *)
Begun(a) == IF Torn(a) THEN a.read + 1 ELSE a.read
Arrived(a) == [e \in 1 .. Begun(a) |-> ItemsOf(a, e)]

LEMMA RowsThatArrived ==
  ASSUME NEW a, IsAnswer(a)
  PROVE  /\ SubSeq(Rows(a.events), 1, a.read) = [e \in 1 .. a.read |-> ItemsOf(a, e)]
         /\ \A e \in 1 .. a.read : ItemsOf(a, e) = Rows(a.events)[e]
         /\ a.read \in 0 .. Len(Rows(a.events))
<1>1. PICK events, rows, S : events = a.events /\ rows = Rows(events) /\ S = SpotsOf(events)
  OBVIOUS
<1>2. events \in Seq(Seq(Items)) /\ a.read \in Nat /\ a.read <= Len(events)
  BY <1>1 DEF IsAnswer
<1>3. rows \in Seq(Seq(S)) /\ Len(rows) = Len(events)
        /\ \A e \in DOMAIN events : rows[e] = Row(events, e)
  BY <1>1, <1>2, RowsType
<1>4. Len(events) \in Nat /\ DOMAIN events = 1 .. Len(events) BY <1>2, LenProperties
<1>5. ASSUME NEW e \in 1 .. a.read PROVE ItemsOf(a, e) = rows[e] /\ ItemsOf(a, e) \in Seq(S)
  <2>1. e \in DOMAIN events /\ e <= a.read BY <1>2, <1>4
  <2>2. PICK ev : ev = events[e] OBVIOUS
  <2>3. ev \in Seq(Items) BY <1>2, <2>1, <2>2, ElementOfSeq
  <2>4. DOMAIN ev = 1 .. Len(ev) BY <2>3, LenProperties
  <2>5. ItemsOf(a, e) = Row(events, e)
    BY <1>1, <2>1, <2>2, <2>4 DEF ItemsOf, Row
  <2>6. rows[e] \in Seq(S) BY <1>3, <1>4, <2>1, ElementOfSeq
  <2>. QED BY <1>3, <2>1, <2>5, <2>6
<1>6. PICK head, read : head = SubSeq(rows, 1, read) /\ read = a.read OBVIOUS
<1>7. read \in 0 .. Len(rows) BY <1>2, <1>3, <1>4, <1>6
<1>8. head \in Seq(Seq(S)) /\ Len(head) = read /\ \A e \in 1 .. read : head[e] = rows[e]
  BY <1>3, <1>6, <1>7, BeginningIsPrefix
<1>9. DOMAIN head = 1 .. read BY <1>8, LenProperties
<1>10. head = [e \in 1 .. read |-> ItemsOf(a, e)]
  <2>1. head = [e \in DOMAIN head |-> head[e]] BY <1>8
  <2>. QED BY <1>5, <1>6, <1>8, <1>9, <2>1
<1>. QED BY <1>1, <1>5, <1>6, <1>7, <1>10

LEMMA ArrivedFacts ==
  ASSUME NEW a, IsAnswer(a)
  PROVE  /\ Arrived(a) \in Seq(Seq(SpotsOf(a.events)))
         /\ IsPrefix(FlattenSeq(SubSeq(Rows(a.events), 1, a.read)), FlattenSeq(Arrived(a)))
         /\ IsPrefix(FlattenSeq(Arrived(a)), FlattenSeq(Rows(a.events)))
<1>1. PICK events, rows, S, read :
        events = a.events /\ rows = Rows(events) /\ S = SpotsOf(events) /\ read = a.read
  OBVIOUS
<1>2. events \in Seq(Seq(Items)) BY <1>1 DEF IsAnswer
<1>3. rows \in Seq(Seq(S)) /\ Len(rows) = Len(events)
        /\ \A e \in DOMAIN events : rows[e] = Row(events, e) /\ rows[e] \in Seq(S)
                                      /\ Len(rows[e]) = Len(events[e])
  BY <1>1, <1>2, RowsType
<1>4. PICK head : head = SubSeq(rows, 1, read) OBVIOUS
<1>5. head = [e \in 1 .. read |-> ItemsOf(a, e)] /\ read \in 0 .. Len(rows)
  BY <1>1, <1>4, RowsThatArrived
<1>6. head \in Seq(Seq(S)) /\ Len(head) = read /\ IsPrefix(head, rows)
  BY <1>3, <1>4, <1>5, BeginningIsPrefix
<1>7. PICK b : b = Arrived(a) OBVIOUS
<1>8. PICK p, q, r : p = FlattenSeq(head) /\ q = FlattenSeq(b) /\ r = FlattenSeq(rows) OBVIOUS
<1>9. p \in Seq(S) /\ r \in Seq(S) /\ IsPrefix(p, r)
  BY <1>3, <1>6, <1>8, FlattenType, FlattenPrefix
<1>10. CASE ~Torn(a)
  <2>1. b = head BY <1>1, <1>5, <1>7, <1>10 DEF Arrived, Begun
  <2>2. IsPrefix(p, p)
    <3>1. << >> \in Seq(S) /\ p = p \o << >> BY <1>9, EmptySeq, ConcatEmptySeq
    <3>. QED BY <1>9, <3>1, PrefixIsConcat
  <2>. QED BY <1>1, <1>4, <1>6, <1>7, <1>8, <1>9, <2>1, <2>2
<1>11. CASE Torn(a)
  <2>1. read \in Nat /\ read + 1 \in 1 .. Len(events) /\ a.torn \in 0 .. Len(events[read + 1])
    BY <1>1, <1>11 DEF IsAnswer, Torn
  <2>2. PICK row : row = rows[read + 1] OBVIOUS
  <2>3. DOMAIN events = 1 .. Len(events) /\ Len(rows) = Len(events) /\ Len(events) \in Nat
    BY <1>2, <1>3, LenProperties
  <2>4. row \in Seq(S) /\ row = Row(events, read + 1) /\ a.torn \in 0 .. Len(row)
    BY <1>3, <2>1, <2>2, <2>3
  <2>5. PICK cut : cut = SubSeq(row, 1, a.torn) OBVIOUS
  <2>6. cut \in Seq(S) /\ Len(cut) = a.torn /\ (\A i \in 1 .. a.torn : cut[i] = row[i])
          /\ IsPrefix(cut, row)
    BY <2>4, <2>5, BeginningIsPrefix
  <2>7. ItemsOf(a, read + 1) = cut
    <3>1. ItemsOf(a, read + 1) = [i \in 1 .. a.torn |-> <<read + 1, i>>]
      BY <1>1, <2>1 DEF ItemsOf
    <3>2. DOMAIN cut = 1 .. a.torn /\ DOMAIN row = 1 .. Len(row) BY <2>4, <2>6, LenProperties
    <3>3. \A i \in 1 .. a.torn : i \in DOMAIN events[read + 1]
      <4>1. events[read + 1] \in Seq(Items) BY <1>2, <2>1, <2>3, ElementOfSeq
      <4>2. PICK ev : ev = events[read + 1] OBVIOUS
      <4>3. DOMAIN ev = 1 .. Len(ev) /\ Len(ev) \in Nat BY <4>1, <4>2, LenProperties
      <4>. QED BY <2>1, <4>2, <4>3
    <3>4. \A i \in 1 .. a.torn : cut[i] = <<read + 1, i>>
      BY <2>4, <2>6, <3>3 DEF Row
    <3>5. cut = [i \in 1 .. a.torn |-> cut[i]] BY <2>6, <3>2
    <3>. QED BY <3>1, <3>4, <3>5
  <2>8. b = Append(head, cut)
    <3>1. b = [e \in 1 .. read + 1 |-> ItemsOf(a, e)]
      BY <1>1, <1>7, <1>11 DEF Arrived, Begun
    <3>2. PICK c : c = Append(head, cut) OBVIOUS
    <3>3. c \in Seq(Seq(S)) /\ Len(c) = read + 1 /\ (\A e \in 1 .. read : c[e] = head[e])
            /\ c[read + 1] = cut
      BY <1>6, <2>6, <3>2, AppendProperties
    <3>4. DOMAIN c = 1 .. read + 1 BY <3>3, LenProperties
    <3>5. \A e \in 1 .. read + 1 : c[e] = ItemsOf(a, e)
      <4>1. \A e \in 1 .. read : head[e] = ItemsOf(a, e) BY <1>5
      <4>2. \A e \in 1 .. read + 1 : e \in 1 .. read \/ e = read + 1 BY <2>1
      <4>. QED BY <2>7, <3>3, <4>1, <4>2
    <3>6. c = [e \in 1 .. read + 1 |-> c[e]] BY <3>3, <3>4
    <3>. QED BY <3>1, <3>2, <3>5, <3>6
  <2>9. b \in Seq(Seq(S)) BY <1>6, <2>6, <2>8, AppendProperties
  <2>10. q = p \o cut BY <1>6, <1>8, <2>6, <2>8, FlattenAppend
  <2>11. q \in Seq(S) BY <1>8, <2>9, FlattenType
  <2>12. IsPrefix(p, q) BY <1>9, <2>6, <2>10, <2>11, PrefixIsConcat
  <2>13. PICK more : more = SubSeq(rows, 1, read + 1) OBVIOUS
  <2>14. more \in Seq(Seq(S)) /\ IsPrefix(more, rows) /\ Len(more) = read + 1
           /\ \A e \in 1 .. read + 1 : more[e] = rows[e]
    <3>1. read + 1 \in 0 .. Len(rows) BY <2>1, <2>3
    <3>. QED BY <1>3, <2>13, <3>1, BeginningIsPrefix
  <2>15. more = Append(head, row)
    <3>1. PICK c : c = Append(head, row) OBVIOUS
    <3>2. c \in Seq(Seq(S)) /\ Len(c) = read + 1 /\ (\A e \in 1 .. read : c[e] = head[e])
            /\ c[read + 1] = row
      BY <1>6, <2>4, <3>1, AppendProperties
    <3>3. \A e \in 1 .. read : head[e] = rows[e] BY <1>3, <1>4, <1>5, BeginningIsPrefix
    <3>4. \A e \in 1 .. read + 1 : e \in 1 .. read \/ e = read + 1 BY <2>1
    <3>5. \A e \in 1 .. Len(more) : more[e] = c[e] BY <2>2, <2>14, <3>2, <3>3, <3>4
    <3>. QED BY <2>14, <3>1, <3>2, <3>5, SeqEqual
  <2>16. PICK m : m = FlattenSeq(more) OBVIOUS
  <2>17. m \in Seq(S) /\ m = p \o row /\ IsPrefix(m, r)
    <3>1. m \in Seq(S) BY <2>14, <2>16, FlattenType
    <3>2. m = p \o row BY <1>6, <1>8, <2>4, <2>15, <2>16, FlattenAppend
    <3>3. IsPrefix(m, r) BY <1>3, <1>8, <2>14, <2>16, FlattenPrefix
    <3>. QED BY <3>1, <3>2, <3>3
  <2>18. PICK rest \in Seq(S) : row = cut \o rest BY <2>4, <2>6, PrefixIsConcat
  <2>19. m = q \o rest
    <3>1. (p \o cut) \o rest = p \o (cut \o rest) BY <1>9, <2>6, ConcatAssociative
    <3>. QED BY <2>10, <2>17, <2>18, <3>1
  <2>20. IsPrefix(q, m) BY <2>11, <2>17, <2>18, <2>19, PrefixIsConcat
  <2>21. IsPrefix(q, r) BY <1>9, <2>11, <2>17, <2>20, PrefixOfPrefix
  <2>. QED BY <1>1, <1>4, <1>7, <1>8, <2>9, <2>12, <2>21
<1>. QED BY <1>10, <1>11

(* What is decoded together.                                               *)
LEMMA GroupsFacts ==
  ASSUME NEW a, IsAnswer(a)
  PROVE  /\ Groups(a) \in Seq(Seq(SpotsOf(a.events)))
         /\ a.form = "sse" => Groups(a) = SubSeq(Rows(a.events), 1, a.read)
         /\ a.form # "sse" => /\ Groups(a) = Singles(FlattenSeq(Arrived(a)))
                              /\ FlattenSeq(Groups(a)) = FlattenSeq(Arrived(a))
         /\ IsPrefix(FlattenSeq(Groups(a)), FlattenSeq(Rows(a.events)))
         /\ a.end = "whole" => FlattenSeq(Groups(a)) = FlattenSeq(Rows(a.events))
<1>1. PICK rows, S, head, b, g :
        /\ rows = Rows(a.events) /\ S = SpotsOf(a.events) /\ head = SubSeq(rows, 1, a.read)
        /\ b = Arrived(a) /\ g = Groups(a)
  OBVIOUS
<1>2. a.events \in Seq(Seq(Items)) BY DEF IsAnswer
<1>3. rows \in Seq(Seq(S)) /\ Len(rows) = Len(a.events) BY <1>1, <1>2, RowsType
<1>4. head = [e \in 1 .. a.read |-> ItemsOf(a, e)] /\ a.read \in 0 .. Len(rows)
  BY <1>1, RowsThatArrived
<1>5. head \in Seq(Seq(S)) /\ IsPrefix(head, rows) BY <1>1, <1>3, <1>4, BeginningIsPrefix
<1>6. b \in Seq(Seq(S)) /\ IsPrefix(FlattenSeq(b), FlattenSeq(rows)) BY <1>1, ArrivedFacts
<1>7. a.end = "whole" => head = rows /\ b = head
  <2>. SUFFICES ASSUME a.end = "whole" PROVE head = rows /\ b = head OBVIOUS
  <2>1. a.read = Len(a.events) /\ a.torn = NotTorn BY DEF IsAnswer
  <2>2. head = rows BY <1>1, <1>3, <2>1, SubSeqFull
  <2>3. b = head BY <1>1, <1>4, <2>1 DEF Arrived, Begun, Torn
  <2>. QED BY <2>2, <2>3
<1>8. CASE a.form = "sse"
  <2>1. g = head BY <1>1, <1>4, <1>8 DEF Groups
  <2>2. IsPrefix(FlattenSeq(head), FlattenSeq(rows)) BY <1>3, <1>5, FlattenPrefix
  <2>. QED BY <1>1, <1>5, <1>7, <1>8, <2>1, <2>2
<1>9. CASE a.form # "sse"
  <2>1. PICK items : items = FlattenSeq(b) OBVIOUS
  <2>2. items \in Seq(S) BY <1>6, <2>1, FlattenType
  <2>3. g = Singles(items) BY <1>1, <1>9, <2>1 DEF Groups, Arrived, Begun, Singles
  <2>4. g \in Seq(Seq(S)) /\ FlattenSeq(g) = items BY <2>2, <2>3, FlattenSingles
  <2>. QED BY <1>1, <1>6, <1>7, <1>9, <2>1, <2>3, <2>4
<1>. QED BY <1>8, <1>9

(* Those before the first that fails.                                      *)
LEMMA DecodedFacts ==
  ASSUME NEW a, IsAnswer(a)
  PROVE  /\ Decoded(a) \in 0 .. Len(Groups(a))
         /\ \A g \in 1 .. Decoded(a) : ~GroupFails(a, Groups(a)[g])
         /\ \A n \in 0 .. Len(Groups(a)) :
              (\A g \in 1 .. n : ~GroupFails(a, Groups(a)[g])) => n <= Decoded(a)
<1>1. PICK groups, N : groups = Groups(a) /\ N = Len(groups) OBVIOUS
<1>2. N \in Nat BY <1>1, GroupsFacts, LenProperties
<1>3. PICK S : S = {n \in 0 .. N : \A g \in 1 .. n : ~GroupFails(a, groups[g])} OBVIOUS
<1>4. S \in SUBSET Nat /\ 0 \in S
  <2>1. 0 \in 0 .. N /\ 1 .. 0 = {} BY <1>2
  <2>. QED BY <1>3, <2>1
<1>5. PICK m \in S : \A n \in S : n <= m
  <2>1. CASE S \subseteq {0} BY <1>4, <2>1
  <2>2. CASE ~(S \subseteq {0})
    <3>1. PICK T : T = S \ {0} OBVIOUS
    <3>2. T \in SUBSET (1 .. N) /\ T # {} BY <1>3, <2>2, <3>1
    <3>3. PICK m \in T : \A n \in T : n <= m BY <1>2, <3>2, GreatestBelow
    <3>4. m \in S /\ m \in 1 .. N BY <3>1, <3>2
    <3>5. \A n \in S : n <= m
      <4>1. 0 <= m BY <3>4
      <4>2. \A n \in S : n = 0 \/ n \in T BY <3>1
      <4>. QED BY <3>3, <4>1, <4>2
    <3>. QED BY <3>4, <3>5
  <2>. QED BY <2>1, <2>2
<1>6. Max(S) = m BY <1>4, <1>5, MaxIsGreatest
<1>7. Decoded(a) = m BY <1>1, <1>3, <1>6 DEF Decoded
<1>8. m \in 0 .. N /\ \A g \in 1 .. m : ~GroupFails(a, groups[g]) BY <1>3
<1>9. \A n \in 0 .. N : (\A g \in 1 .. n : ~GroupFails(a, groups[g])) => n \in S BY <1>3
<1>. QED BY <1>1, <1>5, <1>7, <1>8, <1>9

-----------------------------------------------------------------------------
(* The parts of results.                                                   *)
HavePartsIn(R) == \A r \in R : r.parts \in Seq(WrittenPart)
PartsIn(R) == [r \in R |-> r.parts]

LEMMA PartsOfIsMap ==
  ASSUME NEW R, HavePartsIn(R), NEW s \in Seq(R)
  PROVE  /\ IsMap(PartsIn(R), R, Seq(WrittenPart))
         /\ PartsOf(s) = FlatMap(PartsIn(R), s)
         /\ PartsOf(s) \in Seq(WrittenPart)
<1>1. IsMap(PartsIn(R), R, Seq(WrittenPart)) BY DEF HavePartsIn, PartsIn, IsMap
<1>2. \A n \in DOMAIN s : s[n] \in R BY ElementOfSeq
<1>3. PartsOf(s) = FlatMap(PartsIn(R), s) BY <1>2 DEF PartsOf, FlatMap, Mapped, PartsIn
<1>. QED BY <1>1, <1>3, FlatMapType

LEMMA PartsOfConcat ==
  ASSUME NEW R, HavePartsIn(R), NEW s \in Seq(R), NEW t \in Seq(R)
  PROVE  PartsOf(s \o t) = PartsOf(s) \o PartsOf(t)
<1>1. PICK f, u : f = PartsIn(R) /\ u = s \o t OBVIOUS
<1>2. u \in Seq(R) BY <1>1, ConcatProperties
<1>3. PartsOf(s) = FlatMap(f, s) /\ PartsOf(t) = FlatMap(f, t) /\ PartsOf(u) = FlatMap(f, u)
        /\ IsMap(f, R, Seq(WrittenPart))
  BY <1>1, <1>2, PartsOfIsMap
<1>4. FlatMap(f, s \o t) = FlatMap(f, s) \o FlatMap(f, t) BY <1>3, FlatMapConcat
<1>. QED BY <1>1, <1>3, <1>4

LEMMA PartsOfOne ==
  ASSUME NEW R, HavePartsIn(R), NEW r \in R
  PROVE  PartsOf(<< r >>) = r.parts
<1>1. PICK f, u : f = PartsIn(R) /\ u = << r >> OBVIOUS
<1>2. u \in Seq(R) BY <1>1
<1>3. PartsOf(u) = FlatMap(f, u) /\ IsMap(f, R, Seq(WrittenPart)) BY <1>1, <1>2, PartsOfIsMap
<1>4. FlatMap(f, u) = f[r] BY <1>1, <1>3, FlatMapOne
<1>. QED BY <1>1, <1>3, <1>4 DEF PartsIn

(* What the emitter hands on has the parts of what it got.                 *)
Filled(d) == ItemsAt(d, {n \in DOMAIN d : ~IsEmpty(d[n])})

LEMMA FilledAppend ==
  ASSUME NEW R, NEW d \in Seq(R), NEW x \in R
  PROVE  Filled(Append(d, x)) = IF IsEmpty(x) THEN Filled(d) ELSE Append(Filled(d), x)
<1>1. PICK e, I, J : /\ e = Append(d, x) /\ I = {n \in DOMAIN d : ~IsEmpty(d[n])}
                     /\ J = {n \in DOMAIN e : ~IsEmpty(e[n])}
  OBVIOUS
<1>2. /\ e \in Seq(R) /\ Len(d) \in Nat /\ DOMAIN d = 1 .. Len(d) /\ DOMAIN e = 1 .. Len(d) + 1
      /\ (\A n \in 1 .. Len(d) : e[n] = d[n]) /\ e[Len(d) + 1] = x
  <2>1. e \in Seq(R) /\ Len(e) = Len(d) + 1 /\ (\A n \in 1 .. Len(d) : e[n] = d[n])
          /\ e[Len(d) + 1] = x
    BY <1>1, AppendProperties
  <2>. QED BY <2>1, LenProperties
<1>3. ItemsAt(d, J) = ItemsAt(d, I)
  <2>1. \A n \in 1 .. Len(d) : n \in J <=> n \in I BY <1>1, <1>2
  <2>. QED BY <2>1, ItemsAtSame
<1>4. Len(d) + 1 \in J <=> ~IsEmpty(x) BY <1>1, <1>2
<1>5. ItemsAt(e, J) = IF Len(d) + 1 \in J THEN Append(ItemsAt(d, J), x) ELSE ItemsAt(d, J)
  <2>1. ItemsAt(Append(d, x), J)
          = IF Len(d) + 1 \in J THEN Append(ItemsAt(d, J), x) ELSE ItemsAt(d, J)
    BY ItemsAtAppend
  <2>. QED BY <1>1, <2>1
<1>. QED BY <1>1, <1>3, <1>4, <1>5 DEF Filled

LEMMA FilledParts ==
  ASSUME NEW R, HavePartsIn(R), NEW d \in Seq(R)
  PROVE  Filled(d) \in Seq(R) /\ PartsOf(Filled(d)) = PartsOf(d)
<1>. DEFINE Good == {e \in Seq(R) : Filled(e) \in Seq(R) /\ PartsOf(Filled(e)) = PartsOf(e)}
<1>1. << >> \in Good
  <2>1. Filled(<< >>) = << >> BY ItemsAtEmpty DEF Filled
  <2>. QED BY <2>1, EmptySeq
<1>2. ASSUME NEW e \in Seq(R), e \in Good, NEW x \in R PROVE Append(e, x) \in Good
  <2>1. PICK f, one, all : f = Filled(e) /\ one = << x >> /\ all = Append(e, x) OBVIOUS
  <2>2. f \in Seq(R) /\ PartsOf(f) = PartsOf(e) BY <1>2, <2>1
  <2>3. one \in Seq(R) /\ PartsOf(one) = x.parts BY <2>1, PartsOfOne
  <2>4. all \in Seq(R) /\ all = e \o one BY <2>1, AppendProperties, AppendIsConcat
  <2>5. PartsOf(e \o one) = PartsOf(e) \o PartsOf(one) BY <2>3, PartsOfConcat
  <2>6. CASE IsEmpty(x)
    <3>1. PartsOf(one) = << >> BY <2>3, <2>6 DEF IsEmpty, HasContent
    <3>2. PartsOf(e) \in Seq(WrittenPart) BY PartsOfIsMap
    <3>3. PICK p : p = PartsOf(e) OBVIOUS
    <3>4. p \o << >> = p BY <3>2, <3>3, ConcatEmptySeq
    <3>5. Filled(all) = f BY <2>1, <2>6, FilledAppend
    <3>. QED BY <2>1, <2>2, <2>4, <2>5, <3>1, <3>3, <3>4, <3>5
  <2>7. CASE ~IsEmpty(x)
    <3>1. Filled(all) = Append(f, x) BY <2>1, <2>7, FilledAppend
    <3>2. Append(f, x) = f \o one /\ Append(f, x) \in Seq(R)
      BY <2>1, <2>2, AppendProperties, AppendIsConcat
    <3>3. PartsOf(f \o one) = PartsOf(f) \o PartsOf(one) BY <2>2, <2>3, PartsOfConcat
    <3>. QED BY <2>1, <2>2, <2>4, <2>5, <3>1, <3>2, <3>3
  <2>. QED BY <2>6, <2>7
<1>3. Seq(R) \subseteq Good
  <2>. HIDE DEF Good
  <2>. QED BY <1>1, <1>2, InductionOnSeq
<1>. QED BY <1>3

(* The results of the groups.                                              *)
LEMMA CollectedFields ==
  ASSUME NEW a, NEW group
  PROVE  /\ Collected(a, group).parts = PartsAt(a, group)
         /\ DetachFinish(Collected(a, group)).parts = PartsAt(a, group)
         /\ DetachFinish(Collected(a, group)).finish = None
<1>1. PICK p, q : Collected(a, group) = [EmptyResult EXCEPT !.parts = p, !.finish = q]
                  /\ p = PartsAt(a, group)
  BY DEF Collected
<1>. QED BY <1>1 DEF EmptyResult, DetachFinish

LEMMA ReadParts ==
  ASSUME NEW a, IsAnswer(a), NEW out, out = StreamVertexResponse(a).out
  PROVE  /\ PartsOf(out) = FlatMap(PartsOfSpot(a.events),
                                   FlattenSeq(SubSeq(Groups(a), 1, Decoded(a))))
         /\ \A n \in DOMAIN out :
              out[n].finish # None => n = Len(out) /\ ~StreamVertexResponse(a).failed
<1>1. PICK events, S, f, groups, D, gs :
        /\ events = a.events /\ S = SpotsOf(events) /\ f = PartsOfSpot(events)
        /\ groups = Groups(a) /\ D = Decoded(a) /\ gs = SubSeq(groups, 1, D)
  OBVIOUS
<1>2. events \in Seq(Seq(Items)) /\ groups \in Seq(Seq(S)) /\ D \in 0 .. Len(groups)
  BY <1>1, GroupsFacts, DecodedFacts DEF IsAnswer
<1>3. gs \in Seq(Seq(S)) /\ Len(gs) = D /\ \A n \in 1 .. D : gs[n] = groups[n]
  BY <1>1, <1>2, BeginningIsPrefix
<1>4. IsMap(f, S, Seq(WrittenPart)) BY <1>1, <1>2, PartsOfSpotType
<1>5. D \in Nat /\ DOMAIN gs = 1 .. D BY <1>2, <1>3, LenProperties
<1>6. ASSUME NEW n \in 1 .. D
      PROVE  PartsAt(a, groups[n]) = FlatMap(f, gs[n]) /\ FlatMap(f, gs[n]) \in Seq(WrittenPart)
  <2>1. gs[n] \in Seq(S) BY <1>3, <1>5, ElementOfSeq
  <2>. QED BY <1>1, <1>3, <1>4, <2>1, PartsAtIsMap, FlatMapType
<1>7. PICK results, R, T :
        /\ results = ResultsOf(a) /\ R = {results[n] : n \in 1 .. D}
        /\ T = {DetachFinish(r) : r \in R}
  OBVIOUS
<1>8. DOMAIN results = 1 .. D /\ \A n \in 1 .. D : results[n] = Collected(a, groups[n])
  BY <1>1, <1>7 DEF ResultsOf
<1>9. HavePartsIn(R) /\ HavePartsIn(T) /\ \A t \in T : t.finish = None
  BY <1>6, <1>7, <1>8, CollectedFields DEF HavePartsIn
<1>10. PICK detached : detached = [n \in DOMAIN results |-> DetachFinish(results[n])] OBVIOUS
<1>11. detached \in Seq(T)
  <2>1. detached \in [1 .. D -> T] BY <1>7, <1>8, <1>10
  <2>. QED BY <1>5, <2>1
<1>12. PartsOf(detached) = FlatMap(f, FlattenSeq(gs))
  <2>1. DOMAIN detached = 1 .. D BY <1>8, <1>10
  <2>2. \A n \in 1 .. D : detached[n].parts = FlatMap(f, gs[n])
    BY <1>6, <1>8, <1>10, CollectedFields
  <2>3. [n \in DOMAIN detached |-> detached[n].parts] = [n \in DOMAIN gs |-> FlatMap(f, gs[n])]
    BY <1>5, <2>1, <2>2
  <2>4. FlatMap(f, FlattenSeq(gs)) = FlattenSeq([n \in DOMAIN gs |-> FlatMap(f, gs[n])])
    <3>1. gs \in Seq(Seq(S)) BY <1>3
    <3>. QED BY <3>1, <1>4, FlatMapFlatten
  <2>. QED BY <2>3, <2>4 DEF PartsOf
<1>13. PICK h : h = HandedOn(results) OBVIOUS
<1>14. h = Filled(detached) BY <1>10, <1>13 DEF HandedOn, Filled
<1>15. h \in Seq(T) /\ PartsOf(h) = FlatMap(f, FlattenSeq(gs))
  BY <1>9, <1>11, <1>12, <1>14, FilledParts
<1>16. PICK finish, failed, last :
         /\ finish = FinishOf(results)
         /\ failed = StreamVertexResponse(a).failed
         /\ last = FinishResult(finish)
  OBVIOUS
<1>17. out = h \o (IF failed \/ finish = None THEN << >> ELSE << last >>)
  BY <1>7, <1>13, <1>16 DEF StreamVertexResponse
<1>18. Len(h) \in Nat /\ DOMAIN h = 1 .. Len(h) /\ \A n \in 1 .. Len(h) : h[n].finish = None
  BY <1>9, <1>15, LenProperties, ElementOfSeq
<1>19. CASE failed \/ finish = None
  <2>1. out = h BY <1>15, <1>17, <1>19, ConcatEmptySeq
  <2>. QED BY <1>1, <1>15, <1>18, <2>1
<1>20. CASE ~(failed \/ finish = None)
  <2>1. out = h \o << last >> BY <1>17, <1>20
  <2>2. last.parts = << >> BY <1>16 DEF FinishResult, EmptyResult
  <2>3. PICK U, one : U = T \cup {last} /\ one = << last >> OBVIOUS
  <2>4. HavePartsIn(U)
    <3>1. << >> \in Seq(WrittenPart) BY EmptySeq
    <3>. QED BY <1>9, <2>2, <2>3, <3>1 DEF HavePartsIn
  <2>5. h \in Seq(U) /\ one \in Seq(U) /\ Len(one) = 1
    <3>1. h \in Seq(U) BY <1>15, <2>3, SeqMonotonic
    <3>. QED BY <2>3, <3>1
  <2>6. PartsOf(h \o one) = PartsOf(h) \o PartsOf(one) BY <2>4, <2>5, PartsOfConcat
  <2>7. PartsOf(one) = << >> BY <2>2, <2>3, <2>4, PartsOfOne
  <2>8. PartsOf(h) \in Seq(WrittenPart) BY <1>9, <1>15, PartsOfIsMap
  <2>9. PICK p : p = PartsOf(h) OBVIOUS
  <2>10. p \o << >> = p BY <2>8, <2>9, ConcatEmptySeq
  <2>11. PartsOf(out) = PartsOf(h) BY <2>1, <2>3, <2>6, <2>7, <2>9, <2>10
  <2>12. out \in Seq(U) /\ Len(out) = Len(h) + 1 /\ \A n \in 1 .. Len(h) : out[n] = h[n]
    <3>1. PICK u : u = h \o one OBVIOUS
    <3>2. u \in Seq(U) /\ Len(u) = Len(h) + Len(one) /\ \A n \in 1 .. Len(h) : u[n] = h[n]
      <4>1. h \in Seq(U) /\ one \in Seq(U) BY <2>5
      <4>2. u = h \o one BY <3>1
      <4>3. u \in Seq(U) BY <4>1, <4>2, OfConcat
      <4>4. Len(u) = Len(h) + Len(one) BY <4>1, <4>2, OfConcat
      <4>5. \A n \in 1 .. Len(h) : u[n] = h[n] BY <4>1, <4>2, OfConcat
      <4>. QED BY <4>3, <4>4, <4>5
    <3>3. out = u BY <2>1, <2>3, <3>1
    <3>. QED BY <2>5, <3>2, <3>3
  <2>13. \A n \in DOMAIN out : n \in 1 .. Len(h) \/ n = Len(out)
    BY <1>18, <2>12, LenProperties
  <2>. QED BY <1>1, <1>15, <1>16, <1>18, <1>20, <2>11, <2>12, <2>13
<1>. QED BY <1>19, <1>20


(* The items that were read: those of the groups that decode.              *)
ReadItems(a) == FlattenSeq(SubSeq(Groups(a), 1, Decoded(a)))

LEMMA ReadItemsFacts ==
  ASSUME NEW a, IsAnswer(a)
  PROVE  /\ ReadItems(a) \in Seq({p \in SpotsOf(a.events) : Decodes(ItemAt(a, p))})
         /\ ReadItems(a) \in Seq(SpotsOf(a.events))
         /\ IsPrefix(ReadItems(a), FlattenSeq(Groups(a)))
         /\ IsPrefix(ReadItems(a), FlattenSeq(Rows(a.events)))
<1>1. PICK S, groups, D, gs, good, rows :
        /\ S = SpotsOf(a.events) /\ groups = Groups(a) /\ D = Decoded(a)
        /\ gs = SubSeq(groups, 1, D) /\ good = {p \in S : Decodes(ItemAt(a, p))}
        /\ rows = Rows(a.events)
  OBVIOUS
<1>2. groups \in Seq(Seq(S)) /\ D \in 0 .. Len(groups)
        /\ IsPrefix(FlattenSeq(groups), FlattenSeq(rows))
  BY <1>1, GroupsFacts, DecodedFacts
<1>3. rows \in Seq(Seq(S)) BY <1>1, RowsType DEF IsAnswer
<1>4. gs \in Seq(Seq(S)) /\ Len(gs) = D /\ (\A n \in 1 .. D : gs[n] = groups[n])
        /\ IsPrefix(gs, groups)
  BY <1>1, <1>2, BeginningIsPrefix
<1>5. \A n \in 1 .. D : ~GroupFails(a, gs[n]) BY <1>1, <1>4, DecodedFacts
<1>6. ASSUME NEW n \in 1 .. D PROVE gs[n] \in Seq(good)
  <2>1. PICK g : g = gs[n] OBVIOUS
  <2>2. g \in Seq(S) BY <1>4, <2>1, ElementOfSeq
  <2>3. Len(g) \in Nat /\ DOMAIN g = 1 .. Len(g) /\ \A i \in 1 .. Len(g) : g[i] \in S
    BY <2>2, LenProperties, ElementOfSeq
  <2>4. \A i \in 1 .. Len(g) : Decodes(ItemAt(a, g[i])) BY <1>5, <2>1, <2>3 DEF GroupFails
  <2>5. \A i \in 1 .. Len(g) : g[i] \in good BY <1>1, <2>3, <2>4
  <2>6. g = [i \in 1 .. Len(g) |-> g[i]] BY <2>2, <2>3
  <2>7. g \in [1 .. Len(g) -> good] BY <2>5, <2>6
  <2>. QED BY <2>1, <2>3, <2>7
<1>7. gs \in Seq(Seq(good))
  <2>1. D \in Nat /\ DOMAIN gs = 1 .. D BY <1>2, <1>4, LenProperties
  <2>2. gs = [n \in 1 .. D |-> gs[n]] BY <1>4, <2>1
  <2>3. PICK G : G = Seq(good) OBVIOUS
  <2>4. gs \in [1 .. D -> G] BY <1>6, <2>2, <2>3
  <2>. QED BY <2>1, <2>3, <2>4
<1>8. PICK flat : flat = FlattenSeq(gs) OBVIOUS
<1>9. flat \in Seq(good) /\ flat \in Seq(S) BY <1>4, <1>7, <1>8, FlattenType
<1>10. PICK all, written : all = FlattenSeq(groups) /\ written = FlattenSeq(rows) OBVIOUS
<1>11. all \in Seq(S) /\ written \in Seq(S) BY <1>2, <1>3, <1>10, FlattenType
<1>12. IsPrefix(flat, all) BY <1>2, <1>4, <1>8, <1>10, FlattenPrefix
<1>13. IsPrefix(flat, written) BY <1>2, <1>9, <1>10, <1>11, <1>12, PrefixOfPrefix
<1>14. ReadItems(a) = flat BY <1>1, <1>8 DEF ReadItems
<1>. QED BY <1>1, <1>9, <1>10, <1>12, <1>13, <1>14

(* What is handed on is the beginning of what was written ...              *)
LEMMA ReadIsWritten ==
  ASSUME NEW a, IsAnswer(a)
  PROVE  IsPrefix(PartsOf(StreamVertexResponse(a).out), Wrote(a))
<1>1. PICK events, S, f, flat, all :
        /\ events = a.events /\ S = SpotsOf(events) /\ f = PartsOfSpot(events)
        /\ flat = ReadItems(a) /\ all = FlattenSeq(Rows(events))
  OBVIOUS
<1>2. events \in Seq(Seq(Items)) BY <1>1 DEF IsAnswer
<1>3. IsMap(f, S, Seq(WrittenPart)) BY <1>1, <1>2, PartsOfSpotType
<1>4. flat \in Seq(S) /\ IsPrefix(flat, all) BY <1>1, ReadItemsFacts
<1>5. all \in Seq(S)
  <2>1. PICK rows : rows = Rows(events) OBVIOUS
  <2>2. rows \in Seq(Seq(S)) BY <1>1, <1>2, <2>1, RowsType
  <2>. QED BY <1>1, <2>1, <2>2, FlattenType
<1>6. IsPrefix(FlatMap(f, flat), FlatMap(f, all)) BY <1>3, <1>4, <1>5, FlatMapPrefix
<1>7. PartsOf(StreamVertexResponse(a).out) = FlatMap(f, flat)
  BY <1>1, ReadParts DEF ReadItems
<1>8. Wrote(a) = FlatMap(f, all) BY <1>1, WroteIsMap
<1>. QED BY <1>6, <1>7, <1>8

(* ... and all of it when nothing failed.                                  *)
LEMMA WholeIsRead ==
  ASSUME NEW a, IsAnswer(a), a.end = "whole", AllDecode(a), a.events # << >>
  PROVE  /\ ~StreamVertexResponse(a).failed
         /\ PartsOf(StreamVertexResponse(a).out) = Wrote(a)
<1>1. PICK events, S, groups, D :
        events = a.events /\ S = SpotsOf(events) /\ groups = Groups(a) /\ D = Decoded(a)
  OBVIOUS
<1>2. groups \in Seq(Seq(S)) /\ FlattenSeq(groups) = FlattenSeq(Rows(events)) BY <1>1, GroupsFacts
<1>3. Len(groups) \in Nat /\ DOMAIN groups = 1 .. Len(groups) BY <1>2, LenProperties
<1>4. ASSUME NEW n \in 1 .. Len(groups) PROVE ~GroupFails(a, groups[n])
  <2>1. PICK g : g = groups[n] OBVIOUS
  <2>2. g \in Seq(S) BY <1>2, <2>1, ElementOfSeq
  <2>3. ASSUME NEW i \in DOMAIN g PROVE Decodes(ItemAt(a, g[i]))
    <3>1. g[i] \in S BY <2>2, ElementOfSeq
    <3>2. PICK p : p = g[i] OBVIOUS
    <3>3. p[1] \in DOMAIN events /\ p[2] \in DOMAIN events[p[1]] BY <1>1, <3>1, <3>2 DEF SpotsOf
    <3>. QED BY <1>1, <3>2, <3>3 DEF AllDecode, ItemAt
  <2>. QED BY <2>1, <2>3 DEF GroupFails
<1>5. D = Len(groups)
  <2>1. D \in 0 .. Len(groups) BY <1>1, DecodedFacts
  <2>2. Len(groups) <= D
    <3>1. Len(groups) \in 0 .. Len(groups) BY <1>3
    <3>. QED BY <1>1, <1>4, <3>1, DecodedFacts
  <2>3. PICK n : n = Len(groups) /\ n \in Nat BY <1>3
  <2>. QED BY <2>1, <2>2, <2>3
<1>6. EndsWell(a)
  <2>1. a.read = Len(events) /\ a.torn = NotTorn /\ events \in Seq(Seq(Items))
    BY <1>1 DEF IsAnswer
  <2>2. Len(events) \in Nat /\ Len(events) # 0 BY <1>1, <2>1, LenProperties, EmptySeq
  <2>. QED BY <2>1, <2>2 DEF EndsWell, Torn
<1>7. ~StreamVertexResponse(a).failed
  <2>1. ~(D < Len(groups)) BY <1>3, <1>5
  <2>. QED BY <1>1, <1>6, <2>1 DEF StreamVertexResponse
<1>8. SubSeq(groups, 1, D) = groups BY <1>2, <1>5, SubSeqFull
<1>9. PartsOf(StreamVertexResponse(a).out)
        = FlatMap(PartsOfSpot(events), FlattenSeq(SubSeq(groups, 1, D)))
  BY <1>1, ReadParts
<1>. QED BY <1>1, <1>2, <1>7, <1>8, <1>9, WroteIsMap

(* The same answer in the form that is read furthest.                      *)
LEMMA FormOfAnswer ==
  ASSUME NEW a, IsAnswer(a), NEW form \in Forms, NEW b, b = InForm(a, form)
  PROVE  /\ IsAnswer(b) /\ b.form = form /\ b.events = a.events /\ b.read = a.read
         /\ b.torn = a.torn /\ b.end = a.end
         /\ Arrived(b) = Arrived(a)
         /\ \A p : ItemAt(b, p) = ItemAt(a, p)
<1>1. /\ b.form = form /\ b.events = a.events /\ b.read = a.read /\ b.torn = a.torn /\ b.end = a.end
      /\ b \in [form : Forms, events : Seq(Seq(Items)), read : Nat, torn : Int,
                end : {"whole", "closed", "broken"}]
  BY DEF InForm, IsAnswer
<1>2. IsAnswer(b) BY <1>1 DEF IsAnswer
<1>3. \A e : ItemsOf(b, e) = ItemsOf(a, e) BY <1>1 DEF ItemsOf
<1>4. Arrived(b) = Arrived(a) BY <1>1, <1>3 DEF Arrived, Begun, Torn
<1>. QED BY <1>1, <1>2, <1>4 DEF ItemAt

LEMMA ObjectsReadFurthest ==
  ASSUME NEW a, IsAnswer(a)
  PROVE  IsPrefix(PartsOf(StreamVertexResponse(a).out),
                  PartsOf(StreamVertexResponse(InForm(a, "objects")).out))
<1>1. PICK b : b = InForm(a, "objects") OBVIOUS
<1>2. /\ IsAnswer(b) /\ b.form = "objects" /\ b.events = a.events
      /\ Arrived(b) = Arrived(a) /\ \A p : ItemAt(b, p) = ItemAt(a, p)
  BY <1>1, FormOfAnswer DEF Forms
<1>3. PICK S, good, items, flat, groups, K, E :
        /\ S = SpotsOf(a.events) /\ good = {p \in S : Decodes(ItemAt(a, p))}
        /\ items = FlattenSeq(Arrived(a)) /\ flat = ReadItems(a) /\ groups = Groups(b)
        /\ K = Len(flat) /\ E = Decoded(b)
  OBVIOUS
<1>4. items \in Seq(S)
  <2>1. PICK r : r = Arrived(a) OBVIOUS
  <2>2. r \in Seq(Seq(S)) BY <1>3, <2>1, ArrivedFacts
  <2>. QED BY <1>3, <2>1, <2>2, FlattenType
<1>5. flat \in Seq(good) /\ flat \in Seq(S) BY <1>3, ReadItemsFacts
<1>6. IsPrefix(flat, items)
  <2>1. PICK gs : gs = Groups(a) OBVIOUS
  <2>2. gs \in Seq(Seq(S)) BY <1>3, <2>1, GroupsFacts
  <2>3. PICK all : all = FlattenSeq(gs) OBVIOUS
  <2>4. all \in Seq(S) BY <2>2, <2>3, FlattenType
  <2>5. IsPrefix(flat, all) BY <1>3, <2>1, <2>3, ReadItemsFacts
  <2>6. IsPrefix(all, items)
    <3>1. CASE a.form = "sse"
      <4>1. gs = SubSeq(Rows(a.events), 1, a.read) BY <2>1, <3>1, GroupsFacts
      <4>. QED BY <1>3, <2>3, <4>1, ArrivedFacts
    <3>2. CASE a.form # "sse"
      <4>1. all = items BY <1>3, <2>1, <2>3, <3>2, GroupsFacts
      <4>. QED BY <1>4, <4>1, PrefixOfItself
    <3>. QED BY <3>1, <3>2
  <2>. QED BY <1>4, <1>5, <2>4, <2>5, <2>6, PrefixOfPrefix
<1>7. groups = Singles(items) BY <1>2, <1>3, GroupsFacts
<1>8. Len(groups) = Len(items) /\ E \in 0 .. Len(groups)
  BY <1>2, <1>3, <1>4, <1>7, FlattenSingles, DecodedFacts
<1>9. K \in 0 .. Len(items) /\ flat = SubSeq(items, 1, K) /\ \A i \in 1 .. K : flat[i] = items[i]
  BY <1>3, <1>4, <1>5, <1>6, PrefixIsBeginning
<1>10. K <= E
  <2>1. ASSUME NEW g \in 1 .. K PROVE ~GroupFails(b, groups[g])
    <3>1. flat[g] \in good
      <4>1. g \in 1 .. Len(flat) BY <1>3
      <4>. QED BY <1>5, <4>1, ElementOfSeq
    <3>2. g \in DOMAIN items
      <4>1. DOMAIN items = 1 .. Len(items) /\ Len(items) \in Nat BY <1>4, LenProperties
      <4>. QED BY <1>9, <4>1
    <3>3. groups[g] = << flat[g] >> BY <1>7, <1>9, <3>2 DEF Singles
    <3>4. PICK p : p = flat[g] OBVIOUS
    <3>5. Decodes(ItemAt(b, p)) BY <1>2, <1>3, <3>1, <3>4
    <3>6. groups[g] = << p >> BY <3>3, <3>4
    <3>. QED BY <3>5, <3>6 DEF GroupFails
  <2>. QED BY <1>2, <1>3, <1>8, <1>9, <2>1, DecodedFacts
<1>11. PICK gs : gs = SubSeq(groups, 1, E) OBVIOUS
<1>12. ReadItems(b) = SubSeq(items, 1, E)
  <2>1. PICK t : t = SubSeq(items, 1, E) OBVIOUS
  <2>2. t \in Seq(S) /\ Len(t) = E /\ \A i \in 1 .. E : t[i] = items[i]
    BY <1>4, <1>8, <2>1, BeginningIsPrefix
  <2>3. Singles(t) \in Seq(Seq(S)) /\ Len(Singles(t)) = E /\ FlattenSeq(Singles(t)) = t
    BY <2>2, FlattenSingles
  <2>4. groups \in Seq(Seq(S)) BY <1>4, <1>7, FlattenSingles
  <2>5. gs \in Seq(Seq(S)) /\ Len(gs) = E /\ \A i \in 1 .. E : gs[i] = groups[i]
    BY <1>8, <1>11, <2>4, BeginningIsPrefix
  <2>6. gs = Singles(t)
    <3>1. \A i \in 1 .. E : i \in DOMAIN items /\ i \in DOMAIN t
      <4>1. DOMAIN items = 1 .. Len(items) /\ Len(items) \in Nat /\ DOMAIN t = 1 .. E
        BY <1>4, <2>2, LenProperties
      <4>. QED BY <1>8, <4>1
    <3>2. \A i \in 1 .. E : groups[i] = << items[i] >> /\ Singles(t)[i] = << t[i] >>
      BY <1>7, <3>1 DEF Singles
    <3>3. PICK u : u = Singles(t) OBVIOUS
    <3>4. u \in Seq(Seq(S)) /\ Len(u) = E /\ \A i \in 1 .. E : u[i] = gs[i]
      BY <2>2, <2>3, <2>5, <3>2, <3>3
    <3>5. u = gs BY <2>5, <3>4, SeqEqual
    <3>. QED BY <3>3, <3>5
  <2>. QED BY <1>3, <1>11, <2>1, <2>3, <2>6 DEF ReadItems
<1>13. PICK read : read = SubSeq(items, 1, E) OBVIOUS
<1>14. read \in Seq(S) BY <1>4, <1>8, <1>13, BeginningIsPrefix
<1>15. IsPrefix(flat, read)
  <2>1. K \in 0 .. E BY <1>8, <1>9, <1>10
  <2>2. IsPrefix(SubSeq(items, 1, K), SubSeq(items, 1, E)) BY <1>4, <1>8, <2>1, BeginningsNest
  <2>. QED BY <1>9, <1>13, <2>2
<1>16. PICK f : f = PartsOfSpot(a.events) OBVIOUS
<1>17. IsMap(f, S, Seq(WrittenPart)) BY <1>3, <1>16, PartsOfSpotType DEF IsAnswer
<1>18. IsPrefix(FlatMap(f, flat), FlatMap(f, read)) BY <1>5, <1>14, <1>15, <1>17, FlatMapPrefix
<1>19. PartsOf(StreamVertexResponse(a).out) = FlatMap(f, flat)
  BY <1>3, <1>16, ReadParts DEF ReadItems
<1>20. PartsOf(StreamVertexResponse(b).out) = FlatMap(f, read)
  BY <1>2, <1>12, <1>13, <1>16, ReadParts DEF ReadItems
<1>. QED BY <1>1, <1>18, <1>19, <1>20

(* Joined parts, and the parts a joined part stands for.                   *)
JoinedPart == [kind : PartKinds, from : Seq(Seq(Int))]
Apart == [j \in JoinedPart |-> [k \in DOMAIN j.from |-> [kind |-> j.kind, from |-> j.from[k]]]]
Alone(part) == [kind |-> part.kind, from |-> << part.from >>]

(* A part is put to the last of the same kind, or behind it.               *)
PutsTo(s, part) == s # << >> /\ Mergeable(part.kind) /\ Last(s).kind = part.kind

PutToLast(s, t, part) ==
  \E front \in Seq(JoinedPart), last \in JoinedPart, new \in JoinedPart :
    /\ s = Append(front, last) /\ t = Append(front, new)
    /\ last.kind = part.kind /\ new.kind = part.kind
    /\ new.from = Append(last.from, part.from)

LEMMA JoinTextCases ==
  ASSUME NEW s \in Seq(JoinedPart), NEW part \in WrittenPart, NEW t, t = JoinText(s, part)
  PROVE  /\ t \in Seq(JoinedPart) 
         /\ ~PutsTo(s, part) => t = Append(s, Alone(part)) /\ Alone(part) \in JoinedPart
         /\ PutsTo(s, part) => PutToLast(s, t, part)
<1>1. part.kind \in PartKinds /\ part.from \in Seq(Int) BY DEF WrittenPart
<1>2. CASE ~PutsTo(s, part)
  <2>1. t = Append(s, Alone(part)) BY <1>2 DEF JoinText, PutsTo, Alone
  <2>2. << part.from >> \in Seq(Seq(Int))
    <3>1. PICK T, x : T = Seq(Int) /\ x = part.from OBVIOUS
    <3>2. << x >> \in Seq(T) BY <1>1, <3>1
    <3>. QED BY <3>1, <3>2
  <2>3. Alone(part) \in JoinedPart BY <1>1, <2>2 DEF Alone, JoinedPart
  <2>4. t \in Seq(JoinedPart) BY <2>1, <2>3, AppendProperties
  <2>. QED BY <1>2, <2>1, <2>3, <2>4
<1>3. CASE PutsTo(s, part)
  <2>1. PICK N : N = Len(s) OBVIOUS
  <2>2. N \in Nat /\ N # 0 /\ DOMAIN s = 1 .. N BY <1>3, <2>1, LenProperties, EmptySeq DEF PutsTo
  <2>3. PICK front : front = SubSeq(s, 1, N - 1) OBVIOUS
  <2>4. N - 1 \in 0 .. N /\ N \in 1 .. N BY <2>2
  <2>5. front \in Seq(JoinedPart) /\ Len(front) = N - 1 /\ \A i \in 1 .. N - 1 : front[i] = s[i]
    BY <2>1, <2>3, <2>4, BeginningIsPrefix
  <2>6. PICK last : last = s[N] OBVIOUS
  <2>7. last \in JoinedPart /\ Last(s) = last
    BY <2>1, <2>4, <2>6, ElementOfSeq DEF Last
  <2>8. PICK new : new = [kind |-> last.kind, from |-> Append(last.from, part.from)] OBVIOUS
  <2>9. new \in JoinedPart
    <3>1. PICK T : T = Seq(Int) OBVIOUS
    <3>2. last.kind \in PartKinds /\ last.from \in Seq(T) /\ part.from \in T
      BY <1>1, <2>7, <3>1 DEF JoinedPart
    <3>3. Append(last.from, part.from) \in Seq(T) BY <3>2, AppendProperties
    <3>. QED BY <2>8, <3>1, <3>2, <3>3 DEF JoinedPart
  <2>10. t = [s EXCEPT ![N] = new]
    <3>1. t = [s EXCEPT ![N].from = Append(@, part.from)]
      BY <1>3, <2>1 DEF JoinText, PutsTo
    <3>2. [last EXCEPT !.from = Append(@, part.from)] = new
      <4>1. PICK k, p, q : k = last.kind /\ p = last.from /\ q = Append(p, part.from) OBVIOUS
      <4>2. last = [kind |-> k, from |-> p] BY <2>7, <4>1 DEF JoinedPart
      <4>3. [last EXCEPT !.from = Append(@, part.from)] = [last EXCEPT !.from = q] BY <4>1
      <4>4. [last EXCEPT !.from = q] = [kind |-> k, from |-> q] BY <4>2
      <4>. QED BY <2>8, <4>1, <4>3, <4>4
    <3>3. t = [s EXCEPT ![N] = [s[N] EXCEPT !.from = Append(@, part.from)]] BY <2>2, <3>1
    <3>. QED BY <2>6, <3>2, <3>3
  <2>11. PICK u, v : u = Append(front, last) /\ v = Append(front, new) OBVIOUS
  <2>12. /\ u \in Seq(JoinedPart) /\ Len(u) = N /\ u[N] = last
         /\ v \in Seq(JoinedPart) /\ Len(v) = N /\ v[N] = new
         /\ \A i \in 1 .. N - 1 : u[i] = front[i] /\ v[i] = front[i]
    <3>1. Len(front) + 1 = N BY <2>2, <2>5
    <3>. QED BY <2>5, <2>7, <2>9, <2>11, <3>1, AppendProperties
  <2>13. \A i \in 1 .. N : i \in 1 .. N - 1 \/ i = N BY <2>2
  <2>14. u = s
    <3>1. \A i \in 1 .. N : u[i] = s[i] BY <2>5, <2>6, <2>12, <2>13
    <3>. QED BY <2>1, <2>12, <3>1, SeqEqual
  <2>15. v = t
    <3>1. DOMAIN v = 1 .. N BY <2>12, LenProperties
    <3>2. v = [i \in 1 .. N |-> v[i]] BY <2>12, <3>1
    <3>3. t = [i \in 1 .. N |-> IF i = N THEN new ELSE s[i]] BY <2>2, <2>10
    <3>4. \A i \in 1 .. N : v[i] = IF i = N THEN new ELSE s[i] 
      <4>1. \A i \in 1 .. N - 1 : i # N BY <2>2
      <4>. QED BY <2>5, <2>12, <2>13, <4>1
    <3>. QED BY <3>2, <3>3, <3>4
  <2>16. last.kind = part.kind BY <1>3, <2>7 DEF PutsTo
  <2>17. t \in Seq(JoinedPart) BY <2>12, <2>15
  <2>18. new.kind = part.kind /\ new.from = Append(last.from, part.from) BY <2>8, <2>16
  <2>19. s = Append(front, last) /\ t = Append(front, new) BY <2>11, <2>14, <2>15
  <2>20. PutToLast(s, t, part) BY <2>5, <2>7, <2>9, <2>16, <2>18, <2>19 DEF PutToLast
  <2>. QED BY <1>3, <2>17, <2>20
<1>. QED BY <1>2, <1>3

(* The recursion of CoalesceVertexParts.                                   *)
JoinsUp(g, parts) ==
  g[0] = << >> /\ \A n \in 1 .. Len(parts) : g[n] = JoinText(g[n - 1], parts[n])

LEMMA CoalesceRecursion ==
  ASSUME NEW parts \in Seq(WrittenPart)
  PROVE  \E g \in [0 .. Len(parts) -> Seq(JoinedPart)] :
           JoinsUp(g, parts) /\ CoalesceVertexParts(parts) = g[Len(parts)]
<1>. DEFINE N == Len(parts)
            X == Seq(JoinedPart)
            step == [n \in 1 .. N |-> [t \in X |-> JoinText(t, parts[n])]]
            Rec(f) == [n \in 0 .. N |-> IF n = 0 THEN << >> ELSE JoinText(f[n - 1], parts[n])]
            f == CHOOSE f : f = Rec(f)
<1>1. N \in Nat /\ << >> \in X /\ \A n \in 1 .. N : parts[n] \in WrittenPart
  BY LenProperties, EmptySeq, ElementOfSeq
<1>2. ASSUME NEW n \in 1 .. N, NEW t \in X PROVE JoinText(t, parts[n]) \in X
  BY <1>1, JoinTextCases
<1>3. step \in [1 .. N -> [X -> X]]
  <2>. HIDE DEF X, N
  <2>. QED BY <1>2
<1>4. \E g \in [0 .. N -> X] : Computes(g, N, << >>, step)
  <2>. HIDE DEF step, N, X
  <2>. QED BY <1>1, <1>3, RecursionExists
<1>. HIDE DEF X
<1>5. PICK g \in [0 .. N -> X] : Computes(g, N, << >>, step)
  BY <1>4
<1>6. ASSUME NEW n \in 1 .. N PROVE g[n] = JoinText(g[n - 1], parts[n])
  <2>1. n - 1 \in 0 .. N
    <3>. HIDE DEF N
    <3>. QED BY <1>1
  <2>2. g[n - 1] \in X
    <3>. HIDE DEF N
    <3>. QED BY <2>1
  <2>3. g[n] = step[n][g[n - 1]]
    <3>. HIDE DEF step
    <3>. QED BY <1>5 DEF Computes
  <2>4. PICK x : x = g[n - 1] OBVIOUS
  <2>5. step[n][x] = JoinText(x, parts[n]) BY <2>2, <2>4
  <2>. QED BY <2>3, <2>4, <2>5
<1>7. g[0] = << >> BY <1>5 DEF Computes
<1>8. JoinsUp(g, parts)
  BY <1>6, <1>7 DEF JoinsUp
<1>. HIDE DEF step
<1>9. g = Rec(g)
  <2>1. ASSUME NEW n \in 0 .. N PROVE g[n] = Rec(g)[n]
    <3>1. CASE n = 0 BY <1>7, <3>1
    <3>2. CASE n # 0
      <4>1. n \in 1 .. N BY <1>1, <3>2
      <4>. QED BY <1>6, <3>2, <4>1
    <3>. QED BY <3>1, <3>2
  <2>2. DOMAIN g = 0 .. N /\ DOMAIN Rec(g) = 0 .. N OBVIOUS
  <2>. QED BY <2>1, <2>2
<1>10. f = Rec(f)
  <2>. HIDE DEF Rec
  <2>. QED BY <1>9
<1>11. CoalesceVertexParts(parts) = f[N]
  BY DEF CoalesceVertexParts
<1>. HIDE DEF f
<1>12. \A n \in 0 .. N : g[n] = f[n]
  <2>1. ASSUME NEW n \in 1 .. N, g[n - 1] = f[n - 1] PROVE g[n] = f[n]
    <3>1. f[n] = JoinText(f[n - 1], parts[n])
      <4>1. n # 0 /\ n \in 0 .. N BY <1>1
      <4>2. f[n] = Rec(f)[n] BY <1>10
      <4>3. Rec(f)[n] = JoinText(f[n - 1], parts[n]) BY <4>1
      <4>. QED BY <4>2, <4>3
    <3>. QED BY <1>6, <2>1, <3>1
  <2>2. g[0] = f[0] BY <1>1, <1>7, <1>10
  <2>3. StepAlike(g, f, N) BY <2>1, <2>2 DEF StepAlike
  <2>. HIDE DEF N
  <2>. QED BY <1>1, <2>3, RecursionIsUnique
<1>. QED BY <1>1, <1>8, <1>11, <1>12 DEF X

LEMMA CoalesceEmpty == CoalesceVertexParts(<< >>) = << >>
<1>1. PICK p : p = << >> OBVIOUS
<1>2. p \in Seq(WrittenPart) /\ Len(p) = 0 BY <1>1, EmptySeq
<1>3. PICK g \in [0 .. Len(p) -> Seq(JoinedPart)] :
        JoinsUp(g, p) /\ CoalesceVertexParts(p) = g[Len(p)]
  BY <1>2, CoalesceRecursion
<1>. QED BY <1>1, <1>2, <1>3 DEF JoinsUp

LEMMA CoalesceAppend ==
  ASSUME NEW parts \in Seq(WrittenPart), NEW part \in WrittenPart
  PROVE  /\ CoalesceVertexParts(parts) \in Seq(JoinedPart)
         /\ CoalesceVertexParts(Append(parts, part)) = JoinText(CoalesceVertexParts(parts), part)
<1>1. PICK N, more : N = Len(parts) /\ more = Append(parts, part) OBVIOUS
<1>2. N \in Nat /\ more \in Seq(WrittenPart) /\ Len(more) = N + 1 /\ more[N + 1] = part
        /\ \A n \in 1 .. N : more[n] = parts[n]
  BY <1>1, AppendProperties, LenProperties
<1>3. PICK g \in [0 .. N -> Seq(JoinedPart)] :
        JoinsUp(g, parts) /\ CoalesceVertexParts(parts) = g[N]
  BY <1>1, CoalesceRecursion
<1>4. PICK h \in [0 .. N + 1 -> Seq(JoinedPart)] :
        JoinsUp(h, more) /\ CoalesceVertexParts(more) = h[N + 1]
  BY <1>2, CoalesceRecursion
<1>5. \A n \in 0 .. N : g[n] = h[n]
  <2>1. g[0] = h[0] BY <1>3, <1>4 DEF JoinsUp
  <2>2. ASSUME NEW n \in 1 .. N, g[n - 1] = h[n - 1] PROVE g[n] = h[n]
    <3>1. n \in 1 .. N + 1 BY <1>2
    <3>2. g[n] = JoinText(g[n - 1], parts[n]) BY <1>1, <1>3 DEF JoinsUp
    <3>3. h[n] = JoinText(h[n - 1], more[n]) BY <1>2, <1>4, <3>1 DEF JoinsUp
    <3>. QED BY <1>2, <2>2, <3>2, <3>3
  <2>3. StepAlike(g, h, N) BY <2>1, <2>2 DEF StepAlike
  <2>4. N \in Nat BY <1>2
  <2>. QED BY <2>3, <2>4, RecursionIsUnique
<1>6. h[N + 1] = JoinText(h[N], part)
  <2>1. N + 1 \in 1 .. N + 1 /\ (N + 1) - 1 = N BY <1>2
  <2>. QED BY <1>2, <1>4, <2>1 DEF JoinsUp
<1>7. N \in 0 .. N BY <1>2
<1>. QED BY <1>1, <1>3, <1>4, <1>5, <1>6, <1>7

LEMMA SeparatedIsMap ==
  ASSUME NEW s \in Seq(JoinedPart)
  PROVE  /\ IsMap(Apart, JoinedPart, Seq(WrittenPart))
         /\ Separated(s) = FlatMap(Apart, s)
<1>1. ASSUME NEW j \in JoinedPart
      PROVE  [k \in DOMAIN j.from |-> [kind |-> j.kind, from |-> j.from[k]]] \in Seq(WrittenPart)
  <2>1. PICK T, f, c : T = Seq(Int) /\ f = j.from /\ c = j.kind OBVIOUS
  <2>2. f \in Seq(T) /\ c \in PartKinds BY <2>1 DEF JoinedPart
  <2>3. Len(f) \in Nat /\ DOMAIN f = 1 .. Len(f) /\ \A k \in 1 .. Len(f) : f[k] \in T
    BY <2>2, LenProperties, ElementOfSeq
  <2>4. \A k \in 1 .. Len(f) : [kind |-> c, from |-> f[k]] \in WrittenPart
    BY <2>1, <2>2, <2>3 DEF WrittenPart
  <2>5. PICK r : r = [k \in 1 .. Len(f) |-> [kind |-> c, from |-> f[k]]] OBVIOUS
  <2>6. r \in [1 .. Len(f) -> WrittenPart] BY <2>4, <2>5
  <2>7. r \in Seq(WrittenPart) BY <2>3, <2>6
  <2>. QED BY <2>1, <2>3, <2>5, <2>7
<1>2. IsMap(Apart, JoinedPart, Seq(WrittenPart)) BY <1>1 DEF Apart, IsMap
<1>3. \A n \in DOMAIN s : s[n] \in JoinedPart BY ElementOfSeq
<1>4. \A n \in DOMAIN s :
        Apart[s[n]] = [k \in DOMAIN s[n].from |-> [kind |-> s[n].kind, from |-> s[n].from[k]]]
  BY <1>3 DEF Apart
<1>5. Separated(s) = FlatMap(Apart, s) BY <1>4 DEF Separated, FlatMap, Mapped
<1>. QED BY <1>2, <1>5

(* One joined part, with and without one text more.                        *)
LEMMA ApartAppend ==
  ASSUME NEW last \in JoinedPart, NEW new \in JoinedPart, NEW part \in WrittenPart,
         last.kind = part.kind, new.kind = part.kind, new.from = Append(last.from, part.from)
  PROVE  Apart[new] = Append(Apart[last], part)
<1>1. PICK T, f, p, k : T = Seq(Int) /\ f = last.from /\ p = part.from /\ k = part.kind OBVIOUS
<1>2. f \in Seq(T) /\ p \in T /\ part = [kind |-> k, from |-> p]
  BY <1>1 DEF JoinedPart, WrittenPart
<1>3. PICK g, N : g = Append(f, p) /\ N = Len(f) OBVIOUS
<1>4. N \in Nat /\ DOMAIN f = 1 .. N /\ g \in Seq(T) /\ Len(g) = N + 1
        /\ (\A i \in 1 .. N : g[i] = f[i]) /\ g[N + 1] = p
  BY <1>2, <1>3, LenProperties, AppendProperties
<1>5. DOMAIN g = 1 .. N + 1 BY <1>4, LenProperties
<1>6. PICK a, b : a = Apart[last] /\ b = Apart[new] OBVIOUS
<1>7. a = [i \in 1 .. N |-> [kind |-> k, from |-> f[i]]] BY <1>1, <1>4, <1>6 DEF Apart
<1>8. b = [i \in 1 .. N + 1 |-> [kind |-> k, from |-> g[i]]]
  BY <1>1, <1>3, <1>5, <1>6 DEF Apart
<1>9. a \in Seq(WrittenPart) /\ b \in Seq(WrittenPart)
  BY <1>6, SeparatedIsMap, EmptySeq DEF IsMap
<1>10. Len(a) = N /\ Len(b) = N + 1
  <2>1. DOMAIN a = 1 .. N /\ DOMAIN b = 1 .. N + 1 BY <1>7, <1>8
  <2>. QED BY <1>4, <1>9, <2>1, LenProperties
<1>11. PICK c : c = Append(a, part) OBVIOUS
<1>12. c \in Seq(WrittenPart) /\ Len(c) = N + 1 /\ (\A i \in 1 .. N : c[i] = a[i])
         /\ c[N + 1] = part
  BY <1>9, <1>10, <1>11, AppendProperties
<1>13. ASSUME NEW i \in 1 .. N + 1 PROVE c[i] = b[i]
  <2>1. b[i] = [kind |-> k, from |-> g[i]] BY <1>8
  <2>2. CASE i \in 1 .. N
    <3>1. c[i] = [kind |-> k, from |-> f[i]] BY <1>7, <1>12, <2>2
    <3>. QED BY <1>4, <2>1, <2>2, <3>1
  <2>3. CASE i \notin 1 .. N
    <3>1. i = N + 1 BY <1>4, <2>3
    <3>. QED BY <1>2, <1>4, <1>12, <2>1, <3>1
  <2>. QED BY <2>2, <2>3
<1>14. c = b BY <1>9, <1>10, <1>12, <1>13, SeqEqual
<1>. QED BY <1>6, <1>11, <1>14

(* Joining loses no part and keeps their order, and what could be joined   *)
(* is.                                                                     *)
AllJoined(s) ==
  \A n \in 1 .. Len(s) - 1 : s[n].kind = s[n + 1].kind => ~Mergeable(s[n].kind)

LEMMA SeparatedStep ==
  ASSUME NEW s \in Seq(JoinedPart), NEW part \in WrittenPart
  PROVE  Separated(JoinText(s, part)) = Append(Separated(s), part)
<1>1. PICK t : t = JoinText(s, part) OBVIOUS
<1>2. t \in Seq(JoinedPart) BY <1>1, JoinTextCases
<1>3. Separated(s) = FlatMap(Apart, s) /\ Separated(t) = FlatMap(Apart, t)
        /\ IsMap(Apart, JoinedPart, Seq(WrittenPart))
  BY <1>2, SeparatedIsMap
<1>4. ASSUME NEW u \in Seq(JoinedPart), NEW j \in JoinedPart
      PROVE  FlatMap(Apart, Append(u, j)) = FlatMap(Apart, u) \o Apart[j]
               /\ FlatMap(Apart, u) \in Seq(WrittenPart) /\ Apart[j] \in Seq(WrittenPart)
  <2>1. PICK one : one = << j >> OBVIOUS
  <2>2. one \in Seq(JoinedPart) /\ Append(u, j) = u \o one BY <2>1, AppendIsConcat
  <2>3. FlatMap(Apart, one) = Apart[j] BY <1>3, <2>1, FlatMapOne
  <2>4. FlatMap(Apart, u \o one) = FlatMap(Apart, u) \o FlatMap(Apart, one)
    BY <1>3, <2>2, FlatMapConcat
  <2>5. FlatMap(Apart, u) \in Seq(WrittenPart) BY <1>3, FlatMapType
  <2>6. Apart[j] \in Seq(WrittenPart) BY <1>3 DEF IsMap
  <2>. QED BY <2>2, <2>3, <2>4, <2>5, <2>6
<1>5. CASE ~PutsTo(s, part)
  <2>1. t = Append(s, Alone(part)) /\ Alone(part) \in JoinedPart BY <1>1, <1>5, JoinTextCases
  <2>2. Apart[Alone(part)] = << part >>
    <3>1. PICK j : j = Alone(part) OBVIOUS
    <3>2. PICK k, p : k = part.kind /\ p = part.from /\ part = [kind |-> k, from |-> p]
      BY DEF WrittenPart
    <3>3. j = [kind |-> k, from |-> << p >>] BY <3>1, <3>2 DEF Alone
    <3>4. Apart[j] = [i \in 1 .. 1 |-> [kind |-> k, from |-> << p >>[i]]]
      <4>1. DOMAIN << p >> = 1 .. 1 OBVIOUS
      <4>2. j.kind = k /\ j.from = << p >> /\ j \in JoinedPart BY <2>1, <3>1, <3>3
      <4>. QED BY <4>1, <4>2 DEF Apart
    <3>5. [i \in 1 .. 1 |-> [kind |-> k, from |-> << p >>[i]]] = << [kind |-> k, from |-> p] >>
      OBVIOUS
    <3>. QED BY <3>1, <3>2, <3>4, <3>5
  <2>3. PICK a : a = Separated(s) OBVIOUS
  <2>4. PICK j : j = Alone(part) OBVIOUS
  <2>5. Separated(t) = a \o << part >> /\ a \in Seq(WrittenPart)
    BY <1>3, <1>4, <2>1, <2>2, <2>3, <2>4
  <2>. QED BY <1>1, <2>3, <2>5, AppendIsConcat
<1>6. CASE PutsTo(s, part)
  <2>1. PICK front \in Seq(JoinedPart), last \in JoinedPart, new \in JoinedPart :
          /\ s = Append(front, last) /\ t = Append(front, new)
          /\ last.kind = part.kind /\ new.kind = part.kind
          /\ new.from = Append(last.from, part.from)
    <3>1. PutToLast(s, t, part) BY <1>1, <1>6, JoinTextCases
    <3>. QED BY <3>1 DEF PutToLast
  <2>2. Apart[new] = Append(Apart[last], part) BY <2>1, ApartAppend
  <2>3. PICK a, b, one : a = FlatMap(Apart, front) /\ b = Apart[last] /\ one = << part >> OBVIOUS
  <2>4. a \in Seq(WrittenPart) /\ b \in Seq(WrittenPart) /\ Separated(s) = a \o b
    BY <1>3, <1>4, <2>1, <2>3
  <2>5. Separated(t) = a \o Apart[new] BY <1>3, <1>4, <2>1, <2>3
  <2>6. one \in Seq(WrittenPart) /\ Apart[new] = b \o one
    BY <2>2, <2>3, <2>4, AppendIsConcat
  <2>7. a \o (b \o one) = (a \o b) \o one
    <3>1. a \in Seq(WrittenPart) /\ b \in Seq(WrittenPart) /\ one \in Seq(WrittenPart)
      BY <2>4, <2>6
    <3>. QED BY <3>1, SMTT(30)
  <2>8. PICK c : c = a \o b OBVIOUS
  <2>9. c \in Seq(WrittenPart) BY <2>4, <2>8, ConcatProperties
  <2>10. Append(c, part) = c \o one BY <2>3, <2>9, AppendIsConcat
  <2>. QED BY <1>1, <2>4, <2>5, <2>6, <2>7, <2>8, <2>10
<1>. QED BY <1>5, <1>6

LEMMA AllJoinedStep ==
  ASSUME NEW s \in Seq(JoinedPart), NEW part \in WrittenPart, AllJoined(s)
  PROVE  AllJoined(JoinText(s, part))
<1>1. PICK t : t = JoinText(s, part) OBVIOUS
<1>2. CASE ~PutsTo(s, part)
  <2>1. t = Append(s, Alone(part)) /\ Alone(part) \in JoinedPart BY <1>1, <1>2, JoinTextCases
  <2>2. PICK j, N : j = Alone(part) /\ N = Len(s) OBVIOUS
  <2>3. N \in Nat /\ Len(t) = N + 1 /\ (\A i \in 1 .. N : t[i] = s[i]) /\ t[N + 1] = j
    BY <2>1, <2>2, LenProperties, AppendProperties
  <2>4. j.kind = part.kind BY <2>2 DEF Alone
  <2>5. ASSUME NEW n \in 1 .. N, t[n].kind = t[n + 1].kind PROVE ~Mergeable(t[n].kind)
    <3>1. CASE n = N
      <4>1. s # << >> BY <2>2, <2>3, <3>1, EmptySeq
      <4>2. Last(s) = s[N] BY <2>2 DEF Last
      <4>3. t[N] = s[N] /\ t[N].kind = part.kind BY <2>3, <2>4, <2>5, <3>1
      <4>. QED BY <1>2, <3>1, <4>1, <4>2, <4>3 DEF PutsTo
    <3>2. CASE n # N
      <4>1. n \in 1 .. N - 1 /\ n + 1 \in 1 .. N BY <2>3, <3>2
      <4>2. t[n] = s[n] /\ t[n + 1] = s[n + 1] BY <2>3, <4>1
      <4>. QED BY <2>2, <2>5, <4>1, <4>2 DEF AllJoined
    <3>. QED BY <3>1, <3>2
  <2>6. Len(t) - 1 = N BY <2>3
  <2>. QED BY <1>1, <2>5, <2>6 DEF AllJoined
<1>3. CASE PutsTo(s, part)
  <2>1. PICK front \in Seq(JoinedPart), last \in JoinedPart, new \in JoinedPart :
          s = Append(front, last) /\ t = Append(front, new) /\ last.kind = new.kind
    <3>1. PutToLast(s, t, part) BY <1>1, <1>3, JoinTextCases
    <3>. QED BY <3>1 DEF PutToLast
  <2>2. PICK N : N = Len(front) OBVIOUS
  <2>3. /\ N \in Nat /\ Len(s) = N + 1 /\ (\A i \in 1 .. N : s[i] = front[i]) /\ s[N + 1] = last
    BY <2>1, <2>2, LenProperties, AppendProperties
  <2>4. Len(t) = N + 1 /\ (\A i \in 1 .. N : t[i] = front[i]) /\ t[N + 1] = new
    BY <2>1, <2>2, LenProperties, AppendProperties
  <2>5. \A i \in 1 .. N + 1 : s[i].kind = t[i].kind
    <3>1. \A i \in 1 .. N + 1 : i \in 1 .. N \/ i = N + 1 BY <2>3
    <3>. QED BY <2>1, <2>3, <2>4, <3>1
  <2>6. \A n \in 1 .. N : n \in 1 .. N + 1 /\ n + 1 \in 1 .. N + 1 BY <2>3
  <2>7. Len(s) - 1 = N /\ Len(t) - 1 = N BY <2>3, <2>4
  <2>. QED BY <1>1, <2>5, <2>6, <2>7 DEF AllJoined
<1>. QED BY <1>2, <1>3

LEMMA JoiningKeepsAll ==
  ASSUME NEW parts \in Seq(WrittenPart)
  PROVE  /\ Separated(CoalesceVertexParts(parts)) = parts
         /\ AllJoined(CoalesceVertexParts(parts))
<1>. DEFINE Good == {t \in Seq(WrittenPart) : /\ Separated(CoalesceVertexParts(t)) = t
                                             /\ AllJoined(CoalesceVertexParts(t))}
<1>1. << >> \in Good
  <2>1. PICK s : s = << >> OBVIOUS
  <2>2. s \in Seq(JoinedPart) /\ s \in Seq(WrittenPart) /\ Len(s) = 0 BY <2>1, EmptySeq
  <2>3. Separated(s) = s BY <2>1, <2>2, SeparatedIsMap, FlatMapEmpty
  <2>4. AllJoined(s) BY <2>2 DEF AllJoined
  <2>. QED BY <2>1, <2>2, <2>3, <2>4, CoalesceEmpty
<1>2. ASSUME NEW t \in Seq(WrittenPart), t \in Good, NEW part \in WrittenPart
      PROVE  Append(t, part) \in Good
  <2>1. PICK s, u : s = CoalesceVertexParts(t) /\ u = Append(t, part) OBVIOUS
  <2>2. s \in Seq(JoinedPart) /\ CoalesceVertexParts(u) = JoinText(s, part)
    BY <2>1, CoalesceAppend
  <2>3. Separated(s) = t /\ AllJoined(s) BY <1>2, <2>1
  <2>4. Separated(JoinText(s, part)) = u BY <2>1, <2>2, <2>3, SeparatedStep
  <2>5. AllJoined(JoinText(s, part)) BY <2>2, <2>3, AllJoinedStep
  <2>6. u \in Seq(WrittenPart) BY <2>1, AppendProperties
  <2>. QED BY <2>1, <2>2, <2>4, <2>5, <2>6
<1>3. Seq(WrittenPart) \subseteq Good
  <2>. HIDE DEF Good
  <2>. QED BY <1>1, <1>2, InductionOnSeq
<1>. QED BY <1>3


LEMMA AnswersRead ==
  ASSUME NEW a, IsAnswer(a) PROVE AnswerIsRead(a, StreamVertexResponse(a))
<1>1. PICK reading, parts : reading = StreamVertexResponse(a) /\ parts = PartsOf(reading.out)
  OBVIOUS
<1>2. PICK joined : joined = CoalesceVertexParts(parts) OBVIOUS
<1>3. parts \in Seq(WrittenPart)
  <2>1. PICK f, items : f = PartsOfSpot(a.events) /\ items = ReadItems(a) OBVIOUS
  <2>2. IsMap(f, SpotsOf(a.events), Seq(WrittenPart)) BY <2>1, PartsOfSpotType DEF IsAnswer
  <2>3. items \in Seq(SpotsOf(a.events)) BY <2>1, ReadItemsFacts
  <2>4. FlatMap(f, items) \in Seq(WrittenPart) BY <2>2, <2>3, FlatMapType
  <2>5. parts = FlatMap(f, items) BY <1>1, <2>1, ReadParts DEF ReadItems
  <2>. QED BY <2>4, <2>5
<1>4. Separated(joined) = parts /\ AllJoined(joined) BY <1>2, <1>3, JoiningKeepsAll
<1>5. IsPrefix(parts, Wrote(a)) BY <1>1, ReadIsWritten
<1>6. IsPrefix(parts, PartsOf(StreamVertexResponse(InForm(a, "objects")).out))
  BY <1>1, ObjectsReadFurthest
<1>7. a.end = "whole" /\ AllDecode(a) /\ a.events # << >> => ~reading.failed /\ parts = Wrote(a)
  BY <1>1, WholeIsRead
<1>8. \A n \in DOMAIN reading.out :
        reading.out[n].finish # None => n = Len(reading.out) /\ ~reading.failed
  BY <1>1, ReadParts
<1>9. \A n \in 1 .. Len(joined) - 1 :
        joined[n].kind = joined[n + 1].kind => ~Mergeable(joined[n].kind)
  BY <1>4 DEF AllJoined
<1>. QED BY <1>1, <1>2, <1>4, <1>5, <1>6, <1>7, <1>8, <1>9 DEF AnswerIsRead

(* The answer that is read is one that can arrive, and what is made of it  *)
(* is its reading.                                                         *)
Reading ==
  /\ conversion = "answer" => IsAnswer(input)
  /\ Done("answer") => result.value = StreamVertexResponse(input)

LEMMA ReadingInvariant == ConversionSpec => []Reading
<1>1. ConversionInit => Reading
  <2>. SUFFICES ASSUME ConversionInit PROVE Reading OBVIOUS
  <2>1. ~Done("answer") BY DEF ConversionInit, Done, Pending
  <2>2. ASSUME conversion = "answer" PROVE IsAnswer(input)
    <3>1. \E form \in Forms, events \in EventSequences :
             \E read \in 0 .. Len(events), end \in {"whole", "closed", "broken"} :
               \E torn \in CutsAt(events, read) :
                 /\ end = "whole" => read = Len(events) /\ torn = NotTorn
                 /\ input = [form |-> form, events |-> events, read |-> read,
                             torn |-> torn, end |-> end]
      BY <2>2 DEF ConversionInit
    <3>2. PICK form \in Forms, events \in EventSequences :
             \E read \in 0 .. Len(events), end \in {"whole", "closed", "broken"} :
               \E torn \in CutsAt(events, read) :
                 /\ end = "whole" => read = Len(events) /\ torn = NotTorn
                 /\ input = [form |-> form, events |-> events, read |-> read,
                             torn |-> torn, end |-> end]
      BY <3>1
    <3>3. events \in Seq(Seq(Items)) BY InputAssumption
    <3>. QED BY <3>2, <3>3, CutsAreAnswers
  <2>. QED BY <2>1, <2>2 DEF Reading
<1>2. Reading /\ [ConversionNext]_conversionVars => Reading'
  <2>. SUFFICES ASSUME Reading, [ConversionNext]_conversionVars PROVE Reading'
    OBVIOUS
  <2>1. CASE NormalizeHistory \/ ReportUsage \/ ReadBody
    <3>1. conversion' = conversion /\ input' = input /\ conversion # "answer"
      BY <2>1 DEF NormalizeHistory, ReportUsage, ReadBody, Finish
    <3>. QED BY <3>1 DEF Reading, Done
  <2>2. CASE ReadAnswer
    <3>1. conversion' = conversion /\ input' = input
            /\ result'.value = StreamVertexResponse(input)
      BY <2>2 DEF ReadAnswer, Finish
    <3>. QED BY <3>1 DEF Reading, Done
  <2>3. CASE UNCHANGED conversionVars
    BY <2>3 DEF conversionVars, Reading, Done
  <2>. QED BY <2>1, <2>2, <2>3 DEF ConversionNext
<1>. QED BY <1>1, <1>2, PTL DEF ConversionSpec

(* What the emitter gets of an answer is the beginning of what the         *)
(* upstream wrote, in order, up to the first failure, whatever the form    *)
(* and the cut, and all of it when nothing failed.                         *)
THEOREM AnswersAreReadWhole == ConversionSpec => []AnswersAreRead
<1>1. Reading => AnswersAreRead
  <2>1. ASSUME Reading, Done("answer") PROVE AnswerIsRead(input, result.value)
    <3>1. IsAnswer(input) /\ result.value = StreamVertexResponse(input)
      BY <2>1 DEF Reading, Done
    <3>. QED BY <3>1, AnswersRead
  <2>. QED BY <2>1 DEF AnswersAreRead
<1>. QED BY <1>1, ReadingInvariant, PTL

-----------------------------------------------------------------------------
(* The body of an answer.                                                  *)

Occurrences(s, token) == Cardinality({i \in DOMAIN s : s[i] = token})

LEMMA OneMoreOccurrence ==
  ASSUME NEW X, NEW s \in Seq(X), NEW t \in X, NEW token
  PROVE  /\ Occurrences(s, token) \in Nat
         /\ Occurrences(Append(s, t), token)
              = IF token = t THEN Occurrences(s, token) + 1 ELSE Occurrences(s, token)
<1>1. PICK n, u : n = Len(s) /\ u = Append(s, t) OBVIOUS
<1>2. /\ n \in Nat /\ DOMAIN s = 1 .. n /\ DOMAIN u = 1 .. n + 1
      /\ u[n + 1] = t /\ \A i \in 1 .. n : u[i] = s[i]
  BY <1>1, AppendProperties, LenProperties
<1>3. PICK S, T : S = {i \in 1 .. n : s[i] = token} /\ T = {i \in 1 .. n + 1 : u[i] = token} OBVIOUS
<1>4. IsFiniteSet(S)
  <2>1. IsFiniteSet(1 .. n) BY <1>2, FS_Interval
  <2>. QED BY <1>3, <2>1, FS_Subset
<1>5. Cardinality(S) \in Nat BY <1>4, FS_CardinalityType
<1>6. Occurrences(s, token) = Cardinality(S) /\ Occurrences(u, token) = Cardinality(T)
  BY <1>2, <1>3 DEF Occurrences
<1>7. CASE token = t
  <2>1. T = S \cup {n + 1} /\ n + 1 \notin S BY <1>2, <1>3, <1>7
  <2>2. Cardinality(T) = Cardinality(S) + 1 BY <1>4, <2>1, FS_AddElement
  <2>. QED BY <1>1, <1>5, <1>6, <1>7, <2>2
<1>8. CASE token # t
  <2>1. T = S BY <1>2, <1>3, <1>8
  <2>. QED BY <1>1, <1>5, <1>6, <1>8, <2>1
<1>. QED BY <1>7, <1>8

(* The calls that read a body of each form.                                *)
CallsOf(form) ==
  CASE form = "none"    -> {"peek"}
    [] form = "array"   -> DecoderCalls \ {"peek", "scan"}
    [] form = "objects" -> DecoderCalls \ {"peek", "scan", "arrayStart", "elements", "arrayEnd"}
    [] form = "sse"     -> {"scan"}

(* What can have come before a call reads it: one that was entered after a *)
(* look at it has less to expect.                                          *)
MayCome(call) ==
  CASE call = "peek"       -> {"arrayOpens", "objectOpens"} \cup Lines
    [] call = "arrayStart" -> {"arrayOpens"}
    [] call = "elements"   -> {"objectOpens", "wrong"} \cup Closers
    [] call = "element"    -> {"objectOpens", "wrong"}
    [] call = "fields"     -> {"results", "field", "wrong"} \cup Closers
    [] call = "key"        -> {"results", "field", "wrong"}
    [] call = "ignored"    -> {"value", "wrong"}
    [] call = "results"    -> {"arrayOpens", "wrong"}
    [] call = "items"      -> {"item", "error", "junk"} \cup Closers
    [] call = "item"       -> {"item", "error", "junk"}
    [] call = "scan"       -> Lines
    [] OTHER               -> Closers

(* The brackets that are open while a call waits.                          *)
Squares(form, call) ==
  (IF form = "array" /\ call # "arrayStart" THEN 1 ELSE 0)
    + (IF call \in {"items", "item", "resultsEnd"} THEN 1 ELSE 0)

Curlies(call) ==
  IF call \in {"fields", "key", "ignored", "elementEnd", "results", "items", "item", "resultsEnd"}
    THEN 1 ELSE 0

Balance(token, opens, closes) ==
  CASE token = opens -> 1 [] token = closes -> -1 [] OTHER -> 0

OpenIs(squares, curlies) ==
  /\ Occurrences(tokens, "arrayOpens") = Occurrences(tokens, "arrayCloses") + squares
  /\ Occurrences(tokens, "objectOpens") = Occurrences(tokens, "objectCloses") + curlies

Undecided ==
  /\ bodyForm \in {"none", "array", "objects", "sse"} /\ decoding \in CallsOf(bodyForm)
  /\ coming \in {NotThere} \cup Ends \cup MayCome(decoding)
  /\ \A i \in DOMAIN tokens : tokens[i] \notin Bad
  /\ OpenIs(Squares(bodyForm, decoding), Curlies(decoding))
  /\ tokens = << >> => bodyForm = "none" \/ coming \notin {NotThere, "eof"}
  /\ decoding = "peek" => tokens = << >>

DecoderInv ==
  /\ tokens \in Seq(BodyTokens)
  /\ verdict = "open" => Undecided
  /\ EndsWhenWhole

LEMMA WholeMeans ==
  ASSUME tokens \in Seq(BodyTokens)
  PROVE  IsWhole <=> /\ tokens # << >> /\ \A i \in DOMAIN tokens : tokens[i] \notin Bad
                     /\ OpenIs(0, 0)
                     /\ bodyForm = "array" \/ coming = "eof"
<1>1. "arrayOpens" \in BodyTokens BY DEF BodyTokens
<1>2. \A x : Occurrences(tokens, x) \in Nat BY <1>1, OneMoreOccurrence
<1>3. \A x : NumberOf(x) = Occurrences(tokens, x) BY DEF NumberOf, Occurrences
<1>. QED BY <1>2, <1>3 DEF IsWhole, OpenIs

(* A token that is read.                                                   *)
LEMMA OneMoreToken ==
  ASSUME tokens \in Seq(BodyTokens), NEW t \in BodyTokens, tokens' = Append(tokens, t)
  PROVE  /\ tokens' \in Seq(BodyTokens) /\ tokens' # << >>
         /\ (\A i \in DOMAIN tokens' : tokens'[i] \notin Bad)
              <=> t \notin Bad /\ \A i \in DOMAIN tokens : tokens[i] \notin Bad
         /\ \A x : /\ Occurrences(tokens, x) \in Nat
                   /\ Occurrences(tokens', x)
                        = IF x = t THEN Occurrences(tokens, x) + 1 ELSE Occurrences(tokens, x)
<1>1. PICK n, u : n = Len(tokens) /\ u = tokens' OBVIOUS
<1>2. /\ n \in Nat /\ DOMAIN tokens = 1 .. n /\ DOMAIN u = 1 .. n + 1
      /\ u[n + 1] = t /\ \A i \in 1 .. n : u[i] = tokens[i]
  BY <1>1, AppendProperties, LenProperties
<1>3. u \in Seq(BodyTokens) /\ u # << >> BY <1>1, <1>2, AppendProperties
<1>4. (\A i \in 1 .. n + 1 : u[i] \notin Bad) <=> t \notin Bad /\ \A i \in 1 .. n : tokens[i] \notin Bad
  BY <1>2
<1>5. \A x : /\ Occurrences(tokens, x) \in Nat
             /\ Occurrences(Append(tokens, t), x)
                  = IF x = t THEN Occurrences(tokens, x) + 1 ELSE Occurrences(tokens, x)
  BY OneMoreOccurrence
<1>. QED BY <1>1, <1>2, <1>3, <1>4, <1>5

(* A call that ends with a token it expected leaves the brackets counted.  *)
LEMMA TakeKeeps ==
  ASSUME DecoderInv, verdict = "open", NEW t \in BodyTokens \ Bad, NEW call,
         Take(t, call), call \in CallsOf(bodyForm), call # "peek",
         Squares(bodyForm, call) = Squares(bodyForm, decoding) + Balance(t, "arrayOpens", "arrayCloses"),
         Curlies(call) = Curlies(decoding) + Balance(t, "objectOpens", "objectCloses")
  PROVE  DecoderInv'
<1>1. Undecided /\ tokens \in Seq(BodyTokens) BY DEF DecoderInv
<1>2. /\ tokens' = Append(tokens, t) /\ coming' = NotThere /\ decoding' = call
      /\ bodyForm' = bodyForm /\ verdict' = "open"
  BY DEF Take
<1>3. /\ tokens' \in Seq(BodyTokens) /\ tokens' # << >>
      /\ \A i \in DOMAIN tokens' : tokens'[i] \notin Bad
      /\ \A x : /\ Occurrences(tokens, x) \in Nat
                /\ Occurrences(tokens', x)
                     = IF x = t THEN Occurrences(tokens, x) + 1 ELSE Occurrences(tokens, x)
  BY <1>1, <1>2, OneMoreToken DEF Undecided
<1>4. PICK s, c : s = Squares(bodyForm, decoding) /\ c = Curlies(decoding) OBVIOUS
<1>5. s \in Int /\ c \in Int BY <1>4 DEF Squares, Curlies
<1>6. PICK p, q : p = Squares(bodyForm, call) /\ q = Curlies(call) OBVIOUS
<1>7. /\ p = s + Balance(t, "arrayOpens", "arrayCloses")
      /\ q = c + Balance(t, "objectOpens", "objectCloses")
  BY <1>4, <1>6
<1>8. OpenIs(p, q)'
  <2>1. OpenIs(s, c) BY <1>1, <1>4 DEF Undecided
  <2>2. Occurrences(tokens', "arrayOpens") = Occurrences(tokens', "arrayCloses") + p
    <3>1. PICK a, b : a = Occurrences(tokens, "arrayOpens") /\ b = Occurrences(tokens, "arrayCloses")
      OBVIOUS
    <3>2. a \in Nat /\ b \in Nat /\ a = b + s BY <1>3, <2>1, <3>1 DEF OpenIs
    <3>3. /\ Occurrences(tokens', "arrayOpens") = IF t = "arrayOpens" THEN a + 1 ELSE a
          /\ Occurrences(tokens', "arrayCloses") = IF t = "arrayCloses" THEN b + 1 ELSE b
      BY <1>3, <3>1
    <3>. QED BY <1>5, <1>7, <3>2, <3>3 DEF Balance
  <2>4. Occurrences(tokens', "objectOpens") = Occurrences(tokens', "objectCloses") + q
    <3>1. PICK a, b : a = Occurrences(tokens, "objectOpens") /\ b = Occurrences(tokens, "objectCloses")
      OBVIOUS
    <3>2. a \in Nat /\ b \in Nat /\ a = b + c BY <1>3, <2>1, <3>1 DEF OpenIs
    <3>3. /\ Occurrences(tokens', "objectOpens") = IF t = "objectOpens" THEN a + 1 ELSE a
          /\ Occurrences(tokens', "objectCloses") = IF t = "objectCloses" THEN b + 1 ELSE b
      BY <1>3, <3>1
    <3>. QED BY <1>5, <1>7, <3>2, <3>3 DEF Balance
  <2>3. p' = p /\ q' = q OBVIOUS
  <2>. QED BY <2>2, <2>3, <2>4 DEF OpenIs
<1>9. Undecided'
  BY <1>1, <1>2, <1>3, <1>6, <1>8 DEF Undecided, OpenIs
<1>. QED BY <1>2, <1>3, <1>9 DEF DecoderInv, EndsWhenWhole

(* A call that gives up leaves a body that is not whole.                   *)
LEMMA RefuseKeeps ==
  ASSUME DecoderInv, verdict = "open", NEW expected, Refuse(expected),
         \/ coming \in Bad
         \/ coming = "arrayCloses" /\ Curlies(decoding) > 0
         \/ coming = "objectCloses" /\ Squares(bodyForm, decoding) > 0
         \/ coming \in Ends /\ Curlies(decoding) + Squares(bodyForm, decoding) > 0
         \/ coming \in Ends /\ coming # "eof" /\ bodyForm # "array"
  PROVE  DecoderInv'
<1>1. Undecided /\ tokens \in Seq(BodyTokens) BY DEF DecoderInv
<1>2. /\ coming' = coming /\ decoding' = decoding /\ bodyForm' = bodyForm /\ verdict' = "failed"
      /\ tokens' = IF coming \in Ends THEN tokens ELSE Append(tokens, coming)
  BY DEF Refuse
<1>3. PICK s, c : s = Squares(bodyForm, decoding) /\ c = Curlies(decoding) OBVIOUS
<1>4. s \in Nat /\ c \in Nat BY <1>3 DEF Squares, Curlies
<1>5. /\ Occurrences(tokens, "arrayOpens") = Occurrences(tokens, "arrayCloses") + s
      /\ Occurrences(tokens, "objectOpens") = Occurrences(tokens, "objectCloses") + c
  BY <1>1, <1>3 DEF Undecided, OpenIs
<1>6. tokens' \in Seq(BodyTokens) /\ ~IsWhole'
  <2>1. CASE coming \in Ends
    <3>1. tokens' = tokens BY <1>2, <2>1
    <3>2. coming \notin Bad \cup {"arrayCloses", "objectCloses"} BY <2>1 DEF Ends, Bad
    <3>3. Curlies(decoding) + Squares(bodyForm, decoding) > 0
            \/ (coming # "eof" /\ bodyForm # "array")
      BY <3>2
    <3>4. "arrayOpens" \in BodyTokens BY DEF BodyTokens
    <3>5. \A x : Occurrences(tokens, x) \in Nat BY <1>1, <3>4, OneMoreOccurrence
    <3>6. CASE coming # "eof" /\ bodyForm # "array"
      BY <1>1, <1>2, <3>1, <3>6 DEF IsWhole
    <3>7. CASE c + s > 0
      <4>1. ~OpenIs(0, 0) BY <1>4, <1>5, <3>5, <3>7 DEF OpenIs
      <4>2. ~IsWhole BY <1>1, <4>1, WholeMeans
      <4>. QED BY <1>1, <1>2, <3>1, <4>2 DEF IsWhole, NumberOf
    <3>. QED BY <1>3, <3>3, <3>6, <3>7
  <2>2. CASE coming \notin Ends
    <3>1. tokens' = Append(tokens, coming) BY <1>2, <2>2
    <3>2. coming \in BodyTokens BY <2>2 DEF BodyTokens, Closers
    <3>3. /\ tokens' \in Seq(BodyTokens)
          /\ (\A i \in DOMAIN tokens' : tokens'[i] \notin Bad) => coming \notin Bad
          /\ \A x : /\ Occurrences(tokens, x) \in Nat
                    /\ Occurrences(tokens', x)
                         = IF x = coming THEN Occurrences(tokens, x) + 1 ELSE Occurrences(tokens, x)
      BY <1>1, <3>1, <3>2, OneMoreToken
    <3>4. CASE coming \in Bad
      BY <3>3, <3>4 DEF IsWhole
    <3>5. CASE coming = "arrayCloses" /\ c > 0
      <4>1. Occurrences(tokens', "objectOpens") # Occurrences(tokens', "objectCloses")
        BY <1>4, <1>5, <3>3, <3>5
      <4>. QED BY <3>3, <4>1 DEF IsWhole, NumberOf, Occurrences
    <3>6. CASE coming = "objectCloses" /\ s > 0
      <4>1. Occurrences(tokens', "arrayOpens") # Occurrences(tokens', "arrayCloses")
        BY <1>4, <1>5, <3>3, <3>6
      <4>. QED BY <3>3, <4>1 DEF IsWhole, NumberOf, Occurrences
    <3>. QED BY <1>3, <2>2, <3>4, <3>5, <3>6
  <2>. QED BY <2>1, <2>2
<1>. QED BY <1>2, <1>6 DEF DecoderInv, EndsWhenWhole

(* A call that has only looked hands on to one that expects what it saw.   *)
LEMMA GotoKeeps ==
  ASSUME DecoderInv, verdict = "open", coming # NotThere, NEW call, Goto(call),
         call \in CallsOf(bodyForm), call # "peek", decoding # "peek",
         coming \in Ends \cup MayCome(call),
         Squares(bodyForm, call) = Squares(bodyForm, decoding),
         Curlies(call) = Curlies(decoding)
  PROVE  DecoderInv'
<1>1. Undecided /\ tokens \in Seq(BodyTokens) BY DEF DecoderInv
<1>2. decoding' = call /\ UNCHANGED << bodyForm, tokens, coming, verdict >> BY DEF Goto
<1>3. OpenIs(Squares(bodyForm, decoding), Curlies(decoding))' BY <1>1, <1>2 DEF Undecided, OpenIs
<1>4. Undecided' BY <1>1, <1>2, <1>3 DEF Undecided
<1>. QED BY <1>1, <1>2, <1>4 DEF DecoderInv, EndsWhenWhole

(* A verdict that the body as it came bears out.                           *)
LEMMA ReturnKeeps ==
  ASSUME DecoderInv, NEW v, v # "open", Return(v), v \in {"ok", "failed"} => (v = "ok" <=> IsWhole)
  PROVE  DecoderInv'
<1>1. verdict' = v /\ UNCHANGED << bodyForm, decoding, tokens, coming >> BY DEF Return
<1>2. IsWhole' <=> IsWhole BY <1>1 DEF IsWhole, NumberOf
<1>. QED BY <1>1, <1>2 DEF DecoderInv, EndsWhenWhole

(* What the calls expect.                                                  *)
LEMMA ComesAsExpected ==
  ASSUME Undecided
  PROVE  Comes \subseteq MayCome(decoding)
<1>1. decoding \in DecoderCalls BY DEF Undecided, CallsOf, DecoderCalls
<1>. QED BY <1>1 DEF Comes, MayCome, DecoderCalls

(* Where the decoder is, the form of the body is one of those that lead    *)
(* there.                                                                  *)
LEMMA FormOfCall ==
  ASSUME Undecided
  PROVE  /\ bodyForm \in {"none", "array", "objects", "sse"}
         /\ decoding = "peek" => bodyForm = "none"
         /\ decoding = "scan" => bodyForm = "sse"
         /\ decoding \in {"arrayStart", "elements", "arrayEnd"} => bodyForm = "array"
         /\ decoding \notin {"peek", "scan", "arrayStart", "elements", "arrayEnd"} =>
              bodyForm \in {"array", "objects"}
BY DEF Undecided, CallsOf, DecoderCalls

LEMMA DecoderKeeps == DecoderInv /\ [DecoderNext]_decoderVars => DecoderInv'
<1>. SUFFICES ASSUME DecoderInv, [DecoderNext]_decoderVars PROVE DecoderInv' OBVIOUS
<1>1. tokens \in Seq(BodyTokens) BY DEF DecoderInv
<1>2. verdict = "open" => Undecided BY DEF DecoderInv
<1>. DEFINE squares == Squares(bodyForm, decoding)
            curlies == Curlies(decoding)
<1>3. CASE Arrive
  <2>1. /\ verdict = "open" /\ coming = NotThere
        /\ UNCHANGED << bodyForm, decoding, tokens, verdict >>
    BY <1>3 DEF Arrive
  <2>2. Undecided BY <1>2, <2>1
  <2>3. coming' \in Ends \cup MayCome(decoding)
    <3>1. coming' \in Ends \cup Comes BY <1>3 DEF Arrive
    <3>. QED BY <2>2, <3>1, ComesAsExpected
  <2>4. OpenIs(squares, curlies)' BY <2>1, <2>2 DEF Undecided, OpenIs
  <2>5. Undecided' BY <2>1, <2>2, <2>3, <2>4 DEF Undecided
  <2>. QED BY <1>1, <2>1, <2>5 DEF DecoderInv, EndsWhenWhole
<1>4. CASE PeekFirst
  <2>1. verdict = "open" /\ decoding = "peek" /\ coming # NotThere BY <1>4 DEF PeekFirst, In
  <2>2. Undecided /\ tokens = << >> BY <1>2, <2>1 DEF Undecided
  <2>3. CASE coming \in {"eof", "broken"} /\ Return("failed")
    <3>1. ~IsWhole BY <2>2 DEF IsWhole
    <3>. QED BY <2>3, <3>1, ReturnKeeps
  <2>4. CASE /\ coming \notin {"eof", "broken"}
             /\ bodyForm' = CASE coming = "arrayOpens"  -> "array"
                              [] coming = "objectOpens" -> "objects"
                              [] OTHER                  -> "sse"
             /\ decoding' = CASE coming = "arrayOpens"  -> "arrayStart"
                              [] coming = "objectOpens" -> "element"
                              [] OTHER                  -> "scan"
             /\ UNCHANGED << tokens, coming, verdict >>
    <3>1. coming \in {"torn", "arrayOpens", "objectOpens"} \cup Lines
      BY <2>1, <2>2, <2>4 DEF Undecided, MayCome, Ends
    <3>2. /\ bodyForm' \in {"array", "objects", "sse"} /\ decoding' \in CallsOf(bodyForm)'
          /\ coming' \in Ends \cup MayCome(decoding)' /\ decoding' # "peek"
          /\ Squares(bodyForm, decoding)' = 0 /\ Curlies(decoding)' = 0
      <4>1. CASE coming = "arrayOpens"
        <5>1. bodyForm' = "array" /\ decoding' = "arrayStart" /\ coming' = "arrayOpens"
          BY <2>4, <4>1
        <5>. QED BY <5>1 DEF CallsOf, DecoderCalls, MayCome, Squares, Curlies
      <4>2. CASE coming = "objectOpens"
        <5>1. bodyForm' = "objects" /\ decoding' = "element" /\ coming' = "objectOpens"
          BY <2>4, <4>2
        <5>. QED BY <5>1 DEF CallsOf, DecoderCalls, MayCome, Squares, Curlies
      <4>3. CASE coming \in {"torn"} \cup Lines
        <5>1. coming # "arrayOpens" /\ coming # "objectOpens" BY <4>3 DEF Lines
        <5>2. bodyForm' = "sse" /\ decoding' = "scan" /\ coming' \in {"torn"} \cup Lines
          BY <2>4, <4>3, <5>1
        <5>. QED BY <5>2 DEF CallsOf, MayCome, Ends, Squares, Curlies
      <4>. QED BY <3>1, <4>1, <4>2, <4>3
    <3>3. OpenIs(0, 0)
      BY <2>1, <2>2 DEF Undecided, CallsOf, Squares, Curlies, OpenIs
    <3>4. OpenIs(Squares(bodyForm, decoding), Curlies(decoding))'
      BY <2>4, <3>2, <3>3 DEF OpenIs
    <3>5. coming' \notin {NotThere, "eof"} /\ tokens' = tokens /\ verdict' = "open"
      BY <2>1, <2>4, <3>1 DEF NotThere, Lines
    <3>6. Undecided' BY <2>2, <3>2, <3>4, <3>5 DEF Undecided
    <3>. QED BY <1>1, <3>5, <3>6 DEF DecoderInv, EndsWhenWhole
  <2>. QED BY <1>4, <2>3, <2>4 DEF PeekFirst
<1>5. CASE ArrayStart
  <2>1. verdict = "open" /\ decoding = "arrayStart" /\ coming # NotThere BY <1>5 DEF ArrayStart, In
  <2>2. Undecided /\ bodyForm = "array" BY <1>2, <2>1, FormOfCall
  <2>3. CASE Take("arrayOpens", "elements")
    <3>1. "arrayOpens" \in BodyTokens \ Bad BY DEF BodyTokens, Closers, Lines, Bad
    <3>2. "elements" \in CallsOf(bodyForm) BY <2>2 DEF CallsOf, DecoderCalls
    <3>3. /\ Squares(bodyForm, "elements")
               = Squares(bodyForm, decoding) + Balance("arrayOpens", "arrayOpens", "arrayCloses")
          /\ Curlies("elements") = Curlies(decoding) + Balance("arrayOpens", "objectOpens", "objectCloses")
      BY <2>1, <2>2 DEF Squares, Curlies, Balance
    <3>. QED BY <2>1, <2>3, <3>1, <3>2, <3>3, TakeKeeps
  <2>. QED BY <1>5, <2>3 DEF ArrayStart
<1>6. CASE MoreElements
  <2>1. verdict = "open" /\ decoding = "elements" /\ coming # NotThere BY <1>6 DEF MoreElements, In
  <2>2. Undecided /\ bodyForm = "array" BY <1>2, <2>1, FormOfCall
  <2>3. coming \in Ends \cup MayCome("elements") BY <2>1, <2>2 DEF Undecided
  <2>4. CASE coming \in Closers \cup {"eof", "broken"}
    <3>1. Goto("arrayEnd") BY <1>6, <2>4 DEF MoreElements, More
    <3>2. "arrayEnd" \in CallsOf(bodyForm) /\ coming \in Ends \cup MayCome("arrayEnd")
      BY <2>2, <2>4 DEF CallsOf, DecoderCalls, MayCome, Ends
    <3>3. /\ Squares(bodyForm, "arrayEnd") = Squares(bodyForm, decoding)
          /\ Curlies("arrayEnd") = Curlies(decoding)
      BY <2>1, <2>2 DEF Squares, Curlies
    <3>. QED BY <2>1, <3>1, <3>2, <3>3, GotoKeeps
  <2>5. CASE coming \notin Closers \cup {"eof", "broken"}
    <3>1. Goto("element") BY <1>6, <2>5 DEF MoreElements, More
    <3>2. "element" \in CallsOf(bodyForm) /\ coming \in Ends \cup MayCome("element")
      BY <2>2, <2>3, <2>5 DEF CallsOf, DecoderCalls, MayCome, Ends, Closers
    <3>3. /\ Squares(bodyForm, "element") = Squares(bodyForm, decoding)
          /\ Curlies("element") = Curlies(decoding)
      BY <2>1, <2>2 DEF Squares, Curlies
    <3>. QED BY <2>1, <3>1, <3>2, <3>3, GotoKeeps
  <2>. QED BY <2>4, <2>5
<1>7. CASE ArrayEnd
  <2>1. verdict = "open" /\ decoding = "arrayEnd" /\ coming # NotThere BY <1>7 DEF ArrayEnd, In
  <2>2. Undecided /\ bodyForm = "array" BY <1>2, <2>1, FormOfCall
  <2>3. squares = 1 /\ curlies = 0 BY <2>1, <2>2 DEF Squares, Curlies
  <2>4. CASE /\ coming = "arrayCloses"
             /\ tokens' = Append(tokens, "arrayCloses") /\ coming' = NotThere
             /\ verdict' = "ok"
             /\ UNCHANGED << bodyForm, decoding >>
    <3>1. "arrayCloses" \in BodyTokens /\ "arrayCloses" \notin Bad
      BY DEF BodyTokens, Closers, Bad
    <3>2. /\ tokens' \in Seq(BodyTokens) /\ tokens' # << >>
          /\ \A i \in DOMAIN tokens' : tokens'[i] \notin Bad
          /\ \A x : /\ Occurrences(tokens, x) \in Nat
                    /\ Occurrences(tokens', x)
                         = IF x = "arrayCloses" THEN Occurrences(tokens, x) + 1
                           ELSE Occurrences(tokens, x)
      BY <1>1, <2>2, <2>4, <3>1, OneMoreToken DEF Undecided
    <3>3. OpenIs(1, 0) BY <2>2, <2>3 DEF Undecided
    <3>4. /\ Occurrences(tokens', "arrayOpens") = Occurrences(tokens', "arrayCloses")
          /\ Occurrences(tokens', "objectOpens") = Occurrences(tokens', "objectCloses")
      BY <3>2, <3>3 DEF OpenIs
    <3>5. IsWhole' BY <2>2, <2>4, <3>2, <3>4 DEF IsWhole, NumberOf, Occurrences
    <3>. QED BY <2>4, <3>2, <3>5 DEF DecoderInv, EndsWhenWhole
  <2>5. CASE Refuse({"arrayCloses"})
    <3>1. coming \in Ends \cup Closers /\ coming # "arrayCloses"
      BY <2>1, <2>2, <2>5 DEF Undecided, MayCome, Refuse
    <3>. QED BY <2>1, <2>3, <2>5, <3>1, RefuseKeeps DEF Closers
  <2>. QED BY <1>7, <2>4, <2>5 DEF ArrayEnd
<1>8. CASE ObjectsEnd
  <2>1. verdict = "open" /\ decoding = "element" /\ bodyForm = "objects" /\ coming = "eof"
    BY <1>8 DEF ObjectsEnd, In
  <2>2. Undecided BY <1>2, <2>1
  <2>3. squares = 0 /\ curlies = 0 BY <2>1 DEF Squares, Curlies
  <2>4. IsWhole BY <1>1, <2>1, <2>2, <2>3, WholeMeans DEF Undecided
  <2>. QED BY <1>8, <2>4, ReturnKeeps DEF ObjectsEnd
<1>9. CASE ElementStart
  <2>1. verdict = "open" /\ decoding = "element" /\ coming # NotThere BY <1>9 DEF ElementStart, In
  <2>2. Undecided /\ bodyForm \in {"array", "objects"} BY <1>2, <2>1, FormOfCall
  <2>3. CASE Take("objectOpens", "fields")
    <3>1. "objectOpens" \in BodyTokens \ Bad BY DEF BodyTokens, Closers, Lines, Bad
    <3>2. "fields" \in CallsOf(bodyForm) BY <2>2 DEF CallsOf, DecoderCalls
    <3>3. /\ Squares(bodyForm, "fields")
               = Squares(bodyForm, decoding) + Balance("objectOpens", "arrayOpens", "arrayCloses")
          /\ Curlies("fields") = Curlies(decoding) + Balance("objectOpens", "objectOpens", "objectCloses")
      BY <2>1, <2>2 DEF Squares, Curlies, Balance
    <3>. QED BY <2>1, <2>3, <3>1, <3>2, <3>3, TakeKeeps
  <2>4. CASE Refuse({"objectOpens"} \cup (IF bodyForm = "objects" THEN {"eof"} ELSE {}))
    <3>1. /\ coming \notin {"objectOpens"} \cup (IF bodyForm = "objects" THEN {"eof"} ELSE {})
          /\ coming \in Ends \cup {"objectOpens", "wrong"}
      BY <2>1, <2>2, <2>4 DEF Undecided, MayCome, Refuse
    <3>2. bodyForm = "array" => squares = 1 /\ curlies = 0 BY <2>1 DEF Squares, Curlies
    <3>3. \/ coming \in Bad
          \/ coming \in Ends /\ coming # "eof" /\ bodyForm # "array"
          \/ coming \in Ends /\ curlies + squares > 0
      BY <2>2, <3>1, <3>2 DEF Bad
    <3>. QED BY <2>1, <2>4, <3>3, RefuseKeeps
  <2>. QED BY <1>9, <2>3, <2>4 DEF ElementStart
<1>10. CASE MoreFields
  <2>1. verdict = "open" /\ decoding = "fields" /\ coming # NotThere BY <1>10 DEF MoreFields, In
  <2>2. Undecided /\ bodyForm \in {"array", "objects"} BY <1>2, <2>1, FormOfCall
  <2>3. coming \in Ends \cup MayCome("fields") BY <2>1, <2>2 DEF Undecided
  <2>4. CASE coming \in Closers \cup {"eof", "broken"}
    <3>1. Goto("elementEnd") BY <1>10, <2>4 DEF MoreFields, More
    <3>2. "elementEnd" \in CallsOf(bodyForm) /\ coming \in Ends \cup MayCome("elementEnd")
      BY <2>2, <2>4 DEF CallsOf, DecoderCalls, MayCome, Ends
    <3>3. /\ Squares(bodyForm, "elementEnd") = Squares(bodyForm, decoding)
          /\ Curlies("elementEnd") = Curlies(decoding)
      BY <2>1, <2>2 DEF Squares, Curlies
    <3>. QED BY <2>1, <3>1, <3>2, <3>3, GotoKeeps
  <2>5. CASE coming \notin Closers \cup {"eof", "broken"}
    <3>1. Goto("key") BY <1>10, <2>5 DEF MoreFields, More
    <3>2. "key" \in CallsOf(bodyForm) /\ coming \in Ends \cup MayCome("key")
      BY <2>2, <2>3, <2>5 DEF CallsOf, DecoderCalls, MayCome, Ends, Closers
    <3>3. /\ Squares(bodyForm, "key") = Squares(bodyForm, decoding)
          /\ Curlies("key") = Curlies(decoding)
      BY <2>1, <2>2 DEF Squares, Curlies
    <3>. QED BY <2>1, <3>1, <3>2, <3>3, GotoKeeps
  <2>. QED BY <2>4, <2>5
<1>11. CASE Key
  <2>1. verdict = "open" /\ decoding = "key" /\ coming # NotThere BY <1>11 DEF Key, In
  <2>2. Undecided /\ bodyForm \in {"array", "objects"} BY <1>2, <2>1, FormOfCall
  <2>3. CASE Take("results", "results")
    <3>1. "results" \in BodyTokens \ Bad BY DEF BodyTokens, Closers, Lines, Bad
    <3>2. "results" \in CallsOf(bodyForm) BY <2>2 DEF CallsOf, DecoderCalls
    <3>3. /\ Squares(bodyForm, "results")
               = Squares(bodyForm, decoding) + Balance("results", "arrayOpens", "arrayCloses")
          /\ Curlies("results") = Curlies(decoding) + Balance("results", "objectOpens", "objectCloses")
      BY <2>1, <2>2 DEF Squares, Curlies, Balance
    <3>. QED BY <2>1, <2>3, <3>1, <3>2, <3>3, TakeKeeps
  <2>4. CASE Take("field", "ignored")
    <3>1. "field" \in BodyTokens \ Bad BY DEF BodyTokens, Closers, Lines, Bad
    <3>2. "ignored" \in CallsOf(bodyForm) BY <2>2 DEF CallsOf, DecoderCalls
    <3>3. /\ Squares(bodyForm, "ignored")
               = Squares(bodyForm, decoding) + Balance("field", "arrayOpens", "arrayCloses")
          /\ Curlies("ignored") = Curlies(decoding) + Balance("field", "objectOpens", "objectCloses")
      BY <2>1, <2>2 DEF Squares, Curlies, Balance
    <3>. QED BY <2>1, <2>4, <3>1, <3>2, <3>3, TakeKeeps
  <2>5. CASE Refuse({"results", "field"})
    <3>1. coming \notin {"results", "field"} BY <2>5 DEF Refuse
    <3>2. coming \in Ends \cup MayCome(decoding) BY <2>1, <2>2 DEF Undecided
    <3>3. Curlies(decoding) = 1 BY <2>1 DEF Curlies
    <3>4. Squares(bodyForm, decoding) \in Nat BY DEF Squares
    <3>5. \/ coming \in Bad \/ coming \in Ends \/ coming = "arrayCloses"
          \/ coming = "objectCloses" /\ decoding = "resultsEnd"
      BY <2>1, <3>1, <3>2 DEF MayCome, Bad, Closers
    <3>6. decoding = "resultsEnd" => Squares(bodyForm, decoding) > 0 BY DEF Squares
    <3>. QED BY <2>1, <2>5, <3>3, <3>4, <3>5, <3>6, RefuseKeeps
  <2>. QED BY <1>11, <2>3, <2>4, <2>5 DEF Key
<1>12. CASE IgnoredValue
  <2>1. verdict = "open" /\ decoding = "ignored" /\ coming # NotThere BY <1>12 DEF IgnoredValue, In
  <2>2. Undecided /\ bodyForm \in {"array", "objects"} BY <1>2, <2>1, FormOfCall
  <2>3. CASE Take("value", "fields")
    <3>1. "value" \in BodyTokens \ Bad BY DEF BodyTokens, Closers, Lines, Bad
    <3>2. "fields" \in CallsOf(bodyForm) BY <2>2 DEF CallsOf, DecoderCalls
    <3>3. /\ Squares(bodyForm, "fields")
               = Squares(bodyForm, decoding) + Balance("value", "arrayOpens", "arrayCloses")
          /\ Curlies("fields") = Curlies(decoding) + Balance("value", "objectOpens", "objectCloses")
      BY <2>1, <2>2 DEF Squares, Curlies, Balance
    <3>. QED BY <2>1, <2>3, <3>1, <3>2, <3>3, TakeKeeps
  <2>4. CASE Refuse({"value"})
    <3>1. coming \notin {"value"} BY <2>4 DEF Refuse
    <3>2. coming \in Ends \cup MayCome(decoding) BY <2>1, <2>2 DEF Undecided
    <3>3. Curlies(decoding) = 1 BY <2>1 DEF Curlies
    <3>4. Squares(bodyForm, decoding) \in Nat BY DEF Squares
    <3>5. \/ coming \in Bad \/ coming \in Ends \/ coming = "arrayCloses"
          \/ coming = "objectCloses" /\ decoding = "resultsEnd"
      BY <2>1, <3>1, <3>2 DEF MayCome, Bad, Closers
    <3>6. decoding = "resultsEnd" => Squares(bodyForm, decoding) > 0 BY DEF Squares
    <3>. QED BY <2>1, <2>4, <3>3, <3>4, <3>5, <3>6, RefuseKeeps
  <2>. QED BY <1>12, <2>3, <2>4 DEF IgnoredValue
<1>13. CASE ElementEnd
  <2>1. verdict = "open" /\ decoding = "elementEnd" /\ coming # NotThere BY <1>13 DEF ElementEnd, In
  <2>2. Undecided /\ bodyForm \in {"array", "objects"} BY <1>2, <2>1, FormOfCall
  <2>3. CASE Take("objectCloses", IF bodyForm = "array" THEN "elements" ELSE "element")
    <3>. DEFINE call == IF bodyForm = "array" THEN "elements" ELSE "element"
    <3>1. "objectCloses" \in BodyTokens \ Bad BY DEF BodyTokens, Closers, Bad
    <3>2. call \in CallsOf(bodyForm) /\ call # "peek" BY <2>2 DEF CallsOf, DecoderCalls
    <3>3. /\ Squares(bodyForm, call)
               = Squares(bodyForm, decoding) + Balance("objectCloses", "arrayOpens", "arrayCloses")
          /\ Curlies(call) = Curlies(decoding) + Balance("objectCloses", "objectOpens", "objectCloses")
      BY <2>1, <2>2 DEF Squares, Curlies, Balance
    <3>4. Take("objectCloses", call) BY <2>3
    <3>. HIDE DEF call
    <3>. QED BY <2>1, <3>1, <3>2, <3>3, <3>4, TakeKeeps
  <2>4. CASE Refuse({"objectCloses"})
    <3>1. coming \notin {"objectCloses"} BY <2>4 DEF Refuse
    <3>2. coming \in Ends \cup MayCome(decoding) BY <2>1, <2>2 DEF Undecided
    <3>3. Curlies(decoding) = 1 BY <2>1 DEF Curlies
    <3>4. Squares(bodyForm, decoding) \in Nat BY DEF Squares
    <3>5. \/ coming \in Bad \/ coming \in Ends \/ coming = "arrayCloses"
          \/ coming = "objectCloses" /\ decoding = "resultsEnd"
      BY <2>1, <3>1, <3>2 DEF MayCome, Bad, Closers
    <3>6. decoding = "resultsEnd" => Squares(bodyForm, decoding) > 0 BY DEF Squares
    <3>. QED BY <2>1, <2>4, <3>3, <3>4, <3>5, <3>6, RefuseKeeps
  <2>. QED BY <1>13, <2>3, <2>4 DEF ElementEnd
<1>14. CASE ResultsStart
  <2>1. verdict = "open" /\ decoding = "results" /\ coming # NotThere BY <1>14 DEF ResultsStart, In
  <2>2. Undecided /\ bodyForm \in {"array", "objects"} BY <1>2, <2>1, FormOfCall
  <2>3. CASE Take("arrayOpens", "items")
    <3>1. "arrayOpens" \in BodyTokens \ Bad BY DEF BodyTokens, Closers, Lines, Bad
    <3>2. "items" \in CallsOf(bodyForm) BY <2>2 DEF CallsOf, DecoderCalls
    <3>3. /\ Squares(bodyForm, "items")
               = Squares(bodyForm, decoding) + Balance("arrayOpens", "arrayOpens", "arrayCloses")
          /\ Curlies("items") = Curlies(decoding) + Balance("arrayOpens", "objectOpens", "objectCloses")
      BY <2>1, <2>2 DEF Squares, Curlies, Balance
    <3>. QED BY <2>1, <2>3, <3>1, <3>2, <3>3, TakeKeeps
  <2>4. CASE Refuse({"arrayOpens"})
    <3>1. coming \notin {"arrayOpens"} BY <2>4 DEF Refuse
    <3>2. coming \in Ends \cup MayCome(decoding) BY <2>1, <2>2 DEF Undecided
    <3>3. Curlies(decoding) = 1 BY <2>1 DEF Curlies
    <3>4. Squares(bodyForm, decoding) \in Nat BY DEF Squares
    <3>5. \/ coming \in Bad \/ coming \in Ends \/ coming = "arrayCloses"
          \/ coming = "objectCloses" /\ decoding = "resultsEnd"
      BY <2>1, <3>1, <3>2 DEF MayCome, Bad, Closers
    <3>6. decoding = "resultsEnd" => Squares(bodyForm, decoding) > 0 BY DEF Squares
    <3>. QED BY <2>1, <2>4, <3>3, <3>4, <3>5, <3>6, RefuseKeeps
  <2>. QED BY <1>14, <2>3, <2>4 DEF ResultsStart
<1>15. CASE MoreItems
  <2>1. verdict = "open" /\ decoding = "items" /\ coming # NotThere BY <1>15 DEF MoreItems, In
  <2>2. Undecided /\ bodyForm \in {"array", "objects"} BY <1>2, <2>1, FormOfCall
  <2>3. coming \in Ends \cup MayCome("items") BY <2>1, <2>2 DEF Undecided
  <2>4. CASE coming \in Closers \cup {"eof", "broken"}
    <3>1. Goto("resultsEnd") BY <1>15, <2>4 DEF MoreItems, More
    <3>2. "resultsEnd" \in CallsOf(bodyForm) /\ coming \in Ends \cup MayCome("resultsEnd")
      BY <2>2, <2>4 DEF CallsOf, DecoderCalls, MayCome, Ends
    <3>3. /\ Squares(bodyForm, "resultsEnd") = Squares(bodyForm, decoding)
          /\ Curlies("resultsEnd") = Curlies(decoding)
      BY <2>1, <2>2 DEF Squares, Curlies
    <3>. QED BY <2>1, <3>1, <3>2, <3>3, GotoKeeps
  <2>5. CASE coming \notin Closers \cup {"eof", "broken"}
    <3>1. Goto("item") BY <1>15, <2>5 DEF MoreItems, More
    <3>2. "item" \in CallsOf(bodyForm) /\ coming \in Ends \cup MayCome("item")
      BY <2>2, <2>3, <2>5 DEF CallsOf, DecoderCalls, MayCome, Ends, Closers
    <3>3. /\ Squares(bodyForm, "item") = Squares(bodyForm, decoding)
          /\ Curlies("item") = Curlies(decoding)
      BY <2>1, <2>2 DEF Squares, Curlies
    <3>. QED BY <2>1, <3>1, <3>2, <3>3, GotoKeeps
  <2>. QED BY <2>4, <2>5
<1>16. CASE DecodeItem
  <2>1. verdict = "open" /\ decoding = "item" /\ coming # NotThere BY <1>16 DEF DecodeItem, In
  <2>2. Undecided /\ bodyForm \in {"array", "objects"} BY <1>2, <2>1, FormOfCall
  <2>3. CASE Take("item", "items")
    <3>1. "item" \in BodyTokens \ Bad BY DEF BodyTokens, Closers, Lines, Bad
    <3>2. "items" \in CallsOf(bodyForm) BY <2>2 DEF CallsOf, DecoderCalls
    <3>3. /\ Squares(bodyForm, "items")
               = Squares(bodyForm, decoding) + Balance("item", "arrayOpens", "arrayCloses")
          /\ Curlies("items") = Curlies(decoding) + Balance("item", "objectOpens", "objectCloses")
      BY <2>1, <2>2 DEF Squares, Curlies, Balance
    <3>. QED BY <2>1, <2>3, <3>1, <3>2, <3>3, TakeKeeps
  <2>4. CASE Refuse({"item"})
    <3>1. coming \notin {"item"} BY <2>4 DEF Refuse
    <3>2. coming \in Ends \cup MayCome(decoding) BY <2>1, <2>2 DEF Undecided
    <3>3. Curlies(decoding) = 1 BY <2>1 DEF Curlies
    <3>4. Squares(bodyForm, decoding) \in Nat BY DEF Squares
    <3>5. \/ coming \in Bad \/ coming \in Ends \/ coming = "arrayCloses"
          \/ coming = "objectCloses" /\ decoding = "resultsEnd"
      BY <2>1, <3>1, <3>2 DEF MayCome, Bad, Closers
    <3>6. decoding = "resultsEnd" => Squares(bodyForm, decoding) > 0 BY DEF Squares
    <3>. QED BY <2>1, <2>4, <3>3, <3>4, <3>5, <3>6, RefuseKeeps
  <2>. QED BY <1>16, <2>3, <2>4 DEF DecodeItem
<1>17. CASE OnChunkFails
  <2>1. Return("refused") BY <1>17 DEF OnChunkFails
  <2>. QED BY <2>1, ReturnKeeps
<1>18. CASE ResultsEnd
  <2>1. verdict = "open" /\ decoding = "resultsEnd" /\ coming # NotThere BY <1>18 DEF ResultsEnd, In
  <2>2. Undecided /\ bodyForm \in {"array", "objects"} BY <1>2, <2>1, FormOfCall
  <2>3. CASE Take("arrayCloses", "fields")
    <3>1. "arrayCloses" \in BodyTokens \ Bad BY DEF BodyTokens, Closers, Lines, Bad
    <3>2. "fields" \in CallsOf(bodyForm) BY <2>2 DEF CallsOf, DecoderCalls
    <3>3. /\ Squares(bodyForm, "fields")
               = Squares(bodyForm, decoding) + Balance("arrayCloses", "arrayOpens", "arrayCloses")
          /\ Curlies("fields") = Curlies(decoding) + Balance("arrayCloses", "objectOpens", "objectCloses")
      BY <2>1, <2>2 DEF Squares, Curlies, Balance
    <3>. QED BY <2>1, <2>3, <3>1, <3>2, <3>3, TakeKeeps
  <2>4. CASE Refuse({"arrayCloses"})
    <3>1. coming \notin {"arrayCloses"} BY <2>4 DEF Refuse
    <3>2. coming \in Ends \cup MayCome(decoding) BY <2>1, <2>2 DEF Undecided
    <3>3. Curlies(decoding) = 1 BY <2>1 DEF Curlies
    <3>4. Squares(bodyForm, decoding) \in Nat BY DEF Squares
    <3>5. \/ coming \in Bad \/ coming \in Ends \/ coming = "arrayCloses"
          \/ coming = "objectCloses" /\ decoding = "resultsEnd"
      BY <2>1, <3>1, <3>2 DEF MayCome, Bad, Closers
    <3>6. decoding = "resultsEnd" => Squares(bodyForm, decoding) > 0 BY DEF Squares
    <3>. QED BY <2>1, <2>4, <3>3, <3>4, <3>5, <3>6, RefuseKeeps
  <2>. QED BY <1>18, <2>3, <2>4 DEF ResultsEnd
<1>19. CASE ScanLine
  <2>1. verdict = "open" /\ decoding = "scan" /\ coming # NotThere BY <1>19 DEF ScanLine, In
  <2>2. Undecided /\ bodyForm = "sse" BY <1>2, <2>1, FormOfCall
  <2>3. CASE Take("event", "scan")
    <3>1. "event" \in BodyTokens \ Bad BY DEF BodyTokens, Closers, Lines, Bad
    <3>2. "scan" \in CallsOf(bodyForm) BY <2>2 DEF CallsOf, DecoderCalls
    <3>3. /\ Squares(bodyForm, "scan")
               = Squares(bodyForm, decoding) + Balance("event", "arrayOpens", "arrayCloses")
          /\ Curlies("scan") = Curlies(decoding) + Balance("event", "objectOpens", "objectCloses")
      BY <2>1, <2>2 DEF Squares, Curlies, Balance
    <3>. QED BY <2>1, <2>3, <3>1, <3>2, <3>3, TakeKeeps
  <2>4. CASE Take("comment", "scan")
    <3>1. "comment" \in BodyTokens \ Bad BY DEF BodyTokens, Closers, Lines, Bad
    <3>2. "scan" \in CallsOf(bodyForm) BY <2>2 DEF CallsOf, DecoderCalls
    <3>3. /\ Squares(bodyForm, "scan")
               = Squares(bodyForm, decoding) + Balance("comment", "arrayOpens", "arrayCloses")
          /\ Curlies("scan") = Curlies(decoding) + Balance("comment", "objectOpens", "objectCloses")
      BY <2>1, <2>2 DEF Squares, Curlies, Balance
    <3>. QED BY <2>1, <2>4, <3>1, <3>2, <3>3, TakeKeeps
  <2>5. CASE Refuse({"event", "comment", "eof"})
    <3>1. coming \in Ends \cup Lines /\ coming \notin {"event", "comment", "eof"}
      BY <2>1, <2>2, <2>5 DEF Undecided, MayCome, Refuse
    <3>2. coming \in Bad \/ (coming \in Ends /\ coming # "eof" /\ bodyForm # "array")
      BY <2>2, <3>1 DEF Lines, Bad
    <3>. QED BY <2>1, <2>5, <3>2, RefuseKeeps
  <2>. QED BY <1>19, <2>3, <2>4, <2>5 DEF ScanLine
<1>20. CASE ScanEnd
  <2>1. verdict = "open" /\ decoding = "scan" /\ coming = "eof" BY <1>20 DEF ScanEnd, In
  <2>2. Undecided /\ bodyForm = "sse" BY <1>2, <2>1, FormOfCall
  <2>3. squares = 0 /\ curlies = 0 BY <2>1, <2>2 DEF Squares, Curlies
  <2>4. IsWhole BY <1>1, <2>1, <2>2, <2>3, WholeMeans DEF Undecided
  <2>. QED BY <1>20, <2>4, ReturnKeeps DEF ScanEnd
<1>21. CASE UNCHANGED decoderVars
  <2>1. UNCHANGED << bodyForm, decoding, tokens, coming, verdict >> BY <1>21 DEF decoderVars
  <2>2. EndsWhenWhole' <=> EndsWhenWhole BY <2>1 DEF EndsWhenWhole, IsWhole, NumberOf
  <2>3. Undecided' <=> Undecided
    BY <2>1 DEF Undecided, OpenIs
  <2>. QED BY <2>1, <2>2, <2>3 DEF DecoderInv
<1>. QED
  BY <1>3, <1>4, <1>5, <1>6, <1>7, <1>8, <1>9, <1>10, <1>11, <1>12, <1>13, <1>14, <1>15, <1>16,
     <1>17, <1>18, <1>19, <1>20, <1>21 DEF DecoderNext

LEMMA BodyInvariant == ConversionSpec => []DecoderInv
<1>1. ConversionInit => DecoderInv
  <2>. SUFFICES ASSUME ConversionInit PROVE DecoderInv OBVIOUS
  <2>1. /\ bodyForm = "none" /\ decoding = "peek" /\ tokens = << >>
        /\ coming = NotThere /\ verdict = "open"
    BY DEF ConversionInit, DecoderInit
  <2>2. \A x : Occurrences(tokens, x) = 0
    <3>1. \A x : {i \in DOMAIN tokens : tokens[i] = x} = {} BY <2>1
    <3>. QED BY <3>1, FS_EmptySet DEF Occurrences
  <2>3. OpenIs(0, 0) BY <2>2 DEF OpenIs
  <2>4. Undecided BY <2>1, <2>3 DEF Undecided, CallsOf, Squares, Curlies
  <2>. QED BY <2>1, <2>4 DEF DecoderInv, EndsWhenWhole
<1>2. DecoderInv /\ [ConversionNext]_conversionVars => DecoderInv'
  <2>1. [ConversionNext]_conversionVars => [DecoderNext]_decoderVars
    BY DEF ConversionNext, conversionVars, NormalizeHistory, ReadAnswer, ReportUsage, Finish, ReadBody
  <2>. QED BY <2>1, DecoderKeeps
<1>. QED BY <1>1, <1>2, PTL DEF ConversionSpec

(* A body of any length and form, wherever it is closed, cut or broken and *)
(* whatever stands in it, is taken for an answer only if it is whole, and  *)
(* given up only if it is not.                                             *)
THEOREM BodiesEndWhenWhole == ConversionSpec => []EndsWhenWhole
<1>1. DecoderInv => EndsWhenWhole BY DEF DecoderInv
<1>. QED BY <1>1, BodyInvariant, PTL

-----------------------------------------------------------------------------
(* Names are strings, ids are the client's or generated.  (The provers do  *)
(* not know of any particular string that it is one.)                      *)
ChatNames == STRING \cup {""}

ChatIds == ChatNames \cup {GeneratedId(t, p) : t \in Nat, p \in Nat}

ChatKinds == {"blank", "text", "call", "response"}

ChatPart == [kind : ChatKinds, from : Nat, id : ChatIds, name : ChatNames]

(* The least of a set of positions, and of none.                           *)
LEMMA FirstOfFacts ==
  ASSUME NEW S \in SUBSET Nat
  PROVE  (S = {} => FirstOf(S) = 0) /\ (S # {} => Min(S) \in S /\ FirstOf(S) \in S)
<1>1. CASE S = {} BY <1>1 DEF FirstOf
<1>2. CASE S # {}
  <2>1. \E n \in S : \A m \in S : n <= m BY <1>2, LeastNumber
  <2>2. Min(S) \in S BY <2>1 DEF Min
  <2>. QED BY <1>2, <2>2 DEF FirstOf
<1>. QED BY <1>1, <1>2

(* The response a call gets is one that is not used yet and answers it;    *)
(* if there is one of its id, it is such a one.                            *)
IsAnsweredById(call, responses, used) ==
  \E k \in 1 .. Len(responses) : k \notin used /\ call.id # "" /\ responses[k].id = call.id

LEMMA ResponseForFacts ==
  ASSUME NEW call, NEW responses \in Seq(ChatPart), NEW used,
         NEW j, j = ResponseFor(call, responses, used)
  PROVE  /\ j # 0 => j \in 1 .. Len(responses) /\ j \notin used /\ Answers(responses[j], call)
         /\ IsAnsweredById(call, responses, used) => j # 0 /\ responses[j].id = call.id
<1>. DEFINE free   == DOMAIN responses \ used
            byId   == {k \in free : call.id # "" /\ responses[k].id = call.id}
            byName == {k \in free : call.name # "" /\ responses[k].name = call.name}
            bare   == {k \in free : /\ call.id = "" /\ call.name = ""
                                    /\ responses[k].id = "" /\ responses[k].name = ""}
<1>1. DOMAIN responses = 1 .. Len(responses) /\ Len(responses) \in Nat BY LenProperties
<1>2. j = IF byId # {} THEN Min(byId) ELSE FirstOf(IF byName # {} THEN byName ELSE bare)
  BY DEF ResponseFor
<1>0. \A k \in free : k \in Nat /\ k \in 1 .. Len(responses) /\ k \notin used /\ k # 0 BY <1>1
<1>3. byId \in SUBSET Nat /\ byName \in SUBSET Nat /\ bare \in SUBSET Nat
  <2>. HIDE DEF free
  <2>. QED BY <1>0
<1>4. CASE byId # {}
  <2>1. j \in byId
    <3>. HIDE DEF byId, byName, bare
    <3>. QED BY <1>2, <1>3, <1>4, FirstOfFacts
  <2>2. j \in free /\ call.id # "" /\ responses[j].id = call.id BY <2>1
  <2>3. j \in 1 .. Len(responses) /\ j \notin used /\ j # 0 BY <2>2, <1>0
  <2>. QED BY <2>2, <2>3 DEF Answers
<1>5. CASE byId = {}
  <2>1. j \in byName \/ j \in bare \/ j = 0
    <3>. HIDE DEF byId, byName, bare
    <3>. QED BY <1>2, <1>3, <1>5, FirstOfFacts
  <2>2. ~IsAnsweredById(call, responses, used) BY <1>1, <1>5 DEF IsAnsweredById
  <2>3. j # 0 => j \in free /\ Answers(responses[j], call)
    <3>. HIDE DEF free
    <3>. QED BY <2>1 DEF Answers
  <2>4. j # 0 => j \in 1 .. Len(responses) /\ j \notin used
    <3>. HIDE DEF free
    <3>. QED BY <2>3, <1>0
  <2>. QED BY <2>2, <2>3, <2>4
<1>. QED BY <1>4, <1>5

-----------------------------------------------------------------------------
(* The recursion of MatchFunctionHistoryParts.                             *)
Pairing == Seq(Nat \X Nat)

AddsPairs(g, calls, responses) ==
  g[0] = << >> /\ \A i \in 1 .. Len(calls) : g[i] = AddPair(g[i - 1], i, calls, responses)

LEMMA AddPairType ==
  ASSUME NEW calls \in Seq(ChatPart), NEW responses \in Seq(ChatPart),
         NEW pairs \in Pairing, NEW i \in 1 .. Len(calls)
  PROVE  AddPair(pairs, i, calls, responses) \in Pairing
<1>1. PICK j : j = ResponseFor(calls[i], responses, {pairs[n][2] : n \in DOMAIN pairs}) OBVIOUS
<1>2. AddPair(pairs, i, calls, responses) = IF j = 0 THEN pairs ELSE Append(pairs, <<i, j>>)
  BY <1>1 DEF AddPair
<1>3. j # 0 => j \in 1 .. Len(responses)
  <2>1. PICK used : used = {pairs[n][2] : n \in DOMAIN pairs} OBVIOUS
  <2>2. PICK call : call = calls[i] OBVIOUS
  <2>3. j = ResponseFor(call, responses, used) BY <1>1, <2>1, <2>2
  <2>. QED BY <2>3, ResponseForFacts
<1>4. i \in Nat /\ Len(responses) \in Nat BY LenProperties
<1>5. j # 0 => <<i, j>> \in Nat \X Nat BY <1>3, <1>4
<1>. QED BY <1>2, <1>5, AppendProperties DEF Pairing

LEMMA PairsRecursion ==
  ASSUME NEW calls \in Seq(ChatPart), NEW responses \in Seq(ChatPart)
  PROVE  \E g \in [0 .. Len(calls) -> Pairing] :
           AddsPairs(g, calls, responses) /\ MatchFunctionHistoryParts(calls, responses) = g[Len(calls)]
<1>. DEFINE N == Len(calls)
            step == [n \in 1 .. N |-> [t \in Pairing |-> AddPair(t, n, calls, responses)]]
            Rec(f) == [i \in 0 .. N |->
                         IF i = 0 THEN << >> ELSE AddPair(f[i - 1], i, calls, responses)]
            f == CHOOSE f : f = Rec(f)
<1>1. N \in Nat /\ << >> \in Pairing
  BY LenProperties, EmptySeq DEF Pairing
<1>2. step \in [1 .. N -> [Pairing -> Pairing]]
  <2>1. ASSUME NEW n \in 1 .. N, NEW t \in Pairing PROVE AddPair(t, n, calls, responses) \in Pairing
    BY AddPairType
  <2>. QED BY <2>1
<1>3. \E g \in [0 .. N -> Pairing] : Computes(g, N, << >>, step)
  <2>. HIDE DEF step, N
  <2>. QED BY <1>1, <1>2, RecursionExists
<1>4. PICK g \in [0 .. N -> Pairing] : Computes(g, N, << >>, step)
  BY <1>3
<1>5. ASSUME NEW n \in 1 .. N
      PROVE  g[n] = AddPair(g[n - 1], n, calls, responses)
  <2>1. n - 1 \in 0 .. N
    <3>. HIDE DEF N
    <3>. QED BY <1>1
  <2>2. g[n - 1] \in Pairing
    <3>. HIDE DEF N
    <3>. QED BY <2>1
  <2>3. g[n] = step[n][g[n - 1]]
    <3>. HIDE DEF step
    <3>. QED BY <1>4 DEF Computes
  <2>. QED BY <2>2, <2>3
<1>6. g[0] = << >> BY <1>4 DEF Computes
<1>7. AddsPairs(g, calls, responses) BY <1>5, <1>6 DEF AddsPairs
<1>8. g = Rec(g)
  <2>1. ASSUME NEW n \in 0 .. N PROVE g[n] = Rec(g)[n]
    <3>1. CASE n = 0 BY <1>6, <3>1
    <3>2. CASE n # 0
      <4>1. n \in 1 .. N BY <1>1, <3>2
      <4>. QED BY <1>5, <3>2, <4>1
    <3>. QED BY <3>1, <3>2
  <2>2. DOMAIN g = 0 .. N /\ DOMAIN Rec(g) = 0 .. N OBVIOUS
  <2>. QED BY <2>1, <2>2
<1>9. f = Rec(f)
  <2>. HIDE DEF Rec
  <2>. QED BY <1>8
<1>10. MatchFunctionHistoryParts(calls, responses) = f[N]
  BY DEF MatchFunctionHistoryParts
<1>. HIDE DEF f, step
<1>11. \A n \in 0 .. N : g[n] = f[n]
  <2>1. ASSUME NEW n \in 1 .. N, g[n - 1] = f[n - 1] PROVE g[n] = f[n]
    <3>1. f[n] = AddPair(f[n - 1], n, calls, responses)
      <4>1. n # 0 /\ n \in 0 .. N BY <1>1
      <4>2. f[n] = Rec(f)[n] BY <1>9
      <4>3. Rec(f)[n] = AddPair(f[n - 1], n, calls, responses)
        BY <4>1
      <4>. QED BY <4>2, <4>3
    <3>. QED BY <1>5, <2>1, <3>1
  <2>2. g[0] = f[0]
    BY <1>1, <1>9, <1>6
  <2>3. StepAlike(g, f, N) BY <2>1, <2>2 DEF StepAlike
  <2>. HIDE DEF N
  <2>. QED BY <1>1, <2>3, RecursionIsUnique
<1>. QED BY <1>1, <1>7, <1>10, <1>11

(* What the pairs found among the first N calls are.                       *)
GoodPairs(pairs, N, calls, responses) ==
  /\ \A n \in DOMAIN pairs :
       /\ pairs[n][1] \in 1 .. N /\ pairs[n][2] \in 1 .. Len(responses)
       /\ Answers(responses[pairs[n][2]], calls[pairs[n][1]])
  /\ \A m, n \in DOMAIN pairs :
       m < n => pairs[m][1] < pairs[n][1] /\ pairs[m][2] # pairs[n][2]

LEMMA AddPairFacts ==
  ASSUME NEW calls \in Seq(ChatPart), NEW responses \in Seq(ChatPart),
         NEW N \in 1 .. Len(calls), NEW pairs \in Pairing,
         GoodPairs(pairs, N - 1, calls, responses),
         NEW next, next = AddPair(pairs, N, calls, responses)
  PROVE  GoodPairs(next, N, calls, responses)
<1>1. N \in Nat /\ N - 1 \in Nat BY LenProperties
<1>2. PICK used : used = {pairs[n][2] : n \in DOMAIN pairs} OBVIOUS
<1>3. PICK call : call = calls[N] OBVIOUS
<1>4. PICK j : j = ResponseFor(call, responses, used) OBVIOUS
<1>5. next = IF j = 0 THEN pairs ELSE Append(pairs, <<N, j>>)
  BY <1>2, <1>3, <1>4 DEF AddPair
<1>6. Len(pairs) \in Nat /\ DOMAIN pairs = 1 .. Len(pairs) BY LenProperties DEF Pairing
<1>7. CASE j = 0
  <2>1. \A n \in DOMAIN pairs : pairs[n][1] \in 1 .. N - 1 => pairs[n][1] \in 1 .. N BY <1>1
  <2>. QED BY <2>1, <1>5, <1>7 DEF GoodPairs
<1>8. CASE j # 0
  <2>1. j \in 1 .. Len(responses) /\ j \notin used /\ Answers(responses[j], call)
    BY <1>4, <1>8, ResponseForFacts
  <2>2. PICK pair : pair = <<N, j>> OBVIOUS
  <2>3. pair \in Nat \X Nat /\ pair[1] = N /\ pair[2] = j
    <3>1. Len(responses) \in Nat BY LenProperties
    <3>. QED BY <2>1, <2>2, <1>1, <3>1
  <2>4. next = Append(pairs, pair) BY <1>5, <1>8, <2>2
  <2>5. Len(next) = Len(pairs) + 1 /\ next \in Pairing /\ next[Len(pairs) + 1] = pair
          /\ \A n \in 1 .. Len(pairs) : next[n] = pairs[n]
    BY <2>3, <2>4, AppendProperties DEF Pairing
  <2>6. DOMAIN next = 1 .. Len(pairs) + 1 BY <2>5, LenProperties DEF Pairing
  <2>7. ASSUME NEW n \in DOMAIN next
        PROVE  /\ next[n][1] \in 1 .. N /\ next[n][2] \in 1 .. Len(responses)
               /\ Answers(responses[next[n][2]], calls[next[n][1]])
    <3>1. CASE n = Len(pairs) + 1 BY <3>1, <2>1, <2>3, <2>5, <1>1, <1>3
    <3>2. CASE n # Len(pairs) + 1
      <4>1. n \in DOMAIN pairs /\ next[n] = pairs[n] BY <3>2, <2>5, <2>6, <1>6
      <4>2. /\ pairs[n][1] \in 1 .. N - 1 /\ pairs[n][2] \in 1 .. Len(responses)
            /\ Answers(responses[pairs[n][2]], calls[pairs[n][1]])
        BY <4>1 DEF GoodPairs
      <4>3. pairs[n][1] \in 1 .. N BY <4>2, <1>1
      <4>. QED BY <4>1, <4>2, <4>3
    <3>. QED BY <3>1, <3>2
  <2>8. ASSUME NEW m \in DOMAIN next, NEW n \in DOMAIN next, m < n
        PROVE  next[m][1] < next[n][1] /\ next[m][2] # next[n][2]
    <3>1. m \in DOMAIN pairs /\ next[m] = pairs[m] BY <2>8, <2>5, <2>6, <1>6
    <3>2. CASE n = Len(pairs) + 1
      <4>1. next[n][1] = N /\ next[n][2] = j BY <3>2, <2>3, <2>5
      <4>2. pairs[m][1] \in 1 .. N - 1 BY <3>1 DEF GoodPairs
      <4>3. pairs[m][2] # j BY <3>1, <2>1, <1>2
      <4>. QED BY <3>1, <4>1, <4>2, <4>3, <1>1
    <3>3. CASE n # Len(pairs) + 1
      <4>1. n \in DOMAIN pairs /\ next[n] = pairs[n] BY <3>3, <2>5, <2>6, <1>6
      <4>. QED BY <3>1, <4>1, <2>8 DEF GoodPairs
    <3>. QED BY <3>2, <3>3
  <2>. QED BY <2>7, <2>8 DEF GoodPairs
<1>. QED BY <1>7, <1>8

(* The pairs found are in the order of the calls, no response is in two,   *)
(* and each answers its call.                                              *)
LEMMA PairsAreGood ==
  ASSUME NEW calls \in Seq(ChatPart), NEW responses \in Seq(ChatPart),
         NEW pairs, pairs = MatchFunctionHistoryParts(calls, responses)
  PROVE  pairs \in Pairing /\ GoodPairs(pairs, Len(calls), calls, responses)
<1>1. PICK g \in [0 .. Len(calls) -> Pairing] :
           AddsPairs(g, calls, responses) /\ pairs = g[Len(calls)]
  BY PairsRecursion
<1>2. Len(calls) \in Nat BY LenProperties
<1>. DEFINE Good == {n \in Nat : n <= Len(calls) => GoodPairs(g[n], n, calls, responses)}
<1>3. 0 \in Good
  <2>1. g[0] = << >> BY <1>1 DEF AddsPairs
  <2>2. DOMAIN g[0] = {} BY <2>1
  <2>3. GoodPairs(g[0], 0, calls, responses) BY <2>2 DEF GoodPairs
  <2>. QED BY <2>3
<1>4. ASSUME NEW n \in Nat, n \in Good PROVE n + 1 \in Good
  <2>. SUFFICES ASSUME n + 1 <= Len(calls) PROVE GoodPairs(g[n + 1], n + 1, calls, responses)
    OBVIOUS
  <2>1. PICK N : N = n + 1 OBVIOUS
  <2>2. N \in 1 .. Len(calls) /\ N - 1 = n /\ n \in 0 .. Len(calls) BY <2>1, <1>2
  <2>3. PICK h : h = g[n] OBVIOUS
  <2>4. h \in Pairing /\ GoodPairs(h, N - 1, calls, responses) BY <2>2, <2>3, <1>4
  <2>5. g[N] = AddPair(h, N, calls, responses) BY <2>2, <2>3, <1>1 DEF AddsPairs
  <2>6. GoodPairs(g[N], N, calls, responses) BY <2>2, <2>4, <2>5, AddPairFacts
  <2>. QED BY <2>1, <2>6
<1>5. Nat \subseteq Good
  <2>. HIDE DEF Good
  <2>. QED BY <1>3, <1>4, InductionOnNat
<1>6. GoodPairs(g[Len(calls)], Len(calls), calls, responses) BY <1>2, <1>5
<1>. QED BY <1>1, <1>2, <1>6

-----------------------------------------------------------------------------
(* The parts of a kind, by the list of their places.                       *)
LEMMA PlacedFacts ==
  ASSUME NEW parts \in Seq(ChatPart), NEW kind,
         NEW at, at = PartIndices(parts, kind), NEW items, items = Collect(parts, kind)
  PROVE  /\ Lists(at, PlacesOf(parts, kind)) /\ Len(at) \in Nat /\ Len(items) = Len(at)
         /\ items \in Seq(ChatPart)
         /\ \A n \in 1 .. Len(at) : /\ at[n] \in 1 .. Len(parts) /\ at[n] \in PlacesOf(parts, kind)
                                    /\ items[n] = parts[at[n]]
<1>1. Len(parts) \in Nat /\ DOMAIN parts = 1 .. Len(parts) BY LenProperties
<1>2. PICK I : I = PlacesOf(parts, kind) OBVIOUS
<1>3. I \in SUBSET (1 .. Len(parts)) BY <1>1, <1>2 DEF PlacesOf
<1>4. Lists(at, I)
  <2>1. at = ItemsAt([i \in 1 .. Len(parts) |-> i], I) BY <1>1, <1>2 DEF PartIndices
  <2>. QED BY <2>1, <1>1, <1>3, IndicesAreList
<1>5. items = ItemsAt(parts, I) BY <1>2 DEF Collect
<1>6. Selects(at, items, parts, I)
  <2>1. \A i : i \in I <=> i \in {j \in 1 .. Len(parts) : j \in I} BY <1>3
  <2>2. I = {j \in 1 .. Len(parts) : j \in I} BY <2>1
  <2>. QED BY <2>2, <1>4, <1>5, ListSelects
<1>7. items \in Seq(ChatPart) BY <1>5, ItemsAtType
<1>8. Len(at) \in Nat BY <1>4, LenProperties DEF Lists
<1>. QED BY <1>2, <1>4, <1>6, <1>7, <1>8 DEF Selects

(* Setting ids changes the parts at the given places, and only their ids.  *)
HaveIds(new, parts, places, ids, callIDs) ==
  /\ new \in Seq(ChatPart) /\ Len(new) = Len(parts)
  /\ \A i \in 1 .. Len(parts) : new[i].kind = parts[i].kind /\ new[i].from = parts[i].from
  /\ \A i \in 1 .. Len(parts) : (~callIDs \/ \A n \in DOMAIN places : places[n] # i) => new[i] = parts[i]
  /\ \A n \in DOMAIN places :
       /\ new[places[n]].name = parts[places[n]].name
       /\ new[places[n]].id = IF callIDs THEN ids[n] ELSE parts[places[n]].id

OncePerPlace(places, N, M) ==
  /\ places \in [1 .. N -> 1 .. M]
  /\ \A m, n \in 1 .. N : places[m] = places[n] => m = n

LEMMA SetIdsFacts ==
  ASSUME NEW parts \in Seq(ChatPart), NEW N \in Nat, NEW places,
         OncePerPlace(places, N, Len(parts)),
         NEW ids, \A n \in 1 .. N : ids[n] \in ChatIds, NEW callIDs \in BOOLEAN,
         NEW new, new = SetIds(parts, places, ids, callIDs)
  PROVE  HaveIds(new, parts, places, ids, callIDs)
<1>. DEFINE at(i) == FirstOf({k \in DOMAIN places : places[k] = i})
            part(i) == IF ~callIDs \/ at(i) = 0 THEN parts[i] ELSE [parts[i] EXCEPT !.id = ids[at(i)]]
<1>1. Len(parts) \in Nat /\ DOMAIN parts = 1 .. Len(parts) /\ DOMAIN places = 1 .. N
        /\ \A i \in 1 .. Len(parts) : parts[i] \in ChatPart
  BY LenProperties DEF OncePerPlace
<1>2. new = [i \in 1 .. Len(parts) |-> part(i)] BY <1>1 DEF SetIds
<1>3. ASSUME NEW i \in 1 .. Len(parts)
      PROVE  (at(i) = 0 /\ \A n \in 1 .. N : places[n] # i) \/ (at(i) \in 1 .. N /\ places[at(i)] = i)
  <2>1. PICK S : S = {k \in DOMAIN places : places[k] = i} OBVIOUS
  <2>2. S \in SUBSET Nat BY <2>1, <1>1
  <2>3. CASE S = {}
    <3>1. FirstOf(S) = 0 BY <2>2, <2>3, FirstOfFacts
    <3>. QED BY <3>1, <2>1, <2>3, <1>1
  <2>4. CASE S # {}
    <3>1. FirstOf(S) \in S BY <2>2, <2>4, FirstOfFacts
    <3>2. \A k \in S : k \in 1 .. N /\ places[k] = i BY <2>1, <1>1
    <3>. QED BY <3>1, <3>2, <2>1
  <2>. QED BY <2>3, <2>4
<1>. HIDE DEF at
<1>4. ASSUME NEW i \in 1 .. Len(parts)
      PROVE  /\ part(i) \in ChatPart /\ part(i).kind = parts[i].kind /\ part(i).from = parts[i].from
             /\ part(i).name = parts[i].name
             /\ part(i).id = IF callIDs /\ at(i) # 0 THEN ids[at(i)] ELSE parts[i].id
  <2>1. PICK p : p = parts[i] OBVIOUS
  <2>2. p \in ChatPart BY <2>1, <1>1
  <2>3. CASE ~callIDs \/ at(i) = 0 BY <2>1, <2>2, <2>3
  <2>4. CASE callIDs /\ at(i) # 0
    <3>1. PICK id : id = ids[at(i)] OBVIOUS
    <3>2. id \in ChatIds BY <3>1, <2>4, <1>3
    <3>3. part(i) = [p EXCEPT !.id = id] BY <2>1, <2>4, <3>1
    <3>4. [p EXCEPT !.id = id] \in ChatPart BY <2>2, <3>2 DEF ChatPart
    <3>. QED BY <2>1, <2>2, <2>4, <3>1, <3>3, <3>4 DEF ChatPart
  <2>. QED BY <2>3, <2>4
<1>5. new \in Seq(ChatPart) /\ Len(new) = Len(parts)
  <2>. HIDE DEF part
  <2>1. new \in [1 .. Len(parts) -> ChatPart] BY <1>2, <1>4
  <2>. QED BY <2>1, <1>1
<1>6. ASSUME NEW i \in 1 .. Len(parts) PROVE new[i] = part(i)
  BY <1>2
<1>7. ASSUME NEW n \in 1 .. N
      PROVE  /\ places[n] \in 1 .. Len(parts)
             /\ new[places[n]].name = parts[places[n]].name
             /\ new[places[n]].id = IF callIDs THEN ids[n] ELSE parts[places[n]].id
  <2>1. PICK i : i = places[n] OBVIOUS
  <2>2. i \in 1 .. Len(parts) BY <2>1 DEF OncePerPlace
  <2>3. at(i) = n
    <3>1. at(i) \in 1 .. N /\ places[at(i)] = i BY <2>1, <2>2, <1>3
    <3>. QED BY <3>1, <2>1 DEF OncePerPlace
  <2>4. n # 0 OBVIOUS
  <2>. HIDE DEF part
  <2>. QED BY <2>1, <2>2, <2>3, <2>4, <1>4, <1>6
<1>8. ASSUME NEW i \in 1 .. Len(parts), ~callIDs \/ \A n \in 1 .. N : places[n] # i
      PROVE  new[i] = parts[i]
  <2>1. ~callIDs \/ at(i) = 0 BY <1>3, <1>8
  <2>. QED BY <2>1, <1>6
<1>9. \A i \in 1 .. Len(parts) : new[i].kind = parts[i].kind /\ new[i].from = parts[i].from
  <2>. HIDE DEF part
  <2>. QED BY <1>4, <1>6
<1>. QED BY <1>1, <1>5, <1>7, <1>8, <1>9 DEF HaveIds

(* No generated id is empty: it begins with "call_vertex2api_", which the  *)
(* provers, to whom a string is a value like any other, cannot see.        *)
IdsAreGenerated == \A t, p \in Nat : GeneratedId(t, p) # ""

(* A pair has an id, which is that of its call if that has one.            *)
LEMMA PairIdFacts ==
  ASSUME NEW turn \in Nat, NEW place \in Nat, NEW call \in ChatPart, NEW response \in ChatPart
  PROVE  /\ PairId(turn, place, call, response) \in ChatIds
         /\ call.id # "" => PairId(turn, place, call, response) = call.id
         /\ IdsAreGenerated => PairId(turn, place, call, response) # ""
<1>. DEFINE new == GeneratedId(turn, place)
            id == PairId(turn, place, call, response)
<1>1. new \in ChatIds BY DEF ChatIds
<1>2. call.id \in ChatIds /\ response.id \in ChatIds BY DEF ChatPart
<1>3. IdsAreGenerated => new # "" BY DEF IdsAreGenerated
<1>. HIDE DEF new
<1>4. \/ call.id # "" /\ id = call.id
      \/ call.id = "" /\ response.id # "" /\ id = response.id
      \/ call.id = "" /\ response.id = "" /\ id = new
  BY DEF PairId, new
<1>. HIDE DEF id
<1>5. id \in ChatIds BY <1>1, <1>2, <1>4
<1>6. call.id # "" => id = call.id BY <1>4
<1>7. IdsAreGenerated => id # "" BY <1>3, <1>4
<1>. QED BY <1>5, <1>6, <1>7 DEF id

-----------------------------------------------------------------------------
(* The match of two turns, and the parts with their ids.                   *)
MatchedAt(n, pairs, model, user, callAt, answerAt, ids) ==
  /\ callAt[n] = PartIndices(model, "call")[pairs[n][1]]
  /\ answerAt[n] = PartIndices(user, "response")[pairs[n][2]]
  /\ model[callAt[n]].kind = "call" /\ user[answerAt[n]].kind = "response"
  /\ Answers(user[answerAt[n]], model[callAt[n]])
  /\ ids[n] \in ChatIds
  /\ model[callAt[n]].id # "" => ids[n] = model[callAt[n]].id
  /\ IdsAreGenerated => ids[n] # ""

Matched(pairs, model, user, callAt, answerAt, ids, newModel, newUser, callIDs) ==
  /\ pairs = MatchFunctionHistoryParts(Collect(model, "call"), Collect(user, "response"))
  /\ pairs \in Pairing /\ Len(pairs) \in Nat
  /\ OncePerPlace(callAt, Len(pairs), Len(model))
  /\ OncePerPlace(answerAt, Len(pairs), Len(user))
  /\ \A m, n \in 1 .. Len(pairs) : m < n => callAt[m] < callAt[n]
  /\ \A n \in 1 .. Len(pairs) : MatchedAt(n, pairs, model, user, callAt, answerAt, ids)
  /\ HaveIds(newModel, model, callAt, ids, callIDs)
  /\ HaveIds(newUser, user, answerAt, ids, callIDs)

Stay(model, callAt, pairs) ==
  {i \in DOMAIN model : model[i].kind = "call" => \E n \in DOMAIN pairs : callAt[n] = i}

Moved(newUser, answerAt, pairs) == [n \in DOMAIN pairs |-> newUser[answerAt[n]]]

RepairedAs(r, pairs, model, user, callAt, answerAt, newModel, newUser) ==
  r = IF AlreadyAligned(Collect(model, "call"), Collect(user, "response"), pairs)
        THEN [calls |-> newModel, responses |-> newUser]
        ELSE [ calls     |-> ItemsAt(newModel, Stay(model, callAt, pairs)),
               responses |-> ItemsAt(newUser, DOMAIN user \ PlacesOf(user, "response"))
                               \o Moved(newUser, answerAt, pairs) ]

Composed(places, at, f, N) == places = [n \in 1 .. N |-> at[f[n]]]

LEMMA PlacesOnce ==
  ASSUME NEW parts \in Seq(ChatPart), NEW kind, NEW at, at = PartIndices(parts, kind),
         NEW N \in Nat, NEW f, OncePerPlace(f, N, Len(at)),
         NEW places, Composed(places, at, f, N)
  PROVE  /\ OncePerPlace(places, N, Len(parts))
         /\ \A n \in 1 .. N : parts[places[n]].kind = kind /\ parts[places[n]] = Collect(parts, kind)[f[n]]
<1>1. PICK items : items = Collect(parts, kind) OBVIOUS
<1>2. /\ Lists(at, PlacesOf(parts, kind)) /\ Len(at) \in Nat
      /\ \A n \in 1 .. Len(at) : /\ at[n] \in 1 .. Len(parts) /\ at[n] \in PlacesOf(parts, kind)
                                 /\ items[n] = parts[at[n]]
  BY <1>1, PlacedFacts
<1>3. ASSUME NEW n \in 1 .. N
      PROVE  /\ f[n] \in 1 .. Len(at) /\ places[n] \in 1 .. Len(parts)
             /\ parts[places[n]].kind = kind /\ parts[places[n]] = items[f[n]]
  <2>1. f[n] \in 1 .. Len(at) /\ places[n] = at[f[n]] BY DEF OncePerPlace, Composed
  <2>. QED BY <2>1, <1>2 DEF PlacesOf
<1>4. ASSUME NEW m \in 1 .. N, NEW n \in 1 .. N, places[m] = places[n] PROVE m = n
  <2>1. at[f[m]] = at[f[n]] BY <1>3, <1>4 DEF Composed
  <2>2. f[m] = f[n]
    <3>1. PICK i, j : i = f[m] /\ j = f[n] OBVIOUS
    <3>2. i \in 1 .. Len(at) /\ j \in 1 .. Len(at) /\ at[i] = at[j] BY <3>1, <1>3, <2>1
    <3>3. i = j BY <3>2, <1>2, ListOrder
    <3>. QED BY <3>1, <3>3
  <2>. QED BY <2>2 DEF OncePerPlace
<1>5. places \in [1 .. N -> 1 .. Len(parts)] BY <1>3 DEF Composed
<1>. QED BY <1>1, <1>3, <1>4, <1>5 DEF OncePerPlace

LEMMA RepairedIsMatched ==
  ASSUME NEW contents, NEW turn \in Nat, NEW callIDs \in BOOLEAN,
         NEW model \in Seq(ChatPart), model = contents[turn].parts,
         NEW user \in Seq(ChatPart), user = contents[turn + 1].parts,
         NEW r, r = Repaired(contents, turn, callIDs)
  PROVE  \E pairs, callAt, answerAt, ids, newModel, newUser :
           /\ Matched(pairs, model, user, callAt, answerAt, ids, newModel, newUser, callIDs)
           /\ RepairedAs(r, pairs, model, user, callAt, answerAt, newModel, newUser)
<1>. DEFINE at == PartIndices(model, "call")
            to == PartIndices(user, "response")
            calls == Collect(model, "call")
            responses == Collect(user, "response")
            pairs == MatchFunctionHistoryParts(calls, responses)
            callAt == [n \in DOMAIN pairs |-> at[pairs[n][1]]]
            answerAt == [n \in DOMAIN pairs |-> to[pairs[n][2]]]
            ids == [n \in DOMAIN pairs |-> PairId(turn, callAt[n], model[callAt[n]], user[answerAt[n]])]
            newModel == SetIds(model, callAt, ids, callIDs)
            newUser == SetIds(user, answerAt, ids, callIDs)
            N == Len(pairs)
<1>1. RepairedAs(r, pairs, model, user, callAt, answerAt, newModel, newUser)
  <2>1. r = RepairedFor(pairs, turn, model, user, callIDs) BY DEF Repaired
  <2>. HIDE DEF pairs
  <2>. QED BY <2>1, Zenon DEF RepairedFor, RepairedAs, Stay, Moved
<1>. HIDE DEF calls, responses, at, to
<1>2. /\ Lists(at, PlacesOf(model, "call")) /\ Len(at) \in Nat /\ Len(calls) = Len(at)
      /\ calls \in Seq(ChatPart)
  BY PlacedFacts DEF at, calls
<1>3. /\ Lists(to, PlacesOf(user, "response")) /\ Len(to) \in Nat /\ Len(responses) = Len(to)
      /\ responses \in Seq(ChatPart)
  BY PlacedFacts DEF to, responses
<1>4. pairs \in Pairing /\ GoodPairs(pairs, Len(calls), calls, responses)
  BY <1>2, <1>3, PairsAreGood
<1>. HIDE DEF pairs
<1>5. N \in Nat /\ DOMAIN pairs = 1 .. N BY <1>4, LenProperties DEF Pairing
<1>6. ASSUME NEW n \in 1 .. N
      PROVE  /\ pairs[n][1] \in 1 .. Len(at) /\ pairs[n][2] \in 1 .. Len(to)
             /\ Answers(responses[pairs[n][2]], calls[pairs[n][1]])
  BY <1>2, <1>3, <1>4, <1>5 DEF GoodPairs
<1>7. ASSUME NEW m \in 1 .. N, NEW n \in 1 .. N, m < n
      PROVE  pairs[m][1] < pairs[n][1] /\ pairs[m][2] # pairs[n][2]
  BY <1>4, <1>5, <1>7 DEF GoodPairs
<1>8. \A m, n \in 1 .. N : pairs[m][1] = pairs[n][1] => m = n
  <2>1. ASSUME NEW m \in 1 .. N, NEW n \in 1 .. N, m # n PROVE pairs[m][1] # pairs[n][1]
    <3>1. m < n \/ n < m BY <2>1, <1>5
    <3>2. pairs[m][1] \in Int /\ pairs[n][1] \in Int BY <1>2, <1>6
    <3>3. CASE m < n BY <3>2, <3>3, <1>7
    <3>4. CASE n < m BY <3>2, <3>4, <1>7
    <3>. QED BY <3>1, <3>3, <3>4
  <2>. QED BY <2>1
<1>9. \A m, n \in 1 .. N : pairs[m][2] = pairs[n][2] => m = n
  <2>1. ASSUME NEW m \in 1 .. N, NEW n \in 1 .. N, m # n PROVE pairs[m][2] # pairs[n][2]
    <3>1. m < n \/ n < m BY <2>1, <1>5
    <3>. QED BY <3>1, <1>7
  <2>. QED BY <2>1
<1>. HIDE DEF N
<1>10. /\ OncePerPlace(callAt, N, Len(model))
       /\ \A n \in 1 .. N : model[callAt[n]].kind = "call" /\ model[callAt[n]] = calls[pairs[n][1]]
  <2>1. PICK f : f = [n \in 1 .. N |-> pairs[n][1]] OBVIOUS
  <2>2. f \in [1 .. N -> 1 .. Len(at)] BY <2>1, <1>6
  <2>3. \A m, n \in 1 .. N : f[m] = f[n] => m = n BY <2>1, <1>8
  <2>4. Composed(callAt, at, f, N) BY <2>1, <1>5 DEF Composed
  <2>. HIDE DEF callAt
  <2>0. OncePerPlace(f, N, Len(at)) BY <2>2, <2>3 DEF OncePerPlace
  <2>5. at = PartIndices(model, "call") BY DEF at
  <2>6. /\ OncePerPlace(callAt, N, Len(model))
        /\ \A n \in 1 .. N : model[callAt[n]].kind = "call"
                             /\ model[callAt[n]] = Collect(model, "call")[f[n]]
    BY <1>5, <2>0, <2>4, <2>5, PlacesOnce
  <2>. QED BY <2>1, <2>6 DEF calls
<1>11. /\ OncePerPlace(answerAt, N, Len(user))
       /\ \A n \in 1 .. N : user[answerAt[n]].kind = "response" /\ user[answerAt[n]] = responses[pairs[n][2]]
  <2>1. PICK f : f = [n \in 1 .. N |-> pairs[n][2]] OBVIOUS
  <2>2. f \in [1 .. N -> 1 .. Len(to)] BY <2>1, <1>6
  <2>3. \A m, n \in 1 .. N : f[m] = f[n] => m = n BY <2>1, <1>9
  <2>4. Composed(answerAt, to, f, N) BY <2>1, <1>5 DEF Composed
  <2>. HIDE DEF answerAt
  <2>0. OncePerPlace(f, N, Len(to)) BY <2>2, <2>3 DEF OncePerPlace
  <2>5. to = PartIndices(user, "response") BY DEF to
  <2>6. /\ OncePerPlace(answerAt, N, Len(user))
        /\ \A n \in 1 .. N : user[answerAt[n]].kind = "response"
                             /\ user[answerAt[n]] = Collect(user, "response")[f[n]]
    BY <1>5, <2>0, <2>4, <2>5, PlacesOnce
  <2>. QED BY <2>1, <2>6 DEF responses
<1>12. ASSUME NEW n \in 1 .. N
       PROVE  /\ callAt[n] = at[pairs[n][1]] /\ answerAt[n] = to[pairs[n][2]]
              /\ callAt[n] \in 1 .. Len(model) /\ answerAt[n] \in 1 .. Len(user)
              /\ model[callAt[n]] \in ChatPart /\ user[answerAt[n]] \in ChatPart
  <2>1. callAt[n] = at[pairs[n][1]] /\ answerAt[n] = to[pairs[n][2]] BY <1>5
  <2>. HIDE DEF callAt, answerAt
  <2>2. callAt[n] \in 1 .. Len(model) /\ answerAt[n] \in 1 .. Len(user) BY <1>10, <1>11 DEF OncePerPlace
  <2>. QED BY <2>1, <2>2, LenProperties
<1>13. \A m, n \in 1 .. N : m < n => callAt[m] < callAt[n]
  <2>1. ASSUME NEW m \in 1 .. N, NEW n \in 1 .. N, m < n PROVE callAt[m] < callAt[n]
    <3>1. PICK i, j : i = pairs[m][1] /\ j = pairs[n][1] OBVIOUS
    <3>2. i \in 1 .. Len(at) /\ j \in 1 .. Len(at) /\ i < j BY <3>1, <2>1, <1>6, <1>7
    <3>3. at[i] < at[j] BY <3>2, <1>2 DEF Lists
    <3>. QED BY <3>1, <3>3, <1>12
  <2>. QED BY <2>1
<1>14. ASSUME NEW n \in 1 .. N
       PROVE  /\ ids[n] \in ChatIds
              /\ model[callAt[n]].id # "" => ids[n] = model[callAt[n]].id
              /\ IdsAreGenerated => ids[n] # ""
  <2>1. PICK call, response, place :
          call = model[callAt[n]] /\ response = user[answerAt[n]] /\ place = callAt[n]
    OBVIOUS
  <2>2. call \in ChatPart /\ response \in ChatPart /\ place \in Nat
    <3>1. Len(model) \in Nat BY LenProperties
    <3>. HIDE DEF callAt, answerAt
    <3>. QED BY <2>1, <1>12, <3>1
  <2>3. ids[n] = PairId(turn, place, call, response) BY <1>5, <2>1
  <2>. HIDE DEF ids
  <2>5. PICK id : id = PairId(turn, place, call, response) OBVIOUS
  <2>6. /\ id \in ChatIds
        /\ call.id # "" => id = call.id
        /\ IdsAreGenerated => id # ""
    BY <2>2, <2>5, PairIdFacts
  <2>4. /\ ids[n] \in ChatIds
        /\ call.id # "" => ids[n] = call.id
        /\ IdsAreGenerated => ids[n] # ""
    BY <2>3, <2>5, <2>6
  <2>. HIDE DEF callAt, answerAt
  <2>. QED BY <2>1, <2>4
<1>. HIDE DEF callAt, answerAt, ids
<1>15. HaveIds(newModel, model, callAt, ids, callIDs)
  BY <1>5, <1>10, <1>14, SetIdsFacts
<1>16. HaveIds(newUser, user, answerAt, ids, callIDs)
  BY <1>5, <1>11, <1>14, SetIdsFacts
<1>. HIDE DEF newModel, newUser
<1>17. ASSUME NEW n \in 1 .. N
       PROVE  /\ model[callAt[n]].kind = "call" /\ user[answerAt[n]].kind = "response"
              /\ Answers(user[answerAt[n]], model[callAt[n]])
  BY <1>6, <1>10, <1>11
<1>18. pairs = MatchFunctionHistoryParts(Collect(model, "call"), Collect(user, "response"))
  BY DEF pairs, calls, responses
<1>20. ASSUME NEW n \in 1 .. N PROVE MatchedAt(n, pairs, model, user, callAt, answerAt, ids)
  BY <1>12, <1>14, <1>17 DEF MatchedAt, at, to
<1>19. Matched(pairs, model, user, callAt, answerAt, ids, newModel, newUser, callIDs)
  BY <1>4, <1>5, <1>10, <1>11, <1>13, <1>15, <1>16, <1>18, <1>20 DEF Matched, N
<1>. QED BY <1>1, <1>19

-----------------------------------------------------------------------------
(* The parts of a kind in what is made of parts.                           *)
LEMMA CollectOfItems ==
  ASSUME NEW parts \in Seq(ChatPart), NEW I, NEW kind, NEW r, r = ItemsAt(parts, I),
         NEW K, \A i \in 1 .. Len(parts) : i \in K <=> i \in I /\ parts[i].kind = kind
  PROVE  Collect(r, kind) = ItemsAt(parts, K)
<1>1. PICK e : Selects(e, r, parts, I) BY SelectionHasList
<1>2. PICK J : J = PlacesOf(r, kind) OBVIOUS
<1>3. DOMAIN r = 1 .. Len(e) /\ \A n \in 1 .. Len(e) : r[n] = parts[e[n]] /\ e[n] \in I
  BY <1>1 DEF Selects
<1>4. \A n : n \in J <=> n \in 1 .. Len(e) /\ parts[e[n]].kind = kind BY <1>2, <1>3 DEF PlacesOf
<1>5. \A i \in 1 .. Len(parts) : i \in I => \E n \in 1 .. Len(e) : e[n] = i
  <2>1. PICK H : H = {i \in 1 .. Len(parts) : i \in I} OBVIOUS
  <2>2. Lists(e, H) BY <1>1, <2>1 DEF Selects
  <2>3. \A i \in H : \E n \in 1 .. Len(e) : e[n] = i BY <2>2 DEF Lists
  <2>. QED BY <2>1, <2>3
<1>6. ASSUME NEW i \in 1 .. Len(parts)
      PROVE  i \in K <=> \E n \in 1 .. Len(e) : n \in J /\ e[n] = i
  BY <1>3, <1>4, <1>5
<1>7. ItemsAt(r, J) = ItemsAt(parts, K) BY <1>1, <1>6, ItemsOfItems
<1>. QED BY <1>2, <1>7 DEF Collect

LEMMA CollectConcat ==
  ASSUME NEW s \in Seq(ChatPart), NEW t \in Seq(ChatPart), NEW kind
  PROVE  Collect(s \o t, kind) = Collect(s, kind) \o Collect(t, kind)
<1>1. PICK u : u = s \o t OBVIOUS
<1>2. /\ u \in Seq(ChatPart) /\ Len(u) = Len(s) + Len(t)
      /\ \A n \in 1 .. Len(t) : u[Len(s) + n] = t[n] /\ \A k \in 1 .. Len(s) : u[k] = s[k]
  BY <1>1, OfConcat
<1>3. DOMAIN u = 1 .. Len(u) /\ DOMAIN s = 1 .. Len(s) /\ DOMAIN t = 1 .. Len(t)
        /\ Len(s) \in Nat /\ Len(t) \in Nat
  BY <1>2, LenProperties
<1>4. PICK I, J, K : I = PlacesOf(u, kind) /\ J = PlacesOf(t, kind) /\ K = PlacesOf(s, kind) OBVIOUS
<1>5. \A n \in 1 .. Len(t) : Len(s) + n \in I <=> n \in J BY <1>2, <1>3, <1>4 DEF PlacesOf
<1>6. ItemsAt(u, I) = ItemsAt(s, I) \o ItemsAt(t, J) BY <1>1, <1>5, ItemsAtConcat
<1>7. ItemsAt(s, I) = ItemsAt(s, K)
  <2>1. \A n \in 1 .. Len(s) : u[n] = s[n] BY <1>1, OfConcat
  <2>2. \A n \in 1 .. Len(s) : n \in I <=> n \in K BY <2>1, <1>2, <1>3, <1>4 DEF PlacesOf
  <2>. QED BY <2>2, ItemsAtSame
<1>. QED BY <1>1, <1>4, <1>6, <1>7 DEF Collect

LEMMA CollectNone ==
  ASSUME NEW s \in Seq(ChatPart), NEW kind, \A i \in 1 .. Len(s) : s[i].kind # kind
  PROVE  Collect(s, kind) = << >>
<1>1. \A i \in 1 .. Len(s) : i \notin PlacesOf(s, kind) BY DEF PlacesOf
<1>. QED BY <1>1, ItemsAtNone DEF Collect

LEMMA CollectAll ==
  ASSUME NEW s \in Seq(ChatPart), NEW kind, \A i \in 1 .. Len(s) : s[i].kind = kind
  PROVE  Collect(s, kind) = s
<1>1. \A i \in 1 .. Len(s) : i \in PlacesOf(s, kind) BY LenProperties DEF PlacesOf
<1>. QED BY <1>1, ItemsAtAll DEF Collect

(* Ids are not set on texts.                                               *)
LEMMA TextsUnchanged ==
  ASSUME NEW parts \in Seq(ChatPart), NEW new, NEW places, NEW ids, NEW callIDs,
         HaveIds(new, parts, places, ids, callIDs),
         \A n \in DOMAIN places : parts[places[n]].kind # "text"
  PROVE  Collect(new, "text") = Collect(parts, "text")
<1>1. PICK I : I = PlacesOf(parts, "text") OBVIOUS
<1>2. new \in Seq(ChatPart) /\ Len(new) = Len(parts)
        /\ \A i \in 1 .. Len(parts) : new[i].kind = parts[i].kind
  BY DEF HaveIds
<1>3. DOMAIN new = 1 .. Len(parts) /\ DOMAIN parts = 1 .. Len(parts) BY <1>2, LenProperties
<1>4. PlacesOf(new, "text") = I BY <1>1, <1>2, <1>3 DEF PlacesOf
<1>5. ASSUME NEW i \in 1 .. Len(parts), i \in I PROVE new[i] = parts[i]
  <2>1. parts[i].kind = "text" BY <1>1, <1>5 DEF PlacesOf
  <2>2. \A n \in DOMAIN places : places[n] # i BY <2>1
  <2>. QED BY <2>2 DEF HaveIds
<1>6. ItemsAt(new, I) = ItemsAt(parts, I) BY <1>2, <1>5, ItemsAtAgree
<1>. QED BY <1>1, <1>4, <1>6 DEF Collect

-----------------------------------------------------------------------------
(* What the repair leaves of two turns.                                    *)

(* The calls that stay are those of the pairs.                             *)
LEMMA CallsStay ==
  ASSUME NEW model \in Seq(ChatPart), NEW user \in Seq(ChatPart), NEW pairs, NEW callAt, NEW answerAt,
         NEW ids, NEW newModel, NEW newUser, NEW callIDs, NEW r,
         Matched(pairs, model, user, callAt, answerAt, ids, newModel, newUser, callIDs),
         RepairedAs(r, pairs, model, user, callAt, answerAt, newModel, newUser)
  PROVE  r.calls = ItemsAt(newModel, Stay(model, callAt, pairs))
<1>1. CASE ~AlreadyAligned(Collect(model, "call"), Collect(user, "response"), pairs)
  BY <1>1 DEF RepairedAs
<1>2. CASE AlreadyAligned(Collect(model, "call"), Collect(user, "response"), pairs)
  <2>1. PICK at, items : at = PartIndices(model, "call") /\ items = Collect(model, "call") OBVIOUS
  <2>2. Lists(at, PlacesOf(model, "call")) /\ Len(items) = Len(at) BY <2>1, PlacedFacts
  <2>3. Len(pairs) = Len(at) /\ DOMAIN pairs = 1 .. Len(at) /\ \A n \in DOMAIN pairs : pairs[n] = <<n, n>>
    <3>1. DOMAIN pairs = 1 .. Len(pairs) BY LenProperties DEF Matched, Pairing
    <3>. QED BY <1>2, <2>1, <2>2, <3>1 DEF AlreadyAligned
  <2>4. \A n \in 1 .. Len(at) : callAt[n] = at[n]
    <3>1. \A n \in 1 .. Len(at) : pairs[n][1] = n BY <2>3
    <3>2. \A n \in 1 .. Len(at) : callAt[n] = at[pairs[n][1]] BY <2>1, <2>3 DEF Matched, MatchedAt
    <3>. QED BY <3>1, <3>2
  <2>5. newModel \in Seq(ChatPart) /\ Len(newModel) = Len(model) BY DEF Matched, HaveIds
  <2>6. ASSUME NEW i \in 1 .. Len(newModel) PROVE i \in Stay(model, callAt, pairs)
    <3>1. i \in DOMAIN model BY <2>5, LenProperties
    <3>2. model[i].kind = "call" => \E n \in 1 .. Len(at) : at[n] = i
      BY <2>2, <3>1 DEF Lists, PlacesOf
    <3>. QED BY <2>3, <2>4, <3>1, <3>2 DEF Stay
  <2>7. ItemsAt(newModel, Stay(model, callAt, pairs)) = newModel BY <2>5, <2>6, ItemsAtAll
  <2>. QED BY <1>2, <2>7 DEF RepairedAs
<1>. QED BY <1>1, <1>2

LEMMA CallsAfterwards ==
  ASSUME NEW model \in Seq(ChatPart), NEW user \in Seq(ChatPart), NEW pairs, NEW callAt, NEW answerAt,
         NEW ids, NEW newModel, NEW newUser, NEW callIDs, NEW r,
         Matched(pairs, model, user, callAt, answerAt, ids, newModel, newUser, callIDs),
         RepairedAs(r, pairs, model, user, callAt, answerAt, newModel, newUser)
  PROVE  /\ r.calls \in Seq(ChatPart)
         /\ Len(Collect(r.calls, "call")) = Len(pairs)
         /\ \A n \in 1 .. Len(pairs) : Collect(r.calls, "call")[n] = newModel[callAt[n]]
         /\ Collect(r.calls, "text") = Collect(model, "text")
         /\ \A i \in 1 .. Len(r.calls) : \E k \in 1 .. Len(model) : r.calls[i] = newModel[k]
<1>1. PICK S : S = Stay(model, callAt, pairs) OBVIOUS
<1>2. PICK c : c = r.calls OBVIOUS
<1>3. c = ItemsAt(newModel, S) BY <1>1, <1>2, CallsStay
<1>4. newModel \in Seq(ChatPart) /\ Len(newModel) = Len(model)
        /\ \A i \in 1 .. Len(model) : newModel[i].kind = model[i].kind
  BY DEF Matched, HaveIds
<1>5. DOMAIN model = 1 .. Len(model) BY LenProperties
<1>6. DOMAIN pairs = 1 .. Len(pairs) /\ Len(pairs) \in Nat BY LenProperties DEF Matched, Pairing
<1>7. c \in Seq(ChatPart) BY <1>3, <1>4, ItemsAtType
<1>8. ASSUME NEW i \in 1 .. Len(c) PROVE \E k \in 1 .. Len(model) : c[i] = newModel[k]
  <2>1. PICK e : Selects(e, c, newModel, S) BY <1>3, <1>4, SelectionHasList
  <2>. QED BY <2>1, <1>4 DEF Selects
<1>9. ASSUME NEW n \in 1 .. Len(pairs)
      PROVE  callAt[n] \in 1 .. Len(model) /\ model[callAt[n]].kind = "call"
  BY DEF Matched, MatchedAt, OncePerPlace
<1>10. Collect(c, "text") = Collect(model, "text")
  <2>1. Collect(newModel, "text") = Collect(model, "text")
    <3>1. HaveIds(newModel, model, callAt, ids, callIDs) /\ DOMAIN callAt = 1 .. Len(pairs)
      BY DEF Matched, OncePerPlace
    <3>2. \A n \in DOMAIN callAt : model[callAt[n]].kind # "text" BY <3>1, <1>9
    <3>. QED BY <3>1, <3>2, TextsUnchanged
  <2>2. PICK T : T = PlacesOf(newModel, "text") OBVIOUS
  <2>3. ASSUME NEW i \in 1 .. Len(newModel) PROVE i \in T <=> i \in S /\ newModel[i].kind = "text"
    BY <1>1, <1>4, <1>5, <2>2, LenProperties DEF Stay, PlacesOf
  <2>4. Collect(c, "text") = ItemsAt(newModel, T) BY <1>3, <1>4, <2>3, CollectOfItems
  <2>. QED BY <2>1, <2>2, <2>4 DEF Collect
<1>11. PICK K : K = {callAt[n] : n \in 1 .. Len(pairs)} OBVIOUS
<1>12. PICK q : q = Collect(c, "call") OBVIOUS
<1>13. q = ItemsAt(newModel, K)
  <2>1. ASSUME NEW i \in 1 .. Len(newModel) PROVE i \in K <=> i \in S /\ newModel[i].kind = "call"
    <3>1. i \in S <=> (model[i].kind = "call" => \E n \in 1 .. Len(pairs) : callAt[n] = i)
      BY <1>1, <1>4, <1>5, <1>6 DEF Stay
    <3>2. i \in K <=> \E n \in 1 .. Len(pairs) : callAt[n] = i BY <1>11
    <3>3. newModel[i].kind = model[i].kind BY <1>4
    <3>. QED BY <3>1, <3>2, <3>3, <1>9
  <2>. QED BY <1>3, <1>4, <1>12, <2>1, CollectOfItems
<1>14. PICK H : H = {i \in 1 .. Len(newModel) : i \in K} OBVIOUS
<1>15. Lists(callAt, H)
  <2>1. callAt \in Seq(Nat) /\ Len(callAt) = Len(pairs)
    <3>1. callAt \in [1 .. Len(pairs) -> 1 .. Len(model)] BY DEF Matched, OncePerPlace
    <3>2. 1 .. Len(model) \subseteq Nat BY LenProperties
    <3>. QED BY <3>1, <3>2, <1>6
  <2>2. H = {callAt[n] : n \in 1 .. Len(pairs)}
    <3>1. \A i : i \in H <=> i \in K BY <1>4, <1>9, <1>11, <1>14
    <3>. QED BY <3>1, <1>11
  <2>3. \A m, n \in 1 .. Len(pairs) : m < n => callAt[m] < callAt[n] BY DEF Matched
  <2>. QED BY <2>1, <2>2, <2>3 DEF Lists
<1>16. Selects(callAt, q, newModel, K) BY <1>4, <1>13, <1>14, <1>15, ListSelects
<1>17. Len(callAt) = Len(pairs)
  <2>1. DOMAIN callAt = 1 .. Len(pairs) BY DEF Matched, OncePerPlace
  <2>. QED BY <2>1, <1>6, <1>15, LenProperties DEF Lists
<1>18. Len(q) = Len(pairs) /\ \A n \in 1 .. Len(pairs) : q[n] = newModel[callAt[n]]
  BY <1>16, <1>17 DEF Selects
<1>. QED BY <1>2, <1>7, <1>8, <1>10, <1>12, <1>18

(* The responses that stay are those of the pairs, in their order.         *)
LEMMA ResponsesAfterwards ==
  ASSUME NEW model \in Seq(ChatPart), NEW user \in Seq(ChatPart), NEW pairs, NEW callAt, NEW answerAt,
         NEW ids, NEW newModel, NEW newUser, NEW callIDs, NEW r,
         Matched(pairs, model, user, callAt, answerAt, ids, newModel, newUser, callIDs),
         RepairedAs(r, pairs, model, user, callAt, answerAt, newModel, newUser)
  PROVE  /\ r.responses \in Seq(ChatPart)
         /\ Len(Collect(r.responses, "response")) = Len(pairs)
         /\ \A n \in 1 .. Len(pairs) : Collect(r.responses, "response")[n] = newUser[answerAt[n]]
         /\ Collect(r.responses, "text") = Collect(user, "text")
         /\ \A i \in 1 .. Len(r.responses) : \E k \in 1 .. Len(user) : r.responses[i] = newUser[k]
<1>1. PICK c : c = r.responses OBVIOUS
<1>2. newUser \in Seq(ChatPart) /\ Len(newUser) = Len(user) /\ Len(user) \in Nat
        /\ \A i \in 1 .. Len(user) : newUser[i].kind = user[i].kind
  BY LenProperties DEF Matched, HaveIds
<1>3. DOMAIN user = 1 .. Len(user) /\ DOMAIN newUser = 1 .. Len(user) BY <1>2, LenProperties
<1>4. DOMAIN pairs = 1 .. Len(pairs) /\ Len(pairs) \in Nat BY LenProperties DEF Matched, Pairing
<1>5. ASSUME NEW n \in 1 .. Len(pairs)
      PROVE  answerAt[n] \in 1 .. Len(user) /\ user[answerAt[n]].kind = "response"
  BY DEF Matched, MatchedAt, OncePerPlace
<1>6. Collect(newUser, "text") = Collect(user, "text")
  <2>1. HaveIds(newUser, user, answerAt, ids, callIDs) /\ DOMAIN answerAt = 1 .. Len(pairs)
    BY DEF Matched, OncePerPlace
  <2>2. \A n \in DOMAIN answerAt : user[answerAt[n]].kind # "text" BY <2>1, <1>5
  <2>. QED BY <2>1, <2>2, TextsUnchanged
<1>7. PICK places : places = PlacesOf(user, "response") OBVIOUS
<1>8. PlacesOf(newUser, "response") = places BY <1>2, <1>3, <1>7 DEF PlacesOf
<1>9. CASE AlreadyAligned(Collect(model, "call"), Collect(user, "response"), pairs)
  <2>1. PICK to, items : to = PartIndices(user, "response") /\ items = Collect(user, "response") OBVIOUS
  <2>2. Lists(to, places) /\ Len(items) = Len(to) BY <1>7, <2>1, PlacedFacts
  <2>3. Len(pairs) = Len(to) /\ \A n \in 1 .. Len(to) : pairs[n] = <<n, n>>
    BY <1>4, <1>9, <2>1, <2>2 DEF AlreadyAligned
  <2>4. \A n \in 1 .. Len(to) : answerAt[n] = to[n]
    <3>1. \A n \in 1 .. Len(to) : pairs[n][2] = n BY <2>3
    <3>2. \A n \in 1 .. Len(to) : answerAt[n] = to[pairs[n][2]] BY <2>1, <2>3 DEF Matched, MatchedAt
    <3>. QED BY <3>1, <3>2
  <2>5. c = newUser BY <1>1, <1>9 DEF RepairedAs
  <2>6. PICK q : q = Collect(newUser, "response") OBVIOUS
  <2>7. q = ItemsAt(newUser, places) BY <1>8, <2>6 DEF Collect
  <2>8. PICK H : H = {i \in 1 .. Len(newUser) : i \in places} OBVIOUS
  <2>9. H = places
    <3>1. \A i : i \in H <=> i \in places BY <1>2, <1>3, <1>7, <2>8 DEF PlacesOf
    <3>. QED BY <3>1
  <2>10. Selects(to, q, newUser, places) BY <1>2, <2>2, <2>7, <2>8, <2>9, ListSelects
  <2>11. Len(q) = Len(pairs) /\ \A n \in 1 .. Len(pairs) : q[n] = newUser[answerAt[n]]
    BY <2>3, <2>4, <2>10 DEF Selects
  <2>12. \A i \in 1 .. Len(newUser) : \E k \in 1 .. Len(user) : newUser[i] = newUser[k]
    BY <1>2
  <2>. QED BY <1>1, <1>2, <1>6, <2>5, <2>6, <2>11, <2>12
<1>10. CASE ~AlreadyAligned(Collect(model, "call"), Collect(user, "response"), pairs)
  <2>1. PICK rest, moved : rest = ItemsAt(newUser, DOMAIN user \ places) /\ moved = Moved(newUser, answerAt, pairs)
    OBVIOUS
  <2>2. c = rest \o moved BY <1>1, <1>7, <1>10, <2>1 DEF RepairedAs
  <2>3. PICK others : others = DOMAIN user \ places OBVIOUS
  <2>4. \A i \in 1 .. Len(user) : i \in others <=> user[i].kind # "response"
    BY <1>3, <1>7, <2>3 DEF PlacesOf
  <2>5. rest = ItemsAt(newUser, others) BY <2>1, <2>3
  <2>6. rest \in Seq(ChatPart) BY <1>2, <2>5, ItemsAtType
  <2>7. moved = [n \in 1 .. Len(pairs) |-> newUser[answerAt[n]]] BY <1>4, <2>1 DEF Moved
  <2>8. \A n \in 1 .. Len(pairs) : newUser[answerAt[n]] \in ChatPart BY <1>2, <1>3, <1>5, LenProperties
  <2>9. moved \in Seq(ChatPart) /\ Len(moved) = Len(pairs)
          /\ \A n \in 1 .. Len(pairs) : moved[n] = newUser[answerAt[n]]
    BY <1>4, <2>7, <2>8
  <2>10. \A n \in 1 .. Len(moved) : moved[n].kind = "response" BY <1>2, <1>5, <2>9
  <2>11. c \in Seq(ChatPart) BY <2>2, <2>6, <2>9, ConcatProperties
  <2>12. PICK e : Selects(e, rest, newUser, others) BY <1>2, <2>5, SelectionHasList
  <2>13. Len(rest) = Len(e) /\ \A n \in 1 .. Len(rest) :
            e[n] \in 1 .. Len(user) /\ e[n] \in others /\ rest[n] = newUser[e[n]]
    BY <2>12, <1>2 DEF Selects
  <2>14. \A n \in 1 .. Len(rest) : rest[n].kind # "response" BY <2>13, <2>4, <1>2
  <2>15. Collect(c, "response") = moved
    <3>1. Collect(rest, "response") = << >> BY <2>6, <2>14, CollectNone
    <3>2. Collect(moved, "response") = moved BY <2>9, <2>10, CollectAll
    <3>3. Collect(c, "response") = Collect(rest, "response") \o Collect(moved, "response")
      BY <2>2, <2>6, <2>9, CollectConcat
    <3>4. << >> \o moved = moved BY <2>9, ConcatEmptySeq
    <3>. QED BY <3>1, <3>2, <3>3, <3>4
  <2>16. Collect(c, "text") = Collect(user, "text")
    <3>1. Collect(moved, "text") = << >>
      <4>1. \A n \in 1 .. Len(moved) : moved[n].kind # "text" BY <2>10
      <4>. QED BY <4>1, <2>9, CollectNone
    <3>2. PICK T : T = PlacesOf(newUser, "text") OBVIOUS
    <3>3. \A i \in 1 .. Len(newUser) : i \in T <=> i \in others /\ newUser[i].kind = "text"
      BY <1>2, <1>3, <2>4, <3>2 DEF PlacesOf
    <3>4. Collect(rest, "text") = ItemsAt(newUser, T) BY <1>2, <2>5, <3>3, CollectOfItems
    <3>5. PICK p : p = Collect(rest, "text") OBVIOUS
    <3>6. p = Collect(user, "text") BY <1>6, <3>2, <3>4, <3>5 DEF Collect
    <3>7. p \in Seq(ChatPart) BY <1>2, <3>4, <3>5, ItemsAtType
    <3>8. p \o << >> = p BY <3>7, ConcatEmptySeq
    <3>9. Collect(c, "text") = p \o Collect(moved, "text") BY <2>2, <2>6, <2>9, <3>5, CollectConcat
    <3>. QED BY <3>1, <3>6, <3>8, <3>9
  <2>17. ASSUME NEW i \in 1 .. Len(c) PROVE \E k \in 1 .. Len(user) : c[i] = newUser[k]
    <3>1. /\ Len(c) = Len(rest) + Len(moved)
          /\ \A n \in 1 .. Len(rest) : c[n] = rest[n]
          /\ \A n \in 1 .. Len(moved) : c[Len(rest) + n] = moved[n]
      <4>1. moved \in Seq(ChatPart) BY <2>9
      <4>. QED BY <2>2, <2>6, <4>1, OfConcat
    <3>2. Len(rest) \in Nat /\ Len(moved) \in Nat BY <2>6, <2>9, LenProperties
    <3>3. CASE i <= Len(rest)
      <4>1. i \in 1 .. Len(rest) BY <3>3, <3>2
      <4>. QED BY <4>1, <3>1, <2>13
    <3>4. CASE ~ (i <= Len(rest))
      <4>1. PICK n : n = i - Len(rest) OBVIOUS
      <4>2. n \in 1 .. Len(moved) /\ i = Len(rest) + n BY <4>1, <3>1, <3>2, <3>4
      <4>3. c[i] = moved[n] BY <4>2, <3>1
      <4>. QED BY <4>2, <4>3, <2>9, <1>5
    <3>. QED BY <3>3, <3>4
  <2>. QED BY <1>1, <2>9, <2>11, <2>15, <2>16, <2>17
<1>. QED BY <1>9, <1>10

-----------------------------------------------------------------------------
(* The repair of all turns.                                                *)
ChatTurn == [role : {"model", "user"}, parts : Seq(ChatPart)]
Turns == Seq(ChatTurn)

LEMMA TurnFacts ==
  ASSUME NEW contents \in Turns
  PROVE  /\ DOMAIN contents = 1 .. Len(contents) /\ Len(contents) \in Nat
         /\ \A t \in DOMAIN contents : contents[t].parts \in Seq(ChatPart) /\ contents[t].role \in {"model", "user"}
<1>1. DOMAIN contents = 1 .. Len(contents) /\ Len(contents) \in Nat
  BY LenProperties DEF Turns
<1>2. ASSUME NEW t \in DOMAIN contents
      PROVE  contents[t].parts \in Seq(ChatPart) /\ contents[t].role \in {"model", "user"}
  <2>1. PICK turn : turn = contents[t] OBVIOUS
  <2>2. turn \in ChatTurn BY <1>1, <2>1, ElementOfSeq DEF Turns
  <2>. QED BY <2>1, <2>2 DEF ChatTurn
<1>. QED BY <1>1, <1>2

LEMMA RepairedTurns ==
  ASSUME NEW contents \in Turns, NEW callIDs, NEW repaired, repaired = RepairTurns(contents, callIDs),
         NEW t \in DOMAIN contents
  PROVE  /\ DOMAIN repaired = DOMAIN contents
         /\ repaired[t].role = contents[t].role
         /\ IsCallTurn(contents, t) =>
              /\ t + 1 \in DOMAIN contents
              /\ repaired[t].parts = Repaired(contents, t, callIDs).calls
              /\ repaired[t + 1].parts = Repaired(contents, t, callIDs).responses
         /\ ~IsCallTurn(contents, t) /\ ~IsCallTurn(contents, t - 1) => repaired[t].parts = contents[t].parts
<1>. DEFINE new(u) == CASE IsCallTurn(contents, u) -> Repaired(contents, u, callIDs).calls
                        [] IsCallTurn(contents, u - 1) -> Repaired(contents, u - 1, callIDs).responses
                        [] OTHER -> contents[u].parts
<1>1. DOMAIN contents = 1 .. Len(contents) /\ Len(contents) \in Nat BY TurnFacts
<1>2. DOMAIN repaired = DOMAIN contents BY DEF RepairTurns
<1>3. ASSUME NEW u \in DOMAIN contents
      PROVE  repaired[u].role = contents[u].role /\ repaired[u].parts = new(u)
  <2>1. PICK turn, parts : turn = contents[u] /\ parts = new(u) OBVIOUS
  <2>2. repaired[u] = [turn EXCEPT !.parts = parts] BY <2>1 DEF RepairTurns
  <2>3. turn \in ChatTurn BY <1>1, <2>1, ElementOfSeq DEF Turns
  <2>. HIDE DEF new
  <2>. QED BY <2>1, <2>2, <2>3 DEF ChatTurn
<1>4. ASSUME IsCallTurn(contents, t)
      PROVE  /\ t + 1 \in DOMAIN contents
             /\ repaired[t].parts = Repaired(contents, t, callIDs).calls
             /\ repaired[t + 1].parts = Repaired(contents, t, callIDs).responses
  <2>1. t + 1 \in DOMAIN contents /\ (t + 1) - 1 = t BY <1>1, <1>4 DEF IsCallTurn
  <2>2. ~IsCallTurn(contents, t + 1) BY <1>4 DEF IsCallTurn
  <2>0. ~IsCallTurn(contents, t - 1)
    <3>1. (t - 1) + 1 = t BY <1>1
    <3>. QED BY <1>4, <3>1 DEF IsCallTurn
  <2>3. new(t) = Repaired(contents, t, callIDs).calls BY <1>4, <2>0
  <2>4. new(t + 1) = Repaired(contents, t, callIDs).responses BY <1>4, <2>1, <2>2
  <2>. HIDE DEF new
  <2>. QED BY <2>1, <2>3, <2>4, <1>3
<1>5. ASSUME ~IsCallTurn(contents, t), ~IsCallTurn(contents, t - 1) PROVE repaired[t].parts = contents[t].parts
  <2>1. new(t) = contents[t].parts BY <1>5
  <2>. HIDE DEF new
  <2>. QED BY <2>1, <1>3
<1>. QED BY <1>2, <1>3, <1>4, <1>5

(* The two turns of a match, before and after.                             *)
LEMMA CallTurnRepaired ==
  ASSUME NEW contents \in Turns, NEW callIDs \in BOOLEAN,
         NEW repaired, repaired = RepairTurns(contents, callIDs),
         NEW t \in DOMAIN contents, IsCallTurn(contents, t),
         NEW model, model = contents[t].parts, NEW user, user = contents[t + 1].parts,
         NEW r, r = Repaired(contents, t, callIDs)
  PROVE  /\ model \in Seq(ChatPart) /\ user \in Seq(ChatPart)
         /\ repaired[t].parts = r.calls /\ repaired[t + 1].parts = r.responses
         /\ \E pairs, callAt, answerAt, ids, newModel, newUser :
              /\ Matched(pairs, model, user, callAt, answerAt, ids, newModel, newUser, callIDs)
              /\ RepairedAs(r, pairs, model, user, callAt, answerAt, newModel, newUser)
<1>1. t \in Nat BY TurnFacts
<1>2. t + 1 \in DOMAIN contents /\ repaired[t].parts = r.calls /\ repaired[t + 1].parts = r.responses
  BY RepairedTurns
<1>3. model \in Seq(ChatPart) /\ user \in Seq(ChatPart) BY <1>2, TurnFacts
<1>4. \E pairs, callAt, answerAt, ids, newModel, newUser :
           /\ Matched(pairs, model, user, callAt, answerAt, ids, newModel, newUser, callIDs)
           /\ RepairedAs(r, pairs, model, user, callAt, answerAt, newModel, newUser)
  BY <1>1, <1>3, RepairedIsMatched
<1>. QED BY <1>2, <1>3, <1>4

AnswersWithIds(response, call, callIDs) ==
  Answers(response, call) /\ (callIDs => call.id # "" /\ response.id = call.id)

Promised(callIDs) == callIDs => IdsAreGenerated

LEMMA MatchedPartsAnswer ==
  ASSUME NEW pairs, NEW model, NEW user, NEW callAt, NEW answerAt, NEW ids, NEW newModel,
         NEW newUser, NEW callIDs \in BOOLEAN, NEW n \in 1 .. Len(pairs),
         Matched(pairs, model, user, callAt, answerAt, ids, newModel, newUser, callIDs),
         NEW call, call = newModel[callAt[n]], NEW response, response = newUser[answerAt[n]],
         Promised(callIDs)
  PROVE  AnswersWithIds(response, call, callIDs)
<1>1. MatchedAt(n, pairs, model, user, callAt, answerAt, ids) BY DEF Matched
<1>2. n \in DOMAIN callAt /\ n \in DOMAIN answerAt BY DEF Matched, OncePerPlace
<1>3. PICK c, a : c = model[callAt[n]] /\ a = user[answerAt[n]] OBVIOUS
<1>4. call.name = c.name /\ call.id = (IF callIDs THEN ids[n] ELSE c.id)
  BY <1>2, <1>3 DEF Matched, HaveIds
<1>5. response.name = a.name /\ response.id = (IF callIDs THEN ids[n] ELSE a.id)
  BY <1>2, <1>3 DEF Matched, HaveIds
<1>6. Answers(a, c) /\ (IdsAreGenerated => ids[n] # "") BY <1>1, <1>3 DEF MatchedAt
<1>. QED BY <1>4, <1>5, <1>6 DEF Answers, AnswersWithIds, Promised

LEMMA PairsMatchAfterwards ==
  ASSUME NEW contents \in Turns, NEW kind, NEW callIDs \in BOOLEAN, callIDs = kind.callIDs,
         NEW repaired, repaired = RepairTurns(contents, callIDs), Promised(callIDs)
  PROVE  PairsMatch(kind, contents, repaired)
<1>. DEFINE callsOf(t) == Collect(repaired[t].parts, "call")
            responsesOf(t) == Collect(repaired[t + 1].parts, "response")
<1>1. ASSUME NEW t \in DOMAIN contents, IsCallTurn(contents, t)
      PROVE  /\ Len(callsOf(t)) = Len(responsesOf(t))
             /\ \A n \in DOMAIN callsOf(t) :
                  /\ Answers(responsesOf(t)[n], callsOf(t)[n])
                  /\ callIDs => callsOf(t)[n].id # "" /\ responsesOf(t)[n].id = callsOf(t)[n].id
  <2>0. PICK calls, responses : calls = callsOf(t) /\ responses = responsesOf(t) OBVIOUS
  <2>1. PICK model, user, r :
          /\ model = contents[t].parts /\ user = contents[t + 1].parts
          /\ r = Repaired(contents, t, callIDs)
    OBVIOUS
  <2>3. /\ model \in Seq(ChatPart) /\ user \in Seq(ChatPart)
        /\ repaired[t].parts = r.calls /\ repaired[t + 1].parts = r.responses
    BY <1>1, <2>1, CallTurnRepaired
  <2>4. PICK pairs, callAt, answerAt, ids, newModel, newUser :
          /\ Matched(pairs, model, user, callAt, answerAt, ids, newModel, newUser, callIDs)
          /\ RepairedAs(r, pairs, model, user, callAt, answerAt, newModel, newUser)
    BY <1>1, <2>1, CallTurnRepaired
  <2>5. /\ r.calls \in Seq(ChatPart) /\ Len(calls) = Len(pairs)
        /\ \A n \in 1 .. Len(pairs) : calls[n] = newModel[callAt[n]]
    BY <2>0, <2>3, <2>4, CallsAfterwards
  <2>6. /\ Len(responses) = Len(pairs)
        /\ \A n \in 1 .. Len(pairs) : responses[n] = newUser[answerAt[n]]
    BY <2>0, <2>3, <2>4, ResponsesAfterwards
  <2>7. DOMAIN calls = 1 .. Len(pairs)
    <3>1. calls \in Seq(ChatPart) BY <2>0, <2>3, <2>5, PlacedFacts
    <3>. QED BY <3>1, <2>5, LenProperties
  <2>8. ASSUME NEW n \in 1 .. Len(pairs)
        PROVE  /\ Answers(responses[n], calls[n])
               /\ callIDs => calls[n].id # "" /\ responses[n].id = calls[n].id
    <3>1. PICK call, response : call = newModel[callAt[n]] /\ response = newUser[answerAt[n]] OBVIOUS
    <3>2. AnswersWithIds(response, call, callIDs)
      BY <2>4, <3>1, MatchedPartsAnswer
    <3>. QED BY <3>1, <3>2, <2>5, <2>6 DEF AnswersWithIds
  <2>. QED BY <2>0, <2>1, <2>5, <2>6, <2>7, <2>8
<1>. QED BY <1>1 DEF PairsMatch

-----------------------------------------------------------------------------
(* The turns that are made of the messages.                                *)
ChatCall == [id : ChatNames, name : ChatNames]

LEMMA MessageFacts ==
  ASSUME NEW messages \in Seq(ChatMessages), NEW k \in 1 .. Len(messages)
  PROVE  /\ messages[k].calls \in Seq(ChatCall) /\ messages[k].id \in ChatNames
         /\ messages[k].name \in ChatNames /\ messages[k].text \in {"none", "blank", "text"}
<1>. DEFINE Given == [id : STRING, name : STRING]
<1>1. PICK m : m = messages[k] OBVIOUS
<1>2. m \in ChatMessages BY <1>1, ElementOfSeq
<1>3. m.id \in STRING /\ m.name \in STRING /\ m.text \in {"none", "blank", "text"}
  BY <1>2 DEF ChatMessages
<1>4. m.calls \in Seq(Given) BY <1>2 DEF ChatMessages
<1>5. Given \subseteq ChatCall
  <2>1. STRING \subseteq ChatNames BY DEF ChatNames
  <2>. QED BY <2>1 DEF ChatCall
<1>6. m.calls \in Seq(ChatCall)
  <2>. HIDE DEF Given
  <2>. QED BY <1>4, <1>5, SeqMonotonic
<1>. QED BY <1>1, <1>3, <1>6 DEF ChatNames

LEMMA CallsInType ==
  ASSUME NEW messages \in Seq(ChatMessages) PROVE CallsIn(messages) \in Seq(ChatCall)
<1>1. PICK lists : lists = [k \in DOMAIN messages |-> messages[k].calls] OBVIOUS
<1>2. DOMAIN messages = 1 .. Len(messages) /\ Len(messages) \in Nat BY LenProperties
<1>3. \A k \in 1 .. Len(messages) : messages[k].calls \in Seq(ChatCall) BY MessageFacts
<1>4. lists \in Seq(Seq(ChatCall)) BY <1>1, <1>2, <1>3
<1>. QED BY <1>1, <1>4, FlattenType DEF CallsIn

LEMMA LastNameType ==
  ASSUME NEW calls \in Seq(ChatCall), NEW places, \A i \in places : i \in DOMAIN calls,
         NEW otherwise \in ChatNames
  PROVE  LastNameOr(calls, places, otherwise) \in ChatNames
<1>1. CASE places = {} BY <1>1 DEF LastNameOr
<1>2. CASE places # {}
  <2>1. DOMAIN calls = 1 .. Len(calls) /\ Len(calls) \in Nat BY LenProperties
  <2>2. places \in SUBSET (1 .. Len(calls)) BY <2>1
  <2>3. PICK m \in places : \A i \in places : i <= m BY <1>2, <2>1, <2>2, GreatestBelow
  <2>4. Max(places) = m
    <3>1. places \in SUBSET Nat BY <2>1
    <3>. QED BY <3>1, <2>3, MaxIsGreatest
  <2>5. calls[m] \in ChatCall BY <2>1, ElementOfSeq
  <2>. QED BY <1>2, <2>4, <2>5 DEF LastNameOr, ChatCall
<1>. QED BY <1>1, <1>2

LEMMA ResultNameType ==
  ASSUME NEW messages \in Seq(ChatMessages), NEW k \in 1 .. Len(messages)
  PROVE  ResultName(messages, k) \in ChatNames
<1>1. Len(messages) \in Nat BY LenProperties
<1>2. SubSeq(messages, 1, k - 1) \in Seq(ChatMessages)
  <2>1. k - 1 \in 0 .. Len(messages) BY <1>1
  <2>2. ASSUME NEW j \in 0 .. Len(messages) PROVE SubSeq(messages, 1, j) \in Seq(ChatMessages)
    BY BeginningIsPrefix
  <2>. QED BY <2>1, <2>2
<1>3. PICK before, all : before = CallsIn(SubSeq(messages, 1, k - 1)) /\ all = CallsIn(messages) OBVIOUS
<1>4. before \in Seq(ChatCall) /\ all \in Seq(ChatCall) BY <1>2, <1>3, CallsInType
<1>5. "" \in ChatNames BY DEF ChatNames
<1>6. ASSUME NEW id PROVE ToolCallName(messages, k, id) \in ChatNames
  <2>1. PICK named : named = {i \in DOMAIN all : all[i].id = id /\ all[i].name # ""} OBVIOUS
  <2>2. PICK other : other = LastNameOr(all, named, "") OBVIOUS
  <2>3. \A i \in named : i \in DOMAIN all BY <2>1
  <2>4. other \in ChatNames BY <1>4, <1>5, <2>2, <2>3, LastNameType
  <2>5. PICK called : called = {i \in DOMAIN before : before[i].id = id} OBVIOUS
  <2>6. \A i \in called : i \in DOMAIN before BY <2>5
  <2>7. LastNameOr(before, called, other) \in ChatNames BY <1>4, <2>4, <2>6, LastNameType
  <2>. QED BY <1>3, <2>1, <2>2, <2>5, <2>7 DEF ToolCallName
<1>7. LastModelFunctionName(messages, k) \in ChatNames
  <2>1. PICK places : places = {i \in DOMAIN before : before[i].name # ""} OBVIOUS
  <2>2. \A i \in places : i \in DOMAIN before BY <2>1
  <2>3. LastNameOr(before, places, "") \in ChatNames BY <1>4, <1>5, <2>2, LastNameType
  <2>. QED BY <1>3, <2>1, <2>3 DEF LastModelFunctionName
<1>8. messages[k].name \in ChatNames /\ messages[k].id \in ChatNames BY MessageFacts
<1>9. ToolCallName(messages, k, messages[k].id) \in ChatNames BY <1>6
<1>. QED BY <1>7, <1>8, <1>9 DEF ResultName

(* The parts of a message come from it, and only the first can be a text.  *)
PartsOfMessage(parts, k) ==
  /\ parts \in Seq(ChatPart)
  /\ \A i \in 1 .. Len(parts) : parts[i].from = k /\ (i # 1 => parts[i].kind # "text")

IsPart(part, kind, from) == part \in ChatPart /\ part.kind = kind /\ part.from = from

LEMMA PartType ==
  ASSUME NEW kind \in ChatKinds, NEW from \in Nat, NEW id \in ChatNames, NEW name \in ChatNames
  PROVE  IsPart(Part(kind, from, id, name), kind, from)
<1>1. id \in ChatIds BY DEF ChatIds
<1>. QED BY <1>1 DEF IsPart, Part, ChatPart

LEMMA MessagePartsFacts ==
  ASSUME NEW messages \in Seq(ChatMessages), NEW k \in 1 .. Len(messages)
  PROVE  PartsOfMessage(MessageParts(messages, k), k)
<1>1. PICK m, name : m = messages[k] /\ name = ResultName(messages, k) OBVIOUS
<1>2. /\ m.calls \in Seq(ChatCall) /\ m.id \in ChatNames /\ m.text \in {"none", "blank", "text"} /\ k \in Nat
      /\ name \in ChatNames /\ "" \in ChatNames
      /\ "text" \in ChatKinds /\ "call" \in ChatKinds /\ "response" \in ChatKinds
      /\ m.text # "none" => m.text \in ChatKinds
  <2>1. name \in ChatNames BY <1>1, ResultNameType
  <2>2. "" \in ChatNames BY DEF ChatNames
  <2>3. k \in Nat BY LenProperties
  <2>4. m.text \in {"none", "blank", "text"} BY <1>1, MessageFacts
  <2>5. "text" \in ChatKinds /\ "call" \in ChatKinds /\ "response" \in ChatKinds BY DEF ChatKinds
  <2>6. m.text # "none" => m.text \in ChatKinds BY <2>4 DEF ChatKinds
  <2>. QED BY <2>1, <2>2, <2>3, <2>4, <2>5, <2>6, <1>1, MessageFacts
<1>3. ASSUME NEW part \in ChatPart, part.from = k PROVE PartsOfMessage(<< part >>, k)
  <2>1. PICK s : s = << part >> OBVIOUS
  <2>2. s \in Seq(ChatPart) /\ Len(s) = 1 /\ s[1] = part BY <2>1
  <2>. QED BY <1>3, <2>1, <2>2 DEF PartsOfMessage
<1>4. PartsOfMessage(<< >>, k)
  <2>1. << >> \in Seq(ChatPart) /\ Len(<< >>) = 0 BY EmptySeq
  <2>. QED BY <2>1 DEF PartsOfMessage
<1>5. PICK text : text = IF m.text = "none" THEN << >> ELSE << Part(m.text, k, "", "") >> OBVIOUS
<1>6. PICK calls : calls = [j \in DOMAIN m.calls |-> Part("call", k, m.calls[j].id, m.calls[j].name)]
  OBVIOUS
<1>7. \/ MessageParts(messages, k) = << >>
      \/ MessageParts(messages, k) = << Part("text", k, "", "") >>
      \/ MessageParts(messages, k) = << Part("response", k, m.id, name) >>
      \/ MessageParts(messages, k) = text \o calls
  BY <1>1, <1>5, <1>6 DEF MessageParts
<1>8. PartsOfMessage(<< Part("text", k, "", "") >>, k)
  <2>0. IsPart(Part("text", k, "", ""), "text", k) BY <1>2, PartType
  <2>1. Part("text", k, "", "") \in ChatPart /\ Part("text", k, "", "").from = k BY <2>0 DEF IsPart
  <2>. QED BY <2>1, <1>3
<1>9. PartsOfMessage(<< Part("response", k, m.id, name) >>, k)
  <2>1. Part("response", k, m.id, name) \in ChatPart /\ Part("response", k, m.id, name).from = k
    <3>1. IsPart(Part("response", k, m.id, name), "response", k) BY <1>2, PartType
    <3>. QED BY <3>1 DEF IsPart
  <2>. QED BY <2>1, <1>3
<1>10. PartsOfMessage(text, k) /\ Len(text) \in {0, 1}
  <2>1. CASE m.text = "none"
    <3>1. text = << >> BY <1>5, <2>1
    <3>. QED BY <3>1, <1>4, EmptySeq
  <2>2. CASE m.text # "none"
    <3>1. PICK part : part = Part(m.text, k, "", "") OBVIOUS
    <3>0. PICK kind : kind = m.text OBVIOUS
    <3>9. kind \in ChatKinds BY <1>2, <2>2, <3>0
    <3>8. IsPart(Part(kind, k, "", ""), kind, k) BY <3>9, <1>2, PartType
    <3>2. part \in ChatPart /\ part.from = k BY <3>0, <3>1, <3>8 DEF IsPart
    <3>3. text = << part >> BY <1>5, <2>2, <3>1
    <3>4. PartsOfMessage(text, k) BY <1>3, <3>2, <3>3
    <3>5. Len(text) = 1 BY <3>3
    <3>. QED BY <3>4, <3>5
  <2>. QED BY <2>1, <2>2
<1>11. /\ calls \in Seq(ChatPart)
       /\ \A j \in 1 .. Len(calls) : calls[j].from = k /\ calls[j].kind = "call"
  <2>1. PICK given : given = m.calls OBVIOUS
  <2>2. given \in Seq(ChatCall) /\ DOMAIN given = 1 .. Len(given) /\ Len(given) \in Nat
    BY <1>2, <2>1, LenProperties
  <2>3. ASSUME NEW j \in 1 .. Len(given)
        PROVE  /\ Part("call", k, given[j].id, given[j].name) \in ChatPart
               /\ Part("call", k, given[j].id, given[j].name).from = k
               /\ Part("call", k, given[j].id, given[j].name).kind = "call"
    <3>1. PICK c : c = given[j] OBVIOUS
    <3>2. c \in ChatCall BY <2>2, <3>1, ElementOfSeq
    <3>3. c.id \in ChatNames /\ c.name \in ChatNames BY <3>2 DEF ChatCall
    <3>4. PICK id, called : id = c.id /\ called = c.name OBVIOUS
    <3>5. IsPart(Part("call", k, id, called), "call", k) BY <3>3, <3>4, <1>2, PartType
    <3>. QED BY <3>1, <3>4, <3>5 DEF IsPart
  <2>4. calls = [j \in 1 .. Len(given) |-> Part("call", k, given[j].id, given[j].name)]
    BY <1>6, <2>1, <2>2
  <2>5. calls \in [1 .. Len(given) -> ChatPart] BY <2>3, <2>4
  <2>6. calls \in Seq(ChatPart) /\ Len(calls) = Len(given) BY <2>2, <2>5
  <2>. QED BY <2>3, <2>4, <2>6
<1>12. PartsOfMessage(text \o calls, k)
  <2>1. PICK p : p = text \o calls OBVIOUS
  <2>2. text \in Seq(ChatPart) /\ Len(calls) \in Nat BY <1>10, <1>11, LenProperties DEF PartsOfMessage
  <2>3. /\ p \in Seq(ChatPart) /\ Len(p) = Len(text) + Len(calls)
        /\ \A n \in 1 .. Len(text) : p[n] = text[n]
        /\ \A n \in 1 .. Len(calls) : p[Len(text) + n] = calls[n]
    <3>1. calls \in Seq(ChatPart) BY <1>11
    <3>. QED BY <2>1, <2>2, <3>1, OfConcat
  <2>4. ASSUME NEW i \in 1 .. Len(p) PROVE p[i].from = k /\ (i # 1 => p[i].kind # "text")
    <3>1. CASE i \in 1 .. Len(text) BY <3>1, <1>10, <2>3 DEF PartsOfMessage
    <3>2. CASE i \notin 1 .. Len(text)
      <4>1. PICK n : n = i - Len(text) OBVIOUS
      <4>2. n \in 1 .. Len(calls) /\ i = Len(text) + n BY <4>1, <3>2, <2>2, <2>3, <1>10
      <4>3. p[i] = calls[n] BY <4>2, <2>3
      <4>. QED BY <4>2, <4>3, <1>11
    <3>. QED BY <3>1, <3>2
  <2>. QED BY <2>1, <2>3, <2>4 DEF PartsOfMessage
<1>. QED BY <1>4, <1>7, <1>8, <1>9, <1>12

(* What a message does to the turns.                                       *)
AppendsTo(next, contents, role, parts) ==
  /\ contents # << >> /\ Len(next) = Len(contents)
  /\ \A t \in 1 .. Len(contents) - 1 : next[t] = contents[t]
  /\ next[Len(contents)].role = contents[Len(contents)].role
  /\ next[Len(contents)].parts = contents[Len(contents)].parts \o parts

AddsTurn(next, contents, role, parts) ==
  /\ Len(next) = Len(contents) + 1
  /\ \A t \in 1 .. Len(contents) : next[t] = contents[t]
  /\ next[Len(contents) + 1] = [role |-> role, parts |-> parts]

LEMMA AppendTurnCases ==
  ASSUME NEW contents \in Turns, NEW role \in {"model", "user"}, NEW parts \in Seq(ChatPart),
         NEW next, next = AppendTurn(contents, role, parts)
  PROVE  /\ next \in Turns
         /\ \/ next = contents /\ parts = << >>
            \/ AppendsTo(next, contents, role, parts)
            \/ AddsTurn(next, contents, role, parts)
<1>1. PICK L : L = Len(contents) OBVIOUS
<1>2. L \in Nat /\ DOMAIN contents = 1 .. L /\ contents \in Seq(ChatTurn)
  BY <1>1, LenProperties DEF Turns
<1>3. CASE parts = << >>
  <2>1. next = contents BY <1>3 DEF AppendTurn
  <2>. QED BY <1>3, <2>1
<1>4. CASE parts # << >> /\ contents # << >> /\ Last(contents).role = role
  <2>1. L \in 1 .. L BY <1>1, <1>2, <1>4, EmptySeq
  <2>2. PICK turn, joined : turn = contents[L] /\ joined = contents[L].parts \o parts OBVIOUS
  <2>3. turn \in ChatTurn BY <1>2, <2>1, <2>2, <1>1, ElementOfSeq
  <2>4. turn.parts \in Seq(ChatPart) /\ turn.role \in {"model", "user"} BY <2>3 DEF ChatTurn
  <2>5. joined \in Seq(ChatPart)
    <3>1. PICK old : old = turn.parts OBVIOUS
    <3>2. old \in Seq(ChatPart) /\ joined = old \o parts BY <2>2, <2>4, <3>1
    <3>. QED BY <3>2, ConcatProperties
  <2>6. PICK new : new = [turn EXCEPT !.parts = joined] OBVIOUS
  <2>7. new \in ChatTurn /\ new.parts = joined /\ new.role = turn.role
    BY <2>3, <2>5, <2>6 DEF ChatTurn
  <2>8. next = [contents EXCEPT ![L].parts = @ \o parts] BY <1>1, <1>4 DEF AppendTurn
  <2>9. next = [contents EXCEPT ![L] = new] BY <2>2, <2>6, <2>8
  <2>10. next \in Seq(ChatTurn) /\ Len(next) = L /\ next[L] = new
           /\ \A t \in 1 .. L - 1 : next[t] = contents[t]
    <3>1. next \in [1 .. L -> ChatTurn]
      <4>1. \A t \in 1 .. L : contents[t] \in ChatTurn BY <1>1, <1>2, ElementOfSeq
      <4>. QED BY <1>2, <2>7, <2>9, <4>1
    <3>2. next \in Seq(ChatTurn) BY <1>2, <3>1
    <3>3. Len(next) = L BY <3>1, <3>2, <1>2, LenProperties
    <3>. QED BY <1>2, <2>1, <2>9, <3>2, <3>3
  <2>. QED BY <1>1, <1>4, <2>2, <2>7, <2>10 DEF AppendsTo, Turns
<1>5. CASE parts # << >> /\ ~(contents # << >> /\ Last(contents).role = role)
  <2>1. PICK new : new = [role |-> role, parts |-> parts] OBVIOUS
  <2>2. new \in ChatTurn BY <2>1 DEF ChatTurn
  <2>3. next = Append(contents, new) BY <1>5, <2>1 DEF AppendTurn
  <2>4. next \in Seq(ChatTurn) /\ Len(next) = L + 1 /\ next[L + 1] = new
          /\ \A t \in 1 .. L : next[t] = contents[t]
    BY <1>1, <1>2, <2>2, <2>3, AppendProperties
  <2>. QED BY <1>1, <2>1, <2>4 DEF AddsTurn, Turns
<1>. QED BY <1>3, <1>4, <1>5

(* The parts stand in the order of the messages, those of a message in one *)
(* turn, with at most one text of each.                                    *)
FromBefore(p, q) ==
  \A i \in 1 .. Len(p), j \in 1 .. Len(q) : p[i].from < q[j].from

TextsInOrder(p) ==
  \A i, j \in 1 .. Len(p) : i < j /\ p[i].kind = "text" /\ p[j].kind = "text" => p[i].from < p[j].from

NoneAbove(p, k) == \A i \in 1 .. Len(p) : p[i].from <= k

OrderedTurns(contents, k) ==
  /\ \A t \in 1 .. Len(contents) : NoneAbove(contents[t].parts, k) /\ TextsInOrder(contents[t].parts)
  /\ \A t, u \in 1 .. Len(contents) : t < u => FromBefore(contents[t].parts, contents[u].parts)

LEMMA PartsFollow ==
  ASSUME NEW k \in Nat, NEW j \in Nat, j < k, NEW p \in Seq(ChatPart), NoneAbove(p, j), TextsInOrder(p),
         NEW parts, PartsOfMessage(parts, k)
  PROVE  /\ NoneAbove(p, k) /\ NoneAbove(parts, k) /\ NoneAbove(p \o parts, k)
         /\ TextsInOrder(parts) /\ TextsInOrder(p \o parts) /\ FromBefore(p, parts)
<1>1. parts \in Seq(ChatPart) BY DEF PartsOfMessage
<1>2. PICK q : q = p \o parts OBVIOUS
<1>3. /\ q \in Seq(ChatPart) /\ Len(q) = Len(p) + Len(parts)
      /\ \A n \in 1 .. Len(p) : q[n] = p[n]
      /\ \A n \in 1 .. Len(parts) : q[Len(p) + n] = parts[n]
  BY <1>1, <1>2, OfConcat
<1>4. Len(p) \in Nat /\ Len(parts) \in Nat BY <1>1, LenProperties
<1>5. ASSUME NEW n \in 1 .. Len(p) PROVE p[n].from \in Nat /\ p[n].from <= j
  <2>1. PICK x : x = p[n] OBVIOUS
  <2>2. x \in ChatPart BY <2>1, ElementOfSeq
  <2>. QED BY <2>1, <2>2 DEF ChatPart, NoneAbove
<1>6. ASSUME NEW n \in 1 .. Len(parts) PROVE parts[n].from = k /\ (n # 1 => parts[n].kind # "text")
  BY DEF PartsOfMessage
<1>7. ASSUME NEW i \in 1 .. Len(q)
      PROVE  \/ i \in 1 .. Len(p) /\ q[i] = p[i] /\ q[i].from \in Nat /\ q[i].from <= j
             \/ /\ i \notin 1 .. Len(p) /\ q[i].from = k /\ (i # Len(p) + 1 => q[i].kind # "text")
                /\ i >= Len(p) + 1
  <2>1. CASE i \in 1 .. Len(p) BY <2>1, <1>3, <1>5
  <2>2. CASE i \notin 1 .. Len(p)
    <3>1. PICK n : n = i - Len(p) OBVIOUS
    <3>2. n \in 1 .. Len(parts) /\ i = Len(p) + n BY <3>1, <2>2, <1>3, <1>4
    <3>3. q[i] = parts[n] BY <3>2, <1>3
    <3>. QED BY <2>2, <3>2, <3>3, <1>4, <1>6
  <2>. QED BY <2>1, <2>2
<1>8. NoneAbove(p, k) BY <1>5 DEF NoneAbove
<1>9. NoneAbove(parts, k) BY <1>6 DEF NoneAbove
<1>10. NoneAbove(q, k) BY <1>7 DEF NoneAbove
<1>11. TextsInOrder(parts)
  <2>1. ASSUME NEW i \in 1 .. Len(parts), NEW n \in 1 .. Len(parts), i < n PROVE parts[n].kind # "text"
    <3>1. n # 1 BY <2>1
    <3>. QED BY <3>1, <1>6
  <2>. QED BY <2>1 DEF TextsInOrder
<1>12. TextsInOrder(q)
  <2>1. ASSUME NEW i \in 1 .. Len(q), NEW n \in 1 .. Len(q), i < n, q[i].kind = "text", q[n].kind = "text"
        PROVE  q[i].from < q[n].from
    <3>1. CASE n \in 1 .. Len(p)
      <4>1. i \in 1 .. Len(p) BY <2>1, <3>1, <1>4
      <4>2. q[i] = p[i] /\ q[n] = p[n] BY <3>1, <4>1, <1>3
      <4>. QED BY <2>1, <3>1, <4>1, <4>2 DEF TextsInOrder
    <3>2. CASE n \notin 1 .. Len(p)
      <4>1. n = Len(p) + 1 /\ q[n].from = k BY <2>1, <3>2, <1>7
      <4>2. i \in 1 .. Len(p) BY <2>1, <4>1, <1>4
      <4>3. q[i].from \in Nat /\ q[i].from <= j BY <4>2, <1>7
      <4>. QED BY <4>1, <4>3
    <3>. QED BY <3>1, <3>2
  <2>. QED BY <2>1 DEF TextsInOrder
<1>13. FromBefore(p, parts) BY <1>5, <1>6 DEF FromBefore
<1>. QED BY <1>2, <1>8, <1>9, <1>10, <1>11, <1>12, <1>13

LEMMA AppendTurnKeeps ==
  ASSUME NEW k \in Nat, NEW j \in Nat, j < k, NEW contents \in Turns, OrderedTurns(contents, j),
         NEW role \in {"model", "user"}, NEW parts, PartsOfMessage(parts, k),
         NEW next, next = AppendTurn(contents, role, parts)
  PROVE  next \in Turns /\ OrderedTurns(next, k)
<1>1. parts \in Seq(ChatPart) BY DEF PartsOfMessage
<1>2. /\ next \in Turns
      /\ \/ next = contents /\ parts = << >>
         \/ AppendsTo(next, contents, role, parts)
         \/ AddsTurn(next, contents, role, parts)
  BY <1>1, AppendTurnCases
<1>3. PICK L : L = Len(contents) OBVIOUS
<1>4. L \in Nat /\ \A t \in 1 .. L : contents[t].parts \in Seq(ChatPart)
  BY <1>3, TurnFacts
<1>5. ASSUME NEW t \in 1 .. L
      PROVE  /\ NoneAbove(contents[t].parts, k) /\ NoneAbove(contents[t].parts \o parts, k)
             /\ TextsInOrder(contents[t].parts) /\ TextsInOrder(contents[t].parts \o parts)
             /\ FromBefore(contents[t].parts, parts)
  <2>1. PICK p : p = contents[t].parts OBVIOUS
  <2>2. p \in Seq(ChatPart) BY <2>1, <1>4
  <2>3. NoneAbove(p, j) /\ TextsInOrder(p) BY <2>1, <1>3 DEF OrderedTurns
  <2>. QED BY <2>1, <2>2, <2>3, PartsFollow
<1>6. NoneAbove(parts, k) /\ TextsInOrder(parts)
  <2>1. PICK p : p = << >> OBVIOUS
  <2>2. p \in Seq(ChatPart) /\ Len(p) = 0 BY <2>1, EmptySeq
  <2>3. NoneAbove(p, j) /\ TextsInOrder(p) BY <2>2 DEF NoneAbove, TextsInOrder
  <2>. QED BY <2>2, <2>3, PartsFollow
<1>7. \A t, u \in 1 .. L : t < u => FromBefore(contents[t].parts, contents[u].parts)
  BY <1>3 DEF OrderedTurns
<1>8. CASE next = contents
  <2>1. OrderedTurns(contents, k) BY <1>3, <1>5, <1>7 DEF OrderedTurns
  <2>. QED BY <1>2, <1>8, <2>1
<1>9. CASE AppendsTo(next, contents, role, parts)
  <2>1. /\ L # 0 /\ Len(next) = L
        /\ \A t \in 1 .. L - 1 : next[t].parts = contents[t].parts
        /\ next[L].parts = contents[L].parts \o parts
    <3>1. L # 0
      <4>1. contents \in Seq(ChatTurn) BY DEF Turns
      <4>. QED BY <4>1, <1>3, <1>9, EmptySeq DEF AppendsTo
    <3>. QED BY <3>1, <1>3, <1>9 DEF AppendsTo
  <2>2. ASSUME NEW t \in 1 .. L PROVE NoneAbove(next[t].parts, k) /\ TextsInOrder(next[t].parts)
    <3>1. CASE t = L BY <3>1, <2>1, <1>5
    <3>2. CASE t # L
      <4>1. t \in 1 .. L - 1 BY <3>2, <1>4
      <4>. QED BY <4>1, <2>1, <1>5
    <3>. QED BY <3>1, <3>2
  <2>3. ASSUME NEW t \in 1 .. L, NEW u \in 1 .. L, t < u
        PROVE  FromBefore(next[t].parts, next[u].parts)
    <3>1. t \in 1 .. L - 1 BY <2>3, <1>4
    <3>2. next[t].parts = contents[t].parts BY <3>1, <2>1
    <3>3. CASE u # L
      <4>1. u \in 1 .. L - 1 BY <3>3, <1>4
      <4>2. next[u].parts = contents[u].parts BY <4>1, <2>1
      <4>. QED BY <2>3, <3>2, <4>2, <1>7
    <3>4. CASE u = L
      <4>1. PICK p, q, r : p = contents[t].parts /\ q = contents[u].parts /\ r = next[u].parts OBVIOUS
      <4>2. p \in Seq(ChatPart) /\ q \in Seq(ChatPart) BY <4>1, <1>4
      <4>3. r = q \o parts BY <4>1, <3>4, <2>1
      <4>4. FromBefore(p, q) /\ FromBefore(p, parts) BY <4>1, <2>3, <1>5, <1>7
      <4>5. FromBefore(p, r)
        <5>1. /\ r \in Seq(ChatPart) /\ Len(r) = Len(q) + Len(parts)
              /\ \A n \in 1 .. Len(q) : r[n] = q[n]
              /\ \A n \in 1 .. Len(parts) : r[Len(q) + n] = parts[n]
          BY <4>2, <4>3, <1>1, OfConcat
        <5>2. Len(q) \in Nat /\ Len(parts) \in Nat BY <4>2, <1>1, LenProperties
        <5>3. ASSUME NEW i \in 1 .. Len(p), NEW n \in 1 .. Len(r) PROVE p[i].from < r[n].from
          <6>1. CASE n \in 1 .. Len(q) BY <6>1, <5>1, <4>4 DEF FromBefore
          <6>2. CASE n \notin 1 .. Len(q)
            <7>1. PICK m : m = n - Len(q) OBVIOUS
            <7>2. m \in 1 .. Len(parts) /\ n = Len(q) + m BY <7>1, <6>2, <5>1, <5>2
            <7>. QED BY <7>2, <5>1, <4>4 DEF FromBefore
          <6>. QED BY <6>1, <6>2
        <5>. QED BY <5>3 DEF FromBefore
      <4>. QED BY <4>1, <4>5, <3>2
    <3>. QED BY <3>3, <3>4
  <2>4. OrderedTurns(next, k) BY <2>1, <2>2, <2>3 DEF OrderedTurns
  <2>. QED BY <1>2, <2>4
<1>10. CASE AddsTurn(next, contents, role, parts)
  <2>1. /\ Len(next) = L + 1
        /\ \A t \in 1 .. L : next[t].parts = contents[t].parts
        /\ next[L + 1].parts = parts
    BY <1>3, <1>10 DEF AddsTurn
  <2>2. ASSUME NEW t \in 1 .. L + 1 PROVE NoneAbove(next[t].parts, k) /\ TextsInOrder(next[t].parts)
    <3>1. CASE t = L + 1 BY <3>1, <2>1, <1>6
    <3>2. CASE t # L + 1
      <4>1. t \in 1 .. L BY <3>2, <1>4
      <4>. QED BY <4>1, <2>1, <1>5
    <3>. QED BY <3>1, <3>2
  <2>3. ASSUME NEW t \in 1 .. L + 1, NEW u \in 1 .. L + 1, t < u
        PROVE  FromBefore(next[t].parts, next[u].parts)
    <3>1. t \in 1 .. L BY <2>3, <1>4
    <3>2. next[t].parts = contents[t].parts BY <3>1, <2>1
    <3>3. CASE u # L + 1
      <4>1. u \in 1 .. L BY <3>3, <1>4
      <4>2. next[u].parts = contents[u].parts BY <4>1, <2>1
      <4>. QED BY <2>3, <3>1, <3>2, <4>1, <4>2, <1>7
    <3>4. CASE u = L + 1 BY <3>1, <3>2, <3>4, <2>1, <1>5
    <3>. QED BY <3>3, <3>4
  <2>4. OrderedTurns(next, k) BY <2>1, <2>2, <2>3 DEF OrderedTurns
  <2>. QED BY <1>2, <2>4
<1>. QED BY <1>2, <1>8, <1>9, <1>10

(* The turns after each message, as the recursion makes them.              *)
AppendsTurns(g, messages) ==
  /\ g[0] = << >>
  /\ \A k \in 1 .. Len(messages) :
       g[k] = AppendTurn(g[k - 1], RoleOf(messages[k]), MessageParts(messages, k))

LEMMA ConvertRecursion ==
  ASSUME NEW messages \in Seq(ChatMessages)
  PROVE  \E g \in [0 .. Len(messages) -> Turns] :
           AppendsTurns(g, messages) /\ ConvertMessages(messages) = g[Len(messages)]
<1>. DEFINE N == Len(messages)
            step == [n \in 1 .. N |->
                       [t \in Turns |-> AppendTurn(t, RoleOf(messages[n]), MessageParts(messages, n))]]
            Rec(f) == [i \in 0 .. N |->
                         IF i = 0 THEN << >>
                         ELSE AppendTurn(f[i - 1], RoleOf(messages[i]), MessageParts(messages, i))]
            f == CHOOSE f : f = Rec(f)
<1>1. N \in Nat /\ << >> \in Turns
  BY LenProperties, EmptySeq DEF Turns
<1>2. step \in [1 .. N -> [Turns -> Turns]]
  <2>1. ASSUME NEW n \in 1 .. N, NEW t \in Turns
        PROVE  AppendTurn(t, RoleOf(messages[n]), MessageParts(messages, n)) \in Turns
    <3>1. PICK role, parts : role = RoleOf(messages[n]) /\ parts = MessageParts(messages, n) OBVIOUS
    <3>2. role \in {"model", "user"} BY <3>1 DEF RoleOf
    <3>3. parts \in Seq(ChatPart) BY <3>1, MessagePartsFacts DEF PartsOfMessage
    <3>4. AppendTurn(t, role, parts) \in Turns BY <3>2, <3>3, AppendTurnCases
    <3>. QED BY <3>1, <3>4
  <2>. QED BY <2>1
<1>3. \E g \in [0 .. N -> Turns] : Computes(g, N, << >>, step)
  <2>. HIDE DEF step, N
  <2>. QED BY <1>1, <1>2, RecursionExists
<1>4. PICK g \in [0 .. N -> Turns] : Computes(g, N, << >>, step)
  BY <1>3
<1>5. ASSUME NEW n \in 1 .. N
      PROVE  g[n] = AppendTurn(g[n - 1], RoleOf(messages[n]), MessageParts(messages, n))
  <2>1. n - 1 \in 0 .. N
    <3>. HIDE DEF N
    <3>. QED BY <1>1
  <2>2. g[n - 1] \in Turns
    <3>. HIDE DEF N
    <3>. QED BY <2>1
  <2>3. g[n] = step[n][g[n - 1]]
    <3>. HIDE DEF step
    <3>. QED BY <1>4 DEF Computes
  <2>. QED BY <2>2, <2>3
<1>6. g[0] = << >> BY <1>4 DEF Computes
<1>7. AppendsTurns(g, messages) BY <1>5, <1>6 DEF AppendsTurns
<1>8. g = Rec(g)
  <2>1. ASSUME NEW n \in 0 .. N PROVE g[n] = Rec(g)[n]
    <3>1. CASE n = 0 BY <1>6, <3>1
    <3>2. CASE n # 0
      <4>1. n \in 1 .. N BY <1>1, <3>2
      <4>. QED BY <1>5, <3>2, <4>1
    <3>. QED BY <3>1, <3>2
  <2>2. DOMAIN g = 0 .. N /\ DOMAIN Rec(g) = 0 .. N OBVIOUS
  <2>. QED BY <2>1, <2>2
<1>9. f = Rec(f)
  <2>. HIDE DEF Rec
  <2>. QED BY <1>8
<1>10. ConvertMessages(messages) = f[N]
  BY DEF ConvertMessages
<1>. HIDE DEF f, step
<1>11. \A n \in 0 .. N : g[n] = f[n]
  <2>1. ASSUME NEW n \in 1 .. N, g[n - 1] = f[n - 1] PROVE g[n] = f[n]
    <3>1. f[n] = AppendTurn(f[n - 1], RoleOf(messages[n]), MessageParts(messages, n))
      <4>1. n # 0 /\ n \in 0 .. N BY <1>1
      <4>2. f[n] = Rec(f)[n] BY <1>9
      <4>3. Rec(f)[n] = AppendTurn(f[n - 1], RoleOf(messages[n]), MessageParts(messages, n))
        BY <4>1
      <4>. QED BY <4>2, <4>3
    <3>. QED BY <1>5, <2>1, <3>1
  <2>2. g[0] = f[0]
    BY <1>1, <1>9, <1>6
  <2>3. StepAlike(g, f, N) BY <2>1, <2>2 DEF StepAlike
  <2>. HIDE DEF N
  <2>. QED BY <1>1, <2>3, RecursionIsUnique
<1>. QED BY <1>1, <1>7, <1>10, <1>11

(* A conversation's turns are turns, in the order of its messages.         *)
LEMMA ConvertedTurns ==
  ASSUME NEW messages \in Seq(ChatMessages)
  PROVE  /\ ConvertMessages(messages) \in Turns
         /\ OrderedTurns(ConvertMessages(messages), Len(messages))
<1>1. PICK g \in [0 .. Len(messages) -> Turns] :
        AppendsTurns(g, messages) /\ ConvertMessages(messages) = g[Len(messages)]
  BY ConvertRecursion
<1>2. Len(messages) \in Nat BY LenProperties
<1>. DEFINE Ordered == {n \in Nat : n <= Len(messages) => OrderedTurns(g[n], n)}
<1>3. 0 \in Ordered
  <2>1. g[0] = << >> BY <1>1 DEF AppendsTurns
  <2>2. Len(g[0]) = 0 BY <2>1, EmptySeq
  <2>3. OrderedTurns(g[0], 0) BY <2>2 DEF OrderedTurns
  <2>. QED BY <2>3
<1>4. ASSUME NEW n \in Nat, n \in Ordered PROVE n + 1 \in Ordered
  <2>. SUFFICES ASSUME n + 1 <= Len(messages) PROVE OrderedTurns(g[n + 1], n + 1)
    OBVIOUS
  <2>1. PICK k : k = n + 1 OBVIOUS
  <2>2. k \in 1 .. Len(messages) /\ k \in Nat /\ k - 1 = n /\ n \in 0 .. Len(messages) /\ n < k
    BY <2>1, <1>2
  <2>3. PICK h, role, parts : h = g[n] /\ role = RoleOf(messages[k]) /\ parts = MessageParts(messages, k)
    OBVIOUS
  <2>4. h \in Turns /\ OrderedTurns(h, n) BY <2>2, <2>3, <1>4
  <2>5. role \in {"model", "user"} BY <2>3 DEF RoleOf
  <2>6. PartsOfMessage(parts, k) BY <2>2, <2>3, MessagePartsFacts
  <2>7. g[k] = AppendTurn(h, role, parts) BY <2>2, <2>3, <1>1 DEF AppendsTurns
  <2>8. OrderedTurns(g[k], k) BY <2>2, <2>4, <2>5, <2>6, <2>7, AppendTurnKeeps
  <2>. QED BY <2>1, <2>8
<1>5. Nat \subseteq Ordered
  <2>. HIDE DEF Ordered
  <2>. QED BY <1>3, <1>4, InductionOnNat
<1>6. OrderedTurns(g[Len(messages)], Len(messages)) BY <1>2, <1>5
<1>7. g[Len(messages)] \in Turns BY <1>1, <1>2
<1>. QED BY <1>1, <1>6, <1>7

-----------------------------------------------------------------------------
(* Turns whose calls and responses have the same ids.                      *)
LEMMA DistinctIdsFacts ==
  ASSUME NEW parts \in Seq(ChatPart), DistinctIds(parts)
  PROVE  /\ \A n \in 1 .. Len(parts) : parts[n].id # "" /\ parts[n].id \in Ids(parts)
         /\ \A m, n \in 1 .. Len(parts) : parts[m].id = parts[n].id => m = n
<1>1. PICK N : N = Len(parts) OBVIOUS
<1>2. N \in Nat /\ DOMAIN parts = 1 .. N BY <1>1, LenProperties
<1>3. PICK S, T, f : S = 1 .. N /\ T = Ids(parts) /\ f = [i \in S |-> parts[i].id] OBVIOUS
<1>4. T = {parts[i].id : i \in S} BY <1>2, <1>3 DEF Ids
<1>5. f \in Surjection(S, T)
  <2>1. f \in [S -> T] BY <1>3, <1>4
  <2>2. \A t \in T : \E s \in S : f[s] = t BY <1>3, <1>4
  <2>. QED BY <2>1, <2>2 DEF Surjection
<1>6. IsFiniteSet(S) /\ Cardinality(S) = N
  <2>1. IsFiniteSet(1 .. N) /\ Cardinality(1 .. N) = IF 1 > N THEN 0 ELSE N - 1 + 1
    BY <1>2, FS_Interval
  <2>. QED BY <2>1, <1>2, <1>3
<1>7. Cardinality(T) = N BY <1>1, <1>3 DEF DistinctIds
<1>8. f \in Injection(S, T) BY <1>5, <1>6, <1>7, FS_SurjSameCardinalityImpliesInj
<1>9. \A m, n \in S : f[m] = f[n] => m = n BY <1>3, <1>8 DEF Injection, IsInjective
<1>10. "" \notin T BY <1>3 DEF DistinctIds
<1>11. \A n \in S : parts[n].id \in T BY <1>4
<1>12. ASSUME NEW m \in S, NEW n \in S, parts[m].id = parts[n].id PROVE m = n
  <2>1. f[m] = parts[m].id /\ f[n] = parts[n].id BY <1>3
  <2>. QED BY <2>1, <1>9, <1>12
<1>13. S = 1 .. Len(parts) /\ T = Ids(parts) BY <1>1, <1>3
<1>14. \A n \in S : parts[n].id # "" /\ parts[n].id \in T BY <1>10, <1>11
<1>15. \A m, n \in S : parts[m].id = parts[n].id => m = n BY <1>12
<1>. QED BY <1>13, <1>14, <1>15

(* Every call so far has the response of its id.                           *)
PairedById(pairs, N, calls, given) ==
  /\ pairs \in Pairing /\ Len(pairs) = N
  /\ \A n \in 1 .. N : /\ pairs[n][1] = n /\ pairs[n][2] \in 1 .. Len(given)
                       /\ given[pairs[n][2]].id = calls[n].id

LEMMA PairedByIdStep ==
  ASSUME NEW calls \in Seq(ChatPart), NEW given \in Seq(ChatPart),
         DistinctIds(calls), DistinctIds(given), Ids(calls) = Ids(given),
         NEW N \in 1 .. Len(calls), NEW pairs, PairedById(pairs, N - 1, calls, given),
         NEW next, next = AddPair(pairs, N, calls, given)
  PROVE  PairedById(next, N, calls, given)
<1>1. N \in Nat /\ N - 1 \in Nat /\ Len(given) \in Nat BY LenProperties
<1>2. PICK used : used = {pairs[n][2] : n \in DOMAIN pairs} OBVIOUS
<1>3. PICK call : call = calls[N] OBVIOUS
<1>4. PICK j : j = ResponseFor(call, given, used) OBVIOUS
<1>5. next = IF j = 0 THEN pairs ELSE Append(pairs, <<N, j>>)
  BY <1>2, <1>3, <1>4 DEF AddPair
<1>6. pairs \in Pairing /\ Len(pairs) = N - 1 /\ DOMAIN pairs = 1 .. N - 1
  BY LenProperties DEF PairedById, Pairing
<1>7. IsAnsweredById(call, given, used)
  <2>1. call.id # "" /\ call.id \in Ids(given) BY <1>3, DistinctIdsFacts
  <2>2. PICK k \in 1 .. Len(given) : given[k].id = call.id
    <3>1. DOMAIN given = 1 .. Len(given) BY LenProperties
    <3>. QED BY <2>1, <3>1 DEF Ids
  <2>3. ASSUME NEW n \in 1 .. N - 1, pairs[n][2] = k PROVE FALSE
    <3>1. given[k].id = calls[n].id BY <2>3 DEF PairedById
    <3>2. calls[n].id = calls[N].id BY <3>1, <2>2, <1>3
    <3>3. n \in 1 .. Len(calls) /\ n # N
      <4>1. Len(calls) \in Nat BY LenProperties
      <4>. QED BY <4>1, <1>1
    <3>. QED BY <3>2, <3>3, DistinctIdsFacts
  <2>4. k \notin used BY <2>3, <1>2, <1>6
  <2>. QED BY <2>1, <2>2, <2>4 DEF IsAnsweredById
<1>8. j # 0 /\ j \in 1 .. Len(given) /\ given[j].id = call.id
  <2>1. j # 0 => j \in 1 .. Len(given) BY <1>4, ResponseForFacts
  <2>2. IsAnsweredById(call, given, used) => j # 0 /\ given[j].id = call.id
    BY <1>4, ResponseForFacts
  <2>. QED BY <2>1, <2>2, <1>7
<1>9. PICK pair : pair = <<N, j>> OBVIOUS
<1>10. pair \in Nat \X Nat /\ pair[1] = N /\ pair[2] = j BY <1>8, <1>9, <1>1
<1>11. next = Append(pairs, pair) BY <1>5, <1>8, <1>9
<1>12. Len(next) = Len(pairs) + 1 /\ next \in Pairing /\ next[Len(pairs) + 1] = pair
         /\ \A n \in 1 .. Len(pairs) : next[n] = pairs[n]
  BY <1>6, <1>10, <1>11, AppendProperties DEF Pairing
<1>13. Len(next) = N BY <1>12, <1>6, <1>1
<1>14. ASSUME NEW n \in 1 .. N
       PROVE  /\ next[n][1] = n /\ next[n][2] \in 1 .. Len(given)
              /\ given[next[n][2]].id = calls[n].id
  <2>1. CASE n = N
    <3>1. next[n] = pair BY <2>1, <1>1, <1>6, <1>12
    <3>. QED BY <2>1, <3>1, <1>3, <1>8, <1>10
  <2>2. CASE n # N
    <3>1. n \in 1 .. N - 1 /\ next[n] = pairs[n] BY <2>2, <1>1, <1>6, <1>12
    <3>. QED BY <3>1 DEF PairedById
  <2>. QED BY <2>1, <2>2
<1>. QED BY <1>12, <1>13, <1>14 DEF PairedById

LEMMA AllPairedById ==
  ASSUME NEW calls \in Seq(ChatPart), NEW given \in Seq(ChatPart),
         DistinctIds(calls), DistinctIds(given), Ids(calls) = Ids(given),
         NEW pairs, pairs = MatchFunctionHistoryParts(calls, given)
  PROVE  PairedById(pairs, Len(calls), calls, given)
<1>1. PICK g \in [0 .. Len(calls) -> Pairing] : AddsPairs(g, calls, given) /\ pairs = g[Len(calls)]
  BY PairsRecursion
<1>2. Len(calls) \in Nat BY LenProperties
<1>. DEFINE Paired == {n \in Nat : n <= Len(calls) => PairedById(g[n], n, calls, given)}
<1>3. 0 \in Paired
  <2>1. PICK p : p = g[0] OBVIOUS
  <2>2. p = << >> BY <1>1, <2>1 DEF AddsPairs
  <2>3. p \in Pairing /\ Len(p) = 0 BY <2>2, EmptySeq DEF Pairing
  <2>4. PairedById(p, 0, calls, given) BY <2>3 DEF PairedById
  <2>. QED BY <2>1, <2>4
<1>4. ASSUME NEW n \in Nat, n \in Paired PROVE n + 1 \in Paired
  <2>. SUFFICES ASSUME n + 1 <= Len(calls) PROVE PairedById(g[n + 1], n + 1, calls, given)
    OBVIOUS
  <2>1. PICK N : N = n + 1 OBVIOUS
  <2>2. N \in 1 .. Len(calls) /\ N - 1 = n /\ n \in 0 .. Len(calls) BY <2>1, <1>2
  <2>3. PICK h : h = g[n] OBVIOUS
  <2>4. PairedById(h, N - 1, calls, given) BY <2>2, <2>3, <1>4
  <2>5. g[N] = AddPair(h, N, calls, given) BY <2>2, <2>3, <1>1 DEF AddsPairs
  <2>6. PairedById(g[N], N, calls, given) BY <2>2, <2>4, <2>5, PairedByIdStep
  <2>. QED BY <2>1, <2>6
<1>5. Nat \subseteq Paired
  <2>. HIDE DEF Paired
  <2>. QED BY <1>3, <1>4, InductionOnNat
<1>6. PairedById(g[Len(calls)], Len(calls), calls, given) BY <1>2, <1>5
<1>. QED BY <1>1, <1>6

LEMMA SamePart ==
  ASSUME NEW x \in ChatPart, NEW y \in ChatPart,
         x.kind = y.kind, x.from = y.from, x.id = y.id, x.name = y.name
  PROVE  x = y
BY DEF ChatPart

(* Then no part of the call turn is lost or changed.                       *)
LEMMA CompleteTurn ==
  ASSUME NEW model \in Seq(ChatPart), NEW user \in Seq(ChatPart), NEW pairs, NEW callAt, NEW answerAt,
         NEW ids, NEW newModel, NEW newUser, NEW callIDs \in BOOLEAN, NEW r,
         Matched(pairs, model, user, callAt, answerAt, ids, newModel, newUser, callIDs),
         RepairedAs(r, pairs, model, user, callAt, answerAt, newModel, newUser),
         NEW calls, calls = Collect(model, "call"), NEW given, given = Collect(user, "response"),
         DistinctIds(calls), DistinctIds(given), Ids(calls) = Ids(given)
  PROVE  /\ r.calls = model
         /\ Len(Collect(r.responses, "response")) = Len(calls)
         /\ \A n \in 1 .. Len(calls) : Collect(r.responses, "response")[n].id = calls[n].id
<1>1. PICK at, ut : at = PartIndices(model, "call") /\ ut = PartIndices(user, "response") OBVIOUS
<1>2. /\ Lists(at, PlacesOf(model, "call")) /\ Len(at) \in Nat /\ Len(calls) = Len(at)
      /\ calls \in Seq(ChatPart)
      /\ \A n \in 1 .. Len(at) : calls[n] = model[at[n]]
  BY <1>1, PlacedFacts
<1>3. /\ given \in Seq(ChatPart) /\ Len(given) = Len(ut)
      /\ \A n \in 1 .. Len(ut) : given[n] = user[ut[n]]
  BY <1>1, PlacedFacts
<1>4. pairs = MatchFunctionHistoryParts(calls, given) BY DEF Matched
<1>5. PairedById(pairs, Len(calls), calls, given) BY <1>2, <1>3, <1>4, AllPairedById
<1>6. Len(pairs) = Len(calls) /\ DOMAIN pairs = 1 .. Len(calls)
  BY <1>5, LenProperties DEF PairedById, Pairing
<1>7. ASSUME NEW n \in 1 .. Len(calls)
      PROVE  /\ callAt[n] = at[n] /\ calls[n] = model[callAt[n]]
             /\ user[answerAt[n]].id = calls[n].id
             /\ calls[n].id # "" /\ ids[n] = calls[n].id
  <2>1. /\ callAt[n] = at[pairs[n][1]] /\ answerAt[n] = ut[pairs[n][2]]
        /\ model[callAt[n]].id # "" => ids[n] = model[callAt[n]].id
    <3>1. MatchedAt(n, pairs, model, user, callAt, answerAt, ids) BY <1>6 DEF Matched
    <3>. QED BY <3>1, <1>1 DEF MatchedAt
  <2>2. pairs[n][1] = n /\ pairs[n][2] \in 1 .. Len(given) /\ given[pairs[n][2]].id = calls[n].id
    BY <1>5 DEF PairedById
  <2>3. callAt[n] = at[n] /\ calls[n] = model[callAt[n]] BY <2>1, <2>2, <1>2
  <2>4. user[answerAt[n]].id = calls[n].id BY <2>1, <2>2, <1>3
  <2>5. calls[n].id # "" BY <1>2, DistinctIdsFacts
  <2>. QED BY <2>1, <2>3, <2>4, <2>5
<1>8. /\ OncePerPlace(callAt, Len(calls), Len(model)) /\ OncePerPlace(answerAt, Len(calls), Len(user))
      /\ HaveIds(newModel, model, callAt, ids, callIDs) /\ HaveIds(newUser, user, answerAt, ids, callIDs)
  BY <1>6 DEF Matched
<1>9. DOMAIN callAt = 1 .. Len(calls) /\ DOMAIN answerAt = 1 .. Len(calls)
  BY <1>8 DEF OncePerPlace
<1>10. newModel = model
  <2>1. newModel \in Seq(ChatPart) /\ Len(newModel) = Len(model) BY <1>8 DEF HaveIds
  <2>2. ASSUME NEW i \in 1 .. Len(model) PROVE newModel[i] = model[i]
    <3>1. CASE \A n \in DOMAIN callAt : callAt[n] # i BY <3>1, <1>8 DEF HaveIds
    <3>2. CASE \E n \in DOMAIN callAt : callAt[n] = i
      <4>1. PICK n \in 1 .. Len(calls) : callAt[n] = i BY <3>2, <1>9
      <4>2. newModel[i].id = IF callIDs THEN ids[n] ELSE model[i].id
        BY <4>1, <1>8, <1>9 DEF HaveIds
      <4>3. newModel[i].name = model[i].name BY <4>1, <1>8, <1>9 DEF HaveIds
      <4>4. newModel[i].kind = model[i].kind /\ newModel[i].from = model[i].from BY <1>8 DEF HaveIds
      <4>5. newModel[i].id = model[i].id BY <4>1, <4>2, <1>7
      <4>6. PICK x, y : x = newModel[i] /\ y = model[i] OBVIOUS
      <4>7. x \in ChatPart /\ y \in ChatPart BY <2>1, <4>6, ElementOfSeq
      <4>8. x = y BY <4>3, <4>4, <4>5, <4>6, <4>7, SamePart
      <4>. QED BY <4>6, <4>8
    <3>. QED BY <3>1, <3>2
  <2>3. newModel \in [1 .. Len(model) -> ChatPart] /\ model \in [1 .. Len(model) -> ChatPart]
    BY <2>1
  <2>. QED BY <2>2, <2>3
<1>11. r.calls = model
  <2>1. PICK stay : stay = Stay(model, callAt, pairs) OBVIOUS
  <2>2. r.calls = ItemsAt(newModel, stay) BY <2>1, CallsStay
  <2>3. ASSUME NEW i \in 1 .. Len(model) PROVE i \in stay
    <3>1. DOMAIN model = 1 .. Len(model) BY LenProperties
    <3>2. ASSUME model[i].kind = "call" PROVE \E n \in DOMAIN pairs : callAt[n] = i
      <4>1. i \in PlacesOf(model, "call") BY <3>1, <3>2 DEF PlacesOf
      <4>2. PICK n \in 1 .. Len(at) : at[n] = i BY <4>1, <1>2 DEF Lists
      <4>. QED BY <4>2, <1>2, <1>6, <1>7
    <3>. QED BY <2>1, <3>1, <3>2 DEF Stay
  <2>4. ItemsAt(model, stay) = model BY <2>3, ItemsAtAll
  <2>. QED BY <1>10, <2>2, <2>4
<1>12. Len(Collect(r.responses, "response")) = Len(calls) BY <1>6, ResponsesAfterwards
<1>13. ASSUME NEW n \in 1 .. Len(calls) PROVE Collect(r.responses, "response")[n].id = calls[n].id
  <2>1. Collect(r.responses, "response")[n] = newUser[answerAt[n]] BY <1>6, ResponsesAfterwards
  <2>2. newUser[answerAt[n]].id = IF callIDs THEN ids[n] ELSE user[answerAt[n]].id
    BY <1>8, <1>9 DEF HaveIds
  <2>. QED BY <2>1, <2>2, <1>7
<1>. QED BY <1>11, <1>12, <1>13

LEMMA CompleteTurnsAreKeptAfterwards ==
  ASSUME NEW contents \in Turns, NEW callIDs \in BOOLEAN,
         NEW repaired, repaired = RepairTurns(contents, callIDs)
  PROVE  CompleteTurnsAreKept(contents, repaired)
<1>. DEFINE callsOf(t) == Collect(contents[t].parts, "call")
            givenTo(t) == Collect(contents[t + 1].parts, "response")
            responsesOf(t) == Collect(repaired[t + 1].parts, "response")
<1>1. ASSUME NEW t \in DOMAIN contents, IsCallTurn(contents, t),
             DistinctIds(callsOf(t)), DistinctIds(givenTo(t)), Ids(callsOf(t)) = Ids(givenTo(t))
      PROVE  /\ repaired[t].parts = contents[t].parts
             /\ [n \in DOMAIN responsesOf(t) |-> responsesOf(t)[n].id]
                  = [n \in DOMAIN callsOf(t) |-> callsOf(t)[n].id]
  <2>0. PICK calls, given, responses :
          calls = callsOf(t) /\ given = givenTo(t) /\ responses = responsesOf(t) OBVIOUS
  <2>1. PICK model, user, r :
          /\ model = contents[t].parts /\ user = contents[t + 1].parts
          /\ r = Repaired(contents, t, callIDs)
    OBVIOUS
  <2>2. /\ model \in Seq(ChatPart) /\ user \in Seq(ChatPart)
        /\ repaired[t].parts = r.calls /\ repaired[t + 1].parts = r.responses
    BY <1>1, <2>1, CallTurnRepaired
  <2>3. PICK pairs, callAt, answerAt, ids, newModel, newUser :
          /\ Matched(pairs, model, user, callAt, answerAt, ids, newModel, newUser, callIDs)
          /\ RepairedAs(r, pairs, model, user, callAt, answerAt, newModel, newUser)
    BY <1>1, <2>1, CallTurnRepaired
  <2>4. /\ calls = Collect(model, "call") /\ given = Collect(user, "response")
        /\ DistinctIds(calls) /\ DistinctIds(given) /\ Ids(calls) = Ids(given)
    BY <1>1, <2>0, <2>1
  <2>5. /\ r.calls = model /\ Len(responses) = Len(calls)
        /\ \A n \in 1 .. Len(calls) : responses[n].id = calls[n].id
    <3>1. responses = Collect(r.responses, "response") BY <2>0, <2>2
    <3>2. /\ r.calls = model
          /\ Len(Collect(r.responses, "response")) = Len(calls)
          /\ \A n \in 1 .. Len(calls) : Collect(r.responses, "response")[n].id = calls[n].id
      BY <2>2, <2>3, <2>4, CompleteTurn
    <3>. QED BY <3>1, <3>2
  <2>6. DOMAIN calls = 1 .. Len(calls) /\ DOMAIN responses = 1 .. Len(calls)
    <3>1. calls \in Seq(ChatPart) BY <2>2, <2>4, PlacedFacts
    <3>2. r.responses \in Seq(ChatPart) BY <2>2, <2>3, ResponsesAfterwards
    <3>3. responses \in Seq(ChatPart) BY <2>0, <2>2, <3>2, PlacedFacts
    <3>. QED BY <3>1, <3>3, <2>5, LenProperties
  <2>7. [n \in DOMAIN responses |-> responses[n].id] = [n \in DOMAIN calls |-> calls[n].id]
    BY <2>5, <2>6
  <2>. QED BY <2>0, <2>1, <2>2, <2>5, <2>7
<1>. QED BY <1>1 DEF CompleteTurnsAreKept

-----------------------------------------------------------------------------
(* The texts of the turns.                                                 *)

(* Parts made of others: no new kinds or origins, and the same texts.      *)
DrawnFrom(new, parts) ==
  /\ new \in Seq(ChatPart) /\ Collect(new, "text") = Collect(parts, "text")
  /\ \A i \in 1 .. Len(new) : \E k \in 1 .. Len(parts) :
       new[i].kind = parts[k].kind /\ new[i].from = parts[k].from

LEMMA RepairedIsTurn ==
  ASSUME NEW contents \in Turns, NEW callIDs, NEW repaired, repaired = RepairTurns(contents, callIDs),
         NEW t \in DOMAIN contents, repaired[t].parts \in Seq(ChatPart)
  PROVE  repaired[t] \in ChatTurn
<1>1. PICK turn, parts :
        /\ turn = contents[t]
        /\ parts = CASE IsCallTurn(contents, t) -> Repaired(contents, t, callIDs).calls
                     [] IsCallTurn(contents, t - 1) -> Repaired(contents, t - 1, callIDs).responses
                     [] OTHER -> contents[t].parts
  OBVIOUS
<1>2. repaired[t] = [turn EXCEPT !.parts = parts] BY <1>1 DEF RepairTurns
<1>3. turn \in ChatTurn
  <2>1. DOMAIN contents = 1 .. Len(contents) BY TurnFacts
  <2>. QED BY <2>1, <1>1, ElementOfSeq DEF Turns
<1>4. repaired[t].parts = parts BY <1>2, <1>3 DEF ChatTurn
<1>. QED BY <1>2, <1>3, <1>4 DEF ChatTurn

LEMMA RepairedFrom ==
  ASSUME NEW contents \in Turns, NEW callIDs \in BOOLEAN,
         NEW repaired, repaired = RepairTurns(contents, callIDs)
  PROVE  /\ repaired \in Turns /\ Len(repaired) = Len(contents)
         /\ \A t \in 1 .. Len(contents) : /\ repaired[t].role = contents[t].role
                                          /\ DrawnFrom(repaired[t].parts, contents[t].parts)
<1>1. /\ DOMAIN contents = 1 .. Len(contents) /\ Len(contents) \in Nat
      /\ \A t \in DOMAIN contents : contents[t].parts \in Seq(ChatPart)
  BY TurnFacts
<1>2. ASSUME NEW t \in DOMAIN contents, IsCallTurn(contents, t)
      PROVE  /\ DrawnFrom(repaired[t].parts, contents[t].parts)
             /\ DrawnFrom(repaired[t + 1].parts, contents[t + 1].parts)
  <2>1. PICK model, user, r :
          /\ model = contents[t].parts /\ user = contents[t + 1].parts
          /\ r = Repaired(contents, t, callIDs)
    OBVIOUS
  <2>2. /\ model \in Seq(ChatPart) /\ user \in Seq(ChatPart)
        /\ repaired[t].parts = r.calls /\ repaired[t + 1].parts = r.responses
    BY <1>2, <2>1, CallTurnRepaired
  <2>3. PICK pairs, callAt, answerAt, ids, newModel, newUser :
          /\ Matched(pairs, model, user, callAt, answerAt, ids, newModel, newUser, callIDs)
          /\ RepairedAs(r, pairs, model, user, callAt, answerAt, newModel, newUser)
    BY <1>2, <2>1, CallTurnRepaired
  <2>4. DrawnFrom(r.calls, model)
    <3>1. \A k \in 1 .. Len(model) : newModel[k].kind = model[k].kind /\ newModel[k].from = model[k].from
      BY <2>3 DEF Matched, HaveIds
    <3>2. r.calls \in Seq(ChatPart) /\ Collect(r.calls, "text") = Collect(model, "text")
      BY <2>2, <2>3, CallsAfterwards
    <3>3. \A i \in 1 .. Len(r.calls) : \E k \in 1 .. Len(model) : r.calls[i] = newModel[k]
      BY <2>2, <2>3, CallsAfterwards
    <3>. QED BY <3>1, <3>2, <3>3 DEF DrawnFrom
  <2>5. DrawnFrom(r.responses, user)
    <3>1. \A k \in 1 .. Len(user) : newUser[k].kind = user[k].kind /\ newUser[k].from = user[k].from
      BY <2>3 DEF Matched, HaveIds
    <3>2. r.responses \in Seq(ChatPart) /\ Collect(r.responses, "text") = Collect(user, "text")
      BY <2>2, <2>3, ResponsesAfterwards
    <3>3. \A i \in 1 .. Len(r.responses) : \E k \in 1 .. Len(user) : r.responses[i] = newUser[k]
      BY <2>2, <2>3, ResponsesAfterwards
    <3>. QED BY <3>1, <3>2, <3>3 DEF DrawnFrom
  <2>. QED BY <2>1, <2>2, <2>4, <2>5
<1>3. ASSUME NEW t \in DOMAIN contents PROVE DrawnFrom(repaired[t].parts, contents[t].parts)
  <2>1. CASE IsCallTurn(contents, t) BY <2>1, <1>2
  <2>2. CASE IsCallTurn(contents, t - 1)
    <3>1. PICK u : u = t - 1 OBVIOUS
    <3>2. u \in DOMAIN contents /\ u + 1 = t BY <3>1, <2>2, <1>1 DEF IsCallTurn
    <3>3. IsCallTurn(contents, u) BY <2>2, <3>1
    <3>4. DrawnFrom(repaired[u + 1].parts, contents[u + 1].parts) BY <3>2, <3>3, <1>2
    <3>. QED BY <3>2, <3>4
  <2>3. CASE ~IsCallTurn(contents, t) /\ ~IsCallTurn(contents, t - 1)
    <3>1. repaired[t].parts = contents[t].parts BY <2>3, RepairedTurns
    <3>2. contents[t].parts \in Seq(ChatPart) BY <1>1
    <3>. QED BY <3>1, <3>2 DEF DrawnFrom
  <2>. QED BY <2>1, <2>2, <2>3
<1>4. ASSUME NEW t \in DOMAIN contents PROVE repaired[t].role = contents[t].role BY RepairedTurns
<1>5. ASSUME NEW t \in DOMAIN contents PROVE repaired[t] \in ChatTurn
  <2>1. repaired[t].parts \in Seq(ChatPart) BY <1>3 DEF DrawnFrom
  <2>. QED BY <2>1, RepairedIsTurn
<1>6. repaired \in [1 .. Len(contents) -> ChatTurn]
  <2>1. repaired = [t \in DOMAIN contents |-> repaired[t]] BY DEF RepairTurns
  <2>. QED BY <2>1, <1>1, <1>5
<1>7. repaired \in Seq(ChatTurn) /\ Len(repaired) = Len(contents) BY <1>1, <1>6
<1>. QED BY <1>1, <1>3, <1>4, <1>7 DEF Turns

(* Dropping the end of the turns.                                          *)
LEMMA DropTrailingFacts ==
  ASSUME NEW c \in Turns, NEW W \in SUBSET (1 .. Len(c)), NEW d, d = DropTrailing(c, W)
  PROVE  /\ d \in Turns /\ Len(d) \in 0 .. Len(c)
         /\ \A n \in 1 .. Len(d) : d[n] = c[n]
         /\ \A n \in W : n <= Len(d)
<1>1. Len(c) \in Nat BY TurnFacts
<1>2. PICK m \in 0 .. Len(c) : m = Max({0} \cup W) /\ \A n \in W : n <= m
  <2>1. CASE W = {}
    <3>1. PICK S : S = {0} \cup W OBVIOUS
    <3>2. S \in SUBSET Nat /\ 0 \in S /\ \A n \in S : n <= 0 BY <2>1, <3>1
    <3>3. Max(S) = 0 BY <3>2, MaxIsGreatest
    <3>. QED BY <2>1, <3>1, <3>3, <1>1
  <2>2. CASE W # {}
    <3>1. PICK m \in W : \A i \in W : i <= m BY <2>2, <1>1, GreatestBelow
    <3>2. PICK S : S = {0} \cup W OBVIOUS
    <3>3. S \in SUBSET Nat BY <3>2, <1>1
    <3>4. m \in S /\ \A n \in S : n <= m BY <3>1, <3>2, <1>1
    <3>5. Max(S) = m BY <3>3, <3>4, MaxIsGreatest
    <3>. QED BY <3>1, <3>2, <3>5, <1>1
  <2>. QED BY <2>1, <2>2
<1>3. d = SubSeq(c, 1, m) BY <1>2 DEF DropTrailing
<1>4. d \in Turns /\ Len(d) = m /\ \A n \in 1 .. m : d[n] = c[n]
  BY <1>3, BeginningIsPrefix DEF Turns
<1>. QED BY <1>2, <1>4

(* What is sent of the repaired turns, in their order: those with content, *)
(* but perhaps not the last turns of the model.                            *)
SentOf(sent, repaired, e, trailingUser) ==
  /\ sent \in Turns /\ Len(sent) \in 0 .. Len(e) /\ Len(e) \in Nat
  /\ \A m, n \in 1 .. Len(e) : m < n => e[m] < e[n]
  /\ \A n \in 1 .. Len(e) : e[n] \in 1 .. Len(repaired)
  /\ \A n \in 1 .. Len(sent) : sent[n] = repaired[e[n]]
  /\ \A t \in 1 .. Len(repaired) :
       ContentTurnHasContent(repaired[t]) => \E n \in 1 .. Len(e) : e[n] = t
  /\ \A n \in 1 .. Len(e) : n > Len(sent) => trailingUser /\ repaired[e[n]].role = "model"

LEMMA SentTurns ==
  ASSUME NEW contents \in Turns, NEW kind, kind.callIDs \in BOOLEAN, kind.trailingUser \in BOOLEAN,
         NEW repaired, repaired = RepairTurns(contents, kind.callIDs),
         NEW sent, sent = NormalizeContents(kind, contents)
  PROVE  \E e : SentOf(sent, repaired, e, kind.trailingUser)
<1>1. repaired \in Turns /\ Len(repaired) \in Nat /\ DOMAIN repaired = 1 .. Len(repaired)
  <2>1. repaired \in Turns BY RepairedFrom
  <2>. QED BY <2>1, TurnFacts
<1>2. PICK J, c : /\ J = {t \in DOMAIN repaired : ContentTurnHasContent(repaired[t])}
                  /\ c = ItemsAt(repaired, J)
  OBVIOUS
<1>3. c = ReconcileFunctionCallHistory(contents, kind.callIDs)
  BY <1>2 DEF ReconcileFunctionCallHistory
<1>4. PICK e : Selects(e, c, repaired, J)
  BY <1>1, <1>2, SelectionHasList DEF Turns
<1>5. c \in Turns BY <1>1, <1>2, ItemsAtType DEF Turns
<1>6. /\ Len(e) \in Nat /\ Len(c) = Len(e) /\ DOMAIN c = 1 .. Len(e)
      /\ \A m, n \in 1 .. Len(e) : m < n => e[m] < e[n]
      /\ \A n \in 1 .. Len(e) : e[n] \in 1 .. Len(repaired) /\ e[n] \in J /\ c[n] = repaired[e[n]]
      /\ \A t \in 1 .. Len(repaired) : t \in J => \E n \in 1 .. Len(e) : e[n] = t
  <2>1. Lists(e, {i \in 1 .. Len(repaired) : i \in J}) BY <1>4 DEF Selects
  <2>2. Len(e) \in Nat BY <2>1, LenProperties DEF Lists
  <2>3. \A t \in 1 .. Len(repaired) : t \in J => \E n \in 1 .. Len(e) : e[n] = t BY <2>1 DEF Lists
  <2>4. \A m, n \in 1 .. Len(e) : m < n => e[m] < e[n] BY <2>1 DEF Lists
  <2>. QED BY <2>2, <2>3, <2>4, <1>4 DEF Selects
<1>7. \A n \in 1 .. Len(c) : ContentTurnHasContent(c[n]) BY <1>2, <1>6
<1>8. ASSUME NEW d \in Turns, Len(d) \in 0 .. Len(c), \A n \in 1 .. Len(d) : d[n] = c[n],
             \A n \in 1 .. Len(c) : n <= Len(d)
      PROVE  Len(d) = Len(c) /\ d = c
  <2>1. Len(d) = Len(c) BY <1>6, <1>8
  <2>. QED BY <2>1, <1>5, <1>8, SeqEqual DEF Turns
<1>9. TrimTrailingEmptyModelTurns(c) = c
  <2>1. PICK W, d :
          /\ W = {t \in DOMAIN c : c[t].role # "model" \/ ContentTurnHasContent(c[t])}
          /\ d = DropTrailing(c, W)
    OBVIOUS
  <2>2. W = 1 .. Len(c) BY <2>1, <1>6, <1>7
  <2>3. /\ d \in Turns /\ Len(d) \in 0 .. Len(c) /\ \A n \in 1 .. Len(d) : d[n] = c[n]
        /\ \A n \in 1 .. Len(c) : n <= Len(d)
    <3>1. W \in SUBSET (1 .. Len(c)) BY <2>2
    <3>. QED BY <3>1, <2>1, <2>2, <1>5, DropTrailingFacts
  <2>4. d = c BY <2>3, <1>8
  <2>. QED BY <2>1, <2>4 DEF TrimTrailingEmptyModelTurns
<1>10. TrimTrailingEmptyTurns(c) = c
  <2>1. PICK W, d : W = {t \in DOMAIN c : ContentTurnHasContent(c[t])} /\ d = DropTrailing(c, W)
    OBVIOUS
  <2>2. W = 1 .. Len(c) BY <2>1, <1>6, <1>7
  <2>3. /\ d \in Turns /\ Len(d) \in 0 .. Len(c) /\ \A n \in 1 .. Len(d) : d[n] = c[n]
        /\ \A n \in 1 .. Len(c) : n <= Len(d)
    <3>1. W \in SUBSET (1 .. Len(c)) BY <2>2
    <3>. QED BY <3>1, <2>1, <2>2, <1>5, DropTrailingFacts
  <2>4. d = c BY <2>3, <1>8
  <2>. QED BY <2>1, <2>4 DEF TrimTrailingEmptyTurns
<1>11. sent = IF kind.trailingUser THEN DropTrailingModelPrefill(c) ELSE c
  BY <1>3, <1>9, <1>10 DEF NormalizeContents
<1>12. \A t \in 1 .. Len(repaired) : ContentTurnHasContent(repaired[t]) => t \in J BY <1>1, <1>2
<1>13. CASE ~kind.trailingUser
  <2>1. sent = c BY <1>11, <1>13
  <2>2. \A n \in 1 .. Len(e) : ~(n > Len(sent)) BY <2>1, <1>6
  <2>3. Len(sent) \in 0 .. Len(e) /\ \A n \in 1 .. Len(sent) : sent[n] = repaired[e[n]] BY <2>1, <1>6
  <2>. QED BY <2>1, <2>2, <2>3, <1>5, <1>6, <1>12 DEF SentOf
<1>14. CASE kind.trailingUser
  <2>1. PICK W : W = {t \in DOMAIN c : c[t].role # "model"} OBVIOUS
  <2>2. sent = DropTrailing(c, W) BY <2>1, <1>11, <1>14 DEF DropTrailingModelPrefill
  <2>3. W \in SUBSET (1 .. Len(c)) BY <2>1, <1>6
  <2>4. /\ sent \in Turns /\ Len(sent) \in 0 .. Len(c) /\ \A n \in 1 .. Len(sent) : sent[n] = c[n]
        /\ \A n \in W : n <= Len(sent)
    BY <2>2, <2>3, <1>5, DropTrailingFacts
  <2>5. ASSUME NEW n \in 1 .. Len(e), n > Len(sent) PROVE repaired[e[n]].role = "model"
    <3>1. n \notin W BY <2>4, <2>5, <1>6
    <3>2. c[n].role = "model" BY <3>1, <2>1, <1>6
    <3>. QED BY <3>2, <1>6
  <2>6. ASSUME NEW n \in 1 .. Len(sent) PROVE sent[n] = repaired[e[n]]
    <3>1. n \in 1 .. Len(e) BY <2>4, <1>6
    <3>. QED BY <3>1, <2>4, <1>6
  <2>. QED BY <2>4, <2>5, <2>6, <1>6, <1>12, <1>14 DEF SentOf
<1>. QED BY <1>13, <1>14

-----------------------------------------------------------------------------
Ascends(s) == \A m, n \in 1 .. Len(s) : m < n => s[m].from < s[n].from

LEMMA ConcatAscends ==
  ASSUME NEW p \in Seq(ChatPart), NEW q \in Seq(ChatPart), Ascends(p), Ascends(q), FromBefore(p, q),
         NEW r \in Seq(ChatPart), FromBefore(p, r), FromBefore(q, r), NEW s, s = p \o q
  PROVE  s \in Seq(ChatPart) /\ Ascends(s) /\ FromBefore(s, r)
<1>1. /\ s \in Seq(ChatPart) /\ Len(s) = Len(p) + Len(q)
      /\ \A n \in 1 .. Len(p) : s[n] = p[n]
      /\ \A n \in 1 .. Len(q) : s[Len(p) + n] = q[n]
  BY OfConcat
<1>2. Len(p) \in Nat /\ Len(q) \in Nat BY LenProperties
<1>3. ASSUME NEW n \in 1 .. Len(s)
      PROVE  \/ n \in 1 .. Len(p) /\ s[n] = p[n]
             \/ n - Len(p) \in 1 .. Len(q) /\ s[n] = q[n - Len(p)]
  <2>1. CASE n \in 1 .. Len(p) BY <2>1, <1>1
  <2>2. CASE n \notin 1 .. Len(p)
    <3>1. PICK m : m = n - Len(p) OBVIOUS
    <3>2. m \in 1 .. Len(q) /\ n = Len(p) + m BY <3>1, <2>2, <1>1, <1>2
    <3>. QED BY <3>1, <3>2, <1>1
  <2>. QED BY <2>1, <2>2
<1>4. ASSUME NEW m \in 1 .. Len(s), NEW n \in 1 .. Len(s), m < n PROVE s[m].from < s[n].from
  <2>1. CASE n \in 1 .. Len(p) /\ s[n] = p[n]
    <3>1. m \in 1 .. Len(p) BY <2>1, <1>4, <1>2
    <3>2. s[m] = p[m] BY <3>1, <1>1
    <3>. QED BY <1>4, <2>1, <3>1, <3>2 DEF Ascends
  <2>2. CASE n - Len(p) \in 1 .. Len(q) /\ s[n] = q[n - Len(p)]
    <3>1. PICK k : k = n - Len(p) OBVIOUS
    <3>2. CASE m \in 1 .. Len(p) /\ s[m] = p[m] BY <2>2, <3>1, <3>2 DEF FromBefore
    <3>3. CASE m - Len(p) \in 1 .. Len(q) /\ s[m] = q[m - Len(p)]
      <4>1. PICK j : j = m - Len(p) OBVIOUS
      <4>2. j < k BY <3>1, <4>1, <1>2, <1>4
      <4>. QED BY <2>2, <3>1, <3>3, <4>1, <4>2 DEF Ascends
    <3>. QED BY <3>2, <3>3, <1>3
  <2>. QED BY <2>1, <2>2, <1>3
<1>5. ASSUME NEW n \in 1 .. Len(s), NEW j \in 1 .. Len(r) PROVE s[n].from < r[j].from
  <2>1. CASE n \in 1 .. Len(p) /\ s[n] = p[n] BY <2>1 DEF FromBefore
  <2>2. CASE n - Len(p) \in 1 .. Len(q) /\ s[n] = q[n - Len(p)]
    <3>1. PICK k : k = n - Len(p) OBVIOUS
    <3>. QED BY <2>2, <3>1 DEF FromBefore
  <2>. QED BY <2>1, <2>2, <1>3
<1>6. Ascends(s) BY <1>4 DEF Ascends
<1>7. FromBefore(s, r) BY <1>5 DEF FromBefore
<1>. QED BY <1>1, <1>6, <1>7

(* Lists that ascend, one after the other, are one that ascends.           *)
AscendingLists(lists) ==
  /\ \A t \in 1 .. Len(lists) : Ascends(lists[t])
  /\ \A t, u \in 1 .. Len(lists) : t < u => FromBefore(lists[t], lists[u])

AscendsTo(s, n, lists) ==
  Ascends(s) /\ \A u \in 1 .. Len(lists) : n < u => FromBefore(s, lists[u])

LEMMA FlattenAscends ==
  ASSUME NEW lists \in Seq(Seq(ChatPart)), AscendingLists(lists)
  PROVE  Ascends(FlattenSeq(lists))
<1>1. PICK g \in [0 .. Len(lists) -> Seq(ChatPart)] : Joins(g, lists) /\ FlattenSeq(lists) = g[Len(lists)]
  BY FlattenRecursion
<1>2. PICK N : N = Len(lists) OBVIOUS
<1>3. N \in Nat /\ \A u \in 1 .. N : lists[u] \in Seq(ChatPart) BY <1>2, LenProperties, ElementOfSeq
<1>. DEFINE Good == {n \in Nat : n <= N => AscendsTo(g[n], n, lists)}
<1>4. 0 \in Good
  <2>1. g[0] = << >> BY <1>1 DEF Joins
  <2>2. Len(g[0]) = 0 BY <2>1, EmptySeq
  <2>3. AscendsTo(g[0], 0, lists) BY <2>2 DEF AscendsTo, Ascends, FromBefore
  <2>. QED BY <2>3
<1>5. ASSUME NEW n \in Nat, n \in Good PROVE n + 1 \in Good
  <2>. SUFFICES ASSUME n + 1 <= N PROVE AscendsTo(g[n + 1], n + 1, lists)
    OBVIOUS
  <2>1. PICK k : k = n + 1 OBVIOUS
  <2>2. k \in 1 .. N /\ k - 1 = n /\ n \in 0 .. N /\ n < k BY <2>1, <1>3
  <2>3. PICK p, q, s : p = g[n] /\ q = lists[k] /\ s = g[k] OBVIOUS
  <2>4. p \in Seq(ChatPart) /\ q \in Seq(ChatPart) BY <2>2, <2>3, <1>1, <1>2, <1>3
  <2>5. s = p \o q BY <2>2, <2>3, <1>1, <1>2 DEF Joins
  <2>6. AscendsTo(p, n, lists) BY <2>2, <2>3, <1>5
  <2>7. Ascends(p) /\ FromBefore(p, q) BY <2>2, <2>3, <2>6, <1>2 DEF AscendsTo
  <2>8. Ascends(q) BY <2>2, <2>3, <1>2 DEF AscendingLists
  <2>9. Ascends(s)
    <3>1. PICK r : r = << >> OBVIOUS
    <3>2. r \in Seq(ChatPart) /\ Len(r) = 0 BY <3>1, EmptySeq
    <3>3. FromBefore(p, r) /\ FromBefore(q, r) BY <3>2 DEF FromBefore
    <3>. QED BY <3>2, <3>3, <2>4, <2>5, <2>7, <2>8, ConcatAscends
  <2>10. ASSUME NEW u \in 1 .. Len(lists), k < u PROVE FromBefore(s, lists[u])
    <3>1. PICK r : r = lists[u] OBVIOUS
    <3>2. r \in Seq(ChatPart) BY <3>1, <1>2, <1>3
    <3>3. n < u BY <2>10, <2>2, <1>2, <1>3
    <3>4. FromBefore(p, r) BY <3>1, <3>3, <2>6 DEF AscendsTo
    <3>5. FromBefore(q, r) BY <3>1, <2>2, <2>3, <2>10, <1>2 DEF AscendingLists
    <3>. QED BY <3>1, <3>2, <3>4, <3>5, <2>4, <2>5, <2>7, <2>8, ConcatAscends
  <2>. QED BY <2>1, <2>3, <2>9, <2>10 DEF AscendsTo
<1>6. Nat \subseteq Good
  <2>. HIDE DEF Good
  <2>. QED BY <1>4, <1>5, InductionOnNat
<1>7. AscendsTo(g[N], N, lists) BY <1>3, <1>6
<1>. QED BY <1>1, <1>2, <1>7 DEF AscendsTo

(* The texts of parts are some of them, in their order.                    *)
LEMMA TextsOf ==
  ASSUME NEW parts \in Seq(ChatPart), NEW s, s = Collect(parts, "text")
  PROVE  /\ s \in Seq(ChatPart)
         /\ TextsInOrder(parts) => Ascends(s)
         /\ \A n \in 1 .. Len(s) : \E i \in 1 .. Len(parts) : s[n] = parts[i]
         /\ \A i \in 1 .. Len(parts) : parts[i].kind = "text" => \E n \in 1 .. Len(s) : s[n] = parts[i]
<1>1. PICK at : at = PartIndices(parts, "text") OBVIOUS
<1>2. /\ Lists(at, PlacesOf(parts, "text")) /\ Len(at) \in Nat /\ Len(s) = Len(at)
      /\ s \in Seq(ChatPart)
      /\ \A n \in 1 .. Len(at) : /\ at[n] \in 1 .. Len(parts) /\ at[n] \in PlacesOf(parts, "text")
                                 /\ s[n] = parts[at[n]]
  BY <1>1, PlacedFacts
<1>3. DOMAIN parts = 1 .. Len(parts) BY LenProperties
<1>4. ASSUME TextsInOrder(parts), NEW m \in 1 .. Len(s), NEW n \in 1 .. Len(s), m < n
      PROVE  s[m].from < s[n].from
  <2>1. at[m] < at[n] BY <1>2, <1>4 DEF Lists
  <2>2. PICK i, j : i = at[m] /\ j = at[n] OBVIOUS
  <2>3. i \in 1 .. Len(parts) /\ j \in 1 .. Len(parts) /\ i < j /\ s[m] = parts[i] /\ s[n] = parts[j]
    BY <2>1, <2>2, <1>2
  <2>4. parts[i].kind = "text" /\ parts[j].kind = "text" BY <2>2, <1>2 DEF PlacesOf
  <2>. QED BY <1>4, <2>3, <2>4 DEF TextsInOrder
<1>5. ASSUME NEW i \in 1 .. Len(parts), parts[i].kind = "text" PROVE \E n \in 1 .. Len(s) : s[n] = parts[i]
  <2>1. i \in PlacesOf(parts, "text") BY <1>3, <1>5 DEF PlacesOf
  <2>2. PICK n \in 1 .. Len(at) : at[n] = i BY <2>1, <1>2 DEF Lists
  <2>. QED BY <2>2, <1>2
<1>6. TextsInOrder(parts) => Ascends(s) BY <1>4 DEF Ascends
<1>. QED BY <1>2, <1>5, <1>6

LEMMA TextDrawn ==
  ASSUME NEW new, NEW parts \in Seq(ChatPart), DrawnFrom(new, parts),
         NEW i \in 1 .. Len(parts), parts[i].kind = "text"
  PROVE  \E k \in 1 .. Len(new) : new[k] = parts[i]
<1>1. PICK s : s = Collect(new, "text") OBVIOUS
<1>2. new \in Seq(ChatPart) /\ s = Collect(parts, "text") BY <1>1 DEF DrawnFrom
<1>3. PICK n \in 1 .. Len(s) : s[n] = parts[i] BY <1>2, TextsOf
<1>4. \E k \in 1 .. Len(new) : s[n] = new[k] BY <1>1, <1>2, TextsOf
<1>. QED BY <1>3, <1>4

(* Where a turn's part comes from.                                         *)
Originates(x, c, role, kinds, t, i) ==
  /\ t \in 1 .. Len(c) /\ c[t].role = role
  /\ i \in 1 .. Len(c[t].parts) /\ c[t].parts[i].kind \in kinds /\ c[t].parts[i].from = x

LEMMA Origins ==
  ASSUME NEW c \in Turns, NEW role, NEW kinds, NEW x
  PROVE  x \in OriginsOf(c, role, kinds) <=> \E t, i : Originates(x, c, role, kinds, t, i)
<1>1. /\ DOMAIN c = 1 .. Len(c) /\ Len(c) \in Nat
      /\ \A t \in DOMAIN c : DOMAIN c[t].parts = 1 .. Len(c[t].parts)
  <2>1. ASSUME NEW t \in DOMAIN c PROVE DOMAIN c[t].parts = 1 .. Len(c[t].parts)
    <3>1. c[t].parts \in Seq(ChatPart) BY TurnFacts
    <3>. QED BY <3>1, LenProperties
  <2>. QED BY <2>1, TurnFacts
<1>2. x \in OriginsOf(c, role, kinds) <=>
        \E t \in DOMAIN c : c[t].role = role /\ \E q \in ToSet(c[t].parts) : q.kind \in kinds /\ q.from = x
  BY DEF OriginsOf
<1>3. ASSUME NEW t \in DOMAIN c
      PROVE  (\E q \in ToSet(c[t].parts) : q.kind \in kinds /\ q.from = x) <=>
               \E i \in 1 .. Len(c[t].parts) : c[t].parts[i].kind \in kinds /\ c[t].parts[i].from = x
  <2>1. \A q : q \in ToSet(c[t].parts) <=> \E i \in 1 .. Len(c[t].parts) : q = c[t].parts[i]
    BY <1>1 DEF ToSet
  <2>. QED BY <2>1
<1>. QED BY <1>1, <1>2, <1>3 DEF Originates

(* What is sent, part by part.                                             *)
Normalized(contents, sent, e, trailingUser) ==
  /\ sent \in Turns /\ contents \in Turns
  /\ Len(sent) \in 0 .. Len(e) /\ Len(e) \in Nat
  /\ \A m, n \in 1 .. Len(e) : m < n => e[m] < e[n]
  /\ \A n \in 1 .. Len(e) : e[n] \in 1 .. Len(contents)
  /\ \A n \in 1 .. Len(sent) : /\ sent[n].role = contents[e[n]].role
                               /\ DrawnFrom(sent[n].parts, contents[e[n]].parts)
  /\ \A t \in 1 .. Len(contents) : \A i \in 1 .. Len(contents[t].parts) :
       contents[t].parts[i].kind = "text" => \E n \in 1 .. Len(e) : e[n] = t
  /\ \A n \in 1 .. Len(e) : n > Len(sent) => trailingUser /\ contents[e[n]].role = "model"

LEMMA NormalizedContents ==
  ASSUME NEW contents \in Turns, NEW kind, kind.callIDs \in BOOLEAN, kind.trailingUser \in BOOLEAN,
         NEW sent, sent = NormalizeContents(kind, contents)
  PROVE  \E e : Normalized(contents, sent, e, kind.trailingUser)
<1>1. PICK repaired, callIDs : callIDs = kind.callIDs /\ repaired = RepairTurns(contents, callIDs) OBVIOUS
<1>2. /\ repaired \in Turns /\ Len(repaired) = Len(contents)
      /\ \A t \in 1 .. Len(contents) : /\ repaired[t].role = contents[t].role
                                       /\ DrawnFrom(repaired[t].parts, contents[t].parts)
  BY <1>1, RepairedFrom
<1>3. PICK e : SentOf(sent, repaired, e, kind.trailingUser) BY <1>1, SentTurns
<1>4. ASSUME NEW t \in 1 .. Len(contents), NEW i \in 1 .. Len(contents[t].parts),
             contents[t].parts[i].kind = "text"
      PROVE  \E n \in 1 .. Len(e) : e[n] = t
  <2>1. PICK new, parts : new = repaired[t].parts /\ parts = contents[t].parts OBVIOUS
  <2>2. DrawnFrom(new, parts) BY <2>1, <1>2
  <2>3. parts \in Seq(ChatPart) BY <2>1, TurnFacts
  <2>4. PICK k \in 1 .. Len(new) : new[k] = parts[i] BY <1>4, <2>1, <2>2, <2>3, TextDrawn
  <2>5. new[k].kind # "blank" BY <1>4, <2>1, <2>4
  <2>6. k \in DOMAIN repaired[t].parts
    <3>1. new \in Seq(ChatPart) BY <2>2 DEF DrawnFrom
    <3>. QED BY <3>1, <2>1, LenProperties
  <2>7. ContentTurnHasContent(repaired[t]) BY <2>1, <2>5, <2>6 DEF ContentTurnHasContent
  <2>. QED BY <2>7, <1>2, <1>3 DEF SentOf
<1>5. ASSUME NEW n \in 1 .. Len(e) PROVE e[n] \in 1 .. Len(contents) BY <1>2, <1>3 DEF SentOf
<1>6. ASSUME NEW n \in 1 .. Len(sent)
      PROVE  sent[n].role = contents[e[n]].role /\ DrawnFrom(sent[n].parts, contents[e[n]].parts)
  <2>1. sent[n] = repaired[e[n]] /\ Len(sent) \in 0 .. Len(e) /\ Len(e) \in Nat BY <1>3 DEF SentOf
  <2>2. e[n] \in 1 .. Len(contents) BY <2>1, <1>5
  <2>. QED BY <2>1, <2>2, <1>2
<1>7. ASSUME NEW n \in 1 .. Len(e), n > Len(sent)
      PROVE  kind.trailingUser /\ contents[e[n]].role = "model"
  <2>1. kind.trailingUser /\ repaired[e[n]].role = "model" BY <1>3, <1>7 DEF SentOf
  <2>. QED BY <2>1, <1>2, <1>5
<1>8. /\ sent \in Turns /\ Len(sent) \in 0 .. Len(e) /\ Len(e) \in Nat
      /\ \A m, n \in 1 .. Len(e) : m < n => e[m] < e[n]
  BY <1>3 DEF SentOf
<1>9. Normalized(contents, sent, e, kind.trailingUser)
  BY <1>4, <1>5, <1>6, <1>7, <1>8 DEF Normalized
<1>. QED BY <1>9

(* A part that is sent was in a turn, and a text of a turn is sent unless  *)
(* its turn is not.                                                        *)
LEMMA SentOrigin ==
  ASSUME NEW contents, NEW sent, NEW e, NEW trailingUser, Normalized(contents, sent, e, trailingUser),
         NEW x, NEW role, NEW kinds, NEW n, NEW i, Originates(x, sent, role, kinds, n, i)
  PROVE  n \in 1 .. Len(e) /\ \E k : Originates(x, contents, role, kinds, e[n], k)
<1>1. /\ n \in 1 .. Len(sent) /\ i \in 1 .. Len(sent[n].parts) /\ sent[n].role = role
      /\ sent[n].parts[i].kind \in kinds /\ sent[n].parts[i].from = x
  BY DEF Originates
<1>2. n \in 1 .. Len(e) BY <1>1 DEF Normalized
<1>3. e[n] \in 1 .. Len(contents) /\ sent[n].role = contents[e[n]].role BY <1>1, <1>2 DEF Normalized
<1>4. PICK new, parts : new = sent[n].parts /\ parts = contents[e[n]].parts OBVIOUS
<1>5. DrawnFrom(new, parts) BY <1>1, <1>4 DEF Normalized
<1>6. PICK k \in 1 .. Len(parts) : new[i].kind = parts[k].kind /\ new[i].from = parts[k].from
  BY <1>1, <1>4, <1>5 DEF DrawnFrom
<1>7. Originates(x, contents, role, kinds, e[n], k) BY <1>1, <1>3, <1>4, <1>6 DEF Originates
<1>. QED BY <1>2, <1>7

LEMMA TextOrigin ==
  ASSUME NEW contents, NEW sent, NEW e, NEW trailingUser, Normalized(contents, sent, e, trailingUser),
         NEW x, NEW role, NEW t, NEW i, Originates(x, contents, role, {"text"}, t, i)
  PROVE  \E n \in 1 .. Len(e) :
           /\ e[n] = t
           /\ n <= Len(sent) => x \in OriginsOf(sent, role, {"text"})
           /\ n > Len(sent) => trailingUser /\ role = "model"
<1>1. /\ t \in 1 .. Len(contents) /\ i \in 1 .. Len(contents[t].parts) /\ contents[t].role = role
      /\ contents[t].parts[i].kind = "text" /\ contents[t].parts[i].from = x
  BY DEF Originates
<1>2. PICK n \in 1 .. Len(e) : e[n] = t BY <1>1 DEF Normalized
<1>3. ASSUME n <= Len(sent) PROVE x \in OriginsOf(sent, role, {"text"})
  <2>1. n \in 1 .. Len(sent) BY <1>3 DEF Normalized
  <2>2. PICK new, parts : new = sent[n].parts /\ parts = contents[t].parts OBVIOUS
  <2>3. sent[n].role = role /\ DrawnFrom(new, parts) BY <1>1, <1>2, <2>1, <2>2 DEF Normalized
  <2>4. parts \in Seq(ChatPart)
    <3>1. contents \in Turns BY DEF Normalized
    <3>. QED BY <3>1, <1>1, <2>2, TurnFacts
  <2>5. PICK k \in 1 .. Len(new) : new[k] = parts[i] BY <1>1, <2>2, <2>3, <2>4, TextDrawn
  <2>6. Originates(x, sent, role, {"text"}, n, k) BY <1>1, <2>1, <2>2, <2>3, <2>5 DEF Originates
  <2>7. sent \in Turns BY DEF Normalized
  <2>. QED BY <2>6, <2>7, Origins
<1>4. ASSUME n > Len(sent) PROVE trailingUser /\ role = "model"
  BY <1>1, <1>2, <1>4 DEF Normalized
<1>. QED BY <1>2, <1>3, <1>4

LEMMA TextIsKeptAfterwards ==
  ASSUME NEW contents \in Turns, NEW N, OrderedTurns(contents, N),
         NEW kind, kind.callIDs \in BOOLEAN, kind.trailingUser \in BOOLEAN,
         NEW sent, sent = NormalizeContents(kind, contents)
  PROVE  TextIsKept(kind, contents, sent)
<1>1. PICK e, trailingUser : trailingUser = kind.trailingUser /\ Normalized(contents, sent, e, trailingUser)
  BY NormalizedContents
<1>2. /\ sent \in Turns /\ Len(sent) \in 0 .. Len(e) /\ Len(e) \in Nat
      /\ \A m, n \in 1 .. Len(e) : m < n => e[m] < e[n]
      /\ \A n \in 1 .. Len(e) : e[n] \in 1 .. Len(contents)
  BY <1>1 DEF Normalized
<1>3. OriginsOf(sent, "user", {"text"}) = OriginsOf(contents, "user", {"text"})
  <2>1. ASSUME NEW x \in OriginsOf(sent, "user", {"text"}) PROVE x \in OriginsOf(contents, "user", {"text"})
    <3>1. PICK n, i : Originates(x, sent, "user", {"text"}, n, i) BY <1>2, Origins
    <3>2. \E k : Originates(x, contents, "user", {"text"}, e[n], k) BY <1>1, <3>1, SentOrigin
    <3>. QED BY <3>2, Origins
  <2>2. ASSUME NEW x \in OriginsOf(contents, "user", {"text"}) PROVE x \in OriginsOf(sent, "user", {"text"})
    <3>1. PICK t, i : Originates(x, contents, "user", {"text"}, t, i) BY Origins
    <3>2. PICK n \in 1 .. Len(e) :
            /\ n <= Len(sent) => x \in OriginsOf(sent, "user", {"text"})
            /\ n > Len(sent) => trailingUser /\ "user" = "model"
      BY <1>1, <3>1, TextOrigin
    <3>3. n <= Len(sent) BY <3>2, <1>2
    <3>. QED BY <3>2, <3>3
  <2>. QED BY <2>1, <2>2
<1>4. PICK lost : lost = OriginsOf(contents, "model", {"text"}) \ OriginsOf(sent, "model", {"text"})
  OBVIOUS
<1>5. ASSUME NEW k \in lost
      PROVE  \E n, i : /\ n \in 1 .. Len(e) /\ n > Len(sent) /\ trailingUser
                        /\ Originates(k, contents, "model", {"text"}, e[n], i)
  <2>1. k \in OriginsOf(contents, "model", {"text"}) /\ k \notin OriginsOf(sent, "model", {"text"})
    BY <1>4
  <2>2. PICK t, i : Originates(k, contents, "model", {"text"}, t, i) BY <2>1, Origins
  <2>3. PICK n \in 1 .. Len(e) :
          /\ e[n] = t
          /\ n <= Len(sent) => k \in OriginsOf(sent, "model", {"text"})
          /\ n > Len(sent) => trailingUser /\ "model" = "model"
    BY <1>1, <2>2, TextOrigin
  <2>4. n > Len(sent) BY <2>1, <2>3, <1>2
  <2>. QED BY <2>2, <2>3, <2>4
<1>6. lost # {} => kind.trailingUser BY <1>1, <1>5
<1>7. ASSUME NEW k \in lost, NEW u \in OriginsOf(sent, "user", {"text", "response"}) PROVE u < k
  <2>1. PICK n, i : /\ n \in 1 .. Len(e) /\ n > Len(sent)
                    /\ Originates(k, contents, "model", {"text"}, e[n], i)
    BY <1>5
  <2>2. PICK m, j : Originates(u, sent, "user", {"text", "response"}, m, j) BY <1>2, Origins
  <2>3. m \in 1 .. Len(e) /\ m \in 1 .. Len(sent)
    <3>1. m \in 1 .. Len(e) BY <1>1, <2>2, SentOrigin
    <3>2. m \in 1 .. Len(sent) BY <2>2 DEF Originates
    <3>. QED BY <3>1, <3>2
  <2>4. PICK h : Originates(u, contents, "user", {"text", "response"}, e[m], h)
    BY <1>1, <2>2, SentOrigin
  <2>5. e[m] < e[n] BY <1>2, <2>1, <2>3
  <2>6. FromBefore(contents[e[m]].parts, contents[e[n]].parts)
    BY <1>2, <2>1, <2>3, <2>5 DEF OrderedTurns
  <2>. QED BY <2>1, <2>4, <2>6 DEF Originates, FromBefore
<1>8. PICK lists : lists = [t \in DOMAIN sent |-> Collect(sent[t].parts, "text")] OBVIOUS
<1>9. DOMAIN sent = 1 .. Len(sent) /\ Len(sent) \in Nat BY <1>2, TurnFacts
<1>10. ASSUME NEW n \in 1 .. Len(sent)
       PROVE  /\ lists[n] = Collect(contents[e[n]].parts, "text")
              /\ contents[e[n]].parts \in Seq(ChatPart) /\ lists[n] \in Seq(ChatPart)
  <2>1. lists[n] = Collect(sent[n].parts, "text") BY <1>8, <1>9
  <2>2. DrawnFrom(sent[n].parts, contents[e[n]].parts) BY <1>1 DEF Normalized
  <2>3. contents[e[n]].parts \in Seq(ChatPart)
    <3>1. e[n] \in 1 .. Len(contents) BY <1>2
    <3>. QED BY <3>1, TurnFacts
  <2>4. lists[n] = Collect(contents[e[n]].parts, "text") BY <2>1, <2>2 DEF DrawnFrom
  <2>. QED BY <2>3, <2>4, TextsOf
<1>11. lists \in Seq(Seq(ChatPart)) /\ Len(lists) = Len(sent)
  <2>1. lists \in [1 .. Len(sent) -> Seq(ChatPart)] BY <1>8, <1>9, <1>10
  <2>. QED BY <2>1, <1>9
<1>12. AscendingLists(lists)
  <2>1. ASSUME NEW n \in 1 .. Len(sent) PROVE Ascends(lists[n])
    <3>1. TextsInOrder(contents[e[n]].parts) BY <1>2 DEF OrderedTurns
    <3>. QED BY <3>1, <1>10, TextsOf
  <2>2. ASSUME NEW m \in 1 .. Len(sent), NEW n \in 1 .. Len(sent), m < n
        PROVE  FromBefore(lists[m], lists[n])
    <3>1. PICK p, q : p = contents[e[m]].parts /\ q = contents[e[n]].parts OBVIOUS
    <3>2. FromBefore(p, q)
      <4>1. m \in 1 .. Len(e) /\ n \in 1 .. Len(e) BY <1>2
      <4>. QED BY <3>1, <4>1, <2>2, <1>2 DEF OrderedTurns
    <3>3. /\ \A k \in 1 .. Len(lists[m]) : \E i \in 1 .. Len(p) : lists[m][k] = p[i]
          /\ \A k \in 1 .. Len(lists[n]) : \E i \in 1 .. Len(q) : lists[n][k] = q[i]
      <4>1. lists[m] = Collect(p, "text") /\ p \in Seq(ChatPart) BY <3>1, <1>10
      <4>2. lists[n] = Collect(q, "text") /\ q \in Seq(ChatPart) BY <3>1, <1>10
      <4>. QED BY <4>1, <4>2, TextsOf
    <3>. QED BY <3>2, <3>3 DEF FromBefore
  <2>. QED BY <2>1, <2>2, <1>11 DEF AscendingLists
<1>13. PICK texts : texts = FlattenSeq(lists) OBVIOUS
<1>14. Ascends(texts) BY <1>11, <1>12, <1>13, FlattenAscends
<1>15. DOMAIN texts = 1 .. Len(texts)
  <2>1. texts \in Seq(ChatPart) BY <1>11, <1>13, FlattenType
  <2>. QED BY <2>1, LenProperties
<1>16. \A m, n \in DOMAIN texts : m < n => texts[m].from < texts[n].from
  BY <1>14, <1>15 DEF Ascends
<1>. QED BY <1>3, <1>4, <1>6, <1>7, <1>8, <1>13, <1>16 DEF TextIsKept

-----------------------------------------------------------------------------
(* The history that is normalised, and what is made of it.                 *)
IsHistory(h) ==
  \E kind \in ModelKinds, history \in Seq(ChatMessages) : h = << kind, history >>

IsNormalized(h, value) ==
  /\ value.converted = ConvertMessages(h[2])
  /\ value.repaired = RepairTurns(value.converted, h[1].callIDs)
  /\ value.sent = NormalizeContents(h[1], value.converted)

Normalizing ==
  /\ conversion = "history" => IsHistory(input)
  /\ Done("history") => IsNormalized(input, result.value)

LEMMA NormalizingInvariant == ConversionSpec => []Normalizing
<1>1. ConversionInit => Normalizing
  <2>. SUFFICES ASSUME ConversionInit PROVE Normalizing OBVIOUS
  <2>1. ~Done("history") BY DEF ConversionInit, Done, Pending
  <2>2. ASSUME conversion = "history" PROVE IsHistory(input)
    <3>1. PICK kind \in ModelKinds, n \in 1 .. MaxMessages :
            \E history \in [1 .. n -> Messages] : input = << kind, history >>
      BY <2>2 DEF ConversionInit
    <3>2. PICK history \in [1 .. n -> Messages] : input = << kind, history >> BY <3>1
    <3>3. n \in Nat /\ Messages \subseteq ChatMessages BY InputAssumption
    <3>4. history \in Seq(Messages) BY <3>3
    <3>5. history \in Seq(ChatMessages) BY <3>3, <3>4, SeqMonotonic
    <3>. QED BY <3>2, <3>5 DEF IsHistory
  <2>. QED BY <2>1, <2>2 DEF Normalizing
<1>2. Normalizing /\ [ConversionNext]_conversionVars => Normalizing'
  <2>. SUFFICES ASSUME Normalizing, [ConversionNext]_conversionVars PROVE Normalizing'
    OBVIOUS
  <2>1. CASE ReadAnswer \/ ReportUsage \/ ReadBody
    <3>1. conversion' = conversion /\ input' = input /\ conversion # "history"
      BY <2>1 DEF ReadAnswer, ReportUsage, ReadBody, Finish
    <3>. QED BY <3>1 DEF Normalizing, Done
  <2>2. CASE NormalizeHistory
    <3>1. conversion' = conversion /\ input' = input BY <2>2 DEF NormalizeHistory, Finish
    <3>2. PICK contents, repaired, sent :
            /\ contents = ConvertMessages(input[2])
            /\ repaired = RepairTurns(contents, input[1].callIDs)
            /\ sent = NormalizeContents(input[1], contents)
      OBVIOUS
    <3>3. result'.value = [converted |-> contents, repaired |-> repaired, sent |-> sent]
      BY <2>2, <3>2 DEF NormalizeHistory, Finish
    <3>4. IsNormalized(input, result'.value) BY <3>2, <3>3 DEF IsNormalized
    <3>. QED BY <3>1, <3>4 DEF Normalizing, Done
  <2>3. CASE UNCHANGED conversionVars
    BY <2>3 DEF conversionVars, Normalizing, Done
  <2>. QED BY <2>1, <2>2, <2>3 DEF ConversionNext
<1>. QED BY <1>1, <1>2, PTL DEF ConversionSpec

LEMMA NormalizedFacts ==
  ASSUME NEW h, IsHistory(h), NEW value, IsNormalized(h, value)
  PROVE  /\ h[1].callIDs \in BOOLEAN /\ h[1].trailingUser \in BOOLEAN
         /\ value.converted \in Turns /\ \E N : OrderedTurns(value.converted, N)
         /\ value.repaired = RepairTurns(value.converted, h[1].callIDs)
         /\ value.sent = NormalizeContents(h[1], value.converted)
<1>1. PICK kind \in ModelKinds, history \in Seq(ChatMessages) : h = << kind, history >>
  BY DEF IsHistory
<1>2. h[1] = kind /\ h[2] = history BY <1>1
<1>3. kind.callIDs \in BOOLEAN /\ kind.trailingUser \in BOOLEAN
  <2>1. \/ kind = [trailingUser |-> FALSE, callIDs |-> FALSE]
        \/ kind = [trailingUser |-> TRUE,  callIDs |-> FALSE]
        \/ kind = [trailingUser |-> TRUE,  callIDs |-> TRUE]
    BY DEF ModelKinds
  <2>2. CASE kind = [trailingUser |-> FALSE, callIDs |-> FALSE] BY <2>2, Zenon
  <2>3. CASE kind = [trailingUser |-> TRUE,  callIDs |-> FALSE] BY <2>3, Zenon
  <2>4. CASE kind = [trailingUser |-> TRUE,  callIDs |-> TRUE]  BY <2>4, Zenon
  <2>. QED BY <2>1, <2>2, <2>3, <2>4
<1>4. ConvertMessages(history) \in Turns /\ OrderedTurns(ConvertMessages(history), Len(history))
  BY ConvertedTurns
<1>. QED BY <1>2, <1>3, <1>4 DEF IsNormalized

(* Whatever a client lost of a conversation of any length, and whatever it *)
(* names and ids, each call turn the upstream gets before a response turn  *)
(* has a response for every call, in the order of the calls, under a common*)
(* id where the model asks for one.  The hypothesis says that an id that   *)
(* is made ("call_vertex2api_...") is not the empty string; the provers do *)
(* not see the letters of a string.                                        *)
THEOREM HistoryPairsAlwaysMatch ==
  ASSUME \A t, p \in Nat : GeneratedId(t, p) # ""
  PROVE  ConversionSpec => []HistoryPairsMatch
<1>1. Normalizing => HistoryPairsMatch
  <2>1. ASSUME Normalizing, Done("history")
        PROVE  PairsMatch(input[1], result.value.converted, result.value.repaired)
    <3>1. PICK kind, value : kind = input[1] /\ value = result.value OBVIOUS
    <3>2. IsHistory(input) /\ IsNormalized(input, value) BY <2>1, <3>1 DEF Normalizing, Done
    <3>3. /\ kind.callIDs \in BOOLEAN /\ value.converted \in Turns
          /\ value.repaired = RepairTurns(value.converted, kind.callIDs)
      BY <3>1, <3>2, NormalizedFacts
    <3>4. IdsAreGenerated BY DEF IdsAreGenerated
    <3>5. PICK contents, repaired : contents = value.converted /\ repaired = value.repaired OBVIOUS
    <3>6. PICK callIDs : callIDs = kind.callIDs OBVIOUS
    <3>7. /\ contents \in Turns /\ callIDs \in BOOLEAN /\ repaired = RepairTurns(contents, callIDs)
          /\ Promised(callIDs)
      BY <3>3, <3>4, <3>5, <3>6 DEF Promised
    <3>8. PairsMatch(kind, contents, repaired) BY <3>6, <3>7, PairsMatchAfterwards
    <3>. QED BY <3>1, <3>5, <3>8
  <2>. QED BY <2>1 DEF HistoryPairsMatch
<1>. QED BY <1>1, NormalizingInvariant, PTL

(* A call turn whose calls all have their response, in whatever order they *)
(* came, loses and changes nothing.                                        *)
THEOREM CompleteTurnsAlwaysStay == ConversionSpec => []CompleteTurnsStay
<1>1. Normalizing => CompleteTurnsStay
  <2>1. ASSUME Normalizing, Done("history")
        PROVE  CompleteTurnsAreKept(result.value.converted, result.value.repaired)
    <3>1. PICK callIDs, value : callIDs = input[1].callIDs /\ value = result.value OBVIOUS
    <3>2. IsHistory(input) /\ IsNormalized(input, value) BY <2>1, <3>1 DEF Normalizing, Done
    <3>3. /\ callIDs \in BOOLEAN /\ value.converted \in Turns
          /\ value.repaired = RepairTurns(value.converted, callIDs)
      BY <3>1, <3>2, NormalizedFacts
    <3>4. CompleteTurnsAreKept(value.converted, value.repaired)
      BY <3>3, CompleteTurnsAreKeptAfterwards
    <3>. QED BY <3>1, <3>4
  <2>. QED BY <2>1 DEF CompleteTurnsStay
<1>. QED BY <1>1, NormalizingInvariant, PTL

(* No text of a conversation of any length is lost or moved, except what   *)
(* the assistant said after everything else, for a model that cannot go on *)
(* from it.                                                                *)
THEOREM HistoryTextIsAlwaysKept == ConversionSpec => []HistoryTextIsKept
<1>1. Normalizing => HistoryTextIsKept
  <2>1. ASSUME Normalizing, Done("history")
        PROVE  TextIsKept(input[1], result.value.converted, result.value.sent)
    <3>1. PICK kind, value : kind = input[1] /\ value = result.value OBVIOUS
    <3>2. IsHistory(input) /\ IsNormalized(input, value) BY <2>1, <3>1 DEF Normalizing, Done
    <3>3. /\ kind.callIDs \in BOOLEAN /\ kind.trailingUser \in BOOLEAN
          /\ value.converted \in Turns /\ \E N : OrderedTurns(value.converted, N)
          /\ value.sent = NormalizeContents(kind, value.converted)
      BY <3>1, <3>2, NormalizedFacts
    <3>4. PICK N : OrderedTurns(value.converted, N) BY <3>3
    <3>5. TextIsKept(kind, value.converted, value.sent) BY <3>3, <3>4, TextIsKeptAfterwards
    <3>. QED BY <3>1, <3>5
  <2>. QED BY <2>1 DEF HistoryTextIsKept
<1>. QED BY <1>1, NormalizingInvariant, PTL
=============================================================================
