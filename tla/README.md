# Verification of vertex2api

vertex2api is an HTTP server that offers the OpenAI, Anthropic and Gemini APIs on top of the
anonymous Vertex AI endpoint. Each upstream request carries a reCAPTCHA token; much of the program
is about getting such tokens, retrying with them, and turning one upstream stream into the event
streams of three protocols. This directory models the parts whose errors tests hardly reach:
concurrency of requests, retries, crashes around files, and the order of streamed events.

Run from this directory: `tlc -config <cfg> <module>` for a model, `tlapm <proof module>.tla` for
the proofs of section 2's last column. `PROJECT.json` lists components, runs, mutants, the map from
definitions to source lines, findings, hazards and theorems.

## 1. Inventory

| component | state it keeps | operations | who uses it | what makes it hard |
|---|---|---|---|---|
| token cache (`recaptcha/recaptcha.go`) | map token -> expiry, in-use flag; one mutex | `GetTokenContext`, `Release`, `Retire` | every request goroutine | the fetch runs outside the mutex; entries expire under running leases; the clock is read before the mutex; leases end in any order |
| retry loop (`proxy/vertex.go`: `call`, `stream`, `doCall`, `doStream`) | per request: retries of the token, exempt retry used, refreshes, bypass used, pending chunks, emitted | one attempt, classification of its failure, retry, refresh | all handlers | four budgets reset at different loops; a stream may not restart after output; cancellation at any point |
| leases of a request (`BuildBodyWithToken...`, `replaceRecaptchaTokenForRetry`) | the lease in the variable `tokenLease`, a second one while it is replaced | take, replace (retire), release by `defer` | the retry loop and the cache | every error path has to end every lease exactly once |
| API key file (`config/config.go`) | the file named by `API_KEY_FILE` | load, create exclusively, write, reload | each start of the program | two starts at once, crash between create and write, failed writes |
| Code 3 log (`proxy/code3_request_log.go`) | a file of JSON lines that is also the deduplication state; one mutex | `capture` | `doStream` after an upstream error of code 3 | torn writes, deletion while open, failed sync, concurrent captures |
| Anthropic stream (`handler/anthropic.go`) | block state machine: next index, open blocks, text seen, signature flag; stage of the signature fallback | write block, close blocks, finish, error | the Messages handler | any order of text, thinking, tools; errors before and after `message_start`; cumulative or incremental chunks |
| upstream parser (`streamVertexResponse`, `vertexStreamEmitter`) | the pending finish reasons of an answer | decode (array, objects, SSE), emit, flush, join texts | the retry loop | a finish reason may precede content; errors inside the stream; an answer cut off anywhere |
| request history (`convertMessages`, `normalizeContents`) | none that outlives a request | messages to turns, match calls with responses, drop and trim | all handlers | clients lose calls, responses, ids and names; turns must match in number |
| Chat Completions stream (`handler/chat.go`) | aggregate, commit flag, tool-call indices | chunk, end, error | OpenAI clients | indices and finish reason over chunks |
| Responses stream (`handler/responses.go`) | sequence number, output items, aggregate | chunk, complete, fail, compact | OpenAI clients | exactly one terminal event, numbering |
| Gemini stream (`handler/gemini.go`) | a pending chunk held back, usage snapshots | set, merge, emit, end | Gemini clients | the held chunk is written exactly once |
| usage (`handler/usage.go`) | revision of the upstream's usage | observe, snapshot, resolve, report, add (saturating) | all handlers | later chunks invalidate earlier numbers; counters missing, unusable or contradictory; overflow |
| model catalog (`model/catalog.go`, `model/fetcher.go`, `handler/models_refresh.go`) | catalog in memory; read-write mutex | fetch, install, list, known? | handlers, cron, manual refresh | fetch outside the lock; several refreshers |
| statistics (`stats/stats.go`) | counters per base URL | record request, record success, read | `doStream`, stats handler | four critical sections per attempt; attempts that fail or crash between them |
| server (`main.go`, `middleware/`) | listener, root context | start, serve, shut down | - | shutdown with requests running |
| client, images, native tools, validation, schemas | none that outlives a request | pure conversions | handlers | large input space |

Interactions. A handler builds a body, which leases a token (`TokenCache`), and calls `call` or
`stream` with the lease; the loop makes attempts through `doStream`, which records statistics,
captures code-3 errors and hands chunks through the parser to the loop's callback, and this to the
handler's `onChunk`. `onChunk` writes to the client and its error stops the attempt. The context of
the HTTP request is passed through all of it. The API key file is read at start, before any of this.

What is correct for each component:

* token cache: two live leases never carry one token; a retired token does not come back; no entry
  stays in use without a lease; a lease from the cache was not older than the TTL when it was asked
  for; every call returns.
* retry loop: the caller gets the chunks of exactly one answer, in order; a bounded number of
  attempts; after cancellation at most the one attempt or pause it was about to begin; success only
  with the output the caller required; it ends.
* leases: all are given back on every path; concurrent attempts use different tokens; a request in
  its loop always has one.
* API key: one key, chosen once, for all starts that serve.
* Code 3 log: one entry per error; of what is reported as written, a deletion costs one entry at most.
* Anthropic stream: the client can follow every event; the text is complete and not repeated; the
  fallback never adds to a message already begun, nor mixes the text of two answers.
* model catalog: never empty, whatever is fetched; a refresh does not undo what was there when it
  began; a request asks only for what its model offered while it was built; the schedule goes on.
* decoders: a body is taken for an answer exactly if it is whole, wherever it stops.
* parser and the Chat, Responses and Gemini streams: nothing the upstream sent is lost, repeated or
  shown out of order, whatever is held back on the way; one terminal event that agrees with what went
  before; items that are opened, filled and closed in order; a usage that does not claim to cover
  output it never measured.
* request history: as many responses as calls, each the answer of its call; complete turns and what
  was said stay; completed calls stay (but see finding 1).
* usage: parts add up to totals; what was measured is reported; exact means independent of a guess.
* statistics: requests are successes, failures and attempts under way, at any moment.
* server: what it cuts off when it ends leaves the log in order.

## 2. Modules

| module | models | abstract specification | proofs |
|---|---|---|---|
| `TokenCache` | `recaptcha.go` | - | `TokenCacheProofs` |
| `RetryLoop` | `call`, `stream`, `doCall`, `doStream`, `sleepContext` and the classifiers | `Delivery` | `UpstreamProofs` |
| `RequestPool` | several requests over one `TokenCache` (which it instantiates) | `TokenCache` itself | `RequestPoolProofs` |
| `ApiKeyFile` | `Load`, `loadPersistedAPIKey`, `persistAPIKey`, `Validate` | `OneKey` | `KeyAndCatalogProofs` |
| `Code3Log` | `capture`, `code3ErrorAlreadyLogged` | - | `UpstreamProofs` |
| `UpstreamAttempts` | `doStream` with `stats.go` and `Code3Log` (which it extends), and `run` of `main.go` | - | `UpstreamProofs` |
| `FunctionHistory` | `convertMessages`, `normalizeContents` and what they call | - | - |
| `VertexDecoder` | the decoders below `streamVertexResponse`: `streamVertexArray`, `streamVertexObjects`, `streamVertexElementObject`, `streamVertexResultsArray`, `streamVertexSSE` | - | `AnthropicAndConversionsProofs` |
| `VertexAnswer` | what `streamVertexResponse` hands on of an answer, the joining in `doCall` | - | `AnthropicAndConversionsProofs` |
| `VertexUsage` | `resolveVertexUsage`, `openAIUsage`, `anthropicUsage`, `geminiUsageMetadata`, `combineOpenAIUsage` | - | `AnthropicAndConversionsProofs` |
| `Conversions` | one conversion of a request by the four modules above | - | `AnthropicAndConversionsProofs` |
| `AnthropicStream` | `streamAnthropicWithSignatureFallback`, `streamAnthropicResponseWithProxy`, `anthropicStreamState` | - | `AnthropicAndConversionsProofs` |
| `ModelCatalog` | `UpdateCatalogFromUpstream`, `StartAutoFetcher`, `RefreshModels`, `buildModelCatalog` and the lookups of a request | - | `KeyAndCatalogProofs` |
| `StreamEmitter` | `vertexStreamEmitter`, `accumulateCallResult`, `streamUsageRevision` | - | - |
| `ChatStream` | `streamResponseForRequestWithProxy` | - | - |
| `ResponsesStream` | `ResponsesAPI.streamResponse` | - | - |
| `GeminiStream` | `streamGeminiResponseWithProxyOptions`, `pendingGeminiStreamChunk` | - | - |
| `ProtocolStreams` | a stream of any of the three over the emitter | - | `ProtocolStreamsProofs`, `ProtocolWireProofs` |
| `Subsequences` | the loops that copy a part of a slice, as a recursive function | - | `SequenceFacts` |
| `MCRequestPool`, `MCModelCatalog`, `MCProtocolStreams`, `MCConversions` | symmetry; the lists and requests; the results; the messages, answers and counts; of their instances | - | - |

An operator marked "mutant of X" is a plausible bug in X. No specification uses it: it is there so
that each property can be shown to fail when X is replaced by it.

### TokenCache
A call is one `GetTokenContext` together with the lease it returns. Each critical section is one
action: `AcquireCached` (prune, lease a free entry or go on to fetch), `StoreFetchedToken` (prune,
refuse a string in use, or overwrite), `Release`, `Retire`. `GetToken` and `FetchSucceeds` read the
clock into `now[c]` as the code evaluates `time.Now()` before it waits for the mutex. `FetchSucceeds`,
`FetchFails`, `FetchCancelled` are the upstream, outside the mutex. `Release` and `Retire` share the
`sync.Once`: state "spent". `Reissue` says whether the upstream may give out a string twice; the code
is written for both (it refuses collisions), and the exclusivity it promises differs between them.
`issuedAt`, `retired`, `outlived` are history. A lease that finds its context done on entry has no
effect and is left out. The base URL is data.

### RetryLoop and Delivery
`call` and `stream` are one loop in two modes: `call` hands out the merged chunks at the end
(`Succeed`), `stream` passes each (`Receive`, `Pass`), with `pending` chunks held until the first
assistant output when the caller requires it. What the loop does with a failed attempt is split by the
order of its tests: `GiveUp`, `Bypass`, `NotRetryable`, `Exempt`, `Retry`, `Exhaust`, `RejectToken`,
`Refresh`, `RefreshFails`. Failures are classes: what the code distinguishes by status code and
message. "transport" is status 0, which includes an error of `onChunk`. `tokenRetry` reaches `maxRetry
+ 1` as in the code. `LookBefore` and `LookAfter` are the two tests of `ctx.Err()` that let the loop
go on, steps of their own because `ctx` can be done between a test and what follows it; `Begin` counts
in `late` the attempts and pauses that begin after that. The rewriting of the body is data; that a
bypass may find nothing to rewrite is the choice between `Bypass` and `NotRetryable`. `Delivery` is
what a caller of either function may rely on. Aggregation of a `call` result keeps the order of
chunks, which is why `handed` is the same sequence in both modes.

### RequestPool
`Cache == INSTANCE TokenCache WITH Calls <- Requests \X Slots`: a request owns two slots, one for
`tokenLease` and one for its replacement, and `current` says which is which. Every action is a
decision of the request joined with the action of the cache it causes. When to refresh or return is
free here, because `RetryLoop` treats it; that keeps the product small and the result valid for any
retry policy. `Unwind` is the deferred `Release`; `Again` lets a later request run. A request for
which the cache has no token goes to "done" without a lease.

### ApiKeyFile and OneKey
A start is one execution of the program; each system call is an action. A key is named by the start
that generated it and by how much of it a reader accepts: a failed write may leave a prefix that is
too short (refused) or long enough (accepted, the same for every later reader). `CallFails` and
`Crash` can happen anywhere. Only the configuration without `API_KEY` is modelled. `chosen` of
`OneKey` is what a reader of the file would accept now.

### Code3Log
`Lock`, `Scan`, `OpenAppend`, `WriteEntry` or `WriteTorn`, `SyncAndClose`; `CaptureFails` stands for
every other error return; `Delete` for the documented deletion by the operator. A line is the sequence
of fragments that were written to it: what follows a fragment without newline joins its line, and only
a line that is exactly one whole entry parses. A whole entry without its newline parses until
something is appended to it. `orphan` marks a capturer whose open file was unlinked. `captured` counts
the reports of each error over all processes and all files, and no deletion resets it. The module has
actions for one capturer and no `Next`: it runs inside `UpstreamAttempts`, whose requests are its
capturers; `Abandon` is the end of the process in the middle of any of them.

### UpstreamAttempts
What concurrent attempts leave behind, and the process they run in. An attempt is `RecordRequest` (the
Vertex URL), `SendRequest` (the reCAPTCHA URL, which a token may lack), and then `UpstreamFails`,
`UpstreamRefuses` with the steps of `capture`, or `UpstreamAnswers` and `RecordSuccess`: one action
for each critical section of `stats.mu`. `Start`, `Signal`, `Shutdown` and `Crash` are `run` of
`main.go`: the counters die with the process, the log does not. `Shutdown` is possible with requests
running, because `server.Shutdown` has a deadline; nothing is assumed or claimed about when it comes.
Which request retries, and why, is `RetryLoop`'s matter, so an attempt may follow another at will.
`failed` is history; it ends with the process.

### Conversions
Functions without state of their own, written as operators and run as steps on every input of a set.

* `FunctionHistory`: Chat messages become turns (`ConvertMessages`), with the name of each tool
  result guessed as the code guesses it (`ResultName`), and `NormalizeContents` repairs the turns. A
  part is its kind, id and name and the number of its message, so that losing or moving one shows.
  Ids that begin with `call_` are a set, because that prefix is all the code looks at in an id.
* `VertexDecoder`: the body of an answer token by token, and one action for each call that reads it
  (`Token`, `More`, `Decode`, `Scan`). What a call needs arrives at the last moment (`Arrive`), or the
  connection is closed or breaks there, between two tokens or inside one (`Ends`). The decoders keep
  no count of what is open: a position in the code, `decoding`, is all they know. `wrong` is any token
  that does not belong where it stands, also one that is no JSON. The tokens of a value that is
  skipped or decoded as a whole are one token; a comma or colon belongs to what follows it.
* `VertexAnswer`: the results in the body, in three forms as a sequence of events of items, and every
  place where the connection may end. `Groups` is what is decoded together, `EndsWell` the verdict on
  the end that the decoders come to, `StreamVertexResponse` what is handed on. The parts of an item
  are those of its first candidate, the wrapper's before the nested ones. Texts are joined by
  `CoalesceVertexParts`.
* `VertexUsage`: token counts with the width of the platform's int (`MaxInt`), saturating. The
  estimates from texts are inputs. `exact` is the set of counts that the code marks as exact. The
  share of reasoning is rounded as `math.Round` does, without the error of a float64.

### AnthropicStream
The handler computes the events of a chunk in one step (`TextChunk`, `ThinkingChunk`, `ToolUseChunk`,
`MetadataChunk`) and writes them one by one (`WriteEvent`), so that a write can fail or the request be
cancelled between any two. The client is a state machine of the protocol's event order and is
external. `upstream` records what the upstream has sent of its current block and, chosen once at the
start, `cumulative`: whether its chunks repeat the text of their block so far or bring only what is
new. The code is tested with both. `StartOver` is the next stage of the fallback: a request with an
answer of its own (`Unanswered`), read by the same `onChunk` with the blocks and texts it has. A chunk
has one block here; several in one chunk are the same state changes in sequence. The retries inside
`StreamWithTokenContext` are those of `RetryLoop` and invisible here, because it restarts nothing
after output.

### ModelCatalog
`published` is the list of answers the upstream would have given over time, `installed` the version
`defaultCatalog` was built from (0 is the built-in or `model.json` catalog). A refresh is
`StartFetch`, `UpstreamAnswers` (the upstream's present list; the answer then travels), and `Install`
or `KeepOnEmpty`; `FetchFails` is every error. "auto" is the goroutine of `StartAutoFetcher`, the
others are calls of `POST /v1/models/refresh`. A request reads the catalog four times, one action
each: `Validate`, `Convert` (the safety threshold for Gemini, the lowest level for Anthropic),
`SanitizeThinking`, `SanitizeModalities`. The sanitisers are operators. Lists of modalities are sets,
because their order and repetition do not matter to them, and a model has one safety category. A
category or level in another spelling is the same value. The map iteration of `matchSafetyCategory`
has one candidate then. `window` is history: the versions in memory since the name was checked.

### ProtocolStreams
One streaming request of the Chat, Responses or Gemini API, between the decoded results of the
upstream and the events written to the client. The parts are modules without state:

* `StreamEmitter`: the results (`CallResult`), `vertexStreamEmitter` (`DetachFinish`, `HeldBack`,
  `FinishResult`), and what the handlers share, `accumulateCallResult` and `streamUsageRevision`.
* `ChatStream`, `ResponsesStream`, `GeminiStream`: per protocol the variables of the handler, and for
  a result, the end and an error the events to write and the state that is left.

`ProtocolStreams` runs them. `Open` is what is written before the upstream is asked; `ResultArrives`
is `emit` with the handler's callback, `UpstreamEnds` is `flush`; `HandlerEnds` and `StreamFails` are
the handler after the stream returned. `Cancel` may come between any two steps, and a write may fail
after any number of the events of a step (`Write`); the handler then returns. `sent` is history.

What is abstracted. The body of the answer is a sequence of results that ends or fails anywhere (its
decoding is `VertexAnswer`). A part is its kind and the number of the result it came with, so that
losing, repeating or moving one shows; two calls of one kind are equal in id, name and arguments. A
usage is the number of the result that reported it. A result has one candidate. The context is looked
at once for each callback, as in the code, so the events of one callback are written in one step.
Leading results without output are handed to Responses at once although the loop keeps them back,
because the handler writes nothing for them. A Gemini result with both content and a finish reason
does not occur behind the emitter, so the split of such a chunk is left out. Chat requests ask for
usage.

## 3. Runs

| run | question | bounds |
|---|---|---|
| `cache` | what the cache promises when entries expire and the upstream repeats strings; every call returns | 2 calls, 2 tokens, TTL 1, clock 0..3, 2 fetch attempts, 2 collisions |
| `retry_loop` | refinement of `Delivery`, budgets, why a token is exchanged, cancellation, termination | 2 retries, 2 refreshes, 3 chunks, both modes, output required or not |
| `request_pool` | leases of concurrent requests; exclusivity and finality of retirement with a fresh upstream | 2 requests (again and again), 3 tokens, 1 refresh, TTL 0, clock 0..1 |
| `api_key` | refinement of `OneKey` | 4 starts |
| `api_key_loser` | violation: the loser of the race cannot start | 2 starts |
| `attempts` | counters between any two updates; one entry but for torn writes, reported entries readable but for deletions, over crashes and restarts | 2 requests, 2 attempts per process, 2 starts, 2 errors, 2 torn writes, 2 deletions |
| `anthropic` | event order in every stage of the fallback, exact text of cumulative chunks, also after it | 2 letters, 3 per block, 3 blocks, both forms of chunks |
| `streams` | order and completeness of content, terminal events, items, finish reasons and usage of three protocols | 3 results out of 12 or 13 kinds for each protocol, any failing write, cancellation anywhere |
| `chat_tool_calls` | violation: two tool calls with one index | 3 results |
| `model_catalog` | overlapping refreshes, requests built across them, life of the scheduler | scheduler and 1 manual refresher (again and again), 1 request after the other, 2 lists of 3 kinds, 5 kinds of request |
| `conversions` | history repaired to matching turns without loss; a body taken for an answer exactly if whole; answers read in order and once; token counts that add up, keep what was measured and are honest about guesses | conversations of 4 out of 13 messages, 3 kinds of model; answers of 2 events of 2 or 3 of 1 item out of 6, 3 forms, every cut; bodies of 12 tokens; 6 counters of up to 7 values, 7 estimates, `MaxInt` 3 |
| `history_steals` | violation: a completed call is dropped for one that was not answered | conversations of 2 out of 13 messages |

Why the bounds are enough. Token cache: a wrong sharing needs a lease whose entry is pruned and
another that gets the string; a call that has ended can start again, so two calls give any number of
leases in a row, and four clock values with TTL 1 let an entry expire, be stored again and expire
again. What more calls could do is covered by the theorems, which hold for any number of them. Retry
loop: each budget is reached and exceeded by one in every combination, and a pending queue of two
chunks before an output chunk fits in three. Request pool: each request has two leases, so two
requests hold up to four of three tokens. API key: a creator that crashes, one that waits, one that
reads early and one that comes later. Attempts: a second tear on the line of the first, a start that
finds the log of the one before, a deletion under an open file and another after it, two attempts
whose updates interleave in every way. Conversions: a turn of two calls, its responses in any order or
lost, and a turn after it fit in four messages; a wrapper with nested data, a failing item and a
finish reason before, in and after the cut fit in two events; twelve tokens are an array with a field
to skip, results with an item, and every bracket closed again, or two smaller elements; counts of 0,
1, 3 and -1 with `MaxInt` 3 give every relation of a total to its parts, zero, overflow and what is
not a count. Anthropic stream: three blocks give every order of two changes of kind, and texts of
three letters give proper prefixes on both sides. Protocol streams: what a handler holds back (a
finish reason, a pending chunk, an open item) is set by one result, disturbed by a second and settled
by a third or by the end; the kinds of results are those that take different paths through the handler
(`MCProtocolStreams`). Model catalog: two lists and two refreshers are what it takes to install them
in the wrong order; the three kinds of list change every answer, drop a model, and are empty after the
filter. Bounds appear in guards only where a counter would grow for ever: `MaxTime`, `MaxChunks`,
`MaxTears`, `MaxDeletes`, `MaxText`, `MaxBlocks`, `MaxResults`, `MaxVersion`, `MaxAttempts`,
`MaxStarts`, `MaxTokens`; `MaxMessages` bounds the inputs of `Conversions`.

Deadlock is checked except where the system stops: all starts of `ApiKeyFile` can have failed, those
of `UpstreamAttempts` can be used up, a conversion ends, and an Anthropic, Chat, Responses or
Gemini request is over when its stream is done.

Fairness. `TokenCache`: weak fairness of each call's own steps, because a goroutine is scheduled, the
mutex is held for bounded work, and the HTTP client has a timeout, so that a fetch succeeds or fails;
leases need not end. The collisions and failures that could keep a call going are chosen by the
upstream without any fairness. `RetryLoop`: weak fairness of the loop's step as a whole, none towards
a particular outcome, so that an upstream that always fails is covered; the upstream answers or its
timeout does, and the model's answers are finite (`MaxChunks`).
`ModelCatalog`: weak fairness of the scheduler's goroutine (its fetch has the client's timeout, its
timer fires), strong fairness of its end, because `select` chooses at random when the context is done
and the timer has fired too; the process may of course exit before it.
`RequestPool` and the modules without a liveness property have no fairness: that a request's call to
the cache returns and that its loop ends are the liveness properties of the two modules it joins.

## 4. Findings

Each is a run that TLC must refute, with the sentence of the repository it contradicts.

1. *A completed call is dropped.* `vertex.go:625` says that completed pairs are kept and orphaned
   calls dropped. A call without a response takes, by name, the response that carries the id of a
   later call of the same function; the later one, which was completed, is dropped (`history_steals`).
2. *The loser of the key race can fail to start.* `config.go:263` promises to reuse the key of the
   winner, but the loser may read the file before the winner has written it (`api_key_loser`).
3. *Tool calls of one Chat message share an index.* `buildOpenAIToolCalls` numbers the calls of each
   chunk from 0, so calls that the upstream sends in different chunks get the same index, by which a
   client joins the deltas of a call; `README.md:29` promises the standard fields (`chat_tool_calls`).

Other limits of the code that were met while modelling. They need an input or an environment that
the repository promises nothing definite about, or lose nothing it promises to keep:

* `release` finds the entry by its string. A lease that outlives its entry frees the entry of a newer
  lease of the same string. It needs an upstream that issues a string twice, and
  `ExclusiveUnlessOutlived` says that this is the only way to share a token.
* After a torn write the next Code 3 entry joins the torn line, cannot be parsed by later scans, and
  the error is captured once more. `OneEntryPerTear` allows one more entry for each torn write.
* A token that used up its retries with the last refresh is released, not retired: only a
  replacement retires. `RetiredIsGone` speaks of retired ones.
* An incremental Anthropic chunk that is a prefix of the text seen is taken for a repetition and
  dropped; `CumulativeTextIsExact` covers the other form.
* Event streams and sequences of objects have no end of their own: one cut off between two elements
  counts as whole. `EndsWhenWhole` says that everything in it is then closed, and that every other cut
  is an error.
* Responses whose call turn has been lost are passed on as they are, and two calls of Gemini 3.6 of
  which one has no id can be given the same one; pairs that the repair made are matched all the same.

## 5. Proofs

All theorems hold for every value of the constants under the named assumptions of the modules
(`CacheAssumption`, `LoopAssumption`, `PoolAssumption`, `KeysAssumption`,
`CatalogAssumption`, `ArrivalAssumption`, `MaxAssumption`, `LogAssumption`, `AttemptAssumption`,
`UsageAssumption`, `DecoderAssumption`, `InputAssumption`).

* `TokenCacheProofs`. `TypeInv` strengthens `TypeOK`: a call in "store" or "held" has a token.
  `NoEntryLeaks` needs no more: `InUseIsBacked` is inductive with it. `SharedOnlyIfOutlived` needs
  `LeaseInv`, because exclusivity alone does not survive `Release`, which frees an entry without
  looking at its owner: a held lease's entry is in use unless the token is in `outlived`
  (`LeaseBacked`), so a free entry has no holder. `CachedIsFresh` is an action property; its
  `ExpiryInv` says that an entry expires no later than the last issue of its token plus the TTL, and
  that the clock reading a call stores with is no later than that issue. `LeasesAreExclusive` and
  `RetirementIsFinal` assume `~Reissue` and rest on `FreshInv`: a string is carried by one call at
  most (`OneCarrier`), is not free meanwhile (`CarriedIsNotFree`), was issued if it is seen anywhere
  (`SeenIsIssued`), and a retired one is carried by none (`RetiredIsCarriedByNone`); it cannot come
  back because it was issued before.
* `UpstreamProofs`, the retry loop. `AttemptBudget` rests on `BudgetInv`: the attempts are at most
  `PerToken` for each refresh made, plus `tokenRetry`, plus one each for the exempt retry and the
  bypass, plus the attempt itself; `RefreshBudgetMonotone` is the arithmetic on it. `HandedPrefix`,
  `RefreshOnlyWhenDue` and `ImplementsDelivery` rest on `HandInv`, the relation between `sent`,
  `handed`, `emitted` and `pc`: during an attempt of a stream `handed` is the first `sent` chunks, and
  it is empty when a new attempt may start. `BlameInv` adds which failure led to a refresh.
  `ImplementsDelivery` maps each action to a step of `Delivery` or to a stutter.
  `CancelledRequestsWindDown` rests on `WindDownInv`: once something has begun too late, the loop is
  not at a place from which it begins anything, and cannot get there except past a look at `ctx`.
* `RequestPoolProofs`. `StepsAreCacheSteps` shows that every step of the pool is a step of
  `TokenCache` with pairs as calls, so all its theorems hold of the pool (`CP`). `LeaseInv` says, for
  each stage, what the two slots hold (`Ownership`); it gives `NoLeaseLeaksEver` and `LeaseAtHand`.
  `QuiescenceFreesAll` joins it with `NoEntryLeaks`, `AttemptsAreExclusive` with
  `LeasesAreExclusive`; `RetiredStaysGone` is `RetirementIsFinal` carried over.
* `KeyAndCatalogProofs`, the key file. `WriterInv`: at most the owner is in "write" or "close", and a
  file is accepted only after it was written, so `FileKey` changes once. `ImplementsOneKey` maps each
  action.
* `KeyAndCatalogProofs`, the catalog. `CatalogInv` adds to the types that an answer in hand is at
  least as new as what was in memory when its refresh began, and that what is in memory passed the
  filter; it gives `CatalogStaysUsable` and, as an action property, `InstallsAreRecent`. `BodiesFit`
  needs `Settled`, what is settled of a request after each of its steps: the current catalog is in its
  window, and what was sanitised so far fits something the window offers. `ListsStay` and `FitsStay`
  show that other steps keep this; `LevelSane` (on `ClosestIsNearest`), `ModalitiesSane` and
  `ThresholdSane` are the sanitisers, for all inputs.
* `SequenceFacts`. Filters (`ItemsAt`) and flattened lists are recursive functions of sequences of any
  length. `InductionOnSeq` is induction over a set of sequences: show that the empty sequence is in
  the set and that one more element stays in it. With it the recursion equations give what these
  functions do with the empty sequence, with one element more, and with two sequences one after the
  other; nothing else is used of them later. `FlatMap` is a function that gives a sequence for each
  element, over a sequence: a beginning gives a beginning (`FlatMapPrefix`), and joining first and
  mapping then is the same as the other way round (`FlatMapFlatten`). A set of positions has exactly
  one list (`Lists`), from the least to the greatest, and a filter is that list followed to the items
  (`ListSelects`); so a filter of a filter is one filter (`ItemsOfItems`), and order and number of
  what a filter keeps are those of its list.
* `ProtocolStreamsProofs`. `RevisionInv` is `TypeOK` with what the revision of the handler says of the
  results so far (`Measures`): its metadata is the last that was measured, and is of the present
  revision exactly if nothing was generated since. A result keeps this whether it is handed on or
  dropped as empty, and so does the flush; that no other part of a handler touches the revision is
  shown operator by operator (`GeminiStep`, `ResponsesStep`). It gives `RevisionIsExact` for all three
  protocols.
  `ContentIsInOrder` rests on `ContentInv`, a balance (`Balance`) per kind of part: what is on the
  wire, then what the handler holds (the pending Gemini chunk, the calls a Responses stream writes
  last) is what was sent; or the stream has broken off, and the wire is a beginning of that. Each
  handler's step moves parts from what arrives through what it holds to the wire (`ChatContent`,
  `GeminiContent`, `ResponsesContent`), and a write that fails after k events leaves a beginning.
  `EndInv` says that a running stream has written chunks only and knows whether it has, and that a
  stream that is done is chunks and one of six closings (`Closes`); it gives `StreamsEndOnce`.
* `ProtocolWireProofs`. For the reason of a Chat stream `ReasonInv` adds to `EndInv` that the
  aggregate knows whether a call was shown and what stopped the upstream, as far as the emitter has
  let it through. For the items of a Responses stream the invariant is that the wire can be read
  (`ReadInv`). A reader is an account of the items: how many there are, which are open, the text of
  each, and what each was in the end. It takes in one event at a time, and only one that follows the
  rules (`Takes`): an item is added under the next number, a delta or an end is of an open item, a
  finished text is the text of its deltas, the final event lists the finished items. `Reads` says what
  the wire is when a reader has got through it, and each kind of event keeps that (`AddedReads`,
  `DoneReads`, `TakesReads`); each operator of the handler writes events that take a reader that
  agrees with the handler before to one that agrees with it after (`Agrees`, `ReasonReads`,
  `SayReads`, `ResultReads`, `CallsRead`, `EndReads`). So `StreamItemsAreWhole` holds in every state,
  after any number of commentaries and wherever a write failed. `StreamsEndAsTheyRan` joins the three.
  For Gemini `GeminiInv` says what the pending chunk owes (`Held`): what is on the wire are whole
  chunks of one id, something is pending once anything was written, its usage is that of the present
  revision and its weight is that of its payload; and after the finish chunk nothing is pending
  (`Finished`). This gives `GeminiStreamChunksAreWhole`, and with `RevisionInv` the usage of the last
  chunk, and so `StreamUsageIsCurrent` for all three protocols.
* `AnthropicAndConversionsProofs`, the Messages stream. The handler works out the events of a chunk in
  one step and the client gets them one by one, so nothing relates their states in between but what is
  still to be written: `StreamInv` says that this is a legal run of events (`Plays`) from the client
  as it is to one that agrees with the handler (`Agrees`). Each operator of the handler produces such
  a run. It gives `ClientAlwaysFollows`, `CumulativeTextReachesTheClient` and `AnthropicTypeCorrect`.
* `UpstreamProofs`, the attempts. `StatisticsAddUp` rests on `StatsInductive`: each action moves one
  request into or out of the attempts under way of a URL and changes one counter with it; the rest is
  the cardinality of a finite set. `ReportedStays` needs `WrittenIsLogged`: with no tear the last line
  is ended; what a capturer in "close" has written is logged unless its file is gone; and the reports
  of the error of a capturer past its scan were all paid for by deletions, because the scan found
  none. `EntriesAreFew` needs `EntriesInv`, which is what the mutex gives: whoever is inside `capture`
  holds it, so the error that its scan found missing is missing until it writes (a deletion only
  removes lines); hence at most one line can be read as an entry of an error, and any other line that
  holds it is one of `TornLines`, of which there are at most as many as tears.
* `AnthropicAndConversionsProofs`, the conversions. A report of usage is a function of its input, so
  the invariant is that the result is one of its values (`ReportInvariant`), and the work is in the
  lemmas about the operators. Saturating addition is the smaller of the sum and `MaxInt`;
  `ResolvedAddsUp` and `ResolvedKeepsMeasured` follow it through the three arms of
  `ResolveVertexUsage`, `CombinedAddsUp` through the sum with a compaction. `ResolvedAgree` compares
  two estimates: a count is marked exact only in arms where it is computed from measured ones, so
  usages that are exact resolve alike. `MaxInt`, the measures and the estimates are arbitrary. The
  same holds of a read answer (`ReadingInvariant`). The parts handed on are the `FlatMap` of the
  places of the items that were read (`ReadParts`), whatever the emitter dropped and held back; these
  places are a beginning of the places of all items (`ReadItemsFacts`), so that the rest is about
  places: which of them a cut leaves (`ArrivedFacts`), how a form groups them (`GroupsFacts`), and
  that no form reads further than the objects (`ObjectsReadFurthest`). `JoiningKeepsAll` is induction
  over the parts. The items, their number and the cuts are arbitrary.
* `AnthropicAndConversionsProofs`, the decoders. `BodiesEndWhenWhole` is about bodies of any length.
  `DecoderInv` says what the position of a decoder implies about all it has read (`Undecided`): how
  many brackets of each kind are open (`Squares`, `Curlies`), that nothing bad was read, and what can
  have come when a call is entered after a look at it (`MayCome`). A call reads a token, refuses it,
  looks and goes on, or returns, and each of these keeps the invariant if the position it goes to
  accounts for the bracket (`TakeKeeps`, `RefuseKeeps`, `GotoKeeps`, `ReturnKeeps`).
* `AnthropicAndConversionsProofs`, the history. Again the result is a function of the input
  (`NormalizingInvariant`), here of a conversation of any length. `ConvertedTurns` is induction over
  the messages: the parts stand in the order of the messages they were made of, within a turn and from
  turn to turn (`OrderedTurns`), because a message only adds to the last turn or after it
  (`AppendTurnKeeps`). `PairsAreGood` is induction over the calls of a turn: the pairs are in the
  order of the calls, no response is in two, and each answers its call. `Matched` is what the repair
  knows of the places of its pairs in the two turns; from it follow what is left of a call turn
  (`CallsAfterwards`) and of a response turn (`ResponsesAfterwards`), also where the repair changes
  nothing since all is aligned, and so `HistoryPairsAlwaysMatch`. Its hypothesis, that a generated id
  is not the empty string, is there because the provers do not see the letters of a string; only
  models that ask for ids need it. For `CompleteTurnsAlwaysStay` the induction says more: when calls
  and responses have the same ids, none twice, each call finds the response of its id still free
  (`AllPairedById`). For `HistoryTextIsAlwaysKept` each turn that is sent is a repaired one with the
  same texts and no part of another origin (`Normalized`); turns with a text have content, so that
  only the trailing turns of the model can be missing, and by `OrderedTurns` they come after all that
  is sent.

Model-checked only: what needs fairness (`GetTokenReturns`, `Terminates`, `ScheduleGoesOn`,
`SchedulerStops`), which the prover does not treat. Every safety invariant and action
property of the runs that pass is a theorem.

## 6. Not modelled

* The normalisation of schemas (`schema/normalize.go`): a recursion over data of any depth, without
  state, and mostly a table of fields.
* Media, thought signatures and their bypass rewriting, the layout of bodies and responses, the
  candidates after the first and the metadata of an answer: data that no decision modelled here reads.
* The conversion of Anthropic, Responses and Gemini requests, and the responses that are not
  streamed: one pass over the merged result of `call`. The repair of the history they end in is the
  one modelled for Chat.
* The estimation of token counts from texts and images: an input of `VertexUsage`.
* Header and fingerprint data, the HTTP transport, logging, and static checks of one request
  (authentication, CORS, paths, sizes, images, native tools).

What could come next, in this order: the conversion of Anthropic and Gemini requests into the turns of
`FunctionHistory`; several candidates in `VertexAnswer` and `GeminiStream`.
