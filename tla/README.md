# A TLA+ verification of NeuRust

NeuRust is an LLM gateway written in Rust: it accepts OpenAI-style chat
requests, answers them from a response cache or from a provider (OpenAI,
Anthropic), streams answers as server-sent events, and keeps account of what
requests cost. This directory holds TLA+ models of its core, the TLC
configurations that check them on small instances, and proofs of the most
important theorems, checked by TLAPS. Paths below are relative to the
repository; `core`, `gateway` and `intel` stand for
`crates/neurust-core/src`, `crates/neurust-gateway/src` and
`crates/neurust-intel/src`.

## 1. The system

### Components, their state and operations

| Component | Where | State | Operations |
|---|---|---|---|
| Exact cache | intel/cache/exact_cache.rs, eviction.rs | `DashMap` of entries (response, hit counter, creation time, ttl) | get, insert, insert_with_ttl, insert_warm, clear, top_by_hit_count, evict_lfu |
| Cache warming | intel/cache/warming.rs | the dump file; failures in a row | warm, dump_loop, dump_once |
| Semantic cache | intel/cache/semantic_cache.rs | `DashMap` of embeddings, id counter | lookup, store, evict_if_needed |
| Tiered cache, cache key | intel/cache/mod.rs, cache_key.rs | none of its own | lookup, store, warm, start_dump_loop, compute_cache_key |
| Budget manager | intel/observability/budget_manager.rs | atomic counter in micro-dollars | on_request, on_response, record_cost, refresh_from_store |
| Cost tracker | intel/observability/cost_tracker.rs | none; writes the event store | on_response |
| Cost forecaster | intel/observability/cost_forecaster.rs | none | forecast |
| Event stores | intel/store | two vectors under two locks, or a database | record_cost, daily_costs, all_cost_events, clear |
| Bandit, cost auctioneer, complexity gate, prices | intel/router | sliding windows per model | update, get_score, select_best, classify |
| Security layers | intel/security | none | detect, mask, scan, validate_output |
| Pipeline | core/pipeline.rs | list of layers | execute |
| Load balancer, fallback, health monitor, registry | core/router, core/provider/mod.rs | one counter; one status map | on_request, execute_with_fallback, check_all |
| Providers | core/provider | none (HTTP clients) | complete, complete_stream, health_check |
| Inference endpoint | gateway/routes/inference.rs | none of its own; cache, event bus, store and counters are shared | chat_completions, handle_complete, handle_stream |
| Metrics and health | gateway/routes/health.rs | two atomic counters | metrics, readiness |
| Server | gateway/server.rs | up, in its grace period, closing or down | TimeoutLayer, shutdown_signal, run |
| Program entry | src/main.rs | none | wiring, init_cache |

### How they interact

`main` builds the provider registry, the event bus, the cache (warmed from the
dump file, if one is configured) and the event store, and hands them to the
server. A request to `/v1/chat/completions` is counted, validated, looked up in
the cache, and sent to a provider if it missed; the answer goes to the cache,
a cost record to the store (through a spawned task), an event to the bus. A
streaming request bypasses the cache and yields chunks for as long as the
provider sends them. Pipeline, load balancer, fallback, health monitor, budget
manager, cost tracker, auctioneer, security layers and semantic cache are
library code that `main` does not wire yet; their contracts are those of
`PipelineLayer` (`on_request` in order, `on_response` in reverse order).

### What is hard

* *Interleaving.* All shared state is lock-free or locked briefly. A cache call
  is a sequence of atomic accesses to single `DashMap` shards; the budget is
  checked before the provider call and charged after it; a refresh awaits
  between its read and its write.
* *Cancellation.* A handler's future may be dropped at an await, by its caller
  or by the 120 s timeout, and a stream at every chunk.
* *Crash and restart.* The dump file outlives the process and is written while
  it may die.
* *Bounds and edges.* max_entries with five eviction attempts or with one, the
  hard limit, truncation to micro-dollars, five failures before back-off, the
  arm limit and the windows of the bandit, the retries of the fallback, the ends
  of months.
* *Order.* Layers run in their order on the way in and in reverse on the way out;
  two of them choose where a request goes. Streams are pulled line by line, and a
  provider may hang up or break at any line.
* *Texts.* Scanners overlap, count bytes where characters have three, and meet
  white space that is interrupted by characters of no width.

### What makes each part correct

The caches serve nothing expired, exceed their capacities by no more than racing
callers explain, and answer a question with what was said to a related one. A
hard budget is passed by no more than what is in flight; a refresh never counts a
cost twice and finds what the period has cost, across restarts and month ends. A
request reaches a provider that has its model or fails; a fallback has tried all
it may. A request leaves its traces in cache, counters, bus and store all or not
at all. The reader of a stream gets the answer in order and is told it is whole
only when it is; it is told of the end whatever the provider does. The dump file
is always whole and its hottest entries survive a restart; loops and the process
stop when told to. What the masker lets through shows no resident's number, and of
other personal data only what a mask next to it explains. `PROJECT.json` lists the hazards line by line with the
property that would catch each.

## 2. The modules

| Module | What it is |
|---|---|
| `LossyCache` | abstract specification: what an exact cache promises to callers |
| `ExactCache` | the cache at the granularity of shard accesses; `Contract` instantiates `LossyCache` |
| `CacheKey` | requests as the caches and providers see them, and the key |
| `TieredCache` | both tiers under concurrent lookups and stores, the exact one by its contract |
| `CacheWarming` | cache, dump loop and dump file over restarts and crashes |
| `Gateway` | the inference endpoint with metrics, bus, store, timeout and shutdown, over a cache known by its contract |
| `TextStream` | abstract specification: what relaying an answer promises its reader |
| `Providers` | one call of the OpenAI or Anthropic client, line by line, and the relay behind it; `Reader` instantiates `TextStream` |
| `Positions` | what a loop keeps of what it passes, as operators |
| `Registry` | the providers and the ways to find one, as operators |
| `Dispatch` | abstract specification: what routing promises |
| `Routing` | pipeline, balancer, auctioneer's bandit, fallback, the gateway's own way, and the health monitor; `Contract` instantiates `Dispatch` |
| `BudgetManager` | budget manager, cost tracker and pipeline around one provider call |
| `BillingPeriod` | the calendar, as operators |
| `Ledger` | stores, recalculation and forecast over weeks and restarts |
| `Auction` | the auctioneer's scores and the complexity gate, as operators |
| `PiiScan` | detector and masker, as operators |
| `PromptGuard` | the prompt guard, as operators |
| `Layers` | a conversation through masker and auctioneer, judged by gate and guard |
| `ExactCacheProofs`, `TieredCacheProofs`, `CacheWarmingProofs` | the theorems about the caches |
| `GatewayProofs`, `ProvidersProofs`, `RoutingProofs` | the theorems about requests on their way |
| `BudgetManagerProofs` | the theorems about the budget, and about `Ledger` and its calendar |
| `LayersProofs` | the theorems about `Layers`: scores, gate, masker and guard |
| `MC...` | constants and symmetry sets for TLC, one for each module with a run |

Operators commented "Mutant of" are used by no specification. They are the
plausible bugs against which each property is tested: put in place of the operator
they are a mutant of, they break the property. Each state machine has a type
invariant, `TypeOK` (`LedgerTypeOK` in `Ledger`), which is proved (section 4); the
runs spend on the other properties.

Loops are written as folds or as recursive functions (`upTo[n]`, what the first n
turns have made), and filters as `Positions`: the provers know nothing of
`SelectSeq`, of functions of two arguments, or of operators declared RECURSIVE.
For the same reason white space has a name, `Blank`.

### ExactCache

`map` is the `DashMap`; `pc[p]` and `job[p]` are the program counter and locals
of caller `p`. One action is one access to one key or one visit of one shard:
`GetMiss`, `GetHit` and `GetExpired`/`DropStale` are `get` (the guard is dropped
between the last two); `StartInsert`, `CountShard`, `ScanExpired`, `ScanLeast`,
`Evict`, `Put` are an insert with its `while map.len() >= max_entries` loop and
`evict_lfu`; `ClearShard` is `clear`. `len`, `iter` and `clear` visit the shards
in order, one action each, since `DashMap` locks one shard at a time. A
`min_by_key` over the map keeps the first of equal keys, so an earlier shard wins
a tie; within a shard the order is the hash table's, hence a choice. Expired keys
are removed in arbitrary order for the same reason. The scan reads a shard in one
step; hits, which need only a shared lock, can fall inside a visit in the code, so
the hit counts read within one shard may differ by the hits of that instant.

Time is the age of each entry in ticks, saturated one tick after it expired.
`Tick` ages all entries at once.

`LossyCache` says what remains of this for a caller: an entry of age zero may come
in (`Admit`), any entries may vanish (`Lose`), a lookup is answered from a live
entry with its hit counted (`Serve`) or with `None` (`Refuse`), and entries age.
The refinement mapping is the identity on `map` and `answer`.

### TieredCache and CacheKey

A key is the sequence of what is fed to the hasher, in its order, the hash being
taken as injective: system texts joined by line breaks (empty ones too), last user message, model,
number of messages, then the optional numbers, which leave no trace when absent.
Similarity is a table `Score` of two texts, as embeddings and cosine are no
business of the cache.

A lookup is `ExactHit`, or `ExactMiss` then `Scan`, `Sweep`, `Promote`; a store is
`StoreExact`, `CheckLength`, `FindExpired`, `EvictExpired`, `CheckLength` again,
`FindLeast`, `EvictLeast`, `Put`. Between any two of these another caller may run.
A scan of the map is one step (`ExactCache` goes shard by shard); the ids it found
are acted upon later, one by one. `Records` is the set of entries whose hit counter
a scan raises: every entry that was the best so far when its turn came, served or
not. The exact tier is used through `LossyCache`: an insert may push out any other
entries, up to `ExactMax`, a bound of the model. Each answer carries the request it
was given to and its true age `old`, so that promotion's fresh time-to-live shows.
`answer` is what a lookup has just returned; any other step empties it.
`overtaken` is a history variable: the puts in front of which another put went
while they had `Decided`, past their last look at the length or without a need for
one. A store that has yet to read the length is none of these.

### CacheWarming

`phase` is the process: down, warming its cache, up. `Start`, `WarmOne`,
`Warmed`/`WarmFails` are `init_cache` and `warm`; `Insert`, `Hit`, `Miss` are what
requests do to the cache, one at a time (`ExactCache` has the races);
`BeginDump`, `WriteTmp`, `Rename`, `DumpFails`, `WakeUp` are `dump_loop` and
`dump_once` between their awaits; `Exit` is the process ending or dying at any
point. A file is absent, torn, or a sequence of entries. `TopEntries` is
`top_by_hit_count`; ties may come in any order.
Capacity may change from start to start, as it is configuration.
`consecutive_failures` saturates at the limit, beyond which the code behaves the
same. `LoopStarted` says whether someone calls `start_dump_loop`.

### Gateway

A handler's phase is its place in `chat_completions`, `handle_complete` or
`handle_stream`. Between two awaits the steps of handlers interleave (the runtime
is multi-threaded) but none is cut short; `Cancel` exists only in the phases
`calling` and `opening`, the two awaits, and `Abandon` only where a stream is
polled or has yielded. `Forget` is the cache losing an entry and is exactly what
`LossyCache!Lose` allows: `Gateway` is composed with the cache through that
contract. A cache that is configured away is the case in which every entry is
forgotten at once. `RunRecord` is the spawned task, which may fail. `UsageKinds`
says whether providers put token usage into their final chunk. JSON
serialisation cannot fail for these types, so that `break` of the stream is left
out. `produced` and `ended` are history variables. Requests that the authentication
layer or the `Json` extractor turns away never reach the handler: they are answered
4xx and counted by neither code nor model.

`server` is the process: `Signal` is `shutdown_signal`, after which a request may
still come during the grace period; `StopAccepting` ends that; `ServerExit` comes
when no handler is busy, as axum's graceful shutdown waits for open responses, and
drops the cost records that no task has written yet.

### Providers and TextStream

The provider says lines: `SayPiece`, `SayFinal`, `SayLast`, `SayNothing` are what
its protocol allows, `HangUp` and `Break` what a connection may do at any point.
`Post` builds the body, `Reply`/`Refuse`/`Open` are the response of the first
await, `ReadLine`, `ReadEnd`, `ReadError` one turn of the loop in
`complete_stream`, `Relay` and `SendDone` the loop of `handle_stream` behind it,
which pulls a chunk only when it has sent the one before. `Abandon` is the reader
leaving. A piece of text is its number in the answer. `published` counts the
completion events. The refinement mapping is `Got`, the numbers of the pieces in the
text events sent, and `Told`, what the last of the other events made of the end.
OpenAI's `[DONE]` may come without a finish chunk before it: it is then the provider's
word that the answer is whole, and the chunk that openai.rs:154 makes of it ends the
reader's stream. So an error object that is followed by `[DONE]`, which the parser
skips, reads as the end of a whole answer. Anthropic's `message_stop` follows its
`message_delta`.

### Routing, Dispatch and Registry

`Begin` is a request entering `Pipeline::execute`; `Balance` and `Auction` are the
`on_request` of the two routing layers, in the order of `layers`; `Select` is the
choice by id or by model; `CallAnswers`/`CallFails` end the call and `OnResponse`
feeds the bandit, layers in reverse. Streams return before any `on_response`, as in
the code. `Serve` is the gateway's way, by configured priority, which passes no
layer; `ExecuteWithFallback` and `Attempt` are the fallback executor, one provider
of the registry at a time, whose position counts as its attempt. `StartRound` and
`Check` are the health monitor: the age of a status in rounds is all that is kept,
since nothing routes by it. An arm is the number of observations in its window;
rewards are left out because no decision reads them (`get_score` has no caller).
After the warm-up the auctioneer may explore, so any candidate may win here; which
one wins when it does not explore is in `Auction`. `picks` and `tried` are history
variables. A sender may name any configured provider; one that was not registered is
not found, and the request fails. `Dispatch` calls such a provider `Absent`: a request
may be bound to it, and is never answered by it.

### BudgetManager

Each request is in a phase of `Pipeline::execute`: `Measure` and `Admit`/`Reject`
are the two loads of `on_request`; `Respond` or `Uncharged` ends the provider call
(a failed call, a caller that left, or a stream, whose response no layer sees);
`Track` and `Charge` are the `on_response` of the cost tracker and of the budget
manager, in the order given by `TrackerFirst`, and a failing `Track` ends the
pipeline. `ReadStore`/`WriteCounter` are `refresh_from_store` on both sides of its
await. `NewPeriod` is the reset day passing. Costs are numbers of `Unit`-ths of a
micro-dollar, so truncation is integer division. The counter is a `u64` in the
code; 2^64 micro-dollars are out of reach and it is a natural number here. The
price tables are abstracted to `Costs`; both layers use the same price for a
response. `charged`, `charges` and `refreshed` are history variables.

### Ledger and BillingPeriod

Time is parts of days, and days are numbered as in the proleptic Gregorian
calendar; `DayOf` and `DateOf` stand for chrono. `Record` is a cost stored and
charged, `ReadRows`/`Recalculate` a refresh around its await, `Restart` a new
process with what each kind of store leaves: nothing in memory, all rows in a
database. `LedgerSpec` starts at the first moment (`Open`); moments lie at least a
month behind the first day of the calendar (`MomentsInCalendar`). `DailyCosts` and `Forecast` are the two reads; averages and the
regression are fractions of whole numbers, and the width of the confidence interval
is any margin. `paid` is a history variable.

### Layers, PiiScan, PromptGuard and Auction

A client writes a conversation part by part from texts that the scanners tell
apart, sends it, and appends each answer. `MaskRequest` and `Answer` are the
masker's `on_request` and `on_response`, `Choose` the auctioneer's `on_request`.
Nothing in the repository calls the gate or the guard: what they would say is
evaluated on the same conversations. A byte is one of the classes that the five
scanners distinguish (`PiiScan` lists them), a character of three bytes included,
so that `validate_context`'s cut at byte offsets can fall inside one: the request
is then "panicked". Thresholds and windows that only set a scale are constants
with small values in the run (n-grams of 2 words for 4, a context of 2 bytes for
50, message counts of 0 and 1 for 5 and 10). Costs, latencies and qualities are
whole numbers or not finite; a quality that is NaN is not modelled. Confidences of
matches, which only order what is found, and the case of letters are left out.

A scanner is `Scan`: from left to right through what matches at which position,
each match reached behind the one before. `Applied` is the same loop over the
matches in the order of their starts, and `ApplyMasks` copies what lies between
those it replaces. Matches of two scanners may overlap, and of the second only the
mask on its beginning hides anything; what is left over of it may even hold
something that no scanner found, since they too go on behind a match.
`MaskedTextIsClean` says exactly what can remain: a resident's number never; an
e-mail address only with a mask next to it; a phone's or card's number only with a
mask behind it, or with nothing but such leftovers (`Left`) between it and a mask.

## 3. The runs

| Run | Instance | Shows |
|---|---|---|
| `cache_racing` | 2 callers, 3 hashes in 2 shards, capacity 1, 2 attempts, fair | `BoundedOvershoot` (at most capacity + callers - 1), `ImplementsContract`, `CallsReturn` |
| `cache_alone` | 1 caller, 3 hashes in 2 shards, capacity 2, up to 2 hits, ttl 1 | `EvictsLeastUsed` across shards |
| `tiered_cache` | 2 callers, 3 requests of which neighbours are similar, 3 stores, capacity 1, ticks during calls | `GrowsOnlyWhenOvertaken`, `StalenessBounded`, `AnswersAreRelated`, `SweepsOnlyExpired` |
| `warming_files` | 3 keys, capacity 2 or 3, 2 starts | `DumpIsWhole`, `WarmKeepsHottest` |
| `warming_loop` | 2 keys, capacity 1, failures, ticks, fair | `LoopEnds`, `PeriodicallyDumps` |
| `gateway_requests` | 2 handlers, 3 requests, 2 keys, both kinds of provider, a shutdown anywhere, fair | `CachedAnswersAreReal`, `RequestsAccountedFor`, `EffectsAccountedFor`, `StreamsWellFormed`, `RequestsEnd`, `ShutdownEnds` |
| `providers` | both providers, 2 requests, up to 3 pieces, one line of noise, fair | `ConversationKept`, `ImplementsTextStream`, `StreamsEnd`, `WholeAnswersArrive` |
| `routing` | 2 callers, 3 requests, 4 configured providers of which 3 register, 3 models, 3 orders of layers | `SpreadBounded`, `BanditBounded`, `StatusesFresh`, `ImplementsDispatch`, `FallbackExhausts` |
| `budget_races` | 2 requests at once, 4 in all, 1 refresh, 2 periods | `OvershootBounded`, `AdmittedSawBudget`, `TruncationBounded`, `NeverOvercharges` |
| `ledger` | 3 costs, 7 moments around the ends of two months, reset days 28 and 30, both kinds of store | `RefreshRecovers`, `DailyCostsComplete`, `ForecastSound` |
| `layers` | conversations of up to 4 messages and parts out of 13 texts, 4 candidates | `MaskedTextIsClean`, `EveryNumberFound`, `GateMonotone`, `LayoutIgnored`, `CopiesAreLeaks`, `CheaperOnLowBudget` |

Before they search, three runs evaluate facts about operators alone, stated as
assumptions of their MC modules: `PeriodsMeet` (where a billing period begins, for
every reset day and every day of fourteen months with a leap day and one without),
`ListedIsServed` (for all registries of up to two configurations),
`SystemComesFirst` (for all orders of up to four roles) and `GateOffersModels`. All
four are theorems as well, for inputs of any size.

One run shows a disagreement between the code and what its comments say of it: in
`budget_lost` TLC finds `RecalculationIsAccurate` violated. A refresh reads the store,
a request is charged and stored, the refresh writes the old sum: the "accurate"
counter (budget_manager.rs:80-81) has lost a charge.

### Other disagreements met while modelling

No run is spent on these; the modules behave as described.

* Two inserts may read a length below capacity and both put: `max_entries + 1`
  entries stay, although the comment at exact_cache.rs:89 says the loop handles
  this race. An insert into a full cache evicts another live entry even when it
  replaces the entry of its own hash.
* The semantic cache makes one attempt at eviction and does not look again, so
  racing stores outgrow `max_entries`, each by one entry, for good; its own test
  (semantic_cache.rs:348) expects it "to stay at max_entries". `GrowsOnlyWhenOvertaken` is what remains true.
* The fallback executor is to retry "with another provider" when one fails
  (fallback.rs:8, in Korean), but it counts positions of the registry, and a provider
  without the model uses one up (:31). In `routing` a fallback for m2 calls one
  provider and fails, with a retry left and another provider of m2 never called.
* The comments on the scanner of phone numbers list 01X-XXX-XXXX
  (pii_detector.rs:142) and 0XX-XXX-XXXX (:164). It looks only for 010-XXXX-XXXX and
  0X-XXX-XXXX: 011-122-2555 and 021-122-2555 are neither found nor masked.
  `EveryNumberFound` speaks only of the forms that are looked for.
* The list of models is called "deduplicated" (state.rs:77), but holds every model
  once for each provider that has it (`AllModels`): m1 of `routing` is in it twice.
* An error in the middle of a stream is sent to the caller (inference.rs:500) and not
  counted in `neurust_errors_total`, the "total number of errors" (health.rs:136).
* A semantic hit raises the counters of entries that were not served.
* Restored cache entries start a new life: `insert_warm` gets no `ttl_secs`
  although exact_cache.rs:42 keeps it "for restoration".
* On its reset day the budget manager does not reset: nothing but a refresh looks
  at the period, and only a test calls one. Reset day 31 starts a period on the
  last day of a short month only when that day is over (`PeriodsMeet`); reset day 0
  would start it in the future.
* An OpenAI stream's final chunk carries no usage, so that no completion event is
  published for it (inference.rs:465).
* A connection that closes in the middle of an answer looks like an end: the reader
  gets `[DONE]` and can only miss the finish reason (`TextStream`'s "cut").
* Of overlapping matches only the first is masked (pii_masker.rs:128). Behind
  `555555-1555010-5555-55010-5555-5555` the last phone number stays whole: it
  overlaps a phone number that begins within the resident's.
* `validate_context` slices a text at byte offsets and panics inside a character of
  several bytes (pii_detector.rs:350; `DetectPanics`).
* The auctioneer undoes the balancer's choice when it is registered after it
  (cost_auctioneer.rs:182), and streams or failures never end its warm-up.
* `main.rs` never starts the dump loop (with `LoopStarted = FALSE` the property
  `PeriodicallyDumps` fails), nor any refresh of the budget.

### Bounds, and why they are enough

* Two callers suffice for every race of the capacity loop that differs in kind:
  one whose length, scan or victim is stale, and one who made it so. With
  capacity 1 and three hashes the bound (2) is below what fits, and can be
  exceeded. `BoundedOvershoot` needs at least as many attempts as callers, which
  is why two attempts are the tightest instance for two callers; the same bound
  was checked for three callers with three attempts during development, and
  `CallsReturn` with the code's five attempts.
* `MaxHits` cuts counters at the smallest value that still orders entries. In
  `cache_alone` entries reach two hits, so least, middle and most used exist.
* In `tiered_cache` a is similar to b and b to c but not a to c, the smallest
  relation in which promotions could add up to an unrelated answer; a tick may fall
  inside every call. Of the three stores of the run one may be overtaken, and then two
  entries are what is allowed, fewer than are put. Three callers and four stores of one
  request, where two may be overtaken, were checked during development.
* The budget is two micro-dollars and a response costs a half or one: it takes two
  responses to exhaust it and two more in flight to pass it by the full bound.
* In `routing`, with one retry, the registry is a (m1), c (m1, m2), d (m2), and b is
  configured but not registered. A fallback for m1 goes from a to c, one for m2 spends
  its first attempt on a and never reaches d; the third model nobody has. The gateway
  prefers the first of two providers for m1 and the last for m2.
  Warm-up, window and arm limit are one, so that two candidates already crowd the
  bandit, and three requests turn the shared counter once round.
* The costs of `ledger` fall on New Year's Day and on the days around the ends of
  January and February, so a period of one month, of two, and a missing reset day
  occur; three costs are the fewest for which the forecaster projects a line.
* The texts of `layers` are each number a scanner looks for, what may touch it
  on either side, and words; four parts put any three of them side by side. A lone
  "-" or "." is among them, since it can join what stands on its two sides to
  something new.
* `MaxRequests`, `MaxPeriods`, `MaxDeltas`, `MaxStarts`, `MaxTicks`, `MaxStores`,
  `MaxStall`, `MaxTexts`, `MaxNoise`, `MaxEvents` and `MaxParts` stop behaviours
  that could go on for ever. They are why most runs say `CHECK_DEADLOCK FALSE`;
  the runs of the exact and the tiered cache check for deadlock.
* `warming_files` has no ticks: expiry is exercised by `warming_loop`.

Symmetry is used for callers, requests, and keys that no other constant tells
apart, and never in a run with a liveness property.

### Fairness

* `ExactCache`: a call in progress continues (`WF` on `Work(p)` of each caller).
  No lock is held between two steps, so a running thread always gets on. Nobody is
  obliged to start a call.
* `Gateway`: the runtime continues handlers that are not at an await, and the
  `TimeoutLayer` ends a call that stays at one; the grace period elapses, and the
  process exits once nothing is open. Nothing is assumed of providers or callers;
  an open stream may last for ever, and `RequestsEnd` and `ShutdownEnds` say so.
* `Providers`: the task that reads and relays goes on (`WF` on `Run`). The provider
  may fall silent for ever.
* `CacheWarming`: file operations return, intervals and back-off elapse (`WF`);
  `select!` eventually picks the shutdown when it is ready again and again (`SF`,
  since `tokio::select!` polls its branches in random order). The process need not
  stay up: `PeriodicallyDumps` only speaks of behaviours in which it does.

## 4. The proofs

TLAPS checks them for all values of the constants that satisfy the named
assumptions of the modules. These say what the code or the deployment gives: there
are finitely many callers, handlers, keys, models and requests (`HashesFinite`,
`ClientsFinite`, `HandlersFinite`, `KeysFinite`, `ModelsAreFinite`,
`RequestsFinite`); sizes and bounds are natural numbers, with at least one shard, a
positive unit, budget and capacity, and at least one arm; markers of the model such
as `None`, `Failed`, `NoFile` and `Torn` are none of the values they stand beside
(`NoneIsOutside`, `NamesApart`, `FilesDiffer`, `TornIsNoDump`); providers have
different ids; reset days exist in some month (`ResetDaysExist`); the parts of a
message are made of characters (`PartsAreTexts`); requests hold messages. Where a theorem needs more, it says so itself. TLC has checked each
inductive invariant below on the instance of the run, except `SpreadInv`,
`StoreBehind` and the typing of all texts (`Conversation`), which quantify over
infinite sets.

`TypeCorrect`, `LedgerTypeCorrect` and `LayersTypeCorrect` are the type invariants.
`ExactCache` and `BudgetManager` have it inductive as it stands; the others need a
named strengthening: in the tiered cache that stores in progress leave room below
`MaxStores` (`Reserved`), in cache warming that a process that is down has no cache
and the loop runs only while the server is up (`DownIsCold`, `LoopOnlyUp`) and that
the buffer and both files are sequences of distinct keys, in routing that the
place a request has reached lies within its layers, registry or fallback
(`RequestsOK`).

### Caches

* `ExactCacheProofs!CacheKeepsContract`: `Spec => Contract!Spec`. The step
  argument needs one fact beyond the types, `FreshPuts`: an entry waiting to be
  put has age zero and no caller changes it while it scans. Then each action maps
  to one of the contract: removals to `Lose`, `Put` to `Admit`, `GetHit` to
  `Serve`, `GetMiss` and `DropStale` to `Refuse`, everything else stutters.
* `ExactCacheProofs!NeverExceedsAlone` and `EvictsLeastUsedAlone`: with one client
  (`Alone`, which also asks for a capacity and an attempt above zero) the cache never
  exceeds `max_entries`, and what it evicts has expired or is least used across all
  shards. `Solo` says what an insert knows in each step: the length so far is that of
  the shards visited, the keys collected are there and deserve to go, and there is
  room once something was evicted; time passing between two steps spoils none of it.
* `TieredCacheProofs!SweepsTakeOnlyExpired`: what a sweep removes by id was seen
  expired earlier. `SweepInv` says that the ids still to be removed are `Gone`:
  given out, and absent or expired. `Gone` never shrinks, since ids are not
  reused and nothing renews an entry.
* `TieredCacheProofs!GrowthIsCounted`: `GrowInv` follows a store from its decision,
  past its last length check, to its put: while nobody has overtaken it there is
  room, or there will be once its victim is gone. `Room` is `max_entries`, but one when that is zero,
  since the code puts even then.
* `TieredCacheProofs!AnswersAgeOut` and `AnswersAreOneStepAway`, from `DataInv`: an
  entry of the semantic tier answers the question it is filed under; a promoted
  answer is at most one step of similarity from a question of its key, and as old
  as one life in the semantic tier and two calls; nothing is promoted from the
  exact tier, so there is no third life and no second step. `AnswersStayRelated`
  is the checked property, under the hypothesis `KeysTell` that a key tells
  questions apart. The instance of the run satisfies it (`QuestionsDiffer`); the
  theorem before it holds for keys that collide, too.
* `CacheWarmingProofs!DumpStaysWhole`: `DumpInv` adds what is in the buffer while
  it is written and in the temporary file while it is renamed. That a dump is
  sorted comes from `TopEntries`, whose choice the proof takes apart.
* `CacheWarmingProofs!WarmingKeepsHottest`: `WarmInv` says that what the warming
  cache holds is a part of the dump's prefix loaded so far, as dumped, and that an
  entry of the prefix is missing only if the cache is full of others, at most one of
  which is colder. Each `WarmOne` pushes out the coldest.

### Requests

* `GatewayProofs!AnswersStayReal`: with `HeldAnswersAreReal`, that the answer a
  handler is about to store was given for its own key.
* `GatewayProofs!NoRequestIsLost`: requests counted are those that ended and those
  in a busy phase; each action moves one handler, and the number of handlers in a
  set of phases changes by what one move adds or takes (`In...` lemmas).
* `GatewayProofs!EffectsComeTogether`: `RecordsMatch`, `EventsMatch`, and
  `DownIsQuiet` for the records that a process dropped.
* `GatewayProofs!StreamsStayWellFormed`: `Shape` gives the form of what has been
  sent for each phase of the generator.
* `ProvidersProofs!ProvidersImplementTextStream`: the reader never has a gap.
  `TextInv` numbers the lines on the wire: there is a function from positions to
  numbers such that before each line the reader, with the chunk in hand, will have
  the pieces up to that number. `EventsInv` says that Anthropic names each payload
  in the line before it, so that the parser's remembered event is never stale.
  Whatever is then cut, broken or abandoned, the reader has a prefix and is told
  "whole" only behind the provider's own end.
* `ProvidersProofs!ConversationsAreKept`: `BodyInv` says what the body posted is made
  of. What was `Said` by some roles is given by an order-preserving choice of
  positions (`SaidIs`, `PicksComeFrom`), so that taking out the system's messages
  twice is taking them out once (`SaidTwice`), for conversations of any length.
* `RoutingProofs!RoutingImplementsDispatch`: every client step maps to one of
  `Dispatch` or to a stutter, with what a client asked for and is bound to read off
  its request. The registry's indices are first computed (`RegistryIs`: which
  configurations register, and that `Matching` lists the supporting ones in order).
* `RoutingProofs!FallbacksExhaust`: what a fallback has `tried` is what supports
  the model among the positions it has passed.
* `RoutingProofs!BanditStaysBounded`: a request behind an auctioneer is for a
  candidate (`AuctionedInv`) unless its `on_response` has run, so each reward is for
  an arm that may exist; observations are a sum over arms (`ArmsInv`).
* `RoutingProofs!ListedModelsAreServed`: the models listed are the registry's,
  flattened (`FlattenHas`); the most preferred provider of a model is among those that
  have it (`MaxIn`), and the one it is listed by is one of these.
* `RoutingProofs!SpreadStaysBounded`: `SpreadInv` compares the picks of each
  provider of a model with the turns the shared counter gave it, a quotient that is
  never computed but exists; turns that were not picks went to other models.
* `RoutingProofs!StatusesStayFresh`: what the round has passed is of this round,
  and between rounds everything is.

### Budget

* `BudgetManagerProofs!OvershootIsBounded`: `OvershootBounded` is not inductive.
  The strengthening is `Room`: counter plus the largest charge for each request in
  flight is at most `Budget - 1` plus the largest charge for each request there is.
  `Admit` restores it from its guard alone, `Charge` trades a request in flight for
  at most the largest charge, all else shrinks the left-hand side.
* `BudgetManagerProofs!AdmissionIsConsistent`: a measured value is never above the
  counter until the decision is made, since the counter only grows while no refresh
  has written it.
* `BudgetManagerProofs!TruncationIsBounded`: inductive, from the division lemma
  `MicroLoss`.
* `BudgetManagerProofs!ChargedAtMostOnce`: where a response is charged before it is
  stored, refreshes included. `StoreBehind` says that the store, together with what
  it will get from responses that are charged but not stored, is never ahead of what
  was charged, nor is any snapshot of it. "Together" is a sum over requests, given by
  any function that adds up (`Adds`), so that no recursion is unfolded.
The first three bounds of the budget hold until a refresh has replaced the counter
(`refreshed`); what a refresh can do afterwards is the subject of
`NeverOvercharges` and of the finding `budget_lost`.

### Ledger and calendar

* `BudgetManagerProofs!EveryPeriodMeets`: `PeriodsMeet` for every day from the 31st
  of the calendar on and every reset day, where the run evaluates fourteen months.
  Months are numbered from March of the year 0 (`FirstDay`, `LengthOf`); every day
  lies in one (`MonthExists`), `DateOf` finds it there (`DateFound`), and so the
  latest reset is in the month of the day or the one before (`LatestInMonth`,
  `LatestBeforeMonth`), wherever short months end.
* `BudgetManagerProofs!RefreshesRecover`: from `LedgerInv`, which adds to the types
  that a database holds all that was ever paid and that rows lie in the past, and
  from `EveryPeriodMeets` for the start of the period.
* `BudgetManagerProofs!DailyCostsAreComplete`: by induction over the days, the sums
  so far add up to the rows of the days so far and are as many as those days with
  a cost (`Lasts`); a sum over rows splits at a day (`RowsSplit`).
* `BudgetManagerProofs!ForecastsAreSound`: the estimate is what is spent and no
  negative day (`EstimatedTyped`); behind the last index the regression line is on
  the side of the mean that its slope says (`LineLeavesMean`). All costs, any number
  of days, equal ones included: the slope's denominator is positive from two on.

### Conversations and texts

* `LayersProofs!NumbersAreAlwaysFound`: a scan meets every match that it does not
  reach inside another (`Covered`), and what is replaced covers the start of every
  match, since the replaced ones are a scan over the starts (`Cuts`).
* `LayersProofs!MaskedTextIsAlwaysClean`: `Conversation` (messages are texts) and
  `MaskedSaid` (a masked message is `MaskText` of one) are inductive; the rest is
  about one text. `Masked` takes the masked text apart: each character is a star,
  stands between two stars, or belongs to a `Gap`, a stretch of the text between
  replaced matches, moved as a whole and closed by stars or the text's ends. A match
  that a second masking would find has no star in it, so it lies within one gap
  (`WindowIsInside`) and stood in the text already. There it was found, and then a
  replaced match would cover its start; or a match that was found overlapped it
  (`LeavesOver`), whose beginning was replaced and whose rest is made of its own
  pattern's characters (`Made`): that is `Left`. Or it did not stand alone, or its
  address was longer; then a mask is what ends it now. Residents' numbers are found
  everywhere, so none of this can happen to them.
* `LayersProofs!MoreIsNeverSimpler`: the weights and sums of a conversation that is
  continued do not shrink, nor does the rank of its class.
* `LayersProofs!LayoutIsIgnored`: what is read of a text is a fold of `Read`; a text
  stretched by white space and characters of no width is read alike at each step
  (`StretchIsRead`), and what was read is `Neat`, which reading does not change.
* `LayersProofs!CopiesAreAlwaysLeaks`: the words of a text between two others are its
  own words between two (`WordsAround`, by following `Split` behind a word), grams of
  a part are grams of the whole (`GramsStay`), so the overlap is all grams out of all.
  Words of a text without "x" share no gram with words of nothing else
  (`NothingShared`).
* `LayersProofs!RolesAreBounded`: the fold over the messages has seen, at each of its
  steps, whether someone other than the system spoke, and accepted while no system's
  message came behind one (`LastBounds`).
* `LayersProofs!GateAlwaysOffers`: naming models twice is naming them by the narrower
  tags alone (`NamedTwice`, by the least length at which it would fail).
* `LayersProofs!LowBudgetIsCheaper`: of two scores that weigh cost differently and
  all else alike, the winner under the heavier weight has no higher a cost. The
  argument is the exchange of the two winners' inequalities: added up, all but
  the cost parts cancel. It holds for missing and for equal costs, since
  `Part` and `Unit` are whole numbers in every case (`PartsAreNat`), for which the
  finite values need a least and a greatest (`LeastAndGreatest`, from the
  well-foundedness of the finite intervals below and above them).
* `LayersProofs!AlwaysCheaper`: from the inductive invariant that a chosen
  candidate was `Selected` in the context that is kept, and `LowBudgetIsCheaper`.

Where an argument is by induction on numbers (the elements of a filtered sequence,
sums over finite sets, the text in a sequence of events), it takes the least
counterexample (`LeastOf`, `Induction`), and the folds and `SumFunction` of the library are
unfolded to the recursive functions behind them, whose defining equation is the
uniqueness of their finite approximations (`Builds`, `Iterates`).

### What stays with TLC

* All liveness: `CallsReturn`, `LoopEnds`, `PeriodicallyDumps`, `RequestsEnd`,
  `ShutdownEnds`, `StreamsEnd`, `WholeAnswersArrive` (fairness and `ENABLED` are
  beyond the provers).
* `BoundedOvershoot` for racing callers: its invariant would have to count the keys
  that a length read shard by shard has missed and the attempts that others took the
  victim of, and the property needs no more callers than attempts.

All other properties of the passing runs are theorems, for every value of the
constants that the assumptions allow. Two have a hypothesis of their own:
`EvictsLeastUsed` is proved for one client (`Alone`), as its run checks it, and
`AnswersAreRelated` where keys tell questions apart (`KeysTell`).

## 5. Not modelled

Left out for good: the price table (constants), the audit logger (formatting and
appending), authentication and request ids (stateless comparisons and random
strings), HTTP, TLS, SQL, embeddings, logging, the parsing of the configuration,
and the scrape of the two counters (a read without effect; it may report an error
whose request it has not counted yet). `evict_lfu_batch`, `clear` of the stores and
`get_score` have no caller outside tests. The event bus keeps 1024 events, of which
a slow receiver would miss the oldest; no receiver is wired. Two types of
`src/contracts` repeat those of `core/contracts.rs`.

Larger instances checked during development: the tiered cache with hits counted to
two (2.3 million states), the exact cache with three callers.

Theorems worth proving next: `BoundedOvershoot` for any number of racing callers,
with the invariant described in section 4.
