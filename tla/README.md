# Residue log dispatch: TLA+ models, checks and proofs

This directory holds a formal model of the server side of residue's log path:
- how requests are accepted and queued;
- how the background thread dispatches them;
- the client registry and integrity task the dispatcher reads;
- the HTTP client `HttpClient::fetchUrlContents`, in both of its builds.

It also holds the TLC configurations that check the model on small instances, and TLAPS
proofs of its main invariants for all values of the constants.

## The system and its parts

The parts the spec (`spec.md`) and the source (`src/`) name, and what is modelled:

| Part | Code | Module | Status |
|------|------|--------|--------|
| Dispatch worker: `handle`, `start`, destructor, `processRequestQueue`, `processRequest`, `dispatch` | `src/src/logging/log-request-handler.cc` | `LogRequestHandler` | modelled |
| Policy evaluator `isRequestAllowed` | same file, lines 291-321 | `LogRequestHandler` | modelled |
| Dual-buffer queue (`push`, `size`, `pull`, `switchContext`) | not under `src/` (spec 4.6) | `RequestQueue`, abstract spec `RequestFifo` | modelled from the spec |
| Client registry, token store, client integrity task | not under `src/` (spec 4.3, 4.4, 4.9) | `Registry` | partly, from the spec |
| Clock `Utils::now` | `src/src/utils/utils.h:97-100` | `Registry` (`Tick`) | modelled |
| Request codec, session I/O, log request parser | not under `src/` (spec 4.2, 4.5) | `LogRequestHandler` (outcome only) | partly |
| Crypto envelope (`RSA::encrypt/decrypt/sign/verify`) | `src/src/crypto/rsa.cc` | none | not modelled |
| HTTP client (libcurl and Boost.Asio builds) | `src/src/net/http-client.cc` | `HttpClient` | modelled |
| Logging macros | `src/src/logging/log.h` | none (`RESIDUE_LOGGER_ID` is the constant `InternalLogger`) | not modelled |
| Tests | `src/test/` | none | not modelled |

How the parts interact:
- Session threads call `LogRequestHandler::handle`. It writes `STATUS_OK` and pushes the raw request into the queue's backlog under the queue lock.
- One dispatch thread, spawned by `start`, loops `while (!m_stopped) { processRequestQueue(); sleep(100ms); }`.
- A round of `processRequestQueue` reads `total = m_queue.size()` and then, for each of the `total` items:
  - it pulls the item and decodes it (`RequestHandler::handle`, which resolves the client the frame names);
  - it returns early if decoding failed or a single record is invalid;
  - for a single record, it calls `processRequest(&request, nullptr, true)`;
  - for a bulk, it walks the elements up to `maxItemsInBulk`, keeping a `Client*` (`currentClient`) from element to element and re-forcing validation when the integrity task has run since `lastClientValidation`. That check (lines 138-140) and the use of `currentClient` in `processRequest` are not protected against the integrity task, which can run between them.
- At the end of the round it calls `m_queue.switchContext()`.
- Concurrently, clients CONNECT, which creates a new client object, and are issued tokens. The integrity task frees dead clients and expired tokens and sets `lastExecution`.

## Modules

- **`Registry`**: the environment the dispatcher reads.
  - State: `now`, `clients` (a slot per id: present, generation, `dateCreated`), `tokens`, `tokenSeq` and `lastExecution`.
  - Actions: `Tick`, `AddClient` (CONNECT; a new generation), `IssueToken` and `IntegritySweep`.
  - A `Client*` is modelled as a pointer `[id, gen]`. `Live(p)` holds while that generation is still registered.
  - Reading through a pointer whose object was freed is undefined behaviour. `ClientReads` then returns any value, and the model records the read in `uaf`.
- **`RequestQueue`**: two sequences, `queue` (the drain buffer that `size`/`pull` see) and `backlog` (where `push` goes), and the swap.
- **`LogRequestHandler`**: the dispatcher.
  - `dpc` is the dispatch thread's place in the code: `init`, `loop`, `round`, `single`, `bulkStart`, `bulk` (between elements), `bulkItem` (between the sweep check of an element and its `processRequest`), `exited`.
  - The loop locals are variables: `total`, `i`, `req`, `reqClient`, `pos`, `itemCount`, `cur` (currentClient), `lastKnown`, `lcv` (lastClientValidation), `force` and `itemCid` (the client id of the element in hand, `requestItem.clientId()`).
  - Each action is one operation or code step: `Handle`, `Start`, `Shutdown` (the destructor's `m_stopped = true`), `LoopHead` (the `m_stopped` test and `total = size()`), `PullRequest` (pull, decode, early return), `BeginBulk`, `SkipInvalidItem`, `CheckBulkItem` (the `isValid` test and the re-force check of lines 135-148), `ProcessBulkItem` (`processRequest` and the result handling of lines 149-161; a separate step, so a sweep can fall between the two), `EndBulk`, `ProcessSingle` and `EndRound` (`switchContext`).
  - `ProcessRequest` translates lines 198-268 in one operator: bypass, client resolution, alive check, unknown-logger user update, `isRequestAllowed` and `dispatch`.
  - A request's data is abstracted: encoding (`sym`, `plain`, `bad`), client id, bulk flag, and per element the logger, its `isValid()` and its token.
  - `Requests(n)` lists what a client can send now, with the token it currently holds.
  - The initial state has `now = 1` and `lastExecution = 0`: the integrity task has not run yet, and 0 is before any time `Utils::now()` returns, so the first bulk's check does not re-force spuriously.
- **`RequestFifo`**: what the queue promises (spec 4.6): one variable `pending`, `Accept(m)` appends, `Take` drops the head. `LogRequestHandler` instantiates it as `Fifo` with `pending <- queue \o backlog`, the drain buffer followed by the backlog.
- **`HttpClient`**: one call of `fetchUrlContents`, with the server's status and body (a sequence of abstract chunks, at most `MaxChunks`) and the URL kind chosen at the start.
  - `hpc` is the calling thread's place; `got` is what has arrived (`result` for curl, `ss` plus the streambuf for Asio); `errored` records a failure other than a clean end of stream; `ret` is what the call returns.
  - libcurl (`CurlSpec`): `CurlInit` (`curl_easy_init` may fail), `CurlPerform` (each chunk through `writeCallback`; a bad URL, a dropped connection or `writeCallback`'s `bad_alloc` ends the transfer with an error), `CurlReturn` (the error is only logged; `result` is returned).
  - Boost.Asio (`AsioSpec`): `AsioParseUrl` (an invalid or non-http URL throws out of the call), `AsioConnect` (resolve, connect, write), `AsioReadStatus` (a status other than 200 throws), `AsioReadHeaders` (the streambuf may already hold a prefix of the body), `AsioReadBody` (a chunk, a read error, or EOF, which may come early) and `AsioCaught` (the catch of line 152; `""` is returned).
- **`MC_LogRequestHandler`**, **`MC_LogRequestHandlerProofs`**, **`MC_HandlerSafety`**, **`MC_HttpClient`**: model values for TLC.
- **`LogRequestHandlerProofs`**, **`HandlerSafetyProofs`**, **`QueueRefinementProofs`**, **`HttpClientProofs`**: the inductive invariants and the TLAPS proofs.

## Runs

| Run | Config | Expect | Checks |
|-----|--------|--------|--------|
| `handler_core` | `MC_LogRequestHandler.cfg` | pass | `TypeOK`, `QueueInOrder`, `BypassRacesOnlySweep`, `EventuallyDispatched`, `ShutdownJoins` |
| `bulk_cap` | `MC_BulkItems.cfg` | pass | `BulkHonoursCap`, `SafetyIInv` (the invariant behind the bypass-window and cap proofs) |
| `plain_path` | `MC_PlainPath.cfg` | pass | `IInv` (the inductive invariant of the proofs) |
| `policy_bypass` | `MC_PolicyBypass.cfg` | violation | `PolicyEnforced` |
| `dangling_client` | `MC_DanglingClient.cfg` | violation | `NoDanglingClientUse` |
| `early_return` | `MC_EarlyReturn.cfg` | violation | `RoundDrainsObservedTotal` |
| `bypass_race` | `MC_BypassRace.cfg` | violation | `BypassOnLiveClient` |
| `reresolve_after_sweep` | `MC_ReResolve.cfg` | violation | `ReResolvedAfterSweep` |
| `stop_between_items` | `MC_StopBetweenItems.cfg` | violation | `StopPolledBetweenItems` |
| `http_asio` | `MC_HttpAsio.cfg` | pass | `ContentOnlyFromOk`, `NoContentAfterError` on the Asio build |
| `http_curl_partial` | `MC_HttpCurlPartial.cfg` | violation | `NoContentAfterError` on the curl build |
| `http_curl_error_page` | `MC_HttpCurlErrorPage.cfg` | violation | `ContentOnlyFromOk` on the curl build |

What the properties say:
- **`QueueInOrder`**: the two buffers hold exactly the requests accepted and not yet pulled, in arrival order. It is broken by pushing into the drain buffer or by swapping a non-empty drain buffer.
- **`BypassOnLiveClient`**: a record dispatched with `bypassChecks` set goes through a client object that is still registered, unless a freed one was read earlier. This is what the re-force check is meant to give (spec sections 5 and 8). The code breaks it (finding 6): a sweep after the check of an element and before its `processRequest` is not seen.
- **`BypassRacesOnlySweep`**: that window is the only way it breaks. A record written with `bypassChecks` set through a freed client object implies that the integrity task has run since `lastClientValidation`, so no sweep *before* the check is missed. It is what the `<=` at line 140 protects: the clock has one-second granularity, and a strict `<` misses a sweep in the same second as the last validation.
- **`EventuallyDispatched`** and **`ShutdownJoins`**: every pushed request is pulled, and the dispatch thread exits once stopped.
- **`BulkHonoursCap`**: a bulk loop handles exactly the first `min(maxItemsInBulk, v)` valid elements, where `v` is the number of valid elements.
- **`IInv`**: `TypeOK` plus client generations, queue order, round bookkeeping and non-empty requests.
- **`SafetyIInv`**: `IInv` plus `ClockInv`, `RetainedLive` and `CapInv` (see Proofs). `bulk_cap` checks it with valid and invalid elements, a cap of 1 and bulks of two. A strict `<` at line 140 breaks it.
- **`ReResolvedAfterSweep`**: spec section 7 says a bulk element seen after a sweep re-resolves its client by id and continues.
- **`StopPolledBetweenItems`**: spec section 5 says the dispatcher polls `stopped` between items, so it pulls nothing once stopped.
- **`ContentOnlyFromOk`**: a call that returns content got a 200 answer.
- **`NoContentAfterError`**: a call whose transfer failed returns `""`, never the part that had arrived.

Bounds, and why they are enough:
- One client id with two generations makes a freed object and its successor possible.
- The clock runs from 1 to 2, with clients living one second and tokens never expiring (`TokenLife = 0`), so sweeps free clients in the middle of a round and of a bulk.
- There are two requests, and bulks of two elements. That gives a push racing a round, an early return followed by a later round, and a re-forced element after a validated one.
- `bulk_cap` uses a cap of 1 with invalid elements, so the cap is hit with and without skipped elements before it.
- `plain_path` covers the branches the others do not:
  - plain frames;
  - id lookup through `PlainLookup`;
  - unknown loggers with the user update;
  - `ALLOW_BULK_LOG_REQUEST` off;
  - an empty client id.

- The HTTP runs use two chunk values, bodies of up to three chunks, statuses 200 and 404 and all three URL kinds. That is enough for a failure before, inside and after a body prefix already buffered with the headers.

**Fairness.** `WF_vars(Dispatcher)` only. The dispatcher is one dedicated thread that is always runnable, apart from its 100 ms sleep. Session threads, the clock and the integrity task get no fairness: the liveness properties must hold whatever they do.

## Findings

1. **Policy bypass in bulks** (`policy_bypass`; line 201).
   - After one allowed element, later elements skip `isRequestAllowed`.
   - TLC writes a record to the internal logger `residue`, with no token, through a bulk whose first element was allowed.
   - Spec sections 3, 4.8 and 8 say every record reaching the engine is allowed and `residue` is never writable.
2. **Use of a freed client** (`dangling_client`; lines 108 to 172 and 236, and lines 138 and 225).
   - The client resolved while decoding is dereferenced with no check against the integrity task.
   - In a bulk, after a failed element, `forceClientValidation` skips the re-validation while `currentClient` still holds the old pointer.
   - Spec section 5 forbids touching a client obtained before the last sweep.
3. **Early return ends the round** (`early_return`; line 114).
   - A bad frame or an invalid single record returns from `processRequestQueue`. The round does not finish its `total` items and skips `switchContext`.
   - Spec section 4.7 says "log and continue".
   - `QueueInOrder` and `EventuallyDispatched` still hold: the next round picks the items up.

4. **No re-resolution by id after a sweep** (`reresolve_after_sweep`; lines 142-148 and 210).
   - When the integrity task has run since `lastClientValidation`, the bulk loop clears `currentClient` and the item's client.
   - `processRequest` looks the client up by id (line 217) only when `ALLOW_PLAIN_LOG_REQUEST` is set for the server and the logger. Otherwise the element fails with "No client found" although its client is still registered. With `forceClientValidation` set, every later element then goes through the same path.
   - Spec section 7 says: integrity sweep during bulk, re-resolve the client by id and continue.
5. **`stopped` is polled only between rounds** (`stop_between_items`; line 68).
   - After the destructor sets `m_stopped`, the round in progress still pulls and dispatches its remaining items.
   - Spec section 5 says the dispatcher polls the flag between items and between rounds. `ShutdownJoins` still holds, since rounds are finite.
6. **A sweep between the check and the use** (`bypass_race`; lines 138-140 and 149).
   - The check of lines 138-140 reads `lastExecution`, and `processRequest` (line 149) then dereferences `currentClient` with `bypassChecks` set (lines 201, 236-245). Nothing keeps the integrity task out in between.
   - TLC: element 1 of a bulk is validated, the check of element 2 finds no sweep, the integrity task then frees the client, and element 2 is written through the freed object.
   - Spec section 5 says a client obtained before the last sweep is never touched without re-resolving it. `BypassRacesOnlySweep` (checked and proved) shows this window is the only way it happens.
7. **curl build returns a truncated body** (`http_curl_partial`; lines 49-57).
   - A failed `curl_easy_perform` is only logged, and `result` is returned with whatever had arrived, including after `writeCallback`'s `bad_alloc`.
   - The Asio build returns `""` in the same case, and `HttpClientProofs` proves it.
8. **curl build returns error pages** (`http_curl_error_page`; line 49).
   - `CURLOPT_FAILONERROR` is not set, so a 404 is `CURLE_OK` and its body is returned as the contents.
   - The Asio build throws on any status other than 200 (line 119).

Both builds also return a body truncated by an early clean close as if it were complete. The request is HTTP/1.0 and `Content-Length` is not read. Neither build sets a timeout. Both are listed as hazards without a property: the model allows the early EOF but cannot tell it apart from the real end, and a hang is a stutter that no fairness the code justifies rules out.

## Proofs

`LogRequestHandlerProofs` proves, with TLAPS, for all constants satisfying `RegistryAssumption` and `HandlerAssumption`:

- `TypeCorrect`: `Spec => []TypeOK`.
- `QueueOrder`: `Spec => []QueueInOrder`.
- `IInvAlways`: `Spec => []IInv`.

Neither `TypeOK` nor `QueueInOrder` is inductive alone, so `IInv` strengthens them with three conjuncts:
- **`GenInv`**: a registered client has a generation of at least 1, so `findClient` only hands out pointers in `ClientPtr`.
- **`RoundShape`**: in a round, `Len(queue) + i = total`, and one less while an item is in hand. So the drain buffer is empty when `EndRound` swaps. Without this, a swap could put older requests behind newer ones. It also says that the bulk iterator `pos` is at least 1 inside the bulk loop, so the element read is in the array.
- **`ItemsInv`**: every queued request, and the single request in hand, has an element, so `req.items[1]` is well typed.

The argument has three steps:
- `InitIInv` shows that the initial state satisfies `IInv`.
- `NextIInv` shows that each step preserves it. It splits on the disjuncts of `Next`, and each case is a lemma of its own (`StartIInv`, `PullRequestIInv`, `HandleIInv`, ...). Each of these proves the three parts of `TypeOK` separately: `RegistryTypeOK`, the Boolean flags `BoolTypes` and the rest, `DataTypes`. The Boolean flags go to Zenon and the arithmetic to the SMT solver. It then proves the queue invariant and `ShapeInv` (`pulled <= pushed`, `RoundShape`, `ItemsInv`). The action lemmas rely on these lemmas:
  - `RegistryStep`: registry steps keep the registry typed and `GenInv`;
  - `RegistryUnchanged` and `QueueUnchanged`: dispatcher steps that leave the registry, or the buffers and counters, alone;
  - `FindClientType`;
  - `RequestsType`: what clients send is a well-typed request with the next id;
  - `ProcessRequestType`: what `processRequest` writes is well typed, and success implies a non-null client;
  - the library's `HeadTailProperties` and `AppendProperties`, for pull and push.
- The temporal theorems follow by PTL. TLC checked `IInv` first, in the `plain_path` run.

`QueueRefinementProofs` proves `QueueRefinement`: `Spec => Fifo!Spec`, the handler's queue implements the FIFO line, for all constants. Seen through `queue \o backlog`, a push appends, a pull takes the oldest, and `switchContext` (and every other step) leaves the line as it is. No TLC run checks it: the proof covers every instance, and `QueueInOrder`, checked in `handler_core`, catches the same wrong push.
- `InitFifo`: both buffers start empty, so the line does.
- `StepFifo`: under `IInv`, every step of `Next` is a `Fifo!Next` step of `queue \o backlog` or leaves it unchanged.
  - `Handle`: `ConcatAppend` (appending to the backlog appends to the concatenation), with `RequestsType` for the request being in `SentRequest`.
  - `PullRequest`: `TailConcat` (the tail of a non-empty drain buffer, followed by the backlog, is the tail of the line).
  - `EndRound`: this is where `IInv` is needed. `RoundShape` gives `Len(queue) = 0` when the round ends, so the swap yields `backlog \o <<>> = <<>> \o backlog`. Without the invariant, a swap with a non-empty drain buffer would drop its items from the line.
  - Every other action leaves both buffers alone.
- The theorem combines these with `IInvAlways` by PTL.

`HttpClientProofs` proves, for every chunk set, body bound and set of statuses satisfying `HttpAssumption`:
- `AsioContentOnlyFromOk`: `AsioSpec => []ContentOnlyFromOk`;
- `AsioNoContentAfterError`: `AsioSpec => []NoContentAfterError`;
- `AsioTypeCorrect`: `AsioSpec => [](HttpTypeOK /\ PrefixOf(got, body))`: every variable keeps its type, and what has arrived in `ss` (the streambuf's leftover after the headers, then each read of the loop) is the first `Len(got)` chunks of the server's body, so never longer than it.

Neither property is inductive alone: that the body returned at EOF comes from a 200 answer read without error is a fact about the states on the way. `AsioIInv` adds three conjuncts:
- before the catch, nothing has errored;
- past the status line, the status is 200;
- at the end, `ret` is `""` or came from a clean read of a 200 answer;
- `got` is a prefix of `body`, and at the end so is `ret`.

The type part rests on `BodyIsSeq` and `SeqIsBody`, which say bodies are the sequences of chunks of length at most `MaxChunks`. `AppendBody` and `PrefixBody` use them for the read loop and for the prefix buffered with the headers. `PrefixFirst` (the buffered first `k` chunks, and `""`, are prefixes) and `PrefixAppend` (appending chunk `Len(g) + 1` of the body to a prefix `g` gives a prefix, by `SeqEqual`) carry `PrefixOf` through the same steps.

`HandlerSafetyProofs` proves the two action properties of the bulk loop, for all constants satisfying `RegistryAssumption` and `HandlerAssumption`:
- `BypassWindow`: `Spec => BypassRacesOnlySweep`;
- `CapHonoured`: `Spec => BulkHonoursCap`;
- `SafetyIInvAlways`: `Spec => []SafetyIInv`, the invariant both rest on.

Neither action property follows from `IInv`, so `SafetyIInv` adds three conjuncts:
- **`ClockInv`**: `lastExecution <= now` and `lcv <= now`. A sweep stamps `lastExecution` with the current second, and line 140 stamps `lastClientValidation` the same way. So a sweep after the stamp makes `IntegrityRanSince(lcv)` true, and it stays true while the clock advances.
- **`RetainedLive`**: inside the bulk loop (`dpc` is `bulk` or `bulkItem`), if validation is not forced and no freed object has been read, `currentClient` is non-null, and it is either live or a sweep has run since `lcv`. `ProcessRequestOk` gives this after every successful `processRequest`: the client it hands back was live when read, or `uaf` is set. A failed one sets `forceClientValidation`. The only step that frees clients is the sweep, and it makes `IntegrityRanSince(lcv)` true. `CheckBulkItem` either re-forces, which makes the conjunct vacuous, or finds no sweep, so `currentClient` is live at that moment. A sweep can still come before `ProcessBulkItem`; `RetainedLive` then holds through its second disjunct, which is exactly the window of finding 6.
- **`CapInv`**: in the bulk loop, `pos <= Len + 1`, `itemCount <= maxItemsInBulk`, and `itemCount` is the number of valid positions before `pos` (`ValidBefore`). Between the check and `processRequest`, the element is valid and the cap is not reached.

The argument:
- `NextExtra` splits on the actions of `Next`:
  - `FrameExtra` covers the actions that leave all of this alone.
  - `LeaveBulkExtra` covers those that leave the bulk loop. There `lcv` is kept or reset to 0.
  - `RegistryExtra` covers the clock tick, `CONNECT`, token issue and the sweep.
  - One lemma covers each bulk action.
- `ValidBeforeStep` shows that one more step of the iterator adds `pos` exactly when the element is valid. `FS_AddElement` then gives the count.
- For `BypassWindow`, a record written with `checked` false comes from `ProcessBulkItem` with the bypass set (`ProcessRequestRecord`). So `forceClientValidation` was false and the record names `currentClient`. If that object is freed, `RetainedLive` in the state before gives `IntegrityRanSince(lcv)`. `BypassOnLiveClient` itself does not hold, and `bypass_race` shows the run.
- For `CapHonoured`, only `EndBulk` leaves the bulk loop, and its guard is the end of the array or the cap. `NumValidPrefix` relates `NumValid` of the first `pos - 1` elements to `ValidBefore`. The minimum then follows from `itemCount <= NumValid`.
- TLC checked `SafetyIInv` first, in the `bulk_cap` run.

**Left to TLC:**
- the liveness properties (`EventuallyDispatched`, `ShutdownJoins`), which need fairness and ENABLED, out of TLAPS's reach;
- the properties of the violation runs, which fail by design;
- the curl build's properties, which the code violates.

## Not modelled

- **Crypto and byte-level framing.** `rsa.cc` wraps a crypto library with stateless functions over byte strings; their correctness is the library's arithmetic. A failed decode or decryption is the `bad` encoding.
- **Logging macros (`log.h`).** These are preprocessor definitions; only `RESIDUE_LOGGER_ID` matters, as the constant `InternalLogger`.
- **HTTP byte level.** URL parsing, the user agent, SSL options and the split of the body into reads are abstracted to chunks.
- **Registry internals.** The rw-lock and the token store's constant-time compare are not modelled. The integrity sweep is one atomic step, as it is under the registry's write lock. What matters for the dispatcher is that the sweep interleaves with each dispatcher step, including between the bulk loop's check and its `processRequest`, which the model has as separate actions.
- **Log output.** Log text, profiling, `dispatchDelay` and the format specifiers' contents are not modelled. `dispatch` is modelled as the record it writes.
- **More than one handler or dispatch thread.** The code fixes one (`NUM_OF_DISPATCH_THREADS = 1`). The `static idx` in `start` is listed as a hazard.

## Plan for further work

- **More than one handler.** A second `LogRequestHandler::start` finds the function-level `static idx` already past 1 and spawns no dispatch thread (line 64).
- **Integrity task as a component.** The integrity task and token store as a component with its own period.
- **More proofs.** The type invariant of the libcurl build, and `NoDanglingClientUse` for a fixed dispatcher that holds the registry's read lock from the check of lines 138-140 to the end of `processRequest`.
