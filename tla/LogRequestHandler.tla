-------------------------- MODULE LogRequestHandler --------------------------
(***************************************************************************)
(* LogRequestHandler (src/logging/log-request-handler.cc): session threads *)
(* acknowledge and enqueue raw log requests (handle); one background      *)
(* dispatch thread drains the queue in rounds (processRequestQueue),       *)
(* decodes each request, walks bulk items with a retained Client*, and    *)
(* runs processRequest / isRequestAllowed / dispatch for each record.      *)
(* The clock, the registry and the integrity task (module Registry) run   *)
(* concurrently with the dispatcher.                                       *)
(***************************************************************************)
EXTENDS Registry, RequestQueue, Naturals, Sequences, FiniteSets

CONSTANTS
    KnownLoggers,   \* Configuration::isKnownLogger
    Blacklist,      \* Configuration::isBlacklisted
    InternalLogger, \* RESIDUE_LOGGER_ID, the server's own logger
    PlainLoggers,   \* loggers with the ALLOW_PLAIN_LOG_REQUEST logger flag
    AllowPlain,     \* server flag ALLOW_PLAIN_LOG_REQUEST
    AllowBulk,      \* server flag ALLOW_BULK_LOG_REQUEST
    AllowUnknown,   \* server flag ALLOW_UNKNOWN_LOGGERS
    MaxItemsInBulk, \* Configuration::maxItemsInBulk
    MaxBulkLen,     \* bound on the elements of a bulk array
    MaxRequests,    \* bound on the requests clients send
    SenderIds,      \* client ids requests may carry
    Encodings,      \* frame kinds clients may send
    ItemValidity    \* outcomes of LogRequest::isValid clients may cause

ASSUME HandlerAssumption ==
    /\ KnownLoggers \subseteq Loggers
    /\ Blacklist \subseteq Loggers
    /\ PlainLoggers \subseteq Loggers
    /\ {AllowPlain, AllowBulk, AllowUnknown} \subseteq BOOLEAN
    /\ MaxItemsInBulk \in Nat
    /\ MaxBulkLen \in Nat \ {0}
    /\ MaxRequests \in Nat
    /\ SenderIds \subseteq ClientIds \cup {EmptyId}
    /\ Encodings \subseteq {"sym", "plain", "bad"}
    /\ ItemValidity \subseteq BOOLEAN

VARIABLES
    stopped,    \* m_stopped
    dpc,        \* where the dispatch thread is
    total,      \* total = m_queue.size() of the current round
    i,          \* index of the for loop over the round
    req,        \* the request being dispatched
    reqClient,  \* request.client(), resolved while decoding
    pos,        \* position of the bulk iterator
    itemCount,  \* itemCount of the bulk loop
    cur,        \* currentClient of the bulk loop
    lastKnown,  \* lastKnownClientId of the bulk loop
    lcv,        \* lastClientValidation of the bulk loop
    force,      \* forceClientValidation of the bulk loop
    itemCid,    \* requestItem.clientId() of the bulk element in hand
    pushed,     \* number of requests handed to handle()
    pulled,     \* number of requests pulled by the dispatcher
    loggerUser, \* user attached to unknown loggers from known clients
    lastLog,    \* the last record written by dispatch()
    logged,     \* number of records written by dispatch()
    uaf         \* a freed client object has been dereferenced

hVars == <<stopped, dpc, total, i, req, reqClient, pos, itemCount, cur,
           lastKnown, lcv, force, itemCid, pushed, pulled, loggerUser, lastLog, logged, uaf>>

vars == <<regVars, queueVars, hVars>>

Item == [logger: Loggers, valid: BOOLEAN, token: TokenValue]

RawRequest == [id: 0..MaxRequests, enc: Encodings \cup {"bad"}, cid: SenderIds \cup {EmptyId},
               bulk: BOOLEAN, items: Seq(Item), dr: Time]

NoRequest == [id |-> 0, enc |-> "bad", cid |-> EmptyId, bulk |-> FALSE, items |-> <<>>, dr |-> 0]

PtrOrNull == ClientPtr \cup {NullClient}

Record == [logger: Loggers, client: ClientPtr, dr: Time, token: TokenValue, checked: BOOLEAN]

NoRecord == [logger |-> CHOOSE l \in Loggers : TRUE, client |-> [id |-> CHOOSE c \in ClientIds : TRUE, gen |-> 1],
             dr |-> 0, token |-> NoToken, checked |-> FALSE]

NoUser == EmptyId

-----------------------------------------------------------------------------
(* RequestHandler::handle, as called at line 108: the status and client   *)
(* the decoding gives. A symmetric frame is decrypted with the key of the *)
(* client it names; a plain JSON frame has no client and gets the default *)
(* status, CONTINUE only when plain requests are allowed.                  *)
DecodeStatusOK(r) ==
    CASE r.enc = "sym"   -> FindClient(r.cid) # NullClient
      [] r.enc = "plain" -> AllowPlain
      [] OTHER           -> FALSE

DecodeClient(r) == IF r.enc = "sym" THEN FindClient(r.cid) ELSE NullClient

(* Lines 210-216: a request without a client is looked up by its id only  *)
(* when plain requests are allowed for the server and for the logger (or  *)
(* the logger is unknown and unknown loggers are allowed).                 *)
PlainLookup(l, cid) ==
    /\ AllowPlain
    /\ l \in PlainLoggers \/ (l \notin KnownLoggers /\ AllowUnknown)
    /\ cid # EmptyId

(* What dereferencing the client object reads: the real values while the *)
(* object lives; anything at all once it has been freed.                   *)
ClientReads(p, it, dr) ==
    IF Live(p)
    THEN {[alive   |-> IsAlive(p.id, dr),
           known   |-> p.id \in KnownClients,
           tokenOk |-> IsValidToken(p.id, it.logger, it.token, dr)]}
    ELSE [alive: BOOLEAN, known: BOOLEAN, tokenOk: BOOLEAN]

(* LogRequestHandler::isRequestAllowed, with the token check's result.     *)
IsRequestAllowed(l, tokenOk) ==
    /\ AllowUnknown \/ l \in KnownLoggers
    /\ l # InternalLogger
    /\ l \notin Blacklist
    /\ tokenOk

(* LogRequestHandler::dispatch: one record written to the logger.          *)
Dispatch(it, client, dr, checked) ==
    /\ lastLog' = [logger |-> it.logger, client |-> client, dr |-> dr,
                   token |-> it.token, checked |-> checked]
    /\ logged' = logged + 1

(* LogRequestHandler::processRequest(request, clientRef, forceCheck) for  *)
(* an item with id cid, received at dr, whose own client is itemClient,   *)
(* ref being *clientRef (NullClient when clientRef is null). ok is the    *)
(* result and res the client written back to *clientRef.                  *)
ProcessRequest(it, cid, dr, itemClient, ref, forceCheck, ok, res) ==
    LET bypass == ~forceCheck /\ ref # NullClient
        c0     == IF ref # NullClient THEN ref ELSE itemClient
        client == IF c0 # NullClient THEN c0
                  ELSE IF PlainLookup(it.logger, cid) THEN FindClient(cid)
                  ELSE NullClient
    IN /\ res = client
       /\ IF client = NullClient
          THEN /\ ok = FALSE
               /\ UNCHANGED <<loggerUser, lastLog, logged, uaf>>
          ELSE \E v \in ClientReads(client, it, dr) :
                 /\ uaf' = (uaf \/ ~Live(client))
                 /\ IF ~bypass /\ ~v.alive
                    THEN /\ ok = FALSE
                         /\ UNCHANGED <<loggerUser, lastLog, logged>>
                    ELSE /\ loggerUser' =
                              IF ~bypass /\ v.known /\ AllowUnknown /\ it.logger \notin KnownLoggers
                              THEN [loggerUser EXCEPT ![it.logger] = client.id]
                              ELSE loggerUser
                         /\ IF bypass \/ IsRequestAllowed(it.logger, v.tokenOk)
                            THEN ok = TRUE /\ Dispatch(it, client, dr, ~bypass)
                            ELSE ok = FALSE /\ UNCHANGED <<lastLog, logged>>

-----------------------------------------------------------------------------
ResetBulk ==
    /\ pos' = 0
    /\ itemCount' = 0
    /\ cur' = NullClient
    /\ lastKnown' = EmptyId
    /\ lcv' = 0
    /\ force' = TRUE
    /\ itemCid' = EmptyId

HandlerInit ==
    /\ stopped = FALSE
    /\ dpc = "init"
    /\ total = 0
    /\ i = 0
    /\ req = NoRequest
    /\ reqClient = NullClient
    /\ pos = 0
    /\ itemCount = 0
    /\ cur = NullClient
    /\ lastKnown = EmptyId
    /\ lcv = 0
    /\ force = TRUE
    /\ itemCid = EmptyId
    /\ pushed = 0
    /\ pulled = 0
    /\ loggerUser = [l \in Loggers |-> NoUser]
    /\ lastLog = NoRecord
    /\ logged = 0
    /\ uaf = FALSE

Init == RegistryInit /\ QueueInit /\ HandlerInit

(* The requests a client may send now: a frame kind, a client id, and one *)
(* record or a bulk array; each element carries the token its client      *)
(* currently holds for its logger.                                         *)
TokenOf(cid, l) == IF cid \in ClientIds THEN tokens[cid][l].value ELSE NoToken

ItemsOf(c) == { [logger |-> l, valid |-> v, token |-> TokenOf(c, l)] :
                  l \in Loggers, v \in ItemValidity }

Requests(n) ==
    UNION { { [id |-> n, enc |-> e, cid |-> c, bulk |-> b, items |-> s, dr |-> now] :
                s \in UNION { [1..k -> ItemsOf(c)] : k \in 1..(IF b THEN MaxBulkLen ELSE 1) } }
            : e \in Encodings, c \in SenderIds, b \in BOOLEAN }

(* Mutant: handle pushes into the buffer the dispatcher is draining.      *)
HandleIntoDrain ==
    /\ pushed < MaxRequests
    /\ \E r \in Requests(pushed + 1) : queue' = Append(queue, r) /\ UNCHANGED backlog
    /\ pushed' = pushed + 1
    /\ UNCHANGED <<regVars, stopped, dpc, total, i, req, reqClient, pos, itemCount,
                   cur, lastKnown, lcv, force, itemCid, pulled, loggerUser, lastLog, logged, uaf>>

(* LogRequestHandler::handle: write STATUS_OK, then push under the lock.   *)
Handle ==
    /\ pushed < MaxRequests
    /\ \E r \in Requests(pushed + 1) : QueuePush(r)
    /\ pushed' = pushed + 1
    /\ UNCHANGED <<regVars, stopped, dpc, total, i, req, reqClient, pos, itemCount,
                   cur, lastKnown, lcv, force, itemCid, pulled, loggerUser, lastLog, logged, uaf>>

(* LogRequestHandler::start: clear m_stopped and spawn the dispatcher.     *)
Start ==
    /\ dpc = "init"
    /\ stopped' = FALSE
    /\ dpc' = "loop"
    /\ UNCHANGED <<regVars, queueVars, total, i, req, reqClient, pos, itemCount, cur,
                   lastKnown, lcv, force, itemCid, pushed, pulled, loggerUser, lastLog, logged, uaf>>

(* ~LogRequestHandler: set m_stopped and join the dispatcher.              *)
Shutdown ==
    /\ dpc # "init"
    /\ ~stopped
    /\ stopped' = TRUE
    /\ UNCHANGED <<regVars, queueVars, dpc, total, i, req, reqClient, pos, itemCount, cur,
                   lastKnown, lcv, force, itemCid, pushed, pulled, loggerUser, lastLog, logged, uaf>>

(* Mutant: the dispatch loop never tests m_stopped.                       *)
LoopHeadIgnoresStop ==
    /\ dpc = "loop"
    /\ dpc' = "round"
    /\ total' = Len(queue)
    /\ i' = 0
    /\ UNCHANGED <<regVars, queueVars, stopped, req, reqClient, pos, itemCount, cur,
                   lastKnown, lcv, force, itemCid, pushed, pulled, loggerUser, lastLog, logged, uaf>>

(* The dispatcher's while (!m_stopped) test, after the 100 ms sleep; a     *)
(* round of processRequestQueue starts with total = m_queue.size().        *)
LoopHead ==
    /\ dpc = "loop"
    /\ IF stopped
       THEN dpc' = "exited" /\ UNCHANGED <<total, i>>
       ELSE /\ dpc' = "round"
            /\ total' = Len(queue)
            /\ i' = 0
    /\ UNCHANGED <<regVars, queueVars, stopped, req, reqClient, pos, itemCount, cur,
                   lastKnown, lcv, force, itemCid, pushed, pulled, loggerUser, lastLog, logged, uaf>>

(* Iteration i of the round: pull a request and decode it. A request that *)
(* fails to decode, or an invalid single record, returns from             *)
(* processRequestQueue: the round ends there, without switchContext.       *)
PullRequest ==
    /\ dpc = "round"
    /\ i < total
    /\ QueuePull
    /\ pulled' = pulled + 1
    /\ LET r == Head(queue) IN
       IF ~DecodeStatusOK(r) \/ (~r.bulk /\ ~r.items[1].valid)
       THEN /\ dpc' = "loop"
            /\ req' = NoRequest
            /\ reqClient' = NullClient
       ELSE /\ dpc' = IF r.bulk THEN "bulkStart" ELSE "single"
            /\ req' = r
            /\ reqClient' = DecodeClient(r)
    /\ UNCHANGED <<regVars, stopped, total, i, pos, itemCount, cur, lastKnown, lcv, force, itemCid,
                   pushed, loggerUser, lastLog, logged, uaf>>

(* A bulk request: when bulk requests are allowed, set up the item loop   *)
(* with currentClient = request.client(); otherwise drop it.               *)
BeginBulk ==
    /\ dpc = "bulkStart"
    /\ IF AllowBulk
       THEN /\ dpc' = "bulk"
            /\ pos' = 1
            /\ itemCount' = 0
            /\ cur' = reqClient
            /\ lastKnown' = req.cid
            /\ lcv' = now
            /\ force' = TRUE
            /\ UNCHANGED <<i, req, reqClient, itemCid>>
       ELSE /\ dpc' = "round"
            /\ i' = i + 1
            /\ req' = NoRequest
            /\ reqClient' = NullClient
            /\ UNCHANGED <<pos, itemCount, cur, lastKnown, lcv, force, itemCid>>
    /\ UNCHANGED <<regVars, queueVars, stopped, total, pushed, pulled, loggerUser,
                   lastLog, logged, uaf>>

EndItem ==
    /\ dpc' = "round"
    /\ i' = i + 1
    /\ req' = NoRequest
    /\ reqClient' = NullClient

(* Mutant: the cap test is off by one, so the loop stops one element short. *)
EndBulkEarly ==
    /\ dpc = "bulk"
    /\ pos > Len(req.items) \/ itemCount + 1 = MaxItemsInBulk
    /\ EndItem
    /\ ResetBulk
    /\ UNCHANGED <<regVars, queueVars, stopped, total, pushed, pulled, loggerUser,
                   lastLog, logged, uaf>>

(* The bulk loop ends: every element seen, or maxItemsInBulk reached.      *)
EndBulk ==
    /\ dpc = "bulk"
    /\ pos > Len(req.items) \/ itemCount = MaxItemsInBulk
    /\ EndItem
    /\ ResetBulk
    /\ UNCHANGED <<regVars, queueVars, stopped, total, pushed, pulled, loggerUser,
                   lastLog, logged, uaf>>

(* Mutant: invalid elements are counted against maxItemsInBulk.          *)
SkipInvalidItemCounted ==
    /\ dpc = "bulk"
    /\ pos <= Len(req.items)
    /\ itemCount # MaxItemsInBulk
    /\ ~req.items[pos].valid
    /\ pos' = pos + 1
    /\ itemCount' = itemCount + 1
    /\ UNCHANGED <<regVars, queueVars, stopped, dpc, total, i, req, reqClient,
                   cur, lastKnown, lcv, force, itemCid, pushed, pulled, loggerUser, lastLog, logged, uaf>>

(* An element that does not deserialize to a valid request is skipped.     *)
SkipInvalidItem ==
    /\ dpc = "bulk"
    /\ pos <= Len(req.items)
    /\ itemCount # MaxItemsInBulk
    /\ ~req.items[pos].valid
    /\ pos' = pos + 1
    /\ UNCHANGED <<regVars, queueVars, stopped, dpc, total, i, req, reqClient, itemCount,
                   cur, lastKnown, lcv, force, itemCid, pushed, pulled, loggerUser, lastLog, logged, uaf>>

(* Mutant: the sweep check compares with < and misses a run of the       *)
(* integrity task within the second of the last validation.               *)
IntegrityRanSinceStrict(t) == t < lastExecution

(* Lines 139-140: the integrity task has run at or after time t.          *)
IntegrityRanSince(t) == t <= lastExecution

(* Lines 137-148, before a valid element: unless validation is already  *)
(* forced, if the integrity task has run since lastClientValidation, drop *)
(* currentClient, name the element's client by lastKnownClientId and     *)
(* force validation. processRequest reads currentClient in the next step: *)
(* the integrity thread may run in between.                               *)
CheckBulkItem ==
    /\ dpc = "bulk"
    /\ pos <= Len(req.items)
    /\ itemCount # MaxItemsInBulk
    /\ req.items[pos].valid
    /\ dpc' = "bulkItem"
    /\ IF ~force /\ IntegrityRanSince(lcv)
       THEN /\ force' = TRUE
            /\ cur' = NullClient
            /\ itemCid' = lastKnown
            /\ lcv' = now
       ELSE /\ itemCid' = req.cid
            /\ UNCHANGED <<force, cur, lcv>>
    /\ UNCHANGED <<regVars, queueVars, stopped, total, i, req, reqClient, pos, itemCount,
                   lastKnown, pushed, pulled, loggerUser, lastLog, logged, uaf>>

(* Lines 149-156: processRequest(&requestItem, &currentClient,            *)
(* forceClientValidation); on success remember the client's id and stop   *)
(* forcing, otherwise force the next element's validation; count it.      *)
ProcessBulkItem ==
    /\ dpc = "bulkItem"
    /\ \E ok \in BOOLEAN, res \in PtrOrNull :
         /\ ProcessRequest(req.items[pos], itemCid, req.dr, NullClient, cur, force, ok, res)
         /\ cur' = res
         /\ lastKnown' = IF ok THEN res.id ELSE lastKnown
         /\ force' = ~ok
    /\ dpc' = "bulk"
    /\ itemCount' = itemCount + 1
    /\ pos' = pos + 1
    /\ UNCHANGED <<regVars, queueVars, stopped, total, i, req, reqClient, lcv, itemCid,
                   pushed, pulled>>

(* A single record: processRequest(&request, nullptr, true).               *)
ProcessSingle ==
    /\ dpc = "single"
    /\ \E ok \in BOOLEAN, res \in PtrOrNull :
         ProcessRequest(req.items[1], req.cid, req.dr, reqClient, NullClient, TRUE, ok, res)
    /\ EndItem
    /\ UNCHANGED <<regVars, queueVars, stopped, total, pos, itemCount, cur, lastKnown,
                   lcv, force, itemCid, pushed, pulled>>

(* Mutant: the round ends without switching the buffers.                 *)
EndRoundNoSwitch ==
    /\ dpc = "round"
    /\ i = total
    /\ dpc' = "loop"
    /\ UNCHANGED <<regVars, queueVars, stopped, total, i, req, reqClient, pos, itemCount,
                   cur, lastKnown, lcv, force, itemCid, pushed, pulled, loggerUser, lastLog, logged, uaf>>

(* The round drained total items: m_queue.switchContext().                 *)
EndRound ==
    /\ dpc = "round"
    /\ i = total
    /\ QueueSwitchContext
    /\ dpc' = "loop"
    /\ UNCHANGED <<regVars, stopped, total, i, req, reqClient, pos, itemCount, cur,
                   lastKnown, lcv, force, itemCid, pushed, pulled, loggerUser, lastLog, logged, uaf>>

(* The dispatch thread has returned and been joined.                       *)
Terminated ==
    /\ dpc = "exited"
    /\ UNCHANGED vars

Dispatcher ==
    \/ Start
    \/ LoopHead
    \/ PullRequest
    \/ BeginBulk
    \/ EndBulk
    \/ SkipInvalidItem
    \/ CheckBulkItem
    \/ ProcessBulkItem
    \/ ProcessSingle
    \/ EndRound

Environment ==
    \/ /\ RegistryNext
       /\ UNCHANGED <<queueVars, hVars>>
    \/ Handle
    \/ Shutdown

Next == Dispatcher \/ Environment \/ Terminated

(* The dispatch thread is never starved by the scheduler.                  *)
Spec == Init /\ [][Next]_vars /\ WF_vars(Dispatcher)

(* The requests a session thread can hand in: an id up to MaxRequests and *)
(* at most MaxBulkLen elements.                                            *)
SentRequest == [id: 1..MaxRequests, enc: Encodings, cid: SenderIds, bulk: BOOLEAN,
                items: UNION {[1..k -> Item] : k \in 1..MaxBulkLen}, dr: Time]

(* m_queue seen from outside: the drain buffer, then the backlog.          *)
Fifo == INSTANCE RequestFifo WITH pending <- queue \o backlog, Msgs <- SentRequest

-----------------------------------------------------------------------------
TypeOK ==
    /\ RegistryTypeOK
    /\ queue \in Seq(RawRequest)
    /\ backlog \in Seq(RawRequest)
    /\ stopped \in BOOLEAN
    /\ dpc \in {"init", "loop", "round", "bulkStart", "bulk", "bulkItem", "single",
                "exited"}
    /\ total \in Nat
    /\ i \in Nat
    /\ req \in RawRequest
    /\ reqClient \in PtrOrNull
    /\ pos \in Nat
    /\ itemCount \in Nat
    /\ cur \in PtrOrNull
    /\ lastKnown \in ClientIds \cup {EmptyId}
    /\ lcv \in Time
    /\ force \in BOOLEAN
    /\ itemCid \in ClientIds \cup {EmptyId}
    /\ pushed \in 0..MaxRequests
    /\ pulled \in 0..MaxRequests
    /\ loggerUser \in [Loggers -> ClientIds \cup {NoUser}]
    /\ lastLog \in Record \cup {NoRecord}
    /\ logged \in Nat
    /\ uaf \in BOOLEAN

(* The two buffers of m_queue hold exactly the requests handle() accepted *)
(* and the dispatcher has not pulled, in the order they arrived: the drain *)
(* buffer the next ones, the backlog the ones after. Pushes racing with a *)
(* drain round, the early return that skips switchContext and the swap    *)
(* itself never lose, duplicate or reorder a request.                      *)
QueueInOrder ==
    /\ Len(queue) + Len(backlog) = pushed - pulled
    /\ \A k \in 1..Len(queue) : queue[k].id = pulled + k
    /\ \A k \in 1..Len(backlog) : backlog[k].id = pulled + Len(queue) + k

NewRecord == logged' # logged

(* What the bypass presumes (the comment at lines 143-144): until some    *)
(* step has read a freed client object, every record that processRequest  *)
(* dispatches with bypassChecks set (a bulk item after a validated one)   *)
(* is written through a client object the registry still holds, because  *)
(* currentClient is dropped whenever the integrity task has run since the *)
(* last validation. The check of lines 138-140 and the use inside         *)
(* processRequest are separate steps, and a sweep between them is missed. *)
BypassOnLiveClient ==
    [][NewRecord /\ ~lastLog'.checked /\ ~uaf => Live(lastLog'.client)]_vars

(* The only way a bulk item dispatched with bypassChecks set goes through  *)
(* a freed client object is the window between the re-force check of      *)
(* lines 138-140 and processRequest: when it happens, the integrity task  *)
(* has run since lastClientValidation, so the check, had it come later,   *)
(* would have dropped currentClient. No sweep before the check is missed. *)
BypassRacesOnlySweep ==
    [][NewRecord /\ ~lastLog'.checked /\ ~uaf /\ ~Live(lastLog'.client)
         => IntegrityRanSince(lcv)]_vars

NumValid(s) == Cardinality({k \in DOMAIN s : s[k].valid})

(* Spec section 8 boundary: a bulk loop processes the first              *)
(* min(maxItemsInBulk, v) valid elements of its array, v being the number *)
(* of valid ones: it stops exactly at the cap, invalid elements do not    *)
(* count against it, and no valid element before the cap is skipped.       *)
BulkHonoursCap ==
    [][dpc = "bulk" /\ dpc' = "round" =>
         NumValid(SubSeq(req.items, 1, pos - 1))
           = IF NumValid(req.items) < MaxItemsInBulk THEN NumValid(req.items)
             ELSE MaxItemsInBulk]_vars

(* The dual-buffer queue implements a FIFO line (spec 4.6): handle()       *)
(* appends to the drain buffer followed by the backlog, a pull takes its  *)
(* oldest request, and neither the round's early return nor               *)
(* switchContext, racing with pushes, changes it.                         *)
QueueRefinesFifo == Fifo!Spec

(* Every request handle() accepted is eventually pulled by the dispatch   *)
(* thread, unless the handler has been shut down.                          *)
EventuallyDispatched ==
    \A n \in 1..MaxRequests : (pushed >= n) ~> (pulled >= n \/ dpc = "exited")

(* Once m_stopped is set, the dispatch thread returns, so the join in the *)
(* destructor completes.                                                   *)
ShutdownJoins == stopped ~> (dpc = "exited")

(* Spec section 3 and 8: no record reaches the logging engine unless the  *)
(* policy evaluator allows it (logger known or unknown loggers allowed,   *)
(* not the internal logger, not blacklisted, token valid at dateReceived) *)
(* for a client alive at dateReceived.                                     *)
PolicyAllows(rec) ==
    /\ Live(rec.client)
    /\ IsAlive(rec.client.id, rec.dr)
    /\ IsRequestAllowed(rec.logger,
                        IsValidToken(rec.client.id, rec.logger, rec.token, rec.dr))

PolicyEnforced == [][NewRecord /\ ~uaf' => PolicyAllows(lastLog')]_vars

(* Spec section 5: a Client* obtained before an integrity sweep is never  *)
(* used without re-resolving it, so no freed client object is ever read.  *)
NoDanglingClientUse == ~uaf

(* Spec section 5, Cancellation: the dispatcher polls m_stopped between  *)
(* items as well as between rounds, so once the handler is stopped it     *)
(* pulls no further request from the queue.                                *)
StopPolledBetweenItems == [][stopped => pulled' = pulled]_vars

(* Spec sections 4.7, 7 and 8: when the integrity task has run since the *)
(* last validation inside a bulk, the re-force check drops currentClient  *)
(* and names the element by lastKnownClientId; the element is then        *)
(* processed with the client an id lookup of lastKnownClientId gives, so  *)
(* the bulk of a client still registered goes on.                          *)
ReResolvedAfterSweep ==
    [][dpc = "bulkItem" /\ dpc' = "bulk" /\ cur = NullClient /\ itemCid = lastKnown
         => cur' = FindClient(lastKnown)]_vars

(* Spec section 4.6 and 8: a drain round that observed total = K items    *)
(* processes all K before it ends.                                         *)
RoundDrainsObservedTotal == [][dpc = "round" /\ dpc' = "loop" => i = total]_vars

=============================================================================
