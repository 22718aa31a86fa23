----------------------- MODULE LogRequestHandlerProofs -----------------------
(***************************************************************************)
(* Proofs about LogRequestHandler: the type invariant and the order and   *)
(* conservation of requests in the dual-buffer queue hold in every        *)
(* reachable state, for all values of the constants.                       *)
(*                                                                         *)
(* Neither is inductive alone. The strengthening IInv adds                 *)
(*  - GenInv: a registered client has a generation >= 1, so findClient    *)
(*    hands out pointers of ClientPtr (needed by the type invariant);     *)
(*  - RoundShape: inside a drain round the drain buffer holds exactly the *)
(*    total - i items the round has still to pull, so it is empty when   *)
(*    switchContext swaps the buffers (needed for the order: a swap of a  *)
(*    non-empty drain buffer would put older requests behind newer ones). *)
(***************************************************************************)
EXTENDS LogRequestHandler, SequenceTheorems, TLAPS

GenInv == \A c \in ClientIds : clients[c].present => clients[c].gen \in 1..MaxGen

RoundShape ==
    /\ i <= total
    /\ dpc = "round" => Len(queue) + i = total
    /\ dpc \in {"single", "bulkStart", "bulk", "bulkItem"} => Len(queue) + i + 1 = total
    /\ dpc = "bulk" => pos >= 1
    /\ dpc = "bulkItem" => pos \in 1..Len(req.items)

(* A request carries at least one record: a single one exactly one, a    *)
(* bulk array at least one element.                                        *)
HasItems(r) == 1 \in DOMAIN r.items

ItemsInv ==
    /\ \A k \in 1..Len(queue) : HasItems(queue[k])
    /\ \A k \in 1..Len(backlog) : HasItems(backlog[k])
    /\ dpc = "single" => HasItems(req)

IInv ==
    /\ TypeOK
    /\ GenInv
    /\ pulled <= pushed
    /\ QueueInOrder
    /\ RoundShape
    /\ ItemsInv

USE RegistryAssumption, HandlerAssumption

-----------------------------------------------------------------------------
(* The registry's own steps keep its part of the state well typed and     *)
(* registered clients numbered from generation 1.                          *)
LEMMA RegistryStep ==
    ASSUME RegistryTypeOK, GenInv, RegistryNext
    PROVE  RegistryTypeOK' /\ GenInv'
<1>1. CASE Tick
  BY <1>1 DEF Tick, RegistryTypeOK, GenInv, Time
<1>2. ASSUME NEW c \in ClientIds, AddClient(c)
      PROVE  RegistryTypeOK' /\ GenInv'
  BY <1>2 DEF AddClient, RegistryTypeOK, GenInv, Slot, Time, TokenRec, NoTokenRec, NoToken, TokenValue
<1>3. ASSUME NEW c \in ClientIds, NEW l \in Loggers, IssueToken(c, l)
      PROVE  RegistryTypeOK' /\ GenInv'
  BY <1>3 DEF IssueToken, RegistryTypeOK, GenInv, TokenRec, TokenValue
<1>4. CASE IntegritySweep
  <2>1. RegistryTypeOK'
    <3>1. clients' \in [ClientIds -> Slot]
      <4>1. \A c \in ClientIds : [clients[c] EXCEPT !.present = FALSE] \in Slot
        BY ZenonT(30) DEF RegistryTypeOK, Slot
      <4>2. QED
        BY <1>4, <4>1 DEF IntegritySweep, RegistryTypeOK
    <3>2. tokens' \in [ClientIds -> [Loggers -> TokenRec]]
      BY <1>4 DEF IntegritySweep, RegistryTypeOK, TokenRec, NoTokenRec, NoToken,
                  TokenValue, Time
    <3>3. QED
      BY <1>4, <3>1, <3>2 DEF IntegritySweep, RegistryTypeOK
  <2>2. GenInv'
    <3>1. SUFFICES ASSUME NEW c \in ClientIds, clients'[c].present
                   PROVE  clients'[c].gen \in 1..MaxGen
      BY DEF GenInv
    <3>2. clients[c].present /\ clients'[c].gen = clients[c].gen
      BY <1>4, <3>1 DEF IntegritySweep, RegistryTypeOK, Slot
    <3>3. QED
      BY <3>2 DEF GenInv
  <2>3. QED
    BY <2>1, <2>2
<1>5. QED
  BY <1>1, <1>2, <1>3, <1>4 DEF RegistryNext

(* findClient returns null or a pointer to a registered object.           *)
LEMMA FindClientType ==
    ASSUME RegistryTypeOK, GenInv, NEW id
    PROVE  FindClient(id) \in PtrOrNull
BY DEF FindClient, PtrOrNull, ClientPtr, GenInv, RegistryTypeOK

(* Every request a client may send now is a well-typed raw request        *)
(* carrying the id it is given.                                            *)
LEMMA RequestsType ==
    ASSUME RegistryTypeOK, NEW n \in 1..MaxRequests, NEW r \in Requests(n)
    PROVE  r \in RawRequest /\ r.id = n /\ HasItems(r) /\ r \in SentRequest
<1> DEFINE Shapes(e, c, b) ==
             { [id |-> n, enc |-> e, cid |-> c, bulk |-> b, items |-> s, dr |-> now] :
                 s \in UNION { [1..k -> ItemsOf(c)] : k \in 1..(IF b THEN MaxBulkLen ELSE 1) } }
<1>0. PICK X \in { Shapes(e, c, b) : e \in Encodings, c \in SenderIds, b \in BOOLEAN } : r \in X
  BY DEF Requests
<1>1. PICK e \in Encodings, c \in SenderIds, b \in BOOLEAN : r \in Shapes(e, c, b)
  BY <1>0
<1>2. PICK s \in UNION { [1..k -> ItemsOf(c)] : k \in 1..(IF b THEN MaxBulkLen ELSE 1) } :
        r = [id |-> n, enc |-> e, cid |-> c, bulk |-> b, items |-> s, dr |-> now]
  BY <1>1
<1>3. ItemsOf(c) \subseteq Item
  BY DEF ItemsOf, Item, TokenOf, RegistryTypeOK, TokenRec, TokenValue, NoToken
<1>4. PICK k \in 1..(IF b THEN MaxBulkLen ELSE 1) : s \in [1..k -> ItemsOf(c)]
  BY <1>2
<1>5. s \in Seq(Item)
  <2>1. k \in Nat /\ s \in [1..k -> Item]
    BY <1>3, <1>4
  <2>2. Seq(Item) = UNION {[1..m -> Item] : m \in Nat}
    BY SeqDef
  <2>3. QED
    BY <2>1, <2>2
<1>6. 1 \in DOMAIN s
  BY <1>4
<1>7. s \in UNION {[1..m -> Item] : m \in 1..MaxBulkLen}
  <2>1. k \in 1..MaxBulkLen
    BY <1>4, HandlerAssumption
  <2>2. QED
    BY <1>3, <1>4, <2>1
<1>8. QED
  BY <1>2, <1>5, <1>6, <1>7 DEF RawRequest, SentRequest, RegistryTypeOK, Time, HasItems

(* The initial state satisfies the inductive invariant.                    *)
LEMMA InitIInv == Init => IInv
<1> SUFFICES ASSUME Init PROVE IInv
  OBVIOUS
<1>1. RegistryTypeOK /\ GenInv
  BY DEF Init, RegistryInit, RegistryTypeOK, GenInv, Slot, Time, TokenRec, NoTokenRec,
         NoToken, TokenValue
<1>2. TypeOK
  <2>1. NoRequest \in RawRequest /\ <<>> \in Seq(RawRequest)
    <3>1. <<>> \in Seq(Item) /\ <<>> \in Seq(RawRequest)
      BY EmptySeq
    <3>2. QED
      BY <3>1 DEF NoRequest, RawRequest, Time
  <2>2. NullClient \in PtrOrNull
    BY DEF PtrOrNull
  <2>3. queue \in Seq(RawRequest) /\ backlog \in Seq(RawRequest)
    BY <2>1 DEF Init, QueueInit
  <2>8. stopped \in BOOLEAN /\ force \in BOOLEAN /\ uaf \in BOOLEAN
    BY Zenon DEF Init, HandlerInit
  <2>4. /\ dpc \in {"init", "loop", "round", "bulkStart", "bulk", "bulkItem", "single", "exited"}
        /\ total \in Nat /\ i \in Nat /\ pos \in Nat /\ itemCount \in Nat /\ logged \in Nat
        /\ pushed \in 0..MaxRequests /\ pulled \in 0..MaxRequests
    BY DEF Init, HandlerInit
  <2>5. /\ req \in RawRequest /\ reqClient \in PtrOrNull /\ cur \in PtrOrNull
        /\ lastKnown \in ClientIds \cup {EmptyId} /\ lcv \in Time
        /\ itemCid \in ClientIds \cup {EmptyId}
    BY <2>1, <2>2 DEF Init, HandlerInit, Time
  <2>6. loggerUser \in [Loggers -> ClientIds \cup {NoUser}] /\ lastLog \in Record \cup {NoRecord}
    BY DEF Init, HandlerInit, NoUser
  <2>7. QED
    BY <1>1, <2>3, <2>4, <2>5, <2>6, <2>8 DEF TypeOK
<1>3. QED
  BY <1>1, <1>2 DEF Init, QueueInit, HandlerInit, IInv, QueueInOrder, RoundShape, ItemsInv

(* processRequest keeps the variables it writes well typed, and it only   *)
(* reports success with a non-null client.                                 *)
LEMMA ProcessRequestType ==
    ASSUME TypeOK, GenInv,
           NEW it \in Item, NEW cid \in ClientIds \cup {EmptyId}, NEW dr \in Time,
           NEW itemClient \in PtrOrNull, NEW ref \in PtrOrNull, NEW forceCheck,
           NEW ok, NEW res,
           ProcessRequest(it, cid, dr, itemClient, ref, forceCheck, ok, res)
    PROVE  /\ res \in PtrOrNull
           /\ ok \in BOOLEAN
           /\ ok => res \in ClientPtr
           /\ loggerUser' \in [Loggers -> ClientIds \cup {NoUser}]
           /\ lastLog' \in Record \cup {NoRecord}
           /\ logged' \in Nat
           /\ uaf' \in BOOLEAN
<1> DEFINE c0     == IF ref # NullClient THEN ref ELSE itemClient
           client == IF c0 # NullClient THEN c0
                     ELSE IF PlainLookup(it.logger, cid) THEN FindClient(cid)
                     ELSE NullClient
           bypass == ~forceCheck /\ ref # NullClient
<1>1. client \in PtrOrNull
  BY FindClientType DEF TypeOK
<1>2. res = client
  BY DEF ProcessRequest
<1>3. CASE client = NullClient
  BY <1>1, <1>2, <1>3, Zenon DEF ProcessRequest, TypeOK
<1>4. CASE client # NullClient
  <2>1. client \in ClientPtr
    BY <1>1, <1>4 DEF PtrOrNull
  <2>2. PICK v \in ClientReads(client, it, dr) :
          /\ uaf' = (uaf \/ ~Live(client))
          /\ IF ~bypass /\ ~v.alive
             THEN /\ ok = FALSE
                  /\ UNCHANGED <<loggerUser, lastLog, logged>>
             ELSE /\ loggerUser' =
                       IF ~bypass /\ v.known /\ AllowUnknown /\ it.logger \notin KnownLoggers
                       THEN [loggerUser EXCEPT ![it.logger] = client.id]
                       ELSE loggerUser
                  /\ IF bypass \/ IsRequestAllowed(it.logger, v.tokenOk)
                     THEN ok = TRUE /\ Dispatch(it, client, dr, ~bypass)
                     ELSE ok = FALSE /\ UNCHANGED <<lastLog, logged>>
    BY <1>4 DEF ProcessRequest
  <2>3. Dispatch(it, client, dr, ~bypass) => lastLog' \in Record /\ logged' \in Nat
    BY <2>1 DEF Dispatch, Record, Item, TypeOK
  <2>4. QED
    BY <1>2, <2>1, <2>2, <2>3, Zenon DEF TypeOK, ClientPtr, PtrOrNull, Item
<1>5. QED
  BY <1>3, <1>4


(* The constant values the handler resets its variables to are typed.     *)
LEMMA ResetValuesType ==
    /\ NoRequest \in RawRequest
    /\ NullClient \in PtrOrNull
    /\ EmptyId \in ClientIds \cup {EmptyId}
    /\ 0 \in Time
<1>1. <<>> \in Seq(Item)
  BY EmptySeq
<1>2. QED
  BY <1>1 DEF NoRequest, RawRequest, PtrOrNull, Time

(* A step that leaves the registry alone keeps its typing and GenInv.      *)
LEMMA RegistryUnchanged ==
    ASSUME RegistryTypeOK, GenInv, UNCHANGED regVars
    PROVE  RegistryTypeOK' /\ GenInv'
BY DEF regVars, RegistryTypeOK, GenInv

(* A step that touches neither buffer nor the two counters keeps the queue *)
(* invariant.                                                               *)
LEMMA QueueUnchanged ==
    ASSUME QueueInOrder, UNCHANGED <<queue, backlog, pushed, pulled>>
    PROVE  QueueInOrder'
BY DEF QueueInOrder

(* TypeOK split into the registry's part, the dispatcher's Boolean flags  *)
(* and the rest, so that each part can go to the backend that suits it.   *)
BoolTypes == stopped \in BOOLEAN /\ force \in BOOLEAN /\ uaf \in BOOLEAN

DataTypes ==
    /\ queue \in Seq(RawRequest)
    /\ backlog \in Seq(RawRequest)
    /\ dpc \in {"init", "loop", "round", "bulkStart", "bulk", "bulkItem", "single", "exited"}
    /\ total \in Nat
    /\ i \in Nat
    /\ req \in RawRequest
    /\ reqClient \in PtrOrNull
    /\ pos \in Nat
    /\ itemCount \in Nat
    /\ cur \in PtrOrNull
    /\ lastKnown \in ClientIds \cup {EmptyId}
    /\ lcv \in Time
    /\ itemCid \in ClientIds \cup {EmptyId}
    /\ pushed \in 0..MaxRequests
    /\ pulled \in 0..MaxRequests
    /\ loggerUser \in [Loggers -> ClientIds \cup {NoUser}]
    /\ lastLog \in Record \cup {NoRecord}
    /\ logged \in Nat

(* The rest of IInv beside the types.                                      *)
ShapeInv == pulled <= pushed /\ RoundShape /\ ItemsInv

LEMMA TypeSplit ==
    /\ TypeOK <=> RegistryTypeOK /\ BoolTypes /\ DataTypes
    /\ TypeOK' <=> RegistryTypeOK' /\ BoolTypes' /\ DataTypes'
    /\ IInv <=> TypeOK /\ GenInv /\ QueueInOrder /\ ShapeInv
    /\ IInv' <=> TypeOK' /\ GenInv' /\ QueueInOrder' /\ ShapeInv'
BY Zenon DEF TypeOK, BoolTypes, DataTypes, IInv, ShapeInv

(* The loop of the dispatch thread and ~LogRequestHandler touch only their *)
(* own control state.                                                       *)
LEMMA StartIInv ==
    ASSUME IInv, Start
    PROVE  IInv'
<1>1. RegistryTypeOK' /\ GenInv' /\ QueueInOrder'
  BY RegistryUnchanged, QueueUnchanged DEF IInv, TypeOK, Start, queueVars
<1>2. BoolTypes'
  BY Zenon DEF IInv, TypeOK, BoolTypes, Start
<1>3. DataTypes'
  BY DEF IInv, TypeOK, DataTypes, Start, queueVars
<1>4. ShapeInv'
  BY DEF IInv, TypeOK, ShapeInv, Start, queueVars, RoundShape, ItemsInv
<1>5. QED
  BY <1>1, <1>2, <1>3, <1>4, TypeSplit

LEMMA ShutdownIInv ==
    ASSUME IInv, Shutdown
    PROVE  IInv'
<1>1. RegistryTypeOK' /\ GenInv' /\ QueueInOrder'
  BY RegistryUnchanged, QueueUnchanged DEF IInv, TypeOK, Shutdown, queueVars
<1>2. BoolTypes'
  BY Zenon DEF IInv, TypeOK, BoolTypes, Shutdown
<1>3. DataTypes'
  BY DEF IInv, TypeOK, DataTypes, Shutdown, queueVars
<1>4. ShapeInv'
  BY DEF IInv, TypeOK, ShapeInv, Shutdown, queueVars, RoundShape, ItemsInv
<1>5. QED
  BY <1>1, <1>2, <1>3, <1>4, TypeSplit

(* LoopHead: the m_stopped test, and total = m_queue.size() for a round.   *)
LEMMA LoopHeadIInv ==
    ASSUME IInv, LoopHead
    PROVE  IInv'
<1>1. RegistryTypeOK' /\ GenInv' /\ QueueInOrder'
  BY RegistryUnchanged, QueueUnchanged DEF IInv, TypeOK, LoopHead, queueVars
<1>2. BoolTypes'
  BY Zenon DEF IInv, TypeOK, BoolTypes, LoopHead
<1>3. DataTypes'
  BY LenProperties DEF IInv, TypeOK, DataTypes, LoopHead, queueVars
<1>4. ShapeInv'
  BY LenProperties DEF IInv, TypeOK, ShapeInv, LoopHead, queueVars, RoundShape, ItemsInv
<1>5. QED
  BY <1>1, <1>2, <1>3, <1>4, TypeSplit

(* Skipping an invalid bulk element only moves the iterator.               *)
LEMMA SkipInvalidItemIInv ==
    ASSUME IInv, SkipInvalidItem
    PROVE  IInv'
<1>1. RegistryTypeOK' /\ GenInv' /\ QueueInOrder'
  BY RegistryUnchanged, QueueUnchanged DEF IInv, TypeOK, SkipInvalidItem, queueVars
<1>2. BoolTypes'
  BY Zenon DEF IInv, TypeOK, BoolTypes, SkipInvalidItem
<1>3. DataTypes'
  BY DEF IInv, TypeOK, DataTypes, SkipInvalidItem, queueVars
<1>4. ShapeInv'
  BY DEF IInv, TypeOK, ShapeInv, SkipInvalidItem, queueVars, RoundShape, ItemsInv
<1>5. QED
  BY <1>1, <1>2, <1>3, <1>4, TypeSplit

(* A pull: the drain buffer loses its head, which becomes the request in  *)
(* hand unless decoding fails or the single record is invalid.             *)
LEMMA PullRequestIInv ==
    ASSUME IInv, PullRequest
    PROVE  IInv'
<1> DEFINE r == Head(queue)
<1>1. /\ queue # <<>> /\ queue' = Tail(queue) /\ backlog' = backlog
      /\ pulled' = pulled + 1 /\ pushed' = pushed
      /\ dpc = "round" /\ i < total /\ i' = i /\ total' = total
      /\ dpc' \in {"loop", "bulkStart", "single"}
      /\ dpc' = "single" => req' = r
      /\ req' \in {NoRequest, r}
      /\ reqClient' \in {NullClient, DecodeClient(r)}
  BY DEF PullRequest, QueuePull
<1>2. /\ r \in RawRequest
      /\ queue' \in Seq(RawRequest)
      /\ Len(queue') = Len(queue) - 1
      /\ \A k \in 1..Len(queue') : queue'[k] = queue[k + 1]
      /\ Len(queue) \in Nat /\ Len(backlog) \in Nat
  BY <1>1, HeadTailProperties, LenProperties DEF IInv, TypeOK
<1>3. RegistryTypeOK' /\ GenInv'
  BY RegistryUnchanged DEF IInv, TypeOK, PullRequest
<1>4. pulled < pushed
  BY <1>1, <1>2 DEF IInv, QueueInOrder, TypeOK
<1>5. DecodeClient(r) \in PtrOrNull
  BY <1>3, FindClientType, ResetValuesType DEF IInv, TypeOK, DecodeClient
<1>6. BoolTypes'
  BY Zenon DEF IInv, TypeOK, BoolTypes, PullRequest
<1>7. DataTypes'
  BY <1>1, <1>2, <1>4, <1>5, ResetValuesType DEF IInv, TypeOK, DataTypes, PullRequest
<1>8. QueueInOrder'
  <2>0. Len(queue) + Len(backlog) = pushed - pulled /\ pushed \in Nat /\ pulled \in Nat
    BY DEF IInv, TypeOK, QueueInOrder
  <2>1. Len(queue') + Len(backlog') = pushed' - pulled'
    BY <1>1, <1>2, <2>0
  <2>2. ASSUME NEW k \in 1..Len(queue') PROVE queue'[k].id = pulled' + k
    <3>1. k + 1 \in 1..Len(queue) /\ queue'[k] = queue[k + 1]
      BY <1>2
    <3>2. queue[k + 1].id = pulled + (k + 1)
      BY <3>1 DEF IInv, QueueInOrder
    <3>3. QED
      BY <1>1, <3>1, <3>2 DEF IInv, TypeOK
  <2>3. ASSUME NEW k \in 1..Len(backlog') PROVE backlog'[k].id = pulled' + Len(queue') + k
    BY <1>1, <1>2 DEF IInv, TypeOK, QueueInOrder
  <2>4. QED
    BY <2>1, <2>2, <2>3 DEF QueueInOrder
<1>9. ShapeInv'
  <2>1. RoundShape'
    BY <1>1, <1>2 DEF IInv, TypeOK, RoundShape
  <2>2. ASSUME NEW k \in 1..Len(queue') PROVE HasItems(queue'[k])
    <3>1. k + 1 \in 1..Len(queue) /\ queue'[k] = queue[k + 1]
      BY <1>2
    <3>2. QED
      BY <3>1 DEF IInv, ItemsInv
  <2>3. dpc' = "single" => HasItems(req')
    <3>1. 1 \in 1..Len(queue) /\ r = queue[1]
      BY <1>1, <1>2
    <3>2. QED
      BY <1>1, <3>1 DEF IInv, ItemsInv
  <2>4. QED
    BY <1>1, <1>4, <2>1, <2>2, <2>3 DEF IInv, TypeOK, ShapeInv, ItemsInv
<1>10. QED
  BY <1>3, <1>6, <1>7, <1>8, <1>9, TypeSplit

(* The bulk loop is set up, or the bulk is dropped when bulk requests are *)
(* not allowed.                                                             *)
LEMMA BeginBulkIInv ==
    ASSUME IInv, BeginBulk
    PROVE  IInv'
<1>1. RegistryTypeOK' /\ GenInv' /\ QueueInOrder'
  BY RegistryUnchanged, QueueUnchanged DEF IInv, TypeOK, BeginBulk, queueVars
<1>2. req.cid \in ClientIds \cup {EmptyId} /\ now \in Time
  BY DEF IInv, TypeOK, RegistryTypeOK, RawRequest
<1>3. BoolTypes'
  BY Zenon DEF IInv, TypeOK, BoolTypes, BeginBulk
<1>4. DataTypes'
  BY <1>2, ResetValuesType, SMTT(30) DEF IInv, TypeOK, DataTypes, BeginBulk, queueVars
<1>5. ShapeInv'
  BY LenProperties DEF IInv, TypeOK, ShapeInv, BeginBulk, queueVars, RoundShape, ItemsInv
<1>6. QED
  BY <1>1, <1>3, <1>4, <1>5, TypeSplit

(* The bulk loop ends and the round moves to its next item.                *)
LEMMA EndBulkIInv ==
    ASSUME IInv, EndBulk
    PROVE  IInv'
<1>1. RegistryTypeOK' /\ GenInv' /\ QueueInOrder'
  BY RegistryUnchanged, QueueUnchanged DEF IInv, TypeOK, EndBulk, queueVars
<1>2. TypeOK'
  BY <1>1, ResetValuesType DEF IInv, TypeOK, EndBulk, EndItem, ResetBulk, queueVars
<1>3. QED
  BY <1>1, <1>2 DEF IInv, TypeOK, EndBulk, EndItem, queueVars, RoundShape, ItemsInv

(* The check before a valid bulk element: at most currentClient dropped, *)
(* the element named by lastKnownClientId and lastClientValidation reset. *)
LEMMA CheckBulkItemIInv ==
    ASSUME IInv, CheckBulkItem
    PROVE  IInv'
<1>1. RegistryTypeOK' /\ GenInv' /\ QueueInOrder'
  BY RegistryUnchanged, QueueUnchanged DEF IInv, TypeOK, CheckBulkItem, queueVars
<1>2. req.cid \in ClientIds \cup {EmptyId} /\ now \in Time
  BY DEF IInv, TypeOK, RegistryTypeOK, RawRequest
<1>3. BoolTypes'
  BY Zenon DEF IInv, TypeOK, BoolTypes, CheckBulkItem
<1>4. DataTypes'
  BY <1>2, ResetValuesType, SMTT(30) DEF IInv, TypeOK, DataTypes, CheckBulkItem, queueVars
<1>5. ShapeInv'
  BY DEF IInv, TypeOK, ShapeInv, CheckBulkItem, queueVars, RoundShape, ItemsInv
<1>6. QED
  BY <1>1, <1>3, <1>4, <1>5, TypeSplit

(* A valid bulk element goes through processRequest with &currentClient.  *)
LEMMA ProcessBulkItemIInv ==
    ASSUME IInv, ProcessBulkItem
    PROVE  IInv'
<1>1. RegistryTypeOK' /\ GenInv' /\ QueueInOrder'
  BY RegistryUnchanged, QueueUnchanged DEF IInv, TypeOK, ProcessBulkItem, queueVars
<1>2. req.items[pos] \in Item
  <2>1. pos \in 1..Len(req.items) /\ req.items \in Seq(Item)
    BY DEF IInv, TypeOK, RawRequest, ProcessBulkItem, ShapeInv, RoundShape
  <2>2. QED
    BY <2>1, LenProperties, SMTT(30)
<1>3. PICK ok \in BOOLEAN, res \in PtrOrNull :
        /\ ProcessRequest(req.items[pos], itemCid, req.dr, NullClient, cur, force, ok, res)
        /\ cur' = res
        /\ lastKnown' = IF ok THEN res.id ELSE lastKnown
        /\ force' = ~ok
  BY DEF ProcessBulkItem
<1>4. /\ ok => res \in ClientPtr
      /\ loggerUser' \in [Loggers -> ClientIds \cup {NoUser}]
      /\ lastLog' \in Record \cup {NoRecord}
      /\ logged' \in Nat
      /\ uaf' \in BOOLEAN
  <2>1. /\ itemCid \in ClientIds \cup {EmptyId}
        /\ cur \in PtrOrNull
        /\ req.dr \in Time
    BY DEF IInv, TypeOK, RawRequest
  <2>2. QED
    BY <1>2, <1>3, <2>1, ResetValuesType, ProcessRequestType DEF IInv
<1>5. lastKnown' \in ClientIds \cup {EmptyId}
  BY <1>3, <1>4, SMTT(30) DEF IInv, TypeOK, ClientPtr
<1>7. BoolTypes'
  BY <1>3, <1>4, SMTT(30) DEF IInv, TypeOK, BoolTypes, ProcessBulkItem
<1>8. DataTypes'
  BY <1>3, <1>4, <1>5, SMTT(30) DEF IInv, TypeOK, DataTypes, ProcessBulkItem, queueVars
<1>9. ShapeInv'
  BY DEF IInv, TypeOK, ShapeInv, ProcessBulkItem, queueVars, RoundShape, ItemsInv
<1>10. QED
  BY <1>1, <1>7, <1>8, <1>9, TypeSplit

(* A single record goes through processRequest(&request, nullptr, true).  *)
LEMMA ProcessSingleIInv ==
    ASSUME IInv, ProcessSingle
    PROVE  IInv'
<1>1. RegistryTypeOK' /\ GenInv' /\ QueueInOrder'
  BY RegistryUnchanged, QueueUnchanged DEF IInv, TypeOK, ProcessSingle, queueVars
<1>2. req.items[1] \in Item
  <2>1. 1 \in DOMAIN req.items
    BY DEF IInv, ItemsInv, HasItems, ProcessSingle
  <2>2. req.items \in [1..Len(req.items) -> Item]
    BY LenProperties DEF IInv, TypeOK, RawRequest
  <2>3. QED
    BY <2>1, <2>2, SMTT(30)
<1>3. PICK ok \in BOOLEAN, res \in PtrOrNull :
        ProcessRequest(req.items[1], req.cid, req.dr, reqClient, NullClient, TRUE, ok, res)
  BY Zenon DEF ProcessSingle
<1>4. /\ loggerUser' \in [Loggers -> ClientIds \cup {NoUser}]
      /\ lastLog' \in Record \cup {NoRecord}
      /\ logged' \in Nat
      /\ uaf' \in BOOLEAN
  <2>1. req.cid \in ClientIds \cup {EmptyId} /\ req.dr \in Time /\ reqClient \in PtrOrNull
    BY DEF IInv, TypeOK, RawRequest
  <2>2. QED
    BY <1>2, <1>3, <2>1, ResetValuesType, ProcessRequestType, Zenon DEF IInv
<1>5. BoolTypes'
  BY <1>4 DEF IInv, TypeOK, BoolTypes, ProcessSingle
<1>6. DataTypes'
  BY <1>4, ResetValuesType DEF IInv, TypeOK, DataTypes, ProcessSingle, EndItem, queueVars
<1>7. ShapeInv'
  BY DEF IInv, TypeOK, ShapeInv, ProcessSingle, EndItem, queueVars, RoundShape, ItemsInv
<1>8. QED
  BY <1>1, <1>5, <1>6, <1>7, TypeSplit

(* switchContext at the end of a round: RoundShape says the drain buffer  *)
(* is empty, so the backlog becomes the drain buffer in order.             *)
LEMMA EndRoundIInv ==
    ASSUME IInv, EndRound
    PROVE  IInv'
<1>1. RegistryTypeOK' /\ GenInv'
  BY RegistryUnchanged DEF IInv, TypeOK, EndRound
<1>2. Len(queue) = 0
  BY DEF IInv, RoundShape, TypeOK, EndRound
<1>3. queue = <<>>
  BY <1>2, EmptySeq DEF IInv, TypeOK
<1>4. queue' = backlog /\ backlog' = <<>>
  BY <1>3 DEF EndRound, QueueSwitchContext
<1>5. TypeOK'
  BY <1>1, <1>3, <1>4 DEF IInv, TypeOK, EndRound
<1>6. QueueInOrder'
  BY <1>2, <1>4, EmptySeq DEF IInv, QueueInOrder, EndRound, TypeOK
<1>7. QED
  BY <1>1, <1>4, <1>5, <1>6 DEF IInv, EndRound, RoundShape, ItemsInv

(* handle(): a session thread appends the next request to the backlog.    *)
LEMMA HandleIInv ==
    ASSUME IInv, Handle
    PROVE  IInv'
<1>1. RegistryTypeOK' /\ GenInv'
  BY RegistryUnchanged DEF IInv, TypeOK, Handle
<1>2. PICK r \in Requests(pushed + 1) : backlog' = Append(backlog, r) /\ queue' = queue
  BY DEF Handle, QueuePush
<1>3. r \in RawRequest /\ r.id = pushed + 1 /\ HasItems(r)
  <2>1. pushed + 1 \in 1..MaxRequests
    BY DEF IInv, TypeOK, Handle
  <2>2. QED
    BY <2>1, RequestsType DEF IInv, TypeOK
<1>4. /\ backlog' \in Seq(RawRequest)
      /\ Len(backlog') = Len(backlog) + 1
      /\ \A k \in 1..Len(backlog) : backlog'[k] = backlog[k]
      /\ backlog'[Len(backlog) + 1] = r
      /\ Len(queue) \in Nat /\ Len(backlog) \in Nat
  BY <1>2, <1>3, AppendProperties, LenProperties DEF IInv, TypeOK
<1>5. BoolTypes'
  BY ZenonT(30) DEF IInv, TypeOK, BoolTypes, Handle
<1>6. DataTypes'
  BY <1>2, <1>4, SMTT(30) DEF IInv, TypeOK, DataTypes, Handle
<1>7. QueueInOrder'
  <2>1. Len(queue) + Len(backlog) = pushed - pulled /\ pushed \in Nat /\ pulled \in Nat
    BY DEF IInv, TypeOK, QueueInOrder
  <2>2. Len(queue') + Len(backlog') = pushed' - pulled'
    BY <1>2, <1>4, <2>1 DEF Handle
  <2>3. ASSUME NEW k \in 1..Len(queue') PROVE queue'[k].id = pulled' + k
    BY <1>2 DEF IInv, QueueInOrder, Handle
  <2>4. ASSUME NEW k \in 1..Len(backlog') PROVE backlog'[k].id = pulled' + Len(queue') + k
    <3>1. CASE k \in 1..Len(backlog)
      BY <1>2, <1>4, <3>1 DEF IInv, QueueInOrder, Handle
    <3>2. CASE k = Len(backlog) + 1
      BY <1>2, <1>3, <1>4, <2>1, <3>2, SMTT(30) DEF Handle
    <3>3. QED
      BY <1>4, <3>1, <3>2
  <2>5. QED
    BY <2>2, <2>3, <2>4 DEF QueueInOrder
<1>8. ShapeInv'
  <2>1. pulled' <= pushed' /\ RoundShape'
    BY <1>2 DEF IInv, TypeOK, Handle, RoundShape
  <2>2. ASSUME NEW k \in 1..Len(backlog') PROVE HasItems(backlog'[k])
    <3>1. CASE k \in 1..Len(backlog)
      BY <1>4, <3>1 DEF IInv, ItemsInv
    <3>2. CASE k = Len(backlog) + 1
      BY <1>3, <1>4, <3>2, SMTT(30)
    <3>3. QED
      BY <1>4, <3>1, <3>2, SMTT(30)
  <2>3. QED
    BY <1>2, <2>1, <2>2 DEF IInv, ShapeInv, ItemsInv, Handle
<1>9. QED
  BY <1>1, <1>5, <1>6, <1>7, <1>8, TypeSplit

(* The clock, CONNECTs, token issue and the integrity sweep leave the      *)
(* dispatcher and the queue alone.                                          *)
LEMMA EnvironmentIInv ==
    ASSUME IInv, RegistryNext, UNCHANGED <<queueVars, hVars>>
    PROVE  IInv'
<1>1. RegistryTypeOK' /\ GenInv'
  BY RegistryStep DEF IInv, TypeOK
<1>2. QueueInOrder'
  BY QueueUnchanged DEF IInv, queueVars, hVars
<1>3. lcv \in Time
  BY DEF IInv, TypeOK
<1>4. QED
  BY <1>1, <1>2, <1>3 DEF IInv, TypeOK, queueVars, hVars, RoundShape, ItemsInv

(* Every step of the dispatcher, of the session threads, of the registry  *)
(* and of the integrity task preserves the inductive invariant.            *)
LEMMA NextIInv == IInv /\ [Next]_vars => IInv'
<1> SUFFICES ASSUME IInv, [Next]_vars PROVE IInv'
  OBVIOUS
<1>1. CASE Start
  BY <1>1, StartIInv
<1>2. CASE LoopHead
  BY <1>2, LoopHeadIInv
<1>3. CASE PullRequest
  BY <1>3, PullRequestIInv
<1>4. CASE BeginBulk
  BY <1>4, BeginBulkIInv
<1>5. CASE EndBulk
  BY <1>5, EndBulkIInv
<1>6. CASE SkipInvalidItem
  BY <1>6, SkipInvalidItemIInv
<1>7. CASE ProcessBulkItem
  BY <1>7, ProcessBulkItemIInv
<1>15. CASE CheckBulkItem
  BY <1>15, CheckBulkItemIInv
<1>8. CASE ProcessSingle
  BY <1>8, ProcessSingleIInv
<1>9. CASE EndRound
  BY <1>9, EndRoundIInv
<1>10. CASE Handle
  BY <1>10, HandleIInv
<1>11. CASE Shutdown
  BY <1>11, ShutdownIInv
<1>12. CASE RegistryNext /\ UNCHANGED <<queueVars, hVars>>
  BY <1>12, EnvironmentIInv
<1>13. CASE Terminated \/ UNCHANGED vars
  <2>1. UNCHANGED vars
    BY <1>13 DEF Terminated
  <2>2. UNCHANGED regVars /\ UNCHANGED <<queue, backlog, pushed, pulled>>
    BY <2>1 DEF vars, queueVars, hVars
  <2>3. RegistryTypeOK' /\ GenInv' /\ QueueInOrder'
    BY <2>2, RegistryUnchanged, QueueUnchanged DEF IInv, TypeOK
  <2>4. BoolTypes'
    BY <2>1, Zenon DEF vars, hVars, IInv, TypeOK, BoolTypes
  <2>5. DataTypes'
    BY <2>1, SMTT(30) DEF vars, regVars, queueVars, hVars, IInv, TypeOK, DataTypes
  <2>6. ShapeInv'
    BY <2>1, Zenon DEF vars, queueVars, hVars, IInv, ShapeInv, RoundShape, ItemsInv, HasItems
  <2>7. QED
    BY <2>3, <2>4, <2>5, <2>6, TypeSplit
<1>14. QED
  BY <1>1, <1>2, <1>3, <1>4, <1>5, <1>6, <1>7, <1>8, <1>9, <1>10, <1>11, <1>12, <1>13,
     <1>15 DEF Next, Dispatcher, Environment

-----------------------------------------------------------------------------
(* IInv holds in every reachable state.                                    *)
THEOREM IInvAlways == Spec => []IInv
<1>1. Init => IInv
  BY InitIInv
<1>2. IInv /\ [Next]_vars => IInv'
  BY NextIInv
<1>3. QED
  BY <1>1, <1>2, PTL DEF Spec

(* Type correctness: every variable of the dispatcher, of the queue and of *)
(* the registry keeps its type; in particular every Client* the dispatch   *)
(* loop holds (request.client(), currentClient) is null or a pointer to a *)
(* client object, and every dispatched record names a client object.       *)
THEOREM TypeCorrect == Spec => []TypeOK
<1>1. IInv => TypeOK
  BY DEF IInv
<1>2. QED
  BY <1>1, IInvAlways, PTL

(* Order and conservation of m_queue: for every number of clients,         *)
(* loggers and requests, the two buffers hold exactly the accepted and not *)
(* yet pulled requests in arrival order, whatever the interleaving of      *)
(* handle() with the drain rounds and the early return of                  *)
(* processRequestQueue.                                                    *)
THEOREM QueueOrder == Spec => []QueueInOrder
<1>1. IInv => QueueInOrder
  BY DEF IInv
<1>2. QED
  BY <1>1, IInvAlways, PTL

=============================================================================
