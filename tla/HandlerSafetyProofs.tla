------------------------- MODULE HandlerSafetyProofs -------------------------
(***************************************************************************)
(* Proofs of the two action properties the bulk loop of                    *)
(* processRequestQueue must satisfy, for all values of the constants:     *)
(*  - BypassRacesOnlySweep: a bulk element processed with bypassChecks    *)
(*    set goes through a freed client object only if the integrity task   *)
(*    has run since lastClientValidation, i.e. in the window between the  *)
(*    re-force check of lines 138-140 and processRequest;                 *)
(*  - BulkHonoursCap: a bulk loop handles exactly the first               *)
(*    min(maxItemsInBulk, v) valid elements.                              *)
(*                                                                         *)
(* Both rest on facts about the loop's locals that hold in every state:   *)
(*  - RetainedLive: while validation is not forced, currentClient is a    *)
(*    client object that is still registered, or the integrity task has   *)
(*    run since lastClientValidation (before the check of lines 138-140   *)
(*    this makes the check drop it; after it, the object may be used      *)
(*    freed, and the sweep is the witness); ClockInv says why a sweep     *)
(*    always                                                               *)
(*    counts as "since": it stamps lastExecution with now, and            *)
(*    lastClientValidation is never ahead of now;                          *)
(*  - CapInv: itemCount is the number of valid elements before the        *)
(*    iterator, and never above the cap.                                   *)
(***************************************************************************)
EXTENDS LogRequestHandlerProofs, FiniteSetTheorems

(* The positions before p of the elements that deserialize to a valid     *)
(* request.                                                                 *)
ValidBefore(s, p) == {k \in 1..(p - 1) : s[k].valid}

(* Neither the integrity task's stamp nor lastClientValidation is ahead   *)
(* of the clock.                                                            *)
ClockInv == lastExecution <= now /\ lcv <= now

(* The dispatcher's places inside the bulk loop: between elements, and    *)
(* between the re-force check and processRequest.                          *)
BulkPcs == {"bulk", "bulkItem"}

(* The retained currentClient is live, or known to be stale.               *)
RetainedLive ==
    dpc \in BulkPcs /\ ~force /\ ~uaf =>
        /\ cur # NullClient
        /\ Live(cur) \/ IntegrityRanSince(lcv)

(* The bulk loop's count of processed elements.                            *)
CapInv ==
    /\ dpc \in BulkPcs =>
         /\ pos <= Len(req.items) + 1
         /\ itemCount <= MaxItemsInBulk
         /\ itemCount = Cardinality(ValidBefore(req.items, pos))
    /\ dpc = "bulkItem" => req.items[pos].valid /\ itemCount # MaxItemsInBulk

SafetyIInv == IInv /\ ClockInv /\ RetainedLive /\ CapInv

(* The part of SafetyIInv this module adds to IInv.                        *)
Extra == ClockInv /\ RetainedLive /\ CapInv

USE RegistryAssumption, HandlerAssumption

-----------------------------------------------------------------------------
(* processRequest reports success only with a client object that it read *)
(* while registered, or after reading a freed one: in the bypass case the *)
(* object is the retained one, otherwise the one it resolved and checked. *)
LEMMA ProcessRequestOk ==
    ASSUME NEW it, NEW cid, NEW dr, NEW itemClient, NEW ref, NEW forceCheck,
           NEW ok, NEW res,
           ProcessRequest(it, cid, dr, itemClient, ref, forceCheck, ok, res)
    PROVE  ok => res # NullClient /\ (Live(res) \/ uaf')
<1> DEFINE c0     == IF ref # NullClient THEN ref ELSE itemClient
           client == IF c0 # NullClient THEN c0
                     ELSE IF PlainLookup(it.logger, cid) THEN FindClient(cid)
                     ELSE NullClient
<1>1. res = client
  BY DEF ProcessRequest
<1>2. CASE client = NullClient
  BY <1>2, Zenon DEF ProcessRequest
<1>3. CASE client # NullClient
  <2>1. uaf' = (uaf \/ ~Live(client))
    BY <1>3, Zenon DEF ProcessRequest
  <2>2. QED
    BY <1>1, <1>3, <2>1, Zenon
<1>4. QED
  BY <1>2, <1>3

(* A record processRequest writes names the client it resolved, and it is *)
(* marked unchecked exactly when bypassChecks was set, in which case that *)
(* client is the retained *clientRef.                                      *)
LEMMA ProcessRequestRecord ==
    ASSUME NEW it, NEW cid, NEW dr, NEW itemClient, NEW ref, NEW forceCheck,
           NEW ok, NEW res,
           ProcessRequest(it, cid, dr, itemClient, ref, forceCheck, ok, res),
           logged' # logged
    PROVE  /\ lastLog'.client = res
           /\ lastLog'.checked = ~(~forceCheck /\ ref # NullClient)
           /\ (~forceCheck /\ ref # NullClient) => res = ref
           /\ ~lastLog'.checked => ~forceCheck /\ ref # NullClient
<1> DEFINE bypass == ~forceCheck /\ ref # NullClient
           c0     == IF ref # NullClient THEN ref ELSE itemClient
           client == IF c0 # NullClient THEN c0
                     ELSE IF PlainLookup(it.logger, cid) THEN FindClient(cid)
                     ELSE NullClient
<1>1. res = client
  BY DEF ProcessRequest
<1>2. client # NullClient /\ Dispatch(it, client, dr, ~bypass)
  BY Zenon DEF ProcessRequest
<1>3. bypass => client = ref
  OBVIOUS
<1>4. QED
  BY <1>1, <1>2, <1>3, Zenon DEF Dispatch

(* The valid positions before p form a finite set, and one more step of   *)
(* the iterator adds position p exactly when element p is valid.          *)
LEMMA ValidBeforeStep ==
    ASSUME NEW s \in Seq(Item), NEW p \in 1..Len(s)
    PROVE  /\ IsFiniteSet(ValidBefore(s, p))
           /\ p \notin ValidBefore(s, p)
           /\ ValidBefore(s, p + 1) = IF s[p].valid THEN ValidBefore(s, p) \cup {p}
                                     ELSE ValidBefore(s, p)
<1>1. IsFiniteSet(1..(p - 1)) /\ ValidBefore(s, p) \subseteq 1..(p - 1)
  BY FS_Interval DEF ValidBefore
<1>2. IsFiniteSet(ValidBefore(s, p))
  BY <1>1, FS_Subset
<1>3. QED
  BY <1>2 DEF ValidBefore

(* A bulk loop starts with no valid element behind its iterator.           *)
LEMMA ValidBeforeFirst ==
    ASSUME NEW s
    PROVE  Cardinality(ValidBefore(s, 1)) = 0
<1>1. ValidBefore(s, 1) = {}
  BY DEF ValidBefore
<1>2. QED
  BY <1>1, FS_EmptySet

(* NumValid of the first n elements counts the valid positions before     *)
(* n + 1; the valid positions before p are among those of the whole array. *)
LEMMA NumValidPrefix ==
    ASSUME NEW s \in Seq(Item), NEW n \in 0..Len(s)
    PROVE  /\ NumValid(SubSeq(s, 1, n)) = Cardinality(ValidBefore(s, n + 1))
           /\ NumValid(s) = Cardinality(ValidBefore(s, Len(s) + 1))
           /\ IsFiniteSet(ValidBefore(s, Len(s) + 1))
           /\ Cardinality(ValidBefore(s, n + 1)) <= NumValid(s)
<1>1. Len(s) \in Nat /\ DOMAIN s = 1..Len(s)
  BY LenProperties
<1>2. DOMAIN SubSeq(s, 1, n) = 1..n /\ \A k \in 1..n : SubSeq(s, 1, n)[k] = s[k]
  <2>1. \A k \in 1..n : s[k] \in Item
    BY <1>1, ElementOfSeq
  <2>2. /\ SubSeq(s, 1, n) \in Seq(Item)
        /\ Len(SubSeq(s, 1, n)) = n
        /\ \A k \in 1..n : SubSeq(s, 1, n)[k] = s[k]
    BY <1>1, <2>1, SubSeqProperties
  <2>3. QED
    BY <2>2, LenProperties
<1>3. {k \in DOMAIN SubSeq(s, 1, n) : SubSeq(s, 1, n)[k].valid} = ValidBefore(s, n + 1)
  BY <1>2 DEF ValidBefore
<1>4. {k \in DOMAIN s : s[k].valid} = ValidBefore(s, Len(s) + 1)
  BY <1>1 DEF ValidBefore
<1>5. IsFiniteSet(ValidBefore(s, Len(s) + 1))
  <2>1. IsFiniteSet(1..Len(s)) /\ ValidBefore(s, Len(s) + 1) \subseteq 1..Len(s)
    BY <1>1, FS_Interval DEF ValidBefore
  <2>2. QED
    BY <2>1, FS_Subset
<1>6. ValidBefore(s, n + 1) \subseteq ValidBefore(s, Len(s) + 1)
  BY <1>1 DEF ValidBefore
<1>7. QED
  BY <1>3, <1>4, <1>5, <1>6, FS_Subset, Zenon DEF NumValid

-----------------------------------------------------------------------------
(* A step that touches neither the clock, the registry's slots and stamp, *)
(* nor the bulk loop's locals keeps the added invariants.                  *)
LEMMA FrameExtra ==
    ASSUME SafetyIInv,
           UNCHANGED <<now, clients, lastExecution, dpc, force, uaf, cur, lcv, req, pos,
                       itemCount>>
    PROVE  Extra'
BY DEF SafetyIInv, Extra, ClockInv, RetainedLive, CapInv, Live, IntegrityRanSince, ValidBefore

(* A step out of the bulk loop that leaves the clock and the stamp alone, *)
(* and keeps lastClientValidation or resets it to 0.                       *)
LEMMA LeaveBulkExtra ==
    ASSUME SafetyIInv, dpc' \notin BulkPcs, UNCHANGED <<now, lastExecution>>, lcv' \in {lcv, 0}
    PROVE  Extra'
BY DEF SafetyIInv, IInv, TypeOK, RegistryTypeOK, Time, Extra, ClockInv, RetainedLive, CapInv,
       BulkPcs

(* The clock, CONNECTs and token issue never free a retained client; a    *)
(* sweep may, but it stamps lastExecution with now, which is not behind   *)
(* lastClientValidation, so the retained pointer is known to be stale.    *)
LEMMA RegistryExtra ==
    ASSUME SafetyIInv, RegistryNext, UNCHANGED <<queueVars, hVars>>
    PROVE  Extra'
<1>1. UNCHANGED <<dpc, force, uaf, cur, lcv, req, pos, itemCount>>
  BY DEF hVars
<1>2. CapInv'
  BY <1>1 DEF SafetyIInv, CapInv, ValidBefore
<1>3. CASE Tick
  <2>1. ClockInv'
    BY <1>1, <1>3 DEF Tick, SafetyIInv, IInv, TypeOK, RegistryTypeOK, Time, ClockInv
  <2>2. RetainedLive'
    BY <1>1, <1>3 DEF Tick, SafetyIInv, RetainedLive, Live, IntegrityRanSince
  <2>3. QED
    BY <1>2, <2>1, <2>2 DEF Extra
<1>4. CASE \E c \in ClientIds : AddClient(c)
  <2>1. PICK c \in ClientIds : AddClient(c)
    BY <1>4
  <2>2. ClockInv'
    BY <1>1, <2>1 DEF AddClient, SafetyIInv, ClockInv
  <2>3. RetainedLive'
    <3>1. SUFFICES ASSUME dpc \in BulkPcs, ~force, ~uaf
                   PROVE  cur # NullClient /\ (Live(cur)' \/ IntegrityRanSince(lcv)')
      BY <1>1 DEF RetainedLive
    <3>2. cur # NullClient /\ (Live(cur) \/ IntegrityRanSince(lcv))
      BY <3>1 DEF SafetyIInv, RetainedLive
    <3>3. IntegrityRanSince(lcv)' = IntegrityRanSince(lcv)
      BY <1>1, <2>1 DEF AddClient, IntegrityRanSince
    <3>4. Live(cur) => Live(cur)'
      <4>1. cur \in ClientPtr \cup {NullClient}
        BY DEF SafetyIInv, IInv, TypeOK, PtrOrNull
      <4>2. QED
        BY <1>1, <2>1, <4>1 DEF AddClient, Live, SafetyIInv, IInv, TypeOK, RegistryTypeOK,
                                ClientPtr
    <3>5. QED
      BY <3>2, <3>3, <3>4
  <2>4. QED
    BY <1>2, <2>2, <2>3 DEF Extra
<1>5. CASE \E c \in ClientIds, l \in Loggers : IssueToken(c, l)
  BY <1>1, <1>5 DEF IssueToken, SafetyIInv, Extra, ClockInv, RetainedLive, CapInv, Live,
                    IntegrityRanSince, ValidBefore
<1>6. CASE IntegritySweep
  <2>1. ClockInv' /\ IntegrityRanSince(lcv)'
    BY <1>1, <1>6 DEF IntegritySweep, SafetyIInv, IInv, TypeOK, RegistryTypeOK, Time,
                      ClockInv, IntegrityRanSince
  <2>2. RetainedLive'
    BY <1>1, <2>1 DEF SafetyIInv, RetainedLive
  <2>3. QED
    BY <1>2, <2>1, <2>2 DEF Extra
<1>7. QED
  BY <1>3, <1>4, <1>5, <1>6 DEF RegistryNext

(* Entering the bulk loop forces validation and starts the count at 0     *)
(* with the iterator on the first element.                                 *)
LEMMA BeginBulkExtra ==
    ASSUME SafetyIInv, BeginBulk
    PROVE  Extra'
<1>1. CASE ~AllowBulk
  <2>1. dpc' \notin BulkPcs /\ UNCHANGED <<now, lastExecution>> /\ lcv' \in {lcv, 0}
    BY <1>1 DEF BeginBulk, regVars, BulkPcs
  <2>2. QED
    BY <2>1, LeaveBulkExtra
<1>2. CASE AllowBulk
  <2>1. dpc' = "bulk" /\ pos' = 1 /\ itemCount' = 0 /\ force' = TRUE /\ lcv' = now
        /\ UNCHANGED <<req, now, lastExecution>>
    BY <1>2 DEF BeginBulk, regVars
  <2>2. req.items \in Seq(Item) /\ now \in Nat /\ lastExecution <= now
    BY DEF SafetyIInv, IInv, TypeOK, RawRequest, RegistryTypeOK, Time, ClockInv
  <2>3. Len(req.items) \in Nat
    BY <2>2, LenProperties
  <2>4. Cardinality(ValidBefore(req.items, 1)) = 0
    BY ValidBeforeFirst
  <2>5. QED
    BY <2>1, <2>2, <2>3, <2>4 DEF Extra, ClockInv, RetainedLive, CapInv, BulkPcs
<1>3. QED
  BY <1>1, <1>2

(* Skipping an invalid element moves the iterator past it without         *)
(* counting it.                                                             *)
LEMMA SkipInvalidItemExtra ==
    ASSUME SafetyIInv, SkipInvalidItem
    PROVE  Extra'
<1>1. UNCHANGED <<now, clients, lastExecution, dpc, force, uaf, cur, lcv, req, itemCount>>
      /\ pos' = pos + 1
  BY DEF SkipInvalidItem, regVars
<1>2. ClockInv' /\ RetainedLive'
  BY <1>1 DEF SafetyIInv, ClockInv, RetainedLive, Live, IntegrityRanSince
<1>3. req.items \in Seq(Item) /\ pos \in 1..Len(req.items) /\ ~req.items[pos].valid
  BY DEF SkipInvalidItem, SafetyIInv, IInv, TypeOK, RawRequest, RoundShape
<1>4. ValidBefore(req.items, pos + 1) = ValidBefore(req.items, pos)
  BY <1>3, ValidBeforeStep, Zenon
<1>5. CapInv'
  BY <1>1, <1>3, <1>4 DEF SafetyIInv, CapInv, BulkPcs
<1>6. QED
  BY <1>2, <1>5 DEF Extra

(* Before a valid element: if the check re-forces validation, nothing    *)
(* retained is trusted any more; otherwise no sweep has run since         *)
(* lastClientValidation and currentClient stays the live object it was.    *)
LEMMA CheckBulkItemExtra ==
    ASSUME SafetyIInv, CheckBulkItem
    PROVE  Extra'
<1> DEFINE reforce == ~force /\ IntegrityRanSince(lcv)
<1>1. UNCHANGED <<now, clients, lastExecution, req, pos, itemCount, uaf>> /\ dpc' = "bulkItem"
  BY DEF CheckBulkItem, regVars
<1>2. CapInv'
  <2>1. pos <= Len(req.items) /\ req.items[pos].valid /\ itemCount # MaxItemsInBulk
        /\ dpc = "bulk"
    BY DEF CheckBulkItem
  <2>2. QED
    BY <1>1, <2>1 DEF SafetyIInv, CapInv, BulkPcs
<1>3. CASE reforce
  <2>1. force' = TRUE /\ lcv' = now
    BY <1>3 DEF CheckBulkItem
  <2>2. ClockInv'
    BY <1>1, <2>1 DEF SafetyIInv, ClockInv, IInv, TypeOK, RegistryTypeOK, Time
  <2>3. RetainedLive'
    BY <2>1 DEF RetainedLive
  <2>4. QED
    BY <1>2, <2>2, <2>3 DEF Extra
<1>4. CASE ~reforce
  <2>1. UNCHANGED <<force, cur, lcv>>
    BY <1>4 DEF CheckBulkItem
  <2>2. ClockInv'
    BY <1>1, <2>1 DEF SafetyIInv, ClockInv
  <2>3. RetainedLive'
    <3>1. SUFFICES ASSUME ~force, ~uaf PROVE cur # NullClient /\ Live(cur)
      BY <1>1, <2>1 DEF RetainedLive, Live, IntegrityRanSince
    <3>2. dpc = "bulk" /\ ~IntegrityRanSince(lcv)
      BY <1>4, <3>1 DEF CheckBulkItem
    <3>3. QED
      BY <3>1, <3>2 DEF SafetyIInv, RetainedLive, BulkPcs
  <2>4. QED
    BY <1>2, <2>2, <2>3 DEF Extra
<1>5. QED
  BY <1>3, <1>4

(* A valid element is counted; if processRequest succeeds, the client it *)
(* hands back through &currentClient is one it read while registered, or  *)
(* a freed object has been read.                                           *)
LEMMA ProcessBulkItemExtra ==
    ASSUME SafetyIInv, ProcessBulkItem
    PROVE  Extra'
<1>1. UNCHANGED <<now, clients, lastExecution, req, lcv>> /\ dpc' = "bulk"
      /\ pos' = pos + 1 /\ itemCount' = itemCount + 1
  BY DEF ProcessBulkItem, regVars
<1>2. PICK ok \in BOOLEAN, res \in PtrOrNull :
        /\ ProcessRequest(req.items[pos], itemCid, req.dr, NullClient, cur, force, ok, res)
        /\ cur' = res
        /\ force' = ~ok
  BY DEF ProcessBulkItem
<1>3. ClockInv'
  BY <1>1 DEF SafetyIInv, ClockInv
<1>4. RetainedLive'
  <2>1. SUFFICES ASSUME ~force', ~uaf' PROVE cur' # NullClient /\ Live(cur)'
    BY <1>1 DEF RetainedLive
  <2>2. ok
    BY <1>2, <2>1, Zenon
  <2>3. res # NullClient /\ (Live(res) \/ uaf')
    BY <1>2, <2>2, ProcessRequestOk, Zenon
  <2>4. QED
    BY <1>1, <1>2, <2>1, <2>3 DEF Live
<1>5. CapInv'
  <2>1. req.items \in Seq(Item) /\ pos \in 1..Len(req.items) /\ req.items[pos].valid
        /\ itemCount # MaxItemsInBulk /\ dpc = "bulkItem"
    BY DEF ProcessBulkItem, SafetyIInv, CapInv, IInv, TypeOK, RawRequest, RoundShape
  <2>2. /\ IsFiniteSet(ValidBefore(req.items, pos))
        /\ pos \notin ValidBefore(req.items, pos)
        /\ ValidBefore(req.items, pos + 1) = ValidBefore(req.items, pos) \cup {pos}
    BY <2>1, ValidBeforeStep, Zenon
  <2>3. Cardinality(ValidBefore(req.items, pos + 1))
          = Cardinality(ValidBefore(req.items, pos)) + 1
    BY <2>2, FS_AddElement
  <2>4. itemCount <= MaxItemsInBulk /\ itemCount = Cardinality(ValidBefore(req.items, pos))
        /\ itemCount \in Nat
    BY <2>1 DEF SafetyIInv, CapInv, IInv, TypeOK, BulkPcs
  <2>5. QED
    BY <1>1, <2>1, <2>3, <2>4 DEF CapInv, BulkPcs
<1>6. QED
  BY <1>3, <1>4, <1>5 DEF Extra

(* Every step preserves the added invariants.                              *)
LEMMA NextExtra == SafetyIInv /\ [Next]_vars => Extra'
<1> SUFFICES ASSUME SafetyIInv, [Next]_vars PROVE Extra'
  OBVIOUS
<1>1. CASE Start \/ LoopHead \/ PullRequest \/ EndRound \/ ProcessSingle \/ EndBulk
  <2>1. dpc' \notin BulkPcs /\ UNCHANGED <<now, lastExecution>> /\ lcv' \in {lcv, 0}
    BY <1>1, Zenon DEF Start, LoopHead, PullRequest, EndRound, ProcessSingle, EndBulk, EndItem,
                ResetBulk, regVars, BulkPcs
  <2>2. QED
    BY <2>1, LeaveBulkExtra
<1>2. CASE BeginBulk
  BY <1>2, BeginBulkExtra
<1>3. CASE SkipInvalidItem
  BY <1>3, SkipInvalidItemExtra
<1>4. CASE ProcessBulkItem
  BY <1>4, ProcessBulkItemExtra
<1>8. CASE CheckBulkItem
  BY <1>8, CheckBulkItemExtra
<1>5. CASE RegistryNext /\ UNCHANGED <<queueVars, hVars>>
  BY <1>5, RegistryExtra
<1>6. CASE Handle \/ Shutdown \/ Terminated \/ UNCHANGED vars
  <2>1. UNCHANGED <<now, clients, lastExecution, dpc, force, uaf, cur, lcv, req, pos,
                    itemCount>>
    BY <1>6 DEF Handle, Shutdown, Terminated, vars, regVars, hVars
  <2>2. QED
    BY <2>1, FrameExtra
<1>7. QED
  BY <1>1, <1>2, <1>3, <1>4, <1>5, <1>6, <1>8 DEF Next, Dispatcher, Environment

(* For every configuration, the dispatcher never keeps a null or freed    *)
(* currentClient across bulk elements unless validation is forced or a    *)
(* sweep has run since lastClientValidation (lines 132-140), its clock    *)
(* stamps never run ahead of Utils::now, and itemCount (line 128) counts   *)
(* exactly the valid elements behind the iterator.                        *)
THEOREM SafetyIInvAlways == Spec => []SafetyIInv
<1>1. Init => SafetyIInv
  <2>1. SUFFICES ASSUME Init PROVE SafetyIInv
    OBVIOUS
  <2>2. IInv
    BY <2>1, InitIInv
  <2>3. dpc = "init" /\ now = 1 /\ lastExecution = 0 /\ lcv = 0
    BY <2>1 DEF Init, RegistryInit, HandlerInit
  <2>4. ClockInv
    BY <2>3 DEF ClockInv
  <2>5. RetainedLive /\ CapInv
    BY <2>3 DEF RetainedLive, CapInv, BulkPcs
  <2>6. QED
    BY <2>2, <2>4, <2>5 DEF SafetyIInv
<1>2. SafetyIInv /\ [Next]_vars => SafetyIInv'
  BY NextIInv, NextExtra DEF SafetyIInv, Extra
<1>3. QED
  BY <1>1, <1>2, PTL DEF Spec

-----------------------------------------------------------------------------
(* BypassRacesOnlySweep, for every configuration: a bulk element         *)
(* dispatched with bypassChecks set (lines 201 and 260) is written through *)
(* a freed client object only when the integrity task has run since       *)
(* lastClientValidation. The bypass needs forceClientValidation false at  *)
(* processRequest, so the check of lines 138-140 did not re-force, and    *)
(* RetainedLive, in the step between, says currentClient is live or such  *)
(* a sweep has happened.                                                   *)
THEOREM BypassWindow == Spec => BypassRacesOnlySweep
<1>1. SafetyIInv /\ [Next]_vars
        => [NewRecord /\ ~lastLog'.checked /\ ~uaf /\ ~Live(lastLog'.client)
              => IntegrityRanSince(lcv)]_vars
  <2> SUFFICES ASSUME SafetyIInv, [Next]_vars, NewRecord, ~lastLog'.checked, ~uaf,
                      ~Live(lastLog'.client)
               PROVE  IntegrityRanSince(lcv)
    OBVIOUS
  <2>1. CASE ProcessBulkItem
    <3> DEFINE it == req.items[pos]
    <3>1. PICK ok \in BOOLEAN, res \in PtrOrNull :
            ProcessRequest(it, itemCid, req.dr, NullClient, cur, force, ok, res)
      BY <2>1 DEF ProcessBulkItem
    <3>2. /\ lastLog'.client = res
          /\ ~force /\ cur # NullClient
          /\ res = cur
      <4>1. logged' # logged
        BY DEF NewRecord
      <4>2. lastLog'.client = res
        BY <3>1, <4>1, ProcessRequestRecord
      <4>3. ~force /\ cur # NullClient
        <5>1. \A f \in BOOLEAN :
                ProcessRequest(it, itemCid, req.dr, NullClient, cur, f, ok, res)
                  => (~lastLog'.checked => ~f /\ cur # NullClient)
          BY <4>1, ProcessRequestRecord
        <5>2. force \in BOOLEAN
          BY DEF SafetyIInv, IInv, TypeOK
        <5>3. QED
          BY <3>1, <5>1, <5>2, Zenon
      <4>4. res = cur
        BY <3>1, <4>1, <4>3, ProcessRequestRecord
      <4>5. QED
        BY <4>2, <4>3, <4>4
    <3>3. dpc = "bulkItem"
      BY <2>1 DEF ProcessBulkItem
    <3>4. ~Live(cur)
      BY <3>2, <3>3 DEF Live
    <3>5. QED
      BY <3>2, <3>3, <3>4 DEF SafetyIInv, RetainedLive, BulkPcs
  <2>2. CASE ProcessSingle
    <3>1. PICK ok \in BOOLEAN, res \in PtrOrNull :
            ProcessRequest(req.items[1], req.cid, req.dr, reqClient, NullClient, TRUE, ok, res)
      BY <2>2, Zenon DEF ProcessSingle
    <3>2. lastLog'.checked
      <4>1. logged' # logged
        BY DEF NewRecord
      <4>2. \A f \in BOOLEAN :
              ProcessRequest(req.items[1], req.cid, req.dr, reqClient, NullClient, f, ok, res)
                => (~lastLog'.checked => ~f /\ NullClient # NullClient)
        BY <4>1, ProcessRequestRecord
      <4>3. QED
        BY <3>1, <4>2, Zenon
    <3>3. QED
      BY <3>2
  <2>3. CASE ~ProcessBulkItem /\ ~ProcessSingle
    <3>1. logged' = logged
      BY <2>3 DEF Next, Dispatcher, Environment, Start, LoopHead, PullRequest, BeginBulk,
                  EndBulk, SkipInvalidItem, CheckBulkItem, EndRound, Handle, Shutdown,
                  Terminated, vars, hVars
    <3>2. QED
      BY <3>1 DEF NewRecord
  <2>4. QED
    BY <2>1, <2>2, <2>3
<1>2. QED
  BY <1>1, SafetyIInvAlways, PTL DEF Spec, BypassRacesOnlySweep

(* BulkHonoursCap, for every cap and array length: when the bulk loop of  *)
(* lines 122-162 ends, it has handled exactly the first                   *)
(* min(maxItemsInBulk, v) valid elements, v the number of valid ones.     *)
(* CapInv says itemCount counts the valid elements behind the iterator;   *)
(* the loop ends at the end of the array or at the cap.                    *)
THEOREM CapHonoured == Spec => BulkHonoursCap
<1>1. SafetyIInv /\ [Next]_vars
        => [dpc = "bulk" /\ dpc' = "round" =>
              NumValid(SubSeq(req.items, 1, pos - 1))
                = IF NumValid(req.items) < MaxItemsInBulk THEN NumValid(req.items)
                  ELSE MaxItemsInBulk]_vars
  <2> SUFFICES ASSUME SafetyIInv, [Next]_vars, dpc = "bulk", dpc' = "round"
               PROVE  NumValid(SubSeq(req.items, 1, pos - 1))
                        = IF NumValid(req.items) < MaxItemsInBulk THEN NumValid(req.items)
                          ELSE MaxItemsInBulk
    OBVIOUS
  <2>1. pos > Len(req.items) \/ itemCount = MaxItemsInBulk
    <3>1. CASE EndBulk
      BY <3>1 DEF EndBulk
    <3>2. CASE ~EndBulk
      <4>1. FALSE
        BY <3>2 DEF Next, Dispatcher, Environment, Start, LoopHead, PullRequest, BeginBulk,
                    SkipInvalidItem, CheckBulkItem, ProcessBulkItem, ProcessSingle, EndItem, EndRound, Handle,
                    Shutdown, Terminated, vars, hVars
      <4>2. QED
        BY <4>1
    <3>3. QED
      BY <3>1, <3>2
  <2>2. /\ req.items \in Seq(Item)
        /\ pos \in 1..(Len(req.items) + 1)
        /\ itemCount <= MaxItemsInBulk
        /\ itemCount = Cardinality(ValidBefore(req.items, pos))
    BY DEF SafetyIInv, CapInv, IInv, TypeOK, RawRequest, RoundShape, BulkPcs
  <2>3. /\ Len(req.items) \in Nat /\ pos - 1 \in 0..Len(req.items)
        /\ itemCount \in Nat
    BY <2>2, LenProperties DEF SafetyIInv, IInv, TypeOK
  <2>4. /\ NumValid(SubSeq(req.items, 1, pos - 1)) = itemCount
        /\ NumValid(req.items) = Cardinality(ValidBefore(req.items, Len(req.items) + 1))
        /\ itemCount <= NumValid(req.items)
        /\ NumValid(req.items) \in Nat
    <3> DEFINE s == req.items
               n == pos - 1
    <3>1. /\ NumValid(SubSeq(s, 1, n)) = Cardinality(ValidBefore(s, n + 1))
          /\ NumValid(s) = Cardinality(ValidBefore(s, Len(s) + 1))
          /\ Cardinality(ValidBefore(s, n + 1)) <= NumValid(s)
          /\ IsFiniteSet(ValidBefore(s, Len(s) + 1))
      BY <2>2, <2>3, NumValidPrefix, Zenon
    <3>4. NumValid(s) \in Nat
      BY <3>1, FS_CardinalityType
    <3>2. n + 1 = pos
      BY <2>2, <2>3
    <3>3. QED
      BY <2>2, <3>1, <3>2, <3>4
  <2>5. CASE pos > Len(req.items)
    <3>1. NumValid(req.items) = itemCount
      BY <2>2, <2>3, <2>4, <2>5
    <3>2. QED
      BY <2>2, <2>3, <2>4, <3>1
  <2>6. CASE itemCount = MaxItemsInBulk
    BY <2>3, <2>4, <2>6
  <2>7. QED
    BY <2>1, <2>5, <2>6
<1>2. QED
  BY <1>1, SafetyIInvAlways, PTL DEF Spec, BulkHonoursCap

=============================================================================
