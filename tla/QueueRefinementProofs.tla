------------------------ MODULE QueueRefinementProofs ------------------------
(***************************************************************************)
(* The dual-buffer queue of the log request handler, driven by handle()   *)
(* and by the dispatch thread, implements the FIFO line of RequestFifo     *)
(* under the refinement mapping pending <- queue \o backlog.               *)
(*                                                                         *)
(* A push appends to the backlog, hence to the line; a pull takes the head *)
(* of the drain buffer, hence of the line.  switchContext leaves the line  *)
(* as it is only because the drain buffer is empty when it runs: that is   *)
(* RoundShape, a conjunct of the inductive invariant IInv.                 *)
(***************************************************************************)
EXTENDS LogRequestHandlerProofs

USE RegistryAssumption, HandlerAssumption

(* Appending to the second of two sequences appends to their concatenation.*)
LEMMA ConcatAppend ==
    ASSUME NEW S, NEW s \in Seq(S), NEW t \in Seq(S), NEW x \in S
    PROVE  s \o Append(t, x) = Append(s \o t, x)
<1>1. <<x>> \in Seq(S) /\ s \o t \in Seq(S)
  BY ConcatProperties
<1>2. Append(t, x) = t \o <<x>> /\ Append(s \o t, x) = (s \o t) \o <<x>>
  BY <1>1, AppendIsConcat
<1>3. QED
  BY <1>1, <1>2, ConcatAssociative

(* Dropping the head of a non-empty first sequence drops the head of the  *)
(* concatenation.                                                          *)
LEMMA TailConcat ==
    ASSUME NEW S, NEW s \in Seq(S), NEW t \in Seq(S), s # <<>>
    PROVE  Tail(s) \o t = Tail(s \o t)
<1> DEFINE u == s \o t
<1>1. /\ Tail(s) \in Seq(S)
      /\ Len(Tail(s)) = Len(s) - 1
      /\ \A k \in 1..Len(Tail(s)) : Tail(s)[k] = s[k + 1]
  BY HeadTailProperties
<1>2. Len(s) \in Nat \ {0} /\ Len(t) \in Nat
  BY EmptySeq, LenProperties
<1>3. /\ u \in Seq(S)
      /\ Len(u) = Len(s) + Len(t)
      /\ \A k \in 1..Len(s) + Len(t) : u[k] = IF k <= Len(s) THEN s[k] ELSE t[k - Len(s)]
  BY ConcatProperties
<1>4. u # <<>>
  BY <1>2, <1>3, EmptySeq
<1>5. /\ Tail(u) \in Seq(S)
      /\ Len(Tail(u)) = Len(u) - 1
      /\ \A k \in 1..Len(Tail(u)) : Tail(u)[k] = u[k + 1]
  BY <1>3, <1>4, HeadTailProperties
<1>6. /\ Tail(s) \o t \in Seq(S)
      /\ Len(Tail(s) \o t) = Len(Tail(s)) + Len(t)
      /\ \A k \in 1..Len(Tail(s)) + Len(t) :
            (Tail(s) \o t)[k] = IF k <= Len(Tail(s)) THEN Tail(s)[k] ELSE t[k - Len(Tail(s))]
  BY <1>1, ConcatProperties
<1>7. ASSUME NEW k \in 1..Len(Tail(s) \o t) PROVE (Tail(s) \o t)[k] = Tail(u)[k]
  BY <1>1, <1>2, <1>3, <1>5, <1>6
<1>8. QED
  BY <1>2, <1>3, <1>5, <1>6, <1>7, SeqEqual

-----------------------------------------------------------------------------
(* The line the queue implements is empty at start.                        *)
LEMMA InitFifo == Init => Fifo!Init
<1>1. <<>> \in Seq(RawRequest)
  BY EmptySeq
<1>2. QED
  BY <1>1, ConcatEmptySeq DEF Init, QueueInit, Fifo!Init

(* Every step of the handler is a step of the line or leaves it as it is.  *)
LEMMA StepFifo == IInv /\ [Next]_vars => [Fifo!Next]_(queue \o backlog)
<1> SUFFICES ASSUME IInv, [Next]_vars PROVE [Fifo!Next]_(queue \o backlog)
  OBVIOUS
<1>1. queue \in Seq(RawRequest) /\ backlog \in Seq(RawRequest)
  BY DEF IInv, TypeOK
<1>2. CASE Handle
  <2>1. PICK r \in Requests(pushed + 1) : QueuePush(r)
    BY <1>2 DEF Handle
  <2>2. pushed + 1 \in 1..MaxRequests
    BY <1>2 DEF Handle, IInv, TypeOK
  <2>3. r \in SentRequest /\ r \in RawRequest
    BY <2>2, RequestsType DEF IInv, TypeOK
  <2>4. queue' \o backlog' = Append(queue \o backlog, r)
    BY <1>1, <2>1, <2>3, ConcatAppend DEF QueuePush
  <2>5. QED
    BY <2>3, <2>4 DEF Fifo!Next, Fifo!Accept
<1>3. CASE PullRequest
  <2>1. queue # <<>> /\ queue' = Tail(queue) /\ backlog' = backlog
    BY <1>3 DEF PullRequest, QueuePull
  <2>2. queue \o backlog # <<>>
    BY <1>1, <2>1, ConcatEqualIffEmpty
  <2>3. queue' \o backlog' = Tail(queue \o backlog)
    BY <1>1, <2>1, TailConcat
  <2>4. QED
    BY <2>2, <2>3 DEF Fifo!Next, Fifo!Take
<1>4. CASE EndRound
  <2>1. queue = <<>>
    <3>1. Len(queue) = 0
      BY <1>4 DEF EndRound, IInv, TypeOK, RoundShape
    <3>2. QED
      BY <1>1, <3>1, EmptySeq
  <2>2. queue' = backlog /\ backlog' = <<>>
    BY <1>4, <2>1 DEF EndRound, QueueSwitchContext
  <2>3. queue' \o backlog' = queue \o backlog
    BY <1>1, <2>1, <2>2, ConcatEmptySeq
  <2>4. QED
    BY <2>3
<1>5. CASE Start \/ LoopHead \/ BeginBulk \/ EndBulk \/ SkipInvalidItem \/ CheckBulkItem
           \/ ProcessBulkItem \/ ProcessSingle \/ Shutdown \/ Terminated \/ UNCHANGED vars
           \/ (RegistryNext /\ UNCHANGED <<queueVars, hVars>>)
  <2>1. UNCHANGED <<queue, backlog>>
    BY <1>5, Zenon DEF Start, LoopHead, BeginBulk, EndBulk, SkipInvalidItem,
                CheckBulkItem, ProcessBulkItem, ProcessSingle, Shutdown, Terminated, vars, queueVars
  <2>2. QED
    BY <2>1
<1>6. QED
  BY <1>2, <1>3, <1>4, <1>5 DEF Next, Dispatcher, Environment

(* Refinement: every behaviour of the handler, seen through the mapping    *)
(* pending <- queue \o backlog, is a behaviour of the FIFO line: what the  *)
(* session threads push is taken by the dispatch thread in push order, and *)
(* nothing else ever changes the line.                                     *)
THEOREM QueueRefinement == Spec => QueueRefinesFifo
<1>1. Init => Fifo!Init
  BY InitFifo
<1>2. IInv /\ [Next]_vars => [Fifo!Next]_(queue \o backlog)
  BY StepFifo
<1>3. QED
  BY <1>1, <1>2, IInvAlways, PTL DEF Spec, QueueRefinesFifo, Fifo!Spec

=============================================================================
