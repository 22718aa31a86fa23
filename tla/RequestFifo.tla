---------------------------- MODULE RequestFifo ----------------------------
(***************************************************************************)
(* What the log request queue promises its two users (spec 4.6): the      *)
(* session threads hand requests in, the dispatch thread takes them out,   *)
(* one at a time, oldest first.  Nothing is lost, duplicated or reordered *)
(* between the two, whatever the buffers and the context switch do inside.*)
(***************************************************************************)
EXTENDS Sequences

CONSTANT Msgs           \* the requests a session thread may hand in

VARIABLE pending        \* accepted and not yet taken, oldest first

Init == pending = <<>>

(* A session thread's handle(): the request joins the end of the line.    *)
Accept(m) == pending' = Append(pending, m)

(* The dispatch thread takes the oldest request.                           *)
Take ==
    /\ pending # <<>>
    /\ pending' = Tail(pending)

Next == (\E m \in Msgs : Accept(m)) \/ Take

Spec == Init /\ [][Next]_pending

=============================================================================
