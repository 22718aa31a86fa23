---------------------------- MODULE RequestQueue ----------------------------
(***************************************************************************)
(* The dual-buffer request queue of a request handler (m_queue).           *)
(* Session threads push into the backlog under the queue lock; the        *)
(* dispatcher reads size() of, and pulls from, the drain buffer without   *)
(* the lock; switchContext() swaps the two buffers under the lock, so the *)
(* items pushed during a drain round are drained in the next one.          *)
(***************************************************************************)
EXTENDS Sequences

VARIABLES
    queue,      \* the buffer the dispatcher drains
    backlog     \* the buffer session threads push into

queueVars == <<queue, backlog>>

QueueInit ==
    /\ queue = <<>>
    /\ backlog = <<>>

(* RequestQueue::push, called with the queue lock held.                    *)
QueuePush(item) ==
    /\ backlog' = Append(backlog, item)
    /\ UNCHANGED queue

(* RequestQueue::pull: the head of the drain buffer.                        *)
QueuePull ==
    /\ queue # <<>>
    /\ queue' = Tail(queue)
    /\ UNCHANGED backlog

(* RequestQueue::switchContext: swap the two buffers under the lock.        *)
QueueSwitchContext ==
    /\ queue' = backlog
    /\ backlog' = queue

=============================================================================
