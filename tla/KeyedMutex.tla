----------------------------- MODULE KeyedMutex -----------------------------
(***************************************************************************)
(* What ApprovalConcurrencyGate.runExclusive promises: calls that name the *)
(* same key run one at a time, in the order they asked.  queue[k] holds    *)
(* the calls that asked for k and have not finished; the first one runs.   *)
(***************************************************************************)
EXTENDS Integers, Sequences

CONSTANTS Calls, Keys

VARIABLE queue

QueueTypeOK == queue \in [Keys -> Seq(Calls)]

Holds(c, k) == queue[k] # <<>> /\ Head(queue[k]) = c

Queued(c) == \E k \in Keys : \E i \in 1..Len(queue[k]) : queue[k][i] = c

QueueInit == queue = [k \in Keys |-> <<>>]

Join(c, k) == queue' = [queue EXCEPT ![k] = Append(@, c)]

Leave(c, k) == /\ Holds(c, k)
               /\ queue' = [queue EXCEPT ![k] = Tail(@)]

MutexNext == \E c \in Calls, k \in Keys : \/ ~Queued(c) /\ Join(c, k)
                                          \/ Leave(c, k)

MutexSpec == QueueInit /\ [][MutexNext]_queue
=============================================================================
