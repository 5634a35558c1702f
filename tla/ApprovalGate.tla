---------------------------- MODULE ApprovalGate ----------------------------
(***************************************************************************)
(* ApprovalConcurrencyGate (src/src/time-off/approval-concurrency-gate.ts):*)
(* a lock made of a chain of promises.  Each invocation of runExclusive    *)
(* owns one deferred (release) and one tail promise, which settles when    *)
(* the previous tail has settled and release is resolved; both are named   *)
(* by the invocation.  tails is the Map from a key to the last tail.       *)
(*                                                                         *)
(* JavaScript runs one piece of code at a time, from one await to the      *)
(* next, so RunExclusive (up to the first await), Enter, and Settle (the   *)
(* finally block) are each atomic; a promise settles its dependants later, *)
(* in a microtask of its own (TailSettles).                                *)
(***************************************************************************)
EXTENDS SequencesExt

CONSTANTS
    Calls,      \* invocations of runExclusive, each used once
    Keys,       \* approval keys
    None        \* no tail: `undefined` in the Map, Promise.resolve() as tail

ASSUME NoneAssumption == None \notin Calls

VARIABLES
    tails,      \* [Keys -> Calls \cup {None}]
    stage,      \* where each invocation is
    key,        \* the key it asked for
    previous,   \* previousTail, read before its own tail is stored
    released,   \* invocations whose release is resolved
    settled,    \* invocations whose tail promise has settled
    line        \* history: who asked for each key and is not done, in order

gateVars == <<tails, stage, key, previous, released, settled, line>>

Stages == {"new", "waiting", "working", "fulfilled", "rejected"}

Done(c) == stage[c] \in {"fulfilled", "rejected"}

Init ==
    /\ tails = [k \in Keys |-> None]
    /\ stage = [c \in Calls |-> "new"]
    /\ key \in [Calls -> Keys]
    /\ previous = [c \in Calls |-> None]
    /\ released = {}
    /\ settled = {}
    /\ line = [k \in Keys |-> <<>>]

\* Enqueue: read the current tail and put one's own tail in its place.
RunExclusive(c) ==
    /\ stage[c] = "new"
    /\ previous' = [previous EXCEPT ![c] = tails[key[c]]]
    /\ tails' = [tails EXCEPT ![key[c]] = c]
    /\ stage' = [stage EXCEPT ![c] = "waiting"]
    /\ line' = [line EXCEPT ![key[c]] = Append(@, c)]
    /\ UNCHANGED <<key, released, settled>>

PreviousSettled(c) == previous[c] = None \/ previous[c] \in settled

\* Mutant: work is called without awaiting the previous tail.
EnterAtOnce(c) ==
    /\ stage[c] = "waiting"
    /\ stage' = [stage EXCEPT ![c] = "working"]
    /\ UNCHANGED <<tails, key, previous, released, settled, line>>

\* await previousTail returns and work is called.
Enter(c) ==
    /\ stage[c] = "waiting"
    /\ PreviousSettled(c)
    /\ stage' = [stage EXCEPT ![c] = "working"]
    /\ UNCHANGED <<tails, key, previous, released, settled, line>>

\* History: c is done.
LeaveLine(c) == line' = [line EXCEPT ![key[c]] = RemoveFirst(@, c)]

\* Mutant: the key is deleted without comparing the tail.
SettleAndForget(c) ==
    /\ stage[c] = "working"
    /\ \E how \in {"fulfilled", "rejected"} : stage' = [stage EXCEPT ![c] = how]
    /\ released' = released \cup {c}
    /\ tails' = [tails EXCEPT ![key[c]] = None]
    /\ LeaveLine(c)
    /\ UNCHANGED <<key, previous, settled>>

\* Mutant: no finally, so a work that throws releases nothing.
SettleWithoutFinally(c) ==
    /\ stage[c] = "working"
    /\ \/ /\ stage' = [stage EXCEPT ![c] = "fulfilled"]
          /\ released' = released \cup {c}
          /\ tails' = [tails EXCEPT ![key[c]] = IF @ = c THEN None ELSE @]
       \/ /\ stage' = [stage EXCEPT ![c] = "rejected"]
          /\ UNCHANGED <<released, tails>>
    /\ LeaveLine(c)
    /\ UNCHANGED <<key, previous, settled>>

\* The finally block runs whether work fulfils or throws.
Settle(c) ==
    /\ stage[c] = "working"
    /\ \E how \in {"fulfilled", "rejected"} : stage' = [stage EXCEPT ![c] = how]
    /\ released' = released \cup {c}
    /\ tails' = [tails EXCEPT ![key[c]] = IF @ = c THEN None ELSE @]
    /\ LeaveLine(c)
    /\ UNCHANGED <<key, previous, settled>>

\* currentTail = previousTail.then(() => release.promise)
TailSettles(c) ==
    /\ c \in released \ settled
    /\ PreviousSettled(c)
    /\ settled' = settled \cup {c}
    /\ UNCHANGED <<tails, stage, key, previous, released, line>>

Progress(c) == Enter(c) \/ Settle(c) \/ TailSettles(c)

Next == \E c \in Calls : RunExclusive(c) \/ Progress(c)

\* Promise callbacks are run by the event loop, and approval work always ends
\* (TimeOffApproval); nothing obliges a client to ask.
Spec == Init /\ [][Next]_gateVars /\ \A c \in Calls : WF_gateVars(Progress(c))

-----------------------------------------------------------------------------
(* While anyone waits or works for a key, the Map holds the tail of the    *)
(* last to ask, and it holds nothing once all are done: a newcomer can     *)
(* neither overtake a waiter nor wait for nobody, and the Map never keeps  *)
(* a key that is not in use (the identity check before tails.delete).      *)
TailIsLastPending ==
    \A k \in Keys :
        tails[k] = IF line[k] = <<>> THEN None ELSE Last(line[k])

(* The chain of promises implements a first-come first-served lock for     *)
(* each key: only the oldest unfinished caller of a key ever finishes.     *)
Mutex == INSTANCE KeyedMutex WITH queue <- line
ImplementsMutex == Mutex!MutexSpec

(* At most one invocation per key is inside its work, and it is the oldest *)
(* that asked (runExclusive awaits the previous tail).                     *)
OldestWorksAlone ==
    \A c \in Calls : stage[c] = "working" => Mutex!Holds(c, key[c])

(* Every invocation finishes, whatever the earlier ones did: a work that   *)
(* throws still hands the key on (finally, .catch(() => undefined)).       *)
EveryoneGetsTheirTurn == \A c \in Calls : (stage[c] = "waiting") ~> Done(c)
=============================================================================
