------------------------- MODULE ApprovalGateProofs --------------------------
(***************************************************************************)
(* The promise chain of ApprovalConcurrencyGate is a first-come            *)
(* first-served lock, for any number of invocations and keys.              *)
(*                                                                         *)
(* The argument.  Within the line of a key each invocation awaits the one  *)
(* before it (Chained), and the Map holds the last (TailIsLastPending).    *)
(* A tail settles only after its owner is done (SettledAreDone), and who   *)
(* is done is in no line: so only the head of a line can enter.            *)
(***************************************************************************)
EXTENDS ApprovalGate, TLAPS

USE NoneAssumption

GateTypeOK ==
    /\ tails \in [Keys -> Calls \cup {None}]
    /\ stage \in [Calls -> Stages]
    /\ key \in [Calls -> Keys]
    /\ previous \in [Calls -> Calls \cup {None}]
    /\ released \subseteq Calls
    /\ settled \subseteq Calls
    /\ line \in [Keys -> Seq(Calls)]

Has(q, c) == \E i \in 1..Len(q) : q[i] = c
Distinct(q) == \A i, j \in 1..Len(q) : q[i] = q[j] => i = j
Linked(q, before) == \A i \in 2..Len(q) : before[q[i]] = q[i - 1]

\* The line of k: whoever waits or works for k, each once.
LinesOK ==
    \A k \in Keys :
        /\ \A c \in Calls : Has(line[k], c) <=> stage[c] \in {"waiting", "working"} /\ key[c] = k
        /\ Distinct(line[k])

Chained == \A k \in Keys : Linked(line[k], previous)

SettledAreDone == settled \subseteq released /\ \A c \in released : Done(c)

Inv == /\ GateTypeOK /\ LinesOK /\ Chained /\ SettledAreDone
       /\ TailIsLastPending /\ OldestWorksAlone

-----------------------------------------------------------------------------
(* The first of a sequence is the first to be removed.                     *)
LEMMA RemoveHead ==
    ASSUME NEW S, NEW s \in Seq(S), s # <<>>
    PROVE  RemoveFirst(s, s[1]) = Tail(s)
<1> DEFINE I == {i \in 1..Len(s) : s[i] = s[1]}
<1>1. 1 \in I /\ \A i \in I : i \in Nat /\ 1 <= i
    OBVIOUS
<1>2. Min(I) = 1
    BY <1>1 DEF Min
<1>3. SelectInSeq(s, LAMBDA v : v = s[1]) = 1
    BY <1>1, <1>2 DEF SelectInSeq
<1>4. RemoveAt(s, 1) = Tail(s)
    BY DEF RemoveAt
<1> QED
    BY <1>1, <1>3, <1>4 DEF RemoveFirst

(* Without its first element.                                              *)
LEMMA TailOfLine ==
    ASSUME NEW S, NEW q \in Seq(S), q # <<>>, Distinct(q), NEW before, Linked(q, before)
    PROVE  /\ Tail(q) \in Seq(S) /\ Distinct(Tail(q)) /\ Linked(Tail(q), before)
           /\ \A c : Has(Tail(q), c) <=> Has(q, c) /\ c # q[1]
           /\ Last(q) = q[1] <=> Tail(q) = <<>>
           /\ Tail(q) # <<>> => Last(Tail(q)) = Last(q)
<1>1. /\ Tail(q) \in Seq(S) /\ Len(q) \in Nat \ {0} /\ Len(Tail(q)) = Len(q) - 1
      /\ \A i \in 1..Len(q) - 1 : Tail(q)[i] = q[i + 1]
    OBVIOUS
<1>2. Distinct(Tail(q))
    BY <1>1 DEF Distinct
<1>3. Linked(Tail(q), before)
    <2> SUFFICES ASSUME NEW i \in 2..Len(Tail(q))
                 PROVE  before[Tail(q)[i]] = Tail(q)[i - 1]
        BY DEF Linked
    <2>1. /\ i \in 1..Len(q) - 1 /\ i - 1 \in 1..Len(q) - 1
          /\ i + 1 \in 2..Len(q) /\ (i + 1) - 1 = i /\ (i - 1) + 1 = i
        BY <1>1
    <2>2. Tail(q)[i] = q[i + 1] /\ Tail(q)[i - 1] = q[i]
        BY <1>1, <2>1
    <2>3. before[q[i + 1]] = q[i]
        BY <2>1 DEF Linked
    <2> QED
        BY <2>2, <2>3
<1>4. ASSUME NEW c
      PROVE  Has(Tail(q), c) <=> Has(q, c) /\ c # q[1]
    <2>1. ASSUME Has(Tail(q), c) PROVE Has(q, c) /\ c # q[1]
        <3>1. PICK i \in 1..Len(Tail(q)) : Tail(q)[i] = c
            BY <2>1 DEF Has
        <3>2. /\ i \in 1..Len(q) - 1 /\ i + 1 \in 1..Len(q) /\ 1 \in 1..Len(q)
              /\ i + 1 # 1
            BY <1>1, <3>1
        <3>3. q[i + 1] = c
            BY <1>1, <3>1, <3>2
        <3> QED
            BY <3>2, <3>3 DEF Has, Distinct
    <2>2. ASSUME Has(q, c), c # q[1] PROVE Has(Tail(q), c)
        <3>1. PICK i \in 1..Len(q) : q[i] = c
            BY <2>2 DEF Has
        <3>2. i - 1 \in 1..Len(q) - 1 /\ (i - 1) + 1 = i
            BY <1>1, <2>2, <3>1
        <3>3. Tail(q)[i - 1] = c
            BY <1>1, <3>1, <3>2
        <3> QED
            BY <1>1, <3>2, <3>3 DEF Has
    <2> QED
        BY <2>1, <2>2
<1>5. Tail(q) = <<>> <=> Len(q) = 1
    <2>1. ASSUME NEW r \in Seq(S) PROVE r = <<>> <=> Len(r) = 0
        OBVIOUS
    <2>2. Tail(q) = <<>> <=> Len(Tail(q)) = 0
        BY <1>1, <2>1, Zenon
    <2> QED
        BY <1>1, <2>2
<1>6. Last(q) = q[1] <=> Len(q) = 1
    BY <1>1 DEF Last, Distinct
<1>7. Tail(q) # <<>> => Last(Tail(q)) = Last(q)
    BY <1>1, <1>5 DEF Last
<1> QED
    BY <1>1, <1>2, <1>3, <1>4, <1>5, <1>6, <1>7

(* With one more at its end.                                               *)
LEMMA AppendToLine ==
    ASSUME NEW S, NEW q \in Seq(S), NEW c \in S, ~Has(q, c), Distinct(q),
           NEW before, NEW after, Linked(q, before),
           \A d \in S \ {c} : after[d] = before[d],
           q # <<>> => after[c] = Last(q)
    PROVE  /\ Append(q, c) \in Seq(S) /\ Distinct(Append(q, c))
           /\ Linked(Append(q, c), after)
           /\ \A d : Has(Append(q, c), d) <=> Has(q, d) \/ d = c
           /\ Append(q, c) # <<>> /\ Last(Append(q, c)) = c
           /\ q # <<>> => Head(Append(q, c)) = Head(q)
<1>1. /\ Append(q, c) \in Seq(S) /\ Len(q) \in Nat /\ Len(Append(q, c)) = Len(q) + 1
      /\ \A i \in 1..Len(q) : Append(q, c)[i] = q[i] /\ q[i] \in S /\ q[i] # c
      /\ Append(q, c)[Len(q) + 1] = c
    BY DEF Has
<1>2. Distinct(Append(q, c))
    BY <1>1 DEF Distinct
<1>3. Linked(Append(q, c), after)
    <2> SUFFICES ASSUME NEW i \in 2..Len(Append(q, c))
                 PROVE  after[Append(q, c)[i]] = Append(q, c)[i - 1]
        BY DEF Linked
    <2>1. CASE i = Len(q) + 1
        <3>1. i - 1 = Len(q) /\ Len(q) \in 1..Len(q) /\ q # <<>>
            BY <1>1, <2>1
        <3> QED
            BY <1>1, <2>1, <3>1 DEF Last
    <2>2. CASE i \in 2..Len(q)
        <3>1. i \in 1..Len(q) /\ i - 1 \in 1..Len(q)
            BY <1>1, <2>2
        <3> QED
            BY <1>1, <2>2, <3>1 DEF Linked
    <2> QED
        BY <1>1, <2>1, <2>2
<1>4. \A d : Has(Append(q, c), d) <=> Has(q, d) \/ d = c
    BY <1>1 DEF Has
<1>5. Append(q, c) # <<>> /\ Last(Append(q, c)) = c
    BY <1>1 DEF Last
<1>6. q # <<>> => Head(Append(q, c)) = Head(q)
    BY <1>1
<1> QED
    BY <1>1, <1>2, <1>3, <1>4, <1>5, <1>6

(* Nobody is in line at the start.                                         *)
LEMMA InvInit == Init => Inv
    BY DEF Init, Inv, GateTypeOK, LinesOK, Has, Distinct, Linked, Chained, SettledAreDone,
           TailIsLastPending, OldestWorksAlone, Stages

(* A newcomer goes to the end of the line (runExclusive up to its await).  *)
LEMMA JoinStep ==
    ASSUME Inv, NEW c \in Calls, RunExclusive(c)
    PROVE  Inv' /\ ~Mutex!Queued(c) /\ Mutex!Join(c, key[c])
<1> DEFINE q == line[key[c]]
<1>1. /\ key[c] \in Keys /\ q \in Seq(Calls)
      /\ ~Has(q, c) /\ Distinct(q) /\ Linked(q, previous)
    BY DEF Inv, GateTypeOK, LinesOK, Chained, RunExclusive
<1>2. /\ \A d \in Calls \ {c} : previous'[d] = previous[d] /\ stage'[d] = stage[d]
      /\ previous'[c] = tails[key[c]] /\ stage'[c] = "waiting" /\ stage[c] = "new"
      /\ UNCHANGED <<key, released, settled>>
    BY DEF Inv, GateTypeOK, RunExclusive
<1>3. q # <<>> => previous'[c] = Last(q)
    BY <1>1, <1>2 DEF Inv, TailIsLastPending
<1>4. /\ Append(q, c) \in Seq(Calls) /\ Distinct(Append(q, c))
      /\ Linked(Append(q, c), previous')
      /\ \A d : Has(Append(q, c), d) <=> Has(q, d) \/ d = c
      /\ Append(q, c) # <<>> /\ Last(Append(q, c)) = c
      /\ q # <<>> => Head(Append(q, c)) = Head(q)
    BY <1>1, <1>2, <1>3, AppendToLine
<1>5. /\ line'[key[c]] = Append(q, c) /\ tails'[key[c]] = c
      /\ \A k \in Keys \ {key[c]} : line'[k] = line[k] /\ tails'[k] = tails[k]
    BY <1>1 DEF Inv, GateTypeOK, RunExclusive
<1>6. GateTypeOK'
    BY <1>1, <1>4 DEF Inv, GateTypeOK, RunExclusive, Stages
<1>7. LinesOK'
    <2>1. \A k \in Keys : Distinct(line'[k])
        BY <1>4, <1>5 DEF Inv, LinesOK
    <2>2. \A k \in Keys, d \in Calls : Has(line'[k], d) <=>
              Has(line[k], d) \/ (k = key[c] /\ d = c)
        BY <1>4, <1>5
    <2>3. \A k \in Keys, d \in Calls : Has(line'[k], d) <=>
              stage'[d] \in {"waiting", "working"} /\ key'[d] = k
        BY <1>2, <2>2 DEF Inv, LinesOK
    <2> QED
        BY <2>1, <2>3 DEF LinesOK
<1>8. Chained'
    <2>1. \A k \in Keys \ {key[c]} : ~Has(line[k], c) /\ line[k] \in Seq(Calls) /\ Linked(line[k], previous)
        BY <1>2 DEF Inv, GateTypeOK, LinesOK, Chained
    <2>2. \A k \in Keys \ {key[c]} : Linked(line[k], previous')
        BY <1>2, <2>1 DEF Linked, Has
    <2> QED
        BY <1>4, <1>5, <2>2 DEF Chained
<1>9. SettledAreDone'
    BY <1>2 DEF Inv, GateTypeOK, SettledAreDone, Done
<1>10. TailIsLastPending'
    BY <1>4, <1>5 DEF Inv, TailIsLastPending
<1>11. OldestWorksAlone'
    <2> SUFFICES ASSUME NEW d \in Calls, stage'[d] = "working"
                 PROVE  Mutex!Holds(d, key[d])'
        BY DEF OldestWorksAlone
    <2>1. stage[d] = "working" /\ key'[d] = key[d] /\ key[d] \in Keys
        BY <1>2 DEF Inv, GateTypeOK
    <2>2. line[key[d]] # <<>> /\ Head(line[key[d]]) = d
        BY <2>1 DEF Inv, OldestWorksAlone, Mutex!Holds
    <2> QED
        BY <1>4, <1>5, <2>1, <2>2 DEF Mutex!Holds
<1>12. ~Mutex!Queued(c)
    BY <1>2 DEF Inv, LinesOK, Has, Mutex!Queued
<1>13. Mutex!Join(c, key[c])
    BY DEF RunExclusive, Mutex!Join
<1> QED
    BY <1>6, <1>7, <1>8, <1>9, <1>10, <1>11, <1>12, <1>13 DEF Inv

(* Only the head of a line finds the tail it awaits settled.               *)
LEMMA EnterStep ==
    ASSUME Inv, NEW c \in Calls, Enter(c)
    PROVE  Inv' /\ UNCHANGED line
<1> DEFINE q == line[key[c]]
<1>1. key[c] \in Keys /\ q \in Seq(Calls) /\ Has(q, c) /\ Linked(q, previous)
    BY DEF Inv, GateTypeOK, LinesOK, Chained, Enter
<1>2. PICK i \in 1..Len(q) : q[i] = c
    BY <1>1 DEF Has
<1>3. i = 1
    <2> SUFFICES ASSUME i \in 2..Len(q) PROVE FALSE
        BY <1>1
    <2>1. previous[c] = q[i - 1] /\ i - 1 \in 1..Len(q)
        BY <1>1, <1>2 DEF Linked
    <2>2. q[i - 1] \in Calls /\ Has(q, q[i - 1])
        BY <1>1, <2>1 DEF Has
    <2>3. q[i - 1] \in released
        BY <2>1, <2>2 DEF Enter, PreviousSettled, Inv, SettledAreDone
    <2>4. Done(q[i - 1])
        BY <2>3 DEF Inv, SettledAreDone
    <2>5. stage[q[i - 1]] \in {"waiting", "working"}
        BY <1>1, <2>2 DEF Inv, LinesOK
    <2> QED
        BY <2>4, <2>5 DEF Done
<1>4. Mutex!Holds(c, key[c])
    BY <1>1, <1>2, <1>3 DEF Mutex!Holds
<1>5. /\ UNCHANGED <<tails, key, previous, released, settled, line>>
      /\ stage[c] = "waiting" /\ stage' = [stage EXCEPT ![c] = "working"]
    BY DEF Enter
<1>6. GateTypeOK' /\ Chained' /\ TailIsLastPending'
    BY <1>5 DEF Inv, GateTypeOK, Chained, TailIsLastPending, Stages
<1>7. LinesOK'
    BY <1>5 DEF Inv, GateTypeOK, LinesOK
<1>8. SettledAreDone'
    BY <1>5 DEF Inv, GateTypeOK, SettledAreDone, Done
<1>9. OldestWorksAlone'
    BY <1>4, <1>5 DEF Inv, GateTypeOK, OldestWorksAlone, Mutex!Holds
<1> QED
    BY <1>5, <1>6, <1>7, <1>8, <1>9 DEF Inv

(* Whoever finishes leaves the head of its line (the finally block).       *)
LEMMA SettleStep ==
    ASSUME Inv, NEW c \in Calls, Settle(c)
    PROVE  Inv' /\ Mutex!Leave(c, key[c])
<1> DEFINE q == line[key[c]]
<1>1. /\ key[c] \in Keys /\ q \in Seq(Calls) /\ q # <<>>
      /\ Distinct(q) /\ Linked(q, previous) /\ Mutex!Holds(c, key[c])
    BY DEF Inv, GateTypeOK, LinesOK, Chained, Settle, OldestWorksAlone, Mutex!Holds
<1>2. q[1] = c
    BY <1>1 DEF Mutex!Holds
<1>3. /\ Tail(q) \in Seq(Calls) /\ Distinct(Tail(q)) /\ Linked(Tail(q), previous)
      /\ \A d : Has(Tail(q), d) <=> Has(q, d) /\ d # c
      /\ Last(q) = c <=> Tail(q) = <<>>
      /\ Tail(q) # <<>> => Last(Tail(q)) = Last(q)
    BY <1>1, <1>2, TailOfLine
<1>4. line' = [line EXCEPT ![key[c]] = Tail(@)]
    BY <1>1, <1>2, RemoveHead DEF Settle, LeaveLine
<1>5. /\ line'[key[c]] = Tail(q)
      /\ tails'[key[c]] = IF tails[key[c]] = c THEN None ELSE tails[key[c]]
      /\ \A k \in Keys \ {key[c]} : line'[k] = line[k] /\ tails'[k] = tails[k]
    BY <1>1, <1>4 DEF Inv, GateTypeOK, Settle
<1>6. /\ \A d \in Calls \ {c} : stage'[d] = stage[d]
      /\ stage[c] = "working" /\ stage'[c] \in {"fulfilled", "rejected"}
      /\ UNCHANGED <<key, previous, settled>> /\ released' = released \cup {c}
    BY DEF Settle, Inv, GateTypeOK
<1>7. GateTypeOK'
    BY <1>1, <1>3, <1>4 DEF Inv, GateTypeOK, Settle, Stages
<1>8. LinesOK'
    BY <1>1, <1>3, <1>5, <1>6 DEF Inv, LinesOK
<1>9. Chained'
    BY <1>3, <1>5, <1>6 DEF Inv, Chained
<1>10. SettledAreDone'
    BY <1>6 DEF Inv, GateTypeOK, SettledAreDone, Done
<1>11. TailIsLastPending'
    <2>1. tails[key[c]] = Last(q)
        BY <1>1 DEF Inv, TailIsLastPending
    <2> QED
        BY <1>3, <1>5, <2>1 DEF Inv, TailIsLastPending
<1>12. OldestWorksAlone'
    <2> SUFFICES ASSUME NEW d \in Calls, stage'[d] = "working"
                 PROVE  Mutex!Holds(d, key[d])'
        BY DEF OldestWorksAlone
    <2>1. d # c /\ stage[d] = "working" /\ key'[d] = key[d] /\ key[d] \in Keys
        BY <1>6 DEF Inv, GateTypeOK
    <2>2. line[key[d]] # <<>> /\ Head(line[key[d]]) = d
        BY <2>1 DEF Inv, OldestWorksAlone, Mutex!Holds
    <2>3. key[d] # key[c]
        BY <1>1, <2>1, <2>2 DEF Mutex!Holds
    <2> QED
        BY <1>5, <2>1, <2>2, <2>3 DEF Mutex!Holds
<1>13. Mutex!Leave(c, key[c])
    BY <1>1, <1>4 DEF Mutex!Leave
<1> QED
    BY <1>7, <1>8, <1>9, <1>10, <1>11, <1>12, <1>13 DEF Inv

(* A tail settles after its owner is done; no line changes.                *)
LEMMA TailStep ==
    ASSUME Inv, NEW c \in Calls, TailSettles(c)
    PROVE  Inv' /\ UNCHANGED line
    BY DEF Inv, TailSettles, GateTypeOK, LinesOK, Chained, SettledAreDone, Done,
           TailIsLastPending, OldestWorksAlone, Mutex!Holds

(* The invariant is inductive, and every step is one of the lock's.        *)
LEMMA InvNext == Inv /\ [Next]_gateVars => Inv' /\ [Mutex!MutexNext]_line
<1> SUFFICES ASSUME Inv, [Next]_gateVars PROVE Inv' /\ [Mutex!MutexNext]_line
    OBVIOUS
<1>1. \A c \in Calls : key[c] \in Keys
    BY DEF Inv, GateTypeOK
<1>2. ASSUME NEW c \in Calls, RunExclusive(c)
      PROVE  Inv' /\ [Mutex!MutexNext]_line
    BY <1>1, <1>2, JoinStep DEF Mutex!MutexNext
<1>3. ASSUME NEW c \in Calls, Settle(c)
      PROVE  Inv' /\ [Mutex!MutexNext]_line
    BY <1>1, <1>3, SettleStep DEF Mutex!MutexNext
<1>4. ASSUME NEW c \in Calls, Enter(c) \/ TailSettles(c)
      PROVE  Inv' /\ [Mutex!MutexNext]_line
    BY <1>4, EnterStep, TailStep
<1>5. CASE UNCHANGED gateVars
    BY <1>5 DEF gateVars, Inv, GateTypeOK, LinesOK, Chained, SettledAreDone, Done,
                TailIsLastPending, OldestWorksAlone, Mutex!Holds
<1> QED
    BY <1>2, <1>3, <1>4, <1>5 DEF Next, Progress

(* The invariant always holds.                                             *)
LEMMA Invariance == Spec => []Inv
    BY InvInit, InvNext, PTL DEF Spec

-----------------------------------------------------------------------------
(* The Map holds the tail of the last who waits or works for a key, and    *)
(* nothing for a key that nobody uses (tails.set, the identity check       *)
(* before tails.delete).                                                   *)
THEOREM MapHoldsLastTail == Spec => []TailIsLastPending
    BY Invariance, PTL DEF Inv

(* At most one invocation per key is inside its work, and it is the oldest *)
(* that asked (await previousTail).                                        *)
THEOREM OldestIsAlone == Spec => []OldestWorksAlone
    BY Invariance, PTL DEF Inv

(* The chain of promises implements KeyedMutex (runExclusive).             *)
THEOREM GateIsMutex == Spec => ImplementsMutex
<1>1. Init => Mutex!QueueInit
    BY DEF Init, Mutex!QueueInit
<1> QED
    BY <1>1, InvNext, Invariance, PTL DEF Spec, ImplementsMutex, Mutex!MutexSpec
=============================================================================
