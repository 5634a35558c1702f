-------------------------- MODULE IdempotentLedger --------------------------
(***************************************************************************)
(* What creating a time-off request promises, with no awaits and no        *)
(* database: an order is booked at most once per idempotency key, and      *)
(* every call that is granted names the booking of its own order.          *)
(***************************************************************************)
CONSTANTS Calls, Keys, NoKey, Payloads

VARIABLES
    order,      \* [Calls -> Orders]: what each call asks for
    bookings,   \* what was booked; a booking is named after the call that made it
    grant       \* the bookings a call was granted; at most one

ledgerVars == <<order, bookings, grant>>

Orders == [key: Keys \cup {NoKey}, payload: Payloads]

Booking(c) == [id |-> c, key |-> order[c].key, payload |-> order[c].payload]

Under(key) == {b \in bookings : b.key = key /\ key # NoKey}

Init == /\ order \in [Calls -> Orders]
        /\ bookings = {}
        /\ grant = [c \in Calls |-> {}]

Book(c) == /\ Booking(c) \notin bookings
           /\ Under(order[c].key) = {}
           /\ bookings' = bookings \cup {Booking(c)}
           /\ UNCHANGED <<order, grant>>

\* Its own booking, or the one another call made of the same order.
Answers(c) == {Booking(c)} \cup {b \in Under(order[c].key) : b.payload = order[c].payload}

Grant(c) == /\ grant[c] = {}
            /\ \E b \in bookings \cap Answers(c) : grant' = [grant EXCEPT ![c] = {b}]
            /\ UNCHANGED <<order, bookings>>

Next == \E c \in Calls : Book(c) \/ Grant(c)

Spec == Init /\ [][Next]_ledgerVars
=============================================================================
