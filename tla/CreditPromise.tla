--------------------------- MODULE CreditPromise ---------------------------
(***************************************************************************)
(* What the credit ledger promises to the rest of the backend, whatever    *)
(* transactions run underneath: a user's spendable credits move in whole   *)
(* steps, an order is charged or returned exactly once, and only an        *)
(* operator's recovery turns a returned order into a charged one.          *)
(* There is no reserved balance here: what is held for open orders is a    *)
(* consequence, which CreditLedger has to maintain by hand.                *)
(***************************************************************************)
EXTENDS Integers

CONSTANTS User, OrderId, OwnerOf, Amount

VARIABLES available,   \* spendable credits of each user
          order        \* the billing orders, by id

promiseVars == <<available, order>>

Mode == {"fixed", "token"}
Open == {"reserved", "running", "uncertain"}
Status == {"none", "settled", "refunded"} \cup Open
Order == [status : Status, mode : Mode, amount : Nat, actual : Nat]
Blank == [status |-> "none", mode |-> "fixed", amount |-> 0, actual |-> 0]

\* What an order may finally cost: its price, or a metered amount.
Price(o) == IF order[o].mode = "fixed" THEN {order[o].amount} ELSE Amount

PromiseInit == /\ available = [u \in User |-> 0]
               /\ order = [o \in OrderId |-> Blank]

\* A user's credits change by d and order o becomes row r.
Move(o, d, r) ==
    /\ available' = [available EXCEPT ![OwnerOf[o]] = @ + d]
    /\ order' = [order EXCEPT ![o] = r]

\* Credits granted, bought, redeemed or corrected.
Deposit(u) == /\ available'[u] \in Int
              /\ available' = [available EXCEPT ![u] = available'[u]]
              /\ UNCHANGED order

Place(o, m, a) ==
    /\ order[o].status = "none"
    /\ available[OwnerOf[o]] >= a
    /\ Move(o, -a, [Blank EXCEPT !.status = "reserved", !.mode = m, !.amount = a])

\* Work starts, or its cost becomes doubtful: no credit moves.
Progress(o, s) ==
    /\ order[o].status \in {"reserved", "running"}
    /\ s \in {"running", "uncertain"}
    /\ order' = [order EXCEPT ![o].status = s]
    /\ UNCHANGED available

\* The job moves to another supplier at another price.
Switch(o, m, a) ==
    /\ order[o].status \in {"reserved", "running"}
    /\ Move(o, order[o].amount - a, [order[o] EXCEPT !.mode = m, !.amount = a])

\* What metered work has cost is written down, although it could not be charged.
Note(o, a) ==
    /\ order[o].status \in Open
    /\ order' = [order EXCEPT ![o].actual = a]
    /\ UNCHANGED available

Charge(o, a) ==
    /\ order[o].status \in Open
    /\ a \in Price(o)
    /\ Move(o, order[o].amount - a, [order[o] EXCEPT !.status = "settled", !.actual = a])

Return(o) ==
    /\ order[o].status \in Open
    /\ Move(o, order[o].amount, [order[o] EXCEPT !.status = "refunded"])

ChargeReturned(o, a) ==
    /\ order[o].status = "refunded"
    /\ a \in Price(o)
    /\ Move(o, -a, [order[o] EXCEPT !.status = "settled", !.actual = a])

PromiseNext ==
    \/ \E u \in User : Deposit(u)
    \/ \E o \in OrderId : \/ \E m \in Mode, a \in Amount : Place(o, m, a) \/ Switch(o, m, a)
                          \/ \E s \in Status : Progress(o, s)
                          \/ \E a \in Amount : Note(o, a) \/ Charge(o, a) \/ ChargeReturned(o, a)
                          \/ Return(o)

Promise == PromiseInit /\ [][PromiseNext]_promiseVars
=============================================================================
