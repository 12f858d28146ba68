---------------------------- MODULE CreditLedger ----------------------------
(***************************************************************************)
(* Credit accounts and billing orders (repository/finance.go and the       *)
(* billing half of SwitchTaskLogicalRoute).  Settling, refunding and       *)
(* restoring an order are transactions that READ the order, decide, and    *)
(* then WRITE the account and the order; every other operation decides in  *)
(* the WHERE clause of its first write.  A transaction runs under one of   *)
(* two isolation levels: SQLite fails a transaction whose snapshot is      *)
(* stale when it first writes, PostgreSQL (READ COMMITTED, the default     *)
(* that database.Open leaves in place) lets it go on.                      *)
(***************************************************************************)
EXTENDS Integers, FiniteSets, Functions

CONSTANTS User,           \* account holders
          Client,         \* goroutines or replicas that run transactions
          MaxOrders,      \* billing orders that may be placed (bound)
          OwnerOf,        \* the user of each order
          Amount,         \* prices and metered amounts, in microcredits
          GrantKey,       \* unique reference keys of one-off grants
          MaxDeposit,     \* cap on a user's recorded deposits (bound)
          ReadCommitted   \* TRUE on PostgreSQL, FALSE on SQLite

OrderId == 1 .. MaxOrders

ASSUME LedgerAssumption ==
    /\ MaxOrders \in Nat
    /\ OwnerOf \in [OrderId -> User]
    /\ Amount \subseteq Nat /\ Amount # {}
    /\ MaxDeposit \in Nat
    /\ ReadCommitted \in BOOLEAN

VARIABLES available, reserved,   \* the two balances of an account
          order,                 \* rows of billing_orders
          deposited,             \* sum of the ledger entries that belong to no order
          granted,               \* reference keys already credited
          txn                    \* the open transaction of each client

vars == <<available, reserved, order, deposited, granted, txn>>

P == INSTANCE CreditPromise
Open == P!Open

Op == {"settle", "refund", "restore"}
NoTxn == [op |-> "idle", id |-> 0, seen |-> P!Blank, stale |-> FALSE]
Txn == [op : Op, id : OrderId, seen : P!Order, stale : BOOLEAN] \cup {NoTxn}

Init == /\ available = [u \in User |-> 0]
        /\ reserved = [u \in User |-> 0]
        /\ order = [o \in OrderId |-> P!Blank]
        /\ deposited = [u \in User |-> 0]
        /\ granted = {}
        /\ txn = [c \in Client |-> NoTxn]

-----------------------------------------------------------------------------
\* A committed write makes every other open snapshot stale.
Committed(c) == txn' = [d \in Client |->
                          IF d = c \/ txn[d] = NoTxn THEN NoTxn
                          ELSE [txn[d] EXCEPT !.stale = TRUE]]
Idle(c) == txn[c] = NoTxn

\* GrantCreditsOnce, RedeemCode: the unique key is taken before the account is touched.
GrantOnce(c, u, k, a) ==
    /\ Idle(c)
    /\ k \notin granted
    /\ deposited[u] + a <= MaxDeposit
    /\ granted' = granted \cup {k}
    /\ available' = [available EXCEPT ![u] = @ + a]
    /\ deposited' = [deposited EXCEPT ![u] = @ + a]
    /\ Committed(c)
    /\ UNCHANGED <<reserved, order>>

\* AdjustCredits: an administrator adds credits, or takes spendable ones away.
Adjust(c, u, d) ==
    /\ Idle(c)
    /\ d < 0 => available[u] + d >= 0
    /\ deposited[u] + d <= MaxDeposit
    /\ available' = [available EXCEPT ![u] = @ + d]
    /\ deposited' = [deposited EXCEPT ![u] = @ + d]
    /\ Committed(c)
    /\ UNCHANGED <<reserved, order, granted>>

\* Fault: the spendable balance is not tested by the update that takes it.
ReserveUnchecked(c, o, m, a) ==
    /\ Idle(c)
    /\ order[o].status = "none"
    /\ available' = [available EXCEPT ![OwnerOf[o]] = @ - a]
    /\ reserved' = [reserved EXCEPT ![OwnerOf[o]] = @ + a]
    /\ order' = [order EXCEPT ![o] = [P!Blank EXCEPT !.status = "reserved", !.mode = m, !.amount = a]]
    /\ Committed(c)
    /\ UNCHANGED <<deposited, granted>>

\* reserveBillingOrder: the balance is tested by the update that takes it.
Reserve(c, o, m, a) ==
    /\ Idle(c)
    /\ order[o].status = "none"
    /\ available[OwnerOf[o]] >= a
    /\ available' = [available EXCEPT ![OwnerOf[o]] = @ - a]
    /\ reserved' = [reserved EXCEPT ![OwnerOf[o]] = @ + a]
    /\ order' = [order EXCEPT ![o] = [P!Blank EXCEPT !.status = "reserved", !.mode = m, !.amount = a]]
    /\ Committed(c)
    /\ UNCHANGED <<deposited, granted>>

\* MarkBillingRunning and MarkBillingUncertain: one conditional update each.
Mark(c, o, from, to) ==
    /\ Idle(c)
    /\ order[o].status \in from
    /\ order' = [order EXCEPT ![o].status = to]
    /\ Committed(c)
    /\ UNCHANGED <<available, reserved, deposited, granted>>

MarkBillingRunning(c, o) == Mark(c, o, {"reserved"}, "running")
MarkBillingUncertain(c, o) == Mark(c, o, {"reserved", "running"}, "uncertain")

\* SwitchTaskLogicalRoute re-prices an order whose first supplier refused the
\* job.  The task row it updates first serialises switches; the order update
\* repeats the status condition, so it acts on the row as it is.
Reprice(c, o, m, a) ==
    LET u == OwnerOf[o]
        delta == a - order[o].amount
    IN /\ Idle(c)
       /\ order[o].status \in {"reserved", "running"}
       /\ a > 0
       /\ delta > 0 => available[u] >= delta
       /\ delta < 0 => reserved[u] >= -delta
       /\ available' = [available EXCEPT ![u] = @ - delta]
       /\ reserved' = [reserved EXCEPT ![u] = @ + delta]
       /\ order' = [order EXCEPT ![o].mode = m, ![o].amount = a]
       /\ Committed(c)
       /\ UNCHANGED <<deposited, granted>>

\* Fault: a closed order does not end the transaction.
BeginOnClosed(c, op, o) ==
    /\ Idle(c)
    /\ order[o].status # "none"
    /\ txn' = [txn EXCEPT ![c] = [op |-> op, id |-> o, seen |-> order[o], stale |-> FALSE]]
    /\ UNCHANGED <<available, reserved, order, deposited, granted>>

\* The first half of SettleBillingOrder, RefundBillingOrder and
\* RestoreRefundedBillingOrder: read the order; a closed order ends the
\* transaction at once, with success or an error, and changes nothing.
Begin(c, op, o) ==
    /\ Idle(c)
    /\ order[o].status \in (IF op = "restore" THEN {"refunded"} ELSE Open)
    /\ txn' = [txn EXCEPT ![c] = [op |-> op, id |-> o, seen |-> order[o], stale |-> FALSE]]
    /\ UNCHANGED <<available, reserved, order, deposited, granted>>

\* Fault: the database lets a transaction write from a stale snapshot.
MayWriteStale(c, op) == txn[c].op = op

\* The database lets the transaction write.
MayWrite(c, op) == /\ txn[c].op = op
                   /\ txn[c].stale => ReadCommitted

\* The price of the order as it was read: fixed, or metered by the usage log.
Cost(seen) == IF seen.mode = "fixed" THEN {seen.amount} ELSE Amount

\* Fault: a reservation is reduced by what was spent, not by what was held.
TakeSpent(u, held, back) ==
    /\ reserved[u] >= held
    /\ reserved' = [reserved EXCEPT ![u] = @ - (held - back)]
    /\ available' = [available EXCEPT ![u] = @ + back]

\* An account gives up a reservation, and gets part of it back.
TakeReserved(u, held, back) ==
    /\ reserved[u] >= held
    /\ reserved' = [reserved EXCEPT ![u] = @ - held]
    /\ available' = [available EXCEPT ![u] = @ + back]

\* The second half of SettleBillingOrder.  The reservation read is consumed
\* if the account still holds as much, the difference to a metered cost goes
\* back to, or comes out of, the spendable balance, which may go negative.
\* The order update carries no status condition.
Settle(c, a) ==
    LET o == txn[c].id
        seen == txn[c].seen
    IN /\ MayWrite(c, "settle")
       /\ a \in Cost(seen)
       /\ TakeReserved(OwnerOf[o], seen.amount, seen.amount - a)
       /\ order' = [order EXCEPT ![o].status = "settled", ![o].actual = a]
       /\ Committed(c)
       /\ UNCHANGED <<deposited, granted>>

\* A metered settlement that is rolled back keeps the cost it has observed, in a
\* statement of its own with a condition of its own.
SettleFailed(c, a) ==
    LET o == txn[c].id
    IN /\ txn[c].op = "settle" /\ txn[c].seen.mode = "token"
       /\ a \in Cost(txn[c].seen)
       /\ order[o].status \in Open
       /\ order' = [order EXCEPT ![o].actual = a]
       /\ Committed(c)
       /\ UNCHANGED <<available, reserved, deposited, granted>>

\* The second half of RefundBillingOrder.
Refund(c) ==
    LET o == txn[c].id
        seen == txn[c].seen
    IN /\ MayWrite(c, "refund")
       /\ TakeReserved(OwnerOf[o], seen.amount, seen.amount)
       /\ order' = [order EXCEPT ![o].status = "refunded"]
       /\ Committed(c)
       /\ UNCHANGED <<deposited, granted>>

\* The second half of RestoreRefundedBillingOrder: the order update repeats
\* the status condition and the transaction fails when it matches no row.
Restore(c, a) ==
    LET o == txn[c].id
        u == OwnerOf[o]
    IN /\ MayWrite(c, "restore")
       /\ a \in Cost(txn[c].seen)
       /\ order[o].status = "refunded"
       /\ available' = [available EXCEPT ![u] = @ - a]
       /\ order' = [order EXCEPT ![o].status = "settled", ![o].actual = a]
       /\ Committed(c)
       /\ UNCHANGED <<reserved, deposited, granted>>

\* Any error rolls the transaction back: a stale snapshot, no usage log yet,
\* a lost connection, a balance that does not cover the reservation.  See also
\* SettleFailed.
Rollback(c) ==
    /\ ~Idle(c)
    /\ txn' = [txn EXCEPT ![c] = NoTxn]
    /\ UNCHANGED <<available, reserved, order, deposited, granted>>

Step(c) ==
    \/ \E u \in User, k \in GrantKey, a \in Amount : GrantOnce(c, u, k, a)
    \/ \E u \in User, d \in Amount : Adjust(c, u, d) \/ Adjust(c, u, -d)
    \/ \E o \in OrderId, m \in P!Mode, a \in Amount : Reserve(c, o, m, a) \/ Reprice(c, o, m, a)
    \/ \E o \in OrderId : MarkBillingRunning(c, o) \/ MarkBillingUncertain(c, o)
    \/ \E o \in OrderId, op \in Op : Begin(c, op, o)
    \/ \E a \in Amount : Settle(c, a) \/ SettleFailed(c, a) \/ Restore(c, a)
    \/ Refund(c)
    \/ Rollback(c)

Next == \E c \in Client : Step(c)

Spec == Init /\ [][Next]_vars

-----------------------------------------------------------------------------
\* Balances, orders and open transactions have their types; reserved credits
\* are never negative.
TypeOK == /\ available \in [User -> Int]
          /\ reserved \in [User -> Nat]
          /\ order \in [OrderId -> P!Order]
          /\ deposited \in [User -> Int]
          /\ granted \subseteq GrantKey
          /\ txn \in [Client -> Txn]

HeldBy(r) == IF r.status \in Open THEN r.amount ELSE 0
SpentBy(r) == IF r.status = "settled" THEN r.actual ELSE 0
Held(u) == [o \in OrderId |-> IF OwnerOf[o] = u THEN HeldBy(order[o]) ELSE 0]
Spent(u) == [o \in OrderId |-> IF OwnerOf[o] = u THEN SpentBy(order[o]) ELSE 0]

\* The reserved balance of an account is exactly what its open orders hold:
\* no transaction of finance.go, whatever it raced with, consumed a
\* reservation that belongs to another order or left one behind.
ReservedBacksOpenOrders == \A u \in User : reserved[u] = SumFunction(Held(u))

\* Every credit a user was given is spendable, held for an open order, or was
\* the recorded cost of a settled one: nobody is charged twice for an order,
\* and no refund creates credits.
CreditsAreConserved ==
    \A u \in User : deposited[u] = available[u] + reserved[u] + SumFunction(Spent(u))

\* What a transaction decided from is still the row it is about to change,
\* as long as the database has not marked its snapshot stale.
SnapshotsAreCurrent ==
    \A c \in Client : ~Idle(c) /\ ~txn[c].stale =>
        /\ order[txn[c].id] = txn[c].seen
        /\ txn[c].seen.status \in (IF txn[c].op = "restore" THEN {"refunded"} ELSE Open)

\* The ledger keeps CreditPromise.
KeepsPromise == P!Promise

\* finance.go answers a refund of a settled order with "settled billing order
\* requires a manual refund": an order that was charged is not returned.
SettledIsNotRefunded ==
    [][\A o \in OrderId : order[o].status = "settled" => order'[o].status # "refunded"]_vars
=============================================================================
