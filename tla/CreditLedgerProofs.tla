------------------------- MODULE CreditLedgerProofs -------------------------
(***************************************************************************)
(* Proofs about CreditLedger for any users, orders, prices and clients.    *)
(***************************************************************************)
EXTENDS CreditLedger, SetSums, TLAPS

-----------------------------------------------------------------------------
(***************************************************************************)
(* The inductive invariant.  Conservation alone is not inductive: a        *)
(* transaction writes what it computed from the row it READ, so the row    *)
(* must still be that one (SnapshotsAreCurrent), which is what SQLite's    *)
(* stale-snapshot error buys.                                              *)
(***************************************************************************)
Totals == ReservedBacksOpenOrders /\ CreditsAreConserved
IInv == TypeOK /\ SnapshotsAreCurrent /\ Totals

USE LedgerAssumption DEF Open, P!Open

\* A transaction that is open knows its order and the row it read.
LEMMA OpenTxn ==
    ASSUME TypeOK, NEW c \in Client, txn[c].op \in Op
    PROVE  /\ txn[c].id \in OrderId
           /\ txn[c].seen \in P!Order
           /\ OwnerOf[txn[c].id] \in User
BY DEF TypeOK, Txn, NoTxn, Op

LEMMA CommittedType ==
    ASSUME TypeOK, NEW c \in Client, Committed(c)
    PROVE  txn' \in [Client -> Txn]
<1> SUFFICES ASSUME NEW d \in Client, d # c, txn[d] # NoTxn
             PROVE  [txn[d] EXCEPT !.stale = TRUE] \in Txn
  BY DEF Committed, Txn
<1>1. txn[d] \in [op : Op, id : OrderId, seen : P!Order, stale : BOOLEAN]
  BY DEF TypeOK, Txn
<1>. QED  BY <1>1 DEF Txn

\* Every step of a client keeps the types of the tables.
LEMMA TypeStep ==
    ASSUME TypeOK, NEW c \in Client, Step(c)
    PROVE  TypeOK'
<1> USE DEF P!Blank, P!Order, P!Mode, P!Status
<1>a. /\ available \in [User -> Int] /\ reserved \in [User -> Nat]
      /\ order \in [OrderId -> P!Order]
      /\ deposited \in [User -> Int] /\ granted \subseteq GrantKey
      /\ txn \in [Client -> Txn]
  BY DEF TypeOK
<1>b. \A o \in OrderId : OwnerOf[o] \in User
  OBVIOUS
<1>c. \A a \in Amount : a \in Nat
  OBVIOUS
<1>1. ASSUME NEW u \in User, NEW k \in GrantKey, NEW a \in Amount, GrantOnce(c, u, k, a)
      PROVE  TypeOK'
  BY <1>1, <1>a, <1>c, CommittedType DEF GrantOnce, TypeOK
<1>2. ASSUME NEW u \in User, NEW d \in Int, Adjust(c, u, d)
      PROVE  TypeOK'
  BY <1>2, <1>a, CommittedType DEF Adjust, TypeOK
<1>3. ASSUME NEW o \in OrderId, NEW m \in P!Mode, NEW a \in Amount, Reserve(c, o, m, a)
      PROVE  TypeOK'
  <2>1. /\ available' \in [User -> Int] /\ reserved' \in [User -> Nat]
    BY <1>3, <1>a, <1>b, <1>c DEF Reserve
  <2>2. [P!Blank EXCEPT !.status = "reserved", !.mode = m, !.amount = a] \in P!Order
    BY <1>c
  <2>3. order' \in [OrderId -> P!Order]
    BY <1>3, <1>a, <2>2 DEF Reserve
  <2>. QED  BY <1>3, <1>a, <2>1, <2>3, CommittedType DEF Reserve, TypeOK
<1>4. ASSUME NEW o \in OrderId, NEW m \in P!Mode, NEW a \in Amount, Reprice(c, o, m, a)
      PROVE  TypeOK'
  <2>1. /\ order[o] \in P!Order /\ order[o].amount \in Nat /\ a \in Nat
        /\ OwnerOf[o] \in User /\ reserved[OwnerOf[o]] \in Nat
    BY <1>a, <1>b, <1>c
  <2>2. available' \in [User -> Int] /\ reserved' \in [User -> Nat]
    BY <1>4, <1>a, <2>1 DEF Reprice
  <2>3. order' \in [OrderId -> P!Order]
    BY <1>4, <1>a, <2>1 DEF Reprice
  <2>. QED  BY <1>4, <1>a, <2>2, <2>3, CommittedType DEF Reprice, TypeOK
<1>5. ASSUME NEW o \in OrderId, MarkBillingRunning(c, o) \/ MarkBillingUncertain(c, o)
      PROVE  TypeOK'
  <2>1. order' \in [OrderId -> P!Order]
    <3>1. PICK to \in {"running", "uncertain"} : order' = [order EXCEPT ![o].status = to]
      BY <1>5 DEF MarkBillingRunning, MarkBillingUncertain, Mark
    <3>2. [order[o] EXCEPT !.status = to] \in P!Order
      BY <1>a DEF P!Order, P!Status, P!Open
    <3>. QED  BY <1>a, <3>1, <3>2
  <2>2. Committed(c) /\ UNCHANGED <<available, reserved, deposited, granted>>
    BY <1>5 DEF MarkBillingRunning, MarkBillingUncertain, Mark
  <2>. QED  BY <1>a, <2>1, <2>2, CommittedType DEF TypeOK
<1>6. ASSUME NEW o \in OrderId, NEW op \in Op, Begin(c, op, o)
      PROVE  TypeOK'
  <2>1. [op |-> op, id |-> o, seen |-> order[o], stale |-> FALSE] \in Txn
    BY <1>a DEF Txn
  <2>2. txn' \in [Client -> Txn]
    BY <1>6, <1>a, <2>1 DEF Begin
  <2>. QED  BY <1>6, <1>a, <2>2 DEF Begin, TypeOK
<1>7. ASSUME NEW a \in Amount, Settle(c, a)
      PROVE  TypeOK'
  <2>1. txn[c].id \in OrderId /\ txn[c].seen \in P!Order /\ OwnerOf[txn[c].id] \in User
    BY <1>7, OpenTxn DEF Settle, MayWrite, Op
  <2>2. /\ available' \in [User -> Int] /\ reserved' \in [User -> Nat]
        /\ order' \in [OrderId -> P!Order]
    <3>1. available' \in [User -> Int] /\ reserved' \in [User -> Nat]
      BY <1>7, <1>a, <1>c, <2>1 DEF Settle, TakeReserved
    <3>2. order' \in [OrderId -> P!Order]
      BY <1>7, <1>a, <1>c, <2>1 DEF Settle
    <3>. QED  BY <3>1, <3>2
  <2>. QED  BY <1>7, <1>a, <2>2, CommittedType DEF Settle, TypeOK
<1>12. ASSUME NEW a \in Amount, SettleFailed(c, a)
       PROVE  TypeOK'
  <2>1. txn[c].id \in OrderId
    BY <1>12, OpenTxn DEF SettleFailed, Op
  <2>2. order' \in [OrderId -> P!Order]
    BY <1>12, <1>a, <1>c, <2>1 DEF SettleFailed
  <2>. QED  BY <1>12, <1>a, <2>2, CommittedType DEF SettleFailed, TypeOK
<1>8. ASSUME NEW a \in Amount, Restore(c, a)
      PROVE  TypeOK'
  <2>1. txn[c].id \in OrderId /\ txn[c].seen \in P!Order /\ OwnerOf[txn[c].id] \in User
    BY <1>8, OpenTxn DEF Restore, MayWrite, Op
  <2>2. available' \in [User -> Int] /\ order' \in [OrderId -> P!Order]
    BY <1>8, <1>a, <1>c, <2>1 DEF Restore
  <2>. QED  BY <1>8, <1>a, <2>2, CommittedType DEF Restore, TypeOK
<1>9. CASE Refund(c)
  <2>1. txn[c].id \in OrderId /\ txn[c].seen \in P!Order /\ OwnerOf[txn[c].id] \in User
    BY <1>9, OpenTxn DEF Refund, MayWrite, Op
  <2>2. /\ available' \in [User -> Int] /\ reserved' \in [User -> Nat]
        /\ order' \in [OrderId -> P!Order]
    BY <1>9, <1>a, <2>1 DEF Refund, TakeReserved
  <2>. QED  BY <1>9, <1>a, <2>2, CommittedType DEF Refund, TypeOK
<1>10. CASE Rollback(c)
  BY <1>10, <1>a DEF Rollback, TypeOK, Txn
<1>11. \A a \in Amount : a \in Int /\ -a \in Int
  OBVIOUS
<1>. QED
  BY <1>1, <1>2, <1>3, <1>4, <1>5, <1>6, <1>7, <1>8, <1>9, <1>10, <1>11, <1>12 DEF Step

\* TypeOK for every instance: every row and balance keeps its type.
THEOREM TypeCorrect == Spec => []TypeOK
<1>1. Init => TypeOK
  BY DEF Init, TypeOK, Txn, NoTxn, P!Blank, P!Order, P!Mode, P!Status
<1>2. TypeOK /\ [Next]_vars => TypeOK'
  <2> SUFFICES ASSUME TypeOK, [Next]_vars PROVE TypeOK'
    OBVIOUS
  <2>1. CASE Next
    BY <2>1, TypeStep DEF Next
  <2>2. CASE UNCHANGED vars
    BY <2>2 DEF vars, TypeOK
  <2>. QED  BY <2>1, <2>2
<1>. QED  BY <1>1, <1>2, PTL DEF Spec

-----------------------------------------------------------------------------
\* A commit invalidates every other snapshot.
LEMMA CommittedSnapshots ==
    ASSUME TypeOK, NEW c \in Client, Committed(c)
    PROVE  SnapshotsAreCurrent'
<1> SUFFICES ASSUME NEW d \in Client, txn'[d] # NoTxn
             PROVE  txn'[d].stale
  BY DEF SnapshotsAreCurrent, Idle
<1>1. txn'[d] = [txn[d] EXCEPT !.stale = TRUE] /\ txn[d] # NoTxn
  BY DEF Committed
<1>2. txn[d] \in [op : Op, id : OrderId, seen : P!Order, stale : BOOLEAN]
  BY <1>1 DEF TypeOK, Txn
<1>. QED  BY <1>1, <1>2

\* What an unspoiled transaction read is what it is about to change.
LEMMA SnapshotStep ==
    ASSUME TypeOK, SnapshotsAreCurrent, NEW c \in Client, Step(c)
    PROVE  SnapshotsAreCurrent'
<1>1. CASE Committed(c)
  BY <1>1, CommittedSnapshots
<1>2. ASSUME NEW o \in OrderId, NEW op \in Op, Begin(c, op, o)
      PROVE  SnapshotsAreCurrent'
  BY <1>2 DEF Begin, SnapshotsAreCurrent, Idle, TypeOK
<1>3. CASE Rollback(c)
  BY <1>3 DEF Rollback, SnapshotsAreCurrent, Idle, TypeOK
<1>. QED
  BY <1>1, <1>2, <1>3 DEF Step, GrantOnce, Adjust, Reserve, Reprice, MarkBillingRunning,
     MarkBillingUncertain, Mark, Settle, SettleFailed, Restore, Refund

\* The sums over orders are natural numbers, and follow each order.
LEMMA OrderSums ==
    ASSUME NEW f \in [OrderId -> Nat], NEW o \in OrderId, NEW v \in Nat
    PROVE  /\ SumFunction(f) \in Nat
           /\ SumFunction([f EXCEPT ![o] = v]) = SumFunction(f) + v - f[o]
<1>1. IsFiniteSet(OrderId)
  BY FS_Interval DEF OrderId
<1>2. DOMAIN f = OrderId /\ \A i \in OrderId : f[i] \in Nat
  OBVIOUS
<1>3. SumFunctionOnSet(f, OrderId) \in Nat
  BY <1>1, <1>2, SumType
<1>4. SumFunction([f EXCEPT ![o] = v]) = SumFunction(f) + v - f[o]
  BY <1>1, SumUpdate
<1>. QED  BY <1>2, <1>3, <1>4 DEF SumFunction

\* Replacing one order row keeps both totals when the account moves by what
\* the row holds and what it has cost.
LEMMA RowUpdate ==
    ASSUME TypeOK, Totals, NEW o \in OrderId, NEW row \in P!Order,
           order' = [order EXCEPT ![o] = row],
           reserved' = [reserved EXCEPT ![OwnerOf[o]] = @ + HeldBy(row) - HeldBy(order[o])],
           available' = [available EXCEPT ![OwnerOf[o]] =
                           @ + (HeldBy(order[o]) + SpentBy(order[o])) - (HeldBy(row) + SpentBy(row))],
           UNCHANGED deposited
    PROVE  Totals'
<1>1. \A r \in P!Order : HeldBy(r) \in Nat /\ SpentBy(r) \in Nat
  BY DEF HeldBy, SpentBy, P!Order
<1>2. order \in [OrderId -> P!Order] /\ OwnerOf[o] \in User
  BY DEF TypeOK
<1>3. ASSUME NEW u \in User
      PROVE  /\ reserved'[u] = SumFunction(Held(u)')
             /\ deposited'[u] = available'[u] + reserved'[u] + SumFunction(Spent(u)')
  <2>1. Held(u) \in [OrderId -> Nat] /\ Spent(u) \in [OrderId -> Nat]
    BY <1>1, <1>2 DEF Held, Spent
  <2>2. /\ reserved[u] = SumFunction(Held(u))
        /\ deposited[u] = available[u] + reserved[u] + SumFunction(Spent(u))
    BY DEF Totals, ReservedBacksOpenOrders, CreditsAreConserved
  <2>3. reserved[u] \in Int /\ available[u] \in Int /\ SumFunction(Spent(u)) \in Int
    BY <1>2, <2>1, OrderSums DEF TypeOK
  <2>4. CASE u = OwnerOf[o]
    <3>1. /\ Held(u)' = [Held(u) EXCEPT ![o] = HeldBy(row)]
          /\ Spent(u)' = [Spent(u) EXCEPT ![o] = SpentBy(row)]
      BY <1>2, <2>4 DEF Held, Spent
    <3>2. Held(u)[o] = HeldBy(order[o]) /\ Spent(u)[o] = SpentBy(order[o])
      BY <2>4 DEF Held, Spent
    <3>3. /\ HeldBy(row) \in Nat /\ SpentBy(row) \in Nat
          /\ HeldBy(order[o]) \in Nat /\ SpentBy(order[o]) \in Nat
      BY <1>1, <1>2
    <3>4. SumFunction(Held(u)') = SumFunction(Held(u)) + HeldBy(row) - HeldBy(order[o])
      <4>1. SumFunction([Held(u) EXCEPT ![o] = HeldBy(row)])
              = SumFunction(Held(u)) + HeldBy(row) - Held(u)[o]
        BY <2>1, <3>3, OrderSums
      <4>. QED  BY <3>1, <3>2, <4>1
    <3>5. SumFunction(Spent(u)') = SumFunction(Spent(u)) + SpentBy(row) - SpentBy(order[o])
      <4>1. SumFunction([Spent(u) EXCEPT ![o] = SpentBy(row)])
              = SumFunction(Spent(u)) + SpentBy(row) - Spent(u)[o]
        BY <2>1, <3>3, OrderSums
      <4>. QED  BY <3>1, <3>2, <4>1
    <3>6. /\ reserved'[u] = reserved[u] + HeldBy(row) - HeldBy(order[o])
          /\ available'[u] = available[u] + (HeldBy(order[o]) + SpentBy(order[o]))
                                         - (HeldBy(row) + SpentBy(row))
          /\ deposited'[u] = deposited[u]
      BY <2>4 DEF TypeOK
    <3>. QED  BY <2>2, <2>3, <3>3, <3>4, <3>5, <3>6
  <2>5. CASE u # OwnerOf[o]
    <3>1. Held(u)' = Held(u) /\ Spent(u)' = Spent(u)
      BY <1>2, <2>5 DEF Held, Spent
    <3>2. reserved'[u] = reserved[u] /\ available'[u] = available[u] /\ deposited'[u] = deposited[u]
      BY <2>5, <1>2 DEF TypeOK
    <3>. QED  BY <2>2, <3>1, <3>2
  <2>. QED  BY <2>4, <2>5
<1>4. \A u \in User : SumFunction(Held(u))' = SumFunction(Held(u)')
                    /\ SumFunction(Spent(u))' = SumFunction(Spent(u)')
  BY DEF SumFunction
<1>. QED  BY <1>3, <1>4 DEF Totals, ReservedBacksOpenOrders, CreditsAreConserved

\* A deposit moves the account and the recorded deposits together.
LEMMA DepositUpdate ==
    ASSUME TypeOK, Totals, NEW u \in User, NEW d \in Int,
           available' = [available EXCEPT ![u] = @ + d],
           deposited' = [deposited EXCEPT ![u] = @ + d],
           UNCHANGED <<reserved, order>>
    PROVE  Totals'
<1>1. \A v \in User : Held(v)' = Held(v) /\ Spent(v)' = Spent(v)
  BY DEF Held, Spent
<1>2. \A v \in User : SumFunction(Spent(v)) \in Int
  <2>1. \A v \in User : Spent(v) \in [OrderId -> Nat]
    BY DEF Spent, SpentBy, P!Order, TypeOK
  <2>. QED  BY <2>1, FS_Interval, SumType DEF SumFunction, OrderId
<1>3. \A v \in User : /\ SumFunction(Held(v))' = SumFunction(Held(v))
                      /\ SumFunction(Spent(v))' = SumFunction(Spent(v))
  BY <1>1
<1>4. \A v \in User :
         /\ reserved'[v] = reserved[v] /\ reserved[v] \in Int /\ available[v] \in Int
         /\ \E e \in Int : available'[v] = available[v] + e /\ deposited'[v] = deposited[v] + e
  BY DEF TypeOK
<1>. QED  BY <1>2, <1>3, <1>4 DEF Totals, ReservedBacksOpenOrders, CreditsAreConserved

\* A step that touches no row and no balance keeps both totals.
LEMMA TotalsUnchanged ==
    ASSUME Totals, UNCHANGED <<available, reserved, order, deposited>>
    PROVE  Totals'
BY DEF Totals, ReservedBacksOpenOrders, CreditsAreConserved, Held, Spent

\* The totals, one operation at a time; the writing halves of the three
\* transactions rest on the snapshot they read.
LEMMA TotalsStep ==
    ASSUME ~ReadCommitted, IInv, NEW c \in Client, Step(c)
    PROVE  Totals'
<1> USE DEF IInv
<1>a. /\ available \in [User -> Int] /\ reserved \in [User -> Nat]
      /\ order \in [OrderId -> P!Order] /\ deposited \in [User -> Int]
      /\ \A o \in OrderId : OwnerOf[o] \in User
      /\ \A a \in Amount : a \in Nat
  BY DEF TypeOK
<1>b. ASSUME NEW op \in Op, MayWrite(c, op)
      PROVE  /\ txn[c].id \in OrderId
             /\ txn[c].seen = order[txn[c].id]
             /\ order[txn[c].id] \in P!Order
             /\ order[txn[c].id].status \in (IF op = "restore" THEN {"refunded"} ELSE Open)
  <2>1. txn[c].op = op /\ ~txn[c].stale /\ ~Idle(c)
    BY <1>b DEF MayWrite, Op, Idle, NoTxn
  <2>. QED  BY <2>1, <1>a, OpenTxn DEF SnapshotsAreCurrent
<1>1. ASSUME NEW u \in User, NEW k \in GrantKey, NEW a \in Amount, GrantOnce(c, u, k, a)
      PROVE  Totals'
  <2>1. a \in Int
    BY <1>a
  <2>. QED  BY <1>1, <2>1, DepositUpdate DEF GrantOnce
<1>2. ASSUME NEW u \in User, NEW d \in Int, Adjust(c, u, d)
      PROVE  Totals'
  BY <1>2, DepositUpdate DEF Adjust
<1>3. ASSUME NEW o \in OrderId, NEW m \in P!Mode, NEW a \in Amount, Reserve(c, o, m, a)
      PROVE  Totals'
  <2> DEFINE row == [P!Blank EXCEPT !.status = "reserved", !.mode = m, !.amount = a]
  <2>1. row \in P!Order /\ HeldBy(row) = a /\ SpentBy(row) = 0
    BY <1>a DEF P!Blank, P!Order, P!Status, HeldBy, SpentBy
  <2>2. HeldBy(order[o]) = 0 /\ SpentBy(order[o]) = 0
    BY <1>3 DEF Reserve, HeldBy, SpentBy
  <2>3. /\ reserved[OwnerOf[o]] + a - 0 = reserved[OwnerOf[o]] + a
        /\ available[OwnerOf[o]] + (0 + 0) - (a + 0) = available[OwnerOf[o]] - a
    BY <1>a
  <2>4. order' = [order EXCEPT ![o] = row]
    BY <1>3 DEF Reserve
  <2> HIDE DEF row
  <2>5. /\ reserved' = [reserved EXCEPT ![OwnerOf[o]] = @ + a]
        /\ available' = [available EXCEPT ![OwnerOf[o]] = @ - a]
        /\ UNCHANGED deposited
    BY <1>3 DEF Reserve
  <2>. QED  BY <2>1, <2>2, <2>3, <2>4, <2>5, RowUpdate
<1>4. ASSUME NEW o \in OrderId, NEW m \in P!Mode, NEW a \in Amount, Reprice(c, o, m, a)
      PROVE  Totals'
  <2> DEFINE row == [order[o] EXCEPT !.mode = m, !.amount = a]
             n == order[o].amount
  <2>1. order[o] \in P!Order /\ n \in Nat /\ a \in Nat
    BY <1>a DEF P!Order
  <2>2. row \in P!Order /\ HeldBy(row) = a /\ SpentBy(row) = 0
    BY <2>1, <1>4 DEF Reprice, P!Order, HeldBy, SpentBy
  <2>3. HeldBy(order[o]) = n /\ SpentBy(order[o]) = 0
    BY <1>4 DEF Reprice, HeldBy, SpentBy
  <2>4. /\ reserved[OwnerOf[o]] + a - n = reserved[OwnerOf[o]] + (a - n)
        /\ available[OwnerOf[o]] + (n + 0) - (a + 0) = available[OwnerOf[o]] - (a - n)
    BY <1>a, <2>1
  <2>5. order' = [order EXCEPT ![o] = row]
    BY <1>4, <1>a DEF Reprice
  <2> HIDE DEF row, n
  <2>6. /\ reserved' = [reserved EXCEPT ![OwnerOf[o]] = @ + (a - n)]
        /\ available' = [available EXCEPT ![OwnerOf[o]] = @ - (a - n)]
        /\ UNCHANGED deposited
    BY <1>4 DEF Reprice, n
  <2>. QED  BY <2>2, <2>3, <2>4, <2>5, <2>6, RowUpdate
<1>5. ASSUME NEW o \in OrderId, MarkBillingRunning(c, o) \/ MarkBillingUncertain(c, o)
      PROVE  Totals'
  <2>1. PICK from \in {{"reserved"}, {"reserved", "running"}}, to \in {"running", "uncertain"} :
          Mark(c, o, from, to)
    BY <1>5 DEF MarkBillingRunning, MarkBillingUncertain
  <2> DEFINE row == [order[o] EXCEPT !.status = to]
             n == order[o].amount
  <2>2. order[o] \in P!Order /\ n \in Nat /\ order[o].status \in Open
    BY <1>a, <2>1 DEF P!Order, Mark
  <2>3. row \in P!Order /\ HeldBy(row) = n /\ SpentBy(row) = 0
    BY <2>2 DEF P!Order, P!Status, HeldBy, SpentBy
  <2>4. HeldBy(order[o]) = n /\ SpentBy(order[o]) = 0
    BY <2>2 DEF HeldBy, SpentBy
  <2>5. /\ reserved = [reserved EXCEPT ![OwnerOf[o]] = @ + n - n]
        /\ available = [available EXCEPT ![OwnerOf[o]] = @ + (n + 0) - (n + 0)]
    BY <1>a, <2>2
  <2>6. order' = [order EXCEPT ![o] = row] /\ UNCHANGED <<available, reserved, deposited>>
    BY <2>1, <1>a DEF Mark
  <2>. QED  BY <2>3, <2>4, <2>5, <2>6, RowUpdate
<1>6. ASSUME NEW o \in OrderId, NEW op \in Op, Begin(c, op, o)
      PROVE  Totals'
  BY <1>6, TotalsUnchanged DEF Begin
<1>7. ASSUME NEW a \in Amount, Settle(c, a)
      PROVE  Totals'
  <2> DEFINE o == txn[c].id
             row == [order[o] EXCEPT !.status = "settled", !.actual = a]
             n == order[o].amount
  <2>1. o \in OrderId /\ txn[c].seen = order[o] /\ order[o] \in P!Order /\ order[o].status \in Open
    BY <1>7, <1>b DEF Settle, Op
  <2>2. n \in Nat /\ a \in Nat
    BY <1>a, <2>1 DEF P!Order
  <2>3. row \in P!Order /\ HeldBy(row) = 0 /\ SpentBy(row) = a
    BY <2>1, <2>2 DEF P!Order, P!Status, HeldBy, SpentBy
  <2>4. HeldBy(order[o]) = n /\ SpentBy(order[o]) = 0
    BY <2>1 DEF HeldBy, SpentBy
  <2>5. /\ reserved[OwnerOf[o]] + 0 - n = reserved[OwnerOf[o]] - n
        /\ available[OwnerOf[o]] + (n + 0) - (0 + a) = available[OwnerOf[o]] + n - a
    BY <1>a, <2>1, <2>2
  <2>6. order' = [order EXCEPT ![o] = row]
    BY <1>7, <1>a, <2>1 DEF Settle, TakeReserved
  <2> HIDE DEF row, n
  <2>7. /\ reserved' = [reserved EXCEPT ![OwnerOf[o]] = @ - n]
        /\ available' = [available EXCEPT ![OwnerOf[o]] = @ + n - a]
        /\ UNCHANGED deposited
    BY <1>7, <2>1 DEF Settle, TakeReserved, n
  <2>. QED  BY <2>1, <2>3, <2>4, <2>5, <2>6, <2>7, RowUpdate
<1>12. ASSUME NEW a \in Amount, SettleFailed(c, a)
       PROVE  Totals'
  <2> DEFINE o == txn[c].id
             row == [order[o] EXCEPT !.actual = a]
             n == order[o].amount
  <2>1. o \in OrderId /\ order[o] \in P!Order /\ order[o].status \in Open
    BY <1>12, <1>a, OpenTxn DEF SettleFailed, Op
  <2>2. n \in Nat /\ a \in Nat
    BY <1>a, <2>1 DEF P!Order
  <2>3. row \in P!Order /\ HeldBy(row) = n /\ SpentBy(row) = 0
    BY <2>1, <2>2 DEF P!Order, P!Status, HeldBy, SpentBy
  <2>4. HeldBy(order[o]) = n /\ SpentBy(order[o]) = 0
    BY <2>1 DEF HeldBy, SpentBy
  <2>5. /\ reserved = [reserved EXCEPT ![OwnerOf[o]] = @ + n - n]
        /\ available = [available EXCEPT ![OwnerOf[o]] = @ + (n + 0) - (n + 0)]
    BY <1>a, <2>1, <2>2
  <2>6. order' = [order EXCEPT ![o] = row] /\ UNCHANGED <<available, reserved, deposited>>
    BY <1>12, <1>a, <2>1 DEF SettleFailed
  <2>. QED  BY <2>1, <2>3, <2>4, <2>5, <2>6, RowUpdate
<1>8. ASSUME NEW a \in Amount, Restore(c, a)
      PROVE  Totals'
  <2> DEFINE o == txn[c].id
             row == [order[o] EXCEPT !.status = "settled", !.actual = a]
  <2>1. o \in OrderId /\ order[o] \in P!Order /\ order[o].status = "refunded" /\ a \in Nat
    BY <1>8, <1>a, <1>b DEF Restore, Op
  <2>2. row \in P!Order /\ HeldBy(row) = 0 /\ SpentBy(row) = a
    BY <2>1 DEF P!Order, P!Status, HeldBy, SpentBy
  <2>3. HeldBy(order[o]) = 0 /\ SpentBy(order[o]) = 0
    BY <2>1 DEF HeldBy, SpentBy
  <2>4. /\ reserved = [reserved EXCEPT ![OwnerOf[o]] = @ + 0 - 0]
        /\ available[OwnerOf[o]] + (0 + 0) - (0 + a) = available[OwnerOf[o]] - a
    BY <1>a, <2>1
  <2>5. order' = [order EXCEPT ![o] = row]
    BY <1>8, <1>a, <2>1 DEF Restore
  <2> HIDE DEF row
  <2>6. /\ available' = [available EXCEPT ![OwnerOf[o]] = @ - a]
        /\ UNCHANGED <<reserved, deposited>>
    BY <1>8 DEF Restore
  <2>. QED  BY <2>1, <2>2, <2>3, <2>4, <2>5, <2>6, RowUpdate
<1>9. CASE Refund(c)
  <2> DEFINE o == txn[c].id
             row == [order[o] EXCEPT !.status = "refunded"]
             n == order[o].amount
  <2>1. o \in OrderId /\ txn[c].seen = order[o] /\ order[o] \in P!Order /\ order[o].status \in Open
    BY <1>9, <1>b DEF Refund, Op
  <2>2. n \in Nat
    BY <2>1 DEF P!Order
  <2>3. row \in P!Order /\ HeldBy(row) = 0 /\ SpentBy(row) = 0
    BY <2>1, <2>2 DEF P!Order, P!Status, HeldBy, SpentBy
  <2>4. HeldBy(order[o]) = n /\ SpentBy(order[o]) = 0
    BY <2>1 DEF HeldBy, SpentBy
  <2>5. /\ reserved[OwnerOf[o]] + 0 - n = reserved[OwnerOf[o]] - n
        /\ available[OwnerOf[o]] + (n + 0) - (0 + 0) = available[OwnerOf[o]] + n
    BY <1>a, <2>1, <2>2
  <2>6. order' = [order EXCEPT ![o] = row]
    BY <1>9, <1>a, <2>1 DEF Refund, TakeReserved
  <2> HIDE DEF row, n
  <2>7. /\ reserved' = [reserved EXCEPT ![OwnerOf[o]] = @ - n]
        /\ available' = [available EXCEPT ![OwnerOf[o]] = @ + n]
        /\ UNCHANGED deposited
    BY <1>9, <2>1 DEF Refund, TakeReserved, n
  <2>. QED  BY <2>1, <2>3, <2>4, <2>5, <2>6, <2>7, RowUpdate
<1>10. CASE Rollback(c)
  BY <1>10, TotalsUnchanged DEF Rollback
<1>11. \A a \in Amount : a \in Int /\ -a \in Int
  OBVIOUS
<1>. QED
  BY <1>1, <1>2, <1>3, <1>4, <1>5, <1>6, <1>7, <1>8, <1>9, <1>10, <1>11, <1>12 DEF Step

-----------------------------------------------------------------------------
\* On SQLite the invariant is inductive.
THEOREM LedgerInvariant == ASSUME ~ReadCommitted PROVE Spec => []IInv
<1>1. Init => IInv
  <2> SUFFICES ASSUME Init PROVE IInv
    OBVIOUS
  <2>1. TypeOK
    BY DEF Init, TypeOK, Txn, NoTxn, P!Blank, P!Order, P!Mode, P!Status
  <2>2. SnapshotsAreCurrent
    BY DEF Init, SnapshotsAreCurrent, Idle
  <2>3. Totals
    <3>1. \A u \in User : SumFunction(Held(u)) = 0 /\ SumFunction(Spent(u)) = 0
      <4> SUFFICES ASSUME NEW u \in User
                   PROVE  SumFunction(Held(u)) = 0 /\ SumFunction(Spent(u)) = 0
        OBVIOUS
      <4>1. /\ DOMAIN Held(u) = OrderId /\ DOMAIN Spent(u) = OrderId
            /\ \A o \in OrderId : Held(u)[o] = 0 /\ Spent(u)[o] = 0
        BY DEF Init, Held, Spent, HeldBy, SpentBy, P!Blank
      <4>. QED  BY <4>1, FS_Interval, SumZero DEF SumFunction, OrderId
    <3>. QED  BY <3>1 DEF Init, Totals, ReservedBacksOpenOrders, CreditsAreConserved
  <2>. QED  BY <2>1, <2>2, <2>3 DEF IInv
<1>2. IInv /\ [Next]_vars => IInv'
  <2> SUFFICES ASSUME IInv, [Next]_vars PROVE IInv'
    OBVIOUS
  <2>1. CASE Next
    BY <2>1, TypeStep, SnapshotStep, TotalsStep DEF Next, IInv
  <2>2. CASE UNCHANGED vars
    <3>1. TypeOK' /\ SnapshotsAreCurrent'
      BY <2>2 DEF vars, IInv, TypeOK, SnapshotsAreCurrent, Idle
    <3>2. Totals'
      BY <2>2, TotalsUnchanged DEF vars, IInv
    <3>. QED  BY <3>1, <3>2 DEF IInv
  <2>. QED  BY <2>1, <2>2
<1>. QED  BY <1>1, <1>2, PTL DEF Spec

\* On SQLite no schedule of settlements, refunds, restores, re-pricings and
\* deposits lets an account hold more, or less, than its open orders do.
THEOREM ReservationsAreBacked ==
    ASSUME ~ReadCommitted PROVE Spec => []ReservedBacksOpenOrders
<1>1. IInv => ReservedBacksOpenOrders
  BY DEF IInv, Totals
<1>. QED  BY <1>1, LedgerInvariant, PTL

\* On SQLite no schedule loses a credit, creates one or charges one twice.
THEOREM Conservation ==
    ASSUME ~ReadCommitted PROVE Spec => []CreditsAreConserved
<1>1. IInv => CreditsAreConserved
  BY DEF IInv, Totals
<1>. QED  BY <1>1, LedgerInvariant, PTL

-----------------------------------------------------------------------------
\* Each step of the ledger is a step of CreditPromise or changes nothing that
\* CreditPromise can see.
LEMMA PromiseStep ==
    ASSUME ~ReadCommitted, IInv, NEW c \in Client, Step(c)
    PROVE  [P!PromiseNext]_(P!promiseVars)
<1> USE DEF IInv, P!promiseVars
<1>a. /\ available \in [User -> Int] /\ order \in [OrderId -> P!Order]
      /\ \A o \in OrderId : OwnerOf[o] \in User
      /\ \A a \in Amount : a \in Nat
  BY DEF TypeOK
<1>b. ASSUME NEW op \in Op, MayWrite(c, op)
      PROVE  /\ txn[c].id \in OrderId
             /\ txn[c].seen = order[txn[c].id]
             /\ order[txn[c].id] \in P!Order
             /\ order[txn[c].id].status \in (IF op = "restore" THEN {"refunded"} ELSE Open)
  <2>1. txn[c].op = op /\ ~txn[c].stale /\ ~Idle(c)
    BY <1>b DEF MayWrite, Op, Idle, NoTxn
  <2>. QED  BY <2>1, <1>a, OpenTxn DEF SnapshotsAreCurrent
<1>1. ASSUME NEW u \in User, NEW d \in Int,
             available' = [available EXCEPT ![u] = @ + d], UNCHANGED order
      PROVE  P!PromiseNext
  <2>1. P!Deposit(u)
    BY <1>1, <1>a DEF P!Deposit
  <2>. QED  BY <2>1 DEF P!PromiseNext
<1>2. ASSUME NEW o \in OrderId, NEW m \in P!Mode, NEW a \in Amount, Reserve(c, o, m, a)
      PROVE  P!PromiseNext
  <2>1. available[OwnerOf[o]] - a = available[OwnerOf[o]] + (-a)
    BY <1>a
  <2>2. P!Place(o, m, a)
    BY <1>2, <2>1 DEF Reserve, P!Place, P!Move
  <2>. QED  BY <2>2 DEF P!PromiseNext
<1>3. ASSUME NEW o \in OrderId, NEW m \in P!Mode, NEW a \in Amount, Reprice(c, o, m, a)
      PROVE  P!PromiseNext
  <2>1. available[OwnerOf[o]] - (a - order[o].amount) = available[OwnerOf[o]] + (order[o].amount - a)
    BY <1>a DEF P!Order
  <2>2. order' = [order EXCEPT ![o] = [order[o] EXCEPT !.mode = m, !.amount = a]]
    BY <1>3, <1>a DEF Reprice
  <2>3. P!Switch(o, m, a)
    BY <1>3, <2>1, <2>2 DEF Reprice, P!Switch, P!Move
  <2>. QED  BY <2>3 DEF P!PromiseNext
<1>4. ASSUME NEW o \in OrderId, MarkBillingRunning(c, o) \/ MarkBillingUncertain(c, o)
      PROVE  P!PromiseNext
  <2>1. PICK s \in {"running", "uncertain"} : P!Progress(o, s)
    BY <1>4 DEF MarkBillingRunning, MarkBillingUncertain, Mark, P!Progress
  <2>. QED  BY <2>1 DEF P!PromiseNext, P!Status
<1>5. ASSUME NEW a \in Amount, Settle(c, a)
      PROVE  P!PromiseNext
  <2> DEFINE o == txn[c].id
  <2>1. o \in OrderId /\ txn[c].seen = order[o] /\ order[o] \in P!Order /\ order[o].status \in Open
    BY <1>5, <1>b DEF Settle, Op
  <2>2. available[OwnerOf[o]] + order[o].amount - a = available[OwnerOf[o]] + (order[o].amount - a)
    BY <1>a, <2>1 DEF P!Order
  <2>3. order' = [order EXCEPT ![o] = [order[o] EXCEPT !.status = "settled", !.actual = a]]
    BY <1>5, <1>a, <2>1 DEF Settle, TakeReserved
  <2>4. a \in P!Price(o)
    BY <1>5, <2>1 DEF Settle, Cost, P!Price
  <2>5. P!Charge(o, a)
    BY <1>5, <2>1, <2>2, <2>3, <2>4 DEF Settle, TakeReserved, P!Charge, P!Move
  <2>. QED  BY <2>1, <2>5 DEF P!PromiseNext
<1>10. ASSUME NEW a \in Amount, SettleFailed(c, a)
       PROVE  P!PromiseNext
  <2> DEFINE o == txn[c].id
  <2>1. o \in OrderId
    BY <1>10, OpenTxn DEF SettleFailed, Op
  <2>2. P!Note(o, a)
    BY <1>10, <2>1 DEF SettleFailed, P!Note
  <2>. QED  BY <2>1, <2>2 DEF P!PromiseNext
<1>6. ASSUME NEW a \in Amount, Restore(c, a)
      PROVE  P!PromiseNext
  <2> DEFINE o == txn[c].id
  <2>1. o \in OrderId /\ txn[c].seen = order[o] /\ order[o] \in P!Order /\ order[o].status = "refunded"
    BY <1>6, <1>b DEF Restore, Op
  <2>2. available[OwnerOf[o]] - a = available[OwnerOf[o]] + (-a)
    BY <1>a, <2>1
  <2>3. order' = [order EXCEPT ![o] = [order[o] EXCEPT !.status = "settled", !.actual = a]]
    BY <1>6, <1>a, <2>1 DEF Restore
  <2>4. a \in P!Price(o)
    BY <1>6, <2>1 DEF Restore, Cost, P!Price
  <2>5. P!ChargeReturned(o, a)
    BY <1>6, <2>1, <2>2, <2>3, <2>4 DEF Restore, P!ChargeReturned, P!Move
  <2>. QED  BY <2>1, <2>5 DEF P!PromiseNext
<1>7. ASSUME Refund(c)
      PROVE  P!PromiseNext
  <2> DEFINE o == txn[c].id
  <2>1. o \in OrderId /\ txn[c].seen = order[o] /\ order[o] \in P!Order /\ order[o].status \in Open
    BY <1>7, <1>b DEF Refund, Op
  <2>2. order' = [order EXCEPT ![o] = [order[o] EXCEPT !.status = "refunded"]]
    BY <1>7, <1>a, <2>1 DEF Refund, TakeReserved
  <2>3. P!Return(o)
    BY <1>7, <2>1, <2>2 DEF Refund, TakeReserved, P!Return, P!Move
  <2>. QED  BY <2>1, <2>3 DEF P!PromiseNext
<1>8. ASSUME NEW u \in User, NEW k \in GrantKey, NEW a \in Amount, GrantOnce(c, u, k, a)
      PROVE  P!PromiseNext
  <2>1. a \in Int
    BY <1>a
  <2>. QED  BY <1>1, <1>8, <2>1 DEF GrantOnce
<1>9. ASSUME NEW u \in User, NEW d \in Amount, Adjust(c, u, d) \/ Adjust(c, u, -d)
      PROVE  P!PromiseNext
  <2>1. d \in Int /\ -d \in Int
    BY <1>a
  <2>. QED  BY <1>1, <1>9, <2>1 DEF Adjust
<1>. QED
  BY <1>2, <1>3, <1>4, <1>5, <1>6, <1>7, <1>8, <1>9, <1>10 DEF Step, Begin, Rollback

\* On SQLite the ledger implements CreditPromise: seen from outside, credits
\* move in whole steps, although three operations read and write separately.
THEOREM LedgerKeepsPromise == ASSUME ~ReadCommitted PROVE Spec => KeepsPromise
<1>1. Init => P!PromiseInit
  BY DEF Init, P!PromiseInit
<1>2. IInv /\ [Next]_vars => [P!PromiseNext]_(P!promiseVars)
  <2> SUFFICES ASSUME IInv, [Next]_vars PROVE [P!PromiseNext]_(P!promiseVars)
    OBVIOUS
  <2>1. CASE Next
    BY <2>1, PromiseStep DEF Next
  <2>2. CASE UNCHANGED vars
    BY <2>2 DEF vars, P!promiseVars
  <2>. QED  BY <2>1, <2>2
<1>. QED  BY <1>1, <1>2, LedgerInvariant, PTL DEF Spec, KeepsPromise, P!Promise

\* No step of CreditPromise returns an order that was charged.
LEMMA PromiseKeepsCharges ==
    ASSUME TypeOK, [P!PromiseNext]_(P!promiseVars), NEW o \in OrderId, order[o].status = "settled"
    PROVE  order'[o].status # "refunded"
<1>a. order \in [OrderId -> P!Order]
  BY DEF TypeOK
<1>1. CASE order' = order
  BY <1>1
<1>2. ASSUME NEW q \in OrderId, q # o, NEW r, order' = [order EXCEPT ![q] = r]
      PROVE  order'[o].status # "refunded"
  BY <1>2, <1>a
<1>3. ASSUME NEW q \in OrderId, NEW m \in P!Mode, NEW a \in Amount, P!Place(q, m, a)
      PROVE  order'[o].status # "refunded"
  <2>1. q # o
    BY <1>3 DEF P!Place
  <2>. QED  BY <1>2, <1>3, <2>1 DEF P!Place, P!Move
<1>4. ASSUME NEW q \in OrderId, NEW m \in P!Mode, NEW a \in Amount, P!Switch(q, m, a)
      PROVE  order'[o].status # "refunded"
  <2>1. q # o
    BY <1>4 DEF P!Switch
  <2>. QED  BY <1>2, <1>4, <2>1 DEF P!Switch, P!Move
<1>5. ASSUME NEW q \in OrderId, NEW s \in P!Status, P!Progress(q, s)
      PROVE  order'[o].status # "refunded"
  <2>1. q # o
    BY <1>5 DEF P!Progress
  <2>. QED  BY <1>5, <2>1, <1>a DEF P!Progress
<1>9. ASSUME NEW q \in OrderId, NEW a \in Amount, P!Note(q, a)
      PROVE  order'[o].status # "refunded"
  <2>1. q # o
    BY <1>9 DEF P!Note
  <2>. QED  BY <1>9, <2>1, <1>a DEF P!Note
<1>6. ASSUME NEW q \in OrderId, NEW a \in Amount, P!Charge(q, a)
      PROVE  order'[o].status # "refunded"
  <2>1. q # o
    BY <1>6 DEF P!Charge
  <2>. QED  BY <1>2, <1>6, <2>1 DEF P!Charge, P!Move
<1>7. ASSUME NEW q \in OrderId, NEW a \in Amount, P!ChargeReturned(q, a)
      PROVE  order'[o].status # "refunded"
  <2>1. q # o
    BY <1>7 DEF P!ChargeReturned
  <2>. QED  BY <1>2, <1>7, <2>1 DEF P!ChargeReturned, P!Move
<1>8. ASSUME NEW q \in OrderId, P!Return(q)
      PROVE  order'[o].status # "refunded"
  <2>1. q # o
    BY <1>8 DEF P!Return
  <2>. QED  BY <1>2, <1>8, <2>1 DEF P!Return, P!Move
<1>. QED
  BY <1>1, <1>3, <1>4, <1>5, <1>6, <1>7, <1>8, <1>9 DEF P!PromiseNext, P!promiseVars, P!Deposit

\* On SQLite a settled order is never refunded, whatever overlaps
\* (RefundBillingOrder's message asks for a manual refund instead).
THEOREM SettlementsAreFinal ==
    ASSUME ~ReadCommitted PROVE Spec => SettledIsNotRefunded
<1>1. IInv /\ [Next]_vars =>
        [\A o \in OrderId : order[o].status = "settled" => order'[o].status # "refunded"]_vars
  <2> SUFFICES ASSUME IInv, Next, NEW o \in OrderId, order[o].status = "settled"
               PROVE  order'[o].status # "refunded"
    OBVIOUS
  <2>1. PICK c \in Client : Step(c)
    BY DEF Next
  <2>2. TypeOK
    BY DEF IInv
  <2>. QED  BY <2>1, <2>2, PromiseStep, PromiseKeepsCharges
<1>. QED  BY <1>1, LedgerInvariant, PTL DEF Spec, SettledIsNotRefunded
=============================================================================
