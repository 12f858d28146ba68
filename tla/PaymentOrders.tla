---------------------------- MODULE PaymentOrders ----------------------------
(***************************************************************************)
(* Top-up orders and what makes a payment become credits                   *)
(* (backend/internal/app/payment.go, payment_reconciliation.go and         *)
(* repository/payment.go).                                                 *)
(*                                                                         *)
(* Requests of users and administrators, notifications of the payment      *)
(* provider and three worker loops work on the same order row.  Each call  *)
(* of the provider is made without a lock: its answer may be old when it   *)
(* is applied, its effect may happen although the call fails, and the      *)
(* process may die at any step.                                            *)
(***************************************************************************)
EXTENDS Naturals, FiniteSets

CONSTANTS
    Order,        \* user and idempotency key of an order
    Api,          \* request handlers that can be at work at the same time
    Inbox,        \* the loop of drainPaymentNotifications
    Closer,       \* the loop of reconcileExpiredPaymentOrders and of
                  \* queryPendingPaymentOrders
    Auditor,      \* the loop of maybeRunDailyPaymentReconciliation
    MaxAttempts,  \* attempts of a notification (20 in the code)
    MaxFaults     \* bound: failed calls, lost notifications and crashes

Actor == Api \cup {Inbox, Closer, Auditor}

ASSUME PaymentAssumption ==
    /\ Order # {} /\ Cardinality(Actor) = Cardinality(Api) + 3
    /\ MaxAttempts \in Nat \ {0} /\ MaxFaults \in Nat

VARIABLES
    order,    \* the row: status, checkout mode, whether it has expired,
              \* whether a checkout has been shown
    granted,  \* times the order's credits were added to the account
    inbox,    \* the verified notification of the order: status and attempts
    run,      \* the reconciliation run of the day the order was paid
    call,     \* what each actor is doing
    trade,    \* the provider's trade of the order
    notice,   \* the provider's notification of the payment
    faults

rows == <<order, granted, inbox, run>>
provider == <<trade, notice>>
vars == <<rows, call, provider, faults>>

-----------------------------------------------------------------------------

Status == {"absent", "created", "pending", "closing", "closed", "credited",
           "create_failed"}
Unpaid == {"created", "pending", "create_failed"}
\* The trade exists at the provider once it was created there (a QR code) or
\* once the user has opened the page (a redirect, which only signs a URL).
Mode == {"qr_code", "redirect"}
Trade == {"none", "open", "paid", "closed"}
Answer == {"not_found", "unpaid", "paid", "closed", "error"}

OrderRow == [status : Status, mode : Mode, expired : BOOLEAN, shown : BOOLEAN]
InboxRow == [status : {"none", "pending", "failed", "processed"},
             attempts : Nat]
RunRow == {"none", "running", "completed", "failed"}

Step == {"idle", "submit", "publish", "ask", "apply", "close", "mark",
         "recheck", "reapply", "process", "ack", "confirm", "credit", "report"}
Purpose == {"", "create", "refresh", "query", "close", "expire", "notify", "drain",
            "reconcile"}
Call == [does : Purpose, order : Order, step : Step, answer : Answer,
         unknown : BOOLEAN]   \* the provider has not found the order so far

Starting(does, o, step) ==
    [does |-> does, order |-> o, step |-> step, answer |-> "error", unknown |-> FALSE]

NoCall == Starting("", CHOOSE o \in Order : TRUE, "idle")

Idle(a) == call[a].step = "idle"
Start(a, does, o, step) == call' = [call EXCEPT ![a] = Starting(does, o, step)]
GoTo(a, step) == call' = [call EXCEPT ![a].step = step]
Done(a) == call' = [call EXCEPT ![a] = NoCall]

\* A call fails, a notification is lost or a process dies.
Fault == faults < MaxFaults /\ faults' = faults + 1

Init ==
    /\ \E mode \in [Order -> Mode] :
         order = [o \in Order |-> [status |-> "absent", mode |-> mode[o],
                                   expired |-> FALSE, shown |-> FALSE]]
    /\ granted = [o \in Order |-> 0]
    /\ inbox = [o \in Order |-> [status |-> "none", attempts |-> 0]]
    /\ run = [o \in Order |-> "none"]
    /\ call = [a \in Actor |-> NoCall]
    /\ trade = [o \in Order |-> "none"] /\ notice = [o \in Order |-> "none"]
    /\ faults = 0

-----------------------------------------------------------------------------
(* The statements of the repository, each one transaction                  *)

SetStatus(o, from, to) ==
    order' = IF order[o].status \in from THEN [order EXCEPT ![o].status = to] ELSE order

SetPaymentOrderCreateFailure(o) == SetStatus(o, {"created"}, "create_failed")
\* Fault: the row is closed whatever it says by now.
MarkClosedAnyway(o) == order' = [order EXCEPT ![o].status = "closed"]

MarkPaymentOrderClosed(o) == SetStatus(o, Unpaid \cup {"closing"}, "closed")
RestoreClosingPaymentOrder(o) == SetStatus(o, {"closing"}, "pending")

\* Fault: neither the status nor the ledger's key is looked at.
CompleteAnyway(o) ==
    /\ order' = [order EXCEPT ![o].status = "credited"]
    /\ granted' = [granted EXCEPT ![o] = @ + 1]

\* Fault: an order that was closed is taken for final.
CompleteUnlessClosed(o) ==
    IF order[o].status \notin {"credited", "closed"} /\ granted[o] = 0
    THEN CompleteAnyway(o) ELSE UNCHANGED <<order, granted>>

\* A credited order is left alone, whatever state it is in otherwise; the
\* ledger entry's unique key refuses a second grant.
CompletePaymentOrder(o) ==
    IF order[o].status # "credited" /\ granted[o] = 0
    THEN /\ order' = [order EXCEPT ![o].status = "credited"]
         /\ granted' = [granted EXCEPT ![o] = @ + 1]
    ELSE UNCHANGED <<order, granted>>

-----------------------------------------------------------------------------
(* Requests                                                                *)

\* A repeated request with the same key finds the order and changes nothing.
CreateOrder(a, o) ==
    /\ Idle(a) /\ order[o].status = "absent"
    /\ order' = [order EXCEPT ![o].status = "created"]
    /\ Start(a, "create", o, "submit")
    /\ UNCHANGED <<granted, inbox, run, provider, faults>>

RefreshCheckout(a, o) ==
    /\ Idle(a)
    /\ order[o].status \in {"pending", "create_failed"} /\ ~order[o].expired
    /\ Start(a, "refresh", o, "ask")
    /\ UNCHANGED <<rows, provider, faults>>

\* QueryPaymentOrder, ClosePaymentOrder and those of the administrator.
Request(a, o) ==
    /\ Idle(a)
    /\ order[o].status \in Unpaid \cup {"closing"}
    /\ \E does \in {"query", "close"} : Start(a, does, o, "ask")
    /\ UNCHANGED <<rows, provider, faults>>

\* Only a new order remembers that its checkout failed.
GiveUp(a) ==
    /\ IF call[a].does = "create" THEN SetPaymentOrderCreateFailure(call[a].order)
       ELSE UNCHANGED order
    /\ Done(a)

\* provider.CreateOrder.  A redirect is signed without a call; a QR code needs
\* a trade that is not over yet, and a failed call may have opened it.
Opened(o) == trade' = [trade EXCEPT ![o] = IF @ = "none" THEN "open" ELSE @]

Submit(a) ==
    LET o == call[a].order
        code == order[o].mode = "qr_code"
    IN
    /\ call[a].step = "submit"
    /\ \/ /\ code => trade[o] \in {"none", "open"}
          /\ IF code THEN Opened(o) ELSE UNCHANGED trade
          /\ GoTo(a, "publish") /\ UNCHANGED <<order, faults>>
       \/ /\ \/ code /\ trade[o] \in {"paid", "closed"} /\ UNCHANGED <<trade, faults>>
             \/ Fault /\ (UNCHANGED trade \/ (code /\ Opened(o)))
          /\ GiveUp(a)
    /\ UNCHANGED <<granted, inbox, run, notice>>

\* SetPaymentOrderCheckout; a conflict ends the request with an error.
Publish(a) ==
    LET o == call[a].order IN
    /\ call[a].step = "publish"
    /\ \/ /\ order' = IF order[o].status \in Unpaid
                      THEN [order EXCEPT ![o].status = "pending", ![o].shown = TRUE]
                      ELSE order
          /\ Done(a) /\ UNCHANGED faults
       \/ Fault /\ GiveUp(a)
    /\ UNCHANGED <<granted, inbox, run, provider>>

-----------------------------------------------------------------------------
(* queryPaymentOrder and closePaymentOrder                                 *)

\* Fault: an order left in closing is not claimed again.
ClaimExpiredOnce(o) ==
    /\ Idle(Closer)
    /\ order[o].status \in Unpaid /\ order[o].expired
    /\ order' = [order EXCEPT ![o].status = "closing"]
    /\ Start(Closer, "expire", o, "ask")
    /\ UNCHANGED <<granted, inbox, run, provider, faults>>

\* ClaimExpiredPaymentOrders; an order left in closing is claimed again after
\* two minutes.
ClaimExpired(o) ==
    /\ Idle(Closer)
    /\ \/ order[o].status \in Unpaid /\ order[o].expired
       \/ order[o].status = "closing"
    /\ order' = [order EXCEPT ![o].status = "closing"]
    /\ Start(Closer, "expire", o, "ask")
    /\ UNCHANGED <<granted, inbox, run, provider, faults>>

\* queryPendingPaymentOrders
Poll(o) ==
    /\ Idle(Closer)
    /\ order[o].status \in Unpaid
    /\ Start(Closer, "query", o, "ask")
    /\ UNCHANGED <<rows, provider, faults>>

AnswerOf(o) == CASE trade[o] = "none" -> "not_found"
                 [] trade[o] = "open" -> "unpaid"
                 [] OTHER -> trade[o]

\* provider.QueryOrder, the first time and after a failed CloseOrder.
Ask(a) ==
    LET next == IF call[a].step = "ask" THEN "apply" ELSE "reapply" IN
    /\ call[a].step \in {"ask", "recheck"}
    /\ \/ /\ call' = [call EXCEPT ![a].step = next, ![a].answer = AnswerOf(call[a].order)]
          /\ UNCHANGED faults
       \/ /\ Fault
          /\ call' = [call EXCEPT ![a].step = next, ![a].answer = "error"]
    /\ UNCHANGED <<rows, provider>>

Closes(a) == call[a].does \in {"close", "expire"}

\* The request ends with an error; the loop puts its claim back.
Fail(a) ==
    /\ Done(a)
    /\ IF call[a].does = "expire" THEN RestoreClosingPaymentOrder(call[a].order)
       ELSE UNCHANGED order
    /\ UNCHANGED granted

\* applyPaymentResult of a paid or closed trade ends the call.
ApplyFinal(a) ==
    \/ call[a].answer = "paid" /\ CompletePaymentOrder(call[a].order) /\ Done(a)
    \/ call[a].answer = "closed" /\ MarkPaymentOrderClosed(call[a].order) /\ Done(a)
       /\ UNCHANGED granted

Apply(a) ==
    /\ call[a].step = "apply"
    /\ \/ ApplyFinal(a) /\ UNCHANGED faults
       \/ call[a].answer \in {"paid", "closed"} /\ Fault /\ Fail(a)
       \/ call[a].answer = "error" /\ Fail(a) /\ UNCHANGED faults
       \/ /\ call[a].answer \in {"not_found", "unpaid"}
          /\ CASE Closes(a) -> call' = [call EXCEPT ![a].step = "close",
                                  ![a].unknown = call[a].answer = "not_found"]
               [] call[a].does = "refresh" -> GoTo(a, "submit")
               [] OTHER -> Done(a)
          /\ UNCHANGED <<order, granted, faults>>
    /\ UNCHANGED <<inbox, run, provider>>

\* provider.CloseOrder: it refuses a paid trade and one it does not know; a
\* failed call may have closed the trade.
CloseTrade(a) ==
    LET o == call[a].order IN
    /\ call[a].step = "close"
    /\ \/ /\ trade[o] \in {"open", "closed"}
          /\ trade' = [trade EXCEPT ![o] = "closed"]
          /\ GoTo(a, "mark") /\ UNCHANGED faults
       \/ /\ trade[o] = "none" /\ GoTo(a, "recheck") /\ UNCHANGED <<trade, faults>>
       \/ /\ \/ trade[o] = "paid" /\ UNCHANGED <<trade, faults>>
             \/ /\ Fault
                /\ \/ UNCHANGED trade
                   \/ trade[o] = "open" /\ trade' = [trade EXCEPT ![o] = "closed"]
          /\ call' = [call EXCEPT ![a].step = "recheck", ![a].unknown = FALSE]
    /\ UNCHANGED <<rows, notice>>

Mark(a) ==
    /\ call[a].step = "mark"
    /\ \/ MarkPaymentOrderClosed(call[a].order) /\ Done(a) /\ UNCHANGED <<granted, faults>>
       \/ Fault /\ Fail(a)
    /\ UNCHANGED <<inbox, run, provider>>

\* An order that the provider did not know in all three calls is closed.
Reapply(a) ==
    /\ call[a].step = "reapply"
    /\ \/ ApplyFinal(a) /\ UNCHANGED faults
       \/ call[a].answer \in {"paid", "closed"} /\ Fault /\ Fail(a)
       \/ /\ call[a].answer = "not_found" /\ call[a].unknown
          /\ MarkPaymentOrderClosed(call[a].order) /\ Done(a) /\ UNCHANGED <<granted, faults>>
       \/ /\ \/ call[a].answer \in {"unpaid", "error"}
             \/ call[a].answer = "not_found" /\ ~call[a].unknown
          /\ Fail(a) /\ UNCHANGED faults
    /\ UNCHANGED <<inbox, run, provider>>

-----------------------------------------------------------------------------
(* Notifications                                                           *)

\* AcceptPaymentNotification: the row is stored once per event and a repeated
\* delivery is only acknowledged.  Whether the acknowledgement arrives is up to
\* the network: the provider delivers again until it does.
Deliver(a, o) ==
    /\ Idle(a) /\ notice[o] = "due"
    /\ \E heard \in {"due", "heard"} : notice' = [notice EXCEPT ![o] = heard]
    /\ IF inbox[o].status = "none"
       THEN inbox' = [inbox EXCEPT ![o].status = "pending"] /\ Start(a, "notify", o, "process")
       ELSE UNCHANGED <<inbox, call>>
    /\ UNCHANGED <<order, granted, run, trade, faults>>

\* drainPaymentNotifications reads the rows it works on without claiming them.
Drain(o) ==
    /\ Idle(Inbox)
    /\ inbox[o].status \in {"pending", "failed"} /\ inbox[o].attempts < MaxAttempts
    /\ Start(Inbox, "drain", o, "process")
    /\ UNCHANGED <<rows, provider, faults>>

\* Both write the row by its id alone, whatever it says by now.
CompletePaymentNotification(o) == inbox' = [inbox EXCEPT ![o].status = "processed"]
RetryPaymentNotification(o) ==
    inbox' = [inbox EXCEPT ![o] = [status |-> "failed", attempts |-> @.attempts + 1]]

\* Fault: the error of the credit is dropped.
ProcessCarelessly(a) ==
    /\ call[a].step = "process"
    /\ GoTo(a, "ack")
    /\ \/ CompletePaymentOrder(call[a].order) /\ UNCHANGED faults
       \/ Fault /\ UNCHANGED <<order, granted>>
    /\ UNCHANGED <<inbox, run, provider>>

\* processPaymentNotification: the order, then the row of the notification.
Process(a) ==
    LET o == call[a].order IN
    /\ call[a].step = "process"
    /\ \/ CompletePaymentOrder(o) /\ GoTo(a, "ack") /\ UNCHANGED <<inbox, faults>>
       \/ Fault /\ RetryPaymentNotification(o) /\ Done(a) /\ UNCHANGED <<order, granted>>
    /\ UNCHANGED <<run, provider>>

Ack(a) ==
    /\ call[a].step = "ack"
    /\ Done(a)
    /\ \/ CompletePaymentNotification(call[a].order) /\ UNCHANGED faults
       \/ Fault /\ RetryPaymentNotification(call[a].order)
    /\ UNCHANGED <<order, granted, run, provider>>

-----------------------------------------------------------------------------
(* Reconciliation with the bill of the day on which an order was paid      *)

\* BeginPaymentReconciliation.  A run that says running is taken over when it
\* has not been written for half an hour, so it may still be at work; the daily
\* loop leaves a completed run alone, an administrator may repeat it.
BeginRun(a, o) ==
    /\ Idle(a) /\ a \in Api \cup {Auditor} /\ trade[o] = "paid"
    /\ a = Auditor => run[o] # "completed"
    /\ run' = [run EXCEPT ![o] = "running"]
    /\ Start(a, "reconcile", o, "confirm")
    /\ UNCHANGED <<order, granted, inbox, provider, faults>>

\* DownloadTradeBill fails the run; otherwise the bill names the order, and
\* comparePaymentReconciliation asks the provider before it credits it.
Confirm(a) ==
    LET o == call[a].order IN
    /\ call[a].step = "confirm"
    /\ \/ /\ GoTo(a, IF order[o].status = "credited" THEN "report" ELSE "credit")
          /\ UNCHANGED <<run, faults>>
       \/ Fault /\ GoTo(a, "report") /\ UNCHANGED run
       \/ Fault /\ run' = [run EXCEPT ![o] = "failed"] /\ Done(a)
    /\ UNCHANGED <<order, granted, inbox, provider>>

\* An order that could not be credited is an item of the report.
Credit(a) ==
    /\ call[a].step = "credit"
    /\ \/ CompletePaymentOrder(call[a].order) /\ UNCHANGED faults
       \/ Fault /\ UNCHANGED <<order, granted>>
    /\ GoTo(a, "report")
    /\ UNCHANGED <<inbox, run, provider>>

\* CompletePaymentReconciliation, and FailPaymentReconciliation if the run is
\* no longer running or the statement fails.
Report(a) ==
    LET o == call[a].order IN
    /\ call[a].step = "report"
    /\ \/ /\ run' = [run EXCEPT ![o] = IF @ = "running" THEN "completed" ELSE "failed"]
          /\ UNCHANGED faults
       \/ Fault /\ run' = [run EXCEPT ![o] = "failed"]
    /\ Done(a)
    /\ UNCHANGED <<order, granted, inbox, provider>>

-----------------------------------------------------------------------------
(* The user, the provider and time                                         *)

\* A code that was scanned and a page that was opened can be paid as long as
\* the provider has not closed the trade, whatever the row says.  The signed URL
\* of a redirect opens the trade by itself and carries no expiry.
UserPays(o) ==
    /\ order[o].shown
    /\ \/ trade[o] = "open"
       \/ order[o].mode = "redirect" /\ trade[o] = "none"
    /\ trade' = [trade EXCEPT ![o] = "paid"] /\ notice' = [notice EXCEPT ![o] = "due"]
    /\ UNCHANGED <<rows, call, faults>>

UserOpensPage(o) ==
    /\ order[o].shown /\ order[o].mode = "redirect" /\ trade[o] = "none"
    /\ trade' = [trade EXCEPT ![o] = "open"]
    /\ UNCHANGED <<rows, call, notice, faults>>

Expire(o) ==
    /\ order[o].status # "absent" /\ ~order[o].expired
    /\ order' = [order EXCEPT ![o].expired = TRUE]
    /\ UNCHANGED <<granted, inbox, run, call, provider, faults>>

ProviderCloses(o) ==
    /\ trade[o] = "open" /\ order[o].expired
    /\ trade' = [trade EXCEPT ![o] = "closed"]
    /\ UNCHANGED <<rows, call, notice, faults>>

\* The provider gives up: the address it notifies was never reachable.
LoseNotice(o) ==
    /\ notice[o] = "due" /\ Fault
    /\ notice' = [notice EXCEPT ![o] = "lost"]
    /\ UNCHANGED <<rows, call, trade>>

\* The process dies with everything it was doing.
Crash ==
    /\ Fault
    /\ call' = [a \in Actor |-> NoCall]
    /\ UNCHANGED <<rows, provider>>

-----------------------------------------------------------------------------

Continue(a) ==
    \/ Submit(a) \/ Publish(a)
    \/ Ask(a) \/ Apply(a) \/ CloseTrade(a) \/ Mark(a) \/ Reapply(a)
    \/ Process(a) \/ Ack(a)
    \/ Confirm(a) \/ Credit(a) \/ Report(a)

HandleRequest(a, o) ==
    \/ CreateOrder(a, o) \/ RefreshCheckout(a, o) \/ Request(a, o) \/ Deliver(a, o)

Loop(o) == ClaimExpired(o) \/ Poll(o) \/ Drain(o)

Outside(o) ==
    \/ UserPays(o) \/ UserOpensPage(o) \/ Expire(o) \/ ProviderCloses(o) \/ LoseNotice(o)

Next ==
    \/ \E a \in Actor : Continue(a)
    \/ \E a \in Api, o \in Order : HandleRequest(a, o)
    \/ \E a \in Api \cup {Auditor}, o \in Order : BeginRun(a, o)
    \/ \E o \in Order : Loop(o) \/ Outside(o)
    \/ Crash

\* A call that was started goes on (every call of a provider has a timeout), each
\* tick of a loop takes up what it finds, and the provider repeats a notification
\* that was not acknowledged; nobody has to pay, to ask or to close.
Fairness ==
    /\ \A a \in Actor : WF_vars(Continue(a))
    /\ \A o \in Order :
         /\ SF_vars(ClaimExpired(o)) /\ SF_vars(Poll(o)) /\ SF_vars(Drain(o))
         /\ SF_vars(BeginRun(Auditor, o))
         /\ SF_vars(\E a \in Api : Deliver(a, o))
         /\ WF_vars(Expire(o))

Spec == Init /\ [][Next]_vars /\ Fairness

-----------------------------------------------------------------------------
(* Properties                                                              *)

\* Every variable keeps its type; in particular no counter leaves its range.
TypeOK ==
    /\ order \in [Order -> OrderRow]
    /\ granted \in [Order -> 0 .. 1]
    /\ inbox \in [Order -> InboxRow]
    /\ run \in [Order -> RunRow]
    /\ call \in [Actor -> Call]
    /\ trade \in [Order -> Trade]
    /\ notice \in [Order -> {"none", "due", "heard", "lost"}]
    /\ faults \in 0 .. MaxFaults

\* The order row and the account never disagree: whoever races with the credit
\* (a close, a failed create, a restored claim) leaves a credited order alone.
CreditedMeansGranted ==
    \A o \in Order : order[o].status = "credited" <=> granted[o] = 1

\* A notification is only written off when the order has its credits, although
\* two processes may work on it and write it without a condition.
ProcessedMeansCredited ==
    \A o \in Order : inbox[o].status = "processed" => granted[o] = 1

\* An order that has expired ends: no claim, crash or failed call leaves it in
\* closing or in pending for good.
ExpiredOrdersEnd ==
    \A o \in Order : order[o].expired ~> order[o].status \in {"closed", "credited"}

\* What users are promised: only a paid order is credited, once, and a paid one
\* is credited in the end, although its row may have been closed before.
Promise == INSTANCE TopupPromise WITH
    paid <- {o \in Order : trade[o] = "paid"}, credited <- granted

KeepsTopupPromise == Promise!PromiseSpec

=============================================================================
