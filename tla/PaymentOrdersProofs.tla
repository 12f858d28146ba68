------------------------ MODULE PaymentOrdersProofs -------------------------
(***************************************************************************)
(* Proofs about PaymentOrders for any orders, actors and numbers of faults.*)
(*                                                                         *)
(* That credits are granted once and only for money is not inductive: an   *)
(* actor credits what an answer, a notification or a bill told it some     *)
(* steps ago.  The strengthening says that each of these stays true.       *)
(***************************************************************************)
EXTENDS PaymentOrders, TLAPS

USE PaymentAssumption

\* Who was told of a payment is right, and an acknowledgement comes last.
Told(c) == \/ c.step \in {"apply", "reapply"} /\ c.answer = "paid"
           \/ c.step \in {"process", "ack", "confirm", "credit", "report"}

CallsAreTrue ==
    \A a \in Actor : /\ Told(call[a]) => trade[call[a].order] = "paid"
                     /\ call[a].step = "ack" => granted[call[a].order] = 1

NoticesAreTrue ==
    \A o \in Order : notice[o] # "none" \/ inbox[o].status # "none" \/ granted[o] = 1
                        => trade[o] = "paid"

IInv == TypeOK /\ CreditedMeansGranted /\ ProcessedMeansCredited
        /\ CallsAreTrue /\ NoticesAreTrue

-----------------------------------------------------------------------------
(* The calls of the actors                                                 *)

LEMMA StartType ==
    ASSUME TypeOK, NEW a \in Actor, NEW o \in Order, NEW does \in Purpose,
           NEW step \in Step, Start(a, does, o, step), step # "ack"
    PROVE  /\ call' \in [Actor -> Call]
           /\ call'[a].order = o /\ call'[a].step # "ack"
           /\ Told(call'[a]) => step \in {"process", "confirm", "credit", "report"}
           /\ \A b \in Actor : b # a => call'[b] = call[b]
<1>1. Starting(does, o, step) \in Call
  BY DEF Starting, Call, Answer
<1>2. call' = [call EXCEPT ![a] = Starting(does, o, step)]
  BY DEF Start
<1>3. call' \in [Actor -> Call] /\ call'[a] = Starting(does, o, step)
      /\ \A b \in Actor : b # a => call'[b] = call[b]
  BY <1>1, <1>2 DEF TypeOK
<1>. QED  BY <1>3 DEF Starting, Told

LEMMA IdleType == NoCall \in Call
BY DEF NoCall, Starting, Call, Purpose, Step, Answer

LEMMA DoneType ==
    ASSUME TypeOK, NEW a \in Actor, Done(a)
    PROVE  /\ call' \in [Actor -> Call]
           /\ ~Told(call'[a]) /\ call'[a].step # "ack"
           /\ \A b \in Actor : b # a => call'[b] = call[b]
BY IdleType DEF TypeOK, Done, Told, NoCall, Starting

LEMMA GoToType ==
    ASSUME TypeOK, NEW a \in Actor, NEW step \in Step, GoTo(a, step)
    PROVE  /\ call' \in [Actor -> Call]
           /\ call'[a].step = step /\ call'[a].order = call[a].order
           /\ call'[a].answer = call[a].answer
           /\ \A b \in Actor : b # a => call'[b] = call[b]
BY DEF TypeOK, GoTo, Call

-----------------------------------------------------------------------------
(* The statements of the repository                                        *)

\* What every statement does to order o: the row and the account stay in step,
\* and the account gains at most what was not granted yet.
Statement(o) ==
    /\ order' \in [Order -> OrderRow]
    /\ granted' \in [Order -> 0 .. 1]
    /\ CreditedMeansGranted'
    /\ \/ granted' = granted
       \/ granted[o] = 0 /\ granted' = [granted EXCEPT ![o] = 1]

LEMMA OtherStatements ==
    ASSUME TypeOK, CreditedMeansGranted, NEW o \in Order, UNCHANGED granted,
           \/ SetPaymentOrderCreateFailure(o)
           \/ MarkPaymentOrderClosed(o)
           \/ RestoreClosingPaymentOrder(o)
           \/ UNCHANGED order
    PROVE  Statement(o)
<1>2. ASSUME NEW from, NEW to \in Status, "credited" \notin from, to # "credited",
             SetStatus(o, from, to)
      PROVE  Statement(o)
  <2>1. CASE order[o].status \in from
    <3>1. order' = [order EXCEPT ![o].status = to]
      BY <2>1, <1>2 DEF SetStatus
    <3>2. order' \in [Order -> OrderRow]
      BY <3>1, <1>2 DEF TypeOK, OrderRow
    <3>3. order[o].status # "credited" /\ order'[o].status # "credited"
      BY <3>1, <2>1, <1>2 DEF TypeOK, OrderRow
    <3>4. CreditedMeansGranted'
      BY <3>1, <3>3 DEF CreditedMeansGranted, TypeOK
    <3>. QED  BY <3>2, <3>4 DEF Statement, TypeOK
  <2>2. CASE order[o].status \notin from
    BY <2>2, <1>2 DEF SetStatus, Statement, TypeOK, CreditedMeansGranted
  <2>. QED  BY <2>1, <2>2
<1>3. CASE SetPaymentOrderCreateFailure(o)
  BY <1>2, <1>3 DEF SetPaymentOrderCreateFailure, Status
<1>4. CASE MarkPaymentOrderClosed(o)
  BY <1>2, <1>4 DEF MarkPaymentOrderClosed, Status, Unpaid
<1>5. CASE RestoreClosingPaymentOrder(o)
  BY <1>2, <1>5 DEF RestoreClosingPaymentOrder, Status
<1>6. CASE UNCHANGED order
  BY <1>6 DEF Statement, TypeOK, CreditedMeansGranted
<1>. QED  BY <1>3, <1>4, <1>5, <1>6

LEMMA CompleteStatement ==
    ASSUME TypeOK, CreditedMeansGranted, NEW o \in Order, CompletePaymentOrder(o)
    PROVE  Statement(o) /\ granted'[o] = 1
<1>1. CASE order[o].status # "credited" /\ granted[o] = 0
  <2>1. /\ order' = [order EXCEPT ![o].status = "credited"]
        /\ granted' = [granted EXCEPT ![o] = @ + 1]
    BY <1>1 DEF CompletePaymentOrder
  <2>2. granted' = [granted EXCEPT ![o] = 1] /\ granted' \in [Order -> 0 .. 1]
    BY <1>1, <2>1 DEF TypeOK
  <2>3. order' \in [Order -> OrderRow]
    BY <2>1 DEF TypeOK, OrderRow, Status
  <2>4. CreditedMeansGranted'
    BY <2>1, <2>2 DEF CreditedMeansGranted, TypeOK
  <2>. QED  BY <1>1, <2>2, <2>3, <2>4 DEF Statement, TypeOK
<1>2. CASE ~(order[o].status # "credited" /\ granted[o] = 0)
  BY <1>2 DEF CompletePaymentOrder, Statement, TypeOK, CreditedMeansGranted
<1>. QED  BY <1>1, <1>2

-----------------------------------------------------------------------------
(* One step of one actor.  What an action has to show: whom it told of a    *)
(* payment, and that it credits only a paid order.                          *)

LEMMA FaultType == ASSUME TypeOK, Fault \/ UNCHANGED faults PROVE faults' \in 0 .. MaxFaults
BY DEF TypeOK, Fault

Paid(o) == trade[o] = "paid"

LEMMA CreditStep ==
    ASSUME TypeOK, NEW o \in Order, Statement(o), granted'[o] = 1 => Paid(o),
           \A p \in Order : trade[p] = "paid" <=> trade'[p] = "paid"
    PROVE  UNCHANGED Promise!promised \/ Promise!CreditOrder(o)
<1>1. {p \in Order : trade'[p] = "paid"} = {p \in Order : trade[p] = "paid"}
  OBVIOUS
<1>2. CASE granted' = granted
  BY <1>1, <1>2 DEF Promise!promised
<1>3. CASE granted[o] = 0 /\ granted' = [granted EXCEPT ![o] = 1]
  <2>1. o \in {p \in Order : trade[p] = "paid"}
    BY <1>3 DEF Paid, TypeOK
  <2>. QED  BY <1>1, <1>3, <2>1 DEF Promise!CreditOrder
<1>. QED  BY <1>2, <1>3 DEF Statement

LEMMA ActorStep ==
    ASSUME IInv, NEW a \in Actor, NEW o \in Order,
           Statement(o), granted'[o] = 1 => Paid(o),
           call' \in [Actor -> Call], \A b \in Actor : b # a => call'[b] = call[b],
           Told(call'[a]) => Paid(call'[a].order),
           call'[a].step = "ack" => granted'[call'[a].order] = 1,
           inbox' \in [Order -> InboxRow], run' \in [Order -> RunRow],
           trade' \in [Order -> Trade], notice' \in [Order -> {"none", "due", "heard", "lost"}],
           \A p \in Order : trade[p] = "paid" <=> trade'[p] = "paid",
           \A p \in Order : notice'[p] # "none" \/ inbox'[p].status # "none" => Paid(p),
           \A p \in Order : inbox'[p].status = "processed" => granted'[p] = 1,
           Fault \/ UNCHANGED faults
    PROVE  IInv' /\ (UNCHANGED Promise!promised \/ Promise!CreditOrder(o))
<1>1. TypeOK'
  BY FaultType DEF IInv, TypeOK, Statement
<1>2. CreditedMeansGranted' /\ ProcessedMeansCredited'
  BY DEF Statement, ProcessedMeansCredited
<1>3. \A p \in Order : granted[p] = 1 => granted'[p] = 1
  BY DEF Statement, IInv, TypeOK
<1>4. CallsAreTrue'
  <2> SUFFICES ASSUME NEW b \in Actor
               PROVE  /\ Told(call'[b]) => trade'[call'[b].order] = "paid"
                      /\ call'[b].step = "ack" => granted'[call'[b].order] = 1
    BY DEF CallsAreTrue, Told
  <2>1. call'[b].order \in Order
    BY DEF Call
  <2>2. CASE b = a
    BY <2>1, <2>2 DEF Paid
  <2>3. CASE b # a
    BY <2>1, <2>3, <1>3 DEF IInv, CallsAreTrue
  <2>. QED  BY <2>2, <2>3
<1>5. NoticesAreTrue'
  <2> SUFFICES ASSUME NEW p \in Order, granted'[p] = 1  PROVE Paid(p)
    BY DEF NoticesAreTrue, Paid
  <2>1. CASE p = o
    BY <2>1
  <2>2. CASE p # o
    BY <2>2 DEF Statement, IInv, TypeOK, NoticesAreTrue, Paid
  <2>. QED  BY <2>1, <2>2
<1>6. UNCHANGED Promise!promised \/ Promise!CreditOrder(o)
  BY CreditStep DEF IInv
<1>. QED  BY <1>1, <1>2, <1>4, <1>5, <1>6 DEF IInv

\* Most steps leave the provider and the notifications alone.
LEMMA QuietStep ==
    ASSUME IInv, NEW a \in Actor, NEW o \in Order,
           Statement(o), granted'[o] = 1 => Paid(o),
           call' \in [Actor -> Call], \A b \in Actor : b # a => call'[b] = call[b],
           Told(call'[a]) => Paid(call'[a].order),
           call'[a].step = "ack" => granted'[call'[a].order] = 1,
           UNCHANGED <<inbox, notice>>, run' \in [Order -> RunRow],
           trade' \in [Order -> Trade],
           \A p \in Order : trade[p] = "paid" <=> trade'[p] = "paid",
           Fault \/ UNCHANGED faults
    PROVE  IInv' /\ (UNCHANGED Promise!promised \/ Promise!CreditOrder(o))
<1>1. inbox' \in [Order -> InboxRow] /\ notice' \in [Order -> {"none", "due", "heard", "lost"}]
  BY DEF IInv, TypeOK
<1>2. \A p \in Order : notice'[p] # "none" \/ inbox'[p].status # "none" => Paid(p)
  BY DEF IInv, NoticesAreTrue, Paid
<1>3. \A p \in Order : inbox'[p].status = "processed" => granted'[p] = 1
  BY DEF IInv, ProcessedMeansCredited, Statement, TypeOK
<1>. QED  BY <1>1, <1>2, <1>3, ActorStep

LEMMA CallOrder == ASSUME TypeOK, NEW a \in Actor PROVE call[a] \in Call /\ call[a].order \in Order
BY DEF TypeOK, Call

\* Steps(o): what all the lemmas below show.
Steps(o) == IInv' /\ (UNCHANGED Promise!promised \/ Promise!CreditOrder(o))

\* A statement other than the credit.
LEMMA OtherStep ==
    ASSUME IInv, NEW o \in Order, UNCHANGED granted,
           \/ SetPaymentOrderCreateFailure(o)
           \/ MarkPaymentOrderClosed(o)
           \/ RestoreClosingPaymentOrder(o)
           \/ UNCHANGED order
    PROVE  Statement(o) /\ (granted'[o] = 1 => Paid(o))
BY OtherStatements DEF IInv, NoticesAreTrue, Paid

LEMMA CompleteStep ==
    ASSUME IInv, NEW o \in Order, CompletePaymentOrder(o), Paid(o)
    PROVE  Statement(o) /\ (granted'[o] = 1 => Paid(o)) /\ granted'[o] = 1
BY CompleteStatement DEF IInv

\* A statement that writes the order's row and not its credits.
LEMMA RowStep ==
    ASSUME IInv, NEW o \in Order, UNCHANGED granted, NEW r \in OrderRow,
           order' = [order EXCEPT ![o] = r],
           r.status = "credited" <=> order[o].status = "credited"
    PROVE  Statement(o) /\ (granted'[o] = 1 => Paid(o))
<1>1. order' \in [Order -> OrderRow] /\ order'[o] = r /\ \A p \in Order : p # o => order'[p] = order[p]
  BY DEF IInv, TypeOK
<1>2. CreditedMeansGranted'
  BY <1>1 DEF IInv, CreditedMeansGranted
<1>. QED  BY <1>1, <1>2 DEF Statement, IInv, TypeOK, NoticesAreTrue, Paid

LEMMA ActorTypes == Api \subseteq Actor /\ {Inbox, Closer, Auditor} \subseteq Actor
BY DEF Actor

LEMMA StaysPaid ==
    ASSUME IInv, UNCHANGED trade
    PROVE  trade' \in [Order -> Trade] /\ \A p \in Order : trade[p] = "paid" <=> trade'[p] = "paid"
BY DEF IInv, TypeOK

LEMMA RunType == ASSUME IInv, UNCHANGED run PROVE run' \in [Order -> RunRow]
BY DEF IInv, TypeOK

LEMMA CreateOrderStep ==
    ASSUME IInv, NEW a \in Actor, NEW o \in Order, CreateOrder(a, o)  PROVE Steps(o)
<1> DEFINE r == [order[o] EXCEPT !.status = "created"]
<1>1. r \in OrderRow /\ r.status = "created" /\ order' = [order EXCEPT ![o] = r] /\ order[o].status # "credited"
  BY DEF CreateOrder, IInv, TypeOK, OrderRow, Status
<1>2. Statement(o) /\ (granted'[o] = 1 => Paid(o))
  <2> HIDE DEF r
  <2>. QED  BY <1>1, RowStep DEF CreateOrder
<1>3. Start(a, "create", o, "submit") /\ "submit" \in Step /\ "create" \in Purpose
  BY DEF CreateOrder, Step, Purpose
<1>4. /\ call' \in [Actor -> Call] /\ \A b \in Actor : b # a => call'[b] = call[b]
      /\ ~Told(call'[a]) /\ call'[a].step # "ack"
  BY <1>3, StartType DEF IInv
<1>5. UNCHANGED <<granted, inbox, run, trade, notice, faults>>
  BY DEF CreateOrder, provider
<1>6. run' \in [Order -> RunRow] /\ trade' \in [Order -> Trade]
      /\ \A p \in Order : trade[p] = "paid" <=> trade'[p] = "paid"
  BY <1>5, StaysPaid, RunType
<1>. QED  BY <1>2, <1>4, <1>5, <1>6, QuietStep DEF Steps

LEMMA RequestStep ==
    ASSUME IInv, NEW a \in Actor, NEW o \in Order,
           RefreshCheckout(a, o) \/ Request(a, o) \/ (a = Closer /\ Poll(o))
    PROVE  Steps(o)
<1>1. PICK does \in {"refresh", "query", "close"} : Start(a, does, o, "ask")
  BY DEF RefreshCheckout, Request, Poll
<1>2. does \in Purpose /\ "ask" \in Step
  BY DEF Purpose, Step
<1>3. /\ call' \in [Actor -> Call] /\ \A b \in Actor : b # a => call'[b] = call[b]
      /\ ~Told(call'[a]) /\ call'[a].step # "ack"
  BY <1>1, <1>2, StartType DEF IInv
<1>4. UNCHANGED <<order, granted, inbox, run, trade, notice, faults>>
  BY DEF RefreshCheckout, Request, Poll, rows, provider
<1>5. Statement(o) /\ (granted'[o] = 1 => Paid(o))
  BY <1>4, OtherStep
<1>6. run' \in [Order -> RunRow] /\ trade' \in [Order -> Trade]
      /\ \A p \in Order : trade[p] = "paid" <=> trade'[p] = "paid"
  BY <1>4, StaysPaid, RunType
<1>. QED  BY <1>3, <1>4, <1>5, <1>6, QuietStep DEF Steps

LEMMA ClaimExpiredStep ==
    ASSUME IInv, NEW o \in Order, ClaimExpired(o)  PROVE Steps(o)
<1> DEFINE r == [order[o] EXCEPT !.status = "closing"]
<1>1. r \in OrderRow /\ r.status = "closing" /\ order' = [order EXCEPT ![o] = r] /\ order[o].status # "credited"
  BY DEF ClaimExpired, IInv, TypeOK, OrderRow, Status, Unpaid
<1>2. Statement(o) /\ (granted'[o] = 1 => Paid(o))
  <2> HIDE DEF r
  <2>. QED  BY <1>1, RowStep DEF ClaimExpired
<1>3. /\ Start(Closer, "expire", o, "ask") /\ "ask" \in Step /\ "expire" \in Purpose
      /\ Closer \in Actor
  BY ActorTypes DEF ClaimExpired, Step, Purpose
<1>4. /\ call' \in [Actor -> Call] /\ \A b \in Actor : b # Closer => call'[b] = call[b]
      /\ ~Told(call'[Closer]) /\ call'[Closer].step # "ack"
  BY <1>3, StartType DEF IInv
<1>5. UNCHANGED <<granted, inbox, run, trade, notice, faults>>
  BY DEF ClaimExpired, provider
<1>6. run' \in [Order -> RunRow] /\ trade' \in [Order -> Trade]
      /\ \A p \in Order : trade[p] = "paid" <=> trade'[p] = "paid"
  BY <1>5, StaysPaid, RunType
<1>. QED  BY <1>2, <1>3, <1>4, <1>5, <1>6, QuietStep DEF Steps

LEMMA SubmitStep ==
    ASSUME IInv, NEW a \in Actor, Submit(a)  PROVE Steps(call[a].order)
<1> DEFINE o == call[a].order
<1>1. o \in Order
  BY CallOrder DEF IInv
<1>2. (GoTo(a, "publish") /\ UNCHANGED order) \/ GiveUp(a)
  BY DEF Submit
<1>3. /\ call' \in [Actor -> Call] /\ \A b \in Actor : b # a => call'[b] = call[b]
      /\ ~Told(call'[a]) /\ call'[a].step # "ack"
  BY <1>2, GoToType, DoneType DEF IInv, Told, Step, GiveUp
<1>4. Statement(o) /\ (granted'[o] = 1 => Paid(o))
  BY <1>1, <1>2, OtherStep DEF GiveUp, Submit
<1>5. UNCHANGED trade \/ Opened(o)
  BY DEF Submit
<1>6. trade' \in [Order -> Trade] /\ \A p \in Order : trade[p] = "paid" <=> trade'[p] = "paid"
  BY <1>1, <1>5 DEF Opened, IInv, TypeOK, Trade
<1>7. Fault \/ UNCHANGED faults
  BY DEF Submit
<1>. QED  BY <1>1, <1>3, <1>4, <1>6, <1>7, QuietStep, RunType DEF Submit, Steps

LEMMA PublishStep ==
    ASSUME IInv, NEW a \in Actor, Publish(a)  PROVE Steps(call[a].order)
<1> DEFINE o == call[a].order
           r == [order[o] EXCEPT !.status = "pending", !.shown = TRUE]
<1>1. o \in Order
  BY CallOrder DEF IInv
<1>2. Done(a)
  BY DEF Publish, GiveUp
<1>3. /\ call' \in [Actor -> Call] /\ \A b \in Actor : b # a => call'[b] = call[b]
      /\ ~Told(call'[a]) /\ call'[a].step # "ack"
  BY <1>2, DoneType DEF IInv
<1>4. Statement(o) /\ (granted'[o] = 1 => Paid(o))
  <2>1. CASE order[o].status \in Unpaid /\ order' = [order EXCEPT ![o].status = "pending", ![o].shown = TRUE]
    <3>0. order[o] \in OrderRow
      BY <1>1 DEF IInv, TypeOK
    <3>1. r \in OrderRow /\ r.status = "pending" /\ order[o].status # "credited"
      BY <3>0, <2>1 DEF OrderRow, Status, Unpaid
    <3>2. order' = [order EXCEPT ![o] = r]
      BY <1>1, <2>1 DEF IInv, TypeOK
    <3> HIDE DEF r
    <3>. QED  BY <1>1, <3>1, <3>2, RowStep DEF Publish
  <2>2. CASE UNCHANGED order
    BY <1>1, <2>2, OtherStep DEF Publish
  <2>3. CASE GiveUp(a)
    BY <1>1, <2>3, OtherStep DEF Publish, GiveUp
  <2>. QED  BY <2>1, <2>2, <2>3 DEF Publish
<1>5. Fault \/ UNCHANGED faults
  BY DEF Publish
<1>. QED  BY <1>1, <1>3, <1>4, <1>5, QuietStep, StaysPaid, RunType DEF Publish, Steps, provider

-----------------------------------------------------------------------------
(* queryPaymentOrder and closePaymentOrder                                 *)

\* An answer that says paid is right when it is given.
LEMMA AskStep ==
    ASSUME IInv, NEW a \in Actor, Ask(a)  PROVE Steps(call[a].order)
<1> DEFINE o == call[a].order
<1>1. o \in Order /\ call[a] \in Call
  BY CallOrder DEF IInv
<1>2. PICK next \in {"apply", "reapply"}, answer \in {AnswerOf(o), "error"} :
        call' = [call EXCEPT ![a].step = next, ![a].answer = answer]
  BY DEF Ask
<1>3. AnswerOf(o) \in Answer /\ (AnswerOf(o) = "paid" => Paid(o))
  <2>1. trade[o] \in Trade
    BY <1>1 DEF IInv, TypeOK
  <2>. QED  BY <2>1 DEF AnswerOf, Paid, Answer, Trade
<1>4. answer \in Answer /\ (answer = "paid" => Paid(o))
  BY <1>3 DEF Answer
<1> DEFINE c == [call[a] EXCEPT !.step = next, !.answer = answer]
<1>5. c \in Call /\ c.order = o /\ c.step = next /\ c.answer = answer
  BY <1>1, <1>4 DEF Call, Step
<1>6. call' = [call EXCEPT ![a] = c]
  BY <1>2 DEF IInv, TypeOK
<1>7. /\ call' \in [Actor -> Call] /\ \A b \in Actor : b # a => call'[b] = call[b]
      /\ call'[a] = c
  <2> HIDE DEF c
  <2>. QED  BY <1>5, <1>6 DEF IInv, TypeOK
<1>8. (Told(call'[a]) => Paid(call'[a].order)) /\ call'[a].step # "ack"
  <2> HIDE DEF c
  <2>. QED  BY <1>4, <1>5, <1>7 DEF Told
<1>9. Statement(o) /\ (granted'[o] = 1 => Paid(o))
  BY <1>1, OtherStep DEF Ask, rows
<1>10. Fault \/ UNCHANGED faults
  BY DEF Ask
<1>. QED  BY <1>1, <1>7, <1>8, <1>9, <1>10, QuietStep, StaysPaid, RunType DEF Ask, Steps, rows, provider

\* What applyPaymentResult and the failures after it do to the row.
LEMMA AppliedStep ==
    ASSUME IInv, NEW a \in Actor, call[a].step \in {"apply", "reapply"},
           \/ ApplyFinal(a)
           \/ Fail(a)
           \/ MarkPaymentOrderClosed(call[a].order) /\ UNCHANGED granted
           \/ UNCHANGED <<order, granted>>
    PROVE  Statement(call[a].order) /\ (granted'[call[a].order] = 1 => Paid(call[a].order))
<1> DEFINE o == call[a].order
<1>1. o \in Order
  BY CallOrder DEF IInv
<1>2. CASE call[a].answer = "paid" /\ CompletePaymentOrder(o)
  <2>1. Paid(o)
    BY <1>2 DEF IInv, CallsAreTrue, Told, Paid
  <2>. QED  BY <1>1, <1>2, <2>1, CompleteStep
<1>3. CASE UNCHANGED granted /\ (MarkPaymentOrderClosed(o) \/ RestoreClosingPaymentOrder(o) \/ UNCHANGED order)
  BY <1>1, <1>3, OtherStep
<1>. QED  BY <1>2, <1>3 DEF ApplyFinal, Fail

LEMMA ApplyStep ==
    ASSUME IInv, NEW a \in Actor, Apply(a)  PROVE Steps(call[a].order)
<1> DEFINE o == call[a].order
<1>1. o \in Order /\ call[a] \in Call
  BY CallOrder DEF IInv
<1>2. \/ Done(a)
      \/ GoTo(a, "submit")
      \/ call' = [call EXCEPT ![a].step = "close", ![a].unknown = call[a].answer = "not_found"]
  BY DEF Apply, ApplyFinal, Fail
<1> DEFINE c == [call[a] EXCEPT !.step = "close", !.unknown = call[a].answer = "not_found"]
<1>3. c \in Call /\ c.step = "close"
  BY <1>1 DEF Call, Step
<1>4. call' = [call EXCEPT ![a].step = "close", ![a].unknown = call[a].answer = "not_found"]
        => call' = [call EXCEPT ![a] = c]
  BY DEF IInv, TypeOK
<1>5. /\ call' \in [Actor -> Call] /\ \A b \in Actor : b # a => call'[b] = call[b]
      /\ ~Told(call'[a]) /\ call'[a].step # "ack"
  <2>1. CASE Done(a) \/ GoTo(a, "submit")
    BY <2>1, DoneType, GoToType DEF IInv, Told, Step
  <2>2. CASE call' = [call EXCEPT ![a] = c]
    <3> HIDE DEF c
    <3>. QED  BY <1>3, <2>2 DEF IInv, TypeOK, Told
  <2>. QED  BY <1>2, <1>4, <2>1, <2>2
<1>6. Statement(o) /\ (granted'[o] = 1 => Paid(o))
  BY AppliedStep DEF Apply
<1>7. Fault \/ UNCHANGED faults
  BY DEF Apply
<1>. QED  BY <1>1, <1>5, <1>6, <1>7, QuietStep, StaysPaid, RunType DEF Apply, Steps, provider

LEMMA CloseTradeStep ==
    ASSUME IInv, NEW a \in Actor, CloseTrade(a)  PROVE Steps(call[a].order)
<1> DEFINE o == call[a].order
<1>1. o \in Order /\ call[a] \in Call
  BY CallOrder DEF IInv
<1>2. \/ GoTo(a, "mark") \/ GoTo(a, "recheck")
      \/ call' = [call EXCEPT ![a].step = "recheck", ![a].unknown = FALSE]
  BY DEF CloseTrade
<1> DEFINE c == [call[a] EXCEPT !.step = "recheck", !.unknown = FALSE]
<1>3. c \in Call /\ c.step = "recheck"
  BY <1>1 DEF Call, Step
<1>4. call' = [call EXCEPT ![a].step = "recheck", ![a].unknown = FALSE] => call' = [call EXCEPT ![a] = c]
  BY DEF IInv, TypeOK
<1>5. /\ call' \in [Actor -> Call] /\ \A b \in Actor : b # a => call'[b] = call[b]
      /\ ~Told(call'[a]) /\ call'[a].step # "ack"
  <2>1. CASE GoTo(a, "mark") \/ GoTo(a, "recheck")
    BY <2>1, GoToType DEF IInv, Told, Step
  <2>2. CASE call' = [call EXCEPT ![a] = c]
    <3> HIDE DEF c
    <3>. QED  BY <1>3, <2>2 DEF IInv, TypeOK, Told
  <2>. QED  BY <1>2, <1>4, <2>1, <2>2
<1>6. Statement(o) /\ (granted'[o] = 1 => Paid(o))
  BY <1>1, OtherStep DEF CloseTrade, rows
<1>7. UNCHANGED trade \/ (trade[o] # "paid" /\ trade' = [trade EXCEPT ![o] = "closed"])
  BY DEF CloseTrade
<1>8. trade' \in [Order -> Trade] /\ \A p \in Order : trade[p] = "paid" <=> trade'[p] = "paid"
  BY <1>1, <1>7 DEF IInv, TypeOK, Trade
<1>9. Fault \/ UNCHANGED faults
  BY DEF CloseTrade
<1>. QED  BY <1>1, <1>5, <1>6, <1>8, <1>9, QuietStep, RunType DEF CloseTrade, Steps, rows

LEMMA MarkStep ==
    ASSUME IInv, NEW a \in Actor, Mark(a)  PROVE Steps(call[a].order)
<1> DEFINE o == call[a].order
<1>1. o \in Order
  BY CallOrder DEF IInv
<1>2. Done(a) /\ (Fault \/ UNCHANGED faults)
  BY DEF Mark, Fail
<1>3. Statement(o) /\ (granted'[o] = 1 => Paid(o))
  BY <1>1, OtherStep DEF Mark, Fail
<1>. QED  BY <1>1, <1>2, <1>3, DoneType, QuietStep, StaysPaid, RunType DEF IInv, Mark, Steps, provider

LEMMA ReapplyStep ==
    ASSUME IInv, NEW a \in Actor, Reapply(a)  PROVE Steps(call[a].order)
<1> DEFINE o == call[a].order
<1>1. o \in Order
  BY CallOrder DEF IInv
<1>2. Done(a) /\ (Fault \/ UNCHANGED faults)
  BY DEF Reapply, Fail, ApplyFinal
<1>3. Statement(o) /\ (granted'[o] = 1 => Paid(o))
  BY AppliedStep DEF Reapply
<1>. QED  BY <1>1, <1>2, <1>3, DoneType, QuietStep, StaysPaid, RunType DEF IInv, Reapply, Steps, provider

-----------------------------------------------------------------------------
(* Notifications                                                           *)

LEMMA InboxUpdate ==
    ASSUME IInv, NEW o \in Order,
           \/ UNCHANGED inbox
           \/ inbox' = [inbox EXCEPT ![o].status = "pending"]
           \/ CompletePaymentNotification(o)
           \/ RetryPaymentNotification(o)
    PROVE  /\ inbox' \in [Order -> InboxRow]
           /\ \A p \in Order : p # o => inbox'[p] = inbox[p]
<1>1. inbox[o] \in InboxRow
  BY DEF IInv, TypeOK
<1>2. CASE UNCHANGED inbox
  BY <1>2 DEF IInv, TypeOK
<1>3. ASSUME NEW r \in InboxRow, inbox' = [inbox EXCEPT ![o] = r]
      PROVE  /\ inbox' \in [Order -> InboxRow] /\ inbox'[o] = r
             /\ \A p \in Order : p # o => inbox'[p] = inbox[p]
  BY <1>3 DEF IInv, TypeOK
<1>4. ASSUME NEW t \in {"pending", "processed"}, inbox' = [inbox EXCEPT ![o].status = t]
      PROVE  /\ inbox' \in [Order -> InboxRow] /\ inbox'[o].status = t
             /\ \A p \in Order : p # o => inbox'[p] = inbox[p]
  <2> DEFINE r == [inbox[o] EXCEPT !.status = t]
  <2>1. r \in InboxRow /\ r.status = t
    BY <1>1 DEF InboxRow
  <2>2. inbox' = [inbox EXCEPT ![o] = r]
    BY <1>4 DEF IInv, TypeOK
  <2> HIDE DEF r
  <2>. QED  BY <1>3, <2>1, <2>2
<1>5. CASE inbox' = [inbox EXCEPT ![o].status = "pending"]
  BY <1>4, <1>5
<1>6. CASE CompletePaymentNotification(o)
  BY <1>4, <1>6 DEF CompletePaymentNotification
<1>7. CASE RetryPaymentNotification(o)
  <2> DEFINE r == [status |-> "failed", attempts |-> inbox[o].attempts + 1]
  <2>1. r \in InboxRow /\ r.status = "failed"
    BY <1>1 DEF InboxRow
  <2>2. inbox' = [inbox EXCEPT ![o] = r]
    BY <1>7 DEF RetryPaymentNotification
  <2> HIDE DEF r
  <2>. QED  BY <1>3, <2>1, <2>2
<1>. QED  BY <1>2, <1>5, <1>6, <1>7

\* The premises of ActorStep about the notifications.
LEMMA InboxStep ==
    ASSUME IInv, NEW o \in Order, Paid(o), Statement(o),
           \/ UNCHANGED inbox
           \/ inbox' = [inbox EXCEPT ![o].status = "pending"]
           \/ CompletePaymentNotification(o) /\ granted'[o] = 1
           \/ RetryPaymentNotification(o),
           \A p \in Order : p # o => notice'[p] = notice[p]
    PROVE  /\ inbox' \in [Order -> InboxRow]
           /\ \A p \in Order : notice'[p] # "none" \/ inbox'[p].status # "none" => Paid(p)
           /\ \A p \in Order : inbox'[p].status = "processed" => granted'[p] = 1
<1>1. /\ inbox' \in [Order -> InboxRow]
      /\ \A p \in Order : p # o => inbox'[p] = inbox[p]
      /\ inbox'[o].status = "processed" => granted'[o] = 1 \/ inbox[o].status = "processed"
  <2>1. CASE CompletePaymentNotification(o) /\ granted'[o] = 1
    BY <2>1, InboxUpdate
  <2>2. CASE UNCHANGED inbox
    BY <2>2, InboxUpdate
  <2>3. CASE inbox' = [inbox EXCEPT ![o].status = "pending"]
    <3>1. inbox'[o].status = "pending"
      BY <2>3 DEF IInv, TypeOK, InboxRow
    <3>. QED  BY <2>3, <3>1, InboxUpdate
  <2>4. CASE RetryPaymentNotification(o)
    <3>1. inbox'[o].status = "failed"
      BY <2>4 DEF IInv, TypeOK, InboxRow, RetryPaymentNotification
    <3>. QED  BY <2>4, <3>1, InboxUpdate
  <2>. QED  BY <2>1, <2>2, <2>3, <2>4
<1>2. \A p \in Order : granted[p] = 1 => granted'[p] = 1
  BY DEF Statement, IInv, TypeOK
<1>. QED  BY <1>1, <1>2 DEF IInv, NoticesAreTrue, ProcessedMeansCredited, Paid

LEMMA DeliverStep ==
    ASSUME IInv, NEW a \in Actor, NEW o \in Order, Deliver(a, o)  PROVE Steps(o)
<1>1. Paid(o)
  BY DEF Deliver, IInv, NoticesAreTrue, Paid
<1>2. Statement(o) /\ (granted'[o] = 1 => Paid(o))
  BY OtherStep DEF Deliver
<1>3. PICK heard \in {"due", "heard"} : notice' = [notice EXCEPT ![o] = heard]
  BY DEF Deliver
<1>4. /\ notice' \in [Order -> {"none", "due", "heard", "lost"}]
      /\ \A p \in Order : p # o => notice'[p] = notice[p]
  BY <1>3 DEF IInv, TypeOK
<1>5. \/ UNCHANGED <<inbox, call>>
      \/ inbox' = [inbox EXCEPT ![o].status = "pending"] /\ Start(a, "notify", o, "process")
  BY DEF Deliver
<1>6. /\ inbox' \in [Order -> InboxRow]
      /\ \A p \in Order : notice'[p] # "none" \/ inbox'[p].status # "none" => Paid(p)
      /\ \A p \in Order : inbox'[p].status = "processed" => granted'[p] = 1
  BY <1>1, <1>2, <1>4, <1>5, InboxStep
<1>7. /\ call' \in [Actor -> Call] /\ \A b \in Actor : b # a => call'[b] = call[b]
      /\ Told(call'[a]) => Paid(call'[a].order)
      /\ call'[a].step = "ack" => granted'[call'[a].order] = 1
  <2>1. CASE UNCHANGED call
    BY <2>1 DEF Deliver, IInv, TypeOK, CallsAreTrue, Paid
  <2>2. CASE Start(a, "notify", o, "process")
    <3>1. "notify" \in Purpose /\ "process" \in Step
      BY DEF Purpose, Step
    <3>. QED  BY <1>1, <2>2, <3>1, StartType DEF IInv
  <2>. QED  BY <1>5, <2>1, <2>2
<1>. QED  BY <1>2, <1>4, <1>6, <1>7, ActorStep, StaysPaid, RunType DEF Deliver, Steps

LEMMA DrainStep ==
    ASSUME IInv, NEW o \in Order, Drain(o)  PROVE Steps(o)
<1>1. Paid(o)
  BY DEF Drain, IInv, NoticesAreTrue, Paid
<1>2. Start(Inbox, "drain", o, "process") /\ "drain" \in Purpose /\ "process" \in Step /\ Inbox \in Actor
  BY ActorTypes DEF Drain, Purpose, Step
<1>3. /\ call' \in [Actor -> Call] /\ \A b \in Actor : b # Inbox => call'[b] = call[b]
      /\ Told(call'[Inbox]) => Paid(call'[Inbox].order)
      /\ call'[Inbox].step # "ack"
  BY <1>1, <1>2, StartType DEF IInv
<1>4. Statement(o) /\ (granted'[o] = 1 => Paid(o))
  BY OtherStep DEF Drain, rows
<1>. QED  BY <1>2, <1>3, <1>4, QuietStep, StaysPaid, RunType DEF Drain, Steps, rows, provider

LEMMA ProcessStep ==
    ASSUME IInv, NEW a \in Actor, Process(a)  PROVE Steps(call[a].order)
<1> DEFINE o == call[a].order
<1>1. o \in Order
  BY CallOrder DEF IInv
<1>2. Paid(o)
  BY DEF Process, IInv, CallsAreTrue, Told, Paid
<1>3. /\ UNCHANGED <<run, provider>> /\ (Fault \/ UNCHANGED faults)
      /\ \/ CompletePaymentOrder(o) /\ GoTo(a, "ack") /\ UNCHANGED inbox
         \/ RetryPaymentNotification(o) /\ Done(a) /\ UNCHANGED <<order, granted>>
  BY DEF Process
<1>4. /\ Statement(o) /\ (granted'[o] = 1 => Paid(o))
      /\ CompletePaymentOrder(o) => granted'[o] = 1
  BY <1>1, <1>2, <1>3, OtherStep, CompleteStep
<1>5. /\ call' \in [Actor -> Call] /\ \A b \in Actor : b # a => call'[b] = call[b]
      /\ Told(call'[a]) => Paid(call'[a].order)
      /\ call'[a].step = "ack" => granted'[call'[a].order] = 1
  BY <1>2, <1>3, <1>4, GoToType, DoneType DEF IInv, Step
<1>6. /\ inbox' \in [Order -> InboxRow]
      /\ \A p \in Order : notice'[p] # "none" \/ inbox'[p].status # "none" => Paid(p)
      /\ \A p \in Order : inbox'[p].status = "processed" => granted'[p] = 1
  BY <1>1, <1>2, <1>3, <1>4, InboxStep DEF provider
<1>7. notice' \in [Order -> {"none", "due", "heard", "lost"}] /\ UNCHANGED trade
  BY <1>3 DEF provider, IInv, TypeOK
<1>. QED  BY <1>1, <1>3, <1>4, <1>5, <1>6, <1>7, ActorStep, StaysPaid, RunType DEF Steps

LEMMA AckStep ==
    ASSUME IInv, NEW a \in Actor, Ack(a)  PROVE Steps(call[a].order)
<1> DEFINE o == call[a].order
<1>1. o \in Order
  BY CallOrder DEF IInv
<1>2. Paid(o) /\ granted[o] = 1
  BY DEF Ack, IInv, CallsAreTrue, Told, Paid
<1>3. /\ UNCHANGED <<order, granted, run, provider>> /\ (Fault \/ UNCHANGED faults) /\ Done(a)
      /\ CompletePaymentNotification(o) \/ RetryPaymentNotification(o)
  BY DEF Ack
<1>4. Statement(o) /\ (granted'[o] = 1 => Paid(o)) /\ granted'[o] = 1
  BY <1>1, <1>2, <1>3, OtherStep
<1>5. /\ call' \in [Actor -> Call] /\ \A b \in Actor : b # a => call'[b] = call[b]
      /\ ~Told(call'[a]) /\ call'[a].step # "ack"
  BY <1>3, DoneType DEF IInv
<1>6. /\ inbox' \in [Order -> InboxRow]
      /\ \A p \in Order : notice'[p] # "none" \/ inbox'[p].status # "none" => Paid(p)
      /\ \A p \in Order : inbox'[p].status = "processed" => granted'[p] = 1
  BY <1>1, <1>2, <1>3, <1>4, InboxStep DEF provider
<1>7. notice' \in [Order -> {"none", "due", "heard", "lost"}] /\ UNCHANGED trade
  BY <1>3 DEF provider, IInv, TypeOK
<1>. QED  BY <1>1, <1>3, <1>4, <1>5, <1>6, <1>7, ActorStep, StaysPaid, RunType DEF Steps

-----------------------------------------------------------------------------
(* Reconciliation                                                          *)

LEMMA RunUpdate ==
    ASSUME IInv, NEW o \in Order, NEW r \in RunRow, run' = [run EXCEPT ![o] = r] \/ UNCHANGED run
    PROVE  run' \in [Order -> RunRow]
BY DEF IInv, TypeOK

LEMMA BeginRunStep ==
    ASSUME IInv, NEW a \in Actor, NEW o \in Order, BeginRun(a, o)  PROVE Steps(o)
<1>1. Start(a, "reconcile", o, "confirm") /\ "reconcile" \in Purpose /\ "confirm" \in Step /\ Paid(o)
  BY DEF BeginRun, Purpose, Step, Paid
<1>2. /\ call' \in [Actor -> Call] /\ \A b \in Actor : b # a => call'[b] = call[b]
      /\ Told(call'[a]) => Paid(call'[a].order)
      /\ call'[a].step # "ack"
  BY <1>1, StartType DEF IInv
<1>3. run' \in [Order -> RunRow]
  BY RunUpdate DEF BeginRun, RunRow
<1>4. Statement(o) /\ (granted'[o] = 1 => Paid(o))
  BY OtherStep DEF BeginRun
<1>. QED  BY <1>2, <1>3, <1>4, QuietStep, StaysPaid DEF BeginRun, Steps, provider

LEMMA ReconcileStep ==
    ASSUME IInv, NEW a \in Actor, Confirm(a) \/ Credit(a) \/ Report(a)
    PROVE  Steps(call[a].order)
<1> DEFINE o == call[a].order
<1>1. o \in Order
  BY CallOrder DEF IInv
<1>2. Paid(o)
  BY DEF Confirm, Credit, Report, IInv, CallsAreTrue, Told, Paid
<1>3. /\ UNCHANGED <<inbox, provider>> /\ (Fault \/ UNCHANGED faults)
      /\ Done(a) \/ GoTo(a, "report") \/ GoTo(a, "credit")
  BY DEF Confirm, Credit, Report
<1>4. /\ call' \in [Actor -> Call] /\ \A b \in Actor : b # a => call'[b] = call[b]
      /\ Told(call'[a]) => Paid(call'[a].order)
      /\ call'[a].step # "ack"
  BY <1>2, <1>3, GoToType, DoneType DEF IInv, Step
<1>5. run' \in [Order -> RunRow]
  <2>1. \E r \in RunRow : run' = [run EXCEPT ![o] = r] \/ UNCHANGED run
    BY DEF Confirm, Credit, Report, RunRow
  <2>. QED  BY <1>1, <2>1, RunUpdate
<1>6. Statement(o) /\ (granted'[o] = 1 => Paid(o))
  <2>1. CompletePaymentOrder(o) \/ UNCHANGED <<order, granted>>
    BY DEF Confirm, Credit, Report
  <2>. QED  BY <1>1, <1>2, <2>1, CompleteStep, OtherStep
<1>. QED  BY <1>1, <1>3, <1>4, <1>5, <1>6, QuietStep, StaysPaid DEF Steps, provider

-----------------------------------------------------------------------------
(* The user, the provider, time and crashes                                *)

LEMMA PayStep ==
    ASSUME IInv, NEW o \in Order, UserPays(o)  PROVE IInv' /\ Promise!PayOrder(o)
<1>1. /\ trade' = [trade EXCEPT ![o] = "paid"] /\ notice' = [notice EXCEPT ![o] = "due"]
      /\ UNCHANGED <<order, granted, inbox, run, call, faults>> /\ trade[o] # "paid"
  BY DEF UserPays, rows
<1>2. /\ trade' \in [Order -> Trade] /\ notice' \in [Order -> {"none", "due", "heard", "lost"}]
      /\ \A p \in Order : trade'[p] = "paid" <=> p = o \/ trade[p] = "paid"
      /\ \A p \in Order : p # o => notice'[p] = notice[p]
  BY <1>1 DEF IInv, TypeOK, Trade
<1>3. TypeOK'
  BY <1>1, <1>2 DEF IInv, TypeOK
<1>4. CreditedMeansGranted' /\ ProcessedMeansCredited'
  BY <1>1 DEF IInv, CreditedMeansGranted, ProcessedMeansCredited
<1>5. CallsAreTrue'
  BY <1>1, <1>2, CallOrder DEF IInv, CallsAreTrue, Told
<1>6. NoticesAreTrue'
  BY <1>1, <1>2 DEF IInv, NoticesAreTrue
<1>7. Promise!PayOrder(o)
  <2>1. {p \in Order : trade'[p] = "paid"} = {p \in Order : trade[p] = "paid"} \cup {o}
    BY <1>2
  <2>. QED  BY <1>1, <2>1 DEF Promise!PayOrder
<1>. QED  BY <1>3, <1>4, <1>5, <1>6, <1>7 DEF IInv

LEMMA OutsideStep ==
    ASSUME IInv, NEW o \in Order,
           UserOpensPage(o) \/ Expire(o) \/ ProviderCloses(o) \/ LoseNotice(o)
    PROVE  IInv' /\ UNCHANGED Promise!promised
<1>1. UNCHANGED <<granted, inbox, run, call>> /\ (Fault \/ UNCHANGED faults)
  BY DEF UserOpensPage, Expire, ProviderCloses, LoseNotice, rows
<1>2. /\ trade' \in [Order -> Trade]
      /\ \A p \in Order : trade[p] = "paid" <=> trade'[p] = "paid"
  BY DEF UserOpensPage, Expire, ProviderCloses, LoseNotice, IInv, TypeOK, Trade, provider
<1>3. /\ notice' \in [Order -> {"none", "due", "heard", "lost"}]
      /\ \A p \in Order : notice'[p] # "none" => notice[p] # "none"
  BY DEF UserOpensPage, Expire, ProviderCloses, LoseNotice, IInv, TypeOK, provider
<1>4. order' \in [Order -> OrderRow] /\ \A p \in Order : order'[p].status = order[p].status
  <2>1. CASE UNCHANGED order
    BY <2>1 DEF IInv, TypeOK
  <2>2. CASE Expire(o)
    <3> DEFINE r == [order[o] EXCEPT !.expired = TRUE]
    <3>0. order[o] \in OrderRow
      BY DEF IInv, TypeOK
    <3>1. r \in OrderRow /\ r.status = order[o].status
      BY <3>0 DEF OrderRow
    <3>2. order' = [order EXCEPT ![o] = r]
      BY <2>2 DEF Expire, IInv, TypeOK
    <3> HIDE DEF r
    <3>. QED  BY <3>1, <3>2 DEF IInv, TypeOK
  <2>. QED  BY <2>1, <2>2 DEF UserOpensPage, ProviderCloses, LoseNotice, rows
<1>5. TypeOK'
  BY <1>1, <1>2, <1>3, <1>4, FaultType DEF IInv, TypeOK
<1>6. CreditedMeansGranted' /\ ProcessedMeansCredited'
  BY <1>1, <1>4 DEF IInv, CreditedMeansGranted, ProcessedMeansCredited
<1>7. CallsAreTrue'
  BY <1>1, <1>2, CallOrder DEF IInv, CallsAreTrue, Told
<1>8. NoticesAreTrue'
  BY <1>1, <1>2, <1>3 DEF IInv, NoticesAreTrue
<1>9. {p \in Order : trade'[p] = "paid"} = {p \in Order : trade[p] = "paid"}
  BY <1>2
<1>. QED  BY <1>1, <1>5, <1>6, <1>7, <1>8, <1>9 DEF IInv, Promise!promised

LEMMA CrashStep == ASSUME IInv, Crash  PROVE IInv' /\ UNCHANGED Promise!promised
<1>1. UNCHANGED <<order, granted, inbox, run, trade, notice>> /\ Fault
      /\ call' = [a \in Actor |-> NoCall]
  BY DEF Crash, rows, provider
<1>2. TypeOK'
  BY <1>1, IdleType, FaultType DEF IInv, TypeOK
<1>3. CallsAreTrue'
  BY <1>1 DEF CallsAreTrue, Told, NoCall, Starting
<1>. QED  BY <1>1, <1>2, <1>3 DEF IInv, CreditedMeansGranted, ProcessedMeansCredited,
                                  NoticesAreTrue, Promise!promised

-----------------------------------------------------------------------------

LEMMA InitStep == Init => IInv /\ Promise!PromiseInit
<1> SUFFICES ASSUME Init  PROVE IInv /\ Promise!PromiseInit
  OBVIOUS
<1>1. PICK mode \in [Order -> Mode] :
        order = [o \in Order |-> [status |-> "absent", mode |-> mode[o],
                                 expired |-> FALSE, shown |-> FALSE]]
  BY DEF Init
<1>2. TypeOK
  BY <1>1, IdleType DEF Init, TypeOK, OrderRow, Status, InboxRow, RunRow, Trade
<1>3. CreditedMeansGranted /\ ProcessedMeansCredited /\ NoticesAreTrue
  BY <1>1 DEF Init, CreditedMeansGranted, ProcessedMeansCredited, NoticesAreTrue
<1>4. CallsAreTrue
  BY DEF Init, CallsAreTrue, Told, NoCall, Starting
<1>5. Promise!PromiseInit
  BY DEF Init, Promise!PromiseInit
<1>. QED  BY <1>2, <1>3, <1>4, <1>5 DEF IInv

LEMMA NextStep == ASSUME IInv, [Next]_vars  PROVE IInv' /\ [Promise!PromiseNext]_(Promise!promised)
<1>1. ASSUME NEW o \in Order, Steps(o)
      PROVE  IInv' /\ [Promise!PromiseNext]_(Promise!promised)
  BY <1>1 DEF Steps, Promise!PromiseNext
<1>2. ASSUME NEW a \in Actor, Continue(a)
      PROVE  IInv' /\ [Promise!PromiseNext]_(Promise!promised)
  <2>1. Steps(call[a].order)
    BY <1>2, SubmitStep, PublishStep, AskStep, ApplyStep, CloseTradeStep, MarkStep,
       ReapplyStep, ProcessStep, AckStep, ReconcileStep DEF Continue
  <2>2. call[a].order \in Order
    BY CallOrder DEF IInv
  <2>. QED  BY <2>1, <2>2, <1>1
<1>3. ASSUME NEW a \in Api, NEW o \in Order, HandleRequest(a, o)
      PROVE  IInv' /\ [Promise!PromiseNext]_(Promise!promised)
  <2>1. a \in Actor
    BY ActorTypes
  <2>2. Steps(o)
    BY <1>3, <2>1, CreateOrderStep, RequestStep, DeliverStep DEF HandleRequest
  <2>. QED  BY <2>2, <1>1
<1>4. ASSUME NEW a \in Api \cup {Auditor}, NEW o \in Order, BeginRun(a, o)
      PROVE  IInv' /\ [Promise!PromiseNext]_(Promise!promised)
  <2>1. a \in Actor
    BY ActorTypes
  <2>. QED  BY <1>4, <2>1, BeginRunStep, <1>1
<1>5. ASSUME NEW o \in Order, Loop(o)
      PROVE  IInv' /\ [Promise!PromiseNext]_(Promise!promised)
  <2>1. Closer \in Actor
    BY ActorTypes
  <2>2. Steps(o)
    BY <1>5, <2>1, ClaimExpiredStep, RequestStep, DrainStep DEF Loop
  <2>. QED  BY <2>2, <1>1
<1>6. ASSUME NEW o \in Order, Outside(o)
      PROVE  IInv' /\ [Promise!PromiseNext]_(Promise!promised)
  <2>1. IInv' /\ (Promise!PayOrder(o) \/ UNCHANGED Promise!promised)
    BY <1>6, PayStep, OutsideStep DEF Outside
  <2>. QED  BY <2>1 DEF Promise!PromiseNext
<1>7. CASE Crash
  BY <1>7, CrashStep
<1>8. CASE UNCHANGED vars
  BY <1>8 DEF vars, rows, provider, IInv, TypeOK, CreditedMeansGranted, ProcessedMeansCredited,
              CallsAreTrue, Told, NoticesAreTrue, Promise!promised
<1>. QED  BY <1>2, <1>3, <1>4, <1>5, <1>6, <1>7, <1>8 DEF Next

-----------------------------------------------------------------------------
(* The results                                                             *)

LEMMA PaymentInvariant == Spec => []IInv
BY InitStep, NextStep, PTL DEF Spec

\* Every variable keeps its type, in particular no order is granted twice.
THEOREM PaymentTypeOK == Spec => []TypeOK
<1>1. IInv => TypeOK
  BY DEF IInv
<1>. QED  BY <1>1, PaymentInvariant, PTL

\* The order row and the account never disagree.
THEOREM CreditsMatchTheRow == Spec => []CreditedMeansGranted
<1>1. IInv => CreditedMeansGranted
  BY DEF IInv
<1>. QED  BY <1>1, PaymentInvariant, PTL

\* A notification is only written off when the order has its credits.
THEOREM NoticesAreNotLost == Spec => []ProcessedMeansCredited
<1>1. IInv => ProcessedMeansCredited
  BY DEF IInv
<1>. QED  BY <1>1, PaymentInvariant, PTL

\* The safety half of the promise to users: the system implements TopupPromise,
\* whoever credits an order and however often its row was closed before.
THEOREM TopupsKeepTheirPromise == Spec => Promise!PromiseSafety
<1>1. Init => Promise!PromiseInit
  BY InitStep
<1>2. IInv /\ [Next]_vars => [Promise!PromiseNext]_(Promise!promised)
  BY NextStep
<1>. QED  BY <1>1, <1>2, PaymentInvariant, PTL DEF Spec, Promise!PromiseSafety

=============================================================================
