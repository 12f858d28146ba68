------------------------- MODULE RouteAttemptsProofs -------------------------
(***************************************************************************)
(* Proofs about RouteAttempts, for any set of routes and any number of     *)
(* failures.  Where no answer is a link (NoLink), a run has one job.       *)
(***************************************************************************)
EXTENDS RouteAttempts, SequenceTheorems, TLAPS

NoLink == "link" \notin Answers

-----------------------------------------------------------------------------
(* Sequences                                                               *)

LEMMA LastReplaced ==
    ASSUME NEW S, NEW s \in Seq(S), s # <<>>, NEW a \in S,
           NEW t, t = [s EXCEPT ![Len(s)] = a]
    PROVE  /\ t \in Seq(S) /\ Len(t) = Len(s) /\ t # <<>>
           /\ DOMAIN t = DOMAIN s
           /\ Len(s) \in DOMAIN s
           /\ t[Len(t)] = a
           /\ \A i \in DOMAIN s : i # Len(s) => t[i] = s[i]
<1>1. Len(s) \in Nat \ {0} /\ DOMAIN s = 1 .. Len(s)
  BY EmptySeq, LenProperties
<1>2. t \in Seq(S) /\ Len(t) = Len(s)
  BY <1>1, ExceptSeq
<1>3. t # <<>>
  BY <1>1, <1>2
<1>4. DOMAIN t = DOMAIN s
  BY <1>2, <1>1, LenProperties
<1>. QED  BY <1>1, <1>2, <1>3, <1>4

LEMMA OneAppended ==
    ASSUME NEW S, NEW s \in Seq(S), NEW a \in S, NEW t, t = Append(s, a)
    PROVE  /\ t \in Seq(S) /\ Len(t) = Len(s) + 1 /\ t # <<>>
           /\ DOMAIN t = DOMAIN s \cup {Len(t)}
           /\ Len(t) \notin DOMAIN s
           /\ t[Len(t)] = a
           /\ \A i \in DOMAIN s : t[i] = s[i]
<1>1. t \in Seq(S) /\ Len(t) = Len(s) + 1 /\ t[Len(s) + 1] = a
      /\ \A i \in 1 .. Len(s) : t[i] = s[i]
  BY AppendProperties
<1>2. Len(s) \in Nat /\ DOMAIN s = 1 .. Len(s) /\ DOMAIN t = 1 .. Len(t)
  BY <1>1, LenProperties
<1>3. t # <<>>
  BY <1>1, <1>2
<1>. QED  BY <1>1, <1>2, <1>3

-----------------------------------------------------------------------------
(* Types                                                                   *)

LEMMA InitTypes == Init => TypeOK
<1> SUFFICES ASSUME Init PROVE TypeOK
  OBVIOUS
<1>1. attempts \in Seq(Attempt) /\ jobs \in Seq(Job)
  BY DEF Init
<1>. QED
  BY <1>1, RouteAssumption
     DEF Init, TypeOK, Row, OrderRow, Execution, Step, Failure, Live, Open, NoJob

\* An execution that has left the preparation has an attempt.
HasAttempt ==
    exec.step \in {"bill", "mark", "call", "record", "poll", "download", "refresh",
                   "finish", "next"} => attempts # <<>>

TypeInv == TypeOK /\ HasAttempt

LEMMA LastHasType ==
    ASSUME TypeOK, attempts # <<>>
    PROVE  /\ Len(attempts) \in Nat \ {0} /\ Len(attempts) \in DOMAIN attempts
           /\ LastAttempt \in Attempt
<1>1. Len(attempts) \in Nat \ {0} /\ DOMAIN attempts = 1 .. Len(attempts)
  BY EmptySeq, LenProperties DEF TypeOK
<1>. QED  BY <1>1, ElementOfSeq DEF TypeOK, LastAttempt

\* What SaveLast and Append leave behind.
LEMMA SavedLast ==
    ASSUME TypeOK, attempts # <<>>, NEW a \in Attempt, SaveLast(a)
    PROVE  /\ attempts' \in Seq(Attempt) /\ attempts' # <<>>
           /\ Len(attempts') = Len(attempts) /\ DOMAIN attempts' = DOMAIN attempts
           /\ LastAttempt' = a
           /\ \A i \in DOMAIN attempts : i # Len(attempts) => attempts'[i] = attempts[i]
BY LastReplaced DEF TypeOK, SaveLast, LastAttempt

LEMMA NextTypes == TypeInv /\ [Next]_vars => TypeInv'
<1> SUFFICES ASSUME TypeInv, [Next]_vars PROVE TypeInv'
  OBVIOUS
<1> USE RouteAssumption
<1> USE DEF TypeInv, TypeOK, HasAttempt, Row, OrderRow, Execution, Step, Failure, Live,
            Open, NoJob, rows, At, Goto, GotoWith, Fault, MarkUncertain, Close
<1>1. CASE UNCHANGED vars
  BY <1>1 DEF vars
<1>2. CASE Claim
  BY <1>2 DEF Claim, Execution, Live
<1>3. CASE Begin
  <2>1. CASE attempts # <<>> /\ Resume /\ UNCHANGED faults
    <3>1. LastAttempt \in Attempt
      BY <2>1, LastHasType
    <3> DEFINE a == [LastAttempt EXCEPT !.dispatch = "accepted"]
    <3>2. a \in Attempt
      BY <3>1 DEF Attempt
    <3>3. attempts' \in Seq(Attempt) /\ attempts' # <<>>
      BY <2>1, <3>2, SavedLast DEF Resume
    <3>4. LastAttempt.request \in Nat
      BY <3>1 DEF Attempt
    <3> HIDE DEF a
    <3>5. row' \in Row /\ exec' \in Execution /\ exec'.step = "bill"
      BY <2>1, <3>4 DEF Resume, RequestId
    <3>. QED  BY <1>3, <2>1, <3>3, <3>5 DEF Begin
  <2>3. CASE attempts # <<>> /\ ResumeUnsaved /\ Fault
    <3>1. LastAttempt.request \in Nat
      BY <2>3, LastHasType DEF Attempt
    <3>2. row' \in Row /\ exec' \in Execution /\ exec'.step = "fail" /\ UNCHANGED attempts
      BY <2>3, <3>1 DEF ResumeUnsaved, RequestId
    <3>. QED  BY <1>3, <2>3, <3>2 DEF Begin
  <2>2. CASE /\ ~(attempts # <<>> /\ Resume /\ UNCHANGED faults)
             /\ ~(attempts # <<>> /\ ResumeUnsaved /\ Fault)
    <3>1. UNCHANGED <<row, order, attempts, jobs, cancel>> /\ faults' \in 0 .. MaxFaults
      BY <1>3, <2>2 DEF Begin
    <3>2. exec' \in Execution /\ (exec'.step = "bill" => attempts # <<>>)
          /\ exec'.step \in {"create", "switch", "bill", "fail"}
      BY <1>3, <2>2 DEF Begin, StopUncertain
    <3>. QED  BY <3>1, <3>2
  <2>. QED  BY <2>1, <2>2, <2>3
<1>4. CASE SwitchTaskLogicalRoute
  <2>1. UNCHANGED <<attempts, jobs, cancel, faults>>
    BY <1>4 DEF SwitchTaskLogicalRoute
  <2>2. row' \in Row /\ order' \in OrderRow
    BY <1>4, ZenonT(60) DEF SwitchTaskLogicalRoute
  <2>3. exec' \in Execution /\ exec'.step \in {"create", "fail"}
    <3>1. CASE NoRoute
      BY <3>1 DEF NoRoute
    <3>2. CASE \E r \in Route \ Tried :
                  exec' = [exec EXCEPT !.step = "create", !.route = r, !.request = NoJob]
      <4>1. PICK r \in Route \ Tried :
                  exec' = [exec EXCEPT !.step = "create", !.route = r, !.request = NoJob]
        BY <3>2
      <4>2. r \in Route
        BY <4>1
      <4>. QED  BY <4>1, <4>2
    <3>. QED  BY <1>4, <3>1, <3>2 DEF SwitchTaskLogicalRoute
  <2>. QED  BY <2>1, <2>2, <2>3
<1>5. CASE CreateRouteAttempt
  <2>1. UNCHANGED <<row, order, jobs, cancel>> /\ faults' \in 0 .. MaxFaults
    BY <1>5 DEF CreateRouteAttempt
  <2> DEFINE a == [route |-> exec.route, request |-> NoJob, dispatch |-> "not_sent"]
  <2>2. CASE attempts' = Append(attempts, a)
            /\ GotoWith(IF exec.failure = "none" THEN "bill" ELSE "mark", "none")
    <3>1. a \in Attempt
      BY DEF Attempt
    <3> HIDE DEF a
    <3>2. attempts' \in Seq(Attempt) /\ attempts' # <<>>
      BY <2>2, <3>1, OneAppended
    <3>3. exec' \in Execution /\ exec'.step \in {"bill", "mark"}
      BY <2>2
    <3>. QED  BY <2>1, <3>2, <3>3
  <2>3. CASE NoRoute /\ UNCHANGED attempts
    BY <2>1, <2>3, ZenonT(60) DEF NoRoute
  <2>. QED  BY <1>5, <2>2, <2>3 DEF CreateRouteAttempt
<1>6. CASE MarkBillingRunning
  <2>1. UNCHANGED <<row, attempts, jobs, cancel>> /\ faults' \in 0 .. MaxFaults
    BY <1>6 DEF MarkBillingRunning
  <2>2. order' \in OrderRow
    BY <1>6 DEF MarkBillingRunning
  <2>3. exec' \in Execution /\ exec'.step \in {"mark", "fail"} /\ attempts # <<>>
    BY <1>6 DEF MarkBillingRunning
  <2>. QED  BY <2>1, <2>2, <2>3
<1>7. CASE MarkDispatching
  <2>1. UNCHANGED <<row, order, jobs, cancel>> /\ faults' \in 0 .. MaxFaults
    BY <1>7 DEF MarkDispatching
  <2>2. exec' \in Execution /\ exec'.step \in {"call", "fail"} /\ attempts # <<>>
    BY <1>7 DEF MarkDispatching
  <2> DEFINE a == [LastAttempt EXCEPT !.dispatch = "submission_unknown"]
  <2>3. a \in Attempt
    BY <2>2, LastHasType DEF Attempt
  <2>4. SaveLast(a) \/ UNCHANGED attempts
    BY <1>7 DEF MarkDispatching
  <2> HIDE DEF a
  <2>5. attempts' \in Seq(Attempt) /\ attempts' # <<>>
    BY <2>2, <2>3, <2>4, SavedLast
  <2>. QED  BY <2>1, <2>2, <2>5
<1>8. CASE Call
  <2>1. UNCHANGED <<rows, cancel, faults>> /\ attempts # <<>>
    BY <1>8 DEF Call
  <2> DEFINE a == [route |-> exec.route, attempt |-> Len(attempts)]
  <2>2. a \in Job
    BY <2>1, LastHasType DEF Job
  <2>3. jobs' = Append(jobs, a) \/ UNCHANGED jobs
    BY <1>8 DEF Call, NewJob
  <2> HIDE DEF a
  <2>4. jobs' \in Seq(Job)
    <3>1. CASE jobs' = Append(jobs, a)
      BY <3>1, <2>2, OneAppended
    <3>. QED  BY <2>3, <3>1
  <2>5. Len(jobs) \in Nat
    BY LenProperties
  <2>6. exec' \in Execution
    <3>1. CASE Goto("poll")
      BY <3>1
    <3>2. CASE \E failure \in {"rejected", "failed", "lost"} : GotoWith("refresh", failure)
      BY <3>2
    <3>3. CASE \E answer \in Answers :
                  exec' = [exec EXCEPT
                        !.job = Len(jobs) + 1,
                        !.step = CASE answer = "polled" -> "record"
                                   [] answer = "link" -> "download"
                                   [] OTHER -> "refresh"]
      <4>1. PICK step \in {"record", "download", "refresh"} :
                  exec' = [exec EXCEPT !.job = Len(jobs) + 1, !.step = step]
        BY <3>3
      <4>2. Len(jobs) + 1 \in Nat
        BY <2>5
      <4>. QED  BY <4>1, <4>2
    <3>. QED  BY <1>8, <3>1, <3>2, <3>3 DEF Call
  <2>. QED  BY <2>1, <2>4, <2>6
<1>9. CASE Record
  BY <1>9 DEF Record
<1>10. CASE Poll
  BY <1>10, ZenonT(60) DEF Poll
<1>11. CASE Download
  BY <1>11, ZenonT(60) DEF Download
<1>12. CASE Refresh
  <2>1. UNCHANGED <<rows, jobs, cancel>> /\ faults' \in 0 .. MaxFaults /\ attempts # <<>>
    BY <1>12 DEF Refresh
  <2>2. CASE Goto("idle")
    BY <2>1, <2>2
  <2>3. CASE exec' = [exec EXCEPT !.step = "finish",
                        !.request = IF row.request # NoJob THEN row.request ELSE @]
    <3>1. row.request \in Nat /\ exec.request \in Nat
      OBVIOUS
    <3>2. exec' \in Execution
      BY <2>3, <3>1
    <3>. QED  BY <2>1, <3>2
  <2>. QED  BY <1>12, <2>2, <2>3 DEF Refresh
<1>13. CASE FinishAttempt
  <2>1. UNCHANGED <<row, order, jobs, cancel>> /\ faults' \in 0 .. MaxFaults
    BY <1>13 DEF FinishAttempt
  <2>2. exec' \in Execution /\ attempts # <<>>
    BY <1>13 DEF FinishAttempt
  <2> DEFINE a == [LastAttempt EXCEPT !.dispatch = Verdict, !.request = exec.request]
  <2>3. a \in Attempt
    <3>1. Verdict \in {"accepted", "rejected_no_job", "submission_unknown"}
      BY DEF Verdict
    <3>. QED  BY <2>2, <3>1, LastHasType DEF Attempt
  <2>4. SaveLast(a) \/ UNCHANGED attempts
    BY <1>13 DEF FinishAttempt
  <2> HIDE DEF a
  <2>5. attempts' \in Seq(Attempt) /\ attempts' # <<>>
    BY <2>2, <2>3, <2>4, SavedLast
  <2>. QED  BY <2>1, <2>2, <2>5
<1>14. CASE NextRoute
  BY <1>14 DEF NextRoute
<1>15. CASE Save
  BY <1>15, ZenonT(60) DEF Save
<1>16. CASE Settle
  BY <1>16 DEF Settle
<1>17. CASE Fail
  <2>1. UNCHANGED <<order, attempts, jobs, cancel>> /\ faults' \in 0 .. MaxFaults
    BY <1>17 DEF Fail
  <2>2. row' \in Row
    BY <1>17 DEF Fail
  <2>3. exec' \in Execution /\ exec'.step \in {"idle", "close"}
    BY <1>17 DEF Fail
  <2>. QED  BY <2>1, <2>2, <2>3
<1>18. CASE CloseOrder
  BY <1>18 DEF CloseOrder
<1>19. CASE Abandon
  BY <1>19 DEF Abandon
<1>20. CASE BeginCancel
  BY <1>20 DEF BeginCancel, Live
<1>21. CASE CancelIfStatus
  BY <1>21, ZenonT(60) DEF CancelIfStatus
<1>22. CASE CloseCancelled
  BY <1>22 DEF CloseCancelled
<1>. QED
  BY <1>1, <1>2, <1>3, <1>4, <1>5, <1>6, <1>7, <1>8, <1>9, <1>10, <1>11, <1>12, <1>13,
     <1>14, <1>15, <1>16, <1>17, <1>18, <1>19, <1>20, <1>21, <1>22 DEF Next, Execute
-----------------------------------------------------------------------------
(* The inductive invariant                                                 *)

NoJobYet == jobs = <<>>

\* The execution at work knows the route of the task.
RouteIsKnown == exec.step # "idle" => exec.route = row.route

\* The only job is the one of the last attempt, on the route of the task.
JobIsLast ==
    NoJobYet \/ /\ jobs = <<[route |-> row.route, attempt |-> Len(attempts)]>>
                /\ attempts # <<>>
                /\ LastAttempt.route = row.route
                /\ LastAttempt.dispatch \in {"submission_unknown", "accepted"}

\* A request id, wherever it is kept, is the one of that job.
IsJob(id) == id # NoJob => id = 1 /\ ~NoJobYet
AttemptIdsAreTrue ==
    \A i \in DOMAIN attempts :
        attempts[i].request # NoJob => i = Len(attempts) /\ IsJob(attempts[i].request)
IdsAreTrue ==
    /\ IsJob(row.request) /\ IsJob(exec.request) /\ IsJob(exec.job)
    /\ cancel.request # NoJob => ~NoJobYet

\* An attempt that was not sent is on the route of the task.
UnsentIsCurrent ==
    attempts # <<>> /\ LastAttempt.dispatch = "not_sent" => LastAttempt.route = row.route

\* What an execution has done so far, by where it is.
Sendable == exec.request # NoJob \/ LastAttempt.dispatch = "not_sent"
PhaseIsTrue ==
    /\ exec.step \in {"begin", "bill", "mark", "call", "record", "poll", "download"} =>
         exec.failure = "none"
    /\ exec.step \in {"bill", "mark"} => Sendable
    /\ exec.step = "call" /\ exec.request = NoJob =>
         /\ NoJobYet
         /\ LastAttempt.dispatch = "submission_unknown" /\ LastAttempt.route = row.route
    /\ exec.step = "record" => exec.job # NoJob
    /\ exec.step \in {"poll", "download"} => row.request # NoJob \/ exec.request # NoJob
    /\ exec.step = "refresh" /\ exec.failure = "rejected" =>
         NoJobYet \/ row.request # NoJob \/ exec.request # NoJob
    /\ exec.step \in {"refresh", "finish"} /\ exec.failure = "none" => ~NoJobYet
    /\ exec.step = "finish" /\ exec.failure = "rejected" => NoJobYet \/ exec.request # NoJob
    /\ exec.step \in {"next", "switch", "create"} => NoJobYet
    /\ exec.step \in {"call", "record", "poll", "download", "refresh", "finish", "next"} =>
         LastAttempt.dispatch # "not_sent"
    /\ exec.step \in {"switch", "create"} /\ attempts # <<>> =>
         LastAttempt.dispatch # "not_sent"
    /\ exec.step \in {"save", "settle"} => ~NoJobYet

\* The price on the order is the one of the route.
PriceIsTrue ==
    /\ order.status \in Open => order.route = row.route
    /\ order.status = "settled" => ~NoJobYet /\ order.route = row.route

RouteIsNew == exec.step = "create" => exec.route \notin Tried

IInv ==
    /\ TypeInv
    /\ JobIsLast /\ UnsentIsCurrent /\ AttemptIdsAreTrue /\ RoutesAreTriedOnce
    /\ RouteIsKnown /\ IdsAreTrue /\ PhaseIsTrue /\ PriceIsTrue /\ RouteIsNew

LEMMA InitInv == Init => IInv
<1> SUFFICES ASSUME Init PROVE IInv
  OBVIOUS
<1>1. TypeInv
  BY InitTypes DEF Init, TypeInv, HasAttempt
<1>2. DOMAIN attempts = {}
  BY DEF Init
<1>3. JobIsLast /\ UnsentIsCurrent /\ AttemptIdsAreTrue /\ RoutesAreTriedOnce
  BY <1>2 DEF Init, JobIsLast, NoJobYet, UnsentIsCurrent, AttemptIdsAreTrue, RoutesAreTriedOnce
<1>4. RouteIsKnown /\ IdsAreTrue /\ PhaseIsTrue /\ PriceIsTrue /\ RouteIsNew
  BY DEF Init, RouteIsKnown, IdsAreTrue, IsJob, PhaseIsTrue, PriceIsTrue, RouteIsNew, NoJob
<1>. QED  BY <1>1, <1>3, <1>4 DEF IInv

\* What holds of the attempts goes on holding when they, the jobs and the route of
\* the task stay as they are.
LEMMA AttemptsKept ==
    ASSUME IInv, UNCHANGED <<attempts, jobs>>, row'.route = row.route
    PROVE  /\ JobIsLast' /\ UnsentIsCurrent' /\ AttemptIdsAreTrue' /\ RoutesAreTriedOnce'
           /\ LastAttempt' = LastAttempt /\ Tried' = Tried /\ NoJobYet' = NoJobYet
BY DEF IInv, JobIsLast, NoJobYet, UnsentIsCurrent, AttemptIdsAreTrue, IsJob,
       RoutesAreTriedOnce, LastAttempt, Tried

\* The last attempt may be replaced by one of the same route that was sent, if it
\* does not deny the job.
LEMMA LastSaved ==
    ASSUME IInv, attempts # <<>>, NEW a \in Attempt, SaveLast(a),
           UNCHANGED jobs, row'.route = row.route,
           a.route = LastAttempt.route, a.dispatch # "not_sent", IsJob(a.request),
           ~NoJobYet => a.dispatch \in {"submission_unknown", "accepted"}
    PROVE  /\ JobIsLast' /\ UnsentIsCurrent' /\ AttemptIdsAreTrue' /\ RoutesAreTriedOnce'
           /\ LastAttempt' = a /\ Tried' = Tried /\ NoJobYet' = NoJobYet
           /\ attempts' # <<>>
<1>1. /\ attempts' # <<>>
      /\ Len(attempts') = Len(attempts) /\ DOMAIN attempts' = DOMAIN attempts
      /\ LastAttempt' = a
      /\ \A i \in DOMAIN attempts : i # Len(attempts) => attempts'[i] = attempts[i]
  BY SavedLast DEF IInv, TypeInv
<1>2. attempts'[Len(attempts)] = a
  BY <1>1 DEF LastAttempt
<1>3. NoJobYet' = NoJobYet
  BY DEF NoJobYet
<1>4. JobIsLast'
  BY <1>1, <1>3 DEF IInv, JobIsLast
<1>5. UnsentIsCurrent'
  BY <1>1 DEF UnsentIsCurrent
<1>6. AttemptIdsAreTrue'
  BY <1>1, <1>2, <1>3 DEF IInv, AttemptIdsAreTrue, IsJob
<1>7. \A i \in DOMAIN attempts : attempts'[i].route = attempts[i].route
  BY <1>1, <1>2 DEF LastAttempt
<1>8. Tried' = Tried /\ RoutesAreTriedOnce'
  BY <1>1, <1>7 DEF IInv, Tried, RoutesAreTriedOnce
<1>. QED  BY <1>1, <1>3, <1>4, <1>5, <1>6, <1>8

LEMMA NextInv == NoLink /\ IInv /\ [Next]_vars => IInv'
<1> SUFFICES ASSUME NoLink, IInv, [Next]_vars PROVE IInv'
  OBVIOUS
<1>0. TypeInv' /\ TypeInv
  BY NextTypes DEF IInv
<1> USE DEF IInv, TypeInv, TypeOK, Row, OrderRow, Execution, Step, Failure, Live, Open, NoJob,
            rows, At, Goto, GotoWith, Fault, MarkUncertain, Close,
            RouteIsKnown, IdsAreTrue, IsJob, PhaseIsTrue, Sendable, PriceIsTrue, RouteIsNew
<1>1. CASE UNCHANGED vars
  <2>1. UNCHANGED <<attempts, jobs>> /\ row'.route = row.route
    BY <1>1 DEF vars
  <2>2. RouteIsKnown' /\ IdsAreTrue' /\ PhaseIsTrue' /\ PriceIsTrue' /\ RouteIsNew'
    BY <1>1, <2>1, AttemptsKept DEF vars
  <2>. QED  BY <1>0, <2>1, <2>2, AttemptsKept
<1>2. CASE Claim
  <2>1. UNCHANGED <<attempts, jobs>> /\ row'.route = row.route
    BY <1>2 DEF Claim
  <2>2. LastAttempt' = LastAttempt /\ Tried' = Tried /\ NoJobYet' = NoJobYet
    BY <2>1, AttemptsKept
  <2>3. RouteIsKnown' /\ IdsAreTrue' /\ PriceIsTrue' /\ RouteIsNew'
    BY <1>2, <2>1, <2>2 DEF Claim
  <2>4. PhaseIsTrue'
    BY <1>2, <2>1, <2>2 DEF Claim
  <2>. QED  BY <1>0, <2>1, <2>3, <2>4, AttemptsKept
<1>3. CASE Begin
  <2>1. CASE attempts # <<>> /\ Resume /\ UNCHANGED faults
    <3>1. LastAttempt \in Attempt /\ Len(attempts) \in DOMAIN attempts
      BY <2>1, LastHasType
    <3> DEFINE a == [LastAttempt EXCEPT !.dispatch = "accepted"]
               id == RequestId
    <3>2. /\ a \in Attempt /\ a.route = LastAttempt.route
          /\ a.dispatch = "accepted" /\ a.request = LastAttempt.request
      BY <3>1 DEF Attempt
    <3>3. IsJob(a.request) /\ IsJob(id) /\ id # NoJob /\ id \in Nat
      BY <2>1, <3>1, <3>2 DEF AttemptIdsAreTrue, LastAttempt, Resume, RequestId, Attempt
    <3>4. UNCHANGED <<jobs, order, cancel>> /\ SaveLast(a)
          /\ row' = [row EXCEPT !.request = id]
          /\ exec' = [exec EXCEPT !.request = id, !.step = "bill"]
          /\ exec.step = "begin"
      BY <1>3, <2>1 DEF Begin, Resume
    <3> HIDE DEF a, id
    <3>5. row'.route = row.route
      BY <3>4
    <3>6. /\ JobIsLast' /\ UnsentIsCurrent' /\ AttemptIdsAreTrue' /\ RoutesAreTriedOnce'
          /\ LastAttempt' = a /\ Tried' = Tried /\ NoJobYet' = NoJobYet
      BY <2>1, <3>2, <3>3, <3>4, <3>5, LastSaved
    <3>7. RouteIsKnown' /\ IdsAreTrue' /\ PriceIsTrue' /\ RouteIsNew'
      BY <3>3, <3>4, <3>5, <3>6
    <3>8. PhaseIsTrue'
      BY <3>3, <3>4, <3>5, <3>6
    <3>. QED  BY <1>0, <3>6, <3>7, <3>8
  <2>3. CASE attempts # <<>> /\ ResumeUnsaved /\ Fault
    <3>1. LastAttempt \in Attempt /\ Len(attempts) \in DOMAIN attempts
      BY <2>3, LastHasType
    <3> DEFINE id == RequestId
    <3>2. IsJob(id) /\ id # NoJob /\ id \in Nat
      BY <2>3, <3>1 DEF AttemptIdsAreTrue, LastAttempt, ResumeUnsaved, RequestId, Attempt
    <3>3. UNCHANGED <<jobs, order, cancel, attempts>>
          /\ row' = [row EXCEPT !.request = id]
          /\ exec' = [exec EXCEPT !.request = id, !.step = "fail", !.failure = "unprepared"]
          /\ exec.step = "begin"
      BY <1>3, <2>3 DEF Begin, ResumeUnsaved
    <3> HIDE DEF id
    <3>4. row'.route = row.route
      BY <3>3
    <3>5. LastAttempt' = LastAttempt /\ Tried' = Tried /\ NoJobYet' = NoJobYet
      BY <3>3, AttemptsKept
    <3>6. RouteIsKnown' /\ IdsAreTrue' /\ PriceIsTrue' /\ RouteIsNew'
      BY <3>2, <3>3, <3>4, <3>5
    <3>7. PhaseIsTrue'
      BY <3>2, <3>3, <3>4, <3>5
    <3>. QED  BY <1>0, <3>3, <3>4, <3>6, <3>7, AttemptsKept
  <2>2. CASE /\ ~(attempts # <<>> /\ Resume /\ UNCHANGED faults)
             /\ ~(attempts # <<>> /\ ResumeUnsaved /\ Fault)
    <3>1. UNCHANGED <<row, order, attempts, jobs, cancel>> /\ row'.route = row.route
      BY <1>3, <2>2 DEF Begin
    <3>2. LastAttempt' = LastAttempt /\ Tried' = Tried /\ NoJobYet' = NoJobYet
      BY <3>1, AttemptsKept
    <3>3. /\ exec.step = "begin" /\ exec'.route = exec.route
          /\ exec'.request = exec.request /\ exec'.job = exec.job
      BY <1>3, <2>2, ZenonT(60) DEF Begin, StopUncertain
    <3>4. \/ exec'.step = "create" /\ attempts = <<>>
          \/ exec'.step = "switch" /\ attempts = <<>>
          \/ exec'.step = "switch" /\ LastAttempt.dispatch = "rejected_no_job"
          \/ exec'.step = "bill" /\ LastAttempt.dispatch = "not_sent"
             /\ exec'.failure = exec.failure
          \/ exec'.step = "fail"
      BY <1>3, <2>2 DEF Begin, StopUncertain
    <3>5. attempts = <<>> => Tried = {}
      BY DEF Tried
    <3>6. RouteIsKnown' /\ IdsAreTrue' /\ PriceIsTrue' /\ RouteIsNew'
      BY <3>1, <3>2, <3>3, <3>4, <3>5
    <3>7. attempts = <<>> \/ LastAttempt.dispatch = "rejected_no_job" => NoJobYet
      BY DEF JobIsLast
    <3>8. PhaseIsTrue'
      BY <3>1, <3>2, <3>3, <3>4, <3>7
    <3>. QED  BY <1>0, <3>1, <3>6, <3>8, AttemptsKept
  <2>. QED  BY <2>1, <2>2, <2>3
<1>4. CASE SwitchTaskLogicalRoute
  <2>1. UNCHANGED <<attempts, jobs, cancel>> /\ exec.step = "switch" /\ NoJobYet
    BY <1>4 DEF SwitchTaskLogicalRoute
  <2>2. CASE NoRoute /\ UNCHANGED <<row, order>>
    <3>1. row'.route = row.route
      BY <2>2
    <3>2. RouteIsKnown' /\ IdsAreTrue' /\ PriceIsTrue' /\ RouteIsNew' /\ PhaseIsTrue'
      BY <2>1, <2>2, <3>1, AttemptsKept DEF NoRoute
    <3>. QED  BY <1>0, <2>1, <3>1, <3>2, AttemptsKept
  <2>3. CASE ~(NoRoute /\ UNCHANGED <<row, order>>)
    <3>1. PICK r \in Route \ Tried :
            /\ row' = [row EXCEPT !.route = r]
            /\ order.status \in {"reserved", "running"}
            /\ order' = [order EXCEPT !.route = r]
            /\ exec' = [exec EXCEPT !.step = "create", !.route = r, !.request = NoJob]
      BY <1>4, <2>3 DEF SwitchTaskLogicalRoute
    <3>2. r \in Route /\ r \notin Tried
      BY <3>1
    <3>3. NoJobYet' /\ LastAttempt' = LastAttempt /\ Tried' = Tried
      BY <2>1 DEF NoJobYet, LastAttempt, Tried
    <3>4. JobIsLast' /\ RoutesAreTriedOnce'
      BY <2>1, <3>3 DEF JobIsLast, RoutesAreTriedOnce
    <3>5. UnsentIsCurrent'
      BY <2>1, <3>3 DEF UnsentIsCurrent
    <3>6. AttemptIdsAreTrue'
      BY <2>1, <3>3 DEF AttemptIdsAreTrue
    <3>7. RouteIsKnown' /\ IdsAreTrue' /\ PriceIsTrue' /\ RouteIsNew'
      BY <2>1, <3>1, <3>2, <3>3
    <3>8. PhaseIsTrue'
      BY <2>1, <3>1, <3>2, <3>3
    <3>. QED  BY <1>0, <3>4, <3>5, <3>6, <3>7, <3>8
  <2>. QED  BY <2>2, <2>3
<1>5. CASE CreateRouteAttempt
  <2>1. UNCHANGED <<row, order, jobs, cancel>> /\ exec.step = "create"
        /\ NoJobYet /\ row'.route = row.route
    BY <1>5 DEF CreateRouteAttempt
  <2>2. CASE NoRoute /\ UNCHANGED attempts
    <3>1. RouteIsKnown' /\ IdsAreTrue' /\ PriceIsTrue' /\ RouteIsNew' /\ PhaseIsTrue'
      BY <2>1, <2>2, AttemptsKept DEF NoRoute
    <3>. QED  BY <1>0, <2>1, <2>2, <3>1, AttemptsKept
  <2> DEFINE a == [route |-> exec.route, request |-> NoJob, dispatch |-> "not_sent"]
  <2>3. CASE attempts' = Append(attempts, a)
            /\ GotoWith(IF exec.failure = "none" THEN "bill" ELSE "mark", "none")
    <3>1. a \in Attempt /\ a.route = row.route /\ a.route \notin Tried
          /\ a.dispatch = "not_sent" /\ a.request = NoJob
      BY <2>1 DEF Attempt
    <3> HIDE DEF a
    <3>2. /\ Len(attempts') = Len(attempts) + 1
          /\ DOMAIN attempts' = DOMAIN attempts \cup {Len(attempts')}
          /\ attempts'[Len(attempts')] = a
          /\ \A i \in DOMAIN attempts : attempts'[i] = attempts[i]
      BY <2>3, <3>1, OneAppended
    <3>3. LastAttempt' = a /\ NoJobYet'
      BY <2>1, <3>2 DEF LastAttempt, NoJobYet
    <3>4. JobIsLast' /\ UnsentIsCurrent'
      BY <2>1, <3>1, <3>3 DEF JobIsLast, UnsentIsCurrent
    <3>5. AttemptIdsAreTrue'
      BY <2>1, <3>1, <3>2 DEF AttemptIdsAreTrue
    <3>6. RoutesAreTriedOnce'
      BY <3>1, <3>2 DEF RoutesAreTriedOnce, Tried
    <3>7. exec'.step \in {"bill", "mark"} /\ exec'.failure = "none" /\ exec'.route = exec.route
          /\ exec'.request = exec.request /\ exec'.job = exec.job
      BY <2>3
    <3>8. RouteIsKnown' /\ IdsAreTrue' /\ PriceIsTrue' /\ RouteIsNew'
      BY <2>1, <3>3, <3>7
    <3>9. PhaseIsTrue'
      BY <2>1, <3>1, <3>3, <3>7
    <3>. QED  BY <1>0, <3>4, <3>5, <3>6, <3>8, <3>9
  <2>. QED  BY <1>5, <2>2, <2>3 DEF CreateRouteAttempt
<1>6. CASE MarkBillingRunning
  <2>1. UNCHANGED <<attempts, jobs>> /\ row'.route = row.route
    BY <1>6 DEF MarkBillingRunning
  <2>2. LastAttempt' = LastAttempt /\ Tried' = Tried /\ NoJobYet' = NoJobYet
    BY <2>1, AttemptsKept
  <2>3. RouteIsKnown' /\ IdsAreTrue' /\ PriceIsTrue' /\ RouteIsNew'
    BY <1>6, <2>1, <2>2, ZenonT(60) DEF MarkBillingRunning
  <2>4. PhaseIsTrue'
    BY <1>6, <2>1, <2>2, ZenonT(60) DEF MarkBillingRunning
  <2>. QED  BY <1>0, <2>1, <2>3, <2>4, AttemptsKept
<1>7. CASE MarkDispatching
  <2>1. UNCHANGED <<row, order, jobs, cancel>> /\ exec.step = "mark"
        /\ attempts # <<>> /\ row'.route = row.route
    BY <1>7 DEF MarkDispatching, HasAttempt
  <2>2. /\ exec'.route = exec.route /\ exec'.request = exec.request /\ exec'.job = exec.job
        /\ \/ exec'.step = "fail"
           \/ exec'.step = "call" /\ exec'.failure = exec.failure
    BY <1>7 DEF MarkDispatching
  <2> DEFINE a == [LastAttempt EXCEPT !.dispatch = "submission_unknown"]
  <2>3. CASE UNCHANGED attempts
    <3>1. exec'.step = "call" => LastAttempt.dispatch # "not_sent"
      <4>1. LastAttempt \in Attempt
        BY <2>1, LastHasType
      <4> SUFFICES ASSUME exec'.step = "call", LastAttempt.dispatch = "not_sent" PROVE FALSE
        OBVIOUS
      <4>2. attempts' = [attempts EXCEPT ![Len(attempts)] = a]
        BY <1>7 DEF MarkDispatching, SaveLast
      <4>3. a \in Attempt /\ a.dispatch = "submission_unknown"
        BY <4>1 DEF Attempt
      <4> HIDE DEF a
      <4>4. LastAttempt' = a
        BY <2>1, <4>2, <4>3, SavedLast DEF SaveLast
      <4>. QED  BY <2>3, <4>3, <4>4 DEF LastAttempt
    <3>2. LastAttempt' = LastAttempt /\ Tried' = Tried /\ NoJobYet' = NoJobYet
      BY <2>1, <2>3, AttemptsKept
    <3>3. RouteIsKnown' /\ IdsAreTrue' /\ PriceIsTrue' /\ RouteIsNew'
      BY <2>1, <2>2, <3>2
    <3>4. PhaseIsTrue'
      BY <2>1, <2>2, <3>1, <3>2
    <3>. QED  BY <1>0, <2>1, <2>3, <3>3, <3>4, AttemptsKept
  <2>4. CASE LastAttempt.dispatch = "not_sent" /\ SaveLast(a)
    <3>1. /\ a \in Attempt /\ a.route = LastAttempt.route
          /\ a.dispatch = "submission_unknown" /\ a.request = LastAttempt.request
      BY <2>1, LastHasType DEF Attempt
    <3>2. NoJobYet
      BY <2>4 DEF JobIsLast
    <3>3. LastAttempt.route = row.route /\ IsJob(a.request)
      BY <2>1, <2>4, <3>1, LastHasType DEF UnsentIsCurrent, AttemptIdsAreTrue, LastAttempt
    <3> HIDE DEF a
    <3>4. /\ JobIsLast' /\ UnsentIsCurrent' /\ AttemptIdsAreTrue' /\ RoutesAreTriedOnce'
          /\ LastAttempt' = a /\ Tried' = Tried /\ NoJobYet' = NoJobYet
      BY <2>1, <2>4, <3>1, <3>3, LastSaved
    <3>5. RouteIsKnown' /\ IdsAreTrue' /\ PriceIsTrue' /\ RouteIsNew'
      BY <2>1, <2>2, <3>4
    <3>6. PhaseIsTrue'
      BY <2>1, <2>2, <3>1, <3>2, <3>3, <3>4
    <3>. QED  BY <1>0, <3>4, <3>5, <3>6
  <2>. QED  BY <1>7, <2>3, <2>4 DEF MarkDispatching
<1>8. CASE Call
  <2>1. UNCHANGED <<row, order, attempts, cancel>> /\ exec.step = "call"
        /\ attempts # <<>> /\ row'.route = row.route /\ exec'.route = exec.route
        /\ exec'.request = exec.request
    BY <1>8, ZenonT(60) DEF Call, HasAttempt
  <2>2. CASE UNCHANGED jobs
    <3>1. LastAttempt' = LastAttempt /\ Tried' = Tried /\ NoJobYet' = NoJobYet
      BY <2>1, <2>2, AttemptsKept
    <3>2. CASE exec.request # NoJob /\ Goto("poll")
      <4>1. RouteIsKnown' /\ IdsAreTrue' /\ PriceIsTrue' /\ RouteIsNew'
        BY <2>1, <3>1, <3>2
      <4>2. PhaseIsTrue'
        BY <2>1, <3>1, <3>2
      <4>. QED  BY <1>0, <2>1, <2>2, <4>1, <4>2, AttemptsKept
    <3>3. CASE exec.request = NoJob /\ exec'.job = exec.job
                /\ exec'.step = "refresh" /\ exec'.failure # "none"
      <4>1. RouteIsKnown' /\ IdsAreTrue' /\ PriceIsTrue' /\ RouteIsNew'
        BY <2>1, <3>1, <3>3
      <4>2. PhaseIsTrue'
        BY <2>1, <3>1, <3>3
      <4>. QED  BY <1>0, <2>1, <2>2, <4>1, <4>2, AttemptsKept
    <3>4. ~NewJob
      <4> SUFFICES ASSUME NewJob PROVE FALSE
        OBVIOUS
      <4> DEFINE a == [route |-> exec.route, attempt |-> Len(attempts)]
      <4>1. a \in Job
        BY <2>1, LastHasType DEF Job
      <4>2. jobs' = Append(jobs, a)
        BY DEF NewJob
      <4> HIDE DEF a
      <4>3. Len(jobs') = Len(jobs) + 1 /\ Len(jobs) \in Nat
        BY <4>1, <4>2, OneAppended, LenProperties
      <4>. QED  BY <2>2, <4>3
    <3>. QED  BY <1>8, <3>2, <3>3, <3>4 DEF Call
  <2>3. CASE NewJob /\ exec.request = NoJob
    <3>1. NoJobYet /\ LastAttempt.dispatch = "submission_unknown"
          /\ LastAttempt.route = row.route
      BY <2>1, <2>3
    <3>2. jobs' = <<[route |-> row.route, attempt |-> Len(attempts)]>>
      BY <2>1, <2>3, <3>1 DEF NewJob, NoJobYet
    <3>3. ~NoJobYet' /\ Len(jobs) = 0
      BY <3>1, <3>2 DEF NoJobYet
    <3>4. LastAttempt' = LastAttempt /\ Tried' = Tried
      BY <2>1 DEF LastAttempt, Tried
    <3>5. JobIsLast'
      BY <2>1, <3>1, <3>2, <3>4 DEF JobIsLast
    <3>6. UnsentIsCurrent' /\ RoutesAreTriedOnce'
      BY <2>1, <3>4 DEF UnsentIsCurrent, RoutesAreTriedOnce
    <3>7. AttemptIdsAreTrue'
      BY <2>1, <3>3 DEF AttemptIdsAreTrue
    <3>8. \/ exec'.step = "refresh" /\ exec'.failure = "lost" /\ exec'.job = exec.job
          \/ exec'.step \in {"record", "refresh"} /\ exec'.failure = exec.failure /\ exec'.job = 1
      <4>1. CASE GotoWith("refresh", "lost")
        BY <4>1
      <4>2. CASE \E answer \in Answers :
                   exec' = [exec EXCEPT
                        !.job = Len(jobs) + 1,
                        !.step = CASE answer = "polled" -> "record"
                                   [] answer = "link" -> "download"
                                   [] OTHER -> "refresh"]
        <5>1. PICK answer \in Answers :
                   exec' = [exec EXCEPT
                        !.job = Len(jobs) + 1,
                        !.step = CASE answer = "polled" -> "record"
                                   [] answer = "link" -> "download"
                                   [] OTHER -> "refresh"]
          BY <4>2
        <5>2. answer # "link" /\ Len(jobs) + 1 = 1
          BY <3>3 DEF NoLink
        <5>3. CASE answer = "polled"
          BY <5>1, <5>2, <5>3
        <5>4. CASE answer # "polled"
          BY <5>1, <5>2, <5>4
        <5>. QED  BY <5>3, <5>4
      <4>3. CASE UNCHANGED jobs
        BY <3>1, <3>3, <4>3 DEF NoJobYet
      <4>. QED  BY <1>8, <2>3, <4>1, <4>2, <4>3 DEF Call
    <3>9. RouteIsKnown' /\ IdsAreTrue' /\ PriceIsTrue' /\ RouteIsNew'
      BY <2>1, <3>1, <3>3, <3>8
    <3>10. PhaseIsTrue'
      BY <2>1, <3>1, <3>3, <3>4, <3>8
    <3>. QED  BY <1>0, <3>5, <3>6, <3>7, <3>9, <3>10
  <2>. QED  BY <1>8, <2>2, <2>3 DEF Call
<1>9. CASE Record
  <2>1. UNCHANGED <<attempts, jobs>> /\ row'.route = row.route
    BY <1>9 DEF Record
  <2>2. LastAttempt' = LastAttempt /\ Tried' = Tried /\ NoJobYet' = NoJobYet
    BY <2>1, AttemptsKept
  <2>3. RouteIsKnown' /\ IdsAreTrue' /\ PriceIsTrue' /\ RouteIsNew'
    BY <1>9, <2>1, <2>2 DEF Record
  <2>4. PhaseIsTrue'
    BY <1>9, <2>1, <2>2 DEF Record
  <2>. QED  BY <1>0, <2>1, <2>3, <2>4, AttemptsKept
<1>10. CASE Poll
  <2>1. UNCHANGED <<attempts, jobs>> /\ row'.route = row.route
    BY <1>10 DEF Poll
  <2>2. LastAttempt' = LastAttempt /\ Tried' = Tried /\ NoJobYet' = NoJobYet
    BY <2>1, AttemptsKept
  <2>3. RouteIsKnown' /\ IdsAreTrue' /\ PriceIsTrue' /\ RouteIsNew'
    BY <1>10, <2>1, <2>2, ZenonT(60) DEF Poll
  <2>4. PhaseIsTrue'
    BY <1>10, <2>1, <2>2, ZenonT(60) DEF Poll
  <2>. QED  BY <1>0, <2>1, <2>3, <2>4, AttemptsKept
<1>11. CASE Download
  <2>1. UNCHANGED <<attempts, jobs>> /\ row'.route = row.route
    BY <1>11 DEF Download
  <2>2. LastAttempt' = LastAttempt /\ Tried' = Tried /\ NoJobYet' = NoJobYet
    BY <2>1, AttemptsKept
  <2>3. RouteIsKnown' /\ IdsAreTrue' /\ PriceIsTrue' /\ RouteIsNew'
    BY <1>11, <2>1, <2>2, ZenonT(60) DEF Download
  <2>4. PhaseIsTrue'
    BY <1>11, <2>1, <2>2, ZenonT(60) DEF Download
  <2>. QED  BY <1>0, <2>1, <2>3, <2>4, AttemptsKept
<1>12. CASE Refresh
  <2>1. UNCHANGED <<attempts, jobs>> /\ row'.route = row.route
    BY <1>12 DEF Refresh
  <2>2. LastAttempt' = LastAttempt /\ Tried' = Tried /\ NoJobYet' = NoJobYet
    BY <2>1, AttemptsKept
  <2>3. RouteIsKnown' /\ IdsAreTrue' /\ PriceIsTrue' /\ RouteIsNew'
    BY <1>12, <2>1, <2>2 DEF Refresh
  <2>4. PhaseIsTrue'
    BY <1>12, <2>1, <2>2, ZenonT(60) DEF Refresh
  <2>. QED  BY <1>0, <2>1, <2>3, <2>4, AttemptsKept
<1>13. CASE FinishAttempt
  <2>1. UNCHANGED <<row, order, jobs, cancel>> /\ exec.step = "finish"
        /\ attempts # <<>> /\ row'.route = row.route
    BY <1>13 DEF FinishAttempt, HasAttempt
  <2>2. /\ exec'.route = exec.route /\ exec'.request = exec.request /\ exec'.job = exec.job
        /\ exec'.failure = exec.failure
        /\ \/ exec'.step = "save" /\ exec.failure = "none"
           \/ exec'.step = "next" /\ exec.failure = "rejected" /\ exec.request = NoJob
           \/ exec'.step = "fail"
    BY <1>13 DEF FinishAttempt, Verdict
  <2>3. /\ Verdict \in {"accepted", "rejected_no_job", "submission_unknown"}
        /\ Verdict = "rejected_no_job" => NoJobYet
    BY <2>1 DEF Verdict
  <2> DEFINE a == [LastAttempt EXCEPT !.dispatch = Verdict, !.request = exec.request]
  <2>4. CASE UNCHANGED attempts
    <3>1. LastAttempt' = LastAttempt /\ Tried' = Tried /\ NoJobYet' = NoJobYet
      BY <2>1, <2>4, AttemptsKept
    <3>2. RouteIsKnown' /\ IdsAreTrue' /\ PriceIsTrue' /\ RouteIsNew'
      BY <2>1, <2>2, <3>1
    <3>3. PhaseIsTrue'
      BY <2>1, <2>2, <3>1
    <3>. QED  BY <1>0, <2>1, <2>4, <3>2, <3>3, AttemptsKept
  <2>5. CASE SaveLast(a)
    <3>1. /\ a \in Attempt /\ a.route = LastAttempt.route
          /\ a.dispatch = Verdict /\ a.request = exec.request
      BY <2>1, <2>3, LastHasType DEF Attempt
    <3> HIDE DEF a
    <3>2. /\ JobIsLast' /\ UnsentIsCurrent' /\ AttemptIdsAreTrue' /\ RoutesAreTriedOnce'
          /\ LastAttempt' = a /\ Tried' = Tried /\ NoJobYet' = NoJobYet
      BY <2>1, <2>3, <2>5, <3>1, LastSaved
    <3>3. RouteIsKnown' /\ IdsAreTrue' /\ PriceIsTrue' /\ RouteIsNew'
      BY <2>1, <2>2, <3>2
    <3>4. PhaseIsTrue'
      BY <2>1, <2>2, <2>3, <3>1, <3>2
    <3>. QED  BY <1>0, <3>2, <3>3, <3>4
  <2>. QED  BY <1>13, <2>4, <2>5 DEF FinishAttempt
<1>14. CASE NextRoute
  <2>1. UNCHANGED <<attempts, jobs>> /\ row'.route = row.route
    BY <1>14 DEF NextRoute
  <2>2. LastAttempt' = LastAttempt /\ Tried' = Tried /\ NoJobYet' = NoJobYet
    BY <2>1, AttemptsKept
  <2>3. RouteIsKnown' /\ IdsAreTrue' /\ PriceIsTrue' /\ RouteIsNew'
    BY <1>14, <2>1, <2>2 DEF NextRoute
  <2>4. PhaseIsTrue'
    BY <1>14, <2>1, <2>2 DEF NextRoute
  <2>. QED  BY <1>0, <2>1, <2>3, <2>4, AttemptsKept
<1>15. CASE Save
  <2>1. UNCHANGED <<attempts, jobs>> /\ row'.route = row.route
    BY <1>15 DEF Save
  <2>2. LastAttempt' = LastAttempt /\ Tried' = Tried /\ NoJobYet' = NoJobYet
    BY <2>1, AttemptsKept
  <2>3. RouteIsKnown' /\ IdsAreTrue' /\ PriceIsTrue' /\ RouteIsNew'
    BY <1>15, <2>1, <2>2, ZenonT(60) DEF Save
  <2>4. PhaseIsTrue'
    BY <1>15, <2>1, <2>2, ZenonT(60) DEF Save
  <2>. QED  BY <1>0, <2>1, <2>3, <2>4, AttemptsKept
<1>16. CASE Settle
  <2>1. UNCHANGED <<attempts, jobs>> /\ row'.route = row.route
    BY <1>16 DEF Settle
  <2>2. LastAttempt' = LastAttempt /\ Tried' = Tried /\ NoJobYet' = NoJobYet
    BY <2>1, AttemptsKept
  <2>3. RouteIsKnown' /\ IdsAreTrue' /\ PriceIsTrue' /\ RouteIsNew'
    BY <1>16, <2>1, <2>2 DEF Settle
  <2>4. PhaseIsTrue'
    BY <1>16, <2>1, <2>2 DEF Settle
  <2>. QED  BY <1>0, <2>1, <2>3, <2>4, AttemptsKept
<1>17. CASE Fail
  <2>1. UNCHANGED <<attempts, jobs>> /\ row'.route = row.route
    BY <1>17 DEF Fail
  <2>2. LastAttempt' = LastAttempt /\ Tried' = Tried /\ NoJobYet' = NoJobYet
    BY <2>1, AttemptsKept
  <2>3. RouteIsKnown' /\ IdsAreTrue' /\ PriceIsTrue' /\ RouteIsNew'
    BY <1>17, <2>1, <2>2 DEF Fail
  <2>4. PhaseIsTrue'
    BY <1>17, <2>1, <2>2 DEF Fail
  <2>. QED  BY <1>0, <2>1, <2>3, <2>4, AttemptsKept
<1>18. CASE CloseOrder
  <2>1. UNCHANGED <<attempts, jobs>> /\ row'.route = row.route
    BY <1>18 DEF CloseOrder
  <2>2. LastAttempt' = LastAttempt /\ Tried' = Tried /\ NoJobYet' = NoJobYet
    BY <2>1, AttemptsKept
  <2>3. RouteIsKnown' /\ IdsAreTrue' /\ PriceIsTrue' /\ RouteIsNew'
    BY <1>18, <2>1, <2>2 DEF CloseOrder
  <2>4. PhaseIsTrue'
    BY <1>18, <2>1, <2>2 DEF CloseOrder
  <2>. QED  BY <1>0, <2>1, <2>3, <2>4, AttemptsKept
<1>19. CASE Abandon
  <2>1. UNCHANGED <<attempts, jobs>> /\ row'.route = row.route
    BY <1>19 DEF Abandon
  <2>2. LastAttempt' = LastAttempt /\ Tried' = Tried /\ NoJobYet' = NoJobYet
    BY <2>1, AttemptsKept
  <2>3. RouteIsKnown' /\ IdsAreTrue' /\ PriceIsTrue' /\ RouteIsNew'
    BY <1>19, <2>1, <2>2 DEF Abandon
  <2>4. PhaseIsTrue'
    BY <1>19, <2>1, <2>2 DEF Abandon
  <2>. QED  BY <1>0, <2>1, <2>3, <2>4, AttemptsKept
<1>20. CASE BeginCancel
  <2>1. UNCHANGED <<attempts, jobs>> /\ row'.route = row.route
    BY <1>20 DEF BeginCancel
  <2>2. LastAttempt' = LastAttempt /\ Tried' = Tried /\ NoJobYet' = NoJobYet
    BY <2>1, AttemptsKept
  <2>3. RouteIsKnown' /\ IdsAreTrue' /\ PriceIsTrue' /\ RouteIsNew'
    BY <1>20, <2>1, <2>2 DEF BeginCancel
  <2>4. PhaseIsTrue'
    BY <1>20, <2>1, <2>2 DEF BeginCancel
  <2>. QED  BY <1>0, <2>1, <2>3, <2>4, AttemptsKept
<1>21. CASE CancelIfStatus
  <2>1. UNCHANGED <<attempts, jobs>> /\ row'.route = row.route
    BY <1>21 DEF CancelIfStatus
  <2>2. LastAttempt' = LastAttempt /\ Tried' = Tried /\ NoJobYet' = NoJobYet
    BY <2>1, AttemptsKept
  <2>3. RouteIsKnown' /\ IdsAreTrue' /\ PriceIsTrue' /\ RouteIsNew'
    BY <1>21, <2>1, <2>2 DEF CancelIfStatus
  <2>4. PhaseIsTrue'
    BY <1>21, <2>1, <2>2 DEF CancelIfStatus
  <2>. QED  BY <1>0, <2>1, <2>3, <2>4, AttemptsKept
<1>22. CASE CloseCancelled
  <2>1. UNCHANGED <<attempts, jobs>> /\ row'.route = row.route
    BY <1>22 DEF CloseCancelled
  <2>2. LastAttempt' = LastAttempt /\ Tried' = Tried /\ NoJobYet' = NoJobYet
    BY <2>1, AttemptsKept
  <2>3. RouteIsKnown' /\ IdsAreTrue' /\ PriceIsTrue' /\ RouteIsNew'
    BY <1>22, <2>1, <2>2 DEF CloseCancelled
  <2>4. PhaseIsTrue'
    BY <1>22, <2>1, <2>2 DEF CloseCancelled
  <2>. QED  BY <1>0, <2>1, <2>3, <2>4, AttemptsKept
<1>. QED
  BY <1>1, <1>2, <1>3, <1>4, <1>5, <1>6, <1>7, <1>8, <1>9, <1>10, <1>11, <1>12, <1>13, <1>14, <1>15, <1>16, <1>17, <1>18, <1>19, <1>20, <1>21, <1>22 DEF Next, Execute

-----------------------------------------------------------------------------
(* The theorems                                                            *)

\* The rows and what an execution remembers keep their types, whatever an answer
\* holds.
THEOREM TypeCorrect == Spec => []TypeOK
<1>1. Init => TypeInv
  BY InitTypes DEF Init, TypeInv, HasAttempt
<1>2. TypeInv => TypeOK
  BY DEF TypeInv
<1>. QED  BY <1>1, <1>2, NextTypes, PTL DEF Spec

LEMMA Invariant == ASSUME NoLink PROVE Spec => []IInv
<1>1. IInv /\ [Next]_vars => IInv'
  BY NextInv
<1>. QED  BY <1>1, InitInv, PTL DEF Spec

\* A run has at most one job at suppliers, with any number of routes and of failed
\* statements and executions, if no answer to a create call is only a link.
THEOREM OneJob == ASSUME NoLink PROVE Spec => []OneJobPerRun
<1>1. IInv => OneJobPerRun
  <2> SUFFICES ASSUME IInv PROVE Len(jobs) <= 1
    BY DEF OneJobPerRun
  <2>1. CASE jobs = <<>>
    BY <2>1
  <2>2. CASE jobs = <<[route |-> row.route, attempt |-> Len(attempts)]>>
    BY <2>2
  <2>. QED  BY <2>1, <2>2 DEF IInv, JobIsLast, NoJobYet
<1>. QED  BY <1>1, Invariant, PTL

\* The attempt that made the job never says that there is none.
THEOREM JobsRemembered == ASSUME NoLink PROVE Spec => []JobsAreRemembered
<1>1. IInv => JobsAreRemembered
  <2> SUFFICES ASSUME IInv, NEW j \in DOMAIN jobs
               PROVE attempts[jobs[j].attempt].dispatch \in {"submission_unknown", "accepted"}
    BY DEF JobsAreRemembered
  <2>1. jobs = <<[route |-> row.route, attempt |-> Len(attempts)]>>
        /\ LastAttempt.dispatch \in {"submission_unknown", "accepted"}
    BY DEF IInv, JobIsLast, NoJobYet
  <2>2. j = 1 /\ jobs[j].attempt = Len(attempts)
    BY <2>1
  <2>. QED  BY <2>1, <2>2 DEF LastAttempt
<1>. QED  BY <1>1, Invariant, PTL

\* A request id is the one of the attempt and the route that made the job.
THEOREM RequestsKept == ASSUME NoLink PROVE Spec => []RequestsKeepTheirRoute
<1>1. IInv => RequestsKeepTheirRoute
  <2> SUFFICES ASSUME IInv PROVE RequestsKeepTheirRoute
    OBVIOUS
  <2>1. jobs # <<>> => /\ jobs[1].route = row.route /\ jobs[1].attempt = Len(attempts)
                       /\ LastAttempt.route = row.route
    BY DEF IInv, JobIsLast, NoJobYet
  <2>2. row.request # NoJob => row.request = 1 /\ jobs # <<>>
    BY DEF IInv, IdsAreTrue, IsJob, NoJobYet
  <2>3. ASSUME NEW i \in DOMAIN attempts, attempts[i].request # NoJob
        PROVE  i = Len(attempts) /\ attempts[i].request = 1 /\ jobs # <<>>
    BY <2>3 DEF IInv, AttemptIdsAreTrue, IsJob, NoJobYet
  <2>. QED  BY <2>1, <2>2, <2>3 DEF RequestsKeepTheirRoute, LastAttempt
<1>. QED  BY <1>1, Invariant, PTL

\* Order and task name the same route, and what is settled is the price of the route
\* that made the job.
THEOREM PriceFollows == ASSUME NoLink PROVE Spec => []PriceFollowsTheRoute
<1>1. IInv => PriceFollowsTheRoute
  <2> SUFFICES ASSUME IInv PROVE PriceFollowsTheRoute
    OBVIOUS
  <2>1. jobs # <<>> => jobs[Len(jobs)].route = row.route
    BY DEF IInv, JobIsLast, NoJobYet
  <2>. QED  BY <2>1 DEF IInv, PriceIsTrue, NoJobYet, PriceFollowsTheRoute
<1>. QED  BY <1>1, Invariant, PTL

\* A failover never comes back to a route.
THEOREM RoutesOnce == ASSUME NoLink PROVE Spec => []RoutesAreTriedOnce
<1>1. IInv => RoutesAreTriedOnce
  BY DEF IInv
<1>. QED  BY <1>1, Invariant, PTL

=============================================================================
