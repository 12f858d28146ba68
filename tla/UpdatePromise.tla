---------------------------- MODULE UpdatePromise ----------------------------
(***************************************************************************)
(* What the host updater promises the administrator: an operation starts   *)
(* from one release, and what it reports at its end is what the deployment *)
(* then serves.  Between operations nothing changes the release.  The      *)
(* promise ends with the first operation that overlaps another one.        *)
(***************************************************************************)
EXTENDS Naturals

CONSTANTS MaxRelease

VARIABLES
    serving,    \* the release the deployment serves, None when it cannot say
    busy,       \* an operation is under way
    base,       \* the release an operation started from
    goal,       \* the release it is to serve: above base for an update
    verdict,    \* what is reported of the last operation, "none" before
    overtaken,  \* the answer to a check was written over the report of this operation
    overlapped  \* an operation was begun while another was under way

promised == <<serving, busy, base, goal, verdict, overtaken, overlapped>>

Releases == 1 .. MaxRelease
NotServing == 0

PromiseInit ==
    /\ serving = 1 /\ busy = FALSE /\ base = NotServing /\ goal = NotServing
    /\ verdict = "none" /\ overtaken = FALSE /\ overlapped = FALSE

\* The administrator looks for a new release.
Look ==
    /\ ~busy /\ verdict' \in {"none", "failed"}
    /\ UNCHANGED <<serving, busy, base, goal, overtaken, overlapped>>

Begin ==
    /\ ~busy /\ busy' = TRUE
    /\ base' \in Releases /\ goal' \in Releases
    /\ serving \in {NotServing, base'}
    /\ serving' = NotServing /\ verdict' = "none"
    /\ overtaken' = FALSE /\ UNCHANGED overlapped

\* The answer to a check comes in during the operation and stands for its report,
\* until the operation goes on to its next phase.
Overtake ==
    /\ busy /\ verdict' \in {"none", "failed"} /\ overtaken' = TRUE
    /\ UNCHANGED <<serving, busy, base, goal, overlapped>>

Finish(result, left) ==
    /\ busy /\ busy' = FALSE
    /\ verdict' = result
    /\ serving' \in left
    /\ UNCHANGED <<base, goal, overtaken, overlapped>>

Before == IF goal > base THEN base ELSE goal
Anything == Releases \cup {NotServing}

\* Succeeded: the goal is served.  Failed: what was served is, untouched.
\* Rolled back: the release before the update.  Otherwise no promise; the report
\* is lost when the daemon stops while an answer stands for it.
End ==
    \/ goal > base /\ Finish("succeeded", {goal})
    \/ goal > base /\ Finish("failed", {base, NotServing})
    \/ Finish("rolled_back", {Before})
    \/ Finish("manual_intervention", Anything)
    \/ overtaken /\ Finish(verdict, Anything)

\* Only an operation that was overtaken is overlapped; from then on nothing is promised.
Overlap == overlapped' = TRUE /\ (overlapped \/ (busy /\ overtaken))

PromiseNext == Look \/ Begin \/ Overtake \/ End \/ Overlap

\* An operation comes to an end.
Ends == busy ~> (~busy \/ overlapped)

PromiseSafety == PromiseInit /\ [][PromiseNext]_promised

PromiseSpec == PromiseSafety /\ Ends

=============================================================================
