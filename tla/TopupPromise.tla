---------------------------- MODULE TopupPromise ----------------------------
(***************************************************************************)
(* What a top-up promises: a paid order is credited, exactly once, and an  *)
(* order nobody has paid is not.                                           *)
(***************************************************************************)
EXTENDS Naturals

CONSTANTS Order

VARIABLES paid, credited   \* per order: was it paid, how often was it credited

promised == <<paid, credited>>

PromiseInit == paid = {} /\ credited = [o \in Order |-> 0]

PayOrder(o) == o \notin paid /\ paid' = paid \cup {o} /\ UNCHANGED credited

CreditOrder(o) ==
    /\ o \in paid /\ credited[o] = 0
    /\ credited' = [credited EXCEPT ![o] = 1]
    /\ UNCHANGED paid

PromiseNext == \E o \in Order : PayOrder(o) \/ CreditOrder(o)

PromiseSafety == PromiseInit /\ [][PromiseNext]_promised

PromiseLiveness == \A o \in Order : o \in paid ~> credited[o] = 1

PromiseSpec == PromiseSafety /\ PromiseLiveness

=============================================================================
