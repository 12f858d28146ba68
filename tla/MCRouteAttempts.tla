--------------------------- MODULE MCRouteAttempts ---------------------------
(* Instances of RouteAttempts. *)
EXTENDS RouteAttempts, TLC

CONSTANTS r1, r2, r3

ThreeRoutes == {r1, r2, r3}
TwoRoutes == {r1, r2}

=============================================================================
