-------------------------- MODULE MCInterestTracker --------------------------
EXTENDS InterestTracker, TLC

CONSTANTS a1, a2, a3, v1, v2, u1, u2

\* Two consumers on one vehicle and one on another.
OnTwoVehicles == a1 :> v1 @@ a2 :> v1 @@ a3 :> v2
OnOneEach     == a1 :> v1 @@ a3 :> v2
=============================================================================
