------------------------------- MODULE MCCa3 -------------------------------
(***************************************************************************)
(* Instances of Ca3 for TLC: which calls there are, and who makes them.    *)
(***************************************************************************)
EXTENDS Ca3Blocking, TLC

CONSTANTS n1, n2, n3, n4, n5, c1, c2, c3

\* A single call.
OneCall == c1 :> n1

\* A node makes two calls, one after the other or (for parcels) at once.
SameOwner == c1 :> n1 @@ c2 :> n2 @@ c3 :> n1

NoParcels == {}

CloseOne == {<<"parcel_close", "tenant1">>}
=============================================================================
