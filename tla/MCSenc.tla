------------------------------- MODULE MCSenc -------------------------------
(* SencManager on a file that is opened, closed and opened again (c1, c2)   *)
(* beside another (c3).                                                     *)
EXTENDS SencManager, TLC

CONSTANTS c1, c2, c3, p1, p2

Reopened == c1 :> p1 @@ c2 :> p1 @@ c3 :> p2
=============================================================================
