----------------------------- MODULE ByteStream -----------------------------
(***************************************************************************)
(* What SendAsync promises: the bytes it accepted, numbered in the order   *)
(* they were accepted, reach the socket in that order, each once, until    *)
(* the session is closed; nothing is delivered after that.                 *)
(***************************************************************************)
EXTENDS Naturals, Sequences

VARIABLES connected, accepted, wire

streamVars == <<connected, accepted, wire>>

Init ==
    /\ connected = TRUE
    /\ accepted = 0
    /\ wire = <<>>

\* Bytes accepted by a sender that did not notice the close are forgotten.
Accept ==
    /\ accepted' \in Nat
    /\ accepted' > accepted
    /\ UNCHANGED <<connected, wire>>

Deliver ==
    /\ connected
    /\ \E n \in 1..(accepted - Len(wire)) :
          wire' = wire \o [i \in 1..n |-> Len(wire) + i]
    /\ UNCHANGED <<connected, accepted>>

Close == connected' = FALSE /\ UNCHANGED <<accepted, wire>>

Next == Accept \/ Deliver \/ Close

Spec == Init /\ [][Next]_streamVars
=============================================================================
