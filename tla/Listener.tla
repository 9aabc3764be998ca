------------------------------ MODULE Listener ------------------------------
(***************************************************************************)
(* What a server promises about its sessions: a client is connected only   *)
(* while the server is up, and a server that comes up has no sessions left *)
(* from the last time it was up.                                           *)
(***************************************************************************)
CONSTANT Sessions

VARIABLES up, connected

vars == <<up, connected>>

Init == up = FALSE /\ connected = {}

ComeUp ==
    /\ ~up
    /\ connected = {}
    /\ up' = TRUE
    /\ UNCHANGED connected

GoDown == up /\ up' = FALSE /\ UNCHANGED connected

Connect(s) ==
    /\ up
    /\ s \notin connected
    /\ connected' = connected \cup {s}
    /\ UNCHANGED up

Disconnect(s) ==
    /\ s \in connected
    /\ connected' = connected \ {s}
    /\ UNCHANGED up

Next == ComeUp \/ GoDown \/ \E s \in Sessions : Connect(s) \/ Disconnect(s)

Spec == Init /\ [][Next]_vars
=============================================================================
