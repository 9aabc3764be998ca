----------------------------- MODULE MapService -----------------------------
(***************************************************************************)
(* What the WMS server promises for GetMap, without threads, locks or      *)
(* queues: requests are taken one at a time and numbered in the order they *)
(* arrive; an image is drawn at most once per request and never for an     *)
(* older request after a newer one; a request is answered once, and with   *)
(* an image only if its own image has been drawn.                          *)
(***************************************************************************)
EXTENDS Naturals

CONSTANT MaxRequests        \* bound on the requests of one run of the server

VARIABLES status,           \* request -> how far it got
          drawn             \* the requests whose image has been drawn

serviceVars == <<status, drawn>>

Ids == 1..MaxRequests

Init ==
    /\ status = [i \in Ids |-> "none"]
    /\ drawn = {}

\* The next request arrives when every earlier one has been answered; one
\* whose parameters make no GetMap is refused on the spot.
Arrive(i) ==
    /\ status[i] = "none"
    /\ \A j \in 1..(i - 1) : status[j] \notin {"none", "waiting"}
    /\ \E s \in {"waiting", "refused"} : status' = [status EXCEPT ![i] = s]
    /\ UNCHANGED drawn

\* An image may be drawn for a request that has already been given up.
Draw(i) ==
    /\ status[i] \in {"waiting", "failed"}
    /\ \A j \in drawn : j < i
    /\ drawn' = drawn \cup {i}
    /\ UNCHANGED status

Answer(i) ==
    /\ status[i] = "waiting"
    /\ \/ i \in drawn /\ status' = [status EXCEPT ![i] = "ok"]
       \/ status' = [status EXCEPT ![i] = "failed"]
    /\ UNCHANGED drawn

Next == \E i \in Ids : Arrive(i) \/ Draw(i) \/ Answer(i)

Spec == Init /\ [][Next]_serviceVars
=============================================================================
