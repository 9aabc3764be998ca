---------------------------- MODULE GetMapProofs ----------------------------
(* Proofs about GetMapRendezvous, for every number of requests, lines and   *)
(* tries.                                                                   *)
EXTENDS GetMapRendezvous, Integers, TLAPS

\* The messages and handlers the program builds are of their types.
LEMMA Built ==
    /\ Junk \in Messages
    /\ \A i \in Ids : Render(i) \in Messages
    /\ \A c \in Commands : Command(c) \in Messages
    /\ \A o \in {"start", "stop", "service stop"}, s \in Servers \cup {"none"} :
          Task(o, s) \in Handlers
BY ConstantsAssumption
   DEF Messages, Junk, Render, Command, Ids, AllCommands, Handlers, Task

\* Appending to and taking from a typed sequence.
LEMMA SeqTyped ==
    ASSUME NEW S, NEW q \in Seq(S)
    PROVE  /\ \A e \in S : Append(q, e) \in Seq(S)
           /\ q # <<>> => Head(q) \in S /\ Tail(q) \in Seq(S)
OBVIOUS

LEMMA SmallSeqTyped ==
    ASSUME NEW S
    PROVE  /\ <<>> \in Seq(S)
           /\ \A a \in S : <<a>> \in Seq(S)
           /\ \A a, b \in S : <<a, b>> \in Seq(S)
           /\ \A p, q \in Seq(S) : p \o q \in Seq(S)
OBVIOUS

\* A thread that moves to a place of its own keeps the program counters typed.
PcOK == /\ pc \in [Threads -> MainStates \cup IOStates \cup InputStates]
        /\ pc["main"] \in MainStates
        /\ pc["io"] \in IOStates
        /\ pc["input"] \in InputStates

LEMMA MoveTyped ==
    ASSUME PcOK, NEW t \in Threads, NEW l, pc' = [pc EXCEPT ![t] = l],
           t = "main"  => l \in MainStates,
           t = "io"    => l \in IOStates,
           t = "input" => l \in InputStates
    PROVE  PcOK'
BY DEF PcOK, Threads

LEMMA PlacesOf ==
    /\ MainLocked \subseteq MainStates
    /\ PushStates \subseteq IOStates
    /\ PushStates \subseteq InputStates
    /\ {"top", "lock", "wait", "woken", "after", "cleanup",
        "stop servers", "join io", "wait service", "join input", "done"} \subseteq MainStates
    /\ {"idle", "try", "dead", "threw"} \subseteq IOStates
    /\ {"loop", "getline", "dead"} \subseteq InputStates
BY DEF MainStates, IOStates, InputStates

\* The shared push.
LEMMA PushTyped ==
    ASSUME TypeOK, NEW t \in Pushers, Push(t) PROVE TypeOK'
<1> USE DEF TypeOK
<1>0. PcOK /\ t \in Threads /\ t # "main"
  BY DEF PcOK, Pushers, Threads
<1>1. CASE Barrier(t)
  <2>1. PcOK'
    BY <1>0, <1>1, MoveTyped, PlacesOf DEF Barrier, Goto, PushStates
  <2>2. QED
    BY <1>1, <2>1 DEF Barrier, PcOK, netVars, userVars, mapVars
<1>2. CASE BeginPush(t)
  <2>1. PcOK'
    BY <1>0, <1>2, MoveTyped, PlacesOf DEF BeginPush, Goto, PushStates
  <2>2. raced' \in [Pushers -> BOOLEAN]
    BY <1>2 DEF BeginPush
  <2>3. QED
    BY <1>2, <2>1, <2>2 DEF BeginPush, PcOK, netVars, userVars, mapVars
<1>3. CASE EndPush(t)
  <2>1. PcOK'
    BY <1>0, <1>3, MoveTyped, PlacesOf DEF EndPush, Goto, PushStates
  <2>2. raced' \in [Pushers -> BOOLEAN]
    BY <1>3 DEF EndPush
  <2>3. g_messageQueue' \in Seq(Messages)
    <3>1. msg[t] \in Messages /\ Junk \in Messages
      BY <1>0, Built
    <3>2. /\ Append(g_messageQueue, msg[t]) \in Seq(Messages)
          /\ Append(g_messageQueue, Junk) \in Seq(Messages)
      BY <3>1, SeqTyped
    <3>3. QED
      BY <1>3, <3>2 DEF EndPush
  <2>4. QED
    BY <1>3, <2>1, <2>2, <2>3 DEF EndPush, PcOK, netVars, userVars, mapVars
<1>4. CASE Notify(t)
  <2>1. pc' = [pc EXCEPT ![t] = "relock"] \/
        pc' = [pc EXCEPT ![t] = "relock", !["main"] = "woken"]
    BY <1>0, <1>4 DEF Notify, PcOK
  <2>2. PcOK'
    BY <1>0, <2>1, PlacesOf DEF PcOK, PushStates, Threads
  <2>3. QED
    BY <1>4, <2>2 DEF Notify, PcOK, netVars, userVars, mapVars
<1>5. QED
  BY <1>1, <1>2, <1>3, <1>4 DEF Push

\* The rest of the IO thread, and the arrival of a request.
LEMMA IOTyped ==
    ASSUME TypeOK, IOReceive \/ IORelock \/ IOFound \/ IORetry \/ IOGiveUp \/ IOTask
    PROVE  TypeOK'
<1> USE DEF TypeOK
<1>0. PcOK /\ "io" \in Threads
  BY DEF PcOK, Threads
<1>1. CASE IOReceive
  <2>1. PcOK'
    BY <1>0, <1>1, MoveTyped, PlacesOf DEF IOReceive, Goto, PushStates, PcOK
  <2>2. arrived' \in 0..MaxRequests /\ arrived + 1 \in Ids
    BY <1>1, ConstantsAssumption DEF IOReceive, Ids
  <2>3. msg' \in [Threads -> Messages]
    <3>1. Render(arrived + 1) \in Messages
      BY <2>2, Built
    <3>2. QED
      BY <1>1, <3>1 DEF IOReceive
  <2>4. status' \in [Ids -> Statuses]
    BY <1>1, <2>2 DEF IOReceive, Statuses
  <2>5. QED
    BY <1>1, <2>1, <2>2, <2>3, <2>4 DEF IOReceive, PcOK, netVars, userVars, mapVars
<1>2. CASE IORelock
  <2>1. PcOK'
    BY <1>0, <1>2, MoveTyped, PlacesOf DEF IORelock, Goto
  <2>2. tries' \in 0..DELAY_FOR_RESPONSE /\ g_mtx' \in {"free", "main", "io"}
    BY <1>2, ConstantsAssumption DEF IORelock
  <2>3. QED
    BY <1>2, <2>1, <2>2 DEF IORelock, PcOK, netVars, userVars, mapVars
<1>3. ASSUME NEW answer \in {"ok", "failed"}, Reply(answer) PROVE TypeOK'
  <2>1. PcOK'
    BY <1>0, <1>3, MoveTyped, PlacesOf DEF Reply, Goto
  <2>2. status' \in [Ids -> Statuses]
    BY <1>3 DEF Reply, Statuses
  <2>3. msg' \in [Threads -> Messages]
    BY <1>3, Built DEF Reply, Forget
  <2>4. tries' \in 0..DELAY_FOR_RESPONSE /\ g_mtx' \in {"free", "main", "io"}
    BY <1>3, ConstantsAssumption DEF Reply
  <2>5. QED
    BY <1>3, <2>1, <2>2, <2>3, <2>4 DEF Reply, PcOK, netVars, userVars, mapVars
<1>4. CASE IOFound \/ IOGiveUp
  BY <1>3, <1>4 DEF IOFound, IOGiveUp
<1>5. CASE IORetry
  <2>1. tries' \in 0..DELAY_FOR_RESPONSE
    BY <1>5, ConstantsAssumption DEF IORetry
  <2>2. QED
    BY <1>5, <2>1 DEF IORetry, netVars, userVars, mapVars
<1>6. CASE IOTask
  <2>1. PcOK'
    <3>1. \E l \in {"dead", "threw"} : pc' = pc \/ pc' = [pc EXCEPT !["io"] = l]
      BY <1>6 DEF IOTask, Goto
    <3>2. QED
      BY <1>0, <3>1, MoveTyped, PlacesOf DEF PcOK
  <2>2. posted' \in Seq(Handlers)
    BY <1>6, SeqTyped DEF IOTask
  <2>3. started' \in [Servers -> BOOLEAN]
    BY <1>6 DEF IOTask
  <2>4. QED
    BY <1>6, <2>1, <2>2, <2>3 DEF IOTask, PcOK, userVars, mapVars
<1>7. QED
  BY <1>1, <1>2, <1>4, <1>5, <1>6

\* The input thread.
LEMMA InputTyped ==
    ASSUME TypeOK, InputTest \/ InputLine \/ InputRelock PROVE TypeOK'
<1> USE DEF TypeOK
<1>0. PcOK /\ "input" \in Threads
  BY DEF PcOK, Threads
<1>1. CASE InputTest \/ InputRelock
  <2>1. PcOK'
    BY <1>0, <1>1, MoveTyped, PlacesOf DEF InputTest, InputRelock, Goto
  <2>2. msg' \in [Threads -> Messages]
    BY <1>1, Built DEF InputTest, InputRelock, Forget
  <2>3. QED
    BY <1>1, <2>1, <2>2 DEF InputTest, InputRelock, PcOK, netVars, userVars, mapVars
<1>2. CASE InputLine
  <2>1. PcOK'
    BY <1>0, <1>2, MoveTyped, PlacesOf DEF InputLine, Goto, PushStates
  <2>2. typed' \in 0..MaxLines
    BY <1>2, ConstantsAssumption DEF InputLine
  <2>3. msg' \in [Threads -> Messages]
    BY <1>2, Built DEF InputLine
  <2>4. QED
    BY <1>2, <2>1, <2>2, <2>3 DEF InputLine, PcOK, netVars, userVars, mapVars
<1>3. QED
  BY <1>1, <1>2

\* The main thread.
LEMMA MainTyped ==
    ASSUME TypeOK, MainStep \/ SpuriousWakeup PROVE TypeOK'
<1> USE DEF TypeOK
<1>0. PcOK /\ "main" \in Threads
  BY DEF PcOK, Threads
<1>1. CASE \/ MainTest \/ MainLock \/ MainEmpty \/ MainPark \/ MainJunk \/ MainUnlock \/ MainExit
           \/ MainAfter \/ MainCleanup \/ MainJoinIO \/ MainServiceStopped \/ MainJoinInput
  <2>1. PcOK'
    BY <1>0, <1>1, MoveTyped, PlacesOf
       DEF MainTest, MainLock, MainEmpty, MainPark, MainJunk, MainUnlock, MainExit, MainAfter,
           MainCleanup, MainJoinIO, MainServiceStopped, MainJoinInput, Goto, MainLocked
  <2>2. msg' \in [Threads -> Messages]
    BY <1>1, Built
       DEF MainTest, MainLock, MainEmpty, MainPark, MainJunk, MainUnlock, MainExit, MainAfter,
           MainCleanup, MainJoinIO, MainServiceStopped, MainJoinInput, Forget
  <2>3. QED
    BY <1>1, <2>1, <2>2
       DEF MainTest, MainLock, MainEmpty, MainPark, MainJunk, MainUnlock, MainExit, MainAfter,
           MainCleanup, MainJoinIO, MainServiceStopped, MainJoinInput, PcOK, netVars, userVars, mapVars
<1>2. CASE MainPop
  <2>1. PcOK'
    BY <1>0, <1>2, MoveTyped, PlacesOf DEF MainPop, Goto, MainLocked
  <2>2. g_messageQueue' \in Seq(Messages) /\ msg' \in [Threads -> Messages]
    BY <1>2, SeqTyped DEF MainPop
  <2>3. spurious' \in 0..MaxSpurious
    BY <1>2, ConstantsAssumption DEF MainPop
  <2>4. QED
    BY <1>2, <2>1, <2>2, <2>3 DEF MainPop, PcOK, netVars, mapVars
<1>3. CASE MainRender
  <2>1. PcOK'
    BY <1>0, <1>3, MoveTyped, PlacesOf DEF MainRender, Goto, MainLocked
  <2>2. msg["main"].id \in Ids
    BY <1>0, <1>3 DEF MainRender, Messages, AllCommands
  <2>3. disk' \subseteq Ids /\ drawn' \subseteq Ids
    BY <1>3, <2>2 DEF MainRender
  <2>4. QED
    BY <1>3, <2>1, <2>3 DEF MainRender, PcOK, netVars, userVars, mapVars
<1>4. CASE MainRestart
  <2>1. PcOK'
    BY <1>0, <1>4, MoveTyped, PlacesOf DEF MainRestart, Goto, MainLocked
  <2>2. todo' \in Seq(Servers)
    BY <1>4 DEF MainRestart, Servers
  <2>3. QED
    BY <1>4, <2>1, <2>2 DEF MainRestart, PcOK, netVars, userVars, mapVars
<1>5. CASE MainStop \/ MainSpin
  <2>1. \/ pc' = pc
        \/ pc' = [pc EXCEPT !["main"] = "spin"]
        \/ pc' = [pc EXCEPT !["main"] = "unlock"]
        \/ pc' = [pc EXCEPT !["main"] = "stop"]
    BY <1>5 DEF MainStop, MainSpin, Goto
  <2>2. PcOK'
    BY <1>0, <2>1, MoveTyped, PlacesOf DEF PcOK, MainLocked
  <2>3. /\ todo' = todo \/ (todo # <<>> /\ todo' = Tail(todo))
        /\ \/ posted' = posted
           \/ todo # <<>> /\ \E o \in {"start", "stop"} : posted' = Append(posted, Task(o, Head(todo)))
    <3>1. CASE MainStop
      BY <3>1 DEF MainStop, Post
    <3>2. CASE MainSpin
      BY <3>2 DEF MainSpin, Post
    <3>3. QED
      BY <1>5, <3>1, <3>2
  <2>4. todo' \in Seq(Servers)
    BY <2>3, SeqTyped
  <2>5. posted' \in Seq(Handlers)
    <3>1. CASE posted' = posted
      BY <3>1
    <3>2. ASSUME todo # <<>>, NEW o \in {"start", "stop"},
                 posted' = Append(posted, Task(o, Head(todo)))
          PROVE  posted' \in Seq(Handlers)
      <4>1. Head(todo) \in Servers \cup {"none"}
        BY <3>2, SeqTyped
      <4>2. Task(o, Head(todo)) \in Handlers
        BY <4>1, Built
      <4>3. QED
        BY <3>2, <4>2, SeqTyped
    <3>3. QED
      BY <2>3, <3>1, <3>2
  <2>6. QED
    BY <1>5, <2>2, <2>4, <2>5 DEF MainStop, MainSpin, PcOK, userVars, mapVars
<1>6. CASE MainStopServers
  <2>1. PcOK'
    BY <1>0, <1>6, MoveTyped, PlacesOf DEF MainStopServers, Goto
  <2>2. ASSUME NEW s \in Servers PROVE StopTask(s) \in Seq(Handlers)
    <3>1. Task("stop", s) \in Handlers
      BY Built
    <3>2. QED
      BY <3>1, SmallSeqTyped DEF StopTask
  <2>3. <<Task("service stop", "none")>> \in Seq(Handlers)
    <3>1. Task("service stop", "none") \in Handlers
      BY Built
    <3>2. QED
      BY <3>1, SmallSeqTyped
  <2>4. posted' \in Seq(Handlers)
    <3>1. StopTask("HTTPS") \in Seq(Handlers) /\ StopTask("HTTP") \in Seq(Handlers)
      BY <2>2 DEF Servers
    <3>2. posted \o StopTask("HTTPS") \in Seq(Handlers)
      BY <3>1, SmallSeqTyped
    <3>3. posted \o StopTask("HTTPS") \o StopTask("HTTP") \in Seq(Handlers)
      BY <3>1, <3>2, SmallSeqTyped
    <3>4. QED
      BY <1>6, <2>3, <3>3, SmallSeqTyped DEF MainStopServers
  <2>5. QED
    BY <1>6, <2>1, <2>4 DEF MainStopServers, PcOK, userVars, mapVars
<1>7. CASE SpuriousWakeup
  <2>1. PcOK'
    BY <1>0, <1>7, MoveTyped, PlacesOf DEF SpuriousWakeup, Goto
  <2>2. spurious' \in 0..MaxSpurious
    BY <1>7, ConstantsAssumption DEF SpuriousWakeup
  <2>3. QED
    BY <1>7, <2>1, <2>2 DEF SpuriousWakeup, PcOK, netVars, mapVars
<1>8. QED
  BY <1>1, <1>2, <1>3, <1>4, <1>5, <1>6, <1>7 DEF MainStep

\* Every variable keeps its type, the retry counter its bound.
THEOREM TypeCorrect == Spec => []TypeOK
<1>1. Init => TypeOK
  <2> SUFFICES ASSUME Init PROVE TypeOK
    OBVIOUS
  <2>1. pc \in [Threads -> MainStates \cup IOStates \cup InputStates]
        /\ pc["main"] = "top" /\ pc["io"] = "idle" /\ pc["input"] = "loop"
    BY PlacesOf DEF Init, Threads
  <2>2. posted \in Seq(Handlers)
    <3>1. Task("start", "HTTPS") \in Handlers /\ Task("start", "HTTP") \in Handlers
      BY Built DEF Servers
    <3>2. QED
      BY <3>1, SmallSeqTyped DEF Init
  <2>3. 0 \in 0..MaxRequests /\ 0 \in 0..DELAY_FOR_RESPONSE /\ 0 \in 0..MaxLines /\ 0 \in 0..MaxSpurious
    BY ConstantsAssumption
  <2>4. PcOK
    BY <2>1, PlacesOf DEF PcOK
  <2>5. /\ msg \in [Threads -> Messages]
        /\ raced \in [Pushers -> BOOLEAN]
        /\ started \in [Servers -> BOOLEAN]
        /\ status \in [Ids -> Statuses]
    BY Built DEF Init, Statuses
  <2>6. g_messageQueue \in Seq(Messages) /\ todo \in Seq(Servers)
    BY SmallSeqTyped DEF Init
  <2>7. QED
    BY <2>2, <2>3, <2>4, <2>5, <2>6 DEF Init, TypeOK, PcOK
<1>2. TypeOK /\ [Next]_vars => TypeOK'
  <2> SUFFICES ASSUME TypeOK, [Next]_vars PROVE TypeOK'
    OBVIOUS
  <2>1. CASE Signal
    BY <2>1 DEF Signal, TypeOK, netVars, userVars, mapVars
  <2>2. CASE UNCHANGED vars
    BY <2>2 DEF vars, TypeOK
  <2>3. QED
    BY <2>1, <2>2, PushTyped, IOTyped, InputTyped, MainTyped
       DEF Next, IOStep, InputStep, Pushers
<1>3. QED
  BY <1>1, <1>2, PTL DEF Spec

-----------------------------------------------------------------------------
(* The mutex *)

OwnInv == MutexOwnership /\ RetriesAreFutile

LEMMA OwnStep == TypeOK /\ OwnInv /\ [Next]_vars => OwnInv'
<1> SUFFICES ASSUME TypeOK, OwnInv, [Next]_vars PROVE OwnInv'
  OBVIOUS
<1> USE DEF OwnInv, MutexOwnership, RetriesAreFutile, MainLocked
<1>0. /\ pc \in [Threads -> MainStates \cup IOStates \cup InputStates]
      /\ msg \in [Threads -> Messages]
      /\ tries \in Nat
      /\ "main" \in Threads /\ "io" \in Threads /\ "input" \in Threads
  BY ConstantsAssumption DEF TypeOK, Threads
<1>1. ASSUME NEW t \in Pushers, Push(t) PROVE OwnInv'
  BY <1>0, <1>1 DEF Push, Barrier, BeginPush, EndPush, Notify, Pushers, Goto, mapVars
<1>2. CASE IOReceive
  BY <1>0, <1>2 DEF IOReceive, Goto
<1>3. CASE IORelock
  BY <1>0, <1>3 DEF IORelock, Goto
<1>4. CASE IOFound \/ IOGiveUp
  BY <1>0, <1>4 DEF IOFound, IOGiveUp, Reply, Goto
<1>5. CASE IORetry
  BY <1>0, <1>5 DEF IORetry
<1>6. CASE IOTask
  <2>1. \E l \in {"dead", "threw"} : pc' = pc \/ pc' = [pc EXCEPT !["io"] = l]
    BY <1>6 DEF IOTask, Goto
  <2>2. QED
    BY <1>0, <1>6, <2>1 DEF IOTask, mapVars
<1>7. CASE InputTest \/ InputLine \/ InputRelock
  BY <1>0, <1>7 DEF InputTest, InputLine, InputRelock, Goto, mapVars
<1>8. CASE MainTest \/ MainLock \/ MainEmpty \/ MainPark \/ MainPop \/ MainJunk \/ MainUnlock
  BY <1>0, <1>8 DEF MainTest, MainLock, MainEmpty, MainPark, MainPop, MainJunk, MainUnlock,
                    Goto, mapVars
<1>9. CASE MainRender
  BY <1>0, <1>9 DEF MainRender, Goto
<1>10. CASE MainExit \/ MainRestart
  BY <1>0, <1>10 DEF MainExit, MainRestart, Goto, mapVars
<1>11. CASE MainStop
  <2>1. pc' = pc \/ pc' = [pc EXCEPT !["main"] = "spin"] \/ pc' = [pc EXCEPT !["main"] = "unlock"]
    BY <1>11 DEF MainStop, Goto
  <2>2. QED
    BY <1>0, <1>11, <2>1 DEF MainStop, mapVars
<1>12. CASE MainSpin
  BY <1>0, <1>12 DEF MainSpin, Goto, mapVars
<1>13. CASE MainAfter \/ MainCleanup \/ MainStopServers \/ MainJoinIO \/ MainServiceStopped \/ MainJoinInput
  BY <1>0, <1>13 DEF MainAfter, MainCleanup, MainStopServers, MainJoinIO, MainServiceStopped, MainJoinInput,
                     Goto, mapVars
<1>14. CASE SpuriousWakeup \/ Signal
  BY <1>0, <1>14 DEF SpuriousWakeup, Signal, Goto, mapVars
<1>15. CASE UNCHANGED vars
  BY <1>15 DEF vars
<1>16. QED
  BY <1>1, <1>2, <1>3, <1>4, <1>5, <1>6, <1>7, <1>8, <1>9, <1>10, <1>11, <1>12, <1>13, <1>14, <1>15
     DEF Next, IOStep, InputStep, MainStep, Pushers

\* g_mtx is held by whom its users believe, for any number of requests.
THEOREM Ownership == Spec => []MutexOwnership
<1>1. Init => OwnInv
  BY DEF Init, OwnInv, MutexOwnership, RetriesAreFutile, MainLocked, Threads
<1>2. OwnInv => MutexOwnership
  BY DEF OwnInv
<1>3. QED
  BY <1>1, <1>2, OwnStep, TypeCorrect, PTL DEF Spec

\* No retry of MakeGetMapResponse ever finds an image, whatever the number of
\* tries.
THEOREM Futility == Spec => []RetriesAreFutile
<1>1. Init => OwnInv
  BY DEF Init, OwnInv, MutexOwnership, RetriesAreFutile, MainLocked, Threads
<1>2. OwnInv => RetriesAreFutile
  BY DEF OwnInv
<1>3. QED
  BY <1>1, <1>2, OwnStep, TypeCorrect, PTL DEF Spec

-----------------------------------------------------------------------------
(* The refinement *)

\* What the invariant and the abstract state depend on.
abstract == <<g_messageQueue, msg["io"], arrived, status, drawn>>

\* Facts about types that the steps below use again and again.
LEMMA Typed ==
    ASSUME TypeOK
    PROVE  /\ pc \in [Threads -> MainStates \cup IOStates \cup InputStates]
           /\ "main" \in Threads /\ "io" \in Threads /\ "input" \in Threads
           /\ msg \in [Threads -> Messages]
           /\ g_messageQueue \in Seq(Messages)
           /\ arrived \in Nat /\ arrived <= MaxRequests
           /\ drawn \subseteq Nat
           /\ status \in [Ids -> Statuses]
           /\ \A m \in Messages : m.id \in Nat /\ (m.kind = "render" => m.id \in Ids)
           /\ Ids \subseteq Nat
BY ConstantsAssumption DEF TypeOK, Threads, Messages, Ids, AllCommands

\* A step that leaves them alone, removes files at most, forgets a line at most,
\* and takes neither the handler over a border of its request nor the main
\* thread to work.
LEMMA Frame ==
    ASSUME TypeOK, MapInv, UNCHANGED abstract, disk' \subseteq disk,
           \/ pc["io"]' = pc["io"]
           \/ pc["io"] = "enter" /\ pc["io"]' = "write"
           \/ pc["io"] = "write" /\ pc["io"]' = "publish"
           \/ pc["io"] = "notify" /\ pc["io"]' = "relock"
           \/ pc["io"] = "relock" /\ pc["io"]' = "try"
           \/ pc["io"] = "idle" /\ pc["io"]' \in {"dead", "threw"},
           msg["input"]' \in {msg["input"], Junk},
           pc["main"]' = "work" => pc["main"] = "work" /\ msg["main"]' = msg["main"]
    PROVE  MapInv'
<1> USE DEF MapInv, abstract
<1>1. IOBusy' = IOBusy /\ Published' = Published
  BY DEF IOBusy, PushStates, Published
<1>2. Numbered'
  BY <1>1 DEF Numbered, Junk
<1>3. InOrder'
  BY <1>1 DEF InOrder, Drawable, Queued
<1>4. Accounted'
  BY <1>1 DEF Accounted
<1>5. QED
  BY <1>2, <1>3, <1>4

Quiet == \/ \E t \in Pushers : Barrier(t) \/ BeginPush(t) \/ Notify(t)
         \/ IORelock \/ IORetry \/ IOTask \/ InputTest \/ InputRelock
         \/ MainTest \/ MainLock \/ MainEmpty \/ MainPark \/ MainJunk \/ MainUnlock
         \/ MainExit \/ MainRestart \/ MainStop \/ MainSpin \/ MainAfter \/ MainCleanup
         \/ MainStopServers \/ MainJoinIO \/ MainServiceStopped \/ MainJoinInput \/ SpuriousWakeup \/ Signal

LEMMA QuietStep ==
    ASSUME TypeOK, MapInv, Quiet PROVE MapInv' /\ UNCHANGED <<status, drawn>>
<1>0. pc \in [Threads -> MainStates \cup IOStates \cup InputStates]
      /\ "main" \in Threads /\ "io" \in Threads /\ "input" \in Threads
  BY Typed
<1>1. /\ UNCHANGED abstract
      /\ disk' \subseteq disk
      /\ msg["input"]' \in {msg["input"], Junk}
  BY Typed DEF Quiet, Forget, abstract, Barrier, BeginPush, Notify, IORelock, IORetry, IOTask, InputTest,
         InputRelock, MainTest, MainLock, MainEmpty, MainPark, MainJunk, MainUnlock, MainExit,
         MainRestart, MainStop, MainSpin, MainAfter, MainCleanup, MainStopServers, MainJoinIO, MainServiceStopped,
         MainJoinInput, SpuriousWakeup, Signal, netVars, mapVars
<1>2. /\ \/ pc["io"]' = pc["io"]
         \/ pc["io"] = "enter" /\ pc["io"]' = "write"
         \/ pc["io"] = "write" /\ pc["io"]' = "publish"
         \/ pc["io"] = "notify" /\ pc["io"]' = "relock"
         \/ pc["io"] = "relock" /\ pc["io"]' = "try"
         \/ pc["io"] = "idle" /\ pc["io"]' \in {"dead", "threw"}
      /\ pc["main"]' = "work" => pc["main"] = "work" /\ msg["main"]' = msg["main"]
  <2>1. CASE \E t \in Pushers : Barrier(t) \/ BeginPush(t) \/ Notify(t)
    BY <1>0, <2>1 DEF Barrier, BeginPush, Notify, Goto, Pushers
  <2>2. CASE IORelock \/ IORetry
    BY <1>0, <2>2 DEF IORelock, IORetry, Goto
  <2>3. CASE IOTask
    BY <1>0, <2>3 DEF IOTask, Goto
  <2>4. CASE InputTest \/ InputRelock \/ Signal \/ SpuriousWakeup
    BY <1>0, <2>4, Typed DEF InputTest, InputRelock, Signal, SpuriousWakeup, Goto, Forget
  <2>5. CASE MainTest \/ MainLock \/ MainEmpty \/ MainPark \/ MainJunk \/ MainUnlock \/ MainExit
             \/ MainRestart \/ MainAfter \/ MainCleanup \/ MainStopServers \/ MainJoinIO \/ MainServiceStopped
             \/ MainJoinInput
    BY <1>0, <2>5 DEF MainTest, MainLock, MainEmpty, MainPark, MainJunk, MainUnlock, MainExit,
         MainRestart, MainAfter, MainCleanup, MainStopServers, MainJoinIO, MainServiceStopped, MainJoinInput, Goto
  <2>6. CASE MainStop \/ MainSpin
    <3>1. \/ pc' = pc
          \/ \E l \in {"spin", "unlock", "stop"} : pc' = [pc EXCEPT !["main"] = l]
      BY <2>6 DEF MainStop, MainSpin, Goto
    <3>2. msg' = msg
      BY <2>6 DEF MainStop, MainSpin
    <3>3. QED
      BY <1>0, <3>1, <3>2
  <2>7. QED
    BY <2>1, <2>2, <2>3, <2>4, <2>5, <2>6 DEF Quiet
<1>3. MapInv'
  BY <1>1, <1>2, Frame
<1>4. QED
  BY <1>1, <1>3 DEF abstract

\* A message is published: the handler's request becomes drawable, and it is
\* newer than all the others.
LEMMA EndPushStep ==
    ASSUME TypeOK, MapInv, NEW t \in Pushers, EndPush(t) PROVE MapInv'
<1> USE DEF MapInv
<1>0. /\ pc \in [Threads -> MainStates \cup IOStates \cup InputStates]
      /\ "main" \in Threads /\ "io" \in Threads /\ "input" \in Threads
      /\ t \in Threads /\ t # "main"
  BY Typed DEF Pushers, Threads
<1>1. pc' = [pc EXCEPT ![t] = "notify"] /\ UNCHANGED <<msg, arrived, status, drawn, disk>>
  BY <1>0 DEF EndPush, Goto, netVars, mapVars
<1>2. IOBusy' = IOBusy /\ pc["main"]' = pc["main"]
  BY <1>0, <1>1 DEF IOBusy, PushStates, EndPush
<1>3. arrived \in Nat /\ Published \in Int /\ Published' \in Int /\ Published <= Published'
  BY <1>0, <1>1, Typed DEF Published
<1>4. Numbered'
  BY <1>1, <1>2 DEF Numbered
<1>5. Accounted'
  BY <1>1, <1>3, Typed DEF Accounted
<1>6. InOrder'
  <2>1. \A m \in Messages : Drawable(m) => Drawable(m)'
    BY <1>1, <1>3, Typed DEF Drawable
  <2>2. ASSUME NEW m \in Messages, g_messageQueue' = Append(g_messageQueue, m),
               m.kind = "render" => m = msg["io"] /\ t = "io"
        PROVE  InOrder'
    <3>1. m.kind = "render" => /\ m.id = arrived
                               /\ arrived = Published'
                               /\ Published = arrived - 1
                               /\ status[arrived] = "waiting"
      BY <1>0, <1>1, <2>2 DEF Numbered, IOBusy, PushStates, EndPush, Published, Render
    <3>2. m.kind = "render" =>
             /\ \A k \in Queued : g_messageQueue[k].kind = "render" => g_messageQueue[k].id < m.id
             /\ \A d \in drawn : d < m.id
             /\ pc["main"] = "work" /\ msg["main"].kind = "render" => msg["main"].id < m.id
      BY <3>1, Typed DEF InOrder, Drawable, Accounted, Queued
    <3>3. Drawable(m)'
      BY <1>1, <3>1, <3>2, Typed DEF Drawable
    <3>4. /\ Queued' = Queued \cup {Len(g_messageQueue) + 1}
          /\ \A k \in Queued : g_messageQueue'[k] = g_messageQueue[k] /\ k < Len(g_messageQueue) + 1
          /\ g_messageQueue'[Len(g_messageQueue) + 1] = m
          /\ \A k \in Queued : g_messageQueue[k] \in Messages /\ k \in Nat
          /\ Len(g_messageQueue) \in Nat
      BY <2>2, Typed DEF Queued
    <3>5. \A k \in Queued' : Drawable(g_messageQueue[k])'
      BY <2>1, <3>3, <3>4 DEF InOrder, Drawable
    <3>6. \A j, k \in Queued' :
             /\ j < k
             /\ g_messageQueue'[j].kind = "render"
             /\ g_messageQueue'[k].kind = "render"
             => g_messageQueue'[j].id < g_messageQueue'[k].id
      BY <3>2, <3>4 DEF InOrder
    <3>7. pc["main"]' = "work" =>
             /\ Drawable(msg["main"])'
             /\ \A k \in Queued' :
                   msg'["main"].kind = "render" /\ g_messageQueue'[k].kind = "render"
                   => msg'["main"].id < g_messageQueue'[k].id
      <4>1. Drawable(msg["main"]) => Drawable(msg["main"])'
        BY <1>0, <1>1, <2>1, Typed DEF Drawable
      <4>2. QED
        BY <1>1, <1>2, <3>2, <3>4, <4>1 DEF InOrder
    <3>8. QED
      BY <3>5, <3>6, <3>7 DEF InOrder
  <2>3. CASE g_messageQueue' = g_messageQueue
    <3>1. \A k \in Queued : g_messageQueue[k] \in Messages
      BY Typed DEF Queued
    <3>2. \A k \in Queued' : Drawable(g_messageQueue[k])'
      BY <2>1, <2>3, <3>1 DEF InOrder, Queued, Drawable
    <3>3. pc["main"]' = "work" => Drawable(msg["main"])'
      BY <1>0, <1>1, <1>2, <2>1, Typed DEF InOrder, Drawable
    <3>4. QED
      BY <1>1, <1>2, <2>3, <3>2, <3>3 DEF InOrder, Queued
  <2>4. g_messageQueue' = g_messageQueue
        \/ \E m \in {msg[t], Junk} : g_messageQueue' = Append(g_messageQueue, m)
    BY DEF EndPush
  <2>5. Junk \in Messages /\ msg[t] \in Messages
    BY <1>0, Built, Typed
  <2>6. Junk.kind # "render" /\ (msg[t].kind = "render" => t = "io")
    BY <1>0 DEF Junk, Numbered, Pushers
  <2>7. QED
    BY <2>2, <2>3, <2>4, <2>5, <2>6
<1>7. QED
  BY <1>4, <1>5, <1>6

\* A request arrives: it is the newest, and not yet published.
LEMMA ReceiveStep ==
    ASSUME TypeOK, MapInv, IOReceive
    PROVE  MapInv' /\ arrived + 1 \in Ids /\ Service!Arrive(arrived + 1)
<1> DEFINE n == arrived + 1
<1> USE DEF MapInv
<1>0. /\ pc \in [Threads -> MainStates \cup IOStates \cup InputStates]
      /\ "main" \in Threads /\ "io" \in Threads /\ "input" \in Threads
      /\ pc["io"] = "idle"
      /\ UNCHANGED <<g_messageQueue, drawn, disk>>
      /\ arrived' = n
  BY Typed DEF IOReceive
<1>1. n \in Ids /\ arrived \in Nat /\ n \in Nat
  BY Typed, ConstantsAssumption DEF IOReceive, Ids
<1>2. status[n] = "none" /\ \A i \in Ids : status[i] # "waiting"
  BY <1>0, <1>1 DEF Numbered, IOBusy, PushStates
<1>3. Published = arrived
  BY <1>0 DEF Published
<1>4. PICK s \in {"waiting", "refused"} :
         /\ status' = [status EXCEPT ![n] = s]
         /\ s = "waiting" => msg' = [msg EXCEPT !["io"] = Render(n)] /\ pc' = [pc EXCEPT !["io"] = "enter"]
         /\ s = "refused" => msg' = msg /\ pc' = pc
  BY DEF IOReceive, Goto
<1>5. Published' \in {arrived, n}
  BY <1>0, <1>1, <1>4, <1>2, Typed DEF Published
<1>6. pc["main"]' = pc["main"] /\ msg["main"]' = msg["main"] /\ msg["input"]' = msg["input"]
  BY <1>0, <1>4, Typed
<1>7. Numbered'
  <2>1. \A i \in Ids : status'[i] = "none" <=> i > n
    BY <1>1, <1>2, <1>4, Typed DEF Numbered
  <2>2. IOBusy' <=> s = "waiting"
    BY <1>0, <1>4 DEF IOBusy, PushStates
  <2>3. status'[n] = s
    BY <1>1, <1>4, Typed
  <2>4. \A i \in Ids : status'[i] = "waiting" => i = n /\ s = "waiting"
    BY <1>2, <1>4, <2>3, Typed
  <2>5. s = "waiting" => msg'["io"] = Render(n)
    BY <1>0, <1>4, Typed
  <2>6. QED
    BY <1>0, <1>1, <1>6, <2>1, <2>2, <2>3, <2>4, <2>5 DEF Numbered
<1>8. Accounted'
  BY <1>0, <1>1, <1>2, <1>3, <1>4, <1>5, Typed DEF Accounted
<1>9. InOrder'
  <2>1. ASSUME NEW m \in Messages, Drawable(m) PROVE Drawable(m)'
    <3>1. m.kind = "render" => m.id <= arrived /\ m.id # n
      BY <1>1, <1>3, <2>1, Typed DEF Drawable
    <3>2. QED
      BY <1>0, <1>3, <1>4, <1>5, <2>1, <3>1, Typed DEF Drawable
  <2>2. \A k \in Queued : g_messageQueue[k] \in Messages
    BY Typed DEF Queued
  <2>3. \A k \in Queued' : Drawable(g_messageQueue[k])'
    BY <1>0, <2>1, <2>2 DEF InOrder, Queued, Drawable
  <2>4. pc["main"]' = "work" => Drawable(msg["main"])'
    BY <1>0, <1>6, <2>1, Typed DEF InOrder, Drawable
  <2>5. QED
    BY <1>0, <1>6, <2>3, <2>4 DEF InOrder, Queued
<1>10. Service!Arrive(n)
  <2>1. \A j \in 1..(n - 1) : j \in Ids /\ ~(j > arrived)
    BY <1>1, ConstantsAssumption DEF Ids
  <2>2. \A j \in 1..(n - 1) : status[j] \notin {"none", "waiting"}
    BY <1>2, <2>1 DEF Numbered
  <2>3. QED
    BY <1>0, <1>2, <1>4, <2>2 DEF Service!Arrive
<1>11. QED
  BY <1>1, <1>7, <1>8, <1>9, <1>10

\* The handler answers, with an image only if the file is there.
LEMMA ReplyStep ==
    ASSUME TypeOK, MapInv, IOFound \/ IOGiveUp
    PROVE  MapInv' /\ arrived \in Ids /\ Service!Answer(arrived)
<1> USE DEF MapInv
<1>0. /\ pc \in [Threads -> MainStates \cup IOStates \cup InputStates]
      /\ "main" \in Threads /\ "io" \in Threads /\ "input" \in Threads
      /\ pc["io"] = "try"
  BY Typed DEF IOFound, IOGiveUp
<1>1. /\ arrived \in Ids
      /\ msg["io"].id = arrived
      /\ status[arrived] = "waiting"
  BY <1>0 DEF Numbered, IOBusy, Render
<1>2. PICK a \in {"ok", "failed"} :
         /\ a = "ok" => arrived \in disk
         /\ status' = [status EXCEPT ![arrived] = a]
         /\ pc' = [pc EXCEPT !["io"] = "idle"]
         /\ msg["main"]' = msg["main"] /\ msg["input"]' = msg["input"]
         /\ UNCHANGED <<g_messageQueue, arrived, drawn, disk>>
  BY <1>0, <1>1, Typed DEF IOFound, IOGiveUp, Reply, Goto, Forget, netVars
<1>3. Published' = Published /\ ~IOBusy' /\ pc["main"]' = pc["main"]
  BY <1>0, <1>2 DEF Published, IOBusy, PushStates
<1>4. Numbered'
  BY <1>1, <1>2, <1>3, Typed DEF Numbered
<1>5. Accounted'
  BY <1>1, <1>2, <1>3, Typed DEF Accounted
<1>6. InOrder'
  <2>1. \A m \in Messages : Drawable(m) => Drawable(m)'
    BY <1>1, <1>2, <1>3, Typed DEF Drawable
  <2>2. \A k \in Queued : g_messageQueue[k] \in Messages
    BY Typed DEF Queued
  <2>3. \A k \in Queued' : Drawable(g_messageQueue[k])'
    BY <1>2, <2>1, <2>2 DEF InOrder, Queued, Drawable
  <2>4. pc["main"]' = "work" => Drawable(msg["main"])'
    BY <1>0, <1>2, <1>3, <2>1, Typed DEF InOrder, Drawable
  <2>5. QED
    BY <1>2, <1>3, <2>3, <2>4 DEF InOrder, Queued
<1>7. Service!Answer(arrived)
  BY <1>1, <1>2 DEF Service!Answer, Accounted
<1>8. QED
  BY <1>1, <1>4, <1>5, <1>6, <1>7

\* The operator's line is a command, never a request.
LEMMA LineStep ==
    ASSUME TypeOK, MapInv, InputLine PROVE MapInv' /\ UNCHANGED <<status, drawn>>
<1> USE DEF MapInv
<1>1. /\ pc["io"]' = pc["io"] /\ pc["main"]' = pc["main"]
      /\ msg["io"]' = msg["io"] /\ msg["main"]' = msg["main"]
      /\ UNCHANGED <<g_messageQueue, arrived, status, drawn, disk>>
  BY Typed DEF InputLine, Goto, netVars, mapVars
<1>2. msg["input"].kind' # "render"
  BY Typed, ConstantsAssumption DEF InputLine, Numbered, Command, AllCommands
<1>3. IOBusy' = IOBusy /\ Published' = Published
  BY <1>1 DEF IOBusy, Published
<1>4. Numbered' /\ Accounted'
  BY <1>1, <1>2, <1>3 DEF Numbered, Accounted
<1>5. InOrder'
  BY <1>1, <1>3 DEF InOrder, Drawable, Queued
<1>6. QED
  BY <1>1, <1>4, <1>5

\* The main thread takes the oldest message.
LEMMA PopStep ==
    ASSUME TypeOK, MapInv, MainPop PROVE MapInv' /\ UNCHANGED <<status, drawn>>
<1> USE DEF MapInv
<1>1. /\ pc["io"]' = pc["io"]
      /\ msg["io"]' = msg["io"] /\ msg["input"]' = msg["input"]
      /\ msg["main"]' = Head(g_messageQueue)
      /\ g_messageQueue # <<>>
      /\ g_messageQueue' = Tail(g_messageQueue)
      /\ UNCHANGED <<arrived, status, drawn, disk>>
  BY Typed DEF MainPop, Goto, netVars, mapVars
<1>2. IOBusy' = IOBusy /\ Published' = Published
  BY <1>1 DEF IOBusy, Published
<1>3. Numbered' /\ Accounted'
  BY <1>1, <1>2 DEF Numbered, Accounted
<1>4. /\ 1 \in Queued /\ Head(g_messageQueue) = g_messageQueue[1]
      /\ \A k \in Queued' : /\ k \in Nat /\ k >= 1 /\ k + 1 \in Queued
                            /\ g_messageQueue'[k] = g_messageQueue[k + 1]
  BY <1>1, Typed DEF Queued
<1>5. \A m : Drawable(m) => Drawable(m)'
  BY <1>1, <1>2 DEF Drawable
<1>6. \A k \in Queued' : Drawable(g_messageQueue[k])'
  BY <1>1, <1>2, <1>4 DEF InOrder, Drawable
<1>7. Drawable(msg["main"])'
  BY <1>1, <1>2, <1>4 DEF InOrder, Drawable
<1>8. \A j, k \in Queued' : 
         /\ j < k
         /\ g_messageQueue'[j].kind = "render"
         /\ g_messageQueue'[k].kind = "render"
         => g_messageQueue'[j].id < g_messageQueue'[k].id
  <2>1. ASSUME NEW j \in Queued', NEW k \in Queued', j < k PROVE j + 1 < k + 1
    BY <1>4, <2>1
  <2>2. QED
    BY <1>4, <2>1 DEF InOrder
<1>9. \A k \in Queued' : msg'["main"].kind = "render" /\ g_messageQueue'[k].kind = "render"
                         => msg'["main"].id < g_messageQueue'[k].id
  <2>1. ASSUME NEW k \in Queued' PROVE 1 < k + 1
    BY <1>4
  <2>2. QED
    BY <1>1, <1>4, <2>1 DEF InOrder
<1>10. InOrder'
  BY <1>6, <1>7, <1>8, <1>9 DEF InOrder
<1>11. QED
  BY <1>1, <1>3, <1>10

\* It draws the image, or fails to.
LEMMA RenderStep ==
    ASSUME TypeOK, MapInv, MainRender
    PROVE  MapInv' /\ (UNCHANGED <<status, drawn>> \/ \E i \in Ids : Service!Draw(i))
<1> USE DEF MapInv
<1> DEFINE i == msg["main"].id
<1>0. /\ msg["main"].kind = "render" /\ i \in Ids
      /\ i <= Published /\ status[i] # "refused" /\ \A d \in drawn : d < i
  BY Typed DEF MainRender, InOrder, Drawable
<1>1. /\ pc["io"]' = pc["io"] /\ pc["main"]' = "unlock"
      /\ UNCHANGED <<g_messageQueue, msg, arrived, status>>
      /\ \/ disk' = disk /\ drawn' = drawn
         \/ disk' = disk \cup {i} /\ drawn' = drawn \cup {i}
  BY Typed DEF MainRender, Goto, netVars
<1>2. IOBusy' = IOBusy /\ Published' = Published
  BY <1>1 DEF IOBusy, Published
<1>3. Numbered' /\ Accounted'
  BY <1>0, <1>1, <1>2 DEF Numbered, Accounted
<1>4. \A k \in Queued' : Drawable(g_messageQueue[k])'
  <2>1. ASSUME NEW k \in Queued, g_messageQueue[k].kind = "render"
        PROVE  i < g_messageQueue[k].id
    BY <1>0, <2>1 DEF InOrder, MainRender
  <2>2. QED
    BY <1>1, <1>2, <2>1 DEF InOrder, Drawable, Queued
<1>5. InOrder'
  BY <1>1, <1>4 DEF InOrder, Queued
<1>6. ASSUME drawn' = drawn \cup {i} PROVE Service!Draw(i)
  <2>1. status[i] \in {"waiting", "failed"}
    <3>1. status[i] # "none"
      BY <1>0, Typed DEF Numbered, Published
    <3>2. status[i] # "ok"
      BY <1>0, Typed DEF Accounted
    <3>3. QED
      BY <1>0, <3>1, <3>2, Typed DEF Statuses
  <2>2. QED
    BY <1>0, <1>1, <1>6, <2>1 DEF Service!Draw
<1>7. QED
  BY <1>0, <1>1, <1>3, <1>5, <1>6

\* Every step keeps the invariant, and maps to a step of MapService or to none.
LEMMA MapStep ==
    TypeOK /\ MapInv /\ [Next]_vars => MapInv' /\ [Service!Next]_(Service!serviceVars)
<1> SUFFICES ASSUME TypeOK, MapInv, [Next]_vars
             PROVE  MapInv' /\ [Service!Next]_(Service!serviceVars)
  OBVIOUS
<1>1. ASSUME NEW t \in Pushers, EndPush(t) PROVE MapInv' /\ UNCHANGED <<status, drawn>>
  BY <1>1, EndPushStep DEF EndPush, mapVars
<1>2. CASE Quiet
  BY <1>2, QuietStep DEF Service!serviceVars
<1>3. CASE IOReceive \/ IOFound \/ IOGiveUp
  BY <1>3, ReceiveStep, ReplyStep DEF Service!Next, Service!Ids, Ids
<1>4. CASE InputLine \/ MainPop
  BY <1>4, LineStep, PopStep DEF Service!serviceVars
<1>5. CASE MainRender
  BY <1>5, RenderStep DEF Service!serviceVars, Service!Next, Service!Ids, Ids
<1>6. CASE UNCHANGED vars
  <2>1. UNCHANGED abstract /\ disk' = disk /\ pc' = pc /\ msg' = msg
    BY <1>6 DEF vars, abstract
  <2>2. MapInv'
    BY <2>1, Frame
  <2>3. QED
    BY <2>1, <2>2 DEF abstract, Service!serviceVars
<1>7. QED
  <2>1. Next => \/ Quiet \/ IOReceive \/ IOFound \/ IOGiveUp \/ InputLine \/ MainPop \/ MainRender
                \/ \E t \in Pushers : EndPush(t)
    BY DEF Next, IOStep, InputStep, MainStep, Push, Quiet, Pushers
  <2>2. QED
    BY <1>1, <1>2, <1>3, <1>4, <1>5, <1>6, <2>1 DEF Service!serviceVars

LEMMA MapInit == Init => MapInv /\ Service!Init
<1> SUFFICES ASSUME Init PROVE MapInv /\ Service!Init
  OBVIOUS
<1>1. Numbered
  BY ConstantsAssumption DEF Init, Numbered, IOBusy, PushStates, Ids, Threads, Junk
<1>2. InOrder /\ Accounted
  BY DEF Init, InOrder, Accounted, Queued, Threads
<1>3. Service!Init
  BY DEF Init, Service!Init, Service!Ids, Ids
<1>4. QED
  BY <1>1, <1>2, <1>3 DEF MapInv

\* The threads, with their unlocked pushes, data races and lost wakeups,
\* implement MapService: order, at most one drawing, one answer each.
THEOREM Refinement == Spec => ImplementsMapService
BY MapInit, MapStep, TypeCorrect, PTL DEF Spec, ImplementsMapService, Service!Spec
=============================================================================
