-------------------------- MODULE GetMapRendezvous --------------------------
(***************************************************************************)
(* The threads of the WMS server (main/https_server.cpp) and the message   *)
(* queue they share: the main thread draws maps and obeys commands, the    *)
(* one IO thread runs the HTTP and HTTPS handlers, the input thread reads  *)
(* the operator's console.  g_mtx protects the queue only in part: every   *)
(* push is done with g_mtx released.  A step of a thread here is the code  *)
(* between two points where another thread can observe a difference.       *)
(***************************************************************************)
EXTENDS Naturals, Sequences

CONSTANTS MaxRequests,          \* bound: GetMap requests that arrive
          MaxLines,             \* bound: lines typed at the console
          MaxSpurious,          \* bound: spurious wakeups of main between two messages
          Commands,             \* the commands typed, of AllCommands
          SignalsOn,            \* whether a signal may be delivered
          BindMayFail,          \* whether a server's address may be in use
          DELAY_FOR_RESPONSE,   \* tries at opening the image (15)
          GIVE_UP               \* tries from which the answer is 400 (5)

AllCommands == {"restart", "exit"}

ASSUME ConstantsAssumption ==
    /\ MaxRequests \in Nat
    /\ MaxLines \in Nat
    /\ MaxSpurious \in Nat
    /\ Commands \subseteq AllCommands
    /\ SignalsOn \in BOOLEAN
    /\ BindMayFail \in BOOLEAN
    /\ DELAY_FOR_RESPONSE \in Nat
    /\ GIVE_UP \in Nat
    /\ GIVE_UP <= DELAY_FOR_RESPONSE

VARIABLES
    pc,             \* thread -> where it is
    g_mtx,          \* the thread that holds the mutex, or "free"
    g_messageQueue, \* the published messages, oldest first
    msg,            \* thread -> the message it pushes (io, input) or handles (main)
    raced,          \* thread -> its unlocked push overlapped with another one
    g_bUserInput,   \* the input thread's loop flag
    signalled,      \* g_nCSignal > 0, or g_isRunning false
    todo,           \* servers the command "!" has still to restart
    started,        \* server -> IsStarted()
    posted,         \* handlers posted to the Asio service, oldest first
    arrived,        \* requests received so far
    tries,          \* nDelayIndex of the running MakeGetMapResponse
    disk,           \* requests whose image file exists
    typed,          \* lines typed so far
    spurious,       \* spurious wakeups since the last message
    status,         \* request -> its answer
    drawn           \* history: requests whose image was ever drawn

vars == <<pc, g_mtx, g_messageQueue, msg, raced, g_bUserInput, signalled, todo,
          started, posted, arrived, tries, disk, typed, spurious, status, drawn>>

netVars  == <<started, posted, arrived>>
userVars == <<g_bUserInput, typed, spurious>>
mapVars  == <<disk, status, drawn, tries>>

Threads == {"main", "io", "input"}
Pushers == {"io", "input"}
Servers == {"HTTP", "HTTPS"}
Ids     == 1..MaxRequests

Render(i)  == [kind |-> "render", id |-> i]
Command(c) == [kind |-> c, id |-> 0]
Junk       == [kind |-> "junk", id |-> 0]    \* a slot no push has filled

Goto(t, l) == pc' = [pc EXCEPT ![t] = l]
Forget(t)  == msg' = [msg EXCEPT ![t] = Junk]   \* a local, gone with its scope
Task(o, s) == [op |-> o, server |-> s]
Post(h)    == posted' = Append(posted, h)

Init ==
    /\ pc = [t \in Threads |-> CASE t = "main" -> "top" [] t = "io" -> "idle" [] t = "input" -> "loop"]
    /\ g_mtx = "free"
    /\ g_messageQueue = <<>>
    /\ msg = [t \in Threads |-> Junk]
    /\ raced = [t \in Pushers |-> FALSE]
    /\ g_bUserInput = TRUE
    /\ signalled = FALSE
    /\ todo = <<>>
    /\ started = [s \in Servers |-> FALSE]
    /\ posted = <<Task("start", "HTTPS"), Task("start", "HTTP")>>
    /\ arrived = 0
    /\ tries = 0
    /\ disk = {}
    /\ typed = 0
    /\ spurious = 0
    /\ status = [i \in Ids |-> "none"]
    /\ drawn = {}

-----------------------------------------------------------------------------
(* The push both the request handler and the input thread perform: lock and *)
(* unlock g_mtx, push without it, notify, sleep.                            *)

Barrier(t) ==
    /\ pc[t] = "enter"
    /\ g_mtx = "free"
    /\ Goto(t, "write")
    /\ UNCHANGED <<g_mtx, g_messageQueue, msg, raced, signalled, todo, netVars, userVars, mapVars>>

\* The message is built in the slot after the last; nothing keeps the other
\* pusher from building its own in the same slot.
BeginPush(t) ==
    /\ pc[t] = "write"
    /\ Goto(t, "publish")
    /\ raced' = IF \E u \in Pushers \ {t} : pc[u] = "publish"
                  THEN [u \in Pushers |-> TRUE]
                  ELSE raced
    /\ UNCHANGED <<g_mtx, g_messageQueue, msg, signalled, todo, netVars, userVars, mapVars>>

\* The end of the queue moves over the slot.  Of two overlapping pushes one
\* may vanish, and the end may move over a slot that was never filled.
EndPush(t) ==
    /\ pc[t] = "publish"
    /\ Goto(t, "notify")
    /\ \/ g_messageQueue' = Append(g_messageQueue, msg[t])
       \/ raced[t] /\ g_messageQueue' \in {g_messageQueue, Append(g_messageQueue, Junk)}
    /\ raced' = [raced EXCEPT ![t] = FALSE]
    /\ UNCHANGED <<g_mtx, msg, signalled, todo, netVars, userVars, mapVars>>

\* g_cv.notify_one() reaches the main thread only if it sleeps by now.
Notify(t) ==
    /\ pc[t] = "notify"
    /\ pc' = [pc EXCEPT ![t] = "relock",
                        !["main"] = IF @ = "wait" THEN "woken" ELSE @]
    /\ UNCHANGED <<g_mtx, g_messageQueue, msg, raced, signalled, todo, netVars, userVars, mapVars>>

Push(t) == Barrier(t) \/ BeginPush(t) \/ EndPush(t) \/ Notify(t)

-----------------------------------------------------------------------------
(* The IO thread *)

\* A request is received and its parameters read.  One without the
\* parameters of a GetMap is answered 400 at once.
IOReceive ==
    /\ pc["io"] = "idle"
    /\ \E s \in Servers : started[s]
    /\ arrived < MaxRequests
    /\ arrived' = arrived + 1
    /\ \/ /\ Goto("io", "enter")
          /\ msg' = [msg EXCEPT !["io"] = Render(arrived + 1)]
          /\ status' = [status EXCEPT ![arrived + 1] = "waiting"]
       \/ /\ status' = [status EXCEPT ![arrived + 1] = "refused"]
          /\ UNCHANGED <<pc, msg>>
    /\ UNCHANGED <<g_mtx, g_messageQueue, raced, signalled, todo, started, posted,
                   userVars, disk, drawn, tries>>

\* Mutant: the handler does not take g_mtx again before it answers.
AnswerUnlocked ==
    /\ pc["io"] = "relock"
    /\ tries' = 0
    /\ Goto("io", "try")
    /\ UNCHANGED <<g_mtx, g_messageQueue, msg, raced, signalled, todo, netVars, userVars,
                   disk, status, drawn>>

\* After the sleep the handler takes g_mtx and keeps it until it has answered.
IORelock ==
    /\ pc["io"] = "relock"
    /\ g_mtx = "free"
    /\ g_mtx' = "io"
    /\ tries' = 0
    /\ Goto("io", "try")
    /\ UNCHANGED <<g_messageQueue, msg, raced, signalled, todo, netVars, userVars,
                   disk, status, drawn>>

Reply(answer) ==
    /\ status' = [status EXCEPT ![msg["io"].id] = answer]
    /\ g_mtx' = "free"
    /\ Goto("io", "idle")
    /\ Forget("io")
    /\ tries' = 0
    /\ UNCHANGED <<g_messageQueue, raced, signalled, todo, netVars, userVars,
                   disk, drawn>>

\* An image found late is thrown away: the test after the loop looks only at
\* the number of tries.
IOFound ==
    /\ pc["io"] = "try"
    /\ tries < DELAY_FOR_RESPONSE
    /\ msg["io"].id \in disk
    /\ Reply(IF tries >= GIVE_UP THEN "failed" ELSE "ok")

\* Mutant: one try too many.
RetryOnceMore ==
    /\ pc["io"] = "try"
    /\ tries <= DELAY_FOR_RESPONSE
    /\ msg["io"].id \notin disk
    /\ tries' = tries + 1
    /\ UNCHANGED <<pc, g_mtx, g_messageQueue, msg, raced, signalled, todo, netVars,
                   userVars, disk, status, drawn>>

IORetry ==
    /\ pc["io"] = "try"
    /\ tries < DELAY_FOR_RESPONSE
    /\ msg["io"].id \notin disk
    /\ tries' = tries + 1
    /\ UNCHANGED <<pc, g_mtx, g_messageQueue, msg, raced, signalled, todo, netVars,
                   userVars, disk, status, drawn>>

\* Mutant: the answer after the last try is forgotten.
NeverGiveUp ==
    /\ pc["io"] = "try"
    /\ tries > DELAY_FOR_RESPONSE
    /\ Reply("failed")

IOGiveUp ==
    /\ pc["io"] = "try"
    /\ tries = DELAY_FOR_RESPONSE
    /\ Reply("failed")

\* A posted start or stop handler of a server, or the stop of the service.  A
\* server that cannot bind its address throws, and the IO thread ends without
\* telling the service.
IOTask ==
    /\ pc["io"] = "idle"
    /\ posted # <<>>
    /\ posted' = Tail(posted)
    /\ LET h == Head(posted) IN
         \/ /\ h.op \in {"start", "stop"}
            /\ started' = [started EXCEPT ![h.server] = (h.op = "start")]
            /\ UNCHANGED pc
         \/ /\ h.op = "start"
            /\ BindMayFail
            /\ Goto("io", "threw")
            /\ UNCHANGED started
         \/ /\ h.op = "service stop"
            /\ Goto("io", "dead")
            /\ UNCHANGED started
    /\ UNCHANGED <<g_mtx, g_messageQueue, msg, raced, signalled, todo, arrived,
                   userVars, mapVars>>

IOStep == Push("io") \/ IORelock \/ IOFound \/ IORetry \/ IOGiveUp \/ IOTask

-----------------------------------------------------------------------------
(* The input thread *)

InputTest ==
    /\ pc["input"] = "loop"
    /\ Goto("input", IF g_bUserInput THEN "getline" ELSE "dead")
    /\ UNCHANGED <<g_mtx, g_messageQueue, msg, raced, signalled, todo, netVars, userVars, mapVars>>

\* getline returns a command, or a line that is none.
InputLine ==
    /\ pc["input"] = "getline"
    /\ typed < MaxLines
    /\ typed' = typed + 1
    /\ \/ \E c \in Commands :
             /\ msg' = [msg EXCEPT !["input"] = Command(c)]
             /\ Goto("input", "enter")
       \/ Goto("input", "loop") /\ UNCHANGED msg
    /\ UNCHANGED <<g_mtx, g_messageQueue, raced, signalled, todo, netVars,
                   g_bUserInput, spurious, mapVars>>

\* The second lock of g_mtx is released at the end of the block.
InputRelock ==
    /\ pc["input"] = "relock"
    /\ g_mtx = "free"
    /\ Forget("input")
    /\ Goto("input", "loop")
    /\ UNCHANGED <<g_mtx, g_messageQueue, raced, signalled, todo, netVars, userVars, mapVars>>

InputStep == Push("input") \/ InputTest \/ InputRelock

-----------------------------------------------------------------------------
(* The main thread *)

MainTest ==
    /\ pc["main"] = "top"
    /\ Goto("main", IF signalled THEN "after" ELSE "lock")
    /\ UNCHANGED <<g_mtx, g_messageQueue, msg, raced, signalled, todo, netVars, userVars, mapVars>>

MainLock ==
    /\ pc["main"] \in {"lock", "woken"}
    /\ g_mtx = "free"
    /\ g_mtx' = "main"
    /\ Goto("main", "check")
    /\ UNCHANGED <<g_messageQueue, msg, raced, signalled, todo, netVars, userVars, mapVars>>

\* g_cv.wait found the queue empty and is about to sleep.
MainEmpty ==
    /\ pc["main"] = "check"
    /\ g_messageQueue = <<>>
    /\ Goto("main", "park")
    /\ UNCHANGED <<g_mtx, g_messageQueue, msg, raced, signalled, todo, netVars, userVars, mapVars>>

\* It releases g_mtx and sleeps in one step.
MainPark ==
    /\ pc["main"] = "park"
    /\ g_mtx' = "free"
    /\ Goto("main", "wait")
    /\ UNCHANGED <<g_messageQueue, msg, raced, signalled, todo, netVars, userVars, mapVars>>

\* Mutant: the newest message is served first.
PopNewest ==
    /\ pc["main"] = "check"
    /\ g_messageQueue # <<>>
    /\ msg' = [msg EXCEPT !["main"] = g_messageQueue[Len(g_messageQueue)]]
    /\ g_messageQueue' = SubSeq(g_messageQueue, 1, Len(g_messageQueue) - 1)
    /\ spurious' = 0
    /\ Goto("main", "work")
    /\ UNCHANGED <<g_mtx, raced, signalled, todo, netVars, g_bUserInput, typed, mapVars>>

MainPop ==
    /\ pc["main"] = "check"
    /\ g_messageQueue # <<>>
    /\ msg' = [msg EXCEPT !["main"] = Head(g_messageQueue)]
    /\ g_messageQueue' = Tail(g_messageQueue)
    /\ spurious' = 0
    /\ Goto("main", "work")
    /\ UNCHANGED <<g_mtx, raced, signalled, todo, netVars, g_bUserInput, typed, mapVars>>

\* UpdateFrameCanvas writes the file, or returns (or throws) without it.
MainRender ==
    /\ pc["main"] = "work"
    /\ msg["main"].kind = "render"
    /\ \/ /\ disk' = disk \cup {msg["main"].id}
          /\ drawn' = drawn \cup {msg["main"].id}
       \/ UNCHANGED <<disk, drawn>>
    /\ Goto("main", "unlock")
    /\ UNCHANGED <<g_mtx, g_messageQueue, msg, raced, signalled, todo, netVars,
                   userVars, status, tries>>

\* What a slot that was never filled does to the reader: it is dropped as no
\* message, or the thread faults and never gets further.
MainJunk ==
    /\ pc["main"] = "work"
    /\ msg["main"].kind = "junk"
    /\ \E l \in {"unlock", "fault"} : Goto("main", l)
    /\ UNCHANGED <<g_mtx, g_messageQueue, msg, raced, signalled, todo, netVars, userVars, mapVars>>

MainUnlock ==
    /\ pc["main"] = "unlock"
    /\ g_mtx' = "free"
    /\ Forget("main")
    /\ Goto("main", "top")
    /\ UNCHANGED <<g_messageQueue, raced, signalled, todo, netVars, userVars, mapVars>>

\* Mutant: the loop is left without giving g_mtx back.
ExitLocked ==
    /\ pc["main"] = "work"
    /\ msg["main"].kind = "exit"
    /\ Goto("main", "after")
    /\ UNCHANGED <<g_mtx, g_messageQueue, msg, raced, signalled, todo, netVars, userVars, mapVars>>

\* "exit" leaves the loop, and with it the scope of the lock.
MainExit ==
    /\ pc["main"] = "work"
    /\ msg["main"].kind = "exit"
    /\ g_mtx' = "free"
    /\ Forget("main")
    /\ Goto("main", "after")
    /\ UNCHANGED <<g_messageQueue, raced, signalled, todo, netVars, userVars, mapVars>>

MainRestart ==
    /\ pc["main"] = "work"
    /\ msg["main"].kind = "restart"
    /\ todo' = <<"HTTP", "HTTPS">>
    /\ Goto("main", "stop")
    /\ UNCHANGED <<g_mtx, g_messageQueue, msg, raced, signalled, netVars, userVars, mapVars>>

\* Mutant: Restart waits for a stop it has not posted.
RestartWithoutStop ==
    /\ pc["main"] = "stop"
    /\ todo # <<>>
    /\ started[Head(todo)]
    /\ Goto("main", "spin")
    /\ UNCHANGED <<g_mtx, g_messageQueue, msg, raced, signalled, todo, netVars,
                   userVars, mapVars>>

\* Restart() of the next server posts its stop, and gives up if it is not
\* started.
MainStop ==
    /\ pc["main"] = "stop"
    /\ \/ /\ todo # <<>>
          /\ started[Head(todo)]
          /\ Post(Task("stop", Head(todo)))
          /\ Goto("main", "spin")
          /\ UNCHANGED todo
       \/ /\ todo # <<>>
          /\ ~started[Head(todo)]
          /\ todo' = Tail(todo)
          /\ UNCHANGED <<pc, posted>>
       \/ /\ todo = <<>>
          /\ Goto("main", "unlock")
          /\ UNCHANGED <<todo, posted>>
    /\ UNCHANGED <<g_mtx, g_messageQueue, msg, raced, signalled, started, arrived,
                   userVars, mapVars>>

\* It spins, with g_mtx held, until the IO thread has run the stop, then posts
\* the start.
MainSpin ==
    /\ pc["main"] = "spin"
    /\ todo # <<>>
    /\ ~started[Head(todo)]
    /\ Post(Task("start", Head(todo)))
    /\ todo' = Tail(todo)
    /\ Goto("main", "stop")
    /\ UNCHANGED <<g_mtx, g_messageQueue, msg, raced, signalled, started, arrived,
                   userVars, mapVars>>

\* After the loop: the input thread is told to stop.
MainAfter ==
    /\ pc["main"] = "after"
    /\ g_bUserInput' = FALSE
    /\ Goto("main", "cleanup")
    /\ UNCHANGED <<g_mtx, g_messageQueue, msg, raced, signalled, todo, netVars, typed, spurious, mapVars>>

\* OnExit empties the image directory while the servers still run.
MainCleanup ==
    /\ pc["main"] = "cleanup"
    /\ disk' = {}
    /\ Goto("main", "stop servers")
    /\ UNCHANGED <<g_mtx, g_messageQueue, msg, raced, signalled, todo, netVars,
                   userVars, status, drawn, tries>>

\* Stop of a server that is not started posts nothing.
StopTask(s) == IF started[s] THEN <<Task("stop", s)>> ELSE <<>>

MainStopServers ==
    /\ pc["main"] = "stop servers"
    /\ posted' = posted \o StopTask("HTTPS") \o StopTask("HTTP")
                         \o <<Task("service stop", "none")>>
    /\ Goto("main", "join io")
    /\ UNCHANGED <<g_mtx, g_messageQueue, msg, raced, signalled, todo, started,
                   arrived, userVars, mapVars>>

MainJoinIO ==
    /\ pc["main"] = "join io"
    /\ pc["io"] \in {"dead", "threw"}
    /\ Goto("main", "wait service")
    /\ UNCHANGED <<g_mtx, g_messageQueue, msg, raced, signalled, todo, netVars, userVars, mapVars>>

\* Service::Stop spins until the service is stopped, which the handler of the
\* stop tells; a thread that has thrown never runs it.
MainServiceStopped ==
    /\ pc["main"] = "wait service"
    /\ pc["io"] = "dead"
    /\ Goto("main", "join input")
    /\ UNCHANGED <<g_mtx, g_messageQueue, msg, raced, signalled, todo, netVars, userVars, mapVars>>

MainJoinInput ==
    /\ pc["main"] = "join input"
    /\ pc["input"] = "dead"
    /\ Goto("main", "done")
    /\ UNCHANGED <<g_mtx, g_messageQueue, msg, raced, signalled, todo, netVars, userVars, mapVars>>

MainStep ==
    \/ MainTest \/ MainLock \/ MainEmpty \/ MainPark \/ MainPop \/ MainRender
    \/ MainJunk \/ MainUnlock \/ MainExit \/ MainRestart \/ MainStop \/ MainSpin
    \/ MainAfter \/ MainCleanup \/ MainStopServers \/ MainJoinIO
    \/ MainServiceStopped \/ MainJoinInput

-----------------------------------------------------------------------------
(* The environment *)

SpuriousWakeup ==
    /\ pc["main"] = "wait"
    /\ spurious < MaxSpurious
    /\ spurious' = spurious + 1
    /\ Goto("main", "woken")
    /\ UNCHANGED <<g_mtx, g_messageQueue, msg, raced, signalled, todo, netVars,
                   g_bUserInput, typed, mapVars>>

\* A signal handler only sets flags; it does not wake the condition variable.
Signal ==
    /\ SignalsOn
    /\ ~signalled
    /\ signalled' = TRUE
    /\ UNCHANGED <<pc, g_mtx, g_messageQueue, msg, raced, todo, netVars, userVars, mapVars>>

Next == IOStep \/ IOReceive \/ InputStep \/ InputLine \/ MainStep \/ SpuriousWakeup \/ Signal

Spec == Init /\ [][Next]_vars

\* Each thread keeps running; clients, operator and signals need not come.
FairSpec == Spec /\ WF_vars(MainStep) /\ WF_vars(IOStep) /\ WF_vars(InputStep)

-----------------------------------------------------------------------------
(* Properties *)

MainLocked  == {"check", "park", "work", "unlock", "fault", "stop", "spin"}
MainStates  == MainLocked \cup {"top", "lock", "wait", "woken", "after", "cleanup",
                                "stop servers", "join io", "wait service", "join input",
                                "done"}
PushStates  == {"enter", "write", "publish", "notify", "relock"}
IOStates    == PushStates \cup {"idle", "try", "dead", "threw"}
InputStates == PushStates \cup {"loop", "getline", "dead"}
Messages    == [kind : {"render"}, id : Ids] \cup [kind : AllCommands \cup {"junk"}, id : {0}]
Handlers    == [op : {"start", "stop", "service stop"}, server : Servers \cup {"none"}]
Statuses    == {"none", "refused", "waiting", "ok", "failed"}

\* Every variable keeps its type; in particular the retry counter of
\* MakeGetMapResponse never passes its bound.
TypeOK ==
    /\ pc \in [Threads -> MainStates \cup IOStates \cup InputStates]
    /\ pc["main"] \in MainStates
    /\ pc["io"] \in IOStates
    /\ pc["input"] \in InputStates
    /\ g_mtx \in {"free", "main", "io"}
    /\ g_messageQueue \in Seq(Messages)
    /\ msg \in [Threads -> Messages]
    /\ raced \in [Pushers -> BOOLEAN]
    /\ g_bUserInput \in BOOLEAN
    /\ signalled \in BOOLEAN
    /\ todo \in Seq(Servers)
    /\ started \in [Servers -> BOOLEAN]
    /\ posted \in Seq(Handlers)
    /\ arrived \in 0..MaxRequests
    /\ tries \in 0..DELAY_FOR_RESPONSE
    /\ disk \subseteq Ids
    /\ typed \in 0..MaxLines
    /\ spurious \in 0..MaxSpurious
    /\ status \in [Ids -> Statuses]
    /\ drawn \subseteq Ids

\* The mutex has the owner its users believe it has: the main thread from the
\* wait to the end of the message (a restart included), the handler while it
\* builds the answer.
MutexOwnership ==
    /\ g_mtx = "main" <=> pc["main"] \in MainLocked
    /\ g_mtx = "io"   <=> pc["io"] = "try"

\* MakeGetMapResponse retries with g_mtx held, so the main thread cannot draw
\* meanwhile: an image that is missing at the first try stays missing, and the
\* code that gives up on late images is never the one that decides.
RetriesAreFutile ==
    pc["io"] = "try" /\ tries > 0 => msg["io"].id \notin disk

\* The strengthening that ImplementsMapService rests on.  Requests carry the
\* numbers of their arrival; only the newest can be unanswered, and it is the
\* one the handler works for.
IOBusy    == pc["io"] \in PushStates \cup {"try"}
Published == IF pc["io"] \in {"enter", "write", "publish"} THEN arrived - 1 ELSE arrived

Numbered ==
    /\ \A i \in Ids : status[i] = "none" <=> i > arrived
    /\ IOBusy => /\ arrived \in Ids
                 /\ msg["io"] = Render(arrived)
                 /\ status[arrived] = "waiting"
    /\ \A i \in Ids : status[i] = "waiting" => i = arrived /\ IOBusy
    /\ msg["input"].kind # "render"

\* A request the main thread may still draw: published, not refused, newer
\* than all that is drawn.
Drawable(m) ==
    m.kind = "render" => /\ m.id <= Published
                         /\ status[m.id] # "refused"
                         /\ \A d \in drawn : d < m.id

Queued == DOMAIN g_messageQueue

\* The queue, and the message taken from it last, are in the order of arrival
\* and ahead of everything drawn.
InOrder ==
    /\ \A k \in Queued : Drawable(g_messageQueue[k])
    /\ \A j, k \in Queued : 
          /\ j < k
          /\ g_messageQueue[j].kind = "render"
          /\ g_messageQueue[k].kind = "render"
          => g_messageQueue[j].id < g_messageQueue[k].id
    /\ pc["main"] = "work" =>
          /\ Drawable(msg["main"])
          /\ \A k \in Queued :
                msg["main"].kind = "render" /\ g_messageQueue[k].kind = "render"
                => msg["main"].id < g_messageQueue[k].id

\* Only drawn images are on disk, and only they were sent.
Accounted ==
    /\ \A d \in drawn : d <= Published
    /\ disk \subseteq drawn
    /\ \A i \in Ids : status[i] = "ok" => i \in drawn

MapInv == Numbered /\ InOrder /\ Accounted

\* Maps are drawn in the order of the requests, at most once each, and an
\* answer with an image is an answer with the request's own, finished image,
\* whatever the unlocked pushes and lost wakeups do.
Service == INSTANCE MapService
ImplementsMapService == Service!Spec

\* The handler of a GetMap always comes back with an answer although wakeups
\* are lost, unless main faults on a message that the unlocked pushes have
\* garbled, or spins in a restart.
Waiting == \E i \in Ids : status[i] = "waiting"
EveryRequestAnswered == Waiting ~> ~Waiting \/ pc["main"] \in {"fault", "spin"}

\* Once the main loop is left the program ends: the stop handlers of servers
\* and service are run, even when a handler waits for g_mtx, and both threads are
\* joined.  Two things prevent it: the input thread sits in getline and nobody
\* types a line more, or a server could not bind, and Service::Stop spins.
ShutdownEnds ==
    pc["main"] = "after" ~>
        \/ pc["main"] = "done"
        \/ [](pc["main"] = "join input" /\ pc["input"] = "getline")
        \/ [](pc["main"] = "wait service" /\ pc["io"] = "threw")

\* A restart hangs for two reasons only, and nothing ends them: with the stop
\* still to be run, the handler of a request waits for the mutex that main holds
\* while it spins, or the IO thread has thrown on a server that could not bind.
HeldUp ==
    /\ pc["main"] = "spin"
    /\ started[Head(todo)]
    /\ pc["io"] \in {"enter", "relock", "threw"}
RestartReturns == pc["main"] = "spin" ~> pc["main"] # "spin" \/ HeldUp

(* What the program says of itself, and does not do *)

\* "'!' to restart the server": a restart that was begun comes to its end.
RestartCompletes == pc["main"] = "spin" ~> pc["main"] = "top"
=============================================================================
