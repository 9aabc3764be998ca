---------------------------- MODULE SencManager ----------------------------
(***************************************************************************)
(* Background preparation of vector charts: s57chart objects that ask for  *)
(* a SENC file (src/s57chart.cpp), the job list of the SENCThreadManager   *)
(* and its worker threads (src/SencManager.cpp), and the frame that        *)
(* completes the chart when its job is done (src/ocpn_frame.cpp).  Charts, *)
(* manager and frame run on the main thread and talk through pending       *)
(* events, which are handled only while the main thread is in a Yield:     *)
(* the server runs no event loop.  A ticket is named by the chart object   *)
(* that made it.                                                           *)
(***************************************************************************)
EXTENDS Naturals, Sequences, FiniteSets

CONSTANTS Charts,     \* chart objects; a chart opened again is another object
          Paths,      \* .000 files
          PathOf,     \* chart object -> its file
          MaxJobs,    \* m_max_jobs
          Throws      \* whether a build may end in an exception

ASSUME SencAssumption ==
    /\ IsFiniteSet(Charts)
    /\ PathOf \in [Charts -> Paths]
    /\ MaxJobs \in Nat \ {0}
    /\ Throws \in BOOLEAN

VARIABLES
    chart,        \* "none", "pending" (open, no data), "ready", "closed" (deleted)
    senc,         \* files whose SENC is up to date
    ticketList,   \* ticket_list
    status,       \* ticket -> m_status
    attached,     \* ticket -> m_chart is not NULL
    thread,       \* ticket -> state of its SENCBuildThread
    queue,        \* events queued for the manager
    frameQueue,   \* events queued for gFrame
    freed,        \* deleted tickets
    yielding      \* the main thread is in a Yield

vars == <<chart, senc, ticketList, status, attached, thread, queue, frameQueue, freed,
          yielding>>

Init ==
    /\ chart = [c \in Charts |-> "none"]
    /\ senc \in SUBSET Paths
    /\ ticketList = <<>>
    /\ status = [c \in Charts |-> "inactive"]
    /\ attached = [c \in Charts |-> TRUE]
    /\ thread = [c \in Charts |-> "none"]
    /\ queue = <<>> /\ frameQueue = <<>>
    /\ freed = {}
    /\ yielding = FALSE

Listed(c) == \E i \in DOMAIN ticketList : ticketList[i] = c

-----------------------------------------------------------------------------
(* The manager's list *)

Running(list, st) == {i \in DOMAIN list : st[list[i]] = "started"}

\* Mutant: the job that is about to start is not counted.
StartBeyond(list, st) ==
    \/ \E i \in DOMAIN list :
         /\ Cardinality(Running(list, st)) <= MaxJobs
         /\ st[list[i]] = "pending"
         /\ \A j \in 1..(i - 1) : st[list[j]] # "pending"
         /\ status' = [st EXCEPT ![list[i]] = "started"]
         /\ thread' = [thread EXCEPT ![list[i]] = "created"]
    \/ /\ \/ Cardinality(Running(list, st)) > MaxJobs
          \/ \A i \in DOMAIN list : st[list[i]] # "pending"
       /\ status' = st
       /\ UNCHANGED thread

\* StartTopJob: at most one job is started, the first that is pending.
StartTopJob(list, st) ==
    \/ \E i \in DOMAIN list :
         /\ Cardinality(Running(list, st)) < MaxJobs
         /\ st[list[i]] = "pending"
         /\ \A j \in 1..(i - 1) : st[list[j]] # "pending"
         /\ status' = [st EXCEPT ![list[i]] = "started"]
         /\ thread' = [thread EXCEPT ![list[i]] = "created"]
    \/ /\ \/ Cardinality(Running(list, st)) >= MaxJobs
          \/ \A i \in DOMAIN list : st[list[i]] # "pending"
       /\ status' = st
       /\ UNCHANGED thread

\* Mutant: jobs are compared by chart object, not by file.
ScheduleAnyway(c) ==
    /\ ticketList' = Append(ticketList, c)
    /\ StartTopJob(ticketList', [status EXCEPT ![c] = "pending"])

\* ScheduleJob: a file that already has a ticket gets no second one, and the
\* new ticket is dropped.
ScheduleJob(c) ==
    IF \E i \in DOMAIN ticketList : PathOf[ticketList[i]] = PathOf[c]
      THEN UNCHANGED <<ticketList, status, thread>>
      ELSE /\ ticketList' = Append(ticketList, c)
           /\ StartTopJob(ticketList', [status EXCEPT ![c] = "pending"])

FinishJob(c) ==
    \/ \E i \in DOMAIN ticketList :
         /\ ticketList[i] = c
         /\ ticketList' = SubSeq(ticketList, 1, i - 1)
                            \o SubSeq(ticketList, i + 1, Len(ticketList))
    \/ ~Listed(c) /\ UNCHANGED ticketList

-----------------------------------------------------------------------------
(* Charts, on the main thread, also in the handlers that a Yield runs *)

\* FindOrCreateSenc compares the SENC's edition, update and date with the file's.
UpToDate(c) == PathOf[c] \in senc

\* BuildSENCFile makes a ticket and hands it to the manager.
BuildSENCFile(c) ==
    /\ chart' = [chart EXCEPT ![c] = "pending"]
    /\ ScheduleJob(c)

\* Init: with an up-to-date SENC the chart is completed at once, without one
\* it stays open and empty until the job is done.
Open(c) ==
    /\ chart[c] = "none"
    /\ \/ /\ UpToDate(c)
          /\ chart' = [chart EXCEPT ![c] = "ready"]
          /\ UNCHANGED <<ticketList, status, thread>>
       \/ /\ ~UpToDate(c)
          /\ BuildSENCFile(c)
    /\ UNCHANGED <<senc, attached, queue, frameQueue, freed, yielding>>

\* SetChartPointer(chart, NULL): only a ticket in the list forgets its chart.
SetChartPointer(c) == attached' = [attached EXCEPT ![c] = @ /\ ~Listed(c)]

\* ~s57chart: the cache deletes the chart.
Close(c) ==
    /\ chart[c] \in {"pending", "ready"}
    /\ chart' = [chart EXCEPT ![c] = "closed"]
    /\ SetChartPointer(c)
    /\ UNCHANGED <<senc, ticketList, status, thread, queue, frameQueue, freed, yielding>>

\* ParseAllENC builds with background work disabled.
BuildNow(p) ==
    /\ ~yielding
    /\ senc' = senc \cup {p}
    /\ UNCHANGED <<chart, ticketList, status, attached, thread, queue, frameQueue, freed, yielding>>

\* A new edition or update of the file arrives.
Outdate(p) ==
    /\ senc' = senc \ {p}
    /\ UNCHANGED <<chart, ticketList, status, attached, thread, queue, frameQueue, freed, yielding>>

-----------------------------------------------------------------------------
(* SENCBuildThread::Entry *)

Started(c) ==
    /\ thread[c] = "created"
    /\ thread' = [thread EXCEPT ![c] = "building"]
    /\ queue' = Append(queue, [type |-> "STARTED", ticket |-> c])
    /\ UNCHANGED <<chart, senc, ticketList, status, attached, frameQueue, freed, yielding>>

\* Mutant: an aborted build is reported under a type of its own.
BuildAborts(c) ==
    /\ thread[c] = "building"
    /\ \/ /\ thread' = [thread EXCEPT ![c] = "DONE_NOERROR"]
          /\ senc' = senc \cup {PathOf[c]}
       \/ /\ thread' = [thread EXCEPT ![c] = "DONE_ABORTED"]
          /\ UNCHANGED senc
    /\ UNCHANGED <<chart, ticketList, status, attached, queue, frameQueue, freed, yielding>>

\* createSenc200 renames a complete file into place, gives up, or finds that
\* the chart cannot be read.  The global mutex m, which a build gives back while
\* it tessellates a polygon, keeps the GDAL calls of two builds apart, not the
\* builds.
Build(c) ==
    /\ thread[c] = "building"
    /\ \/ /\ thread' = [thread EXCEPT ![c] = "DONE_NOERROR"]
          /\ senc' \in {senc, senc \cup {PathOf[c]}}
       \/ /\ thread' = [thread EXCEPT ![c] = "DONE_ERROR"]
          /\ UNCHANGED senc
    /\ UNCHANGED <<chart, ticketList, status, attached, queue, frameQueue, freed, yielding>>

\* The exception is caught, and no event is queued.
Throw(c) ==
    /\ Throws
    /\ thread[c] = "building"
    /\ thread' = [thread EXCEPT ![c] = "threw"]
    /\ UNCHANGED <<chart, senc, ticketList, status, attached, queue, frameQueue, freed, yielding>>

\* Mutant: a build that gave up is reported as no result at all.
DoneQuietly(c) ==
    /\ thread[c] \in {"DONE_NOERROR", "DONE_ERROR"}
    /\ thread' = [thread EXCEPT ![c] = "finished"]
    /\ queue' = IF thread[c] = "DONE_ERROR" THEN queue
                ELSE Append(queue, [type |-> thread[c], ticket |-> c])
    /\ UNCHANGED <<chart, senc, ticketList, status, attached, frameQueue, freed, yielding>>

Done(c) ==
    /\ thread[c] \in {"DONE_NOERROR", "DONE_ERROR"}
    /\ thread' = [thread EXCEPT ![c] = "finished"]
    /\ queue' = Append(queue, [type |-> thread[c], ticket |-> c])
    /\ UNCHANGED <<chart, senc, ticketList, status, attached, frameQueue, freed, yielding>>

Worker(c) == Started(c) \/ Build(c) \/ Throw(c) \/ Done(c)

-----------------------------------------------------------------------------
(* Event handlers, on the main thread *)

\* On Windows and macOS ParseAllENC yields after each file; OnInit does so on
\* every platform, before it opens charts.
YieldBegins ==
    /\ ~yielding
    /\ yielding' = TRUE
    /\ UNCHANGED <<chart, senc, ticketList, status, attached, thread, queue, frameQueue, freed>>

\* It returns when no event is left.
YieldEnds ==
    /\ yielding
    /\ queue = <<>>
    /\ frameQueue = <<>>
    /\ yielding' = FALSE
    /\ UNCHANGED <<chart, senc, ticketList, status, attached, thread, queue, frameQueue, freed>>

Forward == frameQueue' = Append(frameQueue, Head(queue))

\* SENCThreadManager::OnEvtThread
ManagerEvent ==
    /\ yielding
    /\ queue # <<>>
    /\ queue' = Tail(queue)
    /\ \/ /\ Head(queue).type = "STARTED"
          /\ UNCHANGED <<ticketList, status, thread>>
       \/ /\ Head(queue).type # "STARTED"
          /\ FinishJob(Head(queue).ticket)
          /\ StartTopJob(ticketList', status)
    /\ Forward
    /\ UNCHANGED <<chart, senc, attached, freed, yielding>>

\* PostInit reads the SENC; for a chart that is gone it touches freed memory,
\* which the model leaves without effect (see NoDanglingChart).
PostInit(c) ==
    chart' = IF chart[c] = "pending" /\ PathOf[c] \in senc
               THEN [chart EXCEPT ![c] = "ready"]
               ELSE chart

\* Mutant: the ticket is deleted with the first event about it.
FrameFreesEarly ==
    /\ yielding
    /\ frameQueue # <<>>
    /\ frameQueue' = Tail(frameQueue)
    /\ LET e == Head(frameQueue) IN
         /\ IF e.type = "DONE_NOERROR" /\ attached[e.ticket] THEN PostInit(e.ticket) ELSE UNCHANGED chart
         /\ freed' = freed \cup {e.ticket}
    /\ UNCHANGED <<senc, ticketList, status, attached, thread, queue, yielding>>

\* MyFrame::OnSENCEvtThread
FrameEvent ==
    /\ yielding
    /\ frameQueue # <<>>
    /\ frameQueue' = Tail(frameQueue)
    /\ LET e == Head(frameQueue) IN
         \/ /\ e.type = "DONE_NOERROR"
            /\ IF attached[e.ticket] THEN PostInit(e.ticket) ELSE UNCHANGED chart
            /\ freed' = freed \cup {e.ticket}
         \/ /\ e.type # "DONE_NOERROR"
            /\ UNCHANGED <<chart, freed>>
    /\ UNCHANGED <<senc, ticketList, status, attached, thread, queue, yielding>>

Next ==
    \/ \E c \in Charts : Open(c) \/ Close(c) \/ Worker(c)
    \/ \E p \in Paths : BuildNow(p) \/ Outdate(p)
    \/ YieldBegins \/ ManagerEvent \/ FrameEvent \/ YieldEnds

Spec == Init /\ [][Next]_vars

\* Worker threads run, and a Yield that has begun goes on until no event is
\* left.  Nothing says that the main thread yields again.
FairSpec ==
    /\ Spec
    /\ \A c \in Charts : WF_vars(Worker(c))
    /\ WF_vars(ManagerEvent)
    /\ WF_vars(FrameEvent)

-----------------------------------------------------------------------------
(* Properties *)

Events == [type : {"STARTED", "DONE_NOERROR", "DONE_ERROR"}, ticket : Charts]

TypeOK ==
    /\ chart \in [Charts -> {"none", "pending", "ready", "closed"}]
    /\ senc \subseteq Paths
    /\ ticketList \in Seq(Charts)
    /\ status \in [Charts -> {"inactive", "pending", "started"}]
    /\ attached \in [Charts -> BOOLEAN]
    /\ thread \in [Charts -> {"none", "created", "building", "DONE_NOERROR",
                              "DONE_ERROR", "finished", "threw"}]
    /\ queue \in Seq(Events)
    /\ frameQueue \in Seq(Events)
    /\ freed \subseteq Charts
    /\ yielding \in BOOLEAN

Busy(c) == thread[c] \in {"created", "building", "DONE_NOERROR", "DONE_ERROR"}

Active(c) == Busy(c) \/ Listed(c)

\* A file never has two jobs: no second one is listed while a worker thread
\* builds its SENC, and no two threads build one file, although a chart may be
\* deleted and opened again while its old job waits or runs.
OneJobPerFile ==
    \A c, d \in Charts : Active(c) /\ Active(d) /\ PathOf[c] = PathOf[d] => c = d

\* There are never more worker threads than m_max_jobs.
SlotsRespected == Cardinality({c \in Charts : Busy(c)}) <= MaxJobs

\* A job waits only while every slot is taken: StartTopJob starts one job a
\* call, and that is enough.
NoIdleSlot ==
    (\E i \in DOMAIN ticketList : status[ticketList[i]] = "pending")
        => Cardinality(Running(ticketList, status)) = MaxJobs

\* The slots are neither exceeded nor left idle, although the code counts the
\* jobs of its list and not the threads, and a build that threw keeps its place.
SlotsUsed == SlotsRespected /\ NoIdleSlot

Mentions(q, c) == \E i \in DOMAIN q : q[i].ticket = c

\* A ticket is deleted only when its thread has ended, it has left the list
\* and no event that points to it is still to be handled.
FreedIsUnused ==
    \A c \in freed : ~Busy(c) /\ ~Listed(c) /\ ~Mentions(queue, c) /\ ~Mentions(frameQueue, c)

\* Jobs start in the order they were scheduled: nobody in the list overtakes.
StartedInOrder ==
    \A i, j \in DOMAIN ticketList :
        i < j /\ status[ticketList[j]] = "started" => status[ticketList[i]] = "started"

\* A job whose thread has returned is on the list only while the event that
\* takes it off is queued: no report is lost, so that a Yield, which ends with
\* both queues empty, leaves no such job behind.
NoReportLost ==
    \A c \in Charts :
        Listed(c) /\ thread[c] = "finished" =>
            \E i \in DOMAIN queue : queue[i].type # "STARTED" /\ queue[i].ticket = c

\* A job whose thread has returned leaves the list, and the events about it
\* both queues, in the Yield that is under way, whatever its result and however
\* the events of other jobs come between.  Without a Yield it stays: no job
\* that ends after the last one is ever taken off the list.
EveryJobEnds ==
    \A c \in Charts :
        yielding /\ thread[c] = "finished"
            ~> ~Listed(c) /\ ~Mentions(queue, c) /\ ~Mentions(frameQueue, c)

(* What the comments say and the code does not do *)

\* "Check the SENCThreadManager to see if this chart is queued or active":
\* a deleted chart is not pointed to by a ticket the frame will look at.
NoDanglingChart ==
    \A i \in DOMAIN frameQueue :
        frameQueue[i].type = "DONE_NOERROR" /\ attached[frameQueue[i].ticket]
            => chart[frameQueue[i].ticket] # "closed"
=============================================================================
