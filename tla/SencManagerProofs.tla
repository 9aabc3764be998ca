-------------------------- MODULE SencManagerProofs --------------------------
(***************************************************************************)
(* Theorems about SencManager, for every set of charts and files and every *)
(* number of slots: one builder per file, jobs start in order, and a       *)
(* ticket is freed only when nobody needs it any more.                     *)
(***************************************************************************)
EXTENDS SencManager, SequenceTheorems, FiniteSetTheorems, TLAPS

-----------------------------------------------------------------------------
(* The inductive invariant *)

Statuses == {"inactive", "pending", "started"}
ThreadStates == {"none", "created", "building", "DONE_NOERROR", "DONE_ERROR", "finished", "threw"}
BusyStates == {"created", "building", "DONE_NOERROR", "DONE_ERROR"}

\* The list has one job for a file; the jobs that started are before those
\* that wait, whose threads do not exist yet; and every busy thread is in it.
JobList(list, st, th) ==
    /\ list \in Seq(Charts)
    /\ \A i \in DOMAIN list : st[list[i]] \in {"pending", "started"}
    /\ \A i, j \in DOMAIN list : PathOf[list[i]] = PathOf[list[j]] => i = j
    /\ \A i, j \in DOMAIN list : i < j /\ st[list[j]] = "started" => st[list[i]] = "started"
    /\ \A c \in Charts : st[c] = "pending" => th[c] = "none"
    /\ \A c \in Charts : th[c] \in BusyStates => \E i \in DOMAIN list : list[i] = c

\* A chart that was never opened has no ticket.
Unopened ==
    \A c \in Charts : chart[c] = "none" =>
        status[c] = "inactive" /\ thread[c] = "none" /\ ~Listed(c)

\* The events about a ticket end with the one that its thread is done.
LastEvents ==
    /\ \A c \in Charts : thread[c] \in {"none", "created"} => ~Mentions(queue, c) /\ ~Mentions(frameQueue, c)
    /\ \A i \in DOMAIN queue : queue[i].type # "STARTED" =>
         /\ thread[queue[i].ticket] = "finished"
         /\ \A j \in DOMAIN queue : i < j => queue[j].ticket # queue[i].ticket
    /\ \A i \in DOMAIN frameQueue : frameQueue[i].type # "STARTED" =>
         /\ thread[frameQueue[i].ticket] = "finished"
         /\ ~Listed(frameQueue[i].ticket)
         /\ ~Mentions(queue, frameQueue[i].ticket)
         /\ \A j \in DOMAIN frameQueue : i < j => frameQueue[j].ticket # frameQueue[i].ticket

FreedLast ==
    \A c \in freed : /\ thread[c] = "finished" /\ ~Listed(c)
                     /\ ~Mentions(queue, c) /\ ~Mentions(frameQueue, c)

ManagerInv == /\ TypeOK /\ JobList(ticketList, status, thread)
              /\ Unopened /\ LastEvents /\ FreedLast

-----------------------------------------------------------------------------
(* Sequences *)

\* Appending keeps the elements and adds one.
LEMMA Appended ==
    ASSUME NEW S, NEW s \in Seq(S), NEW e \in S
    PROVE  /\ Append(s, e) \in Seq(S)
           /\ Len(Append(s, e)) = Len(s) + 1
           /\ \A k \in 1..(Len(s) + 1) : Append(s, e)[k] = IF k <= Len(s) THEN s[k] ELSE e
<1>1. QED
  BY AppendProperties

\* The tail loses the first element.
LEMMA Tailed ==
    ASSUME NEW S, NEW s \in Seq(S), s # <<>>
    PROVE  /\ Tail(s) \in Seq(S)
           /\ Head(s) \in S /\ Head(s) = s[1]
           /\ Len(s) \in Nat \ {0}
           /\ Len(Tail(s)) = Len(s) - 1
           /\ \A k \in 1..(Len(s) - 1) : Tail(s)[k] = s[k + 1]
<1>1. QED
  BY HeadTailProperties, EmptySeq, LenProperties

\* FinishJob's erase: the elements behind the place move up by one.
LEMMA Removed ==
    ASSUME NEW S, NEW s \in Seq(S), NEW i \in DOMAIN s
    PROVE  LET t == SubSeq(s, 1, i - 1) \o SubSeq(s, i + 1, Len(s)) IN
           /\ t \in Seq(S)
           /\ Len(t) = Len(s) - 1
           /\ \A k \in 1..(Len(s) - 1) : t[k] = IF k < i THEN s[k] ELSE s[k + 1]
<1> DEFINE a == SubSeq(s, 1, i - 1)
           b == SubSeq(s, i + 1, Len(s))
           t == a \o b
<1>1. i \in 1..Len(s) /\ Len(s) \in Nat
  BY LenProperties
<1>2. \A k \in 1..(i - 1) : s[k] \in S
  BY <1>1, ElementOfSeq
<1>3. \A k \in (i + 1)..Len(s) : s[k] \in S
  BY <1>1, ElementOfSeq
<1>4. a \in Seq(S) /\ Len(a) = i - 1 /\ \A k \in 1..(i - 1) : a[k] = s[k]
  BY <1>1, <1>2, SubSeqProperties
<1>5. b \in Seq(S) /\ Len(b) = Len(s) - i /\ \A k \in 1..(Len(s) - i) : b[k] = s[i + k]
  BY <1>1, <1>3, SubSeqProperties
<1> HIDE DEF a, b
<1>7. /\ t \in Seq(S)
      /\ Len(t) = Len(a) + Len(b)
      /\ \A k \in 1..(Len(a) + Len(b)) : t[k] = IF k <= Len(a) THEN a[k] ELSE b[k - Len(a)]
  BY <1>4, <1>5, ConcatProperties
<1> HIDE DEF t
<1>8. Len(t) = Len(s) - 1
  BY <1>1, <1>4, <1>5, <1>7
<1>9. ASSUME NEW k \in 1..(Len(s) - 1)
      PROVE  t[k] = IF k < i THEN s[k] ELSE s[k + 1]
  <2>1. t[k] = IF k <= i - 1 THEN a[k] ELSE b[k - (i - 1)]
    <3>1. k \in 1..(Len(a) + Len(b)) /\ Len(a) = i - 1
      BY <1>1, <1>4, <1>5
    <3> QED  BY <3>1, <1>7
  <2>2. CASE k < i
    BY <2>1, <2>2, <1>1, <1>4
  <2>3. CASE ~(k < i)
    <3>1. k - (i - 1) \in 1..(Len(s) - i) /\ ~(k <= i - 1)
      BY <2>3, <1>1
    <3>2. i + (k - (i - 1)) = k + 1
      BY <1>1
    <3> QED  BY <2>1, <2>3, <3>1, <3>2, <1>5
  <2> QED  BY <2>2, <2>3
<1> QED  BY <1>7, <1>8, <1>9 DEF t, a, b

\* Mentions in a queue that an event joins.
LEMMA MentionsAppend ==
    ASSUME NEW q \in Seq(Events), NEW e \in Events, NEW c
    PROVE  Mentions(Append(q, e), c) <=> Mentions(q, c) \/ e.ticket = c
<1>1. DOMAIN Append(q, e) = 1..(Len(q) + 1) /\ DOMAIN q = 1..Len(q) /\ Len(q) \in Nat
  BY Appended, LenProperties
<1>2. \A k \in 1..(Len(q) + 1) : Append(q, e)[k] = IF k <= Len(q) THEN q[k] ELSE e
  BY Appended
<1>3. ASSUME NEW i \in DOMAIN q
      PROVE  i \in DOMAIN Append(q, e) /\ Append(q, e)[i] = q[i]
  BY <1>1, <1>2
<1>4. Len(q) + 1 \in DOMAIN Append(q, e) /\ Append(q, e)[Len(q) + 1] = e
  BY <1>1, <1>2
<1>5. ASSUME NEW i \in DOMAIN Append(q, e)
      PROVE  \/ i \in DOMAIN q /\ Append(q, e)[i] = q[i]
             \/ Append(q, e)[i] = e
  BY <1>1, <1>2
<1> QED  BY <1>3, <1>4, <1>5, Zenon DEF Mentions

\* Mentions in a queue whose first event is taken.
LEMMA MentionsTail ==
    ASSUME NEW q \in Seq(Events), q # <<>>, NEW c
    PROVE  /\ Mentions(Tail(q), c) => Mentions(q, c)
           /\ Mentions(q, Head(q).ticket)
<1>1. /\ DOMAIN Tail(q) = 1..(Len(q) - 1) /\ DOMAIN q = 1..Len(q)
      /\ Len(q) \in Nat \ {0} /\ Head(q) = q[1]
  BY Tailed, LenProperties
<1>2. \A k \in 1..(Len(q) - 1) : Tail(q)[k] = q[k + 1]
  BY Tailed
<1> QED  BY <1>1, <1>2 DEF Mentions

-----------------------------------------------------------------------------
(* The job list *)

\* What a call of StartTopJob changes: the job and the thread of one ticket.
Starts(list, st) ==
    \A d \in Charts :
        \/ status'[d] = st[d] /\ thread'[d] = thread[d]
        \/ /\ status'[d] = "started" /\ st[d] = "pending"
           /\ thread'[d] = "created" /\ thread[d] = "none"
           /\ \E i \in DOMAIN list : list[i] = d

\* StartTopJob keeps the list in order, whatever list and states it gets.
LEMMA StartKeeps ==
    ASSUME NEW list, NEW st, st \in [Charts -> Statuses], thread \in [Charts -> ThreadStates],
           JobList(list, st, thread), StartTopJob(list, st)
    PROVE  /\ status' \in [Charts -> Statuses] /\ thread' \in [Charts -> ThreadStates]
           /\ JobList(list, status', thread')
           /\ Starts(list, st)
<1>1. list \in Seq(Charts) /\ DOMAIN list = 1..Len(list) /\ Len(list) \in Nat
      /\ \A i \in DOMAIN list : list[i] \in Charts
  BY LenProperties, ElementOfSeq DEF JobList
<1>2. CASE status' = st /\ thread' = thread
  BY <1>2 DEF JobList, Starts
<1>3. ASSUME NEW i \in DOMAIN list,
             st[list[i]] = "pending",
             \A j \in 1..(i - 1) : st[list[j]] # "pending",
             status' = [st EXCEPT ![list[i]] = "started"],
             thread' = [thread EXCEPT ![list[i]] = "created"]
      PROVE  /\ status' \in [Charts -> Statuses] /\ thread' \in [Charts -> ThreadStates]
             /\ JobList(list, status', thread')
             /\ Starts(list, st)
  <2> DEFINE c == list[i]
  <2>1. c \in Charts /\ thread[c] = "none"
    BY <1>1, <1>3 DEF JobList
  <2>2. \A d \in Charts : /\ d = c => status'[d] = "started" /\ thread'[d] = "created"
                          /\ d # c => status'[d] = st[d] /\ thread'[d] = thread[d]
    BY <1>3, <2>1
  <2>3. status' \in [Charts -> Statuses]
    BY <1>3, <2>1 DEF Statuses
  <2>4. thread' \in [Charts -> ThreadStates]
    BY <1>3, <2>1 DEF ThreadStates
  <2>5. \A k \in DOMAIN list : status'[list[k]] \in {"pending", "started"}
    BY <2>2, <1>1 DEF JobList
  <2>6. ASSUME NEW k \in DOMAIN list, NEW j \in DOMAIN list, k < j, status'[list[j]] = "started"
        PROVE  status'[list[k]] = "started"
    <3>1. CASE j = i
      <4>1. k \in 1..(i - 1)
        BY <3>1, <2>6, <1>1
      <4> QED  BY <4>1, <1>3, <1>1, <2>2 DEF JobList
    <3>2. CASE j # i
      <4>1. list[j] # c
        BY <3>2, <1>3 DEF JobList
      <4>2. st[list[k]] = "started"
        BY <4>1, <2>2, <2>6, <1>1 DEF JobList
      <4> QED  BY <4>2, <2>2, <1>1
    <3> QED  BY <3>1, <3>2
  <2>7. \A d \in Charts : status'[d] = "pending" => thread'[d] = "none"
    BY <2>2 DEF JobList
  <2>8. \A d \in Charts : thread'[d] \in BusyStates => \E k \in DOMAIN list : list[k] = d
    BY <2>2 DEF JobList
  <2>9. JobList(list, status', thread')
    BY <1>1, <2>5, <2>6, <2>7, <2>8 DEF JobList
  <2>10. Starts(list, st)
    BY <1>3, <2>1, <2>2 DEF Starts
  <2> QED  BY <2>3, <2>4, <2>9, <2>10
<1> QED  BY <1>2, <1>3 DEF StartTopJob

\* A new job goes to the end of the list, if its file has no other.
LEMMA JobJoins ==
    ASSUME TypeOK, JobList(ticketList, status, thread),
           NEW c \in Charts, thread[c] = "none",
           ~ \E i \in DOMAIN ticketList : PathOf[ticketList[i]] = PathOf[c]
    PROVE  /\ [status EXCEPT ![c] = "pending"] \in [Charts -> Statuses]
           /\ JobList(Append(ticketList, c), [status EXCEPT ![c] = "pending"], thread)
           /\ \A d \in Charts : (\E i \in DOMAIN Append(ticketList, c) : Append(ticketList, c)[i] = d)
                               <=> Listed(d) \/ d = c
<1> DEFINE list == Append(ticketList, c)
           st == [status EXCEPT ![c] = "pending"]
           n == Len(ticketList)
<1>1. ticketList \in Seq(Charts) /\ DOMAIN ticketList = 1..n /\ n \in Nat
      /\ \A i \in DOMAIN ticketList : ticketList[i] \in Charts
  BY LenProperties, ElementOfSeq DEF JobList
<1>2. list \in Seq(Charts) /\ DOMAIN list = 1..(n + 1)
      /\ \A i \in 1..(n + 1) : list[i] = IF i <= n THEN ticketList[i] ELSE c
  BY <1>1, Appended, LenProperties
<1>3. \A i \in 1..n : list[i] = ticketList[i] /\ list[i] \in Charts /\ PathOf[list[i]] # PathOf[c] /\ list[i] # c
  BY <1>1, <1>2
<1>4. list[n + 1] = c /\ \A i \in 1..(n + 1) : i # n + 1 => i \in 1..n
  BY <1>1, <1>2
<1>5. st \in [Charts -> Statuses] /\ st[c] = "pending" /\ \A d \in Charts : d # c => st[d] = status[d]
  BY DEF TypeOK, Statuses
<1>6. \A d \in Charts : (\E i \in DOMAIN list : list[i] = d) <=> Listed(d) \/ d = c
  <2>1. \A i \in 1..n : i \in 1..(n + 1)
    BY <1>1
  <2>2. n + 1 \in 1..(n + 1)
    BY <1>1
  <2> HIDE DEF list, n
  <2> QED  BY <2>1, <2>2, <1>1, <1>2, <1>3, <1>4, Zenon DEF Listed
<1> HIDE DEF list, st
<1>7. \A i \in DOMAIN list : st[list[i]] \in {"pending", "started"}
  BY <1>1, <1>2, <1>3, <1>4, <1>5 DEF JobList
<1>8. \A i, j \in DOMAIN list : PathOf[list[i]] = PathOf[list[j]] => i = j
  BY <1>1, <1>2, <1>3, <1>4 DEF JobList
<1>9. ASSUME NEW i \in DOMAIN list, NEW j \in DOMAIN list, i < j, st[list[j]] = "started"
      PROVE  st[list[i]] = "started"
  <2>1. i \in 1..n /\ j \in 1..n
    BY <1>9, <1>1, <1>2, <1>4, <1>5
  <2> QED  BY <2>1, <1>1, <1>3, <1>5, <1>9 DEF JobList
<1>10. \A d \in Charts : st[d] = "pending" => thread[d] = "none"
  BY <1>5 DEF JobList
<1>11. \A d \in Charts : thread[d] \in BusyStates => \E i \in DOMAIN list : list[i] = d
  BY <1>6 DEF JobList, Listed
<1>12. JobList(list, st, thread)
  BY <1>2, <1>7, <1>8, <1>9, <1>10, <1>11 DEF JobList
<1> QED  BY <1>5, <1>6, <1>12 DEF list, st

\* A job whose thread has ended leaves the list, and leaves nothing behind.
LEMMA JobLeaves ==
    ASSUME TypeOK, JobList(ticketList, status, thread),
           NEW c \in Charts, thread[c] = "finished", FinishJob(c)
    PROVE  /\ JobList(ticketList', status, thread)
           /\ \A d \in Charts : (\E i \in DOMAIN ticketList' : ticketList'[i] = d)
                               <=> Listed(d) /\ d # c
<1> DEFINE n == Len(ticketList)
<1>1. ticketList \in Seq(Charts) /\ DOMAIN ticketList = 1..n /\ n \in Nat
      /\ \A i \in DOMAIN ticketList : ticketList[i] \in Charts
  BY LenProperties, ElementOfSeq DEF JobList
<1>2. CASE ~Listed(c) /\ ticketList' = ticketList
  BY <1>2 DEF Listed
<1>3. ASSUME NEW k \in DOMAIN ticketList, ticketList[k] = c,
             ticketList' = SubSeq(ticketList, 1, k - 1) \o SubSeq(ticketList, k + 1, Len(ticketList))
      PROVE  /\ JobList(ticketList', status, thread)
             /\ \A d \in Charts : (\E i \in DOMAIN ticketList' : ticketList'[i] = d)
                                 <=> Listed(d) /\ d # c
  <2> DEFINE old(i) == IF i < k THEN i ELSE i + 1
  <2>1. /\ ticketList' \in Seq(Charts) /\ Len(ticketList') = n - 1
        /\ \A i \in 1..(n - 1) : ticketList'[i] = IF i < k THEN ticketList[i] ELSE ticketList[i + 1]
    BY <1>1, <1>3, Removed
  <2>2. DOMAIN ticketList' = 1..(n - 1)
    BY <2>1, LenProperties
  <2>3. ASSUME NEW i \in 1..(n - 1)
        PROVE  old(i) \in 1..n /\ old(i) # k /\ ticketList'[i] = ticketList[old(i)]
    <3>1. ticketList'[i] = IF i < k THEN ticketList[i] ELSE ticketList[i + 1]
      BY <2>1
    <3>2. k \in 1..n
      BY <1>1
    <3> HIDE DEF n
    <3> QED  BY <3>1, <3>2, <1>1
  <2>4. \A i, j \in 1..(n - 1) : (i < j <=> old(i) < old(j)) /\ (old(i) = old(j) => i = j)
    BY <1>1
  <2>5. \A j \in 1..n : j # k => \E i \in 1..(n - 1) : old(i) = j
    <3> SUFFICES ASSUME NEW j \in 1..n, j # k
                 PROVE  \E i \in 1..(n - 1) : old(i) = j
      OBVIOUS
    <3>1. CASE j < k
      <4>1. j \in 1..(n - 1) /\ old(j) = j
        BY <3>1, <1>1, <1>3
      <4> QED  BY <4>1
    <3>2. CASE j > k
      <4>1. j - 1 \in 1..(n - 1) /\ old(j - 1) = j
        BY <3>2, <1>1, <1>3
      <4> QED  BY <4>1
    <3> QED  BY <3>1, <3>2, <1>1, <1>3
  <2> HIDE DEF old
  <2>6. \A j \in 1..n : ticketList[j] = c => j = k
    BY <1>1, <1>3 DEF JobList
  <2>7. \A d \in Charts : (\E i \in DOMAIN ticketList' : ticketList'[i] = d) <=> Listed(d) /\ d # c
    <3> SUFFICES ASSUME NEW d \in Charts
                 PROVE  (\E i \in DOMAIN ticketList' : ticketList'[i] = d) <=> Listed(d) /\ d # c
      OBVIOUS
    <3> HIDE DEF n
    <3>1. ASSUME NEW i \in DOMAIN ticketList', ticketList'[i] = d
          PROVE  Listed(d) /\ d # c
      BY <3>1, <2>2, <2>3, <2>6, <1>1 DEF Listed
    <3>2. ASSUME NEW j \in DOMAIN ticketList, ticketList[j] = d, d # c
          PROVE  \E i \in DOMAIN ticketList' : ticketList'[i] = d
      <4>1. PICK i \in 1..(n - 1) : old(i) = j
        BY <3>2, <2>5, <1>1, <1>3
      <4> QED  BY <4>1, <3>2, <2>2, <2>3
    <3> QED  BY <3>1, <3>2 DEF Listed
  <2>8. \A i \in DOMAIN ticketList' : status[ticketList'[i]] \in {"pending", "started"}
    BY <2>2, <2>3, <1>1 DEF JobList
  <2>9. \A i, j \in DOMAIN ticketList' : PathOf[ticketList'[i]] = PathOf[ticketList'[j]] => i = j
    BY <2>2, <2>3, <2>4, <1>1 DEF JobList
  <2>10. \A i, j \in DOMAIN ticketList' :
            i < j /\ status[ticketList'[j]] = "started" => status[ticketList'[i]] = "started"
    BY <2>2, <2>3, <2>4, <1>1 DEF JobList
  <2>11. \A d \in Charts : thread[d] \in BusyStates => \E i \in DOMAIN ticketList' : ticketList'[i] = d
    BY <2>7 DEF JobList, Listed, BusyStates
  <2>12. \A d \in Charts : status[d] = "pending" => thread[d] = "none"
    BY DEF JobList
  <2> QED  BY <2>1, <2>7, <2>8, <2>9, <2>10, <2>11, <2>12 DEF JobList
<1> QED  BY <1>2, <1>3 DEF FinishJob

-----------------------------------------------------------------------------
(* Every action keeps the invariant *)

\* Events are about charts.
LEMMA EventsTyped ==
    ASSUME NEW q \in Seq(Events), NEW i \in DOMAIN q
    PROVE  q[i] \in Events /\ q[i].ticket \in Charts
<1>1. q[i] \in Events
  BY ElementOfSeq, LenProperties
<1> QED  BY <1>1 DEF Events

\* A step that queues no event, frees no ticket, and leaves the tickets of
\* ended threads alone keeps what is said of the events.
LEMMA QuietKeeps ==
    ASSUME TypeOK, LastEvents, FreedLast, UNCHANGED <<queue, frameQueue, freed>>,
           \A d \in Charts : thread'[d] \in {"none", "created"} => thread[d] \in {"none", "created"},
           \A d \in Charts : thread[d] = "finished" => thread'[d] = "finished" /\ (Listed(d)' => Listed(d))
    PROVE  LastEvents' /\ FreedLast'
<1>1. \A d : Mentions(queue, d)' = Mentions(queue, d) /\ Mentions(frameQueue, d)' = Mentions(frameQueue, d)
  BY DEF Mentions
<1>2. \A i \in DOMAIN queue : queue[i].ticket \in Charts
  BY EventsTyped DEF TypeOK
<1>3. \A i \in DOMAIN frameQueue : frameQueue[i].ticket \in Charts
  BY EventsTyped DEF TypeOK
<1>4. FreedLast'
  BY <1>1 DEF FreedLast, TypeOK
<1>5. LastEvents'
  BY <1>1, <1>2, <1>3 DEF LastEvents
<1> QED  BY <1>4, <1>5

\* Opening a chart.
LEMMA OpenKeeps ==
    ASSUME ManagerInv, NEW c \in Charts, Open(c)
    PROVE  ManagerInv'
<1> USE DEF ManagerInv
<1>1. /\ chart[c] = "none" /\ thread[c] = "none" /\ status[c] = "inactive" /\ ~Listed(c)
      /\ UNCHANGED <<senc, attached, queue, frameQueue, freed, yielding>>
  BY DEF Open, Unopened
<1>2. /\ chart' \in [Charts -> {"none", "pending", "ready", "closed"}]
      /\ \A d \in Charts : chart'[d] = "none" => chart[d] = "none" /\ d # c
  BY DEF Open, BuildSENCFile, TypeOK
<1>3. CASE UNCHANGED <<ticketList, status, thread>>
  <2>1. TypeOK'
    BY <1>1, <1>2, <1>3 DEF TypeOK
  <2>2. JobList(ticketList', status', thread')
    BY <1>3
  <2>3. Unopened'
    BY <1>2, <1>3 DEF Unopened, Listed
  <2>4. LastEvents' /\ FreedLast'
    <3>1. \A d : Listed(d)' = Listed(d)
      BY <1>3 DEF Listed
    <3> QED  BY <3>1, <1>1, <1>3, QuietKeeps
  <2> QED  BY <2>1, <2>2, <2>3, <2>4
<1>4. CASE /\ ~ \E i \in DOMAIN ticketList : PathOf[ticketList[i]] = PathOf[c]
           /\ ticketList' = Append(ticketList, c)
           /\ StartTopJob(ticketList', [status EXCEPT ![c] = "pending"])
  <2> DEFINE st == [status EXCEPT ![c] = "pending"]
  <2>1. /\ st \in [Charts -> Statuses] /\ JobList(ticketList', st, thread)
        /\ \A d \in Charts : Listed(d)' <=> Listed(d) \/ d = c
    BY <1>1, <1>4, JobJoins DEF Listed
  <2>2. thread \in [Charts -> ThreadStates]
    BY DEF TypeOK, ThreadStates
  <2>3. st[c] = "pending" /\ \A d \in Charts : d # c => st[d] = status[d]
    BY DEF TypeOK
  <2> HIDE DEF st
  <2>4. /\ status' \in [Charts -> Statuses] /\ thread' \in [Charts -> ThreadStates]
        /\ JobList(ticketList', status', thread')
        /\ Starts(ticketList', st)
    BY <2>1, <2>2, <1>4, StartKeeps DEF st
  <2>5. TypeOK'
    BY <1>1, <1>2, <2>4 DEF TypeOK, JobList, Statuses, ThreadStates
  <2>6. Unopened'
    BY <1>2, <2>1, <2>3, <2>4 DEF Unopened, Starts
  <2>7. \A d \in Charts : thread'[d] \in {"none", "created"} => thread[d] \in {"none", "created"}
    BY <2>4 DEF Starts
  <2>8. \A d \in Charts : thread[d] = "finished" => thread'[d] = "finished" /\ (Listed(d)' => Listed(d))
    BY <1>1, <2>1, <2>4 DEF Starts
  <2>9. LastEvents' /\ FreedLast'
    BY <1>1, <2>7, <2>8, QuietKeeps
  <2> QED  BY <2>4, <2>5, <2>6, <2>9
<1> QED  BY <1>3, <1>4 DEF Open, BuildSENCFile, ScheduleJob

\* Deleting a chart, and what happens to the files.
LEMMA CloseKeeps ==
    ASSUME ManagerInv,
           \/ \E c \in Charts : Close(c)
           \/ \E p \in Paths : BuildNow(p) \/ Outdate(p)
    PROVE  ManagerInv'
<1> USE DEF ManagerInv
<1>1. /\ UNCHANGED <<ticketList, status, thread, queue, frameQueue, freed, yielding>>
      /\ chart' \in [Charts -> {"none", "pending", "ready", "closed"}]
      /\ \A d \in Charts : chart'[d] = "none" => chart[d] = "none"
      /\ senc' \subseteq Paths
      /\ attached' \in [Charts -> BOOLEAN]
  <2>1. ASSUME NEW c \in Charts, Close(c)
        PROVE  attached' \in [Charts -> BOOLEAN]
    <3>1. attached' = [attached EXCEPT ![c] = attached[c] /\ ~Listed(c)]
      BY <2>1 DEF Close, SetChartPointer
    <3>2. (attached[c] /\ ~Listed(c)) \in BOOLEAN
      BY Zenon
    <3> QED  BY <3>1, <3>2 DEF TypeOK
  <2> QED  BY <2>1 DEF Close, BuildNow, Outdate, TypeOK
<1>2. TypeOK'
  BY <1>1 DEF TypeOK
<1>3. \A d : Listed(d)' = Listed(d)
  BY <1>1 DEF Listed
<1>4. Unopened'
  BY <1>1, <1>3 DEF Unopened
<1>5. LastEvents' /\ FreedLast'
  BY <1>1, <1>3, QuietKeeps
<1> QED  BY <1>1, <1>2, <1>4, <1>5

\* A worker's thread moves on: its job stays where it is.
LEMMA WorkerMoves ==
    ASSUME ManagerInv, NEW c \in Charts, thread[c] \in BusyStates,
           NEW x \in ThreadStates, x # "none", thread' = [thread EXCEPT ![c] = x],
           UNCHANGED <<chart, ticketList, status>>
    PROVE  /\ thread' \in [Charts -> {"none", "created", "building", "DONE_NOERROR",
                                     "DONE_ERROR", "finished", "threw"}]
           /\ thread'[c] = x /\ \A d \in Charts : d # c => thread'[d] = thread[d]
           /\ JobList(ticketList', status', thread')
           /\ Unopened'
           /\ \A d : Listed(d)' = Listed(d)
<1> USE DEF ManagerInv
<1>1. /\ thread' \in [Charts -> {"none", "created", "building", "DONE_NOERROR",
                               "DONE_ERROR", "finished", "threw"}]
      /\ thread'[c] = x /\ \A d \in Charts : d # c => thread'[d] = thread[d]
  BY DEF TypeOK, ThreadStates
<1>2. \A d \in Charts : status[d] = "pending" => thread'[d] = "none"
  BY <1>1 DEF JobList, BusyStates
<1>3. \A d \in Charts : thread'[d] \in BusyStates => \E i \in DOMAIN ticketList : ticketList[i] = d
  BY <1>1 DEF JobList
<1>4. JobList(ticketList', status', thread')
  BY <1>2, <1>3 DEF JobList
<1>5. \A d : Listed(d)' = Listed(d)
  BY DEF Listed
<1>6. Unopened'
  BY <1>1, <1>5 DEF Unopened, BusyStates
<1> QED  BY <1>1, <1>4, <1>5, <1>6

\* A worker that queues nothing.
LEMMA BuildKeeps ==
    ASSUME ManagerInv, NEW c \in Charts, Build(c) \/ Throw(c)
    PROVE  ManagerInv'
<1> USE DEF ManagerInv
<1>1. PICK x \in {"DONE_NOERROR", "DONE_ERROR", "threw"} :
        /\ thread[c] = "building" /\ thread' = [thread EXCEPT ![c] = x]
        /\ senc' \subseteq Paths
        /\ UNCHANGED <<chart, ticketList, status, attached, queue, frameQueue, freed, yielding>>
  BY SencAssumption DEF Build, Throw, TypeOK
<1>2. x \in ThreadStates /\ x # "none" /\ thread[c] \in BusyStates
  BY <1>1 DEF ThreadStates, BusyStates
<1>3. /\ thread' \in [Charts -> {"none", "created", "building", "DONE_NOERROR",
                               "DONE_ERROR", "finished", "threw"}]
      /\ thread'[c] = x /\ \A d \in Charts : d # c => thread'[d] = thread[d]
      /\ JobList(ticketList', status', thread')
      /\ Unopened'
      /\ \A d : Listed(d)' = Listed(d)
  BY <1>1, <1>2, WorkerMoves
<1>4. TypeOK'
  BY <1>1, <1>3 DEF TypeOK
<1>5. LastEvents' /\ FreedLast'
  <2>1. \A d \in Charts : thread'[d] \in {"none", "created"} => thread[d] \in {"none", "created"}
    BY <1>1, <1>3
  <2>2. \A d \in Charts : thread[d] = "finished" => thread'[d] = "finished" /\ (Listed(d)' => Listed(d))
    BY <1>1, <1>3
  <2> QED  BY <1>1, <2>1, <2>2, QuietKeeps
<1> QED  BY <1>3, <1>4, <1>5

\* Listed, of the list after the step.
InList(list, d) == \E i \in DOMAIN list : list[i] = d

\* A worker that queues an event: the first about its ticket, or the last.
LEMMA NoticeKeeps ==
    ASSUME ManagerInv, NEW c \in Charts, Started(c) \/ Done(c)
    PROVE  ManagerInv'
<1> USE DEF ManagerInv
<1>1. PICK x \in {"building", "finished"}, e \in Events :
        /\ e.ticket = c
        /\ e.type # "STARTED" <=> x = "finished"
        /\ thread[c] \in BusyStates /\ thread' = [thread EXCEPT ![c] = x]
        /\ queue' = Append(queue, e)
        /\ UNCHANGED <<chart, senc, ticketList, status, attached, frameQueue, freed, yielding>>
  <2>1. CASE Started(c)
    <3>1. [type |-> "STARTED", ticket |-> c] \in Events
      BY DEF Events
    <3> QED  BY <2>1, <3>1 DEF Started, BusyStates
  <2>2. CASE Done(c)
    <3>1. [type |-> thread[c], ticket |-> c] \in Events /\ thread[c] \in {"DONE_NOERROR", "DONE_ERROR"}
      BY <2>2 DEF Events, Done
    <3> QED  BY <2>2, <3>1 DEF Done, BusyStates
  <2> QED  BY <2>1, <2>2
<1>2. x \in ThreadStates /\ x # "none"
  BY DEF ThreadStates
<1>3. /\ thread' \in [Charts -> {"none", "created", "building", "DONE_NOERROR",
                               "DONE_ERROR", "finished", "threw"}]
      /\ thread'[c] = x /\ \A d \in Charts : d # c => thread'[d] = thread[d]
      /\ JobList(ticketList', status', thread')
      /\ Unopened'
      /\ \A d : Listed(d)' = Listed(d)
  BY <1>1, <1>2, WorkerMoves
<1>4. queue \in Seq(Events) /\ queue' \in Seq(Events)
  BY <1>1, AppendProperties DEF TypeOK
<1>5. TypeOK'
  BY <1>1, <1>3, <1>4 DEF TypeOK
<1>6. /\ \A d : Mentions(queue, d)' <=> Mentions(queue, d) \/ d = c
      /\ \A d : Mentions(frameQueue, d)' <=> Mentions(frameQueue, d)
  <2>1. \A d : Mentions(queue', d) <=> Mentions(queue, d) \/ e.ticket = d
    BY <1>1, <1>4, MentionsAppend
  <2>2. \A d : Mentions(queue, d)' <=> Mentions(queue', d)
    BY DEF Mentions
  <2>3. \A d : Mentions(frameQueue, d)' <=> Mentions(frameQueue, d)
    BY <1>1 DEF Mentions
  <2> QED  BY <1>1, <2>1, <2>2, <2>3
<1>7. FreedLast'
  <2>1. \A d \in freed : d \in Charts /\ thread[d] = "finished" /\ d # c
    BY <1>1 DEF FreedLast, TypeOK, BusyStates
  <2> QED  BY <1>1, <1>3, <1>6, <2>1 DEF FreedLast
<1>8. \A d \in Charts : thread'[d] \in {"none", "created"} => ~Mentions(queue', d) /\ ~Mentions(frameQueue', d)
  <2>1. \A d \in Charts : thread'[d] \in {"none", "created"} => d # c /\ thread[d] \in {"none", "created"}
    BY <1>3
  <2> QED  BY <2>1, <1>6 DEF LastEvents, Mentions
<1>9. ASSUME NEW i \in DOMAIN queue', queue'[i].type # "STARTED"
      PROVE  /\ thread'[queue'[i].ticket] = "finished"
             /\ \A j \in DOMAIN queue' : i < j => queue'[j].ticket # queue'[i].ticket
  <2> DEFINE n == Len(queue)
  <2>1. DOMAIN queue = 1..n /\ n \in Nat /\ DOMAIN queue' = 1..(n + 1)
        /\ \A k \in 1..(n + 1) : queue'[k] = IF k <= n THEN queue[k] ELSE e
    BY <1>1, <1>4, Appended, LenProperties
  <2>2. CASE i = n + 1
    <3>1. queue'[i] = e /\ \A j \in DOMAIN queue' : ~(i < j)
      BY <2>1, <2>2
    <3> QED  BY <3>1, <1>1, <1>3, <1>9
  <2>3. CASE i \in 1..n
    <3>1. queue'[i] = queue[i] /\ queue[i].type # "STARTED" /\ i \in DOMAIN queue
      BY <2>1, <2>3, <1>9
    <3>2. thread[queue[i].ticket] = "finished" /\ queue[i].ticket # c /\ queue[i].ticket \in Charts
      BY <3>1, <1>1, <1>4, EventsTyped DEF LastEvents, BusyStates
    <3>3. ASSUME NEW j \in DOMAIN queue', i < j
          PROVE  queue'[j].ticket # queue[i].ticket
      <4>1. CASE j \in 1..n
        BY <4>1, <3>1, <3>3, <2>1 DEF LastEvents
      <4>2. CASE j = n + 1
        BY <4>2, <3>2, <2>1, <1>1
      <4> QED  BY <4>1, <4>2, <2>1
    <3> QED  BY <3>1, <3>2, <3>3, <1>3
  <2> QED  BY <2>1, <2>2, <2>3
<1>10. ASSUME NEW i \in DOMAIN frameQueue, frameQueue[i].type # "STARTED"
       PROVE  /\ thread'[frameQueue[i].ticket] = "finished"
              /\ ~InList(ticketList', frameQueue[i].ticket)
              /\ ~Mentions(queue', frameQueue[i].ticket)
              /\ \A j \in DOMAIN frameQueue : i < j => frameQueue[j].ticket # frameQueue[i].ticket
  <2>1. /\ thread[frameQueue[i].ticket] = "finished" /\ ~Listed(frameQueue[i].ticket)
        /\ ~Mentions(queue, frameQueue[i].ticket) /\ frameQueue[i].ticket \in Charts
        /\ \A j \in DOMAIN frameQueue : i < j => frameQueue[j].ticket # frameQueue[i].ticket
    BY <1>10, EventsTyped DEF LastEvents, TypeOK
  <2>2. frameQueue[i].ticket # c
    BY <2>1, <1>1 DEF BusyStates
  <2>3. /\ thread'[frameQueue[i].ticket] = "finished"
        /\ ~InList(ticketList', frameQueue[i].ticket)
    BY <2>1, <2>2, <1>1, <1>3 DEF InList, Listed
  <2>4. ~Mentions(queue', frameQueue[i].ticket)
    <3>1. \A d : Mentions(queue', d) <=> Mentions(queue, d) \/ d = c
      BY <1>6 DEF Mentions
    <3> QED  BY <3>1, <2>1, <2>2
  <2> QED  BY <2>1, <2>3, <2>4
<1>11. LastEvents'
  BY <1>1, <1>8, <1>9, <1>10 DEF LastEvents, Listed, InList, Mentions
<1> QED  BY <1>3, <1>5, <1>7, <1>11

\* The manager takes an event: it is the last of its job, or the job stays.
LEMMA ManagerKeeps ==
    ASSUME ManagerInv, ManagerEvent
    PROVE  ManagerInv'
<1> USE DEF ManagerInv
<1> DEFINE e == Head(queue)
           n == Len(queue)
           m == Len(frameQueue)
<1>1. /\ queue \in Seq(Events) /\ queue # <<>> /\ frameQueue \in Seq(Events)
      /\ queue' = Tail(queue) /\ frameQueue' = Append(frameQueue, e)
      /\ UNCHANGED <<chart, senc, attached, freed, yielding>>
  BY DEF ManagerEvent, Forward, TypeOK
<1>2. /\ e \in Events /\ e = queue[1] /\ n \in Nat \ {0}
      /\ queue' \in Seq(Events) /\ DOMAIN queue' = 1..(n - 1) /\ DOMAIN queue = 1..n
      /\ \A k \in 1..(n - 1) : queue'[k] = queue[k + 1]
  BY <1>1, Tailed, LenProperties
<1>3. /\ frameQueue' \in Seq(Events) /\ m \in Nat
      /\ DOMAIN frameQueue' = 1..(m + 1) /\ DOMAIN frameQueue = 1..m
      /\ \A k \in 1..(m + 1) : frameQueue'[k] = IF k <= m THEN frameQueue[k] ELSE e
  BY <1>1, <1>2, Appended, LenProperties
<1>4. /\ \A d : Mentions(queue', d) => Mentions(queue, d)
      /\ Mentions(queue, e.ticket)
      /\ \A d : Mentions(frameQueue', d) <=> Mentions(frameQueue, d) \/ e.ticket = d
  BY <1>1, <1>2, MentionsTail, MentionsAppend
<1>5. e.ticket \in Charts
  BY <1>2 DEF Events
<1> HIDE DEF e, n, m
\* The manager's part: what becomes of the list.
<1>6. /\ thread' \in [Charts -> ThreadStates] /\ status' \in [Charts -> Statuses]
      /\ JobList(ticketList', status', thread')
      /\ \A d \in Charts :
           /\ InList(ticketList', d) => Listed(d)
           /\ \/ thread'[d] = thread[d] /\ status'[d] = status[d]
              \/ thread[d] = "none" /\ thread'[d] = "created" /\ Listed(d)
      /\ e.type # "STARTED" => ~InList(ticketList', e.ticket)
  <2>1. CASE e.type = "STARTED" /\ UNCHANGED <<ticketList, status, thread>>
    BY <2>1 DEF TypeOK, ThreadStates, Statuses, Listed, InList
  <2>2. CASE e.type # "STARTED" /\ FinishJob(e.ticket) /\ StartTopJob(ticketList', status)
    <3>1. thread[e.ticket] = "finished"
      BY <2>2, <1>2 DEF LastEvents
    <3>2. /\ JobList(ticketList', status, thread)
          /\ \A d \in Charts : InList(ticketList', d) <=> Listed(d) /\ d # e.ticket
      BY <2>2, <3>1, <1>5, JobLeaves DEF InList
    <3>3. status \in [Charts -> Statuses] /\ thread \in [Charts -> ThreadStates]
      BY DEF TypeOK, Statuses, ThreadStates
    <3>4. /\ status' \in [Charts -> Statuses] /\ thread' \in [Charts -> ThreadStates]
          /\ JobList(ticketList', status', thread')
          /\ Starts(ticketList', status)
      BY <2>2, <3>2, <3>3, StartKeeps
    <3>5. ASSUME NEW d \in Charts
          PROVE  /\ InList(ticketList', d) => Listed(d)
                 /\ \/ thread'[d] = thread[d] /\ status'[d] = status[d]
                    \/ thread[d] = "none" /\ thread'[d] = "created" /\ Listed(d)
      BY <3>2, <3>4 DEF Starts, InList
    <3> QED  BY <2>2, <3>2, <3>4, <3>5, <1>5
  <2> QED  BY <2>1, <2>2 DEF ManagerEvent, e
<1>7. TypeOK'
  BY <1>1, <1>2, <1>3, <1>6 DEF TypeOK, JobList, Statuses, ThreadStates
<1>8. Unopened'
  BY <1>1, <1>6 DEF Unopened, InList, Listed
<1>9. FreedLast'
  <2> SUFFICES ASSUME NEW d \in freed
               PROVE  thread'[d] = "finished" /\ ~InList(ticketList', d) /\ ~Mentions(queue', d) /\ ~Mentions(frameQueue', d)
    BY <1>1 DEF FreedLast, Mentions, Listed, InList
  <2>1. d \in Charts /\ thread[d] = "finished" /\ ~Listed(d) /\ ~Mentions(queue, d) /\ ~Mentions(frameQueue, d)
    BY DEF FreedLast, TypeOK
  <2>2. d # e.ticket
    BY <2>1, <1>4
  <2> QED  BY <2>1, <2>2, <1>4, <1>6
<1>10. \A d \in Charts : thread'[d] \in {"none", "created"} => ~Mentions(queue', d) /\ ~Mentions(frameQueue', d)
  <2>1. \A d \in Charts : thread'[d] \in {"none", "created"} => thread[d] \in {"none", "created"}
    BY <1>6
  <2>2. \A d \in Charts : thread[d] \in {"none", "created"} => ~Mentions(queue, d) /\ ~Mentions(frameQueue, d)
    BY DEF LastEvents
  <2> QED  BY <2>1, <2>2, <1>4
<1>11. ASSUME NEW i \in DOMAIN queue', queue'[i].type # "STARTED"
       PROVE  /\ thread'[queue'[i].ticket] = "finished"
              /\ \A j \in DOMAIN queue' : i < j => queue'[j].ticket # queue'[i].ticket
  <2>1. i + 1 \in DOMAIN queue /\ queue'[i] = queue[i + 1]
    BY <1>2
  <2>2. queue[i + 1].ticket \in Charts /\ thread[queue[i + 1].ticket] = "finished"
    BY <2>1, <1>1, <1>11, EventsTyped DEF LastEvents
  <2>3. ASSUME NEW j \in DOMAIN queue', i < j
        PROVE  queue'[j].ticket # queue'[i].ticket
    <3>1. j + 1 \in DOMAIN queue /\ queue'[j] = queue[j + 1] /\ i + 1 < j + 1
      BY <2>3, <1>2
    <3> QED  BY <2>1, <3>1, <1>11 DEF LastEvents
  <2> QED  BY <2>1, <2>2, <2>3, <1>6
<1>12. ASSUME NEW i \in DOMAIN frameQueue', frameQueue'[i].type # "STARTED"
       PROVE  /\ thread'[frameQueue'[i].ticket] = "finished"
              /\ ~InList(ticketList', frameQueue'[i].ticket)
              /\ ~Mentions(queue', frameQueue'[i].ticket)
              /\ \A j \in DOMAIN frameQueue' : i < j => frameQueue'[j].ticket # frameQueue'[i].ticket
  <2>1. CASE i = m + 1
    <3>1. frameQueue'[i] = e /\ \A j \in DOMAIN frameQueue' : ~(i < j)
      BY <2>1, <1>3
    <3>2. thread[e.ticket] = "finished" /\ \A j \in DOMAIN queue : 1 < j => queue[j].ticket # e.ticket
      BY <3>1, <1>2, <1>12 DEF LastEvents
    <3>3. ~Mentions(queue', e.ticket)
      <4>1. \A k \in 1..(n - 1) : k + 1 \in DOMAIN queue /\ 1 < k + 1
        BY <1>2
      <4> QED  BY <4>1, <3>2, <1>2 DEF Mentions
    <3>4. thread'[e.ticket] = "finished" /\ ~InList(ticketList', e.ticket)
      BY <3>1, <3>2, <1>5, <1>6, <1>12
    <3> QED  BY <3>1, <3>3, <3>4
  <2>2. CASE i \in 1..m
    <3> DEFINE d == frameQueue[i].ticket
    <3>1. frameQueue'[i] = frameQueue[i] /\ frameQueue[i].type # "STARTED" /\ i \in DOMAIN frameQueue
      BY <2>2, <1>3, <1>12
    <3>2. /\ d \in Charts /\ thread[d] = "finished" /\ ~Listed(d) /\ ~Mentions(queue, d)
          /\ \A j \in DOMAIN frameQueue : i < j => frameQueue[j].ticket # d
      BY <3>1, <1>1, EventsTyped DEF LastEvents
    <3>3. d # e.ticket
      BY <3>2, <1>4
    <3>4. ASSUME NEW j \in DOMAIN frameQueue', i < j
          PROVE  frameQueue'[j].ticket # d
      BY <3>2, <3>3, <3>4, <1>3
    <3>5. thread'[d] = "finished" /\ ~InList(ticketList', d) /\ ~Mentions(queue', d)
      BY <3>2, <1>4, <1>6
    <3> HIDE DEF d
    <3>6. frameQueue'[i].ticket = d
      BY <3>1 DEF d
    <3> QED  BY <3>4, <3>5, <3>6
  <2> QED  BY <2>1, <2>2, <1>3
<1>13. LastEvents'
  BY <1>10, <1>11, <1>12 DEF LastEvents, Listed, InList, Mentions
<1> QED  BY <1>6, <1>7, <1>8, <1>9, <1>13

\* The frame takes an event, and with the last of a job its ticket.
LEMMA FrameKeeps ==
    ASSUME ManagerInv, FrameEvent
    PROVE  ManagerInv'
<1> USE DEF ManagerInv
<1> DEFINE e == Head(frameQueue)
           m == Len(frameQueue)
<1>1. /\ frameQueue \in Seq(Events) /\ frameQueue # <<>> /\ frameQueue' = Tail(frameQueue)
      /\ UNCHANGED <<senc, ticketList, status, attached, thread, queue, yielding>>
  BY DEF FrameEvent, TypeOK
<1>2. /\ e \in Events /\ e = frameQueue[1] /\ m \in Nat \ {0}
      /\ frameQueue' \in Seq(Events) /\ DOMAIN frameQueue' = 1..(m - 1) /\ DOMAIN frameQueue = 1..m
      /\ \A k \in 1..(m - 1) : frameQueue'[k] = frameQueue[k + 1]
  BY <1>1, Tailed, LenProperties
<1>3. \A d : Mentions(frameQueue', d) => Mentions(frameQueue, d)
  BY <1>1, MentionsTail
<1>4. e.ticket \in Charts
  BY <1>2 DEF Events
<1>5. /\ chart' \in [Charts -> {"none", "pending", "ready", "closed"}]
      /\ \A d \in Charts : chart'[d] = "none" => chart[d] = "none"
      /\ freed' = freed \/ (e.type = "DONE_NOERROR" /\ freed' = freed \cup {e.ticket})
  BY <1>4 DEF FrameEvent, PostInit, TypeOK
<1> HIDE DEF e, m
<1>6. TypeOK'
  BY <1>1, <1>2, <1>4, <1>5 DEF TypeOK
<1>7. JobList(ticketList', status', thread')
  BY <1>1
<1>8. Unopened'
  BY <1>1, <1>5 DEF Unopened, Listed
<1>9. FreedLast'
  <2> SUFFICES ASSUME NEW d \in freed'
               PROVE  thread[d] = "finished" /\ ~Listed(d) /\ ~Mentions(queue, d) /\ ~Mentions(frameQueue', d)
    BY <1>1 DEF FreedLast, Mentions, Listed
  <2>1. CASE d \in freed
    BY <2>1, <1>3 DEF FreedLast
  <2>2. CASE e.type = "DONE_NOERROR" /\ d = e.ticket
    <3>1. /\ thread[d] = "finished" /\ ~Listed(d) /\ ~Mentions(queue, d)
          /\ \A j \in DOMAIN frameQueue : 1 < j => frameQueue[j].ticket # d
      BY <2>2, <1>2 DEF LastEvents
    <3>2. ~Mentions(frameQueue', d)
      <4>1. \A k \in 1..(m - 1) : k + 1 \in DOMAIN frameQueue /\ 1 < k + 1
        BY <1>2
      <4> QED  BY <4>1, <3>1, <1>2 DEF Mentions
    <3> QED  BY <3>1, <3>2
  <2> QED  BY <2>1, <2>2, <1>5
<1>10. ASSUME NEW i \in DOMAIN frameQueue', frameQueue'[i].type # "STARTED"
       PROVE  /\ thread[frameQueue'[i].ticket] = "finished"
              /\ ~Listed(frameQueue'[i].ticket)
              /\ ~Mentions(queue, frameQueue'[i].ticket)
              /\ \A j \in DOMAIN frameQueue' : i < j => frameQueue'[j].ticket # frameQueue'[i].ticket
  <2>1. i + 1 \in DOMAIN frameQueue /\ frameQueue'[i] = frameQueue[i + 1]
    BY <1>2
  <2>2. ASSUME NEW j \in DOMAIN frameQueue', i < j
        PROVE  frameQueue'[j].ticket # frameQueue'[i].ticket
    <3>1. j + 1 \in DOMAIN frameQueue /\ frameQueue'[j] = frameQueue[j + 1] /\ i + 1 < j + 1
      BY <2>2, <1>2
    <3> QED  BY <2>1, <3>1, <1>10 DEF LastEvents
  <2>3. thread[frameQueue[i + 1].ticket] = "finished" /\ ~Listed(frameQueue[i + 1].ticket)
        /\ ~Mentions(queue, frameQueue[i + 1].ticket)
    BY <2>1, <1>10 DEF LastEvents
  <2> QED  BY <2>1, <2>2, <2>3
<1>11. LastEvents'
  <2>1. \A d \in Charts : thread[d] \in {"none", "created"} => ~Mentions(queue, d) /\ ~Mentions(frameQueue', d)
    BY <1>3 DEF LastEvents
  <2>2. \A i \in DOMAIN queue : queue[i].type # "STARTED" =>
          /\ thread[queue[i].ticket] = "finished"
          /\ \A j \in DOMAIN queue : i < j => queue[j].ticket # queue[i].ticket
    BY DEF LastEvents
  <2> QED  BY <2>1, <2>2, <1>1, <1>10 DEF LastEvents, Listed, Mentions
<1> QED  BY <1>6, <1>7, <1>8, <1>9, <1>11

\* The beginning and the end of a Yield.
LEMMA YieldKeeps ==
    ASSUME ManagerInv, YieldBegins \/ YieldEnds
    PROVE  ManagerInv'
<1>1. /\ UNCHANGED <<chart, senc, ticketList, status, attached, thread, queue, frameQueue, freed>>
      /\ yielding' \in BOOLEAN
  BY DEF YieldBegins, YieldEnds
<1> QED
  BY <1>1 DEF ManagerInv, TypeOK, Unopened, LastEvents, FreedLast, Listed, Mentions

\* The first state, whatever files are up to date.
LEMMA InitHolds ==
    ASSUME Init
    PROVE  ManagerInv
<1>1. ticketList \in Seq(Charts) /\ DOMAIN ticketList = {} /\ queue \in Seq(Events) /\ frameQueue \in Seq(Events)
      /\ DOMAIN queue = {} /\ DOMAIN frameQueue = {}
  BY DEF Init
<1>2. TypeOK
  BY <1>1 DEF Init, TypeOK
<1>3. JobList(ticketList, status, thread)
  BY <1>1 DEF Init, JobList, BusyStates
<1>4. Unopened /\ LastEvents /\ FreedLast
  BY <1>1 DEF Init, Unopened, LastEvents, FreedLast, Listed, Mentions
<1> QED  BY <1>2, <1>3, <1>4 DEF ManagerInv

\* Every step keeps the invariant.
LEMMA NextKeeps ==
    ASSUME ManagerInv, [Next]_vars
    PROVE  ManagerInv'
<1>1. ASSUME NEW c \in Charts, Open(c)
      PROVE  ManagerInv'
  BY <1>1, OpenKeeps
<1>2. ASSUME \/ \E c \in Charts : Close(c)
             \/ \E p \in Paths : BuildNow(p) \/ Outdate(p)
      PROVE  ManagerInv'
  BY <1>2, CloseKeeps
<1>3. ASSUME NEW c \in Charts, Build(c) \/ Throw(c)
      PROVE  ManagerInv'
  BY <1>3, BuildKeeps
<1>4. ASSUME NEW c \in Charts, Started(c) \/ Done(c)
      PROVE  ManagerInv'
  BY <1>4, NoticeKeeps
<1>5. CASE ManagerEvent
  BY <1>5, ManagerKeeps
<1>6. CASE FrameEvent
  BY <1>6, FrameKeeps
<1>7. CASE UNCHANGED vars
  BY <1>7 DEF vars, ManagerInv, TypeOK, Unopened, LastEvents, FreedLast, Listed, Mentions
<1>8. CASE YieldBegins \/ YieldEnds
  BY <1>8, YieldKeeps
<1> QED  BY <1>1, <1>2, <1>3, <1>4, <1>5, <1>6, <1>7, <1>8 DEF Next, Worker

-----------------------------------------------------------------------------
(* The theorems *)

\* The invariant of the job list, the threads and the two queues.
THEOREM Invariance == Spec => []ManagerInv
<1>1. Init => ManagerInv
  BY InitHolds
<1>2. ManagerInv /\ [Next]_vars => ManagerInv'
  BY NextKeeps
<1> QED  BY <1>1, <1>2, PTL DEF Spec

\* Every variable of the manager keeps its type: charts, tickets, threads and
\* the events in both queues.
THEOREM TypeCorrect == Spec => []TypeOK
<1>1. ManagerInv => TypeOK
  BY DEF ManagerInv
<1> QED  BY <1>1, Invariance, PTL

\* However charts are closed and opened again, ScheduleJob never gives a file
\* a second job, waiting or at work.
THEOREM OneJob == Spec => []OneJobPerFile
<1>1. ManagerInv => OneJobPerFile
  BY DEF ManagerInv, JobList, OneJobPerFile, Active, Listed, InList, Busy, BusyStates
<1> QED  BY <1>1, Invariance, PTL

\* StartTopJob starts the jobs in the order of the list, for every number of
\* slots.
THEOREM InOrder == Spec => []StartedInOrder
<1>1. ManagerInv => StartedInOrder
  BY DEF ManagerInv, JobList, StartedInOrder
<1> QED  BY <1>1, Invariance, PTL

\* The frame deletes a ticket only when its thread has ended, the manager has
\* dropped it and no event points to it any more.
THEOREM Freed == Spec => []FreedIsUnused
<1>1. ManagerInv => FreedIsUnused
  BY DEF ManagerInv, TypeOK, FreedLast, FreedIsUnused, Busy
<1> QED  BY <1>1, Invariance, PTL

-----------------------------------------------------------------------------
(* The reports *)

\* The event that takes the job of c off the list.
Report(q, c) == \E i \in DOMAIN q : q[i].type # "STARTED" /\ q[i].ticket = c

\* An event more, or the first one less.
LEMMA ReportAppend ==
    ASSUME NEW q \in Seq(Events), NEW e \in Events, NEW c
    PROVE  Report(Append(q, e), c) <=> Report(q, c) \/ (e.type # "STARTED" /\ e.ticket = c)
<1>1. /\ Len(q) \in Nat /\ DOMAIN q = 1..Len(q) /\ DOMAIN Append(q, e) = 1..(Len(q) + 1)
      /\ \A k \in 1..(Len(q) + 1) : Append(q, e)[k] = IF k <= Len(q) THEN q[k] ELSE e
  BY Appended, LenProperties
<1>2. Report(q, c) => Report(Append(q, e), c)
  BY <1>1 DEF Report
<1>3. e.type # "STARTED" /\ e.ticket = c => Report(Append(q, e), c)
  <2>1. Len(q) + 1 \in 1..(Len(q) + 1) /\ Append(q, e)[Len(q) + 1] = e
    BY <1>1
  <2> QED  BY <1>1, <2>1 DEF Report
<1>4. ASSUME Report(Append(q, e), c), ~(e.type # "STARTED" /\ e.ticket = c)
      PROVE  Report(q, c)
  <2>1. PICK k \in 1..(Len(q) + 1) : Append(q, e)[k].type # "STARTED" /\ Append(q, e)[k].ticket = c
    BY <1>1, <1>4 DEF Report
  <2>2. k \in 1..Len(q) /\ Append(q, e)[k] = q[k]
    BY <1>1, <1>4, <2>1
  <2> QED  BY <1>1, <2>1, <2>2 DEF Report
<1> QED  BY <1>2, <1>3, <1>4

LEMMA ReportTail ==
    ASSUME NEW q \in Seq(Events), q # <<>>, NEW c, Report(q, c)
    PROVE  Report(Tail(q), c) \/ (Head(q).type # "STARTED" /\ Head(q).ticket = c)
<1>1. /\ Len(q) \in Nat \ {0} /\ DOMAIN q = 1..Len(q) /\ DOMAIN Tail(q) = 1..(Len(q) - 1)
      /\ Head(q) = q[1] /\ \A k \in 1..(Len(q) - 1) : Tail(q)[k] = q[k + 1]
  BY Tailed, LenProperties
<1>2. PICK i \in 1..Len(q) : q[i].type # "STARTED" /\ q[i].ticket = c
  BY <1>1 DEF Report
<1>3. CASE i = 1
  BY <1>1, <1>2, <1>3
<1>4. CASE i # 1
  <2>1. i - 1 \in 1..(Len(q) - 1) /\ Tail(q)[i - 1] = q[i]
    BY <1>1, <1>4
  <2> QED  BY <1>1, <1>2, <2>1 DEF Report
<1> QED  BY <1>3, <1>4

\* Every step keeps the reports of the jobs on the list.
LEMMA ReportsKeep ==
    ASSUME ManagerInv, NoReportLost, [Next]_vars
    PROVE  NoReportLost'
<1> USE DEF ManagerInv
<1>1. /\ status \in [Charts -> Statuses] /\ thread \in [Charts -> ThreadStates]
      /\ queue \in Seq(Events)
  BY DEF TypeOK, Statuses, ThreadStates
<1>2. \A c \in Charts : Listed(c) /\ thread[c] = "finished" => Report(queue, c)
  BY DEF NoReportLost, Report
<1>3. SUFFICES ASSUME NEW c \in Charts, InList(ticketList', c), thread'[c] = "finished"
               PROVE  Report(queue', c)
  BY DEF NoReportLost, Report, Listed, InList
<1>4. CASE UNCHANGED <<ticketList, thread, queue>>
  BY <1>2, <1>3, <1>4 DEF Listed, InList
<1>5. ASSUME NEW d \in Charts, Open(d)
      PROVE  Report(queue', c)
  <2>1. queue' = queue /\ thread[d] = "none" /\ status[d] = "inactive" /\ ~Listed(d)
    BY <1>5 DEF Open, Unopened
  <2>2. CASE UNCHANGED <<ticketList, thread>>
    BY <1>4, <2>1, <2>2
  <2>3. CASE /\ ~ \E i \in DOMAIN ticketList : PathOf[ticketList[i]] = PathOf[d]
             /\ ticketList' = Append(ticketList, d)
             /\ StartTopJob(ticketList', [status EXCEPT ![d] = "pending"])
    <3> DEFINE st == [status EXCEPT ![d] = "pending"]
    <3>1. /\ st \in [Charts -> Statuses] /\ JobList(ticketList', st, thread)
          /\ \A x \in Charts : InList(ticketList', x) <=> Listed(x) \/ x = d
      BY <2>1, <2>3, JobJoins DEF InList
    <3> HIDE DEF st
    <3>2. Starts(ticketList', st)
      BY <1>1, <2>3, <3>1, StartKeeps DEF st
    <3>3. thread'[c] = thread[c]
      BY <1>3, <3>2 DEF Starts
    <3>4. Listed(c)
      BY <1>3, <2>1, <3>1, <3>3
    <3> QED  BY <1>2, <1>3, <2>1, <3>3, <3>4
  <2> QED  BY <1>5, <2>2, <2>3 DEF Open, BuildSENCFile, ScheduleJob
<1>6. ASSUME NEW d \in Charts, Worker(d)
      PROVE  Report(queue', c)
  <2>1. /\ ticketList' = ticketList
        /\ \A x \in Charts : x # d => thread'[x] = thread[x]
        /\ thread[d] # "finished"
    BY <1>1, <1>6 DEF Worker, Started, Build, Throw, Done
  <2>2. CASE Build(d) \/ Throw(d)
    <3>1. queue' = queue /\ thread'[d] # "finished"
      BY <1>1, <2>2 DEF Build, Throw
    <3> QED  BY <1>2, <1>3, <2>1, <3>1 DEF Listed, InList
  <2>3. CASE Started(d)
    <3>1. /\ [type |-> "STARTED", ticket |-> d] \in Events
          /\ queue' = Append(queue, [type |-> "STARTED", ticket |-> d])
          /\ thread'[d] # "finished"
      BY <1>1, <2>3 DEF Started, Events
    <3>2. Report(queue, c)
      BY <1>2, <1>3, <2>1, <3>1 DEF Listed, InList
    <3> QED  BY <1>1, <3>1, <3>2, ReportAppend
  <2>4. CASE Done(d)
    <3>1. /\ [type |-> thread[d], ticket |-> d] \in Events
          /\ queue' = Append(queue, [type |-> thread[d], ticket |-> d])
          /\ thread[d] # "STARTED"
      BY <2>4 DEF Done, Events
    <3>2. Report(queue, c) \/ c = d
      BY <1>2, <1>3, <2>1 DEF Listed, InList
    <3> QED  BY <1>1, <3>1, <3>2, ReportAppend
  <2> QED  BY <1>6, <2>2, <2>3, <2>4 DEF Worker
<1>7. ASSUME ManagerEvent
      PROVE  Report(queue', c)
  <2> DEFINE e == Head(queue)
  <2>1. queue # <<>> /\ queue' = Tail(queue) /\ e = queue[1] /\ 1 \in DOMAIN queue /\ e \in Events
    BY <1>1, <1>7, Tailed, LenProperties, EventsTyped DEF ManagerEvent
  <2>2. CASE e.type = "STARTED" /\ UNCHANGED <<ticketList, status, thread>>
    <3>1. Report(queue, c)
      BY <1>2, <1>3, <2>2 DEF Listed, InList
    <3> QED  BY <1>1, <2>1, <2>2, <3>1, ReportTail
  <2>3. CASE e.type # "STARTED" /\ FinishJob(e.ticket) /\ StartTopJob(ticketList', status)
    <3>1. e.ticket \in Charts /\ thread[e.ticket] = "finished"
      BY <2>1, <2>3 DEF LastEvents, Events
    <3>2. /\ JobList(ticketList', status, thread)
          /\ \A x \in Charts : InList(ticketList', x) <=> Listed(x) /\ x # e.ticket
      BY <2>3, <3>1, JobLeaves DEF InList
    <3>3. Starts(ticketList', status)
      BY <1>1, <2>3, <3>2, StartKeeps
    <3>4. thread'[c] = thread[c] /\ Listed(c) /\ c # e.ticket
      BY <1>3, <3>2, <3>3 DEF Starts
    <3> QED  BY <1>1, <1>2, <1>3, <2>1, <3>4, ReportTail
  <2> QED  BY <1>7, <2>2, <2>3 DEF ManagerEvent
<1> QED
  BY <1>4, <1>5, <1>6, <1>7 DEF Next, vars, Close, BuildNow, Outdate, FrameEvent, YieldBegins, YieldEnds

\* No job whose thread has returned is left on the list without the event that
\* takes it off: what is left when a Yield ends waits, is at work, or threw.
THEOREM ReportsKept == Spec => []NoReportLost
<1>1. Init => NoReportLost
  BY DEF Init, NoReportLost, Listed
<1>2. ManagerInv /\ NoReportLost /\ [Next]_vars => NoReportLost'
  BY ReportsKeep
<1> QED  BY <1>1, <1>2, Invariance, PTL DEF Spec

-----------------------------------------------------------------------------
(* The slots *)

\* The tickets in the list whose job has been started.
StartedJobs(list, st) == {c \in Charts : InList(list, c) /\ st[c] = "started"}

\* A list whose jobs are started as far as the slots go.
Packed(list, st) ==
    /\ Cardinality(StartedJobs(list, st)) <= MaxJobs
    /\ (\E i \in DOMAIN list : st[list[i]] = "pending")
          => Cardinality(StartedJobs(list, st)) = MaxJobs

\* A thread is only made for a job that is started.
SlotsInv ==
    /\ \A c \in Charts : thread[c] # "none" => status[c] = "started"
    /\ Packed(ticketList, status)

\* There are finitely many charts.
LEMMA JobsFinite ==
    ASSUME NEW list, NEW st
    PROVE  IsFiniteSet(StartedJobs(list, st)) /\ Cardinality(StartedJobs(list, st)) \in Nat
<1>1. StartedJobs(list, st) \in SUBSET Charts
  BY DEF StartedJobs
<1>2. IsFiniteSet(StartedJobs(list, st))
  BY <1>1, FS_Subset, SencAssumption
<1> QED  BY <1>2, FS_CardinalityType

\* StartTopJob counts places in the list: as many as there are started jobs.
LEMMA PlacesAreJobs ==
    ASSUME NEW list, NEW st, NEW th, JobList(list, st, th)
    PROVE  Cardinality(Running(list, st)) = Cardinality(StartedJobs(list, st))
<1> DEFINE S == Running(list, st)
           T == StartedJobs(list, st)
           f == [i \in S |-> list[i]]
<1>1. list \in Seq(Charts) /\ DOMAIN list = 1..Len(list) /\ Len(list) \in Nat
      /\ \A i \in DOMAIN list : list[i] \in Charts
  BY LenProperties, ElementOfSeq DEF JobList
<1>2. IsFiniteSet(S)
  <2>1. S \in SUBSET (1..Len(list))
    BY <1>1 DEF Running
  <2>2. IsFiniteSet(1..Len(list))
    BY <1>1, FS_Interval
  <2> QED  BY <2>1, <2>2, FS_Subset
<1>3. f \in [S -> T]
  BY <1>1 DEF Running, StartedJobs, InList
<1>4. \A i, j \in S : f[i] = f[j] => i = j
  BY <1>1 DEF Running, JobList
<1>5. \A c \in T : \E i \in S : f[i] = c
  BY DEF Running, StartedJobs, InList
<1>6. f \in Bijection(S, T)
  <2> HIDE DEF S, T, f
  <2> QED  BY <1>3, <1>4, <1>5 DEF Bijection, Injection, Surjection, IsInjective
<1>7. ExistsBijection(S, T)
  BY <1>6 DEF ExistsBijection
<1> QED  BY <1>2, <1>7, FS_Bijection

\* One call of StartTopJob packs a list in which one slot at most is idle, or
\* one job at most waits.
LEMMA StartPacks ==
    ASSUME NEW list, NEW st, st \in [Charts -> Statuses], thread \in [Charts -> ThreadStates],
           JobList(list, st, thread), StartTopJob(list, st),
           Cardinality(StartedJobs(list, st)) <= MaxJobs,
           \/ \A i, j \in DOMAIN list : st[list[i]] = "pending" /\ st[list[j]] = "pending" => i = j
           \/ MaxJobs <= Cardinality(StartedJobs(list, st)) + 1
    PROVE  Packed(list, status')
<1> DEFINE N == Cardinality(StartedJobs(list, st))
<1>1. N \in Nat /\ MaxJobs \in Nat /\ Cardinality(Running(list, st)) = N
  BY JobsFinite, PlacesAreJobs, SencAssumption
<1>2. \A i \in DOMAIN list : list[i] \in Charts
  BY LenProperties, ElementOfSeq DEF JobList
<1>3. CASE /\ N >= MaxJobs \/ \A i \in DOMAIN list : st[list[i]] # "pending"
           /\ status' = st
  BY <1>1, <1>3 DEF Packed
<1>4. ASSUME NEW i \in DOMAIN list, N < MaxJobs, st[list[i]] = "pending",
             status' = [st EXCEPT ![list[i]] = "started"]
      PROVE  Packed(list, status')
  <2>1. /\ list[i] \in Charts /\ status'[list[i]] = "started"
        /\ \A d \in Charts : d # list[i] => status'[d] = st[d]
    BY <1>2, <1>4
  <2>2. StartedJobs(list, status') = StartedJobs(list, st) \cup {list[i]}
    BY <2>1 DEF StartedJobs, InList
  <2>3. list[i] \notin StartedJobs(list, st)
    BY <1>4 DEF StartedJobs
  <2>4. Cardinality(StartedJobs(list, status')) = N + 1
    BY <2>2, <2>3, JobsFinite, FS_AddElement
  <2>5. ASSUME NEW j \in DOMAIN list, status'[list[j]] = "pending"
        PROVE  N + 1 = MaxJobs
    <3>1. j # i /\ st[list[j]] = "pending"
      BY <2>1, <2>5, <1>2
    <3>2. MaxJobs <= N + 1
      BY <3>1, <1>4
    <3> QED  BY <3>2, <1>1, <1>4
  <2> HIDE DEF N
  <2> QED  BY <2>4, <2>5, <1>1, <1>4 DEF Packed
<1> HIDE DEF N
<1> QED  BY <1>1, <1>3, <1>4 DEF StartTopJob

\* Every step keeps the slots.
LEMMA SlotsKeep ==
    ASSUME ManagerInv, SlotsInv, [Next]_vars
    PROVE  SlotsInv'
<1> USE DEF ManagerInv
<1>1. status \in [Charts -> Statuses] /\ thread \in [Charts -> ThreadStates]
  BY DEF TypeOK, Statuses, ThreadStates
<1>2. CASE UNCHANGED <<ticketList, status, thread>>
  BY <1>2 DEF SlotsInv, Packed, StartedJobs, InList
<1>3. ASSUME NEW c \in Charts, Worker(c)
      PROVE  SlotsInv'
  <2>1. /\ UNCHANGED <<ticketList, status>>
        /\ thread[c] # "none"
        /\ \A d \in Charts : d # c => thread'[d] = thread[d]
    BY <1>1, <1>3 DEF Worker, Started, Build, Throw, Done
  <2> QED  BY <2>1 DEF SlotsInv, Packed, StartedJobs, InList
<1>4. ASSUME NEW c \in Charts, Open(c), ~UNCHANGED <<ticketList, status, thread>>
      PROVE  SlotsInv'
  <2> DEFINE st == [status EXCEPT ![c] = "pending"]
  <2>1. /\ thread[c] = "none" /\ status[c] = "inactive" /\ ~Listed(c)
        /\ ~ \E i \in DOMAIN ticketList : PathOf[ticketList[i]] = PathOf[c]
        /\ ticketList' = Append(ticketList, c)
        /\ StartTopJob(ticketList', st)
    BY <1>4 DEF Open, BuildSENCFile, ScheduleJob, Unopened
  <2>2. /\ st \in [Charts -> Statuses] /\ JobList(ticketList', st, thread)
        /\ \A d \in Charts : InList(ticketList', d) <=> Listed(d) \/ d = c
    BY <2>1, JobJoins DEF InList
  <2>3. st[c] = "pending" /\ \A d \in Charts : d # c => st[d] = status[d]
    BY <1>1
  <2> HIDE DEF st
  <2>4. StartedJobs(ticketList', st) = StartedJobs(ticketList, status)
    BY <2>1, <2>2, <2>3 DEF StartedJobs, InList, Listed
  <2>5. Starts(ticketList', st)
    BY <1>1, <2>1, <2>2, StartKeeps
  <2>6. \/ \A i, j \in DOMAIN ticketList' : st[ticketList'[i]] = "pending" /\ st[ticketList'[j]] = "pending" => i = j
        \/ MaxJobs <= Cardinality(StartedJobs(ticketList', st)) + 1
    <3>1. CASE \E i \in DOMAIN ticketList : status[ticketList[i]] = "pending"
      BY <3>1, <2>4, SencAssumption DEF SlotsInv, Packed
    <3>2. CASE ~ \E i \in DOMAIN ticketList : status[ticketList[i]] = "pending"
      <4>1. \A i \in DOMAIN ticketList' : ticketList'[i] \in Charts
        BY <2>2, LenProperties, ElementOfSeq DEF JobList
      <4>2. ASSUME NEW i \in DOMAIN ticketList', st[ticketList'[i]] = "pending"
            PROVE  ticketList'[i] = c
        <5>1. SUFFICES ASSUME ticketList'[i] # c
                       PROVE  FALSE
          OBVIOUS
        <5>2. Listed(ticketList'[i]) /\ status[ticketList'[i]] = "pending"
          BY <5>1, <4>1, <4>2, <2>2, <2>3 DEF InList
        <5> QED  BY <5>2, <3>2 DEF Listed
      <4> QED  BY <4>2, <2>2 DEF JobList
    <3> QED  BY <3>1, <3>2
  <2>7. Packed(ticketList', status')
    BY <1>1, <2>1, <2>2, <2>4, <2>6, StartPacks DEF SlotsInv, Packed
  <2>8. \A d \in Charts : thread'[d] # "none" => status'[d] = "started"
    BY <2>1, <2>3, <2>5 DEF Starts, SlotsInv
  <2> QED  BY <2>7, <2>8 DEF SlotsInv, Packed, StartedJobs, InList
<1>5. ASSUME ManagerEvent, ~UNCHANGED <<ticketList, status, thread>>
      PROVE  SlotsInv'
  <2> DEFINE c == Head(queue).ticket
  <2>1. queue \in Seq(Events) /\ queue # <<>> /\ Head(queue).type # "STARTED"
        /\ FinishJob(c) /\ StartTopJob(ticketList', status)
    BY <1>5 DEF ManagerEvent, TypeOK
  <2>2. c \in Charts /\ thread[c] = "finished"
    <3>1. Head(queue) = queue[1] /\ 1 \in DOMAIN queue
      BY <2>1, Tailed, LenProperties
    <3> QED  BY <3>1, <2>1, EventsTyped DEF LastEvents
  <2> HIDE DEF c
  <2>3. /\ JobList(ticketList', status, thread)
        /\ \A d \in Charts : InList(ticketList', d) <=> Listed(d) /\ d # c
    BY <2>1, <2>2, JobLeaves DEF InList
  <2>4. Starts(ticketList', status)
    BY <1>1, <2>1, <2>3, StartKeeps
  <2>5. StartedJobs(ticketList', status) = StartedJobs(ticketList, status) \ {c}
    BY <2>3 DEF StartedJobs, InList, Listed
  <2>6. Cardinality(StartedJobs(ticketList', status)) \in
          {Cardinality(StartedJobs(ticketList, status)), Cardinality(StartedJobs(ticketList, status)) - 1}
    BY <2>5, JobsFinite, FS_RemoveElement
  <2>7. \A i \in DOMAIN ticketList' : ticketList'[i] \in Charts
    BY <2>3, LenProperties, ElementOfSeq DEF JobList
  <2>8. \/ \A i, j \in DOMAIN ticketList' : status[ticketList'[i]] = "pending" /\ status[ticketList'[j]] = "pending" => i = j
        \/ MaxJobs <= Cardinality(StartedJobs(ticketList', status)) + 1
    <3>1. CASE \E i \in DOMAIN ticketList : status[ticketList[i]] = "pending"
      BY <3>1, <2>6, JobsFinite, SencAssumption DEF SlotsInv, Packed
    <3>2. CASE ~ \E i \in DOMAIN ticketList : status[ticketList[i]] = "pending"
      <4>1. ASSUME NEW i \in DOMAIN ticketList', status[ticketList'[i]] = "pending"
            PROVE  FALSE
        <5>1. Listed(ticketList'[i])
          BY <4>1, <2>3, <2>7 DEF InList
        <5> QED  BY <5>1, <4>1, <3>2 DEF Listed
      <4> QED  BY <4>1
    <3> QED  BY <3>1, <3>2
  <2>9. Cardinality(StartedJobs(ticketList', status)) <= MaxJobs
    BY <2>6, JobsFinite, SencAssumption DEF SlotsInv, Packed
  <2>10. Packed(ticketList', status')
    BY <1>1, <2>1, <2>3, <2>8, <2>9, StartPacks
  <2>11. \A d \in Charts : thread'[d] # "none" => status'[d] = "started"
    BY <2>4 DEF Starts, SlotsInv
  <2> QED  BY <2>10, <2>11 DEF SlotsInv, Packed, StartedJobs, InList
<1> QED
  BY <1>2, <1>3, <1>4, <1>5 DEF Next, vars, Close, BuildNow, Outdate, FrameEvent, YieldBegins, YieldEnds

\* The slots are packed in every state.
THEOREM SlotsInvariance == Spec => []SlotsInv
<1>1. Init => SlotsInv
  <2> SUFFICES ASSUME Init
               PROVE  SlotsInv
    OBVIOUS
  <2>1. DOMAIN ticketList = {}
    BY DEF Init
  <2>2. StartedJobs(ticketList, status) = {}
    BY <2>1 DEF StartedJobs, InList
  <2>3. Cardinality(StartedJobs(ticketList, status)) = 0
    BY <2>2, FS_EmptySet
  <2> QED  BY <2>1, <2>3, SencAssumption DEF Init, SlotsInv, Packed
<1>2. ManagerInv /\ SlotsInv /\ [Next]_vars => SlotsInv'
  BY SlotsKeep
<1> QED  BY <1>1, <1>2, Invariance, PTL DEF Spec

\* StartTopJob counts the jobs in the list, SlotsRespected the threads: there
\* are never more threads at work than m_max_jobs.
THEOREM Slots == Spec => []SlotsRespected
<1>1. ManagerInv /\ SlotsInv => SlotsRespected
  <2> SUFFICES ASSUME ManagerInv, SlotsInv
               PROVE  SlotsRespected
    OBVIOUS
  <2>1. {c \in Charts : Busy(c)} \in SUBSET StartedJobs(ticketList, status)
    BY DEF ManagerInv, SlotsInv, JobList, StartedJobs, InList, Busy, BusyStates
  <2>2. /\ Cardinality({c \in Charts : Busy(c)}) <= Cardinality(StartedJobs(ticketList, status))
        /\ Cardinality({c \in Charts : Busy(c)}) \in Nat
    BY <2>1, JobsFinite, FS_Subset, FS_CardinalityType
  <2> QED  BY <2>2, JobsFinite, SencAssumption DEF SlotsInv, Packed, SlotsRespected
<1> QED  BY <1>1, Invariance, SlotsInvariance, PTL

\* StartTopJob starts one job a call, and a job waits only while every slot
\* is taken.
THEOREM NoSlotIdle == Spec => []NoIdleSlot
<1>1. ManagerInv /\ SlotsInv => NoIdleSlot
  BY PlacesAreJobs DEF ManagerInv, SlotsInv, Packed, NoIdleSlot
<1> QED  BY <1>1, Invariance, SlotsInvariance, PTL

\* Both together: the slots are used as far as jobs wait, and no further.
THEOREM SlotsAreUsed == Spec => []SlotsUsed
<1>1. SlotsRespected /\ NoIdleSlot => SlotsUsed
  BY DEF SlotsUsed
<1> QED  BY <1>1, Slots, NoSlotIdle, PTL
=============================================================================
