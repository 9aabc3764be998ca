--------------------------- MODULE TCPServerProofs ---------------------------
(***************************************************************************)
(* Theorems about TCPServer, for every number of sessions and calls: there *)
(* is one chain of accepts, and the server is a Listener: a session        *)
(* connects to a started server only, and a restarted server begins        *)
(* without the sessions it had before.                                     *)
(***************************************************************************)
EXTENDS TCPServer, SequenceTheorems, FiniteSetTheorems, TLAPS

-----------------------------------------------------------------------------
(* The inductive invariant *)

\* The completions of an accept.
Came      == Accepted(TRUE)
CutOff    == Accepted(FALSE)
AcceptOps == {Came, CutOff}

\* What starts a server is behind all that stops it or belongs to its last
\* run, until it starts; from then on nothing that stops it is before a start,
\* and no accept that failed is left.
Order ==
    /\ ~started => \A i, j \in DOMAIN posted :
                     i < j /\ posted[i] = Start => posted[j] \notin {Stop} \cup AcceptOps
    /\ started => \A i, j \in DOMAIN posted : i < j /\ posted[i] = Stop => posted[j] # Start
    /\ started => \A i \in DOMAIN posted : posted[i] # CutOff

Chain ==
    /\ \A i, j \in DOMAIN posted : posted[i] \in AcceptOps /\ posted[j] \in AcceptOps => i = j
    /\ accepting # 0 => started /\ \A i \in DOMAIN posted : posted[i] \notin AcceptOps
    /\ started /\ ~fault => accepting # 0 \/ \E i \in DOMAIN posted : posted[i] \in AcceptOps

\* The session being made is the last one, and no other is without its server
\* while the server runs; a stopped server has taken leave of the last one.
Numbers ==
    /\ serverless \subseteq 1..created /\ sessions \subseteq 1..created
    /\ connected \subseteq sessions
    /\ started => created >= 1 /\ created \notin serverless /\ created \notin sessions
    /\ ~started /\ created >= 1 => created \in serverless
    /\ \A i \in DOMAIN posted : posted[i] \in AcceptOps => created >= 1

\* The handlers that may create a session, and a restart that will post one.
Makers(q) == {i \in DOMAIN q : q[i] \in {Start, Came}}

Budget ==
    created + Cardinality(Makers(posted)) + (IF app = "restarting" THEN 1 ELSE 0) <= MaxSessions

\* A stopped server disconnects each of its sessions before it starts again.
Drain ==
    ~started => \A s \in connected :
        \E i \in DOMAIN posted : posted[i] = Closed(s) /\ \A j \in 1..(i - 1) : posted[j] # Start

ServerInv == TypeOK /\ Order /\ Chain /\ Numbers /\ Budget /\ Drain

-----------------------------------------------------------------------------
(* Handlers and queues *)

\* Handlers of different kinds, or for different sessions, are different.
LEMMA HandlersDiffer ==
    /\ Start # Stop /\ Start # ServiceStop /\ Stop # ServiceStop
    /\ Start \notin AcceptOps /\ Stop \notin AcceptOps /\ ServiceStop \notin AcceptOps
    /\ Came # CutOff
    /\ \A s : Closed(s) \notin {Start, Stop, ServiceStop} \cup AcceptOps
    /\ \A s, t : Closed(s) = Closed(t) => s = t
  BY DEF Start, Stop, ServiceStop, Accepted, Closed, AcceptOps, Came, CutOff

\* The kinds by the name of the operation.
LEMMA KindOf ==
    ASSUME NEW h \in Handlers
    PROVE  /\ h.op = "accepted" <=> h \in AcceptOps
           /\ h.op \in {"start", "accepted"} <=> h \in {Start} \cup AcceptOps
<1>1. CASE \E s \in Ids : h = Closed(s)
  <2>1. h.op = "closed"
    BY <1>1 DEF Closed
  <2> QED  BY <1>1, <2>1, HandlersDiffer
<1>2. CASE h \in AcceptOps
  BY <1>2 DEF Accepted, AcceptOps, Came, CutOff
<1>3. CASE h \in {Start, Stop, ServiceStop}
  <2>1. Start.op = "start" /\ Stop.op = "stop" /\ ServiceStop.op = "service stop"
    BY DEF Start, Stop, ServiceStop
  <2> QED  BY <1>3, <2>1, HandlersDiffer
<1> QED
  BY <1>1, <1>2, <1>3 DEF Handlers, AcceptOps, Came, CutOff

LEMMA Posted ==
    ASSUME NEW q \in Seq(Handlers), NEW h \in Handlers
    PROVE  /\ Append(q, h) \in Seq(Handlers)
           /\ Len(q) \in Nat /\ DOMAIN q = 1..Len(q)
           /\ DOMAIN Append(q, h) = 1..(Len(q) + 1)
           /\ \A i \in 1..Len(q) : Append(q, h)[i] = q[i]
           /\ Append(q, h)[Len(q) + 1] = h
<1>1. Append(q, h) \in Seq(Handlers) /\ Len(Append(q, h)) = Len(q) + 1
  BY AppendProperties
<1>2. DOMAIN Append(q, h) = 1..Len(Append(q, h))
  BY <1>1, LenProperties
<1> QED
  BY <1>1, <1>2, AppendProperties, LenProperties

LEMMA Taken ==
    ASSUME NEW q \in Seq(Handlers), q # <<>>
    PROVE  /\ Tail(q) \in Seq(Handlers)
           /\ Len(q) \in Nat \ {0} /\ DOMAIN q = 1..Len(q)
           /\ Len(Tail(q)) = Len(q) - 1 /\ DOMAIN Tail(q) = 1..(Len(q) - 1)
           /\ \A i \in 1..(Len(q) - 1) : Tail(q)[i] = q[i + 1]
           /\ Head(q) = q[1]
<1>1. Tail(q) \in Seq(Handlers) /\ Len(Tail(q)) = Len(q) - 1
  BY HeadTailProperties
<1>2. DOMAIN Tail(q) = 1..Len(Tail(q))
  BY <1>1, LenProperties
<1> QED
  BY <1>1, <1>2, HeadTailProperties, LenProperties, EmptySeq

\* Places of a queue are finitely many.
LEMMA PlacesFinite ==
    ASSUME NEW q \in Seq(Handlers), NEW P \in SUBSET DOMAIN q
    PROVE  IsFiniteSet(P) /\ Cardinality(P) \in Nat
<1>1. Len(q) \in Nat /\ DOMAIN q = 1..Len(q)
  BY LenProperties
<1>2. 1 \in Int /\ Len(q) \in Int
  BY <1>1
<1>3. IsFiniteSet(1..Len(q))
  BY <1>2, FS_Interval
<1>4. IsFiniteSet(P)
  BY <1>1, <1>3, FS_Subset
<1> QED
  BY <1>4, FS_CardinalityType

\* Posting a handler makes one more, if it is one that makes a session.
LEMMA MakersPosted ==
    ASSUME NEW q \in Seq(Handlers), NEW h \in Handlers
    PROVE  Cardinality(Makers(Append(q, h))) =
             Cardinality(Makers(q)) + (IF h \in {Start, Came} THEN 1 ELSE 0)
<1> DEFINE t == Append(q, h)
<1>0. /\ Len(q) \in Nat /\ DOMAIN q = 1..Len(q) /\ DOMAIN t = 1..(Len(q) + 1)
      /\ \A i \in 1..Len(q) : t[i] = q[i]
      /\ t[Len(q) + 1] = h
  BY Posted
<1> HIDE DEF t
<1>1. IsFiniteSet(Makers(q))
  BY PlacesFinite DEF Makers
<1>2. Len(q) + 1 \notin Makers(q)
  BY <1>0 DEF Makers
<1>3. CASE h \in {Start, Came}
  <2>1. Makers(t) = Makers(q) \cup {Len(q) + 1}
    BY <1>0, <1>3 DEF Makers
  <2> QED  BY <1>1, <1>2, <1>3, <2>1, FS_AddElement DEF t
<1>4. CASE h \notin {Start, Came}
  <2>1. Makers(t) = Makers(q)
    BY <1>0, <1>4 DEF Makers
  <2>2. Cardinality(Makers(q)) \in Nat
    BY <1>1, FS_CardinalityType
  <2> QED  BY <1>4, <2>1, <2>2 DEF t
<1> QED
  BY <1>3, <1>4

\* Taking the first handler leaves the makers behind it.
LEMMA MakersTaken ==
    ASSUME NEW q \in Seq(Handlers), q # <<>>
    PROVE  Cardinality(Makers(Tail(q))) =
             Cardinality(Makers(q)) - (IF q[1] \in {Start, Came} THEN 1 ELSE 0)
<1> DEFINE t == Tail(q)
           S == Makers(t)
           T == Makers(q) \ {1}
           f == [i \in S |-> i + 1]
<1>0. /\ t \in Seq(Handlers) /\ Len(q) \in Nat \ {0}
      /\ DOMAIN q = 1..Len(q) /\ DOMAIN t = 1..(Len(q) - 1)
      /\ \A i \in 1..(Len(q) - 1) : t[i] = q[i + 1]
  BY Taken
<1> HIDE DEF t
<1>1. IsFiniteSet(Makers(q)) /\ Cardinality(Makers(q)) \in Nat
  BY PlacesFinite DEF Makers
<1>2. IsFiniteSet(S)
  BY <1>0, PlacesFinite DEF Makers
<1>3. f \in [S -> T]
  BY <1>0 DEF Makers
<1>4. \A i \in T : i - 1 \in S /\ (i - 1) + 1 = i
  BY <1>0 DEF Makers
<1>5. \A i, j \in S : i + 1 = j + 1 => i = j
  BY <1>0 DEF Makers
<1>6. f \in Bijection(S, T)
  <2>1. \A j \in T : \E i \in S : f[i] = j
    BY <1>4
  <2>2. \A i, j \in S : f[i] = f[j] => i = j
    BY <1>5
  <2> QED
    BY <1>3, <2>1, <2>2 DEF Bijection, Injection, Surjection, IsInjective
<1> HIDE DEF S, f
<1>7. Cardinality(T) = Cardinality(S)
  BY <1>2, <1>6, FS_Bijection DEF ExistsBijection
<1>8. 1 \in Makers(q) <=> q[1] \in {Start, Came}
  BY <1>0 DEF Makers
<1>9. Cardinality(T) = IF 1 \in Makers(q) THEN Cardinality(Makers(q)) - 1 ELSE Cardinality(Makers(q))
  BY <1>1, FS_RemoveElement
<1>10. Cardinality(Makers(q)) = Cardinality(Makers(q)) - 0
  BY <1>1
<1> QED
  BY <1>7, <1>8, <1>9, <1>10 DEF S, t

\* SetToSeq lists a finite set.
LEMMA Listing ==
    ASSUME NEW S, IsFiniteSet(S)
    PROVE  /\ Cardinality(S) \in Nat
           /\ \A i \in 1..Cardinality(S) : SetToSeq(S)[i] \in S
           /\ \A s \in S : \E i \in 1..Cardinality(S) : SetToSeq(S)[i] = s
<1> DEFINE n == Cardinality(S)
           f == SetToSeq(S)
<1>1. n \in Nat /\ ExistsBijection(1..n, S)
  BY FS_CardinalityType
<1>2. \E g \in [1..n -> S] : IsInjective(g)
  BY <1>1 DEF ExistsBijection, Bijection, Injection
<1>3. f \in [1..n -> S] /\ IsInjective(f)
  BY <1>2 DEF SetToSeq
<1>4. f \in Injection(1..n, S)
  BY <1>3 DEF Injection
<1>5. 1 \in Int /\ n \in Int
  BY <1>1
<1>6. IsFiniteSet(1..n) /\ Cardinality(1..n) = n
  BY <1>1, <1>5, FS_Interval
<1>7. f \in Surjection(1..n, S)
  BY <1>4, <1>6, FS_Injection
<1> QED
  BY <1>1, <1>3, <1>7 DEF Surjection

-----------------------------------------------------------------------------
(* Posting a handler *)

LEMMA HandlersAre ==
    /\ {Start, Stop, ServiceStop, Came, CutOff} \subseteq Handlers
    /\ \A s \in Ids : Closed(s) \in Handlers
  BY DEF Handlers, Came, CutOff

\* Nothing that stops the server is posted to a stopped one, no start to a
\* started one.
LEMMA OrderPosted ==
    ASSUME ServerInv, NEW h \in Handlers, posted' = Append(posted, h), started' = started,
           ~started => h \notin {Stop} \cup AcceptOps,
           started => h \notin {Start, CutOff}
    PROVE  Order'
<1>1. posted \in Seq(Handlers)
  BY DEF ServerInv, TypeOK
<1>2. /\ Len(posted) \in Nat /\ DOMAIN posted = 1..Len(posted)
      /\ DOMAIN posted' = 1..(Len(posted) + 1)
      /\ \A i \in 1..Len(posted) : posted'[i] = posted[i]
      /\ posted'[Len(posted) + 1] = h
  BY <1>1, Posted
<1>3. \A i, j \in DOMAIN posted' : i < j => i \in DOMAIN posted /\ (j \in DOMAIN posted \/ posted'[j] = h)
  BY <1>2
<1>4. ~started => \A i, j \in DOMAIN posted' :
                     i < j /\ posted'[i] = Start => posted'[j] \notin {Stop} \cup AcceptOps
  BY <1>2, <1>3 DEF ServerInv, Order
<1>5. started => \A i, j \in DOMAIN posted' : i < j /\ posted'[i] = Stop => posted'[j] # Start
  BY <1>2, <1>3 DEF ServerInv, Order
<1>6. started => \A i \in DOMAIN posted' : posted'[i] # CutOff
  BY <1>2 DEF ServerInv, Order
<1> QED
  BY <1>4, <1>5, <1>6 DEF Order

LEMMA ChainPosted ==
    ASSUME ServerInv, NEW h \in Handlers, posted' = Append(posted, h), h \notin AcceptOps,
           UNCHANGED <<started, accepting, fault>>
    PROVE  Chain'
<1>1. posted \in Seq(Handlers)
  BY DEF ServerInv, TypeOK
<1>2. /\ Len(posted) \in Nat /\ DOMAIN posted = 1..Len(posted)
      /\ DOMAIN posted' = 1..(Len(posted) + 1)
      /\ \A i \in 1..Len(posted) : posted'[i] = posted[i]
      /\ posted'[Len(posted) + 1] = h
  BY <1>1, Posted
<1>3. \A i \in DOMAIN posted' : posted'[i] \in AcceptOps => i \in DOMAIN posted /\ posted'[i] = posted[i]
  BY <1>2
<1>4. \A i \in DOMAIN posted : i \in DOMAIN posted' /\ posted'[i] = posted[i]
  BY <1>2
<1> QED
  BY <1>3, <1>4 DEF ServerInv, Chain

LEMMA NumbersPosted ==
    ASSUME ServerInv, NEW h \in Handlers, posted' = Append(posted, h),
           h \in AcceptOps => created >= 1,
           UNCHANGED <<started, created, serverless, sessionVars>>
    PROVE  Numbers'
<1>1. posted \in Seq(Handlers)
  BY DEF ServerInv, TypeOK
<1>2. \A i \in DOMAIN posted' : (i \in DOMAIN posted /\ posted'[i] = posted[i]) \/ posted'[i] = h
  BY <1>1, Posted
<1> QED
  BY <1>2 DEF ServerInv, Numbers, sessionVars

LEMMA DrainPosted ==
    ASSUME ServerInv, NEW h \in Handlers, posted' = Append(posted, h),
           UNCHANGED <<started, connected>>
    PROVE  Drain'
<1>1. posted \in Seq(Handlers)
  BY DEF ServerInv, TypeOK
<1>2. /\ Len(posted) \in Nat /\ DOMAIN posted = 1..Len(posted)
      /\ DOMAIN posted' = 1..(Len(posted) + 1)
      /\ \A i \in 1..Len(posted) : posted'[i] = posted[i]
  BY <1>1, Posted
<1> SUFFICES ASSUME ~started, NEW s \in connected
             PROVE  \E i \in DOMAIN posted' :
                       posted'[i] = Closed(s) /\ \A j \in 1..(i - 1) : posted'[j] # Start
  BY DEF Drain
<1>3. PICK i \in DOMAIN posted : posted[i] = Closed(s) /\ \A j \in 1..(i - 1) : posted[j] # Start
  BY DEF ServerInv, Drain
<1>4. i \in DOMAIN posted' /\ \A j \in 1..i : posted'[j] = posted[j]
  BY <1>2
<1>5. i \in 1..i /\ \A j \in 1..(i - 1) : j \in 1..i
  BY <1>2
<1> QED
  BY <1>3, <1>4, <1>5

\* Handlers that make no session need no room; the others were given it.
LEMMA BudgetPosted ==
    ASSUME ServerInv, NEW h \in Handlers, posted' = Append(posted, h), created' = created,
           \/ h \notin {Start, Came} /\ (app' = app \/ app' # "restarting" \/ Spare)
           \/ h \in {Start, Came} /\ Spare
           \/ app = "restarting" /\ app' # "restarting"
    PROVE  Budget'
<1>1. posted \in Seq(Handlers) /\ created \in Nat /\ MaxSessions \in Nat
  BY ServerAssumption DEF ServerInv, TypeOK
<1> DEFINE n == Cardinality(Makers(posted))
<1>2. n \in Nat
  BY <1>1, PlacesFinite DEF Makers
<1>3. Cardinality(Makers(posted')) = n + (IF h \in {Start, Came} THEN 1 ELSE 0)
  BY <1>1, MakersPosted
<1>4. Spare => created + n + 1 < MaxSessions
  <2>1. IsFiniteSet(Creating) /\ Cardinality(Creating) \in Nat
    BY <1>1, PlacesFinite DEF Creating
  <2>2. Makers(posted) \subseteq Creating
    <3>1. \A i \in DOMAIN posted : posted[i] \in Handlers
      BY <1>1, ElementOfSeq, LenProperties
    <3> QED  BY <3>1, KindOf DEF Makers, Creating, AcceptOps
  <2>3. n <= Cardinality(Creating)
    BY <2>1, <2>2, FS_Subset
  <2> QED  BY <1>1, <1>2, <2>1, <2>3 DEF Spare
<1>5. created + n + (IF app = "restarting" THEN 1 ELSE 0) <= MaxSessions
  BY DEF ServerInv, Budget
<1> HIDE DEF n
<1>6. created + (n + (IF h \in {Start, Came} THEN 1 ELSE 0)) + (IF app' = "restarting" THEN 1 ELSE 0)
        <= MaxSessions
  <2>1. CASE Spare
    BY <1>1, <1>2, <1>4, <2>1
  <2>2. CASE ~Spare /\ h \notin {Start, Came}
    BY <1>1, <1>2, <1>5, <2>2
  <2>3. CASE app = "restarting" /\ app' # "restarting"
    BY <1>1, <1>2, <1>5, <2>3
  <2> QED  BY <2>1, <2>2, <2>3
<1> QED
  BY <1>3, <1>6 DEF Budget

LEMMA CallsStep ==
    ASSUME ServerInv, CallStart \/ CallStop \/ CallRestart \/ CallServiceStop \/ RestartStopped
    PROVE  ServerInv'
<1> USE HandlersDiffer, HandlersAre
<1>1. /\ UNCHANGED <<io, serving, started, created, accepting, serverless, connected, sessions, fault>>
      /\ app' \in {"running", "restarting", "joining"}
      /\ calls' \in 0..MaxCalls
  <2>1. UNCHANGED <<io, serving, started, created, accepting, serverless, connected, sessions, fault>>
    BY DEF CallStart, CallStop, CallRestart, CallServiceStop, RestartStopped, serverVars, sessionVars
  <2>2. app' \in {"running", "restarting", "joining"}
    BY DEF CallStart, CallStop, CallRestart, CallServiceStop, RestartStopped, Call
  <2>3. calls' = calls \/ (calls < MaxCalls /\ calls' = calls + 1)
    BY DEF CallStart, CallStop, CallRestart, CallServiceStop, RestartStopped, Call
  <2>4. calls \in 0..MaxCalls /\ MaxCalls \in Nat
    BY ServerAssumption DEF ServerInv, TypeOK
  <2>5. calls' \in 0..MaxCalls
    BY <2>3, <2>4
  <2> QED  BY <2>1, <2>2, <2>5
<1>2. PICK k \in {Start, Stop, ServiceStop} :
        /\ posted' = Append(posted, k)
        /\ k = Start => ~started
        /\ k = Stop => started
        /\ \/ k # Start /\ (app' = app \/ app' # "restarting" \/ Spare)
           \/ k = Start /\ Spare
           \/ app = "restarting" /\ app' # "restarting"
  BY DEF CallStart, CallStop, CallRestart, CallServiceStop, RestartStopped, Call
<1>3. TypeOK'
  <2>1. posted' \in Seq(Handlers)
    BY <1>2, Posted DEF ServerInv, TypeOK
  <2> QED  BY <1>1, <2>1 DEF ServerInv, TypeOK
<1>4. Order'
  BY <1>1, <1>2, OrderPosted DEF AcceptOps
<1>5. Chain' /\ Numbers' /\ Drain'
  BY <1>1, <1>2, ChainPosted, NumbersPosted, DrainPosted DEF sessionVars
<1>6. Budget'
  BY <1>1, <1>2, BudgetPosted DEF AcceptOps
<1> QED
  BY <1>3, <1>4, <1>5, <1>6 DEF ServerInv

LEMMA WaitingStep == ASSUME ServerInv, Joined \/ ServiceStopped PROVE ServerInv'
<1>1. /\ UNCHANGED <<calls, io, serving, serverVars, sessionVars, posted, fault>>
      /\ app # "restarting" /\ app' \in {"waiting", "over"}
  BY DEF Joined, ServiceStopped
<1> QED
  BY <1>1 DEF ServerInv, TypeOK, Order, Chain, Numbers, Budget, Drain, serverVars, sessionVars

\* A wait for the mutex changes nothing the server keeps.
LEMMA BlockedStep == ASSUME ServerInv, Blocks \/ Released PROVE ServerInv'
<1>1. /\ UNCHANGED <<appVars, serving, serverVars, sessionVars, posted, fault>>
      /\ io' \in {"running", "blocked"}
  BY DEF Blocks, Released
<1> QED
  BY <1>1 DEF ServerInv, TypeOK, Order, Chain, Numbers, Budget, Drain, appVars, serverVars, sessionVars

LEMMA ClientConnectsStep == ASSUME ServerInv, ClientConnects PROVE ServerInv'
<1> USE HandlersDiffer, HandlersAre
<1>1. /\ accepting # 0 /\ accepting' = 0 /\ Spare
      /\ posted' = Append(posted, Came)
      /\ UNCHANGED <<app, calls, io, serving, started, created, serverless, connected, sessions, fault>>
  BY DEF ClientConnects, appVars, sessionVars, Came
<1>2. started /\ created >= 1 /\ \A i \in DOMAIN posted : posted[i] \notin AcceptOps
  BY <1>1 DEF ServerInv, Chain, Numbers
<1>3. TypeOK'
  <2>1. posted' \in Seq(Handlers)
    BY <1>1, Posted DEF ServerInv, TypeOK
  <2> QED  BY <1>1, <2>1 DEF ServerInv, TypeOK
<1>4. Order'
  BY <1>1, <1>2, OrderPosted DEF AcceptOps
<1>5. Chain'
  <2>1. posted \in Seq(Handlers)
    BY DEF ServerInv, TypeOK
  <2>2. /\ Len(posted) \in Nat /\ DOMAIN posted = 1..Len(posted)
        /\ DOMAIN posted' = 1..(Len(posted) + 1)
        /\ \A i \in 1..Len(posted) : posted'[i] = posted[i]
        /\ posted'[Len(posted) + 1] = Came
    BY <1>1, <2>1, Posted
  <2>3. \A i \in DOMAIN posted' : posted'[i] \in AcceptOps => i = Len(posted) + 1
    BY <1>2, <2>2
  <2>4. Len(posted) + 1 \in DOMAIN posted' /\ posted'[Len(posted) + 1] \in AcceptOps
    BY <2>2 DEF AcceptOps
  <2> QED  BY <1>1, <2>3, <2>4 DEF Chain
<1>6. Numbers' /\ Drain'
  BY <1>1, <1>2, NumbersPosted, DrainPosted DEF sessionVars
<1>7. Budget'
  BY <1>1, BudgetPosted
<1> QED
  BY <1>3, <1>4, <1>5, <1>6, <1>7 DEF ServerInv

LEMMA ClientLeavesStep ==
    ASSUME ServerInv, NEW s \in Ids, ClientLeaves(s) PROVE ServerInv'
<1> USE HandlersDiffer, HandlersAre
<1>1. /\ posted' = Append(posted, Closed(s)) /\ Closed(s) \in Handlers
      /\ UNCHANGED <<app, calls, io, serving, started, created, accepting, serverless, connected,
                     sessions, fault>>
  BY DEF ClientLeaves, appVars, serverVars, sessionVars
<1>2. Closed(s) \notin {Start, Stop, Came, CutOff} \cup AcceptOps
  BY DEF AcceptOps
<1>3. TypeOK'
  <2>1. posted' \in Seq(Handlers)
    BY <1>1, Posted DEF ServerInv, TypeOK
  <2> QED  BY <1>1, <2>1 DEF ServerInv, TypeOK
<1>4. Order' /\ Chain' /\ Numbers' /\ Drain' /\ Budget'
  <2> HIDE HandlersDiffer, HandlersAre
  <2> QED
    BY <1>1, <1>2, OrderPosted, ChainPosted, NumbersPosted, DrainPosted, BudgetPosted DEF sessionVars
<1> QED
  BY <1>3, <1>4 DEF ServerInv

-----------------------------------------------------------------------------
(* Running the first handler *)

\* The queue before and after the first handler was taken, place by place.
LEMMA Behind ==
    ASSUME ServerInv, NEW h, Take(h), posted' = Tail(posted)
    PROVE  /\ posted' \in Seq(Handlers)
           /\ DOMAIN posted \subseteq Nat /\ DOMAIN posted' \subseteq Nat
           /\ 1 \in DOMAIN posted /\ posted[1] = h /\ h \in Handlers
           /\ \A i \in DOMAIN posted' : i + 1 \in DOMAIN posted /\ posted'[i] = posted[i + 1]
           /\ \A i \in DOMAIN posted : i # 1 => i - 1 \in DOMAIN posted' /\ posted'[i - 1] = posted[i]
<1>1. posted \in Seq(Handlers) /\ posted # <<>> /\ Head(posted) = h
  BY DEF ServerInv, TypeOK, Take
<1>2. /\ posted' \in Seq(Handlers)
      /\ Len(posted) \in Nat \ {0} /\ DOMAIN posted = 1..Len(posted)
      /\ DOMAIN posted' = 1..(Len(posted) - 1)
      /\ \A i \in 1..(Len(posted) - 1) : posted'[i] = posted[i + 1]
      /\ posted[1] = h
  BY <1>1, Taken
<1>3. h \in Handlers
  BY <1>1, <1>2, LenProperties
<1> QED
  BY <1>2, <1>3

LEMMA OrderTaken ==
    ASSUME ServerInv, NEW h, Take(h), posted' = Tail(posted), started' = started
    PROVE  Order'
<1>1. /\ DOMAIN posted' \subseteq Nat
      /\ \A i \in DOMAIN posted' : i + 1 \in DOMAIN posted /\ posted'[i] = posted[i + 1]
  BY Behind
<1>2. \A i, j \in DOMAIN posted' : i < j => i + 1 < j + 1
  BY <1>1
<1>3. ~started => \A i, j \in DOMAIN posted' :
                     i < j /\ posted'[i] = Start => posted'[j] \notin {Stop} \cup AcceptOps
  BY <1>1, <1>2 DEF ServerInv, Order
<1>4. started => \A i, j \in DOMAIN posted' : i < j /\ posted'[i] = Stop => posted'[j] # Start
  BY <1>1, <1>2 DEF ServerInv, Order
<1>5. started => \A i \in DOMAIN posted' : posted'[i] # CutOff
  BY <1>1 DEF ServerInv, Order
<1> QED
  BY <1>3, <1>4, <1>5 DEF Order

LEMMA ChainTaken ==
    ASSUME ServerInv, NEW h, Take(h), posted' = Tail(posted), h \notin AcceptOps,
           UNCHANGED <<started, accepting, fault>>
    PROVE  Chain'
<1>1. /\ DOMAIN posted' \subseteq Nat /\ posted[1] = h
      /\ \A i \in DOMAIN posted' : i + 1 \in DOMAIN posted /\ posted'[i] = posted[i + 1]
      /\ \A i \in DOMAIN posted : i # 1 => i - 1 \in DOMAIN posted' /\ posted'[i - 1] = posted[i]
  BY Behind
<1>2. \A i, j \in DOMAIN posted' : i + 1 = j + 1 => i = j
  BY <1>1
<1>3. \A i, j \in DOMAIN posted' : posted'[i] \in AcceptOps /\ posted'[j] \in AcceptOps => i = j
  BY <1>1, <1>2 DEF ServerInv, Chain
<1>4. accepting # 0 => started /\ \A i \in DOMAIN posted' : posted'[i] \notin AcceptOps
  BY <1>1 DEF ServerInv, Chain
<1>5. started /\ ~fault => accepting # 0 \/ \E i \in DOMAIN posted' : posted'[i] \in AcceptOps
  BY <1>1 DEF ServerInv, Chain
<1> QED
  BY <1>3, <1>4, <1>5 DEF Chain

LEMMA NumbersTaken ==
    ASSUME ServerInv, NEW h, Take(h), posted' = Tail(posted),
           UNCHANGED <<started, created, serverless>>,
           sessions' \subseteq sessions, connected' \subseteq sessions', connected' \subseteq connected
    PROVE  Numbers'
<1>1. \A i \in DOMAIN posted' : i + 1 \in DOMAIN posted /\ posted'[i] = posted[i + 1]
  BY Behind
<1> QED
  BY <1>1 DEF ServerInv, Numbers

\* While the server is down, its sessions lose their place in the queue only
\* by being disconnected.
LEMMA DrainTaken ==
    ASSUME ServerInv, NEW h, Take(h), posted' = Tail(posted), started' = started,
           connected' \subseteq connected, \A s \in connected' : h # Closed(s)
    PROVE  Drain'
<1>1. /\ DOMAIN posted \subseteq Nat /\ DOMAIN posted' \subseteq Nat /\ posted[1] = h
      /\ \A i \in DOMAIN posted' : i + 1 \in DOMAIN posted /\ posted'[i] = posted[i + 1]
      /\ \A i \in DOMAIN posted : i # 1 => i - 1 \in DOMAIN posted' /\ posted'[i - 1] = posted[i]
  BY Behind
<1>2. \E m \in Nat : DOMAIN posted' = 1..m
  <2>1. posted' \in Seq(Handlers)
    BY Behind
  <2> QED  BY <2>1, LenProperties
<1> SUFFICES ASSUME ~started, NEW s \in connected'
             PROVE  \E i \in DOMAIN posted' :
                       posted'[i] = Closed(s) /\ \A j \in 1..(i - 1) : posted'[j] # Start
  BY DEF Drain
<1>3. PICK i \in DOMAIN posted : posted[i] = Closed(s) /\ \A j \in 1..(i - 1) : posted[j] # Start
  BY DEF ServerInv, Drain
<1>4. i # 1 /\ i - 1 \in DOMAIN posted' /\ posted'[i - 1] = Closed(s)
  BY <1>1, <1>3
<1>5. \A j \in 1..((i - 1) - 1) : j \in DOMAIN posted' /\ j + 1 \in 1..(i - 1)
  BY <1>1, <1>2, <1>4
<1>6. \A j \in 1..((i - 1) - 1) : posted'[j] # Start
  BY <1>1, <1>3, <1>5
<1> QED
  BY <1>4, <1>6

\* A handler makes at most the session that there is room for.
LEMMA BudgetTaken ==
    ASSUME ServerInv, NEW h, Take(h), posted' = Tail(posted), app' = app,
           \/ created' = created
           \/ h \in {Start, Came} /\ created' = created + 1
    PROVE  Budget'
<1>1. posted \in Seq(Handlers) /\ posted # <<>> /\ created \in Nat /\ MaxSessions \in Nat
  BY ServerAssumption DEF ServerInv, TypeOK, Take
<1> DEFINE n == Cardinality(Makers(posted))
<1>2. n \in Nat /\ Cardinality(Makers(posted')) \in Nat
  BY <1>1, Behind, PlacesFinite DEF Makers
<1>3. Cardinality(Makers(posted')) = n - (IF h \in {Start, Came} THEN 1 ELSE 0)
  BY <1>1, Behind, MakersTaken
<1>4. created + n + (IF app = "restarting" THEN 1 ELSE 0) <= MaxSessions
  BY DEF ServerInv, Budget
<1> HIDE DEF n
<1>5. created' + (n - (IF h \in {Start, Came} THEN 1 ELSE 0)) + (IF app' = "restarting" THEN 1 ELSE 0)
        <= MaxSessions
  <2>1. CASE h \in {Start, Came}
    BY <1>1, <1>2, <1>4, <2>1
  <2>2. CASE h \notin {Start, Came}
    BY <1>1, <1>2, <1>4, <2>2
  <2> QED  BY <2>1, <2>2
<1> QED
  BY <1>3, <1>5 DEF Budget

\* While a start is the first handler of a server that is down, nothing is
\* connected and nothing behind it stops or feeds the server.
LEMMA StartFirst ==
    ASSUME ServerInv, Take(Start), posted' = Tail(posted), ~started
    PROVE  /\ connected = {}
           /\ \A i \in DOMAIN posted' : posted'[i] \notin {Stop} \cup AcceptOps
<1>1. /\ DOMAIN posted \subseteq Nat /\ DOMAIN posted' \subseteq Nat
      /\ 1 \in DOMAIN posted /\ posted[1] = Start
      /\ \A i \in DOMAIN posted' : i + 1 \in DOMAIN posted /\ posted'[i] = posted[i + 1]
  BY Behind
<1>2. posted \in Seq(Handlers) /\ DOMAIN posted = 1..Len(posted) /\ Len(posted) \in Nat
  BY LenProperties DEF ServerInv, TypeOK
<1>3. connected = {}
  <2> SUFFICES ASSUME NEW s \in connected  PROVE FALSE
    OBVIOUS
  <2>1. PICK i \in DOMAIN posted : posted[i] = Closed(s) /\ \A j \in 1..(i - 1) : posted[j] # Start
    BY DEF ServerInv, Drain
  <2>2. i = 1 \/ 1 \in 1..(i - 1)
    BY <1>2
  <2> QED  BY <1>1, <2>1, <2>2, HandlersDiffer
<1>4. \A i \in DOMAIN posted' : 1 < i + 1
  <2>1. posted' \in Seq(Handlers)
    BY Behind
  <2>2. Len(posted') \in Nat /\ DOMAIN posted' = 1..Len(posted')
    BY <2>1, LenProperties
  <2> QED  BY <2>2
<1>5. \A i \in DOMAIN posted' : posted'[i] \notin {Stop} \cup AcceptOps
  BY <1>1, <1>4 DEF ServerInv, Order
<1> QED
  BY <1>3, <1>5

LEMMA StartHandlerStep == ASSUME ServerInv, StartHandler PROVE ServerInv'
<1>1. /\ Take(Start) /\ posted' = Tail(posted)
      /\ UNCHANGED <<app, calls, serving, serverless, connected, sessions, fault>>
  BY DEF StartHandler, appVars, sessionVars
<1>2. /\ posted' \in Seq(Handlers)
      /\ \A i \in DOMAIN posted' : i + 1 \in DOMAIN posted /\ posted'[i] = posted[i + 1]
  BY <1>1, Behind
<1>3. Start \notin AcceptOps /\ \A s : Start # Closed(s)
  BY HandlersDiffer
<1>4. CASE UNCHANGED <<started, created, accepting>> /\ io' \in {"running", "blocked", "ended"}
  <2>1. TypeOK'
    BY <1>1, <1>2, <1>4 DEF ServerInv, TypeOK
  <2>2. Order'
    BY <1>1, <1>4, OrderTaken
  <2>3. Chain'
    BY <1>1, <1>3, <1>4, ChainTaken
  <2>4. Numbers'
    <3>1. connected \subseteq sessions
      BY DEF ServerInv, Numbers
    <3> QED  BY <1>1, <1>4, <3>1, NumbersTaken
  <2>5. Drain'
    BY <1>1, <1>3, <1>4, DrainTaken
  <2>6. Budget'
    BY <1>1, <1>4, BudgetTaken
  <2> QED  BY <2>1, <2>2, <2>3, <2>4, <2>5, <2>6 DEF ServerInv
<1>5. CASE ~started /\ started' = TRUE /\ created' = created + 1 /\ accepting' = created + 1 /\ io' = io
  <2>1. \A i \in DOMAIN posted' : posted'[i] \notin {Stop} \cup AcceptOps
    BY <1>1, <1>5, StartFirst
  <2>2. created \in Nat /\ MaxSessions \in Nat
    BY ServerAssumption DEF ServerInv, TypeOK
  <2>3. Budget'
    BY <1>1, <1>5, BudgetTaken
  <2>4. created' \in 0..MaxSessions
    <3>1. Cardinality(Makers(posted')) \in Nat
      BY <1>2, PlacesFinite DEF Makers
    <3> QED  BY <1>5, <2>2, <2>3, <3>1 DEF Budget
  <2>5. TypeOK'
    BY <1>1, <1>2, <1>5, <2>4 DEF ServerInv, TypeOK
  <2>6. Order'
    BY <1>5, <2>1 DEF Order, AcceptOps
  <2>7. Chain'
    BY <1>5, <2>1, <2>2 DEF Chain
  <2>8. Numbers'
    <3>1. serverless \subseteq 1..created /\ sessions \subseteq 1..created /\ connected \subseteq sessions
      BY DEF ServerInv, Numbers
    <3>2. created' >= 1 /\ created' \notin 1..created /\ 1..created \subseteq 1..created'
      BY <1>5, <2>2
    <3> QED  BY <1>1, <1>5, <2>1, <3>1, <3>2 DEF Numbers
  <2>9. Drain'
    BY <1>5 DEF Drain
  <2> QED  BY <2>3, <2>5, <2>6, <2>7, <2>8, <2>9 DEF ServerInv
<1> QED
  BY <1>4, <1>5 DEF StartHandler, Accept, ServerInv, TypeOK

LEMMA ServiceStopHandlerStep == ASSUME ServerInv, ServiceStopHandler PROVE ServerInv'
<1>1. /\ Take(ServiceStop) /\ posted' = Tail(posted) /\ io' = "ended" /\ serving' = FALSE
      /\ UNCHANGED <<app, calls, started, created, accepting, serverless, connected, sessions, fault>>
  BY DEF ServiceStopHandler, appVars, serverVars, sessionVars
<1>2. ServiceStop \notin AcceptOps /\ \A s : ServiceStop # Closed(s)
  BY HandlersDiffer
<1>3. TypeOK'
  BY <1>1, Behind DEF ServerInv, TypeOK
<1>4. Order' /\ Chain'
  BY <1>1, <1>2, OrderTaken, ChainTaken
<1>5. Numbers'
  <2>1. connected \subseteq sessions
    BY DEF ServerInv, Numbers
  <2> QED  BY <1>1, <2>1, NumbersTaken
<1>6. Drain' /\ Budget'
  BY <1>1, <1>2, DrainTaken, BudgetTaken
<1> QED
  BY <1>3, <1>4, <1>5, <1>6 DEF ServerInv

LEMMA ClosedHandlerStep == ASSUME ServerInv, NEW s \in Ids, ClosedHandler(s) PROVE ServerInv'
<1>1. /\ Take(Closed(s)) /\ posted' = Tail(posted)
      /\ connected' = connected \ {s}
      /\ sessions' = IF s \in connected THEN sessions \ {s} ELSE sessions
      /\ UNCHANGED <<app, calls, io, serving, started, created, accepting, serverless, fault>>
  BY DEF ClosedHandler, appVars, serverVars
<1>2. Closed(s) \notin {Start, Came} \cup AcceptOps /\ \A t \in connected' : Closed(s) # Closed(t)
  BY <1>1, HandlersDiffer DEF AcceptOps
<1>3. TypeOK'
  BY <1>1, Behind DEF ServerInv, TypeOK
<1>4. Order' /\ Chain'
  BY <1>1, <1>2, OrderTaken, ChainTaken
<1>5. Numbers'
  <2>1. connected \subseteq sessions
    BY DEF ServerInv, Numbers
  <2>2. connected' \subseteq connected /\ sessions' \subseteq sessions /\ connected' \subseteq sessions'
    BY <1>1, <2>1
  <2> QED  BY <1>1, <2>2, NumbersTaken
<1>6. Drain' /\ Budget'
  BY <1>1, <1>2, DrainTaken, BudgetTaken
<1> QED
  BY <1>3, <1>4, <1>5, <1>6 DEF ServerInv

\* A completion of an accept is the only one, and comes after the accept.
LEMMA AcceptedFirst ==
    ASSUME ServerInv, NEW h \in AcceptOps, Take(h), posted' = Tail(posted)
    PROVE  /\ accepting = 0 /\ created >= 1
           /\ \A i \in DOMAIN posted' : posted'[i] \notin AcceptOps
           /\ h = CutOff => ~started
           /\ h = Came => created \in serverless \/ started
<1>1. /\ DOMAIN posted' \subseteq Nat
      /\ 1 \in DOMAIN posted /\ posted[1] = h
      /\ \A i \in DOMAIN posted' : i + 1 \in DOMAIN posted /\ posted'[i] = posted[i + 1]
  BY Behind
<1>2. \A i \in DOMAIN posted' : i + 1 # 1
  <2>1. posted' \in Seq(Handlers)
    BY Behind
  <2>2. Len(posted') \in Nat /\ DOMAIN posted' = 1..Len(posted')
    BY <2>1, LenProperties
  <2> QED  BY <2>2
<1>3. accepting = 0
  BY <1>1 DEF ServerInv, Chain
<1>4. created >= 1
  BY <1>1 DEF ServerInv, Numbers
<1>5. \A i \in DOMAIN posted' : posted'[i] \notin AcceptOps
  BY <1>1, <1>2 DEF ServerInv, Chain
<1>6. h = CutOff => ~started
  BY <1>1 DEF ServerInv, Order
<1>7. created \in serverless \/ started
  BY <1>4 DEF ServerInv, Numbers
<1> QED
  BY <1>3, <1>4, <1>5, <1>6, <1>7

\* What the handler of an accept does: it stops the process, or connects the
\* last session of a running server and makes the next one, or nothing.
LEMMA AcceptedOutcome ==
    ASSUME ServerInv, AcceptedHandler
    PROVE  /\ posted' = Tail(posted)
           /\ UNCHANGED <<app, calls, io, serving, started, serverless>>
           /\ \/ /\ Take(Came) /\ created \in serverless
                 /\ sessions' = sessions \cup {created} /\ fault' = TRUE
                 /\ UNCHANGED <<connected, created, accepting>>
              \/ /\ Take(Came) /\ created \notin serverless /\ started
                 /\ sessions' = sessions \cup {created} /\ connected' = connected \cup {created}
                 /\ created' = created + 1 /\ accepting' = created + 1 /\ fault' = fault
              \/ /\ Take(CutOff) /\ ~started
                 /\ UNCHANGED <<connected, sessions, created, accepting, fault>>
<1>1. posted' = Tail(posted) /\ UNCHANGED <<app, calls, io, serving, started, serverless>>
  BY DEF AcceptedHandler, appVars
<1>2. \/ /\ Take(Came)
         /\ sessions' = sessions \cup {created}
         /\ \/ /\ created \in serverless
               /\ fault' = TRUE
               /\ UNCHANGED <<connected, created, accepting>>
            \/ /\ created \notin serverless
               /\ connected' = connected \cup {created}
               /\ Accept(started)
               /\ UNCHANGED fault
      \/ /\ Take(CutOff) /\ Accept(started)
         /\ UNCHANGED <<connected, sessions, fault>>
  BY Zenon DEF AcceptedHandler, Came, CutOff, sessionVars
<1>3. Accept(started) => IF started THEN created' = created + 1 /\ accepting' = created + 1
                                    ELSE UNCHANGED <<created, accepting>>
  BY Zenon DEF Accept
<1>4. CASE Take(Came)
  <2>1. created \in serverless \/ started
    BY <1>1, <1>4, AcceptedFirst DEF AcceptOps
  <2>2. ~Take(CutOff)
    BY <1>4, HandlersDiffer DEF Take
  <2> QED  BY <1>1, <1>2, <1>3, <1>4, <2>1, <2>2
<1>5. CASE Take(CutOff)
  <2>1. ~started
    BY <1>1, <1>5, AcceptedFirst DEF AcceptOps
  <2>2. ~Take(Came)
    BY <1>5, HandlersDiffer DEF Take
  <2> QED  BY <1>1, <1>2, <1>3, <1>5, <2>1, <2>2
<1> QED
  BY <1>2, <1>4, <1>5

LEMMA AcceptedHandlerStep == ASSUME ServerInv, AcceptedHandler PROVE ServerInv'
<1>1. posted' = Tail(posted) /\ UNCHANGED <<app, calls, io, serving, started, serverless>>
  BY AcceptedOutcome
<1>2. PICK h \in AcceptOps : Take(h)
  BY AcceptedOutcome DEF AcceptOps
<1>3. /\ accepting = 0 /\ created >= 1
      /\ \A i \in DOMAIN posted' : posted'[i] \notin AcceptOps
      /\ \A s : h # Closed(s)
  BY <1>1, <1>2, AcceptedFirst, HandlersDiffer
<1>4. posted' \in Seq(Handlers) /\ Order'
  BY <1>1, <1>2, Behind, OrderTaken
<1>5. created \in Nat /\ MaxSessions \in Nat /\ created \in 0..MaxSessions /\ created \in Ids
  BY <1>3, ServerAssumption DEF ServerInv, TypeOK, Ids
<1>6. serverless \subseteq 1..created /\ sessions \subseteq 1..created /\ connected \subseteq sessions
  BY DEF ServerInv, Numbers
<1>7. CASE /\ Take(Came) /\ created \in serverless
           /\ sessions' = sessions \cup {created} /\ fault' = TRUE
           /\ UNCHANGED <<connected, created, accepting>>
  <2>1. TypeOK'
    BY <1>1, <1>4, <1>5, <1>7 DEF ServerInv, TypeOK
  <2>2. Chain'
    BY <1>1, <1>3, <1>7 DEF Chain
  <2>3. Numbers'
    <3>1. ~started
      BY <1>7 DEF ServerInv, Numbers
    <3>2. sessions' \subseteq 1..created
      BY <1>3, <1>5, <1>6, <1>7
    <3>3. connected' \subseteq sessions'
      BY <1>6, <1>7
    <3> QED  BY <1>1, <1>3, <1>6, <1>7, <3>1, <3>2, <3>3 DEF Numbers
  <2>4. Drain'
    BY <1>1, <1>3, <1>2, <1>7, DrainTaken
  <2>5. Budget'
    BY <1>1, <1>7, BudgetTaken
  <2> QED  BY <1>4, <2>1, <2>2, <2>3, <2>4, <2>5 DEF ServerInv
<1>8. CASE /\ Take(Came) /\ created \notin serverless /\ started
           /\ sessions' = sessions \cup {created} /\ connected' = connected \cup {created}
           /\ created' = created + 1 /\ accepting' = created + 1 /\ fault' = fault
  <2>1. Budget'
    BY <1>1, <1>8, BudgetTaken
  <2>2. created' \in 0..MaxSessions
    <3>1. Cardinality(Makers(posted')) \in Nat
      BY <1>4, PlacesFinite DEF Makers
    <3> QED  BY <1>5, <1>8, <2>1, <3>1 DEF Budget
  <2>3. TypeOK'
    BY <1>1, <1>4, <1>5, <1>8, <2>2 DEF ServerInv, TypeOK
  <2>4. Chain'
    BY <1>1, <1>3, <1>5, <1>8 DEF Chain
  <2>5. Numbers'
    <3>1. created' >= 1 /\ created' \notin 1..created /\ 1..created \subseteq 1..created' /\ created \in 1..created
      BY <1>3, <1>5, <1>8
    <3>2. created' # created
      BY <3>1
    <3> QED  BY <1>1, <1>3, <1>6, <1>8, <3>1, <3>2 DEF Numbers
  <2>6. Drain'
    BY <1>1, <1>8 DEF Drain
  <2> QED  BY <1>4, <2>1, <2>3, <2>4, <2>5, <2>6 DEF ServerInv
<1>9. CASE /\ Take(CutOff) /\ ~started
           /\ UNCHANGED <<connected, sessions, created, accepting, fault>>
  <2>1. TypeOK'
    BY <1>1, <1>4, <1>9 DEF ServerInv, TypeOK
  <2>2. Chain'
    BY <1>1, <1>3, <1>9 DEF Chain
  <2>3. Numbers'
    BY <1>1, <1>6, <1>9, NumbersTaken
  <2>4. Drain'
    BY <1>1, <1>2, <1>3, <1>9, DrainTaken
  <2>5. Budget'
    BY <1>1, <1>9, BudgetTaken
  <2> QED  BY <1>4, <2>1, <2>2, <2>3, <2>4, <2>5 DEF ServerInv
<1> QED
  BY <1>7, <1>8, <1>9, AcceptedOutcome

\* What a stop leaves in the queue: what was behind it, the end of the pending
\* accept, and a disconnect for every session.
LEMMA StopLeaves ==
    ASSUME ServerInv, Take(Stop), started, StopHandler
    PROVE  \E n, m \in Nat :
             /\ n <= m /\ DOMAIN posted' = 1..m /\ posted' \in Seq(Handlers)
             /\ n + 1 = Len(posted)
             /\ \A i \in 1..n : i + 1 \in DOMAIN posted /\ posted'[i] = posted[i + 1]
             /\ \A i \in 1..m : i > n => \/ posted'[i] = CutOff /\ accepting # 0 /\ i = n + 1
                                         \/ \E s \in sessions : posted'[i] = Closed(s)
             /\ \A s \in sessions : \E i \in 1..m : posted'[i] = Closed(s)
<1> DEFINE cut == IF accepting # 0 THEN <<CutOff>> ELSE <<>>
           k == Cardinality(sessions)
           close == [i \in 1..k |-> Closed(SetToSeq(sessions)[i])]
           t == Tail(posted)
<1>1. posted' = (t \o cut) \o close
  BY DEF StopHandler, CutOff
<1>2. sessions \subseteq Ids /\ sessions \subseteq 1..created /\ created \in Nat /\ posted \in Seq(Handlers)
  BY ServerAssumption DEF ServerInv, TypeOK, Numbers
<1>3. IsFiniteSet(sessions)
  <2>1. IsFiniteSet(1..created)
    BY <1>2, FS_Interval
  <2> QED  BY <1>2, <2>1, FS_Subset
<1>4. /\ k \in Nat
      /\ \A i \in 1..k : SetToSeq(sessions)[i] \in sessions
      /\ \A s \in sessions : \E i \in 1..k : SetToSeq(sessions)[i] = s
  BY <1>3, Listing
<1>5. \A i \in 1..k : Closed(SetToSeq(sessions)[i]) \in Handlers
  BY <1>2, <1>4, HandlersAre
<1>6. close \in [1..k -> Handlers]
  BY <1>5
<1>7. close \in Seq(Handlers) /\ Len(close) = k
  <2>1. close \in Seq(Handlers)
    BY <1>4, <1>6, SeqDef
  <2>2. Len(close) \in Nat /\ DOMAIN close = 1..Len(close)
    BY <2>1, LenProperties
  <2>3. DOMAIN close = 1..k
    BY <1>6
  <2> QED  BY <1>4, <2>1, <2>2, <2>3
<1>8. /\ t \in Seq(Handlers) /\ Len(posted) \in Nat \ {0} /\ Len(t) = Len(posted) - 1
      /\ DOMAIN posted = 1..Len(posted)
      /\ \A i \in 1..(Len(posted) - 1) : t[i] = posted[i + 1]
  <2>1. posted # <<>>
    BY DEF Take
  <2> QED  BY <1>2, <2>1, Taken
<1>9. /\ cut \in Seq(Handlers) /\ Len(cut) \in {0, 1}
      /\ \A i \in 1..Len(cut) : cut[i] = CutOff /\ accepting # 0
  <2>1. CASE accepting # 0
    <3>1. <<CutOff>> \in Seq(Handlers) /\ Len(<<CutOff>>) = 1 /\ <<CutOff>>[1] = CutOff
      BY HandlersAre
    <3> QED  BY <2>1, <3>1
  <2>2. CASE accepting = 0
    <3>1. <<>> \in Seq(Handlers) /\ Len(<<>>) = 0
      BY EmptySeq
    <3> QED  BY <2>2, <3>1
  <2> QED  BY <2>1, <2>2
<1>10. \A i \in 1..k : \E s \in sessions : close[i] = Closed(s)
  BY <1>4
<1>11. \A s \in sessions : \E i \in 1..k : close[i] = Closed(s)
  BY <1>4
<1> HIDE DEF cut, k, close, t
<1> DEFINE u == t \o cut
           n == Len(t)
           c == Len(cut)
           m == n + c + k
<1>12. /\ u \in Seq(Handlers) /\ Len(u) = n + c /\ n \in Nat /\ c \in Nat
       /\ \A i \in 1..(n + c) : u[i] = IF i <= n THEN t[i] ELSE cut[i - n]
  BY <1>8, <1>9, ConcatProperties, LenProperties
<1> HIDE DEF u
<1>13. /\ u \o close \in Seq(Handlers) /\ Len(u \o close) = m
       /\ \A i \in 1..m : (u \o close)[i] = IF i <= n + c THEN u[i] ELSE close[i - (n + c)]
  BY <1>7, <1>12, ConcatProperties
<1>14. posted' = u \o close
  BY <1>1 DEF u
<1>15. posted' \in Seq(Handlers) /\ DOMAIN posted' = 1..m /\ m \in Nat /\ n <= m
  BY <1>4, <1>12, <1>13, <1>14, LenProperties
<1>16. n + 1 = Len(posted) /\ \A i \in 1..n : i + 1 \in DOMAIN posted /\ posted'[i] = posted[i + 1]
  BY <1>4, <1>8, <1>12, <1>13, <1>14
<1>17. ASSUME NEW i \in 1..m, i > n
       PROVE  \/ posted'[i] = CutOff /\ accepting # 0 /\ i = n + 1
              \/ \E s \in sessions : posted'[i] = Closed(s)
  <2>1. CASE i <= n + c
    <3>1. i - n \in 1..c /\ i = n + 1
      BY <1>9, <1>12, <1>17, <2>1
    <3>2. posted'[i] = cut[i - n]
      BY <1>4, <1>12, <1>13, <1>14, <1>17, <2>1
    <3> QED  BY <1>9, <3>1, <3>2
  <2>2. CASE i > n + c
    <3>1. i - (n + c) \in 1..k /\ posted'[i] = close[i - (n + c)]
      BY <1>4, <1>12, <1>13, <1>14, <1>17, <2>2
    <3> QED  BY <1>10, <3>1
  <2> QED  BY <1>12, <1>17, <2>1, <2>2
<1>18. ASSUME NEW s \in sessions  PROVE \E i \in 1..m : posted'[i] = Closed(s)
  <2>1. PICK i \in 1..k : close[i] = Closed(s)
    BY <1>11
  <2>2. i + (n + c) \in 1..m /\ ~(i + (n + c) <= n + c) /\ (i + (n + c)) - (n + c) = i
    BY <1>4, <1>12
  <2>3. posted'[i + (n + c)] = close[i]
    BY <1>13, <1>14, <2>2
  <2> QED  BY <2>1, <2>2, <2>3
<1> HIDE DEF n, m
<1>19. n \in Nat
  BY <1>12 DEF n
<1> QED
  BY <1>15, <1>16, <1>17, <1>18, <1>19

LEMMA StopHandlerStep == ASSUME ServerInv, StopHandler PROVE ServerInv'
<1>1. /\ Take(Stop) /\ UNCHANGED <<app, calls, io, serving, created, connected, sessions, fault>>
  BY DEF StopHandler, appVars, sessionVars, serverVars
<1>2. CASE ~started
  <2>1. posted' = Tail(posted) /\ UNCHANGED <<started, accepting, serverless>>
    BY <1>2 DEF StopHandler, serverVars
  <2>2. Stop \notin AcceptOps /\ \A s : Stop # Closed(s)
    BY HandlersDiffer
  <2>3. TypeOK'
    BY <1>1, <2>1, Behind DEF ServerInv, TypeOK
  <2>4. Order' /\ Chain'
    BY <1>1, <2>1, <2>2, OrderTaken, ChainTaken
  <2>5. Numbers'
    <3>1. connected \subseteq sessions
      BY DEF ServerInv, Numbers
    <3> QED  BY <1>1, <2>1, <3>1, NumbersTaken
  <2>6. Drain' /\ Budget'
    BY <1>1, <2>1, <2>2, DrainTaken, BudgetTaken
  <2> QED  BY <2>3, <2>4, <2>5, <2>6 DEF ServerInv
<1>3. CASE started
  <2>1. accepting' = 0 /\ serverless' = serverless \cup {created} /\ started' = FALSE
    BY <1>3 DEF StopHandler
  <2>2. PICK n, m \in Nat :
          /\ n <= m /\ DOMAIN posted' = 1..m /\ posted' \in Seq(Handlers)
          /\ n + 1 = Len(posted)
          /\ \A i \in 1..n : i + 1 \in DOMAIN posted /\ posted'[i] = posted[i + 1]
          /\ \A i \in 1..m : i > n => \/ posted'[i] = CutOff /\ accepting # 0 /\ i = n + 1
                                      \/ \E s \in sessions : posted'[i] = Closed(s)
          /\ \A s \in sessions : \E i \in 1..m : posted'[i] = Closed(s)
    BY <1>1, <1>3, StopLeaves
  <2>3. posted \in Seq(Handlers) /\ posted # <<>> /\ posted[1] = Stop /\ 1 \in DOMAIN posted
    <3>1. posted \in Seq(Handlers) /\ posted # <<>> /\ Head(posted) = Stop
      BY <1>1 DEF ServerInv, TypeOK, Take
    <3> QED  BY <3>1, Taken
  <2>4. Handlers # {} /\ created \in Nat /\ created >= 1 /\ created \in Ids
    BY <1>3, ServerAssumption, HandlersAre DEF ServerInv, TypeOK, Numbers, Ids
  <2>5. \A i \in 1..n : i \in DOMAIN posted' /\ 1 < i + 1
    BY <2>2
  <2>6. \A i \in DOMAIN posted' : posted'[i] # Start
    <3>1. \A i \in 1..n : posted'[i] # Start
      BY <1>3, <2>2, <2>3, <2>5 DEF ServerInv, Order
    <3>2. \A i \in 1..m : i > n => posted'[i] # Start
      BY <2>2, HandlersDiffer DEF AcceptOps
    <3>3. \A i \in DOMAIN posted' : i \in 1..n \/ i > n
      BY <2>2
    <3> QED  BY <2>2, <3>1, <3>2, <3>3
  <2>7. TypeOK'
    BY <1>1, <2>1, <2>2, <2>4 DEF ServerInv, TypeOK
  <2>8. Order'
    BY <2>1, <2>6 DEF Order
  <2>9. Chain'
    <3>1. \A i \in DOMAIN posted' : posted'[i] \in AcceptOps =>
            \/ accepting = 0 /\ i \in 1..n
            \/ accepting # 0 /\ i = n + 1
      <4>1. \A i \in 1..n : posted'[i] \in AcceptOps => accepting = 0
        BY <2>2 DEF ServerInv, Chain
      <4>2. \A i \in 1..m : i > n /\ posted'[i] \in AcceptOps => accepting # 0 /\ i = n + 1
        BY <2>2, HandlersDiffer
      <4>3. \A i \in DOMAIN posted' : i \in 1..m /\ (i \in 1..n \/ i > n)
        BY <2>2
      <4> QED  BY <4>1, <4>2, <4>3
    <3>2. \A i, j \in 1..n : posted'[i] \in AcceptOps /\ posted'[j] \in AcceptOps => i = j
      <4>1. \A i, j \in 1..n : i + 1 = j + 1 => i = j
        OBVIOUS
      <4> QED  BY <2>2, <4>1 DEF ServerInv, Chain
    <3> QED  BY <2>1, <3>1, <3>2 DEF Chain
  <2>10. Numbers'
    <3>1. serverless \subseteq 1..created /\ sessions \subseteq 1..created /\ connected \subseteq sessions
      BY DEF ServerInv, Numbers
    <3>2. serverless' \subseteq 1..created
      BY <2>1, <2>4, <3>1
    <3> QED  BY <1>1, <2>1, <2>4, <3>1, <3>2 DEF Numbers
  <2>11. Drain'
    <3> SUFFICES ASSUME NEW s \in connected'
                 PROVE  \E i \in DOMAIN posted' :
                           posted'[i] = Closed(s) /\ \A j \in 1..(i - 1) : posted'[j] # Start
      BY DEF Drain
    <3>1. s \in sessions
      BY <1>1 DEF ServerInv, Numbers
    <3>2. PICK i \in 1..m : posted'[i] = Closed(s)
      BY <2>2, <3>1
    <3>3. \A j \in 1..(i - 1) : j \in 1..m
      BY <3>2
    <3> QED  BY <2>2, <2>6, <3>2, <3>3
  <2>12. Budget'
    <3>1. Makers(posted') = Makers(Tail(posted))
      <4>1. /\ Len(posted) \in Nat /\ DOMAIN Tail(posted) = 1..n
            /\ \A i \in 1..n : Tail(posted)[i] = posted'[i]
        BY <2>2, <2>3, Taken
      <4>2. \A i \in 1..m : i > n => posted'[i] \notin {Start, Came}
        BY <2>2, HandlersDiffer DEF AcceptOps
      <4>3. \A i \in 1..m : i \in 1..n \/ i > n
        OBVIOUS
      <4>4. 1..n \subseteq 1..m
        BY <2>2
      <4> QED  BY <2>2, <4>1, <4>2, <4>3, <4>4 DEF Makers
    <3>2. Stop \notin {Start, Came}
      BY HandlersDiffer DEF AcceptOps
    <3>3. Cardinality(Makers(Tail(posted))) = Cardinality(Makers(posted)) - 0
      BY <2>3, <3>2, MakersTaken
    <3>4. Cardinality(Makers(posted)) \in Nat
      BY <2>3, PlacesFinite DEF Makers
    <3> QED  BY <1>1, <3>1, <3>3, <3>4 DEF ServerInv, Budget
  <2> QED  BY <2>7, <2>8, <2>9, <2>10, <2>11, <2>12 DEF ServerInv
<1> QED
  BY <1>2, <1>3

-----------------------------------------------------------------------------
(* The theorems *)

LEMMA InitInv == Init => ServerInv
<1> SUFFICES ASSUME Init  PROVE ServerInv
  OBVIOUS
<1>1. posted = <<>> /\ posted \in Seq(Handlers) /\ DOMAIN posted = {}
  BY EmptySeq DEF Init
<1>2. Makers(posted) = {} /\ Cardinality(Makers(posted)) = 0
  BY <1>1, FS_EmptySet DEF Makers
<1>3. TypeOK
  <2>1. 0 \in 0..MaxCalls /\ 0 \in 0..MaxSessions
    BY ServerAssumption
  <2> QED  BY <1>1, <2>1 DEF Init, TypeOK
<1>4. Order /\ Chain /\ Numbers /\ Drain
  BY <1>1 DEF Init, Order, Chain, Numbers, Drain
<1>5. Budget
  BY <1>2, ServerAssumption DEF Init, Budget
<1> QED
  BY <1>3, <1>4, <1>5 DEF ServerInv

LEMMA NextInv == ServerInv /\ [Next]_vars => ServerInv'
<1> SUFFICES ASSUME ServerInv, [Next]_vars  PROVE ServerInv'
  OBVIOUS
<1>1. CASE CallStart \/ CallStop \/ CallRestart \/ CallServiceStop \/ RestartStopped
  BY <1>1, CallsStep
<1>2. CASE Joined \/ ServiceStopped
  BY <1>2, WaitingStep
<1>3. CASE ClientConnects
  BY <1>3, ClientConnectsStep
<1>4. CASE \E s \in Ids : ClientLeaves(s)
  BY <1>4, ClientLeavesStep
<1>5. CASE StartHandler
  BY <1>5, StartHandlerStep
<1>6. CASE StopHandler
  BY <1>6, StopHandlerStep
<1>7. CASE AcceptedHandler
  BY <1>7, AcceptedHandlerStep
<1>8. CASE ServiceStopHandler
  BY <1>8, ServiceStopHandlerStep
<1>9. CASE \E s \in Ids : ClosedHandler(s)
  BY <1>9, ClosedHandlerStep
<1>10. CASE UNCHANGED vars
  BY <1>10 DEF vars, ServerInv, TypeOK, Order, Chain, Numbers, Budget, Drain
<1>11. CASE Blocks \/ Released
  BY <1>11, BlockedStep
<1> QED
  BY <1>1, <1>2, <1>3, <1>4, <1>5, <1>6, <1>7, <1>8, <1>9, <1>10, <1>11 DEF Next, AppStep, Handler

LEMMA Invariant == Spec => []ServerInv
  BY InitInv, NextInv, PTL DEF Spec

\* The state has its type; the sessions created stay within their bound,
\* whatever order starts, restarts and accepts are handled in.
THEOREM TypeCorrect == Spec => []TypeOK
<1>1. ServerInv => TypeOK
  BY DEF ServerInv
<1> QED
  BY <1>1, Invariant, PTL

\* At most one place of the queue completes an accept.
LEMMA ChainIsOne == ASSUME ServerInv PROVE OneAcceptChain
<1>1. \A i \in DOMAIN posted : posted[i] \in Handlers
  <2>1. posted \in Seq(Handlers)
    BY DEF ServerInv, TypeOK
  <2> QED  BY <2>1, LenProperties
<1>2. Accepts = {i \in DOMAIN posted : posted[i] \in AcceptOps}
  BY <1>1, KindOf DEF Accepts
<1>3. CASE Accepts = {}
  <2>1. Cardinality(Accepts) = 0
    BY <1>3, FS_EmptySet
  <2>2. started /\ ~fault => accepting # 0
    BY <1>2, <1>3 DEF ServerInv, Chain
  <2> QED  BY <2>1, <2>2 DEF OneAcceptChain
<1>4. CASE Accepts # {}
  <2>1. \A i, j \in Accepts : i = j
    BY <1>2 DEF ServerInv, Chain
  <2>2. PICK i : Accepts = {i}
    BY <1>4, <2>1
  <2>3. Cardinality(Accepts) = 1
    BY <2>2, FS_Singleton
  <2>4. accepting = 0
    BY <1>2, <1>4 DEF ServerInv, Chain
  <2> QED  BY <2>3, <2>4 DEF OneAcceptChain
<1> QED
  BY <1>3, <1>4

\* A server that is started has one accept, pending or just completed; a server
\* that is stopped has at most the completion of its last one.
THEOREM OneChain == Spec => []OneAcceptChain
  BY ChainIsOne, Invariant, PTL

\* The server implements Listener: it comes up without connections, and a
\* session connects only while it is up.
THEOREM Refinement == Spec => ImplementsListener
<1>1. Init => L!Init
  BY DEF Init, L!Init
<1>2. ServerInv /\ [Next]_vars => [L!Next]_L!vars
  <2> SUFFICES ASSUME ServerInv, [Next]_vars  PROVE L!Next \/ UNCHANGED <<started, connected>>
    BY DEF L!vars
  <2>1. CASE StartHandler
    <3>1. Take(Start) /\ posted' = Tail(posted) /\ connected' = connected
      BY <2>1 DEF StartHandler, sessionVars
    <3>2. started' = started \/ (~started /\ started' = TRUE)
      BY <2>1 DEF StartHandler
    <3>3. ~started => connected = {}
      BY <3>1, StartFirst
    <3> QED  BY <3>1, <3>2, <3>3 DEF L!Next, L!ComeUp
  <2>2. CASE StopHandler
    <3>1. connected' = connected
      BY <2>2 DEF StopHandler, sessionVars
    <3>2. started' = started \/ (started /\ started' = FALSE)
      <4>1. CASE started
        BY <2>2, <4>1 DEF StopHandler
      <4>2. CASE ~started
        BY <2>2, <4>2 DEF StopHandler, serverVars
      <4> QED  BY <4>1, <4>2
    <3> QED  BY <3>1, <3>2 DEF L!Next, L!GoDown
  <2>3. CASE AcceptedHandler
    <3>1. \/ UNCHANGED <<started, connected>>
          \/ started /\ started' = started /\ connected' = connected \cup {created}
      BY <2>3, AcceptedOutcome
    <3>2. started => created \in Ids /\ created \notin connected
      BY ServerAssumption DEF ServerInv, Numbers, TypeOK, Ids
    <3> QED  BY <3>1, <3>2 DEF L!Next, L!Connect
  <2>4. ASSUME NEW s \in Ids, ClosedHandler(s)
        PROVE  L!Next \/ UNCHANGED <<started, connected>>
    <3>1. connected' = connected \ {s} /\ started' = started
      BY <2>4 DEF ClosedHandler, serverVars
    <3>2. s \notin connected => connected' = connected
      BY <3>1
    <3> QED  BY <3>1, <3>2 DEF L!Next, L!Disconnect
  <2>5. CASE CallStart \/ CallStop \/ CallRestart \/ CallServiceStop \/ AppStep
    BY <2>5 DEF CallStart, CallStop, CallRestart, CallServiceStop, AppStep, RestartStopped, Joined,
                ServiceStopped, serverVars, sessionVars
  <2>6. CASE \/ ClientConnects \/ ServiceStopHandler \/ Blocks \/ Released
             \/ \E s \in Ids : ClientLeaves(s)
    BY <2>6 DEF ClientConnects, ServiceStopHandler, Blocks, Released, ClientLeaves, serverVars, sessionVars
  <2>7. CASE UNCHANGED vars
    BY <2>7 DEF vars
  <2> QED
    BY <2>1, <2>2, <2>3, <2>4, <2>5, <2>6, <2>7 DEF Next, Handler
<1> QED
  BY <1>1, <1>2, Invariant, PTL DEF Spec, ImplementsListener, L!Spec

=============================================================================
