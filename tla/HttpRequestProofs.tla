-------------------------- MODULE HttpRequestProofs --------------------------
(***************************************************************************)
(* Theorems about HttpRequest, for every number of messages and every way  *)
(* to cut them into chunks: no byte is used twice, and while no chunk ends *)
(* inside the end of a header or runs past a message, the requests handed  *)
(* on are the messages, none missing.                                      *)
(***************************************************************************)
EXTENDS HttpRequest, Integers, SequenceTheorems, WellFoundedInduction, TLAPS

-----------------------------------------------------------------------------
(* The inductive invariant *)

Octets == {"r", "n", "x"}

Requests == [len : Nat, cacheSize : Nat, bodyIndex : Nat, bodySize : Nat, bodyLength : Nat,
             provided : BOOLEAN, bodyless : BOOLEAN, error : BOOLEAN]

RequestTypes ==
    /\ messages \in Seq(MessageKinds)
    /\ received \in Nat /\ received <= Len(Stream)
    /\ from \in Nat /\ from <= received
    /\ request \in Requests /\ ~request.error
    /\ request.len = received - from
    /\ request.cacheSize <= request.len
    /\ request.bodyIndex + request.bodySize <= request.len
    /\ open \in BOOLEAN /\ split \in BOOLEAN /\ overran \in BOOLEAN
    /\ handled \in Seq([from : Nat, bodyFrom : Nat, size : Nat, last : Nat, cut : BOOLEAN])

\* What was handed on lies before the cache.
Behind == \A k \in DOMAIN handled : handled[k].last <= from

\* The request after d bytes of a message of kind k: of its header there is the
\* first byte at most, or it was all found and the body is waited for.
Waiting(d) == [Cleared EXCEPT !.len = d, !.cacheSize = d]

Reading(k, d) ==
    [len |-> d, cacheSize |-> d, bodyIndex |-> 5, bodySize |-> d - 5,
     bodyLength |-> IF Kinds[k].declared THEN Len(Kinds[k].body) ELSE 0,
     provided |-> Kinds[k].declared, bodyless |-> Kinds[k].bodyless, error |-> FALSE]

ExactRequests ==
    \A k \in DOMAIN handled :
      /\ k \in DOMAIN messages
      /\ handled[k].from = StartOf(k)
      /\ handled[k].bodyFrom = HeaderOf(k)
      /\ Valid(k)
      /\ ~handled[k].cut => handled[k].size = Len(Kinds[messages[k]].body)
      /\ handled[k].cut => k = Len(handled) /\ handled[k].last < EndOf(k)

\* Of an open session: the cache begins where the next message does, and the
\* request is what has come of that message.
AtMessage ==
    /\ \A k \in DOMAIN handled : ~handled[k].cut
    /\ Len(handled) <= Len(messages)
    /\ from = Len(FirstBytes(messages)[Len(handled)])
    /\ Len(handled) = Len(messages) => received = from
    /\ \A m \in DOMAIN messages : m = Len(handled) + 1 =>
         LET d == received - from
         IN  /\ received < EndOf(m)
             /\ \/ d \in {0, 1} /\ request = Waiting(d)
                \/ d >= 5 /\ Valid(m) /\ request = Reading(messages[m], d)

InStep == ~split /\ ~overran => ExactRequests /\ (open => AtMessage)

RequestInv == RequestTypes /\ Behind /\ RequestsDisjoint /\ InStep

-----------------------------------------------------------------------------
(* The stream of messages *)

LEMMA LeastNumber ==
    ASSUME NEW T \in SUBSET Nat, T # {}
    PROVE  \E x \in T : \A y \in T : x <= y
<1> DEFINE R == OpToRel(<, Nat)
<1>1. IsWellFoundedOn(R, Nat)
  BY NatLessThanWellFounded
<1>2. \A x, y \in Nat : <<x, y>> \in R <=> x < y
  BY DEF OpToRel
<1> HIDE DEF R
<1>3. T \subseteq Nat
  OBVIOUS
<1>4. \E x \in T : \A y \in T : ~(<<y, x>> \in R)
  BY <1>1, <1>3, WFMin
<1>5. \A x, y \in T : ~(<<y, x>> \in R) => x <= y
  BY <1>2, <1>3
<1> QED
  BY <1>4, <1>5

\* One sequence behind another.
LEMMA Joined ==
    ASSUME NEW S, NEW s \in Seq(S), NEW t \in Seq(S)
    PROVE  /\ s \o t \in Seq(S)
           /\ Len(s) \in Nat /\ Len(t) \in Nat /\ Len(s \o t) = Len(s) + Len(t)
           /\ \A i \in 1..Len(s) : (s \o t)[i] = s[i]
           /\ \A i \in 1..Len(t) : (s \o t)[Len(s) + i] = t[i]
  OBVIOUS

\* Every header is a byte and the empty line; only a body that nothing else
\* delimits ends with an empty line.
LEMMA KindFacts ==
    ASSUME NEW k \in DOMAIN Kinds
    PROVE  LET h == Kinds[k].header
               b == Kinds[k].body
           IN  /\ {Kinds[k].valid, Kinds[k].declared, Kinds[k].bodyless} \subseteq BOOLEAN
               /\ h \in Seq(Octets) /\ Len(h) = 5
               /\ h[1] = "x" /\ h[2] = "r" /\ h[3] = "n" /\ h[4] = "r" /\ h[5] = "n"
               /\ b \in Seq(Octets)
               /\ Kinds[k].bodyless => ~Kinds[k].declared /\ Len(b) = 0
               /\ ~Kinds[k].bodyless /\ ~Kinds[k].declared =>
                    /\ Len(b) = 5
                    /\ b[1] = "x" /\ b[2] = "r" /\ b[3] = "n" /\ b[4] = "r" /\ b[5] = "n"
<1> DEFINE e == <<"x">> \o HeaderEnd
<1>1. /\ e \in Seq(Octets) /\ Len(e) = 5
      /\ e[1] = "x" /\ e[2] = "r" /\ e[3] = "n" /\ e[4] = "r" /\ e[5] = "n"
  BY DEF HeaderEnd, Octets
<1>2. <<>> \in Seq(Octets) /\ Len(<<>>) = 0
  OBVIOUS
<1>3. <<"x", "x">> \in Seq(Octets)
  BY DEF Octets
<1>4. DOMAIN Kinds = {"get", "post", "text", "bad"}
  BY DEF Kinds
<1>5. /\ Kinds["get"].header = e /\ Kinds["get"].body = <<>>
      /\ Kinds["get"].bodyless = TRUE /\ Kinds["get"].declared = FALSE /\ Kinds["get"].valid = TRUE
  BY DEF Kinds
<1>6. /\ Kinds["post"].header = e /\ Kinds["post"].body = <<"x", "x">>
      /\ Kinds["post"].bodyless = FALSE /\ Kinds["post"].declared = TRUE /\ Kinds["post"].valid = TRUE
  BY DEF Kinds
<1>7. /\ Kinds["text"].header = e /\ Kinds["text"].body = e
      /\ Kinds["text"].bodyless = FALSE /\ Kinds["text"].declared = FALSE /\ Kinds["text"].valid = TRUE
  BY DEF Kinds
<1>8. /\ Kinds["bad"].header = e /\ Kinds["bad"].body = <<>>
      /\ Kinds["bad"].bodyless = TRUE /\ Kinds["bad"].declared = FALSE /\ Kinds["bad"].valid = FALSE
  BY DEF Kinds
<1> HIDE DEF e
<1>9. k \in {"get", "post", "text", "bad"}
  BY <1>4
<1>10. CASE k = "get"
  BY <1>1, <1>2, <1>5, <1>10
<1>11. CASE k = "post"
  BY <1>1, <1>3, <1>6, <1>11
<1>12. CASE k = "text"
  BY <1>1, <1>7, <1>12
<1>13. CASE k = "bad"
  BY <1>1, <1>2, <1>8, <1>13
<1> QED
  BY <1>9, <1>10, <1>11, <1>12, <1>13

\* A message is its header and its body.
LEMMA BytesFacts ==
    ASSUME NEW k \in DOMAIN Kinds
    PROVE  /\ Bytes(k) \in Seq(Octets)
           /\ Len(Kinds[k].body) \in Nat /\ Len(Bytes(k)) = 5 + Len(Kinds[k].body)
           /\ \A i \in 1..5 : Bytes(k)[i] = Kinds[k].header[i]
           /\ \A i \in 1..Len(Kinds[k].body) : Bytes(k)[5 + i] = Kinds[k].body[i]
<1> DEFINE h == Kinds[k].header
           b == Kinds[k].body
<1>1. h \in Seq(Octets) /\ Len(h) = 5 /\ b \in Seq(Octets)
  BY KindFacts
<1>2. Bytes(k) = h \o b
  BY DEF Bytes
<1> HIDE DEF h, b
<1>3. /\ h \o b \in Seq(Octets) /\ Len(b) \in Nat /\ Len(h \o b) = Len(h) + Len(b)
      /\ \A i \in 1..Len(h) : (h \o b)[i] = h[i]
      /\ \A i \in 1..Len(b) : (h \o b)[Len(h) + i] = b[i]
  <2>1. \A s, t \in Seq(Octets) :
          /\ s \o t \in Seq(Octets) /\ Len(t) \in Nat /\ Len(s \o t) = Len(s) + Len(t)
          /\ \A i \in 1..Len(s) : (s \o t)[i] = s[i]
          /\ \A i \in 1..Len(t) : (s \o t)[Len(s) + i] = t[i]
    BY Joined
  <2> QED  BY <1>1, <2>1
<1> QED
  BY <1>1, <1>2, <1>3 DEF h, b

\* The bytes of the first messages are well defined, by induction on their
\* number.
LEMMA FirstBytesAre ==
    ASSUME NEW ms \in Seq(DOMAIN Kinds)
    PROVE  /\ FirstBytes(ms)[0] = <<>>
           /\ \A m \in 1..Len(ms) : FirstBytes(ms)[m] = FirstBytes(ms)[m - 1] \o Bytes(ms[m])
           /\ \A m \in 0..Len(ms) : FirstBytes(ms)[m] \in Seq(Octets)
<1> DEFINE n == Len(ms)
           UpTo(g, k) == /\ g \in [0..k -> Seq(Octets)] /\ g[0] = <<>>
                         /\ \A m \in 1..k : g[m] = g[m - 1] \o Bytes(ms[m])
           Step(g) == [m \in 0..n |-> IF m = 0 THEN <<>> ELSE g[m - 1] \o Bytes(ms[m])]
           Bad == {k \in 0..n : ~\E g : UpTo(g, k)}
<1>1. n \in Nat /\ \A m \in 1..n : ms[m] \in DOMAIN Kinds /\ Bytes(ms[m]) \in Seq(Octets)
  BY BytesFacts
<1> HIDE DEF n, UpTo
<1>2. Bad = {}
  <2> SUFFICES ASSUME Bad # {}  PROVE FALSE
    OBVIOUS
  <2>1. Bad \in SUBSET Nat
    BY <1>1
  <2>2. PICK k \in Bad : \A j \in Bad : k <= j
    BY <2>1, LeastNumber
  <2>3. k \in 0..n
    OBVIOUS
  <2>4. CASE k = 0
    <3>1. UpTo([m \in 0..0 |-> <<>>], 0)
      BY DEF UpTo
    <3> QED  BY <2>4, <3>1
  <2>5. CASE k # 0
    <3>1. k - 1 \in 0..n /\ k - 1 \notin Bad
      <4> HIDE DEF Bad
      <4>1. k - 1 \in 0..n /\ ~(k <= k - 1)
        BY <1>1, <2>3, <2>5
      <4> QED  BY <2>2, <4>1
    <3>2. PICK g : UpTo(g, k - 1)
      BY <3>1
    <3> DEFINE f == [m \in 0..k |-> IF m = k THEN g[k - 1] \o Bytes(ms[k]) ELSE g[m]]
    <3>3. k \in 1..n /\ Bytes(ms[k]) \in Seq(Octets) /\ g[k - 1] \in Seq(Octets)
      BY <1>1, <2>3, <2>5, <3>2 DEF UpTo
    <3>4. \A m \in 0..(k - 1) : g[m] \in Seq(Octets)
      BY <3>2 DEF UpTo
    <3>5. f \in [0..k -> Seq(Octets)]
      <4>1. g[k - 1] \o Bytes(ms[k]) \in Seq(Octets)
        BY <3>3
      <4>2. \A m \in 0..k : m = k \/ m \in 0..(k - 1)
        BY <3>3
      <4> QED  BY <3>4, <4>1, <4>2
    <3>6. f[0] = <<>>
      BY <3>2, <3>3 DEF UpTo
    <3>7. \A m \in 1..k : f[m] = f[m - 1] \o Bytes(ms[m])
      <4>1. \A m \in 1..k : m - 1 \in 0..k /\ m - 1 # k /\ m \in 0..k /\ (m = k \/ m \in 1..(k - 1))
        BY <3>3
      <4> QED  BY <3>2, <4>1 DEF UpTo
    <3>8. UpTo(f, k)
      <4> HIDE DEF f
      <4> QED  BY <3>5, <3>6, <3>7 DEF UpTo
    <3> QED  BY <3>8
  <2> QED  BY <2>4, <2>5
<1>3. PICK g : UpTo(g, n)
  <2>1. n \in 0..n
    BY <1>1
  <2> QED  BY <1>2, <2>1
<1>4. g = Step(g)
  <2>1. \A m \in 0..n : g[m] = IF m = 0 THEN <<>> ELSE g[m - 1] \o Bytes(ms[m])
    <3>1. \A m \in 0..n : m = 0 \/ m \in 1..n
      BY <1>1
    <3> QED  BY <1>3, <3>1 DEF UpTo
  <2>2. g \in [0..n -> Seq(Octets)]
    BY <1>3 DEF UpTo
  <2> QED  BY <2>1, <2>2
<1>5. FirstBytes(ms) = CHOOSE f : f = Step(f)
  BY DEF FirstBytes, n
<1> HIDE DEF Step
<1>6. FirstBytes(ms) = Step(FirstBytes(ms))
  BY <1>4, <1>5
<1> DEFINE F == FirstBytes(ms)
<1> HIDE DEF F
<1>7. F = [m \in 0..n |-> IF m = 0 THEN <<>> ELSE F[m - 1] \o Bytes(ms[m])]
  BY <1>6 DEF Step, F
<1>8. F[0] = <<>> /\ \A m \in 1..n : F[m] = F[m - 1] \o Bytes(ms[m])
  <2>1. 0 \in 0..n /\ \A m \in 1..n : m \in 0..n /\ m # 0
    BY <1>1
  <2> QED  BY <1>7, <2>1
<1>9. \A m \in 0..n : F[m] \in Seq(Octets)
  <2> DEFINE Odd == {m \in 0..n : F[m] \notin Seq(Octets)}
  <2> SUFFICES ASSUME Odd # {}  PROVE FALSE
    OBVIOUS
  <2>1. Odd \in SUBSET Nat
    BY <1>1
  <2>2. PICK k \in Odd : \A j \in Odd : k <= j
    BY <2>1, LeastNumber
  <2>3. k # 0
    <3>1. F[0] \in Seq(Octets)
      BY <1>8
    <3> QED  BY <3>1
  <2>4. k \in 1..n /\ k - 1 \in 0..n /\ k - 1 \notin Odd
    BY <1>1, <2>2, <2>3
  <2>5. F[k - 1] \in Seq(Octets) /\ Bytes(ms[k]) \in Seq(Octets)
    BY <1>1, <2>4
  <2>6. F[k] \in Seq(Octets)
    <3>1. F[k] = F[k - 1] \o Bytes(ms[k])
      BY <1>8, <2>4
    <3> QED  BY <2>5, <3>1
  <2> QED  BY <2>6
<1> QED
  BY <1>8, <1>9 DEF F, n

\* More messages only put more bytes behind the others.
LEMMA FirstBytesGrow ==
    ASSUME NEW ms \in Seq(DOMAIN Kinds), NEW i \in 0..Len(ms), NEW j \in i..Len(ms)
    PROVE  LET F == FirstBytes(ms)
           IN  /\ Len(F[i]) \in Nat /\ Len(F[j]) \in Nat /\ Len(F[i]) <= Len(F[j])
               /\ i # j => Len(F[i]) < Len(F[j])
               /\ \A x \in 1..Len(F[i]) : F[j][x] = F[i][x]
<1> DEFINE F == FirstBytes(ms)
           n == Len(ms)
           After(l) == /\ Len(F[i]) <= Len(F[l])
                       /\ i # l => Len(F[i]) < Len(F[l])
                       /\ \A x \in 1..Len(F[i]) : F[l][x] = F[i][x]
           Bad == {l \in i..n : ~After(l)}
<1>1. /\ \A m \in 1..n : F[m] = F[m - 1] \o Bytes(ms[m])
      /\ \A m \in 0..n : F[m] \in Seq(Octets)
  BY FirstBytesAre
<1>2. n \in Nat /\ i \in 0..n /\ j \in i..n
  OBVIOUS
<1>3. \A m \in 1..n : Bytes(ms[m]) \in Seq(Octets) /\ Len(Bytes(ms[m])) \in Nat \ {0}
  <2>1. TAKE m \in 1..n
  <2>2. ms[m] \in DOMAIN Kinds
    BY ElementOfSeq
  <2>3. Bytes(ms[m]) \in Seq(Octets) /\ Len(Kinds[ms[m]].body) \in Nat
        /\ Len(Bytes(ms[m])) = 5 + Len(Kinds[ms[m]].body)
    BY <2>2, BytesFacts
  <2> QED  BY <2>3
<1> HIDE DEF F, n
<1>4. \A m \in 0..n : Len(F[m]) \in Nat
  BY <1>1, LenProperties
<1>5. ASSUME NEW m \in 1..n
      PROVE  /\ Len(F[m - 1]) < Len(F[m])
             /\ \A x \in 1..Len(F[m - 1]) : F[m][x] = F[m - 1][x]
  <2>1. m - 1 \in 0..n
    BY <1>2
  <2>2. F[m - 1] \in Seq(Octets) /\ Bytes(ms[m]) \in Seq(Octets) /\ Len(Bytes(ms[m])) \in Nat \ {0}
    BY <1>1, <1>3, <2>1
  <2>3. /\ Len(F[m - 1] \o Bytes(ms[m])) = Len(F[m - 1]) + Len(Bytes(ms[m]))
        /\ \A x \in 1..Len(F[m - 1]) : (F[m - 1] \o Bytes(ms[m]))[x] = F[m - 1][x]
    <3>1. \A s, t \in Seq(Octets) : /\ Len(s \o t) = Len(s) + Len(t)
                                    /\ \A x \in 1..Len(s) : (s \o t)[x] = s[x]
      BY Joined
    <3> QED  BY <2>2, <3>1
  <2>4. Len(F[m - 1]) \in Nat /\ F[m] = F[m - 1] \o Bytes(ms[m])
    BY <1>1, <1>4, <2>1
  <2>5. /\ Len(F[m]) = Len(F[m - 1]) + Len(Bytes(ms[m]))
        /\ \A x \in 1..Len(F[m - 1]) : F[m][x] = F[m - 1][x]
    BY <2>3, <2>4
  <2>6. Len(F[m - 1]) < Len(F[m])
    <3>1. \A a \in Nat, c \in Nat \ {0} : a < a + c
      OBVIOUS
    <3> QED  BY <2>2, <2>4, <2>5, <3>1
  <2> QED  BY <2>5, <2>6
<1> HIDE DEF After
<1>6. Bad = {}
  <2> SUFFICES ASSUME Bad # {}  PROVE FALSE
    OBVIOUS
  <2>1. Bad \in SUBSET Nat
    BY <1>2
  <2>2. PICK l \in Bad : \A m \in Bad : l <= m
    BY <2>1, LeastNumber
  <2>3. l # i
    BY <1>2, <1>4 DEF After
  <2>4. l \in 1..n /\ l - 1 \in i..n /\ l - 1 \in 0..n /\ l \in 0..n /\ ~(l <= l - 1)
    BY <1>2, <2>3
  <2>5. After(l - 1)
    BY <2>2, <2>4
  <2>6. /\ Len(F[l - 1]) < Len(F[l])
        /\ \A x \in 1..Len(F[l - 1]) : F[l][x] = F[l - 1][x]
    BY <1>5, <2>4
  <2>7. Len(F[i]) \in Nat /\ Len(F[l - 1]) \in Nat /\ Len(F[l]) \in Nat
    BY <1>2, <1>4, <2>4
  <2>8. Len(F[i]) <= Len(F[l - 1]) /\ \A x \in 1..Len(F[i]) : F[l - 1][x] = F[i][x]
    BY <2>5 DEF After
  <2>9. \A x \in 1..Len(F[i]) : x \in 1..Len(F[l - 1])
    BY <2>7, <2>8
  <2>10. Len(F[i]) < Len(F[l])
    BY <2>6, <2>7, <2>8
  <2>11. \A x \in 1..Len(F[i]) : F[l][x] = F[i][x]
    BY <2>6, <2>8, <2>9
  <2>12. After(l)
    BY <2>7, <2>10, <2>11 DEF After
  <2> QED  BY <2>12
<1>7. After(j)
  BY <1>2, <1>6
<1>8. i \in 0..n /\ j \in 0..n
  BY <1>2
<1> QED
  BY <1>4, <1>7, <1>8 DEF After, F

Messages == messages \in Seq(MessageKinds)

LEMMA StreamOctets ==
    ASSUME Messages
    PROVE  Stream \in Seq(Octets) /\ Len(Stream) \in Nat
<1>1. messages \in Seq(DOMAIN Kinds) /\ Len(messages) \in 0..Len(messages)
  BY HttpAssumption DEF Messages
<1>2. FirstBytes(messages)[Len(messages)] \in Seq(Octets)
  BY <1>1, FirstBytesAre
<1> QED
  BY <1>2, LenProperties DEF Stream

\* Where message m lies in the stream.
LEMMA MessageAt ==
    ASSUME Messages, NEW m \in DOMAIN messages
    PROVE  LET k == messages[m]
               b == Kinds[k].body
           IN  /\ k \in DOMAIN Kinds /\ m \in 1..Len(messages)
               /\ Stream \in Seq(Octets) /\ Len(Stream) \in Nat
               /\ StartOf(m) \in Nat /\ Len(b) \in Nat
               /\ HeaderOf(m) = StartOf(m) + 5
               /\ EndOf(m) = StartOf(m) + (5 + Len(b))
               /\ EndOf(m) = Len(FirstBytes(messages)[m])
               /\ EndOf(m) <= Len(Stream)
               /\ \A i \in 1..5 : Stream[StartOf(m) + i] = Kinds[k].header[i]
               /\ \A i \in 1..Len(b) : Stream[StartOf(m) + (5 + i)] = b[i]
<1> DEFINE F == FirstBytes(messages)
           n == Len(messages)
           k == messages[m]
           B == Bytes(k)
           b == Kinds[k].body
<1>1. messages \in Seq(DOMAIN Kinds) /\ m \in 1..n /\ n \in Nat /\ k \in DOMAIN Kinds
  BY HttpAssumption DEF Messages
<1>2. /\ F[m] = F[m - 1] \o B
      /\ \A l \in 0..n : F[l] \in Seq(Octets)
  BY <1>1, FirstBytesAre
<1>3. /\ B \in Seq(Octets) /\ Len(b) \in Nat /\ Len(B) = 5 + Len(b)
      /\ \A i \in 1..5 : B[i] = Kinds[k].header[i]
      /\ \A i \in 1..Len(b) : B[5 + i] = b[i]
  BY <1>1, BytesFacts
<1>4. m - 1 \in 0..n /\ m \in 0..n /\ n \in m..n
  BY <1>1
<1>5. /\ Len(F[m]) <= Len(F[n])
      /\ \A x \in 1..Len(F[m]) : F[n][x] = F[m][x]
  BY <1>1, <1>4, FirstBytesGrow
<1>6. Len(Kinds[k].header) = 5
  BY <1>1, KindFacts
<1>7. /\ Stream = F[n] /\ StartOf(m) = Len(F[m - 1]) /\ HeaderOf(m) = StartOf(m) + 5
      /\ EndOf(m) = StartOf(m) + Len(B)
  BY <1>6 DEF Stream, StartOf, HeaderOf, EndOf
<1> HIDE DEF F, n, k, B, b
<1>8. F[m - 1] \in Seq(Octets) /\ F[n] \in Seq(Octets)
  BY <1>1, <1>2, <1>4
<1>9. Len(F[m - 1]) \in Nat /\ Len(F[n]) \in Nat
  BY <1>8, LenProperties
<1>10. /\ Len(F[m]) = Len(F[m - 1]) + Len(B)
       /\ \A i \in 1..Len(B) : F[m][Len(F[m - 1]) + i] = B[i]
  <2>1. \A s, t \in Seq(Octets) : /\ Len(s \o t) = Len(s) + Len(t)
                                  /\ \A x \in 1..Len(t) : (s \o t)[Len(s) + x] = t[x]
    BY Joined
  <2>2. /\ Len(F[m - 1] \o B) = Len(F[m - 1]) + Len(B)
        /\ \A i \in 1..Len(B) : (F[m - 1] \o B)[Len(F[m - 1]) + i] = B[i]
    BY <1>3, <1>8, <2>1
  <2> QED  BY <1>2, <2>2
<1>11. \A i \in 1..Len(B) : F[n][Len(F[m - 1]) + i] = B[i]
  <2>1. \A i \in 1..Len(B) : Len(F[m - 1]) + i \in 1..Len(F[m])
    <3>1. Len(B) \in Nat
      BY <1>3
    <3>2. Len(F[m]) = Len(F[m - 1]) + Len(B)
      BY <1>10
    <3> QED  BY <1>9, <3>1, <3>2
  <2> QED  BY <1>5, <1>10, <2>1
<1>12. \A i \in 1..5 : i \in 1..Len(B)
  BY <1>3
<1>13. \A i \in 1..Len(b) : 5 + i \in 1..Len(B)
  BY <1>3
<1>14. \A i \in 1..5 : Stream[StartOf(m) + i] = Kinds[k].header[i]
  BY <1>3, <1>7, <1>11, <1>12
<1>15. \A i \in 1..Len(b) : Stream[StartOf(m) + (5 + i)] = b[i]
  BY <1>3, <1>7, <1>11, <1>13
<1>16. EndOf(m) = Len(F[m]) /\ EndOf(m) <= Len(Stream) /\ EndOf(m) = StartOf(m) + (5 + Len(b))
  BY <1>3, <1>5, <1>7, <1>10
<1> QED
  BY <1>1, <1>3, <1>7, <1>8, <1>9, <1>14, <1>15, <1>16 DEF k, b, n, F

\* The messages follow each other.
LEMMA MessagesApart ==
    ASSUME Messages, NEW l \in DOMAIN messages, NEW m \in DOMAIN messages
    PROVE  /\ StartOf(l) = StartOf(m) => l = m
           /\ l <= m => EndOf(l) <= EndOf(m)
<1> DEFINE F == FirstBytes(messages)
           n == Len(messages)
<1>1. messages \in Seq(DOMAIN Kinds) /\ l \in 1..n /\ m \in 1..n /\ n \in Nat
  BY HttpAssumption DEF Messages
<1>2. \A i \in 0..n, j \in 0..n : i < j => Len(F[i]) < Len(F[j]) /\ Len(F[i]) \in Nat /\ Len(F[j]) \in Nat
  <2>1. \A i \in 0..n, j \in 0..n : i < j => j \in i..n /\ i # j
    BY <1>1
  <2> QED  BY <1>1, <2>1, FirstBytesGrow
<1>3. EndOf(l) = Len(F[l]) /\ EndOf(m) = Len(F[m]) /\ EndOf(l) \in Nat /\ EndOf(m) \in Nat
  <2>1. \A x \in DOMAIN messages : EndOf(x) = Len(F[x]) /\ EndOf(x) \in Nat
    <3>1. TAKE x \in DOMAIN messages
    <3>2. /\ StartOf(x) \in Nat /\ Len(Kinds[messages[x]].body) \in Nat
          /\ EndOf(x) = StartOf(x) + (5 + Len(Kinds[messages[x]].body))
          /\ EndOf(x) = Len(F[x])
      BY MessageAt
    <3> QED  BY <3>2
  <2> QED  BY <2>1
<1>4. StartOf(l) = Len(F[l - 1]) /\ StartOf(m) = Len(F[m - 1])
  BY DEF StartOf
<1> HIDE DEF F, n
<1>5. l <= m => EndOf(l) <= EndOf(m)
  <2>1. l \in 0..n /\ m \in 0..n /\ (l <= m => l < m \/ l = m)
    BY <1>1
  <2> QED  BY <1>2, <1>3, <2>1
<1>6. ASSUME l # m, StartOf(l) = StartOf(m)  PROVE FALSE
  <2>1. l - 1 \in 0..n /\ m - 1 \in 0..n /\ (l - 1 < m - 1 \/ m - 1 < l - 1)
    BY <1>1, <1>6
  <2>2. Len(F[l - 1]) = Len(F[m - 1])
    BY <1>4, <1>6
  <2>3. CASE l - 1 < m - 1
    BY <1>2, <2>1, <2>2, <2>3
  <2>4. CASE m - 1 < l - 1
    BY <1>2, <2>1, <2>2, <2>4
  <2> QED  BY <2>1, <2>3, <2>4
<1> QED
  BY <1>5, <1>6

-----------------------------------------------------------------------------
(* What a chunk makes of the request *)

Fits(q) == q \in Requests /\ q.cacheSize <= q.len /\ q.bodyIndex + q.bodySize <= q.len

LEMMA RequestFields ==
    ASSUME NEW q \in Requests
    PROVE  /\ q.len \in Nat /\ q.cacheSize \in Nat /\ q.bodyIndex \in Nat /\ q.bodySize \in Nat
           /\ q.bodyLength \in Nat
           /\ q.provided \in BOOLEAN /\ q.bodyless \in BOOLEAN /\ q.error \in BOOLEAN
  BY DEF Requests

\* Changing the fields of a request changes no others.
LEMMA WithError ==
    ASSUME NEW p \in Requests, NEW l \in Nat
    PROVE  LET q == [p EXCEPT !.len = l, !.error = TRUE]
           IN  /\ q \in Requests /\ q.len = l /\ q.cacheSize = p.cacheSize
               /\ q.bodyIndex = p.bodyIndex /\ q.bodySize = p.bodySize
  BY DEF Requests

LEMMA WithBodyIs ==
    ASSUME NEW q \in Requests, NEW n \in Nat
    PROVE  WithBody(q, n) = [len |-> q.len + n, cacheSize |-> q.len + n, bodyIndex |-> q.bodyIndex,
                             bodySize |-> q.bodySize + n, bodyLength |-> q.bodyLength,
                             provided |-> q.provided, bodyless |-> q.bodyless, error |-> q.error]
<1> DEFINE b == WithBody(q, n)
<1>1. b = [q EXCEPT !.len = @ + n, !.cacheSize = q.len + n, !.bodySize = @ + n]
  BY DEF WithBody
<1> HIDE DEF b
<1>2. b = [len |-> q.len + n, cacheSize |-> q.len + n, bodyIndex |-> q.bodyIndex,
           bodySize |-> q.bodySize + n, bodyLength |-> q.bodyLength,
           provided |-> q.provided, bodyless |-> q.bodyless, error |-> q.error]
  BY <1>1 DEF Requests
<1> QED
  BY <1>2 DEF b

\* Whatever the parser makes of a header, it is one of these.
LEMMA ParseTypes ==
    ASSUME Messages, NEW i, NEW h \in Parse(i)
    PROVE  h \in [valid : BOOLEAN, bodyless : BOOLEAN, provided : BOOLEAN, bodyLength : Nat]
<1> DEFINE exact == {m \in DOMAIN messages : StartOf(m) = from /\ HeaderOf(m) = from + i + 4}
           of(m) == [valid |-> Kinds[messages[m]].valid, bodyless |-> Kinds[messages[m]].bodyless,
                     provided |-> Kinds[messages[m]].declared, bodyLength |-> Len(Kinds[messages[m]].body)]
<1>1. h \in IF exact # {} THEN {of(m) : m \in exact}
            ELSE [valid : BOOLEAN, bodyless : BOOLEAN, provided : BOOLEAN, bodyLength : 0..2]
  BY DEF Parse
<1>2. ASSUME NEW m \in DOMAIN messages
      PROVE  of(m) \in [valid : BOOLEAN, bodyless : BOOLEAN, provided : BOOLEAN, bodyLength : Nat]
  <2>1. messages[m] \in DOMAIN Kinds
    BY <1>2, MessageAt
  <2>2. /\ Kinds[messages[m]].valid \in BOOLEAN /\ Kinds[messages[m]].bodyless \in BOOLEAN
        /\ Kinds[messages[m]].declared \in BOOLEAN
    BY <2>1, KindFacts
  <2>3. Len(Kinds[messages[m]].body) \in Nat
    BY <2>1, BytesFacts
  <2> QED  BY <2>2, <2>3
<1>3. CASE exact # {}
  <2>1. PICK m \in DOMAIN messages : h = of(m)
    BY <1>1, <1>3
  <2> QED  BY <1>2, <2>1
<1>4. CASE exact = {}
  <2>1. h \in [valid : BOOLEAN, bodyless : BOOLEAN, provided : BOOLEAN, bodyLength : 0..2]
    BY <1>1, <1>4
  <2> QED  BY <2>1
<1> QED
  BY <1>3, <1>4

LEMMA WithHeaderTypes ==
    ASSUME NEW p, Fits(p), NEW len \in Nat, p.len <= len, NEW i \in Nat, i + 4 <= len,
           NEW h \in [valid : BOOLEAN, bodyless : BOOLEAN, provided : BOOLEAN, bodyLength : Nat]
    PROVE  Fits(WithHeader(p, len, i, h)) /\ WithHeader(p, len, i, h).len = len
<1> DEFINE q == WithHeader(p, len, i, h)
<1>1. /\ p.len \in Nat /\ p.cacheSize \in Nat /\ p.bodyIndex \in Nat /\ p.bodySize \in Nat
      /\ p \in Requests /\ p.cacheSize <= p.len /\ p.bodyIndex + p.bodySize <= p.len
  BY RequestFields DEF Fits
<1>2. CASE h.valid
  <2>1. q = [p EXCEPT !.len = len, !.cacheSize = len, !.bodyIndex = i + 4, !.bodySize = len - i - 4,
                      !.bodyless = h.bodyless, !.provided = h.provided,
                      !.bodyLength = IF h.provided THEN h.bodyLength ELSE 0]
    BY <1>2 DEF WithHeader
  <2> HIDE DEF q
  <2>2. i + 4 \in Nat /\ len - i - 4 \in Nat /\ (i + 4) + (len - i - 4) = len
    OBVIOUS
  <2>3. (IF h.provided THEN h.bodyLength ELSE 0) \in Nat /\ h.provided \in BOOLEAN /\ h.bodyless \in BOOLEAN
    OBVIOUS
  <2>4. /\ q \in Requests /\ q.len = len /\ q.cacheSize = len
        /\ q.bodyIndex = i + 4 /\ q.bodySize = len - i - 4
    BY <1>1, <2>1, <2>2, <2>3 DEF Requests
  <2>5. Fits(q) /\ q.len = len
    BY <2>2, <2>4 DEF Fits
  <2> QED  BY <2>5 DEF q
<1>3. CASE ~h.valid
  <2>1. q = [p EXCEPT !.len = len, !.error = TRUE]
    BY <1>3 DEF WithHeader
  <2> HIDE DEF q
  <2>2. /\ q \in Requests /\ q.len = len /\ q.cacheSize = p.cacheSize
        /\ q.bodyIndex = p.bodyIndex /\ q.bodySize = p.bodySize
    BY <1>1, <2>1, WithError
  <2>3. Fits(q) /\ q.len = len
    BY <1>1, <2>2 DEF Fits
  <2> QED  BY <2>3 DEF q
<1> QED
  BY <1>2, <1>3

LEMMA HeaderTypes ==
    ASSUME Messages, NEW p, Fits(p), NEW n \in Nat, NEW q \in ReceiveHeader(p, n)
    PROVE  Fits(q) /\ q.len = p.len + n
<1> DEFINE len == p.len + n
           c == IF len >= 3 THEN len - 3 ELSE 0
<1>1. /\ p.len \in Nat /\ p.cacheSize \in Nat /\ p.bodyIndex \in Nat /\ p.bodySize \in Nat
      /\ p \in Requests /\ p.cacheSize <= p.len /\ p.bodyIndex + p.bodySize <= p.len
  BY RequestFields DEF Fits
<1>2. len \in Nat /\ p.len <= len
  BY <1>1
<1>3. c \in Nat /\ c <= len
  BY <1>2
<1>4. q \in IF Found(p, len) = {} THEN {[p EXCEPT !.len = len, !.cacheSize = c]}
            ELSE UNION {{WithHeader(p, len, i, h) : h \in Parse(i)} : i \in Found(p, len)}
  BY DEF ReceiveHeader
<1>5. p.len + n = len
  OBVIOUS
<1> HIDE DEF len, c
<1>6. CASE Found(p, len) = {}
  <2>1. q = [p EXCEPT !.len = len, !.cacheSize = c]
    BY <1>4, <1>6
  <2>2. /\ q \in Requests /\ q.len = len /\ q.cacheSize = c
        /\ q.bodyIndex = p.bodyIndex /\ q.bodySize = p.bodySize
    BY <1>1, <1>2, <1>3, <2>1 DEF Requests
  <2>3. q.bodyIndex + q.bodySize <= len
    <3>1. \A a, b, l, m \in Nat : a + b <= l /\ l <= m => a + b <= m
      OBVIOUS
    <3> QED  BY <1>1, <1>2, <2>2, <3>1
  <2> QED  BY <1>3, <1>5, <2>2, <2>3 DEF Fits
<1>7. CASE Found(p, len) # {}
  <2>1. PICK i \in Found(p, len) : q \in {WithHeader(p, len, i, h) : h \in Parse(i)}
    BY <1>4, <1>7
  <2>2. PICK h \in Parse(i) : q = WithHeader(p, len, i, h)
    BY <2>1
  <2>3. i \in Nat /\ i + 4 <= len
    BY <1>1, <1>2 DEF Found, SeparatorAt
  <2>4. h \in [valid : BOOLEAN, bodyless : BOOLEAN, provided : BOOLEAN, bodyLength : Nat]
    BY ParseTypes
  <2>5. Fits(WithHeader(p, len, i, h)) /\ WithHeader(p, len, i, h).len = len
    BY <1>2, <2>3, <2>4, WithHeaderTypes
  <2> QED  BY <1>5, <2>2, <2>5
<1> QED
  BY <1>6, <1>7

LEMMA BodyTypes ==
    ASSUME NEW q, Fits(q), NEW n \in Nat
    PROVE  LET b == WithBody(q, n)
           IN  /\ Fits(b) /\ b.len = q.len + n /\ b.error = q.error
               /\ b = [len |-> q.len + n, cacheSize |-> q.len + n, bodyIndex |-> q.bodyIndex,
                       bodySize |-> q.bodySize + n, bodyLength |-> q.bodyLength,
                       provided |-> q.provided, bodyless |-> q.bodyless, error |-> q.error]
<1>1. /\ q.len \in Nat /\ q.cacheSize \in Nat /\ q.bodyIndex \in Nat /\ q.bodySize \in Nat
      /\ q.bodyLength \in Nat
      /\ q.provided \in BOOLEAN /\ q.bodyless \in BOOLEAN /\ q.error \in BOOLEAN
      /\ q \in Requests /\ q.bodyIndex + q.bodySize <= q.len
  BY RequestFields DEF Fits
<1> DEFINE b == WithBody(q, n)
<1>2. b = [len |-> q.len + n, cacheSize |-> q.len + n, bodyIndex |-> q.bodyIndex,
           bodySize |-> q.bodySize + n, bodyLength |-> q.bodyLength,
           provided |-> q.provided, bodyless |-> q.bodyless, error |-> q.error]
  BY <1>1, WithBodyIs
<1> HIDE DEF b
<1>3. q.len + n \in Nat /\ q.bodySize + n \in Nat /\ q.bodyIndex + (q.bodySize + n) <= q.len + n
  BY <1>1
<1>4. b \in Requests /\ b.cacheSize <= b.len /\ b.bodyIndex + b.bodySize <= b.len
  BY <1>1, <1>2, <1>3 DEF Requests
<1> QED
  BY <1>2, <1>4 DEF Fits, b

\* The request with the chunk.
Got(b, n) ==
    IF IsPendingHeader(request) THEN \E q \in ReceiveHeader(request, n) : b = WithBody(q, 0)
                                ELSE b = WithBody(request, n)

LEMMA GotTypes ==
    ASSUME RequestTypes, NEW n \in Nat, NEW b, Got(b, n)
    PROVE  Fits(b) /\ b.len = request.len + n
<1>1. Messages /\ Fits(request) /\ request.len \in Nat
  BY RequestFields DEF RequestTypes, Messages, Fits
<1>2. CASE IsPendingHeader(request)
  <2>1. PICK q \in ReceiveHeader(request, n) : b = WithBody(q, 0)
    BY <1>2 DEF Got
  <2>2. Fits(q) /\ q.len = request.len + n
    BY <1>1, HeaderTypes
  <2>3. 0 \in Nat /\ q.len + 0 = q.len
    BY <1>1, <2>2
  <2> QED  BY <2>1, <2>2, <2>3, BodyTypes
<1>3. CASE ~IsPendingHeader(request)
  BY <1>1, <1>3, BodyTypes DEF Got
<1> QED
  BY <1>2, <1>3

LEMMA Unmoved ==
    ASSUME messages' = messages
    PROVE  /\ Stream' = Stream
           /\ \A m : StartOf(m)' = StartOf(m) /\ HeaderOf(m)' = HeaderOf(m) /\ EndOf(m)' = EndOf(m)
           /\ \A m : Valid(m)' = Valid(m)
  BY DEF Stream, StartOf, HeaderOf, EndOf, Valid

\* The steps of onReceived.
LEMMA Received ==
    ASSUME RequestTypes, NEW n \in 1..Len(Stream), OnReceived(n)
    PROVE  /\ open /\ messages' = messages /\ NoteChunk(n)
           /\ received' = received + n /\ received + n <= Len(Stream)
           /\ \E b : /\ Got(b, n)
                     /\ \/ /\ b.error
                           /\ open' = FALSE /\ Clear /\ handled' = handled
                        \/ /\ ~b.error /\ BodyComplete(b)
                           /\ Handle(b, BodyTaken(b), FALSE) /\ Clear /\ open' = open
                        \/ /\ ~b.error /\ ~BodyComplete(b)
                           /\ request' = b /\ from' = from /\ open' = open /\ handled' = handled
<1> DEFINE Outcome(b, q) ==
             \/ /\ q.error
                /\ open' = FALSE /\ Clear /\ handled' = handled
             \/ /\ ~q.error /\ BodyComplete(b)
                /\ Handle(b, BodyTaken(b), FALSE) /\ Clear /\ open' = open
             \/ /\ ~q.error /\ ~BodyComplete(b)
                /\ request' = b /\ from' = from /\ open' = open /\ handled' = handled
<1>1. PICK q \in IF IsPendingHeader(request) THEN ReceiveHeader(request, n) ELSE {request} :
        Outcome(WithBody(q, IF IsPendingHeader(request) THEN 0 ELSE n), q)
  BY DEF OnReceived
<1>2. Messages /\ Fits(request) /\ request.len \in Nat /\ n \in Nat
  <2>1. Len(Stream) \in Nat
    BY DEF RequestTypes, Messages
  <2> QED  BY RequestFields DEF RequestTypes, Messages, Fits
<1>3. CASE IsPendingHeader(request)
  <2>1. q \in ReceiveHeader(request, n) /\ Outcome(WithBody(q, 0), q)
    BY <1>1, <1>3
  <2>2. Fits(q)
    BY <1>2, <2>1, HeaderTypes
  <2>3. WithBody(q, 0).error = q.error
    BY <2>2, BodyTypes
  <2>4. Got(WithBody(q, 0), n)
    BY <1>3, <2>1 DEF Got
  <2> QED  BY <2>1, <2>3, <2>4 DEF OnReceived
<1>4. CASE ~IsPendingHeader(request)
  <2>1. q = request /\ Outcome(WithBody(request, n), request)
    BY <1>1, <1>4
  <2>2. WithBody(request, n).error = request.error
    BY <1>2, BodyTypes
  <2>3. Got(WithBody(request, n), n)
    BY <1>4 DEF Got
  <2> QED  BY <2>1, <2>2, <2>3 DEF OnReceived
<1> QED
  BY <1>3, <1>4

LEMMA TakenFits ==
    ASSUME NEW b, Fits(b), BodyComplete(b)
    PROVE  BodyTaken(b) \in Nat /\ BodyTaken(b) <= b.bodySize
<1>1. b.bodySize \in Nat /\ b.bodyLength \in Nat
  BY RequestFields DEF Fits
<1> QED
  BY <1>1 DEF BodyTaken, BodyComplete

-----------------------------------------------------------------------------
(* The indices, and no byte twice *)

Handling == [from : Nat, bodyFrom : Nat, size : Nat, last : Nat, cut : BOOLEAN]

\* One more request behind the others.
LEMMA OneMore ==
    ASSUME NEW S, NEW s \in Seq(S), NEW x \in S
    PROVE  /\ Append(s, x) \in Seq(S)
           /\ Len(s) \in Nat /\ Len(Append(s, x)) = Len(s) + 1
           /\ DOMAIN s = 1..Len(s) /\ DOMAIN Append(s, x) = 1..(Len(s) + 1)
           /\ \A i \in 1..Len(s) : Append(s, x)[i] = s[i]
           /\ Append(s, x)[Len(s) + 1] = x
  OBVIOUS

LEMMA HandedOn ==
    ASSUME RequestTypes, Behind, RequestsDisjoint,
           NEW b, Fits(b), b.len = received' - from,
           NEW size \in Nat, size <= b.bodySize, NEW cut \in BOOLEAN,
           Handle(b, size, cut), Clear, messages' = messages,
           received' \in Nat, received <= received', received' <= Len(Stream),
           open' \in BOOLEAN, split' \in BOOLEAN, overran' \in BOOLEAN
    PROVE  RequestTypes' /\ Behind' /\ RequestsDisjoint'
<1> DEFINE h == [from |-> from, bodyFrom |-> from + b.bodyIndex, size |-> size,
                 last |-> received', cut |-> cut]
<1>1. /\ b.bodyIndex \in Nat /\ b.bodySize \in Nat /\ b.len \in Nat
      /\ b.bodyIndex + b.bodySize <= b.len
  BY RequestFields DEF Fits
<1>2. /\ from \in Nat /\ received \in Nat /\ from <= received
      /\ handled \in Seq(Handling)
  BY DEF RequestTypes, Handling
<1>3. h \in Handling /\ h.from = from /\ h.last = received' /\ h.bodyFrom + h.size <= h.last
  <2>1. from + b.bodyIndex \in Nat /\ (from + b.bodyIndex) + size <= received'
    BY <1>1, <1>2
  <2> QED  BY <1>2, <2>1 DEF Handling
<1>4. handled' = Append(handled, h)
  BY DEF Handle
<1> HIDE DEF h
<1>5. /\ handled' \in Seq(Handling)
      /\ Len(handled) \in Nat
      /\ DOMAIN handled = 1..Len(handled) /\ DOMAIN handled' = 1..(Len(handled) + 1)
      /\ \A i \in 1..Len(handled) : handled'[i] = handled[i]
      /\ handled'[Len(handled) + 1] = h
  <2>1. \A s \in Seq(Handling), x \in Handling :
          /\ Append(s, x) \in Seq(Handling)
          /\ Len(s) \in Nat
          /\ DOMAIN s = 1..Len(s) /\ DOMAIN Append(s, x) = 1..(Len(s) + 1)
          /\ \A i \in 1..Len(s) : Append(s, x)[i] = s[i]
          /\ Append(s, x)[Len(s) + 1] = x
    BY OneMore
  <2> QED  BY <1>2, <1>3, <1>4, <2>1
<1>6. from' = received' /\ request' = Cleared
  BY DEF Clear
<1>7. RequestTypes'
  <2>1. Stream' = Stream
    BY Unmoved
  <2>2. /\ Cleared \in Requests /\ ~Cleared.error /\ Cleared.len = 0
        /\ Cleared.cacheSize = 0 /\ Cleared.bodyIndex = 0 /\ Cleared.bodySize = 0
    BY DEF Cleared, Requests
  <2>3. 0 = received' - from' /\ 0 <= 0 /\ 0 + 0 <= 0 /\ from' <= received'
    <3>1. \A x \in Nat : 0 = x - x /\ 0 <= 0 /\ 0 + 0 <= 0 /\ x <= x
      OBVIOUS
    <3> QED  BY ONLY received' \in Nat, <1>6, <3>1
  <2> QED  BY <1>5, <1>6, <2>1, <2>2, <2>3 DEF RequestTypes, Handling
<1>8. \A i \in 1..Len(handled) : /\ handled[i].last \in Nat
                                 /\ handled[i].last <= from
  <2>1. \A i \in 1..Len(handled) : handled[i] \in Handling
    BY <1>2, <1>5, ElementOfSeq
  <2> QED  BY <1>5, <2>1 DEF Behind, Handling
<1>9. \A i \in 1..(Len(handled) + 1) : i \in 1..Len(handled) \/ i = Len(handled) + 1
  BY <1>5
<1>10. Behind'
  <2>1. \A i \in 1..Len(handled) : handled'[i].last <= from'
    <3>1. \A x \in Nat : x <= from => x <= received'
      BY <1>2
    <3> QED  BY <1>5, <1>6, <1>8, <3>1
  <2>2. handled'[Len(handled) + 1].last <= from'
    BY <1>3, <1>5, <1>6
  <2> QED  BY <1>5, <1>9, <2>1, <2>2 DEF Behind
<1>11. RequestsDisjoint'
  <2> SUFFICES ASSUME NEW k \in DOMAIN handled'
               PROVE  /\ handled'[k].bodyFrom + handled'[k].size <= handled'[k].last
                      /\ \A j \in 1..k-1 : handled'[j].last <= handled'[k].from
    BY DEF RequestsDisjoint
  <2>1. CASE k \in 1..Len(handled)
    <3>1. \A j \in 1..k-1 : j \in 1..Len(handled)
      BY <1>5, <2>1
    <3> QED  BY <1>5, <2>1, <3>1 DEF RequestsDisjoint
  <2>2. CASE k = Len(handled) + 1
    <3>1. \A j \in 1..k-1 : j \in 1..Len(handled)
      BY <1>5, <2>2
    <3> QED  BY <1>3, <1>5, <1>8, <2>2, <3>1
  <2> QED  BY <1>5, <1>9, <2>1, <2>2
<1> QED
  BY <1>7, <1>10, <1>11

\* A chunk, whatever comes of it, and the end of the connection.
LEMMA ReceivedTypes ==
    ASSUME RequestTypes, Behind, RequestsDisjoint, NEW n \in 1..Len(Stream), OnReceived(n)
    PROVE  RequestTypes' /\ Behind' /\ RequestsDisjoint'
<1>1. /\ open /\ messages' = messages /\ NoteChunk(n)
      /\ received' = received + n /\ received + n <= Len(Stream)
  BY Received
<1>2. PICK b : /\ Got(b, n)
               /\ \/ /\ b.error
                     /\ open' = FALSE /\ Clear /\ handled' = handled
                  \/ /\ ~b.error /\ BodyComplete(b)
                     /\ Handle(b, BodyTaken(b), FALSE) /\ Clear /\ open' = open
                  \/ /\ ~b.error /\ ~BodyComplete(b)
                     /\ request' = b /\ from' = from /\ open' = open /\ handled' = handled
  BY Received
<1>3. /\ Messages /\ from \in Nat /\ received \in Nat /\ from <= received
      /\ request.len = received - from /\ open \in BOOLEAN
      /\ split \in BOOLEAN /\ overran \in BOOLEAN /\ handled \in Seq(Handling)
  BY DEF RequestTypes, Messages, Handling
<1>4. n \in Nat /\ received' \in Nat /\ received <= received' /\ received' <= Len(Stream)
      /\ from <= received'
  <2>1. Len(Stream) \in Nat
    BY DEF RequestTypes, Messages
  <2>2. n \in Nat
    BY <2>1
  <2> QED  BY <1>1, <1>3, <2>2
<1>5. Fits(b) /\ b.len = received' - from
  <2>1. Fits(b) /\ b.len = request.len + n
    BY <1>2, <1>4, GotTypes
  <2>2. (received - from) + n = (received + n) - from
    BY <1>3, <1>4
  <2> QED  BY <1>1, <1>3, <2>1, <2>2
<1>6. split' \in BOOLEAN /\ overran' \in BOOLEAN
  BY <1>1 DEF NoteChunk
<1>7. Stream' = Stream
  BY <1>1, Unmoved
<1>8. CASE b.error /\ open' = FALSE /\ Clear /\ handled' = handled
  <2>1. from' = received' /\ request' = Cleared /\ from' \in Nat
    BY <1>4, <1>8 DEF Clear
  <2>2. /\ Cleared \in Requests /\ ~Cleared.error /\ Cleared.len = 0
        /\ Cleared.cacheSize = 0 /\ Cleared.bodyIndex = 0 /\ Cleared.bodySize = 0
    BY DEF Cleared, Requests
  <2>3. 0 = received' - from' /\ 0 <= 0 /\ 0 + 0 <= 0 /\ from' <= received'
    <3>1. \A x \in Nat : 0 = x - x /\ 0 <= 0 /\ 0 + 0 <= 0 /\ x <= x
      OBVIOUS
    <3> QED  BY ONLY <1>4, <2>1, <3>1
  <2>4. RequestTypes'
    BY <1>1, <1>3, <1>4, <1>6, <1>7, <1>8, <2>1, <2>2, <2>3 DEF RequestTypes, Messages, Handling
  <2>5. Behind'
    <3>1. \A k \in DOMAIN handled : handled[k].last \in Nat
      <4>1. \A k \in DOMAIN handled : handled[k] \in Handling
        BY <1>3
      <4> QED  BY <4>1 DEF Handling
    <3>2. \A x \in Nat : x <= from => x <= received'
      BY <1>3, <1>4
    <3> QED  BY <1>8, <2>1, <3>1, <3>2 DEF Behind
  <2>6. RequestsDisjoint'
    BY <1>8 DEF RequestsDisjoint
  <2> QED  BY <2>4, <2>5, <2>6
<1>9. CASE ~b.error /\ BodyComplete(b) /\ Handle(b, BodyTaken(b), FALSE) /\ Clear /\ open' = open
  <2>1. BodyTaken(b) \in Nat /\ BodyTaken(b) <= b.bodySize
    BY <1>5, <1>9, TakenFits
  <2>2. open' \in BOOLEAN /\ FALSE \in BOOLEAN
    BY <1>3, <1>9
  <2> QED  BY <1>1, <1>4, <1>5, <1>6, <1>9, <2>1, <2>2, HandedOn
<1>10. CASE /\ ~b.error /\ ~BodyComplete(b) /\ request' = b /\ from' = from
            /\ open' = open /\ handled' = handled
  <2>1. RequestTypes'
    BY <1>1, <1>3, <1>4, <1>5, <1>6, <1>7, <1>10 DEF RequestTypes, Messages, Handling, Fits
  <2>2. Behind' /\ RequestsDisjoint'
    BY <1>10 DEF Behind, RequestsDisjoint
  <2> QED  BY <2>1, <2>2
<1> QED
  BY <1>2, <1>8, <1>9, <1>10

LEMMA DisconnectedTypes ==
    ASSUME RequestTypes, Behind, RequestsDisjoint, OnDisconnected
    PROVE  RequestTypes' /\ Behind' /\ RequestsDisjoint'
<1>1. open' = FALSE /\ UNCHANGED <<messages, received, split, overran>>
  BY DEF OnDisconnected
<1>2. Stream' = Stream
  BY <1>1, Unmoved
<1>3. CASE IsPendingBody(request)
  <2>1. Handle(request, request.bodySize, TRUE) /\ Clear
    BY <1>3 DEF OnDisconnected
  <2>2. /\ Fits(request) /\ request.bodySize \in Nat /\ request.bodySize <= request.bodySize
        /\ request.len = received - from /\ received \in Nat /\ received <= received
        /\ received <= Len(Stream)
    BY RequestFields DEF RequestTypes, Fits
  <2>3. TRUE \in BOOLEAN /\ split \in BOOLEAN /\ overran \in BOOLEAN /\ FALSE \in BOOLEAN
    BY DEF RequestTypes
  <2> QED  BY <1>1, <2>1, <2>2, <2>3, HandedOn
<1>4. CASE ~IsPendingBody(request)
  <2>1. UNCHANGED <<from, request, handled>>
    BY <1>4 DEF OnDisconnected
  <2> QED  BY <1>1, <1>2, <2>1 DEF RequestTypes, Behind, RequestsDisjoint
<1> QED
  BY <1>3, <1>4

-----------------------------------------------------------------------------
(* A chunk of the message the cache begins with *)

LEMMA FourBytes ==
    ASSUME NEW s \in Seq(Octets), NEW a \in Nat, a + 4 <= Len(s)
    PROVE  SubSeq(s, a + 1, a + 4) = HeaderEnd <=>
             s[a + 1] = "r" /\ s[a + 2] = "n" /\ s[a + 3] = "r" /\ s[a + 4] = "n"
<1> DEFINE t == SubSeq(s, a + 1, a + 4)
<1>1. t \in Seq(Octets) /\ Len(t) = 4 /\ \A i \in 1..4 : t[i] = s[a + i]
  <2>1. Len(s) \in Nat /\ a + 1 \in 1..(Len(s) + 1) /\ a + 4 \in (a + 1 - 1)..Len(s)
    OBVIOUS
  <2>2. \A i \in 1..4 : (a + 1) + i - 1 = a + i
    OBVIOUS
  <2>3. (a + 4) - (a + 1) + 1 = 4
    OBVIOUS
  <2>4. /\ t \in Seq(Octets)
        /\ Len(t) = IF a + 1 <= a + 4 THEN (a + 4) - (a + 1) + 1 ELSE 0
        /\ \A i \in 1..((a + 4) - (a + 1) + 1) : t[i] = s[(a + 1) + i - 1]
    BY <2>1, SubSeqProperties
  <2> HIDE DEF t
  <2>5. a + 1 <= a + 4
    OBVIOUS
  <2>6. Len(t) = 4
    BY <2>3, <2>4, <2>5
  <2>7. ASSUME NEW i \in 1..4  PROVE t[i] = s[a + i]
    <3>1. t[i] = s[(a + 1) + i - 1]
      BY <2>3, <2>4, <2>7
    <3> QED  BY <2>2, <2>7, <3>1
  <2> QED  BY <2>4, <2>6, <2>7
<1> HIDE DEF t
<1>2. /\ HeaderEnd \in Seq(Octets) /\ Len(HeaderEnd) = 4
      /\ HeaderEnd[1] = "r" /\ HeaderEnd[2] = "n" /\ HeaderEnd[3] = "r" /\ HeaderEnd[4] = "n"
  BY DEF HeaderEnd, Octets
<1>3. t = HeaderEnd <=> \A i \in 1..4 : t[i] = HeaderEnd[i]
  <2>1. ASSUME \A i \in 1..4 : t[i] = HeaderEnd[i]  PROVE t = HeaderEnd
    BY <1>1, <1>2, <2>1, SeqEqual
  <2> QED  BY <2>1
<1>4. \A i \in 1..4 : i = 1 \/ i = 2 \/ i = 3 \/ i = 4
  OBVIOUS
<1>5. 1 \in 1..4 /\ 2 \in 1..4 /\ 3 \in 1..4 /\ 4 \in 1..4
  OBVIOUS
<1>6. t = HeaderEnd <=> s[a + 1] = "r" /\ s[a + 2] = "n" /\ s[a + 3] = "r" /\ s[a + 4] = "n"
  BY <1>1, <1>2, <1>3, <1>4, <1>5
<1> QED
  BY <1>6 DEF t

LEMMA SeparatorIs ==
    ASSUME Messages, from \in Nat, NEW len \in Nat, from + len <= Len(Stream), NEW i \in Nat
    PROVE  SeparatorAt(i, len) <=>
             /\ i + 3 < len
             /\ Stream[from + i + 1] = "r" /\ Stream[from + i + 2] = "n"
             /\ Stream[from + i + 3] = "r" /\ Stream[from + i + 4] = "n"
<1>1. CASE i + 3 < len
  <2>1. Stream \in Seq(Octets)
    BY StreamOctets
  <2>2. from + i \in Nat /\ (from + i) + 4 <= Len(Stream)
    <3>1. Len(Stream) \in Nat
      BY <2>1, LenProperties
    <3> QED  BY <1>1, <3>1
  <2>3. SubSeq(Stream, from + i + 1, from + i + 4) = HeaderEnd <=>
          /\ Stream[from + i + 1] = "r" /\ Stream[from + i + 2] = "n"
          /\ Stream[from + i + 3] = "r" /\ Stream[from + i + 4] = "n"
    BY <2>1, <2>2, FourBytes
  <2> QED  BY <1>1, <2>3 DEF SeparatorAt
<1>2. CASE ~(i + 3 < len)
  BY <1>2 DEF SeparatorAt
<1> QED
  BY <1>1, <1>2

\* The session waits at the beginning of message m, d bytes of which are there.
AtStart(m) == m \in DOMAIN messages /\ from = StartOf(m)

\* The header of a message ends at its second byte, and nowhere before.
LEMMA HeaderBytes ==
    ASSUME Messages, NEW m, AtStart(m)
    PROVE  /\ from \in Nat
           /\ Stream[from + 1] = "x" /\ Stream[from + 2] = "r" /\ Stream[from + 3] = "n"
           /\ Stream[from + 4] = "r" /\ Stream[from + 5] = "n"
<1>1. m \in DOMAIN messages /\ from = StartOf(m)
  BY DEF AtStart
<1>2. /\ messages[m] \in DOMAIN Kinds /\ StartOf(m) \in Nat
      /\ \A i \in 1..5 : Stream[StartOf(m) + i] = Kinds[messages[m]].header[i]
  BY <1>1, MessageAt
<1>3. LET h == Kinds[messages[m]].header
      IN  h[1] = "x" /\ h[2] = "r" /\ h[3] = "n" /\ h[4] = "r" /\ h[5] = "n"
  BY <1>2, KindFacts
<1>4. 1 \in 1..5 /\ 2 \in 1..5 /\ 3 \in 1..5 /\ 4 \in 1..5 /\ 5 \in 1..5
  OBVIOUS
<1> QED
  BY <1>1, <1>2, <1>3, <1>4

LEMMA FoundHere ==
    ASSUME Messages, NEW m, AtStart(m), NEW q, q.cacheSize \in {0, 1},
           NEW len \in Nat, from + len <= Len(Stream)
    PROVE  Found(q, len) = IF len >= 5 THEN {1} ELSE {}
<1>1. /\ from \in Nat
      /\ Stream[from + 1] = "x" /\ Stream[from + 2] = "r" /\ Stream[from + 3] = "n"
      /\ Stream[from + 4] = "r" /\ Stream[from + 5] = "n"
  BY HeaderBytes
<1>2. \A i \in Nat : SeparatorAt(i, len) <=>
             /\ i + 3 < len
             /\ Stream[from + i + 1] = "r" /\ Stream[from + i + 2] = "n"
             /\ Stream[from + i + 3] = "r" /\ Stream[from + i + 4] = "n"
  BY <1>1, SeparatorIs
<1>3. ~SeparatorAt(0, len)
  <2>1. 0 \in Nat /\ from + 0 + 1 = from + 1
    BY <1>1
  <2> QED  BY <1>1, <1>2, <2>1
<1>4. \A i \in Nat : SeparatorAt(i, len) => i + 3 < len
  BY <1>2
<1>5. len >= 5 => SeparatorAt(1, len)
  <2>1. from + 1 + 1 = from + 2 /\ from + 1 + 2 = from + 3 /\ from + 1 + 3 = from + 4 /\ from + 1 + 4 = from + 5
    BY <1>1
  <2>2. len >= 5 => 1 + 3 < len
    OBVIOUS
  <2>3. 1 \in Nat
    OBVIOUS
  <2> QED  BY <1>1, <1>2, <2>1, <2>2, <2>3
<1>6. CASE len >= 5
  <2>1. ASSUME NEW i \in q.cacheSize..len, SeparatorAt(i, len),
               \A j \in q.cacheSize..(i - 1) : ~SeparatorAt(j, len)
        PROVE  i = 1
    <3>1. i \in Nat /\ i # 0
      BY <1>3, <2>1
    <3>2. ~(1 \in q.cacheSize..(i - 1))
      BY <1>5, <1>6, <2>1
    <3> QED  BY <3>1, <3>2
  <2>2. 1 \in q.cacheSize..len /\ \A j \in q.cacheSize..(1 - 1) : ~SeparatorAt(j, len)
    <3>1. \A j \in q.cacheSize..(1 - 1) : j = 0
      OBVIOUS
    <3> QED  BY <1>3, <1>6, <3>1
  <2> QED  BY <1>5, <1>6, <2>1, <2>2 DEF Found
<1>7. CASE ~(len >= 5)
  <2>1. ASSUME NEW i \in q.cacheSize..len, SeparatorAt(i, len)
        PROVE  FALSE
    <3>1. i \in Nat /\ i # 0
      BY <1>3, <2>1
    <3>2. i + 3 < len
      BY <1>4, <2>1, <3>1
    <3> QED  BY <1>7, <3>1, <3>2
  <2> QED  BY <1>7, <2>1 DEF Found
<1> QED
  BY <1>6, <1>7

\* The parser then has that message's header before it, and no other.
LEMMA ParseHere ==
    ASSUME Messages, NEW m, AtStart(m)
    PROVE  Parse(1) = {[valid |-> Valid(m), bodyless |-> Kinds[messages[m]].bodyless,
                        provided |-> Kinds[messages[m]].declared,
                        bodyLength |-> Len(Kinds[messages[m]].body)]}
<1> DEFINE of(l) == [valid |-> Kinds[messages[l]].valid, bodyless |-> Kinds[messages[l]].bodyless,
                     provided |-> Kinds[messages[l]].declared, bodyLength |-> Len(Kinds[messages[l]].body)]
           exact == {l \in DOMAIN messages : StartOf(l) = from /\ HeaderOf(l) = from + 1 + 4}
<1>1. m \in DOMAIN messages /\ from = StartOf(m)
  BY DEF AtStart
<1>2. HeaderOf(m) = from + 1 + 4
  <2>1. StartOf(m) \in Nat /\ HeaderOf(m) = StartOf(m) + 5
    BY <1>1, MessageAt
  <2> QED  BY <1>1, <2>1
<1>3. exact = {m}
  <2>1. \A l \in DOMAIN messages : StartOf(l) = StartOf(m) => l = m
    BY <1>1, MessagesApart
  <2> QED  BY <1>1, <1>2, <2>1
<1>4. Parse(1) = IF exact # {} THEN {of(l) : l \in exact}
                 ELSE [valid : BOOLEAN, bodyless : BOOLEAN, provided : BOOLEAN, bodyLength : 0..2]
  BY DEF Parse
<1> HIDE DEF exact, of
<1>5. Parse(1) = {of(m)}
  BY <1>3, <1>4
<1> QED
  BY <1>5 DEF of, Valid

LEMMA ReadingFields ==
    ASSUME NEW k \in DOMAIN Kinds, NEW d \in Nat, d >= 5
    PROVE  /\ Fits(Reading(k, d)) /\ ~Reading(k, d).error /\ Reading(k, d).len = d
           /\ Reading(k, d).bodyIndex = 5 /\ Reading(k, d).bodySize = d - 5
           /\ Reading(k, d).bodyLength = IF Kinds[k].declared THEN Len(Kinds[k].body) ELSE 0
           /\ Reading(k, d).provided = Kinds[k].declared
           /\ Reading(k, d).bodyless = Kinds[k].bodyless
<1>1. /\ Kinds[k].declared \in BOOLEAN /\ Kinds[k].bodyless \in BOOLEAN
      /\ Len(Kinds[k].body) \in Nat
  BY KindFacts, BytesFacts
<1>2. d - 5 \in Nat /\ 5 + (d - 5) <= d /\ d <= d
  OBVIOUS
<1>3. (IF Kinds[k].declared THEN Len(Kinds[k].body) ELSE 0) \in Nat
  BY <1>1
<1> QED
  BY <1>1, <1>2, <1>3 DEF Reading, Fits, Requests

LEMMA WaitingFields ==
    ASSUME NEW d \in Nat
    PROVE  /\ Fits(Waiting(d)) /\ Waiting(d).len = d /\ Waiting(d).cacheSize = d
           /\ Waiting(d).bodyIndex = 0 /\ Waiting(d).bodySize = 0 /\ Waiting(d).bodyLength = 0
           /\ Waiting(d).provided = FALSE /\ Waiting(d).bodyless = FALSE /\ Waiting(d).error = FALSE
<1>1. 0 + 0 <= d /\ d <= d
  OBVIOUS
<1> QED
  BY <1>1 DEF Waiting, Cleared, Fits, Requests

LEMMA WaitingIs ==
    ASSUME NEW d \in Nat
    PROVE  Waiting(d) = [len |-> d, cacheSize |-> d, bodyIndex |-> 0, bodySize |-> 0, bodyLength |-> 0,
                         provided |-> FALSE, bodyless |-> FALSE, error |-> FALSE]
<1>1. /\ Cleared \in Requests /\ Cleared.bodyIndex = 0 /\ Cleared.bodySize = 0 /\ Cleared.bodyLength = 0
      /\ Cleared.provided = FALSE /\ Cleared.bodyless = FALSE /\ Cleared.error = FALSE
  BY DEF Cleared, Requests
<1>2. Waiting(d) = [len |-> d, cacheSize |-> d, bodyIndex |-> Cleared.bodyIndex,
                    bodySize |-> Cleared.bodySize, bodyLength |-> Cleared.bodyLength,
                    provided |-> Cleared.provided, bodyless |-> Cleared.bodyless, error |-> Cleared.error]
  <2> DEFINE w == Waiting(d)
  <2>1. w = [Cleared EXCEPT !.len = d, !.cacheSize = d]
    BY DEF Waiting
  <2> HIDE DEF w
  <2>2. w = [len |-> d, cacheSize |-> d, bodyIndex |-> Cleared.bodyIndex,
             bodySize |-> Cleared.bodySize, bodyLength |-> Cleared.bodyLength,
             provided |-> Cleared.provided, bodyless |-> Cleared.bodyless, error |-> Cleared.error]
    BY <1>1, <2>1 DEF Requests
  <2> QED  BY <2>2 DEF w
<1> QED
  BY <1>1, <1>2

\* What has come of a body is there after the next chunk, with the chunk.
LEMMA GotBody ==
    ASSUME NEW k \in DOMAIN Kinds, NEW d \in Nat, d >= 5, request = Reading(k, d),
           NEW n \in Nat, NEW b, Got(b, n)
    PROVE  b = Reading(k, d + n)
<1>1. /\ Fits(request) /\ request.len = d /\ request.bodyIndex = 5 /\ request.bodySize = d - 5
      /\ ~request.error
      /\ request.bodyLength = IF Kinds[k].declared THEN Len(Kinds[k].body) ELSE 0
      /\ request.provided = Kinds[k].declared /\ request.bodyless = Kinds[k].bodyless
  BY ReadingFields
<1>2. ~IsPendingHeader(request)
  BY <1>1 DEF IsPendingHeader
<1>3. b = WithBody(request, n)
  BY <1>2 DEF Got
<1>4. b = [len |-> request.len + n, cacheSize |-> request.len + n, bodyIndex |-> request.bodyIndex,
           bodySize |-> request.bodySize + n, bodyLength |-> request.bodyLength,
           provided |-> request.provided, bodyless |-> request.bodyless, error |-> request.error]
  BY <1>1, <1>3, WithBodyIs DEF Fits
<1>5. request.error = FALSE
  BY <1>1 DEF Fits, Requests
<1>6. (d - 5) + n = (d + n) - 5
  OBVIOUS
<1> QED
  BY <1>1, <1>4, <1>5, <1>6 DEF Reading

\* Nothing follows what was read without a chunk for the body.
LEMMA WithoutBody ==
    ASSUME NEW q \in Requests, q.cacheSize = q.len
    PROVE  WithBody(q, 0) = q
<1>1. WithBody(q, 0) = [len |-> q.len + 0, cacheSize |-> q.len + 0, bodyIndex |-> q.bodyIndex,
                        bodySize |-> q.bodySize + 0, bodyLength |-> q.bodyLength,
                        provided |-> q.provided, bodyless |-> q.bodyless, error |-> q.error]
  BY WithBodyIs
<1>2. q.len \in Nat /\ q.bodySize \in Nat
  BY RequestFields
<1>3. q.len + 0 = q.cacheSize /\ q.bodySize + 0 = q.bodySize /\ q.len + 0 = q.len
  BY <1>2
<1>4. q = [len |-> q.len, cacheSize |-> q.cacheSize, bodyIndex |-> q.bodyIndex,
           bodySize |-> q.bodySize, bodyLength |-> q.bodyLength,
           provided |-> q.provided, bodyless |-> q.bodyless, error |-> q.error]
  BY DEF Requests
<1> QED
  BY <1>1, <1>3, <1>4

\* A header is found whole, or nothing of its end was received.
LEMMA GotHeader ==
    ASSUME Messages, NEW m, AtStart(m), NEW d \in {0, 1}, request = Waiting(d),
           NEW n \in Nat, from + (d + n) <= Len(Stream), NEW b, Got(b, n)
    PROVE  /\ d + n < 5 => b = Waiting(d + n)
           /\ d + n >= 5 /\ Valid(m) => b = Reading(messages[m], d + n)
           /\ d + n >= 5 /\ ~Valid(m) => b.error
<1> DEFINE k == messages[m]
           len == d + n
<1>1. /\ Fits(request) /\ request.len = d /\ request.cacheSize = d
      /\ request.bodyIndex = 0 /\ request.bodySize = 0 /\ request.bodyLength = 0
      /\ request.provided = FALSE /\ request.bodyless = FALSE /\ request.error = FALSE
  <2>1. d \in Nat
    OBVIOUS
  <2> QED  BY <2>1, WaitingFields
<1>2. m \in DOMAIN messages /\ k \in DOMAIN Kinds
  BY MessageAt DEF AtStart
<1>3. len \in Nat
  OBVIOUS
<1>4. IsPendingHeader(request)
  BY <1>1 DEF IsPendingHeader
<1>5. PICK q \in ReceiveHeader(request, n) : b = WithBody(q, 0)
  BY <1>4 DEF Got
<1>6. Found(request, len) = IF len >= 5 THEN {1} ELSE {}
  <2>1. request.cacheSize \in {0, 1} /\ from + len <= Len(Stream)
    BY <1>1
  <2> HIDE DEF len
  <2> QED  BY <1>3, <2>1, FoundHere
<1>7. q \in IF Found(request, len) = {}
            THEN {[request EXCEPT !.len = len, !.cacheSize = IF len >= 3 THEN len - 3 ELSE 0]}
            ELSE UNION {{WithHeader(request, len, i, h) : h \in Parse(i)} : i \in Found(request, len)}
  BY <1>1, <1>5 DEF ReceiveHeader
<1>8. q \in Requests /\ q.len = len
  <2>1. Fits(q) /\ q.len = request.len + n
    BY <1>1, <1>5, HeaderTypes
  <2> QED  BY <1>1, <2>1 DEF Fits
<1> HIDE DEF len, k
<1>9. CASE ~(len >= 5)
  <2> DEFINE c == IF len >= 3 THEN len - 3 ELSE 0
  <2>1. q = [request EXCEPT !.len = len, !.cacheSize = c]
    BY <1>6, <1>7, <1>9
  <2>2. c \in Nat
    BY <1>3
  <2> HIDE DEF c
  <2>3. /\ q.bodyIndex = 0 /\ q.bodySize = 0 /\ q.bodyLength = 0
        /\ q.provided = FALSE /\ q.bodyless = FALSE /\ q.error = FALSE
    BY <1>1, <2>1 DEF Fits, Requests
  <2>4. b = [len |-> q.len + 0, cacheSize |-> q.len + 0, bodyIndex |-> q.bodyIndex,
             bodySize |-> q.bodySize + 0, bodyLength |-> q.bodyLength,
             provided |-> q.provided, bodyless |-> q.bodyless, error |-> q.error]
    BY <1>5, <1>8, WithBodyIs
  <2>5. len + 0 = len /\ 0 + 0 = 0
    BY <1>3
  <2>6. b = Waiting(len)
    <3>1. Waiting(len) = [len |-> len, cacheSize |-> len, bodyIndex |-> 0, bodySize |-> 0,
                          bodyLength |-> 0, provided |-> FALSE, bodyless |-> FALSE, error |-> FALSE]
      BY <1>3, WaitingIs
    <3>2. q.len + 0 = len /\ q.bodySize + 0 = 0
      BY <1>8, <2>3, <2>5
    <3> QED  BY <2>3, <2>4, <3>1, <3>2
  <2> QED  BY <1>9, <2>6 DEF len
<1>10. CASE len >= 5
  <2> DEFINE h == [valid |-> Valid(m), bodyless |-> Kinds[k].bodyless,
                   provided |-> Kinds[k].declared, bodyLength |-> Len(Kinds[k].body)]
  <2>1. Parse(1) = {h}
    BY ParseHere DEF k
  <2>2. h.valid = Valid(m) /\ h.bodyless = Kinds[k].bodyless /\ h.provided = Kinds[k].declared
        /\ h.bodyLength = Len(Kinds[k].body)
    OBVIOUS
  <2> HIDE DEF h
  <2>3. q = WithHeader(request, len, 1, h)
    BY <1>6, <1>7, <1>10, <2>1
  <2>4. CASE Valid(m)
    <3>1. q = [request EXCEPT !.len = len, !.cacheSize = len, !.bodyIndex = 1 + 4, !.bodySize = len - 1 - 4,
                     !.bodyless = h.bodyless, !.provided = h.provided,
                     !.bodyLength = IF h.provided THEN h.bodyLength ELSE 0]
      BY <2>2, <2>3, <2>4 DEF WithHeader
    <3>2. 1 + 4 = 5 /\ len - 1 - 4 = len - 5
      BY <1>3
    <3>3. q = [len |-> len, cacheSize |-> len, bodyIndex |-> 5, bodySize |-> len - 5,
               bodyLength |-> IF h.provided THEN h.bodyLength ELSE 0,
               provided |-> h.provided, bodyless |-> h.bodyless, error |-> FALSE]
      BY <1>1, <3>1, <3>2 DEF Fits, Requests
    <3>4. q = Reading(k, len) /\ q.cacheSize = q.len
      BY <2>2, <3>3 DEF Reading
    <3>5. b = Reading(k, len)
      BY <1>5, <1>8, <3>4, WithoutBody
    <3> QED  BY <1>10, <2>4, <3>5 DEF k, len
  <2>5. CASE ~Valid(m)
    <3>1. q = [request EXCEPT !.len = len, !.error = TRUE]
      BY <2>2, <2>3, <2>5 DEF WithHeader
    <3>2. q.error
      BY <1>1, <3>1 DEF Fits, Requests
    <3>3. b = [len |-> q.len + 0, cacheSize |-> q.len + 0, bodyIndex |-> q.bodyIndex,
               bodySize |-> q.bodySize + 0, bodyLength |-> q.bodyLength,
               provided |-> q.provided, bodyless |-> q.bodyless, error |-> q.error]
      BY <1>5, <1>8, WithBodyIs
    <3>4. b.error = q.error
      BY <3>3
    <3> QED  BY <1>10, <2>5, <3>2, <3>4 DEF len
  <2> QED  BY <2>4, <2>5
<1> QED
  BY <1>9, <1>10 DEF len

\* A body is complete with its last byte, and no sooner.
LEMMA CompleteHere ==
    ASSUME Messages, NEW m, AtStart(m), NEW d \in Nat, d >= 5,
           d <= 5 + Len(Kinds[messages[m]].body), from + d <= Len(Stream)
    PROVE  LET b == Reading(messages[m], d)
               l == Len(Kinds[messages[m]].body)
           IN  /\ BodyComplete(b) <=> d = 5 + l
               /\ BodyComplete(b) => BodyTaken(b) = l
<1> DEFINE k == messages[m]
           l == Len(Kinds[k].body)
           b == Reading(k, d)
<1>1. /\ m \in DOMAIN messages /\ from = StartOf(m) /\ k \in DOMAIN Kinds /\ from \in Nat /\ l \in Nat
      /\ \A i \in 1..l : Stream[StartOf(m) + (5 + i)] = Kinds[k].body[i]
  BY MessageAt DEF AtStart
<1>2. /\ b.len = d /\ b.bodyIndex = 5 /\ b.bodySize = d - 5
      /\ b.bodyLength = (IF Kinds[k].declared THEN l ELSE 0)
      /\ b.provided = Kinds[k].declared /\ b.bodyless = Kinds[k].bodyless
  BY <1>1, ReadingFields
<1>3. /\ Kinds[k].declared \in BOOLEAN /\ Kinds[k].bodyless \in BOOLEAN
      /\ Kinds[k].bodyless => ~Kinds[k].declared /\ l = 0
      /\ ~Kinds[k].bodyless /\ ~Kinds[k].declared =>
           LET t == Kinds[k].body
           IN  l = 5 /\ t[1] = "x" /\ t[2] = "r" /\ t[3] = "n" /\ t[4] = "r" /\ t[5] = "n"
  BY <1>1, KindFacts
<1> SUFFICES /\ BodyComplete(b) <=> d = 5 + l
             /\ BodyComplete(b) => BodyTaken(b) = l
  OBVIOUS
<1>4. d <= 5 + l
  OBVIOUS
<1> HIDE DEF b, l, k
<1>5. CASE Kinds[k].declared
  <2>1. BodyComplete(b) <=> d - 5 >= l
    BY <1>2, <1>5 DEF BodyComplete
  <2>2. BodyTaken(b) = l
    BY <1>2, <1>5 DEF BodyTaken
  <2>3. d - 5 >= l <=> d = 5 + l
    BY <1>1, <1>4
  <2> QED  BY <2>1, <2>2, <2>3
<1>6. CASE Kinds[k].bodyless
  <2>1. BodyComplete(b)
    BY <1>2, <1>3, <1>6 DEF BodyComplete
  <2>2. BodyTaken(b) = 0
    BY <1>2, <1>3, <1>6 DEF BodyTaken
  <2>3. l = 0
    BY <1>3, <1>6
  <2>4. d = 5 + l
    BY <1>4, <2>3
  <2> QED  BY <2>1, <2>2, <2>3, <2>4
<1>7. CASE ~Kinds[k].declared /\ ~Kinds[k].bodyless
  <2>1. l = 5
    BY <1>3, <1>7
  <2>2. /\ Stream[from + 6] = "x" /\ Stream[from + 7] = "r" /\ Stream[from + 8] = "n"
        /\ Stream[from + 9] = "r" /\ Stream[from + 10] = "n"
    <3>1. /\ 1 \in 1..l /\ 2 \in 1..l /\ 3 \in 1..l /\ 4 \in 1..l /\ 5 \in 1..l
          /\ 5 + 1 = 6 /\ 5 + 2 = 7 /\ 5 + 3 = 8 /\ 5 + 4 = 9 /\ 5 + 5 = 10
      BY <2>1
    <3>2. /\ Stream[from + (5 + 1)] = "x" /\ Stream[from + (5 + 2)] = "r" /\ Stream[from + (5 + 3)] = "n"
          /\ Stream[from + (5 + 4)] = "r" /\ Stream[from + (5 + 5)] = "n"
      BY <1>1, <1>3, <1>7, <3>1
    <3> QED  BY <3>1, <3>2
  <2>3. BodyComplete(b) <=> d - 5 >= 4 /\ SeparatorAt(5 + (d - 5) - 4, d)
    BY <1>2, <1>7 DEF BodyComplete
  <2>4. BodyTaken(b) = d - 5
    BY <1>2, <1>7 DEF BodyTaken
  <2>5. \A i \in Nat : SeparatorAt(i, d) <=>
             /\ i + 3 < d
             /\ Stream[from + i + 1] = "r" /\ Stream[from + i + 2] = "n"
             /\ Stream[from + i + 3] = "r" /\ Stream[from + i + 4] = "n"
    BY <1>1, SeparatorIs
  <2>6. CASE d = 10
    <3>1. SeparatorAt(6, 10)
      <4>1. from + 6 + 1 = from + 7 /\ from + 6 + 2 = from + 8 /\ from + 6 + 3 = from + 9
            /\ from + 6 + 4 = from + 10 /\ 6 \in Nat /\ 6 + 3 < 10
        BY <1>1
      <4> QED  BY <2>2, <2>5, <2>6, <4>1
    <3>2. 5 + (d - 5) - 4 = 6 /\ d - 5 >= 4 /\ d - 5 = 5 /\ 5 + 5 = 10
      BY <2>6
    <3> QED  BY <2>1, <2>3, <2>4, <2>6, <3>1, <3>2
  <2>7. CASE d = 9
    <3>1. ~SeparatorAt(5, 9)
      <4>1. from + 5 + 1 = from + 6 /\ 5 \in Nat
        BY <1>1
      <4> QED  BY <2>2, <2>5, <2>7, <4>1
    <3>2. 5 + (d - 5) - 4 = 5 /\ ~(d = 5 + 5)
      BY <2>7
    <3> QED  BY <2>1, <2>3, <2>7, <3>1, <3>2
  <2>8. CASE ~(d >= 9)
    <3>1. ~(d - 5 >= 4) /\ ~(d = 5 + 5)
      BY <2>8
    <3> QED  BY <2>1, <2>3, <3>1
  <2>9. d = 10 \/ d = 9 \/ ~(d >= 9)
    BY <1>4, <2>1
  <2> QED  BY <2>6, <2>7, <2>8, <2>9
<1> QED
  BY <1>3, <1>5, <1>6, <1>7

LEMMA NotYet ==
    ASSUME NEW d \in Nat
    PROVE  ~BodyComplete(Waiting(d))
<1>1. Waiting(d).bodySize = 0 /\ Waiting(d).provided = FALSE /\ Waiting(d).bodyless = FALSE
  BY WaitingFields
<1>2. ~(0 >= 4)
  OBVIOUS
<1> QED
  BY <1>1, <1>2 DEF BodyComplete

-----------------------------------------------------------------------------
(* In step with the messages *)

\* An open session is at the message behind those handed on.
LEMMA Current ==
    ASSUME RequestTypes, AtMessage, Len(handled) # Len(messages)
    PROVE  LET m == Len(handled) + 1
               d == received - from
           IN  /\ m \in DOMAIN messages /\ AtStart(m) /\ d \in Nat /\ received < EndOf(m)
               /\ \/ d \in {0, 1} /\ request = Waiting(d)
                  \/ d >= 5 /\ Valid(m) /\ request = Reading(messages[m], d)
<1> DEFINE m == Len(handled) + 1
           d == received - from
<1>1. /\ messages \in Seq(MessageKinds) /\ handled \in Seq(Handling)
      /\ received \in Nat /\ from \in Nat /\ from <= received
  BY DEF RequestTypes, Handling
<1>2. Len(handled) \in Nat /\ Len(messages) \in Nat /\ DOMAIN messages = 1..Len(messages)
  BY <1>1
<1>3. Len(handled) < Len(messages) /\ from = Len(FirstBytes(messages)[Len(handled)])
  BY <1>2 DEF AtMessage
<1>4. m \in DOMAIN messages /\ m - 1 = Len(handled)
  BY <1>2, <1>3
<1>5. AtStart(m)
  BY <1>3, <1>4 DEF AtStart, StartOf
<1>6. d \in Nat
  BY <1>1
<1> QED
  BY <1>3, <1>4, <1>5, <1>6 DEF AtMessage

\* The whole stream lies before the session when all its messages do.
LEMMA AllHanded ==
    ASSUME RequestTypes, AtMessage, Len(handled) = Len(messages)
    PROVE  received = Len(Stream) /\ received = from
  BY DEF AtMessage, Stream

\* Every request handed on before is as it was.
LEMMA StillExact ==
    ASSUME RequestTypes, ExactRequests, messages' = messages,
           \A k \in DOMAIN handled : ~handled[k].cut,
           NEW m, m = Len(handled) + 1, m \in DOMAIN messages, Valid(m),
           NEW x, x.from = StartOf(m), x.bodyFrom = HeaderOf(m),
           handled' = Append(handled, x), x \in Handling,
           ~x.cut => x.size = Len(Kinds[messages[m]].body),
           x.cut => x.last < EndOf(m)
    PROVE  ExactRequests' /\ Len(handled') = m /\ (~x.cut => \A k \in DOMAIN handled' : ~handled'[k].cut)
<1>1. handled \in Seq(Handling)
  BY DEF RequestTypes, Handling
<1>2. /\ Len(handled) \in Nat /\ Len(handled') = m
      /\ DOMAIN handled = 1..Len(handled) /\ DOMAIN handled' = 1..m
      /\ \A i \in 1..Len(handled) : handled'[i] = handled[i]
      /\ handled'[m] = x
  <2>1. \A s \in Seq(Handling), y \in Handling :
          /\ Len(s) \in Nat /\ Len(Append(s, y)) = Len(s) + 1
          /\ DOMAIN s = 1..Len(s) /\ DOMAIN Append(s, y) = 1..(Len(s) + 1)
          /\ \A i \in 1..Len(s) : Append(s, y)[i] = s[i]
          /\ Append(s, y)[Len(s) + 1] = y
    BY OneMore
  <2> QED  BY <1>1, <2>1
<1>3. \A i \in 1..m : i \in 1..Len(handled) \/ i = m
  BY <1>2
<1>4. /\ \A k : StartOf(k)' = StartOf(k) /\ HeaderOf(k)' = HeaderOf(k) /\ EndOf(k)' = EndOf(k)
      /\ \A k : Valid(k)' = Valid(k)
  BY Unmoved
<1>5. ASSUME NEW k \in DOMAIN handled'
      PROVE  /\ k \in DOMAIN messages
             /\ handled'[k].from = StartOf(k)
             /\ handled'[k].bodyFrom = HeaderOf(k)
             /\ Valid(k)
             /\ ~handled'[k].cut => handled'[k].size = Len(Kinds[messages[k]].body)
             /\ handled'[k].cut => k = Len(handled') /\ handled'[k].last < EndOf(k)
  <2>1. CASE k \in 1..Len(handled)
    BY <1>2, <2>1 DEF ExactRequests
  <2>2. CASE k = m
    BY <1>2, <2>2
  <2> QED  BY <1>2, <1>3, <2>1, <2>2
<1>6. ExactRequests'
  BY <1>4, <1>5 DEF ExactRequests
<1>7. ~x.cut => \A k \in DOMAIN handled' : ~handled'[k].cut
  BY <1>2, <1>3
<1> QED
  BY <1>2, <1>6, <1>7

LEMMA ReceivedInStep ==
    ASSUME RequestInv, NEW n \in 1..Len(Stream), OnReceived(n)
    PROVE  InStep'
<1> SUFFICES ASSUME ~split', ~overran'
             PROVE  ExactRequests' /\ (open' => AtMessage')
  BY DEF InStep
<1>1. /\ open /\ messages' = messages /\ NoteChunk(n)
      /\ received' = received + n /\ received + n <= Len(Stream)
  BY Received DEF RequestInv
<1>2. PICK b : /\ Got(b, n)
               /\ \/ /\ b.error
                     /\ open' = FALSE /\ Clear /\ handled' = handled
                  \/ /\ ~b.error /\ BodyComplete(b)
                     /\ Handle(b, BodyTaken(b), FALSE) /\ Clear /\ open' = open
                  \/ /\ ~b.error /\ ~BodyComplete(b)
                     /\ request' = b /\ from' = from /\ open' = open /\ handled' = handled
  BY Received DEF RequestInv
<1>3. RequestTypes /\ ExactRequests /\ AtMessage
  <2>1. ~split /\ ~overran
    BY <1>1 DEF NoteChunk
  <2> QED  BY <1>1, <2>1 DEF RequestInv, InStep
<1>4. /\ Messages /\ from \in Nat /\ received \in Nat /\ from <= received
      /\ handled \in Seq(Handling) /\ open \in BOOLEAN
  BY <1>3 DEF RequestTypes, Messages, Handling
<1>5. n \in Nat /\ n >= 1 /\ Len(Stream) \in Nat
  BY <1>4, StreamOctets
<1>6. Len(handled) # Len(messages)
  <2> SUFFICES ASSUME Len(handled) = Len(messages)  PROVE FALSE
    OBVIOUS
  <2>1. received = Len(Stream)
    BY <1>3, AllHanded
  <2> QED  BY <1>1, <1>5, <2>1
<1>m. PICK m : m = Len(handled) + 1
  OBVIOUS
<1>d. PICK d : d = received - from
  OBVIOUS
<1> DEFINE k == messages[m]
           l == Len(Kinds[k].body)
<1>7. /\ m \in DOMAIN messages /\ AtStart(m) /\ d \in Nat /\ received < EndOf(m)
      /\ \/ d \in {0, 1} /\ request = Waiting(d)
         \/ d >= 5 /\ Valid(m) /\ request = Reading(k, d)
  BY <1>3, <1>6, <1>m, <1>d, Current
<1>8. /\ k \in DOMAIN Kinds /\ l \in Nat /\ from = StartOf(m)
      /\ HeaderOf(m) = from + 5 /\ EndOf(m) = from + (5 + l)
      /\ EndOf(m) = Len(FirstBytes(messages)[m]) /\ EndOf(m) <= Len(Stream)
  BY <1>4, <1>7, MessageAt DEF AtStart
<1>9. /\ received + n = from + (d + n) /\ received = from + d
      /\ d + n \in Nat /\ d + n >= 1
  BY <1>4, <1>5, <1>7, <1>d
<1>10. d + n <= 5 + l
  <2>1. ~(received < EndOf(m) /\ EndOf(m) < received + n)
    BY <1>1, <1>7 DEF NoteChunk
  <2>2. ~(from + (5 + l) < from + (d + n))
    BY <1>7, <1>8, <1>9, <2>1
  <2> HIDE DEF l
  <2> QED  BY <1>4, <1>8, <1>9, <2>2
<1>11. d + n = 1 \/ d + n >= 5
  <2>1. ~(received + n \in (HeaderOf(m) - 3)..(HeaderOf(m) - 1))
    BY <1>1, <1>7 DEF NoteChunk
  <2>2. ~(from + (d + n) \in ((from + 5) - 3)..((from + 5) - 1))
    BY <1>8, <1>9, <2>1
  <2>3. \A f, e \in Nat : ~(f + e \in ((f + 5) - 3)..((f + 5) - 1)) /\ e >= 1 => e = 1 \/ e >= 5
    OBVIOUS
  <2> QED  BY <1>4, <1>9, <2>2, <2>3
<1>12. from + (d + n) <= Len(Stream)
  BY <1>1, <1>9
<1> HIDE DEF k, l
<1>13. /\ d + n < 5 => b = Waiting(d + n)
       /\ d + n >= 5 /\ Valid(m) => b = Reading(k, d + n)
       /\ d + n >= 5 /\ ~Valid(m) => b.error
  <2>1. CASE d \in {0, 1} /\ request = Waiting(d)
    BY <1>2, <1>4, <1>5, <1>7, <1>12, <2>1, GotHeader DEF k
  <2>2. CASE d >= 5 /\ Valid(m) /\ request = Reading(k, d)
    <3>1. b = Reading(k, d + n)
      BY <1>2, <1>5, <1>7, <1>8, <2>2, GotBody
    <3>2. ~(d + n < 5)
      BY <1>5, <1>7, <2>2
    <3> QED  BY <2>2, <3>1, <3>2
  <2> QED  BY <1>7, <2>1, <2>2
<1>14. CASE b.error /\ open' = FALSE /\ Clear /\ handled' = handled
  <2>1. ExactRequests'
    BY <1>1, <1>3, <1>14, Unmoved DEF ExactRequests
  <2> QED  BY <1>14, <2>1
<1>15. CASE /\ ~b.error /\ BodyComplete(b)
            /\ Handle(b, BodyTaken(b), FALSE) /\ Clear /\ open' = open
  <2>1. d + n >= 5 /\ Valid(m) /\ b = Reading(k, d + n)
    <3>1. ~(d + n < 5)
      BY <1>9, <1>13, <1>15, NotYet
    <3> QED  BY <1>11, <1>13, <1>15, <3>1
  <2>2. (BodyComplete(b) <=> d + n = 5 + l) /\ (BodyComplete(b) => BodyTaken(b) = l)
    BY <1>4, <1>7, <1>9, <1>10, <1>12, <2>1, CompleteHere DEF k, l
  <2>3. d + n = 5 + l /\ BodyTaken(b) = l /\ received' = EndOf(m)
    BY <1>1, <1>8, <1>9, <1>15, <2>2
  <2>4. b.bodyIndex = 5
    BY <1>8, <1>9, <2>1, ReadingFields
  <2> DEFINE x == [from |-> from, bodyFrom |-> from + b.bodyIndex, size |-> BodyTaken(b),
                   last |-> received', cut |-> FALSE]
  <2>5. handled' = Append(handled, x)
    BY <1>15 DEF Handle
  <2>6. /\ x.from = StartOf(m) /\ x.bodyFrom = HeaderOf(m) /\ x.size = l /\ x.cut = FALSE
        /\ x \in Handling
    <3>1. from + 5 \in Nat /\ received' \in Nat
      BY <1>1, <1>4, <1>5
    <3> QED  BY <1>4, <1>8, <2>3, <2>4, <3>1 DEF Handling
  <2> HIDE DEF x
  <2>7. /\ ExactRequests' /\ Len(handled') = m
        /\ \A i \in DOMAIN handled' : ~handled'[i].cut
    <3>1. \A i \in DOMAIN handled : ~handled[i].cut
      BY <1>3 DEF AtMessage
    <3>2. m = Len(handled) + 1 /\ x.size = Len(Kinds[messages[m]].body) /\ ~x.cut
      BY <1>m, <2>6 DEF l, k
    <3> QED  BY <1>1, <1>3, <1>7, <2>1, <2>5, <2>6, <3>1, <3>2, StillExact
  <2>8. AtMessage'
    <3>1. m \in 1..Len(messages) /\ Len(messages) \in Nat
      BY <1>4, <1>7 DEF Messages
    <3>2. from' = received' /\ request' = Cleared /\ from' = Len(FirstBytes(messages)[m])
      BY <1>8, <1>15, <2>3 DEF Clear
    <3>3. ASSUME m + 1 \in DOMAIN messages
          PROVE  received' < EndOf(m + 1) /\ received' - from' = 0
      <4>1. \A i : i - 1 = m => StartOf(i) = Len(FirstBytes(messages)[m])
        BY DEF StartOf
      <4>2. StartOf(m + 1) = Len(FirstBytes(messages)[m])
        <5> DEFINE i == m + 1
        <5>1. i - 1 = m
          BY <3>1
        <5> HIDE DEF i
        <5>2. StartOf(i) = Len(FirstBytes(messages)[m])
          BY <4>1, <5>1
        <5> QED  BY <5>2 DEF i
      <4>3. StartOf(m + 1) = received'
        BY <3>2, <4>2
      <4>4. /\ StartOf(m + 1) \in Nat /\ Len(Kinds[messages[m + 1]].body) \in Nat
            /\ EndOf(m + 1) = StartOf(m + 1) + (5 + Len(Kinds[messages[m + 1]].body))
        BY <1>4, <3>3, MessageAt
      <4>5. \A a, c \in Nat : a < a + (5 + c) /\ a - a = 0
        OBVIOUS
      <4> QED  BY <3>2, <4>3, <4>4, <4>5
    <3>4. request' = Waiting(0)
      <4>1. Cleared = [len |-> 0, cacheSize |-> 0, bodyIndex |-> 0, bodySize |-> 0, bodyLength |-> 0,
                       provided |-> FALSE, bodyless |-> FALSE, error |-> FALSE]
        BY DEF Cleared
      <4> QED  BY <3>2, <4>1, WaitingIs
    <3>5. \A i : EndOf(i)' = EndOf(i)
      BY <1>1, Unmoved
    <3>6. m <= Len(messages)
      BY <3>1
    <3>7. ASSUME NEW M \in DOMAIN messages', M = Len(handled') + 1
          PROVE  /\ received' < EndOf(M)'
                 /\ received' - from' \in {0, 1} /\ request' = Waiting(received' - from')
      <4>1. M = m + 1 /\ M \in DOMAIN messages
        BY <1>1, <2>7, <3>7
      <4>2. received' < EndOf(M) /\ received' - from' = 0
        BY <3>3, <4>1
      <4> QED  BY <3>4, <3>5, <4>2
    <3>8. Len(handled') = Len(messages') => received' = from'
      BY <3>2
    <3> QED  BY <1>1, <2>7, <3>2, <3>6, <3>7, <3>8 DEF AtMessage
  <2> QED  BY <2>7, <2>8
<1>16. CASE /\ ~b.error /\ ~BodyComplete(b) /\ request' = b /\ from' = from
            /\ open' = open /\ handled' = handled
  <2>1. ExactRequests'
    BY <1>1, <1>3, <1>16, Unmoved DEF ExactRequests
  <2>2. received' - from' = d + n
    BY <1>1, <1>4, <1>5, <1>16, <1>d
  <2>3. \/ d + n = 1 /\ b = Waiting(1)
        \/ d + n >= 5 /\ Valid(m) /\ b = Reading(k, d + n)
    <3>1. CASE d + n = 1
      <4>1. d + n < 5
        BY <3>1
      <4> QED  BY <1>13, <3>1, <4>1
    <3>2. CASE d + n >= 5
      BY <1>13, <1>16, <3>2
    <3> QED  BY <1>11, <3>1, <3>2
  <2>4. received' < EndOf(m)
    <3>1. CASE d + n = 1
      <4>1. \A f, c \in Nat : f + 1 < f + (5 + c)
        OBVIOUS
      <4> QED  BY <1>1, <1>4, <1>8, <1>9, <3>1, <4>1
    <3>2. CASE d + n >= 5 /\ b = Reading(k, d + n)
      <4>1. d + n # 5 + l
        BY <1>4, <1>7, <1>9, <1>10, <1>12, <1>16, <3>2, CompleteHere DEF k, l
      <4>2. \A f, e, c \in Nat : e <= 5 + c /\ e # 5 + c => f + e < f + (5 + c)
        OBVIOUS
      <4> QED  BY <1>1, <1>4, <1>8, <1>9, <1>10, <4>1, <4>2
    <3> QED  BY <2>3, <3>1, <3>2
  <2>5. AtMessage'
    <3>1. /\ \A i : EndOf(i)' = EndOf(i)
          /\ \A i : Valid(i)' = Valid(i)
      BY <1>1, Unmoved
    <3>2. m = Len(handled') + 1
      BY <1>16, <1>m
    <3>3. ASSUME NEW M \in DOMAIN messages', M = Len(handled') + 1
          PROVE  /\ received' < EndOf(M)'
                 /\ \/ received' - from' \in {0, 1} /\ request' = Waiting(received' - from')
                    \/ /\ received' - from' >= 5 /\ Valid(M)'
                       /\ request' = Reading(messages'[M], received' - from')
      <4>1. M = m
        BY <3>2, <3>3
      <4>2. received' < EndOf(M)'
        BY <2>4, <3>1, <4>1
      <4>3. CASE d + n = 1 /\ b = Waiting(1)
        BY <1>16, <2>2, <4>2, <4>3
      <4>4. CASE d + n >= 5 /\ Valid(m) /\ b = Reading(k, d + n)
        BY <1>1, <1>16, <2>2, <3>1, <4>1, <4>2, <4>4 DEF k
      <4> QED  BY <2>3, <4>3, <4>4
    <3>4. /\ \A i \in DOMAIN handled' : ~handled'[i].cut
          /\ Len(handled') <= Len(messages') /\ Len(handled') # Len(messages')
          /\ from' = Len(FirstBytes(messages')[Len(handled')])
      BY <1>1, <1>3, <1>6, <1>16 DEF AtMessage
    <3> QED  BY <3>3, <3>4 DEF AtMessage
  <2> QED  BY <2>1, <2>5
<1> QED
  BY <1>2, <1>14, <1>15, <1>16

\* What has come of a body is handed on, of the message the session is at.
LEMMA DisconnectedInStep ==
    ASSUME RequestInv, OnDisconnected
    PROVE  InStep'
<1> SUFFICES ASSUME ~split', ~overran'
             PROVE  ExactRequests' /\ (open' => AtMessage')
  BY DEF InStep
<1>1. /\ open /\ open' = FALSE
      /\ messages' = messages /\ received' = received /\ split' = split /\ overran' = overran
  BY DEF OnDisconnected
<1>2. RequestTypes /\ ExactRequests /\ AtMessage
  BY <1>1 DEF RequestInv, InStep
<1>3. CASE IsPendingBody(request)
  <2>1. Handle(request, request.bodySize, TRUE)
    BY <1>3 DEF OnDisconnected
  <2>2. request.bodyIndex > 0
    BY <1>3 DEF IsPendingBody
  <2>3. Len(handled) # Len(messages)
    <3> SUFFICES ASSUME Len(handled) = Len(messages)  PROVE FALSE
      OBVIOUS
    <3>1. received = from
      BY <1>2, AllHanded
    <3>2. /\ request.bodyIndex \in Nat /\ request.bodySize \in Nat /\ request.len \in Nat
          /\ request.bodyIndex + request.bodySize <= request.len /\ request.len = received - from
          /\ received \in Nat
      BY <1>2, RequestFields DEF RequestTypes
    <3> QED  BY <2>2, <3>1, <3>2
  <2>4. PICK m : m = Len(handled) + 1
    OBVIOUS
  <2>5. PICK d : d = received - from
    OBVIOUS
  <2>6. /\ m \in DOMAIN messages /\ AtStart(m) /\ d \in Nat /\ received < EndOf(m)
        /\ \/ d \in {0, 1} /\ request = Waiting(d)
           \/ d >= 5 /\ Valid(m) /\ request = Reading(messages[m], d)
    BY <1>2, <2>3, <2>4, <2>5, Current
  <2>7. /\ messages[m] \in DOMAIN Kinds /\ from = StartOf(m) /\ StartOf(m) \in Nat
        /\ HeaderOf(m) = StartOf(m) + 5
    BY <1>2, <2>6, MessageAt DEF AtStart, RequestTypes, Messages
  <2>8. Valid(m) /\ request = Reading(messages[m], d) /\ d >= 5
    <3>1. ~(request = Waiting(d))
      <4>1. Waiting(d).bodyIndex = 0
        BY <2>6, WaitingFields
      <4> QED  BY <2>2, <4>1
    <3> QED  BY <2>6, <3>1
  <2>9. request.bodyIndex = 5
    BY <2>6, <2>7, <2>8, ReadingFields
  <2> DEFINE x == [from |-> from, bodyFrom |-> from + request.bodyIndex, size |-> request.bodySize,
                   last |-> received', cut |-> TRUE]
  <2>10. handled' = Append(handled, x)
    BY <2>1 DEF Handle
  <2>11. /\ x.from = StartOf(m) /\ x.bodyFrom = HeaderOf(m) /\ x.cut = TRUE
         /\ x.last < EndOf(m) /\ x \in Handling
    <3>1. from + 5 \in Nat /\ received \in Nat /\ request.bodySize \in Nat
      BY <1>2, <2>7, RequestFields DEF RequestTypes
    <3> QED  BY <1>1, <2>6, <2>7, <2>9, <3>1 DEF Handling
  <2> HIDE DEF x
  <2>12. \A i \in DOMAIN handled : ~handled[i].cut
    BY <1>2 DEF AtMessage
  <2>13. ExactRequests'
    BY <1>1, <1>2, <2>4, <2>6, <2>8, <2>10, <2>11, <2>12, StillExact
  <2> QED  BY <1>1, <2>13
<1>4. CASE ~IsPendingBody(request)
  <2>1. handled' = handled
    BY <1>4 DEF OnDisconnected
  <2>2. ExactRequests'
    BY <1>1, <1>2, <2>1, Unmoved DEF ExactRequests
  <2> QED  BY <1>1, <2>2
<1> QED
  BY <1>3, <1>4

-----------------------------------------------------------------------------
(* The theorems *)

LEMMA InitInv == Init => RequestInv
<1> SUFFICES ASSUME Init  PROVE RequestInv
  OBVIOUS
<1>1. /\ received = 0 /\ from = 0 /\ request = Cleared /\ open = TRUE
      /\ handled = <<>> /\ split = FALSE /\ overran = FALSE
  BY DEF Init
<1>2. messages \in Seq(MessageKinds) /\ Len(messages) \in Nat /\ Len(messages) > 0
  <2>1. PICK n \in 1..MaxMessages : messages \in [1..n -> MessageKinds]
    BY DEF Init
  <2>2. n \in Nat /\ n > 0
    BY HttpAssumption, <2>1
  <2> QED  BY <2>1, <2>2
<1>3. Messages /\ messages \in Seq(DOMAIN Kinds)
  BY <1>2, HttpAssumption DEF Messages
<1>4. Len(Stream) \in Nat
  BY <1>3, StreamOctets
<1>5. request = Waiting(0) /\ Fits(request) /\ request.error = FALSE /\ request.len = 0
  <2>1. Cleared = [len |-> 0, cacheSize |-> 0, bodyIndex |-> 0, bodySize |-> 0, bodyLength |-> 0,
                   provided |-> FALSE, bodyless |-> FALSE, error |-> FALSE]
    BY DEF Cleared
  <2>2. 0 \in Nat
    OBVIOUS
  <2>3. request = Waiting(0)
    BY <1>1, <2>1, <2>2, WaitingIs
  <2> QED  BY <2>2, <2>3, WaitingFields
<1>6. RequestTypes
  <2>1. handled \in Seq([from : Nat, bodyFrom : Nat, size : Nat, last : Nat, cut : BOOLEAN])
    BY <1>1
  <2>2. 0 <= Len(Stream) /\ 0 - 0 = 0 /\ 0 <= 0
    BY <1>4
  <2> QED  BY <1>1, <1>2, <1>5, <2>1, <2>2 DEF RequestTypes, Fits
<1>7. DOMAIN handled = {} /\ Len(handled) = 0
  BY <1>1
<1>8. Behind /\ RequestsDisjoint /\ ExactRequests
  BY <1>7 DEF Behind, RequestsDisjoint, ExactRequests
<1>9. AtMessage
  <2>1. from = Len(FirstBytes(messages)[0])
    <3>1. FirstBytes(messages)[0] = <<>>
      BY <1>3, FirstBytesAre
    <3> QED  BY <1>1, <3>1
  <2>2. 0 <= Len(messages) /\ 0 # Len(messages)
    BY <1>2
  <2>3. ASSUME NEW m \in DOMAIN messages, m = Len(handled) + 1
        PROVE  /\ received < EndOf(m)
               /\ received - from \in {0, 1} /\ request = Waiting(received - from)
    <3>1. m = 1 /\ m - 1 = 0
      BY <1>7, <2>3
    <3>2. /\ StartOf(m) \in Nat /\ Len(Kinds[messages[m]].body) \in Nat
          /\ EndOf(m) = StartOf(m) + (5 + Len(Kinds[messages[m]].body))
      BY <1>3, MessageAt
    <3>3. \A a, c \in Nat : 0 < a + (5 + c)
      OBVIOUS
    <3>4. 0 - 0 = 0
      OBVIOUS
    <3> QED  BY <1>1, <1>5, <3>2, <3>3, <3>4
  <2> QED  BY <1>7, <2>1, <2>2, <2>3 DEF AtMessage
<1> QED
  BY <1>6, <1>8, <1>9 DEF RequestInv, InStep

LEMMA NextInv == RequestInv /\ [Next]_vars => RequestInv'
<1> SUFFICES ASSUME RequestInv, [Next]_vars  PROVE RequestInv'
  OBVIOUS
<1>1. RequestTypes /\ Behind /\ RequestsDisjoint
  BY DEF RequestInv
<1>2. CASE OnDisconnected
  <2>1. RequestTypes' /\ Behind' /\ RequestsDisjoint'
    BY <1>1, <1>2, DisconnectedTypes
  <2>2. InStep'
    BY <1>2, DisconnectedInStep
  <2> QED  BY <2>1, <2>2 DEF RequestInv
<1>3. ASSUME NEW n \in 1..Len(Stream), OnReceived(n)  PROVE RequestInv'
  <2>1. RequestTypes' /\ Behind' /\ RequestsDisjoint'
    BY <1>1, <1>3, ReceivedTypes
  <2>2. InStep'
    BY <1>3, ReceivedInStep
  <2> QED  BY <2>1, <2>2 DEF RequestInv
<1>4. CASE UNCHANGED vars
  BY <1>4 DEF vars, RequestInv, RequestTypes, Behind, RequestsDisjoint, InStep, ExactRequests, AtMessage,
              Stream, StartOf, HeaderOf, EndOf, Valid
<1> QED
  BY <1>2, <1>3, <1>4 DEF Next

LEMMA Invariant == Spec => []RequestInv
  BY InitInv, NextInv, PTL DEF Spec

\* The indices lie within the cache and the cache within what was received,
\* and a chunk of any size keeps them there.
THEOREM TypeCorrect == Spec => []TypeOK
<1>1. RequestInv => TypeOK
  <2> SUFFICES ASSUME RequestInv  PROVE TypeOK
    OBVIOUS
  <2>1. RequestTypes
    BY DEF RequestInv
  <2>2. /\ request.cacheSize \in Nat /\ request.len \in Nat
        /\ request.error \in BOOLEAN /\ request.provided \in BOOLEAN /\ request.bodyless \in BOOLEAN
    BY <2>1, RequestFields DEF RequestTypes
  <2>3. Len(Stream) \in Nat
    BY <2>1, StreamOctets DEF RequestTypes, Messages
  <2> QED  BY <2>1, <2>2, <2>3 DEF TypeOK, RequestTypes
<1> QED
  BY <1>1, Invariant, PTL

\* Requests are disjoint pieces of what was received, in order, and the
\* messages themselves while the chunks are of neither harmful kind.
THEOREM Exact == Spec => []RequestsExact
<1>1. RequestInv => RequestsExact
  BY DEF RequestInv, InStep, ExactRequests, RequestsExact
<1> QED
  BY <1>1, Invariant, PTL

\* While the chunks are of neither harmful kind, the handler was called for
\* every message that was received to its last byte.
THEOREM NoneMissed == Spec => []AlignedNotified
<1>1. RequestInv => AlignedNotified
  <2> SUFFICES ASSUME RequestInv, ~split, ~overran, open,
                      NEW i \in DOMAIN messages, EndOf(i) <= received, ~(i <= Len(handled))
               PROVE  FALSE
    BY DEF AlignedNotified, Notified
  <2>1. RequestTypes /\ AtMessage /\ Messages
    BY DEF RequestInv, InStep, RequestTypes, Messages
  <2>2. i \in 1..Len(messages) /\ Len(messages) \in Nat /\ Len(handled) \in Nat /\ received \in Nat
    <3>1. handled \in Seq(Handling) /\ messages \in Seq(MessageKinds) /\ received \in Nat
      BY <2>1 DEF RequestTypes, Handling
    <3> QED  BY <3>1
  <2>3. Len(handled) # Len(messages)
    BY <2>2
  <2>4. PICK m : m = Len(handled) + 1
    OBVIOUS
  <2>5. m \in DOMAIN messages /\ received < EndOf(m) /\ m <= i
    BY <2>1, <2>2, <2>3, <2>4, Current
  <2>6. EndOf(m) <= EndOf(i)
    BY <2>1, <2>5, MessagesApart
  <2>7. EndOf(m) \in Nat /\ EndOf(i) \in Nat
    <3>1. \A x \in DOMAIN messages : EndOf(x) \in Nat
      <4>1. TAKE x \in DOMAIN messages
      <4>2. /\ StartOf(x) \in Nat /\ Len(Kinds[messages[x]].body) \in Nat
            /\ EndOf(x) = StartOf(x) + (5 + Len(Kinds[messages[x]].body))
        BY <2>1, MessageAt
      <4> QED  BY <4>2
    <3> QED  BY <2>5, <3>1
  <2> QED  BY <2>2, <2>5, <2>6, <2>7
<1> QED
  BY <1>1, Invariant, PTL

=============================================================================
