--------------------------- MODULE SSLSessionProofs ---------------------------
(***************************************************************************)
(* Theorems about SSLSession, for any number of sending threads, every     *)
(* bound and every limit: the TLS stream has one read and one write under  *)
(* way, a handshake that is late does no harm, and bytes leave in the      *)
(* order in which SendAsync accepted them.                                 *)
(***************************************************************************)
EXTENDS SSLSession, Integers, SequenceTheorems, TLAPS

-----------------------------------------------------------------------------
(* The stream: the wire, the rest of the flush buffer and the main buffer *)

\* What a write is given: the buffer from the offset on.
LEMMA RestOf ==
    ASSUME NEW s \in Seq(Nat), NEW o \in 0..Len(s)
    PROVE  /\ SubSeq(s, o + 1, Len(s)) \in Seq(Nat)
           /\ Len(SubSeq(s, o + 1, Len(s))) = Len(s) - o
           /\ \A i \in 1..(Len(s) - o) : SubSeq(s, o + 1, Len(s))[i] = s[o + i]
  OBVIOUS

\* What the socket took of a write: its first n bytes.
LEMMA FirstOf ==
    ASSUME NEW s \in Seq(Nat), NEW n \in 1..Len(s)
    PROVE  /\ SubSeq(s, 1, n) \in Seq(Nat)
           /\ Len(SubSeq(s, 1, n)) = n
           /\ \A i \in 1..n : SubSeq(s, 1, n)[i] = s[i]
  OBVIOUS

\* One sequence behind another.
LEMMA Joined ==
    ASSUME NEW s \in Seq(Nat), NEW t \in Seq(Nat)
    PROVE  /\ s \o t \in Seq(Nat)
           /\ Len(s \o t) = Len(s) + Len(t)
           /\ \A i \in 1..Len(s) : (s \o t)[i] = s[i]
           /\ \A i \in 1..Len(t) : (s \o t)[Len(s) + i] = t[i]
  OBVIOUS

\* Bytes with the same numbers are the same.
LEMMA SameNumbers ==
    ASSUME NEW a \in Nat, NEW s \in Seq(Nat), NEW t \in Seq(Nat), Len(s) = Len(t),
           \A i \in 1..Len(s) : s[i] = a + i,
           \A i \in 1..Len(t) : t[i] = a + i
    PROVE  s = t
<1>1. \A i \in 1..Len(s) : s[i] = t[i]
  OBVIOUS
<1> QED
  BY <1>1, SeqEqual

\* Bytes with the next numbers.
LEMMA NextNumbers ==
    ASSUME NEW a \in Nat, NEW n \in Nat
    PROVE  /\ [i \in 1..n |-> a + i] \in Seq(Nat)
           /\ Len([i \in 1..n |-> a + i]) = n
           /\ \A k \in 1..n : [i \in 1..n |-> a + i][k] = a + k
  OBVIOUS

\* A write that is taken out leaves the others.
LEMMA TakenOut ==
    ASSUME NEW S, NEW w \in Seq(S), NEW k \in DOMAIN w
    PROVE  SubSeq(w, 1, k - 1) \o SubSeq(w, k + 1, Len(w)) \in Seq(S)
  OBVIOUS

\* Of one write, none is left.
LEMMA OnlyTakenOut ==
    ASSUME NEW S, NEW w \in Seq(S), Len(w) = 1
    PROVE  SubSeq(w, 1, 0) \o SubSeq(w, 2, Len(w)) = <<>>
  OBVIOUS

\* The wire w, the flush buffer f from offset o on and the main buffer m are,
\* one after the other, the bytes 1..a.
Streams(w, f, o, m, a) ==
    /\ \A i \in 1..Len(w) : w[i] = i
    /\ a = Len(w) + ((Len(f) - o) + Len(m))
    /\ \A i \in 1..(Len(f) - o) : f[o + i] = Len(w) + i
    /\ \A i \in 1..Len(m) : m[i] = Len(w) + (Len(f) - o) + i

\* SendAsync puts the next n bytes behind the main buffer.
LEMMA StreamGrows ==
    ASSUME NEW w \in Seq(Nat), NEW f \in Seq(Nat), NEW o \in 0..Len(f), NEW m \in Seq(Nat), NEW a \in Nat,
           Streams(w, f, o, m, a), NEW t \in Seq(Nat), \A i \in 1..Len(t) : t[i] = a + i
    PROVE  Streams(w, f, o, m \o t, a + Len(t))
<1>1. Len(w) \in Nat /\ Len(f) \in Nat /\ Len(m) \in Nat /\ Len(t) \in Nat
  OBVIOUS
<1>2. \A i \in 1..Len(m \o t) : (m \o t)[i] = Len(w) + (Len(f) - o) + i
  BY DEF Streams
<1>3. a + Len(t) = Len(w) + ((Len(f) - o) + Len(m \o t))
  BY DEF Streams
<1> QED
  BY <1>2, <1>3 DEF Streams

\* TrySend swaps the buffers when the flush buffer is empty.
LEMMA StreamSwaps ==
    ASSUME NEW w \in Seq(Nat), NEW m \in Seq(Nat), NEW a \in Nat, Streams(w, <<>>, 0, m, a)
    PROVE  Streams(w, m, 0, <<>>, a)
  BY DEF Streams

\* The first n bytes t of what TrySend handed over, the flush buffer from its
\* offset on, are the next of the stream, and go behind the wire.
Moves(w, f, o, m, a, n) ==
    LET t == SubSeq(SubSeq(f, o + 1, Len(f)), 1, n) IN
    /\ t \in Seq(Nat) /\ Len(t) = n /\ \A i \in 1..n : t[i] = Len(w) + i
    /\ w \o t \in Seq(Nat) /\ Len(w \o t) = Len(w) + n
    /\ n \in 1..(a - Len(w))
    /\ Streams(w \o t, f, o + n, m, a)
    /\ o + n = Len(f) => Streams(w \o t, <<>>, 0, m, a)

\* What a write was given are the bytes with the next numbers.
LEMMA StreamMoves ==
    ASSUME NEW w \in Seq(Nat), NEW f \in Seq(Nat), NEW o \in 0..Len(f), NEW m \in Seq(Nat), NEW a \in Nat,
           Streams(w, f, o, m, a), NEW n \in 1..(Len(f) - o)
    PROVE  Moves(w, f, o, m, a, n)
<1> DEFINE rest == SubSeq(f, o + 1, Len(f))
           t == SubSeq(rest, 1, n)
<1>1. Len(w) \in Nat /\ Len(f) \in Nat /\ Len(m) \in Nat /\ n \in Nat /\ n >= 1 /\ n <= Len(f) - o
  BY LenProperties
<1>2. rest \in Seq(Nat) /\ Len(rest) = Len(f) - o /\ \A i \in 1..(Len(f) - o) : rest[i] = f[o + i]
  BY RestOf
<1> HIDE DEF rest
<1>3. t \in Seq(Nat) /\ Len(t) = n /\ \A i \in 1..n : t[i] = rest[i]
  <2>1. n \in 1..Len(rest)
    BY <1>2
  <2> QED
    BY <1>2, <2>1, FirstOf
<1> HIDE DEF t
<1>4. \A i \in 1..n : t[i] = Len(w) + i
  <2>1. TAKE i \in 1..n
  <2>2. i \in 1..(Len(f) - o)
    BY <1>1
  <2>3. f[o + i] = Len(w) + i
    BY <2>2 DEF Streams
  <2> QED
    BY <1>2, <1>3, <2>2, <2>3
<1>5. /\ w \o t \in Seq(Nat) /\ Len(w \o t) = Len(w) + n
      /\ \A i \in 1..Len(w \o t) : (w \o t)[i] = i
  <2>1. \A i \in 1..Len(w) : w[i] = i
    BY DEF Streams
  <2>2. /\ w \o t \in Seq(Nat) /\ Len(w \o t) = Len(w) + n
        /\ \A i \in 1..Len(w) : (w \o t)[i] = w[i]
        /\ \A i \in 1..n : (w \o t)[Len(w) + i] = t[i]
    BY <1>3, Joined
  <2>3. \A i \in 1..Len(w \o t) : i \in 1..Len(w) \/ (i - Len(w) \in 1..n /\ i = Len(w) + (i - Len(w)))
    BY <1>1, <2>2
  <2> QED  BY <1>1, <1>4, <2>1, <2>2, <2>3
<1>6. a = Len(w) + ((Len(f) - o) + Len(m)) /\ n \in 1..(a - Len(w))
  <2>1. a = Len(w) + ((Len(f) - o) + Len(m))
    BY DEF Streams
  <2> QED
    BY <1>1, <2>1
<1>7. Len(f) - (o + n) = (Len(f) - o) - n
  BY <1>1
<1>8. a = Len(w \o t) + ((Len(f) - (o + n)) + Len(m))
  BY <1>1, <1>5, <1>6, <1>7
<1>9. \A i \in 1..(Len(f) - (o + n)) : f[(o + n) + i] = Len(w \o t) + i
  <2>1. TAKE i \in 1..(Len(f) - (o + n))
  <2>2. n + i \in 1..(Len(f) - o) /\ o + (n + i) = (o + n) + i
    BY <1>1, <1>7
  <2>3. f[o + (n + i)] = Len(w) + (n + i)
    BY <2>2 DEF Streams
  <2> QED
    BY <1>1, <1>5, <2>2, <2>3
<1>10. \A i \in 1..Len(m) : m[i] = Len(w \o t) + (Len(f) - (o + n)) + i
  <2>1. TAKE i \in 1..Len(m)
  <2>2. m[i] = Len(w) + (Len(f) - o) + i
    BY DEF Streams
  <2> QED
    BY <1>1, <1>5, <1>7, <2>2
<1>11. Streams(w \o t, f, o + n, m, a)
  BY <1>5, <1>8, <1>9, <1>10 DEF Streams
<1>12. ASSUME o + n = Len(f)
       PROVE  Streams(w \o t, <<>>, 0, m, a)
  <2> DEFINE r == Len(f) - (o + n)
             l == Len(w \o t)
  <2>1. r = 0 /\ l \in Nat
    BY <1>1, <1>5, <1>12
  <2>2. a = l + (r + Len(m)) /\ \A i \in 1..Len(m) : m[i] = l + r + i
    BY <1>8, <1>10
  <2>3. Len(<<>>) = 0
    BY EmptySeq
  <2> HIDE DEF r, l
  <2>4. a = l + Len(m)
    BY <1>1, <2>1, <2>2
  <2>5. \A i \in 1..Len(m) : m[i] = l + i
    BY <2>1, <2>2
  <2>6. a = l + ((Len(<<>>) - 0) + Len(m))
    BY <1>1, <2>1, <2>3, <2>4
  <2>7. \A i \in 1..Len(m) : m[i] = l + (Len(<<>>) - 0) + i
    BY <2>1, <2>3, <2>5
  <2>8. \A i \in 1..(Len(<<>>) - 0) : <<>>[0 + i] = l + i
    BY <2>3
  <2> QED
    BY <1>5, <2>6, <2>7, <2>8 DEF Streams, l
<1> QED
  BY <1>3, <1>4, <1>5, <1>6, <1>11, <1>12 DEF Moves, t, rest

-----------------------------------------------------------------------------
(* The inductive invariant *)

WriteRecs == [bytes : Seq(Nat), state : States]
ReadRecs  == [state : States]

\* Before the handler of the handshake has run the session does nothing else.
Before ==
    handshake # "done" =>
        /\ reads = <<>> /\ writes = <<>> /\ wire = <<>>
        /\ ~handshaked /\ ~sending /\ ~receiving

\* The handler of a handshake that failed closes the session.
After == connected /\ handshake = "done" => handshaked

\* The session was closed before its handshake succeeded.
Late ==
    handshaked /\ ~connected =>
        /\ wire = <<>>
        /\ \A k \in DOMAIN writes : writes[k].state = "aborted"
        /\ \A k \in DOMAIN reads : reads[k].state = "aborted"

\* What _receiving and _sending say of the operations on the stream.
Reading == connected \/ handshaked => (receiving <=> reads # <<>>) /\ Len(reads) <= 1

Sending ==
    connected =>
        /\ sending <=> writes # <<>>
        /\ Len(writes) <= 1
        /\ sending => writes[1].bytes = SubSeq(flush, offset + 1, Len(flush))
        /\ Streams(wire, flush, offset, main, accepted)

\* The IO thread is in the handler of a read.
InRead == pc["io"] \in {"received", "rearm"} \/ (pc["io"] # "idle" /\ ioNext = "rearm")

\* Only the IO thread runs handlers. The handler of a read has taken the one
\* read and begins the next; the session cannot be closed before it is done.
Loop ==
    /\ \A t \in Senders : pc[t] \notin {"received", "rearm", "trysend"}
    /\ pc["io"] \in {"checked", "dispatch"} => ioNext = "rearm"
    /\ InRead => connected /\ handshaked /\ reads = <<>>
    /\ connected /\ handshaked /\ ~InRead => receiving

SSLInv == TypeOK /\ Before /\ After /\ Late /\ Reading /\ Sending /\ Loop

-----------------------------------------------------------------------------
(* The operations on the stream *)

\* A sequence made item by item from another.
LEMMA Mapped ==
    ASSUME NEW S, NEW ops \in Seq(S), NEW new, DOMAIN new = DOMAIN ops,
           new = [k \in DOMAIN ops |-> new[k]], \A k \in DOMAIN ops : new[k] \in S
    PROVE  new \in Seq(S) /\ Len(new) = Len(ops) /\ (ops = <<>> <=> new = <<>>)
<1>1. Len(ops) \in Nat /\ DOMAIN ops = 1..Len(ops)
  BY LenProperties
<1>2. new \in [1..Len(ops) -> S]
  BY <1>1
<1>3. new \in Seq(S)
  BY <1>1, <1>2, SeqDef
<1>4. Len(new) = Len(ops)
  <2>1. Len(new) \in Nat /\ DOMAIN new = 1..Len(new)
    BY <1>3, LenProperties
  <2> QED
    BY <1>1, <2>1
<1>5. ops = <<>> <=> new = <<>>
  BY <1>3, <1>4, EmptySeq
<1> QED
  BY <1>3, <1>4, <1>5

\* Closing the socket aborts the writes and the reads, and takes none away.
LEMMA AllAborted ==
    ASSUME NEW w \in Seq(WriteRecs), NEW r \in Seq(ReadRecs)
    PROVE  /\ AbortAll(w) \in Seq(WriteRecs) /\ (w = <<>> <=> AbortAll(w) = <<>>)
           /\ AbortAll(r) \in Seq(ReadRecs) /\ (r = <<>> <=> AbortAll(r) = <<>>)
<1>1. /\ DOMAIN w = 1..Len(w) /\ \A k \in DOMAIN w : w[k] \in WriteRecs
      /\ DOMAIN r = 1..Len(r) /\ \A k \in DOMAIN r : r[k] \in ReadRecs
  BY LenProperties, ElementOfSeq
<1>2. /\ DOMAIN AbortAll(w) = DOMAIN w /\ AbortAll(w) = [k \in DOMAIN w |-> AbortAll(w)[k]]
      /\ \A k \in DOMAIN w : AbortAll(w)[k] \in WriteRecs
  BY <1>1 DEF AbortAll, WriteRecs, States
<1>3. /\ DOMAIN AbortAll(r) = DOMAIN r /\ AbortAll(r) = [k \in DOMAIN r |-> AbortAll(r)[k]]
      /\ \A k \in DOMAIN r : AbortAll(r)[k] \in ReadRecs
  BY <1>1 DEF AbortAll, ReadRecs, States
<1>4. AbortAll(w) \in Seq(WriteRecs) /\ (w = <<>> <=> AbortAll(w) = <<>>)
  BY <1>2, Mapped
<1>5. AbortAll(r) \in Seq(ReadRecs) /\ (r = <<>> <=> AbortAll(r) = <<>>)
  BY <1>3, Mapped
<1> QED
  BY <1>4, <1>5

\* cancel() changes the state of some of them, and nothing else.
LEMMA SomeCancelled ==
    ASSUME NEW w \in Seq(WriteRecs), NEW r \in Seq(ReadRecs)
    PROVE  /\ Cancelled(w) \in Seq(WriteRecs) /\ Len(Cancelled(w)) = Len(w) /\ (w = <<>> <=> Cancelled(w) = <<>>)
           /\ \A k \in DOMAIN w : Cancelled(w)[k].bytes = w[k].bytes
           /\ Cancelled(r) \in Seq(ReadRecs) /\ Len(Cancelled(r)) = Len(r) /\ (r = <<>> <=> Cancelled(r) = <<>>)
<1>1. /\ DOMAIN w = 1..Len(w) /\ \A k \in DOMAIN w : w[k] \in WriteRecs
      /\ DOMAIN r = 1..Len(r) /\ \A k \in DOMAIN r : r[k] \in ReadRecs
  BY LenProperties, ElementOfSeq
<1>2. /\ DOMAIN Cancelled(w) = DOMAIN w /\ Cancelled(w) = [k \in DOMAIN w |-> Cancelled(w)[k]]
      /\ \A k \in DOMAIN w : Cancelled(w)[k] \in WriteRecs /\ Cancelled(w)[k].bytes = w[k].bytes
  BY <1>1 DEF Cancelled, WriteRecs, States
<1>3. /\ DOMAIN Cancelled(r) = DOMAIN r /\ Cancelled(r) = [k \in DOMAIN r |-> Cancelled(r)[k]]
      /\ \A k \in DOMAIN r : Cancelled(r)[k] \in ReadRecs
  BY <1>1 DEF Cancelled, ReadRecs, States
<1>4. Cancelled(w) \in Seq(WriteRecs) /\ Len(Cancelled(w)) = Len(w) /\ (w = <<>> <=> Cancelled(w) = <<>>)
  BY <1>2, Mapped
<1>5. Cancelled(r) \in Seq(ReadRecs) /\ Len(Cancelled(r)) = Len(r) /\ (r = <<>> <=> Cancelled(r) = <<>>)
  BY <1>3, Mapped
<1> QED
  BY <1>2, <1>4, <1>5

\* An operation that completes stays in its place.
LEMMA OneReady ==
    ASSUME NEW w \in Seq(WriteRecs), NEW k \in DOMAIN w
    PROVE  /\ [w EXCEPT ![k].state = "ready"] \in Seq(WriteRecs)
           /\ Len([w EXCEPT ![k].state = "ready"]) = Len(w)
           /\ \A j \in DOMAIN w : [w EXCEPT ![k].state = "ready"][j].bytes = w[j].bytes
<1>1. k \in 1..Len(w) /\ DOMAIN w = 1..Len(w) /\ w[k] \in WriteRecs
  BY LenProperties, ElementOfSeq
<1>2. [w[k] EXCEPT !.state = "ready"] \in WriteRecs /\ [w[k] EXCEPT !.state = "ready"].bytes = w[k].bytes
  BY <1>1 DEF WriteRecs, States
<1> DEFINE e == [w[k] EXCEPT !.state = "ready"]
<1>3. [w EXCEPT ![k].state = "ready"] = [w EXCEPT ![k] = e]
  OBVIOUS
<1> HIDE DEF e
<1>4. /\ [w EXCEPT ![k] = e] \in Seq(WriteRecs) /\ Len([w EXCEPT ![k] = e]) = Len(w)
      /\ \A j \in 1..Len(w) : [w EXCEPT ![k] = e][j] = IF j = k THEN e ELSE w[j]
  BY <1>1, <1>2, ExceptSeq DEF e
<1>5. \A j \in DOMAIN w : [w EXCEPT ![k] = e][j].bytes = w[j].bytes
  BY <1>1, <1>2, <1>4 DEF e
<1> QED
  BY <1>3, <1>4, <1>5

LEMMA ReadReady ==
    ASSUME NEW r \in Seq(ReadRecs), NEW k \in DOMAIN r
    PROVE  [r EXCEPT ![k].state = "ready"] \in Seq(ReadRecs) /\ Len([r EXCEPT ![k].state = "ready"]) = Len(r)
<1>1. k \in 1..Len(r) /\ DOMAIN r = 1..Len(r) /\ r[k] \in ReadRecs
  BY LenProperties, ElementOfSeq
<1>2. [r[k] EXCEPT !.state = "ready"] \in ReadRecs
  BY <1>1 DEF ReadRecs, States
<1> DEFINE e == [r[k] EXCEPT !.state = "ready"]
<1>3. [r EXCEPT ![k].state = "ready"] = [r EXCEPT ![k] = e]
  OBVIOUS
<1> HIDE DEF e
<1>4. [r EXCEPT ![k] = e] \in Seq(ReadRecs) /\ Len([r EXCEPT ![k] = e]) = Len(r)
  BY <1>1, <1>2, ExceptSeq DEF e
<1> QED
  BY <1>3, <1>4

-----------------------------------------------------------------------------
(* The end of the session *)

LEMMA IoIsThread == "io" \in Threads /\ \A t \in Senders : t \in Threads /\ t # "io"
  BY SSLAssumption DEF Threads

\* What the types say of the operations, in the terms of the lemmas above.
LEMMA Typing ==
    ASSUME TypeOK
    PROVE  /\ writes \in Seq(WriteRecs) /\ reads \in Seq(ReadRecs)
           /\ main \in Seq(Nat) /\ flush \in Seq(Nat) /\ wire \in Seq(Nat)
           /\ accepted \in Nat /\ offset \in 0..Len(flush)
           /\ connected \in BOOLEAN /\ handshaked \in BOOLEAN /\ sending \in BOOLEAN /\ receiving \in BOOLEAN
           /\ handshake \in Handshakes /\ shutOpen \in Nat /\ shutDone \in Nat
           /\ tasks \in Seq({"send", "close"}) /\ pc \in [Threads -> Places] /\ ioNext \in {"idle", "rearm"}
  BY DEF TypeOK, WriteRecs, ReadRecs

LEMMA Typed ==
    ASSUME writes' \in Seq(WriteRecs), reads' \in Seq(ReadRecs),
           main' \in Seq(Nat), flush' \in Seq(Nat), wire' \in Seq(Nat),
           accepted' \in Nat, offset' \in 0..Len(flush'),
           connected' \in BOOLEAN, handshaked' \in BOOLEAN, sending' \in BOOLEAN, receiving' \in BOOLEAN,
           handshake' \in Handshakes, shutOpen' \in Nat, shutDone' \in Nat,
           tasks' \in Seq({"send", "close"}), pc' \in [Threads -> Places], ioNext' \in {"idle", "rearm"}
    PROVE  TypeOK'
  BY DEF TypeOK, WriteRecs, ReadRecs

\* Disconnect of a connected session, from a handler that is not that of a
\* read or is at its end. Nothing is outstanding before the handshake, and
\* afterwards the handshake cannot succeed any more.
LEMMA Disconnects ==
    ASSUME SSLInv, connected,
           NEW h, NEW w, NEW r, NEW done, Disconnect(h, w, r, done),
           h \in Handshakes, w \in Seq(WriteRecs), r \in Seq(ReadRecs), done \in Nat,
           h # "done" => w = <<>> /\ r = <<>> /\ wire = <<>>,
           UNCHANGED <<tasks, ioNext, ghosts>>,
           pc' \in [Threads -> Places], pc'["io"] = "idle", \A t \in Senders : pc'[t] = pc[t]
    PROVE  SSLInv'
<1>1. /\ connected' = FALSE /\ handshaked' = FALSE /\ sending' = FALSE /\ receiving' = FALSE
      /\ main' = <<>> /\ flush' = <<>> /\ offset' = 0
      /\ handshake' = AbortOpen(h) /\ writes' = AbortAll(w) /\ reads' = AbortAll(r)
      /\ shutDone' = done + shutOpen /\ shutOpen' = 0
      /\ accepted' = accepted /\ wire' = wire /\ tasks' = tasks /\ ioNext' = ioNext
  BY DEF Disconnect, ghosts
<1>2. TypeOK
  BY DEF SSLInv
<1>3. /\ AbortAll(w) \in Seq(WriteRecs) /\ (w = <<>> <=> AbortAll(w) = <<>>)
      /\ AbortAll(r) \in Seq(ReadRecs) /\ (r = <<>> <=> AbortAll(r) = <<>>)
  BY AllAborted
<1>4. handshake' \in Handshakes /\ (handshake' # "done" => h # "done")
  BY <1>1 DEF AbortOpen, Handshakes
<1>5. TypeOK'
  <2>1. shutDone' \in Nat /\ shutOpen' \in Nat /\ wire' \in Seq(Nat) /\ accepted' \in Nat
        /\ tasks' \in Seq({"send", "close"}) /\ ioNext' \in {"idle", "rearm"}
    BY <1>1, <1>2, Typing
  <2>2. main' \in Seq(Nat) /\ flush' \in Seq(Nat) /\ offset' \in 0..Len(flush')
    BY <1>1, EmptySeq
  <2>3. connected' \in BOOLEAN /\ handshaked' \in BOOLEAN /\ sending' \in BOOLEAN /\ receiving' \in BOOLEAN
    BY <1>1
  <2>4. writes' \in Seq(WriteRecs) /\ reads' \in Seq(ReadRecs)
    BY <1>1, <1>3
  <2> QED
    BY <1>4, <2>1, <2>2, <2>3, <2>4, Typed
<1>6. Before'
  BY <1>1, <1>3, <1>4 DEF Before
<1>7. After' /\ Late' /\ Reading' /\ Sending'
  BY <1>1 DEF After, Late, Reading, Sending
<1>8. Loop'
  BY <1>1 DEF SSLInv, Loop, InRead
<1> QED
  BY <1>5, <1>6, <1>7, <1>8 DEF SSLInv

\* Steps that touch neither the buffers nor the operations of the session.
still == <<flags, bufferVars, sendVars, recvVars, ghosts>>

LEMMA StillKeeps ==
    ASSUME SSLInv, UNCHANGED still, handshake' \in Handshakes, handshake' = "done" <=> handshake = "done"
    PROVE  Before' /\ After' /\ Late' /\ Reading' /\ Sending'
<1>1. UNCHANGED <<connected, handshaked, main, flush, offset, sending, writes, receiving, reads, accepted, wire>>
  BY DEF still, flags, bufferVars, sendVars, recvVars, ghosts
<1>2. Before' /\ After' /\ Late'
  BY <1>1 DEF SSLInv, Before, After, Late
<1>3. Reading' /\ Sending'
  BY <1>1 DEF SSLInv, Reading, Sending
<1> QED
  BY <1>2, <1>3

LEMMA StillTyped ==
    ASSUME SSLInv, UNCHANGED still, handshake' \in Handshakes, shutOpen' \in Nat, shutDone' \in Nat,
           tasks' \in Seq({"send", "close"}), pc' \in [Threads -> Places], ioNext' \in {"idle", "rearm"}
    PROVE  TypeOK'
<1>1. UNCHANGED <<connected, handshaked, main, flush, offset, sending, writes, receiving, reads, accepted, wire>>
  BY DEF still, flags, bufferVars, sendVars, recvVars, ghosts
<1>2. TypeOK
  BY DEF SSLInv
<1> QED
  BY <1>1, <1>2 DEF TypeOK

\* The loop goes on when neither the flags, the reads nor the IO thread move.
LEMMA LoopStays ==
    ASSUME Loop, UNCHANGED <<connected, handshaked, receiving, reads, pc, ioNext>>
    PROVE  Loop'
  BY DEF Loop, InRead

-----------------------------------------------------------------------------
(* The threads *)

\* A thread goes on; the others stay where they are.
LEMMA Going ==
    ASSUME TypeOK, NEW t \in Threads, NEW l \in Places, Goto(t, l)
    PROVE  /\ pc' \in [Threads -> Places] /\ pc'[t] = l
           /\ \A u \in Threads : u # t => pc'[u] = pc[u]
  BY DEF TypeOK, Goto

LEMMA IoGoes ==
    ASSUME TypeOK, NEW l \in Places, Goto("io", l)
    PROVE  /\ pc' \in [Threads -> Places] /\ pc'["io"] = l
           /\ \A u \in Senders : pc'[u] = pc[u]
  BY IoIsThread, Going

LEMMA Posting ==
    ASSUME TypeOK
    PROVE  /\ \A h \in {"send", "close"} : Append(tasks, h) \in Seq({"send", "close"})
           /\ tasks # <<>> => Tail(tasks) \in Seq({"send", "close"})
  BY Typing, AppendProperties, HeadTailProperties

\* A step of SendAsync, seen from the threads.
LEMMA SendMoves ==
    ASSUME SSLInv, NEW t \in Threads, SendBegin(t) \/ SendStep(t)
    PROVE  /\ Loop' /\ pc' \in [Threads -> Places] /\ ioNext' \in {"idle", "rearm"}
           /\ tasks' \in Seq({"send", "close"})
<1>1. TypeOK /\ Loop /\ pc \in [Threads -> Places] /\ ioNext \in {"idle", "rearm"}
  BY Typing DEF SSLInv
<1>2. "io" \in Threads /\ \A u \in Senders : u \in Threads /\ u # "io"
  BY IoIsThread
<1>3. UNCHANGED <<connected, handshaked, receiving, reads>>
  BY DEF SendBegin, SendStep, SendLocked, SendDispatch, flags, recvVars
<1>4. tasks' = tasks \/ tasks' = Append(tasks, "send")
  BY DEF SendBegin, SendStep, SendLocked, SendDispatch
<1>5. tasks' \in Seq({"send", "close"})
  BY <1>1, <1>4, Typing, Posting
<1>6. CASE t = "io"
  <2>1. /\ ioNext' = "rearm" /\ pc["io"] \in {"received", "checked", "dispatch"}
        /\ \E l \in {"checked", "dispatch", "rearm", "trysend"} : Goto("io", l)
    BY <1>1, <1>6 DEF SendBegin, SendStep, SendLocked, SendDispatch, Return, Loop
  <2>2. InRead
    BY <1>1, <2>1 DEF Loop, InRead
  <2>3. PICK l \in {"checked", "dispatch", "rearm", "trysend"} : Goto("io", l)
    BY <2>1
  <2>4. /\ pc' \in [Threads -> Places] /\ pc'["io"] = l
        /\ \A u \in Senders : pc'[u] = pc[u]
    BY <1>1, <2>3, IoGoes DEF Places
  <2>5. InRead'
    BY <2>1, <2>4 DEF InRead
  <2>6. Loop'
    BY <1>1, <1>3, <2>1, <2>2, <2>4, <2>5 DEF Loop
  <2> QED
    BY <1>5, <2>1, <2>4, <2>6
<1>7. CASE t # "io"
  <2>1. ioNext' = ioNext /\ \E l \in {"checked", "dispatch", "idle"} : Goto(t, l)
    BY <1>7 DEF SendBegin, SendStep, SendLocked, SendDispatch, Return
  <2>2. PICK l \in {"checked", "dispatch", "idle"} : Goto(t, l)
    BY <2>1
  <2>3. /\ pc' \in [Threads -> Places] /\ pc'[t] = l
        /\ \A u \in Threads : u # t => pc'[u] = pc[u]
    BY <1>1, <2>2, Going DEF Places
  <2>4. pc'["io"] = pc["io"] /\ InRead' = InRead
    BY <1>2, <1>7, <2>1, <2>3 DEF InRead
  <2>5. Loop'
    BY <1>1, <1>2, <1>3, <2>1, <2>3, <2>4 DEF Loop
  <2> QED
    BY <1>1, <1>5, <2>1, <2>3, <2>5
<1> QED
  BY <1>6, <1>7

-----------------------------------------------------------------------------
(* One lemma per action *)

\* SendAsync appends the bytes with the next numbers to the main buffer.
LEMMA LockedKeeps ==
    ASSUME SSLInv, NEW t \in Threads, SendLocked(t)
    PROVE  SSLInv'
<1>1. TypeOK
  BY DEF SSLInv
<1>2. Loop' /\ pc' \in [Threads -> Places] /\ ioNext' \in {"idle", "rearm"} /\ tasks' \in Seq({"send", "close"})
  BY SendMoves DEF SendStep
<1>3. UNCHANGED <<connected, handshaked, handshake, flush, offset, sending, writes, receiving, reads, shutOpen, shutDone, wire>>
  BY DEF SendLocked, flags, sendVars, recvVars, shutVars
<1>4. PICK n \in 1..MaxChunk :
         \/ UNCHANGED <<main, accepted>>
         \/ main' = main \o [i \in 1..n |-> accepted + i] /\ accepted' = accepted + n
  BY DEF SendLocked
<1>5. CASE UNCHANGED <<main, accepted>>
  <2>1. UNCHANGED still /\ handshake' \in Handshakes /\ shutOpen' \in Nat /\ shutDone' \in Nat
    BY <1>1, <1>3, <1>5, Typing DEF still, flags, bufferVars, sendVars, recvVars, ghosts
  <2>2. TypeOK'
    BY <1>2, <2>1, StillTyped
  <2>3. Before' /\ After' /\ Late' /\ Reading' /\ Sending'
    BY <1>3, <2>1, StillKeeps
  <2> QED
    BY <1>2, <2>2, <2>3 DEF SSLInv
<1>6. CASE main' = main \o [i \in 1..n |-> accepted + i] /\ accepted' = accepted + n
  <2> DEFINE new == [i \in 1..n |-> accepted + i]
  <2>1. /\ main \in Seq(Nat) /\ flush \in Seq(Nat) /\ wire \in Seq(Nat)
        /\ accepted \in Nat /\ n \in Nat /\ offset \in 0..Len(flush)
    BY <1>1, Typing, SSLAssumption
  <2>2. new \in Seq(Nat) /\ Len(new) = n /\ \A i \in 1..n : new[i] = accepted + i
    BY <2>1, NextNumbers
  <2>3. main' = main \o new
    BY <1>6
  <2> HIDE DEF new
  <2>4. main' \in Seq(Nat) /\ accepted' \in Nat
    <3>1. main \o new \in Seq(Nat)
      BY <2>1, <2>2, ConcatProperties
    <3> QED
      BY <1>6, <2>1, <2>3, <3>1
  <2>5. TypeOK'
    BY <1>1, <1>2, <1>3, <2>4 DEF TypeOK
  <2>6. Before' /\ After' /\ Late' /\ Reading'
    BY <1>3 DEF SSLInv, Before, After, Late, Reading
  <2>7. Sending'
    <3>1. ASSUME connected
          PROVE  Streams(wire', flush', offset', main', accepted')
      <4>1. Streams(wire, flush, offset, main, accepted)
        BY <3>1 DEF SSLInv, Sending
      <4>2. \A i \in 1..Len(new) : new[i] = accepted + i
        BY <2>2
      <4>3. Streams(wire, flush, offset, main \o new, accepted + Len(new))
        BY <2>1, <2>2, <4>1, <4>2, StreamGrows
      <4> QED
        BY <1>3, <1>6, <2>2, <2>3, <4>3
    <3> QED
      BY <1>3, <3>1 DEF SSLInv, Sending
  <2> QED
    BY <1>2, <2>5, <2>6, <2>7 DEF SSLInv
<1> QED
  BY <1>4, <1>5, <1>6

\* The steps that move a thread, post a handler, or move the peer's part of a
\* handshake or of a shutdown.
LEMMA QuietKeeps ==
    ASSUME SSLInv,
           \/ \E t \in Threads : SendBegin(t) \/ SendDispatch(t)
           \/ DisconnectAsync \/ ShutdownAnswered \/ HandshakeInput \/ HandshakeContinues \/ ReceivedReturns
    PROVE  SSLInv'
<1>1. TypeOK /\ Loop
  BY DEF SSLInv
<1>2. /\ handshake \in Handshakes /\ shutOpen \in Nat /\ shutDone \in Nat
      /\ tasks \in Seq({"send", "close"}) /\ pc \in [Threads -> Places] /\ ioNext \in {"idle", "rearm"}
  BY <1>1, Typing
<1>3. UNCHANGED still
  BY DEF SendBegin, SendDispatch, DisconnectAsync, ShutdownAnswered, HandshakeInput, HandshakeContinues, ReceivedReturns, still
<1>4. handshake' \in Handshakes /\ (handshake' = "done" <=> handshake = "done")
  BY <1>2 DEF SendBegin, SendDispatch, DisconnectAsync, ShutdownAnswered, HandshakeInput, HandshakeContinues,
              ReceivedReturns, Handshakes
<1>5. shutOpen' \in Nat /\ shutDone' \in Nat
  BY <1>2 DEF SendBegin, SendDispatch, DisconnectAsync, ShutdownAnswered, HandshakeInput, HandshakeContinues,
              ReceivedReturns, shutVars
<1>6. Loop' /\ pc' \in [Threads -> Places] /\ ioNext' \in {"idle", "rearm"} /\ tasks' \in Seq({"send", "close"})
  <2>1. CASE \E t \in Threads : SendBegin(t) \/ SendDispatch(t)
    BY <2>1, SendMoves DEF SendStep
  <2>2. CASE DisconnectAsync \/ ShutdownAnswered \/ HandshakeInput \/ HandshakeContinues
    <3>1. UNCHANGED <<connected, handshaked, receiving, reads, pc, ioNext>>
      BY <2>2 DEF DisconnectAsync, ShutdownAnswered, HandshakeInput, HandshakeContinues, flags, recvVars, threadVars
    <3>2. tasks' = tasks \/ tasks' = Append(tasks, "close")
      BY <2>2 DEF DisconnectAsync, ShutdownAnswered, HandshakeInput, HandshakeContinues
    <3> QED
      BY <1>1, <1>2, <3>1, <3>2, LoopStays, Posting
  <2>3. CASE ReceivedReturns
    <3>1. /\ pc["io"] = "received" /\ Goto("io", "rearm") /\ "rearm" \in Places
          /\ UNCHANGED <<connected, handshaked, receiving, reads, tasks, ioNext>>
      BY <2>3 DEF ReceivedReturns, flags, recvVars, Places
    <3>2. /\ pc' \in [Threads -> Places] /\ pc'["io"] = "rearm"
          /\ \A u \in Senders : pc'[u] = pc[u]
      BY <1>1, <3>1, IoGoes
    <3>3. Loop'
      BY <1>1, <3>1, <3>2 DEF Loop, InRead
    <3> QED
      BY <1>2, <3>1, <3>2, <3>3
  <2> QED
    BY <2>1, <2>2, <2>3
<1>7. TypeOK'
  BY <1>3, <1>4, <1>5, <1>6, StillTyped
<1>8. Before' /\ After' /\ Late' /\ Reading' /\ Sending'
  BY <1>3, <1>4, StillKeeps
<1> QED
  BY <1>6, <1>7, <1>8 DEF SSLInv

\* The cancel of a posted close leaves every operation in its place.
LEMMA CancelKeeps ==
    ASSUME SSLInv, connected, CancelAndShutdown, UNCHANGED <<flags, bufferVars, sending, receiving, ghosts>>
    PROVE  /\ Before' /\ After' /\ Late' /\ Reading' /\ Sending'
           /\ writes' \in Seq(WriteRecs) /\ reads' \in Seq(ReadRecs) /\ (reads' = <<>> <=> reads = <<>>)
           /\ handshake' \in Handshakes /\ shutOpen' \in Nat /\ shutDone' \in Nat
<1>1. /\ writes' = Cancelled(writes) /\ reads' = Cancelled(reads)
      /\ UNCHANGED <<connected, handshaked, main, flush, offset, sending, receiving, accepted, wire>>
  BY DEF CancelAndShutdown, flags, bufferVars, ghosts
<1>2. writes \in Seq(WriteRecs) /\ reads \in Seq(ReadRecs) /\ handshake \in Handshakes /\ shutOpen \in Nat /\ shutDone \in Nat
  BY Typing DEF SSLInv
<1>3. /\ writes' \in Seq(WriteRecs) /\ Len(writes') = Len(writes) /\ (writes = <<>> <=> writes' = <<>>)
      /\ \A k \in DOMAIN writes : writes'[k].bytes = writes[k].bytes
      /\ reads' \in Seq(ReadRecs) /\ Len(reads') = Len(reads) /\ (reads = <<>> <=> reads' = <<>>)
  BY <1>1, <1>2, SomeCancelled
<1>4. handshake' \in Handshakes /\ (handshake' = "done" <=> handshake = "done")
  BY <1>2 DEF CancelAndShutdown, AbortOpen, Handshakes
<1>5. shutOpen' \in Nat /\ shutDone' \in Nat
  BY <1>2 DEF CancelAndShutdown
<1>6. Before' /\ After' /\ Late' /\ Reading'
  BY <1>1, <1>3, <1>4 DEF SSLInv, Before, After, Late, Reading
<1>7. Sending'
  <2>1. sending => writes'[1].bytes = writes[1].bytes
    <3>1. ASSUME sending
          PROVE  1 \in DOMAIN writes
      <4>1. writes # <<>>
        BY <3>1 DEF SSLInv, Sending
      <4> QED
        BY <1>2, <4>1, EmptySeq, LenProperties
    <3> QED
      BY <1>3, <3>1
  <2> QED
    BY <1>1, <1>3, <2>1 DEF SSLInv, Sending
<1> QED
  BY <1>3, <1>4, <1>5, <1>6, <1>7

LEMMA TaskKeeps ==
    ASSUME SSLInv, IOTask
    PROVE  SSLInv'
<1>1. TypeOK /\ Loop
  BY DEF SSLInv
<1>2. /\ handshake \in Handshakes /\ shutOpen \in Nat /\ shutDone \in Nat
      /\ tasks \in Seq({"send", "close"}) /\ pc \in [Threads -> Places]
  BY <1>1, Typing
<1>3. /\ pc["io"] = "idle" /\ ioNext' = "idle" /\ tasks' \in Seq({"send", "close"})
      /\ UNCHANGED <<connected, handshaked, main, flush, offset, sending, receiving, accepted, wire>>
  BY <1>1, Posting DEF IOTask, flags, bufferVars, ghosts
<1>4. CASE connected /\ CancelAndShutdown /\ UNCHANGED pc
  <2>1. UNCHANGED <<flags, bufferVars, sending, receiving, ghosts>>
    BY DEF IOTask
  <2>2. /\ Before' /\ After' /\ Late' /\ Reading' /\ Sending'
        /\ writes' \in Seq(WriteRecs) /\ reads' \in Seq(ReadRecs) /\ (reads' = <<>> <=> reads = <<>>)
        /\ handshake' \in Handshakes /\ shutOpen' \in Nat /\ shutDone' \in Nat
    BY <1>4, <2>1, CancelKeeps
  <2>3. TypeOK'
    BY <1>1, <1>3, <1>4, <2>2 DEF TypeOK, WriteRecs, ReadRecs
  <2>4. Loop'
    BY <1>1, <1>3, <1>4, <2>2 DEF Loop, InRead
  <2> QED
    BY <2>2, <2>3, <2>4 DEF SSLInv
<1>5. CASE /\ UNCHANGED <<handshake, writes, reads, shutVars>>
           /\ Goto("io", "trysend") \/ UNCHANGED pc
  <2>1. UNCHANGED still /\ UNCHANGED <<handshake, shutOpen, shutDone>>
    BY <1>3, <1>5 DEF still, flags, bufferVars, sendVars, recvVars, ghosts, shutVars
  <2>2. /\ pc' \in [Threads -> Places] /\ pc'["io"] \in {"idle", "trysend"}
        /\ \A u \in Senders : pc'[u] = pc[u]
    BY <1>1, <1>2, <1>3, <1>5, IoGoes DEF Places
  <2>3. TypeOK'
    BY <1>2, <1>3, <2>1, <2>2, StillTyped
  <2>4. Before' /\ After' /\ Late' /\ Reading' /\ Sending'
    BY <1>2, <2>1, StillKeeps
  <2>5. Loop'
    BY <1>1, <1>3, <1>5, <2>2 DEF Loop, InRead
  <2> QED
    BY <2>3, <2>4, <2>5 DEF SSLInv
<1> QED
  BY <1>4, <1>5 DEF IOTask

\* The handler of a shutdown closes the session, or finds it closed.
LEMMA ShutdownKeeps ==
    ASSUME SSLInv, ShutdownHandler
    PROVE  SSLInv'
<1>1. TypeOK /\ Loop /\ Before
  BY DEF SSLInv
<1>2. /\ handshake \in Handshakes /\ shutOpen \in Nat /\ shutDone \in Nat /\ writes \in Seq(WriteRecs)
      /\ reads \in Seq(ReadRecs) /\ tasks \in Seq({"send", "close"}) /\ pc \in [Threads -> Places]
      /\ ioNext \in {"idle", "rearm"}
  BY <1>1, Typing
<1>3. /\ pc["io"] = "idle" /\ shutDone - 1 \in Nat
      /\ Disconnect(handshake, writes, reads, shutDone - 1)
      /\ UNCHANGED <<tasks, pc, ioNext>> /\ UNCHANGED ghosts
  BY <1>2 DEF ShutdownHandler, threadVars
<1>4. CASE connected
  <2>1. handshake # "done" => writes = <<>> /\ reads = <<>> /\ wire = <<>>
    BY <1>1 DEF Before
  <2> QED
    BY <1>2, <1>3, <1>4, <2>1, Disconnects
<1>5. CASE ~connected
  <2>1. UNCHANGED still /\ UNCHANGED <<handshake, shutOpen>> /\ shutDone' \in Nat
    BY <1>3, <1>5 DEF Disconnect, still, sendVars, recvVars
  <2>2. TypeOK'
    BY <1>2, <1>3, <2>1, StillTyped
  <2>3. Before' /\ After' /\ Late' /\ Reading' /\ Sending'
    BY <1>2, <2>1, StillKeeps
  <2>4. UNCHANGED <<connected, handshaked, receiving, reads>>
    BY <2>1 DEF still, flags, recvVars
  <2> QED
    BY <1>1, <1>3, <2>2, <2>3, <2>4, LoopStays DEF SSLInv
<1> QED
  BY <1>4, <1>5

\* The handshake succeeds: the first read begins, at a closed socket only to
\* fail.
LEMMA SuccessKeeps ==
    ASSUME SSLInv, HandshakeSucceeds
    PROVE  SSLInv'
<1>1. TypeOK /\ Loop
  BY DEF SSLInv
<1>2. /\ pc["io"] = "idle" /\ handshake' = "done" /\ handshaked' = TRUE
      /\ UNCHANGED <<connected, main, flush, offset, sending, writes, shutOpen, shutDone, tasks, pc, ioNext, accepted, wire>>
  BY DEF HandshakeSucceeds, bufferVars, sendVars, shutVars, threadVars, ghosts
<1>3. reads = <<>> /\ writes = <<>> /\ wire = <<>> /\ ~handshaked /\ ~sending /\ ~receiving
  BY DEF SSLInv, Before, HandshakeSucceeds
<1> DEFINE rec == [state |-> IF connected THEN "open" ELSE "aborted"]
<1>4. receiving' = TRUE /\ reads' = Append(<<>>, rec)
  BY <1>2, <1>3 DEF HandshakeSucceeds, TryReceive
<1>5. rec \in ReadRecs /\ (~connected => rec.state = "aborted")
  BY DEF ReadRecs, States
<1> HIDE DEF rec
<1>6. reads' = <<rec>> /\ reads' \in Seq(ReadRecs) /\ Len(reads') = 1 /\ reads' # <<>>
  BY <1>4, <1>5
<1>7. TypeOK'
  BY <1>1, <1>2, <1>4, <1>6 DEF TypeOK, ReadRecs, Handshakes
<1>8. Before' /\ After' /\ Late' /\ Reading'
  BY <1>2, <1>3, <1>4, <1>5, <1>6 DEF Before, After, Late, Reading
<1>9. Sending'
  BY <1>2 DEF SSLInv, Sending
<1>10. Loop'
  BY <1>1, <1>2, <1>4 DEF Loop, InRead
<1> QED
  BY <1>7, <1>8, <1>9, <1>10 DEF SSLInv

LEMMA FailureKeeps ==
    ASSUME SSLInv, HandshakeFails
    PROVE  SSLInv'
<1>1. TypeOK /\ Loop /\ Before /\ After
  BY DEF SSLInv
<1>2. /\ shutDone \in Nat /\ writes \in Seq(WriteRecs) /\ reads \in Seq(ReadRecs) /\ pc \in [Threads -> Places]
  BY <1>1, Typing
<1>3. /\ pc["io"] = "idle" /\ handshake # "done" /\ Disconnect("done", writes, reads, shutDone)
      /\ UNCHANGED <<tasks, pc, ioNext>> /\ UNCHANGED ghosts
  BY DEF HandshakeFails, threadVars
<1>4. CASE connected
  BY <1>2, <1>3, <1>4, Disconnects DEF Handshakes
<1>5. CASE ~connected
  <2>1. /\ handshake' = "done" /\ UNCHANGED <<connected, handshaked, main, flush, offset, sending, writes, receiving,
                                              reads, shutOpen, shutDone, tasks, pc, ioNext, accepted, wire>>
    BY <1>3, <1>5 DEF Disconnect, flags, bufferVars, ghosts
  <2>2. ~handshaked
    BY <1>1, <1>3 DEF Before
  <2>3. TypeOK'
    BY <1>1, <2>1 DEF TypeOK, Handshakes
  <2>4. Before' /\ After' /\ Late' /\ Reading' /\ Sending'
    BY <1>5, <2>1, <2>2 DEF Before, After, Late, Reading, Sending
  <2> QED
    BY <1>1, <2>1, <2>3, <2>4, LoopStays DEF SSLInv
<1> QED
  BY <1>4, <1>5

\* What was open completes; what a late handshake began is aborted already.
LEMMA CompletesKeeps ==
    ASSUME SSLInv, Completes
    PROVE  SSLInv'
<1>1. TypeOK /\ Loop
  BY DEF SSLInv
<1>2. writes \in Seq(WriteRecs) /\ reads \in Seq(ReadRecs)
  BY <1>1, Typing
<1>3. UNCHANGED <<connected, handshaked, handshake, main, flush, offset, sending, receiving, shutOpen, shutDone,
                  tasks, pc, ioNext, accepted, wire>>
  BY DEF Completes, flags, bufferVars, shutVars, threadVars, ghosts
<1>4. ASSUME NEW k \in DOMAIN writes, writes[k].state = "open",
             writes' = [writes EXCEPT ![k].state = "ready"], UNCHANGED reads
      PROVE  SSLInv'
  <2>1. /\ writes' \in Seq(WriteRecs) /\ Len(writes') = Len(writes)
        /\ \A j \in DOMAIN writes : writes'[j].bytes = writes[j].bytes
    BY <1>2, <1>4, OneReady
  <2>2. k \in 1..Len(writes) /\ writes # <<>> /\ writes' # <<>>
    BY <1>2, <1>4, <2>1, LenProperties, EmptySeq
  <2>3. handshake = "done" /\ ~(handshaked /\ ~connected)
    BY <1>4, <2>2 DEF SSLInv, Before, Late
  <2>4. connected => 1 \in DOMAIN writes
    BY <1>2, <2>2, LenProperties
  <2>5. TypeOK'
    BY <1>1, <1>3, <1>4, <2>1 DEF TypeOK, WriteRecs
  <2>6. Before' /\ After' /\ Late' /\ Reading'
    BY <1>3, <1>4, <2>3 DEF SSLInv, Before, After, Late, Reading
  <2>7. Sending'
    BY <1>3, <2>1, <2>2, <2>4 DEF SSLInv, Sending
  <2>8. Loop'
    BY <1>1, <1>3, <1>4, LoopStays
  <2> QED
    BY <2>5, <2>6, <2>7, <2>8 DEF SSLInv
<1>5. ASSUME NEW k \in DOMAIN reads, reads[k].state = "open",
             reads' = [reads EXCEPT ![k].state = "ready"], UNCHANGED writes
      PROVE  SSLInv'
  <2>1. reads' \in Seq(ReadRecs) /\ Len(reads') = Len(reads)
    BY <1>2, <1>5, ReadReady
  <2>2. k \in 1..Len(reads) /\ reads # <<>> /\ reads' # <<>>
    BY <1>2, <1>5, <2>1, LenProperties, EmptySeq
  <2>3. handshake = "done" /\ ~(handshaked /\ ~connected)
    BY <1>5, <2>2 DEF SSLInv, Before, Late
  <2>4. TypeOK'
    BY <1>1, <1>3, <1>5, <2>1 DEF TypeOK, ReadRecs
  <2>5. Before' /\ After' /\ Late' /\ Sending'
    BY <1>3, <1>5, <2>3 DEF SSLInv, Before, After, Late, Sending
  <2>6. Reading'
    BY <1>3, <2>1, <2>2 DEF SSLInv, Reading
  <2>7. Loop'
    BY <1>1, <1>3, <2>2 DEF Loop, InRead
  <2> QED
    BY <2>4, <2>5, <2>6, <2>7 DEF SSLInv
<1> QED
  BY <1>4, <1>5 DEF Completes

\* The swap of the buffers and the write that begins: no other is outstanding
\* while the session is connected, and on a closed socket it is aborted.
LEMMA SwapKeeps ==
    ASSUME SSLInv, handshaked, ~sending, SwapAndWrite, UNCHANGED <<flags, accepted, wire>>
    PROVE  /\ main' \in Seq(Nat) /\ flush' \in Seq(Nat) /\ offset' \in 0..Len(flush')
           /\ writes' \in Seq(WriteRecs) /\ sending' \in BOOLEAN
           /\ Sending'
           /\ ~connected => \A k \in DOMAIN writes' : writes'[k].state = "aborted"
<1>1. /\ main \in Seq(Nat) /\ flush \in Seq(Nat) /\ wire \in Seq(Nat) /\ accepted \in Nat
      /\ offset \in 0..Len(flush) /\ writes \in Seq(WriteRecs) /\ sending \in BOOLEAN
  BY Typing DEF SSLInv
<1>2. UNCHANGED <<connected, handshaked, accepted, wire>>
  BY DEF flags
<1>3. /\ main' \in Seq(Nat) /\ flush' \in Seq(Nat) /\ offset' \in 0..Len(flush')
      /\ connected => Streams(wire', flush', offset', main', accepted')
  <2>1. CASE flush = <<>>
    <3>1. flush' = main /\ main' = <<>> /\ offset' = 0
      BY <2>1 DEF SwapAndWrite
    <3>2. Len(flush) = 0 /\ offset = 0 /\ main' \in Seq(Nat) /\ Len(main) \in Nat
      BY <1>1, <2>1, <3>1, EmptySeq, LenProperties
    <3>3. ASSUME connected
          PROVE  Streams(wire', flush', offset', main', accepted')
      <4>1. Streams(wire, <<>>, 0, main, accepted)
        BY <2>1, <3>2, <3>3 DEF SSLInv, Sending
      <4>2. Streams(wire, main, 0, <<>>, accepted)
        BY <1>1, <4>1, StreamSwaps
      <4> QED
        BY <1>2, <3>1, <4>2
    <3> QED
      BY <1>1, <3>1, <3>2, <3>3
  <2>2. CASE flush # <<>>
    <3>1. UNCHANGED <<main, flush, offset>>
      BY <2>2 DEF SwapAndWrite, bufferVars
    <3>2. connected => Streams(wire, flush, offset, main, accepted)
      BY DEF SSLInv, Sending
    <3> QED
      BY <1>1, <1>2, <3>1, <3>2
  <2> QED
    BY <2>1, <2>2
<1>4. connected => writes = <<>>
  BY DEF SSLInv, Sending
<1>5. ~connected => \A k \in DOMAIN writes : writes[k].state = "aborted"
  BY DEF SSLInv, Late
<1>6. CASE flush' = <<>>
  <2>1. UNCHANGED <<sending, writes>>
    BY <1>6 DEF SwapAndWrite, sendVars
  <2>2. Sending'
    <3>1. ASSUME connected
          PROVE  ~sending' /\ writes' = <<>> /\ Len(writes') <= 1
      <4>1. writes' = <<>> /\ Len(<<>>) <= 1
        BY <1>4, <2>1, <3>1, EmptySeq
      <4>2. ~sending'
        BY <2>1, Zenon
      <4> QED
        BY <4>1, <4>2
    <3>2. connected' => connected /\ Streams(wire', flush', offset', main', accepted')
      BY <1>2, <1>3
    <3> QED
      BY <3>1, <3>2 DEF Sending
  <2> QED
    BY <1>1, <1>3, <1>5, <2>1, <2>2
<1>7. CASE flush' # <<>>
  <2> DEFINE rec == [bytes |-> SubSeq(flush', offset' + 1, Len(flush')),
                     state |-> IF connected THEN "open" ELSE "aborted"]
  <2>1. sending' = TRUE /\ writes' = Append(writes, rec)
    BY <1>7 DEF SwapAndWrite
  <2>2. SubSeq(flush', offset' + 1, Len(flush')) \in Seq(Nat)
    BY <1>3, RestOf
  <2>3. /\ rec \in WriteRecs /\ rec.bytes = SubSeq(flush', offset' + 1, Len(flush'))
        /\ ~connected => rec.state = "aborted"
    BY <2>2 DEF WriteRecs, States
  <2> HIDE DEF rec
  <2>4. /\ writes' \in Seq(WriteRecs) /\ Len(writes') = Len(writes) + 1
        /\ \A k \in 1..Len(writes) : writes'[k] = writes[k]
        /\ writes'[Len(writes) + 1] = rec
    BY <1>1, <2>1, <2>3, AppendProperties
  <2>5. DOMAIN writes = 1..Len(writes) /\ DOMAIN writes' = 1..(Len(writes) + 1) /\ Len(writes) \in Nat
    BY <1>1, <2>4, LenProperties
  <2>6. ~connected => \A k \in DOMAIN writes' : writes'[k].state = "aborted"
    <3>1. ASSUME ~connected, NEW k \in DOMAIN writes'
          PROVE  writes'[k].state = "aborted"
      <4>1. CASE k = Len(writes) + 1
        BY <2>3, <2>4, <3>1, <4>1
      <4>2. CASE k # Len(writes) + 1
        <5>1. k \in 1..Len(writes)
          BY <2>5, <3>1, <4>2
        <5> QED
          BY <1>5, <2>4, <2>5, <3>1, <5>1
      <4> QED
        BY <4>1, <4>2
    <3> QED
      BY <3>1
  <2>7. Sending'
    <3>1. ASSUME connected
          PROVE  Len(writes') = 1 /\ writes' # <<>> /\ writes'[1] = rec
      BY <1>4, <2>4, <3>1, EmptySeq
    <3>2. connected' => connected /\ Streams(wire', flush', offset', main', accepted')
      BY <1>2, <1>3
    <3>3. ASSUME connected
          PROVE  Len(writes') <= 1 /\ writes'[1].bytes = SubSeq(flush', offset' + 1, Len(flush'))
      <4>1. Len(writes') = 1 /\ writes'[1] = rec
        BY <3>1, <3>3
      <4>2. writes'[1].bytes = SubSeq(flush', offset' + 1, Len(flush'))
        BY <2>3, <4>1
      <4> QED
        BY <4>1, <4>2
    <3> QED
      BY <2>1, <3>1, <3>2, <3>3 DEF Sending
  <2> QED
    BY <1>3, <2>1, <2>4, <2>6, <2>7
<1> QED
  BY <1>6, <1>7

LEMMA TrySendKeeps ==
    ASSUME SSLInv, TrySend
    PROVE  SSLInv'
<1>1. TypeOK /\ Loop
  BY DEF SSLInv
<1>2. handshake \in Handshakes /\ shutOpen \in Nat /\ shutDone \in Nat /\ ioNext \in {"idle", "rearm"}
      /\ tasks \in Seq({"send", "close"}) /\ pc \in [Threads -> Places] /\ reads \in Seq(ReadRecs)
  BY <1>1, Typing
<1>3. /\ pc["io"] = "trysend" /\ Goto("io", ioNext)
      /\ UNCHANGED <<connected, handshaked, handshake, receiving, reads, shutOpen, shutDone, tasks, ioNext, accepted, wire>>
  BY DEF TrySend, flags, recvVars, shutVars, ghosts
<1>4. /\ pc' \in [Threads -> Places] /\ pc'["io"] = ioNext
      /\ \A u \in Senders : pc'[u] = pc[u]
  BY <1>1, <1>2, <1>3, IoGoes DEF Places
<1>5. Loop'
  BY <1>1, <1>2, <1>3, <1>4 DEF Loop, InRead
<1>6. CASE ~sending /\ handshaked /\ SwapAndWrite
  <2>1. /\ main' \in Seq(Nat) /\ flush' \in Seq(Nat) /\ offset' \in 0..Len(flush')
        /\ writes' \in Seq(WriteRecs) /\ sending' \in BOOLEAN
        /\ Sending'
        /\ ~connected => \A k \in DOMAIN writes' : writes'[k].state = "aborted"
    BY <1>3, <1>6, SwapKeeps DEF flags
  <2>2. handshake = "done"
    BY <1>6 DEF SSLInv, Before
  <2>3. TypeOK'
    <3>1. /\ wire' \in Seq(Nat) /\ accepted' \in Nat /\ connected' \in BOOLEAN
          /\ handshaked' \in BOOLEAN /\ receiving' \in BOOLEAN
      BY <1>1, <1>3, Typing
    <3> QED
      BY <1>2, <1>3, <1>4, <2>1, <3>1, Typed
  <2>4. Before' /\ After' /\ Late' /\ Reading'
    BY <1>3, <1>6, <2>1, <2>2 DEF SSLInv, Before, After, Late, Reading
  <2> QED
    BY <1>5, <2>1, <2>3, <2>4 DEF SSLInv
<1>7. CASE UNCHANGED <<bufferVars, sendVars>>
  <2>1. UNCHANGED still
    BY <1>3, <1>7 DEF still, flags, recvVars, ghosts
  <2>2. TypeOK'
    BY <1>2, <1>3, <1>4, <2>1, StillTyped
  <2>3. Before' /\ After' /\ Late' /\ Reading' /\ Sending'
    BY <1>2, <1>3, <2>1, StillKeeps
  <2> QED
    BY <1>5, <2>2, <2>3 DEF SSLInv
<1> QED
  BY <1>6, <1>7 DEF TrySend

\* A write that was sent in whole or part belongs to a connected session, is its
\* only one and had the rest of the flush buffer: what left is next in order.
LEMMA WriteKeeps ==
    ASSUME SSLInv, NEW k \in DOMAIN writes, WriteDone(k)
    PROVE  /\ SSLInv'
           /\ connected /\ UNCHANGED <<connected, accepted>>
           /\ \E n \in 1..(accepted - Len(wire)) : wire' = wire \o [i \in 1..n |-> Len(wire) + i]
<1> DEFINE rest == SubSeq(flush, offset + 1, Len(flush))
<1>1. TypeOK /\ Loop
  BY DEF SSLInv
<1>2. /\ main \in Seq(Nat) /\ flush \in Seq(Nat) /\ wire \in Seq(Nat) /\ accepted \in Nat
      /\ offset \in 0..Len(flush) /\ writes \in Seq(WriteRecs)
      /\ Len(flush) \in Nat /\ Len(wire) \in Nat
  BY <1>1, Typing, LenProperties
<1>3. /\ pc["io"] = "idle" /\ Goto("io", "trysend") /\ ioNext' = "idle" /\ sending' = FALSE
      /\ writes' = Without(writes, k) /\ writes[k].state = "ready" /\ handshaked
      /\ UNCHANGED <<connected, handshaked, handshake, main, receiving, reads, shutOpen, shutDone, tasks, accepted>>
  BY DEF WriteDone, flags, recvVars, shutVars
<1>4. connected
  BY <1>3 DEF SSLInv, Late
<1>5. /\ writes # <<>> /\ Len(writes) = 1 /\ k = 1
      /\ sending /\ writes[k].bytes = rest /\ Streams(wire, flush, offset, main, accepted)
  <2>1. k \in 1..Len(writes) /\ Len(writes) \in Nat
    BY <1>2, LenProperties
  <2>2. writes # <<>>
    BY <1>2, <2>1, EmptySeq
  <2>3. Len(writes) <= 1
    BY <1>4 DEF SSLInv, Sending
  <2>4. Len(writes) = 1 /\ k = 1
    <3> DEFINE l == Len(writes)
    <3>1. k \in 1..l /\ l \in Nat /\ l <= 1
      BY <2>1, <2>3
    <3> HIDE DEF l
    <3> QED
      <4>1. l = 1 /\ k = 1
        BY <3>1
      <4> QED
        BY <4>1 DEF l
  <2>5. sending
    BY <1>4, <2>2 DEF SSLInv, Sending
  <2>6. writes[1].bytes = rest /\ Streams(wire, flush, offset, main, accepted)
    BY <1>4, <2>5 DEF SSLInv, Sending
  <2> QED
    BY <2>2, <2>4, <2>5, <2>6
<1>6. PICK n \in 1..Len(writes[k].bytes) :
         wire' = wire \o SubSeq(writes[k].bytes, 1, n) /\ Written(n)
  BY DEF WriteDone
<1>7. rest \in Seq(Nat) /\ Len(rest) = Len(flush) - offset
  BY <1>2, RestOf
<1>8. n \in 1..(Len(flush) - offset) /\ wire' = wire \o SubSeq(rest, 1, n) /\ n \in Nat
  BY <1>2, <1>5, <1>6, <1>7
<1>9. Moves(wire, flush, offset, main, accepted, n)
  BY <1>2, <1>5, <1>8, StreamMoves
<1> DEFINE taken == SubSeq(rest, 1, n)
<1>10. /\ taken \in Seq(Nat) /\ Len(taken) = n /\ \A i \in 1..n : taken[i] = Len(wire) + i
       /\ wire \o taken \in Seq(Nat) /\ n \in 1..(accepted - Len(wire))
       /\ Streams(wire \o taken, flush, offset + n, main, accepted)
       /\ offset + n = Len(flush) => Streams(wire \o taken, <<>>, 0, main, accepted)
  BY <1>9 DEF Moves
<1> HIDE DEF taken, rest
<1>11. wire' = wire \o taken
  BY <1>8 DEF taken
<1>12. wire' = wire \o [i \in 1..n |-> Len(wire) + i]
  <2> DEFINE next == [i \in 1..n |-> Len(wire) + i]
  <2>1. next \in Seq(Nat) /\ Len(next) = n /\ \A i \in 1..n : next[i] = Len(wire) + i
    BY <1>2, <1>8, NextNumbers
  <2> HIDE DEF next
  <2>2. taken = next
    BY <1>2, <1>8, <1>10, <2>1, SameNumbers
  <2> QED
    BY <1>11, <2>2 DEF next
<1>13. writes' = <<>>
  <2>1. k - 1 = 0 /\ k + 1 = 2
    BY <1>5
  <2> QED
    BY <1>2, <1>3, <1>5, <2>1, OnlyTakenOut DEF Without
<1>14. /\ flush' \in Seq(Nat) /\ offset' \in 0..Len(flush')
       /\ Streams(wire', flush', offset', main', accepted')
  <2>1. CASE offset + n = Len(flush)
    <3>1. flush' = <<>> /\ offset' = 0
      BY <1>6, <2>1 DEF Written
    <3>2. Streams(wire', flush', offset', main', accepted')
      BY <1>3, <1>10, <1>11, <2>1, <3>1
    <3> QED
      BY <3>1, <3>2, EmptySeq
  <2>2. CASE offset + n # Len(flush)
    <3>1. flush' = flush /\ offset' = offset + n
      BY <1>6, <2>2 DEF Written
    <3>2. Streams(wire', flush', offset', main', accepted')
      BY <1>3, <1>10, <1>11, <3>1
    <3> QED
      BY <1>2, <1>8, <3>1, <3>2
  <2> QED
    BY <2>1, <2>2
<1>15. /\ pc' \in [Threads -> Places] /\ pc'["io"] = "trysend"
       /\ \A u \in Senders : pc'[u] = pc[u]
  BY <1>1, <1>3, IoGoes DEF Places
<1>16. TypeOK'
  <2>1. /\ accepted' \in Nat /\ main' \in Seq(Nat) /\ wire' \in Seq(Nat) /\ reads' \in Seq(ReadRecs)
        /\ shutOpen' \in Nat /\ shutDone' \in Nat /\ tasks' \in Seq({"send", "close"})
        /\ handshake' \in Handshakes
    BY <1>1, <1>3, <1>10, <1>11, Typing
  <2>2. connected' \in BOOLEAN /\ handshaked' \in BOOLEAN /\ receiving' \in BOOLEAN /\ sending' \in BOOLEAN
    BY <1>1, <1>3, Typing
  <2>3. writes' \in Seq(WriteRecs) /\ ioNext' \in {"idle", "rearm"}
    BY <1>3, <1>13, EmptySeq
  <2> QED
    BY <1>14, <1>15, <2>1, <2>2, <2>3, Typed
<1>17. Before' /\ After' /\ Late' /\ Reading'
  <2>1. handshake = "done" /\ handshake' = "done"
    BY <1>3, <1>5 DEF SSLInv, Before
  <2> QED
    BY <1>3, <1>4, <2>1 DEF SSLInv, Before, After, Late, Reading
<1>18. Sending'
  <2>1. writes' = <<>> /\ Len(writes') <= 1
    BY <1>13, EmptySeq
  <2> QED
    BY <1>3, <1>14, <2>1 DEF Sending
<1>19. Loop'
  BY <1>1, <1>3, <1>15 DEF Loop, InRead
<1> QED
  BY <1>3, <1>4, <1>10, <1>12, <1>16, <1>17, <1>18, <1>19 DEF SSLInv

\* A write that failed is taken out, whether it closes the session or finds it
\* closed.
LEMMA WriteFailureKeeps ==
    ASSUME SSLInv, NEW k \in DOMAIN writes, WriteFailed(k)
    PROVE  SSLInv'
<1>1. TypeOK /\ Loop
  BY DEF SSLInv
<1>2. /\ handshake \in Handshakes /\ shutDone \in Nat /\ writes \in Seq(WriteRecs)
      /\ reads \in Seq(ReadRecs) /\ pc \in [Threads -> Places] /\ Without(writes, k) \in Seq(WriteRecs)
  BY <1>1, Typing, TakenOut DEF Without
<1>3. pc["io"] = "idle" /\ UNCHANGED <<tasks, pc, ioNext>> /\ UNCHANGED ghosts
  BY DEF WriteFailed, threadVars
<1>4. writes # <<>> /\ handshake = "done"
  <2>1. k \in 1..Len(writes)
    BY <1>2, LenProperties
  <2>2. writes # <<>>
    BY <1>2, <2>1, EmptySeq
  <2> QED
    BY <2>2 DEF SSLInv, Before
<1>5. CASE handshaked /\ connected
  BY <1>2, <1>3, <1>4, <1>5, Disconnects DEF WriteFailed
<1>6. CASE ~(handshaked /\ connected)
  <2>1. /\ writes' = Without(writes, k) /\ sending' = FALSE
        /\ UNCHANGED <<connected, handshaked, handshake, main, flush, offset, receiving, reads, shutOpen, shutDone, accepted, wire>>
    BY <1>3, <1>6 DEF WriteFailed, flags, bufferVars, recvVars, shutVars, ghosts
  <2>2. ~connected
    BY <1>4, <1>6 DEF SSLInv, After
  <2>3. TypeOK'
    BY <1>1, <1>2, <1>3, <2>1 DEF TypeOK, WriteRecs
  <2>4. Before' /\ After' /\ Reading' /\ Sending'
    BY <1>4, <2>1, <2>2 DEF SSLInv, Before, After, Reading, Sending
  <2>5. Late'
    <3>1. ASSUME handshaked
          PROVE  \A j \in DOMAIN writes' : writes'[j].state = "aborted"
      <4> DEFINE gone == {x \in WriteRecs : x.state = "aborted"}
      <4>1. \A j \in 1..Len(writes) : writes[j] \in gone
        BY <1>2, <2>2, <3>1, LenProperties, ElementOfSeq DEF SSLInv, Late
      <4>2. writes \in Seq(gone)
        BY <1>2, <4>1, LenProperties, SeqDef
      <4>3. writes' \in Seq(gone)
        BY <2>1, <4>2, TakenOut DEF Without
      <4> QED
        BY <4>3, ElementOfSeq, LenProperties
    <3> QED
      BY <2>1, <2>2, <3>1 DEF SSLInv, Late
  <2>6. Loop'
    BY <1>1, <1>3, <2>1, LoopStays
  <2> QED
    BY <2>3, <2>4, <2>5, <2>6 DEF SSLInv
<1> QED
  BY <1>5, <1>6

\* The handler of a read takes it out; of a late handshake no read succeeds.
LEMMA ReadKeeps ==
    ASSUME SSLInv, ReadDone
    PROVE  SSLInv'
<1>1. TypeOK /\ Loop
  BY DEF SSLInv
<1>2. reads \in Seq(ReadRecs) /\ handshake \in Handshakes
  BY <1>1, Typing
<1>3. /\ pc["io"] = "idle" /\ Goto("io", "received") /\ reads # <<>> /\ reads' = Tail(reads)
      /\ receiving' = FALSE /\ handshaked /\ Head(reads).state = "ready"
      /\ UNCHANGED <<connected, handshaked, handshake, main, flush, offset, sending, writes, shutOpen, shutDone,
                     tasks, ioNext, accepted, wire>>
  BY DEF ReadDone, flags, bufferVars, sendVars, shutVars, ghosts
<1>4. 1 \in DOMAIN reads /\ Head(reads) = reads[1]
  BY <1>2, <1>3, EmptySeq, LenProperties
<1>5. connected
  BY <1>3, <1>4 DEF SSLInv, Late
<1>6. reads' \in Seq(ReadRecs) /\ reads' = <<>> /\ Len(reads') <= 1
  <2>1. Len(reads) <= 1
    BY <1>5 DEF SSLInv, Reading
  <2>2. reads' \in Seq(ReadRecs) /\ Len(reads') = Len(reads) - 1 /\ Len(reads) \in Nat \ {0}
    BY <1>2, <1>3, HeadTailProperties, EmptySeq
  <2>3. Len(reads') = 0
    BY <2>1, <2>2
  <2> QED
    BY <2>2, <2>3, EmptySeq
<1>7. /\ pc' \in [Threads -> Places] /\ pc'["io"] = "received"
      /\ \A u \in Senders : pc'[u] = pc[u]
  BY <1>1, <1>3, IoGoes DEF Places
<1>8. TypeOK'
  <2>1. receiving' \in BOOLEAN
    BY <1>3, Zenon
  <2> QED
    BY <1>1, <1>3, <1>6, <1>7, <2>1 DEF TypeOK, ReadRecs
<1>9. Before' /\ After' /\ Late' /\ Sending'
  BY <1>3, <1>5, <1>6 DEF SSLInv, Before, After, Late, Sending
<1>10. Reading'
  BY <1>3, <1>6 DEF Reading
<1>11. Loop'
  BY <1>1, <1>3, <1>5, <1>6, <1>7 DEF Loop, InRead
<1> QED
  BY <1>8, <1>9, <1>10, <1>11 DEF SSLInv

LEMMA ReadFailureKeeps ==
    ASSUME SSLInv, ReadFailed
    PROVE  SSLInv'
<1>1. TypeOK /\ Loop
  BY DEF SSLInv
<1>2. /\ handshake \in Handshakes /\ shutDone \in Nat /\ writes \in Seq(WriteRecs)
      /\ reads \in Seq(ReadRecs) /\ pc \in [Threads -> Places]
  BY <1>1, Typing
<1>3. pc["io"] = "idle" /\ reads # <<>> /\ UNCHANGED <<tasks, pc, ioNext>> /\ UNCHANGED ghosts
  BY DEF ReadFailed, threadVars
<1>4. handshake = "done"
  BY <1>3 DEF SSLInv, Before
<1>5. /\ Tail(reads) \in Seq(ReadRecs) /\ Len(Tail(reads)) = Len(reads) - 1
      /\ \A j \in 1..Len(Tail(reads)) : Tail(reads)[j] = reads[j + 1]
      /\ Len(reads) \in Nat \ {0}
  BY <1>2, <1>3, HeadTailProperties, EmptySeq
<1>6. CASE handshaked /\ connected
  BY <1>2, <1>3, <1>4, <1>5, <1>6, Disconnects DEF ReadFailed
<1>7. CASE ~(handshaked /\ connected)
  <2>1. /\ reads' = Tail(reads) /\ receiving' = FALSE
        /\ UNCHANGED <<connected, handshaked, handshake, main, flush, offset, sending, writes, shutOpen, shutDone, accepted, wire>>
    BY <1>3, <1>7 DEF ReadFailed, flags, bufferVars, sendVars, shutVars, ghosts
  <2>2. ~connected
    BY <1>4, <1>7 DEF SSLInv, After
  <2>3. TypeOK'
    <3>1. receiving' \in BOOLEAN
      BY <2>1, Zenon
    <3> QED
      BY <1>1, <1>3, <1>5, <2>1, <3>1 DEF TypeOK, ReadRecs
  <2>4. Before' /\ After' /\ Sending'
    BY <1>4, <2>1, <2>2 DEF Before, After, Sending
  <2>5. handshaked => reads' = <<>>
    <3>1. ASSUME handshaked
          PROVE  Len(reads') = 0
      <4>1. Len(reads) <= 1
        BY <3>1 DEF SSLInv, Reading
      <4> QED
        BY <1>5, <2>1, <4>1
    <3> QED
      BY <1>5, <2>1, <3>1, EmptySeq
  <2>6. Late' /\ Reading'
    <3>1. Len(<<>>) = 0 /\ DOMAIN <<>> = {}
      BY EmptySeq
    <3> QED
      BY <2>1, <2>2, <2>5, <3>1 DEF SSLInv, Late, Reading
  <2>7. Loop'
    BY <1>1, <1>3, <2>1, <2>2 DEF Loop, InRead
  <2> QED
    BY <2>3, <2>4, <2>6, <2>7 DEF SSLInv
<1> QED
  BY <1>6, <1>7

\* The end of that handler: the session is closed, or the next read begins.
LEMMA RearmKeeps ==
    ASSUME SSLInv, Rearm
    PROVE  SSLInv'
<1>1. TypeOK /\ Loop
  BY DEF SSLInv
<1>2. /\ handshake \in Handshakes /\ shutDone \in Nat /\ writes \in Seq(WriteRecs)
      /\ reads \in Seq(ReadRecs) /\ pc \in [Threads -> Places]
  BY <1>1, Typing
<1>3. pc["io"] = "rearm" /\ Goto("io", "idle") /\ UNCHANGED <<tasks, ioNext>> /\ UNCHANGED ghosts
  BY DEF Rearm
<1>4. /\ pc' \in [Threads -> Places] /\ pc'["io"] = "idle"
      /\ \A u \in Senders : pc'[u] = pc[u]
  BY <1>1, <1>3, IoGoes DEF Places
<1>5. connected /\ handshaked /\ reads = <<>> /\ handshake = "done"
  BY <1>1, <1>3 DEF SSLInv, Loop, InRead, Before
<1>6. CASE Disconnect(handshake, writes, reads, shutDone)
  BY <1>2, <1>3, <1>4, <1>5, <1>6, Disconnects
<1>7. CASE UNCHANGED <<flags, handshake, bufferVars, sendVars, shutVars>> /\ TryReceive
  <2>1. UNCHANGED <<connected, handshaked, handshake, main, flush, offset, sending, writes, shutOpen, shutDone,
                    tasks, ioNext, accepted, wire>>
    BY <1>3, <1>7 DEF flags, bufferVars, sendVars, shutVars, ghosts
  <2>2. ~receiving
    BY <1>5 DEF SSLInv, Reading
  <2> DEFINE rec == [state |-> IF connected THEN "open" ELSE "aborted"]
  <2>3. receiving' = TRUE /\ reads' = Append(<<>>, rec)
    BY <1>5, <1>7, <2>1, <2>2 DEF TryReceive
  <2>4. rec \in ReadRecs
    BY DEF ReadRecs, States
  <2> HIDE DEF rec
  <2>5. reads' \in Seq(ReadRecs) /\ Len(reads') = 1 /\ reads' # <<>>
    BY <2>3, <2>4
  <2>6. TypeOK'
    BY <1>1, <1>4, <2>1, <2>3, <2>5 DEF TypeOK, ReadRecs
  <2>7. Before' /\ After' /\ Late' /\ Reading' /\ Sending'
    BY <1>5, <2>1, <2>3, <2>5 DEF SSLInv, Before, After, Late, Reading, Sending
  <2>8. Loop'
    BY <1>1, <1>4, <2>1, <2>3 DEF Loop, InRead
  <2> QED
    BY <2>6, <2>7, <2>8 DEF SSLInv
<1> QED
  BY <1>6, <1>7 DEF Rearm

-----------------------------------------------------------------------------
(* The theorems *)

LEMMA InitHolds == Init => SSLInv
<1> SUFFICES ASSUME Init
             PROVE  SSLInv
  OBVIOUS
<1>1. <<>> \in Seq(Nat) /\ Len(<<>>) = 0 /\ <<>> \in Seq(WriteRecs) /\ <<>> \in Seq(ReadRecs) /\ <<>> \in Seq({"send", "close"})
  BY EmptySeq
<1>2. TypeOK
  <2>1. /\ main \in Seq(Nat) /\ flush \in Seq(Nat) /\ wire \in Seq(Nat)
        /\ writes \in Seq(WriteRecs) /\ reads \in Seq(ReadRecs) /\ tasks \in Seq({"send", "close"})
    BY <1>1 DEF Init
  <2>2. offset \in 0..Len(flush) /\ accepted \in Nat /\ shutOpen \in Nat /\ shutDone \in Nat
    BY <1>1 DEF Init
  <2>3. {connected, handshaked, sending, receiving} \subseteq BOOLEAN
    BY DEF Init
  <2>4. handshake \in Handshakes /\ pc \in [Threads -> Places] /\ ioNext \in {"idle", "rearm"}
    BY DEF Init, Handshakes, Places
  <2> QED
    BY <2>1, <2>2, <2>3, <2>4 DEF TypeOK, WriteRecs, ReadRecs
<1>3. Before /\ After /\ Late /\ Reading
  BY <1>1 DEF Init, Before, After, Late, Reading
<1>4. Sending
  <2>1. Streams(<<>>, <<>>, 0, <<>>, 0)
    BY <1>1 DEF Streams
  <2>2. /\ wire = <<>> /\ flush = <<>> /\ main = <<>> /\ offset = 0 /\ accepted = 0
        /\ writes = <<>> /\ Len(writes) <= 1 /\ ~sending
    BY <1>1 DEF Init
  <2>3. Streams(wire, flush, offset, main, accepted)
    BY <2>1, <2>2
  <2> QED
    BY <2>2, <2>3 DEF Sending
<1>5. Loop
  BY IoIsThread DEF Init, Loop, InRead
<1> QED
  BY <1>2, <1>3, <1>4, <1>5 DEF SSLInv

LEMMA StepKeeps == SSLInv /\ [Next]_vars => SSLInv'
<1> SUFFICES ASSUME SSLInv, [Next]_vars
             PROVE  SSLInv'
  OBVIOUS
<1>1. CASE UNCHANGED vars
  <2>1. TypeOK'
    BY <1>1 DEF vars, SSLInv, TypeOK
  <2>2. Before' /\ After' /\ Late' /\ Reading' /\ Sending'
    BY <1>1 DEF vars, SSLInv, Before, After, Late, Reading, Sending
  <2>3. Loop'
    BY <1>1, LoopStays DEF vars, SSLInv
  <2> QED
    BY <2>1, <2>2, <2>3 DEF SSLInv
<1>2. CASE IOTask
  BY <1>2, TaskKeeps
<1>3. CASE ShutdownHandler
  BY <1>3, ShutdownKeeps
<1>4. CASE Write
  BY <1>4, WriteKeeps, WriteFailureKeeps DEF Write
<1>5. CASE Read
  BY <1>5, ReadKeeps, ReadFailureKeeps DEF Read
<1>6. CASE Handshake
  BY <1>6, QuietKeeps, SuccessKeeps, FailureKeeps DEF Handshake
<1>7. CASE TrySend
  BY <1>7, TrySendKeeps
<1>8. CASE Rearm
  BY <1>8, RearmKeeps
<1>9. CASE Completes
  BY <1>9, CompletesKeeps
<1>10. CASE HandshakeInput \/ ShutdownAnswered \/ DisconnectAsync \/ ReceivedReturns
  BY <1>10, QuietKeeps
<1>11. ASSUME NEW t \in Threads, SendBegin(t) \/ SendStep(t)
       PROVE  SSLInv'
  BY <1>11, QuietKeeps, LockedKeeps DEF SendStep
<1> QED
  BY <1>1, <1>2, <1>3, <1>4, <1>5, <1>6, <1>7, <1>8, <1>9, <1>10, <1>11, IoIsThread DEF Next, Inner, Peer

\* The inductive invariant of the session.
THEOREM Invariance == Spec => []SSLInv
<1> QED
  BY InitHolds, StepKeeps, PTL DEF Spec

\* Every member of the session keeps its type, and the offset stays within the
\* flush buffer.
THEOREM TypeCorrect == Spec => []TypeOK
<1>1. SSLInv => TypeOK
  BY DEF SSLInv
<1> QED
  BY <1>1, Invariance, PTL

\* The TLS stream never has two reads or two writes under way, nor any before
\* its handshake is done; what a late handshake begins at a closed session can
\* only fail.
THEOREM NeverTwo == Spec => []OneAtATime
<1>1. SSLInv => OneAtATime
  <2> SUFFICES ASSUME SSLInv
               PROVE  OneAtATime
    OBVIOUS
  <2>1. connected /\ handshaked /\ pc["io"] = "idle" => receiving
    BY DEF SSLInv, Loop, InRead
  <2>2. OneEach
    BY <2>1 DEF SSLInv, Before, Reading, Sending, OneEach
  <2>3. LateIsHarmless
    BY DEF SSLInv, Late, Reading, LateIsHarmless
  <2> QED
    BY <2>2, <2>3 DEF OneAtATime
<1> QED
  BY <1>1, Invariance, PTL

\* What a step can do to the stream of bytes.
LEMMA Outcomes ==
    ASSUME [Next]_vars
    PROVE  \/ UNCHANGED <<connected, accepted, wire>>
           \/ connected' = FALSE /\ UNCHANGED <<accepted, wire>>
           \/ \E t \in Threads : SendLocked(t)
           \/ \E k \in DOMAIN writes : WriteDone(k)
<1>1. CASE UNCHANGED vars
  BY <1>1 DEF vars
<1>2. CASE IOTask \/ TrySend \/ ReceivedReturns \/ Completes \/ HandshakeInput \/ ShutdownAnswered \/ DisconnectAsync
  BY <1>2 DEF IOTask, TrySend, ReceivedReturns, Completes, HandshakeInput, ShutdownAnswered, DisconnectAsync, flags, ghosts
<1>3. CASE ShutdownHandler \/ Handshake \/ Read \/ Rearm
  BY <1>3 DEF ShutdownHandler, Handshake, HandshakeContinues, HandshakeSucceeds, HandshakeFails, Read, ReadDone, ReadFailed,
              Rearm, Disconnect, flags, ghosts
<1>4. CASE Write
  BY <1>4 DEF Write, WriteFailed, Disconnect, flags, ghosts
<1>5. ASSUME NEW t \in Threads, SendBegin(t) \/ SendDispatch(t)
      PROVE  UNCHANGED <<connected, accepted, wire>>
  BY <1>5 DEF SendBegin, SendDispatch, flags, ghosts
<1> QED
  BY <1>1, <1>2, <1>3, <1>4, <1>5, IoIsThread DEF Next, Inner, Peer, SendStep

\* What SendAsync accepted leaves in order, each byte once, through the
\* handshake and the short writes of the TLS stream, and nothing leaves after
\* the close.
THEOREM Refinement == Spec => ImplementsByteStream
<1>1. Init => Stream!Init
  BY DEF Init, Stream!Init
<1>2. SSLInv /\ [Next]_vars => [Stream!Next]_(Stream!streamVars)
  <2> SUFFICES ASSUME SSLInv, [Next]_vars
               PROVE  Stream!Next \/ UNCHANGED Stream!streamVars
    OBVIOUS
  <2>1. CASE UNCHANGED <<connected, accepted, wire>>
    BY <2>1 DEF Stream!streamVars
  <2>2. CASE connected' = FALSE /\ UNCHANGED <<accepted, wire>>
    BY <2>2 DEF Stream!Next, Stream!Close
  <2>3. CASE \E t \in Threads : SendLocked(t)
    <3>1. accepted \in Nat
      BY Typing DEF SSLInv
    <3>2. /\ UNCHANGED <<connected, wire>>
          /\ accepted' = accepted \/ \E n \in 1..MaxChunk : accepted' = accepted + n
      BY <2>3 DEF SendLocked, flags
    <3>3. CASE accepted' = accepted
      BY <3>2, <3>3 DEF Stream!streamVars
    <3>4. CASE \E n \in 1..MaxChunk : accepted' = accepted + n
      <4>1. accepted' \in Nat /\ accepted' > accepted
        BY <3>1, <3>4, SSLAssumption
      <4> QED
        BY <3>2, <4>1 DEF Stream!Next, Stream!Accept
    <3> QED
      BY <3>2, <3>3, <3>4
  <2>4. CASE \E k \in DOMAIN writes : WriteDone(k)
    <3>1. /\ connected /\ UNCHANGED <<connected, accepted>>
          /\ \E n \in 1..(accepted - Len(wire)) : wire' = wire \o [i \in 1..n |-> Len(wire) + i]
      BY <2>4, WriteKeeps
    <3> QED
      BY <3>1 DEF Stream!Next, Stream!Deliver
  <2> QED
    BY <2>1, <2>2, <2>3, <2>4, Outcomes
<1> QED
  BY <1>1, <1>2, Invariance, PTL DEF Spec, ImplementsByteStream, Stream!Spec
=============================================================================
