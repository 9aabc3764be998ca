--------------------------- MODULE TCPSessionProofs ---------------------------
(***************************************************************************)
(* Theorems about TCPSession, for any number of sending threads, every     *)
(* bound and every limit of the buffers: bytes leave in the order in which *)
(* SendAsync accepted them, one read and one write are under way, and no   *)
(* bytes are left behind in a buffer.                                      *)
(***************************************************************************)
EXTENDS TCPSession, Integers, SequenceTheorems, TLAPS

-----------------------------------------------------------------------------
(* The stream: the wire, the rest of the flush buffer and the main buffer *)

\* What a write is given: the buffer from the offset on.
LEMMA RestOf ==
    ASSUME NEW s \in Seq(Nat), NEW o \in 0..Len(s)
    PROVE  /\ SubSeq(s, o + 1, Len(s)) \in Seq(Nat)
           /\ Len(SubSeq(s, o + 1, Len(s))) = Len(s) - o
           /\ \A i \in 1..(Len(s) - o) : SubSeq(s, o + 1, Len(s))[i] = s[o + i]
  OBVIOUS

\* What the socket took of a write: its first n bytes.
LEMMA FirstOf ==
    ASSUME NEW s \in Seq(Nat), NEW n \in 1..Len(s)
    PROVE  /\ SubSeq(s, 1, n) \in Seq(Nat)
           /\ Len(SubSeq(s, 1, n)) = n
           /\ \A i \in 1..n : SubSeq(s, 1, n)[i] = s[i]
  OBVIOUS

\* One sequence behind another.
LEMMA Joined ==
    ASSUME NEW s \in Seq(Nat), NEW t \in Seq(Nat)
    PROVE  /\ s \o t \in Seq(Nat)
           /\ Len(s \o t) = Len(s) + Len(t)
           /\ \A i \in 1..Len(s) : (s \o t)[i] = s[i]
           /\ \A i \in 1..Len(t) : (s \o t)[Len(s) + i] = t[i]
  OBVIOUS

\* Bytes with the same numbers are the same.
LEMMA SameNumbers ==
    ASSUME NEW a \in Nat, NEW s \in Seq(Nat), NEW t \in Seq(Nat), Len(s) = Len(t),
           \A i \in 1..Len(s) : s[i] = a + i,
           \A i \in 1..Len(t) : t[i] = a + i
    PROVE  s = t
<1>1. \A i \in 1..Len(s) : s[i] = t[i]
  OBVIOUS
<1> QED
  BY <1>1, SeqEqual

\* Bytes with the next numbers.
LEMMA NextNumbers ==
    ASSUME NEW a \in Nat, NEW n \in Nat
    PROVE  /\ [i \in 1..n |-> a + i] \in Seq(Nat)
           /\ Len([i \in 1..n |-> a + i]) = n
           /\ \A k \in 1..n : [i \in 1..n |-> a + i][k] = a + k
  OBVIOUS

\* A write that is taken out leaves the others.
LEMMA TakenOut ==
    ASSUME NEW S, NEW w \in Seq(S), NEW k \in DOMAIN w
    PROVE  SubSeq(w, 1, k - 1) \o SubSeq(w, k + 1, Len(w)) \in Seq(S)
  OBVIOUS

\* Of one write, none is left.
LEMMA OnlyTakenOut ==
    ASSUME NEW S, NEW w \in Seq(S), Len(w) = 1
    PROVE  SubSeq(w, 1, 0) \o SubSeq(w, 2, Len(w)) = <<>>
  OBVIOUS

\* The wire w, the flush buffer f from offset o on and the main buffer m are,
\* one after the other, the bytes 1..a.
Streams(w, f, o, m, a) ==
    /\ \A i \in 1..Len(w) : w[i] = i
    /\ a = Len(w) + ((Len(f) - o) + Len(m))
    /\ \A i \in 1..(Len(f) - o) : f[o + i] = Len(w) + i
    /\ \A i \in 1..Len(m) : m[i] = Len(w) + (Len(f) - o) + i

\* SendAsync puts the next n bytes behind the main buffer.
LEMMA StreamGrows ==
    ASSUME NEW w \in Seq(Nat), NEW f \in Seq(Nat), NEW o \in 0..Len(f), NEW m \in Seq(Nat), NEW a \in Nat,
           Streams(w, f, o, m, a), NEW t \in Seq(Nat), \A i \in 1..Len(t) : t[i] = a + i
    PROVE  Streams(w, f, o, m \o t, a + Len(t))
<1>1. Len(w) \in Nat /\ Len(f) \in Nat /\ Len(m) \in Nat /\ Len(t) \in Nat
  OBVIOUS
<1>2. \A i \in 1..Len(m \o t) : (m \o t)[i] = Len(w) + (Len(f) - o) + i
  BY DEF Streams
<1>3. a + Len(t) = Len(w) + ((Len(f) - o) + Len(m \o t))
  BY DEF Streams
<1> QED
  BY <1>2, <1>3 DEF Streams

\* TrySend swaps the buffers when the flush buffer is empty.
LEMMA StreamSwaps ==
    ASSUME NEW w \in Seq(Nat), NEW m \in Seq(Nat), NEW a \in Nat, Streams(w, <<>>, 0, m, a)
    PROVE  Streams(w, m, 0, <<>>, a)
  BY DEF Streams

\* The first n bytes t of what TrySend handed over, the flush buffer from its
\* offset on, are the next of the stream, and go behind the wire.
Moves(w, f, o, m, a, n) ==
    LET t == SubSeq(SubSeq(f, o + 1, Len(f)), 1, n) IN
    /\ t \in Seq(Nat) /\ Len(t) = n /\ \A i \in 1..n : t[i] = Len(w) + i
    /\ w \o t \in Seq(Nat) /\ Len(w \o t) = Len(w) + n
    /\ n \in 1..(a - Len(w))
    /\ Streams(w \o t, f, o + n, m, a)
    /\ o + n = Len(f) => Streams(w \o t, <<>>, 0, m, a)

\* What a write was given are the bytes with the next numbers.
LEMMA StreamMoves ==
    ASSUME NEW w \in Seq(Nat), NEW f \in Seq(Nat), NEW o \in 0..Len(f), NEW m \in Seq(Nat), NEW a \in Nat,
           Streams(w, f, o, m, a), NEW n \in 1..(Len(f) - o)
    PROVE  Moves(w, f, o, m, a, n)
<1> DEFINE rest == SubSeq(f, o + 1, Len(f))
           t == SubSeq(rest, 1, n)
<1>1. Len(w) \in Nat /\ Len(f) \in Nat /\ Len(m) \in Nat /\ n \in Nat /\ n >= 1 /\ n <= Len(f) - o
  BY LenProperties
<1>2. rest \in Seq(Nat) /\ Len(rest) = Len(f) - o /\ \A i \in 1..(Len(f) - o) : rest[i] = f[o + i]
  BY RestOf
<1> HIDE DEF rest
<1>3. t \in Seq(Nat) /\ Len(t) = n /\ \A i \in 1..n : t[i] = rest[i]
  <2>1. n \in 1..Len(rest)
    BY <1>2
  <2> QED
    BY <1>2, <2>1, FirstOf
<1> HIDE DEF t
<1>4. \A i \in 1..n : t[i] = Len(w) + i
  <2>1. TAKE i \in 1..n
  <2>2. i \in 1..(Len(f) - o)
    BY <1>1
  <2>3. f[o + i] = Len(w) + i
    BY <2>2 DEF Streams
  <2> QED
    BY <1>2, <1>3, <2>2, <2>3
<1>5. /\ w \o t \in Seq(Nat) /\ Len(w \o t) = Len(w) + n
      /\ \A i \in 1..Len(w \o t) : (w \o t)[i] = i
  <2>1. \A i \in 1..Len(w) : w[i] = i
    BY DEF Streams
  <2>2. /\ w \o t \in Seq(Nat) /\ Len(w \o t) = Len(w) + n
        /\ \A i \in 1..Len(w) : (w \o t)[i] = w[i]
        /\ \A i \in 1..n : (w \o t)[Len(w) + i] = t[i]
    BY <1>3, Joined
  <2>3. \A i \in 1..Len(w \o t) : i \in 1..Len(w) \/ (i - Len(w) \in 1..n /\ i = Len(w) + (i - Len(w)))
    BY <1>1, <2>2
  <2> QED  BY <1>1, <1>4, <2>1, <2>2, <2>3
<1>6. a = Len(w) + ((Len(f) - o) + Len(m)) /\ n \in 1..(a - Len(w))
  <2>1. a = Len(w) + ((Len(f) - o) + Len(m))
    BY DEF Streams
  <2> QED
    BY <1>1, <2>1
<1>7. Len(f) - (o + n) = (Len(f) - o) - n
  BY <1>1
<1>8. a = Len(w \o t) + ((Len(f) - (o + n)) + Len(m))
  BY <1>1, <1>5, <1>6, <1>7
<1>9. \A i \in 1..(Len(f) - (o + n)) : f[(o + n) + i] = Len(w \o t) + i
  <2>1. TAKE i \in 1..(Len(f) - (o + n))
  <2>2. n + i \in 1..(Len(f) - o) /\ o + (n + i) = (o + n) + i
    BY <1>1, <1>7
  <2>3. f[o + (n + i)] = Len(w) + (n + i)
    BY <2>2 DEF Streams
  <2> QED
    BY <1>1, <1>5, <2>2, <2>3
<1>10. \A i \in 1..Len(m) : m[i] = Len(w \o t) + (Len(f) - (o + n)) + i
  <2>1. TAKE i \in 1..Len(m)
  <2>2. m[i] = Len(w) + (Len(f) - o) + i
    BY DEF Streams
  <2> QED
    BY <1>1, <1>5, <1>7, <2>2
<1>11. Streams(w \o t, f, o + n, m, a)
  BY <1>5, <1>8, <1>9, <1>10 DEF Streams
<1>12. ASSUME o + n = Len(f)
       PROVE  Streams(w \o t, <<>>, 0, m, a)
  <2> DEFINE r == Len(f) - (o + n)
             l == Len(w \o t)
  <2>1. r = 0 /\ l \in Nat
    BY <1>1, <1>5, <1>12
  <2>2. a = l + (r + Len(m)) /\ \A i \in 1..Len(m) : m[i] = l + r + i
    BY <1>8, <1>10
  <2>3. Len(<<>>) = 0
    BY EmptySeq
  <2> HIDE DEF r, l
  <2>4. a = l + Len(m)
    BY <1>1, <2>1, <2>2
  <2>5. \A i \in 1..Len(m) : m[i] = l + i
    BY <2>1, <2>2
  <2>6. a = l + ((Len(<<>>) - 0) + Len(m))
    BY <1>1, <2>1, <2>3, <2>4
  <2>7. \A i \in 1..Len(m) : m[i] = l + (Len(<<>>) - 0) + i
    BY <2>1, <2>3, <2>5
  <2>8. \A i \in 1..(Len(<<>>) - 0) : <<>>[0 + i] = l + i
    BY <2>3
  <2> QED
    BY <1>5, <2>6, <2>7, <2>8 DEF Streams, l
<1> QED
  BY <1>3, <1>4, <1>5, <1>6, <1>11, <1>12 DEF Moves, t, rest

-----------------------------------------------------------------------------
(* The inductive invariant *)

\* The buffers, the write under way and what has left.
SendTypes ==
    /\ connected \in BOOLEAN /\ sending \in BOOLEAN
    /\ main \in Seq(Nat) /\ flush \in Seq(Nat) /\ wire \in Seq(Nat)
    /\ offset \in 0..Len(flush)
    /\ bytesPending \in Nat /\ bytesSending \in Nat
    /\ writes \in Seq(Seq(Nat))
    /\ accepted \in Nat

SendInv == SendTypes /\ StreamIntact /\ OneWrite

\* The threads, the posted handlers and the read loop.
ControlTypes ==
    /\ receiving \in BOOLEAN
    /\ reads \in Nat /\ recvSize \in 1..MaxRecvSize /\ got \in 0..recvSize
    /\ tasks \in Seq({"send", "close"})
    /\ pc \in [Threads -> Places]
    /\ ioNext \in {"idle", "rearm"}

\* The IO thread is in the handler of a read: in the callback, in a SendAsync
\* that the callback called, or behind it.
InRead == pc["io"] \in {"received", "rearm"} \/ (pc["io"] # "idle" /\ ioNext = "rearm")

\* Only the IO thread runs handlers, and it calls SendAsync from the handler
\* of a read. That handler has taken the one read, and begins the next; the
\* session cannot be closed before it is done.
Loop ==
    /\ \A t \in Senders : pc[t] \notin {"received", "rearm", "trysend"}
    /\ pc["io"] \in {"checked", "refused", "dispatch"} => ioNext = "rearm"
    /\ InRead => connected /\ reads = 0
    /\ connected /\ ~InRead => receiving /\ reads = 1
    /\ RecvLimit > 0 /\ recvSize > RecvSize => recvSize <= RecvLimit

SessionInv == SendInv /\ ControlTypes /\ Loop /\ NoForgottenBytes

-----------------------------------------------------------------------------
(* The send side *)

\* A step that touches neither the buffers, nor a write, nor what has left.
LEMMA SendQuiet ==
    SendInv /\ UNCHANGED <<connected, bufferVars, sending, writes, ghosts>> => SendInv'
  BY DEF SendInv, SendTypes, StreamIntact, OneWrite, Unsent, bufferVars, ghosts

\* The close forgets the buffers; writes in flight complete into nothing.
LEMMA CloseKeeps ==
    ASSUME SendInv, CloseNow, writes' \in Seq(Seq(Nat)), UNCHANGED ghosts
    PROVE  SendInv'
<1>1. /\ connected' = FALSE /\ sending' = FALSE
      /\ main' = <<>> /\ flush' = <<>> /\ offset' = 0
      /\ bytesPending' = 0 /\ bytesSending' = 0
      /\ accepted' = accepted /\ wire' = wire
  BY DEF CloseNow, ClearBuffers, ghosts
<1>2. <<>> \in Seq(Nat) /\ Len(<<>>) = 0
  BY EmptySeq
<1>3. SendTypes'
  <2>1. main' \in Seq(Nat) /\ flush' \in Seq(Nat) /\ offset' \in 0..Len(flush')
    BY <1>1, <1>2
  <2>2. wire' \in Seq(Nat) /\ accepted' \in Nat
    BY <1>1 DEF SendInv, SendTypes
  <2> QED
    BY <1>1, <2>1, <2>2 DEF SendTypes
<1>4. StreamIntact'
  BY <1>1, <1>2 DEF SendInv, SendTypes, StreamIntact, Unsent
<1> QED
  BY <1>1, <1>3, <1>4 DEF SendInv, OneWrite

\* Of a connected session the bytes are one stream.
LEMMA AsStream ==
    ASSUME SendInv, connected
    PROVE  Streams(wire, flush, offset, main, accepted)
<1>1. DOMAIN wire = 1..Len(wire) /\ DOMAIN main = 1..Len(main)
  BY LenProperties DEF SendInv, SendTypes
<1> QED
  BY <1>1 DEF SendInv, StreamIntact, Unsent, Streams

\* And a stream with the right counters is intact.
LEMMA StreamIsIntact ==
    ASSUME SendTypes', Streams(wire', flush', offset', main', accepted'), connected',
           bytesPending' = Len(main'), bytesSending' = Len(flush') - offset'
    PROVE  StreamIntact'
<1>1. DOMAIN wire' = 1..Len(wire') /\ DOMAIN main' = 1..Len(main')
  BY LenProperties DEF SendTypes
<1>2. Len(wire') \in Nat /\ Len(flush') \in Nat /\ Len(main') \in Nat /\ offset' \in 0..Len(flush')
  BY LenProperties DEF SendTypes
<1>3. accepted' = Len(wire') + ((Len(flush') - offset') + Len(main'))
  BY DEF Streams
<1>4. Len(wire') <= accepted'
  BY <1>2, <1>3
<1> QED
  BY <1>1, <1>3, <1>4 DEF StreamIntact, Unsent, Streams

\* SendAsync appends the bytes with the next numbers to the main buffer, behind
\* all that it accepted before.
LEMMA LockedKeeps ==
    ASSUME NEW t \in Threads, SendInv, SendLocked(t)
    PROVE  SendInv'
<1>1. PICK n \in 1..MaxChunk :
         IF SendLimit > 0 /\ Len(main) + n > SendLimit
              THEN UNCHANGED <<main, bytesPending, accepted>>
              ELSE /\ main' = main \o NextBytes(n)
                   /\ bytesPending' = Len(main) + n
                   /\ accepted' = accepted + n
  BY DEF SendLocked
<1>2. UNCHANGED <<connected, flush, offset, bytesSending, sending, writes, wire>>
  BY DEF SendLocked
<1>3. CASE UNCHANGED <<main, bytesPending, accepted>>
  BY <1>2, <1>3, SendQuiet DEF bufferVars, ghosts
<1>4. CASE /\ main' = main \o NextBytes(n)
           /\ bytesPending' = Len(main) + n
           /\ accepted' = accepted + n
  <2>1. /\ main \in Seq(Nat) /\ flush \in Seq(Nat) /\ wire \in Seq(Nat)
        /\ accepted \in Nat /\ n \in Nat /\ Len(main) \in Nat /\ Len(wire) \in Nat
        /\ Len(flush) \in Nat /\ offset \in 0..Len(flush)
    BY SessionAssumption, LenProperties DEF SendInv, SendTypes
  <2>2. /\ NextBytes(n) \in Seq(Nat) /\ Len(NextBytes(n)) = n
        /\ \A i \in 1..n : NextBytes(n)[i] = accepted + i
    BY <2>1, NextNumbers DEF NextBytes
  <2>3. main' \in Seq(Nat) /\ Len(main') = Len(main) + n
    <3>1. main \o NextBytes(n) \in Seq(Nat) /\ Len(main \o NextBytes(n)) = Len(main) + Len(NextBytes(n))
      BY <2>1, <2>2, ConcatProperties
    <3> QED
      BY <1>4, <2>2, <3>1
  <2>4. SendTypes'
    BY <1>2, <1>4, <2>1, <2>3 DEF SendInv, SendTypes
  <2>5. /\ bytesPending' = Len(main') /\ bytesSending' = Len(flush') - offset'
        /\ Len(wire') <= accepted' /\ \A i \in DOMAIN wire' : wire'[i] = i
        /\ ~connected' => flush' = <<>> /\ offset' = 0
    <3>1. /\ Len(wire) <= accepted /\ bytesSending = Len(flush) - offset
          /\ \A i \in DOMAIN wire : wire[i] = i /\ (~connected => flush = <<>> /\ offset = 0)
      BY DEF SendInv, StreamIntact
    <3>2. ~connected => flush = <<>> /\ offset = 0
      BY DEF SendInv, StreamIntact
    <3> QED
      BY <1>2, <1>4, <2>1, <2>3, <3>1, <3>2
  <2>6. CASE connected
    <3>1. Streams(wire, flush, offset, main \o NextBytes(n), accepted + Len(NextBytes(n)))
      <4>1. Streams(wire, flush, offset, main, accepted)
        BY <2>6, AsStream
      <4>2. \A i \in 1..Len(NextBytes(n)) : NextBytes(n)[i] = accepted + i
        BY <2>2
      <4>3. NextBytes(n) \in Seq(Nat)
        BY <2>2
      <4> QED
        BY <2>1, <4>1, <4>2, <4>3, StreamGrows
    <3>2. Streams(wire', flush', offset', main', accepted')
      BY <1>2, <1>4, <2>2, <3>1
    <3> QED
      BY <1>2, <2>4, <2>5, <2>6, <3>2, StreamIsIntact DEF SendInv, OneWrite
  <2>7. CASE ~connected
    BY <1>2, <2>4, <2>5, <2>7 DEF SendInv, OneWrite, StreamIntact
  <2> QED
    BY <2>6, <2>7
<1> QED
  BY <1>1, <1>3, <1>4

\* TrySend swaps the buffers when all of the flush buffer was written, and
\* begins a write of what the flush buffer then holds. No write is outstanding,
\* as _sending is not set.
LEMMA TrySendKeeps ==
    ASSUME SendInv, connected, ~sending, SwapAndWrite,
           UNCHANGED <<connected, accepted, wire>>
    PROVE  SendInv'
<1>1. /\ main \in Seq(Nat) /\ flush \in Seq(Nat) /\ wire \in Seq(Nat) /\ accepted \in Nat
      /\ Len(main) \in Nat /\ Len(flush) \in Nat
      /\ offset \in 0..Len(flush)
  BY LenProperties DEF SendInv, SendTypes
<1>2. writes = <<>>
  BY DEF SendInv, OneWrite
<1>3. /\ bytesPending = Len(main) /\ bytesSending = Len(flush) - offset
      /\ Streams(wire, flush, offset, main, accepted)
  BY AsStream DEF SendInv, StreamIntact
<1>4. /\ main' \in Seq(Nat) /\ flush' \in Seq(Nat) /\ offset' \in 0..Len(flush')
      /\ bytesPending' \in Nat /\ bytesSending' \in Nat
      /\ bytesPending' = Len(main') /\ bytesSending' = Len(flush') - offset'
      /\ Streams(wire', flush', offset', main', accepted')
  <2>1. CASE flush = <<>>
    <3>1. /\ flush' = main /\ main' = <<>> /\ offset' = 0 /\ bytesPending' = 0
          /\ bytesSending' = bytesSending + Len(main) /\ wire' = wire /\ accepted' = accepted
      BY <2>1 DEF SwapAndWrite
    <3>2. Len(flush) = 0 /\ offset = 0 /\ Len(main') = 0 /\ main' \in Seq(Nat)
      BY <1>1, <2>1, <3>1, EmptySeq
    <3>3. Streams(wire, main, 0, <<>>, accepted)
      <4>1. Streams(wire, <<>>, 0, main, accepted)
        BY <1>3, <2>1, <3>2
      <4> QED
        BY <1>1, <4>1, StreamSwaps
    <3>4. Streams(wire', flush', offset', main', accepted')
      BY <3>1, <3>3
    <3>5. bytesSending' = Len(main) /\ Len(flush') = Len(main)
      BY <1>1, <1>3, <3>1, <3>2
    <3> QED
      BY <1>1, <3>1, <3>2, <3>4, <3>5
  <2>2. CASE flush # <<>>
    <3>1. UNCHANGED <<main, flush, offset, bytesPending, bytesSending, wire, accepted>>
      BY <2>2 DEF SwapAndWrite, bufferVars
    <3> QED
      BY <1>1, <1>3, <3>1
  <2> QED
    BY <2>1, <2>2
<1>5. /\ writes' \in Seq(Seq(Nat)) /\ sending' \in BOOLEAN
      /\ sending' <=> writes' # <<>>
      /\ sending' => writes' = <<SubSeq(flush', offset' + 1, Len(flush'))>> /\ flush' # <<>>
  <2>1. CASE flush' = <<>>
    BY <1>2, <2>1 DEF SwapAndWrite, SendInv, SendTypes
  <2>2. CASE flush' # <<>>
    <3>1. sending' = TRUE /\ writes' = Append(writes, SubSeq(flush', offset' + 1, Len(flush')))
      BY <2>2 DEF SwapAndWrite
    <3>2. SubSeq(flush', offset' + 1, Len(flush')) \in Seq(Nat)
      BY <1>4, RestOf
    <3> QED
      BY <1>2, <2>2, <3>1, <3>2
  <2> QED
    BY <2>1, <2>2
<1>6. SendTypes'
  <2>1. wire' \in Seq(Nat) /\ accepted' \in Nat /\ connected' \in BOOLEAN
    BY <1>1 DEF SendInv, SendTypes
  <2> QED
    BY <1>4, <1>5, <2>1 DEF SendTypes
<1>7. StreamIntact'
  BY <1>4, <1>6, StreamIsIntact
<1> QED
  BY <1>5, <1>6, <1>7 DEF SendInv, OneWrite

\* A write that the socket took in whole or part: it was the only one, it had
\* the rest of the flush buffer, and its bytes are the next in order.
LEMMA WriteKeeps ==
    ASSUME SendInv, connected, NEW k \in DOMAIN writes, NEW n \in 1..Len(writes[k]),
           WriteCompletes(k, n)
    PROVE  /\ SendInv'
           /\ n \in 1..(accepted - Len(wire))
           /\ wire' = wire \o [i \in 1..n |-> Len(wire) + i]
<1> DEFINE rest == SubSeq(flush, offset + 1, Len(flush))
           taken == SubSeq(rest, 1, n)
<1>1. /\ main \in Seq(Nat) /\ flush \in Seq(Nat) /\ wire \in Seq(Nat) /\ accepted \in Nat
      /\ Len(main) \in Nat /\ Len(flush) \in Nat /\ Len(wire) \in Nat
      /\ offset \in 0..Len(flush)
  BY LenProperties DEF SendInv, SendTypes
<1>2. /\ bytesPending = Len(main) /\ bytesSending = Len(flush) - offset
      /\ Streams(wire, flush, offset, main, accepted)
  BY AsStream DEF SendInv, StreamIntact
<1>3. rest \in Seq(Nat) /\ Len(rest) = Len(flush) - offset
  BY <1>1, RestOf
<1>4. writes = <<rest>> /\ k = 1 /\ writes[k] = rest
  <2>1. writes # <<>>
    BY DEF SendInv, SendTypes
  <2>2. writes = <<rest>>
    BY <2>1 DEF SendInv, OneWrite
  <2> QED
    BY <2>2
<1>5. n \in 1..(Len(flush) - offset) /\ n \in 1..Len(rest) /\ n \in Nat
  BY <1>1, <1>3, <1>4
<1>6. /\ writes' = <<>> /\ sending' = FALSE /\ wire' = wire \o taken
      /\ UNCHANGED <<connected, main, bytesPending, accepted>>
  <2>1. writes \in Seq(Seq(Nat)) /\ Len(writes) = 1
    BY <1>4 DEF SendInv, SendTypes
  <2>2. writes' = SubSeq(writes, 1, k - 1) \o SubSeq(writes, k + 1, Len(writes)) /\ wire' = wire \o taken
    BY <1>4 DEF WriteCompletes, Without
  <2>3. k - 1 = 0 /\ k + 1 = 2
    BY <1>4
  <2>4. writes' = <<>>
    BY <2>1, <2>2, <2>3, OnlyTakenOut
  <2> QED
    BY <2>2, <2>4 DEF WriteCompletes
<1>7. /\ taken \in Seq(Nat) /\ Len(taken) = n /\ \A i \in 1..n : taken[i] = Len(wire) + i
      /\ wire \o taken \in Seq(Nat)
      /\ n \in 1..(accepted - Len(wire))
      /\ Streams(wire \o taken, flush, offset + n, main, accepted)
      /\ offset + n = Len(flush) => Streams(wire \o taken, <<>>, 0, main, accepted)
  <2>1. Streams(wire, flush, offset, main, accepted)
    BY <1>2
  <2>2. Moves(wire, flush, offset, main, accepted, n)
    BY <1>1, <1>5, <2>1, StreamMoves
  <2> QED
    BY <2>2 DEF Moves
<1>8. wire' = wire \o [i \in 1..n |-> Len(wire) + i]
  <2> DEFINE next == [i \in 1..n |-> Len(wire) + i]
  <2>1. next \in Seq(Nat) /\ Len(next) = n /\ \A i \in 1..n : next[i] = Len(wire) + i
    BY <1>1, <1>5, NextNumbers
  <2> HIDE DEF taken, next
  <2>2. taken = next
    BY <1>1, <1>5, <1>7, <2>1, SameNumbers
  <2> QED
    BY <1>6, <2>2 DEF next
<1> HIDE DEF rest, taken
<1>9. /\ flush' \in Seq(Nat) /\ offset' \in 0..Len(flush')
      /\ bytesSending' = Len(flush') - offset' /\ bytesSending' \in Nat
      /\ Streams(wire', flush', offset', main', accepted')
  <2>1. bytesSending' = (Len(flush) - offset) - n
    BY <1>2 DEF WriteCompletes, Written
  <2>2. CASE offset + n = Len(flush)
    <3>1. flush' = <<>> /\ offset' = 0
      BY <2>2 DEF WriteCompletes, Written
    <3>2. Streams(wire', flush', offset', main', accepted')
      BY <1>6, <1>7, <2>2, <3>1
    <3>3. Len(flush') = 0 /\ flush' \in Seq(Nat) /\ bytesSending' = 0
      BY <1>1, <1>5, <2>1, <2>2, <3>1, EmptySeq
    <3> QED
      BY <3>1, <3>2, <3>3
  <2>3. CASE offset + n # Len(flush)
    <3>1. flush' = flush /\ offset' = offset + n
      BY <2>3 DEF WriteCompletes, Written
    <3>2. Streams(wire', flush', offset', main', accepted')
      BY <1>6, <1>7, <3>1
    <3> QED
      BY <1>1, <1>5, <2>1, <2>3, <3>1, <3>2
  <2> QED
    BY <2>2, <2>3
<1>10. SendTypes'
  BY <1>1, <1>6, <1>7, <1>9, EmptySeq DEF SendTypes, SendInv
<1>11. StreamIntact'
  BY <1>2, <1>6, <1>9, <1>10, StreamIsIntact
<1>12. OneWrite'
  BY <1>6 DEF OneWrite
<1> QED
  BY <1>7, <1>8, <1>10, <1>11, <1>12 DEF SendInv

\* What a step can do to the send side.
LEMMA Outcomes ==
    ASSUME SendTypes, [Next]_vars
    PROVE  \/ UNCHANGED <<connected, bufferVars, sending, writes, ghosts>>
           \/ \E t \in Threads : SendLocked(t)
           \/ CloseNow /\ writes' \in Seq(Seq(Nat)) /\ UNCHANGED ghosts
           \/ connected /\ ~sending /\ SwapAndWrite /\ UNCHANGED <<connected, accepted, wire>>
           \/ connected /\ \E k \in DOMAIN writes : \E n \in 1..Len(writes[k]) : WriteCompletes(k, n)
           \/ /\ ~connected /\ sending' = FALSE /\ writes' \in Seq(Seq(Nat))
              /\ UNCHANGED <<connected, bufferVars, ghosts>>
<1>1. CASE UNCHANGED vars
  BY <1>1 DEF vars, bufferVars, ghosts
<1>2. CASE IOTask
  <2>1. UNCHANGED <<writes, ghosts>>
    BY <1>2 DEF IOTask
  <2> QED
    BY <1>2, <2>1 DEF IOTask, SendTypes
<1>3. CASE TrySend
  BY <1>3 DEF TrySend, ghosts
<1>4. CASE ReceivedReturns
  BY <1>4 DEF ReceivedReturns
<1>5. CASE Rearm
  <2>1. UNCHANGED <<writes, ghosts>>
    BY <1>5 DEF Rearm
  <2> QED
    BY <1>5, <2>1 DEF Rearm, SendTypes
<1>6. ASSUME NEW t \in Threads, SendStep(t) \/ SendBegin(t)
      PROVE  UNCHANGED <<connected, bufferVars, sending, writes, ghosts>> \/ SendLocked(t)
  BY <1>6 DEF SendStep, SendBegin, SendRefused, SendDispatch
<1>7. CASE Disconnect
  BY <1>7 DEF Disconnect
<1>8. CASE Write
  <2>1. PICK k \in DOMAIN writes : (\E n \in 1..Len(writes[k]) : WriteDone(k, n)) \/ WriteFailed(k)
    BY <1>8 DEF Write
  <2>2. CASE \E n \in 1..Len(writes[k]) : WriteDone(k, n)
    BY <2>2 DEF WriteDone
  <2>3. CASE WriteFailed(k)
    <3>1. writes' \in Seq(Seq(Nat))
      BY <2>3, TakenOut DEF WriteFailed, SendTypes, Without
    <3> QED
      BY <2>3, <3>1 DEF WriteFailed
  <2> QED
    BY <2>1, <2>2, <2>3
<1>9. CASE ReadDone
  BY <1>9 DEF ReadDone
<1>10. CASE ReadFailed
  <2>1. UNCHANGED <<writes, ghosts>>
    BY <1>10 DEF ReadFailed
  <2> QED
    BY <1>10, <2>1 DEF ReadFailed, SendTypes
<1> QED
  BY <1>1, <1>2, <1>3, <1>4, <1>5, <1>6, <1>7, <1>8, <1>9, <1>10
     DEF Next, IOStep, Environment, Threads

\* Every step keeps the send side.
LEMMA SendSide == SendInv /\ [Next]_vars => SendInv'
<1> SUFFICES ASSUME SendInv, [Next]_vars
             PROVE  SendInv'
  OBVIOUS
<1>1. SendTypes
  BY DEF SendInv
<1>2. CASE /\ ~connected /\ sending' = FALSE /\ writes' \in Seq(Seq(Nat))
           /\ UNCHANGED <<connected, bufferVars, ghosts>>
  <2>1. UNCHANGED <<connected, main, flush, offset, bytesPending, bytesSending, accepted, wire>>
    BY <1>2 DEF bufferVars, ghosts
  <2>2. SendTypes'
    BY <1>1, <1>2, <2>1 DEF SendTypes
  <2>3. StreamIntact'
    BY <2>1 DEF SendInv, StreamIntact, Unsent
  <2> QED
    BY <1>2, <2>2, <2>3 DEF SendInv, OneWrite
<1>3. CASE CloseNow /\ writes' \in Seq(Seq(Nat)) /\ UNCHANGED ghosts
  BY <1>3, CloseKeeps
<1>4. CASE connected /\ ~sending /\ SwapAndWrite /\ UNCHANGED <<connected, accepted, wire>>
  BY <1>4, TrySendKeeps
<1>5. CASE connected /\ \E k \in DOMAIN writes : \E n \in 1..Len(writes[k]) : WriteCompletes(k, n)
  BY <1>5, WriteKeeps
<1>6. CASE \E t \in Threads : SendLocked(t)
  BY <1>6, LockedKeeps
<1>7. CASE UNCHANGED <<connected, bufferVars, sending, writes, ghosts>>
  BY <1>7, SendQuiet
<1> QED
  BY <1>1, <1>2, <1>3, <1>4, <1>5, <1>6, <1>7, Outcomes

-----------------------------------------------------------------------------
(* The threads and the read loop *)

ControlInv == ControlTypes /\ Loop

\* The state of the threads and the read that only handlers change.
control == <<recvVars, tasks, pc, ioNext>>

\* A thread goes on; the others stay where they are.
LEMMA Going ==
    ASSUME ControlTypes, NEW t \in Threads, NEW l \in Places, Goto(t, l)
    PROVE  /\ pc' \in [Threads -> Places] /\ pc'[t] = l
           /\ \A u \in Threads : u # t => pc'[u] = pc[u]
  BY DEF ControlTypes, Goto

LEMMA IoIsThread == "io" \in Threads /\ \A t \in Senders : t \in Threads /\ t # "io"
  BY SessionAssumption DEF Threads

\* Posting a handler, and taking the first.
LEMMA Posting ==
    ASSUME ControlTypes
    PROVE  /\ \A h \in {"send", "close"} : Append(tasks, h) \in Seq({"send", "close"})
           /\ tasks # <<>> => Tail(tasks) \in Seq({"send", "close"}) /\ Head(tasks) \in {"send", "close"}
  BY AppendProperties, HeadTailProperties DEF ControlTypes

\* SendAsync, on any thread.
LEMMA SendLoop ==
    ASSUME ControlInv, NEW t \in Threads, SendBegin(t) \/ SendStep(t)
    PROVE  ControlInv'
<1>1. "io" \in Threads /\ \A u \in Senders : u \in Threads /\ u # "io"
  BY IoIsThread
<1>2. UNCHANGED recvVars /\ UNCHANGED connected
  BY DEF SendBegin, SendStep, SendLocked, SendRefused, SendDispatch
<1>3. CASE SendBegin(t)
  <2>1. Goto(t, "checked") /\ "checked" \in Places /\ UNCHANGED tasks
    BY <1>3 DEF SendBegin, Places
  <2>2. /\ pc' \in [Threads -> Places] /\ pc'[t] = "checked"
        /\ \A u \in Threads : u # t => pc'[u] = pc[u]
    BY <2>1, Going DEF ControlInv
  <2>3. CASE t = "io"
    <3>1. pc["io"] = "received" /\ ioNext' = "rearm" /\ pc'["io"] = "checked"
      BY <1>3, <2>2, <2>3 DEF SendBegin
    <3> QED
      BY <1>1, <1>2, <2>1, <2>2, <2>3, <3>1 DEF ControlInv, ControlTypes, Loop, InRead, recvVars
  <2>4. CASE t # "io"
    <3>1. ioNext' = ioNext /\ pc'["io"] = pc["io"]
      BY <1>1, <1>3, <2>2, <2>4 DEF SendBegin
    <3> QED
      BY <1>1, <1>2, <2>1, <2>2, <2>4, <3>1 DEF ControlInv, ControlTypes, Loop, InRead, recvVars
  <2> QED
    BY <2>3, <2>4
<1>4. CASE SendStep(t)
  <2>1. /\ UNCHANGED ioNext
        /\ pc[t] \in {"checked", "refused", "dispatch"}
        /\ \/ Goto(t, "refused") \/ Goto(t, "dispatch")
           \/ Goto(t, IF t = "io" THEN ioNext ELSE "idle")
           \/ t = "io" /\ Goto(t, "trysend")
    BY <1>4 DEF SendStep, SendLocked, SendRefused, SendDispatch, Return
  <2>2. tasks' = tasks \/ tasks' = Append(tasks, "send")
    BY <1>4 DEF SendStep, SendLocked, SendRefused, SendDispatch
  <2>3. tasks' \in Seq({"send", "close"})
    BY <2>2, Posting DEF ControlInv, ControlTypes
  <2>4. CASE t = "io"
    <3>1. ioNext = "rearm" /\ ioNext' = "rearm"
      BY <2>1, <2>4 DEF ControlInv, Loop
    <3>2. PICK l \in {"refused", "dispatch", "rearm", "trysend"} : Goto(t, l)
      BY <2>1, <2>4, <3>1
    <3>3. /\ pc' \in [Threads -> Places] /\ pc'["io"] = l
          /\ \A u \in Threads : u # "io" => pc'[u] = pc[u]
      BY <2>4, <3>2, Going DEF ControlInv, Places
    <3> QED
      BY <1>1, <1>2, <2>1, <2>3, <2>4, <3>1, <3>3 DEF ControlInv, ControlTypes, Loop, InRead, recvVars
  <2>5. CASE t # "io"
    <3>1. PICK l \in {"refused", "dispatch", "idle"} : Goto(t, l)
      BY <2>1, <2>5
    <3>2. /\ pc' \in [Threads -> Places] /\ pc'[t] = l
          /\ \A u \in Threads : u # t => pc'[u] = pc[u]
      BY <3>1, Going DEF ControlInv, Places
    <3>3. pc'["io"] = pc["io"]
      BY <1>1, <2>5, <3>2
    <3> QED
      BY <1>1, <1>2, <2>1, <2>3, <2>5, <3>2, <3>3 DEF ControlInv, ControlTypes, Loop, InRead, recvVars
  <2> QED
    BY <2>4, <2>5
<1> QED
  BY <1>3, <1>4

\* The handlers of the IO thread, and completions of operations.
LEMMA HandlerLoop ==
    ASSUME ControlInv, connected \in BOOLEAN,
           IOTask \/ TrySend \/ ReceivedReturns \/ Rearm \/ Disconnect \/ Write \/ ReadDone \/ ReadFailed
    PROVE  ControlInv'
<1>1. "io" \in Threads /\ \A u \in Senders : u \in Threads /\ u # "io"
  BY IoIsThread
<1>2. ASSUME NEW l \in Places, Goto("io", l)
      PROVE  /\ pc' \in [Threads -> Places] /\ pc'["io"] = l
             /\ \A u \in Senders : pc'[u] = pc[u]
  BY <1>1, <1>2, Going DEF ControlInv
<1>3. CASE IOTask
  <2>1. tasks' \in Seq({"send", "close"})
    BY <1>3, Posting DEF IOTask, ControlInv
  <2>2. /\ pc["io"] = "idle" /\ ioNext' = "idle" /\ UNCHANGED <<reads, recvSize, got>>
        /\ \/ Goto("io", "trysend") /\ UNCHANGED <<connected, receiving>>
           \/ connected' = FALSE /\ receiving' = FALSE /\ UNCHANGED pc
           \/ UNCHANGED <<pc, connected, receiving>>
    BY <1>3 DEF IOTask, CloseNow
  <2>3. CASE Goto("io", "trysend") /\ UNCHANGED <<connected, receiving>>
    <3>1. "trysend" \in Places
      BY DEF Places
    <3>2. /\ pc' \in [Threads -> Places] /\ pc'["io"] = "trysend"
          /\ \A u \in Senders : pc'[u] = pc[u]
      BY <1>2, <2>3, <3>1
    <3> QED
      BY <2>1, <2>2, <2>3, <3>2 DEF ControlInv, ControlTypes, Loop, InRead
  <2>4. CASE UNCHANGED pc
    <3>1. ControlTypes'
      BY <2>1, <2>2, <2>4 DEF ControlInv, ControlTypes
    <3>2. connected' => connected /\ receiving' = receiving
      BY <2>2
    <3> QED
      BY <2>2, <2>4, <3>1, <3>2 DEF ControlInv, Loop, InRead
  <2> QED
    BY <2>2, <2>3, <2>4
<1>4. CASE TrySend
  <2>1. /\ pc["io"] = "trysend" /\ Goto("io", ioNext)
        /\ UNCHANGED <<connected, receiving, reads, recvSize, got, tasks, ioNext>>
    BY <1>4 DEF TrySend, recvVars
  <2>2. ioNext \in Places /\ ioNext \in {"idle", "rearm"}
    BY DEF ControlInv, ControlTypes, Places
  <2>3. /\ pc' \in [Threads -> Places] /\ pc'["io"] = ioNext
        /\ \A u \in Senders : pc'[u] = pc[u]
    BY <1>2, <2>1, <2>2
  <2> QED
    BY <2>1, <2>2, <2>3 DEF ControlInv, ControlTypes, Loop, InRead
<1>5. CASE ReceivedReturns
  <2>1. /\ pc["io"] = "received" /\ Goto("io", "rearm") /\ "rearm" \in Places
        /\ UNCHANGED <<connected, receiving, reads, recvSize, got, tasks, ioNext>>
    BY <1>5 DEF ReceivedReturns, recvVars, Places
  <2>2. /\ pc' \in [Threads -> Places] /\ pc'["io"] = "rearm"
        /\ \A u \in Senders : pc'[u] = pc[u]
    BY <1>2, <2>1
  <2> QED
    BY <2>1, <2>2 DEF ControlInv, ControlTypes, Loop, InRead
<1>6. CASE Rearm
  <2>1. /\ pc["io"] = "rearm" /\ Goto("io", "idle") /\ "idle" \in Places
        /\ UNCHANGED <<got, tasks, ioNext>>
    BY <1>6 DEF Rearm, Places
  <2>2. /\ pc' \in [Threads -> Places] /\ pc'["io"] = "idle"
        /\ \A u \in Senders : pc'[u] = pc[u]
    BY <1>2, <2>1
  <2>3. \/ /\ connected' = FALSE /\ receiving' = FALSE /\ UNCHANGED <<recvSize, reads>>
        \/ /\ receiving' = TRUE /\ reads' = reads + 1 /\ UNCHANGED connected
           /\ \/ recvSize' = recvSize
              \/ recvSize' = 2 * got /\ got = recvSize /\ 2 * got <= MaxRecvSize /\ ~(RecvLimit > 0 /\ 2 * got > RecvLimit)
    BY <1>6 DEF Rearm, CloseNow
  <2>4. recvSize' \in 1..MaxRecvSize /\ recvSize' >= recvSize /\ got' \in 0..recvSize'
    BY <2>1, <2>3, SessionAssumption DEF ControlInv, ControlTypes
  <2>5. RecvLimit > 0 /\ recvSize' > RecvSize => recvSize' <= RecvLimit
    BY <2>3, <2>4, SessionAssumption DEF ControlInv, ControlTypes, Loop
  <2>6. connected /\ reads = 0
    BY <2>1 DEF ControlInv, Loop, InRead
  <2> QED
    <3>1. ControlTypes'
      <4>1. reads' \in Nat /\ receiving' \in BOOLEAN
        <5>1. reads \in Nat /\ receiving \in BOOLEAN
          BY DEF ControlInv, ControlTypes
        <5>2. reads' \in Nat
          BY <2>3, <5>1
        <5>3. receiving' \in BOOLEAN
          BY <2>3, <5>1, Zenon
        <5> QED
          BY <5>2, <5>3
      <4> QED
        BY <2>1, <2>2, <2>4, <4>1 DEF ControlInv, ControlTypes
    <3>2. connected' => receiving' /\ reads' = 1
      BY <2>3, <2>6
    <3> QED
      BY <2>1, <2>2, <2>5, <3>1, <3>2 DEF ControlInv, Loop, InRead
<1>7. CASE Disconnect
  <2>1. tasks' \in Seq({"send", "close"})
    BY <1>7, Posting DEF Disconnect, ControlInv
  <2>2. UNCHANGED <<connected, receiving, reads, recvSize, got, pc, ioNext>>
    BY <1>7 DEF Disconnect, recvVars
  <2> QED
    BY <2>1, <2>2 DEF ControlInv, ControlTypes, Loop, InRead
<1>8. CASE Write
  <2>1. PICK k \in DOMAIN writes : (\E n \in 1..Len(writes[k]) : WriteDone(k, n)) \/ WriteFailed(k)
    BY <1>8 DEF Write
  <2>2. CASE \E n \in 1..Len(writes[k]) : WriteDone(k, n)
    <3>1. /\ pc["io"] = "idle" /\ Goto("io", "trysend") /\ "trysend" \in Places
          /\ UNCHANGED <<connected, receiving, reads, recvSize, got, tasks>> /\ ioNext' = "idle"
      BY <2>2 DEF WriteDone, WriteCompletes, recvVars, Places
    <3>2. /\ pc' \in [Threads -> Places] /\ pc'["io"] = "trysend"
          /\ \A u \in Senders : pc'[u] = pc[u]
      BY <1>2, <3>1
    <3> QED
      BY <3>1, <3>2 DEF ControlInv, ControlTypes, Loop, InRead
  <2>3. CASE WriteFailed(k)
    <3>1. /\ pc["io"] = "idle" /\ UNCHANGED <<reads, recvSize, got, tasks, pc, ioNext>>
          /\ \/ connected' = FALSE /\ receiving' = FALSE
             \/ UNCHANGED <<connected, receiving>>
      BY <2>3 DEF WriteFailed, CloseNow
    <3> QED
      <4>1. ControlTypes'
        BY <3>1 DEF ControlInv, ControlTypes
      <4>2. connected' => connected /\ receiving' = receiving
        BY <3>1
      <4> QED
        BY <3>1, <4>1, <4>2 DEF ControlInv, Loop, InRead
  <2> QED
    BY <2>1, <2>2, <2>3
<1>9. CASE ReadDone
  <2>1. /\ pc["io"] = "idle" /\ connected /\ reads > 0 /\ reads' = reads - 1 /\ receiving' = FALSE
        /\ got' \in 1..recvSize /\ Goto("io", "received") /\ "received" \in Places
        /\ UNCHANGED <<connected, recvSize, tasks, ioNext>>
    BY <1>9 DEF ReadDone, Places
  <2>2. /\ pc' \in [Threads -> Places] /\ pc'["io"] = "received"
        /\ \A u \in Senders : pc'[u] = pc[u]
    BY <1>2, <2>1
  <2>3. reads' = 0 /\ reads = 1
    BY <2>1 DEF ControlInv, Loop, InRead
  <2> QED
    <3>1. ControlTypes'
      <4>1. reads' \in Nat /\ receiving' \in BOOLEAN
        <5>1. reads' \in Nat
          BY <2>3
        <5>2. receiving' \in BOOLEAN
          BY <2>1, Zenon
        <5> QED
          BY <5>1, <5>2
      <4>2. recvSize' \in 1..MaxRecvSize /\ got' \in 0..recvSize'
        BY <2>1, SessionAssumption DEF ControlInv, ControlTypes
      <4> QED
        BY <2>1, <2>2, <4>1, <4>2 DEF ControlInv, ControlTypes
    <3> QED
      BY <2>1, <2>2, <2>3, <3>1 DEF ControlInv, Loop, InRead
<1>10. CASE ReadFailed
  <2>1. /\ pc["io"] = "idle" /\ reads > 0 /\ reads' = reads - 1 /\ receiving' = FALSE
        /\ UNCHANGED <<recvSize, got, tasks, pc, ioNext>>
        /\ ~connected'
    BY <1>10 DEF ReadFailed, CloseNow
  <2> QED
    <3>1. ControlTypes'
      <4>1. reads' \in Nat /\ receiving' \in BOOLEAN
        <5>1. reads \in Nat
          BY DEF ControlInv, ControlTypes
        <5>2. reads' \in Nat
          BY <2>1, <5>1
        <5>3. receiving' \in BOOLEAN
          BY <2>1, Zenon
        <5> QED
          BY <5>2, <5>3
      <4> QED
        BY <2>1, <4>1 DEF ControlInv, ControlTypes
    <3> QED
      BY <2>1, <3>1 DEF ControlInv, Loop, InRead
<1> QED
  BY <1>3, <1>4, <1>5, <1>6, <1>7, <1>8, <1>9, <1>10

\* Every step keeps the control.
LEMMA Control == ControlInv /\ connected \in BOOLEAN /\ [Next]_vars => ControlInv'
<1> SUFFICES ASSUME ControlInv, connected \in BOOLEAN, [Next]_vars
             PROVE  ControlInv'
  OBVIOUS
<1>1. CASE UNCHANGED vars
  BY <1>1 DEF vars, recvVars, ControlInv, ControlTypes, Loop, InRead
<1>2. ASSUME NEW t \in Threads, SendBegin(t) \/ SendStep(t)
      PROVE  ControlInv'
  BY <1>2, SendLoop
<1>3. CASE IOTask \/ TrySend \/ ReceivedReturns \/ Rearm \/ Disconnect \/ Write \/ ReadDone \/ ReadFailed
  BY <1>3, HandlerLoop
<1> QED
  BY <1>1, <1>2, <1>3 DEF Next, IOStep, Environment, Threads

-----------------------------------------------------------------------------
(* No bytes are forgotten *)

\* A write is outstanding, or a TrySend is to come.
Covered ==
    \/ sending
    \/ pc["io"] = "trysend"
    \/ \E t \in Threads : pc[t] = "dispatch"
    \/ \E k \in DOMAIN tasks : tasks[k] = "send"

\* Handlers that are posted remain so when one more is.
LEMMA PostedStay ==
    ASSUME tasks \in Seq({"send", "close"}), NEW h \in {"send", "close"}, tasks' = Append(tasks, h)
    PROVE  /\ (\E k \in DOMAIN tasks : tasks[k] = "send") => \E k \in DOMAIN tasks' : tasks'[k] = "send"
           /\ h = "send" => \E k \in DOMAIN tasks' : tasks'[k] = "send"
<1>1. /\ tasks' \in Seq({"send", "close"}) /\ Len(tasks') = Len(tasks) + 1
      /\ \A k \in 1..Len(tasks) : tasks'[k] = tasks[k]
      /\ tasks'[Len(tasks) + 1] = h
  BY AppendProperties
<1>2. Len(tasks) \in Nat /\ DOMAIN tasks = 1..Len(tasks) /\ DOMAIN tasks' = 1..(Len(tasks) + 1)
  BY <1>1, LenProperties
<1>3. \A k \in DOMAIN tasks : k \in DOMAIN tasks' /\ tasks'[k] = tasks[k]
  BY <1>1, <1>2
<1>4. Len(tasks) + 1 \in DOMAIN tasks'
  BY <1>2
<1> QED
  BY <1>1, <1>3, <1>4

\* Without the first of them, which is a close, so do the others.
LEMMA PostedNext ==
    ASSUME tasks \in Seq({"send", "close"}), tasks # <<>>, tasks' = Tail(tasks), Head(tasks) = "close",
           NEW k \in DOMAIN tasks, tasks[k] = "send"
    PROVE  \E j \in DOMAIN tasks' : tasks'[j] = "send"
<1>1. /\ tasks' \in Seq({"send", "close"}) /\ Len(tasks') = Len(tasks) - 1
      /\ \A i \in 1..Len(tasks') : tasks'[i] = tasks[i + 1]
  BY HeadTailProperties
<1>2. /\ Len(tasks) \in Nat /\ DOMAIN tasks = 1..Len(tasks) /\ DOMAIN tasks' = 1..Len(tasks')
      /\ k \in 1..Len(tasks)
  BY <1>1, LenProperties
<1>3. k # 1
  BY <1>2
<1>4. k - 1 \in DOMAIN tasks' /\ tasks'[k - 1] = tasks[k - 1 + 1] /\ k - 1 + 1 = k
  BY <1>1, <1>2, <1>3
<1> QED
  BY <1>4

\* SendAsync: it leaves new bytes alone only when the main buffer had some, which
\* were covered already; otherwise it dispatches TrySend itself.
LEMMA SendCovers ==
    ASSUME SendInv, ControlInv, NoForgottenBytes, NEW t \in Threads, SendBegin(t) \/ SendStep(t)
    PROVE  NoForgottenBytes'
<1>1. /\ "io" \in Threads /\ pc \in [Threads -> Places] /\ tasks \in Seq({"send", "close"})
      /\ Len(main) \in Nat /\ Len(flush) \in Nat /\ offset \in 0..Len(flush)
  BY IoIsThread, LenProperties DEF SendInv, SendTypes, ControlInv, ControlTypes
<1>2. UNCHANGED <<connected, flush, offset, sending>>
  BY DEF SendBegin, SendStep, SendLocked, SendRefused, SendDispatch, bufferVars
<1>3. connected /\ Unsent > 0 => Covered
  BY DEF NoForgottenBytes, Covered
<1>4. CASE SendBegin(t) \/ SendRefused(t)
  <2>1. /\ UNCHANGED <<main, tasks>> /\ pc[t] \in {"received", "idle", "refused"}
        /\ \E l \in {"checked", "idle", "rearm"} : Goto(t, l)
    BY <1>4 DEF SendBegin, SendRefused, bufferVars, Return, ControlInv, ControlTypes
  <2>2. \A u \in Threads : pc[u] \in {"trysend", "dispatch"} => pc'[u] = pc[u]
    BY <1>1, <2>1 DEF Goto
  <2>3. Unsent' = Unsent
    BY <1>2, <2>1 DEF Unsent
  <2> QED
    BY <1>1, <1>2, <1>3, <2>1, <2>2, <2>3 DEF NoForgottenBytes, Covered
<1>5. CASE SendDispatch(t)
  <2>1. Unsent' = Unsent
    BY <1>2, <1>5 DEF SendDispatch, Unsent, bufferVars
  <2>2. CASE t = "io"
    BY <1>1, <1>5, <2>2 DEF SendDispatch, Goto, NoForgottenBytes
  <2>3. CASE t # "io"
    BY <1>1, <1>5, <2>3, PostedStay DEF SendDispatch, NoForgottenBytes
  <2> QED
    BY <2>2, <2>3
<1>6. CASE SendLocked(t)
  <2>1. pc[t] = "checked" /\ UNCHANGED tasks
    BY <1>6 DEF SendLocked
  <2>2. \/ Goto(t, "dispatch")
        \/ Goto(t, "refused") /\ UNCHANGED main
        \/ Return(t) /\ main # <<>> /\ flush # <<>>
    BY <1>6 DEF SendLocked
  <2>3. CASE Goto(t, "dispatch")
    BY <1>1, <2>3 DEF Goto, NoForgottenBytes
  <2>4. CASE Goto(t, "refused") /\ UNCHANGED main
    <3>1. Unsent' = Unsent
      BY <1>2, <2>4 DEF Unsent
    <3>2. \A u \in Threads : pc[u] \in {"trysend", "dispatch"} => pc'[u] = pc[u]
      BY <1>1, <2>1, <2>4 DEF Goto
    <3> QED
      BY <1>1, <1>2, <1>3, <2>1, <3>1, <3>2 DEF NoForgottenBytes, Covered
  <2>5. CASE Return(t) /\ main # <<>> /\ flush # <<>>
    <3>1. Len(main) > 0
      <4>1. main \in Seq(Nat)
        BY DEF SendInv, SendTypes
      <4> QED
        BY <2>5, <4>1, EmptySeq
    <3>2. connected => Covered
      BY <1>1, <1>3, <3>1 DEF Unsent
    <3>3. \A u \in Threads : pc[u] \in {"trysend", "dispatch"} => pc'[u] = pc[u]
      BY <1>1, <2>1, <2>5 DEF Goto, Return
    <3> QED
      BY <1>1, <1>2, <2>1, <3>2, <3>3 DEF NoForgottenBytes, Covered
  <2> QED
    BY <2>2, <2>3, <2>4, <2>5
<1> QED
  BY <1>4, <1>5, <1>6 DEF SendStep

\* The handlers: after a write that is done TrySend follows, and TrySend begins
\* a write unless there is nothing to send or one is under way.
LEMMA HandlerCovers ==
    ASSUME SendInv, ControlInv, NoForgottenBytes,
           IOTask \/ TrySend \/ ReceivedReturns \/ Rearm \/ Disconnect \/ Write \/ ReadDone \/ ReadFailed
    PROVE  NoForgottenBytes'
<1>1. /\ "io" \in Threads /\ pc \in [Threads -> Places] /\ tasks \in Seq({"send", "close"})
      /\ main \in Seq(Nat) /\ flush \in Seq(Nat)
      /\ Len(main) \in Nat /\ Len(flush) \in Nat /\ offset \in 0..Len(flush)
  BY IoIsThread, LenProperties DEF SendInv, SendTypes, ControlInv, ControlTypes
<1>2. connected /\ Unsent > 0 => Covered
  BY DEF NoForgottenBytes, Covered
<1>3. CASE ~connected'
  BY <1>3 DEF NoForgottenBytes
<1>4. CASE connected' /\ IOTask
  <2>1. \/ Goto("io", "trysend")
        \/ /\ tasks # <<>> /\ tasks' = Tail(tasks) /\ Head(tasks) = "close"
           /\ UNCHANGED <<pc, connected, main, flush, offset, sending>>
    BY <1>4 DEF IOTask, CloseNow, bufferVars
  <2>2. CASE Goto("io", "trysend")
    BY <1>1, <2>2 DEF Goto, NoForgottenBytes
  <2>3. CASE /\ tasks # <<>> /\ tasks' = Tail(tasks) /\ Head(tasks) = "close"
             /\ UNCHANGED <<pc, connected, main, flush, offset, sending>>
    <3>1. Unsent' = Unsent
      BY <2>3 DEF Unsent
    <3>2. (\E k \in DOMAIN tasks : tasks[k] = "send") => \E j \in DOMAIN tasks' : tasks'[j] = "send"
      BY <1>1, <2>3, PostedNext
    <3> QED
      BY <1>2, <2>3, <3>1, <3>2 DEF NoForgottenBytes, Covered
  <2> QED
    BY <2>1, <2>2, <2>3
<1>5. CASE connected' /\ TrySend
  <2>1. connected
    BY <1>5 DEF TrySend
  <2>2. CASE sending
    BY <1>5, <2>2 DEF TrySend, NoForgottenBytes
  <2>3. CASE ~sending
    <3>1. SwapAndWrite
      BY <1>5, <2>1, <2>3 DEF TrySend
    <3>2. CASE flush' # <<>>
      BY <3>1, <3>2 DEF SwapAndWrite, NoForgottenBytes
    <3>3. CASE flush' = <<>>
      <4>1. main' = <<>> /\ offset' = 0
        <5>1. flush = <<>>
          BY <3>1, <3>3 DEF SwapAndWrite, bufferVars
        <5> QED
          BY <3>1, <5>1 DEF SwapAndWrite
      <4>2. Len(main') = 0 /\ Len(flush') = 0
        BY <3>3, <4>1, EmptySeq
      <4>3. Unsent' = 0
        BY <4>1, <4>2 DEF Unsent
      <4> QED
        BY <4>3 DEF NoForgottenBytes
    <3> QED
      BY <3>2, <3>3
  <2> QED
    BY <2>2, <2>3
<1>6. CASE connected' /\ (ReceivedReturns \/ Rearm \/ ReadDone \/ ReadFailed)
  <2>1. /\ UNCHANGED <<connected, main, flush, offset, sending, tasks>>
        /\ pc["io"] \in {"idle", "received", "rearm"}
        /\ \E l \in {"idle", "received", "rearm"} : pc' = [pc EXCEPT !["io"] = l]
    <3>1. CASE ReceivedReturns
      BY <3>1 DEF ReceivedReturns, bufferVars, Goto
    <3>2. CASE Rearm
      BY <1>6, <3>2 DEF Rearm, bufferVars, Goto, CloseNow
    <3>3. CASE ReadDone
      BY <3>3 DEF ReadDone, bufferVars, Goto
    <3>4. CASE ReadFailed
      BY <1>1, <1>6, <3>4 DEF ReadFailed, bufferVars, CloseNow
    <3> QED
      BY <1>6, <3>1, <3>2, <3>3, <3>4
  <2>2. \A u \in Threads : pc[u] \in {"trysend", "dispatch"} => pc'[u] = pc[u]
    BY <1>1, <2>1
  <2>3. Unsent' = Unsent
    BY <2>1 DEF Unsent
  <2> QED
    BY <1>1, <1>2, <2>1, <2>2, <2>3 DEF NoForgottenBytes, Covered
<1>7. CASE connected' /\ Disconnect
  <2>1. UNCHANGED <<connected, main, flush, offset, sending, pc>> /\ tasks' = Append(tasks, "close")
    BY <1>7 DEF Disconnect, bufferVars
  <2>2. Unsent' = Unsent
    BY <2>1 DEF Unsent
  <2>3. (\E k \in DOMAIN tasks : tasks[k] = "send") => \E k \in DOMAIN tasks' : tasks'[k] = "send"
    BY <1>1, <2>1, PostedStay
  <2> QED
    BY <1>2, <2>1, <2>2, <2>3 DEF NoForgottenBytes, Covered
<1>8. CASE connected' /\ Write
  <2>1. PICK k \in DOMAIN writes : (\E n \in 1..Len(writes[k]) : WriteDone(k, n)) \/ WriteFailed(k)
    BY <1>8 DEF Write
  <2>2. CASE \E n \in 1..Len(writes[k]) : WriteDone(k, n)
    BY <1>1, <2>2 DEF WriteDone, Goto, NoForgottenBytes
  <2>3. CASE WriteFailed(k)
    <3>1. ~connected'
      BY <2>3 DEF WriteFailed, CloseNow
    <3> QED
      BY <1>8, <3>1
  <2> QED
    BY <2>1, <2>2, <2>3
<1> QED
  BY <1>3, <1>4, <1>5, <1>6, <1>7, <1>8

\* Every step keeps it.
LEMMA Forgotten == SendInv /\ ControlInv /\ NoForgottenBytes /\ [Next]_vars => NoForgottenBytes'
<1> SUFFICES ASSUME SendInv, ControlInv, NoForgottenBytes, [Next]_vars
             PROVE  NoForgottenBytes'
  OBVIOUS
<1>1. CASE UNCHANGED vars
  BY <1>1 DEF vars, NoForgottenBytes, Unsent
<1>2. ASSUME NEW t \in Threads, SendBegin(t) \/ SendStep(t)
      PROVE  NoForgottenBytes'
  BY <1>2, SendCovers
<1>3. CASE IOTask \/ TrySend \/ ReceivedReturns \/ Rearm \/ Disconnect \/ Write \/ ReadDone \/ ReadFailed
  BY <1>3, HandlerCovers
<1> QED
  BY <1>1, <1>2, <1>3 DEF Next, IOStep, Environment, Threads

-----------------------------------------------------------------------------
(* The theorems *)

\* The state that Connect leaves.
LEMMA InitHolds == Init => SessionInv
<1> SUFFICES ASSUME Init
             PROVE  SessionInv
  OBVIOUS
<1>1. <<>> \in Seq(Nat) /\ Len(<<>>) = 0 /\ <<>> \in Seq(Seq(Nat)) /\ <<>> \in Seq({"send", "close"})
  BY EmptySeq
<1>2. SendInv
  <2>1. SendTypes
    <3>1. main \in Seq(Nat) /\ flush \in Seq(Nat) /\ wire \in Seq(Nat) /\ writes \in Seq(Seq(Nat))
      BY <1>1 DEF Init
    <3>2. offset \in 0..Len(flush)
      BY <1>1 DEF Init
    <3>3. connected \in BOOLEAN /\ sending \in BOOLEAN
      BY DEF Init
    <3>4. bytesPending \in Nat /\ bytesSending \in Nat /\ accepted \in Nat
      BY DEF Init
    <3> QED
      BY <3>1, <3>2, <3>3, <3>4 DEF SendTypes
  <2>2. StreamIntact
    BY <1>1 DEF Init, StreamIntact, Unsent
  <2>3. OneWrite
    BY DEF Init, OneWrite
  <2> QED
    BY <2>1, <2>2, <2>3 DEF SendInv
<1>3. ControlTypes
  BY <1>1, SessionAssumption DEF Init, ControlTypes, Places
<1>4. Loop
  <2>1. "io" \in Threads /\ \A t \in Senders : t \in Threads
    BY IoIsThread
  <2> QED
    BY <2>1, SessionAssumption DEF Init, Loop, InRead
<1>5. NoForgottenBytes
  BY <1>1 DEF Init, NoForgottenBytes, Unsent
<1> QED
  BY <1>2, <1>3, <1>4, <1>5 DEF SessionInv

\* The inductive invariant of the session.
THEOREM Invariance == Spec => []SessionInv
<1>1. Init => SessionInv
  BY InitHolds
<1>2. SessionInv /\ [Next]_vars => SessionInv'
  BY SendSide, Control, Forgotten DEF SessionInv, SendInv, SendTypes, ControlInv
<1> QED
  BY <1>1, <1>2, PTL DEF Spec

\* Every member of the session keeps its type; the offset stays within the
\* flush buffer, and the size of a read within the receive buffer.
THEOREM TypeCorrect == Spec => []TypeOK
<1>1. SessionInv => TypeOK
  BY DEF SessionInv, SendInv, SendTypes, ControlTypes, TypeOK
<1> QED
  BY <1>1, Invariance, PTL

\* However many threads send, a connected session has one write under way when
\* _sending is set and none otherwise, and between two handlers one read.
THEOREM NeverTwo == Spec => []OneAtATime
<1>1. SessionInv => OneAtATime
  <2>1. SessionInv => OneWrite
    BY DEF SessionInv, SendInv
  <2>2. SessionInv => OneRead
    BY DEF SessionInv, ControlTypes, Loop, InRead, OneRead
  <2> QED
    BY <2>1, <2>2 DEF OneAtATime
<1> QED
  BY <1>1, Invariance, PTL

\* SendAsync that finds a send under way returns without another TrySend; its
\* bytes are sent all the same.
THEOREM NoneForgotten == Spec => []NoForgottenBytes
<1>1. SessionInv => NoForgottenBytes
  BY DEF SessionInv
<1> QED
  BY <1>1, Invariance, PTL

\* What SendAsync accepted leaves in order, each byte once, whatever the swaps
\* of the two buffers and the short writes, and nothing leaves after the close.
THEOREM Refinement == Spec => ImplementsByteStream
<1>1. Init => Stream!Init
  BY DEF Init, Stream!Init
<1>2. SessionInv /\ [Next]_vars => [Stream!Next]_(Stream!streamVars)
  <2> SUFFICES ASSUME SessionInv, [Next]_vars
               PROVE  Stream!Next \/ UNCHANGED Stream!streamVars
    OBVIOUS
  <2>1. SendInv /\ SendTypes
    BY DEF SessionInv, SendInv
  <2>2. CASE UNCHANGED <<connected, accepted, wire>>
    BY <2>2 DEF Stream!streamVars
  <2>3. CASE \E t \in Threads : SendLocked(t)
    <3>1. accepted \in Nat
      BY <2>1 DEF SendTypes
    <3>2. /\ UNCHANGED <<connected, wire>>
          /\ accepted' = accepted \/ \E n \in 1..MaxChunk : accepted' = accepted + n
      BY <2>3 DEF SendLocked
    <3>3. CASE accepted' = accepted
      BY <3>2, <3>3 DEF Stream!streamVars
    <3>4. CASE \E n \in 1..MaxChunk : accepted' = accepted + n
      <4>1. accepted' \in Nat /\ accepted' > accepted
        BY <3>1, <3>4, SessionAssumption
      <4> QED
        BY <3>2, <4>1 DEF Stream!Next, Stream!Accept
    <3> QED
      BY <3>2, <3>3, <3>4
  <2>4. CASE CloseNow /\ UNCHANGED ghosts
    BY <2>4 DEF CloseNow, ghosts, Stream!Next, Stream!Close
  <2>5. CASE connected /\ \E k \in DOMAIN writes : \E n \in 1..Len(writes[k]) : WriteCompletes(k, n)
    <3>1. PICK k \in DOMAIN writes : \E n \in 1..Len(writes[k]) : WriteCompletes(k, n)
      BY <2>5
    <3>2. PICK n \in 1..Len(writes[k]) : WriteCompletes(k, n)
      BY <3>1
    <3>3. n \in 1..(accepted - Len(wire)) /\ wire' = wire \o [i \in 1..n |-> Len(wire) + i]
      BY <2>1, <2>5, <3>2, WriteKeeps
    <3>4. UNCHANGED <<connected, accepted>>
      BY <3>2 DEF WriteCompletes
    <3> QED
      BY <2>5, <3>3, <3>4 DEF Stream!Next, Stream!Deliver
  <2> QED
    BY <2>1, <2>2, <2>3, <2>4, <2>5, Outcomes DEF ghosts
<1> QED
  BY <1>1, <1>2, Invariance, PTL DEF Spec, ImplementsByteStream, Stream!Spec
=============================================================================
