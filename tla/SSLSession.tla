----------------------------- MODULE SSLSession -----------------------------
(***************************************************************************)
(* One session over TLS (source/server/asio/ssl_session.cpp): the buffers  *)
(* and the read loop of TCPSession behind a handshake, and a close that    *)
(* cancels what is under way and shuts the TLS stream down, which may wait *)
(* for the peer.  An operation on the stream is open, ready (completed,    *)
(* its handler queued) or aborted (it will complete with an error).  The   *)
(* statistics and the size of the receive buffer are left out.             *)
(***************************************************************************)
EXTENDS Naturals, Sequences

CONSTANTS Senders,   \* threads other than the IO thread
          MaxBytes,  \* bound: accepted bytes at which no further call begins
          MaxChunk,  \* bound: bytes of one SendAsync
          MaxCloses, \* bound: closes posted or under way
          SendLimit  \* _send_buffer_limit, 0 for none

ASSUME SSLAssumption ==
    /\ "io" \notin Senders
    /\ {MaxBytes, MaxChunk, MaxCloses, SendLimit} \subseteq Nat

VARIABLES
    connected,   \* _connected
    handshaked,  \* _handshaked
    handshake,   \* async_handshake, see Handshakes
    main, flush, \* _send_buffer_main, _send_buffer_flush
    offset,      \* _send_buffer_flush_offset
    sending,     \* _sending
    writes,      \* the outstanding async_write_some: bytes and state
    receiving,   \* _receiving
    reads,       \* the outstanding async_read_some: the state of each
    shutOpen,    \* async_shutdown that wait for the peer
    shutDone,    \* async_shutdown whose handler is queued
    tasks,       \* handlers posted to the Asio service
    pc,          \* thread -> where it is
    ioNext,      \* where the IO thread goes on after SendAsync or TrySend
    accepted,    \* bytes taken by SendAsync
    wire         \* bytes taken by the TLS stream

vars == <<connected, handshaked, handshake, main, flush, offset, sending, writes, receiving,
          reads, shutOpen, shutDone, tasks, pc, ioNext, accepted, wire>>

flags      == <<connected, handshaked>>
bufferVars == <<main, flush, offset>>
sendVars   == <<sending, writes>>
recvVars   == <<receiving, reads>>
shutVars   == <<shutOpen, shutDone>>
threadVars == <<pc, ioNext>>
ghosts     == <<accepted, wire>>

Threads == Senders \cup {"io"}

\* A handshake waits for the peer, has something to go on with, has sent its
\* last message, was aborted, or its handler has run.
Handshakes == {"open", "input", "final", "aborted", "done"}

Goto(t, l) == pc' = [pc EXCEPT ![t] = l]
Return(t) == Goto(t, IF t = "io" THEN ioNext ELSE "idle")

\* The state Connect() leaves: connected, and the handshake begun.
Init ==
    /\ connected = TRUE /\ handshaked = FALSE /\ handshake = "open"
    /\ main = <<>> /\ flush = <<>> /\ offset = 0
    /\ sending = FALSE /\ writes = <<>>
    /\ receiving = FALSE /\ reads = <<>>
    /\ shutOpen = 0 /\ shutDone = 0
    /\ tasks = <<>>
    /\ pc = [t \in Threads |-> "idle"] /\ ioNext = "idle"
    /\ accepted = 0 /\ wire = <<>>

-----------------------------------------------------------------------------
(* SendAsync and DisconnectAsync, called by any thread *)

\* IsHandshaked() is read before the lock is taken.
SendBegin(t) ==
    /\ pc[t] = IF t = "io" THEN "received" ELSE "idle"
    /\ handshaked
    /\ accepted < MaxBytes
    /\ Goto(t, "checked")
    /\ ioNext' = IF t = "io" THEN "rearm" ELSE ioNext
    /\ UNCHANGED <<flags, handshake, bufferVars, sendVars, recvVars, shutVars, tasks, ghosts>>

\* Under _send_lock: refuse what exceeds the limit, or append it and see
\* whether a send is already under way.
SendLocked(t) ==
    /\ pc[t] = "checked"
    /\ \E n \in 1..MaxChunk :
         IF SendLimit > 0 /\ Len(main) + n > SendLimit
              THEN Return(t) /\ UNCHANGED <<main, accepted>>
              ELSE /\ main' = main \o [i \in 1..n |-> accepted + i]
                   /\ accepted' = accepted + n
                   /\ IF main = <<>> \/ flush = <<>> THEN Goto(t, "dispatch") ELSE Return(t)
    /\ UNCHANGED <<flags, handshake, flush, offset, sendVars, recvVars, shutVars, tasks, ioNext, wire>>

\* dispatch() runs TrySend at once on the IO thread and posts it elsewhere.
SendDispatch(t) ==
    /\ pc[t] = "dispatch"
    /\ IF t = "io" THEN Goto(t, "trysend") /\ UNCHANGED tasks
                   ELSE Return(t) /\ tasks' = Append(tasks, "send")
    /\ UNCHANGED <<flags, handshake, bufferVars, sendVars, recvVars, shutVars, ioNext, ghosts>>

SendStep(t) == SendLocked(t) \/ SendDispatch(t)

DisconnectAsync ==
    /\ connected
    /\ Len(tasks) + shutOpen + shutDone < MaxCloses
    /\ tasks' = Append(tasks, "close")
    /\ UNCHANGED <<flags, handshake, bufferVars, sendVars, recvVars, shutVars, threadVars, ghosts>>

-----------------------------------------------------------------------------
(* The end of the session *)

AbortAll(ops) == [k \in DOMAIN ops |-> [ops[k] EXCEPT !.state = "aborted"]]
AbortOpen(h)  == IF h = "open" THEN "aborted" ELSE h

\* Mutants: the session stays handshaked; the socket is left open.
DisconnectHandshaked(h, w, r, done) ==
    IF connected
      THEN /\ connected' = FALSE /\ UNCHANGED handshaked
           /\ sending' = FALSE /\ receiving' = FALSE
           /\ main' = <<>> /\ flush' = <<>> /\ offset' = 0
           /\ handshake' = AbortOpen(h) /\ writes' = AbortAll(w) /\ reads' = AbortAll(r)
           /\ shutDone' = done + shutOpen /\ shutOpen' = 0
      ELSE /\ handshake' = h /\ writes' = w /\ reads' = r /\ shutDone' = done
           /\ UNCHANGED <<flags, bufferVars, sending, receiving, shutOpen>>

\* Disconnect(ec), given the operations that remain.  Closing the socket
\* aborts them all; of the handshake, what was received or sent before stays
\* so.  Nothing happens to a session that is closed already.
Disconnect(h, w, r, done) ==
    IF connected
      THEN /\ connected' = FALSE /\ handshaked' = FALSE
           /\ sending' = FALSE /\ receiving' = FALSE
           /\ main' = <<>> /\ flush' = <<>> /\ offset' = 0
           /\ handshake' = AbortOpen(h) /\ writes' = AbortAll(w) /\ reads' = AbortAll(r)
           /\ shutDone' = done + shutOpen /\ shutOpen' = 0
      ELSE /\ handshake' = h /\ writes' = w /\ reads' = r /\ shutDone' = done
           /\ UNCHANGED <<flags, bufferVars, sending, receiving, shutOpen>>

\* cancel(): an outstanding operation that has not completed yet is aborted.
Cancelled(ops) ==
    [k \in DOMAIN ops |-> IF ops[k].state = "open" THEN [ops[k] EXCEPT !.state = "aborted"] ELSE ops[k]]

\* Mutant: the TLS stream is not shut down after the cancel.
CancelOnly ==
    /\ writes' = Cancelled(writes) /\ reads' = Cancelled(reads)
    /\ handshake' = AbortOpen(handshake)
    /\ UNCHANGED shutVars

\* async_shutdown fails at once in the middle of a handshake; else it sends
\* its alert and waits for that of the peer.
CancelAndShutdown ==
    /\ writes' = Cancelled(writes) /\ reads' = Cancelled(reads)
    /\ handshake' = AbortOpen(handshake)
    /\ IF handshake \in {"open", "input", "aborted"}
         THEN shutDone' = shutDone + 1 /\ UNCHANGED shutOpen
         ELSE shutOpen' = shutOpen + 1 /\ UNCHANGED shutDone

\* The IO thread runs a posted handler.
IOTask ==
    /\ pc["io"] = "idle"
    /\ tasks # <<>>
    /\ tasks' = Tail(tasks)
    /\ \/ /\ Head(tasks) = "send"
          /\ Goto("io", "trysend")
          /\ UNCHANGED <<handshake, writes, reads, shutVars>>
       \/ /\ Head(tasks) = "close"
          /\ connected
          /\ CancelAndShutdown
          /\ UNCHANGED pc
       \/ /\ Head(tasks) = "close"
          /\ ~connected
          /\ UNCHANGED <<pc, handshake, writes, reads, shutVars>>
    /\ ioNext' = "idle"
    /\ UNCHANGED <<flags, bufferVars, sending, receiving, ghosts>>

\* The shutdown handler, after the alert of the peer or an abort.
ShutdownHandler ==
    /\ pc["io"] = "idle"
    /\ shutDone > 0
    /\ Disconnect(handshake, writes, reads, shutDone - 1)
    /\ UNCHANGED <<tasks, threadVars, ghosts>>

\* The peer answers the shutdown, or the connection breaks.
ShutdownAnswered ==
    /\ shutOpen > 0
    /\ shutOpen' = shutOpen - 1 /\ shutDone' = shutDone + 1
    /\ UNCHANGED <<flags, handshake, bufferVars, sendVars, recvVars, tasks, threadVars, ghosts>>

-----------------------------------------------------------------------------
(* The handshake *)

\* Begin a read; on a closed socket it completes with an error.
TryReceive ==
    IF receiving \/ ~handshaked'
      THEN UNCHANGED recvVars
      ELSE /\ receiving' = TRUE
           /\ reads' = Append(reads, [state |-> IF connected THEN "open" ELSE "aborted"])

\* A message of the peer arrives.
HandshakeInput ==
    /\ handshake = "open"
    /\ handshake' = "input"
    /\ UNCHANGED <<flags, bufferVars, sendVars, recvVars, shutVars, tasks, threadVars, ghosts>>

\* The next message is sent, and answered or the last; the socket may have
\* been closed.
HandshakeContinues ==
    /\ pc["io"] = "idle"
    /\ handshake = "input"
    /\ handshake' \in IF connected THEN {"open", "final"} ELSE {"aborted"}
    /\ UNCHANGED <<flags, bufferVars, sendVars, recvVars, shutVars, tasks, threadVars, ghosts>>

\* The handler of a handshake that succeeded does not look whether the
\* session was closed meanwhile.
HandshakeSucceeds ==
    /\ pc["io"] = "idle"
    /\ handshake \in {"input", "final"}
    /\ handshake' = "done"
    /\ handshaked' = TRUE
    /\ TryReceive
    /\ UNCHANGED <<connected, bufferVars, sendVars, shutVars, tasks, threadVars, ghosts>>

HandshakeFails ==
    /\ pc["io"] = "idle"
    /\ handshake \in {"open", "input", "aborted"}
    /\ Disconnect("done", writes, reads, shutDone)
    /\ UNCHANGED <<tasks, threadVars, ghosts>>

-----------------------------------------------------------------------------
(* Sending and receiving on the IO thread *)

Without(s, k) == SubSeq(s, 1, k - 1) \o SubSeq(s, k + 1, Len(s))

\* What is under way completes: data arrived, or was taken.
Completes ==
    /\ \/ \E k \in DOMAIN writes : /\ writes[k].state = "open"
                                   /\ writes' = [writes EXCEPT ![k].state = "ready"]
                                   /\ UNCHANGED reads
       \/ \E k \in DOMAIN reads : /\ reads[k].state = "open"
                                  /\ reads' = [reads EXCEPT ![k].state = "ready"]
                                  /\ UNCHANGED writes
    /\ UNCHANGED <<flags, handshake, bufferVars, sending, receiving, shutVars, tasks, threadVars, ghosts>>

\* With the flush buffer empty the buffers are swapped; whatever the flush
\* buffer then holds is written.
SwapAndWrite ==
    /\ IF flush = <<>> THEN flush' = main /\ main' = <<>> /\ offset' = 0
                       ELSE UNCHANGED bufferVars
    /\ IF flush' = <<>>
         THEN UNCHANGED sendVars
         ELSE /\ sending' = TRUE
              /\ writes' = Append(writes, [bytes |-> SubSeq(flush', offset' + 1, Len(flush')),
                                           state |-> IF connected THEN "open" ELSE "aborted"])

TrySend ==
    /\ pc["io"] = "trysend"
    /\ Goto("io", ioNext)
    /\ IF ~sending /\ handshaked THEN SwapAndWrite ELSE UNCHANGED <<bufferVars, sendVars>>
    /\ UNCHANGED <<flags, handshake, recvVars, shutVars, tasks, ioNext, ghosts>>

\* Mutants: a short write is taken for the whole buffer; the offset is not
\* reset with the buffer.
WholeWritten(n) == flush' = <<>> /\ offset' = 0
OffsetKept(n)   == /\ flush' = IF offset + n = Len(flush) THEN <<>> ELSE flush
                   /\ offset' = offset + n

\* n bytes of the flush buffer were sent.
Written(n) ==
    IF offset + n = Len(flush)
      THEN flush' = <<>> /\ offset' = 0
      ELSE flush' = flush /\ offset' = offset + n

\* Some first bytes of a write were sent.
WriteDone(k) ==
    /\ pc["io"] = "idle"
    /\ writes[k].state = "ready" /\ handshaked
    /\ writes' = Without(writes, k)
    /\ \E n \in 1..Len(writes[k].bytes) : /\ wire' = wire \o SubSeq(writes[k].bytes, 1, n)
                                          /\ Written(n)
    /\ sending' = FALSE
    /\ Goto("io", "trysend") /\ ioNext' = "idle"
    /\ UNCHANGED <<flags, handshake, main, recvVars, shutVars, tasks, accepted>>

\* A write fails, or completes after the session was closed.
WriteFailed(k) ==
    /\ pc["io"] = "idle"
    /\ IF handshaked /\ connected
         THEN Disconnect(handshake, Without(writes, k), reads, shutDone)
         ELSE /\ writes' = Without(writes, k) /\ sending' = FALSE
              /\ UNCHANGED <<flags, handshake, bufferVars, recvVars, shutVars>>
    /\ UNCHANGED <<tasks, threadVars, ghosts>>

\* Data was received: onReceived runs, and may call SendAsync.
ReadDone ==
    /\ pc["io"] = "idle"
    /\ handshaked
    /\ reads # <<>> /\ Head(reads).state = "ready"
    /\ reads' = Tail(reads) /\ receiving' = FALSE
    /\ Goto("io", "received")
    /\ UNCHANGED <<flags, handshake, bufferVars, sendVars, shutVars, tasks, ioNext, ghosts>>

ReadFailed ==
    /\ pc["io"] = "idle"
    /\ reads # <<>>
    /\ IF handshaked /\ connected
         THEN Disconnect(handshake, writes, Tail(reads), shutDone)
         ELSE /\ reads' = Tail(reads) /\ receiving' = FALSE
              /\ UNCHANGED <<flags, handshake, bufferVars, sendVars, shutVars>>
    /\ UNCHANGED <<tasks, threadVars, ghosts>>

ReceivedReturns ==
    /\ pc["io"] = "received"
    /\ Goto("io", "rearm")
    /\ UNCHANGED <<flags, handshake, bufferVars, sendVars, recvVars, shutVars, tasks, ioNext, ghosts>>

\* After onReceived: the session is closed at the limit of the receive
\* buffer, or the next read begins.
Rearm ==
    /\ pc["io"] = "rearm"
    /\ Goto("io", "idle")
    /\ \/ Disconnect(handshake, writes, reads, shutDone)
       \/ UNCHANGED <<flags, handshake, bufferVars, sendVars, shutVars>> /\ TryReceive
    /\ UNCHANGED <<tasks, ioNext, ghosts>>

-----------------------------------------------------------------------------
Write     == \E k \in DOMAIN writes : WriteDone(k) \/ WriteFailed(k)
Read      == ReadDone \/ ReadFailed
Handshake == HandshakeContinues \/ HandshakeSucceeds \/ HandshakeFails
Inner     == TrySend \/ ReceivedReturns \/ Rearm \/ SendStep("io")
Peer      == Completes \/ HandshakeInput \/ ShutdownAnswered

Next == \/ IOTask \/ ShutdownHandler \/ Write \/ Read \/ Handshake \/ Inner
        \/ Peer \/ DisconnectAsync
        \/ \E t \in Threads : SendBegin(t)
        \/ \E t \in Senders : SendStep(t)

Spec == Init /\ [][Next]_vars

\* Threads run, and Asio runs the handlers of what has completed or was posted
\* in the order they became ready, so that one flow of events does not hold up
\* another (hence SF).  Nothing is assumed of the peer: it may never send a
\* message of the handshake, take a byte, or answer a shutdown.
FairSpec ==
    /\ Spec
    /\ SF_vars(IOTask)
    /\ SF_vars(ShutdownHandler)
    /\ SF_vars(Write /\ \E k \in DOMAIN writes : writes[k].state # "open")
    /\ SF_vars(Read /\ Head(reads).state # "open")
    /\ SF_vars(Handshake /\ handshake # "open")
    /\ WF_vars(Inner)
    /\ \A t \in Senders : WF_vars(SendStep(t))

-----------------------------------------------------------------------------
(* Properties *)

Places == {"idle", "checked", "dispatch", "received", "rearm", "trysend"}
States == {"open", "ready", "aborted"}

TypeOK ==
    /\ {connected, handshaked, sending, receiving} \subseteq BOOLEAN
    /\ handshake \in Handshakes
    /\ main \in Seq(Nat) /\ flush \in Seq(Nat) /\ wire \in Seq(Nat)
    /\ offset \in 0..Len(flush)
    /\ writes \in Seq([bytes : Seq(Nat), state : States])
    /\ reads \in Seq([state : States])
    /\ shutOpen \in Nat /\ shutDone \in Nat
    /\ tasks \in Seq({"send", "close"})
    /\ pc \in [Threads -> Places] /\ ioNext \in {"idle", "rearm"}
    /\ accepted \in Nat

\* The TLS stream never has two reads or two writes under way, which it would
\* mix up, nor any before its handshake is done; _sending and _receiving say
\* whether it has one.
OneEach ==
    /\ handshake # "done" => reads = <<>> /\ writes = <<>>
    /\ connected => /\ sending <=> writes # <<>>
                    /\ receiving <=> reads # <<>>
                    /\ Len(writes) <= 1 /\ Len(reads) <= 1
                    /\ sending => writes[1].bytes = SubSeq(flush, offset + 1, Len(flush))
                    /\ handshaked /\ pc["io"] = "idle" => receiving

\* A handshake that succeeds after its session was closed marks the session
\* handshaked for ever, and SendAsync takes bytes again; but what is then begun
\* fails, and no byte of it is sent.
LateIsHarmless ==
    handshaked /\ ~connected =>
        /\ wire = <<>>
        /\ \A k \in DOMAIN writes : writes[k].state = "aborted"
        /\ \A k \in DOMAIN reads : reads[k].state = "aborted"
        /\ Len(reads) <= 1

\* One read and one write at a time while the session is connected, and none
\* that could still move bytes after it, also when the handshake is late.
OneAtATime == OneEach /\ LateIsHarmless

\* The session implements the byte stream: bytes leave in order, each once,
\* through the handshake, short writes and a close that waits for the peer.
Stream == INSTANCE ByteStream
ImplementsByteStream == Stream!Spec

\* A close that was posted ends the session, unless the TLS shutdown waits for
\* the answer of the peer for ever, for which the code has no timeout.
CloseEnds == (\E k \in DOMAIN tasks : tasks[k] = "close") ~> (~connected \/ [](shutOpen > 0))

\* A closed session lets go of its handshake, its reads and its shutdowns.
EndsQuiet == ~connected ~> handshake = "done" /\ reads = <<>> /\ shutOpen + shutDone = 0

\* Both together: what is asked to close does, and nothing of it remains.
ClosesQuietly == CloseEnds /\ EndsQuiet
=============================================================================
