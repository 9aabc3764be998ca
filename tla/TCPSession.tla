----------------------------- MODULE TCPSession -----------------------------
(***************************************************************************)
(* One connected session (source/server/asio/tcp_session.cpp): the double  *)
(* buffered asynchronous send, the read loop with its growing buffer, and  *)
(* the close, under one IO thread and any number of other threads that     *)
(* call SendAsync and Disconnect.  Bytes are numbered in the order in      *)
(* which SendAsync accepted them.                                          *)
(***************************************************************************)
EXTENDS Naturals, Sequences

CONSTANTS Senders,      \* threads other than the IO thread
          MaxBytes,     \* bound: accepted bytes at which no further call begins
          MaxChunk,     \* bound: bytes of one SendAsync
          MaxTasks,     \* bound: posted handlers while Disconnect is called
          SendLimit,    \* _send_buffer_limit, 0 for none
          RecvLimit,    \* _receive_buffer_limit, 0 for none
          RecvSize,     \* size of the receive buffer after Connect
          MaxRecvSize   \* bound: size up to which it grows

ASSUME SessionAssumption ==
    /\ "io" \notin Senders
    /\ {MaxBytes, MaxTasks, SendLimit, RecvLimit} \subseteq Nat
    /\ {MaxChunk, RecvSize, MaxRecvSize} \subseteq Nat \ {0}
    /\ RecvSize <= MaxRecvSize

VARIABLES
    connected,      \* _connected
    main, flush,    \* _send_buffer_main, _send_buffer_flush
    offset,         \* _send_buffer_flush_offset
    bytesPending, bytesSending,
    sending,        \* _sending
    writes,         \* the buffers of the outstanding async_write_some
    receiving,      \* _receiving
    reads,          \* the number of outstanding async_read_some
    recvSize,       \* _receive_buffer.size()
    got,            \* the size of the read being handled
    tasks,          \* handlers posted to the Asio service
    pc,             \* thread -> where it is
    ioNext,         \* where the IO thread goes on after SendAsync or TrySend
    accepted, wire  \* bytes taken by SendAsync, bytes given to the socket

vars == <<connected, main, flush, offset, bytesPending, bytesSending, sending,
          writes, receiving, reads, recvSize, got, tasks, pc, ioNext, accepted, wire>>

bufferVars == <<main, flush, offset, bytesPending, bytesSending>>
recvVars   == <<receiving, reads, recvSize, got>>
ghosts     == <<accepted, wire>>

Threads == Senders \cup {"io"}

Goto(t, l) == pc' = [pc EXCEPT ![t] = l]

\* SendAsync returns: another thread to its caller, the IO thread into the
\* callback that called it.
Return(t) == Goto(t, IF t = "io" THEN ioNext ELSE "idle")

\* The state Connect() leaves: connected, buffers empty, the first read begun.
Init ==
    /\ connected = TRUE
    /\ main = <<>> /\ flush = <<>> /\ offset = 0
    /\ bytesPending = 0 /\ bytesSending = 0
    /\ sending = FALSE /\ writes = <<>>
    /\ receiving = TRUE /\ reads = 1
    /\ recvSize = RecvSize /\ got = 0
    /\ tasks = <<>>
    /\ pc = [t \in Threads |-> "idle"]
    /\ ioNext = "idle"
    /\ accepted = 0 /\ wire = <<>>

-----------------------------------------------------------------------------
(* SendAsync and Disconnect, called by any thread *)

\* IsConnected() is read before the lock is taken.
SendBegin(t) ==
    /\ pc[t] = IF t = "io" THEN "received" ELSE "idle"
    /\ connected
    /\ accepted < MaxBytes
    /\ Goto(t, "checked")
    /\ ioNext' = IF t = "io" THEN "rearm" ELSE ioNext
    /\ UNCHANGED <<connected, bufferVars, sending, writes, recvVars, tasks, ghosts>>

NextBytes(n) == [i \in 1..n |-> accepted + i]

\* Under _send_lock: refuse what exceeds the limit, or append it and see
\* whether a send is already under way.
SendLocked(t) ==
    /\ pc[t] = "checked"
    /\ \E n \in 1..MaxChunk :
         IF SendLimit > 0 /\ Len(main) + n > SendLimit
              THEN /\ Goto(t, "refused")
                   /\ UNCHANGED <<main, bytesPending, accepted>>
              ELSE /\ main' = main \o NextBytes(n)
                   /\ bytesPending' = Len(main) + n
                   /\ accepted' = accepted + n
                   /\ IF main = <<>> \/ flush = <<>>
                        THEN Goto(t, "dispatch")
                        ELSE Return(t)
    /\ UNCHANGED <<connected, flush, offset, bytesSending, sending, writes, recvVars,
                   tasks, ioNext, wire>>

\* SendError reports the limit, and SendAsync returns false.
SendRefused(t) ==
    /\ pc[t] = "refused"
    /\ Return(t)
    /\ UNCHANGED <<connected, bufferVars, sending, writes, recvVars, tasks, ioNext, ghosts>>

\* dispatch() runs TrySend at once on the IO thread and posts it elsewhere.
SendDispatch(t) ==
    /\ pc[t] = "dispatch"
    /\ IF t = "io" THEN Goto(t, "trysend") /\ UNCHANGED tasks
                   ELSE Return(t) /\ tasks' = Append(tasks, "send")
    /\ UNCHANGED <<connected, bufferVars, sending, writes, recvVars, ioNext, ghosts>>

SendStep(t) == SendLocked(t) \/ SendRefused(t) \/ SendDispatch(t)

\* Disconnect() posts the close, as often as it is called while connected.
Disconnect ==
    /\ connected
    /\ Len(tasks) < MaxTasks
    /\ tasks' = Append(tasks, "close")
    /\ UNCHANGED <<connected, bufferVars, sending, writes, recvVars, pc, ioNext, ghosts>>

-----------------------------------------------------------------------------
(* The IO thread *)

ClearBuffers ==
    /\ main' = <<>> /\ flush' = <<>> /\ offset' = 0
    /\ bytesPending' = 0 /\ bytesSending' = 0

\* The disconnect handler.  Operations in flight will still complete.
CloseNow ==
    /\ connected' = FALSE
    /\ sending' = FALSE
    /\ receiving' = FALSE
    /\ ClearBuffers

IOTask ==
    /\ pc["io"] = "idle"
    /\ tasks # <<>>
    /\ tasks' = Tail(tasks)
    /\ \/ /\ Head(tasks) = "send"
          /\ Goto("io", "trysend")
          /\ UNCHANGED <<connected, bufferVars, sending, receiving>>
       \/ /\ Head(tasks) = "close"
          /\ connected
          /\ CloseNow
          /\ UNCHANGED pc
       \/ /\ Head(tasks) = "close"
          /\ ~connected
          /\ UNCHANGED <<pc, connected, bufferVars, sending, receiving>>
    /\ ioNext' = "idle"
    /\ UNCHANGED <<writes, reads, recvSize, got, ghosts>>

\* With the flush buffer empty the buffers are swapped; whatever the flush
\* buffer then holds is written.
SwapAndWrite ==
    /\ IF flush = <<>>
         THEN /\ flush' = main /\ main' = <<>> /\ offset' = 0
              /\ bytesPending' = 0
              /\ bytesSending' = bytesSending + Len(main)
         ELSE UNCHANGED bufferVars
    /\ IF flush' = <<>>
         THEN UNCHANGED <<sending, writes>>
         ELSE /\ sending' = TRUE
              /\ writes' = Append(writes, SubSeq(flush', offset' + 1, Len(flush')))

\* Mutant: a second write is begun while one is outstanding.
TrySendAnyway ==
    /\ pc["io"] = "trysend"
    /\ Goto("io", ioNext)
    /\ IF connected THEN SwapAndWrite ELSE UNCHANGED <<bufferVars, sending, writes>>
    /\ UNCHANGED <<connected, recvVars, tasks, ioNext, ghosts>>

TrySend ==
    /\ pc["io"] = "trysend"
    /\ Goto("io", ioNext)
    /\ IF ~sending /\ connected THEN SwapAndWrite ELSE UNCHANGED <<bufferVars, sending, writes>>
    /\ UNCHANGED <<connected, recvVars, tasks, ioNext, ghosts>>

Without(s, k) == SubSeq(s, 1, k - 1) \o SubSeq(s, k + 1, Len(s))

\* Mutants: a short write is taken for the whole buffer; the offset is not
\* reset with the buffer.
WholeWritten(n)  == flush' = <<>> /\ offset' = 0 /\ bytesSending' = bytesSending - n
OffsetKept(n)    == /\ flush' = IF offset + n = Len(flush) THEN <<>> ELSE flush
                    /\ offset' = offset + n
                    /\ bytesSending' = bytesSending - n

\* n bytes of the flush buffer were sent.
Written(n) ==
    /\ bytesSending' = bytesSending - n
    /\ IF offset + n = Len(flush)
         THEN flush' = <<>> /\ offset' = 0
         ELSE flush' = flush /\ offset' = offset + n

\* The socket took the first n bytes of an outstanding write.
WriteCompletes(k, n) ==
    /\ pc["io"] = "idle"
    /\ writes' = Without(writes, k)
    /\ wire' = wire \o SubSeq(writes[k], 1, n)
    /\ Written(n)
    /\ sending' = FALSE
    /\ ioNext' = "idle"
    /\ UNCHANGED <<connected, main, bytesPending, recvVars, tasks, accepted>>

\* Mutant: nothing more is sent when the flush buffer is done.
DoneWhenFlushed(k, n) ==
    /\ WriteCompletes(k, n)
    /\ connected
    /\ Goto("io", IF flush' = <<>> THEN "idle" ELSE "trysend")

WriteDone(k, n) ==
    /\ connected
    /\ WriteCompletes(k, n)
    /\ Goto("io", "trysend")

\* A write fails, or completes after the session was closed.
WriteFailed(k) ==
    /\ pc["io"] = "idle"
    /\ writes' = Without(writes, k)
    /\ IF connected
         THEN CloseNow
         ELSE sending' = FALSE /\ UNCHANGED <<connected, receiving, bufferVars>>
    /\ UNCHANGED <<reads, recvSize, got, tasks, pc, ioNext, ghosts>>

Write == \E k \in DOMAIN writes : \/ \E n \in 1..Len(writes[k]) : WriteDone(k, n)
                                  \/ WriteFailed(k)

\* Data arrives: onReceived runs, and may call SendAsync.
ReadDone ==
    /\ pc["io"] = "idle"
    /\ connected
    /\ reads > 0
    /\ reads' = reads - 1
    /\ receiving' = FALSE
    /\ \E n \in 1..recvSize : got' = n
    /\ Goto("io", "received")
    /\ UNCHANGED <<connected, bufferVars, sending, writes, recvSize, tasks, ioNext, ghosts>>

ReadFailed ==
    /\ pc["io"] = "idle"
    /\ reads > 0
    /\ reads' = reads - 1
    /\ IF connected
         THEN CloseNow
         ELSE receiving' = FALSE /\ UNCHANGED <<connected, sending, bufferVars>>
    /\ UNCHANGED <<writes, recvSize, got, tasks, pc, ioNext, ghosts>>

ReceivedReturns ==
    /\ pc["io"] = "received"
    /\ Goto("io", "rearm")
    /\ UNCHANGED <<connected, bufferVars, sending, writes, recvVars, tasks, ioNext, ghosts>>

\* After onReceived: a full buffer is doubled, or the session closed at the
\* limit; then the next read begins.
Rearm ==
    /\ pc["io"] = "rearm"
    /\ Goto("io", "idle")
    /\ IF got = recvSize /\ RecvLimit > 0 /\ 2 * got > RecvLimit
         THEN /\ CloseNow
              /\ UNCHANGED <<recvSize, reads>>
         ELSE /\ recvSize' = IF got = recvSize /\ 2 * got <= MaxRecvSize THEN 2 * got ELSE recvSize
              /\ receiving' = TRUE
              /\ reads' = reads + 1
              /\ UNCHANGED <<connected, sending, bufferVars>>
    /\ UNCHANGED <<writes, got, tasks, ioNext, ghosts>>

-----------------------------------------------------------------------------
IOStep == IOTask \/ TrySend \/ ReceivedReturns \/ Rearm \/ SendStep("io")

Environment == \/ Disconnect \/ Write \/ ReadDone \/ ReadFailed
               \/ \E t \in Threads : SendBegin(t)

Next == IOStep \/ Environment \/ \E t \in Senders : SendStep(t)

Spec == Init /\ [][Next]_vars

\* Threads run; Asio runs completed operations and posted handlers in the
\* order they became ready, so that an endless flow of received data does not
\* hold them up (hence SF); the peer goes on taking bytes or the write fails.
\* Nothing is assumed of what is received or of who sends or closes.
FairSpec ==
    /\ Spec
    /\ SF_vars(IOTask)
    /\ SF_vars(Write)
    /\ WF_vars(TrySend \/ ReceivedReturns \/ Rearm \/ SendStep("io"))
    /\ \A t \in Senders : WF_vars(SendStep(t))

-----------------------------------------------------------------------------
(* Properties *)

Places == {"idle", "checked", "refused", "dispatch", "received", "rearm", "trysend"}

TypeOK ==
    /\ {connected, sending, receiving} \subseteq BOOLEAN
    /\ main \in Seq(Nat) /\ flush \in Seq(Nat) /\ wire \in Seq(Nat)
    /\ offset \in 0..Len(flush)
    /\ bytesPending \in Nat /\ bytesSending \in Nat
    /\ writes \in Seq(Seq(Nat))
    /\ reads \in Nat /\ recvSize \in 1..MaxRecvSize /\ got \in 0..recvSize
    /\ tasks \in Seq({"send", "close"})
    /\ pc \in [Threads -> Places]
    /\ ioNext \in {"idle", "rearm"}
    /\ accepted \in Nat

Unsent == (Len(flush) - offset) + Len(main)

\* The wire, the unwritten rest of the flush buffer and the main buffer are,
\* one after the other, the accepted bytes in order, and the two counters are
\* what the socket has not taken. A closed session has nothing under way any
\* more: bytes that a sender which tested the connection before the close still
\* appends stay in the main buffer.
StreamIntact ==
    /\ \A i \in DOMAIN wire : wire[i] = i
    /\ Len(wire) <= accepted
    /\ bytesPending = Len(main) /\ bytesSending = Len(flush) - offset
    /\ connected =>
         /\ accepted = Len(wire) + Unsent
         /\ \A i \in 1..(Len(flush) - offset) : flush[offset + i] = Len(wire) + i
         /\ \A i \in DOMAIN main : main[i] = Len(wire) + (Len(flush) - offset) + i
    /\ ~connected => flush = <<>> /\ offset = 0

\* While connected, _sending says that exactly one write is outstanding, and
\* that it covers the rest of the flush buffer, which no one touches meanwhile.
OneWrite ==
    connected => /\ sending <=> writes # <<>>
                 /\ sending => writes = <<SubSeq(flush, offset + 1, Len(flush))>> /\ flush # <<>>

\* Between two handlers a connected session has exactly one read outstanding,
\* and the buffer never grows past the limit.
OneRead ==
    /\ connected /\ pc["io"] = "idle" => receiving /\ reads = 1
    /\ RecvLimit > 0 /\ recvSize > RecvSize => recvSize <= RecvLimit

\* The stream never has two reads or two writes under way, whichever threads
\* send and whatever TrySend meets: a write that is short, done, late or aborted.
OneAtATime == OneWrite /\ OneRead

\* Bytes that SendAsync left to a send under way are not forgotten: a write
\* is outstanding or a TrySend is still to come.
NoForgottenBytes ==
    connected /\ Unsent > 0 =>
        \/ sending
        \/ pc["io"] = "trysend"
        \/ \E t \in Threads : pc[t] = "dispatch"
        \/ \E k \in DOMAIN tasks : tasks[k] = "send"

\* The session implements the byte stream: what SendAsync accepted reaches the
\* socket in order, each byte once, through swaps and short writes, and nothing
\* reaches it after the close.
Stream == INSTANCE ByteStream
ImplementsByteStream == Stream!Spec

\* Every byte SendAsync accepted reaches the socket, or the session closes.
Delivered ==
    \A n \in 1..(MaxBytes + MaxChunk) : accepted >= n ~> Len(wire) >= n \/ ~connected
=============================================================================
