---------------------------- MODULE HttpRequest ----------------------------
(***************************************************************************)
(* How one HTTP session cuts the bytes it receives into requests:          *)
(* HTTPSession::onReceived and onDisconnected with                         *)
(* HTTPRequest::ReceiveHeader and ReceiveBody.  The client's messages are  *)
(* a fixed stream of bytes, of which the session receives any chunks; "r"  *)
(* and "n" are CR and LF, "x" is any other byte.  Only IO handlers run,    *)
(* one at a time.                                                          *)
(***************************************************************************)
EXTENDS Naturals, Sequences

CONSTANTS MessageKinds,     \* the kinds of messages a client sends
          MaxMessages       \* bound: messages of a stream

VARIABLES
    messages,   \* what the client sends
    received,   \* bytes of the stream received so far
    from,       \* where in the stream the request's _cache begins
    request,    \* the rest of the HTTPRequest
    open,       \* the session is connected
    handled,    \* requests given to onReceivedRequestInternal, oldest first
    split,      \* history: a chunk has ended inside the end of a header
    overran     \* history: a chunk has gone past the end of a message

vars == <<messages, received, from, request, open, handled, split, overran>>

HeaderEnd == <<"r", "n", "r", "n">>

\* A request without Content-Length and not of the bodyless methods ends, as
\* the header does, with an empty line.
Kinds == [get  |-> [bodyless |-> TRUE,  declared |-> FALSE, valid |-> TRUE,
                    header |-> <<"x">> \o HeaderEnd, body |-> <<>>],
          post |-> [bodyless |-> FALSE, declared |-> TRUE,  valid |-> TRUE,
                    header |-> <<"x">> \o HeaderEnd, body |-> <<"x", "x">>],
          text |-> [bodyless |-> FALSE, declared |-> FALSE, valid |-> TRUE,
                    header |-> <<"x">> \o HeaderEnd, body |-> <<"x">> \o HeaderEnd],
          bad  |-> [bodyless |-> TRUE,  declared |-> FALSE, valid |-> FALSE,
                    header |-> <<"x">> \o HeaderEnd, body |-> <<>>]]

ASSUME HttpAssumption ==
    /\ MaxMessages \in Nat \ {0}
    /\ MessageKinds \subseteq DOMAIN Kinds

Bytes(k)  == Kinds[k].header \o Kinds[k].body

\* The bytes of the first m of the messages ms, one message after the other.
FirstBytes(ms) ==
    LET upTo[m \in 0..Len(ms)] == IF m = 0 THEN <<>> ELSE upTo[m - 1] \o Bytes(ms[m])
    IN  upTo

Stream    == FirstBytes(messages)[Len(messages)]

\* Where message m begins (the bytes before it) and ends.
StartOf(m) == Len(FirstBytes(messages)[m - 1])
HeaderOf(m) == StartOf(m) + Len(Kinds[messages[m]].header)
EndOf(m)   == StartOf(m) + Len(Bytes(messages[m]))

Cleared == [len |-> 0, cacheSize |-> 0, bodyIndex |-> 0, bodySize |-> 0,
            bodyLength |-> 0, provided |-> FALSE, bodyless |-> FALSE, error |-> FALSE]

Init ==
    /\ messages \in UNION {[1..n -> MessageKinds] : n \in 1..MaxMessages}
    /\ received = 0
    /\ from = 0
    /\ request = Cleared
    /\ open = TRUE
    /\ handled = <<>>
    /\ split = FALSE
    /\ overran = FALSE

-----------------------------------------------------------------------------
IsPendingHeader(q) == ~q.error /\ q.bodyIndex = 0
IsPendingBody(q)   == ~q.error /\ q.bodyIndex > 0 /\ q.bodySize > 0

\* _cache[i] .. _cache[i + 3] are the end of a header.
SeparatorAt(i, len) ==
    /\ i + 3 < len
    /\ SubSeq(Stream, from + i + 1, from + i + 4) = HeaderEnd

\* Mutant: a separator at the very end of the cache is not looked at.
FoundTooEarly(q, len) ==
    {i \in q.cacheSize..len : SeparatorAt(i, len) /\ i + 4 < len /\ \A j \in q.cacheSize..(i - 1) : ~SeparatorAt(j, len)}

\* The search starts at the parsed part of the cache.
Found(q, len) ==
    {i \in q.cacheSize..len : SeparatorAt(i, len) /\ \A j \in q.cacheSize..(i - 1) : ~SeparatorAt(j, len)}

\* What the parser makes of the header that ends at i: the message's own
\* method and Content-Length if the cache holds its header and no more;
\* anything at all, or an error, of a text put together from several.
Parse(i) ==
    LET exact == {m \in DOMAIN messages : StartOf(m) = from /\ HeaderOf(m) = from + i + 4} IN
    IF exact # {}
      THEN {[valid |-> Kinds[messages[m]].valid, bodyless |-> Kinds[messages[m]].bodyless,
             provided |-> Kinds[messages[m]].declared, bodyLength |-> Len(Kinds[messages[m]].body)]
              : m \in exact}
      ELSE [valid : BOOLEAN, bodyless : BOOLEAN, provided : BOOLEAN, bodyLength : 0..2]

\* The request whose cache of len bytes holds the header h, which ends at i.
WithHeader(q, len, i, h) ==
    IF h.valid
      THEN [q EXCEPT !.len = len, !.cacheSize = len, !.bodyIndex = i + 4, !.bodySize = len - i - 4,
                     !.bodyless = h.bodyless, !.provided = h.provided,
                     !.bodyLength = IF h.provided THEN h.bodyLength ELSE 0]
      ELSE [q EXCEPT !.len = len, !.error = TRUE]

\* The request after ReceiveHeader of n bytes, for every reading Parse allows.
ReceiveHeader(q, n) ==
    LET len == q.len + n IN
    IF Found(q, len) = {}
      THEN {[q EXCEPT !.len = len, !.cacheSize = IF len >= 3 THEN len - 3 ELSE 0]}
      ELSE UNION {{WithHeader(q, len, i, h) : h \in Parse(i)} : i \in Found(q, len)}

\* ReceiveBody of n bytes; the bytes counted as parsed are all of the cache.
WithBody(q, n) == [q EXCEPT !.len = @ + n, !.cacheSize = q.len + n, !.bodySize = @ + n]

\* Mutant: one byte of the body is not waited for.
CompleteOneShort(q) ==
    IF q.provided THEN q.bodySize + 1 >= q.bodyLength
    ELSE \/ q.bodyless
         \/ /\ q.bodySize >= 4
            /\ SeparatorAt(q.bodyIndex + q.bodySize - 4, q.len)

BodyComplete(q) ==
    IF q.provided THEN q.bodySize >= q.bodyLength
    ELSE \/ q.bodyless
         \/ /\ q.bodySize >= 4
            /\ SeparatorAt(q.bodyIndex + q.bodySize - 4, q.len)

\* The size of the body a complete request is handed on with.
BodyTaken(q) == IF q.provided THEN q.bodyLength ELSE IF q.bodyless THEN 0 ELSE q.bodySize

Handle(q, size, cut) ==
    handled' = Append(handled, [from |-> from, bodyFrom |-> from + q.bodyIndex, size |-> size,
                                last |-> received', cut |-> cut])

\* Mutant: _cache_size is not reset.
KeepCacheSize == request' = [Cleared EXCEPT !.cacheSize = request.cacheSize] /\ from' = received'

\* Clear() drops whatever else the cache holds.
Clear == request' = Cleared /\ from' = received'

\* Where a chunk of n bytes ends among the messages.
NoteChunk(n) ==
    /\ split' = (split \/ \E m \in DOMAIN messages :
                            received + n \in (HeaderOf(m) - 3)..(HeaderOf(m) - 1))
    /\ overran' = (overran \/ \E m \in DOMAIN messages :
                                received < EndOf(m) /\ EndOf(m) < received + n)

\* HTTPSession::onReceived.  The Disconnect() after an error is posted, and
\* runs before the next read can complete.
OnReceived(n) ==
    /\ open
    /\ received + n <= Len(Stream)
    /\ received' = received + n
    /\ NoteChunk(n)
    /\ \E q \in IF IsPendingHeader(request) THEN ReceiveHeader(request, n) ELSE {request} :
         LET b == WithBody(q, IF IsPendingHeader(request) THEN 0 ELSE n) IN
         \/ /\ q.error
            /\ open' = FALSE
            /\ Clear
            /\ UNCHANGED handled
         \/ /\ ~q.error
            /\ BodyComplete(b)
            /\ Handle(b, BodyTaken(b), FALSE)
            /\ Clear
            /\ UNCHANGED open
         \/ /\ ~q.error
            /\ ~BodyComplete(b)
            /\ request' = b
            /\ UNCHANGED <<from, open, handled>>
    /\ UNCHANGED messages

\* HTTPSession::onDisconnected: what has come of a body is handed on.
OnDisconnected ==
    /\ open
    /\ open' = FALSE
    /\ UNCHANGED <<messages, received, split, overran>>
    /\ IF IsPendingBody(request)
         THEN Handle(request, request.bodySize, TRUE) /\ Clear
         ELSE UNCHANGED <<from, request, handled>>

Next == OnDisconnected \/ \E n \in 1..Len(Stream) : OnReceived(n)

Spec == Init /\ [][Next]_vars

-----------------------------------------------------------------------------
(* Properties *)

TypeOK ==
    /\ received \in 0..Len(Stream)
    /\ from \in 0..received
    /\ request.len = received - from
    /\ request.cacheSize \in 0..request.len
    /\ request.bodyIndex + request.bodySize <= request.len
    /\ {open, split, overran, request.error, request.provided, request.bodyless} \subseteq BOOLEAN

Valid(m) == Kinds[messages[m]].valid

\* No byte is used in two requests, and none lies beyond what was received.
RequestsDisjoint ==
    \A k \in DOMAIN handled :
        /\ handled[k].bodyFrom + handled[k].size <= handled[k].last
        /\ \A j \in 1..k-1 : handled[j].last <= handled[k].from

\* Requests are handed on in order, with bytes of their own that were received.
\* And as long as no chunk has ended inside the end of a header or gone past the
\* end of a message, each one is the next message with its whole body, or the
\* part received of it when the client hangs up.
RequestsExact ==
    /\ RequestsDisjoint
    /\ ~split /\ ~overran =>
         \A k \in DOMAIN handled :
           /\ k \in DOMAIN messages
           /\ handled[k].from = StartOf(k)
           /\ handled[k].bodyFrom = HeaderOf(k)
           /\ Valid(k)
           /\ ~handled[k].cut => handled[k].size = Len(Kinds[messages[k]].body)
           /\ handled[k].cut => k = Len(handled) /\ handled[k].last < EndOf(k)

Notified ==
    open => \A m \in DOMAIN messages : EndOf(m) <= received => m <= Len(handled)

\* As long as no chunk was of either kind, a message all of whose bytes were
\* received has been handed on.
AlignedNotified == ~split /\ ~overran => Notified

(* What the header says and the code does not do *)

\* "Notification is called when HTTP request was received from the client":
\* so too when the end of its header came in two chunks.
SplitNotified == ~overran => Notified
=============================================================================
