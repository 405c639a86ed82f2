----------------------------- MODULE PublicPeek -----------------------------
(***************************************************************************)
(* The loop with which the public port looks at a connection's ClientHello  *)
(* before it routes it (peek_sni_alpn in public.rs).  It peeks, so the bytes *)
(* stay in the socket for the agent; the buffer doubles while the hello does *)
(* not fit, and the loop sleeps while nothing new has arrived.  The caller   *)
(* puts one deadline around all of it.  The names of the specification have  *)
(* a prefix: PortProofs extends it beside CtrlExchange.                      *)
(***************************************************************************)
EXTENDS Naturals

CONSTANTS
    PEEK_BUF_INIT, PEEK_BUF_MAX,    \* bytes
    PEEK_POLL_MIN, PEEK_POLL_MAX,   \* milliseconds
    Sizes,      \* lengths of a peer's first TLS record, with its header
    Points      \* bound: how many bytes can have arrived

ASSUME PeekAssumption ==
    /\ PEEK_BUF_INIT \in Nat \ {0} /\ PEEK_BUF_MAX \in Nat
    /\ PEEK_BUF_INIT <= PEEK_BUF_MAX
    /\ PEEK_POLL_MIN \in Nat \ {0} /\ PEEK_POLL_MAX \in Nat
    /\ PEEK_POLL_MIN <= PEEK_POLL_MAX
    /\ Sizes \subseteq Nat \ {0} /\ Points \subseteq Nat

VARIABLES
    hello,      \* what the peer means to send: its length, and what it names
    arrived,    \* bytes in the socket
    closed,     \* the peer sends no more
    buf,        \* the length of the buffer
    seen,       \* bytes the parser has seen
    backoff,    \* the next sleep
    pc          \* in the loop, or what came of it

peekVars == <<hello, arrived, closed, buf, seen, backoff, pc>>

Smaller(a, b) == IF a <= b THEN a ELSE b

PeekInit ==
    /\ hello \in [len : Sizes, sni : BOOLEAN, acme : BOOLEAN]
    /\ arrived = 0 /\ closed = FALSE
    /\ buf = PEEK_BUF_INIT /\ seen = 0 /\ backoff = PEEK_POLL_MIN
    /\ pc = "peek"

Undecided == pc \in {"peek", "sleep"}

-----------------------------------------------------------------------------
(* The peer, the socket and the deadline.                                  *)

Arrive ==
    /\ Undecided /\ ~closed
    /\ \E k \in Points : k > arrived /\ arrived' = k
    /\ UNCHANGED <<hello, closed, buf, seen, backoff, pc>>

PeerCloses ==
    /\ Undecided /\ ~closed
    /\ closed' = TRUE
    /\ UNCHANGED <<hello, arrived, buf, seen, backoff, pc>>

\* peek() returns an error.
PeekFails ==
    /\ pc = "peek"
    /\ pc' = "failed"
    /\ UNCHANGED <<hello, arrived, closed, buf, seen, backoff>>

\* PEEK_TIMEOUT passes.
Deadline ==
    /\ Undecided
    /\ pc' = "timed_out"
    /\ UNCHANGED <<hello, arrived, closed, buf, seen, backoff>>

-----------------------------------------------------------------------------
(* The loop.                                                               *)

\* extract_sni_alpn: a name is found once the whole record is there.
Parses(n) == n >= hello.len /\ hello.sni

\* peek() waits for a byte or the end, and copies what the buffer holds.
Readable == arrived > 0 \/ closed
Peeked == Smaller(arrived, buf)

PeekEnd ==
    /\ pc = "peek" /\ Readable /\ Peeked = 0
    /\ pc' = "refused"
    /\ UNCHANGED <<hello, arrived, closed, buf, seen, backoff>>

Route(n) ==
    /\ Parses(n)
    /\ pc' = IF hello.acme THEN "acme" ELSE "public"
    /\ UNCHANGED <<buf, seen, backoff>>

\* Mutant: the buffer grows, but the loop waits for new bytes before it looks.
GrowAndSleep(n) ==
    /\ ~Parses(n) /\ n >= buf /\ buf < PEEK_BUF_MAX
    /\ buf' = Smaller(2 * buf, PEEK_BUF_MAX)
    /\ seen' = 0 /\ backoff' = PEEK_POLL_MIN
    /\ pc' = "sleep"

\* The buffer is full: it doubles, and is peeked into at once.
Grow(n) ==
    /\ ~Parses(n) /\ n >= buf /\ buf < PEEK_BUF_MAX
    /\ buf' = Smaller(2 * buf, PEEK_BUF_MAX)
    /\ seen' = 0 /\ backoff' = PEEK_POLL_MIN
    /\ UNCHANGED pc

\* Mutant: gives up where the buffer can only grow to its limit.
RefuseEarly(n) ==
    /\ ~Parses(n) /\ n >= buf /\ 2 * buf >= PEEK_BUF_MAX
    /\ seen' = n /\ backoff' = PEEK_POLL_MIN
    /\ pc' = "refused"
    /\ UNCHANGED buf

\* A full buffer that cannot grow.
RefuseFull(n) ==
    /\ ~Parses(n) /\ n >= buf /\ buf >= PEEK_BUF_MAX
    /\ seen' = n /\ backoff' = PEEK_POLL_MIN
    /\ pc' = "refused"
    /\ UNCHANGED buf

\* Part of a record: wait for more.
Wait(n) ==
    /\ ~Parses(n) /\ n < buf
    /\ seen' = n /\ backoff' = PEEK_POLL_MIN
    /\ pc' = "sleep"
    /\ UNCHANGED buf

\* Bytes the parser has not seen.
PeekNew ==
    /\ pc = "peek" /\ Readable /\ Peeked > seen
    /\ Route(Peeked) \/ Grow(Peeked) \/ RefuseFull(Peeked) \/ Wait(Peeked)
    /\ UNCHANGED <<hello, arrived, closed>>

\* Nothing has arrived since the last look, and no attempt is made to parse.
PeekNothingNew ==
    /\ pc = "peek" /\ Readable /\ Peeked > 0 /\ Peeked <= seen
    /\ pc' = "sleep"
    /\ UNCHANGED <<hello, arrived, closed, buf, seen, backoff>>

\* The sleep is over, and the next one is longer.
Wake ==
    /\ pc = "sleep"
    /\ backoff' = Smaller(2 * backoff, PEEK_POLL_MAX)
    /\ pc' = "peek"
    /\ UNCHANGED <<hello, arrived, closed, buf, seen>>

PeekNext ==
    \/ Arrive \/ PeerCloses \/ PeekFails \/ Deadline
    \/ PeekEnd \/ PeekNew \/ PeekNothingNew \/ Wake

PeekSpec == PeekInit /\ [][PeekNext]_peekVars

-----------------------------------------------------------------------------
(* Properties.                                                             *)

PeekTypeOK ==
    /\ hello \in [len : Sizes, sni : BOOLEAN, acme : BOOLEAN]
    /\ arrived \in Nat /\ closed \in BOOLEAN
    /\ buf \in PEEK_BUF_INIT..PEEK_BUF_MAX /\ seen \in 0..buf
    /\ backoff \in PEEK_POLL_MIN..PEEK_POLL_MAX
    /\ pc \in {"peek", "sleep", "public", "acme", "refused", "failed", "timed_out"}

\* A hello that names a host and fits the largest buffer.
Routable == hello.sni /\ hello.len <= PEEK_BUF_MAX

\* The loop of peek_sni_alpn decides right, however the record is cut into
\* segments and wherever it lies relative to the sizes of the buffer: what is
\* routed is complete and goes where its ALPN says; what is refused either ended
\* before its first byte or has filled the largest buffer with something that is
\* not a routable hello.
DecidesExactly ==
    /\ pc \in {"public", "acme"} =>
        /\ Routable /\ arrived >= hello.len
        /\ pc = "acme" <=> hello.acme
    /\ pc = "refused" =>
        \/ arrived = 0 /\ closed
        \/ arrived >= PEEK_BUF_MAX /\ ~Routable

\* Whenever the loop goes to sleep, no routable hello is in the socket: a hello
\* that has arrived is routed without another sleep, although the buffer may have
\* to grow several times, and `seen` keeps the loop from parsing what it has seen.
NeverSleepsOnHello ==
    [][pc = "peek" /\ pc' = "sleep" => ~(Routable /\ arrived >= hello.len)]_peekVars

=============================================================================
