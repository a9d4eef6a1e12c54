---------------------------- MODULE ReadRequest ----------------------------
(***************************************************************************)
(* read_notls of src/ctx/ctx-http.c: one request is read from a socket     *)
(* with MSG_DONTWAIT, the header into the fixed preamble of the request,   *)
(* the rest of a body into a buffer of Content-Length bytes.               *)
(*                                                                         *)
(* Bytes are counted, not represented.  The client sends one request and   *)
(* up to MaxSurplus bytes beyond it, in pieces of any size; it may stop at *)
(* any point, shut its side down, or reset the connection.  Time is what   *)
(* the code looks at: whole seconds since `timer', up to rtimeout.         *)
(***************************************************************************)
EXTENDS Integers, FiniteSetsExt

CONSTANTS
  PreambleSize,   \* ZHTTP_PREAMBLE_SIZE
  ReadSize,       \* CTX_READ_SIZE
  ReadMax,        \* CTX_READ_MAX
  Bhsize,         \* length of the blank line that ends a header
  RTimeout,       \* server_t.rtimeout
  MaxSurplus,     \* bytes a client may send beyond what it announces
  HeaderLens,     \* header lengths of the requests considered
  ContentLens     \* Content-Lengths of the requests considered

ASSUME SizesAssumption ==
  /\ {PreambleSize, ReadSize, Bhsize, RTimeout} \subseteq Nat \ {0}
  /\ {ReadMax, MaxSurplus} \subseteq Nat
  /\ HeaderLens \subseteq Nat \ {0} /\ ContentLens \subseteq Nat

(***************************************************************************)
(* A request: the length of its header, whether its method carries a body  *)
(* (`idempotent' in zhttp_t), its Content-Length, and whether              *)
(* http_parse_header and http_parse_content accept what it says.           *)
(***************************************************************************)
Requests ==
  [hlen : HeaderLens, idempotent : BOOLEAN, clen : ContentLens,
   headerOk : BOOLEAN, contentOk : BOOLEAN]

VARIABLES
  rq,        \* the request the client is sending
  arrived,   \* bytes of it that have reached the socket
  peer,      \* "open", "shut" (no more bytes) or "reset"
  elapsed,   \* seconds since timer, counted up to RTimeout
  rpc,       \* control point of read_notls; "crash" is the end of the process
  total,     \* bytes received
  hlen,      \* position of the end of the header, -1 if not seen
  bsize,     \* bytes asked of the next recv()
  nsize,     \* bytes allocated for the content
  crecvd,    \* bytes of content received
  parsed,    \* http_parse_content has accepted the content
  stage,     \* conn->stage
  answer     \* the error placed in conn->res, if any

netVars == <<arrived, peer>>
countVars == <<total, hlen, bsize, nsize, crecvd>>
outVars == <<parsed, stage, answer>>
vars == <<rq, netVars, elapsed, rpc, countVars, outVars>>

Errors == {"timeout", "tooLarge", "badHeader", "badContent", "overMax",
           "queueFull"}

TypeOK ==
  /\ rq \in Requests
  /\ arrived \in Nat /\ peer \in {"open", "shut", "reset"}
  /\ elapsed \in 0 .. RTimeout
  /\ rpc \in {"header", "check", "body", "done", "crash"}
  /\ total \in Nat /\ hlen \in Nat \cup {-1}
  /\ bsize \in Int /\ {nsize, crecvd} \subseteq Nat
  /\ parsed \in BOOLEAN
  /\ stage \in {"INIT", "PROC", "WRITE", "POST"}
  /\ answer \in Errors \cup {"none"}

\* Bytes of the whole request on the wire.
Announced(r) == r.hlen + Bhsize + (IF r.idempotent THEN r.clen ELSE 0)
Pending == arrived - total

Init ==
  /\ rq \in Requests
  /\ arrived = 0 /\ peer = "open" /\ elapsed = 0
  /\ rpc = "header" /\ total = 0 /\ hlen = -1 /\ bsize = PreambleSize
  /\ nsize = 0 /\ crecvd = 0 /\ parsed = FALSE
  /\ stage = "INIT" /\ answer = "none"

-----------------------------------------------------------------------------
(* The client and the clock.                                               *)

Deliver ==
  /\ peer = "open"
  /\ \E n \in 1 .. Announced(rq) + MaxSurplus - arrived : arrived' = arrived + n
  /\ UNCHANGED <<rq, peer, elapsed, rpc, countVars, outVars>>

HangUp ==
  /\ peer = "open" /\ peer' \in {"shut", "reset"}
  /\ UNCHANGED <<rq, arrived, elapsed, rpc, countVars, outVars>>

Tick ==
  /\ rpc \notin {"done", "crash"} /\ elapsed < RTimeout
  /\ elapsed' = elapsed + 1
  /\ UNCHANGED <<rq, netVars, rpc, countVars, outVars>>

(***************************************************************************)
(* recv( fd, x, size, MSG_DONTWAIT ).  A call for no bytes is answered 0   *)
(* when there are bytes to take and EAGAIN when there are none, as the TCP *)
(* stack does.                                                             *)
(***************************************************************************)
Received(n) == peer # "reset" /\ n \in 1 .. Min({bsize, Pending})
RecvZero ==
  \/ peer # "reset" /\ bsize <= 0 /\ Pending > 0
  \/ peer = "shut" /\ Pending = 0
RecvError == peer = "reset"
RecvAgain == peer = "open" /\ Pending = 0

\* Where read_notls returns, and what it leaves behind.
Done(next) ==
  /\ rpc' = "done" /\ stage' = next
  /\ UNCHANGED <<answer, parsed>>
Refuse(error) ==
  /\ rpc' = "done" /\ stage' = "WRITE" /\ answer' = error
  /\ UNCHANGED parsed
ParseContent ==
  IF rq.contentOk
    THEN rpc' = "done" /\ stage' = "PROC" /\ parsed' = TRUE /\ UNCHANGED answer
    ELSE Refuse("badContent")

\* Nothing compares what is written to the content with its length.  Past the
\* end the heap is overwritten, and the process may end or go on.
Overrun ==
  /\ crecvd' > nsize'
  /\ rpc' = "crash" /\ UNCHANGED outVars

\* The loop of the body, or what follows it.
BodyLoop ==
  IF crecvd' < rq.clen THEN rpc' = "body" /\ UNCHANGED outVars ELSE ParseContent

-----------------------------------------------------------------------------
(* The header loop, which goes on while recvd < 0 || bsize <= 0.           *)

\* Mutant: the space left in the preamble is not reduced.
HeaderRecvUnbounded ==
  /\ rpc = "header"
  /\ \E n \in 1 .. PreambleSize :
       /\ Received(n)
       /\ total' = total + n
  /\ hlen' = IF total' >= rq.hlen + Bhsize THEN rq.hlen ELSE -1
  /\ rpc' = IF hlen' < 0 THEN "header" ELSE "check"
  /\ UNCHANGED <<rq, netVars, elapsed, bsize, nsize, crecvd, outVars>>

HeaderRecv ==
  /\ rpc = "header"
  /\ \E n \in 1 .. PreambleSize :
       /\ Received(n)
       /\ total' = total + n /\ bsize' = bsize - n
  /\ hlen' = IF total' >= rq.hlen + Bhsize THEN rq.hlen ELSE -1
  /\ rpc' = IF hlen' < 0 \/ bsize' <= 0 THEN "header" ELSE "check"
  /\ UNCHANGED <<rq, netVars, elapsed, nsize, crecvd, outVars>>

\* Mutant: a shut connection is polled again.
HeaderZeroIgnored ==
  /\ rpc = "header" /\ RecvZero
  /\ UNCHANGED vars

HeaderZero ==
  /\ rpc = "header" /\ RecvZero
  /\ rpc' = "check"
  /\ UNCHANGED <<rq, netVars, elapsed, countVars, outVars>>

\* Shared by both loops: an error of the socket, or nothing to read for
\* rtimeout seconds.  Before that the loop sleeps and tries again.
ReadError ==
  /\ rpc \in {"header", "body"} /\ RecvError
  /\ Done("POST")
  /\ UNCHANGED <<rq, netVars, elapsed, countVars>>

\* Mutant: an interrupted wait drops the connection.
ReadTimeoutDrops ==
  /\ rpc \in {"header", "body"} /\ RecvAgain
  /\ elapsed >= RTimeout
  /\ Done("POST")
  /\ UNCHANGED <<rq, netVars, elapsed, countVars>>

ReadTimeout ==
  /\ rpc \in {"header", "body"} /\ RecvAgain
  /\ elapsed >= RTimeout
  /\ Refuse("timeout")
  /\ UNCHANGED <<rq, netVars, elapsed, countVars>>

-----------------------------------------------------------------------------
(* Between the loops.                                                      *)

NeedsContent == hlen >= 0 /\ rq.headerOk /\ rq.idempotent
Whole == total = hlen + Bhsize + rq.clen

CheckHeader ==
  /\ rpc = "check" /\ ~NeedsContent
  /\ IF hlen < 0 THEN Refuse("tooLarge")
     ELSE IF ~rq.headerOk THEN Refuse("badHeader")
     ELSE Done("PROC")
  /\ UNCHANGED <<rq, netVars, elapsed, countVars>>

CheckWhole ==
  /\ rpc = "check" /\ NeedsContent /\ Whole
  /\ ParseContent
  /\ UNCHANGED <<rq, netVars, elapsed, countVars>>

CheckMax ==
  /\ rpc = "check" /\ NeedsContent /\ ~Whole /\ rq.clen > ReadMax
  /\ Refuse("overMax")
  /\ UNCHANGED <<rq, netVars, elapsed, countVars>>

\* Mutant: the blank line is taken for content.
AllocateBlankLine ==
  /\ rpc = "check" /\ NeedsContent /\ ~Whole /\ rq.clen <= ReadMax
  /\ \/ Refuse("queueFull") /\ UNCHANGED countVars
     \/ /\ nsize' = rq.clen
        /\ crecvd' = total - hlen
        /\ bsize' = ReadSize
        /\ BodyLoop \/ Overrun
        /\ UNCHANGED <<total, hlen>>
  /\ UNCHANGED <<rq, netVars, elapsed>>

\* malloc() fails, or the content that came with the header is moved to the
\* new buffer, as much of it as there is.
Allocate ==
  /\ rpc = "check" /\ NeedsContent /\ ~Whole /\ rq.clen <= ReadMax
  /\ \/ Refuse("queueFull") /\ UNCHANGED countVars
     \/ /\ nsize' = rq.clen
        /\ crecvd' = total - (hlen + Bhsize)
        /\ bsize' = ReadSize
        /\ BodyLoop \/ Overrun
        /\ UNCHANGED <<total, hlen>>
  /\ UNCHANGED <<rq, netVars, elapsed>>

-----------------------------------------------------------------------------
(* The body loop, which goes on while crecvd < clen.  Its first recv()     *)
(* asks for CTX_READ_SIZE bytes also where less is missing.                *)

BodyRecv ==
  /\ rpc = "body"
  /\ \E n \in 1 .. ReadSize :
       /\ Received(n)
       /\ total' = total + n /\ crecvd' = crecvd + n
  /\ bsize' = IF rq.clen - crecvd' < ReadSize THEN rq.clen - crecvd' ELSE bsize
  /\ elapsed' = 0
  /\ UNCHANGED <<rq, netVars, hlen, nsize>>
  /\ BodyLoop \/ Overrun

\* The peer shut its side down: on to srv_proc with the content as it is.
BodyZero ==
  /\ rpc = "body" /\ RecvZero
  /\ Done("PROC")
  /\ UNCHANGED <<rq, netVars, elapsed, countVars>>

Reader ==
  \/ HeaderRecv \/ HeaderZero \/ ReadError \/ ReadTimeout
  \/ CheckHeader \/ CheckWhole \/ CheckMax \/ Allocate
  \/ BodyRecv \/ BodyZero

Next == Deliver \/ HangUp \/ Tick \/ Reader

Spec == Init /\ [][Next]_vars

\* The worker is scheduled and the clock runs; the client promises nothing.
FairSpec == Spec /\ WF_vars(Reader) /\ WF_vars(Tick)

-----------------------------------------------------------------------------
(* Properties.                                                             *)

\* The preamble is never written past its end.  The content buffer is, and
\* only by a client that sends more than its Content-Length, which nothing in
\* read_notls checks (l. 208-223): by all that came with the header, or by
\* less than CTX_READ_SIZE in the first recv() of the body.
BuffersHold ==
  /\ rpc \in {"header", "check"} => total <= PreambleSize
  /\ crecvd > nsize =>
       /\ total > Announced(rq)
       /\ total <= PreambleSize \/ total - Announced(rq) < ReadSize
  /\ rpc = "crash" => crecvd > nsize

\* srv_proc sees a request only when all of it has arrived and its content
\* was accepted, unless the client shut its side down half way; and never one
\* that is over CTX_READ_MAX, or whose header is over the preamble, unless
\* it came whole with the header.
ProcSeesWholeRequest ==
  stage = "PROC" =>
    /\ \/ total >= Announced(rq) /\ (rq.idempotent => parsed)
       \/ peer = "shut" /\ total < Announced(rq)
    /\ rq.hlen + Bhsize <= PreambleSize
    /\ rq.idempotent /\ rq.clen > ReadMax => Announced(rq) <= PreambleSize

\* A client that stays connected gets the answer it deserves: read_notls
\* leaves without one only after an error of the socket.  A header is too
\* large only if it does not fit the preamble or was broken off; a request is
\* late only if something of it is missing, or if its header fills the
\* preamble to the last byte, after which the loop waits for more.
AnswerDeserved ==
  rpc = "done" =>
    /\ stage = "POST" => peer = "reset"
    /\ stage = "WRITE" <=> answer # "none"
    /\ answer = "tooLarge" =>
         rq.hlen + Bhsize > PreambleSize
           \/ (peer = "shut" /\ total < rq.hlen + Bhsize)
    /\ answer = "timeout" => total < Announced(rq) \/ total = PreambleSize

\* read_notls returns or has overrun its buffer, whatever the client does:
\* every wait is bounded by rtimeout.
ReadEnds == <>(rpc \in {"done", "crash"})
=============================================================================
