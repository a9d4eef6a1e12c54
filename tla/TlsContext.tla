----------------------------- MODULE TlsContext -----------------------------
(***************************************************************************)
(* src/ctx/ctx-https.c: the server loads one certificate per host when it  *)
(* starts (create_gnutls), and a worker takes a connection through         *)
(* pre_gnutls (session and handshake), read_gnutls, the filter,            *)
(* write_gnutls and post_gnutls.                                           *)
(*                                                                         *)
(* Sockets block, so a call of GnuTLS waits for the client.  A client      *)
(* sends records; gnutls_record_recv hands out the record it has decrypted *)
(* piece by piece and gnutls_record_check_pending says what is left of it. *)
(* Calls that report GNUTLS_E_AGAIN or GNUTLS_E_INTERRUPTED are repeated   *)
(* with nothing changed and leave no trace here.  Bytes are counted.       *)
(***************************************************************************)
EXTENDS Integers, FiniteSetsExt

CONSTANTS
  Hosts,         \* configured hosts
  PreambleSize,  \* ZHTTP_PREAMBLE_SIZE
  ReadSize,      \* CTX_READ_SIZE
  ReadMax,       \* CTX_READ_MAX
  WriteSize,     \* CTX_WRITE_SIZE
  RecordSize,    \* largest record a send makes
  Bhsize,        \* length of the blank line that ends a header
  MaxSurplus,    \* bytes a client may send beyond what it announces
  HeaderLens,    \* header lengths of the requests considered
  ContentLens,   \* Content-Lengths of requests, lengths of files
  MessageLens    \* lengths of the responses considered

ASSUME TlsAssumption ==
  /\ {PreambleSize, ReadSize, WriteSize, RecordSize, Bhsize} \subseteq Nat \ {0}
  /\ {ReadMax, MaxSurplus} \subseteq Nat /\ HeaderLens \subseteq Nat \ {0}
  /\ ContentLens \subseteq Nat /\ MessageLens \subseteq Nat

VARIABLES
  srv,       \* the server: "start", "serving", "failed" or "stopped"
  cert,      \* what the configuration of a host says about its certificate
  tlsready,  \* lconfig.tlsready
  glob,      \* what the server holds: "global", "bob", "creds"
  pc,        \* control point of the worker
  mem,       \* what the connection holds: "g", "session", "req", "res"
  peer,      \* "open", "closed" (close_notify) or "reset"
  rq,        \* the request
  net,       \* bytes sent by the client, and how many of a record are unread
  rd,        \* locals of read_gnutls
  rs,        \* the response
  wr,        \* locals of write_gnutls, and what it returned
  conn       \* conn->stage and the error placed in conn->res

srvVars == <<srv, cert, tlsready, glob>>
vars == <<srvVars, pc, mem, peer, rq, net, rd, rs, wr, conn>>

CertKinds == {"unspecified", "inaccessible", "rejected", "good"}

Requests ==
  [hlen : HeaderLens, idempotent : BOOLEAN, clen : ContentLens,
   headerOk : BOOLEAN, contentOk : BOOLEAN]

\* `flen' is the length of the file when it is sent; clen was its length
\* when send_static looked.
Responses ==
  [mlen : MessageLens, sendfile : {FALSE}, clen : {0}, flen : {0}]
    \cup [mlen : MessageLens, sendfile : {TRUE}, clen : ContentLens,
          flen : ContentLens]

NoRequest == [hlen |-> 0, idempotent |-> FALSE, clen |-> 0,
              headerOk |-> FALSE, contentOk |-> FALSE]
NoResponse == [mlen |-> 0, sendfile |-> FALSE, clen |-> 0, flen |-> 0]

Waits == {"handshake", "header", "body", "write", "file", "bye"}

TypeOK ==
  /\ srv \in {"start", "serving", "failed", "stopped"}
  /\ cert \in [Hosts -> CertKinds] /\ tlsready \in [Hosts -> BOOLEAN]
  /\ glob \subseteq {"global", "bob", "creds"}
  /\ pc \in Waits \cup {"idle", "pre", "alloc", "check", "proc", "done", "lost", "crash"}
  /\ mem \subseteq {"g", "session", "req", "res"}
  /\ peer \in {"open", "closed", "reset"}
  /\ rq \in Requests \cup {NoRequest} /\ rs \in Responses \cup {NoResponse}
  /\ net \in [sent : Nat, record : Nat, first : Nat]
  /\ rd \in [total : Nat, hlen : Nat \cup {-1}, bsize : Int, crecvd : Nat]
  /\ wr \in [total : Int, pos : Nat, foff : Nat, ret : {-1, 0, 1}]
  /\ conn \in [stage : {"INIT", "READ", "PROC", "WRITE", "POST"},
               answer : {"none", "tooLarge", "badHeader", "badContent",
                         "overMax", "queueFull"}]

Init ==
  /\ srv = "start" /\ cert \in [Hosts -> CertKinds]
  /\ tlsready = [h \in Hosts |-> FALSE]
  /\ glob = {} /\ pc = "idle" /\ mem = {} /\ peer = "open"
  /\ rq = NoRequest /\ rs = NoResponse
  /\ net = [sent |-> 0, record |-> 0, first |-> 0]
  /\ rd = [total |-> 0, hlen |-> -1, bsize |-> PreambleSize, crecvd |-> 0]
  /\ wr = [total |-> 0, pos |-> 0, foff |-> 0, ret |-> -1]
  /\ conn = [stage |-> "INIT", answer |-> "none"]

-----------------------------------------------------------------------------
(* The server: create_gnutls, process_certs and free_gnutls.               *)

\* process_certs stops at the first host whose certificate or key is not
\* specified, not accessible or refused by GnuTLS; the hosts are a list in
\* the order of the configuration.
Loaded == {h \in Hosts : cert[h] = "good"}

\* Mutant: hosts without a certificate are passed over.
ProcessCertsLenient == Loaded # {}

ProcessCerts == Loaded = Hosts

GlobalInitFails ==
  /\ srv = "start" /\ srv' = "failed"
  /\ UNCHANGED <<cert, tlsready, glob, pc, mem, peer, rq, net, rd, rs, wr, conn>>

\* Of these failures only the one of malloc() leaves GnuTLS initialized.
CredentialsFail ==
  /\ srv = "start" /\ srv' = "failed"
  /\ glob' \in {{}, {"global"}}
  /\ UNCHANGED <<cert, tlsready, pc, mem, peer, rq, net, rd, rs, wr, conn>>

CreateGnutls ==
  /\ srv = "start"
  /\ IF ProcessCerts
       THEN srv' = "serving" /\ glob' = {"global", "bob", "creds"}
       ELSE srv' = "failed" /\ glob' = {}
  /\ tlsready' \in {[h \in Hosts |-> h \in S] : S \in SUBSET Loaded}
  /\ ProcessCerts => tlsready' = [h \in Hosts |-> h \in Loaded]
  /\ UNCHANGED <<cert, pc, mem, peer, rq, net, rd, rs, wr, conn>>

FreeGnutls ==
  /\ srv = "serving" /\ pc \in {"idle", "done", "lost"}
  /\ srv' = "stopped" /\ glob' = {}
  /\ UNCHANGED <<cert, tlsready, pc, mem, peer, rq, net, rd, rs, wr, conn>>

-----------------------------------------------------------------------------
(* The client.                                                             *)

Announced == rq.hlen + Bhsize + (IF rq.idempotent THEN rq.clen ELSE 0)

\* A record of any size follows when the last one has been read, also beyond
\* what was announced.
SendRecord ==
  /\ peer = "open" /\ pc \in {"header", "check", "body"} /\ net.record = 0
  /\ \E n \in 1 .. Announced + MaxSurplus - net.sent :
       net' = [sent |-> net.sent + n, record |-> n,
               first |-> IF net.sent = 0 THEN n ELSE net.first]
  /\ UNCHANGED <<srvVars, pc, mem, peer, rq, rd, rs, wr, conn>>

HangUp ==
  /\ peer = "open" /\ pc \in Waits /\ peer' \in {"closed", "reset"}
  /\ UNCHANGED <<srvVars, pc, mem, rq, net, rd, rs, wr, conn>>

-----------------------------------------------------------------------------
(* pre_gnutls.                                                             *)

Accept ==
  /\ srv = "serving" /\ pc = "idle" /\ pc' = "pre"
  /\ UNCHANGED <<srvVars, mem, peer, rq, net, rd, rs, wr, conn>>

\* pre_gnutls fails with what it has allocated so far, and srv_response
\* returns without post_gnutls.
PreFails(stage) ==
  /\ pc' = "lost" /\ conn' = [conn EXCEPT !.stage = stage]
  /\ UNCHANGED <<srvVars, peer, rq, net, rd, rs, wr>>

\* malloc(), gnutls_init(), then the priorities and credentials.
SessionFails ==
  /\ pc = "pre" /\ mem' \in {{}, {"g"}, {"g", "session"}}
  /\ PreFails("POST")

SessionStarts ==
  /\ pc = "pre" /\ pc' = "handshake" /\ mem' = {"g", "session"}
  /\ UNCHANGED <<srvVars, peer, rq, net, rd, rs, wr, conn>>

\* The handshake fails or times out, or it ends but names no server, or
\* one that is not configured with TLS.
HandshakeFails ==
  /\ pc = "handshake" /\ PreFails("POST") /\ UNCHANGED mem

SniAccepts == \E h \in Hosts : tlsready[h]

HandshakeEnds ==
  /\ pc = "handshake" /\ peer = "open" /\ SniAccepts
  /\ pc' = "alloc"
  /\ UNCHANGED <<srvVars, mem, peer, rq, net, rd, rs, wr, conn>>

ZhttpFails ==
  /\ pc = "alloc" /\ mem' \in {mem, mem \cup {"req"}}
  /\ PreFails(conn.stage)

ZhttpAllocated ==
  /\ pc = "alloc" /\ pc' = "header" /\ mem' = mem \cup {"req", "res"}
  /\ rq' \in Requests
  /\ conn' = [conn EXCEPT !.stage = "READ"]
  /\ UNCHANGED <<srvVars, peer, net, rd, rs, wr>>

-----------------------------------------------------------------------------
(* read_gnutls.                                                            *)

Leave(stage, answer) ==
  /\ conn' = [stage |-> stage, answer |-> answer]
  /\ pc' = CASE stage = "PROC" -> "proc" [] stage = "WRITE" -> "write"
             [] stage = "POST" -> "bye"
  /\ wr' = IF stage = "WRITE" THEN [wr EXCEPT !.total = rs'.mlen] ELSE wr

\* http_set_error fills the response; its message is never empty.
Refuse(answer) ==
  /\ rs' \in {r \in Responses : ~r.sendfile /\ r.mlen > 0}
  /\ Leave("WRITE", answer)
Proceed == UNCHANGED rs /\ Leave("PROC", "none")
Drop == UNCHANGED rs /\ Leave("POST", "none")

\* http_parse_content on a content that is there.
ParseContent == IF rq.contentOk THEN Proceed ELSE Refuse("badContent")

\* What a call for `size' bytes takes from the record at hand.
Taken(size) == Min({size, net.record})

\* Mutant: a header of which nothing is pending is waited for.
HeaderGoesOnAlways(hlen, bsize, left) == hlen < 0 \/ bsize <= 0

\* The loop goes on only while something of the same record is left and
\* the header is incomplete or the preamble full.
HeaderGoesOn(hlen, bsize, left) == left > 0 /\ (hlen < 0 \/ bsize <= 0)

\* http_header_received: the position of the blank line, or -1.
HeaderReceived(total) == IF total >= rq.hlen + Bhsize THEN rq.hlen ELSE -1

HeaderRecv ==
  /\ pc = "header" /\ rd.bsize > 0 /\ net.record > 0
  /\ LET n == Taken(rd.bsize) IN
       /\ net' = [net EXCEPT !.record = @ - n]
       /\ rd' = [rd EXCEPT !.total = @ + n, !.bsize = @ - n,
                   !.hlen = HeaderReceived(rd.total + n)]
  /\ pc' = IF HeaderGoesOn(rd'.hlen, rd'.bsize, net'.record) THEN "header" ELSE "check"
  /\ UNCHANGED <<srvVars, mem, peer, rq, rs, wr, conn>>

\* A call for 0 bytes is an invalid request to GnuTLS.
HeaderFull ==
  /\ pc = "header" /\ rd.bsize <= 0 /\ Drop
  /\ UNCHANGED <<srvVars, mem, peer, rq, net, rd>>

Closed == peer = "closed" /\ net.record = 0

HeaderZero ==
  /\ pc = "header" /\ rd.bsize > 0 /\ Closed /\ pc' = "check"
  /\ UNCHANGED <<srvVars, mem, peer, rq, net, rd, rs, wr, conn>>

ReadError ==
  /\ pc \in {"header", "body"} /\ peer = "reset" /\ Drop
  /\ UNCHANGED <<srvVars, mem, peer, rq, net, rd>>

\* Mutant: whatever came with the header is taken for the whole.
WholeSloppy == rd.total >= rd.hlen + Bhsize

Whole == rd.total = rd.hlen + Bhsize + rq.clen

\* Every way out between the two loops; CTX_READ_MAX does not apply to a
\* content that came with the header.
CheckLeaves ==
  /\ pc = "check"
  /\ IF rd.hlen = -1 THEN Refuse("tooLarge")
     ELSE IF ~rq.headerOk THEN Refuse("badHeader")
     ELSE IF ~rq.idempotent THEN Proceed
     ELSE IF Whole THEN ParseContent
     ELSE IF rq.clen > ReadMax THEN Refuse("overMax")
     ELSE Refuse("queueFull")
  /\ UNCHANGED <<srvVars, mem, peer, rq, net, rd>>

\* The part of the content that came with the header.
Excess == rd.total - (rd.hlen + Bhsize)

\* The loop of the body, or what follows it.  Nothing compares what was
\* written with the content's length; past its end the process may end.
BodyLoop ==
  \/ rd'.crecvd < rq.clen /\ pc' = "body" /\ UNCHANGED <<rs, wr, conn>>
  \/ rd'.crecvd >= rq.clen /\ ParseContent
  \/ rd'.crecvd > rq.clen /\ pc' = "crash" /\ UNCHANGED <<rs, wr, conn>>

\* malloc() succeeds: the excess is moved to the new buffer, all of it.
CheckAllocates ==
  /\ pc = "check" /\ rd.hlen >= 0 /\ rq.headerOk /\ rq.idempotent
  /\ ~Whole /\ rq.clen <= ReadMax
  /\ rd' = [rd EXCEPT !.crecvd = Excess, !.bsize = ReadSize]
  /\ UNCHANGED <<srvVars, mem, peer, rq, net>>
  /\ BodyLoop

BodyRecv ==
  /\ pc = "body" /\ net.record > 0
  /\ LET n == Taken(rd.bsize)
         left == rq.clen - (rd.crecvd + n) IN
       /\ net' = [net EXCEPT !.record = @ - n]
       /\ rd' = [rd EXCEPT !.total = @ + n, !.crecvd = @ + n,
                   !.bsize = IF left < ReadSize THEN left ELSE @]
  /\ UNCHANGED <<srvVars, mem, peer, rq>>
  /\ BodyLoop

\* Mutant: the end of the stream is taken for a call to repeat.
BodyZeroRetry ==
  /\ pc = "body" /\ Closed /\ UNCHANGED vars

BodyZero ==
  /\ pc = "body" /\ Closed /\ Proceed
  /\ UNCHANGED <<srvVars, mem, peer, rq, net, rd>>

-----------------------------------------------------------------------------
(* srv_proc, as far as write_gnutls can tell, and write_gnutls.            *)

Respond ==
  /\ pc = "proc" /\ pc' = "write" /\ rs' \in Responses
  /\ wr' = [wr EXCEPT !.total = rs'.mlen]
  /\ conn' = [conn EXCEPT !.stage = "WRITE"]
  /\ UNCHANGED <<srvVars, mem, peer, rq, net, rd>>

\* Where write_gnutls returns; it set the stage when it began.
Return(value, total, pos) ==
  /\ pc' = "bye" /\ conn' = [conn EXCEPT !.stage = "POST"]
  /\ wr' = [wr EXCEPT !.total = total, !.pos = pos, !.ret = value]
  /\ UNCHANGED <<srvVars, mem, peer, rq, net, rd, rs>>

Continue(point, total, pos, foff) ==
  /\ pc' = point
  /\ wr' = [wr EXCEPT !.total = total, !.pos = pos, !.foff = foff]
  /\ UNCHANGED <<srvVars, mem, peer, rq, net, rd, rs, conn>>

\* Mutant: the first record is taken for the whole message.
SentAll == wr.total

\* gnutls_record_send takes one record.
Sent == Min({wr.total, RecordSize})

MessageSend ==
  /\ pc = "write" /\ wr.total > 0 /\ peer # "reset"
  /\ LET pos == wr.pos + Min({wr.total, RecordSize})
         left == wr.total - Sent IN
       IF left > 0 \/ rs.sendfile THEN Continue("write", left, pos, 0)
                                  ELSE Return(1, left, pos)

\* An empty message with no file is an invalid request to GnuTLS.
MessageFails ==
  /\ pc = "write"
  /\ \/ wr.total > 0 /\ peer = "reset"
     \/ wr.total = 0 /\ ~rs.sendfile
  /\ Return(0, wr.total, wr.pos)

StartFile ==
  /\ pc = "write" /\ wr.total = 0 /\ rs.sendfile
  /\ IF rs.clen = 0 THEN Return(1, 0, wr.pos)
                    ELSE Continue("file", rs.clen, wr.pos, 0)

\* gnutls_record_send_file asks for WriteSize bytes, however few are left.
FileSend ==
  /\ pc = "file" /\ peer # "reset" /\ wr.foff < rs.flen
  /\ LET n == Min({WriteSize, rs.flen - wr.foff}) IN
       IF wr.total # n THEN Continue("file", wr.total - n, wr.pos + n, wr.foff + n)
                       ELSE Return(1, 0, wr.pos + n)

FileEnd ==
  /\ pc = "file" /\ wr.foff >= rs.flen
  /\ Return(1, wr.total, wr.pos)

FileFails ==
  /\ pc = "file" /\ peer = "reset" /\ Return(0, wr.total, wr.pos)

-----------------------------------------------------------------------------
(* post_gnutls: gnutls_bye waits for the client's own close_notify.        *)

\* Mutant: the session is not deinitialized.
DestroyedNoDeinit == {"g", "req", "res"}

Destroyed == {"g", "session", "req", "res"}

PostGnutls ==
  /\ pc = "bye" /\ peer # "open" /\ pc' = "done"
  /\ mem' = mem \ Destroyed
  /\ UNCHANGED <<srvVars, peer, rq, net, rd, rs, wr, conn>>

Create == GlobalInitFails \/ CredentialsFail \/ CreateGnutls
Pre == SessionFails \/ SessionStarts \/ HandshakeFails \/ HandshakeEnds
         \/ ZhttpFails \/ ZhttpAllocated
Read == HeaderRecv \/ HeaderFull \/ HeaderZero \/ ReadError
          \/ CheckLeaves \/ CheckAllocates \/ BodyRecv \/ BodyZero
WriteOut == MessageSend \/ MessageFails \/ StartFile \/ FileSend \/ FileEnd
              \/ FileFails
Worker == Pre \/ Read \/ Respond \/ WriteOut \/ PostGnutls

Next == Create \/ FreeGnutls \/ Accept \/ SendRecord \/ HangUp \/ Worker

Spec == Init /\ [][Next]_vars

\* Threads run; a handshake that gets nowhere times out
\* (gnutls_handshake_set_timeout).  Nothing is asked of clients.
FairSpec == Spec /\ WF_vars(Worker)

-----------------------------------------------------------------------------
(* Properties.                                                             *)

\* A server that runs can answer for every host it is configured with:
\* srv_proc chooses the host by the Host header, whatever name the
\* handshake asked for, so one host without a certificate would be served
\* under another's.
EveryHostReady == srv = "serving" => \A h \in Hosts : tlsready[h] /\ cert[h] = "good"

\* post_gnutls leaves nothing of the connection behind; only connections
\* that fail in pre_gnutls, which skip it, keep what they had.
ReleasedAfterPost ==
  /\ pc = "done" => mem = {}
  /\ pc \in {"header", "check", "body", "proc", "write", "file", "bye"} =>
       mem = {"g", "session", "req", "res"}

\* srv_proc sees all of a request, except when the client closed half way,
\* and only one whose header came whole in the first record.  The content
\* buffer is overrun only by a client that sends more than its Content-Length,
\* which nothing in read_gnutls checks: by all that came with the header, or
\* by less than CTX_READ_SIZE in the first call of the body's loop.
ContentHolds ==
  rd.crecvd > rq.clen =>
    /\ rd.total > Announced
    /\ rd.total <= PreambleSize \/ rd.total - Announced < ReadSize
ProcSeesWholeRequest ==
  /\ rd.hlen >= 0 => net.first >= rq.hlen + Bhsize
  /\ pc = "proc" => \/ rd.total >= Announced
                    \/ ~rq.idempotent
                    \/ peer = "closed" /\ rd.crecvd < rq.clen
  /\ ContentHolds

\* "Header too large" is the answer to a header that did not come whole in
\* the first record or is over the preamble, and to no other.  A connection
\* is dropped without an answer only when the client reset it, or when the
\* first record goes on past a full preamble.
AnswerDeserved ==
  /\ conn.answer = "tooLarge" =>
       net.first < rq.hlen + Bhsize \/ rq.hlen + Bhsize > PreambleSize
  /\ pc = "bye" /\ wr.ret = -1 => peer = "reset" \/ net.first > PreambleSize

\* write_gnutls reports success only for what was sent in full, and keeps
\* to Content-Length, unless the file has changed since it was announced.
SuccessMeansSent ==
  wr.ret = 1 => \/ wr.pos = rs.mlen + (IF rs.sendfile THEN rs.clen ELSE 0)
                \/ rs.sendfile /\ rs.flen # rs.clen

\* A worker whose client has gone comes to an end: no call is repeated for
\* ever on a connection that is closed or reset.  And a request that has
\* been sent in full is answered or dropped, never waited for: the record
\* that completes it leaves the reading loops.
NobodyWaitsInVain ==
  /\ peer # "open" ~> pc \in {"done", "lost", "crash"}
  /\ (pc \in {"header", "body"} /\ net.sent >= Announced) ~>
       (pc \notin {"header", "check", "body"})
=============================================================================
