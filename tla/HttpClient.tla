----------------------------- MODULE HttpClient -----------------------------
(***************************************************************************)
(* src/lua/http.c: http.send, with which a model asks another server.      *)
(* http_request builds a request from its arguments, make_http_request or  *)
(* make_https_request sends it and collects the answer, and http_request   *)
(* makes a table of that or raises an error, which ends the model.  Unlike *)
(* the rest of the program it waits without limit.                         *)
(*                                                                         *)
(* Requests and answers are counted in units.  The blank line ends the     *)
(* last of the HdrLen units of an answer's header; a header that came in   *)
(* pieces gives the first piece a length of 3 bytes, which is less than a  *)
(* unit.  Peers answer when they have a whole request.                     *)
(*                                                                         *)
(* The value of a Content-Type is one of five sizes: 0, there is none; 1,  *)
(* it is no longer than text/html; 2, than the types of forms; 3, than 127 *)
(* bytes; 4, it is longer.                                                 *)
(***************************************************************************)
EXTENDS Integers

CONSTANTS
  Args,      \* arguments of http.send, see Refused and Parts
  Answers,   \* answers of peers: length announced, body, type and coding
  ReqLen,    \* units of a request
  HdrLen,    \* units of an answer's header
  RoomLen,   \* units a peer takes in before it reads them
  MaxFds,    \* descriptors left for sockets
  MaxCalls   \* bound on the number of calls

ASSUME HttpAssumption ==
  /\ ReqLen \in Nat \ {0} /\ HdrLen \in Nat \ {0, 1}
  /\ {RoomLen, MaxFds, MaxCalls} \subseteq Nat
  /\ Answers \subseteq [length : Int, body : Nat, type : Nat, chunked : BOOLEAN]
  /\ \A a \in Args : {a.post, a.form} \subseteq BOOLEAN

VARIABLES
  pc,    \* control point
  call,  \* the latest call and its locals
  peer,  \* the peer's side of the connection
  open,  \* descriptors and TLS sessions the process has
  calls  \* number of calls

vars == <<pc, call, peer, open, calls>>

Nobody == [state |-> "open", got |-> 0, given |-> 0, length |-> 0, body |-> 0,
           type |-> 0, chunked |-> FALSE]

NoCall == [secure |-> FALSE, asked |-> {}, parts |-> {}, sent |-> 0,
           post |-> FALSE, form |-> FALSE, table |-> FALSE,
           first |-> TRUE, crlf |-> 0, clen |-> 0, chunked |-> FALSE,
           got |-> 0, cut |-> FALSE, over |-> "none",
           before |-> [sockets |-> 0, sessions |-> 0]]

Init ==
  /\ pc = "idle" /\ call = NoCall /\ peer = Nobody /\ calls = 0
  /\ open = [sockets |-> 0, sessions |-> 0]

Min2(a, b) == IF a < b THEN a ELSE b

-----------------------------------------------------------------------------
(* The arguments.                                                          *)

\* Two arguments have to be a string and a table, but the first is asked to
\* be both; one is a string, or a table with an address.
Refused(a) ==
  \/ a.argc # 1
  \/ a.first = "other"
  \/ a.first = "table" /\ ~a.address
  \/ a.headers = "bad" \/ (a.headers = "none" /\ a.query = "bad")
  \/ a.body = "bad" \/ a.scheme = "other"

Asked(a) == {p \in {"headers", "query", "body"} : a[p] # "none"}

\* http_finalize_request: headers are sent, and for POST and PUT a body.  A
\* form has a name for each value, a text "xxx"; any other body consists of
\* its first value.  A query is kept where nobody looks for it.
Parts(a) ==
  (Asked(a) \cap {"headers"}) \cup
    IF ~a.post \/ a.body = "none" THEN {}
    ELSE {IF a.form = (a.body = "table") THEN "body"
          ELSE IF a.form THEN "named" ELSE "first"}

Begin(a) ==
  /\ pc = "idle" /\ calls < MaxCalls
  /\ calls' = calls + 1 /\ peer' = Nobody

\* Arguments are refused, or the request cannot be made, or GnuTLS cannot be
\* set up for it.
CallRefused ==
  \E a \in Args :
    /\ Begin(a)
    /\ call' = [NoCall EXCEPT !.over = "arguments", !.before = open]
    /\ UNCHANGED <<pc, open>>

\* GnuTLS, credentials and a session, which is made before the socket.
WithSession == [open EXCEPT !.sessions = @ + 1]

\* An accepted call.
Call ==
  \E a \in Args :
    /\ Begin(a) /\ ~Refused(a)
    /\ call' = [NoCall EXCEPT !.secure = a.scheme = "https", !.before = open,
                  !.asked = Asked(a), !.parts = Parts(a), !.post = a.post,
                  !.form = a.form, !.table = a.body = "table"]
    /\ open' = IF a.scheme = "https" THEN WithSession ELSE open
    /\ pc' = "connect"

-----------------------------------------------------------------------------
(* Errors and the connection.                                              *)

\* luaL_error: nothing that is open is closed.
Raise(why) ==
  /\ pc' = "idle" /\ call' = [call EXCEPT !.over = why]
  /\ UNCHANGED <<peer, open, calls>>

Connect ==
  /\ pc = "connect" /\ open.sockets < MaxFds
  /\ open' = [open EXCEPT !.sockets = @ + 1]
  /\ pc' = IF call.secure THEN "handshake" ELSE "send"
  /\ UNCHANGED <<call, peer, calls>>

\* The session cannot be prepared, the name is unknown, or no address of it
\* answers, or there is no descriptor for a socket.  The last two count as
\* success, and are noticed when the empty answer has no header.
ConnectFails == pc = "connect" /\ Raise("connect")

\* It ends in any case: it has a timeout.
Handshake ==
  /\ pc = "handshake"
  /\ \/ pc' = "send" /\ UNCHANGED <<call, peer, open, calls>>
     \/ Raise("handshake")

\* send() from the start of the request, whatever has gone before, until the
\* units sent add up; gnutls_record_send just once.
Send ==
  /\ pc = "send" /\ peer.state # "reset"
  /\ \E n \in 1 .. Min2(ReqLen, RoomLen - peer.got) :
       /\ call' = [call EXCEPT !.sent = @ + n]
       /\ peer' = [peer EXCEPT !.got = @ + n]
       /\ pc' = IF call.secure \/ call.sent + n = ReqLen THEN "recv" ELSE "send"
  /\ UNCHANGED <<open, calls>>

SendFails ==
  /\ pc = "send"
  /\ peer.state # "open" \/ call.secure
  /\ Raise("send")

-----------------------------------------------------------------------------
(* The answer.                                                             *)

\* What the first n units tell of an answer.
Told(n) ==
  IF n >= HdrLen THEN {peer}
  ELSE {[peer EXCEPT !.type = t, !.length = l, !.chunked = c] :
          t \in {0, peer.type}, l \in {-1, peer.length},
          c \in {FALSE, peer.chunked}}

\* Mutant: what has come of the body counts as all of it.
EndsEarly(c, got) == got > c.crlf

\* Whether all of the body is there.
Ends(c, got) == got - c.crlf = c.clen

\* Received units are kept; for plain connections as well as for records.
Keep(c, n) ==
  LET got == c.got + n
      new == [c EXCEPT !.got = got, !.first = FALSE]
  IN IF ~c.chunked /\ c.clen = 0 THEN Raise("answer")
     ELSE /\ call' = new
          /\ \/ ~c.chunked /\ pc' = IF Ends(c, got) THEN "end" ELSE "recv"
             \* The end of a chunked answer counts if it is a record of its own.
             \/ c.chunked /\ got < HdrLen + peer.body /\ pc' = "recv"
             \/ c.chunked /\ got = HdrLen + peer.body /\ pc' \in {"recv", "end"}
          /\ UNCHANGED <<peer, open, calls>>

Incoming == IF peer.state = "reset" THEN 0 ELSE peer.given - call.got

\* Where the value of Content-Type is copied to, whatever its length: onto
\* the type of the request, which is text/html or the model's, for https into
\* 128 bytes.
Space(c) == IF c.secure THEN 3 ELSE IF c.form THEN 2 ELSE 1

\* The first piece is looked at for the status and three header lines.  A
\* value that is too long may go unnoticed.
RecvFirst ==
  /\ pc = "recv" /\ call.first
  /\ \E n \in 1 .. Incoming : \E t \in Told(n) :
       LET c == [call EXCEPT !.clen = t.length, !.chunked = t.chunked,
                   !.crlf = IF n >= HdrLen THEN HdrLen ELSE 0]
       IN IF call.secure
            THEN IF n < HdrLen THEN Raise("answer") ELSE Keep(c, n)
            ELSE IF t.type = 0 \/ t.chunked THEN Raise("answer") ELSE Keep(c, n)

Crash(cut) ==
  /\ pc = "recv" /\ call.first /\ Incoming > 0
  /\ pc' = "crash" /\ call' = [call EXCEPT !.over = "crash", !.cut = cut]
  /\ UNCHANGED <<peer, open, calls>>

\* A line that is cut off has no end, and its value no length.
RecvCut == Crash(TRUE)

\* A value that is too long may overwrite what the process needs.
RecvOverrun == peer.type > Space(call) /\ Crash(FALSE)

RecvMore ==
  /\ pc = "recv" /\ ~call.first
  /\ \E n \in 1 .. Incoming : Keep(call, n)

Cut ==
  /\ pc' = "end" /\ call' = [call EXCEPT !.cut = TRUE]
  /\ UNCHANGED <<peer, open, calls>>

\* Mutant: an empty piece is no end.
RecvEndsOnReset == pc = "recv" /\ peer.state = "reset" /\ Cut

\* The peer has finished, or the connection has failed.
RecvEnds ==
  /\ pc = "recv"
  /\ peer.state = "reset" \/ (peer.state = "closed" /\ Incoming = 0)
  /\ Cut

\* A signal ends recv(), too; gnutls_record_recv is called again.
RecvInterrupted == pc = "recv" /\ ~call.secure /\ Cut

\* Mutant: only plain connections are closed.
CloseKeepsSecure ==
  /\ pc = "end"
  /\ open' = IF call.secure THEN [open EXCEPT !.sessions = @ - 1]
             ELSE [open EXCEPT !.sockets = @ - 1]
  /\ pc' = "parse" /\ UNCHANGED <<call, peer, calls>>

\* close(), after gnutls_bye and with gnutls_deinit for https.
Close ==
  /\ pc = "end"
  /\ open' = [sockets |-> open.sockets - 1,
              sessions |-> open.sessions - IF call.secure THEN 1 ELSE 0]
  /\ pc' = "parse" /\ UNCHANGED <<call, peer, calls>>

\* gnutls_bye fails three times.
ByeFails == pc = "end" /\ call.secure /\ Raise("bye")

\* The table is made if there is a header and a length was announced.
Result ==
  /\ pc = "parse" /\ call.got >= HdrLen /\ call.clen >= 0
  /\ pc' = "idle" /\ call' = [call EXCEPT !.over = "result"]
  /\ UNCHANGED <<peer, open, calls>>

ResultFails ==
  /\ pc = "parse"
  /\ call.got < HdrLen \/ call.clen < 0
  /\ Raise("parse")

-----------------------------------------------------------------------------
(* The peer.                                                               *)

Connected == pc \in {"handshake", "send", "recv"} /\ peer.state = "open"

PeerAnswers ==
  /\ Connected /\ pc # "handshake" /\ peer.got >= ReqLen
  /\ \E a \in IF peer.given > 0 THEN {peer} ELSE Answers :
     \E n \in peer.given + 1 .. HdrLen + a.body :
       peer' = [peer EXCEPT !.given = n, !.length = a.length, !.body = a.body,
                  !.type = a.type, !.chunked = a.chunked]
  /\ UNCHANGED <<pc, call, open, calls>>

PeerLeaves ==
  /\ Connected
  /\ \E s \in {"closed", "reset"} : peer' = [peer EXCEPT !.state = s]
  /\ UNCHANGED <<pc, call, open, calls>>

-----------------------------------------------------------------------------
Client ==
  \/ Connect \/ ConnectFails \/ Handshake \/ Send \/ SendFails
  \/ RecvFirst \/ RecvCut \/ RecvOverrun \/ RecvMore \/ RecvEnds
  \/ Close \/ ByeFails \/ Result \/ ResultFails

Next ==
  \/ CallRefused \/ Call \/ Client
  \/ RecvInterrupted \/ PeerAnswers \/ PeerLeaves

\* The worker runs; nothing is assumed of peers.
Spec == Init /\ [][Next]_vars /\ WF_vars(Client)

-----------------------------------------------------------------------------
(* Properties.                                                             *)

Returned == pc = "idle" /\ call.over = "result"

\* The request says what the model has asked for if it has asked for no query,
\* and for a body only with POST or PUT, as a table for a form and as a text
\* otherwise: a query never gets to the peer, another body not as it was
\* given, and no error tells the model.  The body in the table is the whole
\* body that was announced, unless the connection ended early or the header
\* of a plain answer came in pieces.  Only a chunked answer may announce an
\* empty one.  What makes the process crash is a header line that is cut off
\* or a Content-Type that is longer than its place.
ResultIsWhole ==
  /\ Returned =>
       /\ call.asked \subseteq call.parts <=>
            /\ "query" \notin call.asked
            /\ "body" \in call.asked => call.post /\ (call.form <=> call.table)
       /\ call.clen = peer.length /\ call.clen >= 0
       /\ call.clen = 0 => call.chunked
       /\ \/ call.got >= HdrLen + call.clen
          \/ call.cut
          \/ ~call.secure /\ call.crlf = 0
          \/ call.chunked
  /\ pc = "crash" => call.cut \/ peer.type > Space(call)

\* A call that returns, or fails before it is connected, has closed its
\* socket; one that fails later leaves it open, until connecting fails for
\* want of descriptors.  A session is left by every call with https that
\* fails with its arguments accepted, until the answer is there.
SocketsLeft ==
  pc = "idle" =>
    /\ open.sockets = call.before.sockets +
         IF call.over \in {"handshake", "send", "answer", "bye"} THEN 1 ELSE 0
    /\ open.sessions = call.before.sessions +
         IF call.secure /\ call.over \notin {"result", "parse"} THEN 1 ELSE 0

\* A call comes to an end, or the process crashes, when its peer leaves, or
\* has given what it has announced and no more, with the header in one piece.
Complete ==
  /\ call.crlf = HdrLen /\ ~call.chunked /\ call.clen > 0
  /\ peer.body = call.clen /\ peer.given = HdrLen + peer.body
CallEnds ==
  pc # "idle" /\ (peer.state # "open" \/ Complete)
    ~> pc \in {"idle", "crash"}
=============================================================================
