----------------------------- MODULE HttpProofs -----------------------------
(***************************************************************************)
(* Theorems about module HttpClient, for requests, headers and answers of  *)
(* any size and any number of calls and descriptors.                       *)
(***************************************************************************)
EXTENDS HttpClient, TLAPS

PartNames == {"headers", "query", "body"}
Descriptors == [sockets : Int, sessions : Int]
Reasons == {"none", "arguments", "connect", "handshake", "send", "answer",
            "bye", "parse", "result", "crash"}

CallType ==
  [secure : BOOLEAN, asked : SUBSET PartNames,
   parts : SUBSET (PartNames \cup {"named", "first"}),
   post : BOOLEAN, form : BOOLEAN, table : BOOLEAN, sent : Int, first : BOOLEAN, crlf : {0, HdrLen}, clen : Int,
   chunked : BOOLEAN, got : Int, cut : BOOLEAN, over : Reasons,
   before : Descriptors]

PeerType ==
  [state : {"open", "closed", "reset"}, got : Int, given : Int, length : Int,
   body : Int, type : Nat, chunked : BOOLEAN]

\* What a call knows from its start.
Asking == {"secure", "asked", "parts", "post", "form", "table", "before"}

USE DEF Asking

Under == {"connect", "handshake", "send", "recv", "end", "parse"}

HttpTypes ==
  /\ pc \in Under \cup {"idle", "crash"}
  /\ call \in CallType /\ peer \in PeerType /\ open \in Descriptors

One(b) == IF b THEN 1 ELSE 0

\* What is open at each step of a call.
OpenInv ==
  /\ pc \in Under => call.over = "none"
  /\ pc = "handshake" => call.secure
  /\ pc = "connect" => open.sockets = call.before.sockets
  /\ pc \in {"handshake", "send", "recv", "end"} =>
       open.sockets = call.before.sockets + 1
  /\ pc \in Under \ {"parse"} =>
       open.sessions = call.before.sessions + One(call.secure)
  /\ pc = "parse" => open = call.before
  /\ SocketsLeft

\* When all of a request is as it was asked for.
Whole(asked, parts, post, form, table) ==
  asked \subseteq parts <=>
    /\ "query" \notin asked
    /\ "body" \in asked => post /\ (form <=> table)

PartsInv == Whole(call.asked, call.parts, call.post, call.form, call.table)

\* The two ways to crash.
CrashInv == pc = "crash" => call.cut \/ peer.type > Space(call)

\* What is known of the answer once its first piece was looked at: the length
\* is the peer's, which does not change any more, or none was found.
FirstInv ==
  pc \in Under =>
    /\ call.first => call.got = 0
    /\ ~call.first =>
         /\ peer.given > 0 /\ call.got > 0
         /\ call.clen \in {-1, peer.length}
         /\ call.clen = 0 => call.chunked
         /\ call.crlf = 0 => ~call.secure

\* The loops of recv() are left for one of three reasons.
EndInv ==
  pc \in {"end", "parse"} =>
    call.cut \/ (~call.first /\ (call.chunked \/ Ends(call, call.got)))

HttpInv ==
  HttpTypes /\ OpenInv /\ PartsInv /\ CrashInv /\ FirstInv /\ EndInv /\ ResultIsWhole

-----------------------------------------------------------------------------
(* What the helpers of the actions do.                                     *)

\* A request is as asked for if there is no query, and no body but a table for
\* a form or another text in a POST.
LEMMA RequestIs ==
  ASSUME NEW a, a.post \in BOOLEAN, a.form \in BOOLEAN
  PROVE  Whole(Asked(a), Parts(a), a.post, a.form, a.body = "table")
<1>1. /\ "headers" \in Asked(a) => "headers" \in Parts(a)
      /\ "query" \notin Parts(a)
      /\ Asked(a) \subseteq {"headers", "query", "body"}
  BY DEF Asked, Parts
<1>2. "body" \in Parts(a) <=>
        a.post /\ a.body # "none" /\ a.form = (a.body = "table")
  BY DEF Asked, Parts
<1>3. "body" \in Asked(a) <=> a.body # "none"
  BY DEF Asked
<1> QED
  BY <1>1, <1>2, <1>3 DEF Whole

LEMMA Sizes == /\ ReqLen \in Nat \ {0} /\ HdrLen \in Nat \ {0, 1} /\ RoomLen \in Nat
               /\ \A a \in Answers : a \in [length : Int, body : Nat, type : Nat,
                                            chunked : BOOLEAN]
               /\ \A a \in Args : a.post \in BOOLEAN /\ a.form \in BOOLEAN
  BY HttpAssumption

\* A failure changes nothing but the reason and the control point.
LEMMA RaiseDoes ==
  ASSUME HttpTypes, NEW why \in Reasons, Raise(why)
  PROVE  /\ pc' = "idle" /\ call' \in CallType /\ call'.over = why
         /\ \A f \in Asking : call'[f] = call[f]
         /\ peer' = peer /\ open' = open
  BY DEF Raise, HttpTypes, CallType

\* So does a loop of recv() that is left.
LEMMA CutDoes ==
  ASSUME HttpTypes, Cut
  PROVE  /\ pc' = "end" /\ call' \in CallType /\ call'.cut
         /\ call' = [call EXCEPT !.cut = TRUE]
         /\ \A f \in DOMAIN call \ {"cut"} : call'[f] = call[f]
         /\ peer' = peer /\ open' = open
  BY DEF Cut, HttpTypes, CallType

\* Received units leave the rest of the call alone.
LEMMA KeepDoes ==
  ASSUME HttpTypes, NEW c \in CallType, NEW n \in Int, Keep(c, n)
  PROVE  \/ Raise("answer")
         \/ /\ pc' \in {"recv", "end"} /\ (c.chunked \/ c.clen # 0)
            /\ call' \in CallType /\ call'.got = c.got + n /\ ~call'.first
            /\ \A f \in Asking \cup {"over", "crlf", "clen", "chunked", "cut"} : call'[f] = c[f]
            /\ pc' = "end" => c.chunked \/ Ends(c, c.got + n)
            /\ peer' = peer /\ open' = open
<1>1. CASE ~c.chunked /\ c.clen = 0
  BY <1>1 DEF Keep
<1>2. CASE c.chunked \/ c.clen # 0
  <2>1. /\ call' = [c EXCEPT !.got = c.got + n, !.first = FALSE]
        /\ pc' \in {"recv", "end"} /\ peer' = peer /\ open' = open
    BY <1>2 DEF Keep
  <2>2. pc' = "end" => c.chunked \/ Ends(c, c.got + n)
    BY <1>2 DEF Keep
  <2>3. c.got + n \in Int
    BY DEF CallType
  <2>4. call' \in CallType
    BY <2>1, <2>3 DEF CallType
  <2>5. /\ call'.got = c.got + n /\ call'.first = FALSE
        /\ \A f \in Asking \cup {"over", "crlf", "clen", "chunked", "cut"} : call'[f] = c[f]
    BY <2>1 DEF CallType
  <2> QED
    BY <1>2, <2>1, <2>2, <2>4, <2>5
<1> QED
  BY <1>1, <1>2

-----------------------------------------------------------------------------
(* The invariant is inductive.                                             *)

LEMMA NoCallType == NoCall \in CallType
  BY DEF NoCall, CallType, Descriptors, Reasons

LEMMA HttpInit == Init => HttpInv
<1> SUFFICES ASSUME Init PROVE HttpInv
  OBVIOUS
<1>1. HttpTypes
  <2>1. call \in CallType
    BY NoCallType DEF Init
  <2> QED
    BY <2>1 DEF Init, HttpTypes, Nobody, PeerType, Descriptors
<1> QED
  BY <1>1 DEF Init, NoCall, HttpInv, OpenInv, SocketsLeft, PartsInv, Whole, CrashInv, FirstInv,
       EndInv, ResultIsWhole, Returned, Under

\* A call may fail where what SocketsLeft says of the failure is open.
LEMMA RaiseKeeps ==
  ASSUME HttpInv, NEW why \in Reasons \ {"result"}, Raise(why),
         open.sockets = call.before.sockets
           + IF why \in {"handshake", "send", "answer", "bye"} THEN 1 ELSE 0,
         open.sessions = call.before.sessions
           + IF call.secure /\ why # "parse" THEN 1 ELSE 0
  PROVE  HttpInv'
<1>1. /\ pc' = "idle" /\ call' \in CallType /\ call'.over = why
      /\ call'.secure = call.secure /\ call'.asked = call.asked
      /\ call'.parts = call.parts /\ call'.post = call.post
      /\ call'.form = call.form /\ call'.table = call.table /\ call'.before = call.before
      /\ peer' = peer /\ open' = open
  BY RaiseDoes DEF HttpInv
<1>2. HttpTypes'
  BY <1>1 DEF HttpInv, HttpTypes
<1>3. OpenInv' /\ PartsInv'
  BY <1>1 DEF HttpInv, OpenInv, SocketsLeft, PartsInv, Under
<1> QED
  BY <1>1, <1>2, <1>3 DEF HttpInv, CrashInv, FirstInv, EndInv, ResultIsWhole, Returned, Under

LEMMA CutKeeps == ASSUME HttpInv, pc = "recv", Cut PROVE HttpInv'
<1>1. /\ pc' = "end" /\ call' \in CallType /\ call'.cut
      /\ peer' = peer /\ open' = open
      /\ \A f \in DOMAIN call \ {"cut"} : call'[f] = call[f]
  BY CutDoes DEF HttpInv
<1>2. /\ call'.secure = call.secure /\ call'.asked = call.asked
      /\ call'.parts = call.parts /\ call'.post = call.post
      /\ call'.form = call.form /\ call'.table = call.table /\ call'.before = call.before
      /\ call'.first = call.first /\ call'.got = call.got /\ call'.over = call.over
      /\ call'.clen = call.clen /\ call'.crlf = call.crlf
      /\ call'.chunked = call.chunked
  BY <1>1 DEF HttpInv, HttpTypes, CallType
<1>3. HttpTypes'
  BY <1>1 DEF HttpInv, HttpTypes, Under
<1>4. OpenInv' /\ PartsInv'
  BY <1>1, <1>2 DEF HttpInv, OpenInv, SocketsLeft, PartsInv, Under
<1>5. FirstInv'
  BY <1>1, <1>2 DEF HttpInv, FirstInv, Under
<1> QED
  BY <1>1, <1>3, <1>4, <1>5 DEF HttpInv, CrashInv, EndInv, ResultIsWhole, Returned

\* A piece is kept: the first one for a call `c' that has what was found in it.
LEMMA KeepKeeps ==
  ASSUME HttpInv, pc = "recv", NEW c \in CallType, NEW n \in Int, n > 0,
         \A f \in Asking \cup {"over", "got"} :
           c[f] = call[f],
         c.clen \in {-1, peer.length}, c.crlf = 0 => ~c.secure,
         peer.given > 0, Keep(c, n)
  PROVE  HttpInv'
<1>1. CASE Raise("answer")
  <2>1. "answer" \in Reasons \ {"result"}
    BY DEF Reasons
  <2> QED
    BY <1>1, <2>1, RaiseKeeps DEF HttpInv, OpenInv, Under, One
<1>2. CASE ~Raise("answer")
  <2>1. /\ pc' \in {"recv", "end"} /\ (c.chunked \/ c.clen # 0)
        /\ call' \in CallType /\ call'.got = c.got + n /\ ~call'.first
        /\ \A f \in Asking \cup {"over", "crlf", "clen", "chunked", "cut"} : call'[f] = c[f]
        /\ pc' = "end" => c.chunked \/ Ends(c, c.got + n)
        /\ peer' = peer /\ open' = open
    BY <1>2, KeepDoes DEF HttpInv
  <2>2. /\ call'.secure = call.secure /\ call'.asked = call.asked
        /\ call'.parts = call.parts /\ call'.post = call.post
      /\ call'.form = call.form /\ call'.table = call.table /\ call'.before = call.before
        /\ call'.over = call.over /\ call'.got = call.got + n
        /\ call'.clen = c.clen /\ call'.crlf = c.crlf /\ call'.chunked = c.chunked
        /\ c.secure = call.secure /\ c.got = call.got
    BY <2>1
  <2>3. HttpTypes'
    BY <2>1 DEF HttpInv, HttpTypes, Under
  <2>4. OpenInv' /\ PartsInv'
    BY <2>1, <2>2 DEF HttpInv, OpenInv, SocketsLeft, PartsInv, Under
  <2>5. call.got >= 0 /\ call.got \in Int
    BY DEF HttpInv, HttpTypes, CallType, FirstInv, Under
  <2>6. FirstInv'
    BY <2>1, <2>2, <2>5 DEF FirstInv
  <2>7. EndInv'
    BY <2>1, <2>2 DEF EndInv, Ends
  <2> QED
    BY <2>1, <2>3, <2>4, <2>6, <2>7 DEF HttpInv, CrashInv, ResultIsWhole, Returned
<1> QED
  BY <1>1, <1>2

\* RecvFirst looks at a piece: what it finds is the peer's or nothing.
LEMMA FirstPiece ==
  ASSUME HttpInv, NEW n \in Int, NEW u \in Told(n), NEW crlf \in {0, HdrLen}
  PROVE  /\ [call EXCEPT !.clen = u.length, !.chunked = u.chunked, !.crlf = crlf]
              \in CallType
         /\ u.length \in {-1, peer.length}
<1>1. u.length \in {-1, peer.length} /\ u.length \in Int /\ u.chunked \in BOOLEAN
  <2>1. peer \in PeerType
    BY DEF HttpInv, HttpTypes
  <2>2. CASE u = peer
    BY <2>1, <2>2 DEF PeerType
  <2>3. CASE \E t \in {0, peer.type}, l \in {-1, peer.length},
                c \in {FALSE, peer.chunked} :
                u = [peer EXCEPT !.type = t, !.length = l, !.chunked = c]
    <3>1. PICK t \in {0, peer.type}, l \in {-1, peer.length},
               c \in {FALSE, peer.chunked} :
                 u = [peer EXCEPT !.type = t, !.length = l, !.chunked = c]
      BY <2>3
    <3>2. u.length = l /\ u.chunked = c
      BY <2>1, <3>1 DEF PeerType
    <3>3. peer.length \in Int /\ peer.chunked \in BOOLEAN
      BY <2>1 DEF PeerType
    <3>4. u.length \in {-1, peer.length} /\ u.length \in Int
      BY <3>2, <3>3
    <3>5. c \in BOOLEAN
      BY <3>3, Zenon
    <3> QED
      BY <3>2, <3>4, <3>5
  <2> QED
    BY <2>2, <2>3 DEF Told
<1>2. call \in CallType
  BY DEF HttpInv, HttpTypes
<1> QED
  BY <1>1, <1>2 DEF CallType

LEMMA HttpStep == HttpInv /\ [Next]_vars => HttpInv'
<1> SUFFICES ASSUME HttpInv, [Next]_vars PROVE HttpInv'
  OBVIOUS
<1>0. /\ {"connect", "handshake", "send", "answer", "bye", "parse", "arguments"}
           \subseteq Reasons \ {"result"}
      /\ open.sockets \in Int /\ open.sessions \in Int
      /\ call.before.sockets \in Int /\ call.before.sessions \in Int
      /\ call.got \in Int /\ peer.given \in Int
  BY DEF Reasons, HttpInv, HttpTypes, CallType, PeerType, Descriptors
<1>1. CASE CallRefused
  <2>1. PICK a \in Args : /\ Begin(a) /\ UNCHANGED <<pc, open>>
                          /\ call' = [NoCall EXCEPT !.over = "arguments", !.before = open]
    BY <1>1 DEF CallRefused
  <2>2. call' \in CallType
    <3>1. open \in Descriptors /\ "arguments" \in Reasons
      BY <1>0 DEF HttpInv, HttpTypes
    <3> QED
      BY <2>1, <3>1, NoCallType DEF CallType
  <2>3. HttpTypes'
    BY <2>1, <2>2 DEF Begin, HttpInv, HttpTypes, Nobody, PeerType
  <2> QED
    BY <2>1, <2>3, <1>0 DEF Begin, NoCall, HttpInv, OpenInv, SocketsLeft, PartsInv, Whole,
         CrashInv, FirstInv, EndInv, ResultIsWhole, Returned, Under
<1>2. CASE Call
  <2>1. PICK a \in Args :
          /\ Begin(a) /\ pc' = "connect"
          /\ call' = [NoCall EXCEPT !.secure = a.scheme = "https", !.before = open,
                        !.asked = Asked(a), !.parts = Parts(a), !.post = a.post,
                        !.form = a.form, !.table = a.body = "table"]
          /\ a \in Args /\ open' = IF a.scheme = "https" THEN WithSession ELSE open
    BY <1>2 DEF Call
  <2>2. /\ a.post \in BOOLEAN /\ a.form \in BOOLEAN /\ Asked(a) \in SUBSET PartNames
        /\ Parts(a) \in SUBSET (PartNames \cup {"named", "first"})
    BY Sizes, <2>1 DEF Asked, Parts, PartNames
  <2>3. Whole(Asked(a), Parts(a), a.post, a.form, a.body = "table")
    BY <2>2, RequestIs
  <2>4. call' \in CallType
    <3> DEFINE s == a.scheme = "https"
               t == a.body = "table"
    <3> HIDE DEF s, t
    <3>1. /\ s \in BOOLEAN /\ t \in BOOLEAN
          /\ call' = [NoCall EXCEPT !.secure = s, !.before = open,
                        !.asked = Asked(a), !.parts = Parts(a), !.post = a.post,
                        !.form = a.form, !.table = t]
      BY <2>1 DEF s, t
    <3>2. open \in Descriptors
      BY DEF HttpInv, HttpTypes
    <3> QED
      BY <3>1, <3>2, <2>2, NoCallType DEF CallType
  <2>5. open' \in Descriptors
    BY <2>1, <1>0 DEF WithSession, Descriptors, HttpInv, HttpTypes
  <2>6. HttpTypes'
    BY <2>1, <2>4, <2>5 DEF Begin, HttpTypes, Nobody, PeerType, Under
  <2>7. /\ call'.over = "none" /\ call'.before = open /\ call'.first
        /\ call'.got = 0 /\ call'.asked = Asked(a) /\ call'.parts = Parts(a)
        /\ call'.post = a.post /\ call'.form = a.form
        /\ (call'.secure <=> a.scheme = "https")
        /\ (call'.table <=> a.body = "table")
    BY <2>1 DEF NoCall
  <2>9. PartsInv'
    BY <2>3, <2>7 DEF PartsInv, Whole
  <2>8. /\ open'.sockets = open.sockets
        /\ open'.sessions = open.sessions + One(call'.secure)
    BY <2>1, <2>7, <1>0 DEF WithSession, One, HttpInv, HttpTypes, Descriptors
  <2> QED
    BY <2>1, <2>6, <2>7, <2>8, <2>9
       DEF HttpInv, OpenInv, SocketsLeft, CrashInv, FirstInv, EndInv,
           ResultIsWhole, Returned, Under
<1>3. CASE Connect
  <2>1. open' \in Descriptors /\ open'.sockets = open.sockets + 1
        /\ open'.sessions = open.sessions
    BY <1>3, <1>0 DEF Connect, Descriptors, HttpInv, HttpTypes
  <2> QED
    BY <1>3, <2>1, <1>0
       DEF Connect, HttpInv, HttpTypes, OpenInv, SocketsLeft, PartsInv, CrashInv, FirstInv,
           EndInv, ResultIsWhole, Returned, Under
<1>4. CASE ConnectFails
  BY <1>4, <1>0, RaiseKeeps DEF ConnectFails, HttpInv, OpenInv, Under, One
<1>5. CASE Handshake
  <2>1. CASE Raise("handshake")
    BY <1>5, <2>1, <1>0, RaiseKeeps DEF Handshake, HttpInv, OpenInv, Under, One
  <2>2. CASE ~Raise("handshake")
    BY <1>5, <2>2
       DEF Handshake, HttpInv, HttpTypes, OpenInv, SocketsLeft, PartsInv, CrashInv, FirstInv,
           EndInv, ResultIsWhole, Returned, Under
  <2> QED
    BY <2>1, <2>2
<1>6. CASE Send
  <2>1. PICK n \in 1 .. Min2(ReqLen, RoomLen - peer.got) :
          /\ pc = "send" /\ pc' \in {"send", "recv"} /\ open' = open
          /\ call' = [call EXCEPT !.sent = @ + n]
          /\ peer' = [peer EXCEPT !.got = @ + n]
    BY <1>6 DEF Send
  <2>2. call' \in CallType /\ peer' \in PeerType
    BY <2>1 DEF HttpInv, HttpTypes, CallType, PeerType
  <2>3. /\ \A f \in DOMAIN call \ {"sent"} : call'[f] = call[f]
        /\ peer'.given = peer.given /\ peer'.length = peer.length
    BY <2>1 DEF HttpInv, HttpTypes, PeerType
  <2>4. /\ call'.secure = call.secure /\ call'.asked = call.asked
        /\ call'.parts = call.parts /\ call'.post = call.post
      /\ call'.form = call.form /\ call'.table = call.table /\ call'.before = call.before
        /\ call'.first = call.first /\ call'.got = call.got /\ call'.over = call.over
        /\ call'.clen = call.clen /\ call'.crlf = call.crlf
        /\ call'.chunked = call.chunked
    BY <2>3 DEF HttpInv, HttpTypes, CallType
  <2> QED
    BY <2>1, <2>2, <2>3, <2>4
       DEF HttpInv, HttpTypes, OpenInv, SocketsLeft, PartsInv, CrashInv, FirstInv, EndInv,
           ResultIsWhole, Returned, Under
<1>7. CASE SendFails
  BY <1>7, <1>0, RaiseKeeps DEF SendFails, HttpInv, OpenInv, Under, One
<1>8. CASE RecvFirst
  <2> DEFINE Looked(n, u) ==
               LET c == [call EXCEPT !.clen = u.length, !.chunked = u.chunked,
                           !.crlf = IF n >= HdrLen THEN HdrLen ELSE 0]
               IN IF call.secure
                    THEN IF n < HdrLen THEN Raise("answer") ELSE Keep(c, n)
                    ELSE IF u.type = 0 \/ u.chunked THEN Raise("answer") ELSE Keep(c, n)
  <2>0. PICK n \in 1 .. Incoming : \E u \in Told(n) : Looked(n, u)
    BY <1>8 DEF RecvFirst
  <2>1. PICK u \in Told(n) : Looked(n, u)
    BY <2>0
  <2> DEFINE crlf == IF n >= HdrLen THEN HdrLen ELSE 0
             c == [call EXCEPT !.clen = u.length, !.chunked = u.chunked, !.crlf = crlf]
  <2>2. /\ n \in Int /\ n > 0 /\ crlf \in {0, HdrLen} /\ peer.given > 0
        /\ pc = "recv" /\ call.first /\ call.got = 0
    BY <1>8, <1>0 DEF RecvFirst, Incoming, HttpInv, FirstInv, Under
  <2>3. c \in CallType /\ u.length \in {-1, peer.length}
    BY <2>2, FirstPiece
  <2>4. CASE Raise("answer")
    BY <2>2, <2>4, <1>0, RaiseKeeps DEF HttpInv, OpenInv, Under, One
  <2>5. CASE ~Raise("answer")
    <3>1. Keep(c, n) /\ (call.secure => n >= HdrLen)
      BY <2>1, <2>2, <2>5, Sizes
    <3>2. /\ c.clen = u.length /\ c.crlf = crlf
          /\ \A f \in DOMAIN call \ {"clen", "chunked", "crlf"} : c[f] = call[f]
      BY DEF HttpInv, HttpTypes, CallType
    <3>3. \A f \in Asking \cup {"over", "got"} : c[f] = call[f]
      BY <3>2 DEF HttpInv, HttpTypes, CallType
    <3>4. c.crlf = 0 => ~c.secure
      BY <3>1, <3>2, <3>3, Sizes
    <3> HIDE DEF c, crlf
    <3> QED
      BY <2>2, <2>3, <3>1, <3>2, <3>3, <3>4, KeepKeeps
  <2> QED
    BY <2>4, <2>5
<1>9. ASSUME NEW cut \in BOOLEAN, Crash(cut), cut \/ peer.type > Space(call)
      PROVE  HttpInv'
  <2>1. /\ call' \in CallType /\ call'.over = "crash" /\ call'.cut = cut
        /\ \A f \in Asking : call'[f] = call[f]
    BY <1>9 DEF Crash, HttpInv, HttpTypes, CallType, Reasons, Asking
  <2>2. /\ call'.asked = call.asked /\ call'.parts = call.parts
        /\ call'.post = call.post /\ call'.form = call.form
        /\ call'.table = call.table /\ call'.secure = call.secure
    BY <2>1 DEF Asking
  <2>3. CrashInv' /\ (call'.cut \/ peer'.type > Space(call'))
    BY <1>9, <2>1, <2>2 DEF Crash, CrashInv, Space
  <2> QED
    BY <1>9, <2>1, <2>2, <2>3
       DEF Crash, HttpInv, HttpTypes, OpenInv, SocketsLeft, PartsInv, FirstInv,
           EndInv, ResultIsWhole, Returned, Under
<1>20. CASE RecvCut
  BY <1>9, <1>20 DEF RecvCut
<1>21. CASE RecvOverrun
  BY <1>9, <1>21 DEF RecvOverrun
<1>10. CASE RecvMore
  <2>1. PICK n \in 1 .. Incoming : Keep(call, n)
    BY <1>10 DEF RecvMore
  <2>2. n \in Int /\ n > 0
    BY <1>0 DEF Incoming
  <2>3. /\ pc = "recv" /\ call \in CallType /\ peer.given > 0
        /\ call.clen \in {-1, peer.length} /\ (call.crlf = 0 => ~call.secure)
    BY <1>10 DEF RecvMore, HttpInv, HttpTypes, FirstInv, Under
  <2> QED
    BY <2>1, <2>2, <2>3, KeepKeeps
<1>11. CASE RecvEnds
  BY <1>11, CutKeeps DEF RecvEnds
<1>12. CASE RecvInterrupted
  BY <1>12, CutKeeps DEF RecvInterrupted
<1>13. CASE Close
  <2>1. open' \in Descriptors /\ open' = call.before
    BY <1>13, <1>0
       DEF Close, HttpInv, HttpTypes, OpenInv, CallType, Descriptors, One, Under
  <2> QED
    BY <1>13, <2>1
       DEF Close, HttpInv, HttpTypes, OpenInv, SocketsLeft, PartsInv, CrashInv, FirstInv,
           EndInv, ResultIsWhole, Returned, Under
<1>14. CASE ByeFails
  BY <1>14, <1>0, RaiseKeeps DEF ByeFails, HttpInv, OpenInv, Under, One
<1>15. CASE Result
  <2>1. /\ call' \in CallType /\ call'.over = "result"
        /\ \A f \in DOMAIN call \ {"over"} : call'[f] = call[f]
    BY <1>15 DEF Result, HttpInv, HttpTypes, CallType, Reasons
  <2>2. /\ call'.secure = call.secure /\ call'.asked = call.asked
        /\ call'.parts = call.parts /\ call'.post = call.post
      /\ call'.form = call.form /\ call'.table = call.table /\ call'.before = call.before
        /\ call'.got = call.got /\ call'.cut = call.cut
        /\ call'.clen = call.clen /\ call'.crlf = call.crlf
        /\ call'.chunked = call.chunked
    BY <2>1 DEF HttpInv, HttpTypes, CallType
  <2>3. /\ pc = "parse" /\ call.clen \in Int /\ call.crlf \in {0, HdrLen}
        /\ call.got >= HdrLen /\ call.clen >= 0 /\ ~call.first
    BY <1>15, Sizes DEF Result, HttpInv, HttpTypes, CallType, FirstInv, Under
  <2>4. ResultIsWhole'
    BY <1>15, <2>2, <2>3, <1>0, Sizes
       DEF Result, HttpInv, PartsInv, Whole, FirstInv, EndInv, Ends, ResultIsWhole, Under, Returned
  <2>5. OpenInv' /\ PartsInv'
    BY <1>15, <1>0, <2>1, <2>2
       DEF Result, HttpInv, OpenInv, SocketsLeft, PartsInv, Under
  <2> QED
    BY <1>15, <2>1, <2>4, <2>5
       DEF Result, HttpInv, HttpTypes, CrashInv, FirstInv, EndInv, Under
<1>16. CASE ResultFails
  BY <1>16, <1>0, RaiseKeeps DEF ResultFails, HttpInv, OpenInv, Under
<1>17. CASE PeerAnswers
  <2>1. PICK a \in IF peer.given > 0 THEN {peer} ELSE Answers :
        \E n \in peer.given + 1 .. HdrLen + a.body :
          peer' = [peer EXCEPT !.given = n, !.length = a.length, !.body = a.body,
                     !.type = a.type, !.chunked = a.chunked]
    BY <1>17 DEF PeerAnswers
  <2>2. /\ a.length \in Int /\ a.body \in Int /\ a.type \in Nat
        /\ a.chunked \in BOOLEAN /\ (peer.given > 0 => a.length = peer.length)
    BY Sizes DEF HttpInv, HttpTypes, PeerType
  <2>3. PICK n \in peer.given + 1 .. HdrLen + a.body :
          peer' = [peer EXCEPT !.given = n, !.length = a.length, !.body = a.body,
                     !.type = a.type, !.chunked = a.chunked]
    BY <2>1
  <2>4. n \in Int /\ n > peer.given
    BY <1>0, <2>2, Sizes
  <2>5. peer' \in PeerType /\ peer'.given = n /\ peer'.length = a.length
    BY <2>2, <2>3, <2>4 DEF HttpInv, HttpTypes, PeerType
  <2>6. FirstInv'
    BY <1>0, <1>17, <2>2, <2>4, <2>5 DEF PeerAnswers, HttpInv, FirstInv
  <2> QED
    BY <1>17, <2>5, <2>6
       DEF PeerAnswers, Connected, HttpInv, HttpTypes, OpenInv, SocketsLeft,
           PartsInv, CrashInv, EndInv, Ends, ResultIsWhole, Returned
<1>18. CASE PeerLeaves
  <2>1. peer' \in PeerType /\ peer'.given = peer.given /\ peer'.length = peer.length
    BY <1>18 DEF PeerLeaves, HttpInv, HttpTypes, PeerType
  <2> QED
    BY <1>18, <2>1
       DEF PeerLeaves, Connected, HttpInv, HttpTypes, OpenInv, SocketsLeft,
           PartsInv, CrashInv, FirstInv, EndInv, Ends, ResultIsWhole, Returned, Space
<1>19. CASE UNCHANGED vars
  BY <1>19
     DEF vars, HttpInv, HttpTypes, OpenInv, SocketsLeft, PartsInv, CrashInv, FirstInv, EndInv,
         Ends, ResultIsWhole, Returned
<1> QED
  BY <1>1, <1>2, <1>3, <1>4, <1>5, <1>6, <1>7, <1>8, <1>10, <1>11, <1>12,
     <1>13, <1>14, <1>15, <1>16, <1>17, <1>18, <1>19, <1>20, <1>21 DEF Next, Client
-----------------------------------------------------------------------------
\* http.send: which requests get to the peer as they were asked for; the table
\* a model gets has the whole body that was announced, but for the ways of an
\* answer to end early that the property names; and what can crash a call.
THEOREM ResultsAreWhole == Spec => []ResultIsWhole
<1>1. HttpInv => ResultIsWhole
  BY DEF HttpInv
<1> QED
  BY HttpInit, HttpStep, <1>1, PTL DEF Spec

\* make_http_request, make_https_request: every call that fails between its
\* connecting and the end of the answer leaves its socket, every https call
\* that fails between its arguments and the end of the answer a session, and
\* no other call leaves anything.
THEOREM SocketsAreLeft == Spec => []SocketsLeft
<1>1. HttpInv => SocketsLeft
  BY DEF HttpInv, OpenInv
<1> QED
  BY HttpInit, HttpStep, <1>1, PTL DEF Spec
=============================================================================
