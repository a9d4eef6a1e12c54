----------------------------- MODULE TlsProofs -----------------------------
(***************************************************************************)
(* Theorems about module TlsContext, for any hosts, sizes and lengths.     *)
(***************************************************************************)
EXTENDS TlsContext, TLAPS

Reading == {"header", "check", "body"}
Early == {"idle", "pre", "handshake", "alloc"}

\* Types of what the worker counts.
CountTypes ==
  /\ net \in [sent : Nat, record : Nat, first : Nat]
  /\ rd \in [total : Nat, hlen : Int, bsize : Int, crecvd : Int]
  /\ wr \in [total : Int, pos : Nat, foff : Nat, ret : {-1, 0, 1}]
  /\ conn \in [stage : {"INIT", "READ", "PROC", "WRITE", "POST"},
               answer : {"none", "tooLarge", "badHeader", "badContent",
                         "overMax", "queueFull"}]
  /\ rq.hlen \in Nat /\ rq.clen \in Nat
  /\ rs.mlen \in Nat /\ rs.clen \in Nat /\ rs.flen \in Nat

\* Bytes read and bytes of the record at hand are all that was sent.  Only
\* the first record is read for the header.
NetInv ==
  /\ rd.total + net.record = net.sent /\ net.first <= net.sent
  /\ pc \in Early => net.sent = 0 /\ rd.hlen = -1 /\ rd.bsize = PreambleSize
  /\ pc \in Early \cup Reading => conn.answer = "none" /\ wr.ret = -1
  /\ pc \in Reading => rq.hlen > 0
  /\ pc \in Early \cup {"header", "check"} => rd.crecvd = 0
  /\ net.sent > 0 => net.first > 0

HeaderInv ==
  /\ pc = "header" =>
       /\ net.first = net.sent
       /\ rd.total = 0 \/ net.record > 0
       /\ rd.bsize = PreambleSize - rd.total /\ rd.bsize >= 0
  /\ pc \in {"header", "check"} => rd.hlen = HeaderReceived(rd.total)
  /\ pc = "check" => rd.total <= PreambleSize
  /\ pc = "check" /\ rd.hlen = -1 =>
       /\ net.first = rd.total
       /\ net.sent = 0 => peer # "open"

BodyInv ==
  pc = "body" =>
    /\ rq.idempotent /\ rd.hlen = rq.hlen
    /\ rd.bsize > 0 /\ rd.bsize <= ReadSize
    /\ rd.crecvd = rd.total - (rq.hlen + Bhsize) /\ rd.crecvd < rq.clen

\* The response leaves from its first byte on; the end of a file is not
\* passed.
WriteInv ==
  /\ pc \in Early \cup Reading \cup {"proc"} =>
       wr.pos = 0 /\ wr.foff = 0 /\ wr.ret = -1
  /\ pc = "write" =>
       wr.total >= 0 /\ wr.pos = rs.mlen - wr.total /\ wr.foff = 0 /\ wr.ret = -1
  /\ pc = "file" =>
       /\ rs.sendfile /\ wr.total = rs.clen - wr.foff /\ wr.total # 0
       /\ wr.pos = rs.mlen + wr.foff /\ wr.foff <= rs.flen /\ wr.ret = -1

MemInv ==
  /\ pc \in {"idle", "pre"} => mem = {}
  /\ pc \in {"handshake", "alloc"} => mem = {"g", "session"}
  /\ ReleasedAfterPost

TlsInv ==
  /\ CountTypes /\ NetInv /\ HeaderInv /\ BodyInv /\ WriteInv
  /\ ProcSeesWholeRequest /\ AnswerDeserved /\ SuccessMeansSent

LEMMA Sizes ==
  /\ PreambleSize \in Nat \ {0} /\ ReadSize \in Nat \ {0}
  /\ WriteSize \in Nat \ {0} /\ RecordSize \in Nat \ {0} /\ Bhsize \in Nat \ {0}
BY TlsAssumption

LEMMA MinOfTwo ==
  ASSUME NEW a \in Int, NEW b \in Int
  PROVE  /\ Min({a, b}) \in Int /\ Min({a, b}) <= a /\ Min({a, b}) <= b
         /\ Min({a, b}) = a \/ Min({a, b}) = b
<1>1. \E x \in {a, b} : \A y \in {a, b} : x <= y
  OBVIOUS
<1>2. Min({a, b}) \in {a, b} /\ \A y \in {a, b} : Min({a, b}) <= y
  BY <1>1 DEF Min
<1> QED
  BY <1>2

LEMMA Lengths ==
  /\ \A n \in HeaderLens : n \in Nat /\ n > 0
  /\ \A n \in ContentLens : n \in Nat
  /\ \A n \in MessageLens : n \in Nat
<1>1. /\ HeaderLens \subseteq Nat \ {0} /\ ContentLens \subseteq Nat
      /\ MessageLens \subseteq Nat
  BY TlsAssumption
<1> QED
  BY <1>1

LEMMA ResponseTypes ==
  ASSUME NEW r \in Responses
  PROVE  r.mlen \in Nat /\ r.clen \in Nat /\ r.flen \in Nat
<1>1. CASE r \in [mlen : MessageLens, sendfile : {FALSE}, clen : {0}, flen : {0}]
  BY <1>1, Lengths
<1>2. CASE r \in [mlen : MessageLens, sendfile : {TRUE}, clen : ContentLens,
                  flen : ContentLens]
  BY <1>2, Lengths
<1> QED
  BY <1>1, <1>2 DEF Responses

LEMMA RequestTypes ==
  ASSUME NEW r \in Requests
  PROVE  r.hlen \in Nat /\ r.hlen > 0 /\ r.clen \in Nat
BY Lengths DEF Requests

\* How read_gnutls is left.
LEMMA RefuseDoes ==
  ASSUME NEW answer, Refuse(answer)
  PROVE  /\ pc' = "write" /\ rs' \in Responses /\ ~rs'.sendfile
         /\ conn' = [stage |-> "WRITE", answer |-> answer]
         /\ wr' = [wr EXCEPT !.total = rs'.mlen]
BY DEF Refuse, Leave

LEMMA ProceedDoes ==
  ASSUME Proceed
  PROVE  /\ pc' = "proc" /\ rs' = rs /\ wr' = wr
         /\ conn' = [stage |-> "PROC", answer |-> "none"]
BY DEF Proceed, Leave

LEMMA DropDoes ==
  ASSUME Drop
  PROVE  /\ pc' = "bye" /\ rs' = rs /\ wr' = wr
         /\ conn' = [stage |-> "POST", answer |-> "none"]
BY DEF Drop, Leave

LEMMA TlsInit == Init => TlsInv
<1> SUFFICES ASSUME Init PROVE TlsInv
  OBVIOUS
<1>1. CountTypes
  BY Sizes DEF Init, CountTypes, NoRequest, NoResponse
<1> QED
  BY <1>1, Sizes
     DEF Init, TlsInv, NetInv, HeaderInv, BodyInv, WriteInv, Early, Reading,
         ProcSeesWholeRequest, ContentHolds, AnswerDeserved, SuccessMeansSent, NoRequest,
         NoResponse

\* The steps of the server, and those of the worker before it reads.
LEMMA OtherSteps ==
  ASSUME TlsInv, \/ Create \/ FreeGnutls \/ Accept \/ HangUp
                 \/ SessionFails \/ SessionStarts \/ HandshakeFails
                 \/ HandshakeEnds \/ ZhttpFails \/ PostGnutls \/ UNCHANGED vars
  PROVE  TlsInv'
<1> USE Sizes
        DEF TlsInv, CountTypes, NetInv, HeaderInv, BodyInv, WriteInv, Early,
            Reading, ProcSeesWholeRequest, AnswerDeserved, SuccessMeansSent,
            ContentHolds, Announced, HeaderReceived, srvVars, PreFails
<1>1. CASE Create \/ FreeGnutls
  BY <1>1 DEF Create, GlobalInitFails, CredentialsFail, CreateGnutls, FreeGnutls
<1>2. CASE Accept BY <1>2 DEF Accept
<1>3. CASE HangUp BY <1>3 DEF HangUp, Waits
<1>4. CASE SessionFails BY <1>4 DEF SessionFails
<1>5. CASE SessionStarts BY <1>5 DEF SessionStarts
<1>6. CASE HandshakeFails BY <1>6 DEF HandshakeFails
<1>7. CASE HandshakeEnds BY <1>7 DEF HandshakeEnds
<1>8. CASE ZhttpFails BY <1>8 DEF ZhttpFails
<1>9. CASE PostGnutls BY <1>9 DEF PostGnutls
<1>10. CASE UNCHANGED vars BY <1>10 DEF vars
<1> QED
  BY <1>1, <1>2, <1>3, <1>4, <1>5, <1>6, <1>7, <1>8, <1>9, <1>10

\* The counters, one by one.
LEMMA Counters ==
  ASSUME CountTypes
  PROVE  /\ net.sent \in Nat /\ net.record \in Nat /\ net.first \in Nat
         /\ rd.total \in Nat /\ rd.hlen \in Int /\ rd.bsize \in Int
         /\ rd.crecvd \in Int
         /\ wr.total \in Int /\ wr.pos \in Nat /\ wr.foff \in Nat
         /\ rq.hlen \in Nat /\ rq.clen \in Nat
         /\ rs.mlen \in Nat /\ rs.clen \in Nat /\ rs.flen \in Nat
BY DEF CountTypes

\* Updates of the counters keep their types.
LEMMA CountUpdates ==
  ASSUME CountTypes, NEW r \in Nat, NEW t \in Nat, NEW h \in Int, NEW b \in Int,
         NEW c \in Int
  PROVE  /\ [net EXCEPT !.record = r] \in [sent : Nat, record : Nat, first : Nat]
         /\ [rd EXCEPT !.total = t, !.bsize = b, !.hlen = h]
              \in [total : Nat, hlen : Int, bsize : Int, crecvd : Int]
         /\ [rd EXCEPT !.crecvd = c, !.bsize = b]
              \in [total : Nat, hlen : Int, bsize : Int, crecvd : Int]
         /\ [rd EXCEPT !.total = t, !.crecvd = c, !.bsize = b]
              \in [total : Nat, hlen : Int, bsize : Int, crecvd : Int]
BY DEF CountTypes

\* How write_gnutls goes on, and how it returns.
LEMMA ReturnDoes ==
  ASSUME CountTypes, NEW v \in {0, 1}, NEW t \in Int, NEW p \in Nat, Return(v, t, p)
  PROVE  /\ pc' = "bye" /\ conn'.answer = conn.answer
         /\ wr'.total = t /\ wr'.pos = p /\ wr'.ret = v
         /\ UNCHANGED <<srvVars, peer, rq, net, rd, rs>>
         /\ CountTypes'
BY DEF CountTypes, Return

LEMMA ContinueDoes ==
  ASSUME CountTypes, NEW point, NEW t \in Int, NEW p \in Nat, NEW f \in Nat,
         Continue(point, t, p, f)
  PROVE  /\ pc' = point /\ conn' = conn
         /\ wr'.total = t /\ wr'.pos = p /\ wr'.foff = f /\ wr'.ret = wr.ret
         /\ UNCHANGED <<srvVars, peer, rq, net, rd, rs>>
         /\ CountTypes'
BY DEF CountTypes, Continue

\* One call of gnutls_record_recv.
LEMMA TakenBounds ==
  ASSUME CountTypes, rd.bsize > 0, net.record > 0
  PROVE  /\ Taken(rd.bsize) \in Nat /\ Taken(rd.bsize) > 0
         /\ Taken(rd.bsize) <= rd.bsize /\ Taken(rd.bsize) <= net.record
<1>1. rd.bsize \in Int /\ net.record \in Int
  BY Counters
<1>2. /\ Taken(rd.bsize) \in Int /\ Taken(rd.bsize) <= rd.bsize
      /\ Taken(rd.bsize) <= net.record
      /\ Taken(rd.bsize) = rd.bsize \/ Taken(rd.bsize) = net.record
  BY <1>1, MinOfTwo DEF Taken
<1> QED
  BY <1>1, <1>2

\* The steps of read_gnutls, and the records it reads.
LEMMA ReadSteps ==
  ASSUME TlsInv, ZhttpAllocated \/ SendRecord \/ HeaderFull \/ HeaderZero
                   \/ ReadError \/ CheckLeaves \/ BodyZero
  PROVE  TlsInv'
<1> USE Sizes
        DEF TlsInv, CountTypes, NetInv, HeaderInv, BodyInv, WriteInv, Early,
            Reading, ProcSeesWholeRequest, AnswerDeserved, SuccessMeansSent,
            ContentHolds, Announced, HeaderReceived, srvVars
<1>1. CASE ZhttpAllocated
  BY <1>1, RequestTypes DEF ZhttpAllocated
<1>2. CASE SendRecord
  BY <1>2 DEF SendRecord
<1>3. CASE HeaderFull
  BY <1>3, DropDoes DEF HeaderFull
<1>4. CASE HeaderZero
  BY <1>4 DEF HeaderZero, Closed
<1>5. CASE ReadError
  BY <1>5, DropDoes DEF ReadError
<1>6. CASE CheckLeaves
  BY <1>6, RefuseDoes, ProceedDoes, ResponseTypes DEF CheckLeaves, ParseContent, Whole
<1>7. CASE BodyZero
  BY <1>7, ProceedDoes DEF BodyZero, Closed
<1> QED
  BY <1>1, <1>2, <1>3, <1>4, <1>5, <1>6, <1>7

\* A piece of the header.
LEMMA HeaderStep == ASSUME TlsInv, HeaderRecv PROVE TlsInv'
<1> DEFINE n == Taken(rd.bsize)
<1>1. pc = "header" /\ CountTypes /\ NetInv /\ HeaderInv /\ WriteInv /\ rd.bsize > 0
  BY DEF HeaderRecv, TlsInv
<1>2. n \in Nat /\ n > 0 /\ n <= rd.bsize /\ n <= net.record
  BY <1>1, TakenBounds DEF HeaderRecv
<1>3. /\ net' = [net EXCEPT !.record = net.record - n]
      /\ rd' = [rd EXCEPT !.total = rd.total + n, !.bsize = rd.bsize - n,
                  !.hlen = HeaderReceived(rd.total + n)]
      /\ UNCHANGED <<peer, rq, rs, wr, conn>>
  BY DEF HeaderRecv
<1> HIDE DEF n
<1>4. /\ net'.sent = net.sent /\ net'.first = net.first
      /\ net'.record = net.record - n
      /\ rd'.total = rd.total + n /\ rd'.bsize = rd.bsize - n
      /\ rd'.hlen = HeaderReceived(rd.total + n)
  BY <1>1, <1>3 DEF CountTypes
<1>5. CountTypes'
  <2>1. /\ net.record - n \in Nat /\ rd.total + n \in Nat /\ rd.bsize - n \in Int
        /\ HeaderReceived(rd.total + n) \in Int /\ rd.crecvd \in Int
    BY <1>1, <1>2, Counters DEF HeaderReceived
  <2>2. /\ net' \in [sent : Nat, record : Nat, first : Nat]
        /\ rd' \in [total : Nat, hlen : Int, bsize : Int, crecvd : Int]
    BY <1>1, <1>3, <2>1, CountUpdates
  <2> QED
    BY <1>1, <1>3, <2>2 DEF CountTypes
<1>6. \/ pc' = "check" /\ (rd'.hlen = -1 => net'.record = 0)
      \/ pc' = "header" /\ net'.record > 0
  <2>1. pc' = IF HeaderGoesOn(rd'.hlen, rd'.bsize, net'.record) THEN "header" ELSE "check"
    BY DEF HeaderRecv
  <2> QED
    BY <1>2, <1>4, <2>1, <1>1, Counters DEF HeaderGoesOn
<1>7. NetInv' /\ HeaderInv'
  BY <1>1, <1>2, <1>3, <1>4, <1>6, Counters, Sizes
     DEF NetInv, HeaderInv, HeaderReceived, Announced, Early, Reading
<1>8. BodyInv' /\ WriteInv'
  BY <1>1, <1>3, <1>6 DEF BodyInv, WriteInv, Early, Reading
<1>9. ProcSeesWholeRequest' /\ AnswerDeserved' /\ SuccessMeansSent'
  BY <1>1, <1>2, <1>3, <1>4, <1>6, Counters, Sizes
     DEF NetInv, HeaderInv, HeaderReceived, Early, Reading, TlsInv,
         ProcSeesWholeRequest, ContentHolds, AnswerDeserved, SuccessMeansSent
<1> QED
  BY <1>5, <1>7, <1>8, <1>9 DEF TlsInv

\* Once a piece of the content is stored the loop goes on, or ends with the
\* content parsed, or the process ends with its heap overwritten.
LEMMA LoopStep ==
  ASSUME TlsInv, pc \in {"check", "body"}, rd.hlen = rq.hlen, rq.idempotent,
         net' \in [sent : Nat, record : Nat, first : Nat],
         rd' \in [total : Nat, hlen : Int, bsize : Int, crecvd : Int],
         net'.sent = net.sent, net'.first = net.first,
         rd'.total + net'.record = net'.sent, rd'.hlen = rd.hlen,
         rd'.crecvd = rd'.total - (rq.hlen + Bhsize),
         rd'.crecvd < rq.clen => rd'.bsize > 0 /\ rd'.bsize <= ReadSize,
         ContentHolds', UNCHANGED <<peer, rq>>, BodyLoop
  PROVE  TlsInv'
<1>1. CountTypes /\ NetInv /\ WriteInv /\ ProcSeesWholeRequest
  BY DEF TlsInv
<1>2. CASE UNCHANGED <<rs, wr, conn>> /\ pc' \in {"body", "crash"}
  <2>1. CountTypes'
    BY <1>1, <1>2 DEF CountTypes
  <2>2. pc' = "body" => rd'.crecvd < rq.clen
    BY DEF BodyLoop, ParseContent, Proceed, Refuse, Leave
  <2> QED
    BY <1>1, <1>2, <2>1, <2>2
       DEF TlsInv, NetInv, HeaderInv, BodyInv, WriteInv, Early, Reading,
           ProcSeesWholeRequest, AnswerDeserved, SuccessMeansSent
<1>3. CASE rd'.crecvd >= rq.clen /\ ParseContent
  <2>1. Proceed \/ Refuse("badContent")
    BY <1>3 DEF ParseContent
  <2>2. rd'.total >= Announced'
    BY <1>1, <1>3, Counters, Sizes DEF Announced
  <2>3. CASE Proceed
    <3>1. pc' = "proc" /\ rs' = rs /\ wr' = wr /\ conn'.answer = "none"
      BY <2>3, ProceedDoes
    <3>2. CountTypes'
      BY <1>1, <2>3, ProceedDoes DEF CountTypes
    <3> QED
      BY <1>1, <2>2, <3>1, <3>2
         DEF TlsInv, NetInv, HeaderInv, BodyInv, WriteInv, Early, Reading,
             ProcSeesWholeRequest, AnswerDeserved, SuccessMeansSent
  <2>4. CASE Refuse("badContent")
    <3>1. /\ pc' = "write" /\ rs' \in Responses /\ conn'.answer = "badContent"
          /\ wr' = [wr EXCEPT !.total = rs'.mlen]
      BY <2>4, RefuseDoes
    <3>2. rs'.mlen \in Nat /\ rs'.clen \in Nat /\ rs'.flen \in Nat
      BY <3>1, ResponseTypes
    <3>3. wr' \in [total : Int, pos : Nat, foff : Nat, ret : {-1, 0, 1}]
      BY <1>1, <3>1, <3>2 DEF CountTypes
    <3>4. wr'.total = rs'.mlen /\ wr'.pos = wr.pos /\ wr'.foff = wr.foff /\ wr'.ret = wr.ret
      BY <1>1, <3>1 DEF CountTypes
    <3>5. CountTypes'
      BY <1>1, <2>4, <3>2, <3>3, RefuseDoes DEF CountTypes
    <3>6. wr.pos = 0 /\ wr.foff = 0 /\ wr.ret = -1
      BY <1>1 DEF WriteInv, Reading
    <3>7. WriteInv'
      BY <3>1, <3>2, <3>4, <3>6 DEF WriteInv, Early, Reading
    <3> QED
      BY <1>1, <3>1, <3>4, <3>5, <3>6, <3>7
         DEF TlsInv, NetInv, HeaderInv, BodyInv, Early, Reading,
             ProcSeesWholeRequest, AnswerDeserved, SuccessMeansSent
  <2> QED
    BY <2>1, <2>3, <2>4
<1> QED
  BY <1>2, <1>3 DEF BodyLoop

\* The excess behind the header begins the content.
LEMMA AllocateStep == ASSUME TlsInv, CheckAllocates PROVE TlsInv'
<1>1. /\ pc = "check" /\ rd.hlen >= 0 /\ rq.idempotent
      /\ CountTypes /\ NetInv /\ HeaderInv
      /\ rd' = [rd EXCEPT !.crecvd = Excess, !.bsize = ReadSize]
      /\ UNCHANGED <<peer, rq, net>> /\ BodyLoop
  BY DEF CheckAllocates, TlsInv
<1>2. /\ rd'.total = rd.total /\ rd'.hlen = rd.hlen
      /\ rd'.bsize = ReadSize /\ rd'.crecvd = Excess
  BY <1>1 DEF CountTypes
<1>3. rd.hlen = rq.hlen /\ rd.total <= PreambleSize
  BY <1>1, Counters, Sizes DEF HeaderInv, HeaderReceived
<1>4. rd' \in [total : Nat, hlen : Int, bsize : Int, crecvd : Int]
  <2>1. Excess \in Int /\ ReadSize \in Int
    BY <1>1, Counters, Sizes DEF Excess
  <2> QED
    BY <1>1, <2>1, CountUpdates
<1>5. ContentHolds'
  BY <1>1, <1>2, <1>3, Counters, Sizes DEF ContentHolds, Announced, Excess
<1> QED
  BY <1>1, <1>2, <1>3, <1>4, <1>5, LoopStep, Counters, Sizes
     DEF Excess, NetInv, CountTypes

\* A piece of the content.
LEMMA BodyStep == ASSUME TlsInv, BodyRecv PROVE TlsInv'
<1> DEFINE n == Taken(rd.bsize)
           left == rq.clen - (rd.crecvd + n)
           size == IF left < ReadSize THEN left ELSE rd.bsize
<1>1. pc = "body" /\ CountTypes /\ NetInv /\ BodyInv
  BY DEF BodyRecv, TlsInv
<1>2. n \in Nat /\ n > 0 /\ n <= rd.bsize /\ n <= net.record
  BY <1>1, TakenBounds DEF BodyRecv, BodyInv
<1>3. /\ net' = [net EXCEPT !.record = net.record - n]
      /\ rd' = [rd EXCEPT !.total = rd.total + n, !.crecvd = rd.crecvd + n,
                  !.bsize = size]
      /\ UNCHANGED <<peer, rq>> /\ BodyLoop
  BY DEF BodyRecv
<1> HIDE DEF n
<1>4. /\ net'.sent = net.sent /\ net'.first = net.first
      /\ net'.record = net.record - n
      /\ rd'.total = rd.total + n /\ rd'.crecvd = rd.crecvd + n
      /\ rd'.hlen = rd.hlen /\ rd'.bsize = size
  BY <1>1, <1>3 DEF CountTypes
<1>5. /\ net.record - n \in Nat /\ rd.total + n \in Nat /\ rd.crecvd + n \in Int
      /\ size \in Int
  BY <1>1, <1>2, Counters, Sizes
<1>6. /\ net' \in [sent : Nat, record : Nat, first : Nat]
      /\ rd' \in [total : Nat, hlen : Int, bsize : Int, crecvd : Int]
  <2> HIDE DEF left, size
  <2> QED
    BY <1>1, <1>3, <1>5, CountUpdates
<1>7. /\ rd'.crecvd = rd'.total - (rq.hlen + Bhsize)
      /\ rd'.crecvd < rq.clen => rd'.bsize > 0 /\ rd'.bsize <= ReadSize
      /\ rd'.total + net'.record = net'.sent
  BY <1>1, <1>2, <1>4, Counters, Sizes DEF BodyInv, NetInv
<1>8. ContentHolds'
  BY <1>1, <1>2, <1>3, <1>4, Counters, Sizes DEF ContentHolds, Announced, BodyInv
<1> HIDE DEF left, size
<1> QED
  BY <1>1, <1>3, <1>4, <1>6, <1>7, <1>8, LoopStep DEF BodyInv

\* What steps of write_gnutls have in common: they touch neither the request
\* nor what was read of it.
LEMMA WritesOnly ==
  ASSUME TlsInv, pc \in {"write", "file"}, CountTypes', WriteInv',
         pc' \in {"write", "file", "bye"}, conn'.answer = conn.answer,
         pc' = "bye" => wr'.ret # -1, SuccessMeansSent',
         UNCHANGED <<peer, rq, net, rd, rs>>
  PROVE  TlsInv'
BY DEF TlsInv, NetInv, HeaderInv, BodyInv, Early, Reading,
       ProcSeesWholeRequest, ContentHolds, AnswerDeserved, Announced

\* The steps of write_gnutls.
LEMMA WriteSteps == ASSUME TlsInv, WriteOut PROVE TlsInv'
<1> USE Sizes, Counters DEF WriteInv, SuccessMeansSent, Early, Reading
<1>0. CountTypes /\ WriteInv
  BY DEF TlsInv
<1>1. CASE MessageSend
  <2> DEFINE n == Min({wr.total, RecordSize})
  <2>0. /\ wr.total \in Int /\ RecordSize \in Int /\ RecordSize > 0
        /\ wr.total > 0 /\ pc = "write"
    BY <1>0, <1>1 DEF MessageSend
  <2>1. n \in Int /\ n <= wr.total /\ n > 0 /\ pc = "write"
    <3>1. n \in Int /\ n <= wr.total /\ (n = wr.total \/ n = RecordSize)
      BY <2>0, MinOfTwo
    <3> QED
      BY <2>0, <3>1
  <2>2. IF wr.total - n > 0 \/ rs.sendfile
          THEN Continue("write", wr.total - n, wr.pos + n, 0)
          ELSE Return(1, wr.total - n, wr.pos + n)
    BY <1>1 DEF MessageSend, Sent
  <2> HIDE DEF n
  <2>3. CASE Continue("write", wr.total - n, wr.pos + n, 0)
    BY <1>0, <2>1, <2>3, ContinueDoes, WritesOnly
  <2>4. CASE Return(1, wr.total - n, wr.pos + n) /\ wr.total - n <= 0 /\ ~rs.sendfile
    BY <1>0, <2>1, <2>4, ReturnDoes, WritesOnly
  <2> QED
    BY <1>0, <2>1, <2>2, <2>3, <2>4
<1>2. CASE MessageFails
  BY <1>0, <1>2, ReturnDoes, WritesOnly DEF MessageFails
<1>3. CASE StartFile
  BY <1>0, <1>3, ReturnDoes, ContinueDoes, WritesOnly DEF StartFile
<1>4. CASE FileSend
  <2> DEFINE n == Min({WriteSize, rs.flen - wr.foff})
  <2>0. /\ WriteSize \in Int /\ WriteSize > 0 /\ pc = "file"
        /\ rs.flen - wr.foff \in Int /\ rs.flen - wr.foff > 0
    BY <1>0, <1>4 DEF FileSend
  <2>1. n \in Int /\ n <= rs.flen - wr.foff /\ n > 0 /\ pc = "file"
    <3>1. /\ n \in Int /\ n <= rs.flen - wr.foff
          /\ n = WriteSize \/ n = rs.flen - wr.foff
      BY <2>0, MinOfTwo
    <3> QED
      BY <2>0, <3>1
  <2>2. IF wr.total # n
          THEN Continue("file", wr.total - n, wr.pos + n, wr.foff + n)
          ELSE Return(1, 0, wr.pos + n)
    BY <1>4 DEF FileSend
  <2> HIDE DEF n
  <2>3. CASE Continue("file", wr.total - n, wr.pos + n, wr.foff + n) /\ wr.total # n
    BY <1>0, <2>1, <2>3, ContinueDoes, WritesOnly
  <2>4. CASE Return(1, 0, wr.pos + n) /\ wr.total = n
    BY <1>0, <2>1, <2>4, ReturnDoes, WritesOnly
  <2> QED
    BY <2>2, <2>3, <2>4
<1>5. CASE FileEnd
  BY <1>0, <1>5, ReturnDoes, WritesOnly DEF FileEnd
<1>6. CASE FileFails
  BY <1>0, <1>6, ReturnDoes, WritesOnly DEF FileFails
<1> QED
  BY <1>1, <1>2, <1>3, <1>4, <1>5, <1>6 DEF WriteOut

LEMMA RespondStep == ASSUME TlsInv, Respond PROVE TlsInv'
BY ResponseTypes, Sizes
   DEF TlsInv, CountTypes, NetInv, HeaderInv, BodyInv, WriteInv, Early, Reading,
       ProcSeesWholeRequest, AnswerDeserved, SuccessMeansSent, Announced,
       ContentHolds, HeaderReceived, Respond

LEMMA TlsInvStep == TlsInv /\ [Next]_vars => TlsInv'
BY OtherSteps, ReadSteps, HeaderStep, AllocateStep, BodyStep, WriteSteps,
   RespondStep
   DEF Next, Worker, Pre, Read

LEMMA TlsInvariant == Spec => []TlsInv
BY TlsInit, TlsInvStep, PTL DEF Spec

\* Bounds of the counters that the arithmetic does not need.
CountBounds == rd.hlen >= -1 /\ rd.crecvd >= 0

LEMMA BoundStep ==
  ASSUME TlsInv, CountBounds, [Next]_vars
  PROVE  CountBounds'
<1> USE DEF CountBounds
<1>1. CASE HeaderRecv
  <2>1. CountTypes /\ rd.bsize > 0 /\ net.record > 0
    BY <1>1 DEF HeaderRecv, TlsInv
  <2>2. Taken(rd.bsize) \in Nat /\ Taken(rd.bsize) <= rd.bsize
    BY <2>1, TakenBounds
  <2>3. /\ rd'.bsize = rd.bsize - Taken(rd.bsize) /\ rd'.crecvd = rd.crecvd
        /\ rd'.hlen = HeaderReceived(rd.total + Taken(rd.bsize))
    BY <1>1, <2>1 DEF HeaderRecv, CountTypes
  <2> QED
    BY <2>1, <2>2, <2>3, Counters DEF HeaderReceived
<1>2. CASE CheckAllocates
  <2>1. CountTypes /\ HeaderInv /\ pc = "check" /\ rd.hlen >= 0
    BY <1>2 DEF CheckAllocates, TlsInv
  <2>2. rd'.bsize = ReadSize /\ rd'.crecvd = Excess /\ rd'.hlen = rd.hlen
    BY <1>2, <2>1 DEF CheckAllocates, CountTypes
  <2> QED
    BY <2>1, <2>2, Counters, Sizes DEF HeaderInv, HeaderReceived, Excess
<1>3. CASE BodyRecv
  <2>1. CountTypes /\ BodyInv /\ pc = "body" /\ rd.bsize > 0 /\ net.record > 0
    BY <1>3 DEF BodyRecv, TlsInv, BodyInv
  <2>2. Taken(rd.bsize) \in Nat /\ Taken(rd.bsize) <= rd.bsize
    BY <2>1, TakenBounds
  <2>3. rd'.crecvd = rd.crecvd + Taken(rd.bsize) /\ rd'.hlen = rd.hlen
    BY <1>3, <2>1 DEF BodyRecv, CountTypes
  <2> QED
    BY <2>1, <2>2, <2>3, Counters
<1> QED
  BY <1>1, <1>2, <1>3
     DEF Next, vars, Create, GlobalInitFails, CredentialsFail, CreateGnutls,
         FreeGnutls, Accept, SendRecord, HangUp, Worker, Pre, PreFails,
         SessionFails, SessionStarts, HandshakeFails, HandshakeEnds,
         ZhttpFails, ZhttpAllocated, Read, HeaderFull, HeaderZero, ReadError,
         CheckLeaves, BodyZero, Respond, WriteOut, MessageSend, MessageFails,
         StartFile, FileSend, FileEnd, FileFails, Return, Continue, PostGnutls

\* What does not count.
OtherTypes ==
  /\ srv \in {"start", "serving", "failed", "stopped"}
  /\ cert \in [Hosts -> CertKinds]
  /\ glob \subseteq {"global", "bob", "creds"}
  /\ pc \in Waits \cup {"idle", "pre", "alloc", "check", "proc", "done", "lost",
            "crash"}
  /\ mem \subseteq {"g", "session", "req", "res"}
  /\ peer \in {"open", "closed", "reset"}
  /\ rq \in Requests \cup {NoRequest} /\ rs \in Responses \cup {NoResponse}

LEMMA TypeStep == OtherTypes /\ [Next]_vars => OtherTypes'
<1> SUFFICES ASSUME OtherTypes, [Next]_vars PROVE OtherTypes'
  OBVIOUS
<1> USE DEF OtherTypes, srvVars
<1>1. CASE Create \/ FreeGnutls \/ UNCHANGED vars
  BY <1>1 DEF Create, GlobalInitFails, CredentialsFail, CreateGnutls, FreeGnutls, vars
<1>2. CASE Accept \/ SendRecord \/ HangUp
  BY <1>2 DEF Accept, SendRecord, HangUp
<1>3. CASE Pre
  BY <1>3 DEF Pre, PreFails, SessionFails, SessionStarts, HandshakeFails,
              HandshakeEnds, ZhttpFails, ZhttpAllocated, Waits
<1>4. CASE HeaderRecv \/ HeaderZero
  BY <1>4 DEF HeaderRecv, HeaderZero, Waits
<1>5. CASE \/ HeaderFull \/ ReadError \/ CheckLeaves \/ CheckAllocates
           \/ BodyRecv \/ BodyZero
  <2>1. /\ UNCHANGED <<srvVars, mem, peer, rq>>
        /\ \/ rs' = rs /\ pc' \in {"body", "crash"}
           \/ Proceed \/ Drop \/ \E answer : Refuse(answer)
    BY <1>5 DEF HeaderFull, ReadError, CheckLeaves, CheckAllocates, BodyRecv,
                BodyZero, BodyLoop, ParseContent
  <2>2. /\ pc' \in {"body", "crash", "proc", "bye", "write"}
        /\ rs' = rs \/ rs' \in Responses
    BY <2>1, ProceedDoes, DropDoes, RefuseDoes
  <2> QED
    BY <2>1, <2>2 DEF Waits
<1>6. CASE Respond \/ WriteOut
  BY <1>6 DEF Respond, WriteOut, MessageSend, MessageFails, StartFile, FileSend,
              FileEnd, FileFails, Return, Continue, Waits
<1>7. CASE PostGnutls
  BY <1>7 DEF PostGnutls, Destroyed
<1> QED
  BY <1>1, <1>2, <1>3, <1>4, <1>5, <1>6, <1>7 DEF Next, Worker, Read

\* Zenon, for what is Boolean.
LEMMA ReadyStep ==
  tlsready \in [Hosts -> BOOLEAN] /\ [Next]_vars => tlsready' \in [Hosts -> BOOLEAN]
<1> SUFFICES ASSUME tlsready \in [Hosts -> BOOLEAN], [Next]_vars
             PROVE  tlsready' \in [Hosts -> BOOLEAN]
  OBVIOUS
<1>1. \A S : [h \in Hosts |-> h \in S] \in [Hosts -> BOOLEAN]
  BY SMT
<1>2. CreateGnutls => \E S : tlsready' = [h \in Hosts |-> h \in S]
  BY Zenon DEF CreateGnutls
<1>3. CreateGnutls \/ tlsready' = tlsready
  BY Zenon
     DEF Next, vars, srvVars, Create, GlobalInitFails, CredentialsFail,
         FreeGnutls, Accept, SendRecord, HangUp, Worker, Pre, PreFails,
         SessionFails, SessionStarts, HandshakeFails, HandshakeEnds,
         ZhttpFails, ZhttpAllocated, Read, HeaderRecv, HeaderFull, HeaderZero,
         ReadError, CheckLeaves, CheckAllocates, BodyRecv, BodyZero, Respond,
         WriteOut, MessageSend, MessageFails, StartFile, FileSend, FileEnd,
         FileFails, Return, Continue, PostGnutls
<1>4. CASE CreateGnutls
  <2>1. PICK S : tlsready' = [h \in Hosts |-> h \in S]
    BY <1>2, <1>4, Zenon
  <2>2. [h \in Hosts |-> h \in S] \in [Hosts -> BOOLEAN]
    BY <1>1, Zenon
  <2> QED
    BY <2>1, <2>2, Zenon
<1> QED
  BY <1>3, <1>4, Zenon

\* The type invariant of a connection and of the server behind it.
THEOREM TlsTypes == Spec => []TypeOK
<1> DEFINE I == /\ TlsInv /\ CountBounds /\ OtherTypes
                /\ tlsready \in [Hosts -> BOOLEAN]
<1>1. Init => I
  <2>1. Init => TlsInv
    BY TlsInit
  <2>2. Init => CountBounds /\ OtherTypes
    BY Sizes DEF Init, CountBounds, OtherTypes, Waits
  <2>3. Init => tlsready \in [Hosts -> BOOLEAN]
    BY Zenon DEF Init
  <2> QED
    BY <2>1, <2>2, <2>3, Zenon
<1>2. I /\ [Next]_vars => I'
  <2>1. TlsInv /\ [Next]_vars => TlsInv'
    BY TlsInvStep
  <2> QED
    BY <2>1, BoundStep, TypeStep, ReadyStep, Zenon
<1>3. I => TypeOK
  <2>1. TlsInv /\ CountBounds => rd \in [total : Nat, hlen : Nat \cup {-1}, bsize : Int, crecvd : Nat]
    BY DEF TlsInv, CountTypes, CountBounds
  <2> QED
    BY <2>1, Zenon DEF TypeOK, TlsInv, CountTypes, OtherTypes
<1> HIDE DEF I
<1> QED
  BY <1>1, <1>2, <1>3, PTL DEF Spec

\* create_gnutls, and what a connection holds.
LEMMA HostStep == EveryHostReady /\ [Next]_vars => EveryHostReady'
BY DEF EveryHostReady, Next, vars, srvVars, Create, GlobalInitFails,
       CredentialsFail, CreateGnutls, ProcessCerts, Loaded, FreeGnutls, Accept,
       SendRecord, HangUp, Worker, Pre, PreFails, SessionFails, SessionStarts,
       HandshakeFails, HandshakeEnds, ZhttpFails, ZhttpAllocated, Read,
       HeaderRecv, HeaderFull, HeaderZero, ReadError, CheckLeaves,
       CheckAllocates, BodyRecv, BodyZero, Respond, WriteOut, MessageSend,
       MessageFails, StartFile, FileSend, FileEnd, FileFails, Return, Continue,
       PostGnutls

\* Every host the server answers for has its certificate: process_certs
\* gives up at the first that has none, and create_gnutls with it.
THEOREM CertificatesForAll == Spec => []EveryHostReady
<1>1. Init => EveryHostReady
  BY DEF Init, EveryHostReady
<1> QED
  BY <1>1, HostStep, PTL DEF Spec

LEMMA MemStep == MemInv /\ [Next]_vars => MemInv'
<1> SUFFICES ASSUME MemInv, [Next]_vars PROVE MemInv'
  OBVIOUS
<1> USE DEF MemInv, ReleasedAfterPost
<1>1. CASE Create \/ FreeGnutls \/ UNCHANGED vars
  BY <1>1 DEF Create, GlobalInitFails, CredentialsFail, CreateGnutls, FreeGnutls, vars
<1>2. CASE Accept \/ SendRecord \/ HangUp
  BY <1>2 DEF Accept, SendRecord, HangUp
<1>3. CASE Pre
  BY <1>3 DEF Pre, PreFails, SessionFails, SessionStarts, HandshakeFails,
              HandshakeEnds, ZhttpFails, ZhttpAllocated
<1>4. CASE HeaderRecv \/ HeaderZero
  BY <1>4 DEF HeaderRecv, HeaderZero
<1>5. CASE \/ HeaderFull \/ ReadError \/ CheckLeaves \/ CheckAllocates
           \/ BodyRecv \/ BodyZero
  <2>1. /\ pc \in {"header", "check", "body"} /\ mem' = mem
        /\ \/ pc' \in {"body", "crash"}
           \/ Proceed \/ Drop \/ \E answer : Refuse(answer)
    BY <1>5 DEF HeaderFull, ReadError, CheckLeaves, CheckAllocates, BodyRecv,
                BodyZero, BodyLoop, ParseContent
  <2>2. pc' \in {"body", "crash", "proc", "bye", "write"}
    BY <2>1, ProceedDoes, DropDoes, RefuseDoes
  <2> QED
    BY <2>1, <2>2
<1>6. CASE Respond \/ WriteOut
  BY <1>6 DEF Respond, WriteOut, MessageSend, MessageFails, StartFile, FileSend,
              FileEnd, FileFails, Return, Continue
<1>7. CASE PostGnutls
  BY <1>7 DEF PostGnutls, Destroyed
<1> QED
  BY <1>1, <1>2, <1>3, <1>4, <1>5, <1>6, <1>7 DEF Next, Worker, Read

\* A connection that reaches post_gnutls holds everything until then, and
\* nothing after it.
THEOREM ConnectionsAreReleased == Spec => []ReleasedAfterPost
<1>1. Init => MemInv
  BY DEF Init, MemInv, ReleasedAfterPost
<1>2. MemInv => ReleasedAfterPost
  BY DEF MemInv
<1> QED
  BY <1>1, <1>2, MemStep, PTL DEF Spec

\* srv_proc runs on whole requests, or on what a client left behind that
\* closed its side half way through the content; and only clients that send
\* more than their Content-Length overrun the content buffer.
THEOREM TlsWholeRequestsOnly == Spec => []ProcSeesWholeRequest
<1>1. TlsInv => ProcSeesWholeRequest
  BY DEF TlsInv
<1> QED
  BY <1>1, TlsInvariant, PTL

\* Only headers that are not whole in one record, or too large, are called
\* too large; only resets and records beyond the preamble are dropped.
THEOREM TlsRefusalsAreDeserved == Spec => []AnswerDeserved
<1>1. TlsInv => AnswerDeserved
  BY DEF TlsInv
<1> QED
  BY <1>1, TlsInvariant, PTL

\* write_gnutls returns 1 for what was sent in full, unless the file
\* behind it changed.
THEOREM TlsWriteTellsTheTruth == Spec => []SuccessMeansSent
<1>1. TlsInv => SuccessMeansSent
  BY DEF TlsInv
<1> QED
  BY <1>1, TlsInvariant, PTL
=============================================================================
