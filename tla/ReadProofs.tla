----------------------------- MODULE ReadProofs -----------------------------
(***************************************************************************)
(* Theorems about module ReadRequest, for every size of the preamble, the  *)
(* pieces and the limits, and for requests of every length.                *)
(***************************************************************************)
EXTENDS ReadRequest, TLAPS

\* The lengths of a request, and what of it is on its way.
RequestInv ==
  /\ rq.hlen \in Nat \ {0} /\ rq.clen \in Nat
  /\ total \in Nat /\ arrived \in Nat
  /\ total <= arrived /\ arrived <= Announced(rq) + MaxSurplus
  /\ bsize \in Int /\ nsize \in Nat /\ crecvd \in Nat
  /\ rpc \in {"header", "check", "body", "done", "crash"}

\* The preamble holds what was received, and hlen says whether the header is
\* among it.  The loop goes on for a header, or for a full preamble; it is
\* left without a header only for a full preamble or a client that shut down.
HeaderInv ==
  rpc \in {"header", "check"} =>
    /\ bsize = PreambleSize - total /\ nsize = 0 /\ crecvd = 0
    /\ hlen = IF total >= rq.hlen + Bhsize THEN rq.hlen ELSE -1
    /\ rpc = "header" => hlen < 0 \/ bsize = 0
    /\ rpc = "check" => hlen >= 0 \/ bsize = 0 \/ peer = "shut"

\* In the body loop the content has room and is not complete.
BodyInv ==
  rpc = "body" =>
    /\ rq.idempotent /\ rq.clen <= ReadMax
    /\ rq.hlen + Bhsize <= PreambleSize
    /\ hlen = rq.hlen /\ bsize > 0 /\ bsize <= ReadSize
    /\ nsize = rq.clen /\ crecvd = total - (rq.hlen + Bhsize)
    /\ crecvd < rq.clen

\* Before read_notls returns it has decided nothing; nor where the process ended.
Undecided ==
  rpc # "done" => stage = "INIT" /\ answer = "none" /\ ~parsed

ReadInv ==
  /\ RequestInv /\ HeaderInv /\ BodyInv /\ Undecided
  /\ BuffersHold /\ ProcSeesWholeRequest /\ AnswerDeserved

LEMMA Sizes ==
  /\ PreambleSize \in Nat \ {0} /\ ReadSize \in Nat \ {0} /\ Bhsize \in Nat \ {0}
  /\ ReadMax \in Nat /\ MaxSurplus \in Nat
BY SizesAssumption

\* recv() never returns more than was asked for, nor more than is there.
LEMMA MinBounds ==
  ASSUME NEW a \in Int, NEW b \in Int
  PROVE  Min({a, b}) \in Int /\ Min({a, b}) <= a /\ Min({a, b}) <= b
<1>1. \E x \in {a, b} : \A y \in {a, b} : x <= y
  OBVIOUS
<1>2. Min({a, b}) \in {a, b} /\ \A y \in {a, b} : Min({a, b}) <= y
  BY <1>1 DEF Min
<1> QED
  BY <1>2

LEMMA ReceivedBounds ==
  ASSUME RequestInv, NEW n, Received(n)
  PROVE  n \in Nat /\ n >= 1 /\ n <= bsize /\ total + n <= arrived /\ peer # "reset"
<1>1. bsize \in Int /\ Pending \in Int
  BY DEF RequestInv, Pending
<1>2. /\ Min({bsize, Pending}) \in Int
      /\ Min({bsize, Pending}) <= bsize /\ Min({bsize, Pending}) <= Pending
  BY <1>1, MinBounds
<1> QED
  BY <1>1, <1>2 DEF Received, Pending, RequestInv

LEMMA ReadInit == Init => ReadInv
<1> SUFFICES ASSUME Init PROVE ReadInv
  OBVIOUS
<1>1. rq.hlen \in Nat \ {0} /\ rq.clen \in Nat
  BY SizesAssumption DEF Init, Requests
<1>2. RequestInv
  BY <1>1, Sizes DEF Init, RequestInv, Announced
<1> QED
  BY <1>2, Sizes
     DEF Init, ReadInv, RequestInv, HeaderInv, BodyInv, Undecided, BuffersHold,
         ProcSeesWholeRequest, AnswerDeserved

LEMMA ReadStep == ReadInv /\ [Next]_vars => ReadInv'
<1> SUFFICES ASSUME ReadInv, [Next]_vars PROVE ReadInv'
  OBVIOUS
<1> USE Sizes
        DEF ReadInv, RequestInv, HeaderInv, BodyInv, Undecided, Announced,
            BuffersHold, ProcSeesWholeRequest, AnswerDeserved,
            netVars, countVars, outVars, Pending
<1>1. CASE Deliver BY <1>1 DEF Deliver
<1>2. CASE HangUp BY <1>2 DEF HangUp
<1>3. CASE Tick BY <1>3 DEF Tick
<1>4. CASE HeaderRecv
  <2>1. PICK n : Received(n) /\ total' = total + n /\ bsize' = bsize - n
    BY <1>4 DEF HeaderRecv
  <2>2. n \in Nat /\ n >= 1 /\ n <= bsize /\ total + n <= arrived
    BY <2>1, ReceivedBounds
  <2> QED
    BY <1>4, <2>1, <2>2 DEF HeaderRecv
<1>5. CASE HeaderZero BY <1>5 DEF HeaderZero, RecvZero
<1>6. CASE ReadError BY <1>6 DEF ReadError, RecvError, Done
<1>7. CASE ReadTimeout BY <1>7 DEF ReadTimeout, RecvAgain, Refuse
<1>8. CASE CheckHeader BY <1>8 DEF CheckHeader, NeedsContent, Refuse, Done
<1>9. CASE CheckWhole
  BY <1>9 DEF CheckWhole, NeedsContent, Whole, ParseContent, Refuse
<1>10. CASE CheckMax BY <1>10 DEF CheckMax, NeedsContent, Whole, Refuse
<1>11. CASE Allocate BY <1>11 DEF Allocate, NeedsContent, Whole, Refuse,
                                      BodyLoop, Overrun, ParseContent
<1>12. CASE BodyRecv
  <2>1. PICK n : Received(n) /\ total' = total + n /\ crecvd' = crecvd + n
    BY <1>12 DEF BodyRecv
  <2>2. n \in Nat /\ n >= 1 /\ n <= bsize /\ total + n <= arrived
    BY <2>1, ReceivedBounds
  <2>3. /\ n \in Nat /\ n <= ReadSize
        /\ total' = total + n /\ crecvd' = crecvd + n
        /\ crecvd' < rq.clen => bsize' > 0 /\ bsize' <= ReadSize
        /\ UNCHANGED <<rq, arrived, peer, hlen, nsize>>
        /\ crecvd' - nsize < ReadSize
    BY <1>12, <2>1, <2>2 DEF BodyRecv
  <2>4. BodyLoop \/ Overrun
    BY <1>12 DEF BodyRecv
  <2>5. bsize' \in Int
    BY <1>12, <2>1, <2>2 DEF BodyRecv
  <2> QED
    BY <1>12, <2>2, <2>3, <2>4, <2>5 DEF BodyRecv, BodyLoop, Overrun, ParseContent, Refuse
<1>13. CASE BodyZero BY <1>13 DEF BodyZero, RecvZero, Done
<1>14. CASE UNCHANGED vars BY <1>14 DEF vars
<1> QED
  BY <1>1, <1>2, <1>3, <1>4, <1>5, <1>6, <1>7, <1>8, <1>9, <1>10, <1>11,
     <1>12, <1>13, <1>14 DEF Next, Reader

LEMMA ReadInvariant == Spec => []ReadInv
  BY ReadInit, ReadStep, PTL DEF Spec

\* What the arithmetic above does not say about types.
OtherTypes ==
  /\ rq \in Requests /\ peer \in {"open", "shut", "reset"}
  /\ elapsed \in 0 .. RTimeout /\ hlen \in Nat \cup {-1}
  /\ stage \in {"INIT", "PROC", "WRITE", "POST"}
  /\ answer \in Errors \cup {"none"}

LEMMA TypeStep ==
  ASSUME OtherTypes, parsed \in BOOLEAN, [Next]_vars
  PROVE  OtherTypes' /\ parsed' \in BOOLEAN
<1>1. rq.hlen \in Nat \ {0}
  BY SizesAssumption DEF OtherTypes, Requests
<1>2. OtherTypes'
  BY <1>1, SizesAssumption
     DEF OtherTypes, Errors, Next, vars, netVars, countVars, outVars, Deliver,
         HangUp, Tick, Reader, HeaderRecv, HeaderZero, ReadError, ReadTimeout,
         CheckHeader, CheckWhole, CheckMax, Allocate, BodyRecv, BodyZero, Done,
         Refuse, ParseContent, BodyLoop, Overrun
<1>3. parsed' \in BOOLEAN
  BY Zenon
     DEF Next, vars, outVars, Deliver, HangUp, Tick, Reader, HeaderRecv,
         HeaderZero, ReadError, ReadTimeout, CheckHeader, CheckWhole, CheckMax,
         Allocate, BodyRecv, BodyZero, Done, Refuse, ParseContent, BodyLoop, Overrun
<1> QED
  BY <1>2, <1>3

\* The type invariant of the reader.
THEOREM ReadTypes == Spec => []TypeOK
<1>1. Init => OtherTypes /\ parsed \in BOOLEAN
  <2>1. Init => parsed \in BOOLEAN
    BY Zenon DEF Init
  <2>2. Init => OtherTypes
    BY SizesAssumption DEF Init, OtherTypes
  <2> QED
    BY <2>1, <2>2
<1>2. OtherTypes /\ parsed \in BOOLEAN /\ [Next]_vars
        => (OtherTypes /\ parsed \in BOOLEAN)'
  BY TypeStep
<1>3. ReadInv /\ OtherTypes /\ parsed \in BOOLEAN => TypeOK
  BY DEF ReadInv, RequestInv, OtherTypes, TypeOK
<1> QED
  BY <1>1, <1>2, <1>3, ReadInvariant, PTL DEF Spec

\* However the client splits what it sends, and however much that is,
\* read_notls never writes past the preamble; and past the content buffer only
\* for a client that sends more than its Content-Length.
THEOREM ReadStaysInBuffers == Spec => []BuffersHold
<1>1. ReadInv => BuffersHold
  BY DEF ReadInv
<1> QED
  BY <1>1, ReadInvariant, PTL

\* srv_proc never sees part of a request for the whole, nor one over the
\* limits.
THEOREM WholeRequestsOnly == Spec => []ProcSeesWholeRequest
<1>1. ReadInv => ProcSeesWholeRequest
  BY DEF ReadInv
<1> QED
  BY <1>1, ReadInvariant, PTL

\* read_notls drops a client without an answer only after an error of the
\* socket, and refuses it only for the reason it gives.
THEOREM RefusalsAreDeserved == Spec => []AnswerDeserved
<1>1. ReadInv => AnswerDeserved
  BY DEF ReadInv
<1> QED
  BY <1>1, ReadInvariant, PTL
=============================================================================
