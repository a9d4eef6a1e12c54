---------------------------- MODULE WriteProofs ----------------------------
(***************************************************************************)
(* Theorems about module WriteResponse, for every size of the socket, the  *)
(* pieces, the messages and the files.                                     *)
(***************************************************************************)
EXTENDS WriteResponse, TLAPS

\* The response, its file and the counters.
LengthsInv ==
  /\ rs.mlen \in Nat /\ rs.clen \in Nat
  /\ flen \in FileLens /\ flen \in Nat /\ space \in 0 .. SocketSpace
  /\ elapsed \in 0 .. WTimeout + 1
  /\ total \in Int /\ pos \in Nat /\ foff \in Nat
  /\ wpc \in {"message", "file", "done"}
  /\ ret \in {-1, 0, 1}

\* While the message leaves, what is left of it and what was sent are all of
\* it.
MessageInv ==
  wpc = "message" => total >= 0 /\ pos = rs.mlen - total /\ foff = 0 /\ ret = -1

\* While the file leaves, total and the offset are all of what was
\* announced; the loop ends where total is 0.
FileInv ==
  wpc = "file" =>
    /\ rs.sendfile /\ pos = rs.mlen + foff /\ total = rs.clen - foff
    /\ total # 0 /\ ret = -1

\* The offset never passes the end of a file that has not grown.
OffsetInv ==
  /\ ~resized => flen = rs.clen /\ total >= 0
  /\ flen <= rs.clen => foff <= rs.clen
  /\ total >= 0 \/ total >= -flen
  /\ foff <= flen \/ foff <= rs.clen

WriteInv ==
  /\ LengthsInv /\ MessageInv /\ FileInv /\ OffsetInv
  /\ OutcomeIsTrue /\ WithinContentLength

LEMMA Sizes ==
  /\ WriteSize \in Nat \ {0} /\ WTimeout \in Nat \ {0} /\ SocketSpace \in Nat \ {0}
BY WriteAssumption

LEMMA FileLengths == \A n \in FileLens : n \in Nat
  BY WriteAssumption

\* send() takes no more than is left, nor than the socket can hold.
LEMMA MinTwo ==
  ASSUME NEW a \in Int, NEW b \in Int, NEW n \in 1 .. Min({a, b})
  PROVE  n \in Nat /\ n >= 1 /\ n <= a /\ n <= b
<1>1. \E x \in {a, b} : \A y \in {a, b} : x <= y
  OBVIOUS
<1>2. Min({a, b}) \in {a, b} /\ \A y \in {a, b} : Min({a, b}) <= y
  BY <1>1 DEF Min
<1> QED
  BY <1>2

LEMMA MinThree ==
  ASSUME NEW a \in Int, NEW b \in Int, NEW c \in Int, NEW n \in 1 .. Min({a, b, c})
  PROVE  n \in Nat /\ n >= 1 /\ n <= a /\ n <= b /\ n <= c
<1>1. \E x \in {a, b, c} : \A y \in {a, b, c} : x <= y
  OBVIOUS
<1>2. /\ Min({a, b, c}) \in {a, b, c}
      /\ \A y \in {a, b, c} : Min({a, b, c}) <= y
  BY <1>1 DEF Min
<1> QED
  BY <1>2

LEMMA WriteInit == Init => WriteInv
<1> SUFFICES ASSUME Init PROVE WriteInv
  OBVIOUS
<1>1. rs.mlen \in Nat /\ rs.clen \in Nat /\ flen \in FileLens /\ flen = rs.clen
  BY WriteAssumption DEF Init, Responses
<1> QED
  BY <1>1, Sizes
     DEF Init, WriteInv, LengthsInv, MessageInv, FileInv, OffsetInv,
         OutcomeIsTrue, WithinContentLength

LEMMA WriteStep == WriteInv /\ [Next]_vars => WriteInv'
<1> SUFFICES ASSUME WriteInv, [Next]_vars PROVE WriteInv'
  OBVIOUS
<1> USE Sizes
        DEF WriteInv, LengthsInv, MessageInv, FileInv, OffsetInv,
            OutcomeIsTrue, WithinContentLength, envVars, Return
<1>1. CASE Drain BY <1>1 DEF Drain
<1>2. CASE Reset BY <1>2 DEF Reset
<1>3. CASE Resize
  <2>1. flen' \in FileLens /\ flen' \in Nat
    BY <1>3, FileLengths DEF Resize
  <2>2. LengthsInv' /\ MessageInv' /\ FileInv'
    BY <1>3, <2>1 DEF Resize
  <2>3. OffsetInv'
    BY <1>3, <2>1 DEF Resize
  <2>4. OutcomeIsTrue'
    BY <1>3 DEF Resize
  <2>5. WithinContentLength'
    BY <1>3, <2>1 DEF Resize
  <2> QED
    BY <2>2, <2>3, <2>4, <2>5
<1>4. CASE Tick BY <1>4 DEF Tick
<1>5. CASE MessageSend
  <2>1. PICK n \in 1 .. Min({total, space}) :
          total' = total - n /\ pos' = pos + n /\ space' = space - n
    BY <1>5 DEF MessageSend
  <2>2. n \in Nat /\ n >= 1 /\ n <= total /\ n <= space
    BY <2>1, MinTwo
  <2> QED
    BY <1>5, <2>1, <2>2 DEF MessageSend
<1>6. CASE MessageEmpty BY <1>6 DEF MessageEmpty
<1>7. CASE StartFile BY <1>7 DEF StartFile
<1>8. CASE WriteError BY <1>8 DEF WriteError
<1>9. CASE MessageTimeout BY <1>9 DEF MessageTimeout
<1>10. CASE FileSend
  <2>1. PICK n \in 1 .. Min({WriteSize, flen - foff, space}) :
          /\ total' = total - n /\ pos' = pos + n
          /\ foff' = foff + n /\ space' = space - n
    BY <1>10 DEF FileSend
  <2>2. n \in Nat /\ n >= 1 /\ n <= flen - foff /\ n <= space
    BY <2>1, MinThree
  <2> QED
    BY <1>10, <2>1, <2>2 DEF FileSend
<1>11. CASE FileEnd BY <1>11 DEF FileEnd
<1>12. CASE UNCHANGED vars BY <1>12 DEF vars
<1> QED
  BY <1>1, <1>2, <1>3, <1>4, <1>5, <1>6, <1>7, <1>8, <1>9, <1>10, <1>11, <1>12
     DEF Next, Writer

LEMMA WriteInvariant == Spec => []WriteInv
  BY WriteInit, WriteStep, PTL DEF Spec

\* What the arithmetic above does not say about types.
OtherTypes == rs \in Responses /\ peer \in {"open", "reset"}

LEMMA TypeStep ==
  ASSUME OtherTypes, resized \in BOOLEAN, [Next]_vars
  PROVE  OtherTypes' /\ resized' \in BOOLEAN
BY Zenon
   DEF OtherTypes, Next, vars, envVars, Drain, Reset, Resize, Tick, Writer,
       MessageSend, MessageEmpty, StartFile, WriteError, MessageTimeout,
       FileSend, FileEnd

\* The type invariant of the writer: what is left of a file falls below 0
\* only by what the file has grown.
THEOREM WriteTypes == Spec => []TypeOK
<1>1. Init => OtherTypes /\ resized \in BOOLEAN
  BY Zenon DEF Init, OtherTypes
<1>2. OtherTypes /\ resized \in BOOLEAN /\ [Next]_vars
        => (OtherTypes /\ resized \in BOOLEAN)'
  BY TypeStep
<1>3. WriteInv /\ OtherTypes /\ resized \in BOOLEAN => TypeOK
  <2> SUFFICES ASSUME WriteInv, OtherTypes, resized \in BOOLEAN PROVE TypeOK
    OBVIOUS
  <2>1. \E n \in FileLens : total >= -n
    BY DEF WriteInv, LengthsInv, OffsetInv
  <2> QED
    BY <2>1 DEF WriteInv, LengthsInv, OtherTypes, TypeOK
<1> QED
  BY <1>1, <1>2, <1>3, WriteInvariant, PTL DEF Spec

\* write_notls reports success only for a response that left whole, and
\* gives up only on a client that reset the connection or was too slow.
THEOREM WriteTellsTheTruth == Spec => []OutcomeIsTrue
<1>1. WriteInv => OutcomeIsTrue
  BY DEF WriteInv
<1> QED
  BY <1>1, WriteInvariant, PTL

\* No client gets more than the Content-Length it was told, unless the file
\* has grown.
THEOREM NeverMoreThanAnnounced == Spec => []WithinContentLength
<1>1. WriteInv => WithinContentLength
  BY DEF WriteInv
<1> QED
  BY <1>1, WriteInvariant, PTL
=============================================================================
