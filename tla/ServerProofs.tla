---------------------------- MODULE ServerProofs ----------------------------
(***************************************************************************)
(* Theorems about module SrvResponse, for any number of workers and hosts; *)
(* the ones about directories are about the single-threaded server.        *)
(***************************************************************************)
EXTENDS SrvResponse, FiniteSetTheorems, TLAPS

ProcPoints == {"stat", "build", "replace", "assign", "access", "filter"}

\* What the steps of srv_response have left in a conn_t by then.
StageInv ==
  /\ \A w \in Workers : pc[w] \in {"idle", "pre"} => owned[w] = 0
  /\ \A w \in Workers : pc[w] \in ProcPoints =>
       /\ stage[w] = "WRITE" /\ host[w] \in Hosts
       /\ conf[host[w]].filter = "supported"
  /\ \A w \in Workers : pc[w] = "write" => stage[w] = "WRITE" /\ answer[w] # 0
  /\ leaked <= failures

\* Nothing is written before the answer is, which ends in post.
SentInv ==
  \A w \in Workers :
    /\ pc[w] \notin {"idle", "post"} => sent[w] = 0
    /\ pc[w] = "post" => sent[w] = IF answer[w] = 0 THEN 0 ELSE 1

\* A relative directory is used only after it has been replaced, and never
\* goes back to what was configured.
DirInv ==
  /\ \A w \in Workers : pc[w] \in ProcPoints /\ adir[w] # 0 => dir[host[w]] # 0
  /\ \A w \in Workers : pc[w] \in {"replace", "assign"} =>
       conf[host[w]].dir = "relative"
  /\ \A w \in Workers : pc[w] = "access" =>
       adir[w] # 0 \/ conf[host[w]].dir \in {"absolute", "readonly"}
  /\ \A w \in Workers : pc[w] \in ProcPoints \cup {"pre", "read", "host"} =>
       answer[w] = 0
  /\ \A h \in Hosts : dir[h] # 0 => conf[h].dir = "relative"

\* Everything of TypeOK but the Boolean parts, and `leaked'.
DataTypes ==
  /\ conf \in [Hosts -> Confs]
  /\ dir \in [Hosts -> Strings]
  /\ pc \in [Workers -> Points]
  /\ host \in [Workers -> Hosts \cup {"none", "unknown"}]
  /\ adir \in [Workers -> Strings]
  /\ stage \in [Workers -> {"DORMANT", "INIT", "PROC", "WRITE", "POST"}]
  /\ answer \in [Workers -> {0, 200, 400, 404, 408, 500}]
  /\ sent \in [Workers -> 0 .. 1]
  /\ owned \in [Workers -> 0 .. 2] /\ leaked \in Nat
  /\ failures \in 0 .. MaxPreFailures

ServerInv == DataTypes /\ StageInv /\ SentInv /\ DirInv /\ AnswerMatchesHost

LEMMA StringsHaveFirst == 0 \in Strings /\ Strings \subseteq Nat
<1>1. Cardinality(Workers) \in Nat
  BY ServerAssumption, FS_CardinalityType
<1> QED
  BY <1>1 DEF Strings

LEMMA NotRefused ==
  ASSUME NEW w \in Workers, DataTypes, Refusal(w) = 0
  PROVE  host[w] \in Hosts /\ conf[host[w]].filter = "supported"
BY DEF Refusal, DataTypes

LEMMA RefusalStatus ==
  ASSUME NEW w \in Workers PROVE Refusal(w) \in {0, 400, 404, 500}
BY DEF Refusal

LEMMA ServerInit == Init => ServerInv
BY StringsHaveFirst, ServerAssumption
   DEF Init, ServerInv, DataTypes, StageInv, SentInv, DirInv, AnswerMatchesHost,
       Points, ProcPoints, Confs

LEMMA ServerStep == ServerInv /\ [Next]_vars => ServerInv'
<1> SUFFICES ASSUME ServerInv, [Next]_vars PROVE ServerInv'
  OBVIOUS
<1> USE DEF ServerInv, DataTypes, StageInv, SentInv, DirInv, AnswerMatchesHost,
            Points, ProcPoints, confVars, connVars, memVars, Go, SetStage, SetError
<1>1. ASSUME NEW w \in Workers, Begin(w) PROVE ServerInv'
  BY <1>1 DEF Begin
<1>2. ASSUME NEW w \in Workers, Pre(w) PROVE ServerInv'
  BY <1>2 DEF Pre
<1>3. ASSUME NEW w \in Workers, PreFails(w) PROVE ServerInv'
  BY <1>3, ServerAssumption DEF PreFails
<1>4. ASSUME NEW w \in Workers, ReadOk(w) PROVE ServerInv'
  BY <1>4 DEF ReadOk
<1>5. ASSUME NEW w \in Workers, ReadRefused(w) PROVE ServerInv'
  BY <1>5 DEF ReadRefused
<1>6. ASSUME NEW w \in Workers, ReadFails(w) PROVE ServerInv'
  BY <1>6 DEF ReadFails
<1>7. ASSUME NEW w \in Workers, ProcRefuses(w) PROVE ServerInv'
  BY <1>7, RefusalStatus DEF ProcRefuses
<1>8. ASSUME NEW w \in Workers, ProcFindsHost(w) PROVE ServerInv'
  BY <1>8, NotRefused DEF ProcFindsHost
<1>9. ASSUME NEW w \in Workers, DirStat(w) PROVE ServerInv'
  BY <1>9 DEF DirStat, Found
<1>10. ASSUME NEW w \in Workers, DirBuild(w) PROVE ServerInv'
  BY <1>10 DEF DirBuild
<1>11. ASSUME NEW w \in Workers, DirFree(w) PROVE ServerInv'
  BY <1>11 DEF DirFree
<1>12. ASSUME NEW w \in Workers, DirAssign(w) PROVE ServerInv'
  BY <1>12, StringsHaveFirst DEF DirAssign
<1>13. ASSUME NEW w \in Workers, DirAccess(w) PROVE ServerInv'
  BY <1>13 DEF DirAccess
<1>14. ASSUME NEW w \in Workers, Filter(w) PROVE ServerInv'
  BY <1>14 DEF Filter
<1>15. ASSUME NEW w \in Workers, Write(w) PROVE ServerInv'
  BY <1>15 DEF Write
<1>16. ASSUME NEW w \in Workers, Post(w) PROVE ServerInv'
  BY <1>16 DEF Post
<1>17. CASE UNCHANGED vars
  BY <1>17 DEF vars
<1> QED
  BY <1>1, <1>2, <1>3, <1>4, <1>5, <1>6, <1>7, <1>8, <1>9, <1>10, <1>11,
     <1>12, <1>13, <1>14, <1>15, <1>16, <1>17
     DEF Next, Response, Proc, CheckDir

LEMMA ServerInvariant == Spec => []ServerInv
  BY ServerInit, ServerStep, PTL DEF Spec

\* A client is answered for its own host, and only a directory that exists
\* and can be read is handed to the filter, however many workers replace
\* directories.
THEOREM AnswersMatch == Spec => []AnswerMatchesHost
<1>1. ServerInv => AnswerMatchesHost
  BY DEF ServerInv
<1> QED
  BY <1>1, ServerInvariant, PTL

\* Whatever way a connection takes, a worker owns nothing after it; what is
\* lost was lost by a pre that failed.
THEOREM NothingIsLeft == Spec => []NothingLeftBehind
<1>1. ServerInv => NothingLeftBehind
  BY DEF ServerInv, StageInv, NothingLeftBehind
<1> QED
  BY <1>1, ServerInvariant, PTL

\* The type invariant of the request pipeline.
THEOREM ServerTypes == Spec => []TypeOK
<1> DEFINE Heap == heap \in [Hosts -> SUBSET Strings]
           Flag == undefined \in BOOLEAN
<1>1. Init => Heap
  BY StringsHaveFirst DEF Init
<1>2. Heap /\ [Next]_vars => Heap'
  BY DEF Next, Response, Proc, CheckDir, Begin, Pre, PreFails, ReadOk,
         ReadRefused, ReadFails, ProcRefuses, ProcFindsHost, DirStat, DirBuild,
         DirFree, DirAssign, DirAccess, Filter, Write, Post, confVars, vars
<1>3. Init => Flag
  BY Zenon DEF Init
<1>4. Flag /\ [Next]_vars => Flag'
  <2>1. [Next]_vars => undefined' = undefined \/ \E h, str : Use(h, str)
    BY DEF Next, Response, Proc, CheckDir, Begin, Pre, PreFails, ReadOk,
           ReadRefused, ReadFails, ProcRefuses, ProcFindsHost, DirStat, DirBuild,
           DirFree, DirAssign, DirAccess, Filter, Write, Post, vars
  <2>2. ASSUME NEW h, NEW str, Use(h, str) PROVE Flag'
    BY <2>2, Zenon DEF Use
  <2> QED
    BY <2>1, <2>2, Zenon
<1>5. ServerInv /\ Heap /\ Flag => TypeOK
  <2> SUFFICES ASSUME ServerInv, Heap, Flag PROVE TypeOK
    OBVIOUS
  <2>1. DataTypes
    BY DEF ServerInv
  <2> QED
    BY <2>1, Zenon DEF DataTypes, TypeOK
<1> QED
  BY <1>1, <1>2, <1>3, <1>4, <1>5, ServerInvariant, PTL DEF Spec

\* A connection is written to once if it has an answer, and otherwise never,
\* whatever other workers do: write_notls is called only with an answer and
\* nothing written, and what it leaves behind ends in post.
THEOREM OneResponse == Spec => WrittenOnce
<1> DEFINE Once == \A w \in Workers :
             /\ sent'[w] > sent[w] =>
                  /\ sent[w] = 0 /\ sent'[w] = 1
                  /\ stage[w] = "WRITE" /\ answer[w] # 0
             /\ sent'[w] < sent[w] => pc[w] = "idle"
             /\ pc[w] = "post" /\ pc'[w] # "post" =>
                  sent[w] = IF answer[w] = 0 THEN 0 ELSE 1
<1>1. ServerInv /\ [Next]_vars => [Once]_vars
  <2> SUFFICES ASSUME ServerInv, Next, NEW w \in Workers
               PROVE  /\ sent'[w] > sent[w] =>
                           /\ sent[w] = 0 /\ sent'[w] = 1
                           /\ stage[w] = "WRITE" /\ answer[w] # 0
                      /\ sent'[w] < sent[w] => pc[w] = "idle"
                      /\ pc[w] = "post" => sent[w] = IF answer[w] = 0 THEN 0 ELSE 1
    OBVIOUS
  <2> USE DEF ServerInv, DataTypes, StageInv, SentInv
  <2>1. PICK v \in Workers : Response(v)
    BY DEF Next
  <2>2. CASE Begin(v)
    BY <2>2 DEF Begin, Go
  <2>3. CASE Write(v)
    <3>1. /\ pc[v] = "write" /\ sent[v] = 0
          /\ sent' = [sent EXCEPT ![v] = sent[v] + 1]
      BY <2>3 DEF Write, Go
    <3>2. sent'[v] = 1 /\ \A u \in Workers : u # v => sent'[u] = sent[u]
      BY <3>1
    <3> QED
      BY <3>1, <3>2
  <2>4. CASE \/ Pre(v) \/ PreFails(v) \/ ReadOk(v) \/ ReadRefused(v)
             \/ ReadFails(v) \/ Proc(v) \/ Post(v)
    <3>1. sent' = sent
      BY <2>4
         DEF Pre, PreFails, ReadOk, ReadRefused, ReadFails, Proc, CheckDir,
             ProcRefuses, ProcFindsHost, DirStat, DirBuild, DirFree, DirAssign,
             DirAccess, Filter, Post, connVars
    <3> QED
      BY <3>1
  <2> QED
    BY <2>1, <2>2, <2>3, <2>4 DEF Response
<1> QED
  BY <1>1, ServerInvariant, PTL DEF Spec, WrittenOnce

-----------------------------------------------------------------------------
(* The single-threaded server.                                             *)

\* The string a host has is allocated but while it is being replaced, and
\* the worker uses that one.
StringInv(w) ==
  /\ \A h \in Hosts :
       heap[h] = IF pc[w] = "assign" /\ host[w] = h THEN {} ELSE {dir[h]}
  /\ pc[w] \in {"stat", "access"} => adir[w] = dir[host[w]]
  /\ heap \in [Hosts -> SUBSET Strings]

LEMMA StringStep ==
  ASSUME NEW w \in Workers, Workers = {w}, ServerInv, StringInv(w), [Next]_vars
  PROVE  StringInv(w)'
<1>0. Response(w) \/ UNCHANGED vars
  BY DEF Next
<1> USE DEF ServerInv, DataTypes, StageInv, StringInv, Points, ProcPoints,
            confVars, connVars, memVars, Go, SetStage, SetError
<1>1. CASE Begin(w) \/ Pre(w) \/ PreFails(w)
  <2>1. /\ heap' = heap /\ dir' = dir
        /\ pc[w] \in {"idle", "pre"} /\ pc'[w] \in {"pre", "read", "idle"}
    BY <1>1 DEF Begin, Pre, PreFails
  <2> QED
    BY <2>1
<1>2. CASE ReadOk(w)
  <2>1. heap' = heap /\ dir' = dir /\ pc[w] = "read" /\ pc'[w] = "host"
    BY <1>2 DEF ReadOk
  <2> QED
    BY <2>1
<1>3. CASE ReadRefused(w) \/ ReadFails(w)
  <2>1. /\ heap' = heap /\ dir' = dir
        /\ pc[w] = "read" /\ pc'[w] \in {"write", "post"}
    BY <1>3 DEF ReadRefused, ReadFails
  <2> QED
    BY <2>1
<1>4. CASE ProcRefuses(w)
  BY <1>4 DEF ProcRefuses
<1>5. CASE ProcFindsHost(w)
  BY <1>5 DEF ProcFindsHost
<1>6. CASE DirStat(w)
  BY <1>6 DEF DirStat
<1>7. CASE DirBuild(w)
  BY <1>7 DEF DirBuild
<1>8. CASE DirFree(w)
  <2>1. /\ pc[w] = "replace" /\ pc'[w] = "assign" /\ dir' = dir /\ host' = host
        /\ heap' = [heap EXCEPT ![host[w]] = @ \ {dir[host[w]]}]
    BY <1>8 DEF DirFree
  <2>2. heap[host[w]] = {dir[host[w]]} /\ host[w] \in Hosts
    BY <2>1
  <2>3. heap'[host[w]] = {}
    BY <2>1, <2>2
  <2>4. \A h \in Hosts : h # host[w] => heap'[h] = heap[h]
    BY <2>1
  <2>5. heap' \in [Hosts -> SUBSET Strings]
    BY <2>1
  <2> QED
    <3>1. ASSUME NEW h \in Hosts
          PROVE  heap'[h] = IF pc'[w] = "assign" /\ host'[w] = h
                              THEN {} ELSE {dir'[h]}
      <4>1. CASE h = host[w]
        BY <2>1, <2>3, <4>1
      <4>2. CASE h # host[w]
        BY <2>1, <2>4, <4>2
      <4> QED
        BY <4>1, <4>2
    <3>2. pc'[w] \notin {"stat", "access"}
      BY <2>1
    <3> HIDE DEF ServerInv, DataTypes, StageInv
    <3> QED
      BY <2>5, <3>1, <3>2
<1>9. CASE DirAssign(w)
  BY <1>9, StringsHaveFirst DEF DirAssign
<1>10. CASE DirAccess(w)
  BY <1>10 DEF DirAccess
<1>11. CASE Filter(w) \/ Write(w) \/ Post(w)
  <2>1. /\ heap' = heap /\ dir' = dir
        /\ pc[w] \in {"filter", "write", "post"} /\ pc'[w] \in {"write", "post", "idle"}
    BY <1>11 DEF Filter, Write, Post
  <2> QED
    BY <2>1
<1>12. CASE UNCHANGED vars
  BY <1>12 DEF vars
<1> QED
  BY <1>0, <1>1, <1>2, <1>3, <1>4, <1>5, <1>6, <1>7, <1>8, <1>9, <1>10, <1>11,
     <1>12
     DEF Response, Proc, CheckDir

\* What the worker uses or frees is allocated.
LEMMA UsesAllocated ==
  ASSUME NEW w \in Workers, Workers = {w}, ServerInv, StringInv(w), ~undefined,
         [Next]_vars
  PROVE  ~undefined'
<1> USE DEF ServerInv, DataTypes, StageInv, StringInv, ProcPoints
<1>1. pc[w] \in {"stat", "build", "replace", "access", "filter"} =>
        dir[host[w]] \in heap[host[w]]
  OBVIOUS
<1>2. pc[w] \in {"stat", "access"} => adir[w] \in heap[host[w]]
  BY <1>1
<1>3. CASE DirStat(w) \/ DirAccess(w)
  BY <1>2, <1>3 DEF DirStat, DirAccess, Use
<1>4. CASE DirBuild(w)
  BY <1>1, <1>4 DEF DirBuild, Use
<1>5. CASE DirFree(w)
  BY <1>1, <1>5 DEF DirFree, Use, Go
<1>6. CASE Filter(w)
  BY <1>1, <1>6 DEF Filter, Use, Go
<1>7. CASE undefined' = undefined
  BY <1>7
<1> QED
  BY <1>3, <1>4, <1>5, <1>6, <1>7
     DEF Next, Response, Proc, CheckDir, Begin, Pre, PreFails, ReadOk,
         ReadRefused, ReadFails, ProcRefuses, ProcFindsHost, DirAssign, Write,
         Post, vars

\* With one worker no directory is ever used or freed after it was freed, and
\* each host keeps exactly one.
THEOREM SingleIsSafe ==
  ASSUME NEW w, Workers = {w}
  PROVE  Spec => []OneDirectoryString
<1>1. Init => StringInv(w) /\ ~undefined
  BY StringsHaveFirst DEF Init, StringInv
<1>2. ServerInv /\ StringInv(w) /\ ~undefined /\ [Next]_vars
        => StringInv(w)' /\ ~undefined'
  BY StringStep, UsesAllocated
<1>3. StringInv(w) /\ ~undefined => OneDirectoryString
  BY DEF StringInv, OneDirectoryString
<1> QED
  BY ServerInvariant, <1>1, <1>2, <1>3, PTL DEF Spec
=============================================================================
