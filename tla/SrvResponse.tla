---------------------------- MODULE SrvResponse ----------------------------
(***************************************************************************)
(* srv_response of src/server/server.c: a worker takes one connection      *)
(* through pre, read, proc, write and post.  Every worker works on its own *)
(* conn_t, but the configuration of the hosts is shared: srv_check_dir     *)
(* replaces the directory of a host, a string on the heap, by its full     *)
(* path the first time the host is asked for, with no lock.                *)
(*                                                                         *)
(* read, filter and write stand for what module ReadRequest, a filter and  *)
(* module WriteResponse leave behind.  With one worker this is the server  *)
(* of single.c, with several that of multithread.c.                        *)
(***************************************************************************)
EXTENDS Integers, FiniteSets

CONSTANTS
  Workers,        \* the threads that run srv_response
  Hosts,          \* configured hosts
  DirKinds,       \* which of the kinds of directory below occur
  MaxPreFailures  \* bound on failures of malloc() in pre_notls

AllDirKinds == {"absolute", "relative", "missing", "readonly"}

ASSUME ServerAssumption ==
  /\ DirKinds \subseteq AllDirKinds /\ MaxPreFailures \in Nat
  /\ Hosts \cap {"none", "unknown"} = {} /\ IsFiniteSet(Workers)

VARIABLES
  conf,       \* for each host its kind of directory and its filter
  dir,        \* conn->config->dir: the string a host's directory is kept in
  heap,       \* strings of a host that are allocated
  pc,         \* control point of a worker
  host,       \* the Host header of the request a worker reads
  adir,       \* `adir' of srv_check_dir
  stage,      \* conn->stage
  answer,     \* status in conn->res, 0 if none
  sent,       \* responses written for the connection
  owned,      \* zhttp_t structures a worker has to free
  leaked,     \* zhttp_t structures nobody will free
  failures,   \* failures of pre so far
  undefined   \* memory was used after free() or freed twice

confVars == <<dir, heap>>
connVars == <<stage, answer, sent>>
memVars == <<owned, leaked, failures>>
vars == <<conf, confVars, pc, host, adir, connVars, memVars, undefined>>

Confs == [dir : DirKinds, filter : {"supported", "unsupported"}]

\* String 0 is the directory as configured, every other one a full path.
Strings == 0 .. Cardinality(Workers)

Points == {"idle", "pre", "read", "host", "stat", "build", "replace",
           "assign", "access", "filter", "write", "post"}

TypeOK ==
  /\ conf \in [Hosts -> Confs]
  /\ dir \in [Hosts -> Strings] /\ heap \in [Hosts -> SUBSET Strings]
  /\ pc \in [Workers -> Points]
  /\ host \in [Workers -> Hosts \cup {"none", "unknown"}]
  /\ adir \in [Workers -> Strings]
  /\ stage \in [Workers -> {"DORMANT", "INIT", "PROC", "WRITE", "POST"}]
  /\ answer \in [Workers -> {0, 200, 400, 404, 408, 500}]
  /\ sent \in [Workers -> 0 .. 1]
  /\ owned \in [Workers -> 0 .. 2] /\ leaked \in Nat
  /\ failures \in 0 .. MaxPreFailures
  /\ undefined \in BOOLEAN

Init ==
  /\ conf \in [Hosts -> Confs]
  /\ dir = [h \in Hosts |-> 0] /\ heap = [h \in Hosts |-> {0}]
  /\ pc = [w \in Workers |-> "idle"]
  /\ host = [w \in Workers |-> "none"]
  /\ adir = [w \in Workers |-> 0]
  /\ stage = [w \in Workers |-> "DORMANT"]
  /\ answer = [w \in Workers |-> 0]
  /\ sent = [w \in Workers |-> 0]
  /\ owned = [w \in Workers |-> 0] /\ leaked = 0 /\ failures = 0
  /\ undefined = FALSE

Go(w, from, to) == ~undefined /\ pc[w] = from /\ pc' = [pc EXCEPT ![w] = to]
SetStage(w, s) == stage' = [stage EXCEPT ![w] = s]
\* http_set_error( conn->res, status, ... )
SetError(w, status) == answer' = [answer EXCEPT ![w] = status]

\* The worker uses, or frees, string s of host h.
Use(h, s) == undefined' = (s \notin heap[h])

-----------------------------------------------------------------------------
\* A connection is accepted, and its conn_t set up.
Begin(w) ==
  /\ Go(w, "idle", "pre")
  /\ SetStage(w, "INIT")
  /\ answer' = [answer EXCEPT ![w] = 0] /\ sent' = [sent EXCEPT ![w] = 0]
  /\ UNCHANGED <<conf, confVars, host, adir, memVars, undefined>>

\* pre_notls allocates the request and the response ...
Pre(w) ==
  /\ Go(w, "pre", "read")
  /\ owned' = [owned EXCEPT ![w] = @ + 2]
  /\ UNCHANGED <<conf, confVars, host, adir, connVars, leaked, failures, undefined>>

\* ... or only the first of them, or none: srv_response returns at once, and
\* post is not called for what was allocated.
PreFails(w) ==
  /\ Go(w, "pre", "idle")
  /\ failures < MaxPreFailures /\ failures' = failures + 1
  /\ leaked' \in {leaked, leaked + 1}
  /\ UNCHANGED <<conf, confVars, host, adir, connVars, owned, undefined>>

\* A request was read; the Host header is what the client made of it.
ReadOk(w) ==
  /\ Go(w, "read", "host")
  /\ SetStage(w, "PROC")
  /\ \E h \in Hosts \cup {"none", "unknown"} : host' = [host EXCEPT ![w] = h]
  /\ UNCHANGED <<conf, confVars, adir, answer, sent, memVars, undefined>>

\* Mutant: a refused request is not cleaned up after.
ReadRefusedReturns(w) ==
  /\ Go(w, "read", "idle")
  /\ SetStage(w, "WRITE")
  /\ \E status \in {408, 500} : SetError(w, status)
  /\ UNCHANGED <<conf, confVars, host, adir, sent, memVars, undefined>>

\* A request was refused (timeout, too large, malformed).
ReadRefused(w) ==
  /\ Go(w, "read", "write")
  /\ SetStage(w, "WRITE")
  /\ \E status \in {408, 500} : SetError(w, status)
  /\ UNCHANGED <<conf, confVars, host, adir, sent, memVars, undefined>>

\* The socket failed; srv_response goes on, and finds nothing to do.
ReadFails(w) ==
  /\ Go(w, "read", "post")
  /\ SetStage(w, "POST")
  /\ UNCHANGED <<conf, confVars, host, adir, answer, sent, memVars, undefined>>

-----------------------------------------------------------------------------
(* srv_proc.                                                               *)

\* Refused for want of a host or of a filter.
Refusal(w) ==
  CASE host[w] = "none" -> 400
    [] host[w] = "unknown" -> 404
    [] OTHER -> IF conf[host[w]].filter = "supported" THEN 0 ELSE 500

ProcRefuses(w) ==
  /\ Refusal(w) # 0
  /\ Go(w, "host", "write")
  /\ SetStage(w, "WRITE") /\ SetError(w, Refusal(w))
  /\ UNCHANGED <<conf, confVars, host, adir, sent, memVars, undefined>>

\* srv_check_dir looks at conn->config->dir ...
ProcFindsHost(w) ==
  /\ Refusal(w) = 0
  /\ Go(w, "host", "stat")
  /\ SetStage(w, "WRITE")
  /\ adir' = [adir EXCEPT ![w] = dir[host[w]]]
  /\ UNCHANGED <<conf, confVars, host, answer, sent, memVars, undefined>>

\* Whether stat() finds the directory that string s of host h names.
Found(h, s) == s # 0 \/ conf[h].dir \in {"absolute", "readonly"}

DirStat(w) ==
  /\ pc[w] = "stat"
  /\ Use(host[w], adir[w])
  /\ Go(w, "stat", IF Found(host[w], adir[w]) THEN "access" ELSE "build")
  /\ UNCHANGED <<conf, confVars, host, adir, connVars, memVars>>

\* ... tries below wwwroot what conn->config->dir says by now: a full path
\* is not found there ...
DirBuild(w) ==
  /\ pc[w] = "build"
  /\ Use(host[w], dir[host[w]])
  /\ IF dir[host[w]] = 0 /\ conf[host[w]].dir = "relative"
       THEN Go(w, "build", "replace") /\ UNCHANGED answer
       ELSE Go(w, "build", "write") /\ SetError(w, 500)
  /\ UNCHANGED <<conf, confVars, host, adir, stage, sent, memVars>>

\* Mutant: the old string is not freed.
DirFreeSkipped(w) ==
  /\ Go(w, "replace", "assign")
  /\ Use(host[w], dir[host[w]])
  /\ UNCHANGED <<conf, confVars, host, adir, connVars, memVars>>

\* ... frees the string ...
DirFree(w) ==
  /\ Go(w, "replace", "assign")
  /\ Use(host[w], dir[host[w]])
  /\ heap' = [heap EXCEPT ![host[w]] = @ \ {dir[host[w]]}]
  /\ UNCHANGED <<conf, dir, host, adir, connVars, memVars>>

\* ... and keeps the full path in its stead.
DirAssign(w) ==
  /\ Go(w, "assign", "access")
  /\ \E s \in Strings \ {0} :
       /\ s \notin heap[host[w]]
       /\ \A t \in 1 .. s - 1 : t \in heap[host[w]]
       /\ dir' = [dir EXCEPT ![host[w]] = s]
       /\ heap' = [heap EXCEPT ![host[w]] = @ \cup {s}]
       /\ adir' = [adir EXCEPT ![w] = s]
  /\ UNCHANGED <<conf, host, connVars, memVars, undefined>>

\* Mutant: the result of access() is ignored.
DirAccessIgnored(w) ==
  /\ pc[w] = "access"
  /\ Use(host[w], adir[w])
  /\ Go(w, "access", "filter") /\ UNCHANGED answer
  /\ UNCHANGED <<conf, confVars, host, adir, stage, sent, memVars>>

DirAccess(w) ==
  /\ pc[w] = "access"
  /\ Use(host[w], adir[w])
  /\ IF conf[host[w]].dir = "readonly"
       THEN Go(w, "access", "write") /\ SetError(w, 500)
       ELSE Go(w, "access", "filter") /\ UNCHANGED answer
  /\ UNCHANGED <<conf, confVars, host, adir, stage, sent, memVars>>

\* The filter answers for the host's directory, or sets an error itself.
Filter(w) ==
  /\ Go(w, "filter", "write")
  /\ Use(host[w], dir[host[w]])
  /\ \E status \in {200, 404, 500} : SetError(w, status)
  /\ UNCHANGED <<conf, confVars, host, adir, stage, sent, memVars>>

-----------------------------------------------------------------------------
\* Mutant: a write that fails is tried again.
WriteRetried(w) ==
  /\ Go(w, "write", "write") \/ Go(w, "write", "post")
  /\ stage' = [stage EXCEPT ![w] = IF pc'[w] = "post" THEN "POST" ELSE @]
  /\ sent' = [sent EXCEPT ![w] = @ + 1]
  /\ UNCHANGED <<conf, confVars, host, adir, answer, memVars, undefined>>

\* write_notls, whether or not all of it reaches the client.
Write(w) ==
  /\ Go(w, "write", "post")
  /\ SetStage(w, "POST")
  /\ sent' = [sent EXCEPT ![w] = @ + 1]
  /\ UNCHANGED <<conf, confVars, host, adir, answer, memVars, undefined>>

Post(w) ==
  /\ Go(w, "post", "idle")
  /\ owned' = [owned EXCEPT ![w] = 0]
  /\ UNCHANGED <<conf, confVars, host, adir, connVars, leaked, failures, undefined>>

CheckDir(w) ==
  DirStat(w) \/ DirBuild(w) \/ DirFree(w) \/ DirAssign(w) \/ DirAccess(w)
Proc(w) == ProcRefuses(w) \/ ProcFindsHost(w) \/ CheckDir(w) \/ Filter(w)
Response(w) ==
  \/ Begin(w) \/ Pre(w) \/ PreFails(w)
  \/ ReadOk(w) \/ ReadRefused(w) \/ ReadFails(w)
  \/ Proc(w) \/ Write(w) \/ Post(w)

Next == \E w \in Workers : Response(w)

Spec == Init /\ [][Next]_vars

-----------------------------------------------------------------------------
(* Properties.                                                             *)

\* "If we get this far, replace the original directory with this new one":
\* a worker that replaces the directory of a host, or uses it, finds it
\* allocated, whatever other workers do with the same host.
DirectoryAllocated == ~undefined

\* After any number of requests the directory of each host is one string,
\* which nobody uses after it was freed; there is none only while one worker
\* is replacing it.
OneDirectoryString ==
  /\ ~undefined
  /\ \A h \in Hosts :
       heap[h] = IF \E w \in Workers : pc[w] = "assign" /\ host[w] = h
                   THEN {} ELSE {dir[h]}

\* A client whose request was read is answered for its own Host header and
\* for the directory as configured, whether or not that has been replaced by
\* an earlier request; only the filter may answer 200.
AnswerMatchesHost ==
  \A w \in Workers :
    LET h == host[w] IN
    pc[w] = "filter" \/ (pc[w] = "write" /\ stage[w] = "WRITE" /\ answer[w] = 200)
      => /\ h \in Hosts
         /\ conf[h].filter = "supported"
         /\ conf[h].dir \in {"absolute", "relative"}
         /\ conf[h].dir = "relative" => dir[h] # 0

\* A worker between connections owns nothing: only a failed pre leaks.
NothingLeftBehind ==
  /\ \A w \in Workers : pc[w] = "idle" => owned[w] = 0
  /\ leaked <= failures

\* A connection is written to once if it has an answer, and otherwise never:
\* no step of srv_response writes a second time before the conn_t is set up
\* anew, none writes without an answer or after the socket has failed, and no
\* connection goes through post with its answer unwritten.
WrittenOnce ==
  [][\A w \in Workers :
       /\ sent'[w] > sent[w] =>
            /\ sent[w] = 0 /\ sent'[w] = 1
            /\ stage[w] = "WRITE" /\ answer[w] # 0
       /\ sent'[w] < sent[w] => pc[w] = "idle"
       /\ pc[w] = "post" /\ pc'[w] # "post" =>
            sent[w] = IF answer[w] = 0 THEN 0 ELSE 1]_vars
=============================================================================
