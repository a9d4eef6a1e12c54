-------------------------- MODULE LifecycleProofs --------------------------
(***************************************************************************)
(* Theorems about module Lifecycle, for any number of servers, PID files   *)
(* and configuration files.                                                *)
(***************************************************************************)
EXTENDS Lifecycle, SequenceTheorems, FiniteSetTheorems, WellFoundedInduction,
        TLAPS

BeforeSocket == {"unused", "pid", "config", "init", "log", "access", "socket", "exit"}
Configured == {"log", "access", "socket", "setup", "bind", "listen", "serve",
               "closelog", "closefd", "free"}
Pcs == BeforeSocket \cup Configured \cup {"return"}

Streams == {"null", "own", "stderr", "closed"}

ProcType ==
  [pc : Pcs, file : Files \cup {"none"},
   has : SUBSET {"config", "hosts", "table", "wwwroot", "ctx"},
   logfd : Streams, accessfd : Streams,
   fd : {"none", "open", "closed", "foreign", "stolen"}, port : BOOLEAN,
   busy : BOOLEAN, intr : {"no", "early", "late"}, failed : BOOLEAN]

KillerType ==
  [pc : {"idle", "read", "kill", "remove"}, file : Files \cup {"none"},
   pid : Procs \cup {"none"}]

LifeTypes ==
  /\ proc \in [Procs -> ProcType]
  /\ runs \in [Procs -> {"nobody", "server", "other"}]
  /\ pidfile \in [Files -> Procs \cup {"absent", "empty"}]
  /\ killer \in KillerType
  /\ killer.pc # "idle" => killer.file \in Files
  /\ killer.pc \in {"kill", "remove"} => killer.pid \in Procs

Kept == {"config", "hosts", "table"}

\* The descriptor, the port and what is allocated at each step of a server.
ServerOk(p, r) ==
  /\ r.fd = "none" <=> r.pc \in BeforeSocket
  /\ r.pc \in {"serve", "closelog", "closefd"} => r.fd # "stolen"
  /\ r.pc \in {"closelog", "closefd"} /\ r.fd = "open" => r.failed
  /\ r.pc = "serve" /\ r.intr # "late" => r.port
  /\ r.pc = "init" => Kept \subseteq r.has
  /\ r.pc \in Configured => Kept \cup {"ctx"} \subseteq r.has
  /\ r.busy => r.pc \in {"serve", "closelog", "closefd", "free", "return"}
  /\ r.busy /\ r.pc # "serve" => p \notin Oneshot
  /\ r.busy /\ r.pc \in {"free", "return"} => r.failed \/ r.fd = "stolen"

OnePort == \A p \in Procs : proc[p].port => \A q \in Procs \ {p} : ~proc[q].port

\* Who has the process ID.
RunsInv(p) ==
  /\ runs[p] = "server" <=> proc[p].pc \notin {"unused", "exit"}
  /\ runs[p] = "other" => proc[p].pc = "exit"
  /\ proc[p].pc = "unused" => proc[p].file = "none"

Live(p) == proc[p].pc \notin {"unused", "exit"}
Wrote(p, f) == proc[p].file = f /\ proc[p].pc \notin {"unused", "pid"}
OnRecord(p) ==
  LET f == proc[p].file
  IN \/ pidfile[f] = p
     \/ proc[p].pc = "pid"
     \/ \E q \in Procs \ {p} : proc[q].file = f

\* A PID file names who has written it; the process that cmd_kill is about to kill
\* has the file it has read, and is gone when the file is removed.
FileInv ==
  /\ \A f \in Files : pidfile[f] \in Procs => Wrote(pidfile[f], f)
  /\ killer.pc \in {"kill", "remove"} => Wrote(killer.pid, killer.file)
  /\ killer.pc = "remove" => proc[killer.pid].pc = "exit"
  /\ \A p \in Procs : Live(p) /\ proc[p].file # "none" => OnRecord(p)

LifeInv ==
  /\ LifeTypes /\ OnePort /\ FileInv
  /\ \A p \in Procs : ServerOk(p, proc[p]) /\ RunsInv(p)

-----------------------------------------------------------------------------
LEMMA Names == "absent" \notin Procs /\ "empty" \notin Procs /\ "none" \notin Files
  BY LifecycleAssumption

\* A configuration that is accepted comes with all of its parts.
LEMMA ConfigHolds ==
  ASSUME NEW site, BuildServerConfig(site).ret = "config"
  PROVE  BuildServerConfig(site).held = {"config", "hosts", "table", "wwwroot"}
  BY DEF BuildServerConfig, Refuse, Crash

LEMMA NewProcOk == NewProc \in ProcType /\ \A p : ServerOk(p, NewProc)
<1>1. NewProc \in ProcType
  BY DEF NewProc, ProcType, Streams, Pcs, BeforeSocket
<1>2. \A p : ServerOk(p, NewProc)
  BY DEF NewProc, ServerOk, BeforeSocket, Configured
<1> QED
  BY <1>1, <1>2

LEMMA LifeInit == Init => LifeInv
<1> SUFFICES ASSUME Init PROVE LifeInv
  OBVIOUS
<1>1. \A p \in Procs : proc[p] = NewProc
  BY DEF Init
<1>2. LifeTypes
  BY NewProcOk DEF Init, LifeTypes, NoKill, KillerType
<1>3. OnePort
  BY <1>1 DEF OnePort, NewProc
<1>4. FileInv
  BY <1>1, Names DEF Init, FileInv, NoKill, Live, NewProc
<1>5. \A p \in Procs : RunsInv(p)
  BY <1>1 DEF Init, RunsInv, NewProc
<1> QED
  BY <1>1, <1>2, <1>3, <1>4, <1>5, NewProcOk DEF LifeInv

\* A step of one server that is alive, keeps its file and has written to it,
\* if it ever does: the rest of the invariant follows from what it becomes.
LEMMA ServerSteps ==
  ASSUME LifeInv, NEW p \in Procs, NEW r \in ProcType, Live(p),
         proc' = [proc EXCEPT ![p] = r], UNCHANGED <<runs, pidfile, killer>>,
         ServerOk(p, r), r.file = proc[p].file,
         r.pc \notin {"unused", "exit"}, (r.pc = "pid") <=> (proc[p].pc = "pid"),
         r.port => proc[p].port \/ ~PortTaken
  PROVE  LifeInv'
<1>1. /\ proc'[p] = r /\ \A q \in Procs \ {p} : proc'[q] = proc[q]
      /\ \A q \in Procs : proc'[q].file = proc[q].file
      /\ \A q \in Procs : (proc'[q].pc = "exit") <=> (proc[q].pc = "exit")
      /\ \A q \in Procs : (proc'[q].pc = "unused") <=> (proc[q].pc = "unused")
      /\ \A q \in Procs : (proc'[q].pc = "pid") <=> (proc[q].pc = "pid")
  BY DEF LifeInv, LifeTypes, Live
<1>2. LifeTypes'
  BY DEF LifeInv, LifeTypes
<1>3. OnePort'
  BY <1>1 DEF LifeInv, OnePort, PortTaken
<1>4. FileInv'
  BY <1>1 DEF LifeInv, LifeTypes, KillerType, FileInv, Wrote, Live, OnRecord
<1>5. \A q \in Procs : ServerOk(q, proc'[q]) /\ RunsInv(q)'
  BY <1>1 DEF LifeInv, RunsInv
<1> QED
  BY <1>2, <1>3, <1>4, <1>5 DEF LifeInv

LEMMA DeadOk ==
  ASSUME LifeInv, NEW p \in Procs
  PROVE  /\ Dead(p) \in ProcType /\ ServerOk(p, Dead(p)) /\ Dead(p).pc = "exit"
         /\ Dead(p).file = proc[p].file /\ ~Dead(p).port
<1>1. proc[p].file \in Files \cup {"none"}
  BY DEF LifeInv, LifeTypes, ProcType
<1> QED
  BY <1>1 DEF Dead, NewProc, ProcType, Streams, ServerOk, Pcs, BeforeSocket, Configured

\* The end of a server: its file stays, and it is no longer a server.
LEMMA ServerEnds ==
  ASSUME LifeInv, NEW p \in Procs, Live(p),
         proc' = [proc EXCEPT ![p] = Dead(p)], runs' = [runs EXCEPT ![p] = "nobody"],
         UNCHANGED <<pidfile, killer>>
  PROVE  LifeInv'
<1>0. /\ Dead(p) \in ProcType /\ ServerOk(p, Dead(p)) /\ Dead(p).pc = "exit"
      /\ Dead(p).file = proc[p].file /\ ~Dead(p).port
  BY DeadOk
<1>1. /\ proc'[p] = Dead(p) /\ \A q \in Procs \ {p} : proc'[q] = proc[q]
      /\ \A q \in Procs : proc'[q].file = proc[q].file
      /\ \A q \in Procs : proc[q].pc = "exit" => proc'[q].pc = "exit"
      /\ \A q \in Procs : (proc'[q].pc = "unused") <=> (proc[q].pc = "unused")
      /\ \A q \in Procs : (proc'[q].pc = "pid") => (proc[q].pc = "pid")
  BY <1>0 DEF LifeInv, LifeTypes, Live
<1>2. LifeTypes'
  BY <1>0 DEF LifeInv, LifeTypes
<1>3. OnePort'
  BY <1>0, <1>1 DEF LifeInv, OnePort
<1>4. FileInv'
  BY <1>0, <1>1 DEF LifeInv, LifeTypes, KillerType, FileInv, Wrote, Live, OnRecord
<1>5. \A q \in Procs : ServerOk(q, proc'[q]) /\ RunsInv(q)'
  BY <1>0, <1>1 DEF LifeInv, LifeTypes, RunsInv
<1> QED
  BY <1>2, <1>3, <1>4, <1>5 DEF LifeInv

-----------------------------------------------------------------------------
(* One lemma for each kind of step.                                        *)

LEMMA StartKeeps == ASSUME LifeInv, NEW p \in Procs, Start(p) PROVE LifeInv'
<1>1. PICK f \in Files \cup {"none"} :
        /\ proc[p].pc = "unused"
        /\ proc' = [proc EXCEPT ![p] =
             [NewProc EXCEPT !.file = f, !.pc = IF f = "none" THEN "config" ELSE "pid"]]
        /\ pidfile' = IF f = "none" THEN pidfile ELSE [pidfile EXCEPT ![f] = "empty"]
  BY DEF Start, Step
<1> DEFINE r == [NewProc EXCEPT !.file = f, !.pc = IF f = "none" THEN "config" ELSE "pid"]
<1>2. /\ r \in ProcType /\ ServerOk(p, r) /\ r.file = f /\ ~r.port
      /\ r.pc = IF f = "none" THEN "config" ELSE "pid"
  BY DEF NewProc, ProcType, Streams, ServerOk, Pcs, BeforeSocket, Configured
<1>3. /\ runs' = [runs EXCEPT ![p] = "server"] /\ killer' = killer
      /\ proc' = [proc EXCEPT ![p] = r]
  BY <1>1 DEF Start
<1> HIDE DEF r
<1>4. /\ proc'[p] = r /\ \A q \in Procs \ {p} : proc'[q] = proc[q]
      /\ proc[p].file = "none"
  BY <1>1, <1>3 DEF LifeInv, LifeTypes, RunsInv
<1>5. LifeTypes'
  BY <1>1, <1>2, <1>3, Names DEF LifeInv, LifeTypes
<1>6. OnePort'
  BY <1>2, <1>4 DEF LifeInv, OnePort
<1>7. FileInv'
  <2>1. \A g \in Files : pidfile'[g] \in Procs => Wrote(pidfile[g], g)'
    BY <1>1, <1>4, Names DEF LifeInv, LifeTypes, FileInv, Wrote
  <2>2. killer.pc \in {"kill", "remove"} => Wrote(killer.pid, killer.file)'
    BY <1>1, <1>3, <1>4 DEF LifeInv, LifeTypes, FileInv, Wrote
  <2>3. killer.pc = "remove" => proc'[killer.pid].pc = "exit"
    BY <1>1, <1>4 DEF LifeInv, LifeTypes, FileInv
  <2>4. \A q \in Procs : Live(q)' /\ proc'[q].file # "none" => OnRecord(q)'
    <3> SUFFICES ASSUME NEW q \in Procs, Live(q)', proc'[q].file # "none"
                 PROVE  OnRecord(q)'
      OBVIOUS
    <3>1. CASE q = p
      BY <1>1, <1>2, <1>4, <3>1 DEF LifeInv, LifeTypes, OnRecord
    <3>2. CASE q # p /\ proc[q].file = f
      BY <1>2, <1>4, <3>2 DEF OnRecord
    <3>3. CASE q # p /\ proc[q].file # f
      <4>1. Live(q) /\ proc[q].file \in Files /\ proc'[q].file = proc[q].file
        BY <1>4, <3>3 DEF Live, LifeInv, LifeTypes, ProcType
      <4>2. OnRecord(q) /\ pidfile'[proc[q].file] = pidfile[proc[q].file]
        BY <1>1, <3>3, <4>1 DEF LifeInv, LifeTypes, FileInv
      <4>3. \A o \in Procs : proc[o].file = proc[q].file => o # p
        BY <1>4, <4>1, Names
      <4> QED
        BY <1>4, <4>1, <4>2, <4>3 DEF OnRecord
    <3> QED
      BY <3>1, <3>2, <3>3
  <2> QED
    BY <1>3, <2>1, <2>2, <2>3, <2>4 DEF FileInv
<1>8. \A q \in Procs : ServerOk(q, proc'[q]) /\ RunsInv(q)'
  BY <1>2, <1>3, <1>4 DEF LifeInv, LifeTypes, RunsInv
<1> QED
  BY <1>5, <1>6, <1>7, <1>8 DEF LifeInv

LEMMA WritePidKeeps == ASSUME LifeInv, NEW p \in Procs, WritePid(p) PROVE LifeInv'
<1> DEFINE r == [proc[p] EXCEPT !.pc = "config"]
<1>1. /\ r \in ProcType /\ r.pc = "config" /\ r.file = proc[p].file
      /\ r.port = proc[p].port
      /\ proc[p].pc = "pid" /\ proc' = [proc EXCEPT ![p] = r]
      /\ pidfile' = [f \in Files |-> IF f = proc[p].file THEN p ELSE pidfile[f]]
      /\ runs' = runs /\ killer' = killer
  BY DEF WritePid, Step, Recorded, LifeInv, LifeTypes, ProcType, Pcs, BeforeSocket
<1>2. ServerOk(p, r)
  BY DEF WritePid, Step, LifeInv, LifeTypes, ProcType, ServerOk, BeforeSocket, Configured
<1> HIDE DEF r
<1>3. /\ proc'[p] = r /\ \A q \in Procs \ {p} : proc'[q] = proc[q]
      /\ \A q \in Procs : proc'[q].file = proc[q].file
  BY <1>1 DEF LifeInv, LifeTypes
<1>4. LifeTypes'
  BY <1>1 DEF LifeInv, LifeTypes
<1>5. OnePort'
  BY <1>1, <1>3 DEF LifeInv, OnePort
<1>6. FileInv'
  <2>1. Wrote(p, proc[p].file)'
    BY <1>1, <1>3 DEF Wrote
  <2>2. \A f \in Files : pidfile'[f] \in Procs => Wrote(pidfile[f], f)'
    BY <1>1, <1>3, <2>1 DEF LifeInv, LifeTypes, FileInv, Wrote
  <2>3. killer.pc \in {"kill", "remove"} => Wrote(killer.pid, killer.file)'
    BY <1>1, <1>3 DEF LifeInv, LifeTypes, FileInv, Wrote
  <2>4. killer.pc = "remove" => proc'[killer.pid].pc = "exit"
    BY <1>1, <1>3 DEF LifeInv, LifeTypes, FileInv
  <2>5. \A q \in Procs : Live(q)' /\ proc'[q].file # "none" => OnRecord(q)'
    BY <1>1, <1>3 DEF LifeInv, LifeTypes, ProcType, FileInv, Live, OnRecord
  <2> QED
    BY <1>1, <2>2, <2>3, <2>4, <2>5 DEF FileInv
<1>7. \A q \in Procs : ServerOk(q, proc'[q]) /\ RunsInv(q)'
  BY <1>1, <1>2, <1>3 DEF LifeInv, RunsInv
<1> QED
  BY <1>4, <1>5, <1>6, <1>7 DEF LifeInv

LEMMA ReuseKeeps == ASSUME LifeInv, NEW p \in Procs, Reuse(p) PROVE LifeInv'
<1>1. LifeTypes' /\ OnePort'
  BY DEF Reuse, LifeInv, LifeTypes, OnePort
<1>2. FileInv'
  BY DEF Reuse, LifeInv, FileInv, Wrote, Live, OnRecord
<1>3. \A q \in Procs : ServerOk(q, proc'[q]) /\ RunsInv(q)'
  BY DEF Reuse, LifeInv, LifeTypes, RunsInv
<1> QED
  BY <1>1, <1>2, <1>3 DEF LifeInv

\* The kernel takes everything back; Gone is every exit of cmd_server but for
\* the two that come before there is anything to release.
LEMMA GoneKeeps ==
  ASSUME LifeInv, NEW p \in Procs, Live(p), Gone(p) PROVE LifeInv'
  BY ServerEnds DEF Gone

LEMMA ConfigKeeps == ASSUME LifeInv, NEW p \in Procs, BuildConfig(p) PROVE LifeInv'
<1>1. PICK s \in Sites :
        LET b == BuildServerConfig(s)
            ok == b.ret = "config"
        IN /\ proc' = [proc EXCEPT ![p] =
                IF ok THEN [@ EXCEPT !.pc = "init", !.has = b.held] ELSE Dead(p)]
           /\ runs' = [runs EXCEPT ![p] = IF ok THEN "server" ELSE "nobody"]
  BY DEF BuildConfig
<1>2. /\ proc[p].pc = "config" /\ Live(p) /\ UNCHANGED <<pidfile, killer>>
      /\ runs[p] = "server" /\ proc[p] \in ProcType
  BY DEF BuildConfig, Live, LifeInv, LifeTypes, RunsInv
<1>3. CASE BuildServerConfig(s).ret = "config"
  <2> DEFINE r == [proc[p] EXCEPT !.pc = "init", !.has = BuildServerConfig(s).held]
  <2>1. BuildServerConfig(s).held = {"config", "hosts", "table", "wwwroot"}
    BY <1>3, ConfigHolds
  <2>2. r \in ProcType /\ r.pc = "init" /\ r.file = proc[p].file /\ r.port = proc[p].port
    BY <1>2, <2>1 DEF ProcType, Pcs, BeforeSocket
  <2>3. ServerOk(p, r)
    BY <1>2, <2>1 DEF LifeInv, ProcType, ServerOk, Kept, BeforeSocket, Configured
  <2>4. proc' = [proc EXCEPT ![p] = r] /\ runs' = runs
    BY <1>1, <1>2, <1>3 DEF LifeInv, LifeTypes
  <2> HIDE DEF r
  <2> QED
    BY <1>2, <2>2, <2>3, <2>4, ServerSteps
<1>4. CASE BuildServerConfig(s).ret # "config"
  BY <1>1, <1>2, <1>4, ServerEnds
<1> QED
  BY <1>3, <1>4

LEMMA CtxKeeps == ASSUME LifeInv, NEW p \in Procs, CtxInit(p) PROVE LifeInv'
<1>1. /\ proc[p].pc = "init" /\ Live(p) /\ UNCHANGED <<pidfile, killer>>
      /\ proc[p] \in ProcType
  BY DEF CtxInit, Live, LifeInv, LifeTypes
<1> DEFINE r == [proc[p] EXCEPT !.pc = "log", !.has = @ \cup {"ctx"}]
<1>2. CASE proc' = [proc EXCEPT ![p] = r] /\ runs' = runs
  <2>1. r \in ProcType /\ r.pc = "log" /\ r.file = proc[p].file /\ r.port = proc[p].port
    BY <1>1 DEF ProcType, Pcs, BeforeSocket
  <2>2. ServerOk(p, r)
    BY <1>1 DEF LifeInv, ProcType, ServerOk, Kept, BeforeSocket, Configured
  <2> HIDE DEF r
  <2> QED
    BY <1>1, <1>2, <2>1, <2>2, ServerSteps
<1>3. CASE proc' = [proc EXCEPT ![p] = Dead(p)] /\ runs' = [runs EXCEPT ![p] = "nobody"]
  BY <1>1, <1>3, ServerEnds
<1> QED
  BY <1>2, <1>3 DEF CtxInit, Step

\* The file of a server that gives up may name it.
LEMMA WritePidFailsKeeps == ASSUME LifeInv, NEW p \in Procs, WritePidFails(p) PROVE LifeInv'
<1>1. /\ proc[p].pc = "pid" /\ proc' = [proc EXCEPT ![p] = Dead(p)]
      /\ pidfile' \in {pidfile, Recorded(p)}
      /\ runs' = [runs EXCEPT ![p] = "nobody"] /\ killer' = killer
  BY DEF WritePidFails, Step
<1>2. /\ Dead(p) \in ProcType /\ ServerOk(p, Dead(p)) /\ Dead(p).pc = "exit"
      /\ Dead(p).file = proc[p].file /\ ~Dead(p).port
  BY DeadOk
<1>3. CASE pidfile' = pidfile
  BY <1>1, <1>3, ServerEnds DEF Live
<1>4. CASE pidfile' = Recorded(p)
  <2>1. /\ proc'[p] = Dead(p) /\ \A q \in Procs \ {p} : proc'[q] = proc[q]
        /\ \A q \in Procs : proc'[q].file = proc[q].file
    BY <1>1, <1>2 DEF LifeInv, LifeTypes
  <2>2. \A f \in Files : pidfile'[f] = IF f = proc[p].file THEN p ELSE pidfile[f]
    BY <1>4 DEF Recorded
  <2>3. LifeTypes'
    BY <1>1, <1>2, <1>4 DEF LifeInv, LifeTypes, Recorded
  <2>4. OnePort'
    BY <1>2, <2>1 DEF LifeInv, OnePort
  <2>5. FileInv'
    <3>1. Wrote(p, proc[p].file)'
      BY <1>2, <2>1 DEF Wrote
    <3>2. \A f \in Files : pidfile'[f] \in Procs => Wrote(pidfile[f], f)'
      BY <1>1, <2>1, <2>2, <3>1 DEF LifeInv, LifeTypes, FileInv, Wrote
    <3>3. killer.pc \in {"kill", "remove"} => Wrote(killer.pid, killer.file)'
      BY <1>1, <2>1 DEF LifeInv, LifeTypes, FileInv, Wrote
    <3>4. killer.pc = "remove" => proc'[killer.pid].pc = "exit"
      BY <1>1, <1>2, <2>1 DEF LifeInv, LifeTypes, FileInv
    <3>5. \A q \in Procs : Live(q)' /\ proc'[q].file # "none" => OnRecord(q)'
      BY <1>1, <1>2, <2>1, <2>2 DEF LifeInv, LifeTypes, ProcType, FileInv, Live, OnRecord
    <3> QED
      BY <1>1, <3>2, <3>3, <3>4, <3>5 DEF FileInv
  <2>6. \A q \in Procs : ServerOk(q, proc'[q]) /\ RunsInv(q)'
    BY <1>1, <1>2, <2>1 DEF LifeInv, LifeTypes, RunsInv
  <2> QED
    BY <2>3, <2>4, <2>5, <2>6 DEF LifeInv
<1> QED
  BY <1>1, <1>3, <1>4

LEMMA OpenPidFailsKeeps == ASSUME LifeInv, NEW p \in Procs, OpenPidFails(p) PROVE LifeInv'
<1> DEFINE r == [NewProc EXCEPT !.pc = "exit"]
<1>1. /\ proc[p].pc = "unused" /\ runs[p] = "nobody"
      /\ proc' = [proc EXCEPT ![p] = r] /\ UNCHANGED <<runs, pidfile, killer>>
  BY DEF OpenPidFails, Step, otherVars
<1>2. r \in ProcType /\ ServerOk(p, r) /\ r.pc = "exit" /\ r.file = "none" /\ ~r.port
  BY DEF NewProc, ProcType, Streams, ServerOk, Pcs, BeforeSocket, Configured
<1> HIDE DEF r
<1>3. /\ proc'[p] = r /\ \A q \in Procs \ {p} : proc'[q] = proc[q]
      /\ proc[p].file = "none" /\ \A q \in Procs : proc'[q].file = proc[q].file
  BY <1>1, <1>2 DEF LifeInv, LifeTypes, RunsInv
<1>4. LifeTypes'
  BY <1>1, <1>2 DEF LifeInv, LifeTypes
<1>5. OnePort'
  BY <1>2, <1>3 DEF LifeInv, OnePort
<1>6. FileInv'
  BY <1>1, <1>2, <1>3 DEF LifeInv, LifeTypes, KillerType, FileInv, Wrote, Live, OnRecord
<1>7. \A q \in Procs : ServerOk(q, proc'[q]) /\ RunsInv(q)'
  BY <1>1, <1>2, <1>3 DEF LifeInv, LifeTypes, RunsInv
<1> QED
  BY <1>4, <1>5, <1>6, <1>7 DEF LifeInv

LEMMA OpenLogKeeps == ASSUME LifeInv, NEW p \in Procs, OpenLog(p) PROVE LifeInv'
<1> DEFINE r == [proc[p] EXCEPT !.pc = "access", !.logfd = "own"]
<1>1. /\ proc[p] \in ProcType /\ ServerOk(p, proc[p])
      /\ proc' = [proc EXCEPT ![p] = r] /\ UNCHANGED <<runs, pidfile, killer>>
  BY DEF OpenLog, Step, otherVars, LifeInv, LifeTypes
<1>2. Live(p)
  BY <1>1 DEF OpenLog, Step, Live, ServerOk
<1>3. /\ r \in ProcType /\ r.file = proc[p].file /\ r.pc \notin {"unused", "exit"}
      /\ (r.pc = "pid") <=> (proc[p].pc = "pid")
      /\ r.port => proc[p].port \/ ~PortTaken
  BY <1>1, <1>2 DEF OpenLog, Step, Live, ProcType, Streams, Pcs, BeforeSocket, Configured
<1>4. ServerOk(p, r)
  BY <1>1 DEF OpenLog, Step, ProcType, ServerOk, Kept, BeforeSocket, Configured
<1> HIDE DEF r
<1> QED
  BY <1>1, <1>2, <1>3, <1>4, ServerSteps

LEMMA OpenAccessKeeps == ASSUME LifeInv, NEW p \in Procs, OpenAccess(p) PROVE LifeInv'
<1> DEFINE r == [proc[p] EXCEPT !.pc = "socket", !.accessfd = "own"]
<1>1. /\ proc[p] \in ProcType /\ ServerOk(p, proc[p])
      /\ proc' = [proc EXCEPT ![p] = r] /\ UNCHANGED <<runs, pidfile, killer>>
  BY DEF OpenAccess, Step, otherVars, LifeInv, LifeTypes
<1>2. Live(p)
  BY <1>1 DEF OpenAccess, Step, Live, ServerOk
<1>3. /\ r \in ProcType /\ r.file = proc[p].file /\ r.pc \notin {"unused", "exit"}
      /\ (r.pc = "pid") <=> (proc[p].pc = "pid")
      /\ r.port => proc[p].port \/ ~PortTaken
  BY <1>1, <1>2 DEF OpenAccess, Step, Live, ProcType, Streams, Pcs, BeforeSocket, Configured
<1>4. ServerOk(p, r)
  BY <1>1 DEF OpenAccess, Step, ProcType, ServerOk, Kept, BeforeSocket, Configured
<1> HIDE DEF r
<1> QED
  BY <1>1, <1>2, <1>3, <1>4, ServerSteps

LEMMA OpenSocketKeeps == ASSUME LifeInv, NEW p \in Procs, OpenSocket(p) PROVE LifeInv'
<1> DEFINE r == [proc[p] EXCEPT !.pc = "setup", !.fd = "open"]
<1>1. /\ proc[p] \in ProcType /\ ServerOk(p, proc[p])
      /\ proc' = [proc EXCEPT ![p] = r] /\ UNCHANGED <<runs, pidfile, killer>>
  BY DEF OpenSocket, Step, otherVars, LifeInv, LifeTypes
<1>2. Live(p)
  BY <1>1 DEF OpenSocket, Step, Live, ServerOk
<1>3. /\ r \in ProcType /\ r.file = proc[p].file /\ r.pc \notin {"unused", "exit"}
      /\ (r.pc = "pid") <=> (proc[p].pc = "pid")
      /\ r.port => proc[p].port \/ ~PortTaken
  BY <1>1, <1>2 DEF OpenSocket, Step, Live, ProcType, Pcs, BeforeSocket, Configured
<1>4. ServerOk(p, r)
  BY <1>1 DEF OpenSocket, Step, ProcType, ServerOk, Kept, BeforeSocket, Configured
<1> HIDE DEF r
<1> QED
  BY <1>1, <1>2, <1>3, <1>4, ServerSteps

LEMMA SetupKeeps == ASSUME LifeInv, NEW p \in Procs, Setup(p) PROVE LifeInv'
<1> DEFINE r == [proc[p] EXCEPT !.pc = "bind"]
<1>1. /\ proc[p] \in ProcType /\ ServerOk(p, proc[p])
      /\ proc' = [proc EXCEPT ![p] = r] /\ UNCHANGED <<runs, pidfile, killer>>
  BY DEF Setup, Step, otherVars, LifeInv, LifeTypes
<1>2. Live(p)
  BY <1>1 DEF Setup, Step, Live, ServerOk
<1>3. /\ r \in ProcType /\ r.file = proc[p].file /\ r.pc \notin {"unused", "exit"}
      /\ (r.pc = "pid") <=> (proc[p].pc = "pid")
      /\ r.port => proc[p].port \/ ~PortTaken
  BY <1>1, <1>2 DEF Setup, Step, Live, ProcType, Pcs, BeforeSocket, Configured
<1>4. ServerOk(p, r)
  BY <1>1 DEF Setup, Step, ProcType, ServerOk, Kept, BeforeSocket, Configured
<1> HIDE DEF r
<1> QED
  BY <1>1, <1>2, <1>3, <1>4, ServerSteps

LEMMA BindKeeps == ASSUME LifeInv, NEW p \in Procs, Bind(p) PROVE LifeInv'
<1> DEFINE r == [proc[p] EXCEPT !.pc = "listen"]
<1>1. /\ proc[p] \in ProcType /\ ServerOk(p, proc[p])
      /\ proc' = [proc EXCEPT ![p] = r] /\ UNCHANGED <<runs, pidfile, killer>>
  BY DEF Bind, Step, otherVars, LifeInv, LifeTypes
<1>2. Live(p)
  BY <1>1 DEF Bind, Step, Live, ServerOk
<1>3. /\ r \in ProcType /\ r.file = proc[p].file /\ r.pc \notin {"unused", "exit"}
      /\ (r.pc = "pid") <=> (proc[p].pc = "pid")
      /\ r.port => proc[p].port \/ ~PortTaken
  BY <1>1, <1>2 DEF Bind, Step, Live, ProcType, Pcs, BeforeSocket, Configured
<1>4. ServerOk(p, r)
  BY <1>1 DEF Bind, Step, ProcType, ServerOk, Kept, BeforeSocket, Configured
<1> HIDE DEF r
<1> QED
  BY <1>1, <1>2, <1>3, <1>4, ServerSteps

LEMMA ListenKeeps == ASSUME LifeInv, NEW p \in Procs, Listen(p) PROVE LifeInv'
<1> DEFINE r == [proc[p] EXCEPT !.pc = "serve", !.port = TRUE]
<1>1. /\ proc[p] \in ProcType /\ ServerOk(p, proc[p])
      /\ proc' = [proc EXCEPT ![p] = r] /\ UNCHANGED <<runs, pidfile, killer>>
  BY DEF Listen, Step, otherVars, LifeInv, LifeTypes
<1>2. Live(p)
  BY <1>1 DEF Listen, Step, Live, ServerOk
<1>3. /\ r \in ProcType /\ r.file = proc[p].file /\ r.pc \notin {"unused", "exit"}
      /\ (r.pc = "pid") <=> (proc[p].pc = "pid")
      /\ r.port => proc[p].port \/ ~PortTaken
  BY <1>1, <1>2 DEF Listen, Step, Live, ProcType, Pcs, BeforeSocket, Configured
<1>4. ServerOk(p, r)
  BY <1>1 DEF Listen, Step, ProcType, ServerOk, Kept, BeforeSocket, Configured
<1> HIDE DEF r
<1> QED
  BY <1>1, <1>2, <1>3, <1>4, ServerSteps

LEMMA AcceptKeeps ==
  ASSUME LifeInv, NEW p \in Procs, Accept(p), ~Gone(p)
  PROVE  LifeInv'
<1> DEFINE r == [proc[p] EXCEPT !.busy = TRUE]
<1>1. /\ proc[p] \in ProcType /\ ServerOk(p, proc[p])
      /\ proc' = [proc EXCEPT ![p] = r] /\ UNCHANGED <<runs, pidfile, killer>>
  BY DEF Accept, Step, otherVars, LifeInv, LifeTypes
<1>2. Live(p)
  BY <1>1 DEF Accept, Step, Live, ServerOk
<1>3. /\ r \in ProcType /\ r.file = proc[p].file /\ r.pc \notin {"unused", "exit"}
      /\ (r.pc = "pid") <=> (proc[p].pc = "pid")
      /\ r.port => proc[p].port \/ ~PortTaken
  BY <1>1, <1>2 DEF Accept, Step, Live, ProcType, Pcs, BeforeSocket, Configured
<1>4. ServerOk(p, r)
  BY <1>1 DEF Accept, Step, ProcType, ServerOk, Kept, BeforeSocket, Configured
<1> HIDE DEF r
<1> QED
  BY <1>1, <1>2, <1>3, <1>4, ServerSteps

LEMMA ServedKeeps == ASSUME LifeInv, NEW p \in Procs, Served(p) PROVE LifeInv'
<1> DEFINE r == [proc[p] EXCEPT !.busy = FALSE]
<1>1. /\ proc[p] \in ProcType /\ ServerOk(p, proc[p])
      /\ proc' = [proc EXCEPT ![p] = r] /\ UNCHANGED <<runs, pidfile, killer>>
  BY DEF Served, Step, otherVars, LifeInv, LifeTypes
<1>2. Live(p)
  BY <1>1 DEF Served, Step, Live, ServerOk
<1>3. /\ r \in ProcType /\ r.file = proc[p].file /\ r.pc \notin {"unused", "exit"}
      /\ (r.pc = "pid") <=> (proc[p].pc = "pid")
      /\ r.port => proc[p].port \/ ~PortTaken
  BY <1>1, <1>2 DEF Live, ProcType
<1>4. ServerOk(p, r)
  BY <1>1 DEF Served, Step, ProcType, ServerOk, Kept, BeforeSocket, Configured
<1> HIDE DEF r
<1> QED
  BY <1>1, <1>2, <1>3, <1>4, ServerSteps

LEMMA WorkerOpensKeeps == ASSUME LifeInv, NEW p \in Procs, WorkerOpens(p) PROVE LifeInv'
<1> DEFINE r == [proc[p] EXCEPT !.fd = "foreign"]
<1>1. /\ proc[p] \in ProcType /\ ServerOk(p, proc[p])
      /\ proc' = [proc EXCEPT ![p] = r] /\ UNCHANGED <<runs, pidfile, killer>>
  BY DEF WorkerOpens, Step, otherVars, LifeInv, LifeTypes
<1>2. Live(p)
  BY <1>1 DEF WorkerOpens, Step, Live, ServerOk
<1>3. /\ r \in ProcType /\ r.file = proc[p].file /\ r.pc \notin {"unused", "exit"}
      /\ (r.pc = "pid") <=> (proc[p].pc = "pid")
      /\ r.port => proc[p].port \/ ~PortTaken
  BY <1>1, <1>2 DEF WorkerOpens, Step, Live, ProcType, Pcs, BeforeSocket, Configured
<1>4. ServerOk(p, r)
  BY <1>1 DEF WorkerOpens, Step, ProcType, ServerOk, Kept, BeforeSocket, Configured
<1> HIDE DEF r
<1> QED
  BY <1>1, <1>2, <1>3, <1>4, ServerSteps

LEMMA WorkerClosesKeeps == ASSUME LifeInv, NEW p \in Procs, WorkerCloses(p) PROVE LifeInv'
<1> DEFINE r == [proc[p] EXCEPT !.fd = "closed"]
<1>1. /\ proc[p] \in ProcType /\ ServerOk(p, proc[p])
      /\ proc' = [proc EXCEPT ![p] = r] /\ UNCHANGED <<runs, pidfile, killer>>
  BY DEF WorkerCloses, Step, otherVars, LifeInv, LifeTypes
<1>2. Live(p)
  BY <1>1 DEF WorkerCloses, Step, Live, ServerOk
<1>3. /\ r \in ProcType /\ r.file = proc[p].file /\ r.pc \notin {"unused", "exit"}
      /\ (r.pc = "pid") <=> (proc[p].pc = "pid")
      /\ r.port => proc[p].port \/ ~PortTaken
  BY <1>1, <1>2 DEF WorkerCloses, Step, Live, ProcType, Pcs, BeforeSocket, Configured
<1>4. ServerOk(p, r)
  BY <1>1 DEF WorkerCloses, Step, ProcType, ServerOk, Kept, BeforeSocket, Configured
<1> HIDE DEF r
<1> QED
  BY <1>1, <1>2, <1>3, <1>4, ServerSteps

LEMMA CloseLogsKeeps ==
  ASSUME LifeInv, NEW p \in Procs, CloseLogs(p), ~Gone(p)
  PROVE  LifeInv'
<1> DEFINE r == [proc[p] EXCEPT !.pc = "closefd", !.logfd = "null", !.accessfd = "null"]
<1>1. /\ proc[p] \in ProcType /\ ServerOk(p, proc[p])
      /\ proc' = [proc EXCEPT ![p] = r] /\ UNCHANGED <<runs, pidfile, killer>>
  BY DEF CloseLogs, Step, otherVars, LifeInv, LifeTypes
<1>2. Live(p)
  BY <1>1 DEF CloseLogs, Step, Live, ServerOk
<1>0. proc[p].pc = "closelog"
  BY DEF CloseLogs, Step
<1>3. /\ r \in ProcType /\ r.file = proc[p].file /\ r.pc \notin {"unused", "exit"}
      /\ (r.pc = "pid") <=> (proc[p].pc = "pid")
      /\ r.port => proc[p].port \/ ~PortTaken
  BY <1>0, <1>1 DEF ProcType, Streams, Pcs, Configured
<1>4. ServerOk(p, r)
  BY <1>0, <1>1 DEF ProcType, ServerOk, Kept, BeforeSocket, Configured
<1> HIDE DEF r
<1> QED
  BY <1>1, <1>2, <1>3, <1>4, ServerSteps

LEMMA CloseFdKeeps == ASSUME LifeInv, NEW p \in Procs, CloseFd(p) PROVE LifeInv'
<1> DEFINE r == [proc[p] EXCEPT !.pc = "free", !.port = FALSE,
             !.fd = IF @ = "foreign" THEN "stolen" ELSE "closed"]
<1>1. /\ proc[p] \in ProcType /\ ServerOk(p, proc[p])
      /\ proc' = [proc EXCEPT ![p] = r] /\ UNCHANGED <<runs, pidfile, killer>>
  BY DEF CloseFd, Step, otherVars, LifeInv, LifeTypes
<1>2. Live(p)
  BY <1>1 DEF CloseFd, Step, Live, ServerOk
<1>3. /\ r \in ProcType /\ r.file = proc[p].file /\ r.pc \notin {"unused", "exit"}
      /\ (r.pc = "pid") <=> (proc[p].pc = "pid")
      /\ r.port => proc[p].port \/ ~PortTaken
  BY <1>1, <1>2 DEF CloseFd, Step, Live, ProcType, Pcs, BeforeSocket, Configured
<1>4. ServerOk(p, r)
  BY <1>1 DEF CloseFd, Step, ProcType, ServerOk, Kept, BeforeSocket, Configured
<1> HIDE DEF r
<1> QED
  BY <1>1, <1>2, <1>3, <1>4, ServerSteps

LEMMA FreeAllKeeps == ASSUME LifeInv, NEW p \in Procs, FreeAll(p) PROVE LifeInv'
<1> DEFINE r == [proc[p] EXCEPT !.pc = "return", !.has = FreeServerConfig(@ \ {"ctx"})]
<1>1. /\ proc[p] \in ProcType /\ ServerOk(p, proc[p])
      /\ proc' = [proc EXCEPT ![p] = r] /\ UNCHANGED <<runs, pidfile, killer>>
  BY DEF FreeAll, Step, otherVars, LifeInv, LifeTypes
<1>2. Live(p)
  BY <1>1 DEF FreeAll, Step, Live, ServerOk
<1>3. /\ r \in ProcType /\ r.file = proc[p].file /\ r.pc \notin {"unused", "exit"}
      /\ (r.pc = "pid") <=> (proc[p].pc = "pid")
      /\ r.port => proc[p].port \/ ~PortTaken
  BY <1>1, <1>2 DEF FreeAll, Step, Live, ProcType, Pcs, FreeServerConfig
<1>4. ServerOk(p, r)
  BY <1>1 DEF FreeAll, Step, ProcType, ServerOk, Kept, BeforeSocket, Configured
<1> HIDE DEF r
<1> QED
  BY <1>1, <1>2, <1>3, <1>4, ServerSteps

LEMMA InterruptKeeps ==
  ASSUME LifeInv, NEW p \in Procs, Interrupt(p), ~Gone(p)
  PROVE  LifeInv'
<1> DEFINE r == HandlerCloses(proc[p])
<1>1. /\ proc[p] \in ProcType /\ ServerOk(p, proc[p])
      /\ proc' = [proc EXCEPT ![p] = r] /\ UNCHANGED <<runs, pidfile, killer>>
  BY DEF Interrupt, Step, otherVars, LifeInv, LifeTypes
<1>2. Live(p)
  BY <1>1 DEF Interrupt, Step, Live, ServerOk
<1>3. /\ r.pc = proc[p].pc /\ r.file = proc[p].file /\ r.has = proc[p].has
      /\ r.busy = proc[p].busy /\ r.failed = proc[p].failed /\ r.port = FALSE
      /\ r.fd = IF proc[p].fd \in {"none", "stolen"} THEN proc[p].fd ELSE "closed"
      /\ r.fd # "none" => r.intr = "late"
  BY <1>1 DEF HandlerCloses, ProcType
<1>4. r \in ProcType
  <2> DEFINE old == proc[p]
             fd == IF old.fd \in {"none", "stolen"} THEN old.fd ELSE "closed"
             intr == IF old.fd = "none" /\ old.intr = "no" THEN "early"
                     ELSE IF old.fd = "none" THEN old.intr ELSE "late"
             log == ToStderr(old.logfd)
             access == ToStderr(old.accessfd)
  <2>1. r = [old EXCEPT !.fd = fd, !.port = FALSE, !.logfd = log, !.accessfd = access,
                        !.intr = intr]
    BY DEF HandlerCloses
  <2>2. fd \in {"none", "open", "closed", "foreign", "stolen"}
    BY <1>1 DEF ProcType
  <2>3. intr \in {"no", "early", "late"}
    BY <1>1 DEF ProcType
  <2>4. log \in Streams /\ access \in Streams
    BY DEF ToStderr, Streams
  <2> HIDE DEF fd, intr, log, access, r
  <2> QED
    BY <1>1, <2>1, <2>2, <2>3, <2>4 DEF ProcType
<1>5. ServerOk(p, r)
  BY <1>1, <1>3 DEF ServerOk, BeforeSocket
<1> HIDE DEF r
<1> QED
  BY <1>1, <1>2, <1>3, <1>4, <1>5, ServerSteps DEF Live

LEMMA AcceptFailsKeeps ==
  ASSUME LifeInv, NEW p \in Procs, AcceptFails(p), ~Gone(p)
  PROVE  LifeInv'
<1>1. /\ proc[p] \in ProcType /\ ServerOk(p, proc[p]) /\ proc[p].pc = "serve" /\ Live(p)
      /\ p \in Oneshot => ~proc[p].busy
      /\ UNCHANGED <<runs, pidfile, killer>>
  BY DEF AcceptFails, Step, otherVars, LifeInv, LifeTypes, Live
<1>2. PICK failed \in {proc[p].failed, TRUE} :
        /\ proc' = [proc EXCEPT ![p] = [proc[p] EXCEPT !.pc = "closelog", !.failed = failed]]
        /\ failed \/ proc[p].fd # "open"
        /\ failed \in BOOLEAN
  BY <1>1 DEF AcceptFails, Step, ProcType
<1> DEFINE r == [proc[p] EXCEPT !.pc = "closelog", !.failed = failed]
<1>3. /\ r \in ProcType /\ r.file = proc[p].file /\ r.pc = "closelog"
      /\ r.port = proc[p].port
  BY <1>1, <1>2 DEF ProcType, Pcs, Configured
<1>4. ServerOk(p, r)
  BY <1>1, <1>2 DEF ProcType, ServerOk, Kept, BeforeSocket, Configured
<1> HIDE DEF r
<1> QED
  BY <1>1, <1>2, <1>3, <1>4, ServerSteps DEF r

-----------------------------------------------------------------------------
(* cmd_kill.                                                               *)

LEMMA KillOpensKeeps == ASSUME LifeInv, KillOpens PROVE LifeInv'
<1>1. PICK f \in Files : killer' = [NoKill EXCEPT !.pc = "read", !.file = f]
  BY DEF KillOpens
<1>2. /\ killer' \in KillerType /\ killer'.pc = "read" /\ killer'.file = f
      /\ UNCHANGED <<proc, runs, pidfile>>
  BY <1>1 DEF KillOpens, NoKill, KillerType
<1>3. LifeTypes' /\ OnePort'
  BY <1>2 DEF LifeInv, LifeTypes, OnePort
<1>4. FileInv'
  BY <1>2 DEF LifeInv, FileInv, Wrote, Live, OnRecord
<1>5. \A q \in Procs : ServerOk(q, proc'[q]) /\ RunsInv(q)'
  BY <1>2 DEF LifeInv, RunsInv
<1> QED
  BY <1>3, <1>4, <1>5 DEF LifeInv

\* A command that gives up changes nothing.
LEMMA KillerRests ==
  ASSUME LifeInv, killer' = NoKill, UNCHANGED <<proc, runs, pidfile>>
  PROVE  LifeInv'
<1>1. killer' \in KillerType /\ killer'.pc = "idle"
  BY DEF NoKill, KillerType
<1>2. LifeTypes' /\ OnePort'
  BY <1>1 DEF LifeInv, LifeTypes, OnePort
<1>3. FileInv'
  BY <1>1 DEF LifeInv, FileInv, Wrote, Live, OnRecord
<1>4. \A q \in Procs : ServerOk(q, proc'[q]) /\ RunsInv(q)'
  BY DEF LifeInv, RunsInv
<1> QED
  BY <1>2, <1>3, <1>4 DEF LifeInv

LEMMA KillReadsKeeps == ASSUME LifeInv, KillReads PROVE LifeInv'
<1> DEFINE f == killer.file
<1>1. /\ killer.pc = "read" /\ f \in Files /\ killer \in KillerType
      /\ UNCHANGED <<proc, runs, pidfile>>
  BY DEF KillReads, LifeInv, LifeTypes
<1>2. CASE pidfile[f] \in Procs
  <2>1. /\ killer' \in KillerType /\ killer'.pc = "kill" /\ killer'.file = f
        /\ killer'.pid = pidfile[f]
    BY <1>1, <1>2 DEF KillReads, KillerType
  <2>2. LifeTypes' /\ OnePort'
    BY <1>1, <1>2, <2>1 DEF LifeInv, LifeTypes, OnePort
  <2>3. FileInv'
    BY <1>1, <1>2, <2>1 DEF LifeInv, FileInv, Wrote, Live, OnRecord
  <2>4. \A q \in Procs : ServerOk(q, proc'[q]) /\ RunsInv(q)'
    BY <1>1 DEF LifeInv, RunsInv
  <2> QED
    BY <2>2, <2>3, <2>4 DEF LifeInv
<1>3. CASE pidfile[f] \notin Procs
  BY <1>1, <1>3, KillerRests DEF KillReads
<1> QED
  BY <1>2, <1>3

\* Whoever has the process ID of a server that is alive is that server: it is
\* gone before its file is removed.
LEMMA KillSignalsKeeps == ASSUME LifeInv, KillSignals PROVE LifeInv'
<1> DEFINE p == killer.pid
<1>1. /\ killer.pc = "kill" /\ p \in Procs /\ runs[p] # "nobody"
      /\ killer' = [killer EXCEPT !.pc = "remove"] /\ pidfile' = pidfile
      /\ killer \in KillerType /\ killer.file \in Files /\ Wrote(p, killer.file)
  BY DEF KillSignals, LifeInv, LifeTypes, FileInv
<1>2. /\ killer' \in KillerType /\ killer'.pc = "remove" /\ killer'.pid = p
      /\ killer'.file = killer.file
  BY <1>1 DEF KillerType
<1>3. CASE runs[p] = "server"
  <2>1. Live(p) /\ proc' = [proc EXCEPT ![p] = Dead(p)]
        /\ runs' = [runs EXCEPT ![p] = "nobody"]
    BY <1>1, <1>3 DEF KillSignals, LifeInv, RunsInv, Live
  <2>2. /\ Dead(p) \in ProcType /\ ServerOk(p, Dead(p)) /\ Dead(p).pc = "exit"
        /\ Dead(p).file = proc[p].file /\ ~Dead(p).port
    BY <1>1, DeadOk
  <2>3. /\ proc'[p] = Dead(p) /\ \A q \in Procs \ {p} : proc'[q] = proc[q]
        /\ \A q \in Procs : proc'[q].file = proc[q].file
        /\ \A q \in Procs : proc'[q].pc = "unused" => proc[q].pc = "unused"
        /\ \A q \in Procs : (proc'[q].pc = "pid") => (proc[q].pc = "pid")
    BY <1>1, <2>1, <2>2 DEF LifeInv, LifeTypes
  <2>4. LifeTypes' /\ OnePort'
    BY <1>1, <1>2, <2>1, <2>2, <2>3 DEF LifeInv, LifeTypes, OnePort
  <2>5. FileInv'
    <3>1. \A f \in Files : pidfile[f] \in Procs => Wrote(pidfile[f], f)'
      BY <1>1, <2>3 DEF LifeInv, FileInv, Wrote
    <3>2. Wrote(p, killer.file)' /\ proc'[p].pc = "exit"
      BY <1>1, <1>2, <2>2, <2>3 DEF Wrote
    <3>3. \A q \in Procs : Live(q)' /\ proc'[q].file # "none" => OnRecord(q)'
      BY <1>1, <2>2, <2>3 DEF LifeInv, FileInv, Live, OnRecord
    <3> QED
      BY <1>1, <1>2, <3>1, <3>2, <3>3 DEF FileInv
  <2>6. \A q \in Procs : ServerOk(q, proc'[q]) /\ RunsInv(q)'
    BY <1>1, <2>1, <2>2, <2>3 DEF LifeInv, LifeTypes, RunsInv
  <2> QED
    BY <2>4, <2>5, <2>6 DEF LifeInv
<1>4. CASE runs[p] # "server"
  <2>1. /\ proc' = proc /\ runs' = [runs EXCEPT ![p] = "nobody"] /\ proc[p].pc = "exit"
    BY <1>1, <1>4 DEF KillSignals, LifeInv, LifeTypes, RunsInv
  <2>2. LifeTypes' /\ OnePort'
    BY <1>1, <1>2, <2>1 DEF LifeInv, LifeTypes, OnePort
  <2>3. FileInv'
    BY <1>1, <1>2, <2>1 DEF LifeInv, FileInv, Wrote, Live, OnRecord
  <2>4. \A q \in Procs : ServerOk(q, proc'[q]) /\ RunsInv(q)'
    BY <1>1, <2>1 DEF LifeInv, LifeTypes, RunsInv
  <2> QED
    BY <2>2, <2>3, <2>4 DEF LifeInv
<1> QED
  BY <1>3, <1>4

\* Who still has the file that is removed shares it with the one killed.
LEMMA KillRemovesKeeps == ASSUME LifeInv, KillRemoves PROVE LifeInv'
<1> DEFINE f == killer.file
           k == killer.pid
<1>1. /\ killer.pc = "remove" /\ f \in Files /\ k \in Procs /\ killer' = NoKill
      /\ pidfile' = [pidfile EXCEPT ![f] = "absent"] /\ runs' = runs
      /\ proc' = [p \in Procs |->
           IF proc[p].pc = "pid" /\ proc[p].file = f
             THEN [proc[p] EXCEPT !.file = "none"] ELSE proc[p]]
      /\ Wrote(k, f) /\ proc[k].pc = "exit"
  BY DEF KillRemoves, LifeInv, LifeTypes, FileInv
<1>2. killer' \in KillerType /\ killer'.pc = "idle"
  BY <1>1 DEF NoKill, KillerType
<1>3. ASSUME NEW p \in Procs
      PROVE  /\ proc'[p] \in ProcType /\ ServerOk(p, proc'[p])
             /\ proc'[p].pc = proc[p].pc /\ proc'[p].port = proc[p].port
             /\ proc'[p].file = IF proc[p].pc = "pid" /\ proc[p].file = f THEN "none"
                                ELSE proc[p].file
  <2>1. proc[p] \in ProcType /\ ServerOk(p, proc[p])
    BY DEF LifeInv, LifeTypes
  <2>2. CASE proc[p].pc = "pid" /\ proc[p].file = f
    <3> DEFINE r == [proc[p] EXCEPT !.file = "none"]
    <3>1. proc'[p] = r
      BY <1>1, <2>2
    <3>2. r \in ProcType /\ r.pc = proc[p].pc /\ r.port = proc[p].port /\ r.file = "none"
      BY <2>1 DEF ProcType
    <3>3. ServerOk(p, r)
      BY <2>1 DEF ServerOk, ProcType
    <3> QED
      BY <2>2, <3>1, <3>2, <3>3
  <2>3. CASE ~(proc[p].pc = "pid" /\ proc[p].file = f)
    BY <1>1, <2>1, <2>3
  <2> QED
    BY <2>2, <2>3
<1>4. LifeTypes'
  BY <1>1, <1>2, <1>3 DEF LifeInv, LifeTypes
<1>5. OnePort'
  BY <1>3 DEF LifeInv, OnePort
<1>6. FileInv'
  <2>1. \A g \in Files : pidfile'[g] \in Procs => Wrote(pidfile[g], g)'
    <3>1. \A g \in Files : pidfile'[g] \in Procs => pidfile'[g] = pidfile[g]
      BY <1>1, Names DEF LifeInv, LifeTypes
    <3>2. \A g \in Files : pidfile[g] \in Procs => Wrote(pidfile[g], g)
      BY DEF LifeInv, FileInv
    <3> QED
      BY <1>3, <3>1, <3>2 DEF Wrote
  <2>2. \A q \in Procs : Live(q)' /\ proc'[q].file # "none" => OnRecord(q)'
    <3> SUFFICES ASSUME NEW q \in Procs, Live(q)', proc'[q].file # "none"
                 PROVE  OnRecord(q)'
      OBVIOUS
    <3>1. /\ Live(q) /\ proc[q].file # "none" /\ OnRecord(q)
          /\ proc'[q].file = proc[q].file /\ proc[q].file \in Files
      BY <1>3 DEF Live, LifeInv, LifeTypes, FileInv, ProcType
    <3>2. CASE proc[q].file = f
      <4>1. k # q /\ proc'[k].file = f
        BY <1>1, <1>3, <3>1 DEF Live, Wrote
      <4> QED
        BY <1>1, <3>1, <3>2, <4>1 DEF OnRecord
    <3>3. CASE proc[q].file # f
      <4>1. \A o \in Procs : proc[o].file = proc[q].file => proc'[o].file = proc[o].file
        BY <1>3, <3>3
      <4>2. pidfile'[proc[q].file] = pidfile[proc[q].file]
        BY <1>1, <3>1, <3>3 DEF LifeInv, LifeTypes
      <4>3. proc'[q].pc = proc[q].pc /\ proc'[q].file = proc[q].file
        BY <1>3, <4>1
      <4> QED
        BY <3>1, <4>1, <4>2, <4>3 DEF OnRecord
    <3> QED
      BY <3>2, <3>3
  <2> QED
    BY <1>2, <2>1, <2>2 DEF FileInv
<1>7. \A q \in Procs : ServerOk(q, proc'[q]) /\ RunsInv(q)'
  BY <1>1, <1>3 DEF LifeInv, RunsInv
<1> QED
  BY <1>4, <1>5, <1>6, <1>7 DEF LifeInv

-----------------------------------------------------------------------------
LEMMA LifeStep == LifeInv /\ [Next]_vars => LifeInv'
<1> SUFFICES ASSUME LifeInv, [Next]_vars PROVE LifeInv'
  OBVIOUS
<1>1. ASSUME NEW p \in Procs,
             Prepare(p) \/ Start(p) \/ OpenPidFails(p) \/ Reuse(p) \/ Interrupt(p)
      PROVE  LifeInv'
  <2>1. CASE Interrupt(p)
    <3>1. Live(p)
      BY <2>1 DEF Interrupt, Live
    <3> QED
      BY <2>1, <3>1, GoneKeeps, InterruptKeeps
  <2> QED
    BY <1>1, <2>1, StartKeeps, OpenPidFailsKeeps, WritePidKeeps, WritePidFailsKeeps,
       ConfigKeeps, CtxKeeps, ReuseKeeps DEF Prepare
<1>2. ASSUME NEW p \in Procs, CmdServer(p) PROVE LifeInv'
  <2>1. CASE SetupFails(p) \/ CloseFdFails(p) \/ Return(p)
    BY <2>1, GoneKeeps DEF SetupFails, CloseFdFails, Return, Live
  <2>2. CASE OpenLog(p) \/ OpenAccess(p) \/ OpenSocket(p) \/ Setup(p) \/ Bind(p) \/ Listen(p)
    BY <2>2, OpenLogKeeps, OpenAccessKeeps, OpenSocketKeeps, SetupKeeps, BindKeeps,
       ListenKeeps
  <2>3. CASE Serve(p)
    <3>1. proc[p].pc \in {"serve", "closelog"}
      BY <2>3 DEF Serve, Accept, AcceptFails, CloseLogs, Step, LifeInv, ServerOk
    <3>2. Live(p)
      BY <3>1 DEF Live
    <3> QED
      BY <2>3, <3>2, GoneKeeps, AcceptKeeps, AcceptFailsKeeps, CloseLogsKeeps DEF Serve
  <2>4. CASE CloseFd(p) \/ FreeAll(p)
    BY <2>4, CloseFdKeeps, FreeAllKeeps
  <2> QED
    BY <1>2, <2>1, <2>2, <2>3, <2>4 DEF CmdServer
<1>3. ASSUME NEW p \in Procs, Worker(p) PROVE LifeInv'
  BY <1>3, ServedKeeps, WorkerOpensKeeps, WorkerClosesKeeps DEF Worker
<1>4. CASE CmdKill
  <2>1. CASE KillFails
    BY <2>1, KillerRests DEF KillFails
  <2> QED
    BY <1>4, <2>1, KillOpensKeeps, KillReadsKeeps, KillSignalsKeeps, KillRemovesKeeps
       DEF CmdKill
<1>5. CASE UNCHANGED vars
  <2>1. LifeTypes' /\ OnePort' /\ FileInv'
    BY <1>5 DEF vars, LifeInv, LifeTypes, OnePort, FileInv, Wrote, Live, OnRecord
  <2>2. \A q \in Procs : ServerOk(q, proc'[q]) /\ RunsInv(q)'
    BY <1>5 DEF vars, LifeInv, RunsInv
  <2> QED
    BY <2>1, <2>2 DEF LifeInv
<1> QED
  BY <1>1, <1>2, <1>3, <1>4, <1>5 DEF Next

\* cmd_server, sigkill: who serves and was not interrupted listens on the
\* port, and nobody else does.
THEOREM ServersHoldThePort == Spec => []ServingHoldsPort
<1>1. LifeInv => ServingHoldsPort
  BY DEF LifeInv, OnePort, ServerOk, ServingHoldsPort
<1> QED
  BY LifeInit, LifeStep, <1>1, PTL DEF Spec

\* write_pid, cmd_kill: the PID file of a server that serves names it, unless
\* another server was given the same file.
THEOREM ServersAreRecorded == Spec => []RecordedUnlessShared
<1>1. LifeInv => RecordedUnlessShared
  BY DEF LifeInv, FileInv, Live, OnRecord, RecordedUnlessShared
<1> QED
  BY LifeInit, LifeStep, <1>1, PTL DEF Spec

\* cmd_server: the configuration and the context outlive the workers, but for
\* the two ways of a threaded server to end with some of them busy.
THEOREM ConfigOutlivesWorkers == Spec => []ConfigWhileBusy
<1>1. LifeInv => ConfigWhileBusy
  BY DEF LifeInv, ServerOk, Kept, Configured, ConfigWhileBusy
<1> QED
  BY LifeInit, LifeStep, <1>1, PTL DEF Spec

-----------------------------------------------------------------------------
(* The configuration: what the loader makes of a file, for any number of   *)
(* hosts.                                                                  *)

LEMMA LeastOfNaturals ==
  ASSUME NEW T, T \subseteq Nat, T # {}
  PROVE  \E m \in T : \A k \in T : m <= k
<1> DEFINE R == OpToRel(<, Nat)
<1>1. IsWellFoundedOn(R, Nat)
  BY NatLessThanWellFounded
<1> HIDE DEF R
<1>2. PICK m \in T : \A k \in T : ~(<<k, m>> \in R)
  BY <1>1, WFMin
<1>3. \A k \in T : ~(k < m)
  BY <1>2 DEF R, OpToRel
<1>4. \A k \in T : k \in Nat /\ m \in Nat
  OBVIOUS
<1> QED
  BY <1>3, <1>4

\* What holds at 0 and is passed on holds up to n.
LEMMA UpTo ==
  ASSUME NEW n \in Nat, NEW H, H \subseteq 0 .. n, 0 \in H,
         \A k \in 1 .. n : k - 1 \in H => k \in H
  PROVE  H = 0 .. n
<1> SUFFICES ASSUME H # 0 .. n PROVE FALSE
  OBVIOUS
<1> DEFINE L == (0 .. n) \ H
<1>1. L \subseteq Nat /\ L # {}
  <2>1. \E k \in 0 .. n : k \notin H
    <3> SUFFICES ASSUME \A k \in 0 .. n : k \in H PROVE H = 0 .. n
      OBVIOUS
    <3> QED
      OBVIOUS
  <2>2. L # {}
    BY <2>1
  <2>3. L \subseteq Nat
    OBVIOUS
  <2> QED
    BY <2>2, <2>3
<1>2. PICK m \in L : \A k \in L : m <= k
  BY <1>1, LeastOfNaturals
<1>3. m \in 1 .. n /\ m \notin H
  <2>1. m \in 0 .. n /\ m # 0
    BY <1>2
  <2> QED
    BY <1>2, <2>1
<1>4. m - 1 \in 0 .. n /\ m - 1 < m
  BY <1>3
<1>5. m - 1 \in H
  <2> SUFFICES ASSUME m - 1 \notin H PROVE FALSE
    OBVIOUS
  <2>1. m - 1 \in L
    BY <1>4
  <2>2. m <= m - 1
    BY <1>2, <2>1
  <2> QED
    BY <1>3, <2>2
<1> QED
  BY <1>3, <1>5

\* g takes each place from a + 1 to b from what it has at the place before.
Walk(g, a, b, T, base, step) ==
  /\ g \in [a .. b -> T]
  /\ g[a] = base
  /\ \A j \in a + 1 .. b : g[j] = step[<<j, g[j - 1]>>]

LEMMA WalkExists ==
  ASSUME NEW a \in Nat, NEW n \in Nat, NEW T, NEW base \in T,
         NEW step \in [(a + 1 .. a + n) \X T -> T]
  PROVE  \E g : Walk(g, a, a + n, T, base, step)
<1> DEFINE H == {k \in 0 .. n : \E g : Walk(g, a, a + k, T, base, step)}
<1>1. 0 \in H
  <2> DEFINE g == [j \in a .. a + 0 |-> base]
  <2>1. a .. a + 0 = {a} /\ a + 1 .. a + 0 = {} /\ 0 \in 0 .. n
    OBVIOUS
  <2>2. Walk(g, a, a + 0, T, base, step)
    BY <2>1 DEF Walk
  <2> HIDE DEF g
  <2> QED
    BY <2>1, <2>2
<1>2. ASSUME NEW k \in 1 .. n, k - 1 \in H PROVE k \in H
  <2>1. PICK g : Walk(g, a, a + (k - 1), T, base, step)
    BY <1>2
  <2>2. /\ g \in [a .. a + (k - 1) -> T] /\ g[a] = base
        /\ \A j \in a + 1 .. a + (k - 1) : g[j] = step[<<j, g[j - 1]>>]
    BY <2>1 DEF Walk
  <2> DEFINE last == step[<<a + k, g[a + (k - 1)]>>]
             h == [j \in a .. a + k |-> IF j = a + k THEN last ELSE g[j]]
  <2>3. last \in T
    <3>1. g[a + (k - 1)] \in T /\ a + k \in a + 1 .. a + n
      BY <2>2
    <3> QED
      BY <3>1
  <2>4. \A j \in a .. a + (k - 1) : h[j] = g[j] /\ h[j] \in T
    BY <2>2
  <2>5. h[a + k] = last
    OBVIOUS
  <2>6. \A j \in a .. a + k : j # a + k => j \in a .. a + (k - 1)
    OBVIOUS
  <2>7. h \in [a .. a + k -> T]
    <3>1. \A j \in a .. a + k : h[j] \in T
      <4> HIDE DEF h, last
      <4> QED
        BY <2>3, <2>4, <2>5, <2>6
    <3> QED
      BY <3>1
  <2> HIDE DEF h
  <2>8. h[a] = base
    BY <2>2, <2>4
  <2>9. ASSUME NEW j \in a + 1 .. a + k PROVE h[j] = step[<<j, h[j - 1]>>]
    <3>1. j - 1 \in a .. a + (k - 1)
      OBVIOUS
    <3>2. CASE j = a + k
      <4>1. j - 1 = a + (k - 1)
        BY <3>2
      <4> QED
        BY <2>4, <2>5, <3>1, <3>2, <4>1
    <3>3. CASE j # a + k
      <4>1. j \in a + 1 .. a + (k - 1) /\ j \in a .. a + (k - 1)
        BY <3>3
      <4> QED
        BY <2>2, <2>4, <3>1, <4>1
    <3> QED
      BY <3>2, <3>3
  <2>10. Walk(h, a, a + k, T, base, step)
    BY <2>7, <2>8, <2>9 DEF Walk
  <2>11. k \in 0 .. n
    OBVIOUS
  <2> QED
    BY <2>10, <2>11
<1>3. H = 0 .. n
  <2>1. H \subseteq 0 .. n
    OBVIOUS
  <2> HIDE DEF H
  <2> QED
    BY <1>1, <1>2, <2>1, UpTo
<1>4. n \in 0 .. n
  OBVIOUS
<1> QED
  BY <1>3, <1>4

ItemNames == STRING \cup {"hosts", "wwwroot", "filter", "alias", "dir", "end", "top"}

\* What an entry of the flat table can be.
Items == [of : ItemNames, k : {"text", "int", "end"}, name : ItemNames, v : Kinds \cup {"none"}]

LEMMA FieldType ==
  ASSUME NEW h \in ItemNames, NEW a \in Attributes \cup {"hosts", "wwwroot"}, NEW v \in Kinds
  PROVE  Field(h, a, v) \in Items /\ End(h) \in Items
BY DEF Field, End, Items, ItemNames, Attributes, Kinds

LEMMA EntryType ==
  ASSUME NEW e \in Entries
  PROVE  /\ e.name \in ItemNames /\ e.k \in {"text", "int"} /\ e.v \in Kinds
         /\ \A a \in DOMAIN e.attrs : e.attrs[a] \in Kinds
         /\ Open(e) \in Items /\ End(e.name) \in Items
<1>1. PICK A \in SUBSET Attributes : e.attrs \in [A -> Kinds]
  BY DEF Entries
<1>2. e.name \in ItemNames /\ e.k \in {"text", "int"} /\ e.v \in Kinds
  <2>1. e.name \in STRING /\ e.k \in {"text", "int"} /\ e.v \in Kinds
    BY DEF Entries
  <2> QED
    BY <2>1 DEF ItemNames
<1>3. Open(e) \in Items
  BY <1>2 DEF Open, Items
<1>4. End(e.name) \in Items
  <2>1. "hosts" \in Attributes \cup {"hosts", "wwwroot"} /\ "text" \in Kinds
    BY DEF Kinds
  <2> QED
    BY <1>2, <2>1, FieldType
<1> QED
  BY <1>1, <1>2, <1>3, <1>4

LEMMA PartType ==
  ASSUME NEW e \in Entries, NEW a \in Attributes
  PROVE  Part(e, a) \in Seq(Items)
<1>1. ASSUME a \in DOMAIN e.attrs PROVE Flat(e.name, a, e.attrs[a]) \in Seq(Items)
  <2>1. e.name \in ItemNames /\ e.attrs[a] \in Kinds
    BY <1>1, EntryType
  <2>2. /\ Field(e.name, a, e.attrs[a]) \in Items
        /\ Field(e.name, "filter", "text") \in Items /\ End(e.name) \in Items
    BY <2>1, FieldType DEF Attributes, Kinds
  <2> QED
    BY <2>2 DEF Flat
<1> QED
  BY <1>1 DEF Part

LEMMA BodyType ==
  ASSUME NEW e \in Entries
  PROVE  Body(e) \in Seq(Items) /\ HostEntry(e) \in Seq(Items)
<1>1. Part(e, "alias") \in Seq(Items) /\ Part(e, "dir") \in Seq(Items)
      /\ Part(e, "filter") \in Seq(Items)
  BY PartType DEF Attributes
<1>2. Body(e) \in Seq(Items)
  <2>1. Part(e, "alias") \o Part(e, "dir") \in Seq(Items)
    BY <1>1, ConcatProperties
  <2> QED
    BY <1>1, <2>1, ConcatProperties DEF Body
<1>3. Open(e) \in Items /\ End(e.name) \in Items
  BY EntryType
<1>4. <<Open(e)>> \o Body(e) \o <<End(e.name)>> \in Seq(Items)
  <2>1. <<Open(e)>> \o Body(e) \in Seq(Items)
    BY <1>2, <1>3, ConcatProperties
  <2> QED
    BY <1>3, <2>1, ConcatProperties
<1> QED
  BY <1>2, <1>3, <1>4 DEF HostEntry

-----------------------------------------------------------------------------
\* The sequence s stands in t behind the first o places.
At(t, o, s) == o + Len(s) <= Len(t) /\ \A j \in 1 .. Len(s) : t[o + j] = s[j]

LEMMA AtParts ==
  ASSUME NEW t \in Seq(Items), NEW o \in Nat, NEW a \in Seq(Items),
         NEW b \in Seq(Items), At(t, o, a \o b)
  PROVE  At(t, o, a) /\ At(t, o + Len(a), b) /\ Len(a \o b) = Len(a) + Len(b)
<1>1. Len(a) \in Nat /\ Len(b) \in Nat /\ Len(t) \in Nat
  OBVIOUS
<1>2. /\ Len(a \o b) = Len(a) + Len(b)
      /\ \A j \in 1 .. Len(a) + Len(b) :
           (a \o b)[j] = IF j <= Len(a) THEN a[j] ELSE b[j - Len(a)]
  BY ConcatProperties
<1>3. o + (Len(a) + Len(b)) <= Len(t)
      /\ \A j \in 1 .. Len(a) + Len(b) : t[o + j] = (a \o b)[j]
  BY <1>2 DEF At
<1>4. At(t, o, a)
  <2>1. \A j \in 1 .. Len(a) : j \in 1 .. Len(a) + Len(b) /\ j <= Len(a)
    BY <1>1
  <2> QED
    BY <1>1, <1>2, <1>3, <2>1 DEF At
<1>5. At(t, o + Len(a), b)
  <2>1. ASSUME NEW j \in 1 .. Len(b) PROVE t[o + Len(a) + j] = b[j]
    <3>1. Len(a) + j \in 1 .. Len(a) + Len(b) /\ ~(Len(a) + j <= Len(a))
          /\ (Len(a) + j) - Len(a) = j /\ o + (Len(a) + j) = o + Len(a) + j
      BY <1>1
    <3>2. t[o + (Len(a) + j)] = (a \o b)[Len(a) + j]
      BY <1>3, <3>1
    <3> QED
      BY <1>2, <3>1, <3>2
  <2> QED
    BY <1>1, <1>3, <2>1 DEF At
<1> QED
  BY <1>2, <1>4, <1>5

-----------------------------------------------------------------------------
\* d is the depth after each entry of a walk that begins behind place o.
Depths(d, t, o) ==
  /\ d \in [o .. Len(t) -> Nat] /\ d[o] = 1
  /\ \A j \in o + 1 .. Len(t) : d[j] = CheckEot(t[j], d[j - 1])

LEMMA IterateIs ==
  ASSUME NEW t \in Seq(Items), NEW o \in 0 .. Len(t)
  PROVE  Depths(Iterate(t, o + 1), t, o)
<1> DEFINE n == Len(t) - o
           step == [p \in (o + 1 .. o + n) \X Nat |-> CheckEot(t[p[1]], p[2])]
           Eq(f) == f = [j \in (o + 1) - 1 .. Len(t) |->
                           IF j < o + 1 THEN 1 ELSE CheckEot(t[j], f[j - 1])]
<1>1. Len(t) \in Nat /\ n \in Nat /\ o \in Nat /\ o + n = Len(t) /\ (o + 1) - 1 = o
  OBVIOUS
<1>2. step \in [(o + 1 .. o + n) \X Nat -> Nat]
  <2> SUFFICES ASSUME NEW p \in (o + 1 .. o + n) \X Nat
               PROVE  CheckEot(t[p[1]], p[2]) \in Nat
    OBVIOUS
  <2>1. p[2] \in Nat
    OBVIOUS
  <2> QED
    BY <2>1 DEF CheckEot
<1>3. PICK g : Walk(g, o, o + n, Nat, 1, step)
  <2> HIDE DEF step, n
  <2>1. 1 \in Nat
    OBVIOUS
  <2> QED
    BY <1>1, <1>2, <2>1, WalkExists
<1>4. /\ g \in [o .. Len(t) -> Nat] /\ g[o] = 1
      /\ \A j \in o + 1 .. Len(t) : g[j] = step[<<j, g[j - 1]>>]
  BY <1>1, <1>3 DEF Walk
<1>5. \A j \in o + 1 .. Len(t) : g[j] = CheckEot(t[j], g[j - 1])
  <2> TAKE j \in o + 1 .. Len(t)
  <2>1. j - 1 \in o .. Len(t) /\ j \in o + 1 .. o + n
    BY <1>1
  <2>2. g[j - 1] \in Nat
    BY <1>4, <2>1
  <2> QED
    BY <1>4, <2>1, <2>2
<1>6. Eq(g)
  <2>1. ASSUME NEW j \in o .. Len(t)
        PROVE  g[j] = IF j < o + 1 THEN 1 ELSE CheckEot(t[j], g[j - 1])
    <3>1. CASE j = o
      BY <1>1, <1>4, <3>1
    <3>2. CASE j # o
      <4>1. j \in o + 1 .. Len(t) /\ ~(j < o + 1)
        BY <1>1, <3>2
      <4> QED
        BY <1>5, <4>1
    <3> QED
      BY <3>1, <3>2
  <2>2. g = [j \in o .. Len(t) |-> g[j]]
    BY <1>4
  <2> QED
    BY <1>1, <2>1, <2>2
<1>7. PICK f : Eq(f) /\ f = Iterate(t, o + 1)
  <2>1. Iterate(t, o + 1) = CHOOSE f : Eq(f)
    BY DEF Iterate
  <2> HIDE DEF Eq
  <2> QED
    BY <1>6, <2>1
<1>8. \A j \in o .. Len(t) : f[j] = IF j < o + 1 THEN 1 ELSE CheckEot(t[j], f[j - 1])
  BY <1>1, <1>7
<1>9. f[o] = 1 /\ \A j \in o + 1 .. Len(t) : f[j] = CheckEot(t[j], f[j - 1])
  BY <1>1, <1>8
<1>10. f \in [o .. Len(t) -> Nat]
  <2> DEFINE H == {k \in 0 .. n : f[o + k] \in Nat}
  <2>1. 0 \in H
    BY <1>1, <1>9
  <2>2. ASSUME NEW k \in 1 .. n, k - 1 \in H PROVE k \in H
    <3>1. f[o + (k - 1)] \in Nat /\ (o + k) - 1 = o + (k - 1) /\ k \in 0 .. n
      BY <1>1, <2>2
    <3>2. f[o + k] = CheckEot(t[o + k], f[(o + k) - 1])
      BY <1>1, <1>9
    <3>3. f[o + k] \in Nat
      BY <3>1, <3>2 DEF CheckEot
    <3> QED
      BY <3>1, <3>3
  <2>3. H = 0 .. n
    <3>1. H \subseteq 0 .. n
      OBVIOUS
    <3> HIDE DEF H
    <3> QED
      BY <1>1, <2>1, <2>2, <3>1, UpTo
  <2>4. ASSUME NEW j \in o .. Len(t) PROVE f[j] \in Nat
    <3>1. j - o \in 0 .. n /\ o + (j - o) = j
      BY <1>1
    <3> QED
      BY <2>3, <3>1
  <2>5. f = [j \in o .. Len(t) |-> f[j]]
    BY <1>1, <1>7
  <2> QED
    BY <2>4, <2>5
<1> QED
  BY <1>7, <1>9, <1>10 DEF Depths

\* From place x to place y a walk is at depth c or below, back at c in the
\* end, and opens no table at c.
Inside(d, t, x, y, c) ==
  /\ d[y] = c
  /\ \A j \in x + 1 .. y : d[j] >= c /\ ~(t[j].v = "table" /\ d[j] = c)

\* What the table of an entry has for an attribute: nothing, a value, or a
\* table with one field.
LEMMA PartIs ==
  ASSUME NEW e \in Entries, NEW a \in Attributes
  PROVE  \/ a \notin DOMAIN e.attrs /\ Part(e, a) = << >>
         \/ /\ a \in DOMAIN e.attrs /\ e.attrs[a] # "table"
            /\ Part(e, a) = <<Field(e.name, a, e.attrs[a])>>
         \/ /\ a \in DOMAIN e.attrs /\ e.attrs[a] = "table"
            /\ Part(e, a) = <<Field(e.name, a, "table"),
                              Field(e.name, "filter", "text"), End(e.name)>>
BY DEF Part, Flat

LEMMA PartWalk ==
  ASSUME NEW t \in Seq(Items), NEW o \in Nat, NEW d, NEW x \in Nat, o <= x,
         Depths(d, t, o), NEW e \in Entries, NEW a \in Attributes,
         At(t, x, Part(e, a)), d[x] \in Nat \ {0}
  PROVE  Inside(d, t, x, x + Len(Part(e, a)), d[x])
<1> DEFINE c == d[x]
<1>0. c \in Nat /\ c # 0 /\ Len(t) \in Nat
  OBVIOUS
<1>1. \A j \in o + 1 .. Len(t) : d[j] = CheckEot(t[j], d[j - 1])
  BY DEF Depths
<1>2. CASE Part(e, a) = << >>
  BY <1>2 DEF Inside
<1>3. CASE a \in DOMAIN e.attrs /\ e.attrs[a] # "table"
           /\ Part(e, a) = <<Field(e.name, a, e.attrs[a])>>
  <2>1. Len(Part(e, a)) = 1 /\ x + 1 <= Len(t) /\ t[x + 1] = Field(e.name, a, e.attrs[a])
    BY <1>3 DEF At
  <2>2. t[x + 1].k = "text" /\ t[x + 1].v # "table"
    BY <1>3, <2>1 DEF Field
  <2>3. x + 1 \in o + 1 .. Len(t) /\ (x + 1) - 1 = x
    BY <1>0, <2>1
  <2>4. d[x + 1] = c
    BY <1>1, <2>2, <2>3 DEF CheckEot
  <2> HIDE DEF c
  <2>5. \A j \in x + 1 .. x + 1 : j = x + 1
    OBVIOUS
  <2>6. Inside(d, t, x, x + 1, c)
    BY <1>0, <2>2, <2>4, <2>5 DEF Inside
  <2> QED
    BY <2>1, <2>6 DEF c
<1>4. CASE Part(e, a) = <<Field(e.name, a, "table"),
                          Field(e.name, "filter", "text"), End(e.name)>>
  <2>1. /\ Len(Part(e, a)) = 3 /\ x + 3 <= Len(t)
        /\ t[x + 1] = Field(e.name, a, "table")
        /\ t[x + 2] = Field(e.name, "filter", "text") /\ t[x + 3] = End(e.name)
    BY <1>4 DEF At
  <2>2. /\ t[x + 1].k = "text" /\ t[x + 1].v = "table"
        /\ t[x + 2].k = "text" /\ t[x + 2].v # "table"
        /\ t[x + 3].k = "end" /\ t[x + 3].v # "table"
    BY <2>1 DEF Field, End
  <2>3. /\ x + 1 \in o + 1 .. Len(t) /\ (x + 1) - 1 = x
        /\ x + 2 \in o + 1 .. Len(t) /\ (x + 2) - 1 = x + 1
        /\ x + 3 \in o + 1 .. Len(t) /\ (x + 3) - 1 = x + 2
    BY <1>0, <2>1
  <2>4. d[x + 1] = c + 1
    BY <1>0, <1>1, <2>2, <2>3 DEF CheckEot
  <2>5. d[x + 2] = c + 1
    BY <1>0, <1>1, <2>2, <2>3, <2>4 DEF CheckEot
  <2>6. d[x + 3] = c
    <3>1. d[x + 3] = (c + 1) - 1
      BY <1>0, <1>1, <2>2, <2>3, <2>5 DEF CheckEot
    <3> QED
      BY <1>0, <3>1
  <2> HIDE DEF c
  <2>7. \A j \in x + 1 .. x + 3 : j = x + 1 \/ j = x + 2 \/ j = x + 3
    OBVIOUS
  <2>8. c >= c /\ c + 1 >= c /\ c + 1 # c
    BY <1>0
  <2>9. Inside(d, t, x, x + 3, c)
    BY <2>2, <2>4, <2>5, <2>6, <2>7, <2>8 DEF Inside
  <2> QED
    BY <2>1, <2>9 DEF c
<1> QED
  BY <1>2, <1>3, <1>4, PartIs

LEMMA BodyWalk ==
  ASSUME NEW t \in Seq(Items), NEW o \in Nat, NEW d, NEW x \in Nat, o <= x,
         Depths(d, t, o), NEW e \in Entries,
         At(t, x, Body(e)), d[x] \in Nat \ {0}
  PROVE  Inside(d, t, x, x + Len(Body(e)), d[x])
<1> DEFINE A == Part(e, "alias")
           D == Part(e, "dir")
           F == Part(e, "filter")
           y == x + Len(A)
           z == y + Len(D)
           w == z + Len(F)
           c == d[x]
<1>1. A \in Seq(Items) /\ D \in Seq(Items) /\ F \in Seq(Items)
  BY PartType DEF Attributes
<1>2. A \o D \in Seq(Items) /\ Len(A) \in Nat /\ Len(D) \in Nat /\ Len(F) \in Nat
  BY <1>1, ConcatProperties
<1>3. At(t, x, A \o D) /\ At(t, x + Len(A \o D), F)
      /\ Len(Body(e)) = Len(A \o D) + Len(F)
  <2> HIDE DEF A, D, F
  <2>1. At(t, x, (A \o D) \o F) /\ Body(e) = (A \o D) \o F
    BY DEF Body, A, D, F
  <2> DEFINE B == A \o D
  <2>2. B \in Seq(Items) /\ At(t, x, B \o F)
    BY <1>2, <2>1
  <2> HIDE DEF B
  <2>3. At(t, x, B) /\ At(t, x + Len(B), F) /\ Len(B \o F) = Len(B) + Len(F)
    BY <1>1, <2>2, AtParts
  <2> QED
    BY <2>1, <2>3 DEF B
<1>4. At(t, x, A) /\ At(t, y, D) /\ Len(A \o D) = Len(A) + Len(D)
  <2> HIDE DEF A, D, F
  <2> QED
    BY <1>1, <1>3, AtParts
<1>5. y \in Nat /\ z \in Nat /\ w \in Nat /\ o <= y /\ o <= z
      /\ x <= y /\ y <= z /\ z <= w
  <2> HIDE DEF A, D, F
  <2> QED
    BY <1>2
<1>6. x + Len(A \o D) = z /\ x + Len(Body(e)) = w
  <2> HIDE DEF A, D, F
  <2> QED
    BY <1>2, <1>3, <1>4
<1>7. Inside(d, t, x, y, c)
  BY <1>4, PartWalk DEF Attributes
<1>8. d[y] = c
  BY <1>7 DEF Inside
<1>9. Inside(d, t, y, z, c)
  <2>1. d[y] \in Nat \ {0} /\ "dir" \in Attributes
    BY <1>8 DEF Attributes
  <2>2. Inside(d, t, y, y + Len(Part(e, "dir")), d[y])
    <3> HIDE DEF y
    <3> QED
      BY <1>4, <1>5, <2>1, PartWalk
  <2> QED
    BY <1>8, <2>2
<1>10. d[z] = c
  BY <1>9 DEF Inside
<1>11. Inside(d, t, z, w, c)
  <2>1. d[z] \in Nat \ {0} /\ "filter" \in Attributes
    BY <1>10 DEF Attributes
  <2>2. Inside(d, t, z, z + Len(Part(e, "filter")), d[z])
    <3>1. At(t, z, Part(e, "filter"))
      BY <1>3, <1>6
    <3> HIDE DEF z
    <3> QED
      BY <3>1, <1>5, <2>1, PartWalk
  <2> QED
    BY <1>10, <2>2
<1>12. \A j \in x + 1 .. w : j \in x + 1 .. y \/ j \in y + 1 .. z \/ j \in z + 1 .. w
  <2> HIDE DEF y, z, w
  <2> QED
    BY <1>5
<1>13. Inside(d, t, x, w, c)
  <2> HIDE DEF y, z, w, c
  <2> QED
    BY <1>7, <1>9, <1>11, <1>12 DEF Inside
<1> QED
  BY <1>6, <1>13

-----------------------------------------------------------------------------
\* How many tables are opened, and how many closed, up to place i.
Opened(t, i) == Cardinality({j \in 1 .. i : t[j].v = "table"})
Closed(t, i) == Cardinality({j \in 1 .. i : t[j].k = "end"})

LEMMA CountStep ==
  ASSUME NEW i \in Nat, NEW S
  PROVE  /\ Cardinality({j \in 1 .. i : j \in S}) \in Nat
         /\ Cardinality({j \in 1 .. i + 1 : j \in S})
              = IF i + 1 \in S THEN Cardinality({j \in 1 .. i : j \in S}) + 1
                ELSE Cardinality({j \in 1 .. i : j \in S})
<1> DEFINE P == {j \in 1 .. i : j \in S}
           Q == {j \in 1 .. i + 1 : j \in S}
<1>1. IsFiniteSet(P)
  <2>1. IsFiniteSet(1 .. i) /\ P \subseteq 1 .. i
    BY FS_Interval
  <2> QED
    BY <2>1, FS_Subset
<1>2. i + 1 \notin P
  OBVIOUS
<1>3. Q = IF i + 1 \in S THEN P \cup {i + 1} ELSE P
  <2>1. \A j \in 1 .. i + 1 : j \in 1 .. i \/ j = i + 1
    OBVIOUS
  <2>2. \A j \in 1 .. i : j \in 1 .. i + 1
    OBVIOUS
  <2>3. i + 1 \in 1 .. i + 1
    OBVIOUS
  <2> QED
    BY <2>1, <2>2, <2>3
<1> HIDE DEF P, Q
<1>4. Cardinality(P) \in Nat
  BY <1>1, FS_CardinalityType
<1>5. Cardinality(P \cup {i + 1}) = Cardinality(P) + 1
  BY <1>1, <1>2, FS_AddElement
<1>6. Cardinality(P) \in Nat /\ Cardinality(Q) = IF i + 1 \in S THEN Cardinality(P) + 1 ELSE Cardinality(P)
  BY <1>3, <1>4, <1>5
<1> QED
  BY <1>6 DEF P, Q

LEMMA OpenedStep ==
  ASSUME NEW t, NEW i \in Nat
  PROVE  /\ Opened(t, i) \in Nat /\ Closed(t, i) \in Nat
         /\ Opened(t, i + 1) = IF t[i + 1].v = "table" THEN Opened(t, i) + 1 ELSE Opened(t, i)
         /\ Closed(t, i + 1) = IF t[i + 1].k = "end" THEN Closed(t, i) + 1 ELSE Closed(t, i)
<1> DEFINE V == {j \in Nat : t[j].v = "table"}
           K == {j \in Nat : t[j].k = "end"}
<1>1. \A n \in Nat : /\ {j \in 1 .. n : t[j].v = "table"} = {j \in 1 .. n : j \in V}
                     /\ {j \in 1 .. n : t[j].k = "end"} = {j \in 1 .. n : j \in K}
  OBVIOUS
<1>2. i + 1 \in Nat
  OBVIOUS
<1>3. (i + 1 \in V <=> t[i + 1].v = "table") /\ (i + 1 \in K <=> t[i + 1].k = "end")
  BY <1>2
<1> HIDE DEF V, K
<1>4. /\ Opened(t, i) = Cardinality({j \in 1 .. i : j \in V})
      /\ Opened(t, i + 1) = Cardinality({j \in 1 .. i + 1 : j \in V})
      /\ Closed(t, i) = Cardinality({j \in 1 .. i : j \in K})
      /\ Closed(t, i + 1) = Cardinality({j \in 1 .. i + 1 : j \in K})
  BY <1>1, <1>2 DEF Opened, Closed
<1> QED
  BY <1>3, <1>4, CountStep

LEMMA OutermostIs ==
  ASSUME NEW t, NEW i \in Nat
  PROVE  Outermost(t, i + 1) <=> Opened(t, i) = Closed(t, i + 1)
<1>1. (i + 1) - 1 = i
  OBVIOUS
<1> QED
  BY <1>1 DEF Outermost, Opened, Closed

\* Of the entries of an attribute one is found, the first.
Found(t, x, s, a) ==
  /\ Opened(t, x + Len(s)) = Closed(t, x + Len(s))
  /\ \A j \in 1 .. Len(s) : \A key \in Attributes :
       (t[x + j].name = key /\ Outermost(t, x + j)) <=> (j = 1 /\ a = key)

LEMMA PartFound ==
  ASSUME NEW t \in Seq(Items), NEW x \in Nat, NEW e \in Entries, NEW a \in Attributes,
         At(t, x, Part(e, a)), Opened(t, x) = Closed(t, x)
  PROVE  Found(t, x, Part(e, a), a)
<1>0. \A i \in Nat : i + 1 \in Nat
  OBVIOUS
<1>1. "end" \notin Attributes /\ "filter" \in Attributes
  BY DEF Attributes
<1>2. CASE Part(e, a) = << >>
  BY <1>2 DEF Found
<1>3. CASE a \in DOMAIN e.attrs /\ e.attrs[a] # "table"
           /\ Part(e, a) = <<Field(e.name, a, e.attrs[a])>>
  <2>1. Len(Part(e, a)) = 1 /\ t[x + 1] = Field(e.name, a, e.attrs[a])
    BY <1>3 DEF At
  <2>2. t[x + 1].k = "text" /\ t[x + 1].v # "table" /\ t[x + 1].name = a
    BY <1>3, <2>1 DEF Field
  <2>3. Opened(t, x + 1) = Opened(t, x) /\ Closed(t, x + 1) = Closed(t, x)
    BY <2>2, OpenedStep
  <2>4. Outermost(t, x + 1)
    BY <2>3, OutermostIs
  <2>5. \A j \in 1 .. 1 : j = 1
    OBVIOUS
  <2> QED
    BY <2>1, <2>2, <2>3, <2>4, <2>5 DEF Found
<1>4. CASE Part(e, a) = <<Field(e.name, a, "table"),
                          Field(e.name, "filter", "text"), End(e.name)>>
  <2>1. /\ Len(Part(e, a)) = 3 /\ t[x + 1] = Field(e.name, a, "table")
        /\ t[x + 2] = Field(e.name, "filter", "text") /\ t[x + 3] = End(e.name)
    BY <1>4 DEF At
  <2>2. /\ t[x + 1].k # "end" /\ t[x + 1].v = "table" /\ t[x + 1].name = a
        /\ t[x + 2].k # "end" /\ t[x + 2].v # "table"
        /\ t[x + 3].k = "end" /\ t[x + 3].v # "table" /\ t[x + 3].name = "end"
    BY <2>1 DEF Field, End
  <2>3. x + 1 \in Nat /\ x + 2 \in Nat /\ (x + 1) + 1 = x + 2 /\ (x + 2) + 1 = x + 3
    OBVIOUS
  <2>4. /\ Opened(t, x) \in Nat
        /\ Opened(t, x + 1) = Opened(t, x) + 1 /\ Closed(t, x + 1) = Closed(t, x)
    BY <2>2, OpenedStep
  <2>5. Opened(t, x + 2) = Opened(t, x + 1) /\ Closed(t, x + 2) = Closed(t, x + 1)
    BY <2>2, <2>3, OpenedStep
  <2>6. Opened(t, x + 3) = Opened(t, x + 2) /\ Closed(t, x + 3) = Closed(t, x + 2) + 1
    BY <2>2, <2>3, OpenedStep
  <2>7. Outermost(t, x + 1)
    BY <2>4, OutermostIs
  <2>8. ~Outermost(t, x + 2)
    <3>1. Opened(t, x + 1) # Closed(t, x + 2)
      BY <2>4, <2>5
    <3> QED
      BY <2>3, <3>1, OutermostIs
  <2>9. Opened(t, x + 3) = Closed(t, x + 3)
    BY <2>4, <2>5, <2>6
  <2>10. \A j \in 1 .. 3 : j = 1 \/ j = 2 \/ j = 3
    OBVIOUS
  <2>11. \A key \in Attributes : key # "end"
    BY <1>1
  <2> QED
    BY <2>1, <2>2, <2>7, <2>8, <2>9, <2>10, <2>11 DEF Found
<1> QED
  BY <1>2, <1>3, <1>4, PartIs

LEMMA LeastOfOne ==
  ASSUME NEW m \in Nat
  PROVE  Min({m}) = m
<1>1. \E x \in {m} : \A y \in {m} : x <= y
  OBVIOUS
<1>2. Min({m}) \in {m}
  BY <1>1 DEF Min
<1> QED
  BY <1>2

LEMMA BodyFound ==
  ASSUME NEW e \in Entries, NEW key \in Attributes
  PROVE  \E x \in Nat :
           /\ At(Body(e), x, Part(e, key))
           /\ \A i \in DOMAIN Body(e) :
                Body(e)[i].name = key /\ Outermost(Body(e), i)
                  <=> i = x + 1 /\ Part(e, key) # << >>
<1> DEFINE A == Part(e, "alias")
           D == Part(e, "dir")
           F == Part(e, "filter")
           t == Body(e)
           y == Len(A)
           z == y + Len(D)
           w == z + Len(F)
           Is(i) == t[i].name = key /\ Outermost(t, i)
<1>1. A \in Seq(Items) /\ D \in Seq(Items) /\ F \in Seq(Items) /\ t \in Seq(Items)
  BY PartType, BodyType DEF Attributes
<1>2. A \o D \in Seq(Items) /\ Len(A) \in Nat /\ Len(D) \in Nat /\ Len(F) \in Nat
  BY <1>1, ConcatProperties
<1>3. At(t, 0, t)
  BY <1>1 DEF At
<1>4. At(t, 0, A \o D) /\ At(t, 0 + Len(A \o D), F) /\ Len(t) = Len(A \o D) + Len(F)
  <2> DEFINE B == A \o D
  <2>1. t = B \o F
    BY DEF Body
  <2> HIDE DEF A, D, F, B, t
  <2>2. B \in Seq(Items) /\ At(t, 0, B \o F) /\ 0 \in Nat
    BY <1>2, <1>3, <2>1 DEF B
  <2>3. At(t, 0, B) /\ At(t, 0 + Len(B), F) /\ Len(B \o F) = Len(B) + Len(F)
    BY <1>1, <2>2, AtParts
  <2> QED
    BY <2>1, <2>3 DEF B
<1>5. At(t, 0, A) /\ At(t, 0 + Len(A), D) /\ Len(A \o D) = Len(A) + Len(D)
  <2> HIDE DEF A, D, F, t
  <2>1. 0 \in Nat
    OBVIOUS
  <2> QED
    BY <1>1, <1>4, <2>1, AtParts
<1>6. 0 + Len(A) = y /\ 0 + Len(A \o D) = z /\ Len(t) = w /\ y \in Nat /\ z \in Nat /\ w \in Nat
  <2> HIDE DEF A, D, F, t
  <2> QED
    BY <1>2, <1>4, <1>5
<1>7. At(t, 0, A) /\ At(t, y, D) /\ At(t, z, F)
  BY <1>4, <1>5, <1>6
<1>8. Opened(t, 0) = Closed(t, 0)
  <2>1. 1 .. 0 = {}
    OBVIOUS
  <2> QED
    BY <2>1 DEF Opened, Closed
<1>9. Found(t, 0, A, "alias")
  <2>1. 0 \in Nat /\ "alias" \in Attributes
    BY DEF Attributes
  <2> HIDE DEF t
  <2> QED
    BY <1>1, <1>7, <1>8, <2>1, PartFound
<1>10. Found(t, y, D, "dir")
  <2>1. "dir" \in Attributes /\ Opened(t, y) = Closed(t, y)
    BY <1>6, <1>9 DEF Attributes, Found
  <2> HIDE DEF t, y
  <2> QED
    BY <1>1, <1>6, <1>7, <2>1, PartFound
<1>11. Found(t, z, F, "filter")
  <2>1. "filter" \in Attributes /\ Opened(t, z) = Closed(t, z)
    BY <1>10 DEF Attributes, Found
  <2> HIDE DEF t, z
  <2> QED
    BY <1>1, <1>6, <1>7, <2>1, PartFound
<1>12. /\ \A j \in 1 .. Len(A) : Is(0 + j) <=> j = 1 /\ "alias" = key
       /\ \A j \in 1 .. Len(D) : Is(y + j) <=> j = 1 /\ "dir" = key
       /\ \A j \in 1 .. Len(F) : Is(z + j) <=> j = 1 /\ "filter" = key
  <2> HIDE DEF t, y, z, A, D, F
  <2> QED
    BY <1>9, <1>10, <1>11 DEF Found
<1>13. (A # << >> <=> Len(A) > 0) /\ (D # << >> <=> Len(D) > 0) /\ (F # << >> <=> Len(F) > 0)
  <2> HIDE DEF A, D, F
  <2> QED
    BY <1>1, EmptySeq
<1>14. DOMAIN t = 1 .. w
  BY <1>1, <1>6
<1>15. \A i \in 1 .. w : \/ i \in 1 .. Len(A) /\ 0 + i = i
                         \/ i - y \in 1 .. Len(D) /\ y + (i - y) = i
                         \/ i - z \in 1 .. Len(F) /\ z + (i - z) = i
  <2> HIDE DEF A, D, F
  <2> QED
    BY <1>2
<1>16. key = "alias" \/ key = "dir" \/ key = "filter"
  BY DEF Attributes
<1> HIDE DEF Is, A, D, F, t
<1>17. CASE key = "alias"
  <2>1. \A i \in 1 .. w : Is(i) <=> i = 0 + 1 /\ A # << >>
    <3> TAKE i \in 1 .. w
    <3>1. CASE i \in 1 .. Len(A)
      <4>1. 0 + i = i
        OBVIOUS
      <4>2. Is(i) <=> i = 1
        BY <1>12, <1>17, <3>1, <4>1
      <4> QED
        BY <1>2, <1>13, <3>1, <4>2
    <3>2. CASE i \notin 1 .. Len(A)
      <4>1. ~Is(i)
        BY <1>12, <1>15, <1>17, <3>2
      <4>2. i = 1 => ~(Len(A) > 0)
        BY <1>2, <3>2
      <4> QED
        BY <1>13, <4>1, <4>2
    <3> QED
      BY <3>1, <3>2
  <2>2. 0 \in Nat /\ Part(e, key) = A
    BY <1>17 DEF A
  <2> QED
    BY <1>7, <1>14, <2>1, <2>2 DEF t, Is
<1>18. CASE key = "dir"
  <2>1. \A i \in 1 .. w : Is(i) <=> i = y + 1 /\ D # << >>
    <3> TAKE i \in 1 .. w
    <3>1. CASE i - y \in 1 .. Len(D)
      <4>1. y + (i - y) = i
        BY <1>2
      <4>2. Is(i) <=> i - y = 1
        BY <1>12, <1>18, <3>1, <4>1
      <4> QED
        BY <1>2, <1>13, <3>1, <4>2
    <3>2. CASE i - y \notin 1 .. Len(D)
      <4>1. ~Is(i)
        BY <1>12, <1>15, <1>18, <3>2
      <4>2. i = y + 1 => ~(Len(D) > 0)
        BY <1>2, <3>2
      <4> QED
        BY <1>13, <4>1, <4>2
    <3> QED
      BY <3>1, <3>2
  <2>2. y \in Nat /\ Part(e, key) = D
    BY <1>6, <1>18 DEF D
  <2> QED
    BY <1>7, <1>14, <2>1, <2>2 DEF t, Is
<1>19. CASE key = "filter"
  <2>1. \A i \in 1 .. w : Is(i) <=> i = z + 1 /\ F # << >>
    <3> TAKE i \in 1 .. w
    <3>1. CASE i - z \in 1 .. Len(F)
      <4>1. z + (i - z) = i
        BY <1>2
      <4>2. Is(i) <=> i - z = 1
        BY <1>12, <1>19, <3>1, <4>1
      <4> QED
        BY <1>2, <1>13, <3>1, <4>2
    <3>2. CASE i - z \notin 1 .. Len(F)
      <4>1. ~Is(i)
        BY <1>12, <1>15, <1>19, <3>2
      <4>2. i = z + 1 => ~(Len(F) > 0)
        BY <1>2, <3>2
      <4> QED
        BY <1>13, <4>1, <4>2
    <3> QED
      BY <3>1, <3>2
  <2>2. z \in Nat /\ Part(e, key) = F
    BY <1>6, <1>19 DEF F
  <2> QED
    BY <1>7, <1>14, <2>1, <2>2 DEF t, Is
<1> QED
  BY <1>16, <1>17, <1>18, <1>19

\* What a host should have for an attribute.
ValueOf(e, a) ==
  IF a \notin DOMAIN e.attrs THEN "absent"
  ELSE IF e.attrs[a] = "text" THEN e.name ELSE "null"

LEMMA ValueFound ==
  ASSUME NEW e \in Entries, NEW a \in Attributes
  PROVE  GetCharValue(Body(e), a) = ValueOf(e, a)
<1> DEFINE t == Body(e)
           found == {i \in DOMAIN t : t[i].name = a /\ Outermost(t, i)}
<1>1. PICK x \in Nat :
        /\ At(t, x, Part(e, a))
        /\ \A i \in DOMAIN t :
             t[i].name = a /\ Outermost(t, i) <=> i = x + 1 /\ Part(e, a) # << >>
  BY BodyFound
<1>2. t \in Seq(Items)
  BY BodyType
<1> HIDE DEF t
<1>3. CASE a \notin DOMAIN e.attrs /\ Part(e, a) = << >>
  <2>1. found = {}
    BY <1>1, <1>3
  <2>2. Geti(t, a) = -1
    BY <2>1 DEF Geti
  <2> QED
    BY <1>3, <2>2 DEF GetCharValue, ValueOf, t
<1>4. CASE a \in DOMAIN e.attrs /\ Part(e, a) # << >>
           /\ Part(e, a)[1] = Field(e.name, a, e.attrs[a]) /\ Len(Part(e, a)) >= 1
           /\ Len(Part(e, a)) \in Nat
  <2>1. x + 1 \in DOMAIN t /\ t[x + 1] = Field(e.name, a, e.attrs[a])
    <3>1. x + Len(Part(e, a)) <= Len(t) /\ Len(t) \in Nat /\ DOMAIN t = 1 .. Len(t)
          /\ t[x + 1] = Part(e, a)[1]
      BY <1>1, <1>2, <1>4 DEF At
    <3> QED
      BY <1>4, <3>1
  <2>2. found = {x + 1}
    BY <1>1, <1>4, <2>1
  <2>3. Geti(t, a) = x + 1
    <3>1. Geti(t, a) = Min({x + 1}) /\ x + 1 \in Nat
      BY <2>2 DEF Geti
    <3> QED
      BY <3>1, LeastOfOne
  <2>4. x + 1 # -1
    OBVIOUS
  <2>5. t[x + 1].v = e.attrs[a] /\ t[x + 1].of = e.name
    BY <2>1 DEF Field
  <2> QED
    BY <1>4, <2>3, <2>4, <2>5 DEF GetCharValue, ValueOf, t
<1>5. \/ a \notin DOMAIN e.attrs /\ Part(e, a) = << >>
      \/ a \in DOMAIN e.attrs /\ Part(e, a) # << >>
           /\ Part(e, a)[1] = Field(e.name, a, e.attrs[a]) /\ Len(Part(e, a)) >= 1
           /\ Len(Part(e, a)) \in Nat
  BY PartIs
<1> QED
  BY <1>3, <1>4, <1>5

LEMMA LeastIs ==
  ASSUME NEW T, NEW m \in T, T \subseteq Int, \A y \in T : m <= y
  PROVE  Min(T) = m
<1>1. \E x \in T : \A y \in T : x <= y
  OBVIOUS
<1>2. Min(T) \in T /\ \A y \in T : Min(T) <= y
  BY <1>1 DEF Min
<1>3. Min(T) \in Int /\ m \in Int /\ Min(T) <= m /\ m <= Min(T)
  BY <1>2
<1> QED
  BY <1>3

\* The copy of a host's table has what was written between its braces.
LEMMA CopyIs ==
  ASSUME NEW t \in Seq(Items), NEW o \in Nat, NEW e \in Entries,
         At(t, o, Body(e)), At(t, o + Len(Body(e)), <<End(e.name)>>)
  PROVE  ShallowCopy(t, o + 1) = Body(e)
<1> DEFINE d == Iterate(t, o + 1)
           L == Len(Body(e))
           over == {j \in o + 1 .. Len(t) : d[j] = 0}
           m == o + L + 1
<1>1. Body(e) \in Seq(Items) /\ L \in Nat /\ Len(t) \in Nat
  <2>1. Body(e) \in Seq(Items)
    BY BodyType
  <2> QED
    BY <2>1
<1>2. o + L + 1 <= Len(t) /\ t[m] = End(e.name)
  <2>1. Len(<<End(e.name)>>) = 1 /\ 1 \in 1 .. 1
    OBVIOUS
  <2>2. o + L + 1 <= Len(t) /\ \A j \in 1 .. 1 : t[o + L + j] = <<End(e.name)>>[j]
    BY <2>1 DEF At
  <2> QED
    BY <2>2
<1>3. o \in 0 .. Len(t) /\ m \in o + 1 .. Len(t) /\ m - 1 = o + L
  BY <1>1, <1>2
<1>4. Depths(d, t, o)
  BY <1>3, IterateIs
<1>5. Inside(d, t, o, o + L, 1)
  <2>1. d[o] = 1 /\ d[o] \in Nat \ {0} /\ o <= o
    BY <1>4 DEF Depths
  <2> HIDE DEF d
  <2>2. Inside(d, t, o, o + Len(Body(e)), d[o])
    BY <1>4, <2>1, BodyWalk
  <2> QED
    BY <2>1, <2>2
<1>6. d[m] = 0
  <2>1. d[m] = CheckEot(t[m], d[m - 1]) /\ d[m - 1] = 1 /\ t[m].k = "end"
    BY <1>2, <1>3, <1>4, <1>5 DEF Depths, Inside, End
  <2> QED
    BY <2>1 DEF CheckEot
<1>7. \A j \in over : m <= j
  <2> SUFFICES ASSUME NEW j \in o + 1 .. Len(t), d[j] = 0, ~(m <= j) PROVE FALSE
    OBVIOUS
  <2>1. j \in o + 1 .. o + L
    BY <1>1
  <2>2. d[j] >= 1
    BY <1>5, <2>1 DEF Inside
  <2> QED
    BY <2>2
<1>8. Min(over \cup {Len(t) + 1}) = m
  <2> DEFINE T == over \cup {Len(t) + 1}
  <2>1. m \in T /\ T \subseteq Int /\ \A y \in T : m <= y
    BY <1>1, <1>2, <1>3, <1>6, <1>7
  <2> HIDE DEF T
  <2>2. Min(T) = m
    BY <2>1, LeastIs
  <2> QED
    BY <2>2 DEF T
<1>9. ShallowCopy(t, o + 1) = SubSeq(t, o + 1, o + L)
  BY <1>3, <1>8 DEF ShallowCopy
<1>10. SubSeq(t, o + 1, o + L) = Body(e)
  <2>1. /\ SubSeq(t, o + 1, o + L) \in Seq(Items)
        /\ Len(SubSeq(t, o + 1, o + L)) = L
        /\ \A j \in 1 .. L : SubSeq(t, o + 1, o + L)[j] = t[o + j]
    <3>1. \A i \in o + 1 .. o + L : t[i] \in Items
      <4>1. \A i \in o + 1 .. o + L : i \in 1 .. Len(t)
        BY <1>1, <1>2
      <4> QED
        BY <4>1
    <3> HIDE DEF L
    <3> DEFINE m1 == o + 1
               n1 == o + L
    <3>2. /\ m1 \in Int /\ n1 \in Int /\ n1 - m1 + 1 = L
          /\ (m1 <= n1 => n1 - m1 + 1 = L) /\ (~(m1 <= n1) => L = 0)
          /\ \A j \in 1 .. L : m1 + j - 1 = o + j
      BY <1>1
    <3>3. \A i \in m1 .. n1 : t[i] \in Items
      BY <3>1
    <3> HIDE DEF m1, n1
    <3>4. /\ SubSeq(t, m1, n1) \in Seq(Items)
          /\ Len(SubSeq(t, m1, n1)) = IF m1 <= n1 THEN n1 - m1 + 1 ELSE 0
          /\ \A j \in 1 .. n1 - m1 + 1 : SubSeq(t, m1, n1)[j] = t[m1 + j - 1]
      BY <3>2, <3>3, SubSeqProperties
    <3>5. /\ SubSeq(t, m1, n1) \in Seq(Items) /\ Len(SubSeq(t, m1, n1)) = L
          /\ \A j \in 1 .. L : SubSeq(t, m1, n1)[j] = t[o + j]
      BY <3>2, <3>4
    <3> QED
      BY <3>5 DEF m1, n1
  <2>2. \A j \in 1 .. L : t[o + j] = Body(e)[j]
    BY DEF At
  <2> HIDE DEF L
  <2>3. Len(Body(e)) = L
    BY DEF L
  <2> QED
    BY <1>1, <2>1, <2>2, <2>3, SeqEqual
<1> QED
  BY <1>9, <1>10

\* What a host is made of.
HostFor(e) ==
  [name |-> e.name, alias |-> ValueOf(e, "alias"), dir |-> ValueOf(e, "dir"),
   filter |-> ValueOf(e, "filter")]

\* A table among the hosts: how it stands in the flat table.
LEMMA TableAt ==
  ASSUME NEW t \in Seq(Items), NEW x \in Nat, NEW e \in Entries,
         e.v = "table", At(t, x, HostEntry(e))
  PROVE  /\ x + 1 <= Len(t) /\ t[x + 1] = Open(e) /\ At(t, x + 1, Body(e))
         /\ At(t, x + 1 + Len(Body(e)), <<End(e.name)>>)
         /\ Len(HostEntry(e)) = Len(Body(e)) + 2 /\ Len(Body(e)) \in Nat
<1> DEFINE a == <<Open(e)>>
           b == Body(e)
           c == <<End(e.name)>>
           ab == a \o b
<1>1. a \in Seq(Items) /\ b \in Seq(Items) /\ c \in Seq(Items) /\ Len(a) = 1 /\ Len(c) = 1
  <2>1. Open(e) \in Items /\ End(e.name) \in Items
    BY EntryType
  <2> QED
    BY <2>1, BodyType
<1>2. ab \in Seq(Items) /\ Len(b) \in Nat
  BY <1>1, ConcatProperties
<1>3. HostEntry(e) = ab \o c
  BY DEF HostEntry
<1> HIDE DEF a, b, c, ab
<1>4. At(t, x, ab) /\ At(t, x + Len(ab), c) /\ Len(ab \o c) = Len(ab) + Len(c)
  <2>1. At(t, x, ab \o c)
    BY <1>3
  <2>2. ab \in Seq(Items) /\ c \in Seq(Items)
    BY <1>1, <1>2
  <2> QED
    BY <2>1, <2>2, AtParts
<1>5. At(t, x, a) /\ At(t, x + Len(a), b) /\ Len(ab) = Len(a) + Len(b)
  <2>1. At(t, x, a \o b)
    BY <1>4 DEF ab
  <2>2. At(t, x, a) /\ At(t, x + Len(a), b) /\ Len(a \o b) = Len(a) + Len(b)
    <3>1. a \in Seq(Items) /\ b \in Seq(Items)
      BY <1>1
    <3> QED
      BY <2>1, <3>1, AtParts
  <2> QED
    BY <2>2 DEF ab
<1>6. x + 1 <= Len(t) /\ t[x + 1] = Open(e)
  BY <1>5 DEF At, a
<1>7. x + Len(ab) = x + 1 + Len(b)
  BY <1>1, <1>2, <1>5
<1> HIDE DEF a, b, c, ab
<1>8. At(t, x + 1, b) /\ At(t, x + 1 + Len(b), c)
      /\ Len(HostEntry(e)) = Len(b) + 2
  BY <1>1, <1>2, <1>3, <1>4, <1>5, <1>7
<1> QED
  BY <1>2, <1>6, <1>8 DEF b, c

LEMMA HostOfIs ==
  ASSUME NEW t \in Seq(Items), NEW x \in Nat, NEW e \in Entries,
         e.v = "table", At(t, x, HostEntry(e))
  PROVE  HostOf(t, x + 1) = HostFor(e)
<1>1. /\ t[x + 1] = Open(e) /\ At(t, x + 1, Body(e))
      /\ At(t, x + 1 + Len(Body(e)), <<End(e.name)>>)
  BY TableAt
<1>2. ShallowCopy(t, (x + 1) + 1) = Body(e)
  <2>1. x + 1 \in Nat
    OBVIOUS
  <2> QED
    BY <1>1, <2>1, CopyIs
<1>3. t[x + 1].name = e.name
  BY <1>1 DEF Open
<1>4. /\ GetCharValue(Body(e), "alias") = ValueOf(e, "alias")
      /\ GetCharValue(Body(e), "dir") = ValueOf(e, "dir")
      /\ GetCharValue(Body(e), "filter") = ValueOf(e, "filter")
  BY ValueFound DEF Attributes
<1> QED
  BY <1>2, <1>3, <1>4 DEF HostOf, HostFor

-----------------------------------------------------------------------------
\* h is what hosts_iterator has gathered after each entry behind place o, if
\* d is the depth there.
Gathered(h, d, t, o) ==
  /\ h[o] = << >>
  /\ \A j \in o + 1 .. Len(t) :
       h[j] = IF IsHost(t[j]) /\ d[j] = 2 THEN Append(h[j - 1], HostOf(t, j)) ELSE h[j - 1]

LEMMA HostsUpToIs ==
  ASSUME NEW t \in Seq(Items), NEW o \in 0 .. Len(t)
  PROVE  Gathered(HostsUpTo(t, o), Iterate(t, o + 1), t, o)
<1> DEFINE n == Len(t) - o
           d == Iterate(t, o + 1)
           Hosts == {HostOf(t, j) : j \in o + 1 .. o + n}
           T == Seq(Hosts)
           Takes(j) == IsHost(t[j]) /\ d[j] = 2
           step == [p \in (o + 1 .. o + n) \X T |->
                      IF Takes(p[1]) THEN Append(p[2], HostOf(t, p[1])) ELSE p[2]]
           Eq(f) == f = [j \in o .. Len(t) |->
                           IF j = o THEN << >>
                           ELSE IF IsHost(t[j]) /\ d[j] = 2
                             THEN Append(f[j - 1], HostOf(t, j)) ELSE f[j - 1]]
<1>1. Len(t) \in Nat /\ n \in Nat /\ o \in Nat /\ o + n = Len(t)
  OBVIOUS
<1> HIDE DEF n, d
<1>2. step \in [(o + 1 .. o + n) \X T -> T]
  <2> SUFFICES ASSUME NEW p \in (o + 1 .. o + n) \X T
               PROVE  (IF Takes(p[1]) THEN Append(p[2], HostOf(t, p[1])) ELSE p[2]) \in T
    OBVIOUS
  <2>1. p[2] \in T /\ p[1] \in o + 1 .. o + n
    OBVIOUS
  <2>2. HostOf(t, p[1]) \in Hosts
    BY <2>1
  <2> HIDE DEF Hosts, Takes
  <2>3. Append(p[2], HostOf(t, p[1])) \in T
    BY <2>1, <2>2, AppendProperties
  <2> QED
    BY <2>1, <2>3
<1>3. PICK g : Walk(g, o, o + n, T, << >>, step)
  <2>1. << >> \in T
    OBVIOUS
  <2> HIDE DEF step, T
  <2> QED
    BY <1>1, <1>2, <2>1, WalkExists
<1>4. /\ g \in [o .. Len(t) -> T] /\ g[o] = << >>
      /\ \A j \in o + 1 .. Len(t) : g[j] = step[<<j, g[j - 1]>>]
  BY <1>1, <1>3 DEF Walk
<1>5. \A j \in o + 1 .. Len(t) :
        g[j] = IF Takes(j) THEN Append(g[j - 1], HostOf(t, j)) ELSE g[j - 1]
  <2> TAKE j \in o + 1 .. Len(t)
  <2>1. j - 1 \in o .. Len(t) /\ j \in o + 1 .. o + n
    BY <1>1
  <2>2. g[j - 1] \in T
    <3> HIDE DEF T, step
    <3> QED
      BY <1>4, <2>1
  <2> HIDE DEF Takes, T
  <2>3. step[<<j, g[j - 1]>>] = IF Takes(j) THEN Append(g[j - 1], HostOf(t, j)) ELSE g[j - 1]
    BY <2>1, <2>2
  <2> QED
    BY <1>4, <2>3
<1>6. Eq(g)
  <2>1. ASSUME NEW j \in o .. Len(t)
        PROVE  g[j] = IF j = o THEN << >>
                      ELSE IF IsHost(t[j]) /\ d[j] = 2
                        THEN Append(g[j - 1], HostOf(t, j)) ELSE g[j - 1]
    <3>1. CASE j = o
      BY <1>4, <3>1
    <3>2. CASE j # o
      <4>1. j \in o + 1 .. Len(t)
        BY <1>1, <3>2
      <4> QED
        BY <1>5, <3>2, <4>1
    <3> QED
      BY <3>1, <3>2
  <2>2. g = [j \in o .. Len(t) |-> g[j]]
    <3> HIDE DEF T, step
    <3> QED
      BY <1>4
  <2> HIDE DEF step, T
  <2> QED
    BY <2>1, <2>2
<1>7. PICK f : Eq(f) /\ f = HostsUpTo(t, o)
  <2>1. HostsUpTo(t, o) = CHOOSE f : Eq(f)
    BY DEF HostsUpTo, d
  <2> HIDE DEF Eq
  <2> QED
    BY <1>6, <2>1
<1>8. \A j \in o .. Len(t) :
        f[j] = IF j = o THEN << >>
               ELSE IF IsHost(t[j]) /\ d[j] = 2
                 THEN Append(f[j - 1], HostOf(t, j)) ELSE f[j - 1]
  BY <1>7
<1>9. f[o] = << >>
  <2>1. o \in o .. Len(t)
    BY <1>1
  <2> QED
    BY <1>8, <2>1
<1>10. \A j \in o + 1 .. Len(t) :
         f[j] = IF IsHost(t[j]) /\ d[j] = 2 THEN Append(f[j - 1], HostOf(t, j)) ELSE f[j - 1]
  <2>1. \A j \in o + 1 .. Len(t) : j \in o .. Len(t) /\ j # o
    BY <1>1
  <2> QED
    BY <1>8, <2>1
<1> QED
  BY <1>7, <1>9, <1>10 DEF Gathered, d

\* Nothing is gathered where no table is opened at depth two.
LEMMA NothingGathered ==
  ASSUME NEW t \in Seq(Items), NEW o \in Nat, NEW d, NEW h, Gathered(h, d, t, o),
         NEW x \in Nat, NEW z \in Nat, o <= x, x <= z, z <= Len(t), Inside(d, t, x, z, 2)
  PROVE  h[z] = h[x]
<1> DEFINE n == z - x
           H == {k \in 0 .. n : h[x + k] = h[x]}
<1>0. Len(t) \in Nat /\ n \in Nat /\ x + n = z
  OBVIOUS
<1> HIDE DEF n
<1>1. 0 \in H
  BY <1>0
<1>2. ASSUME NEW k \in 1 .. n, k - 1 \in H PROVE k \in H
  <2>1. x + k \in o + 1 .. Len(t) /\ x + k \in x + 1 .. z /\ (x + k) - 1 = x + (k - 1)
        /\ k \in 0 .. n
    BY <1>0
  <2>2. ~(t[x + k].v = "table" /\ d[x + k] = 2)
    BY <2>1 DEF Inside
  <2>3. h[x + k] = h[(x + k) - 1]
    BY <2>1, <2>2 DEF Gathered, IsHost
  <2>4. h[x + (k - 1)] = h[x]
    BY <1>2
  <2> QED
    BY <2>1, <2>3, <2>4
<1>3. H = 0 .. n
  <2>1. H \subseteq 0 .. n
    OBVIOUS
  <2> HIDE DEF H
  <2> QED
    BY <1>0, <1>1, <1>2, <2>1, UpTo
<1>4. n \in 0 .. n
  BY <1>0
<1> QED
  BY <1>0, <1>3, <1>4

\* An entry of `hosts' adds one host or none and leaves the depth as it was.
LEMMA EntryStep ==
  ASSUME NEW t \in Seq(Items), NEW o \in Nat, NEW d, NEW h,
         Depths(d, t, o), Gathered(h, d, t, o),
         NEW x \in Nat, o <= x, d[x] = 1, NEW e \in Entries, At(t, x, HostEntry(e))
  PROVE  /\ d[x + Len(HostEntry(e))] = 1
         /\ h[x + Len(HostEntry(e))] = IF IsHost(e) THEN Append(h[x], HostFor(e)) ELSE h[x]
<1>0. Len(t) \in Nat /\ e.k # "end"
  BY EntryType
<1>1. /\ \A j \in o + 1 .. Len(t) : d[j] = CheckEot(t[j], d[j - 1])
      /\ \A j \in o + 1 .. Len(t) :
           h[j] = IF IsHost(t[j]) /\ d[j] = 2 THEN Append(h[j - 1], HostOf(t, j)) ELSE h[j - 1]
  BY DEF Depths, Gathered
<1>2. CASE e.v # "table"
  <2>1. Len(HostEntry(e)) = 1 /\ x + 1 <= Len(t) /\ t[x + 1] = Open(e)
    <3>1. HostEntry(e) = <<Open(e)>>
      BY <1>2 DEF HostEntry
    <3> QED
      BY <3>1 DEF At
  <2>2. x + 1 \in o + 1 .. Len(t) /\ (x + 1) - 1 = x
    BY <1>0, <2>1
  <2>3. t[x + 1].k # "end" /\ t[x + 1].v # "table" /\ ~IsHost(t[x + 1]) /\ ~IsHost(e)
    BY <1>0, <1>2, <2>1 DEF Open, IsHost
  <2>4. d[x + 1] = 1
    BY <1>1, <2>2, <2>3 DEF CheckEot
  <2>5. h[x + 1] = h[x]
    BY <1>1, <2>2, <2>3
  <2> QED
    BY <2>1, <2>3, <2>4, <2>5
<1>3. CASE e.v = "table"
  <2> DEFINE L == Len(Body(e))
             y == x + 1
             z == y + L
  <2>1. /\ y <= Len(t) /\ t[y] = Open(e) /\ At(t, y, Body(e)) /\ At(t, z, <<End(e.name)>>)
        /\ Len(HostEntry(e)) = L + 2 /\ L \in Nat
    BY <1>3, TableAt
  <2>2. z + 1 <= Len(t) /\ t[z + 1] = End(e.name)
    <3>1. Len(<<End(e.name)>>) = 1 /\ 1 \in 1 .. 1
      OBVIOUS
    <3>2. z + 1 <= Len(t) /\ \A j \in 1 .. 1 : t[z + j] = <<End(e.name)>>[j]
      BY <2>1, <3>1 DEF At
    <3> QED
      BY <3>2
  <2>3. /\ y \in o + 1 .. Len(t) /\ y - 1 = x /\ y \in Nat /\ o <= y
        /\ z + 1 \in o + 1 .. Len(t) /\ (z + 1) - 1 = z /\ z <= Len(t)
        /\ x + (L + 2) = z + 1
    BY <1>0, <2>1, <2>2
  <2>4. /\ t[y].k # "end" /\ t[y].v = "table" /\ (IsHost(t[y]) <=> IsHost(e))
        /\ t[z + 1].k = "end" /\ ~IsHost(t[z + 1])
    BY <1>0, <1>3, <2>1, <2>2 DEF Open, End, IsHost
  <2>5. d[y] = 2
    BY <1>1, <2>3, <2>4 DEF CheckEot
  <2>6. HostOf(t, y) = HostFor(e)
    BY <1>3, HostOfIs
  <2>7. h[y] = IF IsHost(e) THEN Append(h[x], HostFor(e)) ELSE h[x]
    BY <1>1, <2>3, <2>4, <2>5, <2>6
  <2>8. Inside(d, t, y, z, 2)
    <3>1. d[y] \in Nat \ {0}
      BY <2>5
    <3> HIDE DEF y
    <3>2. Inside(d, t, y, y + Len(Body(e)), d[y])
      BY <2>1, <2>3, <3>1, BodyWalk
    <3> QED
      BY <2>5, <3>2
  <2>9. d[z] = 2
    BY <2>8 DEF Inside
  <2>10. h[z] = h[y]
    <3>1. y \in Nat /\ z \in Nat /\ o <= y /\ y <= z /\ z <= Len(t) /\ Inside(d, t, y, z, 2)
      BY <2>1, <2>3, <2>8
    <3> HIDE DEF L, y, z
    <3> QED
      BY <3>1, NothingGathered
  <2>11. d[z + 1] = 1
    BY <1>1, <2>3, <2>4, <2>9 DEF CheckEot
  <2>12. h[z + 1] = h[z]
    BY <1>1, <2>3, <2>4
  <2>13. x + Len(HostEntry(e)) = z + 1
    BY <2>1, <2>3
  <2> HIDE DEF y, z, L
  <2> QED
    BY <2>7, <2>10, <2>11, <2>12, <2>13
<1> QED
  BY <1>2, <1>3

LEMMA ListedIs ==
  ASSUME NEW entries \in Seq(Entries)
  PROVE  /\ Listed(entries) \in [0 .. Len(entries) -> Seq(Items)]
         /\ Listed(entries)[0] = <<Field("top", "hosts", "table")>>
         /\ \A m \in 1 .. Len(entries) :
              Listed(entries)[m] = Listed(entries)[m - 1] \o HostEntry(entries[m])
<1> DEFINE n == Len(entries)
           T == Seq(Items)
           base == <<Field("top", "hosts", "table")>>
           step == [p \in (0 + 1 .. 0 + n) \X T |-> p[2] \o HostEntry(entries[p[1]])]
           Eq(f) == f = [m \in 0 .. n |-> IF m = 0 THEN base ELSE f[m - 1] \o HostEntry(entries[m])]
<1>1. n \in Nat /\ 0 + n = n /\ 0 + 1 = 1 /\ 0 \in Nat
  OBVIOUS
<1>2. \A m \in 1 .. n : HostEntry(entries[m]) \in T
  BY BodyType
<1>3. base \in T
  <2>1. Field("top", "hosts", "table") \in Items
    BY DEF Field, Items, ItemNames, Kinds
  <2> QED
    BY <2>1
<1> HIDE DEF n, base
<1>4. step \in [(0 + 1 .. 0 + n) \X T -> T]
  <2> SUFFICES ASSUME NEW p \in (0 + 1 .. 0 + n) \X T
               PROVE  p[2] \o HostEntry(entries[p[1]]) \in T
    OBVIOUS
  <2>1. p[2] \in T /\ HostEntry(entries[p[1]]) \in T
    BY <1>1, <1>2
  <2> QED
    BY <2>1, ConcatProperties
<1>5. PICK g : Walk(g, 0, 0 + n, T, base, step)
  <2> HIDE DEF step, T
  <2> QED
    BY <1>1, <1>3, <1>4, WalkExists
<1>6. /\ g \in [0 .. n -> T] /\ g[0] = base
      /\ \A m \in 1 .. n : g[m] = step[<<m, g[m - 1]>>]
  <2> HIDE DEF step, T
  <2> QED
    BY <1>1, <1>5 DEF Walk
<1>7. \A m \in 1 .. n : g[m] = g[m - 1] \o HostEntry(entries[m])
  <2> TAKE m \in 1 .. n
  <2>1. m - 1 \in 0 .. n
    BY <1>1
  <2>2. g[m - 1] \in T
    <3> HIDE DEF T, step
    <3> QED
      BY <1>6, <2>1
  <2>3. <<m, g[m - 1]>> \in (0 + 1 .. 0 + n) \X T
    BY <1>1, <2>2
  <2> HIDE DEF T
  <2> QED
    BY <1>6, <2>3
<1>8. Eq(g)
  <2>1. \A m \in 0 .. n : g[m] = IF m = 0 THEN base ELSE g[m - 1] \o HostEntry(entries[m])
    <3> TAKE m \in 0 .. n
    <3>1. CASE m = 0
      BY <1>6, <3>1
    <3>2. CASE m # 0
      <4>1. m \in 1 .. n
        BY <1>1, <3>2
      <4> QED
        BY <1>7, <3>2, <4>1
    <3> QED
      BY <3>1, <3>2
  <2>2. g = [m \in 0 .. n |-> g[m]]
    <3> HIDE DEF T, step
    <3> QED
      BY <1>6
  <2> HIDE DEF T, step
  <2> QED
    BY <2>1, <2>2
<1>9. PICK f : Eq(f) /\ f = Listed(entries)
  <2>1. Listed(entries) = CHOOSE f : Eq(f)
    BY DEF Listed, n, base
  <2> HIDE DEF Eq
  <2> QED
    BY <1>8, <2>1
<1>10. \A m \in 0 .. n : f[m] = IF m = 0 THEN base ELSE f[m - 1] \o HostEntry(entries[m])
  BY <1>9
<1>11. f[0] = base /\ \A m \in 1 .. n : f[m] = f[m - 1] \o HostEntry(entries[m])
  <2>1. 0 \in 0 .. n /\ \A m \in 1 .. n : m \in 0 .. n /\ m # 0
    BY <1>1
  <2> QED
    BY <1>10, <2>1
<1>12. f \in [0 .. n -> T]
  <2> DEFINE H == {m \in 0 .. n : f[m] \in T}
  <2>1. 0 \in H
    BY <1>1, <1>3, <1>11
  <2>2. ASSUME NEW m \in 1 .. n, m - 1 \in H PROVE m \in H
    <3>1. f[m - 1] \in T /\ HostEntry(entries[m]) \in T /\ m \in 0 .. n
      BY <1>1, <1>2, <2>2
    <3>2. f[m - 1] \o HostEntry(entries[m]) \in T
      BY <3>1, ConcatProperties
    <3> HIDE DEF T
    <3> QED
      BY <1>11, <3>1, <3>2
  <2>3. H = 0 .. n
    <3>1. H \subseteq 0 .. n
      OBVIOUS
    <3> HIDE DEF H
    <3> QED
      BY <1>1, <2>1, <2>2, <3>1, UpTo
  <2>4. \A m \in 0 .. n : f[m] \in T
    BY <2>3
  <2>5. f = [m \in 0 .. n |-> f[m]]
    BY <1>9
  <2> HIDE DEF T, H, Eq
  <2> QED
    BY <2>4, <2>5
<1> QED
  BY <1>9, <1>11, <1>12 DEF n, base

\* The entries of `hosts' lie one behind the other in the flat table.
LEMMA ListedAt ==
  ASSUME NEW t \in Seq(Items), NEW entries \in Seq(Entries),
         At(t, 0, Listed(entries)[Len(entries)])
  PROVE  /\ \A m \in 0 .. Len(entries) : Len(Listed(entries)[m]) \in Nat \ {0}
         /\ Len(Listed(entries)[0]) = 1 /\ t[1] = Field("top", "hosts", "table")
         /\ 1 <= Len(t)
         /\ \A m \in 1 .. Len(entries) :
              /\ At(t, Len(Listed(entries)[m - 1]), HostEntry(entries[m]))
              /\ Len(Listed(entries)[m])
                   = Len(Listed(entries)[m - 1]) + Len(HostEntry(entries[m]))
<1> DEFINE n == Len(entries)
           l == Listed(entries)
           H == {k \in 0 .. n : At(t, 0, l[n - k])}
<1>1. n \in Nat /\ \A m \in 1 .. n : HostEntry(entries[m]) \in Seq(Items)
  BY BodyType
<1>2. /\ \A m \in 0 .. n : l[m] \in Seq(Items) /\ Len(l[m]) \in Nat
      /\ l[0] = <<Field("top", "hosts", "table")>>
      /\ \A m \in 1 .. n : l[m] = l[m - 1] \o HostEntry(entries[m])
  <2>1. /\ l \in [0 .. n -> Seq(Items)] /\ l[0] = <<Field("top", "hosts", "table")>>
        /\ \A m \in 1 .. n : l[m] = l[m - 1] \o HostEntry(entries[m])
    BY ListedIs
  <2> HIDE DEF l, n
  <2>2. \A m \in 0 .. n : l[m] \in Seq(Items)
    BY <2>1
  <2> QED
    BY <2>1, <2>2, LenProperties
<1>3. At(t, 0, l[n])
  OBVIOUS
<1> HIDE DEF n, l
<1>4. ASSUME NEW m \in 1 .. n, At(t, 0, l[m])
      PROVE  /\ At(t, 0, l[m - 1]) /\ At(t, Len(l[m - 1]), HostEntry(entries[m]))
             /\ Len(l[m]) = Len(l[m - 1]) + Len(HostEntry(entries[m]))
  <2> DEFINE a == l[m - 1]
             b == HostEntry(entries[m])
  <2>1. m - 1 \in 0 .. n
    BY <1>1
  <2>2. a \in Seq(Items) /\ b \in Seq(Items) /\ l[m] = a \o b /\ Len(a) \in Nat
    BY <1>1, <1>2, <2>1
  <2> HIDE DEF a, b
  <2>3. 0 \in Nat /\ At(t, 0, a \o b) /\ 0 + Len(a) = Len(a)
    BY <1>4, <2>2
  <2>4. At(t, 0, a) /\ At(t, 0 + Len(a), b) /\ Len(a \o b) = Len(a) + Len(b)
    <3>1. a \in Seq(Items) /\ b \in Seq(Items)
      BY <2>2
    <3> QED
      BY <2>3, <3>1, AtParts
  <2> QED
    BY <2>2, <2>3, <2>4 DEF a, b
<1>5. 0 \in H
  <2>1. 0 \in 0 .. n /\ n - 0 = n
    BY <1>1
  <2> QED
    BY <1>3, <2>1
<1>6. ASSUME NEW k \in 1 .. n, k - 1 \in H PROVE k \in H
  <2>1. n - (k - 1) \in 1 .. n /\ (n - (k - 1)) - 1 = n - k /\ k \in 0 .. n
    BY <1>1
  <2>2. At(t, 0, l[n - (k - 1)])
    BY <1>6
  <2>3. At(t, 0, l[(n - (k - 1)) - 1])
    <3> HIDE DEF H
    <3> QED
      BY <1>4, <2>1, <2>2
  <2> QED
    BY <2>1, <2>3
<1>7. H = 0 .. n
  <2>1. H \subseteq 0 .. n
    OBVIOUS
  <2> HIDE DEF H
  <2> QED
    BY <1>1, <1>5, <1>6, <2>1, UpTo
<1>8. \A m \in 0 .. n : At(t, 0, l[m])
  <2> TAKE m \in 0 .. n
  <2>1. n - m \in 0 .. n /\ n - (n - m) = m
    BY <1>1
  <2> QED
    BY <1>7, <2>1
<1>9. \A m \in 1 .. n :
        /\ At(t, Len(l[m - 1]), HostEntry(entries[m]))
        /\ Len(l[m]) = Len(l[m - 1]) + Len(HostEntry(entries[m]))
  <2>1. \A m \in 1 .. n : m \in 0 .. n
    OBVIOUS
  <2> QED
    BY <1>4, <1>8, <2>1
<1>10. Len(l[0]) = 1 /\ t[1] = Field("top", "hosts", "table") /\ 1 <= Len(t)
  <2>1. At(t, 0, l[0])
    BY <1>1, <1>8
  <2>2. Len(l[0]) = 1 /\ l[0][1] = Field("top", "hosts", "table")
    BY <1>2
  <2>3. 0 + 1 <= Len(t) /\ \A j \in 1 .. 1 : t[0 + j] = l[0][j]
    BY <2>1, <2>2 DEF At
  <2>4. t[0 + 1] = l[0][1] /\ 0 + 1 = 1
    BY <2>3
  <2> QED
    BY <2>2, <2>3, <2>4
<1>11. \A m \in 0 .. n : Len(l[m]) \in Nat \ {0}
  <2> DEFINE G == {m \in 0 .. n : Len(l[m]) # 0}
  <2>1. 0 \in G
    <3>1. 0 \in 0 .. n /\ Len(l[0]) # 0
      BY <1>1, <1>10
    <3> QED
      BY <3>1
  <2>2. ASSUME NEW m \in 1 .. n, m - 1 \in G PROVE m \in G
    <3>1. m \in 0 .. n /\ m - 1 \in 0 .. n /\ Len(l[m - 1]) # 0
      BY <1>1, <2>2
    <3>2. Len(l[m - 1]) \in Nat /\ Len(HostEntry(entries[m])) \in Nat
      BY <1>1, <1>2, <3>1
    <3>3. Len(l[m]) # 0
      <4>1. Len(l[m]) = Len(l[m - 1]) + Len(HostEntry(entries[m]))
        BY <1>9
      <4>2. \A a, b \in Nat : a # 0 => a + b # 0
        OBVIOUS
      <4> QED
        BY <3>1, <3>2, <4>1, <4>2
    <3> QED
      BY <3>1, <3>3
  <2>3. G = 0 .. n
    <3>1. G \subseteq 0 .. n
      OBVIOUS
    <3> HIDE DEF G
    <3> QED
      BY <1>1, <2>1, <2>2, <3>1, UpTo
  <2>4. \A m \in 0 .. n : Len(l[m]) # 0
    BY <2>3
  <2> QED
    BY <1>2, <2>4
<1> QED
  BY <1>9, <1>10, <1>11 DEF n, l

\* How many of the first i entries are hosts.
HostCount(entries, i) == Cardinality({j \in 1 .. i : IsHost(entries[j])})

HostRecords == {HostFor(e) : e \in Entries}

\* The list hosts has the hosts among the first m entries, in their order.
HostsWritten(hosts, entries, m) ==
  /\ hosts \in Seq(HostRecords) /\ Len(hosts) = HostCount(entries, m)
  /\ \A i \in 1 .. m :
       IsHost(entries[i]) => /\ HostCount(entries, i) \in 1 .. Len(hosts)
                             /\ hosts[HostCount(entries, i)] = HostFor(entries[i])
  /\ \A k \in 1 .. Len(hosts) :
       \E i \in 1 .. m : IsHost(entries[i]) /\ hosts[k] = HostFor(entries[i])

LEMMA HostCountStep ==
  ASSUME NEW entries, NEW m \in Nat
  PROVE  /\ HostCount(entries, 0) = 0 /\ HostCount(entries, m) \in Nat
         /\ HostCount(entries, m + 1)
              = IF IsHost(entries[m + 1]) THEN HostCount(entries, m) + 1
                ELSE HostCount(entries, m)
<1> DEFINE S == {j \in Nat : IsHost(entries[j])}
<1>1. \A n \in Nat : {j \in 1 .. n : IsHost(entries[j])} = {j \in 1 .. n : j \in S}
  OBVIOUS
<1>2. m + 1 \in Nat /\ (m + 1 \in S <=> IsHost(entries[m + 1]))
  OBVIOUS
<1>3. HostCount(entries, 0) = 0
  <2>1. {j \in 1 .. 0 : IsHost(entries[j])} = {}
    OBVIOUS
  <2> QED
    BY <2>1, FS_EmptySet DEF HostCount
<1> HIDE DEF S
<1>4. /\ HostCount(entries, m) = Cardinality({j \in 1 .. m : j \in S})
      /\ HostCount(entries, m + 1) = Cardinality({j \in 1 .. m + 1 : j \in S})
  BY <1>1, <1>2 DEF HostCount
<1> QED
  BY <1>2, <1>3, <1>4, CountStep

\* One more entry.
LEMMA HostsGrow ==
  ASSUME NEW entries \in Seq(Entries), NEW m \in 1 .. Len(entries), NEW hosts, NEW more,
         HostsWritten(hosts, entries, m - 1),
         more = IF IsHost(entries[m]) THEN Append(hosts, HostFor(entries[m])) ELSE hosts
  PROVE  HostsWritten(more, entries, m)
<1>0. m - 1 \in Nat /\ (m - 1) + 1 = m /\ entries[m] \in Entries
  OBVIOUS
<1>1. /\ hosts \in Seq(HostRecords) /\ Len(hosts) = HostCount(entries, m - 1)
      /\ \A i \in 1 .. m - 1 :
           IsHost(entries[i]) => /\ HostCount(entries, i) \in 1 .. Len(hosts)
                                 /\ hosts[HostCount(entries, i)] = HostFor(entries[i])
      /\ \A k \in 1 .. Len(hosts) :
           \E i \in 1 .. m - 1 : IsHost(entries[i]) /\ hosts[k] = HostFor(entries[i])
  BY DEF HostsWritten
<1>2. /\ \A i \in 1 .. m : i \in 1 .. m - 1 \/ i = m
      /\ m \in 1 .. m /\ \A i \in 1 .. m - 1 : i \in 1 .. m
  OBVIOUS
<1>3. HostCount(entries, m) = IF IsHost(entries[m]) THEN HostCount(entries, m - 1) + 1
                              ELSE HostCount(entries, m - 1)
  BY <1>0, HostCountStep
<1>4. CASE IsHost(entries[m])
  <2>1. HostFor(entries[m]) \in HostRecords
    BY <1>0 DEF HostRecords
  <2>2. more = Append(hosts, HostFor(entries[m]))
    BY <1>4
  <2>3. /\ more \in Seq(HostRecords) /\ Len(hosts) \in Nat /\ Len(more) = Len(hosts) + 1
        /\ more[Len(hosts) + 1] = HostFor(entries[m])
        /\ \A i \in 1 .. Len(hosts) : more[i] = hosts[i]
    BY <1>1, <2>1, <2>2, AppendProperties
  <2>4. Len(more) = HostCount(entries, m)
    BY <1>1, <1>3, <1>4, <2>3
  <2>5. \A k \in 1 .. Len(hosts) : k \in 1 .. Len(more)
    BY <2>3
  <2>6. Len(more) \in 1 .. Len(more)
    BY <2>3
  <2>7. HostCount(entries, m) = Len(hosts) + 1
    BY <2>3, <2>4
  <2>8. ASSUME NEW i \in 1 .. m, IsHost(entries[i])
        PROVE  /\ HostCount(entries, i) \in 1 .. Len(more)
               /\ more[HostCount(entries, i)] = HostFor(entries[i])
    <3>1. CASE i \in 1 .. m - 1
      BY <1>1, <2>3, <2>5, <2>8, <3>1
    <3>2. CASE i = m
      BY <2>3, <2>4, <2>6, <2>7, <3>2
    <3> QED
      BY <1>2, <3>1, <3>2
  <2>9. ASSUME NEW k \in 1 .. Len(more)
        PROVE  \E i \in 1 .. m : IsHost(entries[i]) /\ more[k] = HostFor(entries[i])
    <3>1. k \in 1 .. Len(hosts) \/ k = Len(hosts) + 1
      BY <2>3
    <3>2. CASE k \in 1 .. Len(hosts)
      BY <1>1, <1>2, <2>3, <3>2
    <3>3. CASE k = Len(hosts) + 1
      BY <1>2, <1>4, <2>3, <3>3
    <3> QED
      BY <3>1, <3>2, <3>3
  <2> QED
    BY <2>3, <2>4, <2>8, <2>9 DEF HostsWritten
<1>5. CASE ~IsHost(entries[m])
  <2>1. more = hosts
    BY <1>5
  <2> QED
    BY <1>1, <1>2, <1>3, <1>5, <2>1 DEF HostsWritten
<1> QED
  BY <1>4, <1>5

LEMMA HostsGathered ==
  ASSUME NEW t \in Seq(Items), NEW entries \in Seq(Entries),
         At(t, 0, Listed(entries)[Len(entries)]),
         NEW d, NEW h, Depths(d, t, 1), Gathered(h, d, t, 1)
  PROVE  HostsWritten(h[Len(Listed(entries)[Len(entries)])], entries, Len(entries))
<1> DEFINE n == Len(entries)
           at(m) == Len(Listed(entries)[m])
           H == {m \in 0 .. n : d[at(m)] = 1 /\ HostsWritten(h[at(m)], entries, m)}
<1>1. n \in Nat /\ \A m \in 1 .. n : entries[m] \in Entries
  OBVIOUS
<1>2. /\ at(0) = 1 /\ \A m \in 0 .. n : at(m) \in Nat /\ 1 <= at(m)
      /\ \A m \in 1 .. n : /\ At(t, at(m - 1), HostEntry(entries[m]))
                           /\ at(m) = at(m - 1) + Len(HostEntry(entries[m]))
  <2>1. \A m \in 0 .. n : at(m) \in Nat \ {0}
    BY ListedAt
  <2>2. at(0) = 1
    BY ListedAt
  <2>3. \A m \in 1 .. n : /\ At(t, at(m - 1), HostEntry(entries[m]))
                          /\ at(m) = at(m - 1) + Len(HostEntry(entries[m]))
    BY ListedAt
  <2> HIDE DEF n, at
  <2>4. \A m \in 0 .. n : at(m) \in Nat /\ 1 <= at(m)
    BY <2>1
  <2> QED
    BY <2>2, <2>3, <2>4
<1> HIDE DEF n, at
<1>3. 0 \in H
  <2>1. d[at(0)] = 1 /\ h[at(0)] = << >>
    BY <1>2 DEF Depths, Gathered
  <2>2. << >> \in Seq(HostRecords) /\ Len(<< >>) = 0 /\ 1 .. 0 = {} /\ 0 \in 0 .. n
    BY <1>1
  <2>3. HostCount(entries, 0) = 0
    <3>1. 0 \in Nat
      OBVIOUS
    <3> QED
      BY <3>1, HostCountStep
  <2> QED
    BY <2>1, <2>2, <2>3 DEF HostsWritten
<1>4. ASSUME NEW m \in 1 .. n, m - 1 \in H PROVE m \in H
  <2> DEFINE x == at(m - 1)
             e == entries[m]
  <2>1. x \in Nat /\ 1 <= x /\ m \in 0 .. n
    <3>1. m - 1 \in 0 .. n /\ m \in 0 .. n
      BY <1>1
    <3> QED
      BY <1>2, <3>1
  <2>2. d[x] = 1 /\ HostsWritten(h[x], entries, m - 1)
    BY <1>4
  <2>3. e \in Entries /\ At(t, x, HostEntry(e)) /\ at(m) = x + Len(HostEntry(e))
    BY <1>1, <1>2
  <2>4. /\ d[x + Len(HostEntry(e))] = 1
        /\ h[x + Len(HostEntry(e))] = IF IsHost(e) THEN Append(h[x], HostFor(e)) ELSE h[x]
    <3>1. 1 \in Nat
      OBVIOUS
    <3> HIDE DEF x, e, H
    <3> QED
      BY <2>1, <2>2, <2>3, <3>1, EntryStep
  <2>5. HostsWritten(h[at(m)], entries, m)
    <3>1. m \in 1 .. Len(entries)
      BY DEF n
    <3>2. h[at(m)] = IF IsHost(entries[m]) THEN Append(h[x], HostFor(entries[m])) ELSE h[x]
      BY <2>3, <2>4
    <3> HIDE DEF x, e, H
    <3> QED
      BY <2>2, <3>1, <3>2, HostsGrow
  <2> HIDE DEF x, e
  <2> QED
    BY <2>1, <2>3, <2>4, <2>5
<1>5. H = 0 .. n
  <2>1. H \subseteq 0 .. n
    OBVIOUS
  <2> HIDE DEF H
  <2> QED
    BY <1>1, <1>3, <1>4, <2>1, UpTo
<1>6. n \in 0 .. n
  BY <1>1
<1>7. HostsWritten(h[at(n)], entries, n)
  BY <1>5, <1>6
<1> QED
  BY <1>7 DEF n, at

-----------------------------------------------------------------------------
\* The table is found where it was written, at the first place.
LEMMA HostsFirst ==
  ASSUME NEW t \in Seq(Items), 1 <= Len(t), t[1] = Field("top", "hosts", "table")
  PROVE  BuildHosts(t) = HostsUpTo(t, 1)[Len(t)]
<1> DEFINE found == {i \in DOMAIN t : t[i].name = "hosts" /\ Outermost(t, i)}
<1>1. DOMAIN t = 1 .. Len(t) /\ Len(t) \in Nat /\ 1 \in DOMAIN t
  OBVIOUS
<1>2. t[1].name = "hosts" /\ t[1].k # "end" /\ t[1].v = "table"
  BY DEF Field
<1>3. Outermost(t, 1)
  <2>1. 0 \in Nat /\ 0 + 1 = 1 /\ 1 .. 0 = {}
    OBVIOUS
  <2>2. Opened(t, 0) = Closed(t, 0)
    BY <2>1 DEF Opened, Closed
  <2>3. Closed(t, 0 + 1) = IF t[0 + 1].k = "end" THEN Closed(t, 0) + 1 ELSE Closed(t, 0)
    BY <2>1, OpenedStep
  <2>4. Closed(t, 0 + 1) = Closed(t, 0)
    BY <1>2, <2>1, <2>3
  <2>5. Outermost(t, 0 + 1)
    BY <2>1, <2>2, <2>4, OutermostIs
  <2> QED
    BY <2>1, <2>5
<1>4. 1 \in found /\ found \subseteq Int /\ \A y \in found : 1 <= y
  BY <1>1, <1>2, <1>3
<1>5. Geti(t, "hosts") = 1
  <2>1. found # {} /\ Geti(t, "hosts") = Min(found)
    BY <1>4 DEF Geti
  <2> HIDE DEF found
  <2> QED
    BY <1>4, <2>1, LeastIs
<1>6. 1 # -1
  OBVIOUS
<1> QED
  BY <1>2, <1>5, <1>6 DEF BuildHosts

\* Without a table there are no hosts.
LEMMA NoTableNoHosts ==
  ASSUME NEW t \in Seq(Items), \A i \in DOMAIN t : t[i].v # "table"
  PROVE  BuildHosts(t) = << >>
<1> DEFINE found == {i \in DOMAIN t : t[i].name = "hosts" /\ Outermost(t, i)}
<1>1. CASE found = {}
  <2>1. Geti(t, "hosts") = -1
    BY <1>1 DEF Geti
  <2> QED
    BY <2>1 DEF BuildHosts
<1>2. CASE found # {}
  <2>1. found \subseteq Nat /\ found \subseteq DOMAIN t
    OBVIOUS
  <2>2. Geti(t, "hosts") = Min(found)
    BY <1>2 DEF Geti
  <2> HIDE DEF found
  <2>3. PICK m \in found : \A k \in found : m <= k
    BY <1>2, <2>1, LeastOfNaturals
  <2>4. found \subseteq Int
    BY <2>1
  <2>5. Min(found) = m
    BY <2>3, <2>4, LeastIs
  <2> QED
    BY <2>1, <2>2, <2>3, <2>5 DEF BuildHosts
<1> QED
  BY <1>1, <1>2

\* What follows `hosts' in the file.
Root(site) ==
  IF site.wwwroot = "absent" THEN << >>
  ELSE <<Field("top", "wwwroot", IF site.wwwroot = "int" THEN "int" ELSE "text")>>

LEMMA RootIs ==
  ASSUME NEW site
  PROVE  /\ Root(site) \in Seq(Items) /\ Len(Root(site)) \in {0, 1}
         /\ \A i \in 1 .. Len(Root(site)) : Root(site)[i].v # "table"
<1>1. CASE site.wwwroot = "absent"
  <2>1. Root(site) = << >>
    BY <1>1 DEF Root
  <2> QED
    BY <2>1
<1>2. CASE site.wwwroot # "absent"
  <2> DEFINE v == IF site.wwwroot = "int" THEN "int" ELSE "text"
  <2>1. v \in {"int", "text"}
    OBVIOUS
  <2>2. Root(site) = <<Field("top", "wwwroot", v)>>
    BY <1>2 DEF Root
  <2> HIDE DEF v
  <2>3. Field("top", "wwwroot", v) \in Items /\ Field("top", "wwwroot", v).v # "table"
    BY <2>1 DEF Field, Items, ItemNames, Kinds
  <2> QED
    BY <2>2, <2>3
<1> QED
  BY <1>1, <1>2

LEMMA HostsBuilt ==
  ASSUME NEW site \in SiteFiles, site.hosts = "table"
  PROVE  HostsWritten(BuildHosts(LuaToZtable(site)), site.entries, Len(site.entries))
<1> DEFINE es == site.entries
           a == Listed(es)[Len(es)]
           b == <<End("top")>>
           c == Root(site)
           ab == a \o b
           t == LuaToZtable(site)
           N == Len(a)
           d == Iterate(t, 2)
           h == HostsUpTo(t, 1)
<1>1. es \in Seq(Entries) /\ Len(es) \in Nat
  BY DEF SiteFiles
<1>2. a \in Seq(Items) /\ N \in Nat
  <2> HIDE DEF es
  <2>1. Len(es) \in 0 .. Len(es)
    BY <1>1
  <2>2. Listed(es) \in [0 .. Len(es) -> Seq(Items)]
    BY <1>1, ListedIs
  <2>3. a \in Seq(Items)
    BY <2>1, <2>2
  <2> QED
    BY <2>3, LenProperties
<1>3. b \in Seq(Items) /\ Len(b) = 1
  <2>1. End("top") \in Items
    BY DEF End, Items, ItemNames
  <2> QED
    BY <2>1
<1>4. c \in Seq(Items) /\ Len(c) \in {0, 1} /\ \A i \in 1 .. Len(c) : c[i].v # "table"
  BY RootIs
<1>5. t = ab \o c
  BY DEF LuaToZtable, Root
<1> HIDE DEF es, a, b, c, t
<1>6. ab \in Seq(Items) /\ ab \o c \in Seq(Items)
  BY <1>2, <1>3, <1>4, ConcatProperties
<1>7. t \in Seq(Items) /\ Len(t) \in Nat
  BY <1>5, <1>6, LenProperties
<1> HIDE DEF ab
<1>8. At(t, 0, ab) /\ At(t, Len(ab), c) /\ Len(t) = Len(ab) + Len(c)
  <2>1. At(t, 0, ab \o c) /\ 0 \in Nat
    BY <1>5, <1>7 DEF At
  <2>2. ab \in Seq(Items) /\ c \in Seq(Items) /\ Len(ab) \in Nat
    BY <1>4, <1>6, LenProperties
  <2>3. At(t, 0, ab) /\ At(t, 0 + Len(ab), c) /\ Len(ab \o c) = Len(ab) + Len(c)
    BY <1>7, <2>1, <2>2, AtParts
  <2>4. 0 + Len(ab) = Len(ab)
    BY <2>2
  <2> QED
    BY <1>5, <2>3, <2>4
<1>9. At(t, 0, a) /\ At(t, N, b) /\ Len(ab) = N + 1
  <2>1. At(t, 0, a \o b) /\ 0 \in Nat
    BY <1>8 DEF ab
  <2>2. a \in Seq(Items) /\ b \in Seq(Items)
    BY <1>2, <1>3
  <2>3. At(t, 0, a) /\ At(t, 0 + Len(a), b) /\ Len(a \o b) = Len(a) + Len(b)
    BY <1>7, <2>1, <2>2, AtParts
  <2>4. 0 + Len(a) = N
    BY <1>2
  <2> QED
    BY <1>3, <2>3, <2>4 DEF ab
<1>10. 1 <= Len(t) /\ t[1] = Field("top", "hosts", "table") /\ 1 <= N
  <2>1. At(t, 0, Listed(es)[Len(es)])
    BY <1>9 DEF a
  <2>2. /\ 1 <= Len(t) /\ t[1] = Field("top", "hosts", "table")
        /\ Len(Listed(es)[Len(es)]) \in Nat \ {0}
    <3>1. Len(es) \in 0 .. Len(es)
      BY <1>1
    <3> QED
      BY <1>1, <1>7, <2>1, <3>1, ListedAt
  <2>3. N \in Nat \ {0}
    BY <2>2 DEF a
  <2> QED
    BY <2>2, <2>3
<1>11. BuildHosts(t) = h[Len(t)]
  BY <1>7, <1>10, HostsFirst
<1>12. Depths(d, t, 1) /\ Gathered(h, d, t, 1)
  <2>1. 1 \in 0 .. Len(t) /\ 1 + 1 = 2
    BY <1>7, <1>10
  <2> QED
    BY <1>7, <2>1, IterateIs, HostsUpToIs
<1> HIDE DEF d, h, N
<1>13. HostsWritten(h[N], es, Len(es))
  <2>1. At(t, 0, Listed(es)[Len(es)])
    BY <1>9 DEF a
  <2> QED
    BY <1>1, <1>7, <1>12, <2>1, HostsGathered DEF N, a
<1>14. h[N + 1] = h[N]
  <2>1. t[N + 1] = End("top") /\ N + 1 <= Len(t)
    <3>1. N + 1 <= Len(t) /\ \A j \in 1 .. 1 : t[N + j] = b[j]
      BY <1>3, <1>9 DEF At
    <3>2. b[1] = End("top")
      BY DEF b
    <3> QED
      BY <3>1, <3>2
  <2>2. N + 1 \in 1 + 1 .. Len(t) /\ (N + 1) - 1 = N
    BY <1>2, <1>7, <1>10, <2>1
  <2>3. ~IsHost(t[N + 1])
    BY <2>1 DEF End, IsHost
  <2> QED
    BY <1>12, <2>2, <2>3 DEF Gathered
<1>15. h[Len(t)] = h[N + 1]
  <2>1. Len(t) = N + 1 + Len(c)
    BY <1>8, <1>9
  <2>2. CASE Len(c) = 0
    <3>1. Len(t) = N + 1
      BY <1>2, <2>1, <2>2
    <3> QED
      BY <3>1
  <2>3. CASE Len(c) = 1
    <3>1. Len(t) = N + 2 /\ N + 2 \in 1 + 1 .. Len(t) /\ (N + 2) - 1 = N + 1
      BY <1>2, <2>1, <2>3
    <3>2. t[N + 2].v # "table"
      <4>1. \A j \in 1 .. 1 : t[(N + 1) + j] = c[j]
        BY <1>8, <1>9, <2>3 DEF At
      <4>2. t[(N + 1) + 1] = c[1] /\ (N + 1) + 1 = N + 2
        BY <1>2, <4>1
      <4> QED
        BY <1>4, <2>3, <4>2
    <3>3. h[N + 2] = h[N + 1]
      BY <1>12, <3>1, <3>2 DEF Gathered, IsHost
    <3> QED
      BY <3>1, <3>3
  <2> QED
    BY <1>4, <2>2, <2>3
<1> QED
  BY <1>11, <1>13, <1>14, <1>15 DEF es, t

LEMMA NoHostsBuilt ==
  ASSUME NEW site \in SiteFiles, site.hosts # "table"
  PROVE  BuildHosts(LuaToZtable(site)) = << >>
<1> DEFINE a == IF site.hosts = "text" THEN <<Field("top", "hosts", "text")>> ELSE << >>
           c == Root(site)
           t == LuaToZtable(site)
<1>1. t = a \o c
  BY DEF LuaToZtable, Root
<1>2. a \in Seq(Items) /\ Len(a) \in Nat /\ \A i \in 1 .. Len(a) : a[i].v # "table"
  <2>1. Field("top", "hosts", "text") \in Items /\ Field("top", "hosts", "text").v # "table"
    BY DEF Field, Items, ItemNames, Kinds
  <2> QED
    BY <2>1
<1>3. c \in Seq(Items) /\ Len(c) \in Nat /\ \A i \in 1 .. Len(c) : c[i].v # "table"
  BY RootIs
<1> HIDE DEF a, c, t
<1>4. t \in Seq(Items) /\ \A i \in DOMAIN t : t[i].v # "table"
  <2>1. /\ a \o c \in Seq(Items) /\ Len(a \o c) = Len(a) + Len(c)
        /\ \A i \in 1 .. Len(a) + Len(c) :
             (a \o c)[i] = IF i <= Len(a) THEN a[i] ELSE c[i - Len(a)]
    BY <1>2, <1>3, ConcatProperties
  <2>2. DOMAIN t = 1 .. Len(a) + Len(c)
    BY <1>1, <2>1, LenProperties
  <2>3. ASSUME NEW i \in 1 .. Len(a) + Len(c) PROVE (a \o c)[i].v # "table"
    <3>1. CASE i <= Len(a)
      <4>1. i \in 1 .. Len(a)
        BY <1>2, <3>1
      <4> QED
        BY <1>2, <2>1, <3>1, <4>1
    <3>2. CASE ~(i <= Len(a))
      <4>1. i - Len(a) \in 1 .. Len(c)
        BY <1>2, <1>3, <3>2
      <4> QED
        BY <1>3, <2>1, <3>2, <4>1
    <3> QED
      BY <3>1, <3>2
  <2> QED
    BY <1>1, <2>1, <2>2, <2>3
<1>5. BuildHosts(t) = << >>
  BY <1>4, NoTableNoHosts
<1> QED
  BY <1>5 DEF t

\* A host that is built is one of the file.
LEMMA BrokenIs ==
  ASSUME NEW es \in Seq(Entries), NEW hosts, HostsWritten(hosts, es, Len(es))
  PROVE  (\E n \in DOMAIN hosts : \E a \in Attributes : hosts[n][a] = "null") <=>
         (\E n \in DOMAIN es :
            IsHost(es[n]) /\ \E a \in DOMAIN es[n].attrs : es[n].attrs[a] # "text")
<1>1. DOMAIN es = 1 .. Len(es) /\ \A n \in DOMAIN es : es[n] \in Entries
  BY LenProperties
<1>2. /\ DOMAIN hosts = 1 .. Len(hosts)
      /\ \A i \in 1 .. Len(es) :
           IsHost(es[i]) => /\ HostCount(es, i) \in 1 .. Len(hosts)
                            /\ hosts[HostCount(es, i)] = HostFor(es[i])
      /\ \A k \in 1 .. Len(hosts) :
           \E i \in 1 .. Len(es) : IsHost(es[i]) /\ hosts[k] = HostFor(es[i])
  BY LenProperties DEF HostsWritten
<1>3. ASSUME NEW e \in Entries
      PROVE  (\E a \in Attributes : HostFor(e)[a] = "null") <=>
             (\E a \in DOMAIN e.attrs : e.attrs[a] # "text")
  <2>1. \A a \in Attributes : HostFor(e)[a] = ValueOf(e, a)
    BY DEF Attributes, HostFor
  <2>2. e.name # "null" /\ DOMAIN e.attrs \subseteq Attributes
    BY DEF Entries
  <2>3. \A a \in Attributes :
          ValueOf(e, a) = "null" <=> a \in DOMAIN e.attrs /\ e.attrs[a] # "text"
    BY <2>2 DEF ValueOf
  <2> QED
    BY <2>1, <2>2, <2>3
<1>4. ASSUME NEW k \in DOMAIN hosts, \E a \in Attributes : hosts[k][a] = "null"
      PROVE  \E n \in DOMAIN es :
               IsHost(es[n]) /\ \E a \in DOMAIN es[n].attrs : es[n].attrs[a] # "text"
  <2>1. PICK i \in 1 .. Len(es) : IsHost(es[i]) /\ hosts[k] = HostFor(es[i])
    BY <1>2
  <2>2. es[i] \in Entries /\ \E a \in Attributes : HostFor(es[i])[a] = "null"
    BY <1>1, <1>4, <2>1
  <2> QED
    BY <1>1, <1>3, <2>1, <2>2
<1>5. ASSUME NEW n \in DOMAIN es, IsHost(es[n]),
             \E a \in DOMAIN es[n].attrs : es[n].attrs[a] # "text"
      PROVE  \E k \in DOMAIN hosts : \E a \in Attributes : hosts[k][a] = "null"
  <2>1. \E a \in Attributes : HostFor(es[n])[a] = "null"
    BY <1>1, <1>3, <1>5
  <2>2. HostCount(es, n) \in DOMAIN hosts /\ hosts[HostCount(es, n)] = HostFor(es[n])
    BY <1>1, <1>2, <1>5
  <2> QED
    BY <2>1, <2>2
<1> QED
  BY <1>4, <1>5

LEMMA UsableIs ==
  ASSUME NEW es \in Seq(Entries), NEW hosts, HostsWritten(hosts, es, Len(es))
  PROVE  hosts # << >> /\ (\A n \in DOMAIN hosts : ~Unusable(hosts[n])) <=>
         /\ \E n \in DOMAIN es : IsHost(es[n])
         /\ \A n \in DOMAIN es :
              IsHost(es[n]) => {"dir", "filter"} \subseteq DOMAIN es[n].attrs
<1>1. DOMAIN es = 1 .. Len(es) /\ \A n \in DOMAIN es : es[n] \in Entries
  BY LenProperties
<1>2. /\ DOMAIN hosts = 1 .. Len(hosts) /\ hosts \in Seq(HostRecords)
      /\ \A i \in 1 .. Len(es) :
           IsHost(es[i]) => /\ HostCount(es, i) \in 1 .. Len(hosts)
                            /\ hosts[HostCount(es, i)] = HostFor(es[i])
      /\ \A k \in 1 .. Len(hosts) :
           \E i \in 1 .. Len(es) : IsHost(es[i]) /\ hosts[k] = HostFor(es[i])
  BY LenProperties DEF HostsWritten
<1>3. hosts # << >> <=> \E k \in DOMAIN hosts : TRUE
  BY <1>2, EmptySeq
<1>4. (\E k \in DOMAIN hosts : TRUE) <=> (\E n \in DOMAIN es : IsHost(es[n]))
  BY <1>1, <1>2
<1>5. ASSUME NEW e \in Entries
      PROVE  ~Unusable(HostFor(e)) <=> {"dir", "filter"} \subseteq DOMAIN e.attrs
  <2>1. e.name # "absent"
    BY DEF Entries
  <2> QED
    BY <2>1 DEF Unusable, HostFor, ValueOf
<1>6. (\A n \in DOMAIN hosts : ~Unusable(hosts[n])) <=>
      (\A n \in DOMAIN es : IsHost(es[n]) => {"dir", "filter"} \subseteq DOMAIN es[n].attrs)
  <2>1. ASSUME \A n \in DOMAIN hosts : ~Unusable(hosts[n]), NEW n \in DOMAIN es, IsHost(es[n])
        PROVE  {"dir", "filter"} \subseteq DOMAIN es[n].attrs
    <3>1. HostCount(es, n) \in DOMAIN hosts /\ hosts[HostCount(es, n)] = HostFor(es[n])
      BY <1>1, <1>2, <2>1
    <3>2. ~Unusable(HostFor(es[n])) /\ es[n] \in Entries
      BY <1>1, <2>1, <3>1
    <3> QED
      BY <1>5, <3>2
  <2>2. ASSUME NEW k \in DOMAIN hosts,
               \A n \in DOMAIN es : IsHost(es[n]) => {"dir", "filter"} \subseteq DOMAIN es[n].attrs
        PROVE  ~Unusable(hosts[k])
    <3>1. PICK i \in 1 .. Len(es) : IsHost(es[i]) /\ hosts[k] = HostFor(es[i])
      BY <1>2
    <3>2. es[i] \in Entries /\ {"dir", "filter"} \subseteq DOMAIN es[i].attrs
      BY <1>1, <2>2, <3>1
    <3> QED
      BY <1>5, <3>1, <3>2
  <2> QED
    BY <2>1, <2>2
<1> QED
  BY <1>3, <1>4, <1>6

\* What build_server_config makes of a file.
LEMMA ConfigIs ==
  ASSUME NEW site \in SiteFiles
  PROVE  LET r == BuildServerConfig(site)
             es == site.entries
         IN /\ site.lua = "table" /\ site.hosts = "table" /\ Fits(site) =>
                 HostsWritten(r.hosts, es, Len(es))
            /\ r.ret = "config" => HostsUsable(site) /\ site.wwwroot = "accessible"
            /\ (r.ret = "crash") <=>
                 \/ site.lua = "broken"
                 \/ /\ site.lua = "table"
                    /\ \/ ~Fits(site) \/ HostsBroken(site)
                       \/ HostsUsable(site) /\ site.wwwroot \in {"absent", "int"}
            /\ r.ret = "null" => r.held \subseteq {"hosts", "wwwroot"} \/ site.lua = "nomem"
<1> DEFINE hosts == BuildHosts(LuaToZtable(site))
           broken == \E n \in DOMAIN hosts : \E a \in Attributes : hosts[n][a] = "null"
           unusable == \E n \in DOMAIN hosts : Unusable(hosts[n])
           r == BuildServerConfig(site)
<1>1. /\ site.wwwroot \in {"absent", "int", "inaccessible", "accessible"}
      /\ site.lua \in {"table", "bad", "broken", "nomem"} /\ site.entries \in Seq(Entries)
  BY DEF SiteFiles
<1>2. CASE site.lua \in {"bad", "nomem"}
  <2>1. r = Refuse(<< >>, Discard(site))
    BY <1>2 DEF BuildServerConfig
  <2> HIDE DEF r
  <2>2. r.ret = "null" /\ r.held = Discard(site)
    BY <2>1 DEF Refuse
  <2> QED
    BY <1>2, <2>2 DEF Discard, r
<1>3. CASE site.lua = "broken" \/ (site.lua = "table" /\ ~Fits(site))
  <2>1. r = Crash(<< >>)
    BY <1>3 DEF BuildServerConfig
  <2> HIDE DEF r
  <2>2. r.ret = "crash"
    BY <2>1 DEF Crash
  <2> QED
    BY <1>3, <2>2 DEF r
<1>4. CASE site.lua = "table" /\ Fits(site)
  <2>1. r = IF broken THEN Crash(hosts)
            ELSE IF hosts = << >> THEN Refuse(hosts, {})
            ELSE IF unusable THEN Refuse(hosts, {"hosts"})
            ELSE IF site.wwwroot \in {"absent", "int"} THEN Crash(hosts)
            ELSE IF site.wwwroot = "inaccessible"
              THEN Refuse(hosts, {"hosts", "wwwroot"})
            ELSE [ret |-> "config", hosts |-> hosts,
                  held |-> {"config", "hosts", "table", "wwwroot"}]
    BY <1>4 DEF BuildServerConfig
  <2>2. site.hosts = "table" => HostsWritten(hosts, site.entries, Len(site.entries))
    BY HostsBuilt
  <2>3. site.hosts # "table" => hosts = << >>
    BY NoHostsBuilt
  <2> HIDE DEF r, hosts
  <2>4. broken <=> HostsBroken(site)
    <3>1. CASE site.hosts = "table"
      BY <1>1, <2>2, <3>1, BrokenIs DEF HostsBroken
    <3>2. CASE site.hosts # "table"
      BY <2>3, <3>2 DEF HostsBroken
    <3> QED
      BY <3>1, <3>2
  <2>5. hosts # << >> /\ ~unusable <=> HostsUsable(site)
    <3>1. CASE site.hosts = "table"
      BY <1>1, <2>2, <3>1, UsableIs DEF HostsUsable
    <3>2. CASE site.hosts # "table"
      BY <2>3, <3>2 DEF HostsUsable
    <3> QED
      BY <3>1, <3>2
  <2> DEFINE w == HostsWritten(hosts, site.entries, Len(site.entries))
  <2> HIDE DEF broken, unusable, w
  <2>6. /\ r.hosts = hosts
        /\ r.ret = "config" => hosts # << >> /\ ~unusable /\ site.wwwroot = "accessible"
        /\ (r.ret = "crash") <=>
             broken \/ (hosts # << >> /\ ~unusable /\ site.wwwroot \in {"absent", "int"})
        /\ r.ret = "null" => r.held \subseteq {"hosts", "wwwroot"}
    BY <1>1, <2>1 DEF Crash, Refuse
  <2> QED
    BY <1>4, <2>2, <2>4, <2>5, <2>6 DEF r
<1> QED
  BY <1>1, <1>2, <1>3, <1>4

-----------------------------------------------------------------------------
\* What was built last was built from one of the files.
BuiltInv ==
  \/ built = NothingBuilt
  \/ \E s \in Sites : built = [site |-> s, result |-> BuildServerConfig(s)]

LEMMA BuiltSteps == BuiltInv /\ [Next]_vars => BuiltInv'
<1> SUFFICES ASSUME BuiltInv, [Next]_vars PROVE BuiltInv'
  OBVIOUS
<1>1. CASE UNCHANGED built
  BY <1>1 DEF BuiltInv
<1>2. ASSUME NEW p \in Procs, BuildConfig(p) PROVE BuiltInv'
  BY <1>2 DEF BuildConfig, BuiltInv
<1>3. ASSUME NEW p \in Procs, CtxInit(p) PROVE BuiltInv'
  BY <1>3 DEF CtxInit, BuiltInv
<1>4. ASSUME NEW p \in Procs, Start(p) \/ OpenPidFails(p) \/ WritePid(p)
                               \/ WritePidFails(p) \/ Reuse(p)
      PROVE  UNCHANGED built
  BY <1>4 DEF Start, OpenPidFails, WritePid, WritePidFails, Reuse, otherVars
<1>5. ASSUME NEW p \in Procs, Worker(p) \/ Interrupt(p) PROVE UNCHANGED built
  BY <1>5 DEF Worker, Served, WorkerOpens, WorkerCloses, Interrupt, Gone, otherVars
<1>6. ASSUME NEW p \in Procs, CmdServer(p) PROVE UNCHANGED built
  <2>1. CASE OpenLog(p) \/ OpenAccess(p) \/ OpenSocket(p) \/ Setup(p) \/ Bind(p) \/ Listen(p)
    BY <2>1 DEF OpenLog, OpenAccess, OpenSocket, Setup, Bind, Listen, otherVars
  <2>2. CASE SetupFails(p) \/ CloseFdFails(p) \/ Return(p)
    BY <2>2 DEF SetupFails, CloseFdFails, Return, Gone
  <2>3. CASE Serve(p)
    BY <2>3 DEF Serve, Accept, AcceptFails, CloseLogs, Gone, otherVars
  <2>4. CASE CloseFd(p) \/ FreeAll(p)
    BY <2>4 DEF CloseFd, FreeAll, otherVars
  <2> QED
    BY <1>6, <2>1, <2>2, <2>3, <2>4 DEF CmdServer
<1>7. ASSUME CmdKill PROVE UNCHANGED built
  BY <1>7 DEF CmdKill, KillOpens, KillReads, KillSignals, KillFails, KillRemoves
<1>8. CASE Next
  BY <1>1, <1>2, <1>3, <1>4, <1>5, <1>6, <1>7, <1>8 DEF Next, Prepare
<1>9. CASE UNCHANGED vars
  BY <1>1, <1>9 DEF vars
<1> QED
  BY <1>8, <1>9

LEMMA BuiltFrom ==
  ASSUME BuiltInv
  PROVE  /\ \/ built.site.lua = "none" /\ built.result.ret = "null" /\ built.result.held = {}
            \/ built.site \in SiteFiles /\ built.result = BuildServerConfig(built.site)
<1>1. CASE built = NothingBuilt
  BY <1>1 DEF NothingBuilt, NoSite, Refuse
<1>2. ASSUME NEW s \in Sites, built = [site |-> s, result |-> BuildServerConfig(s)]
      PROVE  built.site \in SiteFiles /\ built.result = BuildServerConfig(built.site)
  BY <1>2, LifecycleAssumption
<1> QED
  BY <1>1, <1>2 DEF BuiltInv

LEMMA OwnHosts == BuiltInv => HostsAreTheirOwn
<1> SUFFICES ASSUME BuiltInv, built.site.lua = "table", built.site.hosts = "table",
                    Fits(built.site)
             PROVE  HostsAreTheirOwn
  BY DEF HostsAreTheirOwn
<1> DEFINE es == built.site.entries
           hosts == built.result.hosts
<1>1. HostsWritten(hosts, es, Len(es))
  <2>1. built.site \in SiteFiles /\ built.result = BuildServerConfig(built.site)
    BY BuiltFrom
  <2> QED
    BY <2>1, ConfigIs
<1>2. DOMAIN es = 1 .. Len(es)
  <2>1. es \in Seq(Entries)
    BY BuiltFrom DEF SiteFiles
  <2> QED
    BY <2>1, LenProperties
<1> HIDE DEF es, hosts
<1>3. /\ Len(hosts) = HostCount(es, Len(es))
      /\ \A i \in DOMAIN es : IsHost(es[i]) => hosts[HostCount(es, i)] = HostFor(es[i])
  BY <1>1, <1>2 DEF HostsWritten
<1> QED
  BY <1>3 DEF HostsAreTheirOwn, HostCount, HostFor, ValueOf, es, hosts

LEMMA UsableHosts == BuiltInv => ConfiguredMeansUsable
<1> SUFFICES ASSUME BuiltInv PROVE ConfiguredMeansUsable
  OBVIOUS
<1>1. CASE built.site.lua = "none" /\ built.result.ret = "null" /\ built.result.held = {}
  BY <1>1 DEF ConfiguredMeansUsable
<1>2. CASE built.site \in SiteFiles /\ built.result = BuildServerConfig(built.site)
  BY <1>2, ConfigIs DEF ConfiguredMeansUsable
<1> QED
  BY <1>1, <1>2, BuiltFrom

\* For any file that fits the tables: the hosts that lua_to_ztable and
\* loader_get_table_value make of it are those that are written in it, each
\* with its own attributes.
THEOREM HostsAreFound == Spec => []HostsAreTheirOwn
<1>1. Init => BuiltInv
  BY DEF Init, BuiltInv
<1> QED
  BY <1>1, BuiltSteps, OwnHosts, PTL DEF Spec

\* build_server_config accepts only what a server can use; it ends the process
\* for a missing root, which check_server_root calls acceptable, and for what
\* else ConfiguredMeansUsable lists; what a refusal leaves allocated is at
\* most the hosts and the root, unless it is refused for want of memory.
THEOREM OnlyUsableConfigs == Spec => []ConfiguredMeansUsable
<1>1. Init => BuiltInv
  BY DEF Init, BuiltInv
<1> QED
  BY <1>1, BuiltSteps, UsableHosts, PTL DEF Spec
=============================================================================
