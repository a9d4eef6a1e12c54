----------------------------- MODULE Lifecycle -----------------------------
(***************************************************************************)
(* src/cli/server.c: the server as a process.  main writes a PID file,     *)
(* cmd_server builds the configuration (module SiteConfig), takes the      *)
(* port, serves and releases what it holds; sigkill, the handler of        *)
(* SIGINT, may run between any two of these steps; `hypno --kill'          *)
(* (cmd_kill) looks for a PID file and kills what it names.  Two servers   *)
(* that are started for one port, and a command that kills, run at once.   *)
(*                                                                         *)
(* The workers of a server are the pool of module Multithread; here only   *)
(* matters that some worker is busy and may open files.                    *)
(***************************************************************************)
EXTENDS SiteConfig

CONSTANTS
  Procs,     \* process IDs
  Oneshot,   \* those started with --model=oneshot, the others are threaded
  Files,     \* the PID files cmd_kill can find
  Sites,     \* configuration files
  MaxKills   \* bound on the number of `hypno --kill'

\* A file that is absent or empty names no process.
ASSUME LifecycleAssumption ==
  /\ MaxKills \in Nat /\ Oneshot \subseteq Procs
  /\ "absent" \notin Procs /\ "empty" \notin Procs /\ "none" \notin Files
  /\ Sites \subseteq SiteFiles

VARIABLES
  proc,      \* a server: control point, pointers and what it holds
  runs,      \* who has the process ID
  pidfile,   \* what a PID file says
  killer,    \* locals of cmd_kill
  kills,     \* how often it was started
  built      \* what build_server_config returned last, and for which file

vars == <<proc, runs, pidfile, killer, kills, built>>

\* pc goes from "unused" through the steps of main and cmd_server to
\* "return" or "exit".  file: the PID file, or "none".  logfd, accessfd: a
\* null pointer, the stream opened for it, or stderr; "closed" is stderr
\* after the handler has closed that, too.  fd: the listening socket is not
\* open yet, open, closed, or its number belongs to a file of a worker, which
\* cmd_server may have closed ("stolen").
NewProc ==
  [pc |-> "unused", file |-> "none", has |-> {},
   logfd |-> "null", accessfd |-> "null", fd |-> "none", port |-> FALSE,
   busy |-> FALSE, intr |-> "no", failed |-> FALSE]

NoKill == [pc |-> "idle", file |-> "none", pid |-> "none"]
\* No file was asked for.
NoSite == [lua |-> "none", hosts |-> "absent", entries |-> << >>,
           wwwroot |-> "absent"]
NothingBuilt == [site |-> NoSite, result |-> Refuse(<< >>, {})]

Init ==
  /\ proc = [p \in Procs |-> NewProc]
  /\ runs = [p \in Procs |-> "nobody"]
  /\ pidfile = [f \in Files |-> "absent"]
  /\ killer = NoKill /\ kills = 0 /\ built = NothingBuilt

otherVars == <<runs, pidfile, killer, kills, built>>

Step(p, from, new) ==
  /\ proc[p].pc = from
  /\ proc' = [proc EXCEPT ![p] = new]

Dead(p) == [NewProc EXCEPT !.pc = "exit", !.file = proc[p].file]

\* The kernel takes back what a process held; its PID file stays.
Gone(p) ==
  /\ proc' = [proc EXCEPT ![p] = Dead(p)]
  /\ runs' = [runs EXCEPT ![p] = "nobody"]
  /\ UNCHANGED <<pidfile, killer, kills, built>>

-----------------------------------------------------------------------------
(* main and write_pid.                                                     *)

\* "none": no PID file is asked for.  open() creates or empties the file.
Start(p) ==
  /\ runs[p] = "nobody"
  /\ \E f \in Files \cup {"none"} :
       /\ Step(p, "unused", [NewProc EXCEPT !.file = f,
                              !.pc = IF f = "none" THEN "config" ELSE "pid"])
       /\ pidfile' = IF f = "none" THEN pidfile
                     ELSE [pidfile EXCEPT ![f] = "empty"]
  /\ runs' = [runs EXCEPT ![p] = "server"]
  /\ UNCHANGED <<killer, kills, built>>

\* open() fails: main returns, and the file is what it was.
OpenPidFails(p) ==
  /\ runs[p] = "nobody"
  /\ Step(p, "unused", [NewProc EXCEPT !.pc = "exit"])
  /\ UNCHANGED otherVars

\* If the file was removed in between, what is written is lost with it.
Recorded(p) == [f \in Files |-> IF f = proc[p].file THEN p ELSE pidfile[f]]

WritePid(p) ==
  /\ Step(p, "pid", [proc[p] EXCEPT !.pc = "config"])
  /\ pidfile' = Recorded(p)
  /\ UNCHANGED <<runs, killer, kills, built>>

\* write() or close() fails: write_pid returns 0 and main gives up; the file
\* stays behind, empty or with what was written.
WritePidFails(p) ==
  /\ Step(p, "pid", Dead(p))
  /\ runs' = [runs EXCEPT ![p] = "nobody"]
  /\ pidfile' \in {pidfile, Recorded(p)}
  /\ UNCHANGED <<killer, kills, built>>

-----------------------------------------------------------------------------
(* cmd_server, up to the loop.                                             *)

BuildConfig(p) ==
  /\ proc[p].pc = "config"
  /\ \E s \in Sites :
       LET r == BuildServerConfig(s)
           ok == r.ret = "config"
       IN /\ built' = [site |-> s, result |-> r]
          /\ proc' = [proc EXCEPT ![p] =
               IF ok THEN [@ EXCEPT !.pc = "init", !.has = r.held] ELSE Dead(p)]
          /\ runs' = [runs EXCEPT ![p] = IF ok THEN "server" ELSE "nobody"]
  /\ UNCHANGED <<pidfile, killer, kills>>

\* If the context fails the configuration is freed, and the server gone.
CtxInit(p) ==
  /\ proc[p].pc = "init" /\ built' = NothingBuilt
  /\ \/ /\ Step(p, "init", [proc[p] EXCEPT !.pc = "log", !.has = @ \cup {"ctx"}])
        /\ UNCHANGED runs
     \/ /\ proc' = [proc EXCEPT ![p] = Dead(p)]
        /\ runs' = [runs EXCEPT ![p] = "nobody"]
  /\ UNCHANGED <<pidfile, killer, kills>>

OpenLog(p) ==
  /\ Step(p, "log", [proc[p] EXCEPT !.pc = "access", !.logfd = "own"])
  /\ UNCHANGED otherVars

OpenAccess(p) ==
  /\ Step(p, "access", [proc[p] EXCEPT !.pc = "socket", !.accessfd = "own"])
  /\ UNCHANGED otherVars

OpenSocket(p) ==
  /\ Step(p, "socket", [proc[p] EXCEPT !.pc = "setup", !.fd = "open"])
  /\ UNCHANGED otherVars

\* setsockopt and fcntl
Setup(p) ==
  /\ proc[p].fd = "open"
  /\ Step(p, "setup", [proc[p] EXCEPT !.pc = "bind"])
  /\ UNCHANGED otherVars

\* With SO_REUSEADDR bind() fails only if somebody listens on the port.
PortTaken == \E q \in Procs : proc[q].port

Bind(p) ==
  /\ proc[p].fd = "open" /\ ~PortTaken
  /\ Step(p, "bind", [proc[p] EXCEPT !.pc = "listen"])
  /\ UNCHANGED otherVars

\* Mutant: a failure of listen() is not looked at.
ListenIgnored(p) ==
  /\ proc[p].fd = "open"
  /\ Step(p, "listen", [proc[p] EXCEPT !.pc = "serve", !.port = ~PortTaken])
  /\ UNCHANGED otherVars

\* listen(), and signal() for SIGCHLD and SIGPIPE.
Listen(p) ==
  /\ proc[p].fd = "open" /\ ~PortTaken
  /\ Step(p, "listen", [proc[p] EXCEPT !.pc = "serve", !.port = TRUE])
  /\ UNCHANGED otherVars

\* Every other failure returns 0 at once, and main with it: nothing is
\* released.  A call on the socket fails by itself or because the handler has
\* closed it.
SetupFails(p) ==
  /\ proc[p].pc \in {"log", "access", "socket", "setup", "bind", "listen"}
  /\ Gone(p)

-----------------------------------------------------------------------------
(* The loop of the server, as far as it matters here.                      *)

\* server.log_fd and server.access_fd stay what they were when the handler
\* closes the streams.  To write to a stream that was closed, or to close it
\* again, is undefined: the process may end, or go on.
Stale(stream) == stream \in {"stderr", "closed"}

\* Both pointers are stderr by then, or it has been closed before.
ClosesTwice(r) ==
  \/ r.logfd = "stderr" /\ r.accessfd = "stderr"
  \/ "closed" \in {r.logfd, r.accessfd}

\* srv_multithread writes the access log.
Accept(p) ==
  /\ proc[p].pc = "serve" /\ proc[p].fd = "open" /\ ~proc[p].busy
  /\ \/ /\ proc' = [proc EXCEPT ![p].busy = TRUE]
        /\ UNCHANGED otherVars
     \/ p \notin Oneshot /\ Stale(proc[p].accessfd) /\ Gone(p)

\* A worker ends; in the single-threaded server main does it itself.
Served(p) ==
  /\ proc[p].busy
  /\ Step(p, proc[p].pc, [proc[p] EXCEPT !.busy = FALSE])
  /\ UNCHANGED otherVars

\* A worker opens a file and is given the number of the closed socket, and
\* closes it again.  It matters until cmd_server has closed the number.
WorkerOpens(p) ==
  /\ proc[p].busy /\ proc[p].fd = "closed"
  /\ proc[p].pc \in {"serve", "closelog", "closefd"}
  /\ Step(p, proc[p].pc, [proc[p] EXCEPT !.fd = "foreign"])
  /\ UNCHANGED otherVars

WorkerCloses(p) ==
  /\ proc[p].busy /\ proc[p].fd = "foreign"
  /\ Step(p, proc[p].pc, [proc[p] EXCEPT !.fd = "closed"])
  /\ UNCHANGED otherVars

\* accept() fails, which is logged, and the loop returns: the socket is not
\* open, or one of the errors that end the loop occurs.  srv_multithread does
\* not wait for its workers; srv_single is not between two connections while
\* one is busy.
AcceptFails(p) ==
  /\ proc[p].pc = "serve" /\ (p \in Oneshot => ~proc[p].busy)
  /\ \/ /\ proc' = [proc EXCEPT ![p].pc = "closelog",
                                 ![p].failed = @ \/ proc[p].fd = "open"]
        /\ UNCHANGED otherVars
     \/ Stale(proc[p].logfd) /\ Gone(p)

CloseLogs(p) ==
  \/ /\ Step(p, "closelog", [proc[p] EXCEPT !.pc = "closefd", !.logfd = "null",
                                            !.accessfd = "null"])
     /\ UNCHANGED otherVars
  \/ proc[p].pc = "closelog" /\ ClosesTwice(proc[p]) /\ Gone(p)

\* Mutant: what close() returns is not looked at.
CloseFdIgnored(p) ==
  /\ Step(p, "closefd", [proc[p] EXCEPT !.pc = "free", !.fd = "closed",
                                        !.port = FALSE])
  /\ UNCHANGED otherVars

CloseFd(p) ==
  /\ proc[p].fd # "closed"
  /\ Step(p, "closefd", [proc[p] EXCEPT !.pc = "free", !.port = FALSE,
       !.fd = IF @ = "foreign" THEN "stolen" ELSE "closed"])
  /\ UNCHANGED otherVars

\* The socket is closed already: nothing more is freed.
CloseFdFails(p) ==
  /\ proc[p].pc = "closefd" /\ proc[p].fd = "closed"
  /\ Gone(p)

\* ctx->free and free_server_config; then main returns and takes the
\* workers along.
FreeAll(p) ==
  /\ Step(p, "free", [proc[p] EXCEPT !.pc = "return",
                                     !.has = FreeServerConfig(@ \ {"ctx"})])
  /\ UNCHANGED otherVars

Return(p) == proc[p].pc = "return" /\ Gone(p)

-----------------------------------------------------------------------------
(* sigkill, the handler of SIGINT.  It runs in the thread of main.         *)

ToStderr(stream) ==
  CASE stream = "null" -> "null" [] stream = "own" -> "stderr" [] OTHER -> "closed"

\* Mutant: the socket is not in fdset.
HandlerForgetsSocket(r) ==
  [r EXCEPT !.logfd = ToStderr(@), !.accessfd = ToStderr(@), !.intr = "late"]

\* fdset[0] is the number of the listening socket; it is closed as often as
\* the signal comes, whoever has the number by then.
HandlerCloses(r) ==
  [r EXCEPT !.fd = IF @ \in {"none", "stolen"} THEN @ ELSE "closed", !.port = FALSE,
            !.logfd = ToStderr(@), !.accessfd = ToStderr(@),
            !.intr = IF r.fd = "none" /\ @ = "no" THEN "early"
                     ELSE IF r.fd = "none" THEN @ ELSE "late"]

\* A close() that fails is written to logfd, which may be a null pointer by
\* then.
HandlerBreaks(r) ==
  ClosesTwice(r) \/ (r.fd \in {"closed", "stolen"} /\ r.logfd = "null")

Interrupt(p) ==
  /\ proc[p].pc \notin {"unused", "exit"}
  /\ \/ proc' = [proc EXCEPT ![p] = HandlerCloses(@)] /\ UNCHANGED otherVars
     \/ HandlerBreaks(proc[p]) /\ Gone(p)

-----------------------------------------------------------------------------
(* cmd_kill, and what the system does with process IDs.                    *)

\* Some process gets the ID of one that is gone.
Reuse(p) ==
  /\ proc[p].pc = "exit" /\ runs[p] = "nobody"
  /\ runs' = [runs EXCEPT ![p] = "other"]
  /\ UNCHANGED <<proc, pidfile, killer, kills, built>>

\* The first file named like a PID file, in the order of the directory.
KillOpens ==
  /\ killer.pc = "idle" /\ kills < MaxKills
  /\ kills' = kills + 1
  /\ \E f \in Files : /\ pidfile[f] # "absent"
                      /\ killer' = [NoKill EXCEPT !.pc = "read", !.file = f]
  /\ UNCHANGED <<proc, runs, pidfile, built>>

\* A file that names no process, or was just truncated, is an error.
KillReads ==
  /\ killer.pc = "read"
  /\ killer' = IF pidfile[killer.file] \in Procs
                 THEN [killer EXCEPT !.pc = "kill", !.pid = pidfile[killer.file]]
                 ELSE NoKill
  /\ UNCHANGED <<proc, runs, pidfile, kills, built>>

\* Mutant: the file of a process that is gone is cleaned up.
KillSignalsOrNot ==
  /\ killer.pc = "kill" /\ killer' = [killer EXCEPT !.pc = "remove"]
  /\ UNCHANGED <<proc, runs, pidfile, kills, built>>

KillSignals ==
  /\ killer.pc = "kill" /\ runs[killer.pid] # "nobody"
  /\ killer' = [killer EXCEPT !.pc = "remove"]
  /\ proc' = IF runs[killer.pid] = "server"
               THEN [proc EXCEPT ![killer.pid] = Dead(killer.pid)]
               ELSE proc
  /\ runs' = [runs EXCEPT ![killer.pid] = "nobody"]
  /\ UNCHANGED <<pidfile, kills, built>>

\* No such process, or not permitted: the file stays.
KillFails ==
  /\ killer.pc = "kill" /\ killer' = NoKill
  /\ UNCHANGED <<proc, runs, pidfile, kills, built>>

KillRemoves ==
  /\ killer.pc = "remove" /\ killer' = NoKill
  /\ pidfile' = [pidfile EXCEPT ![killer.file] = "absent"]
  /\ proc' = [p \in Procs |->
       IF proc[p].pc = "pid" /\ proc[p].file = killer.file
         THEN [proc[p] EXCEPT !.file = "none"] ELSE proc[p]]
  /\ UNCHANGED <<runs, kills, built>>

-----------------------------------------------------------------------------
Serve(p) == Accept(p) \/ AcceptFails(p) \/ CloseLogs(p)

Prepare(p) ==
  WritePid(p) \/ WritePidFails(p) \/ BuildConfig(p) \/ CtxInit(p)

CmdServer(p) ==
  \/ OpenLog(p) \/ OpenAccess(p) \/ OpenSocket(p) \/ Setup(p) \/ Bind(p)
  \/ Listen(p) \/ SetupFails(p) \/ Serve(p) \/ CloseFd(p) \/ CloseFdFails(p)
  \/ FreeAll(p) \/ Return(p)

Worker(p) == Served(p) \/ WorkerOpens(p) \/ WorkerCloses(p)

CmdKill == KillOpens \/ KillReads \/ KillSignals \/ KillFails \/ KillRemoves

Next ==
  \/ \E p \in Procs : \/ Start(p) \/ OpenPidFails(p) \/ Prepare(p) \/ CmdServer(p)
                       \/ Worker(p) \/ Interrupt(p) \/ Reuse(p)
  \/ CmdKill

Spec == Init /\ [][Next]_vars

\* main and the workers are threads that run once there is a server to run, and
\* a client does not keep a connection open for ever: some step of the server
\* happens while there is one.  Nobody has to start, interrupt or kill.
FairSpec ==
  Spec /\ \A p \in Procs : WF_vars(CmdServer(p) \/ Served(p))

-----------------------------------------------------------------------------
(* Properties.                                                             *)

\* A server that serves and was not interrupted listens on the port, and no
\* two servers do: the one that came second has given up before its loop.
ServingHoldsPort ==
  \A p \in Procs :
    /\ proc[p].pc = "serve" /\ proc[p].intr # "late" => proc[p].port
    /\ proc[p].port => \A q \in Procs \ {p} : ~proc[q].port

\* `hypno --kill' can find a server that serves by its PID file, unless
\* another server was given the same file: that one overwrites it before it
\* finds the port taken, and no command removes the file of a server that
\* it has not killed.  A server that cannot write its file does not serve.
RecordedUnlessShared ==
  \A p \in Procs :
    proc[p].pc = "serve" /\ proc[p].file # "none" =>
      \/ pidfile[proc[p].file] = p
      \/ \E q \in Procs \ {p} : proc[q].file = proc[p].file

\* What a busy worker reads is still there: the configuration and the
\* credentials are freed under it only if accept() failed by itself in the
\* multithreaded server, which does not wait for its workers, or if
\* cmd_server closed a file of a worker in place of its socket.
ConfigWhileBusy ==
  \A p \in Procs :
    proc[p].busy => \/ {"config", "hosts", "table", "ctx"} \subseteq proc[p].has
                    \/ /\ p \notin Oneshot
                       /\ proc[p].failed \/ proc[p].fd = "stolen"

\* An interrupt that finds the socket open ends the server.  One that comes
\* before socket() does not: it only closes the logs that are open by then,
\* to which the server goes on writing.
InterruptStops ==
  \A p \in Procs : proc[p].intr = "late" ~> proc[p].pc = "exit"

\* The loader finds the hosts of a file that fits its tables, in their order, each with
\* the attributes of its own table and none from a table inside it or
\* behind it.
HostsAreTheirOwn ==
  LET written == built.site.entries
      hosts == built.result.hosts
      upTo(i) == Cardinality({j \in 1 .. i : IsHost(written[j])})
      kind(e, a) == IF a \notin DOMAIN e.attrs THEN "absent"
                    ELSE IF e.attrs[a] = "text" THEN e.name ELSE "null"
  IN built.site.lua = "table" /\ built.site.hosts = "table" /\ Fits(built.site) =>
       /\ Len(hosts) = upTo(Len(written))
       /\ \A i \in DOMAIN written :
            LET e == written[i]
            IN IsHost(e) => hosts[upTo(i)] =
                 [name |-> e.name, alias |-> kind(e, "alias"),
                  dir |-> kind(e, "dir"), filter |-> kind(e, "filter")]

\* A file with a host, and a directory and a filter for every host of it.
HostsUsable(site) ==
  /\ site.hosts = "table"
  /\ \E n \in DOMAIN site.entries : IsHost(site.entries[n])
  /\ \A n \in DOMAIN site.entries :
       IsHost(site.entries[n]) => {"dir", "filter"} \subseteq DOMAIN site.entries[n].attrs

\* A host has an attribute without a text.
HostsBroken(site) ==
  /\ site.hosts = "table"
  /\ \E n \in DOMAIN site.entries :
       LET e == site.entries[n]
       IN IsHost(e) /\ \E a \in DOMAIN e.attrs : e.attrs[a] # "text"

\* A server starts only with hosts that all have a directory and a filter,
\* and with a root it can read.  check_server_root says of the root that it can
\* be blank (configs.c:127-130), and build_server_config lets a blank root pass
\* at line 266, but has duplicated a null pointer by then: without a root
\* there is no server either, and no refusal.  The process ends for this, for an
\* attribute without a text, for a file that Lua or the table cannot take, and
\* for nothing else.  A configuration that is refused leaves
\* nothing allocated but its hosts and its root, which build_server_config
\* never frees; want of memory for it also leaves the Lua state.
ConfiguredMeansUsable ==
  LET site == built.site
      result == built.result
  IN /\ result.ret = "config" => HostsUsable(site) /\ site.wwwroot = "accessible"
     /\ (result.ret = "crash") <=>
          \/ site.lua = "broken"
          \/ /\ site.lua = "table"
             /\ \/ ~Fits(site) \/ HostsBroken(site)
                \/ HostsUsable(site) /\ site.wwwroot \in {"absent", "int"}
     /\ result.ret = "null" =>
          result.held \subseteq {"hosts", "wwwroot"} \/ site.lua = "nomem"
=============================================================================
