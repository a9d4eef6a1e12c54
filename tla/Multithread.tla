---------------------------- MODULE Multithread ----------------------------
(***************************************************************************)
(* The multithreaded server loop of src/server/multithread.c.  One main    *)
(* thread (srv_multithread) accepts connections into a fixed table of      *)
(* slots, _fds[], and starts one worker thread (server_proc) for each.     *)
(* Nothing but the word _fds[s].running is used to hand a slot over: a     *)
(* worker writes INACTIVE as its last act, and the main thread, only when  *)
(* it counts client_max connections, sweeps the table, joins INACTIVE      *)
(* workers and cancels the ones that have been at it for too long.         *)
(*                                                                         *)
(* A connection and the thread started for it share one identity, a member *)
(* of Conns, which may come back (Arrive) once the thread has been joined: *)
(* descriptors, thread ids and slots are all reused.                       *)
(***************************************************************************)
EXTENDS Integers, FiniteSets

CONSTANTS
  ClientMax,   \* server_t.max_per: "Client max simultaneous", which the
               \* option --max-per sets to any number
  NumSlots,    \* the extent of _fds[] (256 in the code)
  Conns,       \* identities of connections, and of their threads
  Fds,         \* descriptors that accept() can return
  NoConn,      \* no connection behind a descriptor
  NoFd,        \* the -1 of a failed accept()
  Faults,      \* which of the rare events below may happen
  MaxFaults    \* bound on how many of them happen

FaultKinds == {"spawn", "accept", "overdue"}

ASSUME PoolAssumption == ClientMax \in Nat \ {0} /\ NumSlots \in Nat \ {0}
ASSUME NamesAssumption == NoConn \notin Conns /\ NoFd \notin Fds
ASSUME FaultsAssumption == Faults \subseteq FaultKinds /\ MaxFaults \in Nat

VARIABLES
  running,        \* _fds[s].running
  fd,             \* _fds[s].fd
  id,             \* _fds[s].id, the thread started last for the slot
  conncount,      \* main thread: connections counted
  connindex,      \* main thread: where the search for a slot starts
  i,              \* main thread: index of the sweep
  f,              \* main thread: the chosen slot, NoSlot for NULL
  mpc,            \* main thread: control point
  pc,             \* control point of every worker thread
  slotOf,         \* the conn_t a worker was started with
  cancelPending,  \* pthread_cancel() was called on the worker
  req,            \* the connection whose request the worker has read
  sock,           \* kernel: state of a connection
  fdTable,        \* kernel: the connection behind a descriptor
  got,            \* whose requests the peer has received answers to
  faults          \* rare events so far

mainVars == <<conncount, connindex, i, f, mpc>>
slotVars == <<running, fd, id>>
workerVars == <<pc, slotOf, cancelPending, req>>
netVars == <<sock, fdTable, got>>
vars == <<slotVars, mainVars, workerVars, netVars, faults>>

Slots == 0 .. NumSlots - 1
NoSlot == -1

\* Control points at which a worker thread exists and has not been joined.
LivePcs == {"read", "write", "close", "mark", "exit"}
Live == {c \in Conns : pc[c] \in LivePcs}
Busy == {s \in Slots : running[s] # "AVAILABLE"}

TypeOK ==
  /\ running \in [Slots -> {"AVAILABLE", "ACTIVE", "INACTIVE"}]
  /\ fd \in [Slots -> Fds \cup {NoFd}]
  /\ id \in [Slots -> Conns \cup {NoConn}]
  /\ conncount \in Int
  /\ connindex \in Nat
  /\ i \in Int
  /\ f \in Slots \cup {NoSlot}
  /\ mpc \in {"top", "scan", "join", "release", "find", "accept",
              "stopped", "undefined"}
  /\ pc \in [Conns -> LivePcs \cup {"none", "cancelled"}]
  /\ slotOf \in [Conns -> Slots]
  /\ cancelPending \in [Conns -> BOOLEAN]
  /\ req \in [Conns -> Conns \cup {NoConn}]
  /\ sock \in [Conns -> {"closed", "queued", "open"}]
  /\ fdTable \in [Fds -> Conns \cup {NoConn}]
  /\ got \in [Conns -> SUBSET Conns]
  /\ faults \in 0 .. MaxFaults

\* memset( _fds, 0, ... ): every slot AVAILABLE.
Init ==
  /\ running = [s \in Slots |-> "AVAILABLE"]
  /\ fd = [s \in Slots |-> NoFd]
  /\ id = [s \in Slots |-> NoConn]
  /\ conncount = 0 /\ connindex = 0 /\ i = -1 /\ f = NoSlot /\ mpc = "top"
  /\ pc = [c \in Conns |-> "none"]
  /\ slotOf = [c \in Conns |-> 0]
  /\ cancelPending = [c \in Conns |-> FALSE]
  /\ req = [c \in Conns |-> NoConn]
  /\ sock = [c \in Conns |-> "closed"]
  /\ fdTable = [d \in Fds |-> NoConn]
  /\ got = [c \in Conns |-> {}]
  /\ faults = 0

-----------------------------------------------------------------------------
(* The kernel's side of a descriptor.                                      *)

\* The connection a system call on the slot's descriptor reaches.
Peer(s) == IF fd[s] \in Fds THEN fdTable[fd[s]] ELSE NoConn

\* close( _fds[s].fd ): EBADF, and no effect, when nothing is behind it.
CloseFd(s) ==
  /\ fdTable' = [d \in Fds |-> IF d = fd[s] THEN NoConn ELSE fdTable[d]]
  /\ sock' = [c \in Conns |-> IF c = Peer(s) THEN "closed" ELSE sock[c]]
  /\ UNCHANGED got

Fault(kind) ==
  /\ kind \in Faults
  /\ faults < MaxFaults
  /\ faults' = faults + 1

\* A client connects; its handshake ends in the listen backlog.
Arrive(c) ==
  /\ sock[c] = "closed" /\ pc[c] = "none"
  /\ sock' = [sock EXCEPT ![c] = "queued"]
  /\ got' = [got EXCEPT ![c] = {}]
  /\ UNCHANGED <<slotVars, mainVars, workerVars, fdTable, faults>>

-----------------------------------------------------------------------------
(* The main thread.                                                        *)

\* Mutant: the table is taken for full one connection too late.
TopOffByOne ==
  /\ mpc = "top"
  /\ f' = NoSlot
  /\ IF conncount > ClientMax
       THEN mpc' = "scan" /\ i' = conncount
       ELSE mpc' = "find" /\ UNCHANGED i
  /\ UNCHANGED <<slotVars, conncount, connindex, workerVars, netVars, faults>>

\* The head of the loop: sweep the table only when it is counted full.
Top ==
  /\ mpc = "top"
  /\ f' = NoSlot
  /\ IF conncount >= ClientMax
       THEN mpc' = "scan" /\ i' = conncount
       ELSE mpc' = "find" /\ UNCHANGED i
  /\ UNCHANGED <<slotVars, conncount, connindex, workerVars, netVars, faults>>

\* One more index of the sweep done; after index 0 it sleeps and goes on.
Advance ==
  /\ i' = i - 1
  /\ mpc' = IF i = 0 THEN "find" ELSE "scan"

ScanAvailable ==
  /\ mpc = "scan" /\ i \in Slots /\ running[i] = "AVAILABLE"
  /\ connindex' = i
  /\ Advance
  /\ UNCHANGED <<slotVars, conncount, f, workerVars, netVars, faults>>

\* Mutant: the next search does not start at the slot given back.
ScanInactiveForgotten ==
  /\ mpc = "scan" /\ i \in Slots /\ running[i] = "INACTIVE"
  /\ conncount' = conncount - 1
  /\ running' = [running EXCEPT ![i] = "AVAILABLE"]
  /\ mpc' = "join"
  /\ UNCHANGED <<fd, id, i, connindex, f, workerVars, netVars, faults>>

\* A finished worker: the slot is given back before the thread is joined.
ScanInactive ==
  /\ mpc = "scan" /\ i \in Slots /\ running[i] = "INACTIVE"
  /\ conncount' = conncount - 1
  /\ connindex' = i
  /\ running' = [running EXCEPT ![i] = "AVAILABLE"]
  /\ mpc' = "join"
  /\ UNCHANGED <<fd, id, i, f, workerVars, netVars, faults>>

\* pthread_join() blocks until the thread has returned.
Join ==
  /\ mpc = "join" /\ id[i] \in Conns
  /\ pc[id[i]] \in {"exit", "cancelled"}
  /\ pc' = [pc EXCEPT ![id[i]] = "none"]
  /\ cancelPending' = [cancelPending EXCEPT ![id[i]] = FALSE]
  /\ req' = [req EXCEPT ![id[i]] = NoConn]
  /\ Advance
  /\ UNCHANGED <<slotVars, conncount, connindex, f, slotOf, netVars, faults>>

\* pthread_join() of a thread that was joined before is undefined: the call
\* fails with ESRCH, or it touches memory that is not a thread any more.
JoinStale ==
  /\ mpc = "join"
  /\ id[i] \in Conns => pc[id[i]] = "none"
  /\ \/ Advance
     \/ mpc' = "undefined" /\ UNCHANGED i
  /\ UNCHANGED <<slotVars, conncount, connindex, f, workerVars, netVars, faults>>

\* A worker still within p->ttimeout is left alone.
ScanActive ==
  /\ mpc = "scan" /\ i \in Slots /\ running[i] = "ACTIVE"
  /\ Advance
  /\ UNCHANGED <<slotVars, conncount, connindex, f, workerVars, netVars, faults>>

\* A worker past p->ttimeout: its descriptor is closed under it ...
ScanOverdue ==
  /\ mpc = "scan" /\ i \in Slots /\ running[i] = "ACTIVE"
  /\ Fault("overdue")
  /\ CloseFd(i)
  /\ mpc' = "release"
  /\ UNCHANGED <<slotVars, conncount, connindex, i, f, workerVars>>

\* Mutant: a cancelled worker is uncounted at once.
ReleaseUncounts ==
  /\ mpc = "release"
  /\ cancelPending' = [c \in Conns |->
       cancelPending[c] \/ (c = id[i] /\ pc[c] # "none")]
  /\ running' = [running EXCEPT ![i] = "AVAILABLE"]
  /\ conncount' = conncount - 1
  /\ Advance
  /\ UNCHANGED <<fd, id, connindex, f, pc, slotOf, req, netVars, faults>>

\* ... then it is cancelled and the slot given back, neither counted nor
\* joined.
Release ==
  /\ mpc = "release"
  /\ cancelPending' = [c \in Conns |->
       cancelPending[c] \/ (c = id[i] /\ pc[c] # "none")]
  /\ running' = [running EXCEPT ![i] = "AVAILABLE"]
  /\ Advance
  /\ UNCHANGED <<fd, id, conncount, connindex, f, pc, slotOf, req, netVars, faults>>

\* The sweep starts at conncount, which nothing keeps below the extent of
\* _fds[].  What lies behind it may read as AVAILABLE; anything else makes
\* the loop write to it, close it or join it.
ScanOutside ==
  /\ mpc = "scan" /\ i >= NumSlots
  /\ \/ connindex' = i /\ Advance
     \/ mpc' = "undefined" /\ UNCHANGED <<connindex, i>>
  /\ UNCHANGED <<slotVars, conncount, f, workerVars, netVars, faults>>

\* Mutant: the first slot is taken unseen.
FindFreeUnchecked(s) ==
  /\ s \in connindex .. ClientMax - 1
  /\ \A t \in connindex .. s - 1 : running[t] # "AVAILABLE"

\* The first AVAILABLE slot from connindex on.
FindFree(s) ==
  /\ s \in connindex .. ClientMax - 1
  /\ running[s] = "AVAILABLE"
  /\ \A t \in connindex .. s - 1 : running[t] # "AVAILABLE"

\* Mutant: accept() is not skipped for a NULL slot.
FindNull ==
  /\ mpc = "find"
  /\ \/ \E s \in Slots :
          FindFree(s) /\ connindex' = s /\ f' = s /\ mpc' = "accept"
     \/ /\ \A s \in Slots : ~FindFree(s)
        /\ mpc' = "accept" /\ UNCHANGED <<connindex, f>>
  /\ UNCHANGED <<slotVars, conncount, i, workerVars, netVars, faults>>

\* The search for a slot.  f is left at the last slot looked at, AVAILABLE
\* or not, and stays NULL when the search had nothing to look at.  If max_per
\* takes it behind _fds[], accept() stores there whatever is found.
Find ==
  /\ mpc = "find"
  /\ \/ \E s \in Slots :
          FindFree(s) /\ connindex' = s /\ f' = s /\ mpc' = "accept"
     \/ /\ connindex < ClientMax
        /\ \A s \in Slots : ~FindFree(s)
        /\ IF ClientMax <= NumSlots
             THEN connindex' = ClientMax /\ f' = ClientMax - 1 /\ mpc' = "accept"
             ELSE mpc' = "undefined" /\ UNCHANGED <<connindex, f>>
     \/ connindex >= ClientMax /\ mpc' = "top" /\ UNCHANGED <<connindex, f>>
  /\ UNCHANGED <<slotVars, conncount, i, workerVars, netVars, faults>>

\* accept() takes a queued connection and any free descriptor.
TakeConnection(c, d) ==
  /\ mpc = "accept"
  /\ sock[c] = "queued" /\ fdTable[d] = NoConn
  /\ fd' = [fd EXCEPT ![f] = d]
  /\ fdTable' = [fdTable EXCEPT ![d] = c]
  /\ sock' = [sock EXCEPT ![c] = "open"]
  /\ mpc' = "top"
  /\ UNCHANGED <<connindex, i, f, got>>

\* accept(), init_conn_after_accept() and pthread_create().
Accept(c, d) ==
  /\ TakeConnection(c, d)
  /\ conncount' = conncount + 1
  /\ running' = [running EXCEPT ![f] = "ACTIVE"]
  /\ id' = [id EXCEPT ![f] = c]
  /\ slotOf' = [slotOf EXCEPT ![c] = f]
  /\ pc' = [pc EXCEPT ![c] = "read"]
  /\ UNCHANGED <<cancelPending, req, faults>>

\* Mutant: the count is not given back.
AcceptSpawnFailsCounted(c, d) ==
  /\ TakeConnection(c, d)
  /\ Fault("spawn")
  /\ conncount' = conncount + 1
  /\ running' = [running EXCEPT ![f] = "AVAILABLE"]
  /\ UNCHANGED <<id, workerVars>>

\* The same with pthread_create() failing: the slot and the count are given
\* back, the descriptor is not closed.
AcceptSpawnFails(c, d) ==
  /\ TakeConnection(c, d)
  /\ Fault("spawn")
  /\ running' = [running EXCEPT ![f] = "AVAILABLE"]
  /\ UNCHANGED <<id, conncount, workerVars>>

\* EMFILE when the descriptors have run out (ENFILE and EAGAIN alike).
AcceptRetry ==
  /\ mpc = "accept"
  /\ \A d \in Fds : fdTable[d] # NoConn
  /\ fd' = [fd EXCEPT ![f] = NoFd]
  /\ mpc' = "top"
  /\ UNCHANGED <<running, id, conncount, connindex, i, f, workerVars, netVars, faults>>

\* EINTR and every other error: srv_multithread returns.
AcceptError ==
  /\ mpc = "accept"
  /\ Fault("accept")
  /\ fd' = [fd EXCEPT ![f] = NoFd]
  /\ mpc' = "stopped"
  /\ UNCHANGED <<running, id, conncount, connindex, i, f, workerVars, netVars>>

-----------------------------------------------------------------------------
(* A worker thread, server_proc( &_fds[ slotOf[c] ] ).                     *)

Step(c, from, to) ==
  /\ pc[c] = from
  /\ pc' = [pc EXCEPT ![c] = to]

\* srv_response reads a request from whatever conn->fd names at the time ...
Read(c) ==
  /\ Step(c, "read", "write") /\ ~cancelPending[c]
  /\ req' = [req EXCEPT ![c] = Peer(slotOf[c])]
  /\ UNCHANGED <<slotVars, mainVars, slotOf, cancelPending, netVars, faults>>

\* ... and answers it on whatever conn->fd names by then, ...
Write(c) ==
  /\ Step(c, "write", "close") /\ ~cancelPending[c]
  /\ req[c] # NoConn /\ Peer(slotOf[c]) # NoConn
  /\ got' = [got EXCEPT ![Peer(slotOf[c])] = @ \cup {req[c]}]
  /\ UNCHANGED <<slotVars, mainVars, slotOf, cancelPending, req, sock, fdTable, faults>>

\* Mutant: a failed response returns before close().
GiveUpOpen(c) ==
  /\ Step(c, "write", "mark") /\ ~cancelPending[c]
  /\ UNCHANGED <<slotVars, mainVars, slotOf, cancelPending, req, netVars, faults>>

\* ... or gives up; server_proc ignores the difference.
GiveUp(c) ==
  /\ Step(c, "write", "close") /\ ~cancelPending[c]
  /\ UNCHANGED <<slotVars, mainVars, slotOf, cancelPending, req, netVars, faults>>

\* Mutant: the slot is marked while the worker still runs.
CloseMarksEarly(c) ==
  /\ Step(c, "close", "mark") /\ ~cancelPending[c]
  /\ CloseFd(slotOf[c])
  /\ running' = [running EXCEPT ![slotOf[c]] = "INACTIVE"]
  /\ UNCHANGED <<fd, id, mainVars, slotOf, cancelPending, req, faults>>

Close(c) ==
  /\ Step(c, "close", "mark") /\ ~cancelPending[c]
  /\ CloseFd(slotOf[c])
  /\ UNCHANGED <<slotVars, mainVars, slotOf, cancelPending, req, faults>>

\* conn->running = CONNSTAT_INACTIVE, whoever owns the slot by now.
Mark(c) ==
  /\ Step(c, "mark", "exit")
  /\ running' = [running EXCEPT ![slotOf[c]] = "INACTIVE"]
  /\ UNCHANGED <<fd, id, mainVars, slotOf, cancelPending, req, netVars, faults>>

\* Cancellation is deferred: it acts at the next recv, send or close, and
\* no such call is left once the worker has closed its descriptor.
CancelActs(c) ==
  /\ cancelPending[c]
  /\ \E p \in {"read", "write", "close"} : Step(c, p, "cancelled")
  /\ UNCHANGED <<slotVars, mainVars, slotOf, cancelPending, req, netVars, faults>>

-----------------------------------------------------------------------------
Sweep == ScanAvailable \/ ScanInactive \/ Join \/ JoinStale \/ ScanActive
Kill == ScanOverdue \/ Release \/ ScanOutside
Serve(c) == \E d \in Fds : Accept(c, d)
Main ==
  \/ Top \/ Sweep \/ Kill \/ Find
  \/ \E c \in Conns : Serve(c)
  \/ \E c \in Conns, d \in Fds : AcceptSpawnFails(c, d)
  \/ AcceptRetry \/ AcceptError
Worker(c) ==
  Read(c) \/ Write(c) \/ GiveUp(c) \/ Close(c) \/ Mark(c) \/ CancelActs(c)

Next == Main \/ \E c \in Conns : Arrive(c) \/ Worker(c)

Spec == Init /\ [][Next]_vars

(***************************************************************************)
(* The main thread and every worker keep running; a worker's srv_response  *)
(* ends.  accept() takes the backlog in order, so a queued connection is   *)
(* not passed over for ever.  Clients promise nothing.                     *)
(***************************************************************************)
FairSpec ==
  /\ Spec
  /\ WF_vars(Main)
  /\ \A c \in Conns : SF_vars(Serve(c)) /\ WF_vars(Worker(c))

-----------------------------------------------------------------------------
(* Properties while no worker is overdue ("overdue" \notin Faults) and the  *)
(* server was not started with a --max-per beyond its table.               *)

\* A full table, at whose index max_per the sweep starts, is inside _fds[].
\* The default of 64 is; of an option nobody checks it.
InTable == ClientMax < NumSlots

Accounting == conncount = Cardinality(Busy)

\* conncount, from which the loop decides whether to sweep at all, is the
\* number of slots in use after any number of accepts, failed thread starts
\* and joins; and server_t.max_per bounds the worker threads that exist at
\* any time, the ones that have returned and are not joined yet included.
PoolBound == Accounting /\ Cardinality(Live) <= ClientMax

\* Two workers never share a conn_t, though a slot is marked AVAILABLE
\* before its previous thread has been joined.
SlotExclusive ==
  \A c, d \in Live : slotOf[c] = slotOf[d] => c = d

JoinReady ==
  mpc = "join" => /\ id[i] \in Conns
                  /\ pc[id[i]] = "exit" /\ slotOf[id[i]] = i
SweepInBounds == mpc = "scan" => i < NumSlots
AcceptsIntoFreeSlot == mpc = "accept" => running[f] # "ACTIVE"

\* The main thread only joins a worker that has marked its own slot, so that
\* pthread_join() never keeps it from accepting; the sweep, which starts at
\* index conncount, stays inside _fds[] if index max_per is inside; and
\* accept() never stores into the slot of a connection being served, though
\* the search leaves f at a busy slot when it finds no other.
SlotHandling == JoinReady /\ SweepInBounds /\ AcceptsIntoFreeSlot

OwnDescriptor ==
  \A c \in Live : pc[c] \in {"read", "write", "close"} => Peer(slotOf[c]) = c
OwnAnswers == \A c \in Conns : got[c] \subseteq {c}

\* A peer receives answers to its own request only: until it closes its
\* connection a worker finds that connection, and no other, behind conn->fd,
\* though slots and descriptors are reused.
NoCrosstalk == OwnDescriptor /\ OwnAnswers

\* An accepted connection stays open without a worker only if
\* pthread_create() failed for it; every other path of server_proc closes.
LeakOnlyOnSpawnFailure ==
  Cardinality({c \in Conns : sock[c] = "open" /\ pc[c] = "none"}) <= faults

\* A connection in the backlog is accepted, and closed in the end.
EventuallyClosed ==
  \A c \in Conns : sock[c] = "queued" ~> sock[c] = "closed"

\* The loop, its slots and its descriptors implement the bounded pool of
\* module WorkerPool.
StateOf(c) ==
  CASE pc[c] \in {"read", "write", "close"} -> "serving"
    [] pc[c] \in {"mark", "exit", "cancelled"} -> "done"
    [] pc[c] = "none" /\ sock[c] = "queued" -> "queued"
    [] pc[c] = "none" /\ sock[c] = "open" -> "lost"
    [] OTHER -> "idle"
Pool == INSTANCE WorkerPool WITH
  state <- [c \in Conns |-> StateOf(c)],
  answered <- {c \in Conns : got[c] # {}}
ImplementsPool == Pool!PoolSpec

-----------------------------------------------------------------------------
(* Properties that hold with cancelled workers too.                        *)

\* conncount never falls below the number of workers still at work, so the
\* server never takes a full table for one with room.
CountCoversWorkers ==
  Cardinality({c \in Live : pc[c] # "exit"}) <= conncount
=============================================================================
