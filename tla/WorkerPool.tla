----------------------------- MODULE WorkerPool -----------------------------
(***************************************************************************)
(* What the multithreaded server promises its clients: at most ClientMax   *)
(* connections have a worker at any time; an admitted connection is        *)
(* answered only while its own worker serves it, at most once, and is      *)
(* closed before that worker is collected.  A connection whose worker      *)
(* could not be started is lost.                                           *)
(***************************************************************************)
EXTENDS Naturals, FiniteSets

CONSTANTS Conns, ClientMax

VARIABLES
  state,     \* where each connection stands
  answered   \* connections that have received their answer

poolVars == <<state, answered>>

\* Connections that hold a worker, collected workers excluded.
Admitted == {c \in Conns : state[c] \in {"serving", "done"}}

PoolInit ==
  /\ state = [c \in Conns |-> "idle"]
  /\ answered = {}

Move(c, from, to) == state[c] = from /\ state' = [state EXCEPT ![c] = to]

Connect(c) == Move(c, "idle", "queued") /\ answered' = answered \ {c}
Admit(c) ==
  /\ Cardinality(Admitted) < ClientMax
  /\ Move(c, "queued", "serving")
  /\ UNCHANGED answered
Lose(c) == Move(c, "queued", "lost") /\ UNCHANGED answered
Answer(c) ==
  /\ state[c] = "serving" /\ c \notin answered
  /\ answered' = answered \cup {c}
  /\ UNCHANGED state
Finish(c) == Move(c, "serving", "done") /\ UNCHANGED answered
Collect(c) == Move(c, "done", "idle") /\ UNCHANGED answered

PoolNext ==
  \E c \in Conns :
    Connect(c) \/ Admit(c) \/ Lose(c) \/ Answer(c) \/ Finish(c) \/ Collect(c)

PoolSpec == PoolInit /\ [][PoolNext]_poolVars
=============================================================================
