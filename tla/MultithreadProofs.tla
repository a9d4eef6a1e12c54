------------------------- MODULE MultithreadProofs -------------------------
(***************************************************************************)
(* Theorems about module Multithread, for any number of slots, connections *)
(* and descriptors.  TypeCorrect and CountCovers hold for any --max-per,   *)
(* the others are about servers with a max_per below the 256 of _fds[].    *)
(***************************************************************************)
EXTENDS Multithread, FiniteSetTheorems, TLAPS

-----------------------------------------------------------------------------
(* Type correctness, whatever the faults.                                  *)

\* TypeOK is inductive once accept() is known to have a slot to store into,
\* and the sweep to join and cancel within _fds[].
TypeInv ==
  /\ TypeOK
  /\ mpc = "accept" => f \in Slots
  /\ mpc \in {"join", "release"} => i \in Slots

LEMMA TypeInit == Init => TypeInv
  BY PoolAssumption, FaultsAssumption DEF Init, TypeInv, TypeOK, Slots, NoSlot, LivePcs

LEMMA TypeStep == TypeInv /\ [Next]_vars => TypeInv'
<1> SUFFICES ASSUME TypeInv, [Next]_vars PROVE TypeInv'
  OBVIOUS
<1> USE PoolAssumption, NamesAssumption, FaultsAssumption
        DEF TypeInv, TypeOK, Slots, NoSlot, LivePcs, slotVars, mainVars,
            workerVars, netVars
<1>1. CASE Top BY <1>1 DEF Top
<1>2. CASE ScanAvailable BY <1>2 DEF ScanAvailable, Advance
<1>3. CASE ScanInactive BY <1>3 DEF ScanInactive
<1>4. CASE Join BY <1>4 DEF Join, Advance
<1>5. CASE JoinStale BY <1>5 DEF JoinStale, Advance
<1>6. CASE ScanActive BY <1>6 DEF ScanActive, Advance
<1>7. CASE ScanOverdue BY <1>7 DEF ScanOverdue, Fault, CloseFd
<1>8. CASE Release
  <2>1. cancelPending' \in [Conns -> BOOLEAN]
    BY <1>8, Zenon DEF Release
  <2>2. /\ mpc = "release" /\ Advance
        /\ running' = [running EXCEPT ![i] = "AVAILABLE"]
        /\ UNCHANGED <<fd, id, conncount, connindex, f, pc, slotOf, req, netVars, faults>>
    BY <1>8, Zenon DEF Release
  <2> QED
    BY <2>1, <2>2 DEF Advance
<1>9. CASE ScanOutside BY <1>9 DEF ScanOutside, Advance
<1>10. CASE Find BY <1>10 DEF Find, FindFree
<1>11. ASSUME NEW c \in Conns, NEW d \in Fds, Accept(c, d) PROVE TypeInv'
  BY <1>11 DEF Accept, TakeConnection
<1>12. ASSUME NEW c \in Conns, NEW d \in Fds, AcceptSpawnFails(c, d) PROVE TypeInv'
  BY <1>12 DEF AcceptSpawnFails, TakeConnection, Fault
<1>13. CASE AcceptRetry BY <1>13 DEF AcceptRetry
<1>14. CASE AcceptError BY <1>14 DEF AcceptError, Fault
<1>15. ASSUME NEW c \in Conns, Arrive(c) PROVE TypeInv'
  BY <1>15 DEF Arrive
<1>16. ASSUME NEW c \in Conns, Read(c) PROVE TypeInv'
  BY <1>16 DEF Read, Step, Peer
<1>17. ASSUME NEW c \in Conns, Write(c) PROVE TypeInv'
  BY <1>17 DEF Write, Step, Peer
<1>18. ASSUME NEW c \in Conns, GiveUp(c) PROVE TypeInv'
  BY <1>18 DEF GiveUp, Step
<1>19. ASSUME NEW c \in Conns, Close(c) PROVE TypeInv'
  BY <1>19 DEF Close, Step, CloseFd
<1>20. ASSUME NEW c \in Conns, Mark(c) PROVE TypeInv'
  BY <1>20 DEF Mark, Step
<1>21. ASSUME NEW c \in Conns, CancelActs(c) PROVE TypeInv'
  BY <1>21 DEF CancelActs, Step
<1>22. CASE UNCHANGED vars BY <1>22 DEF vars
<1> QED
  BY <1>1, <1>2, <1>3, <1>4, <1>5, <1>6, <1>7, <1>8, <1>9, <1>10, <1>11,
     <1>12, <1>13, <1>14, <1>15, <1>16, <1>17, <1>18, <1>19, <1>20, <1>21,
     <1>22
     DEF Next, Main, Sweep, Kill, Serve, Worker

\* The type invariant of the server loop, whatever --max-per says and whoever
\* is cancelled: until the loop has looked behind _fds[] accept() has a slot of
\* it to store into, and what is joined or closed is in it.
THEOREM TypeCorrect == Spec => []TypeOK
<1>1. Spec => []TypeInv
  BY TypeInit, TypeStep, PTL DEF Spec
<1>2. TypeInv => TypeOK
  BY DEF TypeInv
<1> QED
  BY <1>1, <1>2, PTL

-----------------------------------------------------------------------------
(* While no worker is overdue.                                             *)

ServingPcs == {"read", "write", "close", "mark"}

\* A slot that is not AVAILABLE has one worker: the thread the slot names,
\* at work while it is ACTIVE and finished when it is INACTIVE.
SlotInv ==
  /\ Busy \subseteq 0 .. ClientMax - 1
  /\ \A s \in Slots : running[s] = "ACTIVE" =>
       id[s] \in Conns /\ pc[id[s]] \in ServingPcs /\ slotOf[id[s]] = s
  /\ \A s \in Slots : running[s] = "INACTIVE" =>
       id[s] \in Conns /\ pc[id[s]] = "exit" /\ slotOf[id[s]] = s

\* A worker is named by its slot, which is its own until it is joined; the
\* one being joined is the only one whose slot is AVAILABLE.
WorkerInv ==
  /\ \A c \in Conns : pc[c] # "cancelled" /\ ~cancelPending[c]
  /\ \A c \in Conns : pc[c] \in ServingPcs =>
       id[slotOf[c]] = c /\ running[slotOf[c]] = "ACTIVE"
  /\ \A c \in Conns : pc[c] = "exit" =>
       /\ id[slotOf[c]] = c
       /\ running[slotOf[c]] = "INACTIVE" \/ (mpc = "join" /\ i = slotOf[c])

\* Where the main thread stands: what the sweep has seen, and why the search
\* that follows it finds a free slot or nothing to look at.
MainInv ==
  /\ mpc \notin {"release", "undefined"}
  /\ connindex \in 0 .. ClientMax
  /\ mpc = "join" =>
       /\ i \in 0 .. ClientMax - 1 /\ connindex = i /\ running[i] = "AVAILABLE"
       /\ id[i] \in Conns /\ pc[id[i]] = "exit" /\ slotOf[id[i]] = i
  /\ mpc = "scan" =>
       /\ i \in 0 .. ClientMax
       /\ i < ClientMax => running[connindex] = "AVAILABLE"
       /\ \A s \in i + 1 .. connindex - 1 : running[s] # "AVAILABLE"
  /\ mpc \in {"top", "find", "accept"} =>
       \A s \in 0 .. connindex - 1 : running[s] # "AVAILABLE"
  /\ mpc = "find" /\ connindex < ClientMax =>
       \E s \in connindex .. ClientMax - 1 : running[s] = "AVAILABLE"
  /\ mpc = "accept" =>
       f = connindex /\ f < ClientMax /\ running[f] = "AVAILABLE"

\* A worker's descriptor and its connection.
NetInv ==
  /\ \A c \in Conns : pc[c] \in {"read", "write", "close"} => Peer(slotOf[c]) = c
  /\ \A c \in Conns : sock[c] = "queued" => pc[c] = "none" /\ got[c] = {}
  /\ \A c \in Conns : pc[c] \in {"read", "write"} => got[c] = {}
  /\ \A c \in Conns : pc[c] = "write" => req[c] = c
  /\ \A c \in Conns : pc[c] \in {"mark", "exit"} => sock[c] = "closed"
  /\ OwnAnswers

PoolInv ==
  InTable /\ TypeInv /\ SlotInv /\ WorkerInv /\ MainInv /\ NetInv /\ Accounting

USE DEF InTable

\* Any set of slots has a first one.
LEMMA LeastNatural ==
  ASSUME NEW T, T \subseteq Nat, T # {}
  PROVE  \E m \in T : \A k \in T : ~(k < m)
<1> DEFINE R == OpToRel(<, Nat)
<1>1. IsWellFoundedOn(R, Nat)
  BY NatLessThanWellFounded
<1> HIDE DEF R
<1>2. \E m \in T : \A k \in T : ~(<<k, m>> \in R)
  BY <1>1, WFMin
<1> QED
  BY <1>2 DEF R, OpToRel

LEMMA FirstFree ==
  ASSUME InTable, TypeInv, NEW s \in connindex .. ClientMax - 1, running[s] = "AVAILABLE"
  PROVE  \E t \in Slots : FindFree(t)
<1> DEFINE T == {t \in connindex .. ClientMax - 1 : running[t] = "AVAILABLE"}
<1>1. T \subseteq Nat /\ T # {}
  BY PoolAssumption DEF TypeInv, TypeOK
<1>2. PICK m \in T : \A k \in T : ~(k < m)
  BY <1>1, LeastNatural
<1>3. \A t \in connindex .. m - 1 : running[t] # "AVAILABLE"
  <2> SUFFICES ASSUME NEW t \in connindex .. m - 1, running[t] = "AVAILABLE"
               PROVE  FALSE
    OBVIOUS
  <2>1. t < m /\ t \in connindex .. ClientMax - 1
    BY <1>1, PoolAssumption DEF TypeInv, TypeOK
  <2> QED
    BY <1>2, <2>1
<1>4. m \in Slots /\ m \in connindex .. ClientMax - 1
  BY PoolAssumption DEF Slots, TypeInv, TypeOK
<1> QED
  BY <1>3, <1>4 DEF FindFree

\* The table is full, for the slots below client_max, exactly when as many
\* slots are in use.
LEMMA BusyCount ==
  ASSUME InTable, TypeInv, SlotInv
  PROVE  /\ IsFiniteSet(Busy)
         /\ Cardinality(Busy) \in 0 .. ClientMax
         /\ Cardinality(Busy) = ClientMax => Busy = 0 .. ClientMax - 1
<1>1. IsFiniteSet(0 .. ClientMax - 1) /\ Cardinality(0 .. ClientMax - 1) = ClientMax
  BY FS_Interval, PoolAssumption
<1>2. Busy \in SUBSET (0 .. ClientMax - 1)
  BY DEF SlotInv
<1>3. IsFiniteSet(Busy) /\ Cardinality(Busy) \in Nat
  BY <1>1, <1>2, FS_Subset, FS_CardinalityType
<1>4. /\ Cardinality(Busy) <= Cardinality(0 .. ClientMax - 1)
      /\ Cardinality(0 .. ClientMax - 1) = Cardinality(Busy)
           => 0 .. ClientMax - 1 = Busy
  BY <1>1, <1>2, FS_Subset
<1> QED
  BY <1>1, <1>3, <1>4, PoolAssumption

LEMMA PoolInit == InTable /\ Init => PoolInv
<1> SUFFICES ASSUME InTable, Init PROVE PoolInv
  OBVIOUS
<1>1. TypeInv
  BY TypeInit
<1>2. Busy = {}
  BY DEF Init, Busy
<1>3. Accounting
  BY <1>2, FS_EmptySet DEF Init, Accounting
<1> QED
  BY <1>1, <1>2, <1>3, PoolAssumption
     DEF Init, PoolInv, SlotInv, WorkerInv, MainInv, NetInv, OwnAnswers, Slots,
         ServingPcs

LEMMA PoolStep ==
  ASSUME "overdue" \notin Faults, PoolInv, [Next]_vars
  PROVE  PoolInv'
<1> USE PoolAssumption, NamesAssumption, FaultsAssumption
        DEF TypeInv, TypeOK, Slots, NoSlot, LivePcs, ServingPcs, PoolInv,
            slotVars, mainVars, workerVars, netVars
<1>0. TypeInv'
  BY TypeStep
<1>00. /\ IsFiniteSet(Busy)
       /\ Cardinality(Busy) \in 0 .. ClientMax
       /\ Cardinality(Busy) = ClientMax => Busy = 0 .. ClientMax - 1
  BY BusyCount
<1>1. CASE Top
  <2> USE <1>1 DEF Top
  <2>1. SlotInv' /\ WorkerInv' /\ NetInv' /\ Busy' = Busy
    BY DEF SlotInv, WorkerInv, NetInv, Busy, Peer, OwnAnswers
  <2>2. CASE conncount >= ClientMax
    <3>1. i' = ClientMax
      BY <1>00, <2>2 DEF Accounting
    <3> QED
      BY <2>1, <2>2, <3>1, <1>0 DEF MainInv, Accounting
  <2>3. CASE ~ (conncount >= ClientMax)
    <3>1. Busy # 0 .. ClientMax - 1
      BY <2>3, FS_Interval DEF Accounting
    <3>2. PICK s \in 0 .. ClientMax - 1 : running[s] = "AVAILABLE"
      BY <3>1 DEF SlotInv, Busy
    <3> QED
      BY <2>1, <2>3, <3>2, <1>0 DEF MainInv, Accounting
  <2> QED
    BY <2>2, <2>3
<1>2. CASE ScanAvailable
  <2> USE <1>2 DEF ScanAvailable, Advance
  <2>1. SlotInv' /\ WorkerInv' /\ MainInv' /\ NetInv' /\ Busy' = Busy
    BY DEF SlotInv, WorkerInv, MainInv, NetInv, Busy, Peer, OwnAnswers
  <2> QED
    BY <1>0, <2>1 DEF Accounting
<1>3. CASE ScanInactive
  <2> USE <1>3 DEF ScanInactive
  <2>1. SlotInv' /\ WorkerInv' /\ NetInv'
    BY DEF SlotInv, WorkerInv, NetInv, Busy, Peer, OwnAnswers
  <2>2. i \in 0 .. ClientMax - 1
    BY DEF SlotInv, Busy
  <2>3. MainInv'
    BY <2>2 DEF SlotInv, MainInv
  <2>4. Busy' = Busy \ {i} /\ i \in Busy
    BY DEF Busy
  <2>5. Cardinality(Busy \ {i}) = Cardinality(Busy) - 1
    BY <1>00, <2>4, FS_RemoveElement
  <2> QED
    BY <1>0, <2>1, <2>3, <2>4, <2>5 DEF Accounting
<1>4. CASE Join
  <2> USE <1>4 DEF Join, Advance
  <2>1. SlotInv' /\ WorkerInv' /\ MainInv' /\ NetInv' /\ Busy' = Busy
    BY DEF SlotInv, WorkerInv, MainInv, NetInv, Busy, Peer, OwnAnswers
  <2> QED
    BY <1>0, <2>1 DEF Accounting
<1>5. CASE JoinStale
  BY <1>5 DEF JoinStale, WorkerInv, MainInv
<1>6. CASE ScanActive
  <2> USE <1>6 DEF ScanActive, Advance
  <2>1. SlotInv' /\ WorkerInv' /\ MainInv' /\ NetInv' /\ Busy' = Busy
    BY DEF SlotInv, WorkerInv, MainInv, NetInv, Busy, Peer, OwnAnswers
  <2> QED
    BY <1>0, <2>1 DEF Accounting
<1>7. CASE ScanOverdue
  BY <1>7 DEF ScanOverdue, Fault, WorkerInv, MainInv
<1>8. CASE Release
  BY <1>8 DEF Release, WorkerInv, MainInv
<1>9. CASE ScanOutside
  BY <1>9 DEF ScanOutside, WorkerInv, MainInv
<1>10. CASE Find
  <2> USE <1>10 DEF Find
  <2>1. SlotInv' /\ WorkerInv' /\ NetInv' /\ Busy' = Busy
    BY DEF SlotInv, WorkerInv, NetInv, Busy, Peer, OwnAnswers
  <2>2. CASE \E s \in Slots :
               FindFree(s) /\ connindex' = s /\ f' = s /\ mpc' = "accept"
    <3>1. MainInv'
      BY <2>2 DEF FindFree, MainInv
    <3> QED
      BY <1>0, <2>1, <3>1 DEF Accounting
  <2>3. CASE connindex < ClientMax /\ \A s \in Slots : ~FindFree(s)
    <3>1. PICK s \in connindex .. ClientMax - 1 : running[s] = "AVAILABLE"
      BY <2>3 DEF MainInv
    <3>2. \E t \in Slots : FindFree(t)
      BY <3>1, FirstFree
    <3> QED
      BY <2>3, <3>2
  <2>4. CASE connindex >= ClientMax /\ mpc' = "top" /\ UNCHANGED <<connindex, f>>
    <3>1. MainInv'
      BY <2>4 DEF MainInv
    <3> QED
      BY <1>0, <2>1, <3>1 DEF Accounting
  <2> QED
    BY <2>2, <2>3, <2>4
<1>11. ASSUME NEW c \in Conns, NEW d \in Fds, Accept(c, d) PROVE PoolInv'
  <2> USE <1>11 DEF Accept, TakeConnection
  <2>1. f \in Slots /\ f \in 0 .. ClientMax - 1 /\ f \notin Busy
    BY DEF MainInv, Busy
  <2>2. Busy' = Busy \cup {f}
    BY <2>1 DEF Busy
  <2>3. SlotInv'
    BY <2>1, <2>2 DEF SlotInv, NetInv
  <2>4. WorkerInv'
    BY DEF SlotInv, WorkerInv, MainInv, NetInv
  <2>5. MainInv'
    BY DEF MainInv
  <2>6. NetInv'
    BY DEF SlotInv, WorkerInv, MainInv, NetInv, Busy, Peer, OwnAnswers
  <2>7. Cardinality(Busy \cup {f}) = Cardinality(Busy) + 1
    BY <1>00, <2>1, FS_AddElement
  <2> QED
    BY <1>0, <2>2, <2>3, <2>4, <2>5, <2>6, <2>7 DEF Accounting
<1>12. ASSUME NEW c \in Conns, NEW d \in Fds, AcceptSpawnFails(c, d) PROVE PoolInv'
  <2> USE <1>12 DEF AcceptSpawnFails, TakeConnection, Fault
  <2>1. running' = running
    BY DEF MainInv
  <2>2. SlotInv' /\ WorkerInv' /\ MainInv' /\ Busy' = Busy
    BY <2>1 DEF SlotInv, WorkerInv, MainInv, Busy
  <2>3. NetInv'
    BY DEF SlotInv, WorkerInv, MainInv, NetInv, Busy, Peer, OwnAnswers
  <2> QED
    BY <1>0, <2>2, <2>3 DEF Accounting
<1>13. CASE AcceptRetry
  <2> USE <1>13 DEF AcceptRetry
  <2>1. SlotInv' /\ WorkerInv' /\ MainInv' /\ NetInv' /\ Busy' = Busy
    BY DEF SlotInv, WorkerInv, MainInv, NetInv, Busy, Peer, OwnAnswers
  <2> QED
    BY <1>0, <2>1 DEF Accounting
<1>14. CASE AcceptError
  <2> USE <1>14 DEF AcceptError, Fault
  <2>1. SlotInv' /\ WorkerInv' /\ MainInv' /\ NetInv' /\ Busy' = Busy
    BY DEF SlotInv, WorkerInv, MainInv, NetInv, Busy, Peer, OwnAnswers
  <2> QED
    BY <1>0, <2>1 DEF Accounting
<1>15. ASSUME NEW c \in Conns, Arrive(c) PROVE PoolInv'
  <2> USE <1>15 DEF Arrive
  <2>1. SlotInv' /\ WorkerInv' /\ MainInv' /\ NetInv' /\ Busy' = Busy
    BY DEF SlotInv, WorkerInv, MainInv, NetInv, Busy, Peer, OwnAnswers
  <2> QED
    BY <1>0, <2>1 DEF Accounting
<1>16. ASSUME NEW c \in Conns, Read(c) PROVE PoolInv'
  <2> USE <1>16 DEF Read, Step
  <2>1. SlotInv' /\ WorkerInv' /\ MainInv' /\ NetInv' /\ Busy' = Busy
    BY DEF SlotInv, WorkerInv, MainInv, NetInv, Busy, Peer, OwnAnswers
  <2> QED
    BY <1>0, <2>1 DEF Accounting
<1>17. ASSUME NEW c \in Conns, Write(c) PROVE PoolInv'
  <2> USE <1>17 DEF Write, Step
  <2>1. SlotInv' /\ WorkerInv' /\ MainInv' /\ NetInv' /\ Busy' = Busy
    BY DEF SlotInv, WorkerInv, MainInv, NetInv, Busy, Peer, OwnAnswers
  <2> QED
    BY <1>0, <2>1 DEF Accounting
<1>18. ASSUME NEW c \in Conns, GiveUp(c) PROVE PoolInv'
  <2> USE <1>18 DEF GiveUp, Step
  <2>1. SlotInv' /\ WorkerInv' /\ MainInv' /\ NetInv' /\ Busy' = Busy
    BY DEF SlotInv, WorkerInv, MainInv, NetInv, Busy, Peer, OwnAnswers
  <2> QED
    BY <1>0, <2>1 DEF Accounting
<1>19. ASSUME NEW c \in Conns, Close(c) PROVE PoolInv'
  <2> USE <1>19 DEF Close, Step, CloseFd
  <2>1. SlotInv' /\ WorkerInv' /\ MainInv' /\ NetInv' /\ Busy' = Busy
    BY DEF SlotInv, WorkerInv, MainInv, NetInv, Busy, Peer, OwnAnswers
  <2> QED
    BY <1>0, <2>1 DEF Accounting
<1>20. ASSUME NEW c \in Conns, Mark(c) PROVE PoolInv'
  <2> USE <1>20 DEF Mark, Step
  <2>1. running[slotOf[c]] = "ACTIVE"
    BY DEF WorkerInv
  <2>2. Busy' = Busy
    BY <2>1 DEF Busy
  <2>3. SlotInv' /\ WorkerInv' /\ MainInv' /\ NetInv'
    BY <2>1 DEF SlotInv, WorkerInv, MainInv, NetInv, Busy, Peer, OwnAnswers
  <2> QED
    BY <1>0, <2>2, <2>3 DEF Accounting
<1>21. ASSUME NEW c \in Conns, CancelActs(c) PROVE PoolInv'
  BY <1>21 DEF CancelActs, WorkerInv, MainInv
<1>22. CASE UNCHANGED vars
  BY <1>0, <1>22 DEF vars, Accounting, SlotInv, WorkerInv, MainInv, NetInv,
     Busy, Peer, OwnAnswers
<1> QED
  BY <1>1, <1>2, <1>3, <1>4, <1>5, <1>6, <1>7, <1>8, <1>9, <1>10, <1>11,
     <1>12, <1>13, <1>14, <1>15, <1>16, <1>17, <1>18, <1>19, <1>20, <1>21, <1>22
     DEF Next, Main, Sweep, Kill, Serve, Worker

\* What follows from PoolInv in a state.
LEMMA PoolFacts ==
  ASSUME PoolInv
  PROVE  SlotExclusive /\ SlotHandling /\ NoCrosstalk
<1> USE PoolAssumption
        DEF PoolInv, TypeInv, TypeOK, Slots, LivePcs, ServingPcs
<1>1. SlotExclusive
  BY DEF SlotExclusive, Live, WorkerInv
<1>2. JoinReady
  BY DEF JoinReady, MainInv
<1>3. OwnDescriptor
  BY DEF OwnDescriptor, Live, NetInv
<1>4. OwnAnswers
  BY DEF NetInv
<1>5. SweepInBounds /\ AcceptsIntoFreeSlot
  BY DEF SweepInBounds, AcceptsIntoFreeSlot, MainInv
<1> QED
  BY <1>1, <1>2, <1>3, <1>4, <1>5 DEF SlotHandling, NoCrosstalk

\* Workers that are not joined yet are at most as many as the slots they have.
LEMMA LiveCount ==
  ASSUME PoolInv, NEW S \in SUBSET (0 .. ClientMax - 1),
         \A c \in Live : slotOf[c] \in S
  PROVE  IsFiniteSet(Live) /\ Cardinality(Live) <= Cardinality(S)
<1> DEFINE g == [c \in Live |-> slotOf[c]]
<1>0. IsFiniteSet(0 .. ClientMax - 1)
  BY FS_Interval, PoolAssumption
<1>1. IsFiniteSet(S)
  BY <1>0, FS_Subset
<1>2. SlotExclusive
  BY PoolFacts
<1>3. g \in Injection(Live, S)
  BY <1>2 DEF SlotExclusive, Injection, IsInjective
<1> QED
  BY <1>1, <1>3, FS_Injection

LEMMA LiveSlots ==
  ASSUME PoolInv, NEW c \in Live
  PROVE  slotOf[c] \in 0 .. ClientMax - 1 /\ (mpc # "join" => slotOf[c] \in Busy)
BY PoolAssumption
   DEF PoolInv, TypeInv, TypeOK, Live, LivePcs, ServingPcs, Slots, Busy, SlotInv,
       WorkerInv, MainInv

LEMMA PoolBounded == PoolInv => PoolBound
<1> SUFFICES ASSUME PoolInv PROVE PoolBound
  OBVIOUS
<1>1. Cardinality(Live) <= Cardinality(0 .. ClientMax - 1)
  BY LiveSlots, LiveCount
<1> QED
  BY <1>1, FS_Interval, PoolAssumption DEF PoolBound, PoolInv

LEMMA AddAtMostOne ==
  ASSUME NEW S, IsFiniteSet(S), NEW x
  PROVE  /\ IsFiniteSet(S \cup {x}) /\ Cardinality(S) \in Nat
         /\ Cardinality(S \cup {x}) <= Cardinality(S) + 1
<1>1. Cardinality(S) \in Nat
  BY FS_CardinalityType
<1> QED
  BY <1>1, FS_AddElement

\* A connection left open without a worker is a thread that did not start.
Lost == {c \in Conns : sock[c] = "open" /\ pc[c] = "none"}
LeakInv == IsFiniteSet(Lost) /\ Cardinality(Lost) <= faults

LEMMA LeakStep ==
  ASSUME "overdue" \notin Faults, PoolInv, LeakInv, [Next]_vars
  PROVE  LeakInv'
<1> USE PoolAssumption, NamesAssumption, FaultsAssumption
        DEF PoolInv, TypeInv, TypeOK, Slots, LivePcs, ServingPcs, slotVars,
            mainVars, workerVars, netVars
<1>1. ASSUME Lost' \subseteq Lost, faults' >= faults, faults' \in Nat PROVE LeakInv'
  BY <1>1, FS_Subset, FS_CardinalityType DEF LeakInv
<1>2. ASSUME NEW c \in Conns, NEW d \in Fds, AcceptSpawnFails(c, d) PROVE LeakInv'
  <2>1. Lost' \subseteq Lost \cup {c} /\ faults' = faults + 1
    BY <1>2 DEF AcceptSpawnFails, TakeConnection, Fault, Lost
  <2>2. /\ IsFiniteSet(Lost \cup {c})
        /\ Cardinality(Lost \cup {c}) <= Cardinality(Lost) + 1
    BY AddAtMostOne DEF LeakInv
  <2>3. IsFiniteSet(Lost') /\ Cardinality(Lost') <= Cardinality(Lost \cup {c})
    BY <2>1, <2>2, FS_Subset
  <2> QED
    BY <2>1, <2>2, <2>3, FS_CardinalityType DEF LeakInv
<1>3. CASE Top BY <1>1, <1>3 DEF Top, Lost
<1>4. CASE ScanAvailable BY <1>1, <1>4 DEF ScanAvailable, Lost
<1>5. CASE ScanInactive BY <1>1, <1>5 DEF ScanInactive, Lost
<1>6. CASE Join BY <1>1, <1>6 DEF Join, Lost, MainInv, NetInv
<1>7. CASE JoinStale BY <1>1, <1>7 DEF JoinStale, MainInv, Lost
<1>8. CASE ScanActive BY <1>1, <1>8 DEF ScanActive, Lost
<1>9. CASE ScanOverdue \/ Release \/ ScanOutside
  BY <1>9 DEF ScanOverdue, Fault, Release, ScanOutside, MainInv
<1>10. CASE Find BY <1>1, <1>10 DEF Find, Lost
<1>11. ASSUME NEW c \in Conns, NEW d \in Fds, Accept(c, d) PROVE LeakInv'
  BY <1>1, <1>11 DEF Accept, TakeConnection, Lost
<1>12. CASE AcceptRetry BY <1>1, <1>12 DEF AcceptRetry, Lost
<1>13. CASE AcceptError BY <1>1, <1>13 DEF AcceptError, Fault, Lost
<1>14. ASSUME NEW c \in Conns, Arrive(c) PROVE LeakInv'
  BY <1>1, <1>14 DEF Arrive, Lost
<1>15. ASSUME NEW c \in Conns, Read(c) \/ Write(c) \/ GiveUp(c) PROVE LeakInv'
  BY <1>1, <1>15 DEF Read, Write, GiveUp, Step, Lost
<1>16. ASSUME NEW c \in Conns, Close(c) PROVE LeakInv'
  BY <1>1, <1>16 DEF Close, Step, CloseFd, Lost
<1>17. ASSUME NEW c \in Conns, Mark(c) PROVE LeakInv'
  BY <1>1, <1>17 DEF Mark, Step, Lost
<1>18. ASSUME NEW c \in Conns, CancelActs(c) PROVE LeakInv'
  BY <1>18 DEF CancelActs, WorkerInv
<1>19. CASE UNCHANGED vars BY <1>1, <1>19 DEF vars, Lost
<1> QED
  BY <1>2, <1>3, <1>4, <1>5, <1>6, <1>7, <1>8, <1>9, <1>10, <1>11, <1>12,
     <1>13, <1>14, <1>15, <1>16, <1>17, <1>18, <1>19
     DEF Next, Main, Sweep, Kill, Serve, Worker

LEMMA LeakInit == Init => LeakInv
<1> SUFFICES ASSUME Init PROVE LeakInv
  OBVIOUS
<1>1. Lost = {}
  BY DEF Init, Lost
<1> QED
  BY <1>1, FS_EmptySet DEF Init, LeakInv

\* While no worker is overdue, however many slots within the table, connections
\* and descriptors there are, two workers never share a conn_t.
THEOREM PoolSafe ==
  ASSUME "overdue" \notin Faults, InTable
  PROVE  Spec => []SlotExclusive
<1>0. Init => PoolInv
  BY PoolInit
<1>1. PoolInv /\ [Next]_vars => PoolInv'
  BY PoolStep
<1>2. PoolInv => SlotExclusive
  BY PoolFacts
<1> QED
  BY <1>0, <1>1, <1>2, PTL DEF Spec

\* Nor is an answer ever sent to another client than the one that asked:
\* until it closes it, a worker finds its own connection behind conn->fd.
THEOREM AnswersGoHome ==
  ASSUME "overdue" \notin Faults, InTable
  PROVE  Spec => []NoCrosstalk
<1>0. Init => PoolInv
  BY PoolInit
<1>1. PoolInv /\ [Next]_vars => PoolInv'
  BY PoolStep
<1>2. PoolInv => NoCrosstalk
  BY PoolFacts
<1> QED
  BY <1>0, <1>1, <1>2, PTL DEF Spec

\* While no worker is overdue and max_per is less than the extent of _fds[],
\* pthread_join never blocks the main thread, the sweep, which looks at index
\* conncount too, stays inside _fds[], and accept() stores into a slot nobody
\* uses.
THEOREM SlotsAreHandled ==
  ASSUME "overdue" \notin Faults, InTable
  PROVE  Spec => []SlotHandling
<1>0. Init => PoolInv
  BY PoolInit
<1>1. PoolInv /\ [Next]_vars => PoolInv'
  BY PoolStep
<1>2. PoolInv => SlotHandling
  BY PoolFacts
<1> QED
  BY <1>0, <1>1, <1>2, PTL DEF Spec

\* conncount is exact and at most client_max worker threads exist at any time,
\* those that have returned and wait for pthread_join included, while no
\* worker is overdue.
THEOREM PoolIsBounded ==
  ASSUME "overdue" \notin Faults, InTable
  PROVE  Spec => []PoolBound
<1>0. Init => PoolInv
  BY PoolInit
<1>1. PoolInv /\ [Next]_vars => PoolInv'
  BY PoolStep
<1> QED
  BY <1>0, <1>1, PoolBounded, PTL DEF Spec

\* Descriptors are leaked by failures of pthread_create only.
THEOREM LeaksAreSpawnFailures ==
  ASSUME "overdue" \notin Faults, InTable
  PROVE  Spec => []LeakOnlyOnSpawnFailure
<1>0. Init => PoolInv
  BY PoolInit
<1>1. PoolInv /\ LeakInv /\ [Next]_vars => PoolInv' /\ LeakInv'
  BY PoolStep, LeakStep
<1>2. LeakInv => LeakOnlyOnSpawnFailure
  BY DEF LeakInv, Lost, LeakOnlyOnSpawnFailure
<1> QED
  BY <1>0, LeakInit, <1>1, <1>2, PTL DEF Spec

-----------------------------------------------------------------------------
(***************************************************************************)
(* With overdue workers: what is kept even when workers are cancelled.     *)
(***************************************************************************)

Working == {c \in Live : pc[c] # "exit"}
Finished == {s \in Slots : running[s] = "INACTIVE"}

\* A worker that marks a slot INACTIVE passes its share of conncount on to
\* the slot, where the sweep gives it back.  A cancelled worker may mark a
\* slot that is not its own any more, or one that is INACTIVE already, so
\* the count may be too high for ever, but never too low.
CoverInv ==
  /\ TypeInv
  /\ IsFiniteSet(Working) /\ IsFiniteSet(Finished)
  /\ Cardinality(Working) + Cardinality(Finished) <= conncount

LEMMA CoverInit == Init => CoverInv
<1> SUFFICES ASSUME Init PROVE CoverInv
  OBVIOUS
<1>1. Working = {} /\ Finished = {}
  BY DEF Init, Working, Finished, Live, LivePcs
<1> QED
  BY <1>1, TypeInit, FS_EmptySet DEF Init, CoverInv

LEMMA CoverStep == CoverInv /\ [Next]_vars => CoverInv'
<1> SUFFICES ASSUME CoverInv, [Next]_vars PROVE CoverInv'
  OBVIOUS
<1> USE PoolAssumption, NamesAssumption, FaultsAssumption
        DEF slotVars, mainVars, workerVars, netVars
<1>0. TypeInv /\ TypeInv'
  BY TypeStep DEF CoverInv
<1>1. ASSUME Working' \subseteq Working, Finished' \subseteq Finished,
             conncount' = conncount
      PROVE  CoverInv'
  <2>1. /\ IsFiniteSet(Working') /\ Cardinality(Working') <= Cardinality(Working)
        /\ IsFiniteSet(Finished') /\ Cardinality(Finished') <= Cardinality(Finished)
    BY <1>1, FS_Subset DEF CoverInv
  <2>2. {Cardinality(Working), Cardinality(Working'), Cardinality(Finished),
         Cardinality(Finished')} \subseteq Nat
    BY <2>1, FS_CardinalityType DEF CoverInv
  <2> QED
    BY <1>0, <1>1, <2>1, <2>2 DEF CoverInv, TypeInv, TypeOK
<1>2. CASE ScanInactive
  <2>1. Working' = Working
    BY <1>2 DEF ScanInactive, Working, Live
  <2>2. Finished' = Finished \ {i} /\ i \in Finished
    BY <1>0, <1>2 DEF ScanInactive, Finished, TypeInv, TypeOK
  <2>3. /\ IsFiniteSet(Finished \ {i})
        /\ Cardinality(Finished \ {i}) = Cardinality(Finished) - 1
    BY <2>2, FS_RemoveElement DEF CoverInv
  <2>4. conncount' = conncount - 1
    BY <1>2 DEF ScanInactive
  <2>5. Cardinality(Working) \in Nat /\ Cardinality(Finished) \in Nat
    BY FS_CardinalityType DEF CoverInv
  <2> QED
    BY <1>0, <2>1, <2>2, <2>3, <2>4, <2>5 DEF CoverInv, TypeInv, TypeOK
<1>3. ASSUME NEW c \in Conns, NEW d \in Fds, Accept(c, d) PROVE CoverInv'
  <2>1. Working' \subseteq Working \cup {c}
    BY <1>0, <1>3 DEF Accept, Working, Live, LivePcs, TypeInv, TypeOK
  <2>2. Finished' \subseteq Finished
    BY <1>0, <1>3 DEF Accept, TakeConnection, Finished, TypeInv, TypeOK
  <2>3. conncount' = conncount + 1
    BY <1>3 DEF Accept
  <2>4. /\ IsFiniteSet(Working \cup {c}) /\ Cardinality(Working) \in Nat
        /\ Cardinality(Working \cup {c}) <= Cardinality(Working) + 1
    BY AddAtMostOne DEF CoverInv
  <2>5. /\ IsFiniteSet(Working') /\ Cardinality(Working') <= Cardinality(Working \cup {c})
        /\ IsFiniteSet(Finished') /\ Cardinality(Finished') <= Cardinality(Finished)
    BY <2>1, <2>2, <2>4, FS_Subset DEF CoverInv
  <2>6. {Cardinality(Working \cup {c}), Cardinality(Working'),
         Cardinality(Finished), Cardinality(Finished')} \subseteq Nat
    BY <2>4, <2>5, FS_CardinalityType DEF CoverInv
  <2> QED
    BY <1>0, <2>3, <2>4, <2>5, <2>6 DEF CoverInv, TypeInv, TypeOK
<1>4. ASSUME NEW c \in Conns, Mark(c) PROVE CoverInv'
  <2>1. Working' = Working \ {c} /\ c \in Working
    BY <1>0, <1>4 DEF Mark, Step, Working, Live, LivePcs, TypeInv, TypeOK
  <2>2. Finished' \subseteq Finished \cup {slotOf[c]}
    BY <1>0, <1>4 DEF Mark, Finished, TypeInv, TypeOK
  <2>3. conncount' = conncount
    BY <1>4 DEF Mark
  <2>4. /\ IsFiniteSet(Working \ {c})
        /\ Cardinality(Working \ {c}) = Cardinality(Working) - 1
    BY <2>1, FS_RemoveElement DEF CoverInv
  <2>5. /\ IsFiniteSet(Finished \cup {slotOf[c]}) /\ Cardinality(Finished) \in Nat
        /\ Cardinality(Finished \cup {slotOf[c]}) <= Cardinality(Finished) + 1
    BY AddAtMostOne DEF CoverInv
  <2>6. /\ IsFiniteSet(Finished')
        /\ Cardinality(Finished') <= Cardinality(Finished \cup {slotOf[c]})
    BY <2>2, <2>5, FS_Subset
  <2>7. {Cardinality(Working), Cardinality(Finished'),
         Cardinality(Finished \cup {slotOf[c]})} \subseteq Nat
    BY <2>5, <2>6, FS_CardinalityType DEF CoverInv
  <2> QED
    BY <1>0, <2>1, <2>3, <2>4, <2>5, <2>6, <2>7 DEF CoverInv, TypeInv, TypeOK
<1> USE DEF Working, Finished, Live, LivePcs, TypeInv, TypeOK
<1>5. CASE Top BY <1>1, <1>5 DEF Top
<1>6. CASE ScanAvailable BY <1>1, <1>6 DEF ScanAvailable
<1>7. CASE Join BY <1>0, <1>1, <1>7 DEF Join
<1>8. CASE JoinStale BY <1>1, <1>8 DEF JoinStale
<1>9. CASE ScanActive BY <1>1, <1>9 DEF ScanActive
<1>10. CASE ScanOverdue BY <1>1, <1>10 DEF ScanOverdue
<1>11. CASE Release
  <2>1. UNCHANGED <<pc, conncount>> /\ running' = [running EXCEPT ![i] = "AVAILABLE"]
    BY <1>11, Zenon DEF Release
  <2> QED
    BY <1>0, <1>1, <2>1
<1>12. CASE ScanOutside BY <1>1, <1>12 DEF ScanOutside
<1>13. CASE Find BY <1>1, <1>13 DEF Find
<1>14. ASSUME NEW c \in Conns, NEW d \in Fds, AcceptSpawnFails(c, d) PROVE CoverInv'
  BY <1>0, <1>1, <1>14 DEF AcceptSpawnFails, TakeConnection
<1>15. CASE AcceptRetry \/ AcceptError BY <1>1, <1>15 DEF AcceptRetry, AcceptError
<1>16. ASSUME NEW c \in Conns, Arrive(c) PROVE CoverInv'
  BY <1>1, <1>16 DEF Arrive
<1>17. ASSUME NEW c \in Conns, Read(c) \/ Write(c) \/ GiveUp(c) \/ Close(c)
       PROVE  CoverInv'
  BY <1>0, <1>1, <1>17 DEF Read, Write, GiveUp, Close, Step
<1>18. ASSUME NEW c \in Conns, CancelActs(c) PROVE CoverInv'
  BY <1>0, <1>1, <1>18 DEF CancelActs, Step
<1>19. CASE UNCHANGED vars BY <1>1, <1>19 DEF vars
<1> QED
  BY <1>2, <1>3, <1>4, <1>5, <1>6, <1>7, <1>8, <1>9, <1>10, <1>11, <1>12,
     <1>13, <1>14, <1>15, <1>16, <1>17, <1>18, <1>19
     DEF Next, Main, Sweep, Kill, Serve, Worker

\* conncount never falls below the number of workers still at work, whatever
\* fails and however many workers are cancelled: the loop never takes a full
\* table for one with room.
THEOREM CountCovers == Spec => []CountCoversWorkers
<1>1. CoverInv => CountCoversWorkers
  <2> SUFFICES ASSUME CoverInv PROVE CountCoversWorkers
    OBVIOUS
  <2>1. Cardinality(Working) \in Nat /\ Cardinality(Finished) \in Nat
    BY FS_CardinalityType DEF CoverInv
  <2>2. Cardinality(Working) <= conncount
    BY <2>1 DEF CoverInv, TypeInv, TypeOK
  <2> QED
    BY <2>2 DEF Working, CountCoversWorkers
<1> QED
  BY CoverInit, CoverStep, <1>1, PTL DEF Spec

-----------------------------------------------------------------------------
(***************************************************************************)
(* Refinement: every step of Multithread is a step of WorkerPool, or       *)
(* leaves it alone.                                                        *)
(***************************************************************************)

St == [c \in Conns |-> StateOf(c)]
Ans == {c \in Conns : got[c] # {}}

\* A connection is admitted only while fewer than client_max have a worker.
LEMMA RoomToAccept ==
  ASSUME PoolInv, mpc = "accept"
  PROVE  Cardinality(Live) < ClientMax
<1> USE PoolAssumption
<1>1. f \in 0 .. ClientMax - 1 /\ f \notin Busy
  BY DEF PoolInv, TypeInv, TypeOK, MainInv, Busy, Slots
<1> DEFINE S == (0 .. ClientMax - 1) \ {f}
<1>2. \A c \in Live : slotOf[c] \in S
  BY <1>1, LiveSlots
<1>3. IsFiniteSet(0 .. ClientMax - 1) /\ Cardinality(0 .. ClientMax - 1) = ClientMax
  BY FS_Interval
<1>4. IsFiniteSet(S) /\ Cardinality(S) = ClientMax - 1
  <2> HIDE PoolAssumption
  <2> DEFINE T == 0 .. ClientMax - 1
  <2>1. IsFiniteSet(T)
    BY <1>3
  <2> HIDE DEF T
  <2>2. /\ IsFiniteSet(T \ {f})
        /\ Cardinality(T \ {f}) = IF f \in T THEN Cardinality(T) - 1 ELSE Cardinality(T)
    BY <2>1, FS_RemoveElement
  <2> QED
    BY <1>1, <1>3, <2>2 DEF T
<1>5. IsFiniteSet(Live) /\ Cardinality(Live) <= Cardinality(S)
  BY <1>2, LiveCount
<1> QED
  BY <1>4, <1>5, FS_CardinalityType

LEMMA PoolStarts == Init => Pool!PoolInit
  BY DEF Init, Pool!PoolInit, StateOf

\* How a change of one connection's standing, or of the answers, looks in the
\* pool.
LEMMA MapsToMove ==
  ASSUME NEW c \in Conns, NEW to,
         \A x \in Conns : StateOf(x)' = IF x = c THEN to ELSE StateOf(x)
  PROVE  St' = [St EXCEPT ![c] = to]
BY DEF St

LEMMA MapsToStutter ==
  ASSUME \A x \in Conns : StateOf(x)' = StateOf(x)
  PROVE  St' = St
BY DEF St

\* Cardinality as module WorkerPool knows it.
LEMMA SameCardinality == \A S : Pool!Cardinality(S) = Cardinality(S)
  BY DEF Pool!Cardinality, Cardinality

LEMMA PoolSteps ==
  ASSUME PoolInv, [Next]_vars, "overdue" \notin Faults
  PROVE  [Pool!PoolNext]_(Pool!poolVars)
<1> DEFINE Goal == [Pool!PoolNext]_(Pool!poolVars)
<1>1. ASSUME St' = St, Ans' = Ans PROVE Goal
  BY <1>1 DEF Pool!poolVars, St, Ans
<1>2. ASSUME UNCHANGED <<pc, sock, got>> PROVE Goal
  <2>1. St' = St /\ Ans' = Ans
    BY <1>2 DEF St, Ans, StateOf
  <2> QED
    BY <1>1, <2>1
<1>3. CASE \/ Top \/ ScanAvailable \/ ScanInactive \/ JoinStale \/ ScanActive
           \/ Find \/ AcceptRetry \/ AcceptError \/ UNCHANGED vars
  BY <1>2, <1>3
     DEF Top, ScanAvailable, ScanInactive, JoinStale, ScanActive, Find, AcceptRetry,
         AcceptError, vars, workerVars, netVars
<1>4. CASE ScanOverdue \/ Release \/ ScanOutside
  BY <1>4, PoolAssumption
     DEF ScanOverdue, Fault, Release, ScanOutside, PoolInv, MainInv
<1> USE DEF PoolInv, TypeInv, TypeOK, LivePcs, ServingPcs, Slots
<1>5. CASE Join
  <2> DEFINE c == id[i]
  <2>1. c \in Conns /\ pc[c] = "exit" /\ sock[c] = "closed"
    BY <1>5 DEF Join, MainInv, NetInv
  <2>2. /\ pc' = [pc EXCEPT ![c] = "none"] /\ UNCHANGED <<sock, got>>
    BY <1>5 DEF Join, netVars
  <2> HIDE DEF c
  <2>3. StateOf(c) = "done"
    BY <2>1 DEF StateOf
  <2>4. \A x \in Conns : StateOf(x)' = IF x = c THEN "idle" ELSE StateOf(x)
    BY <2>1, <2>2 DEF StateOf
  <2>5. Ans' = Ans
    BY <2>2 DEF Ans
  <2>6. Pool!Collect(c)
    BY <2>1, <2>3, <2>4, <2>5, MapsToMove DEF Pool!Collect, Pool!Move, St, Ans
  <2> QED
    BY <2>1, <2>6 DEF Pool!PoolNext
<1>6. ASSUME NEW c \in Conns, NEW d \in Fds, Accept(c, d) PROVE Goal
  <2>1. /\ mpc = "accept" /\ sock[c] = "queued" /\ pc[c] = "none"
        /\ sock' = [sock EXCEPT ![c] = "open"]
        /\ pc' = [pc EXCEPT ![c] = "read"] /\ got' = got
    BY <1>6 DEF Accept, TakeConnection, NetInv
  <2>2. StateOf(c) = "queued"
    BY <2>1 DEF StateOf
  <2>3. \A x \in Conns : StateOf(x)' = IF x = c THEN "serving" ELSE StateOf(x)
    BY <2>1 DEF StateOf
  <2>4. Ans' = Ans
    BY <2>1 DEF Ans
  <2>5. Pool!Admitted = Live
    BY DEF Pool!Admitted, Live, WorkerInv, StateOf
  <2>6. Cardinality(Live) < ClientMax
    BY <2>1, RoomToAccept
  <2>7. Pool!Admit(c)
    <3>1. Pool!Cardinality(Pool!Admitted) < ClientMax
      BY <2>5, <2>6, SameCardinality
    <3>2. Pool!Move(c, "queued", "serving")
      BY <2>2, <2>3, MapsToMove DEF Pool!Move, St
    <3> QED
      BY <2>4, <3>1, <3>2, Zenon DEF Pool!Admit, Ans
  <2> QED
    BY <2>7 DEF Pool!PoolNext
<1>7. ASSUME NEW c \in Conns, NEW d \in Fds, AcceptSpawnFails(c, d) PROVE Goal
  <2>1. /\ sock[c] = "queued" /\ pc[c] = "none"
        /\ sock' = [sock EXCEPT ![c] = "open"] /\ UNCHANGED <<pc, got>>
    BY <1>7 DEF AcceptSpawnFails, TakeConnection, NetInv, workerVars
  <2>2. StateOf(c) = "queued"
    BY <2>1 DEF StateOf
  <2>3. \A x \in Conns : StateOf(x)' = IF x = c THEN "lost" ELSE StateOf(x)
    BY <2>1 DEF StateOf
  <2>4. Ans' = Ans
    BY <2>1 DEF Ans
  <2>5. Pool!Lose(c)
    BY <2>2, <2>3, <2>4, MapsToMove DEF Pool!Lose, Pool!Move, St, Ans
  <2> QED
    BY <2>5 DEF Pool!PoolNext
<1>8. ASSUME NEW c \in Conns, Arrive(c) PROVE Goal
  <2>1. /\ sock[c] = "closed" /\ pc[c] = "none"
        /\ sock' = [sock EXCEPT ![c] = "queued"]
        /\ got' = [got EXCEPT ![c] = {}] /\ pc' = pc
    BY <1>8 DEF Arrive, workerVars
  <2>2. StateOf(c) = "idle"
    BY <2>1 DEF StateOf
  <2>3. \A x \in Conns : StateOf(x)' = IF x = c THEN "queued" ELSE StateOf(x)
    BY <2>1 DEF StateOf
  <2>4. Ans' = Ans \ {c}
    BY <2>1 DEF Ans
  <2>5. Pool!Connect(c)
    BY <2>2, <2>3, <2>4, MapsToMove DEF Pool!Connect, Pool!Move, St, Ans
  <2> QED
    BY <2>5 DEF Pool!PoolNext
<1>9. ASSUME NEW c \in Conns, Read(c) \/ GiveUp(c) \/ Mark(c) PROVE Goal
  <2>1. UNCHANGED <<sock, got>>
    BY <1>9 DEF Read, GiveUp, Mark, netVars
  <2>2. \A x \in Conns : StateOf(x)' = StateOf(x)
    BY <1>9, <2>1 DEF Read, GiveUp, Mark, Step, StateOf
  <2> QED
    BY <1>1, <2>1, <2>2, MapsToStutter DEF Ans
<1>10. ASSUME NEW c \in Conns, Write(c) PROVE Goal
  <2>1. /\ pc[c] = "write" /\ pc' = [pc EXCEPT ![c] = "close"] /\ sock' = sock
        /\ got[c] = {} /\ got' = [got EXCEPT ![c] = {c}]
    BY <1>10 DEF Write, Step, NetInv
  <2>2. StateOf(c) = "serving"
    BY <2>1 DEF StateOf
  <2>3. \A x \in Conns : StateOf(x)' = StateOf(x)
    BY <2>1 DEF StateOf
  <2>4. c \notin Ans /\ Ans' = Ans \cup {c}
    <3>1. \A x \in Conns : (got[x] # {})' <=> (x = c \/ got[x] # {})
      BY <2>1
    <3>2. c \notin Ans
      BY <2>1 DEF Ans
    <3>3. \A x : x \in Ans' <=> x \in Ans \cup {c}
      BY <3>1, Zenon DEF Ans
    <3>4. Ans' = Ans \cup {c}
      BY <3>3, Zenon
    <3> QED
      BY <3>2, <3>4
  <2>5. Pool!Answer(c)
    BY <2>2, <2>3, <2>4, MapsToStutter DEF Pool!Answer, St, Ans
  <2> QED
    BY <2>5 DEF Pool!PoolNext
<1>11. ASSUME NEW c \in Conns, Close(c) PROVE Goal
  <2>1. /\ pc[c] = "close" /\ pc' = [pc EXCEPT ![c] = "mark"] /\ got' = got
        /\ sock' = [x \in Conns |-> IF x = c THEN "closed" ELSE sock[x]]
    BY <1>11 DEF Close, Step, CloseFd, NetInv
  <2>2. StateOf(c) = "serving"
    BY <2>1 DEF StateOf
  <2>3. \A x \in Conns : StateOf(x)' = IF x = c THEN "done" ELSE StateOf(x)
    BY <2>1 DEF StateOf
  <2>4. Ans' = Ans
    BY <2>1 DEF Ans
  <2>5. Pool!Finish(c)
    BY <2>2, <2>3, <2>4, MapsToMove DEF Pool!Finish, Pool!Move, St, Ans
  <2> QED
    BY <2>5 DEF Pool!PoolNext
<1>12. ASSUME NEW c \in Conns, CancelActs(c) PROVE Goal
  BY <1>12 DEF CancelActs, WorkerInv
<1> QED
  BY <1>3, <1>4, <1>5, <1>6, <1>7, <1>8, <1>9, <1>10, <1>11, <1>12
     DEF Next, Main, Sweep, Kill, Serve, Worker

\* While no worker is overdue the loop, its table of slots and its
\* descriptors implement the pool the clients see: an admitted connection is
\* one of at most client_max, is answered at most once and by its own worker,
\* and is closed before that worker is joined.
THEOREM ImplementsWorkerPool ==
  ASSUME "overdue" \notin Faults, InTable
  PROVE  Spec => ImplementsPool
<1>0. Init => PoolInv
  BY PoolInit
<1>1. PoolInv /\ [Next]_vars => PoolInv'
  BY PoolStep
<1>2. PoolInv /\ [Next]_vars => [Pool!PoolNext]_(Pool!poolVars)
  BY PoolSteps
<1> QED
  BY <1>0, PoolStarts, <1>1, <1>2, PTL DEF Spec, ImplementsPool, Pool!PoolSpec
=============================================================================
