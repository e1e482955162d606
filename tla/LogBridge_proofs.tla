-------------------------- MODULE LogBridge_proofs --------------------------
(***************************************************************************)
(* No message is left behind by a callback that raises, the driver never   *)
(* calls a Logger that is gone, and clusters used one after the other      *)
(* catch their own log: for any number of clusters, threads and messages.  *)
(***************************************************************************)
EXTENDS LogBridge, FiniteSetTheorems, TLAPS

\* A thread is inside of the callback only for a Logger that is not freed.
HandlerExists ==
  \A t \in Threads : handler[t] # None
                       => logger[handler[t]] \in {"live", "orphan", "stopped"}

\* MessagesCovered, for Loggers that are still to come as well.
Covered(c) == queue[c] <= bytes[c] + Cardinality(Writers(c))
                                   + IF draining = c THEN 1 ELSE 0

AllCovered ==
  \A c \in Clusters : logger[c] \in {"none", "live", "orphan"} => Covered(c)

IInv == TypeOK /\ HandlerExists /\ AllCovered /\ RegisteredIsAlive

-----------------------------------------------------------------------------

LEMMA ConstantFacts ==
  /\ None \notin Clusters /\ EventLoop \notin IOThreads
  /\ MaxLogs \in Nat /\ SocketCap \in Nat /\ SocketCap > 0
  /\ IsFiniteSet(Threads)
<1>1. IsFiniteSet(IOThreads)
  BY LogAssumption DEF LogAssumption
<1>2. IsFiniteSet(Threads)
  BY <1>1, FS_AddElement DEF Threads
<1> QED
  BY <1>2, LogAssumption DEF LogAssumption

LEMMA WritersCount ==
  ASSUME NEW c PROVE IsFiniteSet(Writers(c)) /\ Cardinality(Writers(c)) \in Nat
<1>1. Writers(c) \subseteq Threads
  BY DEF Writers
<1> QED
  BY <1>1, ConstantFacts, FS_Subset, FS_CardinalityType

\* A step that leaves a cluster's queue, bytes and writers alone leaves its
\* messages covered; one that adds to both sides does too.
LEMMA CoveredStutters ==
  ASSUME NEW c, queue'[c] = queue[c], bytes'[c] = bytes[c],
         pc' = pc, handler' = handler, draining' = draining,
         Covered(c)
  PROVE  Covered(c)'
BY DEF Covered, Writers

LEMMA TypeInv == TypeOK /\ [Next]_vars => TypeOK'
<1> SUFFICES ASSUME TypeOK, [Next]_vars PROVE TypeOK'
  OBVIOUS
<1> USE ConstantFacts DEF TypeOK, threadVars
<1>1. ASSUME NEW c \in Clusters, Create(c) \/ Destroy(c) \/ Dealloc(c)
      PROVE TypeOK'
  BY <1>1 DEF Create, Destroy, Dealloc, Register, Unregister
<1>2. ASSUME NEW t \in Threads, Log(t) PROVE TypeOK'
  BY <1>2 DEF Log
<1>3. ASSUME NEW t \in Threads, Push(t) PROVE TypeOK'
  BY <1>3 DEF Push
<1>4. ASSUME NEW t \in Threads, Write(t) PROVE TypeOK'
  BY <1>4 DEF Write
<1>5. ASSUME NEW c \in Clusters, Recv(c) PROVE TypeOK'
  BY <1>5 DEF Recv
<1>6. CASE Emit \/ FoundEmpty
  BY <1>6 DEF Emit, FoundEmpty
<1>7. CASE UNCHANGED vars
  BY <1>7 DEF vars
<1> HIDE DEF TypeOK
<1> QED
  BY <1>1, <1>2, <1>3, <1>4, <1>5, <1>6, <1>7 DEF Next, LoopStep

LEMMA RegistryInv ==
  TypeOK /\ HandlerExists /\ RegisteredIsAlive /\ [Next]_vars
    => HandlerExists' /\ RegisteredIsAlive'
<1> SUFFICES ASSUME TypeOK, HandlerExists, RegisteredIsAlive, [Next]_vars
             PROVE  HandlerExists' /\ RegisteredIsAlive'
  OBVIOUS
<1> USE ConstantFacts DEF TypeOK, HandlerExists, RegisteredIsAlive, Alive,
                          threadVars
<1>1. ASSUME NEW c \in Clusters, Create(c)
      PROVE  HandlerExists' /\ RegisteredIsAlive'
  BY <1>1 DEF Create, Register
<1>2. ASSUME NEW c \in Clusters, Destroy(c) \/ Dealloc(c)
      PROVE  HandlerExists' /\ RegisteredIsAlive'
  BY <1>2 DEF Destroy, Dealloc, Unregister
<1>3. ASSUME NEW t \in Threads, Log(t) \/ Push(t) \/ Write(t)
      PROVE  HandlerExists' /\ RegisteredIsAlive'
  BY <1>3 DEF Log, Push, Write
<1>4. CASE LoopStep \/ UNCHANGED vars
  BY <1>4 DEF LoopStep, Recv, Emit, FoundEmpty, vars
<1> HIDE DEF TypeOK, HandlerExists, RegisteredIsAlive
<1> QED
  BY <1>1, <1>2, <1>3, <1>4 DEF Next

LEMMA CoverInv == IInv /\ TypeOK' /\ [Next]_vars => AllCovered'
<1> SUFFICES ASSUME IInv, TypeOK', [Next]_vars, NEW c \in Clusters,
                    logger'[c] \in {"none", "live", "orphan"}
             PROVE  Covered(c)'
  BY DEF AllCovered
<1> USE DEF IInv, threadVars
<1>0. /\ queue[c] \in Nat /\ bytes[c] \in Nat
      /\ Cardinality(Writers(c)) \in Nat /\ IsFiniteSet(Writers(c))
  <2>1. queue[c] \in Nat
    BY DEF TypeOK
  <2>2. bytes[c] \in Nat
    BY ConstantFacts DEF TypeOK
  <2> QED
    BY <2>1, <2>2, WritersCount
<1>1. ASSUME NEW d \in Clusters, Create(d) \/ Destroy(d) \/ Dealloc(d)
      PROVE  Covered(c)'
  <2>1. /\ logger[c] \in {"none", "live", "orphan"}
        /\ queue'[c] = queue[c] /\ bytes'[c] = bytes[c]
        /\ pc' = pc /\ handler' = handler /\ draining' = draining
    BY <1>1 DEF TypeOK, Create, Destroy, Dealloc
  <2> QED
    BY <2>1, CoveredStutters DEF AllCovered
<1> SUFFICES ASSUME logger' = logger
             PROVE  Covered(c)'
  BY <1>1 DEF Next, LoopStep, Log, Push, Write, Recv, Emit, FoundEmpty, vars
<1>2. Covered(c)
  BY DEF AllCovered
<1>3. ASSUME NEW t \in Threads, Log(t) PROVE Covered(c)'
  <2>1. Writers(c)' = Writers(c)
    BY <1>3 DEF Log, Writers, TypeOK
  <2> QED
    BY <1>2, <1>3, <2>1 DEF Log, Covered
<1>4. ASSUME NEW t \in Threads, Push(t) PROVE Covered(c)'
  <2>1. CASE handler[t] = c
    <3>1. Writers(c)' = Writers(c) \cup {t} /\ t \notin Writers(c)
      BY <1>4, <2>1 DEF Push, Writers, TypeOK
    <3>2. Cardinality(Writers(c)') = Cardinality(Writers(c)) + 1
      BY <1>0, <3>1, FS_AddElement
    <3>3. queue'[c] = queue[c] + 1 /\ bytes' = bytes /\ draining' = draining
      BY <1>4, <2>1 DEF Push, TypeOK
    <3> QED
      BY <1>0, <1>2, <3>2, <3>3 DEF Covered
  <2>2. CASE handler[t] # c
    <3>1. Writers(c)' = Writers(c)
      BY <1>4, <2>2 DEF Push, Writers, TypeOK
    <3>2. queue'[c] = queue[c] /\ bytes' = bytes /\ draining' = draining
      BY <1>4, <2>2 DEF Push, TypeOK
    <3> QED
      BY <1>2, <3>1, <3>2 DEF Covered
  <2> QED
    BY <2>1, <2>2
<1>5. ASSUME NEW t \in Threads, Write(t) PROVE Covered(c)'
  <2>0. /\ handler[t] \in Clusters
        /\ queue' = queue /\ draining' = draining
    BY <1>5 DEF Write, TypeOK
  <2>1. CASE handler[t] = c
    <3>1. Writers(c)' = Writers(c) \ {t} /\ t \in Writers(c)
      BY <1>5, <2>1, ConstantFacts DEF Write, Writers, TypeOK
    <3>2. Cardinality(Writers(c)') = Cardinality(Writers(c)) - 1
      BY <1>0, <3>1, FS_RemoveElement
    <3>3. Alive(c)
      BY <2>1, ConstantFacts DEF HandlerExists, Alive
    <3>4. bytes'[c] = bytes[c] + 1
      BY <1>5, <2>1, <3>3 DEF Write, TypeOK
    <3> QED
      BY <1>0, <1>2, <2>0, <3>2, <3>4 DEF Covered
  <2>2. CASE handler[t] # c
    <3>1. Writers(c)' = Writers(c)
      BY <1>5, <2>2, ConstantFacts DEF Write, Writers, TypeOK
    <3>2. bytes'[c] = bytes[c]
      BY <1>5, <2>0, <2>2 DEF Write, TypeOK
    <3> QED
      BY <1>2, <2>0, <3>1, <3>2 DEF Covered
  <2> QED
    BY <2>1, <2>2
<1>6. ASSUME NEW d \in Clusters, Recv(d) PROVE Covered(c)'
  <2>1. Writers(c)' = Writers(c) /\ queue' = queue
    BY <1>6 DEF Recv, Writers
  <2>2. /\ draining = None /\ draining' = d
        /\ bytes'[c] = IF c = d THEN bytes[c] - 1 ELSE bytes[c]
    BY <1>6 DEF Recv, LoopFree, TypeOK
  <2> QED
    BY <1>0, <1>2, <2>1, <2>2, ConstantFacts DEF Covered
<1>7. CASE Emit
  <2>1. /\ Writers(c)' = Writers(c) /\ bytes' = bytes
        /\ draining \in Clusters /\ draining' \in {draining, None}
        /\ queue'[c] = IF c = draining THEN queue[c] - 1 ELSE queue[c]
    BY <1>7 DEF Emit, Writers, TypeOK
  <2> QED
    BY <1>0, <1>2, <2>1, ConstantFacts DEF Covered
<1>8. CASE FoundEmpty
  <2>1. /\ Writers(c)' = Writers(c) /\ bytes' = bytes /\ queue' = queue
        /\ draining' = None
        /\ draining = c => queue[c] = 0
    BY <1>8 DEF FoundEmpty, Writers
  <2>2. queue[c] <= bytes[c] + Cardinality(Writers(c))
    BY <1>0, <1>2, <2>1 DEF Covered
  <2> QED
    BY <1>0, <2>1, <2>2, ConstantFacts DEF Covered
<1>9. CASE UNCHANGED vars
  BY <1>2, <1>9, CoveredStutters DEF vars
<1> HIDE DEF IInv
<1> QED
  BY <1>1, <1>3, <1>4, <1>5, <1>6, <1>7, <1>8, <1>9 DEF Next, LoopStep

LEMMA InitInv == Init => IInv
<1> SUFFICES ASSUME Init PROVE IInv
  OBVIOUS
<1>1. TypeOK
  BY ConstantFacts DEF Init, TypeOK
<1>2. HandlerExists /\ RegisteredIsAlive
  BY DEF Init, HandlerExists, RegisteredIsAlive
<1>3. ASSUME NEW c \in Clusters PROVE Covered(c)
  <2>1. Cardinality(Writers(c)) \in Nat /\ queue[c] = 0 /\ bytes[c] = 0
    BY WritersCount DEF Init
  <2> QED
    BY <2>1 DEF Covered
<1> QED
  BY <1>1, <1>2, <1>3 DEF IInv, AllCovered

THEOREM Inductive == SafeSpec => []IInv
<1>1. IInv /\ [Next]_vars => IInv'
  BY TypeInv, RegistryInv, CoverInv DEF IInv
<1> QED
  BY <1>1, InitInv, PTL DEF SafeSpec

\* Type correctness of the log bridge.
THEOREM TypeCorrect == SafeSpec => []TypeOK
<1>1. IInv => TypeOK
  BY DEF IInv
<1> QED
  BY <1>1, Inductive, PTL

\* Whatever a callback raises, a byte is left for each message left.
THEOREM MessagesStayCovered == SafeSpec => []MessagesCovered
<1>1. IInv => MessagesCovered
  BY DEF IInv, AllCovered, Covered, MessagesCovered, Alive
<1> QED
  BY <1>1, Inductive, PTL

\* The driver's log callback never points to a Logger that is gone.
THEOREM RegisteredStaysAlive == SafeSpec => []RegisteredIsAlive
<1>1. IInv => RegisteredIsAlive
  BY DEF IInv
<1> QED
  BY <1>1, Inductive, PTL

-----------------------------------------------------------------------------
(* Clusters one after the other, and no Logger kept after destroy().       *)

\* A Logger that is stopped is gone before another one is in use.
OneInUse == \A c, d \in Clusters : logger[c] = "live" => logger[d] # "stopped"

\* Clusters used one after the other catch their own log.
THEOREM OneClusterCatchesLog ==
  ASSUME Serial, ~KeepsLogger PROVE SafeSpec => []CatchesLog
<1> DEFINE Inv == TypeOK /\ CatchesLog /\ OneInUse
<1>1. Init => Inv
  BY InitInv DEF Init, IInv, CatchesLog, OneInUse
<1>2. Inv /\ [Next]_vars => Inv'
  <2> SUFFICES ASSUME Inv, [Next]_vars PROVE CatchesLog' /\ OneInUse'
    BY TypeInv
  <2> USE DEF TypeOK, CatchesLog, OneInUse
  <2>1. ASSUME NEW c \in Clusters, Create(c) PROVE CatchesLog' /\ OneInUse'
    BY <2>1 DEF Create, Register, LoopFree
  <2>2. ASSUME NEW c \in Clusters, Destroy(c) PROVE CatchesLog' /\ OneInUse'
    BY <2>2 DEF Destroy, Unregister
  <2>3. ASSUME NEW c \in Clusters, Dealloc(c) PROVE CatchesLog' /\ OneInUse'
    BY <2>3 DEF Dealloc, Unregister
  <2>4. CASE LoopStep \/ UNCHANGED vars \/ \E t \in Threads : Log(t) \/ Push(t) \/ Write(t)
    BY <2>4 DEF LoopStep, Recv, Emit, FoundEmpty, Log, Push, Write, vars
  <2> HIDE DEF TypeOK, CatchesLog, OneInUse
  <2> QED
    BY <2>1, <2>2, <2>3, <2>4 DEF Next
<1> QED
  BY <1>1, <1>2, PTL DEF SafeSpec
=============================================================================
