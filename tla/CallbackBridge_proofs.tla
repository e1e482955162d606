------------------------ MODULE CallbackBridge_proofs ------------------------
(***************************************************************************)
(* What CallbackBridge guarantees for every number of calls and threads,   *)
(* and every capacity of the socket.                                       *)
(***************************************************************************)
EXTENDS CallbackBridge, SequenceTheorems, FiniteSetTheorems, TLAPS

(***************************************************************************)
(* The inductive invariant.                                                *)
(***************************************************************************)

\* The loop's thread does one thing at a time, and which coroutine has got
\* where: what LoopFree and the program order of the coroutine give.
ProgramOrder ==
  /\ loopPc # "idle" => cbPc[EventLoop] = "idle"
  /\ loopPc = "register" => loopReq \in Requests /\ task[loopReq] = "calling"
  /\ \A r \in Requests :
       /\ task[r] \in {"new", "calling", "refused"} => extraRefs[r] = 0
       /\ task[r] \in {"new", "calling"} => future[r] = "none"
       /\ task[r] = "new" <=> cassFuture[r] = "none"

\* The pointer of a wrapper is in one place at most: each conjunct says that
\* who holds a pointer holds the reference, and that nobody else does.
OneHolder ==
  /\ \A r \in Requests : extraRefs[r] \in {0, 1}
  /\ \A r \in armed : extraRefs[r] = 1
  /\ \A t \in Threads : cbPc[t] = "push" =>
       /\ cbReq[t] \in Requests \ armed
       /\ extraRefs[cbReq[t]] = 1
       /\ \A u \in Threads : cbPc[u] = "push" /\ cbReq[u] = cbReq[t] => u = t
  /\ \A i \in 1 .. Len(queue) :
       /\ queue[i] \notin armed
       /\ extraRefs[queue[i]] = 1
       /\ \A t \in Threads : cbPc[t] = "push" => cbReq[t] # queue[i]
       /\ \A j \in 1 .. Len(queue) : queue[i] = queue[j] => i = j
  /\ loopPc = "deliver" =>
       /\ loopReq \in Requests \ armed
       /\ extraRefs[loopReq] = 1
       /\ \A t \in Threads : cbPc[t] = "push" => cbReq[t] # loopReq
       /\ \A i \in 1 .. Len(queue) : queue[i] # loopReq

\* A place that keeps the pointer of r, whichever it is.
Held(r) == \/ r \in armed
           \/ \E t \in Threads : cbPc[t] = "push" /\ cbReq[t] = r
           \/ \E i \in 1 .. Len(queue) : queue[i] = r
           \/ loopPc = "deliver" /\ loopReq = r

\* A reference that is held is held for a place.
NoLeak == \A r \in Requests : extraRefs[r] = 1 => Held(r)

\* A callback runs only for a CassFuture that is set, so what it leads to,
\* a finished asyncio future and a task that returns, comes after the answer.
AnswerFirst ==
  /\ \A r \in armed : cassFuture[r] = "inflight"
  /\ \A r \in Requests : extraRefs[r] = 1 /\ r \notin armed
                           => cassFuture[r] = "set"
  /\ \A r \in Requests :
       /\ future[r] = "finished" => cassFuture[r] = "set"
       /\ task[r] = "waiting" => future[r] \in {"pending", "finished"}
       /\ task[r] = "returned" => cassFuture[r] = "set"
  /\ \A r \in freed : task[r] \in {"returned", "cancelled"}

-----------------------------------------------------------------------------

LEMMA ThreadFacts == EventLoop \in Threads /\ IOThreads \subseteq Threads
BY DEF Threads

LEMMA CapIsNat == SocketCap \in Nat \ {0}
BY BridgeAssumption DEF BridgeAssumption

\* Every step of CallbackBridge keeps every variable within its range.
LEMMA TypeStep == TypeOK /\ ProgramOrder /\ OneHolder /\ [Next]_vars => TypeOK'
<1> SUFFICES ASSUME TypeOK, ProgramOrder, OneHolder, [Next]_vars
             PROVE  TypeOK'
  OBVIOUS
<1> USE ThreadFacts DEF TypeOK
<1>1. ASSUME NEW r \in Requests, Submit(r) PROVE TypeOK'
  BY <1>1 DEF Submit, driverVars, channelVars, callbackVars, loopVars
<1>2. ASSUME NEW r \in Requests, Register(r) PROVE TypeOK'
  <2>1. /\ future' \in [Requests -> {"none", "pending", "finished", "cancelled"}]
        /\ extraRefs' \in [Requests -> Nat]
        /\ task' \in [Requests -> {"new", "calling", "waiting", "cancelling",
                                   "returned", "cancelled", "refused"}]
    BY <1>2 DEF Register
  <2>2. /\ armed' \subseteq Requests
        /\ cbPc' \in [Threads -> {"idle", "push", "write"}]
        /\ cbReq' \in [Threads -> Requests \cup {NoRequest}]
    BY <1>2 DEF Register, StartCallback, callbackVars
  <2> QED
    BY <1>2, <2>1, <2>2 DEF Register, channelVars
<1>3. ASSUME NEW r \in Requests, RegisterError(r) PROVE TypeOK'
  BY <1>3 DEF RegisterError, driverVars, channelVars, callbackVars
<1>4. ASSUME NEW r \in Requests, Cancel(r) PROVE TypeOK'
  BY <1>4 DEF Cancel, driverVars, channelVars, callbackVars, loopVars
<1>5. ASSUME NEW r \in Requests, Resume(r) PROVE TypeOK'
  BY <1>5 DEF Resume, driverVars, channelVars, callbackVars, loopVars
<1>6. ASSUME NEW r \in Requests, NEW t \in IOThreads, Complete(t, r)
      PROVE  TypeOK'
  BY <1>6 DEF Complete, StartCallback, callbackVars, channelVars, loopVars,
              taskVars
<1>7. ASSUME NEW t \in Threads, Push(t) PROVE TypeOK'
  <2>1. cbReq[t] \in Requests
    BY <1>7 DEF Push, OneHolder
  <2>2. Append(queue, cbReq[t]) \in Seq(Requests)
    BY <2>1, AppendProperties
  <2> QED
    BY <1>7, <2>2 DEF Push, driverVars, loopVars, taskVars
<1>8. ASSUME NEW t \in Threads, Write(t) PROVE TypeOK'
  BY <1>8, CapIsNat DEF Write, driverVars, loopVars, taskVars
<1>9. CASE Recv
  BY <1>9, CapIsNat DEF Recv, driverVars, callbackVars, taskVars
<1>10. CASE PopFront
  <2>1. Tail(queue) \in Seq(Requests) /\ Head(queue) \in Requests
    BY <1>10, HeadTailProperties DEF PopFront
  <2> QED
    BY <1>10, <2>1 DEF PopFront, driverVars, callbackVars, taskVars
<1>11. CASE FoundEmpty
  BY <1>11 DEF FoundEmpty, driverVars, channelVars, callbackVars, taskVars
<1>12. CASE Deliver
  <2>1. loopReq \in Requests /\ extraRefs[loopReq] = 1
    BY <1>12 DEF Deliver, OneHolder
  <2> QED
    BY <1>12, <2>1 DEF Deliver, Settled, driverVars, channelVars, callbackVars
<1>13. CASE Destroy
  <2>1. bytes' = 0 /\ open' = FALSE
    BY <1>13, Zenon DEF Destroy
  <2>2. 0 \in 0 .. SocketCap
    BY CapIsNat
  <2> QED
    BY <1>13, <2>1, <2>2 DEF Destroy, driverVars, callbackVars, loopVars, taskVars
<1>14. CASE UNCHANGED vars
  BY <1>14 DEF vars, driverVars, channelVars, callbackVars, loopVars, taskVars
<1> QED
  BY <1>1, <1>2, <1>3, <1>4, <1>5, <1>6, <1>7, <1>8, <1>9, <1>10, <1>11,
     <1>12, <1>13, <1>14 DEF Next, LoopStep

-----------------------------------------------------------------------------

\* No step leaves a wrapper on the queue with nobody to wake the loop.
LEMMA WakeupStep ==
  TypeOK /\ ProgramOrder /\ NoLostWakeup /\ [Next]_vars => NoLostWakeup'
<1> SUFFICES ASSUME TypeOK, ProgramOrder, NoLostWakeup, [Next]_vars
             PROVE  NoLostWakeup'
  OBVIOUS
<1> USE ThreadFacts DEF TypeOK, NoLostWakeup
<1>1. ASSUME NEW r \in Requests, Submit(r) PROVE NoLostWakeup'
  BY <1>1 DEF Submit, LoopFree, channelVars, callbackVars, loopVars
<1>2. ASSUME NEW r \in Requests, Register(r) PROVE NoLostWakeup'
  BY <1>2 DEF Register, ProgramOrder, StartCallback, channelVars, callbackVars
<1>3. ASSUME NEW r \in Requests, RegisterError(r) PROVE NoLostWakeup'
  BY <1>3 DEF RegisterError, channelVars, callbackVars
<1>4. ASSUME NEW r \in Requests, Cancel(r) PROVE NoLostWakeup'
  BY <1>4 DEF Cancel, channelVars, callbackVars, loopVars
<1>5. ASSUME NEW r \in Requests, Resume(r) PROVE NoLostWakeup'
  BY <1>5 DEF Resume, channelVars, callbackVars, loopVars
<1>6. ASSUME NEW r \in Requests, NEW t \in IOThreads, Complete(t, r)
      PROVE  NoLostWakeup'
  BY <1>6 DEF Complete, StartCallback, channelVars, callbackVars, loopVars
<1>7. ASSUME NEW t \in Threads, Push(t) PROVE NoLostWakeup'
  BY <1>7 DEF Push
<1>8. ASSUME NEW t \in Threads, Write(t) PROVE NoLostWakeup'
  <2>1. CASE ~open
    BY <1>8, <2>1 DEF Write
  <2>2. CASE open
    BY <1>8, <2>2, CapIsNat DEF Write
  <2> QED
    BY <2>1, <2>2
<1>9. CASE Recv
  BY <1>9 DEF Recv
<1>10. CASE PopFront
  BY <1>10 DEF PopFront
<1>11. CASE FoundEmpty
  BY <1>11 DEF FoundEmpty, channelVars
<1>12. CASE Deliver
  BY <1>12 DEF Deliver
<1>13. CASE Destroy
  BY <1>13 DEF Destroy
<1>14. CASE UNCHANGED vars
  BY <1>14 DEF vars, channelVars, callbackVars, loopVars
<1> QED
  BY <1>1, <1>2, <1>3, <1>4, <1>5, <1>6, <1>7, <1>8, <1>9, <1>10, <1>11,
     <1>12, <1>13, <1>14 DEF Next, LoopStep

\* The loop's thread keeps to its program.
LEMMA OrderStep ==
  TypeOK /\ ProgramOrder /\ OneHolder /\ [Next]_vars => ProgramOrder'
<1> SUFFICES ASSUME TypeOK, ProgramOrder, OneHolder, [Next]_vars
             PROVE  ProgramOrder'
  OBVIOUS
<1> USE ThreadFacts DEF TypeOK, ProgramOrder
<1>1. ASSUME NEW r \in Requests, Submit(r) PROVE ProgramOrder'
  BY <1>1 DEF Submit, LoopFree, callbackVars, loopVars
<1>2. ASSUME NEW r \in Requests, Register(r) PROVE ProgramOrder'
  BY <1>2 DEF Register
<1>3. ASSUME NEW r \in Requests, RegisterError(r) PROVE ProgramOrder'
  BY <1>3 DEF RegisterError, driverVars
<1>4. ASSUME NEW r \in Requests, Cancel(r) PROVE ProgramOrder'
  BY <1>4 DEF Cancel, driverVars, callbackVars, loopVars
<1>5. ASSUME NEW r \in Requests, Resume(r) PROVE ProgramOrder'
  BY <1>5 DEF Resume, LoopFree, driverVars, callbackVars, loopVars
<1>6. ASSUME NEW r \in Requests, NEW t \in IOThreads, Complete(t, r)
      PROVE  ProgramOrder'
  <2>1. t # EventLoop
    BY BridgeAssumption DEF BridgeAssumption
  <2>2. cbPc'[EventLoop] = cbPc[EventLoop]
    BY <1>6, <2>1 DEF Complete, StartCallback, callbackVars
  <2> QED
    BY <1>6, <2>2 DEF Complete, loopVars, taskVars
<1>7. ASSUME NEW t \in Threads, Push(t) PROVE ProgramOrder'
  BY <1>7 DEF Push, driverVars, loopVars, taskVars
<1>8. ASSUME NEW t \in Threads, Write(t) PROVE ProgramOrder'
  BY <1>8 DEF Write, driverVars, loopVars, taskVars
<1>9. CASE Recv
  BY <1>9 DEF Recv, LoopFree, driverVars, callbackVars, taskVars
<1>10. CASE PopFront
  BY <1>10 DEF PopFront, driverVars, callbackVars, taskVars
<1>11. CASE FoundEmpty
  BY <1>11 DEF FoundEmpty, driverVars, callbackVars, taskVars
<1>12. CASE Deliver
  <2>1. loopReq \in Requests /\ extraRefs[loopReq] = 1
    BY <1>12 DEF Deliver, OneHolder
  <2>2. /\ loopPc' = "drain" /\ cbPc' = cbPc /\ task' = task
        /\ cassFuture' = cassFuture
    BY <1>12 DEF Deliver, driverVars, callbackVars
  <2>3. \A r \in Requests : r # loopReq => /\ extraRefs'[r] = extraRefs[r]
                                           /\ future'[r] = future[r]
    BY <1>12 DEF Deliver
  <2>4. task[loopReq] \notin {"new", "calling", "refused"}
    BY <2>1
  <2> QED
    BY <1>12, <2>1, <2>2, <2>3, <2>4 DEF Deliver
<1>13. CASE Destroy
  BY <1>13 DEF Destroy, LoopFree, driverVars, callbackVars, loopVars, taskVars
<1>14. CASE UNCHANGED vars
  BY <1>14 DEF vars, driverVars, callbackVars, loopVars, taskVars
<1> QED
  BY <1>1, <1>2, <1>3, <1>4, <1>5, <1>6, <1>7, <1>8, <1>9, <1>10, <1>11,
     <1>12, <1>13, <1>14 DEF Next, LoopStep

-----------------------------------------------------------------------------
(* The pointer of a wrapper.  The actions that move one are Register,      *)
(* Complete, Push, PopFront and Deliver; the rest leave all places alone.  *)

placeVars == <<armed, cbPc, cbReq, queue, extraRefs>>

\* Steps that move no pointer leave its holder as it was.
LEMMA HolderUnmoved ==
  ASSUME OneHolder, UNCHANGED placeVars,
         loopPc' = "deliver" => loopPc = "deliver" /\ loopReq' = loopReq
  PROVE  OneHolder'
BY DEF OneHolder, placeVars

\* Pushing the pointer moves it from the thread's container to the queue.
LEMMA HolderPush ==
  ASSUME TypeOK, OneHolder, NEW t \in Threads, Push(t)
  PROVE  OneHolder'
<1> DEFINE r == cbReq[t]
<1>1. /\ queue' = Append(queue, r) /\ r \in Requests /\ extraRefs[r] = 1
      /\ r \notin armed
  BY DEF Push, OneHolder
<1>2. /\ Len(queue') = Len(queue) + 1
      /\ queue'[Len(queue) + 1] = r
      /\ \A i \in 1 .. Len(queue) : queue'[i] = queue[i]
      /\ Len(queue) \in Nat
  BY <1>1, AppendProperties DEF TypeOK
<1>3. /\ cbReq' = cbReq /\ cbPc'[t] = "write"
      /\ \A u \in Threads : u # t => cbPc'[u] = cbPc[u]
  BY DEF Push, TypeOK
<1>4. /\ armed' = armed /\ extraRefs' = extraRefs
      /\ loopPc' = loopPc /\ loopReq' = loopReq
  BY DEF Push, driverVars, loopVars, taskVars
<1>5. \A u \in Threads : cbPc'[u] = "push" => u # t /\ cbPc[u] = "push"
                                              /\ cbReq[u] # r
  BY <1>3 DEF OneHolder, Push
<1>6. \A i \in 1 .. Len(queue) : queue[i] # r
  BY DEF OneHolder, Push
<1>7. \A i \in 1 .. Len(queue') :
        \/ i \in 1 .. Len(queue) /\ queue'[i] = queue[i] /\ queue[i] # r
        \/ i = Len(queue) + 1 /\ queue'[i] = r
  BY <1>2, <1>6
<1>8. \A i \in 1 .. Len(queue') :
        /\ queue'[i] \notin armed'
        /\ extraRefs'[queue'[i]] = 1
        /\ \A u \in Threads : cbPc'[u] = "push" => cbReq'[u] # queue'[i]
        /\ \A j \in 1 .. Len(queue') : queue'[i] = queue'[j] => i = j
  BY <1>1, <1>3, <1>4, <1>5, <1>7 DEF OneHolder
<1>9. loopPc' = "deliver" => \A i \in 1 .. Len(queue') : queue'[i] # loopReq'
  BY <1>4, <1>7 DEF OneHolder, Push
<1> QED
  BY <1>3, <1>4, <1>5, <1>8, <1>9 DEF OneHolder

\* Popping it moves it from the queue to the handler.
LEMMA HolderPop ==
  ASSUME TypeOK, OneHolder, PopFront
  PROVE  OneHolder'
<1>1. /\ queue # <<>> /\ queue \in Seq(Requests)
      /\ queue' = Tail(queue) /\ loopReq' = Head(queue)
  BY DEF PopFront, TypeOK
<1>2. /\ Len(queue) \in Nat /\ Len(queue) > 0
      /\ Len(queue') = Len(queue) - 1
      /\ \A i \in 1 .. Len(queue') : queue'[i] = queue[i + 1]
      /\ loopReq' = queue[1] /\ queue[1] \in Requests
  BY <1>1, HeadTailProperties, EmptySeq, LenProperties
<1>3. /\ armed' = armed /\ extraRefs' = extraRefs /\ cbPc' = cbPc
      /\ cbReq' = cbReq
  BY DEF PopFront, driverVars, callbackVars, taskVars
<1>4. 1 \in 1 .. Len(queue)
      /\ \A i \in 1 .. Len(queue') : i + 1 \in 1 .. Len(queue) /\ i + 1 # 1
  BY <1>2
<1>5. /\ loopReq' \in Requests \ armed'
      /\ extraRefs'[loopReq'] = 1
      /\ \A t \in Threads : cbPc'[t] = "push" => cbReq'[t] # loopReq'
      /\ \A i \in 1 .. Len(queue') : queue'[i] # loopReq'
  BY <1>2, <1>3, <1>4 DEF OneHolder
<1>6. \A i \in 1 .. Len(queue') :
        /\ queue'[i] \notin armed'
        /\ extraRefs'[queue'[i]] = 1
        /\ \A t \in Threads : cbPc'[t] = "push" => cbReq'[t] # queue'[i]
        /\ \A j \in 1 .. Len(queue') : queue'[i] = queue'[j] => i = j
  <2> SUFFICES ASSUME NEW i \in 1 .. Len(queue')
               PROVE  /\ queue'[i] \notin armed'
                      /\ extraRefs'[queue'[i]] = 1
                      /\ \A t \in Threads : cbPc'[t] = "push"
                                              => cbReq'[t] # queue'[i]
                      /\ \A j \in 1 .. Len(queue') :
                           queue'[i] = queue'[j] => i = j
    OBVIOUS
  <2>1. queue'[i] = queue[i + 1] /\ i + 1 \in 1 .. Len(queue)
    BY <1>2, <1>4
  <2>2. \A j \in 1 .. Len(queue') : queue'[i] = queue'[j] => i = j
    BY <1>2, <1>4, <2>1 DEF OneHolder
  <2> QED
    BY <1>3, <2>1, <2>2 DEF OneHolder
<1> QED
  BY <1>3, <1>5, <1>6 DEF OneHolder

\* Every step of CallbackBridge preserves OneHolder.
LEMMA HolderStep ==
  TypeOK /\ ProgramOrder /\ OneHolder /\ [Next]_vars => OneHolder'
<1> SUFFICES ASSUME TypeOK, ProgramOrder, OneHolder, [Next]_vars
             PROVE  OneHolder'
  OBVIOUS
<1>1. ASSUME NEW r \in Requests, Submit(r) PROVE OneHolder'
  BY <1>1, HolderUnmoved DEF Submit, LoopFree, placeVars, channelVars,
                             callbackVars, loopVars
<1>2. ASSUME NEW r \in Requests, Register(r) PROVE OneHolder'
  <2>1. extraRefs[r] = 0 /\ r \notin armed /\ loopPc' = "idle"
    BY <1>2 DEF Register, ProgramOrder, OneHolder
  <2>2. /\ extraRefs'[r] = 1 /\ queue' = queue
        /\ \A x \in Requests \ {r} : extraRefs'[x] = extraRefs[x]
    BY <1>2, <2>1 DEF Register, channelVars, TypeOK
  <2>3. \A t \in Threads : cbPc[t] = "push" => cbReq[t] # r
    BY <2>1 DEF OneHolder
  <2>4. \A i \in 1 .. Len(queue) : queue[i] # r /\ queue[i] \in Requests
    BY <2>1 DEF OneHolder, TypeOK
  <2>5. CASE cassFuture[r] = "set"
    <3>1. /\ armed' = armed
          /\ \A t \in Threads : cbPc'[t] = "push" =>
               \/ t = EventLoop /\ cbReq'[t] = r
               \/ /\ t # EventLoop /\ cbPc[t] = "push" /\ cbReq'[t] = cbReq[t]
                  /\ cbReq[t] # r
      BY <1>2, <2>3, <2>5 DEF Register, StartCallback, TypeOK
    <3>2. \A t \in Threads : cbPc'[t] = "push" =>
            /\ cbReq'[t] \in Requests \ armed'
            /\ extraRefs'[cbReq'[t]] = 1
            /\ \A u \in Threads : cbPc'[u] = "push" /\ cbReq'[u] = cbReq'[t]
                                    => u = t
      BY <2>1, <2>2, <3>1 DEF OneHolder
    <3> QED
      BY <2>1, <2>2, <2>4, <3>1, <3>2 DEF OneHolder, TypeOK
  <2>6. CASE cassFuture[r] # "set"
    <3>1. armed' = armed \cup {r} /\ cbPc' = cbPc /\ cbReq' = cbReq
      BY <1>2, <2>6 DEF Register, callbackVars
    <3> QED
      BY <2>1, <2>2, <2>3, <2>4, <3>1 DEF OneHolder, TypeOK
  <2> QED
    BY <2>5, <2>6
<1>3. ASSUME NEW r \in Requests, RegisterError(r) PROVE OneHolder'
  BY <1>3, HolderUnmoved DEF RegisterError, placeVars, driverVars,
                             channelVars, callbackVars
<1>4. ASSUME NEW r \in Requests, Cancel(r) PROVE OneHolder'
  BY <1>4, HolderUnmoved DEF Cancel, placeVars, driverVars, channelVars,
                             callbackVars, loopVars
<1>5. ASSUME NEW r \in Requests, Resume(r) PROVE OneHolder'
  BY <1>5, HolderUnmoved DEF Resume, placeVars, driverVars, channelVars,
                             callbackVars, loopVars
<1>6. ASSUME NEW r \in Requests, NEW t \in IOThreads, Complete(t, r)
      PROVE  OneHolder'
  <2>1. CASE r \notin armed
    BY <1>6, <2>1, HolderUnmoved DEF Complete, placeVars, channelVars,
                                     callbackVars, loopVars, taskVars
  <2>2. CASE r \in armed
    <3>1. /\ armed' = armed \ {r} /\ extraRefs[r] = 1
          /\ extraRefs' = extraRefs /\ queue' = queue
          /\ loopPc' = loopPc /\ loopReq' = loopReq
      BY <1>6, <2>2 DEF Complete, channelVars, loopVars, taskVars, OneHolder
    <3>2. \A u \in Threads : cbPc'[u] = "push" =>
            \/ u = t /\ cbReq'[u] = r
            \/ /\ u # t /\ cbPc[u] = "push" /\ cbReq'[u] = cbReq[u]
               /\ cbReq[u] # r
      BY <1>6, <2>2, ThreadFacts DEF Complete, StartCallback, TypeOK,
                                     OneHolder
    <3>3. \A u \in Threads : cbPc'[u] = "push" =>
            /\ cbReq'[u] \in Requests \ armed'
            /\ extraRefs'[cbReq'[u]] = 1
            /\ \A v \in Threads : cbPc'[v] = "push" /\ cbReq'[v] = cbReq'[u]
                                    => v = u
      BY <3>1, <3>2 DEF OneHolder
    <3>4. \A i \in 1 .. Len(queue) : queue[i] # r
      BY <2>2 DEF OneHolder
    <3>5. loopPc = "deliver" => loopReq # r
      BY <2>2 DEF OneHolder
    <3> QED
      BY <3>1, <3>2, <3>3, <3>4, <3>5 DEF OneHolder
  <2> QED
    BY <2>1, <2>2
<1>7. ASSUME NEW t \in Threads, Push(t) PROVE OneHolder'
  BY <1>7, HolderPush
<1>8. ASSUME NEW t \in Threads, Write(t) PROVE OneHolder'
  <2>1. \A u \in Threads : cbPc'[u] = "push" => /\ cbPc[u] = "push"
                                                /\ cbReq'[u] = cbReq[u]
    BY <1>8 DEF Write, TypeOK
  <2>2. /\ armed' = armed /\ queue' = queue /\ extraRefs' = extraRefs
        /\ loopPc' = loopPc /\ loopReq' = loopReq
    BY <1>8 DEF Write, driverVars, loopVars, taskVars
  <2> QED
    BY <2>1, <2>2 DEF OneHolder
<1>9. CASE Recv
  BY <1>9, HolderUnmoved DEF Recv, placeVars, driverVars, callbackVars,
                             taskVars
<1>10. CASE PopFront
  BY <1>10, HolderPop
<1>11. CASE FoundEmpty
  BY <1>11, HolderUnmoved DEF FoundEmpty, placeVars, driverVars,
                              channelVars, callbackVars, taskVars
<1>12. CASE Deliver
  <2>1. /\ loopReq \in Requests \ armed /\ extraRefs[loopReq] = 1
        /\ \A t \in Threads : cbPc[t] = "push" => cbReq[t] # loopReq
        /\ \A i \in 1 .. Len(queue) : queue[i] # loopReq
    BY <1>12 DEF Deliver, OneHolder
  <2>2. /\ extraRefs'[loopReq] = 0 /\ loopPc' = "drain"
        /\ \A x \in Requests \ {loopReq} : extraRefs'[x] = extraRefs[x]
        /\ armed' = armed /\ queue' = queue /\ cbPc' = cbPc /\ cbReq' = cbReq
    BY <1>12, <2>1 DEF Deliver, TypeOK, driverVars, channelVars, callbackVars
  <2>3. \A i \in 1 .. Len(queue) : queue[i] \in Requests \ {loopReq}
    BY <2>1 DEF TypeOK
  <2>4. /\ \A x \in Requests : extraRefs'[x] \in {0, 1}
        /\ \A x \in armed : extraRefs'[x] = 1
    BY <2>1, <2>2 DEF OneHolder, TypeOK
  <2>5. \A t \in Threads : cbPc[t] = "push" =>
          cbReq[t] \in Requests \ {loopReq} /\ extraRefs'[cbReq[t]] = 1
    BY <2>1, <2>2 DEF OneHolder
  <2>6. \A i \in 1 .. Len(queue) : extraRefs'[queue[i]] = 1
    BY <2>2, <2>3 DEF OneHolder
  <2> QED
    BY <2>2, <2>4, <2>5, <2>6 DEF OneHolder
<1>13. CASE Destroy
  BY <1>13, HolderUnmoved DEF Destroy, placeVars, driverVars, callbackVars,
                              loopVars, taskVars
<1>14. CASE UNCHANGED vars
  BY <1>14, HolderUnmoved DEF vars, placeVars, driverVars, channelVars,
                              callbackVars, loopVars, taskVars
<1> QED
  BY <1>1, <1>2, <1>3, <1>4, <1>5, <1>6, <1>7, <1>8, <1>9, <1>10, <1>11,
     <1>12, <1>13, <1>14 DEF Next, LoopStep

-----------------------------------------------------------------------------

\* Every step of CallbackBridge preserves NoLeak: a pointer that leaves one
\* place arrives at the next, until Py_DECREF.
LEMMA LeakStep ==
  TypeOK /\ ProgramOrder /\ OneHolder /\ NoLeak /\ [Next]_vars => NoLeak'
<1> SUFFICES ASSUME TypeOK, ProgramOrder, OneHolder, NoLeak, [Next]_vars,
                    NEW x \in Requests, extraRefs'[x] = 1
             PROVE  Held(x)'
  BY DEF NoLeak, Held
<1>0. extraRefs[x] = 1 => Held(x)
  BY DEF NoLeak, Held
<1>U. ASSUME UNCHANGED placeVars,
             loopPc = "deliver" => loopPc' = "deliver" /\ loopReq' = loopReq
      PROVE  Held(x)'
  BY <1>0, <1>U DEF Held, placeVars
<1>1. ASSUME NEW r \in Requests, Submit(r) PROVE Held(x)'
  BY <1>1, <1>U DEF Submit, LoopFree, placeVars, channelVars, callbackVars,
                    loopVars
<1>2. ASSUME NEW r \in Requests, Register(r) PROVE Held(x)'
  <2>1. CASE x = r
    BY <1>2, <2>1, ThreadFacts DEF Register, StartCallback, Held, TypeOK
  <2>2. CASE x # r
    <3>1. /\ extraRefs[x] = 1 /\ armed \subseteq armed' /\ queue' = queue
          /\ loopPc # "deliver"
      BY <1>2, <2>2 DEF Register, channelVars, callbackVars, TypeOK
    <3>2. \A t \in Threads : cbPc[t] = "push" => /\ cbPc'[t] = "push"
                                                 /\ cbReq'[t] = cbReq[t]
      BY <1>2 DEF Register, ProgramOrder, StartCallback, callbackVars, TypeOK
    <3> QED
      BY <1>0, <3>1, <3>2 DEF Held
  <2> QED
    BY <2>1, <2>2
<1>3. ASSUME NEW r \in Requests, RegisterError(r) PROVE Held(x)'
  BY <1>3, <1>U DEF RegisterError, placeVars, driverVars, channelVars,
                    callbackVars
<1>4. ASSUME NEW r \in Requests, Cancel(r) PROVE Held(x)'
  BY <1>4, <1>U DEF Cancel, placeVars, driverVars, channelVars,
                    callbackVars, loopVars
<1>5. ASSUME NEW r \in Requests, Resume(r) PROVE Held(x)'
  BY <1>5, <1>U DEF Resume, placeVars, driverVars, channelVars,
                    callbackVars, loopVars
<1>6. ASSUME NEW r \in Requests, NEW t \in IOThreads, Complete(t, r)
      PROVE  Held(x)'
  <2>1. CASE r \notin armed
    BY <1>6, <2>1, <1>U DEF Complete, placeVars, channelVars, callbackVars,
                            loopVars, taskVars
  <2>2. CASE r \in armed
    <3>1. /\ armed' = armed \ {r} /\ queue' = queue /\ extraRefs' = extraRefs
          /\ loopPc' = loopPc /\ loopReq' = loopReq
      BY <1>6, <2>2 DEF Complete, channelVars, loopVars, taskVars
    <3>2. /\ t \in Threads /\ cbPc'[t] = "push" /\ cbReq'[t] = r
          /\ \A u \in Threads : cbPc[u] = "push" => /\ cbPc'[u] = "push"
                                                    /\ cbReq'[u] = cbReq[u]
      BY <1>6, <2>2, ThreadFacts DEF Complete, StartCallback, TypeOK
    <3> QED
      BY <1>0, <3>1, <3>2 DEF Held
  <2> QED
    BY <2>1, <2>2
<1>7. ASSUME NEW t \in Threads, Push(t) PROVE Held(x)'
  <2>1. /\ queue' = Append(queue, cbReq[t]) /\ cbReq[t] \in Requests
        /\ queue \in Seq(Requests)
    BY <1>7 DEF Push, OneHolder, TypeOK
  <2>2. /\ Len(queue') = Len(queue) + 1 /\ Len(queue) \in Nat
        /\ queue'[Len(queue) + 1] = cbReq[t]
        /\ \A i \in 1 .. Len(queue) : queue'[i] = queue[i]
    BY <2>1, AppendProperties
  <2>3. /\ armed' = armed /\ extraRefs' = extraRefs
        /\ loopPc' = loopPc /\ loopReq' = loopReq /\ cbReq' = cbReq
        /\ \A u \in Threads : u # t => cbPc'[u] = cbPc[u]
    BY <1>7 DEF Push, driverVars, loopVars, taskVars, TypeOK
  <2>4. CASE cbReq[t] = x
    <3>1. Len(queue) + 1 \in 1 .. Len(queue')
      BY <2>2
    <3> QED
      BY <2>2, <2>4, <3>1 DEF Held
  <2>5. CASE cbReq[t] # x
    <3>1. \A i \in 1 .. Len(queue) : i \in 1 .. Len(queue')
      BY <2>2
    <3> QED
      BY <1>0, <2>2, <2>3, <2>5, <3>1 DEF Held
  <2> QED
    BY <2>4, <2>5
<1>8. ASSUME NEW t \in Threads, Write(t) PROVE Held(x)'
  <2>1. /\ armed' = armed /\ queue' = queue /\ extraRefs' = extraRefs
        /\ loopPc' = loopPc /\ loopReq' = loopReq
    BY <1>8 DEF Write, driverVars, loopVars, taskVars
  <2>2. \A u \in Threads : cbPc[u] = "push" => /\ cbPc'[u] = "push"
                                               /\ cbReq'[u] = cbReq[u]
    BY <1>8 DEF Write, TypeOK
  <2> QED
    BY <1>0, <2>1, <2>2 DEF Held
<1>9. CASE Recv
  BY <1>9, <1>U DEF Recv, LoopFree, placeVars, driverVars, callbackVars,
                    taskVars
<1>10. CASE PopFront
  <2>1. /\ queue # <<>> /\ queue \in Seq(Requests)
        /\ queue' = Tail(queue) /\ loopReq' = Head(queue)
        /\ loopPc = "drain" /\ loopPc' = "deliver"
    BY <1>10 DEF PopFront, TypeOK
  <2>2. /\ Len(queue) \in Nat /\ Len(queue') = Len(queue) - 1
        /\ \A i \in 1 .. Len(queue') : queue'[i] = queue[i + 1]
        /\ loopReq' = queue[1]
    BY <2>1, HeadTailProperties, EmptySeq, LenProperties
  <2>3. /\ armed' = armed /\ extraRefs' = extraRefs /\ cbPc' = cbPc
        /\ cbReq' = cbReq
    BY <1>10 DEF PopFront, driverVars, callbackVars, taskVars
  <2>4. ASSUME NEW i \in 1 .. Len(queue), queue[i] = x PROVE Held(x)'
    <3>1. CASE i = 1
      BY <2>1, <2>2, <2>4, <3>1 DEF Held
    <3>2. CASE i # 1
      <4>1. i - 1 \in 1 .. Len(queue') /\ (i - 1) + 1 = i
        BY <2>2, <3>2
      <4>2. queue'[i - 1] = x
        BY <2>2, <2>4, <4>1
      <4> QED
        BY <4>1, <4>2 DEF Held
    <3> QED
      BY <3>1, <3>2
  <2> QED
    BY <1>0, <2>1, <2>3, <2>4 DEF Held
<1>11. CASE FoundEmpty
  BY <1>11, <1>U DEF FoundEmpty, placeVars, driverVars, channelVars,
                     callbackVars, taskVars
<1>12. CASE Deliver
  <2>1. /\ extraRefs'[loopReq] = 0
        /\ \A y \in Requests \ {loopReq} : extraRefs'[y] = extraRefs[y]
        /\ armed' = armed /\ queue' = queue /\ cbPc' = cbPc /\ cbReq' = cbReq
    BY <1>12 DEF Deliver, OneHolder, TypeOK, driverVars, channelVars,
                 callbackVars
  <2>2. x # loopReq
    BY <2>1
  <2> QED
    BY <1>0, <2>1, <2>2 DEF Held
<1>13. CASE Destroy
  BY <1>13, <1>U DEF Destroy, placeVars, driverVars, callbackVars, loopVars,
                     taskVars
<1>14. CASE UNCHANGED vars
  BY <1>14, <1>U DEF vars, placeVars, driverVars, channelVars, callbackVars,
                     loopVars, taskVars
<1> QED
  BY <1>1, <1>2, <1>3, <1>4, <1>5, <1>6, <1>7, <1>8, <1>9, <1>10, <1>11,
     <1>12, <1>13, <1>14 DEF Next, LoopStep

-----------------------------------------------------------------------------
(* The order of events: answer, callback, asyncio future, task.            *)

\* Every step of CallbackBridge preserves AnswerFirst.
LEMMA AnswerStep ==
  TypeOK /\ ProgramOrder /\ OneHolder /\ AnswerFirst /\ [Next]_vars
    => AnswerFirst'
<1> SUFFICES ASSUME TypeOK, ProgramOrder, OneHolder, AnswerFirst, [Next]_vars
             PROVE  AnswerFirst'
  OBVIOUS
<1> USE DEF TypeOK, AnswerFirst
<1>1. ASSUME NEW r \in Requests, Submit(r) PROVE AnswerFirst'
  <2>1. cassFuture[r] = "none" /\ extraRefs[r] = 0 /\ r \notin armed
        /\ future[r] = "none"
    BY <1>1 DEF Submit, ProgramOrder, OneHolder
  <2>2. /\ cassFuture'[r] = "inflight" /\ task'[r] \in {"calling", "refused"}
        /\ \A q \in Requests \ {r} : cassFuture'[q] = cassFuture[q] /\ task'[q] = task[q]
        /\ UNCHANGED <<armed, future, extraRefs, freed>>
    BY <1>1 DEF Submit, channelVars, callbackVars
  <2>3. r \notin freed
    BY <1>1 DEF Submit
  <2>4. \A q \in armed : cassFuture'[q] = "inflight"
    BY <2>1, <2>2
  <2>5. \A q \in Requests : extraRefs[q] = 1 /\ q \notin armed => cassFuture'[q] = "set"
    BY <2>1, <2>2
  <2>6. \A q \in Requests :
          /\ future[q] = "finished" => cassFuture'[q] = "set"
          /\ task'[q] = "waiting" => future[q] \in {"pending", "finished"}
          /\ task'[q] = "returned" => cassFuture'[q] = "set"
    BY <2>1, <2>2
  <2>7. \A q \in freed : task'[q] \in {"returned", "cancelled"}
    BY <2>2, <2>3
  <2> QED
    BY <2>2, <2>4, <2>5, <2>6, <2>7
<1>2. ASSUME NEW r \in Requests, Register(r) PROVE AnswerFirst'
  <2>1. task[r] = "calling" /\ extraRefs[r] = 0 /\ cassFuture[r] # "none"
    BY <1>2 DEF Register, ProgramOrder
  <2>2. CASE cassFuture[r] = "set"
    BY <1>2, <2>1, <2>2 DEF Register, channelVars
  <2>3. CASE cassFuture[r] # "set"
    BY <1>2, <2>1, <2>3 DEF Register, callbackVars
  <2> QED
    BY <2>2, <2>3
<1>3. ASSUME NEW r \in Requests, RegisterError(r) PROVE AnswerFirst'
  BY <1>3 DEF RegisterError, ProgramOrder, driverVars
<1>4. ASSUME NEW r \in Requests, Cancel(r) PROVE AnswerFirst'
  BY <1>4 DEF Cancel, driverVars
<1>5. ASSUME NEW r \in Requests, Resume(r) PROVE AnswerFirst'
  BY <1>5 DEF Resume, driverVars
<1>6. ASSUME NEW r \in Requests, NEW t \in IOThreads, Complete(t, r)
      PROVE  AnswerFirst'
  BY <1>6 DEF Complete, OneHolder, taskVars
<1>7. ASSUME NEW t \in Threads, Push(t) PROVE AnswerFirst'
  BY <1>7 DEF Push, driverVars, taskVars
<1>8. ASSUME NEW t \in Threads, Write(t) PROVE AnswerFirst'
  BY <1>8 DEF Write, driverVars, taskVars
<1>9. CASE Recv
  BY <1>9 DEF Recv, driverVars, taskVars
<1>10. CASE PopFront
  BY <1>10 DEF PopFront, driverVars, taskVars
<1>11. CASE FoundEmpty
  BY <1>11 DEF FoundEmpty, driverVars, taskVars
<1>12. CASE Deliver
  <2>1. loopReq \in Requests /\ extraRefs[loopReq] = 1 /\ loopReq \notin armed
    BY <1>12 DEF Deliver, OneHolder
  <2> QED
    BY <1>12, <2>1 DEF Deliver, Settled, driverVars
<1>13. CASE Destroy
  BY <1>13 DEF Destroy, driverVars, taskVars
<1>14. CASE UNCHANGED vars
  BY <1>14 DEF vars, driverVars, taskVars
<1> QED
  BY <1>1, <1>2, <1>3, <1>4, <1>5, <1>6, <1>7, <1>8, <1>9, <1>10, <1>11,
     <1>12, <1>13, <1>14 DEF Next, LoopStep

-----------------------------------------------------------------------------
(* The theorems.                                                           *)

IInv == TypeOK /\ NoLostWakeup /\ ProgramOrder /\ OneHolder /\ NoLeak
        /\ AnswerFirst

\* The inductive invariant holds of every reachable state.
THEOREM Inductive == SafeSpec => []IInv
<1>1. Init => IInv
  <2> SUFFICES ASSUME Init PROVE IInv
    OBVIOUS
  <2>1. TypeOK
    BY CapIsNat DEF Init, TypeOK
  <2>2. NoLostWakeup /\ ProgramOrder /\ AnswerFirst
    BY DEF Init, NoLostWakeup, ProgramOrder, AnswerFirst, Threads
  <2>3. OneHolder /\ NoLeak
    BY DEF Init, OneHolder, NoLeak, Held, Threads
  <2> QED
    BY <2>1, <2>2, <2>3 DEF IInv
<1>2. IInv /\ [Next]_vars => IInv'
  BY TypeStep, WakeupStep, OrderStep, HolderStep, LeakStep, AnswerStep DEF IInv
<1> QED
  BY <1>1, <1>2, PTL DEF SafeSpec

\* Every variable stays within its range, the socket within its capacity.
THEOREM TypeCorrect == SafeSpec => []TypeOK
<1>1. IInv => TypeOK
  BY DEF IInv
<1> QED
  BY <1>1, Inductive, PTL

\* The loop is never left asleep with a wrapper on the queue.
THEOREM WakeupsAreKept == SafeSpec => []NoLostWakeup
<1>1. IInv => NoLostWakeup
  BY DEF IInv
<1> QED
  BY <1>1, Inductive, PTL

\* A task returns only with a CassFuture that is set.
THEOREM ResultsAreReady == SafeSpec => []ResultIsReady
<1>1. IInv => ResultIsReady
  BY DEF IInv, AnswerFirst, ResultIsReady
<1> QED
  BY <1>1, Inductive, PTL

\* No asyncio future is settled twice.
THEOREM FuturesSettleOnce == SafeSpec => SettlesOnce
<1> DEFINE Once == \A r \in Requests : future[r] \in {"finished", "cancelled"}
                                         => future'[r] = future[r]
<1>1. IInv /\ [Next]_vars => [Once]_vars
  <2> SUFFICES ASSUME IInv, Next
               PROVE  Once
    OBVIOUS
  <2> USE DEF IInv, TypeOK
  <2>1. ASSUME NEW r \in Requests,
               Submit(r) \/ Resume(r) \/ (\E t \in IOThreads : Complete(t, r))
        PROVE  Once
    BY <2>1 DEF Submit, Resume, Complete, taskVars
  <2>2. ASSUME NEW r \in Requests, Register(r) \/ RegisterError(r) PROVE Once
    <3>1. future[r] = "none"
      BY <2>2 DEF Register, RegisterError, ProgramOrder
    <3> QED
      BY <2>2, <3>1 DEF Register, RegisterError
  <2>3. ASSUME NEW r \in Requests, Cancel(r) PROVE Once
    BY <2>3 DEF Cancel
  <2>4. ASSUME NEW t \in Threads, Push(t) \/ Write(t) PROVE Once
    BY <2>4 DEF Push, Write, taskVars
  <2>5. CASE Deliver
    BY <2>5 DEF Deliver, Settled, OneHolder
  <2>6. CASE Recv \/ PopFront \/ FoundEmpty \/ Destroy
    BY <2>6 DEF Recv, PopFront, FoundEmpty, Destroy, taskVars
  <2> QED
    BY <2>1, <2>2, <2>3, <2>4, <2>5, <2>6 DEF Next, LoopStep
<1> QED
  BY <1>1, Inductive, PTL DEF SafeSpec, SettlesOnce

\* One reference for one place: extraRefs counts the places of the pointer.
THEOREM ReferencesBalance == SafeSpec => []RefPerPlace
<1>1. ASSUME IInv, NEW r \in Requests
      PROVE  extraRefs[r] = Cardinality(Places(r))
  <2> USE <1>1 DEF IInv
  <2> DEFINE D == {<<"CassFuture", r>> : x \in armed \cap {r}}
             C == {<<"container", t>> : t \in {u \in Threads :
                                          cbPc[u] = "push" /\ cbReq[u] = r}}
             Q == {<<"queue", i>> : i \in {j \in 1 .. Len(queue) :
                                             queue[j] = r}}
             H == {<<"handler", r>> : x \in {y \in {loopReq} :
                                          loopPc = "deliver" /\ y = r}}
  <2>0. Places(r) = D \cup C \cup Q \cup H
    BY DEF Places
  <2>1. ~(r \in armed) => D = {}
    OBVIOUS
  <2>2. ~(\E t \in Threads : cbPc[t] = "push" /\ cbReq[t] = r) => C = {}
    OBVIOUS
  <2>3. ~(\E i \in 1 .. Len(queue) : queue[i] = r) => Q = {}
    OBVIOUS
  <2>4. ~(loopPc = "deliver" /\ loopReq = r) => H = {}
    OBVIOUS
  <2> HIDE DEF D, C, Q, H
  <2>5. CASE ~Held(r)
    <3>1. Places(r) = {}
      BY <2>0, <2>1, <2>2, <2>3, <2>4, <2>5 DEF Held
    <3>2. extraRefs[r] = 0
      BY <2>5 DEF NoLeak, OneHolder
    <3> QED
      BY <3>1, <3>2, FS_EmptySet
  <2>6. CASE Held(r)
    <3>1. extraRefs[r] = 1
      BY <2>6 DEF Held, OneHolder
    <3>2. \E p : Places(r) = {p}
      <4>1. CASE r \in armed
        <5>1. D = {<<"CassFuture", r>>}
          BY <4>1 DEF D
        <5>2. C = {} /\ Q = {} /\ H = {}
          BY <4>1, <2>2, <2>3, <2>4 DEF OneHolder
        <5> QED
          BY <2>0, <5>1, <5>2
      <4>2. ASSUME NEW t \in Threads, cbPc[t] = "push", cbReq[t] = r
            PROVE  \E p : Places(r) = {p}
        <5>1. \A u \in Threads : cbPc[u] = "push" /\ cbReq[u] = r => u = t
          BY <4>2 DEF OneHolder
        <5>2. C = {<<"container", t>>}
          BY <4>2, <5>1 DEF C
        <5>3. D = {} /\ Q = {} /\ H = {}
          BY <4>2, <2>1, <2>3, <2>4 DEF OneHolder
        <5> QED
          BY <2>0, <5>2, <5>3
      <4>3. ASSUME NEW i \in 1 .. Len(queue), queue[i] = r
            PROVE  \E p : Places(r) = {p}
        <5>1. \A j \in 1 .. Len(queue) : queue[j] = r => j = i
          BY <4>3 DEF OneHolder
        <5>2. Q = {<<"queue", i>>}
          BY <4>3, <5>1 DEF Q
        <5>3. D = {} /\ C = {} /\ H = {}
          BY <4>3, <2>1, <2>2, <2>4 DEF OneHolder
        <5> QED
          BY <2>0, <5>2, <5>3
      <4>4. CASE loopPc = "deliver" /\ loopReq = r
        <5>1. H = {<<"handler", r>>}
          BY <4>4 DEF H
        <5>2. D = {} /\ C = {} /\ Q = {}
          BY <4>4, <2>1, <2>2, <2>3 DEF OneHolder
        <5> QED
          BY <2>0, <5>1, <5>2
      <4> QED
        BY <2>6, <4>1, <4>2, <4>3, <4>4 DEF Held
    <3> QED
      BY <3>1, <3>2, FS_Singleton
  <2> QED
    BY <2>5, <2>6
<1>2. IInv => RefPerPlace
  BY <1>1 DEF RefPerPlace
<1> QED
  BY <1>2, Inductive, PTL

-----------------------------------------------------------------------------
(* The bridge implements DriverCall.                                       *)

\* What one step does to the calls, seen from DriverCall.
LEMMA MoveOne ==
  ASSUME NEW r \in Requests, NEW from, NEW to,
         CallOf(r) \in from, CallOf(r)' = to,
         \A x \in Requests \ {r} : CallOf(x)' = CallOf(x)
  PROVE  Call!Move(r, from, to)
<1>1. calls[r] \in from
  BY DEF calls
<1>2. calls' = [calls EXCEPT ![r] = to]
  BY DEF calls
<1> QED
  BY <1>1, <1>2 DEF Call!Move

LEMMA SameCalls ==
  ASSUME task' = task, cassFuture' = cassFuture
  PROVE  calls' = calls
BY DEF calls, CallOf

\* Every step of the bridge is a step of one call, or of none.
LEMMA StepRefines == IInv /\ [Next]_vars => [Call!Next]_calls
<1> SUFFICES ASSUME IInv, [Next]_vars
             PROVE  Call!Next \/ UNCHANGED calls
  OBVIOUS
<1> USE DEF IInv, TypeOK
<1>1. ASSUME NEW r \in Requests, Submit(r) PROVE Call!Next
  <2>1. CallOf(r) = "idle" /\ CallOf(r)' \in {"outstanding", "refused"}
    BY <1>1 DEF Submit, CallOf
  <2>2. \A x \in Requests \ {r} : CallOf(x)' = CallOf(x)
    BY <1>1 DEF Submit, CallOf
  <2>3. CASE CallOf(r)' = "outstanding"
    <3>1. Call!Issue(r)
      BY <2>1, <2>2, <2>3, MoveOne DEF Call!Issue
    <3> QED
      BY <3>1 DEF Call!Next
  <2>4. CASE CallOf(r)' = "refused"
    <3>1. Call!Refuse(r)
      BY <2>1, <2>2, <2>4, MoveOne DEF Call!Refuse
    <3> QED
      BY <3>1 DEF Call!Next
  <2> QED
    BY <2>1, <2>3, <2>4
<1>2. ASSUME NEW r \in Requests, Register(r) PROVE UNCHANGED calls
  <2>1. \A x \in Requests : CallOf(x)' = CallOf(x)
    BY <1>2 DEF Register, ProgramOrder, CallOf
  <2> QED
    BY <2>1 DEF calls
<1>3. ASSUME NEW r \in Requests, RegisterError(r) PROVE Call!Next
  <2>1. CallOf(r) \in {"outstanding", "answered"} /\ CallOf(r)' = "refused"
    BY <1>3 DEF RegisterError, ProgramOrder, CallOf
  <2>2. \A x \in Requests \ {r} : CallOf(x)' = CallOf(x)
    BY <1>3 DEF RegisterError, driverVars, CallOf
  <2>3. Call!Refuse(r)
    BY <2>1, <2>2, MoveOne DEF Call!Refuse
  <2> QED
    BY <2>3 DEF Call!Next
<1>4. ASSUME NEW r \in Requests, Cancel(r) PROVE UNCHANGED calls
  <2>1. \A x \in Requests : CallOf(x)' = CallOf(x)
    BY <1>4 DEF Cancel, driverVars, CallOf
  <2> QED
    BY <2>1 DEF calls
<1>5. ASSUME NEW r \in Requests, Resume(r) PROVE Call!Next
  <2>1. \A x \in Requests \ {r} : CallOf(x)' = CallOf(x)
    BY <1>5 DEF Resume, driverVars, CallOf
  <2>2. CASE task[r] = "waiting"
    <3>1. cassFuture[r] = "set"
      BY <1>5, <2>2 DEF Resume, AnswerFirst
    <3>2. CallOf(r) = "answered" /\ CallOf(r)' = "returned"
      BY <1>5, <2>2, <3>1 DEF Resume, CallOf
    <3>3. Call!Return(r)
      BY <2>1, <3>2, MoveOne DEF Call!Return
    <3> QED
      BY <3>3 DEF Call!Next
  <2>3. CASE task[r] = "cancelling"
    <3>1. CallOf(r) \in {"outstanding", "answered"} /\ CallOf(r)' = "cancelled"
      BY <1>5, <2>3 DEF Resume, CallOf
    <3>2. Call!Abandon(r)
      BY <2>1, <3>1, MoveOne DEF Call!Abandon
    <3> QED
      BY <3>2 DEF Call!Next
  <2> QED
    BY <1>5, <2>2, <2>3 DEF Resume
<1>6. ASSUME NEW r \in Requests, NEW t \in IOThreads, Complete(t, r)
      PROVE  Call!Next \/ UNCHANGED calls
  <2>1. \A x \in Requests \ {r} : CallOf(x)' = CallOf(x)
    BY <1>6 DEF Complete, taskVars, CallOf
  <2>2. CASE task[r] \in {"calling", "waiting", "cancelling"}
    <3>1. CallOf(r) = "outstanding" /\ CallOf(r)' = "answered"
      BY <1>6, <2>2 DEF Complete, taskVars, CallOf
    <3>2. Call!Answer(r)
      BY <2>1, <3>1, MoveOne DEF Call!Answer
    <3> QED
      BY <3>2 DEF Call!Next
  <2>3. CASE task[r] \notin {"calling", "waiting", "cancelling"}
    <3>1. CallOf(r)' = CallOf(r)
      BY <1>6, <2>3 DEF Complete, taskVars, CallOf
    <3> QED
      BY <2>1, <3>1 DEF calls
  <2> QED
    BY <2>2, <2>3
<1>7. ASSUME NEW t \in Threads, Push(t) \/ Write(t) PROVE UNCHANGED calls
  BY <1>7, SameCalls DEF Push, Write, driverVars, taskVars
<1>8. CASE Recv \/ PopFront \/ FoundEmpty \/ Deliver \/ Destroy
  BY <1>8, SameCalls DEF Recv, PopFront, FoundEmpty, Deliver, Destroy,
                         driverVars, taskVars
<1>9. CASE UNCHANGED vars
  BY <1>9, SameCalls DEF vars, driverVars, taskVars
<1> QED
  BY <1>1, <1>2, <1>3, <1>4, <1>5, <1>6, <1>7, <1>8, <1>9 DEF Next, LoopStep

\* Threads, queue, socket and handler together behave like calls that are
\* issued, answered and only then returned from.
THEOREM BridgeRefinesCall == SafeSpec => ImplementsCall
<1>1. Init => Call!Init
  BY DEF Init, Call!Init, calls, CallOf
<1> QED
  BY <1>1, StepRefines, Inductive, PTL DEF SafeSpec, ImplementsCall,
                                           Call!SafeSpec
=============================================================================
