-------------------------- MODULE HostEvents_proofs --------------------------
(***************************************************************************)
(* HostListener._handle_message needs no test for an empty queue, and the  *)
(* callback sees what it should when it should, for any number of          *)
(* sessions, events and bytes.                                             *)
(***************************************************************************)
EXTENDS HostEvents, FiniteSetTheorems, TLAPS

Writers == {s \in Sessions : pc[s] = "write"}

\* Every byte, in the socket or about to be there, has its message, and so has
\* the byte that _handle_message has just received.
MessagePerByte ==
  open => Len(queue) >= bytes + Cardinality(Writers) + IF popping THEN 1 ELSE 0

IInv == TypeOK /\ MessagePerByte /\ (popping => open /\ todo > 0)

-----------------------------------------------------------------------------

LEMMA ConstantFacts ==
  SocketCap \in Nat /\ IsFiniteSet(Sessions)
BY HostAssumption DEF HostAssumption

LEMMA WritersCount == IsFiniteSet(Writers) /\ Cardinality(Writers) \in Nat
<1>1. Writers \subseteq Sessions
  BY DEF Writers
<1> QED
  BY <1>1, ConstantFacts, FS_Subset, FS_CardinalityType

\* Sessions' threads, and what they share with the loop.
DriverTypeOK ==
  /\ queue \in Seq(Events) /\ bytes \in 0 .. SocketCap /\ wakeups \in Nat
  /\ pc \in [Sessions -> {"idle", "push", "write"}]
  /\ said \in [Sessions -> Nat]
  /\ connect \in [Sessions -> {"new", "connecting", "answered", "created"}]
  /\ answers \in Seq(Sessions)

\* What is the loop's own.
LoopTypeOK ==
  /\ reported \in Seq(Events)
  /\ ready \in Seq(Sessions \cup {Listener, Bridge})
  /\ todo \in 0 .. Len(ready)

LEMMA TypeParts ==
  TypeOK <=> DriverTypeOK /\ LoopTypeOK /\ popping \in BOOLEAN /\ open \in BOOLEAN
BY DEF TypeOK, DriverTypeOK, LoopTypeOK

\* The handle that has run leaves the ready queue.
LEMMA RanType ==
  ASSUME LoopTypeOK, Ran, todo > 0
  PROVE  /\ ready' \in Seq(Sessions \cup {Listener, Bridge})
         /\ todo' \in 0 .. Len(ready')
BY DEF LoopTypeOK, Ran

\* Readers that are ready together, in one order.
LEMMA OrdersType == Orders \subseteq Seq({Listener, Bridge})
<1>1. Readable \subseteq {Listener, Bridge}
  BY DEF Readable
<1>2. IsFiniteSet({Listener, Bridge})
  <2>1. IsFiniteSet({Listener})
    BY FS_Singleton
  <2>2. {Listener, Bridge} = {Listener} \cup {Bridge}
    OBVIOUS
  <2> QED
    BY <2>1, <2>2, FS_AddElement
<1>3. Cardinality(Readable) \in Nat
  <2>1. IsFiniteSet(Readable)
    BY <1>1, <1>2, FS_Subset
  <2> QED
    BY <2>1, FS_CardinalityType
<1> DEFINE n == Cardinality(Readable)
<1>4. ASSUME NEW o \in Orders PROVE o \in Seq({Listener, Bridge})
  <2>1. o \in [1 .. n -> {Listener, Bridge}]
    BY <1>1 DEF Orders
  <2> HIDE DEF n
  <2> QED
    BY <1>3, <2>1 DEF n
<1> QED
  BY <1>4

LEMMA DriverTypeInv ==
  TypeOK /\ NeverPopsEmpty /\ [Next]_vars => DriverTypeOK'
<1> SUFFICES ASSUME TypeOK, NeverPopsEmpty, [Next]_vars PROVE DriverTypeOK'
  OBVIOUS
<1>0. DriverTypeOK /\ open \in BOOLEAN /\ popping \in BOOLEAN
  BY TypeParts
<1> USE <1>0, ConstantFacts DEF DriverTypeOK, driverVars, bridgeVars, loopVars
<1>1. ASSUME NEW s \in Sessions, Announce(s) PROVE DriverTypeOK'
  BY <1>1 DEF Announce
<1>2. ASSUME NEW s \in Sessions, Write(s) PROVE DriverTypeOK'
  BY <1>2 DEF Write
<1>3. ASSUME NEW s \in Sessions, CreateSession(s) PROVE DriverTypeOK'
  BY <1>3 DEF CreateSession
<1>4. ASSUME NEW s \in Sessions, Push(s) PROVE DriverTypeOK'
  <2>1. <<s, said[s]>> \in Events
    BY DEF Events
  <2> QED
    BY <1>4, <2>1 DEF Push
<1>5. ASSUME NEW s \in Sessions, Connected(s) PROVE DriverTypeOK'
  BY <1>5 DEF Connected
<1>6. ASSUME NEW s \in Sessions, ResumeTask(s) PROVE DriverTypeOK'
  BY <1>6 DEF ResumeTask
<1>7. CASE HandleMessage
  BY <1>7 DEF HandleMessage, NeverPopsEmpty
<1>8. CASE Recv
  BY <1>8 DEF Recv
<1>9. CASE HandleEvents
  BY <1>9 DEF HandleEvents
<1>10. CASE Poll \/ SkipCancelled
  BY <1>10 DEF Poll, SkipCancelled
<1>11. CASE Destroy
  BY <1>11 DEF Destroy
<1>12. CASE UNCHANGED vars
  BY <1>12 DEF vars
<1> HIDE DEF DriverTypeOK
<1> QED
  BY <1>1, <1>2, <1>3, <1>4, <1>5, <1>6, <1>7, <1>8, <1>9, <1>10, <1>11,
     <1>12 DEF Next, LoopStep

LEMMA LoopTypeInv ==
  TypeOK /\ NeverPopsEmpty /\ (popping => todo > 0) /\ [Next]_vars
    => LoopTypeOK' /\ popping' \in BOOLEAN /\ open' \in BOOLEAN
<1> DEFINE Goal == LoopTypeOK' /\ popping' \in BOOLEAN /\ open' \in BOOLEAN
<1> SUFFICES ASSUME TypeOK, NeverPopsEmpty, popping => todo > 0, [Next]_vars
             PROVE  Goal
  OBVIOUS
<1>0. /\ LoopTypeOK /\ open \in BOOLEAN /\ popping \in BOOLEAN
      /\ queue \in Seq(Events) /\ answers \in Seq(Sessions)
  BY DEF TypeOK, LoopTypeOK
<1> USE <1>0 DEF driverVars, bridgeVars, loopVars
<1>1. ASSUME UNCHANGED loopVars, UNCHANGED <<reported, open>> PROVE Goal
  BY <1>1 DEF LoopTypeOK
<1>2. CASE Poll
  <2>1. PICK o \in Orders : ready' = ready \o o /\ todo' = Len(ready \o o)
    BY <1>2 DEF Poll
  <2>2. o \in Seq(Sessions \cup {Listener, Bridge})
    BY <2>1, OrdersType
  <2>3. /\ ready' \in Seq(Sessions \cup {Listener, Bridge})
        /\ todo' \in 0 .. Len(ready')
    BY <2>1, <2>2 DEF LoopTypeOK
  <2>4. reported' = reported /\ popping' = popping /\ open' = open
    BY <1>2 DEF Poll
  <2>5. LoopTypeOK'
    BY <2>3, <2>4 DEF LoopTypeOK
  <2>6. popping' \in BOOLEAN
    BY <2>4, <1>0, Zenon
  <2>7. open' \in BOOLEAN
    BY <2>4, <1>0, Zenon
  <2> QED
    BY <2>5, <2>6, <2>7, Zenon
<1>3. CASE Recv
  BY <1>3 DEF Recv, LoopTypeOK
<1>4. CASE HandleMessage
  <2>1. Head(queue) \in Events /\ todo > 0
    BY <1>4 DEF HandleMessage, NeverPopsEmpty
  <2>2. /\ ready' \in Seq(Sessions \cup {Listener, Bridge})
        /\ todo' \in 0 .. Len(ready')
    BY <1>0, <1>4, <2>1, RanType, Zenon DEF HandleMessage
  <2>3. reported' \in Seq(Events)
    BY <1>4, <2>1 DEF HandleMessage, LoopTypeOK
  <2>4. popping' = FALSE /\ open' = open
    BY <1>4 DEF HandleMessage
  <2>5. LoopTypeOK'
    BY <2>2, <2>3 DEF LoopTypeOK
  <2>6. popping' \in BOOLEAN /\ open' \in BOOLEAN
    BY <2>4, <1>0, Zenon
  <2> QED
    BY <2>5, <2>6, Zenon
<1>5. CASE HandleEvents
  <2>1. todo \in Nat /\ todo > 0 /\ todo <= Len(ready)
        /\ ready \in Seq(Sessions \cup {Listener, Bridge})
        /\ answers \in Seq(Sessions \cup {Listener, Bridge})
    BY <1>5 DEF HandleEvents, Running, LoopTypeOK
  <2>2. /\ ready' \in Seq(Sessions \cup {Listener, Bridge})
        /\ todo' \in 0 .. Len(ready')
    BY <1>5, <2>1 DEF HandleEvents
  <2> QED
    BY <1>5, <2>2 DEF HandleEvents, LoopTypeOK
<1>6. ASSUME NEW s \in Sessions, ResumeTask(s) PROVE Goal
  BY <1>6, RanType DEF ResumeTask, Running, LoopTypeOK
<1>7. CASE SkipCancelled
  BY <1>7, RanType DEF SkipCancelled, Running, LoopTypeOK
<1>8. CASE Destroy
  BY <1>8 DEF Destroy, LoopTypeOK
<1>9. ASSUME NEW s \in Sessions,
             \/ Announce(s) \/ Push(s) \/ Write(s)
             \/ Connected(s) \/ CreateSession(s)
      PROVE Goal
  BY <1>1, <1>9 DEF Announce, Push, Write, Connected, CreateSession
<1>10. CASE UNCHANGED vars
  BY <1>1, <1>10 DEF vars
<1> HIDE DEF Goal
<1> QED
  BY <1>2, <1>3, <1>4, <1>5, <1>6, <1>7, <1>8, <1>9, <1>10 DEF Next, LoopStep

\* What the byte count needs to know of a step that is not Push or Write.
LEMMA SameWriters ==
  ASSUME pc' = pc PROVE Writers' = Writers
BY DEF Writers

LEMMA BytesInv ==
  IInv /\ [Next]_vars => MessagePerByte' /\ (popping' => open' /\ todo' > 0)
<1> DEFINE Goal == MessagePerByte' /\ (popping' => open' /\ todo' > 0)
<1> SUFFICES ASSUME IInv, [Next]_vars PROVE Goal
  OBVIOUS
<1>0. /\ Len(queue) \in Nat /\ bytes \in Nat
      /\ Cardinality(Writers) \in Nat /\ IsFiniteSet(Writers)
      /\ MessagePerByte
      /\ popping => open /\ todo > 0
  BY WritersCount, ConstantFacts DEF IInv, TypeOK
<1> USE DEF MessagePerByte, driverVars, bridgeVars, loopVars
<1>1. ASSUME Writers' = Writers, queue' = queue, bytes' = bytes,
             popping' = popping, open' = open, todo' = todo
      PROVE  Goal
  BY <1>0, <1>1
<1>2. ASSUME NEW s \in Sessions,
             Announce(s) \/ Connected(s) \/ CreateSession(s)
      PROVE  Goal
  <2>1. Writers' = Writers
    BY <1>2 DEF Writers, Announce, Connected, CreateSession, IInv, TypeOK
  <2> QED
    BY <1>1, <1>2, <2>1 DEF Announce, Connected, CreateSession
<1>3. ASSUME NEW s \in Sessions, Push(s) PROVE Goal
  <2>1. Writers' = Writers \cup {s} /\ s \notin Writers
    BY <1>3 DEF Push, Writers, IInv, TypeOK
  <2>2. Cardinality(Writers') = Cardinality(Writers) + 1
    BY <1>0, <2>1, FS_AddElement
  <2>3. Len(queue') = Len(queue) + 1
    BY <1>3 DEF Push, IInv, TypeOK
  <2>4. bytes' = bytes /\ popping' = popping /\ open' = open /\ todo' = todo
    BY <1>3 DEF Push
  <2> QED
    BY <1>0, <2>2, <2>3, <2>4
<1>4. ASSUME NEW s \in Sessions, Write(s) PROVE Goal
  <2>1. Writers' = Writers \ {s} /\ s \in Writers
    BY <1>4 DEF Write, Writers, IInv, TypeOK
  <2>2. Cardinality(Writers') = Cardinality(Writers) - 1
    BY <1>0, <2>1, FS_RemoveElement
  <2>3. /\ queue' = queue /\ popping' = popping /\ open' = open /\ todo' = todo
        /\ open => bytes' = bytes + 1
    BY <1>4 DEF Write
  <2> QED
    BY <1>0, <2>2, <2>3
<1>5. CASE Recv
  <2>1. Writers' = Writers
    BY <1>5, SameWriters DEF Recv
  <2>2. /\ queue' = queue /\ bytes' = bytes - 1 /\ open' /\ popping' /\ ~popping
        /\ todo' = todo /\ todo > 0 /\ open
    BY <1>5 DEF Recv, Running
  <2> QED
    BY <1>0, <2>1, <2>2
<1>6. CASE HandleMessage
  <2>1. Writers' = Writers
    BY <1>6, SameWriters DEF HandleMessage
  <2>2. queue # <<>>
    BY <1>0, <1>6 DEF HandleMessage, IInv, TypeOK
  <2>3. Len(queue') = Len(queue) - 1
    BY <1>6, <2>2 DEF HandleMessage, IInv, TypeOK
  <2>4. bytes' = bytes /\ popping /\ popping' = FALSE /\ open' = open
    BY <1>6 DEF HandleMessage
  <2> QED
    BY <1>0, <2>1, <2>3, <2>4
<1>7. ASSUME NEW s \in Sessions, ResumeTask(s) PROVE Goal
  <2>1. Writers' = Writers
    BY <1>7, SameWriters DEF ResumeTask
  <2>2. queue' = queue /\ bytes' = bytes /\ popping' = popping /\ open' = open
        /\ ~popping
    BY <1>7 DEF ResumeTask, Running
  <2> QED
    BY <1>0, <2>1, <2>2
<1>8. CASE HandleEvents \/ SkipCancelled
  <2>1. Writers' = Writers
    BY <1>8, SameWriters DEF HandleEvents, SkipCancelled
  <2>2. queue' = queue /\ bytes' = bytes /\ popping' = popping /\ open' = open
        /\ ~popping
    BY <1>8 DEF HandleEvents, SkipCancelled, Running
  <2> QED
    BY <1>0, <2>1, <2>2
<1>9. CASE Poll
  <2>1. Writers' = Writers
    BY <1>9, SameWriters DEF Poll
  <2>2. /\ queue' = queue /\ bytes' = bytes /\ popping' = popping /\ open' = open
        /\ todo = 0
    BY <1>9 DEF Poll
  <2> QED
    BY <1>0, <2>1, <2>2
<1>10. CASE Destroy
  BY <1>10 DEF Destroy
<1>11. CASE UNCHANGED vars
  BY <1>1, <1>11, SameWriters DEF vars
<1> HIDE DEF Goal
<1> QED
  BY <1>2, <1>3, <1>4, <1>5, <1>6, <1>7, <1>8, <1>9, <1>10, <1>11 DEF IInv, Next, LoopStep

LEMMA InvFacts == IInv => NeverPopsEmpty /\ (popping => todo > 0)
<1> SUFFICES ASSUME IInv, popping PROVE queue # <<>> /\ todo > 0
  BY DEF NeverPopsEmpty
<1>1. /\ Len(queue) >= bytes + Cardinality(Writers) + 1
      /\ bytes \in Nat /\ Cardinality(Writers) \in Nat
  BY WritersCount, ConstantFacts DEF IInv, MessagePerByte, TypeOK
<1> QED
  BY <1>1 DEF IInv

THEOREM Inductive == SafeSpec => []IInv
<1>1. Init => IInv
  <2> SUFFICES ASSUME Init PROVE IInv
    OBVIOUS
  <2>1. TypeOK
    <3>1. DriverTypeOK
      BY ConstantFacts DEF Init, DriverTypeOK
    <3>2. LoopTypeOK
      <4>1. Len(ready) = 0 /\ 0 \in 0 .. 0
        BY DEF Init
      <4> QED
        BY <4>1 DEF Init, LoopTypeOK
    <3>3. popping \in BOOLEAN /\ open \in BOOLEAN
      BY Zenon DEF Init
    <3> QED
      BY <3>1, <3>2, <3>3, TypeParts, Zenon
  <2>2. Writers = {} /\ Cardinality(Writers) = 0
    BY FS_EmptySet DEF Init, Writers
  <2> QED
    BY <2>1, <2>2 DEF Init, IInv, MessagePerByte
<1>2. IInv /\ [Next]_vars => IInv'
  <2> SUFFICES ASSUME IInv, [Next]_vars PROVE IInv'
    OBVIOUS
  <2>1. TypeOK'
    <3>1. TypeOK /\ NeverPopsEmpty /\ (popping => todo > 0)
      BY InvFacts DEF IInv
    <3>2. DriverTypeOK' /\ LoopTypeOK' /\ popping' \in BOOLEAN /\ open' \in BOOLEAN
      BY <3>1, DriverTypeInv, LoopTypeInv
    <3> QED
      BY <3>2 DEF TypeOK, DriverTypeOK, LoopTypeOK
  <2> QED
    BY <2>1, BytesInv DEF IInv
<1> QED
  BY <1>1, <1>2, PTL DEF SafeSpec

\* Type correctness of the listener.
THEOREM TypeCorrect == SafeSpec => []TypeOK
<1>1. IInv => TypeOK
  BY DEF IInv
<1> QED
  BY <1>1, Inductive, PTL

\* HostListener._handle_message never pops an empty queue.
THEOREM PopsOnlyMessages == SafeSpec => []NeverPopsEmpty
BY InvFacts, Inductive, PTL

-----------------------------------------------------------------------------
(* The order of the events of a session.                                   *)

Ordered(q) ==
  \A i, j \in 1 .. Len(q) : i < j /\ q[i][1] = q[j][1] => q[i][2] < q[j][2]

\* The events in q are none that their sessions have yet to push.
Pushed(q) ==
  \A i \in 1 .. Len(q) : /\ q[i][2] <= said[q[i][1]]
                         /\ pc[q[i][1]] = "push" => q[i][2] < said[q[i][1]]

\* Reported events, then the queued ones, then the one that is being pushed.
OrderInv ==
  /\ Ordered(queue) /\ Ordered(reported)
  /\ \A i \in 1 .. Len(reported), j \in 1 .. Len(queue) :
       reported[i][1] = queue[j][1] => reported[i][2] < queue[j][2]
  /\ Pushed(queue) /\ Pushed(reported)

\* The events of a sequence of them.
LEMMA EventsOf ==
  ASSUME NEW q \in Seq(Events), NEW i \in 1 .. Len(q)
  PROVE  q[i][1] \in Sessions /\ q[i][2] \in Nat
BY DEF Events

LEMMA OrderStep == IInv /\ OrderInv /\ [Next]_vars => OrderInv'
<1> SUFFICES ASSUME IInv, OrderInv, [Next]_vars PROVE OrderInv'
  OBVIOUS
<1>0. /\ queue \in Seq(Events) /\ reported \in Seq(Events)
      /\ pc \in [Sessions -> {"idle", "push", "write"}] /\ said \in [Sessions -> Nat]
      /\ popping => queue # <<>>
  BY InvFacts DEF IInv, TypeOK, NeverPopsEmpty
<1> USE <1>0
<1>1. ASSUME NEW s \in Sessions, Announce(s) PROVE OrderInv'
  <2>1. /\ queue' = queue /\ reported' = reported
        /\ said' = [said EXCEPT ![s] = @ + 1] /\ pc' = [pc EXCEPT ![s] = "push"]
    BY <1>1 DEF Announce
  <2>2. ASSUME NEW q \in Seq(Events), Pushed(q), q' = q PROVE Pushed(q)'
    BY <2>1, <2>2, EventsOf DEF Pushed
  <2> QED
    BY <2>1, <2>2 DEF OrderInv, Ordered
<1>2. ASSUME NEW s \in Sessions, Push(s) PROVE OrderInv'
  <2>1. /\ queue' = Append(queue, <<s, said[s]>>) /\ reported' = reported
        /\ said' = said /\ pc' = [pc EXCEPT ![s] = "write"] /\ pc[s] = "push"
    BY <1>2 DEF Push
  <2>2. /\ Len(queue') = Len(queue) + 1 /\ queue'[Len(queue')] = <<s, said[s]>>
        /\ \A i \in 1 .. Len(queue) : queue'[i] = queue[i]
    BY <2>1
  <2>3. \A i \in 1 .. Len(queue') :
          \/ i \in 1 .. Len(queue) /\ queue'[i] = queue[i]
          \/ i = Len(queue') /\ queue'[i] = <<s, said[s]>>
    BY <2>2
  <2>4. /\ \A i \in 1 .. Len(queue) : queue[i][1] = s => queue[i][2] < said[s]
        /\ \A i \in 1 .. Len(reported) : reported[i][1] = s => reported[i][2] < said[s]
    BY <2>1 DEF OrderInv, Pushed
  <2>5. Ordered(queue')
    <3> SUFFICES ASSUME NEW i \in 1 .. Len(queue'), NEW j \in 1 .. Len(queue'), i < j,
                        queue'[i][1] = queue'[j][1]
                 PROVE  queue'[i][2] < queue'[j][2]
      BY DEF Ordered
    <3>1. i \in 1 .. Len(queue) /\ queue'[i] = queue[i]
      BY <2>2, <2>3
    <3> QED
      BY <2>3, <2>4, <3>1 DEF OrderInv, Ordered
  <2>6. \A i \in 1 .. Len(reported'), j \in 1 .. Len(queue') :
          reported'[i][1] = queue'[j][1] => reported'[i][2] < queue'[j][2]
    BY <2>1, <2>3, <2>4 DEF OrderInv
  <2>7. Pushed(queue)'
    <3> SUFFICES ASSUME NEW i \in 1 .. Len(queue')
                 PROVE  /\ queue'[i][2] <= said'[queue'[i][1]]
                        /\ pc'[queue'[i][1]] = "push" => queue'[i][2] < said'[queue'[i][1]]
      BY DEF Pushed
    <3>1. CASE i \in 1 .. Len(queue) /\ queue'[i] = queue[i]
      BY <2>1, <3>1, EventsOf DEF OrderInv, Pushed
    <3>2. CASE queue'[i] = <<s, said[s]>>
      BY <2>1, <3>2
    <3> QED
      BY <2>3, <3>1, <3>2
  <2>8. Pushed(reported)'
    BY <2>1, EventsOf DEF OrderInv, Pushed
  <2> QED
    BY <2>1, <2>5, <2>6, <2>7, <2>8 DEF OrderInv, Ordered
<1>3. CASE HandleMessage
  <2>1. /\ queue # <<>> /\ queue' = Tail(queue)
        /\ reported' = Append(reported, Head(queue)) /\ said' = said /\ pc' = pc
    BY <1>3 DEF HandleMessage, driverVars
  <2>2. /\ Len(queue') = Len(queue) - 1
        /\ \A i \in 1 .. Len(queue') : queue'[i] = queue[i + 1] /\ i + 1 \in 1 .. Len(queue)
    BY <2>1
  <2>3. /\ Len(reported') = Len(reported) + 1 /\ reported'[Len(reported')] = queue[1]
        /\ \A i \in 1 .. Len(reported) : reported'[i] = reported[i]
        /\ 1 \in 1 .. Len(queue)
    BY <2>1
  <2>4. \A i \in 1 .. Len(reported') :
          \/ i \in 1 .. Len(reported) /\ reported'[i] = reported[i]
          \/ i = Len(reported') /\ reported'[i] = queue[1]
    BY <2>3
  <2>5. Ordered(queue') /\ Pushed(queue)'
    <3>1. ASSUME NEW i \in 1 .. Len(queue'), NEW j \in 1 .. Len(queue'), i < j
          PROVE  i + 1 < j + 1
      BY <3>1
    <3>2. Ordered(queue')
      BY <2>2, <3>1 DEF OrderInv, Ordered
    <3>3. Pushed(queue)'
      BY <2>1, <2>2 DEF OrderInv, Pushed
    <3> QED
      BY <3>2, <3>3
  <2>6. Pushed(reported)'
    BY <2>1, <2>3, <2>4 DEF OrderInv, Pushed
  <2>7. Ordered(reported')
    <3> SUFFICES ASSUME NEW i \in 1 .. Len(reported'), NEW j \in 1 .. Len(reported'), i < j,
                        reported'[i][1] = reported'[j][1]
                 PROVE  reported'[i][2] < reported'[j][2]
      BY DEF Ordered
    <3>1. i \in 1 .. Len(reported) /\ reported'[i] = reported[i]
      BY <2>3, <2>4
    <3> QED
      BY <2>3, <2>4, <3>1 DEF OrderInv, Ordered
  <2>8. \A i \in 1 .. Len(reported'), j \in 1 .. Len(queue') :
          reported'[i][1] = queue'[j][1] => reported'[i][2] < queue'[j][2]
    <3> SUFFICES ASSUME NEW i \in 1 .. Len(reported'), NEW j \in 1 .. Len(queue'),
                        reported'[i][1] = queue'[j][1]
                 PROVE  reported'[i][2] < queue'[j][2]
      OBVIOUS
    <3>1. queue'[j] = queue[j + 1] /\ j + 1 \in 1 .. Len(queue) /\ 1 < j + 1
      BY <2>2
    <3>2. CASE i \in 1 .. Len(reported) /\ reported'[i] = reported[i]
      BY <3>1, <3>2 DEF OrderInv
    <3>3. CASE reported'[i] = queue[1]
      BY <2>3, <3>1, <3>3 DEF OrderInv, Ordered
    <3> QED
      BY <2>4, <3>2, <3>3
  <2> QED
    BY <2>5, <2>6, <2>7, <2>8 DEF OrderInv, Ordered
<1>4. ASSUME NEW s \in Sessions, Write(s) PROVE OrderInv'
  <2>1. /\ queue' = queue /\ reported' = reported /\ said' = said
        /\ pc' = [pc EXCEPT ![s] = "idle"]
    BY <1>4 DEF Write
  <2>2. ASSUME NEW q \in Seq(Events), Pushed(q), q' = q PROVE Pushed(q)'
    BY <2>1, <2>2, EventsOf DEF Pushed
  <2> QED
    BY <2>1, <2>2 DEF OrderInv, Ordered
<1>5. CASE UNCHANGED <<queue, reported, said, pc>>
  BY <1>5 DEF OrderInv, Ordered, Pushed
<1>6. ASSUME NEW s \in Sessions, Connected(s) \/ CreateSession(s) \/ ResumeTask(s)
      PROVE  UNCHANGED <<queue, reported, said, pc>>
  BY <1>6 DEF Connected, CreateSession, ResumeTask
<1>7. ASSUME Poll \/ Recv \/ HandleEvents \/ SkipCancelled \/ Destroy \/ UNCHANGED vars
      PROVE  UNCHANGED <<queue, reported, said, pc>>
  BY <1>7 DEF Poll, Recv, HandleEvents, SkipCancelled, Destroy, vars, driverVars
<1> QED
  BY <1>1, <1>2, <1>3, <1>4, <1>5, <1>6, <1>7 DEF Next, LoopStep

\* What a session has announced has been pushed, or will be next; and what has been
\* pushed is in the queue, or reported.
In(q, e) == \E i \in 1 .. Len(q) : q[i] = e
GapInv ==
  \A s \in Sessions : \A n \in 1 .. said[s] :
    \/ pc[s] = "push" /\ n = said[s]
    \/ In(queue, <<s, n>>) \/ In(reported, <<s, n>>)

LEMMA InAppended ==
  ASSUME NEW q \in Seq(Events), NEW e \in Events
  PROVE  In(Append(q, e), e) /\ \A d : In(q, d) => In(Append(q, e), d)
<1>1. /\ Len(Append(q, e)) = Len(q) + 1 /\ Append(q, e)[Len(q) + 1] = e
      /\ \A i \in 1 .. Len(q) : Append(q, e)[i] = q[i]
  OBVIOUS
<1>2. Len(q) + 1 \in 1 .. (Len(q) + 1) /\ \A i \in 1 .. Len(q) : i \in 1 .. (Len(q) + 1)
  OBVIOUS
<1> QED
  BY <1>1, <1>2 DEF In

LEMMA InTail ==
  ASSUME NEW q \in Seq(Events), q # <<>>, NEW d, In(q, d), d # Head(q)
  PROVE  In(Tail(q), d)
<1>1. PICK i \in 1 .. Len(q) : q[i] = d
  BY DEF In
<1>2. i # 1
  BY <1>1
<1>3. i - 1 \in 1 .. Len(Tail(q)) /\ Tail(q)[i - 1] = q[i]
  BY <1>2
<1> QED
  BY <1>1, <1>3 DEF In

LEMMA GapStep == IInv /\ GapInv /\ [Next]_vars => GapInv'
<1> SUFFICES ASSUME IInv, GapInv, [Next]_vars PROVE GapInv'
  OBVIOUS
<1>0. /\ queue \in Seq(Events) /\ reported \in Seq(Events)
      /\ pc \in [Sessions -> {"idle", "push", "write"}] /\ said \in [Sessions -> Nat]
      /\ popping => queue # <<>>
  BY InvFacts DEF IInv, TypeOK, NeverPopsEmpty
<1> USE <1>0
<1>1. ASSUME NEW s \in Sessions, Announce(s) PROVE GapInv'
  <2>1. /\ queue' = queue /\ reported' = reported /\ pc[s] = "idle"
        /\ said' = [said EXCEPT ![s] = @ + 1] /\ pc' = [pc EXCEPT ![s] = "push"]
    BY <1>1 DEF Announce
  <2> SUFFICES ASSUME NEW r \in Sessions, NEW n \in 1 .. said'[r]
               PROVE  (pc'[r] = "push" /\ n = said'[r]) \/ In(queue', <<r, n>>) \/ In(reported', <<r, n>>)
    BY DEF GapInv, In
  <2>2. CASE r = s /\ n = said'[s]
    BY <2>1, <2>2
  <2>3. CASE ~(r = s /\ n = said'[s])
    <3>1. n \in 1 .. said[r] /\ (pc[r] = "push" => pc'[r] = "push" /\ said'[r] = said[r])
      BY <2>1, <2>3
    <3> QED
      BY <2>1, <3>1 DEF GapInv
  <2> QED
    BY <2>2, <2>3
<1>2. ASSUME NEW s \in Sessions, Push(s) PROVE GapInv'
  <2>1. /\ queue' = Append(queue, <<s, said[s]>>) /\ reported' = reported
        /\ said' = said /\ pc' = [pc EXCEPT ![s] = "write"] /\ pc[s] = "push"
    BY <1>2 DEF Push
  <2>2. In(queue', <<s, said[s]>>) /\ \A d : In(queue, d) => In(queue', d)
    BY <2>1, InAppended DEF Events
  <2> SUFFICES ASSUME NEW r \in Sessions, NEW n \in 1 .. said'[r]
               PROVE  (pc'[r] = "push" /\ n = said'[r]) \/ In(queue', <<r, n>>) \/ In(reported', <<r, n>>)
    BY DEF GapInv, In
  <2>3. CASE r = s /\ n = said[s]
    BY <2>2, <2>3
  <2>4. CASE ~(r = s /\ n = said[s])
    <3>1. (pc[r] = "push" /\ n = said[r]) \/ In(queue, <<r, n>>) \/ In(reported, <<r, n>>)
      BY <2>1 DEF GapInv
    <3>2. pc[r] = "push" /\ n = said[r] => pc'[r] = "push" /\ n = said'[r]
      BY <2>1, <2>4
    <3> QED
      BY <2>1, <2>2, <3>1, <3>2
  <2> QED
    BY <2>3, <2>4
<1>3. CASE HandleMessage
  <2>1. /\ queue # <<>> /\ queue' = Tail(queue)
        /\ reported' = Append(reported, Head(queue)) /\ said' = said /\ pc' = pc
    BY <1>3 DEF HandleMessage, driverVars
  <2>2. Head(queue) \in Events
    BY <2>1
  <2>3. In(reported', Head(queue)) /\ \A d : In(reported, d) => In(reported', d)
    BY <2>1, <2>2, InAppended
  <2>4. \A d : In(queue, d) => In(queue', d) \/ In(reported', d)
    BY <2>1, <2>3, InTail
  <2> QED
    BY <2>1, <2>3, <2>4 DEF GapInv, In
<1>4. ASSUME NEW s \in Sessions, Write(s) PROVE GapInv'
  <2>1. /\ queue' = queue /\ reported' = reported /\ said' = said
        /\ pc' = [pc EXCEPT ![s] = "idle"] /\ pc[s] = "write"
    BY <1>4 DEF Write
  <2> QED
    BY <2>1 DEF GapInv, In
<1>5. CASE UNCHANGED <<queue, reported, said, pc>>
  BY <1>5 DEF GapInv, In
<1>6. ASSUME NEW s \in Sessions, Connected(s) \/ CreateSession(s) \/ ResumeTask(s)
      PROVE  UNCHANGED <<queue, reported, said, pc>>
  BY <1>6 DEF Connected, CreateSession, ResumeTask
<1>7. ASSUME Poll \/ Recv \/ HandleEvents \/ SkipCancelled \/ Destroy \/ UNCHANGED vars
      PROVE  UNCHANGED <<queue, reported, said, pc>>
  BY <1>7 DEF Poll, Recv, HandleEvents, SkipCancelled, Destroy, vars, driverVars
<1> QED
  BY <1>1, <1>2, <1>3, <1>4, <1>5, <1>6, <1>7 DEF Next, LoopStep

\* An earlier event of the same session has been pushed, and is not in the queue, in
\* which all are later than the reported ones.
LEMMA NoGaps ==
  ASSUME IInv, OrderInv, GapInv, NEW j \in 1 .. Len(reported), NEW n \in 1 .. (reported[j][2] - 1)
  PROVE  \E i \in 1 .. (j - 1) : reported[i] = <<reported[j][1], n>>
<1>1. /\ queue \in Seq(Events) /\ reported \in Seq(Events) /\ said \in [Sessions -> Nat]
  BY DEF IInv, TypeOK
<1> DEFINE s == reported[j][1]
<1>2. s \in Sessions /\ reported[j][2] \in Nat /\ said[s] \in Nat
  BY <1>1, EventsOf
<1>3. reported[j][2] <= said[s]
  BY DEF OrderInv, Pushed
<1>4. n \in 1 .. said[s] /\ n < said[s] /\ n < reported[j][2]
  BY <1>2, <1>3
<1>5. In(queue, <<s, n>>) \/ In(reported, <<s, n>>)
  BY <1>2, <1>4 DEF GapInv
<1>6. ~In(queue, <<s, n>>)
  <2> SUFFICES ASSUME NEW k \in 1 .. Len(queue), queue[k] = <<s, n>> PROVE FALSE
    BY DEF In
  <2>1. reported[j][2] < queue[k][2]
    BY DEF OrderInv
  <2> QED
    BY <1>2, <1>4, <2>1
<1>7. PICK i \in 1 .. Len(reported) : reported[i] = <<s, n>>
  BY <1>5, <1>6 DEF In
<1>8. ~(j < i) /\ i # j
  <2>1. j < i => reported[j][2] < reported[i][2]
    BY <1>7 DEF OrderInv, Ordered
  <2> QED
    BY <1>2, <1>4, <1>7, <2>1
<1> QED
  BY <1>1, <1>7, <1>8

\* The callback sees the events of each session in the order of the driver, each
\* once and without a gap, over however many sessions they are interleaved.  (That
\* the last ones arrive is EverythingArrives, which is liveness.)
THEOREM ReportsInOrder == SafeSpec => []ReportedInOrder
<1>1. Init => OrderInv /\ GapInv
  BY DEF Init, OrderInv, Ordered, Pushed, GapInv
<1>2. IInv /\ OrderInv /\ GapInv => ReportedInOrder
  BY NoGaps DEF OrderInv, Ordered, ReportedInOrder
<1>3. IInv /\ OrderInv /\ GapInv /\ [Next]_vars => (OrderInv /\ GapInv)'
  BY OrderStep, GapStep
<1> QED
  BY <1>1, <1>2, <1>3, Inductive, PTL DEF SafeSpec

-----------------------------------------------------------------------------
(* The first event and the first session.                                  *)

\* A byte for an event has been written.
Told == \E s \in Sessions : said[s] > 1 \/ (said[s] = 1 /\ pc[s] = "idle")

\* Before anything has been reported, the byte of the first event is in the socket
\* whenever the Cluster's is, so that no iteration runs the Cluster's reader without
\* the listener's; and tasks made ready wait behind both.
HostInv ==
  open /\ reported = <<>> =>
    /\ \A s \in Sessions : connect[s] # "created"
    /\ wakeups > 0 => Told
    /\ Told => bytes > 0 \/ popping
    /\ ready # <<>> => \E i \in 1 .. todo : ready[i] = Listener
    /\ \A i \in 1 .. todo : ready[i] \in {Listener, Bridge}

\* Both readers run in an iteration that finds both sockets readable.
LEMMA BothRun ==
  ASSUME NEW o \in Orders, Readable = {Listener, Bridge}
  PROVE  \E i \in 1 .. Len(o) : o[i] = Listener
<1>1. Listener # Bridge
  BY HostAssumption DEF HostAssumption
<1>2. Cardinality(Readable) = 2
  <2>1. IsFiniteSet({Listener}) /\ Cardinality({Listener}) = 1
    BY FS_Singleton
  <2>2. {Listener, Bridge} = {Listener} \cup {Bridge} /\ Bridge \notin {Listener}
    BY <1>1
  <2>3. Cardinality({Listener} \cup {Bridge}) = Cardinality({Listener}) + 1
    BY <2>1, <2>2, FS_AddElement
  <2> QED
    BY <2>1, <2>2, <2>3
<1>3. o \in [1 .. 2 -> {Listener, Bridge}] /\ (o[1] = o[2] => 1 = 2)
  BY <1>2 DEF Orders
<1>4. Len(o) = 2
  BY <1>3
<1> QED
  BY <1>3, <1>4

\* Polling: nothing is ready any more, so that the readers come first.
LEMMA HostPoll == IInv /\ HostInv /\ Poll => HostInv'
<1> SUFFICES ASSUME IInv, HostInv, Poll, open', reported' = <<>> PROVE HostInv'
  BY DEF HostInv
<1>1. /\ todo = 0 /\ open /\ reported = <<>> /\ ~popping
      /\ UNCHANGED <<bytes, said, pc, connect, wakeups, popping>>
  BY DEF Poll, IInv, driverVars, bridgeVars
<1>2. ready = <<>>
  BY <1>1 DEF HostInv
<1>3. PICK o \in Orders : ready' = ready \o o /\ todo' = Len(ready \o o)
  BY DEF Poll
<1>4. o \in Seq({Listener, Bridge})
  BY OrdersType
<1>5. ready' = o /\ todo' = Len(o)
  BY <1>2, <1>3, <1>4
<1>6. Bridge \in Readable => Readable = {Listener, Bridge}
  BY <1>1 DEF Readable, HostInv
<1>7. ready' # <<>> => \E i \in 1 .. todo' : ready'[i] = Listener
  <2>1. CASE Bridge \in Readable
    BY <1>5, <1>6, <2>1, BothRun
  <2>2. CASE Bridge \notin Readable
    <3>1. o \in [1 .. Cardinality(Readable) -> {Listener}]
      BY <2>2 DEF Orders, Readable
    <3>2. DOMAIN o = 1 .. Len(o)
      BY <1>4
    <3>3. ASSUME o # <<>> PROVE 1 \in 1 .. Len(o)
      BY <1>4, <3>3
    <3> QED
      BY <1>5, <3>1, <3>2, <3>3
  <2> QED
    BY <2>1, <2>2
<1>8. \A i \in 1 .. todo' : ready'[i] \in {Listener, Bridge}
  BY <1>4, <1>5
<1> QED
  BY <1>1, <1>7, <1>8 DEF HostInv, Told

LEMMA HostStep == IInv /\ HostInv /\ [Next]_vars => HostInv'
<1> SUFFICES ASSUME IInv, HostInv, [Next]_vars, open', reported' = <<>> PROVE HostInv'
  BY DEF HostInv
<1>0. /\ open /\ reported = <<>> /\ ~HandleMessage
  <2>1. open' => open
    BY DEF Next, LoopStep, Announce, Push, Write, Connected, CreateSession, Poll, Recv,
           HandleMessage, HandleEvents, ResumeTask, SkipCancelled, Destroy, vars
  <2>2. ASSUME HandleMessage PROVE FALSE
    <3>1. reported \in Seq(Events) /\ Len(reported') = 0
      BY DEF IInv, TypeOK
    <3>2. reported' = Append(reported, Head(queue))
      BY <2>2 DEF HandleMessage
    <3>3. Len(reported') = Len(reported) + 1
      <4>1. Head(queue) \in Events
        BY <2>2, InvFacts DEF HandleMessage, NeverPopsEmpty, IInv, TypeOK
      <4> QED
        BY <3>1, <3>2, <4>1
    <3> QED
      BY <3>1, <3>3
  <2>3. reported' = reported
    BY <2>2 DEF Next, LoopStep, Announce, Push, Write, Connected, CreateSession, Poll, Recv,
           HandleEvents, ResumeTask, SkipCancelled, Destroy, vars
  <2> QED
    BY <2>1, <2>2, <2>3
<1>1. /\ pc \in [Sessions -> {"idle", "push", "write"}] /\ said \in [Sessions -> Nat]
      /\ connect \in [Sessions -> {"new", "connecting", "answered", "created"}]
      /\ bytes \in Nat /\ wakeups \in Nat /\ todo \in Nat /\ todo <= Len(ready)
      /\ ready \in Seq(Sessions \cup {Listener, Bridge}) /\ answers \in Seq(Sessions)
      /\ {Listener, Bridge} \cap Sessions = {} /\ Listener # Bridge
  BY ConstantFacts, HostAssumption DEF IInv, TypeOK, HostAssumption
<1> USE <1>1 DEF driverVars, bridgeVars, loopVars
<1>2. ASSUME NEW s \in Sessions, Announce(s) \/ Push(s) \/ CreateSession(s) PROVE HostInv'
  <2>1. /\ UNCHANGED <<bytes, wakeups, popping, ready, todo>>
        /\ \A u \in Sessions : connect'[u] = "created" => connect[u] = "created"
    BY <1>2 DEF Announce, Push, CreateSession
  <2>2. Told' <=> Told
    <3>1. CASE Announce(s)
      BY <3>1 DEF Told, Announce
    <3>2. CASE Push(s)
      BY <3>2 DEF Told, Push
    <3>3. CASE CreateSession(s)
      BY <3>3 DEF Told, CreateSession
    <3> QED
      BY <1>2, <3>1, <3>2, <3>3
  <2> QED
    BY <1>0, <2>1, <2>2 DEF HostInv
<1>3. ASSUME NEW s \in Sessions, Write(s) PROVE HostInv'
  <2>1. /\ UNCHANGED <<connect, wakeups, popping, ready, todo>> /\ bytes' = bytes + 1
    BY <1>0, <1>3 DEF Write
  <2>2. Told => Told'
    BY <1>3 DEF Told, Write
  <2> QED
    BY <1>0, <2>1, <2>2 DEF HostInv
<1>4. ASSUME NEW s \in Sessions, Connected(s) PROVE HostInv'
  <2>1. /\ UNCHANGED <<bytes, said, pc, popping, ready, todo>>
        /\ \A u \in Sessions : connect'[u] = "created" => connect[u] = "created"
    BY <1>4 DEF Connected
  <2>2. Told /\ Told'
    BY <1>4, <2>1 DEF Told, Connected
  <2> QED
    BY <1>0, <2>1, <2>2 DEF HostInv
<1>5. CASE Recv
  BY <1>0, <1>5 DEF HostInv, Told, Recv
<1>6. CASE HandleEvents
  <2>1. /\ UNCHANGED <<bytes, said, pc, connect, popping>>
        /\ wakeups > 0
        /\ todo > 0 /\ ready[1] = Bridge
        /\ ready' = Tail(ready) \o answers /\ todo' = todo - 1
    BY <1>6 DEF HandleEvents, Running
  <2>2. \A i \in 1 .. todo' : ready'[i] = ready[i + 1] /\ i + 1 \in 1 .. todo
    <3>1. Len(Tail(ready)) = Len(ready) - 1
          /\ \A i \in 1 .. Len(Tail(ready)) : Tail(ready)[i] = ready[i + 1]
      BY <2>1
    <3>2. \A i \in 1 .. Len(Tail(ready)) : ready'[i] = Tail(ready)[i]
      BY <2>1
    <3>3. 1 .. todo' \subseteq 1 .. Len(Tail(ready))
      BY <2>1, <3>1
    <3> QED
      BY <2>1, <3>1, <3>2, <3>3
  <2>3. PICK i \in 1 .. todo : ready[i] = Listener
    BY <1>0, <2>1 DEF HostInv
  <2>4. i - 1 \in 1 .. todo' /\ ready'[i - 1] = Listener
    <3>1. i # 1
      BY <2>1, <2>3
    <3>2. i - 1 \in 1 .. todo' /\ (i - 1) + 1 = i
      BY <2>1, <3>1
    <3>3. ready'[i - 1] = ready[(i - 1) + 1]
      BY <2>2, <3>2
    <3> QED
      BY <2>3, <3>2, <3>3
  <2>5. \A j \in 1 .. todo' : ready'[j] \in {Listener, Bridge}
    BY <1>0, <2>2 DEF HostInv
  <2>6. Told' <=> Told
    BY <2>1 DEF Told
  <2> QED
    BY <1>0, <2>1, <2>4, <2>5, <2>6 DEF HostInv
<1>7. ASSUME NEW s \in Sessions, ResumeTask(s) PROVE FALSE
  <2>1. todo > 0 /\ Head(ready) = s
    BY <1>7 DEF ResumeTask, Running
  <2>2. 1 \in 1 .. todo /\ ready[1] = s
    BY <2>1
  <2> QED
    BY <1>0, <2>2 DEF HostInv
<1>8. ~SkipCancelled /\ ~Destroy
  BY <1>0 DEF SkipCancelled, Destroy
<1>9. CASE UNCHANGED vars
  BY <1>0, <1>9 DEF HostInv, Told, vars
<1> QED
  BY <1>0, <1>2, <1>3, <1>4, <1>5, <1>6, <1>7, <1>8, <1>9, HostPoll DEF Next, LoopStep

\* When create_session has returned, to whichever session, a host has been reported,
\* unless the cluster is being destroyed.
THEOREM HostsComeFirst == SafeSpec => []HostBeforeSession
<1>1. Init => HostInv
  BY DEF Init, HostInv, Told
<1>2. HostInv => HostBeforeSession
  BY DEF HostInv, HostBeforeSession
<1> QED
  BY <1>1, <1>2, HostStep, Inductive, PTL DEF SafeSpec
=============================================================================
