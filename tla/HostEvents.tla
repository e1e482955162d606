----------------------------- MODULE HostEvents -----------------------------
(***************************************************************************)
(* Host state changes on their way to the host_listener_callback, beside   *)
(* the answers to create_session (host_listener.pyx, cluster.pyx).         *)
(*                                                                         *)
(* HostListener._handle_message takes one message off its queue for every  *)
(* byte, without asking whether there is one.  Its socket and that of the  *)
(* Cluster are two readers of one event loop; which of the two the program *)
(* notices first depends on how asyncio runs an iteration: it polls, puts  *)
(* the handlers of the readable sockets behind what is ready, and runs     *)
(* just that; what these make ready has to wait for the next iteration.    *)
(***************************************************************************)
EXTENDS Naturals, Sequences, FiniteSets

CONSTANTS
  Sessions,     \* sessions of the cluster; each has a driver thread that
                \* announces its hosts and then completes its connect
  Listener, Bridge,   \* the two readers: HostListener's and Cluster's
  MaxEvents,    \* bound on the events of one session
  SocketCap,    \* unread bytes that the listener's socket pair holds
  MayDestroy    \* whether the program calls Cluster.destroy()

ASSUME HostAssumption ==
  /\ Listener # Bridge /\ {Listener, Bridge} \cap Sessions = {}
  /\ IsFiniteSet(Sessions)
  /\ MaxEvents \in Nat /\ SocketCap \in Nat \ {0}
  /\ MayDestroy \in BOOLEAN

VARIABLES
  queue,      \* PosixToPythonHostListener._queue of <<session, number>>
  bytes,      \* unread bytes of the listener's socket
  pc,         \* each session's thread inside the listener callback
  said,       \* how many events each session has announced
  connect,    \* create_session of each session
  answers,    \* wrappers on the queue of the Cluster's bridge
  wakeups,    \* unread bytes of the Cluster's socket
  ready,      \* asyncio's ready handles: readers and woken tasks
  todo,       \* how many of them this iteration still runs
  popping,    \* _handle_message has received its byte, and not popped yet
  reported,   \* the events handed to the callback
  open        \* the cluster has its sockets

driverVars == <<pc, said, connect>>
bridgeVars == <<answers, wakeups>>
loopVars == <<ready, todo, popping>>
vars == <<queue, bytes, driverVars, bridgeVars, loopVars, reported, open>>

Init ==
  /\ queue = <<>> /\ bytes = 0
  /\ pc = [s \in Sessions |-> "idle"]
  /\ said = [s \in Sessions |-> 0]
  /\ connect = [s \in Sessions |-> "new"]
  /\ answers = <<>> /\ wakeups = 0
  /\ ready = <<>> /\ todo = 0 /\ popping = FALSE
  /\ reported = <<>>
  /\ open = TRUE

-----------------------------------------------------------------------------
(* The session's thread.                                                   *)

\* The driver reports a host: posix_to_python_host_listener_callback.
Announce(s) ==
  /\ connect[s] # "new" /\ pc[s] = "idle" /\ said[s] < MaxEvents
  /\ said' = [said EXCEPT ![s] = @ + 1]
  /\ pc' = [pc EXCEPT ![s] = "push"]
  /\ UNCHANGED <<queue, bytes, connect, bridgeVars, loopVars, reported, open>>

Push(s) ==
  /\ pc[s] = "push"
  /\ queue' = Append(queue, <<s, said[s]>>)
  /\ pc' = [pc EXCEPT ![s] = "write"]
  /\ UNCHANGED <<bytes, said, connect, bridgeVars, loopVars, reported, open>>

Write(s) ==
  /\ pc[s] = "write"
  /\ \/ open /\ bytes < SocketCap /\ bytes' = bytes + 1
     \/ ~open /\ UNCHANGED bytes
  /\ pc' = [pc EXCEPT ![s] = "idle"]
  /\ UNCHANGED <<queue, said, connect, bridgeVars, loopVars, reported, open>>

\* Hosts are known before a session is connected.  The answer takes the way of
\* CallbackBridge, its push and its write in one step.
Connected(s) ==
  /\ connect[s] = "connecting" /\ pc[s] = "idle" /\ said[s] > 0
  /\ connect' = [connect EXCEPT ![s] = "answered"]
  /\ answers' = Append(answers, s)
  /\ wakeups' = wakeups + 1
  /\ UNCHANGED <<queue, bytes, pc, said, loopVars, reported, open>>

-----------------------------------------------------------------------------
(* The event loop.                                                         *)

\* The handle at the head of the ready queue runs.
Running(h) == todo > 0 /\ ~popping /\ Head(ready) = h

Ran == ready' = Tail(ready) /\ todo' = todo - 1

Readable == {h \in {Listener, Bridge} :
               open /\ (h = Listener => bytes > 0) /\ (h = Bridge => wakeups > 0)}

\* Readers that are ready together come in any order.
Orders == {o \in [1 .. Cardinality(Readable) -> Readable] :
             \A i, j \in DOMAIN o : o[i] = o[j] => i = j}

Poll ==
  /\ todo = 0
  /\ \E o \in Orders : /\ ready' = ready \o o
                       /\ todo' = Len(ready \o o)
  /\ todo' > 0
  /\ UNCHANGED <<queue, bytes, driverVars, bridgeVars, popping, reported, open>>

\* create_session starts in whatever task calls it, between two handles.
CreateSession(s) ==
  /\ ~popping /\ open
  /\ connect[s] = "new"
  /\ connect' = [connect EXCEPT ![s] = "connecting"]
  /\ UNCHANGED <<queue, bytes, pc, said, bridgeVars, loopVars, reported, open>>

\* HostListener._handle_message: recv(1), and then, other threads pushing in
\* between, front() and pop().
Recv ==
  /\ Running(Listener) /\ open /\ bytes > 0
  /\ bytes' = bytes - 1
  /\ popping' = TRUE
  /\ UNCHANGED <<queue, driverVars, bridgeVars, ready, todo, reported, open>>

\* Mutant: the handler drains the queue, as the Cluster's does.
HandleMessage_Drains ==
  /\ popping
  /\ queue' = <<>>
  /\ reported' = reported \o queue
  /\ popping' = FALSE
  /\ Ran
  /\ UNCHANGED <<bytes, driverVars, bridgeVars, open>>

\* Mutant: the newest message is taken, as from a stack.
HandleMessage_TakesLast ==
  /\ popping
  /\ queue' = SubSeq(queue, 1, Len(queue) - 1)
  /\ reported' = Append(reported, queue[Len(queue)])
  /\ popping' = FALSE
  /\ Ran
  /\ UNCHANGED <<bytes, driverVars, bridgeVars, open>>

HandleMessage ==
  /\ popping
  /\ queue' = Tail(queue)
  /\ reported' = Append(reported, Head(queue))
  /\ popping' = FALSE
  /\ Ran
  /\ UNCHANGED <<bytes, driverVars, bridgeVars, open>>

\* Mutant: the waiting tasks run at once, not in the next iteration.
HandleEvents_RunsTasks ==
  /\ Running(Bridge) /\ open /\ wakeups > 0
  /\ wakeups' = wakeups - 1
  /\ answers' = <<>>
  /\ connect' = [s \in Sessions |-> IF \E i \in 1 .. Len(answers) : answers[i] = s
                                      THEN "created" ELSE connect[s]]
  /\ Ran
  /\ UNCHANGED <<queue, bytes, pc, said, popping, reported, open>>

\* Mutant: one wrapper is dropped without its future being completed.
HandleEvents_DropsOne ==
  /\ Running(Bridge) /\ open /\ wakeups > 0
  /\ wakeups' = wakeups - 1
  /\ answers' = <<>>
  /\ ready' = Tail(ready) \o (IF answers = <<>> THEN <<>> ELSE Tail(answers))
  /\ todo' = todo - 1
  /\ UNCHANGED <<queue, bytes, driverVars, popping, reported, open>>

\* Cluster._handle_events: one byte, all wrappers; each makes a task ready.
HandleEvents ==
  /\ Running(Bridge) /\ open /\ wakeups > 0
  /\ wakeups' = wakeups - 1
  /\ answers' = <<>>
  /\ ready' = Tail(ready) \o answers
  /\ todo' = todo - 1
  /\ UNCHANGED <<queue, bytes, driverVars, popping, reported, open>>

\* create_session returns to its caller.
ResumeTask(s) ==
  /\ Running(s)
  /\ connect' = [connect EXCEPT ![s] = "created"]
  /\ Ran
  /\ UNCHANGED <<queue, bytes, pc, said, bridgeVars, popping, reported, open>>

\* remove_reader has cancelled the handle.
SkipCancelled ==
  /\ Running(Listener) \/ Running(Bridge)
  /\ ~open
  /\ Ran
  /\ UNCHANGED <<queue, bytes, driverVars, bridgeVars, popping, reported, open>>

\* Cluster.destroy() and HostListener.destroy(), between two handles.  The
\* driver is not told: its threads go on pushing.
Destroy ==
  /\ MayDestroy /\ open /\ ~popping
  /\ open' = FALSE
  /\ bytes' = 0 /\ wakeups' = 0
  /\ UNCHANGED <<queue, driverVars, answers, loopVars, reported>>

-----------------------------------------------------------------------------

LoopStep == \/ Poll \/ Recv \/ HandleMessage \/ HandleEvents \/ SkipCancelled
            \/ \E s \in Sessions : ResumeTask(s)

Next == \/ \E s \in Sessions : \/ Announce(s) \/ Push(s) \/ Write(s)
                               \/ Connected(s) \/ CreateSession(s)
        \/ LoopStep \/ Destroy

SafeSpec == Init /\ [][Next]_vars

\* The loop runs, and so do the threads; hosts need not change.
Fairness == /\ WF_vars(LoopStep)
            /\ \A s \in Sessions : WF_vars(Push(s) \/ Write(s))

Spec == SafeSpec /\ Fairness

-----------------------------------------------------------------------------

Events == Sessions \X Nat

\* The values each variable ranges over.
TypeOK ==
  /\ queue \in Seq(Events) /\ reported \in Seq(Events)
  /\ bytes \in 0 .. SocketCap /\ wakeups \in Nat
  /\ pc \in [Sessions -> {"idle", "push", "write"}]
  /\ said \in [Sessions -> Nat]
  /\ connect \in [Sessions -> {"new", "connecting", "answered", "created"}]
  /\ answers \in Seq(Sessions)
  /\ ready \in Seq(Sessions \cup {Listener, Bridge})
  /\ todo \in 0 .. Len(ready)
  /\ popping \in BOOLEAN /\ open \in BOOLEAN

\* front() is never called on an empty queue, which would be undefined.
NeverPopsEmpty == popping => queue # <<>>

\* The callback sees the events of a session in the order of the driver, each of
\* them once, and none before all earlier ones.
ReportedInOrder ==
  /\ \A i, j \in 1 .. Len(reported) :
       i < j /\ reported[i][1] = reported[j][1] => reported[i][2] < reported[j][2]
  /\ \A j \in 1 .. Len(reported) : \A n \in 1 .. (reported[j][2] - 1) :
       \E i \in 1 .. (j - 1) : reported[i] = <<reported[j][1], n>>

\* What test_cluster_host_listener_callback relies on (events[0] right after
\* create_session): when the session is there, a host has been reported, unless
\* the cluster was destroyed before.
HostBeforeSession ==
  \A s \in Sessions : connect[s] = "created" => reported # <<>> \/ ~open

\* Every host event gets to the callback, and every connect that the driver has
\* answered returns, unless the cluster is destroyed.
EverythingArrives ==
  /\ queue # <<>> ~> queue = <<>> \/ ~open
  /\ \A s \in Sessions : connect[s] = "answered" ~> connect[s] = "created" \/ ~open
=============================================================================
