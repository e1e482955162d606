------------------------------ MODULE LogBridge ------------------------------
(***************************************************************************)
(* The driver's log on its way to Python (logger.pyx).                     *)
(*                                                                         *)
(* Every Cluster has a Logger with a queue and a socket pair of its own,   *)
(* but the driver has one log callback per process: the Logger created     *)
(* last takes the log of all clusters, and the end of any Logger switches  *)
(* it off.  Unlike Cluster._handle_events, Logger._handle_message calls    *)
(* user code while it drains, and an exception there ends the drain.       *)
(***************************************************************************)
EXTENDS Naturals, FiniteSets

CONSTANTS
  Clusters,     \* clusters of the process, all created in one event loop
  None,         \* no log callback
  IOThreads,    \* threads of the driver
  EventLoop,    \* the thread of the event loop
  MaxLogs,      \* bound on the messages of a run
  SocketCap,    \* unread bytes that a socket pair holds
  Serial,       \* a cluster is created only when none is in use
  KeepsLogger,  \* the program may keep cluster.get_logger() after destroy()
  LoopLogs      \* whether calls made by the loop's thread log messages

ASSUME LogAssumption ==
  /\ None \notin Clusters
  /\ EventLoop \notin IOThreads
  /\ IsFiniteSet(IOThreads)
  /\ MaxLogs \in Nat /\ SocketCap \in Nat \ {0}
  /\ {Serial, KeepsLogger, LoopLogs} \subseteq BOOLEAN

Threads == IOThreads \cup {EventLoop}

VARIABLES
  logger,    \* the Logger of each cluster
  target,    \* the Logger whose queue cass_log_set_callback registered
  queue,     \* how many messages PosixToPythonLogger._queue holds
  bytes,     \* unread bytes in the Logger's socket pair
  pc,        \* each thread inside posix_to_python_logger_callback
  handler,   \* the Logger it was called for
  draining,  \* the Logger whose _handle_message is running
  logged     \* messages so far

threadVars == <<pc, handler, logged>>
vars == <<logger, target, queue, bytes, threadVars, draining>>

Init ==
  /\ logger = [c \in Clusters |-> "none"]
  /\ target = None
  /\ queue = [c \in Clusters |-> 0]
  /\ bytes = [c \in Clusters |-> 0]
  /\ pc = [t \in Threads |-> "idle"]
  /\ handler = [t \in Threads |-> None]
  /\ draining = None
  /\ logged = 0

\* The loop's thread is between two callbacks.  A Logger that nobody keeps is
\* deallocated before destroy() returns.
LoopFree == /\ draining = None /\ pc[EventLoop] = "idle"
            /\ KeepsLogger \/ \A c \in Clusters : logger[c] # "stopped"

Alive(c) == logger[c] \in {"live", "orphan"}

-----------------------------------------------------------------------------

\* Mutant: a Logger does not replace the one that is registered.
Register_First(c) == target' = IF target = None THEN c ELSE target

Register(c) == target' = c

\* Cluster.__cinit__ and __init__.  When __init__ raises, the half-made cluster
\* stays registered with the loop and the driver: an orphan that the program
\* has no name for.
Create(c) ==
  /\ LoopFree
  /\ logger[c] = "none"
  /\ Serial => \A d \in Clusters : logger[d] # "live"
  /\ \E how \in {"live", "orphan"} : logger' = [logger EXCEPT ![c] = how]
  /\ Register(c)
  /\ UNCHANGED <<queue, bytes, threadVars, draining>>

\* Mutant: the driver is not told.
Unregister_Nothing == UNCHANGED target

\* cass_log_set_callback(NULL, NULL).
Unregister == target' = None

\* Cluster.destroy() and Logger.destroy(): reader and sockets are gone.
Destroy(c) ==
  /\ LoopFree
  /\ logger[c] = "live"
  /\ logger' = [logger EXCEPT ![c] = "stopped"]
  /\ bytes' = [bytes EXCEPT ![c] = 0]
  /\ Unregister
  /\ UNCHANGED <<queue, threadVars, draining>>

\* Logger.__dealloc__, when the last reference goes.  (A thread of the driver
\* that is still inside of the callback would use a deleted object.)
Dealloc(c) ==
  /\ draining = None
  /\ logger[c] = "stopped"
  /\ \A t \in Threads : handler[t] # c
  /\ logger' = [logger EXCEPT ![c] = "freed"]
  /\ queue' = [queue EXCEPT ![c] = 0]
  /\ Unregister
  /\ UNCHANGED <<bytes, threadVars, draining>>

-----------------------------------------------------------------------------

\* The driver, at work for any cluster, logs something and calls the log
\* callback, if there is one.
Log(t) ==
  /\ pc[t] = "idle" /\ target # None /\ logged < MaxLogs
  /\ t = EventLoop => LoopLogs /\ LoopFree
  /\ pc' = [pc EXCEPT ![t] = "push"]
  /\ handler' = [handler EXCEPT ![t] = target]
  /\ logged' = logged + 1
  /\ UNCHANGED <<logger, target, queue, bytes, draining>>

Push(t) ==
  /\ pc[t] = "push"
  /\ queue' = [queue EXCEPT ![handler[t]] = @ + 1]
  /\ pc' = [pc EXCEPT ![t] = "write"]
  /\ UNCHANGED <<logger, target, bytes, handler, logged, draining>>

\* write() waits for room, and fails unnoticed on a closed descriptor.
Write(t) ==
  /\ pc[t] = "write"
  /\ LET c == handler[t] IN
       \/ Alive(c) /\ bytes[c] < SocketCap /\ bytes' = [bytes EXCEPT ![c] = @ + 1]
       \/ ~Alive(c) /\ UNCHANGED bytes
  /\ pc' = [pc EXCEPT ![t] = "idle"]
  /\ handler' = [handler EXCEPT ![t] = None]
  /\ UNCHANGED <<logger, target, queue, logged, draining>>

-----------------------------------------------------------------------------

\* Mutant: the handler reads all that is in the socket, not one byte.
Recv_All(c) ==
  /\ LoopFree
  /\ Alive(c) /\ bytes[c] > 0
  /\ bytes' = [bytes EXCEPT ![c] = 0]
  /\ draining' = c
  /\ UNCHANGED <<logger, target, queue, threadVars>>

\* _handle_message starts: recv(1).
Recv(c) ==
  /\ LoopFree
  /\ Alive(c) /\ bytes[c] > 0
  /\ bytes' = [bytes EXCEPT ![c] = @ - 1]
  /\ draining' = c
  /\ UNCHANGED <<logger, target, queue, threadVars>>

\* One turn of its loop: pop a message and hand it to the logging callback,
\* which may raise.
Emit ==
  /\ draining # None
  /\ queue[draining] > 0
  /\ queue' = [queue EXCEPT ![draining] = @ - 1]
  /\ draining' \in {draining, None}
  /\ UNCHANGED <<logger, target, bytes, threadVars>>

FoundEmpty ==
  /\ draining # None
  /\ queue[draining] = 0
  /\ draining' = None
  /\ UNCHANGED <<logger, target, queue, bytes, threadVars>>

-----------------------------------------------------------------------------

LoopStep == (\E c \in Clusters : Recv(c)) \/ Emit \/ FoundEmpty

Next == \/ \E c \in Clusters : Create(c) \/ Destroy(c) \/ Dealloc(c)
        \/ \E t \in Threads : Log(t) \/ Push(t) \/ Write(t)
        \/ LoopStep

SafeSpec == Init /\ [][Next]_vars

\* The operating system runs the threads.  The loop polls every socket on each
\* of its iterations, so a readable Logger is not passed over for ever.
Fairness == /\ \A t \in Threads : WF_vars(Push(t) \/ Write(t))
            /\ WF_vars(Emit \/ FoundEmpty)
            /\ \A c \in Clusters : WF_vars(Recv(c)) /\ WF_vars(Dealloc(c))

Spec == SafeSpec /\ Fairness

-----------------------------------------------------------------------------

\* The values each variable ranges over.
TypeOK ==
  /\ logger \in [Clusters -> {"none", "live", "orphan", "stopped", "freed"}]
  /\ target \in Clusters \cup {None}
  /\ queue \in [Clusters -> Nat]
  /\ bytes \in [Clusters -> 0 .. SocketCap]
  /\ pc \in [Threads -> {"idle", "push", "write"}]
  /\ handler \in [Threads -> Clusters \cup {None}]
  /\ \A t \in Threads : handler[t] = None <=> pc[t] = "idle"
  /\ draining \in Clusters \cup {None}
  /\ logged \in Nat

Writers(c) == {t \in Threads : pc[t] = "write" /\ handler[t] = c}

\* A logging callback that raises loses no message but its own: for each one
\* left on the queue there is a byte in the socket, or a thread about to write
\* one, to run the handler again.  (The drain in progress counts for one.)
MessagesCovered ==
  \A c \in Clusters : Alive(c) =>
    queue[c] <= bytes[c] + Cardinality(Writers(c))
                              + IF draining = c THEN 1 ELSE 0

\* The driver never holds on to a Logger that has been stopped or freed.
RegisteredIsAlive == target # None => Alive(target)

\* What is said of set_logging_callback: it catches the log messages, that is,
\* the callback of a cluster in use is the one the driver calls.
CatchesLog == \A c \in Clusters : logger[c] = "live" => target = c

\* What is on the queue of a Logger gets to its callback, one raise after the
\* other, unless the Logger is destroyed.
EveryMessageTaken ==
  \A c \in Clusters : queue[c] > 0 ~> queue[c] = 0 \/ ~Alive(c)
=============================================================================
