--------------------------- MODULE CallbackBridge ---------------------------
(***************************************************************************)
(* The bridge between the threads of the C++ driver and the asyncio loop.  *)
(*                                                                         *)
(* A coroutine of session.pyx obtains a CassFuture from the driver, wraps  *)
(* it in a CallbackWrapper (callback_wrapper.pyx) and awaits the wrapper's *)
(* asyncio future.  When the CassFuture is set, whichever thread set it    *)
(* runs posix_to_python_callback (posix_to_python_thread.cpp): it pushes   *)
(* the raw pointer of the wrapper on a mutex-protected queue and then, the *)
(* mutex released, writes one byte to a blocking socket pair.  The loop    *)
(* watches the other end; Cluster._handle_events (cluster.pyx) receives    *)
(* one byte, drains the whole queue, completes the futures and drops the   *)
(* reference that kept each wrapper alive while only C++ knew about it.    *)
(*                                                                         *)
(* If the CassFuture is already set when the callback is registered, the   *)
(* driver runs the callback at once, in the loop's own thread.             *)
(***************************************************************************)
EXTENDS Naturals, Sequences, FiniteSets

CONSTANTS
  Requests,     \* awaited driver calls: one CassFuture and one wrapper each
  IOThreads,    \* threads of the driver that set futures
  EventLoop,    \* the thread that runs the asyncio loop
  NoRequest,    \* stands for "no wrapper"
  SocketCap,    \* how many unread one-byte writes the socket pair holds
  Early,        \* calls that the driver may answer before the wrapper
                \* registers its callback (e.g. no host available)
  MayDestroy    \* whether the program calls Cluster.destroy()

ASSUME BridgeAssumption ==
  /\ EventLoop \notin IOThreads
  /\ NoRequest \notin Requests
  /\ SocketCap \in Nat \ {0}
  /\ Early \subseteq Requests
  /\ MayDestroy \in BOOLEAN

Threads == IOThreads \cup {EventLoop}

VARIABLES
  cassFuture,   \* [Requests -> "none" | "inflight" | "set"]  (driver side)
  armed,        \* requests whose CassFuture holds a CallbackContainer
  cbPc, cbReq,  \* per thread: where it is in posix_to_python_callback, and
                \* the wrapper in the CallbackContainer it is working on
  queue,        \* PosixToPython._queue: raw pointers to wrappers
  bytes,        \* bytes written to _write_socket and not yet received
  open,         \* the cluster has its loop and its sockets
  loopPc,       \* what the loop's thread is in the middle of
  loopReq,      \* and the wrapper it is doing it for
  future,       \* the asyncio future of each wrapper
  extraRefs,    \* references taken by Py_INCREF and not yet dropped
  task,         \* the coroutine awaiting each call
  freed         \* requests for which cass_future_free has been called

driverVars == <<cassFuture, armed>>
channelVars == <<queue, bytes, open>>
callbackVars == <<cbPc, cbReq>>
loopVars == <<loopPc, loopReq>>
taskVars == <<future, extraRefs, task, freed>>
vars == <<driverVars, channelVars, callbackVars, loopVars, taskVars>>

-----------------------------------------------------------------------------

Init ==
  /\ cassFuture = [r \in Requests |-> "none"]
  /\ armed = {}
  /\ cbPc = [t \in Threads |-> "idle"]
  /\ cbReq = [t \in Threads |-> NoRequest]
  /\ queue = <<>>
  /\ bytes = 0
  /\ open = TRUE
  /\ loopPc = "idle"
  /\ loopReq = NoRequest
  /\ future = [r \in Requests |-> "none"]
  /\ extraRefs = [r \in Requests |-> 0]
  /\ task = [r \in Requests |-> "new"]
  /\ freed = {}

\* The loop's thread can start a task step or a reader callback.
LoopFree == loopPc = "idle" /\ cbPc[EventLoop] = "idle"

StartCallback(t, r) ==
  /\ cbPc' = [cbPc EXCEPT ![t] = "push"]
  /\ cbReq' = [cbReq EXCEPT ![t] = r]

-----------------------------------------------------------------------------
(* The coroutine.  Between cass_session_execute and the callback's         *)
(* registration the driver's threads run on.                               *)

Submit(r) ==
  /\ LoopFree
  /\ task[r] = "new"
  /\ cassFuture' = [cassFuture EXCEPT ![r] = "inflight"]
  /\ IF open
     THEN /\ task' = [task EXCEPT ![r] = "calling"]
          /\ loopPc' = "register"
          /\ loopReq' = r
     ELSE \* cluster.loop is None: create_future raises AttributeError
          \* outside of the try, so the CassFuture is never freed.
          /\ task' = [task EXCEPT ![r] = "refused"]
          /\ UNCHANGED loopVars
  /\ UNCHANGED <<armed, channelVars, callbackVars, future, extraRefs, freed>>

\* Mutant: a future that is already set runs no callback.
Register_MissesEarly(r) ==
  /\ loopPc = "register" /\ loopReq = r
  /\ future' = [future EXCEPT ![r] = "pending"]
  /\ extraRefs' = [extraRefs EXCEPT ![r] = @ + 1]
  /\ task' = [task EXCEPT ![r] = "waiting"]
  /\ armed' = armed \cup {r}
  /\ loopPc' = "idle"
  /\ loopReq' = NoRequest
  /\ UNCHANGED <<cassFuture, callbackVars, channelVars, freed>>

\* CallbackWrapper.new_ when cass_future_set_callback returns CASS_OK.
Register(r) ==
  /\ loopPc = "register" /\ loopReq = r
  /\ future' = [future EXCEPT ![r] = "pending"]
  /\ extraRefs' = [extraRefs EXCEPT ![r] = @ + 1]
  /\ task' = [task EXCEPT ![r] = "waiting"]
  /\ IF cassFuture[r] = "set"
     THEN StartCallback(EventLoop, r) /\ UNCHANGED armed
     ELSE armed' = armed \cup {r} /\ UNCHANGED callbackVars
  /\ loopPc' = "idle"
  /\ loopReq' = NoRequest
  /\ UNCHANGED <<cassFuture, channelVars, freed>>

\* Mutant: the error path forgets Py_DECREF.
RegisterError_NoDecref(r) ==
  /\ loopPc = "register" /\ loopReq = r
  /\ future' = [future EXCEPT ![r] = "pending"]
  /\ extraRefs' = [extraRefs EXCEPT ![r] = @ + 1]
  /\ task' = [task EXCEPT ![r] = "refused"]
  /\ loopPc' = "idle"
  /\ loopReq' = NoRequest
  /\ UNCHANGED <<driverVars, channelVars, callbackVars, freed>>

\* CallbackWrapper.new_ when it does not: Py_DECREF, then raise_if_error.
RegisterError(r) ==
  /\ loopPc = "register" /\ loopReq = r
  /\ future' = [future EXCEPT ![r] = "pending"]
  /\ task' = [task EXCEPT ![r] = "refused"]
  /\ loopPc' = "idle"
  /\ loopReq' = NoRequest
  /\ UNCHANGED <<driverVars, channelVars, callbackVars, extraRefs, freed>>

\* task.cancel(): cancels the future the task waits for, if it still can.
Cancel(r) ==
  /\ LoopFree
  /\ task[r] = "waiting"
  /\ task' = [task EXCEPT ![r] = "cancelling"]
  /\ future' = [future EXCEPT ![r] = IF @ = "pending" THEN "cancelled" ELSE @]
  /\ UNCHANGED <<driverVars, channelVars, callbackVars, loopVars,
                 extraRefs, freed>>

\* Mutant: the task resumes without waiting for its future.
Resume_TooSoon(r) ==
  /\ LoopFree
  /\ task[r] \in {"waiting", "cancelling"}
  /\ task' = [task EXCEPT ![r] = IF @ = "waiting" THEN "returned"
                                                  ELSE "cancelled"]
  /\ freed' = freed \cup {r}
  /\ UNCHANGED <<driverVars, channelVars, callbackVars, loopVars,
                 future, extraRefs>>

\* Mutant: CancelledError is swallowed and the result read all the same.
Resume_SwallowsCancel(r) ==
  /\ LoopFree
  /\ task[r] \in {"waiting", "cancelling"}
  /\ future[r] # "pending"
  /\ task' = [task EXCEPT ![r] = "returned"]
  /\ freed' = freed \cup {r}
  /\ UNCHANGED <<driverVars, channelVars, callbackVars, loopVars,
                 future, extraRefs>>

\* The loop wakes the task: it reads the result, or CancelledError is thrown
\* into it; the finally clause frees the CassFuture either way.
Resume(r) ==
  /\ LoopFree
  /\ task[r] \in {"waiting", "cancelling"}
  /\ future[r] # "pending"
  /\ task' = [task EXCEPT ![r] = IF @ = "waiting" THEN "returned"
                                                  ELSE "cancelled"]
  /\ freed' = freed \cup {r}
  /\ UNCHANGED <<driverVars, channelVars, callbackVars, loopVars,
                 future, extraRefs>>

-----------------------------------------------------------------------------
(* The driver sets a future; the callback, if there is one already, runs   *)
(* in the same thread.                                                     *)

Complete(t, r) ==
  /\ t \in IOThreads
  /\ cbPc[t] = "idle"
  /\ cassFuture[r] = "inflight"
  /\ cassFuture' = [cassFuture EXCEPT ![r] = "set"]
  /\ \/ /\ r \in armed
        /\ armed' = armed \ {r}
        /\ StartCallback(t, r)
     \/ /\ r \notin armed
        /\ r \in Early
        /\ UNCHANGED <<armed, callbackVars>>
  /\ UNCHANGED <<channelVars, loopVars, taskVars>>

(* posix_to_python_callback, in two steps: other threads run between the   *)
(* release of the mutex and the write.                                     *)

Push(t) ==
  /\ cbPc[t] = "push"
  /\ queue' = Append(queue, cbReq[t])
  /\ cbPc' = [cbPc EXCEPT ![t] = "write"]
  /\ UNCHANGED <<driverVars, bytes, open, cbReq, loopVars, taskVars>>

\* write() blocks while the socket is full; on a closed descriptor it fails
\* and nobody looks at the result.  The container is deleted afterwards.
Write(t) ==
  /\ cbPc[t] = "write"
  /\ \/ open /\ bytes < SocketCap /\ bytes' = bytes + 1
     \/ ~open /\ UNCHANGED bytes
  /\ cbPc' = [cbPc EXCEPT ![t] = "idle"]
  /\ cbReq' = [cbReq EXCEPT ![t] = NoRequest]
  /\ UNCHANGED <<driverVars, queue, open, loopVars, taskVars>>

-----------------------------------------------------------------------------
(* Cluster._handle_events, step by step: the mutex is taken and released   *)
(* for every element, and set_result and Py_DECREF run outside of it.      *)

Recv ==
  /\ LoopFree
  /\ open
  /\ bytes > 0
  /\ bytes' = bytes - 1
  /\ loopPc' = "drain"
  /\ UNCHANGED <<driverVars, queue, open, callbackVars, loopReq, taskVars>>

PopFront ==
  /\ loopPc = "drain"
  /\ queue # <<>>
  /\ queue' = Tail(queue)
  /\ loopReq' = Head(queue)
  /\ loopPc' = "deliver"
  /\ UNCHANGED <<driverVars, bytes, open, callbackVars, taskVars>>

\* Mutant: the drain may stop with wrappers left on the queue.
FoundEmpty_StopsEarly ==
  /\ loopPc = "drain"
  /\ loopPc' = "idle"
  /\ UNCHANGED <<driverVars, channelVars, callbackVars, loopReq, taskVars>>

FoundEmpty ==
  /\ loopPc = "drain"
  /\ queue = <<>>
  /\ loopPc' = "idle"
  /\ UNCHANGED <<driverVars, channelVars, callbackVars, loopReq, taskVars>>

\* Mutant: the test of done() is the wrong way round.
Settled_Inverted(f) == IF f = "pending" THEN f ELSE "finished"

\* CallbackWrapper.set_result leaves a future that is done alone.
Settled(f) == IF f = "pending" THEN "finished" ELSE f

\* Mutant: set_result does not ask whether the future is done.
Deliver_NoDoneCheck ==
  /\ loopPc = "deliver"
  /\ future' = [future EXCEPT ![loopReq] = "finished"]
  /\ extraRefs' = [extraRefs EXCEPT ![loopReq] = @ - 1]
  /\ loopPc' = "drain"
  /\ loopReq' = NoRequest
  /\ UNCHANGED <<driverVars, channelVars, callbackVars, task, freed>>

\* Mutant: the handler skips a future that is done, Py_DECREF included.
Deliver_SkipsDone ==
  /\ loopPc = "deliver"
  /\ future' = [future EXCEPT ![loopReq] = Settled(@)]
  /\ extraRefs' = [extraRefs EXCEPT ![loopReq] =
                     IF future[loopReq] = "pending" THEN @ - 1 ELSE @]
  /\ loopPc' = "drain"
  /\ loopReq' = NoRequest
  /\ UNCHANGED <<driverVars, channelVars, callbackVars, task, freed>>

Deliver ==
  /\ loopPc = "deliver"
  /\ future' = [future EXCEPT ![loopReq] = Settled(@)]
  /\ extraRefs' = [extraRefs EXCEPT ![loopReq] = @ - 1]
  /\ loopPc' = "drain"
  /\ loopReq' = NoRequest
  /\ UNCHANGED <<driverVars, channelVars, callbackVars, task, freed>>

-----------------------------------------------------------------------------

\* Cluster.destroy() from a task: the reader is removed, both ends closed.
Destroy ==
  /\ MayDestroy
  /\ LoopFree
  /\ open
  /\ open' = FALSE
  /\ bytes' = 0
  /\ UNCHANGED <<driverVars, queue, callbackVars, loopVars, taskVars>>

-----------------------------------------------------------------------------

LoopStep == Recv \/ PopFront \/ FoundEmpty \/ Deliver

Next ==
  \/ \E r \in Requests : \/ Submit(r) \/ Register(r) \/ RegisterError(r)
                         \/ Cancel(r) \/ Resume(r)
                         \/ \E t \in IOThreads : Complete(t, r)
  \/ \E t \in Threads : Push(t) \/ Write(t)
  \/ LoopStep
  \/ Destroy

SafeSpec == Init /\ [][Next]_vars

(***************************************************************************)
(* The loop polls its selector on every iteration and runs what is ready;  *)
(* the threads of the driver are scheduled by the operating system; and    *)
(* the driver answers every request, with a timeout error if need be.      *)
(* Nothing obliges a program to submit, to cancel or to destroy.           *)
(***************************************************************************)
Fairness ==
  /\ \A r \in Requests :
        /\ WF_vars(Register(r) \/ RegisterError(r))
        /\ WF_vars(Resume(r))
        /\ WF_vars(r \in armed /\ \E t \in IOThreads : Complete(t, r))
  /\ \A t \in Threads : WF_vars(Push(t) \/ Write(t))
  /\ WF_vars(LoopStep)

Spec == SafeSpec /\ Fairness
-----------------------------------------------------------------------------

\* The values each variable ranges over.
TypeOK ==
  /\ cassFuture \in [Requests -> {"none", "inflight", "set"}]
  /\ armed \subseteq Requests
  /\ cbPc \in [Threads -> {"idle", "push", "write"}]
  /\ cbReq \in [Threads -> Requests \cup {NoRequest}]
  /\ queue \in Seq(Requests)
  /\ bytes \in 0 .. SocketCap
  /\ open \in BOOLEAN
  /\ loopPc \in {"idle", "register", "drain", "deliver"}
  /\ loopReq \in Requests \cup {NoRequest}
  /\ future \in [Requests -> {"none", "pending", "finished", "cancelled"}]
  /\ extraRefs \in [Requests -> Nat]
  /\ task \in [Requests -> {"new", "calling", "waiting", "cancelling",
                            "returned", "cancelled", "refused"}]
  /\ freed \subseteq Requests

\* A wrapper is never left on the queue with nothing to wake the loop: unless
\* _handle_events is draining, a byte is in the socket, or some thread that
\* has pushed is about to write one.
NoLostWakeup ==
  open /\ loopPc \notin {"drain", "deliver"} /\ queue # <<>>
    => bytes > 0 \/ \E t \in Threads : cbPc[t] = "write"

\* The places where C++ holds the raw pointer of the wrapper of r.
Places(r) ==
  {<<"CassFuture", r>> : x \in armed \cap {r}}
  \cup {<<"container", t>> : t \in {u \in Threads : cbPc[u] = "push"
                                                    /\ cbReq[u] = r}}
  \cup {<<"queue", i>> : i \in {j \in 1 .. Len(queue) : queue[j] = r}}
  \cup {<<"handler", r>> : x \in {y \in {loopReq} : loopPc = "deliver"
                                                    /\ y = r}}

\* The reference taken in CallbackWrapper.new_ is held exactly while one, and
\* only one, C++ place can still use the pointer: no use of a freed wrapper,
\* no second release, no leak, whatever the task did in the meantime.
RefPerPlace == \A r \in Requests : extraRefs[r] = Cardinality(Places(r))

\* A task returns from its await only when the CassFuture it waited for is
\* set, so cass_future_get_result never blocks the loop; and no CassFuture is
\* freed before the task that reads it has stopped waiting.
ResultIsReady ==
  /\ \A r \in Requests : task[r] = "returned" => cassFuture[r] = "set"
  /\ \A r \in freed : task[r] \in {"returned", "cancelled"}

\* An asyncio future that is finished or cancelled never changes again: a late
\* answer to a cancelled call raises no InvalidStateError in the handler.
SettlesOnce ==
  [][\A r \in Requests : future[r] \in {"finished", "cancelled"}
                           => future'[r] = future[r]]_vars

\* Every await ends, unless the cluster is destroyed under it.
EveryAwaitEnds ==
  \A r \in Requests :
    task[r] = "waiting" ~> task[r] \in {"returned", "cancelled"} \/ ~open

\* What C++ was lent, it gives back: the reference of every wrapper is dropped,
\* a cancelled task's too, unless the cluster is destroyed first.
EveryRefDropped ==
  \A r \in Requests : extraRefs[r] > 0 ~> extraRefs[r] = 0 \/ ~open

\* The handler gets from the queue what is on it and calls the wrapper.
QueuedIsHandled ==
  \A r \in Requests :
    (\E i \in 1 .. Len(queue) : queue[i] = r)
      ~> (loopPc = "deliver" /\ loopReq = r) \/ ~open

(***************************************************************************)
(* The bridge implements the awaited call of DriverCall.                   *)
(***************************************************************************)
CallOf(r) ==
  CASE task[r] = "new" -> "idle"
    [] task[r] \in {"calling", "waiting", "cancelling"} ->
         IF cassFuture[r] = "set" THEN "answered" ELSE "outstanding"
    [] OTHER -> task[r]

calls == [r \in Requests |-> CallOf(r)]

Call == INSTANCE DriverCall WITH call <- calls

\* Every run of the bridge is a run of DriverCall, liveness left aside.
ImplementsCall == Call!SafeSpec

\* Unless the cluster is destroyed, the bridge also keeps the promise that calls
\* are answered and return.
ImplementsLiveCall == Call!SafeSpec /\ ([]open => Call!Fairness)
=============================================================================
