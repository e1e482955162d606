-------------------------- MODULE SessionLifecycle --------------------------
(***************************************************************************)
(* One Session (session.pyx) over its life: Cluster.create_session, then   *)
(* coroutines of many tasks that execute, prepare, batch, set the keyspace *)
(* and close, interleaved at their awaits and cancelled at any of them.    *)
(*                                                                         *)
(* What the await of a CassFuture does is DriverCall, which CallbackBridge *)
(* implements.  The driver's session is external: it answers requests in   *)
(* any order, and a close once the requests in flight have been answered.  *)
(***************************************************************************)
EXTENDS Naturals, FiniteSets

CONSTANTS
  Tasks,        \* asyncio tasks; each runs one coroutine of the session
  Keyspaces,    \* names a keyspace may have
  NoKeyspace,   \* create_session(keyspace=None)
  SerialUse     \* whether the program awaits one set_keyspace before the next

ASSUME SessionAssumption ==
  /\ NoKeyspace \notin Keyspaces
  /\ SerialUse \in BOOLEAN

AnyKeyspace == Keyspaces \cup {NoKeyspace}

VARIABLES
  phase,           \* what create_session has come to
  closed,          \* Session.closed
  keyspace,        \* Session.keyspace
  op,              \* the coroutine each task runs
  target,          \* its keyspace argument
  call,            \* its awaited driver call, see DriverCall
  outcome,         \* how the coroutine ended
  driver,          \* the driver's session
  driverKeyspace,  \* the keyspace that unqualified statements run in
  inflight,        \* calls that the driver has received and not answered
  answer           \* what the driver answered

pythonVars == <<phase, closed, keyspace>>
taskVars == <<op, target, outcome>>
driverVars == <<driver, driverKeyspace, inflight, answer>>
vars == <<pythonVars, taskVars, call, driverVars>>

Call == INSTANCE DriverCall WITH Requests <- Tasks

Init ==
  /\ phase = "new"
  /\ closed = FALSE
  /\ keyspace = NoKeyspace
  /\ op = [t \in Tasks |-> "none"]
  /\ target = [t \in Tasks |-> NoKeyspace]
  /\ outcome = [t \in Tasks |-> "none"]
  /\ Call!Init
  /\ driver = "new"
  /\ driverKeyspace = NoKeyspace
  /\ inflight = {}
  /\ answer = [t \in Tasks |-> "none"]

-----------------------------------------------------------------------------
(* Coroutines, from their first step to their await.                       *)

Start(t, o, k) ==
  /\ op[t] = "none"
  /\ op' = [op EXCEPT ![t] = o]
  /\ target' = [target EXCEPT ![t] = k]

Finish(t, how) == outcome' = [outcome EXCEPT ![t] = how]

\* The call goes to the driver, and the coroutine waits for it.
Send(t) ==
  /\ Call!Issue(t)
  /\ inflight' = inflight \cup {t}
  /\ UNCHANGED outcome

\* Session.__init__ and _connect.
CreateSession(t, k) ==
  /\ phase = "new"
  /\ Start(t, "connect", k)
  /\ Send(t)
  /\ phase' = "connecting"
  /\ keyspace' = k
  /\ UNCHANGED <<closed, driver, driverKeyspace, answer>>

\* The test of closed and what follows it up to the await, without a break.
SendUnlessClosed(t) ==
  \/ closed /\ Finish(t, "RuntimeError") /\ UNCHANGED <<call, inflight>>
  \/ ~closed /\ Send(t)

\* execute, create_prepared and execute_batch.
Request(t) ==
  /\ phase = "ready"
  /\ Start(t, "request", NoKeyspace)
  /\ SendUnlessClosed(t)
  /\ UNCHANGED <<pythonVars, driver, driverKeyspace, answer>>

UseInProgress ==
  \E t \in Tasks : op[t] = "use" /\ (outcome[t] = "none" \/ t \in inflight)

\* Mutant: the attribute is set before the driver has agreed.
SetKeyspace_Eager(t, k) ==
  /\ phase = "ready"
  /\ SerialUse => ~UseInProgress
  /\ Start(t, "use", k)
  /\ SendUnlessClosed(t)
  /\ keyspace' = k
  /\ UNCHANGED <<phase, closed, driver, driverKeyspace, answer>>

\* set_keyspace and its alias use_keyspace execute a USE statement.
SetKeyspace(t, k) ==
  /\ phase = "ready"
  /\ SerialUse => ~UseInProgress
  /\ Start(t, "use", k)
  /\ SendUnlessClosed(t)
  /\ UNCHANGED <<pythonVars, driver, driverKeyspace, answer>>

\* Mutant: closed is set when the session has been closed, not before.
Close_FlagAfterAwait(t) ==
  /\ phase = "ready"
  /\ Start(t, "close", NoKeyspace)
  /\ \/ /\ closed
        /\ Finish(t, "noop")
        /\ UNCHANGED <<call, inflight, closed, driver>>
     \/ /\ ~closed
        /\ driver' = "closing"
        /\ Send(t)
        /\ UNCHANGED closed
  /\ UNCHANGED <<phase, keyspace, driverKeyspace, answer>>

\* Mutant: a second close waits for a future that nobody completes.
Close_SecondWaits(t) ==
  /\ phase = "ready"
  /\ Start(t, "close", NoKeyspace)
  /\ \/ /\ closed
        /\ UNCHANGED <<call, inflight, outcome, closed, driver>>
     \/ /\ ~closed
        /\ closed' = TRUE
        /\ driver' = "closing"
        /\ Send(t)
  /\ UNCHANGED <<phase, keyspace, driverKeyspace, answer>>

\* Mutant: close gives up when requests are in flight, the flag already set.
Close_GivesUpWhenBusy(t) ==
  /\ phase = "ready"
  /\ Start(t, "close", NoKeyspace)
  /\ closed' = TRUE
  /\ \/ /\ closed \/ inflight # {}
        /\ Finish(t, "noop")
        /\ UNCHANGED <<call, inflight, driver>>
     \/ /\ ~closed /\ inflight = {}
        /\ driver' = "closing"
        /\ Send(t)
  /\ UNCHANGED <<phase, keyspace, driverKeyspace, answer>>

Close(t) ==
  /\ phase = "ready"
  /\ Start(t, "close", NoKeyspace)
  /\ \/ /\ closed
        /\ Finish(t, "noop")
        /\ UNCHANGED <<call, inflight, closed, driver>>
     \/ /\ ~closed
        /\ closed' = TRUE
        /\ driver' = "closing"
        /\ Send(t)
  /\ UNCHANGED <<phase, keyspace, driverKeyspace, answer>>

-----------------------------------------------------------------------------
(* Coroutines, from their await to their end.                              *)

\* create_session hands the session out only after a connect that succeeded.
PhaseAfter(t, how) ==
  IF op[t] # "connect" THEN phase ELSE IF how = "ok" THEN "ready" ELSE "failed"

Resume(t) ==
  /\ Call!Return(t)
  /\ Finish(t, answer[t])
  /\ phase' = PhaseAfter(t, answer[t])
  /\ keyspace' = IF op[t] = "use" /\ answer[t] = "ok" THEN target[t]
                                                      ELSE keyspace
  /\ UNCHANGED <<closed, op, target, driverVars>>

\* The task is cancelled at its await; the driver is not told.
Cancel(t) ==
  /\ Call!Abandon(t)
  /\ Finish(t, "cancelled")
  /\ phase' = PhaseAfter(t, "cancelled")
  /\ UNCHANGED <<closed, keyspace, op, target, driverVars>>

-----------------------------------------------------------------------------
(* The driver's session.                                                   *)

\* The answer reaches the call, unless the task has gone.
Deliver(t, how) ==
  /\ t \in inflight
  /\ inflight' = inflight \ {t}
  /\ answer' = [answer EXCEPT ![t] = how]
  /\ IF call[t] = "outstanding" THEN Call!Answer(t) ELSE UNCHANGED call

AnswerConnect(t) ==
  /\ op[t] = "connect"
  /\ \/ /\ Deliver(t, "ok")
        /\ driver' = "connected"
        /\ driverKeyspace' = target[t]
     \/ /\ Deliver(t, "error")
        /\ driver' = "failed"
        /\ UNCHANGED driverKeyspace
  /\ UNCHANGED <<pythonVars, taskVars>>

\* A USE that succeeds changes the keyspace before its future is set.
AnswerRequest(t) ==
  /\ op[t] \in {"request", "use"}
  /\ \/ /\ Deliver(t, "ok")
        /\ driverKeyspace' = IF op[t] = "use" THEN target[t]
                                              ELSE driverKeyspace
     \/ /\ Deliver(t, "error")
        /\ UNCHANGED driverKeyspace
  /\ UNCHANGED <<pythonVars, taskVars, driver>>

AnswerClose(t) ==
  /\ op[t] = "close"
  /\ inflight = {t}
  /\ Deliver(t, "ok")
  /\ driver' = "terminated"
  /\ UNCHANGED <<pythonVars, taskVars, driverKeyspace>>

-----------------------------------------------------------------------------

DriverStep(t) == AnswerConnect(t) \/ AnswerRequest(t) \/ AnswerClose(t)

Next == \E t \in Tasks :
  \/ \E k \in AnyKeyspace : CreateSession(t, k)
  \/ \E k \in Keyspaces : SetKeyspace(t, k)
  \/ Request(t) \/ Close(t)
  \/ Resume(t) \/ Cancel(t)
  \/ DriverStep(t)

SafeSpec == Init /\ [][Next]_vars

\* The driver answers what it has received, with a timeout error if need be,
\* and the loop runs the tasks that are ready.
Fairness == \A t \in Tasks : WF_vars(DriverStep(t)) /\ WF_vars(Resume(t))

Spec == SafeSpec /\ Fairness

-----------------------------------------------------------------------------

\* The values each variable ranges over.
TypeOK ==
  /\ phase \in {"new", "connecting", "ready", "failed"}
  /\ closed \in BOOLEAN
  /\ keyspace \in AnyKeyspace
  /\ op \in [Tasks -> {"none", "connect", "request", "use", "close"}]
  /\ target \in [Tasks -> AnyKeyspace]
  /\ outcome \in [Tasks -> {"none", "ok", "error", "RuntimeError", "noop",
                            "cancelled"}]
  /\ Call!TypeOK
  /\ driver \in {"new", "connected", "failed", "closing", "terminated"}
  /\ driverKeyspace \in AnyKeyspace
  /\ inflight \subseteq Tasks
  /\ answer \in [Tasks -> {"none", "ok", "error"}]

\* From the moment the driver has been told to close, it receives nothing
\* more from this session, whatever the tasks do meanwhile.
NothingAfterClose ==
  [][inflight' \subseteq inflight \/ driver \notin {"closing", "terminated"}]_vars

\* The driver is told to close once: never while it closes, nor again.
ClosedOnce ==
  \A t, u \in Tasks :
    /\ op[t] = "close" /\ call[t] # "idle"
    /\ op[u] = "close" /\ call[u] # "idle"
    => t = u

\* When the driver's session is terminated, every call that was ever accepted
\* has been answered: close() lets the requests in flight finish, those of
\* cancelled tasks too.
TerminatedIsQuiet ==
  driver = "terminated" =>
    /\ inflight = {}
    /\ \A t \in Tasks : call[t] # "outstanding"

\* Once no set_keyspace is in progress, Session.keyspace is the keyspace the
\* driver works in, as long as the program did not cancel one half way.
KeyspaceAgrees ==
  phase = "ready" /\ ~UseInProgress
    /\ (\A t \in Tasks : op[t] = "use" => outcome[t] # "cancelled")
    => keyspace = driverKeyspace

\* Every coroutine of the session ends.
EveryCoroutineEnds ==
  \A t \in Tasks : op[t] # "none" ~> outcome[t] # "none"

\* A session that is marked closed does get closed, even when the task that
\* awaits close() is cancelled.
CloseTerminates == closed ~> driver = "terminated"

=============================================================================
