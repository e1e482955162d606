----------------------- MODULE SessionLifecycle_proofs -----------------------
(***************************************************************************)
(* What SessionLifecycle guarantees for any number of tasks, and Snapshots *)
(* for any number of Metadata objects that are taken from a session.       *)
(***************************************************************************)
EXTENDS SessionLifecycle, Snapshots, FiniteSetTheorems, TLAPS

VARIABLE replay
Schema == INSTANCE Schema

\* The flag of the Python object and the state of the driver's session.
FlagFollowsDriver ==
  /\ closed <=> driver \in {"closing", "terminated"}
  /\ closed => phase = "ready"

\* One task connects, and it has its answer before anyone has the session.
OneConnect ==
  /\ phase = "new" => \A t \in Tasks : op[t] # "connect"
  /\ \A t, u \in Tasks : op[t] = "connect" /\ op[u] = "connect" => t = u
  /\ \A t \in inflight : op[t] = "connect" => phase # "ready"
  /\ \A t \in Tasks : op[t] = "connect" /\ call[t] \in {"outstanding", "answered"}
                       => phase = "connecting"

\* The calls as the tasks see them and as the driver does.
CallsMatch ==
  /\ \A t \in Tasks : op[t] = "none" => call[t] = "idle"
  /\ \A t \in inflight : call[t] \in {"outstanding", "cancelled"}
  /\ \A t \in Tasks : call[t] = "outstanding" => t \in inflight

\* The task whose close() went to the driver set the flag.
CloserClosed ==
  /\ \A t \in Tasks : op[t] = "close" /\ call[t] # "idle" => closed
  /\ ClosedOnce

IInv ==
  /\ TypeOK
  /\ FlagFollowsDriver
  /\ OneConnect
  /\ CallsMatch
  /\ CloserClosed
  /\ driver = "terminated" => inflight = {}

-----------------------------------------------------------------------------

LEMMA InitInv == Init => IInv
BY DEF Init, IInv, TypeOK, FlagFollowsDriver, OneConnect, CallsMatch,
       CloserClosed, ClosedOnce, AnyKeyspace, Call!Init, Call!TypeOK,
       Call!CallStates

\* The coroutines' first halves.
LEMMA StartStep ==
  ASSUME IInv, NEW t \in Tasks,
         \/ \E k \in AnyKeyspace : CreateSession(t, k)
         \/ \E k \in Keyspaces : SetKeyspace(t, k)
         \/ Request(t)
         \/ Close(t)
  PROVE  IInv'
<1> USE DEF IInv, TypeOK, AnyKeyspace, Call!TypeOK, Call!CallStates
<1> DEFINE Sent == /\ call[t] = "idle"
                   /\ call' = [call EXCEPT ![t] = "outstanding"]
                   /\ inflight' = inflight \cup {t}
                   /\ outcome' = outcome
           Refused(how) == /\ call' = call /\ inflight' = inflight
                           /\ outcome' = [outcome EXCEPT ![t] = how]
<1>1. ASSUME NEW k \in AnyKeyspace, CreateSession(t, k) PROVE IInv'
  <2>1. Sent /\ phase = "new" /\ phase' = "connecting" /\ keyspace' = k
        /\ closed' = closed /\ driver' = driver
        /\ driverKeyspace' = driverKeyspace /\ answer' = answer
    BY <1>1 DEF CreateSession, Send, Call!Issue, Call!Move
  <2>2. op[t] = "none" /\ op' = [op EXCEPT ![t] = "connect"]
        /\ target' = [target EXCEPT ![t] = k]
    BY <1>1 DEF CreateSession, Start
  <2>3. ~closed
    BY <2>1 DEF FlagFollowsDriver
  <2>4. TypeOK'
    BY <2>1, <2>2
  <2>5. FlagFollowsDriver' /\ OneConnect'
    BY <2>1, <2>2, <2>3 DEF FlagFollowsDriver, OneConnect
  <2>6. CallsMatch' /\ CloserClosed'
    BY <2>1, <2>2 DEF CallsMatch, CloserClosed, ClosedOnce
  <2> QED
    BY <2>1, <2>3, <2>4, <2>5, <2>6 DEF FlagFollowsDriver
<1>2. ASSUME NEW o \in {"request", "use"}, NEW k \in AnyKeyspace,
             phase = "ready", Start(t, o, k), SendUnlessClosed(t),
             UNCHANGED <<pythonVars, driver, driverKeyspace, answer>>
      PROVE  IInv'
  <2>1. op[t] = "none" /\ op' = [op EXCEPT ![t] = o]
        /\ target' = [target EXCEPT ![t] = k]
    BY <1>2 DEF Start
  <2>2. /\ phase' = phase /\ closed' = closed /\ keyspace' = keyspace
        /\ driver' = driver /\ driverKeyspace' = driverKeyspace
        /\ answer' = answer
    BY <1>2 DEF pythonVars
  <2>3. (closed /\ Refused("RuntimeError")) \/ (~closed /\ Sent)
    BY <1>2 DEF SendUnlessClosed, Send, Finish, Call!Issue, Call!Move
  <2>4. TypeOK'
    BY <2>1, <2>2, <2>3
  <2>5. FlagFollowsDriver' /\ OneConnect'
    BY <1>2, <2>1, <2>2, <2>3 DEF FlagFollowsDriver, OneConnect
  <2>6. CallsMatch' /\ CloserClosed'
    BY <2>1, <2>2, <2>3 DEF CallsMatch, CloserClosed, ClosedOnce
  <2> QED
    BY <2>2, <2>3, <2>4, <2>5, <2>6 DEF FlagFollowsDriver
<1>3. CASE Close(t)
  <2>1. op[t] = "none" /\ op' = [op EXCEPT ![t] = "close"]
        /\ target' = [target EXCEPT ![t] = NoKeyspace]
    BY <1>3 DEF Close, Start
  <2>2. /\ phase = "ready" /\ phase' = phase /\ keyspace' = keyspace
        /\ driverKeyspace' = driverKeyspace /\ answer' = answer
    BY <1>3 DEF Close
  <2>3. CASE closed
    <3>1. Refused("noop") /\ closed' = closed /\ driver' = driver
      BY <1>3, <2>3 DEF Close, Finish
    <3>2. TypeOK'
      BY <2>1, <2>2, <3>1
    <3>3. FlagFollowsDriver' /\ OneConnect'
      BY <2>1, <2>2, <3>1 DEF FlagFollowsDriver, OneConnect
    <3>4. CallsMatch' /\ CloserClosed'
      BY <2>1, <3>1 DEF CallsMatch, CloserClosed, ClosedOnce
    <3> QED
      BY <3>1, <3>2, <3>3, <3>4
  <2>4. CASE ~closed
    <3>1. Sent /\ closed' = TRUE /\ driver' = "closing"
      BY <1>3, <2>4 DEF Close, Send, Call!Issue, Call!Move
    <3>2. TypeOK'
      BY <2>1, <2>2, <3>1
    <3>3. FlagFollowsDriver' /\ OneConnect'
      BY <2>1, <2>2, <2>4, <3>1 DEF FlagFollowsDriver, OneConnect
    <3>4. CallsMatch' /\ CloserClosed'
      BY <2>1, <2>4, <3>1 DEF CallsMatch, CloserClosed, ClosedOnce
    <3> QED
      BY <3>1, <3>2, <3>3, <3>4
  <2> QED
    BY <2>3, <2>4
<1> QED
  BY <1>1, <1>2, <1>3 DEF SetKeyspace, Request

\* The coroutines' second halves.
LEMMA EndStep ==
  ASSUME IInv, NEW t \in Tasks, Resume(t) \/ Cancel(t)
  PROVE  IInv'
<1> USE DEF IInv, TypeOK, AnyKeyspace, Call!TypeOK, Call!CallStates
<1>1. /\ closed' = closed /\ op' = op /\ target' = target
      /\ driver' = driver /\ driverKeyspace' = driverKeyspace
      /\ inflight' = inflight /\ answer' = answer
  BY DEF Resume, Cancel, driverVars
<1>2. /\ op[t] # "connect" => phase' = phase
      /\ phase' \in {"new", "connecting", "ready", "failed"}
      /\ op[t] = "connect" => phase' # "new"
  BY DEF Resume, Cancel, PhaseAfter
<1>3. \/ /\ call[t] = "answered" /\ call' = [call EXCEPT ![t] = "returned"]
      \/ /\ call[t] \in {"outstanding", "answered"} /\ phase' # "ready"
         /\ call' = [call EXCEPT ![t] = "cancelled"]
      \/ /\ call[t] \in {"outstanding", "answered"} /\ op[t] # "connect"
         /\ call' = [call EXCEPT ![t] = "cancelled"]
  BY DEF Resume, Cancel, PhaseAfter, Call!Return, Call!Abandon, Call!Move
<1>4. TypeOK'
  <2>1. outcome' \in [Tasks -> {"none", "ok", "error", "RuntimeError",
                                "noop", "cancelled"}]
    BY DEF Resume, Cancel, Finish
  <2>2. keyspace' \in AnyKeyspace
    BY DEF Resume, Cancel
  <2> QED
    BY <1>1, <1>2, <1>3, <2>1, <2>2
<1>5. FlagFollowsDriver'
  <2>1. CASE op[t] # "connect"
    BY <1>1, <1>2, <2>1 DEF FlagFollowsDriver
  <2>2. CASE op[t] = "connect"
    <3>1. ~closed
      BY <1>3, <2>2 DEF OneConnect, FlagFollowsDriver
    <3> QED
      BY <1>1, <3>1 DEF FlagFollowsDriver
  <2> QED
    BY <2>1, <2>2
<1>6. OneConnect'
  BY <1>1, <1>2, <1>3 DEF OneConnect, CallsMatch
<1>7. CallsMatch' /\ CloserClosed'
  BY <1>1, <1>3 DEF CallsMatch, CloserClosed, ClosedOnce
<1> QED
  BY <1>1, <1>4, <1>5, <1>6, <1>7

\* The driver's answers.
LEMMA DriverInv ==
  ASSUME IInv, NEW t \in Tasks, DriverStep(t)
  PROVE  IInv'
<1> USE DEF IInv, TypeOK, AnyKeyspace, Call!TypeOK, Call!CallStates
<1>1. PICK how \in {"ok", "error"} : Deliver(t, how)
  BY DEF DriverStep, AnswerConnect, AnswerRequest, AnswerClose
<1>2. /\ t \in inflight /\ inflight' = inflight \ {t}
      /\ answer' = [answer EXCEPT ![t] = how]
      /\ \/ call[t] = "outstanding" /\ call' = [call EXCEPT ![t] = "answered"]
         \/ call[t] # "outstanding" /\ call' = call
  BY <1>1 DEF Deliver, Call!Answer, Call!Move
<1>3. /\ phase' = phase /\ closed' = closed /\ keyspace' = keyspace
      /\ op' = op /\ target' = target /\ outcome' = outcome
  BY DEF DriverStep, AnswerConnect, AnswerRequest, AnswerClose, pythonVars,
         taskVars
<1>4. /\ driverKeyspace' \in {driverKeyspace, target[t]}
      /\ \/ driver' = driver
         \/ op[t] = "connect" /\ driver' \in {"connected", "failed"}
         \/ op[t] = "close" /\ driver' = "terminated" /\ inflight = {t}
  BY DEF DriverStep, AnswerConnect, AnswerRequest, AnswerClose
<1>5. TypeOK'
  BY <1>2, <1>3, <1>4
<1>6. FlagFollowsDriver'
  <2>1. CASE driver' = driver
    BY <1>3, <2>1 DEF FlagFollowsDriver
  <2>2. CASE op[t] = "connect" /\ driver' \in {"connected", "failed"}
    <3>1. ~closed
      BY <1>2, <2>2 DEF OneConnect, FlagFollowsDriver
    <3> QED
      BY <1>3, <2>2, <3>1 DEF FlagFollowsDriver
  <2>3. CASE op[t] = "close" /\ driver' = "terminated"
    <3>1. closed
      BY <1>2, <2>3 DEF CallsMatch, CloserClosed
    <3> QED
      BY <1>3, <2>3, <3>1 DEF FlagFollowsDriver
  <2> QED
    BY <1>4, <2>1, <2>2, <2>3
<1>7. OneConnect'
  BY <1>2, <1>3 DEF OneConnect
<1>8. CallsMatch'
  BY <1>2, <1>3 DEF CallsMatch
<1>9. CloserClosed'
  BY <1>2, <1>3 DEF CallsMatch, CloserClosed, ClosedOnce
<1>10. driver' = "terminated" => inflight' = {}
  BY <1>2, <1>4
<1> QED
  BY <1>5, <1>6, <1>7, <1>8, <1>9, <1>10

-----------------------------------------------------------------------------

THEOREM Inductive == SafeSpec => []IInv
<1>1. IInv /\ [Next]_vars => IInv'
  <2> SUFFICES ASSUME IInv, [Next]_vars PROVE IInv'
    OBVIOUS
  <2>1. CASE UNCHANGED vars
    BY <2>1 DEF vars, pythonVars, taskVars, driverVars, IInv, TypeOK,
                FlagFollowsDriver, OneConnect, CallsMatch, CloserClosed,
                ClosedOnce, Call!TypeOK
  <2>2. CASE Next
    <3>1. PICK t \in Tasks :
            \/ \E k \in AnyKeyspace : CreateSession(t, k)
            \/ \E k \in Keyspaces : SetKeyspace(t, k)
            \/ Request(t) \/ Close(t)
            \/ Resume(t) \/ Cancel(t)
            \/ DriverStep(t)
      BY <2>2 DEF Next
    <3> QED
      BY <3>1, StartStep, EndStep, DriverInv
  <2> QED
    BY <2>1, <2>2
<1> QED
  BY <1>1, InitInv, PTL DEF SafeSpec

\* Every variable of the session stays within its range.
THEOREM TypeCorrect == SafeSpec => []TypeOK
<1>1. IInv => TypeOK
  BY DEF IInv
<1> QED
  BY <1>1, Inductive, PTL

\* The driver is told to close at most once.
THEOREM ClosesOnce == SafeSpec => []ClosedOnce
<1>1. IInv => ClosedOnce
  BY DEF IInv, CloserClosed
<1> QED
  BY <1>1, Inductive, PTL

\* A session terminates with every accepted call answered.
THEOREM TerminatesQuietly == SafeSpec => []TerminatedIsQuiet
<1>1. IInv => TerminatedIsQuiet
  BY DEF IInv, CallsMatch, TerminatedIsQuiet
<1> QED
  BY <1>1, Inductive, PTL

\* The driver receives nothing after it has been told to close.
THEOREM NothingIsSentAfterClose == SafeSpec => NothingAfterClose
<1> DEFINE Quiet == \/ inflight' \subseteq inflight
                    \/ driver \notin {"closing", "terminated"}
<1>1. IInv /\ [Next]_vars => [Quiet]_vars
  <2> SUFFICES ASSUME IInv, NEW t \in Tasks, driver \in {"closing", "terminated"},
                      \/ \E k \in AnyKeyspace : CreateSession(t, k)
                      \/ \E k \in Keyspaces : SetKeyspace(t, k)
                      \/ Request(t) \/ Close(t)
                      \/ Resume(t) \/ Cancel(t)
                      \/ DriverStep(t)
               PROVE  inflight' \subseteq inflight
    BY DEF Next
  <2>1. closed /\ phase = "ready"
    BY DEF IInv, FlagFollowsDriver
  <2>2. ASSUME NEW k \in AnyKeyspace, CreateSession(t, k) PROVE FALSE
    BY <2>1, <2>2 DEF CreateSession
  <2>3. ASSUME (\E k \in Keyspaces : SetKeyspace(t, k)) \/ Request(t) \/ Close(t)
        PROVE  inflight' = inflight
    BY <2>1, <2>3 DEF SetKeyspace, Request, Close, SendUnlessClosed
  <2>4. ASSUME Resume(t) \/ Cancel(t) PROVE inflight' = inflight
    BY <2>4 DEF Resume, Cancel, driverVars
  <2>5. ASSUME DriverStep(t) PROVE inflight' \subseteq inflight
    BY <2>5 DEF DriverStep, AnswerConnect, AnswerRequest, AnswerClose, Deliver
  <2> QED
    BY <2>2, <2>3, <2>4, <2>5
<1> QED
  BY <1>1, Inductive, PTL DEF SafeSpec, NothingAfterClose

-----------------------------------------------------------------------------
(* The keyspace of the Python object and that of the driver's session, when *)
(* a program awaits one set_keyspace before the next (SerialUse).          *)

\* How a coroutine ended tells what has become of its call.
OutcomeMatches ==
  \A t \in Tasks :
    /\ op[t] = "none" => outcome[t] = "none"
    /\ op[t] # "none" /\ outcome[t] = "none" => call[t] \in {"outstanding", "answered"}
    /\ call[t] \in {"outstanding", "answered"} => outcome[t] = "none"
    /\ call[t] = "cancelled" => outcome[t] = "cancelled"
    /\ call[t] = "answered" => answer[t] \in {"ok", "error"}

\* A session that is not handed out yet has been used by its connect only.
ConnectAgrees ==
  phase \in {"new", "connecting"} =>
    \A t \in Tasks :
      /\ op[t] \in {"none", "connect"}
      /\ op[t] = "connect" => keyspace = target[t]
      /\ op[t] = "connect" /\ call[t] = "answered" /\ answer[t] = "ok"
           => driverKeyspace = target[t]

\* What UseInProgress says of one task.
InUse(t) == op[t] = "use" /\ (outcome[t] = "none" \/ t \in inflight)

OneUse == \A t, u \in Tasks : InUse(t) /\ InUse(u) => t = u

NoUseCancelled == \A t \in Tasks : op[t] = "use" => outcome[t] # "cancelled"

\* Between the driver's change of keyspace and the coroutine's, and only there,
\* the two differ.
UseAgrees ==
  phase = "ready" /\ NoUseCancelled =>
    \/ keyspace = driverKeyspace
    \/ \E t \in Tasks : /\ op[t] = "use" /\ call[t] = "answered" /\ answer[t] = "ok"
                        /\ driverKeyspace = target[t]

\* A USE that has been answered and not been noticed is the latest.
AnsweredUse ==
  phase = "ready" /\ NoUseCancelled =>
    \A t \in Tasks :
      op[t] = "use" /\ call[t] = "answered" =>
        IF answer[t] = "ok" THEN driverKeyspace = target[t] ELSE keyspace = driverKeyspace

KeyspaceInv == OutcomeMatches /\ ConnectAgrees /\ OneUse /\ UseAgrees /\ AnsweredUse

LEMMA KeyspaceInit == Init => KeyspaceInv
BY DEF Init, KeyspaceInv, OutcomeMatches, ConnectAgrees, OneUse, InUse, UseAgrees,
       AnsweredUse, NoUseCancelled, Call!Init

\* A coroutine starts: it sends its call, or ends without one.
LEMMA KeyspaceStart ==
  ASSUME IInv, KeyspaceInv, SerialUse, NEW t \in Tasks,
         \/ \E k \in AnyKeyspace : CreateSession(t, k)
         \/ \E k \in Keyspaces : SetKeyspace(t, k)
         \/ Request(t)
         \/ Close(t)
  PROVE  KeyspaceInv'
<1> USE DEF IInv, TypeOK, AnyKeyspace, Call!TypeOK, Call!CallStates, KeyspaceInv
<1>1. /\ op[t] = "none" /\ call[t] = "idle" /\ t \notin inflight /\ outcome[t] = "none"
      /\ driverKeyspace' = driverKeyspace /\ answer' = answer
  BY DEF CreateSession, SetKeyspace, Request, Close, Start, CallsMatch, OutcomeMatches
<1>2. \/ /\ call' = [call EXCEPT ![t] = "outstanding"] /\ inflight' = inflight \cup {t}
         /\ outcome' = outcome
      \/ /\ call' = call /\ inflight' = inflight
         /\ \E how \in {"RuntimeError", "noop"} : outcome' = [outcome EXCEPT ![t] = how]
  BY DEF CreateSession, SetKeyspace, Request, Close, SendUnlessClosed, Send, Finish,
         Call!Issue, Call!Move
<1>3. PICK o \in {"connect", "request", "use", "close"}, k \in AnyKeyspace :
        /\ op' = [op EXCEPT ![t] = o] /\ target' = [target EXCEPT ![t] = k]
        /\ o = "connect" => /\ phase = "new" /\ phase' = "connecting" /\ keyspace' = k
                            /\ \A u \in Tasks : op[u] # "connect"
        /\ o # "connect" => phase = "ready" /\ phase' = "ready" /\ keyspace' = keyspace
        /\ o = "use" => \A u \in Tasks : ~InUse(u)
  BY DEF CreateSession, SetKeyspace, Request, Close, Start, pythonVars, OneConnect,
         UseInProgress, InUse
<1>4. OutcomeMatches'
  BY <1>1, <1>2, <1>3 DEF OutcomeMatches
<1>5. ConnectAgrees'
  BY <1>1, <1>2, <1>3 DEF ConnectAgrees
<1>6. OneUse'
  BY <1>1, <1>2, <1>3 DEF OneUse, InUse
<1>7. UseAgrees' /\ AnsweredUse'
  <2>1. CASE o = "connect"
    BY <1>3, <2>1 DEF UseAgrees, AnsweredUse
  <2>2. CASE o # "connect"
    BY <1>1, <1>2, <1>3, <2>2 DEF UseAgrees, AnsweredUse, NoUseCancelled
  <2> QED
    BY <2>1, <2>2
<1> QED
  BY <1>4, <1>5, <1>6, <1>7

\* A coroutine ends: the keyspace is set here.
LEMMA KeyspaceEnd ==
  ASSUME IInv, KeyspaceInv, NEW t \in Tasks, Resume(t) \/ Cancel(t)
  PROVE  KeyspaceInv'
<1> USE DEF IInv, TypeOK, AnyKeyspace, Call!TypeOK, Call!CallStates, KeyspaceInv
<1>1. /\ op' = op /\ target' = target /\ driverKeyspace' = driverKeyspace
      /\ inflight' = inflight /\ answer' = answer
  BY DEF Resume, Cancel, driverVars
<1>2. CASE Resume(t)
  <2>1. /\ call[t] = "answered" /\ call' = [call EXCEPT ![t] = "returned"]
        /\ outcome' = [outcome EXCEPT ![t] = answer[t]]
        /\ answer[t] \in {"ok", "error"} /\ outcome[t] = "none"
    BY <1>2 DEF Resume, Finish, Call!Return, Call!Move, OutcomeMatches
  <2>2. /\ keyspace' = IF op[t] = "use" /\ answer[t] = "ok" THEN target[t] ELSE keyspace
        /\ op[t] # "connect" => phase' = phase
        /\ op[t] = "connect" => phase' = IF answer[t] = "ok" THEN "ready" ELSE "failed"
    BY <1>2 DEF Resume, PhaseAfter
  <2>3. OutcomeMatches' /\ OneUse'
    <3>1. op[t] # "none"
      BY <2>1 DEF CallsMatch
    <3>2. OutcomeMatches'
      BY <1>1, <2>1, <3>1 DEF OutcomeMatches
    <3>3. OneUse'
      BY <1>1, <2>1 DEF OneUse, InUse
    <3> QED
      BY <3>2, <3>3
  <2>4. ConnectAgrees'
    BY <1>1, <2>1, <2>2 DEF ConnectAgrees
  <2>5. NoUseCancelled' => NoUseCancelled
    BY <1>1, <2>1 DEF NoUseCancelled
  <2>6. CASE op[t] = "connect"
    <3>1. ASSUME phase' = "ready" PROVE keyspace' = driverKeyspace'
      BY <1>1, <2>1, <2>2, <2>6, <3>1 DEF OneConnect, ConnectAgrees
    <3>2. ASSUME phase' = "ready", NEW u \in Tasks PROVE op[u] # "use"
      BY <2>1, <2>2, <2>6, <3>2 DEF OneConnect, ConnectAgrees
    <3> QED
      BY <1>1, <2>3, <2>4, <3>1, <3>2 DEF UseAgrees, AnsweredUse
  <2>7. CASE op[t] = "use"
    <3>1. \A u \in Tasks : op[u] = "use" /\ call'[u] = "answered" => FALSE
      BY <1>1, <2>1, <2>7 DEF OneUse, InUse, OutcomeMatches
    <3>2. phase' = "ready" /\ NoUseCancelled' => keyspace' = driverKeyspace'
      BY <1>1, <2>1, <2>2, <2>5, <2>7 DEF AnsweredUse
    <3> QED
      BY <1>1, <2>3, <2>4, <3>1, <3>2 DEF UseAgrees, AnsweredUse
  <2>8. CASE op[t] \notin {"connect", "use"}
    BY <1>1, <2>1, <2>2, <2>3, <2>4, <2>5, <2>8 DEF UseAgrees, AnsweredUse
  <2> QED
    BY <2>6, <2>7, <2>8
<1>3. CASE Cancel(t)
  <2>1. /\ call[t] \in {"outstanding", "answered"} /\ call' = [call EXCEPT ![t] = "cancelled"]
        /\ outcome' = [outcome EXCEPT ![t] = "cancelled"] /\ outcome[t] = "none"
        /\ keyspace' = keyspace
        /\ op[t] # "connect" => phase' = phase
        /\ op[t] = "connect" => phase' = "failed"
    BY <1>3 DEF Cancel, Finish, PhaseAfter, Call!Abandon, Call!Move, OutcomeMatches
  <2>2. OutcomeMatches' /\ OneUse'
    <3>1. op[t] # "none"
      BY <2>1 DEF CallsMatch
    <3>2. OutcomeMatches'
      BY <1>1, <2>1, <3>1 DEF OutcomeMatches
    <3>3. OneUse'
      BY <1>1, <2>1 DEF OneUse, InUse
    <3> QED
      BY <3>2, <3>3
  <2>3. ConnectAgrees'
    BY <1>1, <2>1 DEF ConnectAgrees
  <2>4. NoUseCancelled' => NoUseCancelled /\ op[t] # "use"
    BY <1>1, <2>1 DEF NoUseCancelled
  <2>5. UseAgrees' /\ AnsweredUse'
    BY <1>1, <2>1, <2>4 DEF UseAgrees, AnsweredUse
  <2> QED
    BY <2>2, <2>3, <2>5
<1> QED
  BY <1>2, <1>3

\* The driver answers: its keyspace is set here.
LEMMA KeyspaceAnswer ==
  ASSUME IInv, KeyspaceInv, NEW t \in Tasks, DriverStep(t)
  PROVE  KeyspaceInv'
<1> USE DEF IInv, TypeOK, AnyKeyspace, Call!TypeOK, Call!CallStates, KeyspaceInv
<1>1. PICK how \in {"ok", "error"} :
        /\ Deliver(t, how)
        /\ driverKeyspace' = IF op[t] \in {"connect", "use"} /\ how = "ok"
                             THEN target[t] ELSE driverKeyspace
  BY DEF DriverStep, AnswerConnect, AnswerRequest, AnswerClose
<1>2. /\ t \in inflight /\ inflight' = inflight \ {t}
      /\ answer' = [answer EXCEPT ![t] = how]
      /\ \/ call[t] = "outstanding" /\ call' = [call EXCEPT ![t] = "answered"]
         \/ call[t] = "cancelled" /\ call' = call
  BY <1>1 DEF Deliver, Call!Answer, Call!Move, CallsMatch
<1>3. /\ phase' = phase /\ keyspace' = keyspace
      /\ op' = op /\ target' = target /\ outcome' = outcome
  BY DEF DriverStep, AnswerConnect, AnswerRequest, AnswerClose, pythonVars, taskVars
<1>4. OutcomeMatches' /\ OneUse'
  BY <1>2, <1>3 DEF OutcomeMatches, OneUse, InUse
<1>5. ConnectAgrees'
  BY <1>1, <1>2, <1>3 DEF ConnectAgrees, OneConnect
<1>6. UseAgrees' /\ AnsweredUse'
  <2>1. SUFFICES ASSUME phase = "ready", NoUseCancelled PROVE UseAgrees' /\ AnsweredUse'
    BY <1>3 DEF UseAgrees, AnsweredUse, NoUseCancelled
  <2>2. op[t] # "connect"
    BY <1>2, <2>1 DEF OneConnect
  <2>3. CASE op[t] = "use"
    <3>1. call[t] = "outstanding"
      BY <1>2, <2>1, <2>3 DEF OutcomeMatches, NoUseCancelled
    <3>2. \A u \in Tasks : op[u] = "use" /\ call[u] = "answered" => FALSE
      BY <1>2, <2>3, <3>1 DEF OneUse, InUse, OutcomeMatches
    <3>3. keyspace = driverKeyspace
      BY <2>1, <3>2 DEF UseAgrees
    <3> QED
      BY <1>1, <1>2, <1>3, <2>1, <2>3, <3>1, <3>2, <3>3 DEF UseAgrees, AnsweredUse
  <2>4. CASE op[t] # "use"
    BY <1>1, <1>2, <1>3, <2>1, <2>2, <2>4 DEF UseAgrees, AnsweredUse
  <2> QED
    BY <2>3, <2>4
<1> QED
  BY <1>4, <1>5, <1>6

\* Session.keyspace is the keyspace the driver works in, once no set_keyspace is
\* in progress, in programs that await one before the next and cancel none.
THEOREM KeyspacesAgree == ASSUME SerialUse PROVE SafeSpec => []KeyspaceAgrees
<1>1. IInv /\ KeyspaceInv /\ [Next]_vars => KeyspaceInv'
  <2> SUFFICES ASSUME IInv, KeyspaceInv, [Next]_vars PROVE KeyspaceInv'
    OBVIOUS
  <2>1. CASE UNCHANGED vars
    BY <2>1 DEF vars, pythonVars, taskVars, driverVars, KeyspaceInv, OutcomeMatches,
                ConnectAgrees, OneUse, InUse, UseAgrees, AnsweredUse, NoUseCancelled
  <2>2. CASE Next
    <3>1. PICK t \in Tasks :
            \/ \E k \in AnyKeyspace : CreateSession(t, k)
            \/ \E k \in Keyspaces : SetKeyspace(t, k)
            \/ Request(t) \/ Close(t)
            \/ Resume(t) \/ Cancel(t)
            \/ DriverStep(t)
      BY <2>2 DEF Next
    <3> QED
      BY <3>1, KeyspaceStart, KeyspaceEnd, KeyspaceAnswer
  <2> QED
    BY <2>1, <2>2
<1>2. KeyspaceInv => KeyspaceAgrees
  BY DEF KeyspaceInv, KeyspaceAgrees, UseAgrees, NoUseCancelled, UseInProgress, OutcomeMatches
<1> QED
  BY <1>1, <1>2, KeyspaceInit, Inductive, PTL DEF SafeSpec

-----------------------------------------------------------------------------
\* Metadata.

\* The snapshots of the driver that are held.
Holding == {m \in Metas : snapshot[m] > 0}

\* A Metadata answers after it has a snapshot, and of that; what is freed was
\* of one schema too.
Answers(m) ==
  /\ snapshot[m] \in {Unmade, Null} => answered[m] = {}
  /\ snapshot[m] \notin {Unmade, Null, Freed} => answered[m] \subseteq {snapshot[m]}
  /\ \A v, w \in answered[m] : v = w

SnapshotInv ==
  /\ history \in Seq(Contents \cup {None}) /\ history # << >>
  /\ snapshot \in [Metas -> Int] /\ answered \in [Metas -> SUBSET Int]
  /\ \A m \in Metas : Answers(m)
  /\ IsFiniteSet(Holding) /\ heldSnapshots = Cardinality(Holding)

LEMMA SnapshotKinds ==
  /\ Unmade = 0 /\ Null \in Int /\ Null < 0 /\ Garbage \in Int /\ Garbage < 0 /\ Freed \in Int /\ Freed < 0
  /\ Null # Garbage /\ Null # Freed /\ Garbage # Freed
BY DEF Unmade, Null, Garbage, Freed

LEMMA SnapshotInitInv == SnapshotInit => SnapshotInv
<1> SUFFICES ASSUME SnapshotInit PROVE SnapshotInv
  OBVIOUS
<1>1. snapshot \in [Metas -> Int] /\ answered \in [Metas -> SUBSET Int] /\ \A m \in Metas : Answers(m)
  BY SnapshotKinds DEF SnapshotInit, Answers
<1>2. Holding = {} /\ heldSnapshots = 0
  BY DEF SnapshotInit, Holding, Unmade
<1>3. history \in Seq(Contents \cup {None}) /\ history # << >>
  BY DEF SnapshotInit
<1> QED
  BY <1>1, <1>2, <1>3, FS_EmptySet DEF SnapshotInv

\* One Metadata has another snapshot or another answer.
LEMMA OneMeta ==
  ASSUME SnapshotInv, NEW m \in Metas, NEW v \in Int, NEW a \in SUBSET Int,
         snapshot' = [snapshot EXCEPT ![m] = v], answered' = [answered EXCEPT ![m] = a],
         UNCHANGED history,
         v \in {Unmade, Null} => a = {},
         v \notin {Unmade, Null, Freed} => a \subseteq {v},
         \A x, y \in a : x = y,
         heldSnapshots' = (IF v > 0 THEN 1 ELSE 0) + heldSnapshots - (IF snapshot[m] > 0 THEN 1 ELSE 0)
  PROVE  SnapshotInv'
<1>1. snapshot' \in [Metas -> Int] /\ answered' \in [Metas -> SUBSET Int]
  BY DEF SnapshotInv
<1>2. \A n \in Metas : Answers(n)'
  <2> SUFFICES ASSUME NEW n \in Metas PROVE Answers(n)'
    OBVIOUS
  <2>1. CASE n = m
    BY <2>1 DEF SnapshotInv, Answers, Unmade, Null, Freed
  <2>2. CASE n # m
    BY <2>2 DEF SnapshotInv, Answers, Unmade, Null, Freed
  <2> QED
    BY <2>1, <2>2
<1>3. IsFiniteSet(Holding) /\ heldSnapshots = Cardinality(Holding) /\ heldSnapshots \in Nat
  BY FS_CardinalityType DEF SnapshotInv
<1>4. (snapshot[m] > 0 <=> m \in Holding) /\ Holding' = IF v > 0 THEN Holding \cup {m} ELSE Holding \ {m}
  BY DEF SnapshotInv, Holding
<1>5. IsFiniteSet(Holding') /\ heldSnapshots' = Cardinality(Holding')
  <2>1. CASE v > 0
    <3>1. IsFiniteSet(Holding \cup {m}) /\ Cardinality(Holding \cup {m}) = (IF m \in Holding THEN heldSnapshots ELSE heldSnapshots + 1)
      BY <1>3, FS_AddElement
    <3> QED
      BY <1>3, <1>4, <2>1, <3>1
  <2>2. CASE ~(v > 0)
    <3>1. IsFiniteSet(Holding \ {m}) /\ Cardinality(Holding \ {m}) = (IF m \in Holding THEN heldSnapshots - 1 ELSE heldSnapshots)
      BY <1>3, FS_RemoveElement
    <3> QED
      BY <1>3, <1>4, <2>2, <3>1
  <2> QED
    BY <2>1, <2>2
<1> QED
  BY <1>1, <1>2, <1>5 DEF SnapshotInv

LEMMA AskInv ==
  ASSUME SnapshotInv, NEW m \in Metas, Ask(m)
  PROVE  SnapshotInv'
<1> DEFINE v == snapshot[m]
           n == Len(history)
<1>1. v \in Int /\ v \notin {Unmade, Freed} /\ history' = history /\ answered[m] \in SUBSET Int /\ Answers(m)
  BY DEF SnapshotInv, Ask
<1>2. n \in Int /\ n > 0
  BY DEF SnapshotInv
<1>3. heldSnapshots \in Nat
  BY FS_CardinalityType DEF SnapshotInv
<1>4. ASSUME v # Null, answered' = [answered EXCEPT ![m] = @ \cup {v}], UNCHANGED <<snapshot, heldSnapshots>>
      PROVE  SnapshotInv'
  <2>1. answered[m] \cup {v} \subseteq {v}
    BY <1>1, <1>4 DEF Answers
  <2>2. snapshot' = [snapshot EXCEPT ![m] = v] /\ answered' = [answered EXCEPT ![m] = answered[m] \cup {v}]
    BY <1>4 DEF SnapshotInv
  <2>3. heldSnapshots' = (IF v > 0 THEN 1 ELSE 0) + heldSnapshots - (IF snapshot[m] > 0 THEN 1 ELSE 0)
    BY <1>1, <1>3, <1>4
  <2>4. answered[m] \cup {v} \in SUBSET Int
    BY <1>1
  <2> HIDE DEF v
  <2>5. \A x, y \in answered[m] \cup {v} : x = y
    BY <2>1
  <2> QED
    BY <1>1, <1>4, <2>1, <2>2, <2>3, <2>4, <2>5, OneMeta
<1>5. ASSUME NEW w \in Int, w > 0 \/ w = Garbage, v = Null,
             snapshot' = [snapshot EXCEPT ![m] = w], answered' = [answered EXCEPT ![m] = @ \cup {w}],
             heldSnapshots' = IF w > 0 THEN heldSnapshots + 1 ELSE heldSnapshots
      PROVE  SnapshotInv'
  <2>1. answered[m] = {}
    BY <1>1, <1>5 DEF Answers
  <2>2. answered' = [answered EXCEPT ![m] = {w}]
    BY <1>5, <2>1
  <2>3. w \notin {Unmade, Null, Freed} /\ ~(snapshot[m] > 0)
    BY <1>5, SnapshotKinds
  <2>4. heldSnapshots' = (IF w > 0 THEN 1 ELSE 0) + heldSnapshots - (IF snapshot[m] > 0 THEN 1 ELSE 0)
    BY <1>3, <1>5, <2>3
  <2>5. {w} \in SUBSET Int /\ {w} \subseteq {w} /\ \A x, y \in {w} : x = y
    OBVIOUS
  <2> QED
    BY <1>1, <1>5, <2>2, <2>3, <2>4, <2>5, OneMeta
<1>6. CASE UNCHANGED <<snapshot, answered, heldSnapshots>>
  BY <1>1, <1>6 DEF SnapshotInv, Answers, Holding
<1>7. Garbage \in Int /\ ~(Garbage > 0)
  BY SnapshotKinds
<1> QED
  BY <1>2, <1>4, <1>5, <1>6, <1>7 DEF Ask, GetSchemaMeta

LEMMA SnapshotStep ==
  ASSUME SnapshotInv, [SnapshotNext]_snapshotVars
  PROVE  SnapshotInv'
<1>1. ASSUME Change PROVE SnapshotInv'
  <2>1. PICK k \in {None, history[1]} : history' = Append(history, k)
    BY <1>1 DEF Change
  <2>2. k \in Contents \cup {None}
    BY DEF SnapshotInv
  <2>3. history' \in Seq(Contents \cup {None}) /\ history' # << >>
    BY <2>1, <2>2 DEF SnapshotInv
  <2> QED
    BY <1>1, <2>3 DEF Change, SnapshotInv, Answers, Holding
<1>2. ASSUME NEW m \in Metas, NewMetadata(m) PROVE SnapshotInv'
  <2>1. /\ snapshot[m] = Unmade /\ snapshot' = [snapshot EXCEPT ![m] = Null]
        /\ UNCHANGED <<history, answered, heldSnapshots>>
    BY <1>2 DEF NewMetadata
  <2>2. answered[m] = {} /\ answered' = [answered EXCEPT ![m] = {}]
    BY <2>1 DEF SnapshotInv, Answers
  <2>3. heldSnapshots \in Nat
    BY FS_CardinalityType DEF SnapshotInv
  <2>4. Null \in Int /\ heldSnapshots' = (IF Null > 0 THEN 1 ELSE 0) + heldSnapshots - (IF snapshot[m] > 0 THEN 1 ELSE 0)
    BY <2>1, <2>3, SnapshotKinds
  <2> QED
    BY <2>1, <2>2, <2>4, OneMeta
<1>3. ASSUME NEW m \in Metas, DeallocMetadata(m) PROVE SnapshotInv'
  <2>1. /\ snapshot' = [snapshot EXCEPT ![m] = Freed] /\ heldSnapshots' = (IF snapshot[m] > 0 THEN heldSnapshots - 1 ELSE heldSnapshots)
        /\ UNCHANGED <<history, answered>>
    BY <1>3 DEF DeallocMetadata
  <2>2. answered[m] \in SUBSET Int /\ answered' = [answered EXCEPT ![m] = answered[m]] /\ Answers(m)
    BY <2>1 DEF SnapshotInv
  <2>3. heldSnapshots \in Nat
    BY FS_CardinalityType DEF SnapshotInv
  <2>4. Freed \in Int /\ Freed \notin {Unmade, Null} /\ ~(Freed > 0)
    BY SnapshotKinds
  <2>5. heldSnapshots' = (IF Freed > 0 THEN 1 ELSE 0) + heldSnapshots - (IF snapshot[m] > 0 THEN 1 ELSE 0)
    BY <2>1, <2>3, <2>4
  <2> QED
    BY <2>1, <2>2, <2>4, <2>5, OneMeta DEF Answers
<1>4. CASE SessionFreed \/ UNCHANGED snapshotVars
  BY <1>4 DEF SessionFreed, snapshotVars, SnapshotInv, Answers, Holding
<1> QED
  BY <1>1, <1>2, <1>3, <1>4, AskInv DEF SnapshotNext

LEMMA SnapshotOfAll == SnapshotInv => OneSnapshot
<1> SUFFICES ASSUME SnapshotInv PROVE OneSnapshot
  OBVIOUS
<1>1. ASSUME NEW m \in Metas PROVE Cardinality(answered[m]) <= 1
  <2>1. \A v, w \in answered[m] : v = w
    BY DEF SnapshotInv, Answers
  <2>2. CASE answered[m] = {}
    BY <2>2, FS_EmptySet
  <2>3. ASSUME NEW v \in answered[m] PROVE Cardinality(answered[m]) <= 1
    <3>1. answered[m] = {v}
      BY <2>1
    <3>2. Cardinality({v}) = 1
      BY FS_Singleton
    <3> QED
      BY <3>1, <3>2
  <2> QED
    BY <2>2, <2>3
<1> QED
  BY <1>1 DEF OneSnapshot, SnapshotInv, Holding

\* The answers of a Metadata are all of one schema, and the driver's snapshots
\* are given back once, whatever the scripts that are replayed meanwhile.
THEOREM MetadataIsOfOneSchema == Schema!ScriptSpec => []OneSnapshot
<1>1. Schema!ScriptInit => SnapshotInv
  BY SnapshotInitInv DEF Schema!ScriptInit, Schema!SnapshotInit, SnapshotInit, Schema!Unmade, Unmade
<1>2. SnapshotInv /\ [Schema!ScriptNext]_Schema!scriptVars => SnapshotInv'
  <2> SUFFICES ASSUME SnapshotInv, [Schema!ScriptNext]_Schema!scriptVars PROVE SnapshotInv'
    OBVIOUS
  <2>1. Schema!SnapshotNext => SnapshotNext
    BY DEF Schema!SnapshotNext, SnapshotNext, Schema!Change, Change, Schema!SessionFreed, SessionFreed,
           Schema!NewMetadata, NewMetadata, Schema!Ask, Ask, Schema!DeallocMetadata, DeallocMetadata, Schema!GetSchemaMeta, GetSchemaMeta,
           Schema!Unmade, Unmade, Schema!Null, Null, Schema!Garbage, Garbage, Schema!Freed, Freed
  <2>2. ASSUME NEW m \in Metas, NEW full \in BOOLEAN, Schema!Recreate(m, full)
        PROVE  UNCHANGED snapshotVars
    BY <2>2, Zenon DEF Schema!Recreate, Schema!snapshotVars, snapshotVars
  <2>3. ASSUME Schema!Execute PROVE UNCHANGED snapshotVars
    BY <2>3, Zenon DEF Schema!Execute, Schema!snapshotVars, snapshotVars
  <2>4. ASSUME UNCHANGED Schema!scriptVars PROVE UNCHANGED snapshotVars
    BY <2>4 DEF Schema!scriptVars, Schema!snapshotVars, snapshotVars
  <2>5. Schema!SnapshotNext \/ UNCHANGED snapshotVars
    BY <2>2, <2>3, <2>4 DEF Schema!ScriptNext
  <2> QED
    BY <2>1, <2>5, SnapshotStep
<1> QED
  BY <1>1, <1>2, SnapshotOfAll, PTL DEF Schema!ScriptSpec

=============================================================================
