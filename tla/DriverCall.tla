----------------------------- MODULE DriverCall -----------------------------
(***************************************************************************)
(* What an awaited call of the driver promises to the Python task that     *)
(* awaits it, with no word about threads, queues or sockets.  A task       *)
(* issues a call; the driver answers it; the task returns with the answer, *)
(* or is cancelled by its owner, or the call is refused on the spot.       *)
(* Every  await  of session.pyx (connect, execute, execute_batch,          *)
(* create_prepared, close) is such a call.                                 *)
(***************************************************************************)

CONSTANT Requests      \* the calls, one member per awaited CassFuture

VARIABLE call          \* call[r]: how far the call r has come

CallStates == {"idle", "outstanding", "answered",
               "returned", "cancelled", "refused"}

Init == call = [r \in Requests |-> "idle"]

Move(r, from, to) == /\ call[r] \in from
                     /\ call' = [call EXCEPT ![r] = to]

Issue(r) == Move(r, {"idle"}, "outstanding")

\* The driver, or the wrapper around it, rejects the call when it is made.
Refuse(r) == Move(r, {"idle", "outstanding", "answered"}, "refused")

Answer(r) == Move(r, {"outstanding"}, "answered")

\* A task only ever returns from a call that has been answered.
Return(r) == Move(r, {"answered"}, "returned")

Abandon(r) == Move(r, {"outstanding", "answered"}, "cancelled")

Next == \E r \in Requests :
           Issue(r) \/ Refuse(r) \/ Answer(r) \/ Return(r) \/ Abandon(r)

SafeSpec == Init /\ [][Next]_call

Fairness == \A r \in Requests : WF_call(Answer(r)) /\ WF_call(Return(r))

Spec == SafeSpec /\ Fairness

-----------------------------------------------------------------------------

TypeOK == call \in [Requests -> CallStates]

Over(r) == call[r] \in {"returned", "cancelled", "refused"}

\* A call that has been issued is over some day.
EveryCallEnds == \A r \in Requests : call[r] = "outstanding" ~> Over(r)
=============================================================================
