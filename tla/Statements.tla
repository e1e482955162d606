------------------------------ MODULE Statements ------------------------------
(* Statements, made from a string or from a PreparedStatement, bound, bound again, *)
(* put into a batch and executed.  A bind is several calls of the driver and may   *)
(* raise between two of them.  The driver keeps a reference to the statement and   *)
(* writes the request in a thread of its own, some time after it was executed.     *)
EXTENDS Naturals, Sequences, FiniteSets

CONSTANTS
  None,      \* Python's None; as a parameter, null
  Unset,     \* a parameter the driver was given no value for
  N,         \* parameters of the prepared query
  Stmts,     \* statements a program has
  Inputs,    \* parameters it gives: sequences of <<index, value>>
  Defaults,  \* timeouts a PreparedStatement may have been made with
  MaxCalls,  \* at most this many calls that make or bind statements
  MaxSize,   \* elements of a container
  MaxDepth   \* containers in containers

ASSUME CountsAreNat == N \in Nat /\ MaxSize \in Nat
ASSUME NoneIsNoValue == None # Unset
(* No parameter is given twice.                                                    *)
ASSUME InputsAreParameters ==
  \A ps \in Inputs : /\ ps \in Seq((Nat \ {0}) \X {ps[j][2] : j \in DOMAIN ps})
                     /\ \A i, j \in DOMAIN ps : ps[i][1] = ps[j][1] => i = j

VARIABLES
  stmts,   \* the statements there are
  op,      \* the call that runs: << >> or <<record>>
  frames,  \* the containers it is building, the innermost last
  live,    \* driver containers made and not freed
  lost,    \* of those, the ones an exception left behind
  tupled,  \* of those, the ones put into a tuple
  batch,   \* the entries of a batch
  flight,  \* requests the driver has not written yet
  sent,    \* the latest request it wrote
  calls    \* calls so far

vars == <<stmts, op, frames, live, lost, tupled, batch, flight, sent, calls>>

--------------------------------------------------------------------------------
(* A name stands for the index the driver finds for it.  N + 1 is a parameter the  *)
(* query does not have.                                                            *)
Blank(n) == [i \in 1..n |-> Unset]
Assign(slots, ps) ==
  [i \in DOMAIN slots |->
     IF \E j \in DOMAIN ps : ps[j][1] = i
     THEN ps[CHOOSE j \in DOMAIN ps : ps[j][1] = i][2] ELSE slots[i]]

(* What a call has to do: reset the parameters, bind them, set what it was given.  *)
Resets(n) == <<[do |-> "reset", n |-> n]>>
Binds(ps) == [j \in DOMAIN ps |-> [do |-> "bind", i |-> ps[j][1], v |-> ps[j][2]]]
Sets(o)   == IF o = None THEN << >> ELSE <<[do |-> "timeout", o |-> o]>>

(* `timeout or self.timeout`: zero counts as not given.                            *)
OrDefault(o, default) == IF o \in {None, "zero"} THEN default ELSE o

Timeouts == {None, "zero", "given", "refused"}

(* How parameters are given: a list or tuple, a dict, a dict and its value_types.  *)
Modes == {"index", "name", "typed name"}

Busy == op # << >>

(* A call begins.  Its lost is what others have left behind by then.                *)
Begin(s, kind, mode, stmt, steps, want) ==
  /\ ~Busy /\ calls < MaxCalls
  /\ calls' = calls + 1
  /\ stmts' = [stmts EXCEPT ![s] = <<stmt>>]
  /\ op' = <<[s |-> s, kind |-> kind, mode |-> mode, steps |-> steps, want |-> want, lost |-> lost]>>
  /\ UNCHANGED <<frames, live, lost, tupled, batch, flight, sent>>

InOrder(ps) == \A j \in DOMAIN ps : ps[j][1] = j

(* Statement.new_from_string: a list or tuple is bound by index, a dict by name,   *)
(* then come the options; `parameters` may also be a number.                       *)
NewFromString(s, ps, mode, o) ==
  /\ stmts[s] = << >>
  /\ mode # "index" \/ InOrder(ps)
  /\ \E n \in IF ps = << >> THEN {0, N} ELSE {Len(ps)} :
       Begin(s, "factory", mode,
             [prepared |-> FALSE, own |-> FALSE, slots |-> Blank(n), timeout |-> None],
             Binds(ps) \o Sets(o), [slots |-> Assign(Blank(n), ps), timeout |-> o])

(* Mutant: one Statement for every call, as long as there is one.                  *)
PreparedBind_Shared(s, ps, mode, o, default) ==
  /\ stmts[s] # << >> => stmts[s][1].prepared
  /\ mode # "index" \/ InOrder(ps)
  /\ Begin(s, "call", mode,
           [prepared |-> TRUE, own |-> TRUE, slots |-> Blank(N), timeout |-> None],
           Sets(OrDefault(o, default)) \o Binds(ps),
           [slots |-> Assign(Blank(N), ps), timeout |-> OrDefault(o, default)])

(* PreparedStatement.bind and __call__: a new Statement each time, its options     *)
(* first.  own: nothing but this call has bound it.                                *)
PreparedBind(s, ps, mode, o, default) ==
  /\ stmts[s] = << >>
  /\ mode # "index" \/ InOrder(ps)
  /\ Begin(s, "factory", mode,
           [prepared |-> TRUE, own |-> TRUE, slots |-> Blank(N), timeout |-> None],
           Sets(OrDefault(o, default)) \o Binds(ps),
           [slots |-> Assign(Blank(N), ps), timeout |-> OrDefault(o, default)])

(* Mutant: the parameters of the call before are not reset.                        *)
Call_NoReset(s, ps, mode, o) ==
  /\ stmts[s] # << >>
  /\ mode # "index" \/ InOrder(ps)
  /\ Begin(s, "call", mode, [stmts[s][1] EXCEPT !.own = FALSE],
           Binds(ps) \o Sets(o),
           [slots |-> Assign(Blank(Len(ps)), ps), timeout |-> IF o = None THEN stmts[s][1].timeout ELSE o])

(* Statement.__call__ binds the Statement itself again, whoever else has it.  (The *)
(* statements here belong to a session; others raise at once.)                     *)
Call(s, ps, mode, o) ==
  /\ stmts[s] # << >>
  /\ mode # "index" \/ InOrder(ps)
  /\ Begin(s, "call", mode, [stmts[s][1] EXCEPT !.own = FALSE],
           Resets(Len(ps)) \o Binds(ps) \o Sets(o),
           [slots |-> Assign(Blank(Len(ps)), ps), timeout |-> IF o = None THEN stmts[s][1].timeout ELSE o])

(* What has no length is refused at once, what is neither a list or tuple nor a     *)
(* dict when the parameters have been reset to its length.                         *)
CallRefused(s, n) ==
  /\ ~Busy /\ stmts[s] # << >> /\ calls < MaxCalls
  /\ calls' = calls + 1
  /\ stmts' = [stmts EXCEPT ![s] = <<[@[1] EXCEPT !.own = FALSE, !.slots = Blank(n)]>>]
  /\ UNCHANGED <<op, frames, live, lost, tupled, batch, flight, sent>>

(* Without parameters it keeps the ones there are.                                 *)
CallAgain(s, o) ==
  /\ stmts[s] # << >>
  /\ Begin(s, "call", "index", [stmts[s][1] EXCEPT !.own = FALSE], Sets(o),
           [slots |-> stmts[s][1].slots, timeout |-> IF o = None THEN stmts[s][1].timeout ELSE o])

(* bind, bind_by_name, bind_list, bind_tuple, bind_dict of the program.            *)
Bind(s, ps, mode) ==
  /\ stmts[s] # << >>
  /\ mode # "index" \/ InOrder(ps) \/ Len(ps) = 1
  /\ Begin(s, "bind", mode, [stmts[s][1] EXCEPT !.own = FALSE], Binds(ps),
           [slots |-> Assign(stmts[s][1].slots, ps), timeout |-> stmts[s][1].timeout])

--------------------------------------------------------------------------------
(* The steps of a call.                                                            *)
Step == op[1].steps[1]
This == stmts[op[1].s][1]
Done == op' = <<[op[1] EXCEPT !.steps = Tail(@)]>>

(* An exception leaves the call.  Nothing frees the containers under construction; *)
(* a Statement its factory does not return is deallocated.                         *)
Raise(open) ==
  /\ op' = << >> /\ frames' = << >>
  /\ lost' = lost + open /\ UNCHANGED tupled
  /\ stmts' = IF op[1].kind = "factory" THEN [stmts EXCEPT ![op[1].s] = << >>] ELSE stmts

Return ==
  /\ Busy /\ op[1].steps = << >>
  /\ op' = << >>
  /\ UNCHANGED <<stmts, frames, live, lost, tupled, batch, flight, sent, calls>>

Reset ==
  /\ Busy /\ op[1].steps # << >> /\ Step.do = "reset"
  /\ stmts' = [stmts EXCEPT ![op[1].s][1].slots = Blank(Step.n)]
  /\ Done
  /\ UNCHANGED <<frames, live, lost, tupled, batch, flight, sent, calls>>

SetTimeout ==
  /\ Busy /\ op[1].steps # << >> /\ Step.do = "timeout"
  /\ IF Step.o = "refused"
     THEN Raise(0)
     ELSE /\ stmts' = [stmts EXCEPT ![op[1].s][1].timeout = Step.o]
          /\ Done /\ UNCHANGED <<frames, lost, tupled>>
  /\ UNCHANGED <<live, batch, flight, sent, calls>>

(* Statements made from a string know no types, and take no containers; by index    *)
(* None needs none.                                                                 *)
TakesByIndex == This.prepared \/ Step.v # "container"

(* By name None needs a type, and a container whose type is given is built from a   *)
(* pointer nobody has set: when that does not end the process, it raises.           *)
TakesByName == This.prepared \/ (Step.v # "container" /\ (Step.v = None => op[1].mode = "typed name"))

Accepted == /\ Step.v # "wrong"
            /\ Step.i \in DOMAIN This.slots
            /\ IF op[1].mode = "index" THEN TakesByIndex ELSE TakesByName

BindScalar ==
  /\ Busy /\ frames = << >> /\ op[1].steps # << >> /\ Step.do = "bind"
  /\ ~(Accepted /\ Step.v = "container")
  /\ IF Accepted
     THEN /\ stmts' = [stmts EXCEPT ![op[1].s][1].slots[Step.i] = Step.v]
          /\ Done /\ UNCHANGED <<frames, lost, tupled>>
     ELSE Raise(0)
  /\ UNCHANGED <<live, batch, flight, sent, calls>>

--------------------------------------------------------------------------------
(* Containers.  A frame is a call of get_collection, get_tuple or get_udt: the     *)
(* driver's object and how many elements are still to come (a map gives its keys   *)
(* and values one after the other).                                                *)
Kinds == {"collection", "tuple", "udt by name", "udt by index"}
Top == frames[Len(frames)]
Written == /\ frames' = [frames EXCEPT ![Len(frames)].left = @ - 1]
           /\ UNCHANGED <<stmts, op, lost, tupled>>
Raised  == Raise(Len(frames))

New(k, n) == /\ live' = live + 1 /\ frames' = Append(frames, [kind |-> k, left |-> n])
             /\ UNCHANGED <<stmts, op, lost, tupled>>
NotNew == Raised /\ UNCHANGED live

(* No object when the value has no length or the driver makes none of the type, and *)
(* none for a tuple that is too long.                                               *)
GetCollection(n) == New("collection", n) \/ NotNew
GetTuple(n)      == IF n <= MaxSize THEN New("tuple", n) ELSE NotNew
GetUdt(n)        == New("udt by name", n) \/ New("udt by index", n) \/ NotNew

Container == \/ \E n \in 0..MaxSize : GetCollection(n) \/ GetUdt(n)
             \/ \E n \in 0..MaxSize + 1 : GetTuple(n)

GetContainer ==
  /\ Busy /\ frames = << >> /\ op[1].steps # << >> /\ Step.do = "bind"
  /\ Accepted /\ Step.v = "container"
  /\ Container
  /\ UNCHANGED <<batch, flight, sent, calls>>

Nested ==
  /\ frames # << >> /\ Top.left > 0 /\ Len(frames) < MaxDepth
  /\ Container
  /\ UNCHANGED <<batch, flight, sent, calls>>

(* One element.  The driver may refuse any.  "convertible" is what int(), float()  *)
(* or str() makes into a value of the type.                                        *)
Elements == [type : {"text", "bigint", "other"}, v : {"value", "convertible", None, "wrong"}]

(* In a collection of texts None is written as the text "None"; others raise.      *)
CollectionElement(e) == (e.v # "wrong" /\ (e.v = None => e.type = "text") /\ Written) \/ Raised

(* In a tuple or UDT None is null.  A name or an index the type has not is "wrong".*)
TupleElement(e)     == (e.v # "wrong" /\ Written) \/ Raised
UdtElementByName(e) == (e.v # "wrong" /\ Written) \/ Raised

(* A bigint is not converted here.                                                 *)
UdtElementByIndex(e) ==
  (e.v # "wrong" /\ ~(e.type = "bigint" /\ e.v = "convertible") /\ Written) \/ Raised

Element(e) ==
  /\ frames # << >> /\ Top.left > 0
  /\ CASE Top.kind = "collection"  -> CollectionElement(e)
       [] Top.kind = "tuple"       -> TupleElement(e)
       [] Top.kind = "udt by name" -> UdtElementByName(e)
       [] OTHER                    -> UdtElementByIndex(e)
  /\ UNCHANGED <<live, batch, flight, sent, calls>>

(* Mutant: the UDT that was put into another container is not freed.               *)
CloseNested_KeepsUdt ==
  /\ Len(frames) > 1 /\ Top.left = 0
  /\ LET outer == frames[Len(frames) - 1]
         kept  == IF outer.kind = "tuple" THEN 1 ELSE 0
         after == SubSeq(frames, 1, Len(frames) - 1)
     IN  /\ live' = live - (IF Top.kind = "udt by name" THEN 0 ELSE 1 - kept)
         /\ \/ /\ frames' = [after EXCEPT ![Len(after)].left = @ - 1]
               /\ tupled' = tupled + kept
               /\ UNCHANGED <<stmts, op, lost>>
            \/ Raise(Len(after) + kept)
  /\ UNCHANGED <<batch, flight, sent, calls>>

(* The inner container is done: it is put into the outer one, where the driver may *)
(* refuse it, and freed, but not if the outer one is a tuple.                      *)
CloseNested ==
  /\ Len(frames) > 1 /\ Top.left = 0
  /\ LET outer == frames[Len(frames) - 1]
         kept  == IF outer.kind = "tuple" THEN 1 ELSE 0
         after == SubSeq(frames, 1, Len(frames) - 1)
     IN  /\ live' = live - (1 - kept)
         /\ \/ /\ frames' = [after EXCEPT ![Len(after)].left = @ - 1]
               /\ tupled' = tupled + kept
               /\ UNCHANGED <<stmts, op, lost>>
            \/ Raise(Len(after) + kept)
  /\ UNCHANGED <<batch, flight, sent, calls>>

(* bind_collection, bind_tuple and bind_udt, by index or name: freed whatever the  *)
(* driver answers.                                                                 *)
BindContainer ==
  /\ Len(frames) = 1 /\ Top.left = 0
  /\ live' = live - 1
  /\ \/ /\ frames' = << >>
        /\ stmts' = [stmts EXCEPT ![op[1].s][1].slots[Step.i] = "container"]
        /\ Done /\ UNCHANGED <<lost, tupled>>
     \/ Raise(0)
  /\ UNCHANGED <<batch, flight, sent, calls>>

--------------------------------------------------------------------------------
(* Execution.                                                                      *)
Entry(s) == [s |-> s, slots |-> stmts[s][1].slots]

Execute(s) ==
  /\ ~Busy /\ stmts[s] # << >>
  /\ Cardinality(flight) < 2
  /\ flight' = flight \cup {<<Entry(s)>>}
  /\ UNCHANGED <<stmts, op, frames, live, lost, tupled, batch, sent, calls>>

(* Batch.add_statement: the driver keeps the statement, not its parameters.  When  *)
(* it refuses it, nothing changes.                                                 *)
AddStatement(s) ==
  /\ ~Busy /\ stmts[s] # << >>
  /\ Len(batch) < 2
  /\ batch' = Append(batch, Entry(s))
  /\ UNCHANGED <<stmts, op, frames, live, lost, tupled, flight, sent, calls>>

ExecuteBatch ==
  /\ ~Busy /\ batch # << >>
  /\ Cardinality(flight) < 2
  /\ flight' = flight \cup {batch}
  /\ UNCHANGED <<stmts, op, frames, live, lost, tupled, batch, sent, calls>>

(* A thread of the driver writes a request: also while a call binds the statement. *)
Write(r) ==
  /\ r \in flight
  /\ flight' = flight \ {r}
  /\ sent' = [k \in DOMAIN r |-> [asked |-> r[k].slots, own |-> stmts[r[k].s][1].own,
                                  slots |-> stmts[r[k].s][1].slots]]
  /\ UNCHANGED <<stmts, op, frames, live, lost, tupled, batch, calls>>

Init ==
  /\ stmts = [s \in Stmts |-> << >>]
  /\ op = << >> /\ frames = << >> /\ live = 0 /\ lost = 0 /\ tupled = 0
  /\ batch = << >> /\ flight = {} /\ sent = << >> /\ calls = 0

Calls ==
  \E s \in Stmts, ps \in Inputs, mode \in Modes :
    \/ \E o \in Timeouts : NewFromString(s, ps, mode, o) \/ Call(s, ps, mode, o)
    \/ \E o \in Timeouts, default \in Defaults : PreparedBind(s, ps, mode, o, default)
    \/ \E o \in Timeouts : CallAgain(s, o)
    \/ \E n \in 0..N : CallRefused(s, n)
    \/ Bind(s, ps, mode)

Next ==
  \/ Calls
  \/ Return \/ Reset \/ SetTimeout \/ BindScalar
  \/ GetContainer \/ Nested
  \/ \E e \in Elements : Element(e)
  \/ CloseNested \/ BindContainer
  \/ \E s \in Stmts : Execute(s) \/ AddStatement(s)
  \/ ExecuteBatch
  \/ \E r \in flight : Write(r)

Spec == Init /\ [][Next]_vars

--------------------------------------------------------------------------------
(* Properties.                                                                     *)

(* A call binds what it was given and nothing else: at every moment of it, also    *)
(* when it raises half way, the parameters it has not come to make the rest of     *)
(* what its caller asked for, and nothing is left of the call before.              *)
BoundAsGiven ==
  Busy /\ (\A j \in DOMAIN op[1].steps : op[1].steps[j].do # "reset") =>
    LET todo == {j \in DOMAIN op[1].steps : op[1].steps[j].do = "bind"}
        want == op[1].want
    IN  /\ DOMAIN This.slots = DOMAIN want.slots
        /\ \A i \in DOMAIN want.slots :
             \/ This.slots[i] = want.slots[i]
             \/ \E j \in todo : op[1].steps[j].i = i /\ op[1].steps[j].v = want.slots[i]
        /\ op[1].steps = << >> => This.timeout = want.timeout

(* The driver writes a request later than the program executed it.  It is still    *)
(* what the program had put together if nothing but the PreparedStatement has      *)
(* bound the statement; a Statement that is called or bound again changes the      *)
(* requests and batches it is already part of.                                     *)
SentAsAsked == \A k \in DOMAIN sent : sent[k].own => sent[k].asked = sent[k].slots

(* Each container the driver made is freed but those under construction, those an  *)
(* exception left behind and those in a tuple, and none is freed twice.  A call     *)
(* that does not raise leaves none behind.                                         *)
ContainersAccounted ==
  /\ live = Len(frames) + lost + tupled
  /\ frames # << >> => Busy /\ op[1].steps # << >>
  /\ Busy => lost = op[1].lost

================================================================================
