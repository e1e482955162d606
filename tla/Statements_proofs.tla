--------------------------- MODULE Statements_proofs ---------------------------
(* What a call has bound, what the driver sends and which containers are left, for *)
(* any number of statements, parameters and containers.                            *)
EXTENDS Statements, Integers, TLAPS

(* The values there may be.                                                        *)
Values == {Unset} \cup UNION {{ps[j][2] : j \in DOMAIN ps} : ps \in Inputs}
AllTimeouts == Timeouts \cup Defaults
Statement == [prepared : BOOLEAN, own : BOOLEAN, slots : Seq(Values), timeout : AllTimeouts]
Bound == [slots : Seq(Values), timeout : AllTimeouts]
StepSet == [do : {"reset"}, n : Nat] \cup [do : {"bind"}, i : Nat, v : Values]
             \cup [do : {"timeout"}, o : AllTimeouts]
Operation == [s : Stmts, kind : {"factory", "call", "bind"}, mode : Modes, steps : Seq(StepSet), want : Bound,
              lost : Nat]
Frame == [kind : Kinds, left : Int]
Entries == [s : Stmts, slots : Seq(Values)]

TypeOK ==
  /\ stmts \in [Stmts -> {<< >>} \cup {<<st>> : st \in Statement}]
  /\ op \in {<< >>} \cup {<<o>> : o \in Operation}
  /\ Busy => stmts[op[1].s] # << >>
  /\ frames \in Seq(Frame) /\ live \in Nat /\ lost \in Nat /\ tupled \in Nat
  /\ batch \in Seq(Entries)

Elems(q) == {q[j] : j \in DOMAIN q}
Due(steps, i) == \E x \in Elems(steps) : x.do = "bind" /\ x.i = i

(* The steps that are left do what was asked for: the parameters are reset before  *)
(* anything is bound, and the values are those given.                              *)
StepsFit(steps, want) ==
  /\ \A j \in DOMAIN steps : steps[j].do = "reset" => j = 1 /\ DOMAIN want.slots = 1..steps[1].n
  /\ \A x \in Elems(steps) : /\ x.do = "bind" /\ x.i \in DOMAIN want.slots => x.v = want.slots[x.i]
                             /\ x.do = "timeout" => x.o = want.timeout

(* What is bound, with the steps that are left, makes what was asked for.          *)
StatementFits(steps, st, want) ==
  /\ IF \E x \in Elems(steps) : x.do = "reset"
     THEN \A i \in DOMAIN want.slots : want.slots[i] = Unset \/ Due(steps, i)
     ELSE /\ DOMAIN st.slots = DOMAIN want.slots
          /\ \A i \in DOMAIN want.slots : st.slots[i] = want.slots[i] \/ Due(steps, i)
  /\ st.timeout = want.timeout \/ \E x \in Elems(steps) : x.do = "timeout"

CallMatches ==
  Busy => /\ StepsFit(op[1].steps, op[1].want)
          /\ StatementFits(op[1].steps, This, op[1].want)

(* Containers are built for the step that binds one.                               *)
FramesMatch ==
  frames # << >> => /\ Busy /\ op[1].steps # << >> /\ Step.do = "bind" /\ Step.v = "container"
                    /\ Step.i \in DOMAIN This.slots

(* A request has the parameters of its statement, unless somebody has bound it     *)
(* since; nobody has the statement of a factory that runs.                         *)
EntryMatches(e) ==
  /\ e.s \in Stmts /\ stmts[e.s] # << >>
  /\ stmts[e.s][1].own => e.slots = stmts[e.s][1].slots
  /\ Busy /\ op[1].kind = "factory" => e.s # op[1].s

RequestsMatch ==
  /\ \A r \in flight \cup {batch} : \A k \in DOMAIN r : EntryMatches(r[k])
  /\ Busy /\ op[1].kind # "factory" => ~This.own

(* The call that runs has left no container behind.                                *)
LostBefore == Busy => lost = op[1].lost

IInv ==
  /\ TypeOK /\ CallMatches /\ FramesMatch /\ RequestsMatch /\ SentAsAsked
  /\ live = Len(frames) + lost + tupled /\ LostBefore

--------------------------------------------------------------------------------
(* Parameters and steps.                                                           *)

LEMMA InputFacts ==
  ASSUME NEW ps \in Inputs
  PROVE  /\ Len(ps) \in Nat /\ DOMAIN ps = 1..Len(ps)
         /\ \A j \in DOMAIN ps : ps[j][1] \in Nat /\ ps[j][2] \in Values
         /\ \A i, j \in DOMAIN ps : ps[i][1] = ps[j][1] => i = j
<1>1. ps \in Seq((Nat \ {0}) \X {ps[j][2] : j \in DOMAIN ps})
  BY InputsAreParameters DEF InputsAreParameters
<1>2. \A j \in DOMAIN ps : ps[j] \in (Nat \ {0}) \X {ps[k][2] : k \in DOMAIN ps}
  BY <1>1
<1>3. \A j \in DOMAIN ps : ps[j][2] \in Values
  BY DEF Values
<1>4. \A j \in DOMAIN ps : ps[j][1] \in Nat
  BY <1>2
<1>5. Len(ps) \in Nat /\ DOMAIN ps = 1..Len(ps)
  BY <1>1
<1>6. \A i, j \in DOMAIN ps : ps[i][1] = ps[j][1] => i = j
  BY InputsAreParameters DEF InputsAreParameters
<1> QED
  BY <1>3, <1>4, <1>5, <1>6

LEMMA BlankFacts ==
  ASSUME NEW n \in Nat
  PROVE  Blank(n) \in Seq(Values) /\ DOMAIN Blank(n) = 1..n /\ \A i \in 1..n : Blank(n)[i] = Unset
BY DEF Blank, Values

(* The slots that parameters are given for get them, and the others stay.          *)
LEMMA AssignFacts ==
  ASSUME NEW slots \in Seq(Values), NEW ps \in Inputs
  PROVE  /\ Assign(slots, ps) \in Seq(Values) /\ DOMAIN Assign(slots, ps) = DOMAIN slots
         /\ \A i \in DOMAIN slots, j \in DOMAIN ps : ps[j][1] = i => Assign(slots, ps)[i] = ps[j][2]
         /\ \A i \in DOMAIN slots : \/ Assign(slots, ps)[i] = slots[i]
                                    \/ \E j \in DOMAIN ps : ps[j][1] = i
<1> DEFINE Given(i) == \E j \in DOMAIN ps : ps[j][1] = i
           At(i) == CHOOSE j \in DOMAIN ps : ps[j][1] = i
<1>1. ASSUME NEW i, Given(i) PROVE At(i) \in DOMAIN ps /\ ps[At(i)][1] = i
  BY <1>1
<1>2. ASSUME NEW i \in DOMAIN slots, NEW j \in DOMAIN ps, ps[j][1] = i
      PROVE  Assign(slots, ps)[i] = ps[j][2]
  BY <1>1, <1>2, InputFacts DEF Assign
<1>3. ASSUME NEW i \in DOMAIN slots
      PROVE  \/ Assign(slots, ps)[i] = slots[i]
             \/ Given(i)
  BY <1>3 DEF Assign
<1>4. ASSUME NEW i \in DOMAIN slots PROVE Assign(slots, ps)[i] \in Values
  BY <1>2, <1>3, InputFacts
<1>5. DOMAIN Assign(slots, ps) = DOMAIN slots /\ DOMAIN slots = 1..Len(slots)
  BY DEF Assign
<1>6. Assign(slots, ps) \in Seq(Values)
  <2>1. Assign(slots, ps) = [i \in 1..Len(slots) |-> Assign(slots, ps)[i]]
    BY <1>5 DEF Assign
  <2> QED
    BY <1>4, <1>5, <2>1
<1> QED
  BY <1>2, <1>3, <1>5, <1>6

LEMMA BindsFacts ==
  ASSUME NEW ps \in Inputs
  PROVE  /\ Binds(ps) \in Seq(StepSet)
         /\ \A x \in Elems(Binds(ps)) :
              x.do = "bind" /\ \E j \in DOMAIN ps : x.i = ps[j][1] /\ x.v = ps[j][2]
         /\ \A j \in DOMAIN ps : Due(Binds(ps), ps[j][1])
<1>1. \A j \in DOMAIN ps : [do |-> "bind", i |-> ps[j][1], v |-> ps[j][2]] \in StepSet
  BY InputFacts DEF StepSet
<1>2. Binds(ps) \in Seq(StepSet)
  BY <1>1, InputFacts DEF Binds
<1> QED
  BY <1>2 DEF Binds, Elems, Due

LEMMA SetsFacts ==
  ASSUME NEW o \in AllTimeouts
  PROVE  /\ Sets(o) \in Seq(StepSet)
         /\ \A x \in Elems(Sets(o)) : x.do = "timeout" /\ x.o = o
         /\ o = None \/ \E x \in Elems(Sets(o)) : x.do = "timeout"
<1> DEFINE x == [do |-> "timeout", o |-> o]
<1>1. x \in StepSet /\ x.do = "timeout" /\ x.o = o
  BY DEF StepSet
<1>2. CASE o = None
  <2>1. Sets(o) = << >>
    BY <1>2 DEF Sets
  <2> QED
    BY <1>2, <2>1 DEF Elems
<1>3. CASE o # None
  <2>1. Sets(o) = <<x>>
    BY <1>3 DEF Sets
  <2> HIDE DEF x
  <2>2. Elems(<<x>>) = {x} /\ <<x>> \in Seq(StepSet)
    BY <1>1 DEF Elems
  <2> QED
    BY <1>1, <2>1, <2>2
<1> QED
  BY <1>2, <1>3

LEMMA ResetsFacts ==
  ASSUME NEW n \in Nat
  PROVE  /\ Resets(n) \in Seq(StepSet) /\ Resets(n) # << >> /\ DOMAIN Resets(n) = {1}
         /\ Resets(n)[1].do = "reset" /\ Resets(n)[1].n = n
<1> DEFINE x == [do |-> "reset", n |-> n]
<1>1. x \in StepSet /\ x.do = "reset" /\ x.n = n
  BY DEF StepSet
<1>2. Resets(n) = <<x>>
  BY DEF Resets
<1> HIDE DEF x
<1>3. DOMAIN <<x>> = {1} /\ <<x>>[1] = x /\ <<x>> \in Seq(StepSet) /\ <<x>> # << >>
  BY <1>1
<1> QED
  BY <1>1, <1>2, <1>3

LEMMA ElemsConcat ==
  ASSUME NEW p \in Seq(StepSet), NEW q \in Seq(StepSet)
  PROVE  p \o q \in Seq(StepSet) /\ Elems(p \o q) = Elems(p) \cup Elems(q)
<1>1. /\ Len(p) \in Nat /\ Len(q) \in Nat /\ DOMAIN p = 1..Len(p) /\ DOMAIN q = 1..Len(q)
      /\ DOMAIN (p \o q) = 1..(Len(p) + Len(q))
      /\ \A i \in 1..(Len(p) + Len(q)) : (p \o q)[i] = IF i <= Len(p) THEN p[i] ELSE q[i - Len(p)]
  OBVIOUS
<1>2. ASSUME NEW i \in DOMAIN p PROVE i \in DOMAIN (p \o q) /\ (p \o q)[i] = p[i]
  BY <1>1
<1>3. ASSUME NEW i \in DOMAIN q PROVE i + Len(p) \in DOMAIN (p \o q) /\ (p \o q)[i + Len(p)] = q[i]
  BY <1>1
<1>4. ASSUME NEW i \in DOMAIN (p \o q)
      PROVE  (i \in DOMAIN p /\ (p \o q)[i] = p[i])
               \/ (i - Len(p) \in DOMAIN q /\ (p \o q)[i] = q[i - Len(p)])
  BY <1>1
<1>5. p \o q \in Seq(StepSet)
  OBVIOUS
<1>6. Elems(p \o q) \subseteq Elems(p) \cup Elems(q)
  BY <1>4, Zenon DEF Elems
<1>7. Elems(p) \subseteq Elems(p \o q)
  BY <1>2, Zenon DEF Elems
<1>8. Elems(q) \subseteq Elems(p \o q)
  BY <1>3, Zenon DEF Elems
<1> QED
  BY <1>5, <1>6, <1>7, <1>8, Zenon

LEMMA ElemsTail ==
  ASSUME NEW q \in Seq(StepSet), q # << >>
  PROVE  /\ Tail(q) \in Seq(StepSet) /\ q[1] \in StepSet
         /\ q[1] \in Elems(q) /\ Elems(q) = {q[1]} \cup Elems(Tail(q))
         /\ \A j \in DOMAIN Tail(q) : j + 1 \in DOMAIN q /\ j + 1 # 1 /\ Tail(q)[j] = q[j + 1]
<1>1. /\ Len(q) \in Nat /\ Len(q) > 0 /\ DOMAIN q = 1..Len(q) /\ Tail(q) \in Seq(StepSet)
      /\ DOMAIN Tail(q) = 1..(Len(q) - 1)
      /\ \A j \in 1..(Len(q) - 1) : Tail(q)[j] = q[j + 1]
  OBVIOUS
<1>2. \A j \in DOMAIN Tail(q) : j + 1 \in DOMAIN q /\ j + 1 # 1 /\ Tail(q)[j] = q[j + 1]
  BY <1>1
<1>3. ASSUME NEW j \in DOMAIN q PROVE j = 1 \/ (j - 1 \in DOMAIN Tail(q) /\ Tail(q)[j - 1] = q[j])
  BY <1>1
<1>4. 1 \in DOMAIN q /\ q[1] \in StepSet
  BY <1>1
<1> QED
  BY <1>1, <1>2, <1>3, <1>4 DEF Elems

LEMMA AtElems == \A q : \A j \in DOMAIN q : q[j] \in Elems(q)
BY DEF Elems

LEMMA NoElems == Elems(<< >>) = {}
BY DEF Elems

--------------------------------------------------------------------------------
(* One step of a call.                                                             *)

LEMMA TailFits ==
  ASSUME NEW steps \in Seq(StepSet), steps # << >>, NEW want, StepsFit(steps, want)
  PROVE  /\ StepsFit(Tail(steps), want)
         /\ \A x \in Elems(Tail(steps)) : x.do # "reset"
         /\ \A i : Due(steps, i) => Due(Tail(steps), i) \/ (steps[1].do = "bind" /\ steps[1].i = i)
<1>1. \A j \in DOMAIN Tail(steps) : Tail(steps)[j].do # "reset"
  BY ElemsTail DEF StepsFit
<1>2. \A x \in Elems(Tail(steps)) : x.do # "reset" /\ x \in Elems(steps)
  BY <1>1, ElemsTail DEF Elems
<1> QED
  BY <1>1, <1>2, ElemsTail DEF StepsFit, Due

LEMMA ResetFits ==
  ASSUME NEW steps \in Seq(StepSet), steps # << >>, NEW want, NEW st, NEW st2,
         StepsFit(steps, want), StatementFits(steps, st, want), steps[1].do = "reset", steps[1].n \in Nat,
         st2.slots = Blank(steps[1].n), st2.timeout = st.timeout
  PROVE  StatementFits(Tail(steps), st2, want)
<1>1. DOMAIN want.slots = 1..steps[1].n
  <2>1. 1 \in DOMAIN steps
    OBVIOUS
  <2> QED
    BY <2>1 DEF StepsFit
<1>2. \E x \in Elems(steps) : x.do = "reset"
  BY ElemsTail
<1>3. \A i \in DOMAIN want.slots : want.slots[i] = Unset \/ Due(Tail(steps), i)
  BY <1>2, TailFits DEF StatementFits
<1>4. DOMAIN st2.slots = DOMAIN want.slots /\ \A i \in DOMAIN want.slots : st2.slots[i] = Unset
  BY <1>1, BlankFacts
<1>5. st2.timeout = want.timeout \/ \E x \in Elems(Tail(steps)) : x.do = "timeout"
  BY ElemsTail DEF StatementFits
<1> QED
  BY <1>3, <1>4, <1>5, TailFits DEF StatementFits

LEMMA TimeoutFits ==
  ASSUME NEW steps \in Seq(StepSet), steps # << >>, NEW want, NEW st, NEW st2,
         StepsFit(steps, want), StatementFits(steps, st, want), steps[1].do = "timeout",
         st2.slots = st.slots, st2.timeout = steps[1].o
  PROVE  StatementFits(Tail(steps), st2, want)
<1>1. st2.timeout = want.timeout
  BY ElemsTail DEF StepsFit
<1>2. ~ \E x \in Elems(steps) : x.do = "reset"
  BY ElemsTail, TailFits
<1>3. /\ DOMAIN st2.slots = DOMAIN want.slots
      /\ \A i \in DOMAIN want.slots : st2.slots[i] = want.slots[i] \/ Due(Tail(steps), i)
  BY <1>2, TailFits DEF StatementFits
<1> QED
  BY <1>1, <1>3, TailFits DEF StatementFits

LEMMA BindFits ==
  ASSUME NEW steps \in Seq(StepSet), steps # << >>, NEW want, NEW st, NEW st2, NEW slots \in Seq(Values),
         StepsFit(steps, want), StatementFits(steps, st, want), steps[1].do = "bind",
         st.slots = slots, steps[1].i \in DOMAIN slots,
         st2.slots = [slots EXCEPT ![steps[1].i] = steps[1].v], st2.timeout = st.timeout
  PROVE  StatementFits(Tail(steps), st2, want)
<1>1. ~ \E x \in Elems(steps) : x.do = "reset"
  BY ElemsTail, TailFits
<1>2. /\ DOMAIN st2.slots = DOMAIN want.slots
      /\ \A i \in DOMAIN want.slots : slots[i] = want.slots[i] \/ Due(steps, i)
      /\ \A i \in DOMAIN want.slots : i # steps[1].i => st2.slots[i] = slots[i]
      /\ st2.slots[steps[1].i] = steps[1].v
  BY <1>1 DEF StatementFits
<1>3. steps[1].i \in DOMAIN want.slots => steps[1].v = want.slots[steps[1].i]
  BY ElemsTail DEF StepsFit
<1>4. \A i \in DOMAIN want.slots : st2.slots[i] = want.slots[i] \/ Due(Tail(steps), i)
  BY <1>2, <1>3, TailFits
<1>5. st2.timeout = want.timeout \/ \E x \in Elems(Tail(steps)) : x.do = "timeout"
  BY ElemsTail DEF StatementFits
<1> QED
  BY <1>2, <1>4, <1>5, TailFits DEF StatementFits

--------------------------------------------------------------------------------
(* The ways a step ends.                                                           *)

LEMMA NoFrames == << >> \in Seq(Frame) /\ Len(<< >>) = 0
OBVIOUS

LEMMA NoneOpen ==
  ASSUME NEW fs, Len(fs) = 0, NEW n \in Nat, NEW m \in Nat
  PROVE  n + m = Len(fs) + n + m
OBVIOUS

LEMMA StmtFacts ==
  ASSUME TypeOK, NEW s \in Stmts, stmts[s] # << >>
  PROVE  stmts[s] = <<stmts[s][1]>> /\ stmts[s][1] \in Statement
BY DEF TypeOK

LEMMA CallFacts ==
  ASSUME TypeOK, Busy
  PROVE  /\ op = <<op[1]>> /\ op[1] \in Operation
         /\ op[1].s \in Stmts /\ op[1].steps \in Seq(StepSet) /\ op[1].want \in Bound
         /\ op[1].kind \in {"factory", "call", "bind"} /\ op[1].mode \in Modes
         /\ stmts[op[1].s] = <<This>> /\ This \in Statement
<1>1. op = <<op[1]>> /\ op[1] \in Operation
  BY DEF TypeOK, Busy
<1>2. /\ op[1].s \in Stmts /\ op[1].steps \in Seq(StepSet) /\ op[1].want \in Bound
      /\ op[1].kind \in {"factory", "call", "bind"} /\ op[1].mode \in Modes
  BY <1>1 DEF Operation
<1>3. stmts[op[1].s] # << >>
  BY DEF TypeOK
<1> QED
  BY <1>1, <1>2, <1>3, StmtFacts DEF This

(* What has been sent, and the counts, when they stay.                             *)
LEMMA SentStays == SentAsAsked /\ sent' = sent => SentAsAsked'
BY DEF SentAsAsked

(* A step of a call is done, and nothing is under construction.                    *)
LEMMA Advance ==
  ASSUME IInv, Busy, op[1].steps # << >>, NEW new \in Statement, new.own = This.own,
         StatementFits(Tail(op[1].steps), new, op[1].want),
         stmts' = [stmts EXCEPT ![op[1].s] = <<new>>], Done,
         frames' = << >>, live' = lost + tupled, UNCHANGED <<lost, tupled, batch, flight, sent>>
  PROVE  IInv'
<1> DEFINE t == op[1].s
           next == [op[1] EXCEPT !.steps = Tail(@)]
<1>0. TypeOK /\ CallMatches /\ RequestsMatch /\ SentAsAsked
  BY DEF IInv
<1>1. /\ t \in Stmts /\ stmts[t] = <<This>> /\ op[1] \in Operation /\ op[1].steps \in Seq(StepSet)
  BY <1>0, CallFacts
<1>2. /\ next \in Operation /\ next.s = t /\ next.kind = op[1].kind /\ next.want = op[1].want
      /\ next.steps = Tail(op[1].steps)
  BY <1>1, ElemsTail DEF Operation
<1>3. op' = <<next>> /\ op'[1] = next /\ Busy'
  BY DEF Done, Busy
<1>4. /\ stmts'[t] = <<new>> /\ stmts'[t][1] = new /\ stmts'[t] # << >>
      /\ \A s \in Stmts : s # t => stmts'[s] = stmts[s]
      /\ stmts' \in [Stmts -> {<< >>} \cup {<<st>> : st \in Statement}]
  BY <1>0, <1>1 DEF TypeOK
<1> HIDE DEF next, t
<1>5. This' = new
  BY <1>2, <1>3, <1>4 DEF This
<1>6. frames' \in Seq(Frame) /\ Len(frames') = 0
  BY NoFrames, Zenon
<1>7. TypeOK'
  <2>1. op' \in {<<o>> : o \in Operation}
    BY <1>2, <1>3
  <2>2. live' \in Nat /\ lost' \in Nat /\ tupled' \in Nat /\ batch' \in Seq(Entries)
    BY <1>0 DEF TypeOK
  <2> QED
    BY <1>2, <1>3, <1>4, <1>6, <2>1, <2>2 DEF TypeOK
<1>8. CallMatches'
  <2>1. StepsFit(op[1].steps, op[1].want)
    BY <1>0 DEF CallMatches
  <2>2. StepsFit(next.steps, next.want) /\ StatementFits(next.steps, new, next.want)
    BY <1>1, <1>2, <2>1, TailFits
  <2> QED
    BY <1>3, <1>5, <2>2 DEF CallMatches
<1>9. RequestsMatch'
  <2>1. ASSUME NEW e, EntryMatches(e) PROVE EntryMatches(e)'
    <3>1. CASE e.s = t
      <4>1. ~new.own /\ op[1].kind # "factory"
        BY <1>0, <2>1, <3>1 DEF EntryMatches, RequestsMatch, t
      <4> QED
        BY <1>2, <1>3, <1>4, <2>1, <3>1, <4>1 DEF EntryMatches
    <3>2. CASE e.s # t
      BY <1>2, <1>3, <1>4, <2>1, <3>2 DEF EntryMatches
    <3> QED
      BY <3>1, <3>2
  <2>2. op'[1].kind # "factory" => ~This'.own
    BY <1>0, <1>2, <1>3, <1>5 DEF RequestsMatch
  <2> QED
    BY <1>0, <2>1, <2>2 DEF RequestsMatch
<1>10. FramesMatch'
  BY DEF FramesMatch
<1>11. live' = Len(frames') + lost' + tupled'
  <2>1. lost \in Nat /\ tupled \in Nat
    BY <1>0 DEF TypeOK
  <2>2. lost + tupled = Len(frames') + lost + tupled
    BY <1>6, <2>1, NoneOpen, Zenon
  <2> QED
    BY <2>2
<1>12. LostBefore'
  <2>1. next.lost = op[1].lost
    BY DEF next
  <2> QED
    BY <1>3, <2>1 DEF LostBefore, IInv
<1> QED
  BY <1>0, <1>7, <1>8, <1>9, <1>10, <1>11, <1>12, SentStays DEF IInv

(* A call raises: what it was building is lost, and what it was making is gone.    *)
LEMMA RaiseStep ==
  ASSUME IInv, Busy, NEW open \in Nat, Raise(open), live' = open + lost + tupled, UNCHANGED <<batch, flight, sent>>
  PROVE  IInv'
<1> DEFINE t == op[1].s
<1>0. TypeOK /\ RequestsMatch /\ SentAsAsked /\ lost \in Nat /\ tupled \in Nat
  BY DEF IInv, TypeOK
<1>1. t \in Stmts /\ op[1] \in Operation
  BY <1>0, CallFacts
<1>2. op' = << >> /\ ~Busy'
  BY DEF Raise, Busy
<1>3. /\ stmts' \in [Stmts -> {<< >>} \cup {<<st>> : st \in Statement}]
      /\ \A s \in Stmts : stmts'[s] = stmts[s] \/ (s = t /\ op[1].kind = "factory")
  BY <1>0, <1>1 DEF TypeOK, Raise
<1>4. frames' \in Seq(Frame) /\ Len(frames') = 0
  <2>1. frames' = << >>
    BY DEF Raise
  <2> QED
    BY <2>1, NoFrames, Zenon
<1>5. /\ lost' = lost + open /\ lost' \in Nat /\ tupled' = tupled /\ live' \in Nat
      /\ live' = Len(frames') + lost' + tupled'
  BY <1>0, <1>4 DEF Raise
<1>6. TypeOK'
  <2>1. batch' \in Seq(Entries)
    BY <1>0 DEF TypeOK
  <2> QED
    BY <1>0, <1>2, <1>3, <1>4, <1>5, <2>1, Zenon DEF TypeOK
<1>7. RequestsMatch'
  <2>1. ASSUME NEW e, EntryMatches(e) PROVE EntryMatches(e)'
    BY <1>2, <1>3, <2>1 DEF EntryMatches
  <2> QED
    BY <1>0, <1>2, <2>1 DEF RequestsMatch
<1>8. CallMatches' /\ FramesMatch' /\ LostBefore'
  BY <1>2 DEF CallMatches, FramesMatch, LostBefore, Raise
<1> QED
  BY <1>0, <1>5, <1>6, <1>7, <1>8, SentStays DEF IInv

(* Only the containers change.                                                     *)
LEMMA Building ==
  ASSUME IInv, Busy, op[1].steps # << >>, Step.do = "bind", Step.v = "container", Step.i \in DOMAIN This.slots,
         frames' \in Seq(Frame), tupled' \in Nat, live' = Len(frames') + lost + tupled',
         UNCHANGED <<stmts, op, lost, batch, flight, sent>>
  PROVE  IInv'
<1>0. TypeOK /\ CallMatches /\ RequestsMatch /\ SentAsAsked
  BY DEF IInv
<1>1. Busy' /\ This' = This /\ Step' = Step /\ op'[1] = op[1]
  BY DEF Busy, This, Step
<1>2. live' \in Nat /\ lost' \in Nat /\ batch' \in Seq(Entries)
  BY <1>0 DEF TypeOK
<1>3. TypeOK'
  BY <1>0, <1>1, <1>2 DEF TypeOK
<1>4. CallMatches' /\ FramesMatch' /\ LostBefore'
  BY <1>0, <1>1 DEF CallMatches, FramesMatch, LostBefore, IInv
<1>5. RequestsMatch'
  <2>1. ASSUME NEW e, EntryMatches(e) PROVE EntryMatches(e)'
    BY <2>1 DEF EntryMatches, Busy
  <2> QED
    BY <1>0, <1>1, <2>1 DEF RequestsMatch
<1> QED
  BY <1>0, <1>3, <1>4, <1>5, SentStays DEF IInv

--------------------------------------------------------------------------------
(* What a call has to do makes what it was asked for.                              *)

LEMMA BoundIsAsked ==
  ASSUME NEW base \in Seq(Values), NEW ps \in Inputs
  PROVE  /\ \A x \in Elems(Binds(ps)) :
              x.do = "bind" /\ (x.i \in DOMAIN base => x.v = Assign(base, ps)[x.i])
         /\ \A i \in DOMAIN base : Assign(base, ps)[i] = base[i] \/ Due(Binds(ps), i)
<1>1. ASSUME NEW x \in Elems(Binds(ps))
      PROVE  x.do = "bind" /\ (x.i \in DOMAIN base => x.v = Assign(base, ps)[x.i])
  <2>1. x.do = "bind" /\ \E j \in DOMAIN ps : x.i = ps[j][1] /\ x.v = ps[j][2]
    BY BindsFacts
  <2> QED
    BY <2>1, AssignFacts
<1>2. ASSUME NEW i \in DOMAIN base PROVE Assign(base, ps)[i] = base[i] \/ Due(Binds(ps), i)
  <2>1. Assign(base, ps)[i] = base[i] \/ \E j \in DOMAIN ps : ps[j][1] = i
    BY AssignFacts
  <2> QED
    BY <2>1, BindsFacts
<1> QED
  BY <1>1, <1>2

LEMMA AskedFits ==
  ASSUME NEW steps \in Seq(StepSet), NEW base \in Seq(Values), NEW ps \in Inputs,
         NEW o \in AllTimeouts, NEW st \in Statement, st.slots = base, NEW want,
         want = [slots |-> Assign(base, ps), timeout |-> IF o = None THEN st.timeout ELSE o],
         Elems(steps) = Elems(Binds(ps)) \cup Elems(Sets(o))
  PROVE  want \in Bound /\ StepsFit(steps, want) /\ StatementFits(steps, st, want)
<1>1. want.slots = Assign(base, ps) /\ DOMAIN want.slots = DOMAIN base /\ want.slots \in Seq(Values)
  BY AssignFacts
<1>2. want.timeout = (IF o = None THEN st.timeout ELSE o) /\ want.timeout \in AllTimeouts
  BY DEF Statement
<1>3. want \in Bound
  BY <1>1, <1>2 DEF Bound
<1>4. ASSUME NEW x \in Elems(steps)
      PROVE  /\ x.do # "reset"
             /\ x.do = "bind" /\ x.i \in DOMAIN want.slots => x.v = want.slots[x.i]
             /\ x.do = "timeout" => x.o = want.timeout
  <2>1. CASE x \in Elems(Binds(ps))
    <3>1. x.do = "bind" /\ (x.i \in DOMAIN base => x.v = Assign(base, ps)[x.i])
      BY <2>1, BoundIsAsked
    <3> QED
      BY <1>1, <3>1
  <2>2. CASE x \in Elems(Sets(o))
    <3>1. o # None
      BY <2>2, NoElems DEF Sets
    <3>2. x.do = "timeout" /\ x.o = want.timeout
      BY <1>2, <2>2, <3>1, SetsFacts
    <3> QED
      BY <3>2
  <2> QED
    BY <2>1, <2>2
<1>5. ASSUME NEW j \in DOMAIN steps PROVE steps[j].do # "reset"
  <2>1. steps[j] \in Elems(steps)
    BY AtElems
  <2> QED
    BY <1>4, <2>1
<1>6. \A i \in DOMAIN want.slots : st.slots[i] = want.slots[i] \/ Due(steps, i)
  <2>1. \A i : Due(Binds(ps), i) => Due(steps, i)
    BY DEF Due
  <2> QED
    BY <1>1, <2>1, BoundIsAsked
<1>7. st.timeout = want.timeout \/ \E x \in Elems(steps) : x.do = "timeout"
  BY <1>2, SetsFacts
<1>8. StepsFit(steps, want)
  BY <1>4, <1>5 DEF StepsFit
<1>9. StatementFits(steps, st, want)
  <2>1. ~ \E x \in Elems(steps) : x.do = "reset"
    BY <1>4
  <2>2. DOMAIN st.slots = DOMAIN want.slots
    BY <1>1
  <2> QED
    BY <2>1, <2>2, <1>6, <1>7, Zenon DEF StatementFits
<1> QED
  BY <1>3, <1>8, <1>9

(* Only the first step resets.                                                     *)
LEMMA ResetFirst ==
  ASSUME NEW p \in Seq(StepSet), p # << >>, NEW q \in Seq(StepSet),
         \A j \in DOMAIN p : p[j].do = "reset" => j = 1,
         \A x \in Elems(q) : x.do # "reset"
  PROVE  /\ p \o q \in Seq(StepSet) /\ p \o q # << >> /\ (p \o q)[1] = p[1]
         /\ \A j \in DOMAIN (p \o q) : (p \o q)[j].do = "reset" => j = 1
<1>1. /\ Len(p) \in Nat /\ Len(p) > 0 /\ Len(q) \in Nat /\ DOMAIN p = 1..Len(p) /\ DOMAIN q = 1..Len(q)
      /\ DOMAIN (p \o q) = 1..(Len(p) + Len(q)) /\ Len(p \o q) = Len(p) + Len(q)
      /\ \A i \in 1..(Len(p) + Len(q)) : (p \o q)[i] = IF i <= Len(p) THEN p[i] ELSE q[i - Len(p)]
  OBVIOUS
<1>2. \A j \in DOMAIN q : q[j].do # "reset"
  BY DEF Elems
<1>3. ASSUME NEW j \in DOMAIN (p \o q), (p \o q)[j].do = "reset" PROVE j = 1
  <2>1. CASE j <= Len(p)
    BY <1>1, <1>3, <2>1
  <2>2. CASE ~ (j <= Len(p))
    <3>1. j - Len(p) \in DOMAIN q /\ (p \o q)[j] = q[j - Len(p)]
      BY <1>1, <2>2
    <3> QED
      BY <1>2, <1>3, <3>1
  <2> QED
    BY <2>1, <2>2
<1>4. (p \o q)[1] = p[1]
  BY <1>1
<1>5. p \o q # << >>
  BY <1>1
<1> QED
  BY <1>3, <1>4, <1>5, ElemsConcat

(* A call of a statement again: what it has does not matter.                       *)
LEMMA AgainFits ==
  ASSUME NEW steps \in Seq(StepSet), NEW ps \in Inputs, NEW o \in AllTimeouts, NEW st \in Statement, NEW want,
         want = [slots |-> Assign(Blank(Len(ps)), ps), timeout |-> IF o = None THEN st.timeout ELSE o],
         steps = Resets(Len(ps)) \o Binds(ps) \o Sets(o)
  PROVE  want \in Bound /\ StepsFit(steps, want) /\ StatementFits(steps, st, want)
<1> DEFINE base == Blank(Len(ps))
           first == Resets(Len(ps))
           rest == first \o Binds(ps)
<1>1. Len(ps) \in Nat /\ base \in Seq(Values) /\ DOMAIN base = 1..Len(ps) /\ \A i \in 1..Len(ps) : base[i] = Unset
  BY InputFacts, BlankFacts
<1>2. /\ first \in Seq(StepSet) /\ first # << >> /\ first[1].do = "reset" /\ first[1].n = Len(ps)
      /\ DOMAIN first = {1} /\ Elems(first) = {first[1]}
  <2>1. /\ first \in Seq(StepSet) /\ first # << >> /\ first[1].do = "reset" /\ first[1].n = Len(ps)
        /\ DOMAIN first = {1}
    BY <1>1, ResetsFacts
  <2> HIDE DEF first
  <2> QED
    BY <2>1 DEF Elems
<1>3. /\ want.slots = Assign(base, ps) /\ DOMAIN want.slots = 1..Len(ps) /\ want.slots \in Seq(Values)
      /\ \A i \in 1..Len(ps) : want.slots[i] = Unset \/ Due(Binds(ps), i)
  BY <1>1, AssignFacts, BoundIsAsked
<1>4. want.timeout = (IF o = None THEN st.timeout ELSE o) /\ want.timeout \in AllTimeouts
  BY DEF Statement
<1> HIDE DEF first, base
<1>5. /\ rest \in Seq(StepSet) /\ rest # << >> /\ rest[1] = first[1]
      /\ Elems(rest) = {first[1]} \cup Elems(Binds(ps))
      /\ \A j \in DOMAIN rest : rest[j].do = "reset" => j = 1
  <2>1. \A x \in Elems(Binds(ps)) : x.do # "reset"
    BY BindsFacts
  <2> QED
    <3>1. Binds(ps) \in Seq(StepSet)
      BY BindsFacts
    <3>2. \A j \in DOMAIN first : first[j].do = "reset" => j = 1
      BY <1>2
    <3>3. rest \in Seq(StepSet) /\ Elems(rest) = {first[1]} \cup Elems(Binds(ps))
      BY <1>2, <3>1, ElemsConcat
    <3>4. /\ rest # << >> /\ rest[1] = first[1]
          /\ \A j \in DOMAIN rest : rest[j].do = "reset" => j = 1
      BY <1>2, <2>1, <3>1, <3>2, ResetFirst
    <3> QED
      BY <3>3, <3>4
<1>6. steps = rest \o Sets(o)
  BY DEF first
<1> HIDE DEF rest
<1>7. /\ steps[1] = first[1] /\ Elems(steps) = {first[1]} \cup Elems(Binds(ps)) \cup Elems(Sets(o))
      /\ \A j \in DOMAIN steps : steps[j].do = "reset" => j = 1
  <2>1. \A x \in Elems(Sets(o)) : x.do # "reset"
    BY SetsFacts
  <2> QED
    <3>1. Sets(o) \in Seq(StepSet)
      BY SetsFacts
    <3>2. Elems(steps) = {first[1]} \cup Elems(Binds(ps)) \cup Elems(Sets(o))
      BY <1>5, <1>6, <3>1, ElemsConcat
    <3>3. /\ steps[1] = first[1] /\ \A j \in DOMAIN steps : steps[j].do = "reset" => j = 1
      BY <1>5, <1>6, <2>1, <3>1, ResetFirst
    <3> QED
      BY <3>2, <3>3
<1>8. ASSUME NEW x \in Elems(steps)
      PROVE  /\ x.do = "bind" /\ x.i \in DOMAIN want.slots => x.v = want.slots[x.i]
             /\ x.do = "timeout" => x.o = want.timeout
  <2>1. CASE x = first[1]
    BY <1>2, <2>1
  <2>2. CASE x \in Elems(Binds(ps))
    <3>1. x.do = "bind" /\ (x.i \in DOMAIN base => x.v = Assign(base, ps)[x.i])
      BY <1>1, <2>2, BoundIsAsked
    <3> QED
      BY <1>1, <1>3, <3>1
  <2>3. CASE x \in Elems(Sets(o))
    <3>1. o # None
      BY <2>3, NoElems DEF Sets
    <3>2. x.do = "timeout" /\ x.o = want.timeout
      BY <1>4, <2>3, <3>1, SetsFacts
    <3> QED
      BY <3>2
  <2> QED
    BY <1>7, <2>1, <2>2, <2>3
<1>9. StepsFit(steps, want)
  BY <1>2, <1>3, <1>7, <1>8 DEF StepsFit
<1>10. StatementFits(steps, st, want)
  <2>1. \E x \in Elems(steps) : x.do = "reset"
    BY <1>2, <1>7
  <2>2. \A i : Due(Binds(ps), i) => Due(steps, i)
    BY <1>7 DEF Due
  <2>3. st.timeout = want.timeout \/ \E x \in Elems(steps) : x.do = "timeout"
    BY <1>4, <1>7, SetsFacts
  <2> QED
    BY <1>3, <2>1, <2>2, <2>3 DEF StatementFits
<1> QED
  BY <1>3, <1>4, <1>9, <1>10 DEF Bound

--------------------------------------------------------------------------------
(* The calls of the program.                                                       *)

LEMMA BeginStep ==
  ASSUME IInv, NEW s \in Stmts, NEW kind \in {"factory", "call", "bind"}, NEW mode \in Modes,
         NEW st \in Statement, NEW steps \in Seq(StepSet), NEW want \in Bound,
         StepsFit(steps, want), StatementFits(steps, st, want), Begin(s, kind, mode, st, steps, want),
         IF kind = "factory" THEN stmts[s] = << >> ELSE stmts[s] # << >> /\ ~st.own
  PROVE  IInv'
<1> DEFINE call == [s |-> s, kind |-> kind, mode |-> mode, steps |-> steps, want |-> want,
                    lost |-> lost]
<1>0. TypeOK /\ CallMatches /\ RequestsMatch /\ FramesMatch /\ SentAsAsked /\ ~Busy /\ lost \in Nat
  BY DEF IInv, Begin, TypeOK
<1>1. /\ call \in Operation /\ call.s = s /\ call.kind = kind /\ call.steps = steps /\ call.want = want
      /\ call.lost = lost
  BY <1>0 DEF Operation
<1>2. op' = <<call>> /\ stmts' = [stmts EXCEPT ![s] = <<st>>]
  BY DEF Begin
<1> HIDE DEF call
<1>3. op'[1] = call /\ Busy' /\ op' \in {<<o>> : o \in Operation}
  BY <1>1, <1>2 DEF Busy
<1>4. /\ stmts'[s] = <<st>> /\ stmts'[s][1] = st /\ stmts'[s] # << >>
      /\ \A z \in Stmts : z # s => stmts'[z] = stmts[z]
      /\ stmts' \in [Stmts -> {<< >>} \cup {<<x>> : x \in Statement}]
  BY <1>0, <1>2 DEF TypeOK
<1>5. This' = st
  BY <1>1, <1>3, <1>4 DEF This
<1>6. UNCHANGED <<frames, live, lost, tupled, batch, flight, sent>> /\ frames = << >>
  BY <1>0 DEF Begin, FramesMatch
<1>7. TypeOK'
  <2>1. /\ frames' \in Seq(Frame) /\ live' \in Nat /\ lost' \in Nat /\ tupled' \in Nat
        /\ batch' \in Seq(Entries)
    BY <1>0, <1>6 DEF TypeOK
  <2>2. stmts'[op'[1].s] # << >>
    BY <1>1, <1>3, <1>4
  <2> QED
    BY <1>3, <1>4, <2>1, <2>2, Zenon DEF TypeOK
<1>8. CallMatches' /\ FramesMatch' /\ LostBefore'
  BY <1>1, <1>3, <1>5, <1>6 DEF CallMatches, FramesMatch, LostBefore
<1>9. RequestsMatch'
  <2>1. ASSUME NEW e, EntryMatches(e) PROVE EntryMatches(e)'
    <3>1. CASE e.s = s
      <4>1. kind # "factory" /\ ~st.own
        BY <2>1, <3>1 DEF EntryMatches
      <4> QED
        BY <1>1, <1>3, <1>4, <2>1, <3>1, <4>1 DEF EntryMatches
    <3>2. CASE e.s # s
      BY <1>1, <1>3, <1>4, <2>1, <3>2 DEF EntryMatches
    <3> QED
      BY <3>1, <3>2
  <2>2. op'[1].kind # "factory" => ~This'.own
    BY <1>1, <1>3, <1>5
  <2> QED
    BY <1>0, <1>6, <2>1, <2>2 DEF RequestsMatch
<1>10. live' = Len(frames') + lost' + tupled'
  BY <1>6 DEF IInv
<1> QED
  BY <1>0, <1>6, <1>7, <1>8, <1>9, <1>10, SentStays DEF IInv

LEMMA StatementParts ==
  ASSUME NEW st \in Statement
  PROVE  /\ st.slots \in Seq(Values) /\ st.timeout \in AllTimeouts
         /\ [st EXCEPT !.own = FALSE] \in Statement
         /\ LET new == [st EXCEPT !.own = FALSE]
            IN  ~new.own /\ new.slots = st.slots /\ new.timeout = st.timeout
BY DEF Statement

LEMMA NewStatement ==
  ASSUME NEW prepared \in BOOLEAN, NEW n \in Nat
  PROVE  LET st == [prepared |-> prepared, own |-> prepared, slots |-> Blank(n), timeout |-> None]
         IN  st \in Statement /\ st.slots = Blank(n) /\ st.timeout = None
BY BlankFacts DEF Statement, AllTimeouts, Timeouts

LEMMA NewFromStringStep ==
  ASSUME IInv, NEW s \in Stmts, NEW ps \in Inputs, NEW mode \in Modes, NEW o \in Timeouts,
         NewFromString(s, ps, mode, o)
  PROVE  IInv'
<1>1. PICK n \in IF ps = << >> THEN {0, N} ELSE {Len(ps)} :
        Begin(s, "factory", mode,
              [prepared |-> FALSE, own |-> FALSE, slots |-> Blank(n), timeout |-> None],
              Binds(ps) \o Sets(o), [slots |-> Assign(Blank(n), ps), timeout |-> o])
  BY DEF NewFromString
<1> DEFINE st == [prepared |-> FALSE, own |-> FALSE, slots |-> Blank(n), timeout |-> None]
           steps == Binds(ps) \o Sets(o)
           want == [slots |-> Assign(Blank(n), ps), timeout |-> o]
<1>2. n \in Nat
  BY <1>1, InputFacts, CountsAreNat DEF CountsAreNat
<1>3. st \in Statement /\ st.slots = Blank(n) /\ st.timeout = None /\ Blank(n) \in Seq(Values) /\ o \in AllTimeouts
  BY <1>2, NewStatement, BlankFacts DEF AllTimeouts
<1>4. steps \in Seq(StepSet) /\ Elems(steps) = Elems(Binds(ps)) \cup Elems(Sets(o))
  BY <1>3, BindsFacts, SetsFacts, ElemsConcat
<1>5. Begin(s, "factory", mode, st, steps, want) /\ stmts[s] = << >>
  BY <1>1 DEF NewFromString
<1>6. want = [slots |-> Assign(Blank(n), ps), timeout |-> IF o = None THEN st.timeout ELSE o]
  BY <1>3
<1> HIDE DEF st, steps, want
<1>7. want \in Bound /\ StepsFit(steps, want) /\ StatementFits(steps, st, want)
  BY <1>3, <1>4, <1>6, AskedFits
<1> QED
  BY <1>3, <1>4, <1>5, <1>7, BeginStep

LEMMA PreparedBindStep ==
  ASSUME IInv, NEW s \in Stmts, NEW ps \in Inputs, NEW mode \in Modes, NEW o \in Timeouts, NEW default \in Defaults,
         PreparedBind(s, ps, mode, o, default)
  PROVE  IInv'
<1> DEFINE t == OrDefault(o, default)
           st == [prepared |-> TRUE, own |-> TRUE, slots |-> Blank(N), timeout |-> None]
           steps == Sets(t) \o Binds(ps)
           want == [slots |-> Assign(Blank(N), ps), timeout |-> t]
<1>1. t \in AllTimeouts
  BY DEF OrDefault, AllTimeouts
<1>2. Begin(s, "factory", mode, st, steps, want) /\ stmts[s] = << >>
  BY DEF PreparedBind
<1> HIDE DEF t
<1>3. st \in Statement /\ st.slots = Blank(N) /\ st.timeout = None /\ Blank(N) \in Seq(Values)
  BY NewStatement, BlankFacts, CountsAreNat DEF CountsAreNat
<1>4. steps \in Seq(StepSet) /\ Elems(steps) = Elems(Binds(ps)) \cup Elems(Sets(t))
  <2>1. Sets(t) \in Seq(StepSet) /\ Binds(ps) \in Seq(StepSet)
    BY <1>1, BindsFacts, SetsFacts
  <2>2. steps \in Seq(StepSet) /\ Elems(steps) = Elems(Sets(t)) \cup Elems(Binds(ps))
    BY <2>1, ElemsConcat
  <2> HIDE DEF steps
  <2> QED
    BY <2>2
<1>5. want = [slots |-> Assign(Blank(N), ps), timeout |-> IF t = None THEN st.timeout ELSE t]
  BY <1>3
<1> HIDE DEF st, steps, want
<1>6. want \in Bound /\ StepsFit(steps, want) /\ StatementFits(steps, st, want)
  BY <1>1, <1>3, <1>4, <1>5, AskedFits
<1> QED
  BY <1>2, <1>3, <1>4, <1>6, BeginStep

LEMMA CallStep ==
  ASSUME IInv, NEW s \in Stmts, NEW ps \in Inputs, NEW mode \in Modes, NEW o \in Timeouts,
         Call(s, ps, mode, o)
  PROVE  IInv'
<1> DEFINE st == [stmts[s][1] EXCEPT !.own = FALSE]
           steps == Resets(Len(ps)) \o Binds(ps) \o Sets(o)
           want == [slots |-> Assign(Blank(Len(ps)), ps),
                    timeout |-> IF o = None THEN stmts[s][1].timeout ELSE o]
<1>1. TypeOK /\ stmts[s] # << >> /\ Begin(s, "call", mode, st, steps, want)
  BY DEF IInv, Call
<1>2. stmts[s][1] \in Statement
  BY <1>1, StmtFacts
<1>3. st \in Statement /\ ~st.own /\ st.timeout = stmts[s][1].timeout /\ o \in AllTimeouts
  BY <1>2, StatementParts DEF AllTimeouts
<1>4. steps \in Seq(StepSet)
  BY <1>3, InputFacts, ResetsFacts, BindsFacts, SetsFacts
<1>5. want = [slots |-> Assign(Blank(Len(ps)), ps), timeout |-> IF o = None THEN st.timeout ELSE o]
  BY <1>3
<1>6. steps = Resets(Len(ps)) \o Binds(ps) \o Sets(o)
  OBVIOUS
<1> HIDE DEF st, steps, want
<1>7. want \in Bound /\ StepsFit(steps, want) /\ StatementFits(steps, st, want)
  BY <1>3, <1>4, <1>5, <1>6, AgainFits
<1> QED
  BY <1>1, <1>3, <1>4, <1>7, BeginStep

LEMMA CallAgainStep ==
  ASSUME IInv, NEW s \in Stmts, NEW o \in Timeouts, CallAgain(s, o)
  PROVE  IInv'
<1> DEFINE st == [stmts[s][1] EXCEPT !.own = FALSE]
           want == [slots |-> stmts[s][1].slots, timeout |-> IF o = None THEN stmts[s][1].timeout ELSE o]
<1>1. TypeOK /\ stmts[s] # << >> /\ Begin(s, "call", "index", st, Sets(o), want) /\ "index" \in Modes
  BY DEF IInv, CallAgain, Modes
<1>2. stmts[s][1] \in Statement
  BY <1>1, StmtFacts
<1>3. /\ st \in Statement /\ ~st.own /\ st.slots = want.slots /\ o \in AllTimeouts
      /\ want.timeout = (IF o = None THEN st.timeout ELSE o) /\ want \in Bound
  BY <1>2, StatementParts DEF AllTimeouts, Bound
<1> HIDE DEF st, want
<1>4. ASSUME NEW x \in Elems(Sets(o)) PROVE x.do = "timeout" /\ x.o = want.timeout
  <2>1. o # None
    BY NoElems DEF Sets
  <2> QED
    BY <1>3, <2>1, SetsFacts
<1>5. StepsFit(Sets(o), want)
  <2>1. \A j \in DOMAIN Sets(o) : Sets(o)[j].do # "reset"
    BY <1>4, AtElems
  <2> QED
    BY <1>4, <2>1 DEF StepsFit
<1>6. StatementFits(Sets(o), st, want)
  <2>1. ~ \E x \in Elems(Sets(o)) : x.do = "reset"
    BY <1>4
  <2>2. st.timeout = want.timeout \/ \E x \in Elems(Sets(o)) : x.do = "timeout"
    BY <1>3, SetsFacts
  <2> QED
    BY <1>3, <2>1, <2>2 DEF StatementFits
<1> QED
  BY <1>1, <1>3, <1>5, <1>6, SetsFacts, BeginStep

(* Parameters of another kind: what is bound is gone.                              *)
LEMMA CallRefusedStep ==
  ASSUME IInv, NEW s \in Stmts, NEW n \in 0..N, CallRefused(s, n)
  PROVE  IInv'
<1> DEFINE st == [stmts[s][1] EXCEPT !.own = FALSE, !.slots = Blank(n)]
<1>1. /\ TypeOK /\ RequestsMatch /\ SentAsAsked /\ FramesMatch /\ ~Busy /\ stmts[s] # << >>
      /\ stmts' = [stmts EXCEPT ![s] = <<st>>]
      /\ UNCHANGED <<op, frames, live, lost, tupled, batch, flight, sent>>
  BY DEF IInv, CallRefused
<1>2. st \in Statement /\ ~st.own
  <2>1. n \in Nat /\ stmts[s][1] \in Statement
    BY <1>1, StmtFacts, CountsAreNat DEF CountsAreNat
  <2>2. Blank(n) \in Seq(Values)
    BY <2>1, BlankFacts
  <2> QED
    BY <2>1, <2>2 DEF Statement
<1> HIDE DEF st
<1>3. /\ stmts'[s] = <<st>> /\ stmts'[s][1] = st /\ stmts'[s] # << >>
      /\ \A z \in Stmts : z # s => stmts'[z] = stmts[z]
      /\ stmts' \in [Stmts -> {<< >>} \cup {<<x>> : x \in Statement}]
  BY <1>1, <1>2 DEF TypeOK
<1>4. ~Busy'
  BY <1>1 DEF Busy
<1>5. TypeOK'
  BY <1>1, <1>3, <1>4 DEF TypeOK
<1>6. CallMatches' /\ FramesMatch' /\ LostBefore'
  BY <1>1, <1>4 DEF CallMatches, FramesMatch, LostBefore
<1>7. RequestsMatch'
  <2>1. ASSUME NEW e, EntryMatches(e) PROVE EntryMatches(e)'
    BY <1>2, <1>3, <1>4, <2>1 DEF EntryMatches
  <2> QED
    BY <1>1, <1>4, <2>1 DEF RequestsMatch
<1>8. live' = Len(frames') + lost' + tupled'
  BY <1>1 DEF IInv
<1> QED
  BY <1>1, <1>5, <1>6, <1>7, <1>8, SentStays DEF IInv

LEMMA BindStep ==
  ASSUME IInv, NEW s \in Stmts, NEW ps \in Inputs, NEW mode \in Modes, Bind(s, ps, mode)
  PROVE  IInv'
<1> DEFINE st == [stmts[s][1] EXCEPT !.own = FALSE]
           base == stmts[s][1].slots
           want == [slots |-> Assign(base, ps), timeout |-> stmts[s][1].timeout]
<1>1. TypeOK /\ stmts[s] # << >> /\ Begin(s, "bind", mode, st, Binds(ps), want)
  BY DEF IInv, Bind
<1>2. stmts[s][1] \in Statement
  BY <1>1, StmtFacts
<1>3. /\ st \in Statement /\ ~st.own /\ st.slots = base /\ base \in Seq(Values)
      /\ st.timeout = stmts[s][1].timeout
  BY <1>2, StatementParts
<1>4. want = [slots |-> Assign(base, ps), timeout |-> IF None = None THEN st.timeout ELSE None]
  BY <1>3
<1>5. None \in AllTimeouts /\ Elems(Binds(ps)) = Elems(Binds(ps)) \cup Elems(Sets(None))
  <2>1. Sets(None) = << >>
    BY DEF Sets
  <2> QED
    BY <2>1, NoElems DEF AllTimeouts, Timeouts
<1> HIDE DEF st, base, want
<1>6. want \in Bound /\ StepsFit(Binds(ps), want) /\ StatementFits(Binds(ps), st, want)
  BY <1>3, <1>4, <1>5, BindsFacts, AskedFits
<1> QED
  BY <1>1, <1>3, <1>6, BindsFacts, BeginStep

--------------------------------------------------------------------------------
(* The steps of a call.                                                            *)

(* A field of a statement is set.                                                  *)
LEMMA SetField ==
  ASSUME TypeOK, NEW s \in Stmts, stmts[s] # << >>, NEW v
  PROVE  LET st == stmts[s][1]
         IN  /\ [stmts EXCEPT ![s][1].slots = v] = [stmts EXCEPT ![s] = <<[st EXCEPT !.slots = v]>>]
             /\ [stmts EXCEPT ![s][1].timeout = v] = [stmts EXCEPT ![s] = <<[st EXCEPT !.timeout = v]>>]
<1> DEFINE st == stmts[s][1]
<1>1. stmts[s] = <<st>>
  BY StmtFacts
<1>2. \A x : [<<st>> EXCEPT ![1] = x] = <<x>>
  OBVIOUS
<1> QED
  BY <1>1, <1>2

LEMMA FieldsOf ==
  ASSUME NEW st \in Statement
  PROVE  /\ \A v \in Seq(Values) : LET new == [st EXCEPT !.slots = v]
                                  IN  /\ new \in Statement /\ new.own = st.own
                                      /\ new.slots = v /\ new.timeout = st.timeout
         /\ \A v \in AllTimeouts : LET new == [st EXCEPT !.timeout = v]
                                   IN  /\ new \in Statement /\ new.own = st.own
                                       /\ new.slots = st.slots /\ new.timeout = v
BY DEF Statement

LEMMA StepFacts ==
  ASSUME TypeOK, Busy, op[1].steps # << >>
  PROVE  /\ Step \in StepSet
         /\ Step.do = "reset" => Step.n \in Nat
         /\ Step.do = "bind" => Step.i \in Nat /\ Step.v \in Values
         /\ Step.do = "timeout" => Step.o \in AllTimeouts
<1>1. Step \in StepSet
  BY CallFacts, ElemsTail DEF Step
<1> HIDE DEF Step
<1> QED
  BY <1>1 DEF StepSet

LEMMA NothingOpen ==
  ASSUME IInv, frames = << >>
  PROVE  lost \in Nat /\ tupled \in Nat /\ live = lost + tupled
<1>1. live = Len(frames) + lost + tupled /\ lost \in Nat /\ tupled \in Nat
  BY DEF IInv, TypeOK
<1> QED
  BY <1>1

LEMMA ReturnStep ==
  ASSUME IInv, Return
  PROVE  IInv'
<1>0. /\ TypeOK /\ RequestsMatch /\ SentAsAsked /\ frames = << >> /\ op' = << >> /\ ~Busy'
      /\ UNCHANGED <<stmts, frames, live, lost, tupled, batch, flight, sent>>
  BY DEF IInv, Return, FramesMatch, Busy
<1>1. TypeOK'
  BY <1>0 DEF TypeOK
<1>2. CallMatches' /\ FramesMatch' /\ LostBefore'
  BY <1>0 DEF CallMatches, FramesMatch, LostBefore
<1>3. RequestsMatch'
  <2>1. ASSUME NEW e, EntryMatches(e) PROVE EntryMatches(e)'
    BY <1>0, <2>1 DEF EntryMatches
  <2> QED
    BY <1>0, <2>1 DEF RequestsMatch
<1>4. live' = Len(frames') + lost' + tupled'
  BY <1>0 DEF IInv
<1> QED
  BY <1>0, <1>1, <1>2, <1>3, <1>4, SentStays DEF IInv

LEMMA ResetStep ==
  ASSUME IInv, Reset
  PROVE  IInv'
<1> DEFINE new == [This EXCEPT !.slots = Blank(Step.n)]
<1>1. TypeOK /\ Busy /\ op[1].steps # << >> /\ Step.do = "reset" /\ Done
  BY DEF IInv, Reset
<1>2. This \in Statement /\ op[1].s \in Stmts /\ stmts[op[1].s] = <<This>> /\ op[1].steps \in Seq(StepSet)
  BY <1>1, CallFacts
<1>3. Step.n \in Nat /\ Blank(Step.n) \in Seq(Values)
  BY <1>1, StepFacts, BlankFacts
<1>4. new \in Statement /\ new.own = This.own /\ new.slots = Blank(Step.n) /\ new.timeout = This.timeout
  BY <1>2, <1>3, FieldsOf
<1>5. stmts' = [stmts EXCEPT ![op[1].s] = <<new>>]
  <2>1. stmts' = [stmts EXCEPT ![op[1].s][1].slots = Blank(Step.n)]
    BY DEF Reset
  <2>2. stmts[op[1].s] # << >> /\ stmts[op[1].s][1] = This
    BY <1>2 DEF This
  <2> QED
    BY <1>1, <1>2, <2>1, <2>2, SetField
<1> HIDE DEF new
<1>6. StatementFits(Tail(op[1].steps), new, op[1].want)
  BY <1>1, <1>2, <1>3, <1>4, ResetFits DEF IInv, CallMatches, Step
<1>7. frames' = << >> /\ live' = lost + tupled /\ UNCHANGED <<lost, tupled, batch, flight, sent>>
  <2>1. frames = << >>
    BY <1>1 DEF IInv, FramesMatch
  <2>2. live = lost + tupled
    BY <2>1, NothingOpen
  <2> QED
    BY <2>1, <2>2 DEF Reset
<1> QED
  BY <1>1, <1>4, <1>5, <1>6, <1>7, Advance

LEMMA SetTimeoutStep ==
  ASSUME IInv, SetTimeout
  PROVE  IInv'
<1> DEFINE new == [This EXCEPT !.timeout = Step.o]
<1>1. TypeOK /\ Busy /\ op[1].steps # << >> /\ Step.do = "timeout" /\ UNCHANGED <<batch, flight, sent, live>>
  BY DEF IInv, SetTimeout
<1>2. This \in Statement /\ op[1].s \in Stmts /\ stmts[op[1].s] = <<This>> /\ op[1].steps \in Seq(StepSet)
  BY <1>1, CallFacts
<1>3. frames = << >> /\ lost \in Nat /\ tupled \in Nat /\ live = lost + tupled
  <2>1. frames = << >>
    BY <1>1 DEF IInv, FramesMatch
  <2> QED
    BY <2>1, NothingOpen
<1>4. CASE Step.o = "refused"
  <2>1. Raise(0)
    BY <1>4 DEF SetTimeout
  <2>2. live' = 0 + lost + tupled
    BY <1>1, <1>3
  <2> QED
    BY <1>1, <2>1, <2>2, RaiseStep
<1>5. CASE Step.o # "refused"
  <2>1. stmts' = [stmts EXCEPT ![op[1].s][1].timeout = Step.o] /\ Done /\ UNCHANGED <<frames, lost, tupled>>
    BY <1>5 DEF SetTimeout
  <2>2. new \in Statement /\ new.own = This.own /\ new.slots = This.slots /\ new.timeout = Step.o
    BY <1>1, <1>2, StepFacts, FieldsOf
  <2>3. stmts' = [stmts EXCEPT ![op[1].s] = <<new>>]
    <3>1. stmts[op[1].s] # << >> /\ stmts[op[1].s][1] = This
      BY <1>2 DEF This
    <3> QED
      BY <1>1, <1>2, <2>1, <3>1, SetField
  <2> HIDE DEF new
  <2>4. StatementFits(Tail(op[1].steps), new, op[1].want)
    BY <1>1, <1>2, <2>2, TimeoutFits DEF IInv, CallMatches, Step
  <2>5. frames' = << >> /\ live' = lost + tupled
    BY <1>1, <1>3, <2>1
  <2> QED
    BY <1>1, <2>1, <2>2, <2>3, <2>4, <2>5, Advance
<1> QED
  BY <1>4, <1>5

(* The next parameter is bound.                                                    *)
LEMMA BindsOne ==
  ASSUME IInv, Busy, op[1].steps # << >>, Step.do = "bind", Step.i \in DOMAIN This.slots,
         stmts' = [stmts EXCEPT ![op[1].s][1].slots[Step.i] = Step.v], Done,
         frames' = << >>, live' = lost + tupled, UNCHANGED <<lost, tupled, batch, flight, sent>>
  PROVE  IInv'
<1> DEFINE slots == [This.slots EXCEPT ![Step.i] = Step.v]
           new == [This EXCEPT !.slots = slots]
<1>1. TypeOK
  BY DEF IInv
<1>2. This \in Statement /\ op[1].s \in Stmts /\ stmts[op[1].s] = <<This>> /\ op[1].steps \in Seq(StepSet)
  BY <1>1, CallFacts
<1>3. This.slots \in Seq(Values) /\ slots \in Seq(Values)
  <2>1. This.slots \in Seq(Values) /\ Step.v \in Values
    BY <1>1, <1>2, StatementParts, StepFacts
  <2> HIDE DEF Step, This
  <2> QED
    BY <2>1
<1>4. new \in Statement /\ new.own = This.own /\ new.slots = slots /\ new.timeout = This.timeout
  BY <1>2, <1>3, FieldsOf
<1>5. stmts' = [stmts EXCEPT ![op[1].s] = <<new>>]
  <2>1. stmts[op[1].s] # << >> /\ stmts[op[1].s][1] = This
    BY <1>2 DEF This
  <2> QED
    <3>1. PICK t, i, v : t = op[1].s /\ i = Step.i /\ v = Step.v
      OBVIOUS
    <3>2. stmts' = [stmts EXCEPT ![t][1].slots[i] = v] /\ t \in Stmts /\ stmts[t] # << >> /\ stmts[t][1] = This
      BY <1>2, <2>1, <3>1
    <3>3. slots = [stmts[t][1].slots EXCEPT ![i] = v]
      BY <3>1, <3>2
    <3> HIDE DEF slots
    <3>4. [stmts EXCEPT ![t][1].slots[i] = v] = [stmts EXCEPT ![t] = <<[stmts[t][1] EXCEPT !.slots = slots]>>]
      <4>1. stmts[t] = <<stmts[t][1]>>
        BY <1>1, <3>2, StmtFacts
      <4>2. \A x : [<<stmts[t][1]>> EXCEPT ![1] = x] = <<x>>
        OBVIOUS
      <4> QED
        BY <3>3, <4>1, <4>2, Zenon
    <3> QED
      BY <3>1, <3>2, <3>4, Zenon
<1> HIDE DEF new
<1>6. StatementFits(Tail(op[1].steps), new, op[1].want)
  <2>1. /\ StepsFit(op[1].steps, op[1].want)
        /\ StatementFits(op[1].steps, This, op[1].want)
    BY DEF IInv, CallMatches
  <2> QED
    BY <1>2, <1>3, <1>4, <2>1, BindFits DEF Step
<1> QED
  BY <1>4, <1>5, <1>6, Advance

LEMMA BindScalarStep ==
  ASSUME IInv, BindScalar
  PROVE  IInv'
<1>1. Busy /\ frames = << >> /\ op[1].steps # << >> /\ Step.do = "bind" /\ UNCHANGED <<batch, flight, sent, live>>
  BY DEF BindScalar
<1>2. lost \in Nat /\ tupled \in Nat /\ live = lost + tupled
  BY <1>1, NothingOpen
<1>3. CASE Accepted
  <2>1. /\ stmts' = [stmts EXCEPT ![op[1].s][1].slots[Step.i] = Step.v]
        /\ Done /\ UNCHANGED <<frames, lost, tupled>> /\ Step.i \in DOMAIN This.slots
    BY <1>3 DEF BindScalar, Accepted
  <2>2. frames' = << >> /\ live' = lost + tupled
    BY <1>1, <1>2, <2>1
  <2> QED
    BY <1>1, <2>1, <2>2, BindsOne
<1>4. CASE ~Accepted
  <2>1. Raise(0)
    BY <1>4 DEF BindScalar
  <2>2. live' = 0 + lost + tupled
    BY <1>1, <1>2
  <2> QED
    BY <1>1, <2>1, <2>2, RaiseStep
<1> QED
  BY <1>3, <1>4

--------------------------------------------------------------------------------
(* Containers.                                                                     *)

LEMMA LessLeft ==
  ASSUME NEW fs \in Seq(Frame), fs # << >>
  PROVE  LET new == [fs EXCEPT ![Len(fs)].left = @ - 1]
         IN  new \in Seq(Frame) /\ Len(new) = Len(fs)
<1> DEFINE i == Len(fs)
<1>1. i \in Nat /\ i \in 1..Len(fs) /\ i \in DOMAIN fs
  OBVIOUS
<1>2. fs[i] \in Frame
  BY <1>1
<1>3. [fs[i] EXCEPT !.left = @ - 1] \in Frame
  BY <1>2 DEF Frame
<1> DEFINE fr == [fs[i] EXCEPT !.left = @ - 1]
<1> HIDE DEF fr
<1>4. fr \in Frame
  BY <1>3 DEF fr
<1>5. [fs EXCEPT ![i] = fr] \in Seq(Frame) /\ Len([fs EXCEPT ![i] = fr]) = Len(fs)
  BY <1>1, <1>4
<1> QED
  BY <1>5 DEF fr

LEMMA Inner ==
  ASSUME NEW fs \in Seq(Frame), Len(fs) > 1
  PROVE  /\ SubSeq(fs, 1, Len(fs) - 1) \in Seq(Frame)
         /\ Len(SubSeq(fs, 1, Len(fs) - 1)) = Len(fs) - 1
OBVIOUS

LEMMA OneMore ==
  ASSUME NEW fs \in Seq(Frame), NEW fr \in Frame
  PROVE  Append(fs, fr) \in Seq(Frame) /\ Len(Append(fs, fr)) = Len(fs) + 1
OBVIOUS

LEMMA CountFacts ==
  ASSUME IInv
  PROVE  /\ TypeOK /\ frames \in Seq(Frame) /\ Len(frames) \in Nat /\ live \in Nat
         /\ lost \in Nat /\ tupled \in Nat /\ live = Len(frames) + lost + tupled
BY DEF IInv, TypeOK

(* Where a container may be built.                                                 *)
Here == /\ Busy /\ op[1].steps # << >> /\ Step.do = "bind" /\ Step.v = "container"
        /\ Step.i \in DOMAIN This.slots

LEMMA ContainerStep ==
  ASSUME IInv, Here, Container, UNCHANGED <<batch, flight, sent>>
  PROVE  IInv'
<1>1. ASSUME NEW k \in Kinds, NEW n \in Int, New(k, n) PROVE IInv'
  <2> DEFINE fr == [kind |-> k, left |-> n]
  <2>1. fr \in Frame
    BY DEF Frame
  <2>2. frames' = Append(frames, fr) /\ live' = live + 1 /\ UNCHANGED <<stmts, op, lost, tupled>>
    BY <1>1 DEF New
  <2> HIDE DEF fr
  <2>3. frames' \in Seq(Frame) /\ Len(frames') = Len(frames) + 1
    BY <2>1, <2>2, CountFacts, OneMore
  <2>4. tupled' \in Nat /\ live' = Len(frames') + lost + tupled'
    BY <2>2, <2>3, CountFacts
  <2> QED
    BY <2>2, <2>3, <2>4, Building DEF Here
<1>2. ASSUME NotNew PROVE IInv'
  <2>1. Raise(Len(frames)) /\ live' = Len(frames) + lost + tupled /\ Len(frames) \in Nat /\ Busy
    BY <1>2, CountFacts DEF NotNew, Raised, Here
  <2> QED
    BY <2>1, RaiseStep
<1>3. {"collection", "tuple", "udt by name", "udt by index"} = Kinds
  BY DEF Kinds
<1>4. ASSUME NEW n \in Int, GetCollection(n) \/ GetUdt(n) PROVE IInv'
  <2>1. New("collection", n) \/ New("udt by name", n) \/ New("udt by index", n) \/ NotNew
    BY <1>4 DEF GetCollection, GetUdt
  <2> QED
    BY <1>1, <1>2, <1>3, <2>1
<1>5. ASSUME NEW n \in Int, GetTuple(n) PROVE IInv'
  <2>1. New("tuple", n) \/ NotNew
    BY <1>5 DEF GetTuple
  <2> QED
    BY <1>1, <1>2, <1>3, <2>1
<1>6. 0..MaxSize \subseteq Int /\ 0..MaxSize + 1 \subseteq Int
  BY CountsAreNat DEF CountsAreNat
<1> QED
  BY <1>4, <1>5, <1>6 DEF Container

LEMMA GetContainerStep ==
  ASSUME IInv, GetContainer
  PROVE  IInv'
BY ContainerStep DEF GetContainer, Here, Accepted

LEMMA HereFacts ==
  ASSUME IInv, frames # << >>
  PROVE  Here
BY DEF IInv, FramesMatch, Here

LEMMA NestedStep ==
  ASSUME IInv, Nested
  PROVE  IInv'
BY HereFacts, ContainerStep DEF Nested

LEMMA ElementStep ==
  ASSUME IInv, NEW e, Element(e)
  PROVE  IInv'
<1>1. Here /\ frames # << >> /\ UNCHANGED <<live, batch, flight, sent>> /\ (Written \/ Raised)
  BY HereFacts DEF Element, CollectionElement, TupleElement, UdtElementByName, UdtElementByIndex
<1>2. CASE Written
  <2>1. frames' = [frames EXCEPT ![Len(frames)].left = @ - 1] /\ UNCHANGED <<stmts, op, lost, tupled>>
    BY <1>2 DEF Written
  <2>2. frames' \in Seq(Frame) /\ Len(frames') = Len(frames)
    BY <1>1, <2>1, CountFacts, LessLeft
  <2>3. tupled' \in Nat /\ live' = Len(frames') + lost + tupled'
    BY <1>1, <2>1, <2>2, CountFacts
  <2> QED
    BY <1>1, <2>1, <2>2, <2>3, Building DEF Here
<1>3. CASE Raised
  <2>1. Raise(Len(frames)) /\ live' = Len(frames) + lost + tupled /\ Len(frames) \in Nat /\ Busy
    BY <1>1, <1>3, CountFacts DEF Raised, Here
  <2> QED
    BY <1>1, <2>1, RaiseStep
<1> QED
  BY <1>1, <1>2, <1>3

LEMMA CloseNestedStep ==
  ASSUME IInv, CloseNested
  PROVE  IInv'
<1> DEFINE outer == frames[Len(frames) - 1]
           kept == IF outer.kind = "tuple" THEN 1 ELSE 0
           after == SubSeq(frames, 1, Len(frames) - 1)
<1>1. /\ Len(frames) > 1 /\ live' = live - (1 - kept) /\ UNCHANGED <<batch, flight, sent>>
      /\ \/ /\ frames' = [after EXCEPT ![Len(after)].left = @ - 1]
            /\ tupled' = tupled + kept
            /\ UNCHANGED <<stmts, op, lost>>
         \/ Raise(Len(after) + kept)
  BY DEF CloseNested
<1>2. kept \in {0, 1}
  OBVIOUS
<1>3. after \in Seq(Frame) /\ Len(after) = Len(frames) - 1
  BY <1>1, CountFacts, Inner
<1> HIDE DEF kept, after
<1>4. frames # << >>
  BY <1>1, NoFrames
<1>5. Here
  BY <1>4, HereFacts
<1>6. after # << >>
  BY <1>1, <1>3, CountFacts
<1>7. live' = Len(after) + kept + lost + tupled /\ Len(after) + kept \in Nat
  BY <1>1, <1>2, <1>3, CountFacts
<1>8. CASE /\ frames' = [after EXCEPT ![Len(after)].left = @ - 1]
           /\ tupled' = tupled + kept /\ UNCHANGED <<stmts, op, lost>>
  <2>1. frames' \in Seq(Frame) /\ Len(frames') = Len(after)
    BY <1>3, <1>6, <1>8, LessLeft
  <2>2. tupled' = tupled + kept /\ tupled \in Nat /\ lost \in Nat /\ Len(after) \in Nat
    BY <1>3, <1>8, CountFacts
  <2>3. tupled' \in Nat /\ live' = Len(frames') + lost + tupled'
    BY <1>2, <1>7, <2>1, <2>2
  <2> QED
    BY <1>1, <1>3, <1>5, <1>8, <2>1, <2>3, Building DEF Here
<1>9. CASE Raise(Len(after) + kept)
  BY <1>1, <1>5, <1>7, <1>9, RaiseStep DEF Here
<1> QED
  BY <1>1, <1>8, <1>9

LEMMA BindContainerStep ==
  ASSUME IInv, BindContainer
  PROVE  IInv'
<1>1. Len(frames) = 1 /\ live' = live - 1 /\ UNCHANGED <<batch, flight, sent>>
  BY DEF BindContainer
<1>2. frames # << >>
  BY <1>1, NoFrames
<1>3. Here
  BY <1>2, HereFacts
<1>4. live' = 0 + lost + tupled /\ live' = lost + tupled
  BY <1>1, CountFacts
<1>5. CASE Raise(0)
  BY <1>1, <1>3, <1>4, <1>5, RaiseStep DEF Here
<1>6. CASE ~Raise(0)
  <2>1. /\ frames' = << >> /\ stmts' = [stmts EXCEPT ![op[1].s][1].slots[Step.i] = "container"]
        /\ Done /\ UNCHANGED <<lost, tupled>>
    BY <1>6 DEF BindContainer
  <2>2. stmts' = [stmts EXCEPT ![op[1].s][1].slots[Step.i] = Step.v]
    BY <1>3, <2>1, Zenon DEF Here
  <2> QED
    BY <1>1, <1>3, <1>4, <2>1, <2>2, BindsOne DEF Here
<1> QED
  BY <1>5, <1>6

--------------------------------------------------------------------------------
(* Execution.                                                                      *)

(* Only the requests change.                                                       *)
LEMMA Requesting ==
  ASSUME IInv, UNCHANGED <<stmts, op, frames, live, lost, tupled, tupled>>, SentAsAsked', batch' \in Seq(Entries),
         \A r \in flight' \cup {batch'} : \A k \in DOMAIN r : EntryMatches(r[k])
  PROVE  IInv'
<1>1. TypeOK /\ CallMatches /\ FramesMatch /\ RequestsMatch /\ live = Len(frames) + lost + tupled
      /\ LostBefore
  BY DEF IInv
<1>2. This' = This /\ Busy' = Busy /\ Step' = Step
  BY DEF This, Busy, Step
<1>3. TypeOK' /\ CallMatches' /\ FramesMatch' /\ LostBefore'
  BY <1>1, <1>2 DEF TypeOK, CallMatches, FramesMatch, LostBefore
<1>4. RequestsMatch'
  <2>1. ASSUME NEW e, EntryMatches(e) PROVE EntryMatches(e)'
    BY <1>2, <2>1 DEF EntryMatches
  <2>2. op'[1].kind = op[1].kind
    OBVIOUS
  <2> QED
    BY <1>1, <1>2, <2>1, <2>2 DEF RequestsMatch
<1>5. live' = Len(frames') + lost' + tupled'
  BY <1>1
<1> QED
  BY <1>3, <1>4, <1>5 DEF IInv

LEMMA NewEntry ==
  ASSUME ~Busy, NEW s \in Stmts, stmts[s] # << >>
  PROVE  EntryMatches(Entry(s))
BY DEF EntryMatches, Entry

LEMMA ExecuteStep ==
  ASSUME IInv, NEW s \in Stmts, Execute(s)
  PROVE  IInv'
<1>1. /\ RequestsMatch /\ SentAsAsked /\ ~Busy /\ stmts[s] # << >> /\ flight' = flight \cup {<<Entry(s)>>}
      /\ UNCHANGED <<stmts, op, frames, live, lost, tupled, batch, sent>>
  BY DEF IInv, Execute
<1>2. EntryMatches(Entry(s))
  BY <1>1, NewEntry
<1>3. ASSUME NEW k \in DOMAIN <<Entry(s)>> PROVE <<Entry(s)>>[k] = Entry(s)
  OBVIOUS
<1>4. \A r \in flight' \cup {batch'} : \A k \in DOMAIN r : EntryMatches(r[k])
  <2> TAKE r \in flight' \cup {batch'}
  <2> TAKE k \in DOMAIN r
  <2>1. CASE r = <<Entry(s)>>
    BY <1>2, <1>3, <2>1, Zenon
  <2>2. CASE r \in flight \cup {batch}
    BY <1>1, <2>2 DEF RequestsMatch
  <2> QED
    BY <1>1, <2>1, <2>2
<1> QED
  BY <1>1, <1>4, SentStays, Requesting DEF IInv, TypeOK

LEMMA AddStatementStep ==
  ASSUME IInv, NEW s \in Stmts, AddStatement(s)
  PROVE  IInv'
<1>1. /\ TypeOK /\ RequestsMatch /\ SentAsAsked /\ ~Busy /\ stmts[s] # << >> /\ batch' = Append(batch, Entry(s))
      /\ UNCHANGED <<stmts, op, frames, live, lost, tupled, flight, sent>>
  BY DEF IInv, AddStatement
<1>2. EntryMatches(Entry(s)) /\ Entry(s) \in Entries
  <2>1. stmts[s][1].slots \in Seq(Values)
    BY <1>1, StmtFacts, StatementParts
  <2> QED
    BY <1>1, <2>1, NewEntry DEF Entry, Entries
<1>3. /\ batch' \in Seq(Entries)
      /\ \A k \in DOMAIN batch' : (k \in DOMAIN batch /\ batch'[k] = batch[k]) \/ batch'[k] = Entry(s)
  BY <1>1, <1>2 DEF TypeOK
<1>4. \A r \in flight' \cup {batch'} : \A k \in DOMAIN r : EntryMatches(r[k])
  <2> TAKE r \in flight' \cup {batch'}
  <2> TAKE k \in DOMAIN r
  <2>1. CASE r = batch'
    BY <1>1, <1>2, <1>3, <2>1 DEF RequestsMatch
  <2>2. CASE r \in flight
    BY <1>1, <2>2 DEF RequestsMatch
  <2> QED
    BY <1>1, <2>1, <2>2
<1> QED
  BY <1>1, <1>3, <1>4, SentStays, Requesting

LEMMA ExecuteBatchStep ==
  ASSUME IInv, ExecuteBatch
  PROVE  IInv'
<1>1. /\ RequestsMatch /\ SentAsAsked /\ flight' = flight \cup {batch}
      /\ UNCHANGED <<stmts, op, frames, live, lost, tupled, batch, sent>>
  BY DEF IInv, ExecuteBatch
<1>2. \A r \in flight' \cup {batch'} : \A k \in DOMAIN r : EntryMatches(r[k])
  BY <1>1 DEF RequestsMatch
<1> QED
  BY <1>1, <1>2, SentStays, Requesting DEF IInv, TypeOK

LEMMA WriteStep ==
  ASSUME IInv, NEW r \in flight, Write(r)
  PROVE  IInv'
<1>1. /\ RequestsMatch /\ flight' = flight \ {r}
      /\ sent' = [k \in DOMAIN r |-> [asked |-> r[k].slots, own |-> stmts[r[k].s][1].own,
                                      slots |-> stmts[r[k].s][1].slots]]
      /\ UNCHANGED <<stmts, op, frames, live, lost, tupled, batch>>
  BY DEF IInv, Write
<1>2. ASSUME NEW k \in DOMAIN sent', sent'[k].own PROVE sent'[k].asked = sent'[k].slots
  <2>1. EntryMatches(r[k])
    BY <1>1 DEF RequestsMatch
  <2> QED
    BY <1>1, <1>2, <2>1 DEF EntryMatches
<1>3. SentAsAsked'
  BY <1>2 DEF SentAsAsked
<1>4. \A q \in flight' \cup {batch'} : \A k \in DOMAIN q : EntryMatches(q[k])
  BY <1>1 DEF RequestsMatch
<1> QED
  BY <1>1, <1>3, <1>4, Requesting DEF IInv, TypeOK

--------------------------------------------------------------------------------
(* Theorems.                                                                       *)

LEMMA InitInv ==
  ASSUME Init
  PROVE  IInv
<1>1. stmts = [s \in Stmts |-> << >>] /\ op = << >> /\ live = 0 /\ lost = 0 /\ tupled = 0 /\ batch = << >> /\ flight = {} /\ sent = << >>
  BY DEF Init
<1>2. frames \in Seq(Frame) /\ Len(frames) = 0
  <2>1. frames = << >>
    BY DEF Init
  <2> QED
    BY <2>1, NoFrames, Zenon
<1>3. ~Busy
  BY <1>1 DEF Busy
<1>4. TypeOK
  BY <1>1, <1>2, <1>3 DEF TypeOK
<1>5. CallMatches /\ FramesMatch /\ LostBefore
  BY <1>3 DEF CallMatches, FramesMatch, LostBefore, Init
<1>6. RequestsMatch /\ SentAsAsked
  BY <1>1, <1>3 DEF RequestsMatch, SentAsAsked
<1>7. live = Len(frames) + lost + tupled
  BY <1>1, <1>2
<1> QED
  BY <1>4, <1>5, <1>6, <1>7 DEF IInv

LEMMA CallsStep ==
  ASSUME IInv, Calls
  PROVE  IInv'
<1>1. PICK s \in Stmts, ps \in Inputs, mode \in Modes :
        \/ \E o \in Timeouts : NewFromString(s, ps, mode, o) \/ Call(s, ps, mode, o)
        \/ \E o \in Timeouts, default \in Defaults : PreparedBind(s, ps, mode, o, default)
        \/ \E o \in Timeouts : CallAgain(s, o)
        \/ \E n \in 0..N : CallRefused(s, n)
        \/ Bind(s, ps, mode)
  BY DEF Calls
<1> QED
  BY <1>1, NewFromStringStep, CallStep, PreparedBindStep, CallAgainStep, CallRefusedStep, BindStep

LEMMA Stutter ==
  ASSUME IInv, UNCHANGED vars
  PROVE  IInv'
<1>1. /\ UNCHANGED <<stmts, op, frames, live, lost, tupled, batch, flight, sent>>
      /\ TypeOK /\ RequestsMatch /\ SentAsAsked
  BY DEF vars, IInv
<1> QED
  BY <1>1, SentStays, Requesting DEF RequestsMatch, TypeOK

(* The invariant below is inductive: it holds in every state of Statements.        *)
THEOREM Inductive == Spec => []IInv
<1>1. Init => IInv
  BY InitInv
<1>2. ASSUME IInv, [Next]_vars PROVE IInv'
  <2>1. CASE Calls
    BY <1>2, <2>1, CallsStep
  <2>2. CASE Return \/ Reset \/ SetTimeout \/ BindScalar
    BY <1>2, <2>2, ReturnStep, ResetStep, SetTimeoutStep, BindScalarStep
  <2>3. CASE GetContainer \/ Nested \/ (\E e \in Elements : Element(e)) \/ CloseNested \/ BindContainer
    BY <1>2, <2>3, GetContainerStep, NestedStep, ElementStep, CloseNestedStep, BindContainerStep
  <2>4. CASE \/ \E s \in Stmts : Execute(s) \/ AddStatement(s)
             \/ ExecuteBatch
             \/ \E r \in flight : Write(r)
    BY <1>2, <2>4, ExecuteStep, AddStatementStep, ExecuteBatchStep, WriteStep
  <2>5. CASE UNCHANGED vars
    BY <1>2, <2>5, Stutter
  <2> QED
    BY <1>2, <2>1, <2>2, <2>3, <2>4, <2>5 DEF Next
<1> QED
  BY <1>1, <1>2, PTL DEF Spec

(* At every moment of a call, also when it raises half way, what is bound and what *)
(* it has still to bind make what its caller asked for: Statement and              *)
(* PreparedStatement.bind, for any parameters.                                     *)
THEOREM BindsWhatItWasGiven == Spec => []BoundAsGiven
<1>1. IInv => BoundAsGiven
  <2> SUFFICES ASSUME IInv, Busy, \A j \in DOMAIN op[1].steps : op[1].steps[j].do # "reset"
               PROVE  LET todo == {j \in DOMAIN op[1].steps : op[1].steps[j].do = "bind"}
                          want == op[1].want
                      IN  /\ DOMAIN This.slots = DOMAIN want.slots
                          /\ \A i \in DOMAIN want.slots :
                               \/ This.slots[i] = want.slots[i]
                               \/ \E j \in todo : op[1].steps[j].i = i /\ op[1].steps[j].v = want.slots[i]
                          /\ op[1].steps = << >> => This.timeout = want.timeout
    BY DEF BoundAsGiven
  <2> DEFINE steps == op[1].steps
             want == op[1].want
  <2>1. StepsFit(steps, want) /\ StatementFits(steps, This, want)
    BY DEF IInv, CallMatches
  <2> HIDE DEF steps, want
  <2>2. \A x \in Elems(steps) : \E j \in DOMAIN steps : x = steps[j]
    BY DEF Elems
  <2>3. ~ \E x \in Elems(steps) : x.do = "reset"
    BY <2>2 DEF steps
  <2>4. /\ DOMAIN This.slots = DOMAIN want.slots
        /\ \A i \in DOMAIN want.slots : This.slots[i] = want.slots[i] \/ Due(steps, i)
        /\ This.timeout = want.timeout \/ \E x \in Elems(steps) : x.do = "timeout"
    BY <2>1, <2>3 DEF StatementFits
  <2>5. ASSUME NEW i \in DOMAIN want.slots, Due(steps, i)
        PROVE  \E j \in DOMAIN steps : /\ steps[j].do = "bind" /\ steps[j].i = i
                                       /\ steps[j].v = want.slots[i]
    <3>1. PICK x \in Elems(steps) : x.do = "bind" /\ x.i = i
      BY <2>5 DEF Due
    <3>2. x.v = want.slots[i]
      BY <2>1, <3>1 DEF StepsFit
    <3> QED
      BY <2>2, <3>1, <3>2
  <2>6. steps = << >> => This.timeout = want.timeout
    BY <2>4, NoElems
  <2> QED
    BY <2>4, <2>5, <2>6 DEF steps, want
<1> QED
  BY <1>1, Inductive, PTL

(* A request is written with the parameters it was executed with, whenever the     *)
(* driver's thread writes it, as long as only its factory has bound the statement: *)
(* the statements of PreparedStatement.bind in Session.execute and batches.        *)
THEOREM SendsWhatWasAsked == Spec => []SentAsAsked
<1>1. IInv => SentAsAsked
  BY DEF IInv
<1> QED
  BY <1>1, Inductive, PTL

(* No container is freed twice, and a call that does not raise leaves none behind  *)
(* but those it has put into a tuple: Statement's bind_collection, bind_tuple,     *)
(* bind_udt and get_*, however deep the containers are nested.                     *)
THEOREM ContainersAreAccounted == Spec => []ContainersAccounted
<1>1. IInv => ContainersAccounted
  BY DEF IInv, ContainersAccounted, FramesMatch, LostBefore
<1> QED
  BY <1>1, Inductive, PTL
================================================================================
