---------------------------- MODULE Results_proofs ----------------------------
(* Rows, iterators and decoders of a Result of any size: what a Row points to is   *)
(* there and is its own, each iterator of a collection is freed or accounted for,  *)
(* and what is read of a value is what was bound.                                  *)
EXTENDS Results, TLAPS, WellFoundedInduction

Iterator == [row : Nat, yielded : Nat, state : {"running", "kept", "freed"}]
Frame == [kind : CollectionKinds, left : Int]

(* The values of what the rows and the decoders keep.                              *)
LifeTypeOK ==
  /\ result \in {"held", "dropped", "freed"}
  /\ iters \in Seq(Iterator)
  /\ rows \subseteq [iter : Nat, own : Nat]
  /\ frames \in Seq(Frame)
  /\ live \in Nat /\ lost \in Nat

(* An iterator stands at the row it yielded last, and each Row of it was yielded.  *)
RowsMatch ==
  /\ \A i \in DOMAIN iters : iters[i].row = iters[i].yielded
  /\ \A r \in rows : \/ r.iter = 0 /\ r.own = 1
                     \/ r.iter \in DOMAIN iters /\ r.own <= iters[r.iter].yielded

(* The iterators are freed with the Result, which nobody refers to any more.       *)
FreedTogether ==
  IF result = "freed"
  THEN rows = {} /\ \A i \in DOMAIN iters : iters[i].state = "freed"
  ELSE \A i \in DOMAIN iters : iters[i].state # "freed"

(* A collection is being read for somebody, who is told when it raises.            *)
GotShape ==
  /\ got # << >> => DOMAIN got[1] = {"own", "fresh", "row", "of", "v"}
  /\ frames # << >> => got # << >>

IInv == LifeTypeOK /\ RowsMatch /\ FreedTogether /\ GotShape /\ ReadsOwnRow /\ DecodersAccounted

--------------------------------------------------------------------------------

LEMMA InitInv == ResultInit => IInv
BY DEF ResultInit, IInv, LifeTypeOK, RowsMatch, FreedTogether, GotShape, ReadsOwnRow, DecodersAccounted

LEMMA ItersFacts ==
  LifeTypeOK => /\ DOMAIN iters = 1..Len(iters) /\ Len(iters) \in Nat
                /\ \A i \in DOMAIN iters :
                     iters[i] \in Iterator /\ iters[i].row \in Nat /\ iters[i].yielded \in Nat
<1> SUFFICES ASSUME LifeTypeOK
             PROVE  /\ DOMAIN iters = 1..Len(iters) /\ Len(iters) \in Nat
                    /\ \A i \in DOMAIN iters :
                         iters[i] \in Iterator /\ iters[i].row \in Nat /\ iters[i].yielded \in Nat
  OBVIOUS
<1>1. /\ DOMAIN iters = 1..Len(iters) /\ Len(iters) \in Nat
      /\ \A i \in DOMAIN iters : iters[i] \in Iterator
  BY DEF LifeTypeOK
<1>2. \A x \in Iterator : x.row \in Nat /\ x.yielded \in Nat
  BY DEF Iterator
<1> QED
  BY <1>1, <1>2

(* An iterator is changed in place.                                                *)
LEMMA ChangedIters ==
  ASSUME LifeTypeOK, NEW i \in DOMAIN iters, NEW x \in Iterator
  PROVE  [iters EXCEPT ![i] = x] \in Seq(Iterator)
BY DEF LifeTypeOK

(* Steps that touch neither collections nor what was read.                         *)
LEMMA RowStep ==
  ASSUME IInv,
         \/ First \/ All \/ DropResult \/ Dealloc
         \/ \E i \in DOMAIN iters : NextRow(i) \/ Finish(i)
         \/ \E r \in rows : DropRow(r)
  PROVE  IInv'
<1>0. LifeTypeOK /\ RowsMatch /\ FreedTogether /\ GotShape /\ ReadsOwnRow /\ DecodersAccounted
  BY DEF IInv
<1>1. UNCHANGED <<frames, live, lost, got>>
  BY DEF First, All, DropResult, Dealloc, NextRow, Finish, DropRow
<1>2. GotShape' /\ ReadsOwnRow' /\ DecodersAccounted'
  BY <1>0, <1>1 DEF GotShape, ReadsOwnRow, DecodersAccounted
<1>3. ASSUME iters' \in Seq(Iterator), rows' \subseteq [iter : Nat, own : Nat],
             result' \in {"held", "dropped", "freed"}
      PROVE  LifeTypeOK'
  BY <1>0, <1>1, <1>3 DEF LifeTypeOK
<1>4. CASE First
  <2>1. /\ rows' = rows \cup {[iter |-> 0, own |-> 1]} /\ result' = result /\ iters' = iters
        /\ result = "held"
    BY <1>4 DEF First
  <2>2. LifeTypeOK'
    BY <1>0, <1>3, <2>1 DEF LifeTypeOK
  <2> QED
    BY <1>0, <1>2, <2>1, <2>2 DEF IInv, RowsMatch, FreedTogether
<1>5. CASE All
  <2> DEFINE new == [row |-> 0, yielded |-> 0, state |-> "running"]
  <2>1. iters' = Append(iters, new) /\ result = "held" /\ UNCHANGED <<result, rows>>
    BY <1>5 DEF All
  <2>2. new \in Iterator /\ new.row = new.yielded /\ new.state = "running"
    BY DEF Iterator
  <2> HIDE DEF new
  <2>3. /\ iters' \in Seq(Iterator) /\ DOMAIN iters' = DOMAIN iters \cup {Len(iters) + 1}
        /\ iters'[Len(iters) + 1] = new /\ \A i \in DOMAIN iters : iters'[i] = iters[i]
    BY <1>0, <2>1, <2>2 DEF LifeTypeOK
  <2>4. LifeTypeOK'
    BY <1>0, <1>3, <2>1, <2>3 DEF LifeTypeOK
  <2>5. RowsMatch' /\ FreedTogether'
    BY <1>0, <2>1, <2>2, <2>3 DEF RowsMatch, FreedTogether
  <2> QED
    BY <1>2, <2>4, <2>5 DEF IInv
<1>6. CASE DropResult
  <2>1. result' = "dropped" /\ result = "held" /\ UNCHANGED <<iters, rows>>
    BY <1>6 DEF DropResult
  <2>2. LifeTypeOK'
    BY <1>0, <1>3, <2>1 DEF LifeTypeOK
  <2> QED
    BY <1>0, <1>2, <2>1, <2>2 DEF IInv, RowsMatch, FreedTogether
<1>7. CASE Dealloc
  <2>1. /\ result' = "freed" /\ rows = {} /\ rows' = rows
        /\ iters' = [i \in DOMAIN iters |-> [iters[i] EXCEPT !.state = "freed"]]
    BY <1>7 DEF Dealloc
  <2>2. \A i \in DOMAIN iters :
          /\ [iters[i] EXCEPT !.state = "freed"] \in Iterator
          /\ [iters[i] EXCEPT !.state = "freed"].state = "freed"
          /\ [iters[i] EXCEPT !.state = "freed"].row = iters[i].row
          /\ [iters[i] EXCEPT !.state = "freed"].yielded = iters[i].yielded
    BY <1>0, ItersFacts DEF Iterator
  <2>3. iters' \in Seq(Iterator)
    BY <1>0, <2>1, <2>2, ItersFacts
  <2>4. LifeTypeOK'
    BY <1>0, <1>3, <2>1, <2>3 DEF LifeTypeOK
  <2>5. RowsMatch' /\ FreedTogether'
    BY <1>0, <2>1, <2>2 DEF RowsMatch, FreedTogether
  <2> QED
    BY <1>2, <2>4, <2>5 DEF IInv
<1>8. ASSUME NEW i \in DOMAIN iters, NextRow(i) PROVE IInv'
  <2> DEFINE n == iters[i].yielded + 1
             moved == [[iters[i] EXCEPT !.row = n] EXCEPT !.yielded = n]
  <2>1. /\ iters' = [iters EXCEPT ![i] = moved] /\ iters[i].state = "running"
        /\ rows' = rows \cup {[iter |-> i, own |-> n]} /\ result' = result
    BY <1>8 DEF NextRow
  <2>2. n \in Nat /\ i \in Nat /\ i # 0 /\ n > iters[i].yielded /\ iters[i].yielded \in Nat
    BY <1>0, ItersFacts
  <2>3. moved \in Iterator /\ moved.row = n /\ moved.yielded = n /\ moved.state = "running"
    BY <1>0, <2>1, <2>2, ItersFacts DEF Iterator
  <2> HIDE DEF n, moved
  <2>4. /\ iters' \in Seq(Iterator) /\ DOMAIN iters' = DOMAIN iters /\ iters'[i] = moved
        /\ \A j \in DOMAIN iters : j # i => iters'[j] = iters[j]
    BY <1>0, <2>1, <2>3, ChangedIters
  <2>5. LifeTypeOK'
    BY <1>0, <1>3, <2>1, <2>2, <2>4 DEF LifeTypeOK
  <2>6. RowsMatch'
    <3>1. \A j \in DOMAIN iters' : iters'[j].row = iters'[j].yielded
      BY <1>0, <2>3, <2>4 DEF RowsMatch
    <3>2. ASSUME NEW r \in rows
          PROVE \/ r.iter = 0 /\ r.own = 1
                \/ r.iter \in DOMAIN iters' /\ r.own <= iters'[r.iter].yielded
      BY <1>0, <2>2, <2>3, <2>4 DEF RowsMatch, LifeTypeOK
    <3> QED
      BY <2>1, <2>2, <2>3, <2>4, <3>1, <3>2 DEF RowsMatch
  <2>7. FreedTogether'
    BY <1>0, <2>1, <2>3, <2>4 DEF FreedTogether
  <2> QED
    BY <1>2, <2>5, <2>6, <2>7 DEF IInv
<1>9. ASSUME NEW i \in DOMAIN iters, Finish(i) PROVE IInv'
  <2> DEFINE done == [iters[i] EXCEPT !.state = "kept"]
  <2>1. /\ iters' = [iters EXCEPT ![i] = done] /\ iters[i].state = "running"
        /\ rows' = rows /\ result' = result
    BY <1>9 DEF Finish
  <2>2. /\ done \in Iterator /\ done.row = iters[i].row /\ done.yielded = iters[i].yielded
        /\ done.state = "kept"
    BY <1>0, ItersFacts DEF Iterator
  <2> HIDE DEF done
  <2>3. /\ iters' \in Seq(Iterator) /\ DOMAIN iters' = DOMAIN iters /\ iters'[i] = done
        /\ \A j \in DOMAIN iters : j # i => iters'[j] = iters[j]
    BY <1>0, <2>1, <2>2, ChangedIters
  <2>4. LifeTypeOK'
    BY <1>0, <1>3, <2>1, <2>3 DEF LifeTypeOK
  <2>5. RowsMatch'
    BY <1>0, <2>1, <2>2, <2>3 DEF RowsMatch
  <2>6. FreedTogether'
    BY <1>0, <2>1, <2>2, <2>3 DEF FreedTogether
  <2> QED
    BY <1>2, <2>4, <2>5, <2>6 DEF IInv
<1>10. ASSUME NEW r \in rows, DropRow(r) PROVE IInv'
  <2>1. rows' \subseteq rows /\ result' = result /\ iters' = iters
    BY <1>10 DEF DropRow
  <2>2. LifeTypeOK'
    BY <1>0, <1>3, <2>1 DEF LifeTypeOK
  <2>3. RowsMatch' /\ FreedTogether'
    BY <1>0, <2>1 DEF RowsMatch, FreedTogether
  <2> QED
    BY <1>2, <2>2, <2>3 DEF IInv
<1> QED
  BY <1>4, <1>5, <1>6, <1>7, <1>8, <1>9, <1>10

(* What is read of a Row is of the row it points to now.                           *)
LEMMA GotIsOwn ==
  ASSUME IInv, NEW r \in rows, NEW of, NEW v, Got(r, of, v)
  PROVE  /\ got' # << >> /\ DOMAIN got'[1] = {"own", "fresh", "row", "of", "v"}
         /\ ReadsOwnRow'
<1>1. got' = <<[own |-> r.own, fresh |-> Fresh(r), row |-> RowOf(r), of |-> of, v |-> v]>>
  BY DEF Got
<1>2. (Fresh(r) => RowOf(r) = r.own) /\ RowOf(r) >= r.own
  BY DEF IInv, LifeTypeOK, RowsMatch, Fresh, RowOf
<1> QED
  BY <1>1, <1>2 DEF ReadsOwnRow

LEMMA ReadStep ==
  ASSUME IInv, NEW r \in rows,
         \/ Read(r) \/ ReadMissing(r)
         \/ \E k \in CollectionKinds, n \in 0..MaxSize : ReadCollection(r, k, n)
  PROVE  IInv'
<1>1. UNCHANGED <<result, iters, rows, lost>> /\ \E of, v : Got(r, of, v)
  BY DEF Read, ReadMissing, ReadCollection
<1>2. \/ frames' = frames /\ live' = live
      \/ /\ frames = << >> /\ live' = live + 1
         /\ \E k \in CollectionKinds, n \in 0..MaxSize : frames' = <<[kind |-> k, left |-> n]>>
  BY DEF Read, ReadMissing, ReadCollection, Idle
<1>3. LifeTypeOK' /\ DecodersAccounted'
  <2>1. CASE frames' = frames /\ live' = live
    BY <1>1, <2>1 DEF IInv, LifeTypeOK, DecodersAccounted
  <2>2. ASSUME NEW k \in CollectionKinds, NEW n \in 0..MaxSize, frames = << >>, live' = live + 1,
               frames' = <<[kind |-> k, left |-> n]>>
        PROVE  LifeTypeOK' /\ DecodersAccounted'
    <3>1. [kind |-> k, left |-> n] \in Frame
      BY CountsAreNat DEF Frame
    <3>2. frames' \in Seq(Frame) /\ Len(frames') = 1 /\ Len(frames) = 0
      BY <2>2, <3>1
    <3> QED
      BY <1>1, <2>2, <3>2 DEF IInv, LifeTypeOK, DecodersAccounted
  <2> QED
    BY <1>2, <2>1, <2>2
<1> QED
  BY <1>1, <1>3, GotIsOwn DEF IInv, RowsMatch, FreedTogether, GotShape

(* One element of the innermost collection is done.                                *)
LEMMA OneLessFrames ==
  ASSUME NEW fs \in Seq(Frame), Len(fs) > 0
  PROVE  OneLess(fs) \in Seq(Frame) /\ Len(OneLess(fs)) = Len(fs)
<1> DEFINE x == [fs[Len(fs)] EXCEPT !.left = @ - 1]
<1>1. x \in Frame
  <2>1. fs[Len(fs)] \in Frame
    OBVIOUS
  <2> QED
    BY <2>1 DEF Frame
<1>2. OneLess(fs) = [fs EXCEPT ![Len(fs)] = x]
  BY DEF OneLess
<1> HIDE DEF x
<1> QED
  BY <1>1, <1>2

LEMMA NoFrames == << >> \in Seq(Frame) /\ Len(<< >>) = 0
OBVIOUS

(* The frames that stay when the innermost has been read.                          *)
LEMMA RestFrames ==
  ASSUME frames \in Seq(Frame), Len(frames) > 1
  PROVE  /\ Rest \in Seq(Frame) /\ Len(Rest) = Len(frames) - 1
         /\ OneLess(Rest) \in Seq(Frame) /\ Len(OneLess(Rest)) = Len(frames) - 1
<1>1. Rest \in Seq(Frame) /\ Len(Rest) = Len(frames) - 1
  BY DEF Rest
<1> QED
  BY <1>1, OneLessFrames

LEMMA FrameStep ==
  ASSUME IInv,
         \/ \E k \in CollectionKinds, n \in 0..MaxSize : Nested(k, n)
         \/ Element \/ CloseNested \/ CloseCollection
  PROVE  IInv'
<1>0. /\ frames \in Seq(Frame) /\ Len(frames) \in Nat /\ live \in Nat /\ lost \in Nat
      /\ LifeTypeOK /\ RowsMatch /\ FreedTogether /\ GotShape /\ ReadsOwnRow /\ live = Len(frames) + lost
  BY DEF IInv, LifeTypeOK, DecodersAccounted
<1>1. Len(frames) > 0 /\ UNCHANGED <<result, iters, rows>>
  <2>1. /\ frames # << >> \/ Len(frames) > 1 \/ Len(frames) = 1
        /\ UNCHANGED <<result, iters, rows>>
    BY DEF Nested, Element, CloseNested, CloseCollection, Idle
  <2>2. frames # << >> => Len(frames) > 0
    BY <1>0
  <2> QED
    BY <2>1, <2>2
<1>2. \/ /\ frames' \in Seq(Frame) /\ live' = Len(frames') + lost' /\ lost' = lost /\ got' = got
      \/ \E open \in Nat : Leaves(open) /\ live' = open + lost
  <2>1. ASSUME NEW k \in CollectionKinds, NEW n \in 0..MaxSize, Nested(k, n)
        PROVE  frames' \in Seq(Frame) /\ live' = Len(frames') + lost' /\ lost' = lost /\ got' = got
    <3>1. [kind |-> k, left |-> n] \in Frame
      BY CountsAreNat DEF Frame
    <3> QED
      BY <1>0, <2>1, <3>1 DEF Nested
  <2>2. CASE Element
    BY <1>0, <1>1, <2>2, OneLessFrames DEF Element
  <2>3. CASE CloseNested
    <3>1. Len(frames) > 1 /\ live' = live - 1
      BY <2>3 DEF CloseNested
    <3>2. \/ frames' = OneLess(Rest) /\ lost' = lost /\ got' = got
          \/ Leaves(Len(Rest))
      BY <2>3 DEF CloseNested
    <3>3. /\ OneLess(Rest) \in Seq(Frame) /\ Len(OneLess(Rest)) = Len(frames) - 1
          /\ Len(Rest) = Len(frames) - 1 /\ Len(Rest) \in Nat
      BY <1>0, <3>1, RestFrames
    <3>4. live' = Len(Rest) + lost
      BY <1>0, <3>1, <3>3
    <3> QED
      BY <3>2, <3>3, <3>4
  <2>4. CASE CloseCollection
    <3>1. Len(frames) = 1 /\ live' = live - 1 /\ lost' = lost /\ got' = got
      BY <2>4 DEF CloseCollection
    <3>2. frames' = << >>
      BY <2>4 DEF CloseCollection
    <3>3. frames' \in Seq(Frame) /\ Len(frames') = 0
      BY <3>2, NoFrames, Zenon
    <3>4. live = 1 + lost /\ live \in Nat /\ lost \in Nat
      BY <1>0, <3>1, Zenon
    <3>5. live' = 0 + lost
      BY <3>1, <3>4
    <3>6. live' = Len(frames') + lost'
      BY <3>1, <3>3, <3>5, Zenon
    <3> QED
      BY <3>1, <3>3, <3>6, Zenon
  <2> QED
    BY <2>1, <2>2, <2>3, <2>4
<1>3. LifeTypeOK' /\ DecodersAccounted'
  <2>1. ASSUME NEW open \in Nat, Leaves(open), live' = open + lost
        PROVE  frames' = << >> /\ lost' \in Nat /\ live' = Len(frames') + lost'
    BY <1>0, <2>1 DEF Leaves
  <2>2. ASSUME NEW open \in Nat, Leaves(open), live' = open + lost
        PROVE  frames' \in Seq(Frame)
    BY <2>1, <2>2, NoFrames
  <2>3. frames' \in Seq(Frame) /\ lost' \in Nat /\ live' = Len(frames') + lost'
    BY <1>0, <1>2, <2>1, <2>2
  <2> QED
    <3>1. live' \in Nat
      BY <2>3
    <3> QED
      BY <1>0, <1>1, <2>3, <3>1 DEF LifeTypeOK, DecodersAccounted
<1>4. GotShape' /\ ReadsOwnRow'
  <2>1. CASE got' = got
    BY <1>0, <1>1, <2>1 DEF GotShape, ReadsOwnRow
  <2>2. CASE \E open \in Nat : Leaves(open)
    <3>1. got' = <<[got[1] EXCEPT !.v = Raised]>> /\ DOMAIN got[1] = {"own", "fresh", "row", "of", "v"}
          /\ got # << >>
      BY <1>0, <1>1, <2>2 DEF Leaves, GotShape
    <3>2. /\ got' # << >> /\ DOMAIN got'[1] = DOMAIN got[1]
          /\ got'[1].fresh = got[1].fresh /\ got'[1].row = got[1].row /\ got'[1].own = got[1].own
      BY <3>1
    <3> QED
      BY <1>0, <3>1, <3>2 DEF GotShape, ReadsOwnRow
  <2> QED
    BY <1>2, <2>1, <2>2
<1> QED
  BY <1>0, <1>1, <1>3, <1>4 DEF IInv, RowsMatch, FreedTogether

--------------------------------------------------------------------------------

THEOREM Inductive == ResultSpec => []IInv
<1>1. IInv /\ [ResultNext]_resultVars => IInv'
  <2>1. IInv /\ UNCHANGED resultVars => IInv'
    BY DEF resultVars, IInv, LifeTypeOK, RowsMatch, FreedTogether, GotShape, ReadsOwnRow, DecodersAccounted
  <2> QED
    BY <2>1, RowStep, ReadStep, FrameStep DEF ResultNext
<1> QED
  BY <1>1, InitInv, PTL DEF ResultSpec

(* What a Row points to is not freed while the program holds the Row.              *)
THEOREM RowsStayAlive == ResultSpec => []RowsAlive
<1>1. IInv => RowsAlive
  BY DEF IInv, RowsMatch, FreedTogether, RowsAlive
<1> QED
  BY <1>1, Inductive, PTL

(* A Row that is read before its iteration goes on gives its own values.           *)
THEOREM RowsReadTheirOwn == ResultSpec => []ReadsOwnRow
<1>1. IInv => ReadsOwnRow
  BY DEF IInv
<1> QED
  BY <1>1, Inductive, PTL

(* The iterators of collections that are not freed are in use, or were left behind *)
(* by an exception.                                                                *)
THEOREM DecodersAreAccounted == ResultSpec => []DecodersAccounted
<1>1. IInv => DecodersAccounted
  BY DEF IInv
<1> QED
  BY <1>1, Inductive, PTL

--------------------------------------------------------------------------------
(* The calendar of utils.cpp.                                                      *)

LEMMA Divided ==
  ASSUME NEW b \in Nat \ {0}, NEW q \in Int, NEW r \in 0..b-1
  PROVE  (q * b + r) \div b = q /\ (q * b + r) % b = r
BY SMT

Within(x, n) == x \in Int /\ 0 <= x /\ x <= n

LEMMA Era ==
  ASSUME NEW z \in Int
  PROVE  /\ z \div 146097 \in Int /\ Within(z - (z \div 146097) * 146097, 146096)
         /\ Quotient(IF z >= 0 THEN z ELSE z - 146096, 146097) = z \div 146097
<1>1. z \div 146097 \in Int /\ Within(z - (z \div 146097) * 146097, 146096)
  BY SMT DEF Within
<1>2. CASE z >= 0
  BY <1>1, <1>2, SMT DEF Quotient
<1>3. CASE z < 0
  <2>1. Quotient(z - 146096, 146097) = -((146096 - z) \div 146097)
    BY <1>3, SMT DEF Quotient
  <2>2. -((146096 - z) \div 146097) = z \div 146097
    BY <1>3, SMT
  <2> QED
    BY <1>1, <1>3, <2>1, <2>2, SMT
<1> QED
  BY <1>1, <1>2, <1>3, SMT

LEMMA EraParts ==
  ASSUME NEW e \in Int, Within(e, 146096)
  PROVE  \E c, q, a, n \in Int :
           /\ Within(c, 3) /\ Within(q, 24) /\ Within(a, 3) /\ Within(n, 365)
           /\ e = 36524 * c + 1461 * q + 365 * a + n
           /\ n = 365 => a = 3 /\ (q # 24 \/ c = 3)
<1> USE DEF Within
<1>1. PICK c, r \in Int : Within(c, 3) /\ Within(r, 36524) /\ e = 36524 * c + r /\ (r = 36524 => c = 3)
  <2>1. CASE e \div 36524 = 4
    <3>1. e = 36524 * 3 + 36524
      BY <2>1, SMT
    <3> QED
      BY <3>1, SMT
  <2>2. CASE e \div 36524 # 4
    <3>1. /\ Within(e \div 36524, 3) /\ Within(e % 36524, 36523)
          /\ e = 36524 * (e \div 36524) + (e % 36524)
      BY <2>2, SMT
    <3> QED
      BY <3>1, SMT
  <2> QED
    BY <2>1, <2>2, SMT
<1>2. PICK q, s \in Int : Within(q, 24) /\ Within(s, 1460) /\ r = 1461 * q + s
  <2>1. Within(r \div 1461, 24) /\ Within(r % 1461, 1460) /\ r = 1461 * (r \div 1461) + (r % 1461)
    BY <1>1, SMT
  <2> QED
    BY <2>1, SMT
<1>3. PICK a, n \in Int : Within(a, 3) /\ Within(n, 365) /\ s = 365 * a + n /\ (n = 365 => a = 3)
  <2>1. CASE s = 1460
    <3>1. s = 365 * 3 + 365
      BY <2>1, SMT
    <3> QED
      BY <3>1, SMT
  <2>2. CASE s # 1460
    <3>1. Within(s \div 365, 3) /\ Within(s % 365, 364) /\ s = 365 * (s \div 365) + (s % 365)
      BY <1>2, <2>2, SMT
    <3> QED
      BY <3>1, SMT
  <2> QED
    BY <2>1, <2>2, SMT
<1>4. e = 36524 * c + 1461 * q + 365 * a + n /\ (n = 365 => a = 3 /\ (q # 24 \/ c = 3))
  BY <1>1, <1>2, <1>3, SMT
<1> QED
  BY <1>1, <1>2, <1>3, <1>4, SMT

LEMMA YearOfItsEra ==
  ASSUME NEW c \in Int, NEW q \in Int, NEW a \in Int, NEW n \in Int,
         Within(c, 3), Within(q, 24), Within(a, 3), Within(n, 365),
         n = 365 => a = 3 /\ (q # 24 \/ c = 3),
         NEW e \in Int, e = 36524 * c + 1461 * q + 365 * a + n
  PROVE  YearOfEra(e) = 100 * c + 4 * q + a
BY SMT DEF Within, YearOfEra

(* Days from the first of March of the year 400 * era + 100 * c + 4 * q + a.        *)
IsYear(era, c, q, a) ==
  /\ era \in Int /\ c \in Int /\ q \in Int /\ a \in Int
  /\ Within(c, 3) /\ Within(q, 24) /\ Within(a, 3)
Year(era, c, q, a) == 400 * era + 100 * c + 4 * q + a
Days(era, c, q, a, n) == 146097 * era + 36524 * c + 1461 * q + 365 * a + n - 719468

LEMMA YearParts ==
  ASSUME NEW y \in Int
  PROVE  \E era, c, q, a : IsYear(era, c, q, a) /\ y = Year(era, c, q, a)
<1>1. PICK era, w \in Int : Within(w, 399) /\ y = 400 * era + w
  <2>1. y \div 400 \in Int /\ y = 400 * (y \div 400) + (y % 400) /\ Within(y % 400, 399)
    BY SMT DEF Within
  <2> QED
    BY <2>1, SMT DEF Within
<1>2. PICK c, v \in Int : Within(c, 3) /\ Within(v, 99) /\ w = 100 * c + v
  <2>1. w = 100 * (w \div 100) + (w % 100) /\ Within(w \div 100, 3) /\ Within(w % 100, 99)
    BY <1>1, SMT DEF Within
  <2> QED
    BY <2>1, SMT DEF Within
<1>3. PICK q, a \in Int : Within(q, 24) /\ Within(a, 3) /\ v = 4 * q + a
  <2>1. v = 4 * (v \div 4) + (v % 4) /\ Within(v \div 4, 24) /\ Within(v % 4, 3)
    BY <1>2, SMT DEF Within
  <2> QED
    BY <2>1, SMT DEF Within
<1>4. y = 400 * era + 100 * c + 4 * q + a
  BY <1>1, <1>2, <1>3, SMT
<1>5. IsYear(era, c, q, a) /\ y = Year(era, c, q, a)
  BY <1>1, <1>2, <1>3, <1>4, SMT DEF IsYear, Year
<1> QED
  BY <1>5, SMT

LEMMA YearEra ==
  ASSUME NEW era \in Int, NEW w \in Int, Within(w, 399), NEW y \in Int, y = 400 * era + w
  PROVE  Quotient(IF y >= 0 THEN y ELSE y - 399, 400) = era
<1>1. CASE y >= 0
  BY <1>1, SMT DEF Quotient, Within
<1>2. CASE y < 0
  <2>1. Quotient(y - 399, 400) = -((399 - y) \div 400)
    BY <1>2, SMT DEF Quotient
  <2>2. -((399 - y) \div 400) = era
    BY <1>2, SMT DEF Within
  <2> QED
    BY <1>2, <2>1, <2>2, SMT
<1> QED
  BY <1>1, <1>2, SMT

LEMMA MonthFacts ==
  ASSUME NEW n \in Int, Within(n, 365)
  PROVE  /\ MonthOfDay(n) \in Int /\ Within(MonthOfDay(n), 11)
         /\ n - FirstDay(MonthOfDay(n)) + 1 \in 1..31
BY SMT DEF Within, MonthOfDay, FirstDay

LEMMA CalendarFacts ==
  ASSUME NEW k \in Int, Within(k, 11)
  PROVE  /\ CalendarMonth(k) \in 1..12
         /\ k = IF CalendarMonth(k) > 2 THEN CalendarMonth(k) - 3 ELSE CalendarMonth(k) + 9
         /\ CalendarMonth(k) <= 2 <=> k >= 10
         /\ FirstDay(k) \in Int
BY SMT DEF Within, CalendarMonth, FirstDay

LEMMA LeapStep ==
  ASSUME NEW y \in Int
  PROVE  LeapYears(y) = LeapYears(y - 1) + (IF IsLeap(y) THEN 1 ELSE 0)
BY SMT DEF IsLeap, LeapYears

LEMMA Decoded ==
  ASSUME NEW era, NEW c, NEW q, NEW a, IsYear(era, c, q, a), NEW n \in Int, Within(n, 365),
         n = 365 => a = 3 /\ (q # 24 \/ c = 3)
  PROVE  LET k == MonthOfDay(n)
         IN  CivilFromDays(Days(era, c, q, a, n)) =
               [y |-> Year(era, c, q, a) + (IF CalendarMonth(k) <= 2 THEN 1 ELSE 0), m |-> CalendarMonth(k),
                d |-> n - FirstDay(k) + 1]
<1> DEFINE z == Days(era, c, q, a, n) + 719468
           e == 36524 * c + 1461 * q + 365 * a + n
           w == 100 * c + 4 * q + a
<1>0. /\ era \in Int /\ c \in Int /\ q \in Int /\ a \in Int
      /\ Within(c, 3) /\ Within(q, 24) /\ Within(a, 3)
  BY DEF IsYear
<1>1. z = 146097 * era + e /\ e \in Int /\ z \in Int /\ Within(e, 146096)
  BY <1>0, SMT DEF Days, Within
<1>2. z \div 146097 = era
  BY <1>0, <1>1, SMT DEF Within
<1>3. EraOf(z) = era
  BY <1>1, <1>2, Era, SMT DEF EraOf
<1>4. z - era * 146097 = e
  BY <1>0, <1>1, SMT
<1>5. YearOfEra(e) = w
  BY <1>0, <1>1, YearOfItsEra, SMT
<1>6. DayOfYear(e) = n
  <2>1. e - (365 * w + w \div 4 - w \div 100) = n
    BY <1>0, SMT DEF Within
  <2> HIDE DEF e, w
  <2> QED
    BY <1>5, <2>1, SMT DEF DayOfYear
<1>7. Year(era, c, q, a) = w + era * 400
  BY <1>0, SMT DEF Year
<1> HIDE DEF e, w
<1> QED
  BY <1>3, <1>4, <1>5, <1>6, <1>7, SMT DEF CivilFromDays

LEMMA Encoded ==
  ASSUME NEW era, NEW c, NEW q, NEW a, IsYear(era, c, q, a), NEW k \in Int, Within(k, 11), NEW d \in Int
  PROVE  DaysFromCivil(Year(era, c, q, a) + (IF CalendarMonth(k) <= 2 THEN 1 ELSE 0), CalendarMonth(k), d)
           = Days(era, c, q, a, FirstDay(k) + d - 1)
<1> DEFINE w == 100 * c + 4 * q + a
           y == Year(era, c, q, a)
           m == CalendarMonth(k)
           y0 == y + (IF m <= 2 THEN 1 ELSE 0)
<1>0. /\ era \in Int /\ c \in Int /\ q \in Int /\ a \in Int
      /\ Within(c, 3) /\ Within(q, 24) /\ Within(a, 3)
  BY DEF IsYear
<1>1. y = 400 * era + w /\ w \in Int /\ Within(w, 399) /\ y \in Int
  BY <1>0, SMT DEF Within, Year
<1>2. Quotient(IF y >= 0 THEN y ELSE y - 399, 400) = era
  BY <1>0, <1>1, YearEra, SMT
<1>3. y - era * 400 = w
  BY <1>0, <1>1, SMT
<1>4. (IF m > 2 THEN m - 3 ELSE m + 9) = k /\ FirstDay(k) \in Int
  BY CalendarFacts, SMT
<1>5. w * 365 + w \div 4 - w \div 100 = 36524 * c + 1461 * q + 365 * a
  BY <1>0, SMT DEF Within
<1> HIDE DEF w, y, m
<1>6. (IF m <= 2 THEN y0 - 1 ELSE y0) = y
  BY <1>1, SMT
<1> HIDE DEF y0
<1>7. DaysFromCivil(y0, m, d) = era * 146097 + (w * 365 + w \div 4 - w \div 100 + (FirstDay(k) + d - 1)) - 719468
  BY <1>2, <1>3, <1>4, <1>6, SMT DEF DaysFromCivil
<1>8. DaysFromCivil(y0, m, d) = Days(era, c, q, a, FirstDay(k) + d - 1)
  BY <1>0, <1>4, <1>5, <1>7, SMT DEF Days
<1> QED
  BY <1>8, SMT DEF y, m, y0

(* The day of the year from the first of March, and its month.                     *)
LEMMA DayFacts ==
  ASSUME NEW k \in Int, Within(k, 11), NEW d \in 1..31, NEW y, NEW n \in Int, n = FirstDay(k) + d - 1,
         d <= MonthLength(y, CalendarMonth(k))
  PROVE  /\ Within(n, 365) /\ MonthOfDay(n) = k
         /\ n = 365 => IsLeap(y) /\ k = 11
<1>1. k \in 0..11
  BY SMT DEF Within
<1>2. ASSUME NEW j \in 0..11, k = j
      PROVE  d <= (CASE j \in {1, 3, 6, 8} -> 30 [] j = 11 -> (IF IsLeap(y) THEN 29 ELSE 28) [] OTHER -> 31)
  BY <1>2, SMT DEF MonthLength, CalendarMonth
<1>3. d <= (IF k \in {1, 3, 6, 8} THEN 30 ELSE IF k = 11 THEN 29 ELSE 31) /\ (k = 11 /\ d = 29 => IsLeap(y))
  BY <1>1, <1>2, SMT
<1>4. Within(n, 365) /\ MonthOfDay(n) = k /\ (n = 365 => k = 11 /\ d = 29)
  BY <1>1, <1>3, SMT DEF FirstDay, MonthOfDay, Within
<1> QED
  BY <1>3, <1>4

(* A date is a day of a year that begins in March.                                 *)
LEMMA DateParts ==
  ASSUME NEW x, IsDate(x)
  PROVE  \E era, c, q, a, k :
           /\ IsYear(era, c, q, a) /\ k \in Int /\ Within(k, 11) /\ x.m = CalendarMonth(k)
           /\ x.y = Year(era, c, q, a) + (IF CalendarMonth(k) <= 2 THEN 1 ELSE 0)
<1>1. x.y \in Int /\ x.m \in 1..12
  BY DEF IsDate
<1> DEFINE k == IF x.m > 2 THEN x.m - 3 ELSE x.m + 9
           y == x.y - (IF x.m <= 2 THEN 1 ELSE 0)
<1>2. k \in Int /\ Within(k, 11) /\ x.m = CalendarMonth(k)
  BY <1>1, SMT DEF Within, CalendarMonth
<1>3. y \in Int /\ x.y = y + (IF x.m <= 2 THEN 1 ELSE 0)
  BY <1>1, SMT
<1> HIDE DEF k, y
<1>4. PICK era, c, q, a : IsYear(era, c, q, a) /\ y = Year(era, c, q, a)
  BY <1>3, YearParts
<1> QED
  BY <1>2, <1>3, <1>4

(* Where the leap day is.                                                          *)
LEMMA LeapOf ==
  ASSUME NEW era, NEW c, NEW q, NEW a, IsYear(era, c, q, a)
  PROVE  /\ Year(era, c, q, a) \in Int
         /\ IsLeap(Year(era, c, q, a) + 1) <=> a = 3 /\ (q # 24 \/ c = 3)
         /\ LeapYears(Year(era, c, q, a)) = 97 * era + 24 * c + q
<1>1. /\ era \in Int /\ c \in Int /\ q \in Int /\ a \in Int
      /\ Within(c, 3) /\ Within(q, 24) /\ Within(a, 3)
  BY DEF IsYear
<1>2. Year(era, c, q, a) \in Int /\ Year(era, c, q, a) = 400 * era + 100 * c + 4 * q + a
  BY <1>1, SMT DEF Year
<1> DEFINE y == Year(era, c, q, a)
<1> HIDE DEF y
<1>3. IsLeap(y + 1) <=> a = 3 /\ (q # 24 \/ c = 3)
  BY <1>1, <1>2, SMT DEF Within, IsLeap, y
<1>4. LeapYears(y) = 97 * era + 24 * c + q
  BY <1>1, <1>2, SMT DEF Within, LeapYears, y
<1> QED
  BY <1>2, <1>3, <1>4, Zenon DEF y

(* civil_from_days undoes days_from_civil, for the dates of the calendar.          *)
THEOREM DatesComeBack ==
  ASSUME NEW x, IsDate(x)
  PROVE  CivilFromDays(DaysFromCivil(x.y, x.m, x.d)) = x
<1>1. x = [y |-> x.y, m |-> x.m, d |-> x.d] /\ x.d \in 1..31 /\ x.d <= MonthLength(x.y, x.m)
  BY DEF IsDate
<1>2. PICK era, c, q, a, k :
        /\ IsYear(era, c, q, a) /\ k \in Int /\ Within(k, 11) /\ x.m = CalendarMonth(k)
        /\ x.y = Year(era, c, q, a) + (IF CalendarMonth(k) <= 2 THEN 1 ELSE 0)
  BY DateParts
<1> DEFINE n == FirstDay(k) + x.d - 1
<1>3. n \in Int /\ x.d = n - FirstDay(k) + 1
  BY <1>1, <1>2, CalendarFacts, SMT
<1>4. Within(n, 365) /\ MonthOfDay(n) = k /\ (n = 365 => IsLeap(x.y) /\ k = 11)
  BY <1>1, <1>2, <1>3, DayFacts
<1>5. DaysFromCivil(x.y, x.m, x.d) = Days(era, c, q, a, n)
  <2>1. x.d \in Int
    BY <1>1
  <2> QED
    BY <1>2, <2>1, Encoded
<1> HIDE DEF n
<1>6. n = 365 => a = 3 /\ (q # 24 \/ c = 3)
  <2>1. n = 365 => IsLeap(Year(era, c, q, a) + 1)
    BY <1>2, <1>4, SMT DEF CalendarMonth
  <2> QED
    BY <1>2, <2>1, LeapOf
<1>7. CivilFromDays(Days(era, c, q, a, n)) =
        [y |-> Year(era, c, q, a) + (IF CalendarMonth(k) <= 2 THEN 1 ELSE 0), m |-> CalendarMonth(k),
         d |-> n - FirstDay(k) + 1]
  BY <1>2, <1>3, <1>4, <1>6, Decoded
<1> QED
  BY <1>1, <1>2, <1>3, <1>5, <1>7, SMT

(* civil_from_days makes each number of days a date of the calendar, the one whose *)
(* days days_from_civil says they are.                                             *)
THEOREM DaysComeBack ==
  ASSUME NEW z \in Int
  PROVE  LET x == CivilFromDays(z) IN IsDate(x) /\ DaysFromCivil(x.y, x.m, x.d) = z
<1> DEFINE days == z + 719468
           era == days \div 146097
           e == days - era * 146097
<1>1. era \in Int /\ e \in Int /\ Within(e, 146096) /\ z = 146097 * era + e - 719468
  BY SMT DEF Within
<1> HIDE DEF era, e
<1>2. PICK c, q, a, n \in Int :
           /\ Within(c, 3) /\ Within(q, 24) /\ Within(a, 3) /\ Within(n, 365)
           /\ e = 36524 * c + 1461 * q + 365 * a + n
           /\ n = 365 => a = 3 /\ (q # 24 \/ c = 3)
  BY <1>1, EraParts, SMT
<1>3. IsYear(era, c, q, a) /\ z = Days(era, c, q, a, n)
  BY <1>1, <1>2, SMT DEF IsYear, Days
<1> DEFINE k == MonthOfDay(n)
           m == CalendarMonth(k)
           d == n - FirstDay(k) + 1
           y == Year(era, c, q, a) + (IF m <= 2 THEN 1 ELSE 0)
<1>4. k \in Int /\ Within(k, 11) /\ d \in 1..31
  BY <1>2, MonthFacts, SMT
<1>5. m \in 1..12 /\ FirstDay(k) \in Int
  BY <1>4, CalendarFacts, SMT
<1>6. CivilFromDays(z) = [y |-> y, m |-> m, d |-> d]
  BY <1>2, <1>3, Decoded, SMT
<1>7. y \in Int
  BY <1>3, <1>5, LeapOf, SMT
<1>8. d <= MonthLength(y, m)
  <2>1. CASE k = 11
    <3>1. m = 2 /\ y = Year(era, c, q, a) + 1
      BY <2>1, SMT DEF CalendarMonth
    <3>2. d <= 29 /\ (d = 29 => n = 365)
      BY <1>2, <2>1, SMT DEF FirstDay, Within
    <3>3. IsLeap(y) \/ n # 365
      BY <1>2, <1>3, <3>1, LeapOf
    <3> HIDE DEF y, m, d
    <3>4. MonthLength(y, m) = IF IsLeap(y) THEN 29 ELSE 28
      BY <3>1, SMT DEF MonthLength
    <3> QED
      BY <1>4, <3>2, <3>3, <3>4, SMT
  <2>2. CASE k # 11
    <3>1. m # 2
      BY <1>4, <2>2, SMT DEF CalendarMonth, Within
    <3>2. m \in {4, 6, 9, 11} => d <= 30
      BY <1>2, <1>4, SMT DEF CalendarMonth, FirstDay, MonthOfDay, Within
    <3> HIDE DEF y, m, d
    <3> QED
      BY <1>4, <3>1, <3>2, SMT DEF MonthLength
  <2> QED
    BY <2>1, <2>2, SMT
<1>9. DaysFromCivil(y, m, d) = z
  <2>1. DaysFromCivil(y, m, d) = Days(era, c, q, a, FirstDay(k) + d - 1)
    BY <1>3, <1>4, Encoded, SMT
  <2>2. FirstDay(k) + d - 1 = n
    BY <1>2, <1>5, SMT
  <2> QED
    BY <1>3, <2>1, <2>2, SMT
<1> HIDE DEF y, m, d
<1> QED
  BY <1>4, <1>5, <1>6, <1>7, <1>8, <1>9, SMT DEF IsDate

(* days_from_civil counts as the rules of the calendar do.                         *)
LEMMA DaysAreNumbers ==
  ASSUME NEW x, IsDate(x)
  PROVE  DaysFromCivil(x.y, x.m, x.d) = DayNumber(x) /\ DayNumber(x) \in Int
<1>1. x.y \in Int /\ x.d \in 1..31 /\ x.m \in 1..12
  BY DEF IsDate
<1>2. PICK era, c, q, a, k :
        /\ IsYear(era, c, q, a) /\ k \in Int /\ Within(k, 11) /\ x.m = CalendarMonth(k)
        /\ x.y = Year(era, c, q, a) + (IF CalendarMonth(k) <= 2 THEN 1 ELSE 0)
  BY DateParts
<1> DEFINE y == Year(era, c, q, a)
<1>3. /\ era \in Int /\ c \in Int /\ q \in Int /\ a \in Int /\ y \in Int
      /\ y = 400 * era + 100 * c + 4 * q + a /\ LeapYears(y) = 97 * era + 24 * c + q
  <2>1. /\ era \in Int /\ c \in Int /\ q \in Int /\ a \in Int
        /\ y = 400 * era + 100 * c + 4 * q + a
    BY <1>2 DEF IsYear, Year
  <2>2. y \in Int /\ LeapYears(y) = 97 * era + 24 * c + q
    BY <1>2, LeapOf
  <2> QED
    BY <2>1, <2>2
<1>4. DaysFromCivil(x.y, x.m, x.d) = Days(era, c, q, a, FirstDay(k) + x.d - 1)
  <2>1. x.d \in Int
    BY <1>1
  <2> QED
    BY <1>2, <2>1, Encoded
<1>5. LeapYears(1969) = 477
  BY SMT DEF LeapYears
<1>6. FirstDay(k) = DaysBefore[x.m] - (IF x.m > 2 THEN 59 ELSE -306) /\ DaysBefore[x.m] \in Int
  BY <1>2, SMT DEF CalendarMonth, FirstDay, DaysBefore, Within
<1> HIDE DEF y
<1>7. CASE x.m > 2
  <2>1. x.y = y
    BY <1>1, <1>2, <1>3, <1>7, SMT DEF y
  <2>2. LeapYears(y) = LeapYears(y - 1) + (IF IsLeap(y) THEN 1 ELSE 0) /\ LeapYears(y - 1) \in Int
    <3>1. LeapYears(y - 1) \in Int
      BY <1>3, SMT DEF LeapYears
    <3> QED
      BY <1>3, <3>1, LeapStep
  <2> QED
    BY <1>1, <1>3, <1>4, <1>5, <1>6, <1>7, <2>1, <2>2, SMT DEF DayNumber, Days
<1>8. CASE ~(x.m > 2)
  <2>1. x.y = y + 1 /\ x.y - 1 = y
    BY <1>1, <1>2, <1>3, <1>8, SMT DEF y
  <2> QED
    BY <1>1, <1>3, <1>4, <1>5, <1>6, <1>8, <2>1, SMT DEF DayNumber, Days
<1> QED
  BY <1>7, <1>8

--------------------------------------------------------------------------------
(* Dates.                                                                          *)

LEMMA Units ==
  /\ MillisPerSecond \in Nat \ {0} /\ MicrosPerMilli \in Nat \ {0} /\ NanosPerMicro \in Nat \ {0}
  /\ DaySeconds \in Nat \ {0} /\ DateBias \in Nat \ {0}
  /\ MicrosPerSecond \in Nat \ {0} /\ NanosPerSecond \in Nat \ {0}
<1>1. /\ MillisPerSecond \in Nat \ {0} /\ MicrosPerMilli \in Nat \ {0} /\ NanosPerMicro \in Nat \ {0}
      /\ DaySeconds \in Nat \ {0} /\ DateBias \in Nat \ {0}
  BY UnitsArePositive
<1>2. ASSUME NEW a \in Nat \ {0}, NEW b \in Nat \ {0} PROVE a * b \in Nat \ {0}
  BY SMT
<1>3. MicrosPerSecond \in Nat \ {0}
  BY <1>1, <1>2 DEF MicrosPerSecond
<1>4. NanosPerSecond \in Nat \ {0}
  BY <1>1, <1>2, <1>3 DEF NanosPerSecond
<1> QED
  BY <1>1, <1>3, <1>4

LEMMA QuotientOf ==
  ASSUME NEW b \in Nat \ {0}, NEW q \in Int
  PROVE  Quotient(b * q, b) = q
<1>1. (q * b + 0) \div b = q /\ ((-q) * b + 0) \div b = -q
  BY Divided
<1>2. b * q = q * b + 0 /\ -(b * q) = (-q) * b + 0 /\ (b * q >= 0 <=> q >= 0)
  BY SMT
<1> QED
  BY <1>1, <1>2 DEF Quotient

(* An unsigned date holds the days with the epoch in its middle.                   *)
LEMMA UnsignedDays ==
  ASSUME NEW days \in Int, -DateBias <= days, days < DateBias
  PROVE  LET n == (days + DateBias) % (2 * DateBias)
             unsigned == (n - DateBias) % (2 * DateBias)
         IN  /\ n = DateBias + days
             /\ (IF unsigned >= DateBias THEN unsigned - 2 * DateBias ELSE unsigned) = days
<1>1. DateBias \in Nat \ {0} /\ 2 * DateBias \in Nat \ {0}
  BY Units
<1> DEFINE b == 2 * DateBias
<1>2. ASSUME NEW q \in Int, NEW r \in 0..b-1 PROVE (q * b + r) % b = r
  BY <1>1, Divided
<1>3. (days + DateBias) % b = days + DateBias
  <2>1. days + DateBias = 0 * b + (days + DateBias) /\ days + DateBias \in 0..b-1
    BY <1>1
  <2> QED
    BY <1>2, <2>1
<1>4. days % b = IF days >= 0 THEN days ELSE days + b
  <2>1. CASE days >= 0
    <3>1. days = 0 * b + days /\ days \in 0..b-1
      BY <1>1, <2>1
    <3> QED
      BY <1>2, <2>1, <3>1
  <2>2. CASE days < 0
    <3>1. days = (-1) * b + (days + b) /\ days + b \in 0..b-1
      BY <1>1, <2>2
    <3> QED
      BY <1>2, <2>2, <3>1
  <2> QED
    BY <2>1, <2>2
<1>5. days + DateBias - DateBias = days
  BY <1>1
<1> QED
  BY <1>1, <1>3, <1>4, <1>5

LEMMA LeapRange ==
  ASSUME NEW y \in Int
  PROVE  /\ LeapYears(y) \in Int
         /\ 0 <= y /\ y <= 9998 => 0 <= LeapYears(y) /\ LeapYears(y) <= 2424
         /\ y >= 9999 => LeapYears(y) >= 2424
         /\ y <= -1 => LeapYears(y) <= -1
<1>1. PICK era, c, q, a : IsYear(era, c, q, a) /\ y = Year(era, c, q, a)
  BY YearParts
<1>2. LeapYears(y) = 97 * era + 24 * c + q
  BY <1>1, LeapOf
<1>3. /\ era \in Int /\ c \in Int /\ q \in Int /\ a \in Int /\ y = 400 * era + 100 * c + 4 * q + a
      /\ 0 <= c /\ c <= 3 /\ 0 <= q /\ q <= 24 /\ 0 <= a /\ a <= 3
  BY <1>1 DEF IsYear, Year, Within
<1> QED
  BY <1>2, <1>3, SMT

LEMMA Ranges ==
  /\ \A n \in Int : n \in PythonDays <=> -719162 <= n /\ n <= 2932896
  /\ \A y \in Int : y \in PythonYears <=> 1 <= y /\ y <= 9999
  /\ LastOfPython = 2932896
<1>1. FirstOfPython = -719162 /\ LastOfPython = 2932896
  BY SMT DEF FirstOfPython, LastOfPython
<1>2. \A n \in Int : n \in PythonDays <=> FirstOfPython <= n /\ n <= LastOfPython
  <2>1. FirstOfPython \in Int /\ LastOfPython \in Int
    BY <1>1, SMT
  <2> QED
    BY <2>1, SMT DEF PythonDays
<1>3. \A y \in Int : y \in PythonYears <=> 1 <= y /\ y <= 9999
  BY SMT DEF PythonYears
<1> QED
  BY <1>1, <1>2, <1>3, SMT

(* Python's dates are those of the years 1 to 9999.                                *)
LEMMA YearRange ==
  ASSUME NEW x, IsDate(x)
  PROVE  DayNumber(x) \in PythonDays <=> x.y \in PythonYears
<1>1. x.y \in Int /\ x.m \in 1..12 /\ x.d \in 1..31 /\ x.d <= MonthLength(x.y, x.m)
  BY DEF IsDate
<1> DEFINE y == x.y
           leap == IF IsLeap(y) THEN 1 ELSE 0
           day == DaysBefore[x.m] + (IF x.m > 2 /\ IsLeap(y) THEN 1 ELSE 0) + x.d - 1
<1>2. day \in Int /\ 0 <= day /\ day <= 364 + leap
  <2>1. ASSUME NEW m \in 1..12, x.m = m PROVE day \in Int /\ 0 <= day /\ day <= 364 + leap
    BY <1>1, <2>1, SMT DEF DaysBefore, MonthLength
  <2> QED
    BY <1>1, <2>1
<1>3. y = 9999 => leap = 0
  BY SMT DEF IsLeap
<1>4. LeapYears(1969) = 477
  BY SMT DEF LeapYears
<1>5. DaysBefore[x.m] \in Int
  BY <1>1, SMT DEF DaysBefore
<1>6. leap \in 0..1
  OBVIOUS
<1> HIDE DEF leap
<1>7. DayNumber(x) = 365 * (y - 1970) + LeapYears(y - 1) - 477 + day
  BY <1>1, <1>4, <1>5, LeapRange, SMT DEF DayNumber
<1> HIDE DEF y, day
<1>8. y \in Int /\ y - 1 \in Int
  BY <1>1 DEF y
<1>9. DayNumber(x) \in PythonDays <=> y \in PythonYears
  <2>1. day <= 365 /\ (y = 9999 => day <= 364)
    BY <1>2, <1>3, <1>6
  <2>2. /\ LeapYears(y - 1) \in Int
        /\ 0 <= y - 1 /\ y - 1 <= 9998 => 0 <= LeapYears(y - 1) /\ LeapYears(y - 1) <= 2424
        /\ y - 1 >= 9999 => LeapYears(y - 1) >= 2424
        /\ y - 1 <= -1 => LeapYears(y - 1) <= -1
    BY <1>8, LeapRange
  <2>3. DayNumber(x) \in Int
    BY <1>2, <1>7, <1>8, <2>2, SMT
  <2> DEFINE leaps == LeapYears(y - 1)
             n == DayNumber(x)
  <2>4. n = 365 * (y - 1970) + leaps - 477 + day
    BY <1>7
  <2> HIDE DEF leaps, n
  <2>5. leaps \in Int /\ n \in Int
    BY <2>2, <2>3 DEF leaps, n
  <2>6. /\ 0 <= y - 1 /\ y - 1 <= 9998 => 0 <= leaps /\ leaps <= 2424
        /\ y - 1 >= 9999 => leaps >= 2424
        /\ y - 1 <= -1 => leaps <= -1
    BY <2>2 DEF leaps
  <2>7. n \in PythonDays <=> y \in PythonYears
    <3>1. CASE y <= 0
      <4>1. leaps <= -1
        BY <1>8, <2>6, <3>1, SMT
      <4>2. n < -719162
        BY <1>2, <1>8, <2>1, <2>4, <2>5, <3>1, <4>1, SMT
      <4> QED
        BY <1>8, <2>5, <3>1, <4>2, Ranges, SMT
    <3>2. CASE y >= 10000
      <4>1. leaps >= 2424
        BY <1>8, <2>6, <3>2, SMT
      <4>2. n > 2932896
        BY <1>2, <1>8, <2>4, <2>5, <3>2, <4>1, SMT
      <4> QED
        BY <1>8, <2>5, <3>2, <4>2, Ranges, SMT
    <3>3. CASE y >= 1 /\ y <= 9999
      <4>1. 0 <= leaps /\ leaps <= 2424
        BY <1>8, <2>6, <3>3, SMT
      <4>2. -719162 <= n /\ n <= 2932896
        BY <1>2, <1>8, <2>1, <2>4, <2>5, <3>3, <4>1, SMT
      <4> QED
        BY <1>8, <2>5, <3>3, <4>2, Ranges, SMT
    <3> QED
      BY <1>8, <3>1, <3>2, <3>3, SMT
  <2> QED
    BY <2>7 DEF n
<1> QED
  BY <1>9 DEF y

LEMMA DateOfDays ==
  ASSUME NEW days \in Int, -DateBias <= days, days < DateBias
  PROVE  LET date == CivilFromDays(days)
         IN  Date((days + DateBias) % (2 * DateBias), native) =
               IF native \/ date.y \in PythonYears THEN Gives(date) ELSE Raised
BY UnsignedDays, Zenon DEF Date

LEMMA DatesReadBack ==
  ASSUME NEW v,
         \/ IsDate(v) /\ v.y \in PythonYears
         \/ v \in [number : Int] /\ Quotient(v.number, DaySeconds) \in IntDays
  PROVE  DateReadsBack(v, Date(AsCassDate(v), native))
<1>1. ASSUME NEW days \in Int, -DateBias <= days, days < DateBias
      PROVE  LET date == CivilFromDays(days)
             IN  /\ Date((days + DateBias) % (2 * DateBias), native) =
                      IF native \/ days \in PythonDays THEN Gives(date) ELSE Raised
                 /\ IsDate(date) /\ DayNumber(date) = days
  <2> DEFINE date == CivilFromDays(days)
  <2>1. IsDate(date) /\ DaysFromCivil(date.y, date.m, date.d) = days
    BY DaysComeBack
  <2> HIDE DEF date
  <2>2. DayNumber(date) = days
    BY <2>1, DaysAreNumbers
  <2>3. date.y \in PythonYears <=> days \in PythonDays
    BY <2>1, <2>2, YearRange
  <2>4. Date((days + DateBias) % (2 * DateBias), native) =
               IF native \/ date.y \in PythonYears THEN Gives(date) ELSE Raised
    BY <1>1, DateOfDays DEF date
  <2> QED
    BY <2>1, <2>2, <2>3, <2>4, Zenon DEF date
<1>2. DaySeconds \in Nat \ {0} /\ DateBias \in Nat \ {0}
  BY Units
<1>3. CASE IsDate(v) /\ v.y \in PythonYears
  <2> DEFINE days == DayNumber(v)
  <2>1. DaysFromCivil(v.y, v.m, v.d) = days /\ days \in Int /\ days \in PythonDays
    BY <1>3, DaysAreNumbers, YearRange, Zenon
  <2>2. -DateBias <= days /\ days < DateBias
    BY <2>1, <1>2, CellsAreProper, Ranges, SMT
  <2>3. ~IsNumber(v)
    BY <1>3, SMT DEF IsDate, IsNumber
  <2> HIDE DEF days
  <2>4. AsCassDate(v) = (days + DateBias) % (2 * DateBias)
    BY <1>2, <2>1, <2>3, QuotientOf, Zenon DEF AsCassDate, CassDateFromEpoch, EpochSeconds
  <2>5. AsCassDate(v) = DateBias + days
    BY <2>1, <2>2, <2>4, UnsignedDays, Zenon
  <2>6. CivilFromDays(days) = v
    BY <1>3, <2>1, DatesComeBack, Zenon
  <2>7. Date(AsCassDate(v), native) = Gives(v)
    BY <1>1, <2>1, <2>2, <2>4, <2>6, Zenon
  <2> QED
    BY <2>3, <2>5, <2>7, Zenon DEF DateReadsBack, days
<1>4. CASE v \in [number : Int] /\ Quotient(v.number, DaySeconds) \in IntDays
  <2> DEFINE days == Quotient(v.number, DaySeconds)
  <2>1. IsNumber(v) /\ v.number \in Int
    BY <1>4, Zenon DEF IsNumber
  <2>2. days \in Int /\ -DateBias <= days /\ days < DateBias
    BY <1>2, <1>4, SMT DEF IntDays
  <2>3. days = v.number \div DaySeconds + (IF v.number < 0 /\ v.number % DaySeconds # 0 THEN 1 ELSE 0)
    BY <1>2, <2>1, SMT DEF Quotient
  <2> HIDE DEF days
  <2>4. AsCassDate(v) = (days + DateBias) % (2 * DateBias)
    BY <2>1, Zenon DEF AsCassDate, CassDateFromEpoch, days
  <2>5. /\ Date(AsCassDate(v), native) = IF native \/ days \in PythonDays THEN Gives(CivilFromDays(days)) ELSE Raised
        /\ IsDate(CivilFromDays(days)) /\ DayNumber(CivilFromDays(days)) = days
    BY <1>1, <2>2, <2>4, Zenon
  <2>6. ASSUME NEW x PROVE ~Gives(x).raised /\ Gives(x).v = x
    BY DEF Gives
  <2> QED
    BY <2>1, <2>3, <2>5, <2>6, Zenon DEF DateReadsBack
<1> QED
  BY <1>3, <1>4

--------------------------------------------------------------------------------
(* Times of the day.                                                               *)

LEMMA DayOfSeconds == \A s \in Int : s \in SecondsOfDay <=> 0 <= s /\ s <= 86399
<1>1. LastSecond = 86399
  BY SMT DEF LastSecond
<1>2. \A s \in Int : s \in SecondsOfDay <=> 0 <= s /\ s <= LastSecond
  <2>1. LastSecond \in Int
    BY <1>1, SMT
  <2> QED
    BY <2>1, SMT DEF SecondsOfDay
<1> QED
  BY <1>1, <1>2, SMT

(* Hours and minutes, as they are split off a number of seconds.                   *)
Hour(s)   == Quotient(s \div 60, 60)
Minute(s) == s \div 60 - Hour(s) * 60

LEMMA Clock ==
  ASSUME NEW s \in Int
  PROVE  /\ s % 60 \in 0..59
         /\ Hour(s) * 3600 + Minute(s) * 60 + (s % 60) = s
         /\ Hour(s) \in 0..23 /\ Minute(s) \in 0..59 <=> s \in SecondsOfDay
<1> DEFINE m == s \div 60
<1>1. m \in Int /\ s % 60 \in 0..59 /\ s = 60 * m + (s % 60)
  BY SMT
<1> HIDE DEF m
<1>2. Hour(s) = Quotient(m, 60) /\ Minute(s) = m - Hour(s) * 60
  BY Zenon DEF Hour, Minute, m
<1>3. CASE m >= 0
  <2>1. Hour(s) = m \div 60
    BY <1>2, <1>3, Zenon DEF Quotient
  <2>2. Hour(s) \in Int /\ Minute(s) \in 0..59
    BY <1>1, <1>2, <1>3, <2>1, SMT
  <2> DEFINE h == Hour(s)
             k == Minute(s)
             r == s % 60
  <2>3. h \in Int /\ k \in 0..59 /\ k = m - h * 60 /\ r \in 0..59 /\ s = 60 * m + r
    BY <1>1, <1>2, <2>2
  <2> HIDE DEF h, k, r
  <2>4. h * 3600 + k * 60 + r = s
    BY <1>1, <2>3, SMT
  <2>5. h \in 0..23 <=> 0 <= s /\ s <= 86399
    BY <1>1, <2>3, SMT
  <2> QED
    <3>1. Hour(s) * 3600 + Minute(s) * 60 + (s % 60) = s
      BY <2>4 DEF h, k, r
    <3>2. Hour(s) \in 0..23 <=> s \in SecondsOfDay
      BY <2>5, DayOfSeconds DEF h
    <3> QED
      BY <1>1, <2>2, <3>1, <3>2
<1>4. CASE m < 0
  <2>1. Hour(s) = -((-m) \div 60)
    BY <1>1, <1>2, <1>4, SMT DEF Quotient
  <2>2. Hour(s) \in Int /\ Minute(s) \in -59..0 /\ (Hour(s) < 0 \/ Minute(s) < 0)
    BY <1>1, <1>2, <1>4, <2>1, SMT
  <2> QED
    BY <1>1, <1>2, <1>4, <2>2, DayOfSeconds, SMT
<1> QED
  BY <1>1, <1>3, <1>4, SMT

LEMMA TimeOf ==
  ASSUME NEW s \in Int, NEW nano \in 0..(NanosPerSecond - 1)
  PROVE  LET time == [hour |-> Hour(s), minute |-> Minute(s), second |-> s % 60]
         IN  Time(s * NanosPerSecond + nano, native) =
               IF native THEN Gives([time |-> time, nano |-> nano])
               ELSE IF s \in SecondsOfDay THEN Gives([time |-> time, micro |-> nano \div NanosPerMicro])
               ELSE Raised
<1>1. (s * NanosPerSecond + nano) \div NanosPerSecond = s /\ (s * NanosPerSecond + nano) % NanosPerSecond = nano
  BY Units, Divided
<1>2. Hour(s) \in 0..23 /\ Minute(s) \in 0..59 <=> s \in SecondsOfDay
  BY Clock
<1> QED
  BY <1>1, <1>2, Zenon DEF Time, Hour, Minute

(* Microseconds, as nanoseconds.                                                   *)
LEMMA Micros ==
  ASSUME NEW micro \in 0..(MicrosPerSecond - 1)
  PROVE  micro * NanosPerMicro \in 0..(NanosPerSecond - 1) /\ (micro * NanosPerMicro) \div NanosPerMicro = micro
<1>1. NanosPerMicro \in Nat \ {0} /\ MicrosPerSecond \in Nat \ {0}
  BY Units
<1>2. \A k \in Nat, n \in Nat \ {0} : k * n >= 0 /\ k * n \in Nat
  BY SMT
<1>3. (MicrosPerSecond - 1 - micro) * NanosPerMicro >= 0 /\ micro * NanosPerMicro \in Nat
  BY <1>1, <1>2
<1>4. micro * NanosPerMicro <= NanosPerSecond - 1
  BY <1>1, <1>3, SMT DEF NanosPerSecond
<1>5. (micro * NanosPerMicro + 0) \div NanosPerMicro = micro
  BY <1>1, Divided
<1>6. micro * NanosPerMicro + 0 = micro * NanosPerMicro
  BY <1>3
<1> QED
  BY <1>1, <1>3, <1>4, <1>5, <1>6, Units

LEMMA TimesReadBack ==
  ASSUME NEW v,
         \/ v \in [number : Int]
         \/ v \in [hour : 0..23, minute : 0..59, second : 0..59, micro : 0..(MicrosPerSecond - 1), offset : Int]
  PROVE  TimeReadsBack(v, Time(AsCassTime(v), native))
<1> DEFINE s == IF IsNumber(v) THEN v.number ELSE SecondsOf(v) - v.offset
           micro == IF IsNumber(v) THEN 0 ELSE v.micro
<1>1. s \in Int /\ micro \in 0..(MicrosPerSecond - 1) /\ AsCassTime(v) = s * NanosPerSecond + micro * NanosPerMicro
  <2>1. CASE v \in [number : Int]
    <3>1. IsNumber(v) /\ v.number \in Int
      BY <2>1 DEF IsNumber
    <3> QED
      BY <3>1, Units DEF AsCassTime
  <2>2. CASE v \in [hour : 0..23, minute : 0..59, second : 0..59, micro : 0..(MicrosPerSecond - 1), offset : Int]
    <3>1. ~IsNumber(v) /\ SecondsOf(v) \in Int /\ v.offset \in Int /\ v.micro \in 0..(MicrosPerSecond - 1)
      <4>1. DOMAIN v = {"hour", "minute", "second", "micro", "offset"}
        BY <2>2
      <4>2. v.hour \in Int /\ v.minute \in Int /\ v.second \in Int
        BY <2>2
      <4>3. SecondsOf(v) \in Int
        BY <4>2, SMT DEF SecondsOf
      <4>4. ~IsNumber(v)
        BY <4>1, SMT DEF IsNumber
      <4> QED
        BY <2>2, <4>3, <4>4
    <3>2. AsCassTime(v) = (SecondsOf(v) - v.offset) * NanosPerSecond + v.micro * NanosPerMicro
      BY <3>1, Zenon DEF AsCassTime
    <3> QED
      BY <3>1, <3>2
  <2> QED
    BY <2>1, <2>2
<1>2. /\ TimeReadsBack(v, Time(AsCassTime(v), native)) <=>
           LET r == Time(AsCassTime(v), native)
           IN  /\ ~native => (r.raised <=> s \notin SecondsOfDay)
               /\ s \in SecondsOfDay =>
                    /\ SecondsOf(r.v.time) = s /\ r.v.time.minute \in 0..59 /\ r.v.time.second \in 0..59
                    /\ IF native THEN r.v.nano = micro * NanosPerMicro ELSE r.v.micro = micro
  BY Zenon DEF TimeReadsBack
<1> HIDE DEF s, micro
<1> DEFINE r == Time(AsCassTime(v), native)
           time == [hour |-> Hour(s), minute |-> Minute(s), second |-> s % 60]
<1>3. r = IF native THEN Gives([time |-> time, nano |-> micro * NanosPerMicro])
          ELSE IF s \in SecondsOfDay THEN Gives([time |-> time, micro |-> micro])
          ELSE Raised
  BY <1>1, TimeOf, Micros
<1>4. SecondsOf(time) = s /\ time.second \in 0..59 /\ (s \in SecondsOfDay => time.minute \in 0..59)
  <2>1. time.hour = Hour(s) /\ time.minute = Minute(s) /\ time.second = s % 60
    BY Zenon
  <2>2. /\ s % 60 \in 0..59 /\ Hour(s) * 3600 + Minute(s) * 60 + (s % 60) = s
        /\ s \in SecondsOfDay => Minute(s) \in 0..59
    BY <1>1, Clock, SMT
  <2>3. SecondsOf(time) = Hour(s) * 3600 + Minute(s) * 60 + (s % 60)
    BY <2>1, SMT DEF SecondsOf
  <2> HIDE DEF time
  <2> QED
    BY <2>1, <2>2, <2>3, SMT
<1> HIDE DEF r, time
<1>5. /\ native => r.v.time = time /\ r.v.nano = micro * NanosPerMicro
      /\ ~native /\ s \in SecondsOfDay => r.v.time = time /\ r.v.micro = micro
      /\ ~native => (r.raised <=> s \notin SecondsOfDay)
  <2>1. ASSUME NEW x PROVE ~Gives(x).raised /\ Gives(x).raised = FALSE /\ Gives(x).v = x
    BY Zenon DEF Gives
  <2>2. Raised.raised = TRUE
    BY Zenon DEF Raised
  <2> DEFINE nanos  == [time |-> time, nano |-> micro * NanosPerMicro]
             micros == [time |-> time, micro |-> micro]
  <2>3. /\ nanos.time = time /\ nanos.nano = micro * NanosPerMicro
        /\ micros.time = time /\ micros.micro = micro
    BY Zenon
  <2>4. r = IF native THEN Gives(nanos) ELSE IF s \in SecondsOfDay THEN Gives(micros) ELSE Raised
    BY <1>3
  <2> HIDE DEF nanos, micros
  <2>5. native => r.v = nanos
    BY <2>1, <2>4, Zenon
  <2>6. ~native /\ s \in SecondsOfDay => r.v = micros /\ ~r.raised
    BY <2>1, <2>4, Zenon
  <2>7. ~native /\ s \notin SecondsOfDay => r.raised
    BY <2>2, <2>4, Zenon
  <2> QED
    BY <2>3, <2>5, <2>6, <2>7, Zenon
<1> QED
  BY <1>2, <1>4, <1>5, Zenon DEF r

--------------------------------------------------------------------------------
(* Durations and their texts.                                                      *)

LEMMA Remainder ==
  ASSUME NEW b \in Nat \ {0}, NEW n \in Int
  PROVE  n = (n \div b) * b + (n % b) /\ n \div b \in Int /\ n % b \in 0..(b - 1) /\ (n >= 0 => n \div b >= 0)
BY SMT

(* Amounts of units, of which one is a multiple of the other.                      *)
LEMMA TwoUnits ==
  ASSUME NEW k \in Nat \ {0}, NEW b \in Nat \ {0}, NEW n \in Int
  PROVE  n = (n \div (k * b)) * (k * b) + ((n % (k * b)) \div b) * b + (n % b)
<1> DEFINE a == k * b
           q == n \div a
           g == n % a
           c == g \div b
           r == g % b
<1>1. a \in Nat \ {0}
  BY SMT
<1>2. n = q * a + g /\ q \in Int /\ g \in Int
  <2> HIDE DEF a
  <2> QED
    BY <1>1, Remainder
<1>3. g = c * b + r /\ c \in Int /\ r \in 0..(b - 1)
  <2> HIDE DEF g
  <2> QED
    BY <1>2, Remainder
<1> HIDE DEF q, g, c, r
<1>4. n = (q * k + c) * b + r /\ q * k + c \in Int
  BY <1>2, <1>3, SMT
<1>5. n % b = r
  BY <1>3, <1>4, Divided
<1> QED
  BY <1>2, <1>3, <1>5, SMT DEF q, g, c

LEMMA Seconds ==
  ASSUME NEW s \in Int
  PROVE  s = (s \div 3600) * 3600 + ((s % 3600) \div 60) * 60 + (s % 60)
BY SMT

LEMMA Spread ==
  ASSUME NEW h \in Int, NEW m \in Int, NEW c \in Int, NEW b \in Int
  PROVE  (h * 3600 + m * 60 + c) * b = h * (3600 * b) + m * (60 * b) + c * b
BY SMT

(* The units of a number of nanoseconds make it up again.                          *)
LEMMA NanosOfUnits ==
  ASSUME NEW n \in Nat
  PROVE  LET s == n \div NanosPerSecond
             f == n % NanosPerSecond
         IN  n = (s \div 3600) * UnitNanos["h"] + ((s % 3600) \div 60) * UnitNanos["m"] + (s % 60) * UnitNanos["s"]
                   + (f \div UnitNanos["ms"]) * UnitNanos["ms"]
                   + ((f % UnitNanos["ms"]) \div NanosPerMicro) * UnitNanos["us"] + (f % NanosPerMicro)
<1> DEFINE b == NanosPerSecond
           s == n \div b
           f == n % b
<1>1. b \in Nat \ {0} /\ MicrosPerMilli \in Nat \ {0} /\ NanosPerMicro \in Nat \ {0}
  BY Units
<1> HIDE DEF b
<1>2. n = s * b + f /\ s \in Int /\ f \in Int
  BY <1>1, Remainder
<1> HIDE DEF s, f
<1>3. f = (f \div (MicrosPerMilli * NanosPerMicro)) * (MicrosPerMilli * NanosPerMicro)
            + ((f % (MicrosPerMilli * NanosPerMicro)) \div NanosPerMicro) * NanosPerMicro + (f % NanosPerMicro)
  BY <1>1, <1>2, TwoUnits
<1>4. s * b = (s \div 3600) * (3600 * b) + ((s % 3600) \div 60) * (60 * b) + (s % 60) * b
  <2> DEFINE h == s \div 3600
             m == (s % 3600) \div 60
             c == s % 60
  <2>1. h \in Int /\ m \in Int /\ c \in Int /\ s = h * 3600 + m * 60 + c
    BY <1>2, Seconds, SMT
  <2> HIDE DEF h, m, c
  <2>2. s * b = h * (3600 * b) + m * (60 * b) + c * b
    BY <1>1, <2>1, SMT
  <2> QED
    BY <2>2 DEF h, m, c
<1>5. /\ UnitNanos["h"] = 3600 * b /\ UnitNanos["m"] = 60 * b /\ UnitNanos["s"] = b
      /\ UnitNanos["ms"] = MicrosPerMilli * NanosPerMicro /\ UnitNanos["us"] = NanosPerMicro
  BY SMT DEF UnitNanos, b
<1> DEFINE t == <<(s \div 3600) * UnitNanos["h"], ((s % 3600) \div 60) * UnitNanos["m"], (s % 60) * UnitNanos["s"],
                  (f \div UnitNanos["ms"]) * UnitNanos["ms"],
                  ((f % UnitNanos["ms"]) \div NanosPerMicro) * UnitNanos["us"], f % NanosPerMicro>>
<1>6. t[1] \in Int /\ t[2] \in Int /\ t[3] \in Int /\ s * b = t[1] + t[2] + t[3]
  <2>1. ASSUME NEW x \in Int, NEW y \in Int PROVE x * y \in Int
    BY SMT
  <2>2. s \div 3600 \in Int /\ (s % 3600) \div 60 \in Int /\ s % 60 \in Int
    BY <1>2, SMT
  <2>3. 3600 * b \in Int /\ 60 * b \in Int
    BY <1>1, SMT
  <2>4. b \in Int
    BY <1>1
  <2> QED
    BY <1>4, <1>5, <2>1, <2>2, <2>3, <2>4
<1>7. t[4] \in Int /\ t[5] \in Int /\ t[6] \in Int /\ f = t[4] + t[5] + t[6]
  <2> DEFINE k == MicrosPerMilli * NanosPerMicro
  <2>1. ASSUME NEW x \in Int, NEW y \in Int PROVE x * y \in Int
    BY SMT
  <2>2. k \in Nat \ {0}
    BY <1>1, SMT
  <2>3. f = (f \div k) * k + ((f % k) \div NanosPerMicro) * NanosPerMicro + (f % NanosPerMicro)
    BY <1>3
  <2>4. UnitNanos["ms"] = k /\ UnitNanos["us"] = NanosPerMicro
    BY <1>5
  <2> HIDE DEF k
  <2>5. f \div k \in Int /\ f % k \in Int /\ f % NanosPerMicro \in Int
    BY <1>1, <1>2, <2>2, Remainder
  <2>6. (f % k) \div NanosPerMicro \in Int
    BY <1>1, <2>5, Remainder
  <2>7. k \in Int /\ NanosPerMicro \in Int
    BY <1>1, <2>2
  <2> QED
    BY <2>1, <2>3, <2>4, <2>5, <2>6, <2>7
<1> HIDE DEF t
<1>8. n = t[1] + t[2] + t[3] + t[4] + t[5] + t[6]
  BY <1>2, <1>6, <1>7, SMT
<1> QED
  BY <1>8 DEF s, f, b, t

(* A text has its amounts of each unit again; what it leaves out is zero.          *)
LEMMA SumsOfText ==
  ASSUME NEW v
  PROVE  LET text == DurationStr(v)
             all == Amounts(v)
         IN  /\ \A u \in DOMAIN all : SumOf(text, u) = all[u]
             /\ SumOf(text, "w") = 0
             /\ text.minus = (Leading(v) < 0)
             /\ DOMAIN text.counts = {} <=> \A u \in DOMAIN all : all[u] = 0
             /\ DOMAIN all = {"y", "mo", "d", "h", "m", "s", "ms", "us", "ns"}
<1> DEFINE text == DurationStr(v)
           all == Amounts(v)
<1>1. DOMAIN all = {"y", "mo", "d", "h", "m", "s", "ms", "us", "ns"}
  BY SMT DEF Amounts
<1> HIDE DEF all
<1>2. /\ text.minus = (Leading(v) < 0)
      /\ text.counts = [u \in {x \in DOMAIN all : all[x] # 0} |-> all[u]]
  BY Zenon DEF DurationStr, all
<1> HIDE DEF text
<1>3. \A u \in DOMAIN all : SumOf(text, u) = all[u]
  BY <1>2, SMT DEF SumOf
<1>4. SumOf(text, "w") = 0
  BY <1>1, <1>2, SMT DEF SumOf
<1>5. DOMAIN text.counts = {} <=> \A u \in DOMAIN all : all[u] = 0
  BY <1>2, Zenon
<1> QED
  BY <1>1, <1>2, <1>3, <1>4, <1>5, Zenon DEF text, all

IsDuration(d) == d \in [months : Int, days : Int, nanos : Int]

LEMMA Magnitudes ==
  ASSUME NEW n \in Int
  PROVE  /\ Magnitude(n) \in Nat /\ (Magnitude(n) = 0 <=> n = 0)
         /\ n >= 0 => Magnitude(n) = n
         /\ n <= 0 => -Magnitude(n) = n
         /\ (-1) * Magnitude(n) = -Magnitude(n) /\ 1 * Magnitude(n) = Magnitude(n)
BY SMT DEF Magnitude

(* Months as years and months.                                                     *)
LEMMA Years ==
  ASSUME NEW n \in Nat
  PROVE  (n \div 12) * 12 + (n % 12) = n /\ (n = 0 <=> n \div 12 = 0 /\ n % 12 = 0)
BY SMT

(* No units, no nanoseconds.                                                       *)
LEMMA NoNanos ==
  ASSUME NEW n \in Nat
  PROVE  LET s == n \div NanosPerSecond
             f == n % NanosPerSecond
         IN  n = 0 <=> /\ s \div 3600 = 0 /\ (s % 3600) \div 60 = 0 /\ s % 60 = 0
                       /\ f \div UnitNanos["ms"] = 0 /\ (f % UnitNanos["ms"]) \div NanosPerMicro = 0
                       /\ f % NanosPerMicro = 0
<1> DEFINE s == n \div NanosPerSecond
           f == n % NanosPerSecond
           k == UnitNanos["ms"]
<1>1. NanosPerSecond \in Nat \ {0} /\ MicrosPerMilli \in Nat \ {0} /\ NanosPerMicro \in Nat \ {0}
  BY Units
<1>2. k = MicrosPerMilli * NanosPerMicro /\ k \in Nat \ {0}
  BY <1>1, SMT DEF UnitNanos
<1>3. n = s * NanosPerSecond + f /\ s \in Int /\ f \in Int
  BY <1>1, Remainder
<1>4. ASSUME NEW b \in Nat \ {0} PROVE 0 \div b = 0 /\ 0 % b = 0
  BY SMT
<1> HIDE DEF s, f, k
<1>5. n = 0 => s = 0 /\ f = 0
  BY <1>1, <1>4 DEF s, f
<1>6. s = 0 /\ f = 0 => n = 0
  BY <1>1, <1>3, SMT
<1>7. s = 0 <=> s \div 3600 = 0 /\ (s % 3600) \div 60 = 0 /\ s % 60 = 0
  BY <1>3, SMT
<1>8. f = 0 => f \div k = 0 /\ (f % k) \div NanosPerMicro = 0 /\ f % NanosPerMicro = 0
  BY <1>1, <1>2, <1>4
<1>9. f \div k = 0 /\ (f % k) \div NanosPerMicro = 0 /\ f % NanosPerMicro = 0 => f = 0
  BY <1>1, <1>2, <1>3, TwoUnits, SMT
<1>10. n = 0 <=> /\ s \div 3600 = 0 /\ (s % 3600) \div 60 = 0 /\ s % 60 = 0
                /\ f \div k = 0 /\ (f % k) \div NanosPerMicro = 0 /\ f % NanosPerMicro = 0
  BY <1>5, <1>6, <1>7, <1>8, <1>9
<1> QED
  BY <1>10 DEF s, f, k

(* The sums of a text are what the duration has, without its signs.                *)
LEMMA ParsesMagnitudes ==
  ASSUME NEW d, IsDuration(d)
  PROVE  LET m == Magnitude(d.months)
             a == Magnitude(d.days)
             n == Magnitude(d.nanos)
         IN  ParseDurationStr(DurationStr(d)) =
               IF m = 0 /\ a = 0 /\ n = 0 THEN Raised
               ELSE Gives(IF Leading(d) < 0 THEN Duration(-m, -a, -n) ELSE Duration(m, a, n))
<1> DEFINE text == DurationStr(d)
           all == Amounts(d)
           m == Magnitude(d.months)
           a == Magnitude(d.days)
           n == Magnitude(d.nanos)
           s == n \div NanosPerSecond
           f == n % NanosPerSecond
<1>1. m \in Nat /\ a \in Nat /\ n \in Nat
  BY Magnitudes DEF IsDuration
<1> HIDE DEF m, a, n
<1>2. /\ all["y"] = m \div 12 /\ all["mo"] = m % 12 /\ all["d"] = a
      /\ all["h"] = s \div 3600 /\ all["m"] = (s % 3600) \div 60 /\ all["s"] = s % 60
      /\ all["ms"] = f \div UnitNanos["ms"] /\ all["us"] = (f % UnitNanos["ms"]) \div NanosPerMicro
      /\ all["ns"] = f % NanosPerMicro
  BY SMT DEF Amounts, m, a, n
<1>3. all["y"] * 12 + all["mo"] = m /\ (m = 0 <=> all["y"] = 0 /\ all["mo"] = 0)
  <2>1. (m \div 12) * 12 + (m % 12) = m /\ (m = 0 <=> m \div 12 = 0 /\ m % 12 = 0)
    BY <1>1, Years, SMT
  <2> HIDE DEF all
  <2> QED
    BY <1>2, <2>1, SMT
<1>4. n = all["h"] * UnitNanos["h"] + all["m"] * UnitNanos["m"] + all["s"] * UnitNanos["s"]
            + all["ms"] * UnitNanos["ms"] + all["us"] * UnitNanos["us"] + all["ns"]
  BY <1>1, <1>2, NanosOfUnits
<1> HIDE DEF all, text
<1>5. /\ SumOf(text, "y") = all["y"] /\ SumOf(text, "mo") = all["mo"] /\ SumOf(text, "d") = all["d"]
      /\ SumOf(text, "h") = all["h"] /\ SumOf(text, "m") = all["m"] /\ SumOf(text, "s") = all["s"]
      /\ SumOf(text, "ms") = all["ms"] /\ SumOf(text, "us") = all["us"] /\ SumOf(text, "ns") = all["ns"]
      /\ SumOf(text, "w") = 0 /\ text.minus = (Leading(d) < 0)
  BY SumsOfText, SMT DEF text, all
<1>6. DOMAIN text.counts = {} <=> m = 0 /\ a = 0 /\ n = 0
  <2>1. DOMAIN text.counts = {} <=> /\ all["y"] = 0 /\ all["mo"] = 0 /\ all["d"] = 0
                                    /\ all["h"] = 0 /\ all["m"] = 0 /\ all["s"] = 0
                                    /\ all["ms"] = 0 /\ all["us"] = 0 /\ all["ns"] = 0
    BY SumsOfText, SMT DEF text, all
  <2>2. n = 0 <=> /\ all["h"] = 0 /\ all["m"] = 0 /\ all["s"] = 0
                  /\ all["ms"] = 0 /\ all["us"] = 0 /\ all["ns"] = 0
    BY <1>1, <1>2, NoNanos, SMT
  <2>3. m = 0 <=> all["y"] = 0 /\ all["mo"] = 0
    BY <1>3
  <2>4. a = 0 <=> all["d"] = 0
    BY <1>2
  <2> QED
    BY <2>1, <2>2, <2>3, <2>4
<1>7. 0 * 7 + a = a
  BY <1>1, SMT
<1>8. ParseDurationStr(text) =
        IF DOMAIN text.counts = {} THEN Raised
        ELSE Gives(IF text.minus THEN Duration(-m, -a, -n) ELSE Duration(m, a, n))
  <2>1. SumOf(text, "y") * 12 + SumOf(text, "mo") = m
    BY <1>3, <1>5
  <2>2. SumOf(text, "w") * 7 + SumOf(text, "d") = a
    BY <1>2, <1>5, <1>7
  <2>3. SumOf(text, "h") * UnitNanos["h"] + SumOf(text, "m") * UnitNanos["m"]
                  + SumOf(text, "s") * UnitNanos["s"] + SumOf(text, "ms") * UnitNanos["ms"]
                  + SumOf(text, "us") * UnitNanos["us"] + SumOf(text, "ns") = n
    BY <1>4, <1>5
  <2> QED
    BY <2>1, <2>2, <2>3, Zenon DEF ParseDurationStr
<1> QED
  BY <1>5, <1>6, <1>8, Zenon DEF text, m, a, n

LEMMA DurationsReadBack ==
  ASSUME NEW d, IsDuration(d)
  PROVE  DurationReadsBack(d, Gives(IF native THEN d ELSE DurationStr(d)))
<1>1. ASSUME NEW x PROVE Gives(x).v = x
  BY Zenon DEF Gives
<1>2. CASE native
  BY <1>1, <1>2, Zenon DEF DurationReadsBack
<1>3. CASE ~native
  <2> DEFINE m == Magnitude(d.months)
             a == Magnitude(d.days)
             n == Magnitude(d.nanos)
             again == ParseDurationStr(DurationStr(d))
             sign == IF Leading(d) < 0 THEN -1 ELSE 1
  <2>1. d.months \in Int /\ d.days \in Int /\ d.nanos \in Int /\ d = Duration(d.months, d.days, d.nanos)
    BY DEF IsDuration, Duration
  <2>2. Parts(d) = {0} <=> m = 0 /\ a = 0 /\ n = 0
    <3>1. Parts(d) = {0} <=> d.months = 0 /\ d.days = 0 /\ d.nanos = 0
      BY Zenon DEF Parts
    <3> QED
      BY <2>1, <3>1, Magnitudes
  <2>3. again = IF Parts(d) = {0} THEN Raised
                ELSE Gives(IF Leading(d) < 0 THEN Duration(-m, -a, -n) ELSE Duration(m, a, n))
    BY <2>2, ParsesMagnitudes, Zenon
  <2>4. Leading(d) \in Int /\ Leading(d) \in Parts(d) /\ (Leading(d) = 0 => Parts(d) = {0})
    BY <2>1, SMT DEF Leading, Parts
  <2>5. Parts(d) # {0} => again = Gives(Duration(sign * m, sign * a, sign * n))
    BY <2>1, <2>3, Magnitudes
  <2>6. ASSUME Parts(d) # {0}, (\A x \in Parts(d) : x >= 0) \/ (\A x \in Parts(d) : x <= 0)
        PROVE  again = Gives(d)
    <3>1. CASE Leading(d) < 0
      <4>1. \A x \in Parts(d) : x <= 0
        BY <2>4, <2>6, <3>1
      <4>2. -m = d.months /\ -a = d.days /\ -n = d.nanos
        BY <2>1, <4>1, Magnitudes DEF Parts
      <4> QED
        BY <2>1, <2>3, <2>6, <3>1, <4>2, Zenon
    <3>2. CASE ~(Leading(d) < 0)
      <4>1. \A x \in Parts(d) : x >= 0
        BY <2>4, <2>6, <3>2
      <4>2. m = d.months /\ a = d.days /\ n = d.nanos
        BY <2>1, <4>1, Magnitudes DEF Parts
      <4> QED
        BY <2>1, <2>3, <2>6, <3>2, <4>2, Zenon
    <3> QED
      BY <3>1, <3>2
  <2> QED
    BY <1>1, <1>3, <2>3, <2>5, <2>6, Zenon DEF DurationReadsBack
<1> QED
  BY <1>2, <1>3

--------------------------------------------------------------------------------
(* Timestamps: what is lost in floats.                                             *)

(* Both ways of a multiplication by a positive number.                             *)
LEMMA Times ==
  ASSUME NEW a \in Int, NEW b \in Int, NEW c \in Int, c > 0
  PROVE  (a < b <=> a * c < b * c) /\ (a <= b <=> a * c <= b * c) /\ (a = b <=> a * c = b * c)
BY SMT

LEMMA RoundHalf ==
  ASSUME NEW a \in Int, NEW b \in Nat \ {0}
  PROVE  LET k == RoundHalfEven(a, b)
         IN  /\ k \in Int /\ (a >= 0 => k >= 0)
             /\ -b <= 2 * (k * b - a) /\ 2 * (k * b - a) <= b
<1> DEFINE q == a \div b
           r == a % b
           k == RoundHalfEven(a, b)
<1>1. q \in Int /\ r \in Int /\ 0 <= r /\ r < b /\ a = q * b + r
  BY Remainder
<1>2. k = IF 2 * r > b \/ (2 * r = b /\ q % 2 = 1) THEN q + 1 ELSE q
  BY DEF RoundHalfEven
<1>3. a >= 0 => q >= 0
  BY SMT
<1> HIDE DEF q, r, k
<1>4. CASE k = q
  <2>1. k * b - a = -r /\ 2 * r <= b
    BY <1>1, <1>2, <1>4, SMT
  <2> QED
    BY <1>1, <1>3, <1>4, <2>1, SMT DEF k
<1>5. CASE k = q + 1 /\ k # q
  <2>1. (q + 1) * b = q * b + b
    BY <1>1, SMT
  <2>2. q * b \in Int
    BY <1>1, SMT
  <2>3. k * b - a = b - r /\ 2 * r >= b
    BY <1>1, <1>2, <1>5, <2>1, <2>2, SMT
  <2> QED
    BY <1>1, <1>3, <1>5, <2>3, SMT DEF k
<1> QED
  BY <1>2, <1>4, <1>5

LEMMA RoundExact ==
  ASSUME NEW c \in Int, NEW b \in Nat \ {0}
  PROVE  RoundHalfEven(c * b, b) = c
<1>1. 0 \in 0..b-1
  BY SMT
<1>2. (c * b + 0) \div b = c /\ (c * b + 0) % b = 0
  BY <1>1, Divided
<1>3. c * b + 0 = c * b
  BY SMT
<1> QED
  BY <1>2, <1>3, SMT DEF RoundHalfEven

LEMMA Floats ==
  /\ MillisPerSecond \in Nat \ {0} /\ MicrosPerMilli \in Nat \ {0} /\ MicrosPerSecond \in Nat \ {0}
  /\ Mantissa \in Nat \ {0} /\ Fraction \in Nat \ {0}
  /\ MicrosPerSecond = MillisPerSecond * MicrosPerMilli
  /\ \A u \in Ulps : u \in Nat \ {0}
  /\ \A u \in Ulps : u # 1 => u = 2 * (u \div 2) /\ u \div 2 \in Ulps /\ u \div 2 < u
  /\ 1 \in Ulps /\ Fraction \in Ulps
<1>1. MillisPerSecond \in Nat \ {0} /\ MicrosPerMilli \in Nat \ {0} /\ MicrosPerSecond \in Nat \ {0}
  BY Units
<1>2. Mantissa \in Nat \ {0} /\ Fraction \in Nat \ {0}
  BY UnitsArePositive
<1>3. /\ Ulps \subseteq Nat \ {0} /\ 1 \in Ulps /\ Fraction \in Ulps
      /\ \A u \in Ulps \ {1} : u % 2 = 0 /\ u \div 2 \in Ulps
  BY FloatsAreBinary
<1>4. ASSUME NEW u \in Ulps, u # 1 PROVE u = 2 * (u \div 2) /\ u \div 2 \in Ulps /\ u \div 2 < u
  BY <1>3, <1>4, SMT
<1> QED
  BY <1>1, <1>2, <1>3, <1>4 DEF MicrosPerSecond

Below == {ss \in Nat \X Nat : ss[1] < ss[2]}
LEMMA BelowWF == IsWellFoundedOn(Below, Nat)
BY NatLessThanWellFounded, Zenon DEF OpToRel, Below
LEMMA Least ==
  ASSUME NEW T, T \subseteq Nat, T # {}
  PROVE  \E u \in T : \A w \in T : u <= w
<1>1. PICK u \in T : \A w \in T : ~(<<w, u>> \in Below)
  BY BelowWF, WFMin, Zenon
<1>2. ASSUME NEW w \in T PROVE u <= w
  <2>1. w \in Nat /\ u \in Nat
    OBVIOUS
  <2>2. w < u => <<w, u>> \in Below
    BY <2>1, Zenon DEF Below
  <2> QED
    BY <1>1, <2>1, <2>2
<1> QED
  BY <1>2

(* The spacing of floats near n/Fraction.                                          *)
IsUlp(n, u) == /\ u \in Ulps /\ n < u * Mantissa
               /\ u = 1 \/ n >= (u \div 2) * Mantissa

LEMMA UlpExists ==
  ASSUME NEW n \in Nat, n < Fraction * Mantissa
  PROVE  \E u \in Ulps : IsUlp(n, u)
<1> DEFINE T == {u \in Ulps : n < u * Mantissa}
<1>1. T \subseteq Nat /\ T # {}
  BY Floats
<1>3. PICK u \in T : \A w \in T : u <= w
  BY <1>1, Least
<1>4. u # 1 => u \div 2 \in Ulps /\ ~(u \div 2 \in T) /\ u \div 2 \in Nat
  BY <1>1, <1>3, Floats
<1>5. u # 1 => n >= (u \div 2) * Mantissa
  <2>1. u # 1 => ~(n < (u \div 2) * Mantissa)
    BY <1>4
  <2>2. u # 1 => (u \div 2) * Mantissa \in Int
    BY <1>4, Floats, SMT
  <2> QED
    BY <2>1, <2>2
<1> QED
  BY <1>5 DEF IsUlp

LEMMA RoundedAs ==
  ASSUME NEW a \in Int, NEW b \in Nat \ {0}, Magnitude(a) < b * (Fraction * Mantissa)
  PROVE  LET n == Magnitude(a)
         IN  /\ n \in Nat /\ n = (IF a < 0 THEN -a ELSE a) /\ n \div b \in Nat
             /\ \E u \in Ulps : /\ IsUlp(n \div b, u)
                                /\ Rounded(a, b) = IF a >= 0 THEN u * RoundHalfEven(n, b * u)
                                                   ELSE -(u * RoundHalfEven(n, b * u))
<1> DEFINE n == Magnitude(a)
<1>1. n \in Nat /\ n = (IF a < 0 THEN -a ELSE a)
  BY DEF Magnitude
<1> HIDE DEF n
<1>2. n \div b \in Int /\ n \div b >= 0 /\ n % b \in 0..b-1 /\ n = (n \div b) * b + (n % b)
  <2>1. n \in Int /\ n >= 0
    BY <1>1
  <2> QED
    BY <2>1, Remainder
<1> DEFINE q == n \div b
           top == Fraction * Mantissa
<1>3. q < top
  <2>1. top \in Int
    BY Floats
  <2> HIDE DEF q, top
  <2>2. q * b <= n /\ q \in Int
    <3>1. q * b \in Int
      BY <1>2, SMT DEF q
    <3> QED
      BY <1>1, <1>2, <3>1 DEF q
  <2>3. n < top * b
    <3>1. b * top = top * b
      BY <2>1, SMT
    <3> QED
      BY <3>1 DEF top, n
  <2>4. q * b < top * b
    <3>1. q * b \in Int /\ top * b \in Int
      BY <2>1, <2>2, SMT
    <3> QED
      BY <1>1, <2>2, <2>3, <3>1
  <2> QED
    BY <2>1, <2>2, <2>4, Times
<1>4. q \in Nat
  BY <1>2
<1> DEFINE w == CHOOSE u \in Ulps : IsUlp(q, u)
<1>5. w \in Ulps /\ IsUlp(q, w)
  <2> HIDE DEF q
  <2>1. \E u \in Ulps : IsUlp(q, u)
    BY <1>3, <1>4, UlpExists
  <2> QED
    BY <2>1
<1>6. Rounded(a, b) = IF a >= 0 THEN w * RoundHalfEven(n, b * w) ELSE -(w * RoundHalfEven(n, b * w))
  <2>1. w = CHOOSE u \in Ulps : /\ n \div b < u * Mantissa
                                /\ u = 1 \/ n \div b >= (u \div 2) * Mantissa
    <3>1. \A u \in Ulps : IsUlp(q, u) <=> /\ q < u * Mantissa
                                          /\ u = 1 \/ q >= (u \div 2) * Mantissa
      BY DEF IsUlp
    <3> QED
      BY <3>1, Zenon
  <2> QED
    <3> HIDE DEF w
    <3> QED
      BY <2>1 DEF Rounded, n
<1> HIDE DEF w
<1> QED
  BY <1>1, <1>4, <1>5, <1>6 DEF n

(* A rounded number is half of a spacing away from it, at most, and the spacing is *)
(* small beside the number.                                                        *)
Rounds(x, a, b, u) ==
  /\ x \in Int /\ u \in Ulps /\ u \in Nat \ {0}
  /\ -(b * u) <= 2 * (x * b - a) /\ 2 * (x * b - a) <= b * u
  /\ u = 1 \/ b * (u * Mantissa) <= 2 * Magnitude(a)

LEMMA Rounding ==
  ASSUME NEW a \in Int, NEW b \in Nat \ {0}, Magnitude(a) < b * (Fraction * Mantissa)
  PROVE  \E u \in Ulps : Rounds(Rounded(a, b), a, b, u)
<1> DEFINE n == Magnitude(a)
<1>1. n \in Nat /\ n = (IF a < 0 THEN -a ELSE a) /\ n \div b \in Nat
  BY RoundedAs
<1>2. PICK u \in Ulps : /\ IsUlp(n \div b, u)
                        /\ Rounded(a, b) = IF a >= 0 THEN u * RoundHalfEven(n, b * u)
                                           ELSE -(u * RoundHalfEven(n, b * u))
  BY RoundedAs
<1> DEFINE k == RoundHalfEven(n, b * u)
           x == Rounded(a, b)
<1> HIDE DEF n
<1>3. u \in Nat \ {0} /\ Mantissa \in Nat \ {0} /\ b * u \in Nat \ {0}
  <2>1. u \in Nat \ {0} /\ Mantissa \in Nat \ {0}
    BY Floats
  <2> QED
    BY <2>1, SMT
<1>4. k \in Int /\ -(b * u) <= 2 * (k * (b * u) - n) /\ 2 * (k * (b * u) - n) <= b * u
  <2> DEFINE c == b * u
  <2>1. n \in Int /\ c \in Nat \ {0}
    BY <1>1, <1>3
  <2> HIDE DEF c
  <2>2. LET j == RoundHalfEven(n, c)
        IN  j \in Int /\ -c <= 2 * (j * c - n) /\ 2 * (j * c - n) <= c
    BY <2>1, RoundHalf
  <2> QED
    BY <2>2 DEF c
<1> HIDE DEF k
<1>5. u * k \in Int /\ (u * k) * b = k * (b * u) /\ (-(u * k)) * b = -(k * (b * u)) /\ k * (b * u) \in Int
  BY <1>3, <1>4, SMT
<1>6. x \in Int /\ -(b * u) <= 2 * (x * b - a) /\ 2 * (x * b - a) <= b * u
  <2>0. x = IF a >= 0 THEN u * k ELSE -(u * k)
    BY <1>2 DEF k
  <2> HIDE DEF x
  <2>1. CASE a >= 0
    <3>1. x = u * k /\ x * b = k * (b * u) /\ n = a
      BY <1>1, <1>5, <2>0, <2>1
    <3> QED
      BY <1>1, <1>3, <1>4, <1>5, <3>1
  <2>2. CASE a < 0
    <3>1. x = -(u * k) /\ x * b = -(k * (b * u)) /\ n = -a
      BY <1>1, <1>5, <2>0, <2>2
    <3> QED
      BY <1>1, <1>3, <1>4, <1>5, <3>1
  <2> QED
    BY <2>1, <2>2
<1>7. u # 1 => b * (u * Mantissa) <= 2 * n
  <2> SUFFICES ASSUME u # 1 PROVE b * (u * Mantissa) <= 2 * n
    OBVIOUS
  <2> DEFINE h == u \div 2
             q == n \div b
  <2>1. h \in Nat /\ u = 2 * h /\ q >= h * Mantissa
    BY <1>2, Floats DEF IsUlp
  <2>2. q \in Nat /\ n = q * b + (n % b) /\ n % b >= 0 /\ n % b \in Int
    BY <1>1, Remainder
  <2> HIDE DEF h, q
  <2>3. q * b \in Int /\ q * b <= n
    BY <1>1, <2>2, SMT
  <2>4. h * Mantissa \in Int /\ (h * Mantissa) * b <= q * b
    <3>1. h * Mantissa \in Int
      BY <1>3, <2>1, SMT
    <3> QED
      BY <2>1, <2>2, <3>1, Times
  <2>5. b * (u * Mantissa) = 2 * ((h * Mantissa) * b) /\ (h * Mantissa) * b \in Int
    BY <1>3, <2>1, SMT
  <2> QED
    BY <1>1, <2>3, <2>4, <2>5
<1> QED
  BY <1>3, <1>6, <1>7 DEF Rounds, n

(* Whole numbers are floats, up to the size of the mantissa.                       *)
LEMMA WholeFloats ==
  ASSUME NEW m \in Int, NEW b \in Nat \ {0}, Magnitude(m) < Mantissa
  PROVE  Rounded((m * Fraction) * b, b) = m * Fraction
<1>1. Fraction \in Nat \ {0} /\ Mantissa \in Nat \ {0}
  BY Floats
<1> DEFINE s == Magnitude(m)
           a == (m * Fraction) * b
           n == Magnitude(a)
<1>2. s \in Nat /\ s = (IF m < 0 THEN -m ELSE m) /\ s < Mantissa
  BY DEF Magnitude
<1> HIDE DEF s
<1>3. a \in Int /\ n = (s * Fraction) * b /\ (a >= 0 <=> m >= 0) /\ s * Fraction \in Nat
  <2>1. a \in Int /\ s * Fraction \in Nat
    BY <1>1, <1>2, SMT
  <2>2. a >= 0 <=> m >= 0
    <3>1. m * Fraction \in Int /\ 0 * Fraction = 0 /\ 0 * b = 0
      BY <1>1, SMT
    <3>2. 0 <= m <=> 0 * Fraction <= m * Fraction
      BY <1>1, Times
    <3>3. 0 <= m * Fraction <=> 0 * b <= a
      BY <3>1, Times
    <3> QED
      BY <2>1, <3>1, <3>2, <3>3
  <2>3. CASE m >= 0
    BY <1>2, <2>1, <2>2, <2>3 DEF Magnitude
  <2>4. CASE m < 0
    <3>1. (s * Fraction) * b = -a
      BY <1>1, <1>2, <2>4, SMT
    <3> QED
      BY <2>1, <2>2, <2>4, <3>1 DEF Magnitude
  <2> QED
    BY <2>1, <2>2, <2>3, <2>4
<1> DEFINE c == s * Fraction
<1>4. c \in Nat /\ c < Fraction * Mantissa
  <2>1. s * Fraction < Mantissa * Fraction
    BY <1>1, <1>2, Times
  <2>2. Mantissa * Fraction = Fraction * Mantissa
    BY <1>1, SMT
  <2> QED
    BY <1>3, <2>1, <2>2
<1>5. n < b * (Fraction * Mantissa)
  <2>1. Fraction * Mantissa \in Int
    BY <1>1, SMT
  <2>2. c * b < (Fraction * Mantissa) * b
    <3> HIDE DEF c
    <3> QED
      BY <1>4, <2>1, Times
  <2>3. (Fraction * Mantissa) * b = b * (Fraction * Mantissa)
    BY <1>1, SMT
  <2> QED
    BY <1>3, <2>2, <2>3
<1>6. PICK u \in Ulps : /\ IsUlp(n \div b, u)
                        /\ Rounded(a, b) = IF a >= 0 THEN u * RoundHalfEven(n, b * u)
                                           ELSE -(u * RoundHalfEven(n, b * u))
  <2> HIDE DEF a
  <2> QED
    BY <1>3, <1>5, RoundedAs
<1>7. n \div b = c
  <2>1. 0 \in 0..b-1
    OBVIOUS
  <2>2. (c * b + 0) \div b = c
    <3> HIDE DEF c
    <3> QED
      BY <1>4, <2>1, Divided
  <2>3. c * b + 0 = n
    BY <1>3, <1>4, SMT
  <2> QED
    BY <2>2, <2>3
<1>8. u \in Nat \ {0}
  BY Floats
<1> HIDE DEF a, n
<1>9. PICK d \in Nat : Fraction = d * u
  <2>1. u <= Fraction
    <3>1. CASE u = 1
      BY <1>1, <3>1
    <3>2. CASE u # 1
      <4> DEFINE h == u \div 2
      <4>1. h \in Ulps /\ h \in Nat \ {0} /\ u = 2 * h /\ c >= h * Mantissa
        BY <1>6, <1>7, <3>2, Floats DEF IsUlp
      <4> HIDE DEF h, c
      <4>2. h * Mantissa < Fraction * Mantissa
        BY <1>1, <1>4, <4>1, SMT
      <4>3. h < Fraction
        BY <1>1, <4>1, <4>2, Times
      <4>4. Fraction % h = 0
        BY <4>1, <4>3, Floats, FloatsAreBinary
      <4>5. Fraction = (Fraction \div h) * h /\ Fraction \div h \in Int
        BY <1>1, <4>1, <4>4, Remainder
      <4> DEFINE e == Fraction \div h
      <4>6. e > 1
        <5>1. e \in Int /\ Fraction = e * h
          BY <4>5
        <5> HIDE DEF e
        <5>2. 1 * h < e * h
          BY <1>1, <4>1, <4>3, <5>1
        <5> QED
          BY <4>1, <5>1, <5>2, Times
      <4>7. 2 * h <= e * h
        <5>1. e \in Int /\ 2 <= e
          BY <4>5, <4>6
        <5> HIDE DEF e
        <5> QED
          BY <4>1, <5>1, Times
      <4> QED
        BY <4>1, <4>5, <4>7
    <3> QED
      BY <3>1, <3>2
  <2>2. Fraction % u = 0
    BY <2>1, Floats, FloatsAreBinary
  <2>3. Fraction = (Fraction \div u) * u /\ Fraction \div u \in Nat
    <3>1. Fraction \in Int /\ Fraction >= 0
      BY <1>1
    <3>2. /\ Fraction = (Fraction \div u) * u + (Fraction % u) /\ Fraction \div u \in Int
          /\ Fraction \div u >= 0
      BY <1>8, <3>1, Remainder
    <3>3. (Fraction \div u) * u \in Int
      BY <1>8, <3>2, SMT
    <3> QED
      BY <2>2, <3>2, <3>3
  <2> QED
    BY <2>3
<1>10. n = (s * d) * (b * u) /\ s * d \in Int /\ b * u \in Nat \ {0} /\ u * (s * d) = s * Fraction
  BY <1>2, <1>3, <1>8, <1>9, SMT
<1>11. RoundHalfEven(n, b * u) = s * d
  BY <1>10, RoundExact
<1>12. Rounded(a, b) = IF m >= 0 THEN s * Fraction ELSE -(s * Fraction)
  BY <1>3, <1>6, <1>10, <1>11
<1>13. (m >= 0 => s * Fraction = m * Fraction) /\ (m < 0 => -(s * Fraction) = m * Fraction)
  BY <1>1, <1>2, SMT
<1> QED
  BY <1>12, <1>13 DEF a

(* Names for the constants, so that products of them stay products of numbers.     *)
LEMMA Fine ==
  /\ MillisPerSecond \in Int /\ MillisPerSecond > 1 /\ MicrosPerMilli \in Int /\ MicrosPerMilli > 1
  /\ Mantissa \in Int /\ Fraction \in Int /\ Mantissa > 0 /\ MillisPerSecond < Fraction /\ Fraction > 1
  /\ MicrosPerSecond \in Int /\ 4 * MicrosPerSecond <= Mantissa
  /\ 2 * MicrosPerMilli <= MicrosPerSecond /\ 2 * MillisPerSecond <= MicrosPerSecond
  /\ Mantissa <= Fraction
  /\ MillisPerSecond * Mantissa \in Int /\ MillisPerSecond * Mantissa <= 2 * Fraction
<1> DEFINE k == MillisPerSecond
           u == MicrosPerMilli
           s == MicrosPerSecond
           m == Mantissa
<1>1. /\ k \in Int /\ u \in Int /\ s \in Int /\ m \in Int /\ Fraction \in Int /\ m > 0 /\ s = k * u
      /\ Fraction > 0
  BY Floats
<1>2. k > 1 /\ u > 1 /\ 4 * s <= m /\ k * m <= 2 * Fraction
  BY FloatsAreFine
<1> HIDE DEF k, u, s, m
<1>3. 2 * u <= s /\ 2 * k <= s
  <2>1. k * u = u * k
    BY <1>1, SMT
  <2> QED
    BY <1>1, <1>2, <2>1, Times
<1>4. k * m \in Int /\ 2 * m <= k * m
  BY <1>1, <1>2, Times
<1>5. k < m
  BY <1>1, <1>2, <1>3
<1>6. k < Fraction /\ m <= Fraction /\ Fraction > 1
  BY <1>1, <1>2, <1>4, <1>5
<1> QED
  BY <1>1, <1>2, <1>3, <1>4, <1>6 DEF k, u, s, m

LEMMA Sizes ==
  ASSUME NEW n \in Int
  PROVE  /\ Magnitude(n) \in Int /\ Magnitude(n) >= 0 /\ Magnitude(n) = (IF n < 0 THEN -n ELSE n)
         /\ \A c \in Nat : n * c \in Int /\ Magnitude(n * c) = Magnitude(n) * c
<1>1. Magnitude(n) \in Int /\ Magnitude(n) >= 0 /\ Magnitude(n) = (IF n < 0 THEN -n ELSE n)
  BY DEF Magnitude
<1>2. ASSUME NEW c \in Nat PROVE n * c \in Int /\ Magnitude(n * c) = Magnitude(n) * c
  <2>1. n * c \in Int /\ (n < 0 => n * c <= 0 /\ (-n) * c = -(n * c)) /\ (n >= 0 => n * c >= 0)
    BY SMT
  <2>2. CASE n < 0
    <3>1. Magnitude(n * c) = -(n * c)
      BY <2>1, <2>2 DEF Magnitude
    <3> QED
      BY <1>1, <2>1, <2>2, <3>1
  <2>3. CASE n >= 0
    BY <1>1, <2>1, <2>3 DEF Magnitude
  <2> QED
    BY <2>1, <2>2, <2>3
<1> QED
  BY <1>1, <1>2

(* Seconds of milliseconds, as a float: they are less than a part of a millisecond *)
(* away.                                                                           *)
LEMMA FloatSeconds ==
  ASSUME NEW n \in Int, Magnitude(n) < Mantissa, NEW x,
         \/ x = Rounded((n * MicrosPerMilli) * Fraction, MicrosPerSecond)
         \/ x = Rounded(n * Fraction, MillisPerSecond)
  PROVE  /\ x \in Int
         /\ \E u \in Nat \ {0} :
              /\ -(MillisPerSecond * u) <= 2 * (x * MillisPerSecond - n * Fraction)
              /\ 2 * (x * MillisPerSecond - n * Fraction) <= MillisPerSecond * u
              /\ u = 1 \/ MillisPerSecond * (u * Mantissa) <= 2 * (Magnitude(n) * Fraction)
<1> DEFINE K == MillisPerSecond
           U == MicrosPerMilli
           S == MicrosPerSecond
           F == Fraction
           M == Mantissa
           s == Magnitude(n)
<1>1. /\ K \in Nat \ {0} /\ U \in Nat \ {0} /\ S \in Nat \ {0} /\ F \in Nat \ {0} /\ M \in Nat \ {0}
      /\ S = K * U
  BY Floats
<1>2. s \in Nat /\ s < M
  BY Sizes
<1>3. Magnitude(n * F) = s * F /\ Magnitude((n * U) * F) = (s * U) * F /\ n * F \in Int /\ (n * U) * F \in Int
  <2>1. n * U \in Int /\ Magnitude(n * U) = s * U /\ n * F \in Int /\ Magnitude(n * F) = s * F
    BY <1>1, Sizes
  <2> QED
    BY <1>1, <2>1, Sizes
<1> HIDE DEF K, U, S, F, M, s
<1>4. s * F \in Int /\ s * F < F * M /\ F * M \in Int /\ s * F >= 0
  <2>1. s * F < M * F
    BY <1>1, <1>2, Times
  <2> QED
    BY <1>1, <1>2, <2>1, SMT
<1>5. CASE x = Rounded(n * F, K)
  <2>1. s * F < K * (F * M)
    <3>1. 1 * (F * M) <= K * (F * M)
      <4>1. F * M > 0
        BY <1>4
      <4> QED
        BY <1>1, <1>4, <4>1, Times
    <3>2. K * (F * M) \in Int
      BY <1>1, <1>4, SMT
    <3> QED
      BY <1>4, <3>1, <3>2
  <2>2. PICK u \in Ulps : Rounds(x, n * F, K, u)
    <3>1. Magnitude(n * F) < K * (F * M)
      BY <1>3, <2>1
    <3> QED
      BY <1>1, <1>3, <1>5, <3>1, Rounding DEF F, M
  <2> QED
    BY <1>3, <2>2 DEF Rounds, K, F, M, s
<1>6. CASE x = Rounded((n * U) * F, S)
  <2>1. (s * U) * F < S * (F * M)
    <3>1. (s * U) * F = (s * F) * U /\ (F * M) * S = S * (F * M) /\ (F * M) * U \in Int
      BY <1>1, <1>2, <1>4, SMT
    <3>2. (s * F) * U < (F * M) * U
      BY <1>1, <1>4, Times
    <3>3. (F * M) * S = K * ((F * M) * U)
      BY <1>1, <1>4, SMT
    <3>4. 1 * ((F * M) * U) <= K * ((F * M) * U)
      <4>1. (F * M) * U > 0
        BY <1>1, <1>4, SMT
      <4> QED
        BY <1>1, <3>1, <4>1, Times
    <3>5. (s * F) * U \in Int /\ K * ((F * M) * U) \in Int
      BY <1>1, <1>4, <3>1, SMT
    <3> QED
      BY <3>1, <3>2, <3>3, <3>4, <3>5
  <2>2. PICK u \in Ulps : Rounds(x, (n * U) * F, S, u)
    <3>1. Magnitude((n * U) * F) < S * (F * M)
      BY <1>3, <2>1
    <3> QED
      BY <1>1, <1>3, <1>6, <3>1, Rounding DEF F, M
  <2>3. /\ x \in Int /\ u \in Nat \ {0}
        /\ -(S * u) <= 2 * (x * S - (n * U) * F) /\ 2 * (x * S - (n * U) * F) <= S * u
        /\ u = 1 \/ S * (u * M) <= 2 * ((s * U) * F)
    BY <1>3, <2>2 DEF Rounds, M
  <2> DEFINE e == x * K - n * F
  <2>4. e \in Int /\ K * u \in Int /\ K * (u * M) \in Int
    BY <1>1, <2>3, SMT
  <2>5. /\ x * S - (n * U) * F = e * U /\ S * u = (K * u) * U
        /\ S * (u * M) = (K * (u * M)) * U /\ (s * U) * F = (s * F) * U
    BY <1>1, <1>2, <1>4, <2>3, SMT
  <2> HIDE DEF e
  <2>6. -(K * u) <= 2 * e /\ 2 * e <= K * u
    <3>1. (-(K * u)) * U = -((K * u) * U) /\ (2 * e) * U = 2 * (e * U) /\ e * U \in Int
      BY <1>1, <2>4, SMT
    <3>2. (-(K * u)) * U <= (2 * e) * U /\ (2 * e) * U <= (K * u) * U
      BY <2>3, <2>5, <3>1
    <3>3. -(K * u) \in Int /\ 2 * e \in Int
      BY <2>4
    <3> QED
      BY <1>1, <2>4, <3>2, <3>3, Times
  <2>7. u = 1 \/ K * (u * M) <= 2 * (s * F)
    <3>1. (2 * (s * F)) * U = 2 * ((s * F) * U) /\ 2 * (s * F) \in Int
      BY <1>1, <1>4, SMT
    <3>2. u # 1 => (K * (u * M)) * U <= (2 * (s * F)) * U
      BY <2>3, <2>5, <3>1
    <3> QED
      BY <1>1, <2>4, <3>1, <3>2, Times
  <2> QED
    BY <2>3, <2>6, <2>7 DEF e, K, F, M, s
<1> QED
  BY <1>5, <1>6 DEF K, U, S, F

(* A number that is less than one away from n rounds down to n or to n - 1.        *)
LEMMA RoundsDown ==
  ASSUME NEW n \in Int, NEW b \in Nat \ {0}, NEW y \in Int, -b < y - n * b, y - n * b < b
  PROVE  y \div b \in {n, n - 1}
<1>1. n * b \in Int /\ (n - 1) * b = n * b - b
  BY SMT
<1>2. CASE y >= n * b
  <2>1. y - n * b \in 0..b-1 /\ n * b + (y - n * b) = y
    BY <1>1, <1>2
  <2> DEFINE r == y - n * b
  <2>2. (n * b + r) \div b = n
    <3>1. r \in 0..b-1
      BY <2>1
    <3> HIDE DEF r
    <3> QED
      BY <3>1, Divided
  <2> QED
    BY <2>1, <2>2
<1>3. CASE y < n * b
  <2> DEFINE r == y - n * b + b
  <2>1. r \in 0..b-1 /\ (n - 1) * b + r = y
    BY <1>1, <1>3
  <2>2. ((n - 1) * b + r) \div b = n - 1
    <3> HIDE DEF r
    <3> QED
      BY <2>1, Divided
  <2> QED
    BY <2>1, <2>2
<1> QED
  BY <1>1, <1>2, <1>3

(* The milliseconds that are stored for a datetime of n milliseconds.              *)
Stored(n) ==
  Rounded(Rounded((n * MicrosPerMilli) * Fraction, MicrosPerSecond) * MillisPerSecond, 1) \div Fraction

LEMMA StoredMillis ==
  ASSUME NEW n \in Int, Near(n)
  PROVE  Stored(n) \in {n, n - 1} /\ (n % MillisPerSecond = 0 => Stored(n) = n)
<1> DEFINE K == MillisPerSecond
           U == MicrosPerMilli
           S == MicrosPerSecond
           F == Fraction
           M == Mantissa
           s == Magnitude(n)
           x == Rounded((n * U) * F, S)
           y == Rounded(x * K, 1)
<1>1. /\ K \in Nat \ {0} /\ U \in Nat \ {0} /\ S \in Nat \ {0} /\ F \in Nat \ {0} /\ M \in Nat \ {0}
      /\ S = K * U
  BY Floats
<1>2. s \in Nat /\ 2 * (s + 1) < M /\ s < M
  BY <1>1, Sizes DEF Near
<1>3. K < F /\ F > 1
  BY Fine
<1>4. x \in Int /\ \E u \in Nat \ {0} : /\ -(K * u) <= 2 * (x * K - n * F) /\ 2 * (x * K - n * F) <= K * u
                                        /\ u = 1 \/ K * (u * M) <= 2 * (s * F)
  BY <1>2, FloatSeconds
<1> HIDE DEF K, U, S, F, M, s
<1>5. PICK u \in Nat \ {0} : /\ -(K * u) <= 2 * (x * K - n * F) /\ 2 * (x * K - n * F) <= K * u
                             /\ u = 1 \/ K * (u * M) <= 2 * (s * F)
  BY <1>4
<1> DEFINE e == x * K
           g == n * F
<1>6. e \in Int /\ g \in Int /\ Magnitude(g) = s * F /\ s * F \in Int /\ (2 * (s + 1)) * F = 2 * (s * F) + 2 * F
  <2>1. g \in Int /\ Magnitude(g) = s * F
    BY <1>1, Sizes DEF s
  <2> QED
    BY <1>1, <1>2, <1>4, <2>1, SMT
<1>7. M * F \in Int /\ 2 * (s * F) + 2 * F < M * F
  BY <1>1, <1>2, <1>6, Times
<1>8. K * u \in Int /\ K * u < F
  <2>1. CASE u = 1
    BY <1>1, <1>3, <2>1
  <2>2. CASE u # 1
    <3>1. K * (u * M) = (K * u) * M /\ M * F = F * M /\ K * u \in Int /\ F * M \in Int
      BY <1>1, SMT
    <3>2. (K * u) * M < F * M
      BY <1>1, <1>5, <1>6, <1>7, <2>2, <3>1
    <3> QED
      BY <1>1, <3>1, <3>2, Times
  <2> QED
    BY <2>1, <2>2
<1> HIDE DEF x
<1>9. -F < 2 * (e - g) /\ 2 * (e - g) < F
  BY <1>1, <1>5, <1>6, <1>8
<1>10. Magnitude(e) \in Int /\ 2 * Magnitude(e) < 2 * (s * F) + F
  <2>1. Magnitude(e) = (IF e < 0 THEN -e ELSE e) /\ Magnitude(g) = (IF g < 0 THEN -g ELSE g)
    BY DEF Magnitude
  <2> HIDE DEF e, g
  <2> QED
    BY <1>1, <1>6, <1>9, <2>1
<1>11. PICK w \in Ulps : Rounds(y, e, 1, w)
  <2>1. Magnitude(e) < 1 * (F * M)
    <3>1. M * F = F * M /\ 1 * (F * M) = F * M
      BY <1>1, SMT
    <3> QED
      BY <1>1, <1>6, <1>7, <1>10, <3>1
  <2> HIDE DEF e
  <2>2. \E w \in Ulps : Rounds(Rounded(e, 1), e, 1, w)
    BY <1>6, <2>1, Rounding DEF F, M
  <2> QED
    BY <2>2 DEF e
<1> HIDE DEF y
<1>12. y \in Int /\ w \in Nat \ {0} /\ -w <= 2 * (y - e) /\ 2 * (y - e) <= w /\ (w = 1 \/ w * M <= 2 * Magnitude(e))
  <2> HIDE DEF e
  <2>1. /\ y \in Int /\ w \in Nat \ {0} /\ -(1 * w) <= 2 * (y * 1 - e) /\ 2 * (y * 1 - e) <= 1 * w
        /\ w = 1 \/ 1 * (w * M) <= 2 * Magnitude(e)
    BY <1>11 DEF Rounds, M
  <2>2. w * M \in Int
    BY <1>1, <2>1, SMT
  <2> QED
    BY <1>6, <2>1, <2>2
<1>13. w < F
  <2>1. CASE w = 1
    BY <1>3, <2>1
  <2>2. CASE w # 1
    <3>1. w * M \in Int /\ F * M \in Int /\ F * M = M * F
      BY <1>1, <1>12, SMT
    <3>2. w * M < F * M
      BY <1>1, <1>6, <1>7, <1>10, <1>12, <2>2, <3>1
    <3> QED
      BY <1>1, <1>12, <3>2, Times
  <2> QED
    BY <2>1, <2>2
<1>14. y \div F \in {n, n - 1}
  <2>1. -F < y - n * F /\ y - n * F < F
    <3> HIDE DEF e
    <3>1. -F < y - g /\ y - g < F
      <4> HIDE DEF g
      <4> QED
        BY <1>1, <1>6, <1>9, <1>12, <1>13
    <3> QED
      BY <3>1
  <2> QED
    BY <1>1, <1>12, <2>1, RoundsDown
<1>15. ASSUME n % K = 0 PROVE y \div F = n
  <2> DEFINE m == n \div K
  <2>1. m \in Int /\ n = m * K
    <3>1. m \in Int /\ n = m * K + (n % K)
      BY <1>1, Remainder
    <3>2. m * K \in Int
      BY <1>1, <3>1, SMT
    <3> QED
      BY <1>15, <3>1, <3>2
  <2> HIDE DEF m
  <2>2. Magnitude(m) < M
    <3>1. Magnitude(m) \in Int /\ Magnitude(m) >= 0 /\ s = Magnitude(m) * K
      BY <1>1, <2>1, Sizes DEF s
    <3>2. Magnitude(m) <= s
      <4> DEFINE c == Magnitude(m)
      <4>1. c \in Int /\ c >= 0 /\ s = c * K
        BY <3>1
      <4> HIDE DEF c
      <4>2. c <= s
        BY <1>1, <4>1, SMT
      <4> QED
        BY <4>2 DEF c
    <3> QED
      BY <1>1, <1>2, <3>1, <3>2
  <2>3. x = m * F
    <3>1. (n * U) * F = (m * F) * S
      BY <1>1, <2>1, SMT
    <3>2. Rounded((m * F) * S, S) = m * F
      BY <1>1, <2>1, <2>2, WholeFloats DEF F, M
    <3> QED
      BY <3>1, <3>2 DEF x
  <2>4. y = n * F
    <3>1. e = (n * F) * 1
      BY <1>1, <2>1, <2>3, SMT
    <3>2. Rounded((n * F) * 1, 1) = n * F
      <4>1. Magnitude(n) < M
        BY <1>2 DEF s
      <4> QED
        BY <4>1, WholeFloats DEF F, M
    <3> QED
      BY <3>1, <3>2 DEF y
  <2>5. 0 \in 0..F-1 /\ n * F + 0 = n * F
    BY <1>1, SMT
  <2> QED
    BY <1>1, <2>4, <2>5, Divided
<1> QED
  BY <1>14, <1>15 DEF Stored, y, x, K, U, S, F

(* The microseconds that datetime.fromtimestamp makes of a float.                  *)
ReadMicros(x) ==
  Quotient(x, Fraction) * MicrosPerSecond
    + RoundHalfEven(Rounded((x - Quotient(x, Fraction) * Fraction) * MicrosPerSecond, 1), Fraction)

LEMMA Split ==
  ASSUME NEW x \in Int, NEW b \in Nat \ {0}
  PROVE  /\ Quotient(x, b) \in Int
         /\ -b < x - Quotient(x, b) * b /\ x - Quotient(x, b) * b < b
<1>1. CASE x >= 0
  <2>1. Quotient(x, b) = x \div b
    BY <1>1 DEF Quotient
  <2>2. x = (x \div b) * b + (x % b) /\ x \div b \in Int /\ x % b \in 0..b-1
    BY Remainder
  <2>3. (x \div b) * b \in Int
    BY <2>2, SMT
  <2> QED
    BY <2>1, <2>2, <2>3
<1>2. CASE x < 0
  <2> DEFINE q == (-x) \div b
  <2>1. Quotient(x, b) = -q
    BY <1>2 DEF Quotient
  <2>2. -x = q * b + ((-x) % b) /\ q \in Int /\ (-x) % b \in 0..b-1
    <3>1. -x \in Int
      OBVIOUS
    <3> QED
      BY <3>1, Remainder
  <2> HIDE DEF q
  <2>3. q * b \in Int /\ (-q) * b = -(q * b)
    BY <2>2, SMT
  <2> QED
    BY <2>1, <2>2, <2>3
<1> QED
  BY <1>1, <1>2

(* What is made of a float of n milliseconds: it is less than a millisecond away,  *)
(* and it is the same for whole seconds and where floats are closer.               *)
LEMMA MicrosRead ==
  ASSUME NEW n \in Int, 2 * Magnitude(n) < Mantissa
  PROVE  LET x == Rounded(n * Fraction, MillisPerSecond)
             d == ReadMicros(x) - n * MicrosPerMilli
         IN  /\ ReadMicros(x) \in Int /\ -MicrosPerMilli < d /\ d < MicrosPerMilli
             /\ n % MillisPerSecond = 0 => d = 0
             /\ 2 * (Magnitude(n) * MicrosPerMilli + MicrosPerSecond) < Mantissa => d = 0
<1> DEFINE K == MillisPerSecond
           U == MicrosPerMilli
           S == MicrosPerSecond
           F == Fraction
           M == Mantissa
           s == Magnitude(n)
           x == Rounded(n * F, K)
           q == Quotient(x, F)
           g == x - q * F
           p == Rounded(g * S, 1)
           k == RoundHalfEven(p, F)
<1>1. /\ K \in Nat \ {0} /\ U \in Nat \ {0} /\ S \in Nat \ {0} /\ F \in Nat \ {0} /\ M \in Nat \ {0}
      /\ S = K * U
  BY Floats
<1>2. s \in Nat /\ 2 * s < M /\ Magnitude(n) < M
  <2>1. s \in Int /\ s >= 0 /\ 2 * s < M
    BY Sizes
  <2> HIDE DEF s, M
  <2>2. s \in Nat /\ 2 * s < M /\ s < M
    BY <1>1, <2>1
  <2> QED
    BY <2>2 DEF s
<1>3. /\ K < F /\ F > 1 /\ U > 1 /\ K > 1 /\ 4 * S <= M /\ 2 * U <= S /\ M <= F /\ K * M \in Int /\ K * M <= 2 * F
  BY Fine
<1>4. x \in Int /\ \E u \in Nat \ {0} : /\ -(K * u) <= 2 * (x * K - n * F) /\ 2 * (x * K - n * F) <= K * u
                                        /\ u = 1 \/ K * (u * M) <= 2 * (s * F)
  <2>1. Magnitude(n) < Mantissa
    BY <1>2
  <2> QED
    BY <2>1, FloatSeconds
<1> HIDE DEF K, U, S, F, M, s
<1>5. PICK u \in Nat \ {0} : /\ -(K * u) <= 2 * (x * K - n * F) /\ 2 * (x * K - n * F) <= K * u
                             /\ u = 1 \/ K * (u * M) <= 2 * (s * F)
  BY <1>4
<1>6. q \in Int /\ -F < g /\ g < F
  <2> HIDE DEF x
  <2> QED
    BY <1>1, <1>4, Split
<1>7. q * F \in Int /\ g \in Int /\ x = q * F + g
  <2>1. q * F \in Int
    <3> HIDE DEF q
    <3> QED
      BY <1>1, <1>6, SMT
  <2> HIDE DEF x, q
  <2> QED
    BY <1>4, <2>1
<1> HIDE DEF x, q, g
<1>8. g * S \in Int /\ Magnitude(g * S) = Magnitude(g) * S /\ Magnitude(g) \in Nat /\ Magnitude(g) < F
  <2>1. Magnitude(g) \in Int /\ Magnitude(g) = (IF g < 0 THEN -g ELSE g)
    BY <1>7, Sizes
  <2>2. g * S \in Int /\ Magnitude(g * S) = Magnitude(g) * S
    BY <1>1, <1>7, Sizes
  <2>3. Magnitude(g) \in Nat /\ Magnitude(g) < F
    BY <1>1, <1>6, <1>7, <2>1
  <2> QED
    BY <2>2, <2>3
<1> DEFINE c == Magnitude(g) * S
<1>9. c \in Int /\ c >= 0 /\ F * S \in Int /\ c < F * S
  <2>1. F * S \in Int /\ c \in Int /\ c >= 0
    BY <1>1, <1>8, SMT
  <2> QED
    BY <1>1, <1>8, <2>1, Times
<1>10. F * M \in Int /\ 4 * (F * S) <= F * M
  <2>1. F * M \in Int /\ (4 * S) * F = 4 * (F * S) /\ M * F = F * M
    BY <1>1, SMT
  <2>2. (4 * S) * F <= M * F
    BY <1>1, <1>3, Times
  <2> QED
    BY <2>1, <2>2
<1>11. PICK w \in Ulps : Rounds(p, g * S, 1, w)
  <2>1. Magnitude(g * S) < 1 * (F * M)
    BY <1>8, <1>9, <1>10
  <2> QED
    BY <1>8, <2>1, Rounding DEF F, M
<1> HIDE DEF p
<1>12. p \in Int /\ w \in Nat \ {0} /\ -w <= 2 * (p - g * S) /\ 2 * (p - g * S) <= w /\ (w = 1 \/ w * M <= 2 * c)
  <2>1. /\ p \in Int /\ w \in Nat \ {0} /\ -(1 * w) <= 2 * (p * 1 - g * S) /\ 2 * (p * 1 - g * S) <= 1 * w
        /\ w = 1 \/ 1 * (w * M) <= 2 * c
    BY <1>8, <1>11 DEF Rounds, M
  <2>2. w * M \in Int
    BY <1>1, <2>1, SMT
  <2> QED
    BY <1>8, <2>1, <2>2
<1>13. k \in Int /\ k * F \in Int /\ -F <= 2 * (k * F - p) /\ 2 * (k * F - p) <= F
  <2>1. k \in Int /\ -F <= 2 * (k * F - p) /\ 2 * (k * F - p) <= F
    BY <1>1, <1>12, RoundHalf
  <2> HIDE DEF k
  <2> QED
    BY <1>1, <2>1, SMT
<1> HIDE DEF k
<1> DEFINE y == q * S + k
           d == y - n * U
<1>14. y \in Int /\ d \in Int /\ d * F = (k * F - p) + (p - g * S) + (x * S - (n * U) * F) /\ x * S - (n * U) * F = (x * K - n * F) * U
  <2>1. q * S \in Int /\ n * U \in Int /\ (q * S) * F = (q * F) * S /\ (n * U) * F = (n * F) * U /\ n * F \in Int
    BY <1>1, <1>6, SMT
  <2>2. y \in Int /\ d \in Int
    BY <1>13, <2>1
  <2>3. d * F = (q * S) * F + k * F - (n * U) * F
    BY <1>1, <1>13, <2>1, SMT
  <2>4. x * S = (q * F) * S + g * S /\ (x * K) * U = x * S /\ x * K \in Int
    BY <1>1, <1>4, <1>7, SMT
  <2>5. (x * K - n * F) * U = (x * K) * U - (n * F) * U
    BY <1>1, <2>1, <2>4, SMT
  <2>6. (n * U) * F \in Int /\ (q * F) * S \in Int /\ x * S \in Int
    BY <1>1, <1>4, <1>7, <2>1, SMT
  <2> HIDE DEF y, d
  <2> QED
    BY <1>8, <1>12, <1>13, <2>1, <2>2, <2>3, <2>4, <2>5, <2>6
<1>15. d * F \in Int /\ (K * u) * U \in Int
       /\ -((K * u) * U + w + F) <= 2 * (d * F) /\ 2 * (d * F) <= (K * u) * U + w + F
  <2> DEFINE e == x * K - n * F
             h == K * u
  <2>1. e \in Int /\ h \in Int /\ -h <= 2 * e /\ 2 * e <= h
    <3>1. x * K \in Int /\ n * F \in Int /\ h \in Int
      BY <1>1, <1>4, SMT
    <3> QED
      BY <1>5, <3>1
  <2> HIDE DEF e, h
  <2>2. (2 * e) * U = 2 * (e * U) /\ (-h) * U = -(h * U) /\ e * U \in Int /\ h * U \in Int
    BY <1>1, <2>1, SMT
  <2>3. (-h) * U <= (2 * e) * U /\ (2 * e) * U <= h * U
    <3>1. -h \in Int /\ 2 * e \in Int
      BY <2>1
    <3> QED
      BY <1>1, <2>1, <3>1, Times
  <2>4. d * F = (k * F - p) + (p - g * S) + e * U
    BY <1>14 DEF e
  <2> DEFINE t == d * F
  <2>5. t = (k * F - p) + (p - g * S) + e * U
    BY <2>4
  <2> HIDE DEF t
  <2>6. t \in Int /\ -(h * U + w + F) <= 2 * t /\ 2 * t <= h * U + w + F
    BY <1>1, <1>8, <1>12, <1>13, <2>2, <2>3, <2>5
  <2> QED
    BY <2>2, <2>6 DEF t, h
<1> HIDE DEF c, d
<1>16. w < F
  <2>1. CASE w = 1
    BY <1>3, <2>1
  <2>2. CASE w # 1
    <3>1. w * M \in Int /\ w * M < F * M
      BY <1>1, <1>9, <1>10, <1>12, <2>2, SMT
    <3> QED
      BY <1>1, <1>12, <3>1, Times
  <2> QED
    BY <2>1, <2>2
<1>17. K * u \in Int /\ K * u < F
  <2>1. CASE u = 1
    BY <1>1, <1>3, <2>1
  <2>2. CASE u # 1
    <3>1. K * (u * M) = (K * u) * M /\ K * u \in Int /\ F * M = M * F /\ s * F \in Int /\ (2 * s) * F = 2 * (s * F)
      BY <1>1, <1>2, SMT
    <3>2. (2 * s) * F < M * F
      BY <1>1, <1>2, Times
    <3>3. (K * u) * M < F * M
      BY <1>1, <1>5, <1>10, <2>2, <3>1, <3>2
    <3> QED
      BY <1>1, <3>1, <3>3, Times
  <2> QED
    BY <2>1, <2>2
<1>18. -U < d /\ d < U
  <2> DEFINE h == (K * u) * U
             t == d * F
  <2>1. h < F * U /\ F * U \in Int /\ F * U = U * F
    <3>1. F * U \in Int /\ F * U = U * F
      BY <1>1, SMT
    <3> QED
      BY <1>1, <1>17, <3>1, Times
  <2>2. 2 * F <= U * F
    BY <1>1, <1>3, Times
  <2>3. h \in Int /\ t \in Int /\ -(h + w + F) <= 2 * t /\ 2 * t <= h + w + F
    BY <1>15
  <2>4. (-U) * F = -(U * F)
    BY <1>1, SMT
  <2>5. (-U) * F < t /\ t < U * F
    <3> HIDE DEF h, t
    <3> QED
      BY <1>1, <1>12, <1>16, <2>1, <2>2, <2>3, <2>4
  <2>6. -U \in Int
    BY <1>1
  <2> QED
    BY <1>1, <1>14, <2>5, <2>6, Times
<1>19. ASSUME 2 * (s * U + S) < M PROVE d = 0
  <2> DEFINE b == IF u = 1 THEN 1 ELSE s
             h == (K * u) * U
  <2>1. b \in Nat /\ b * U \in Int /\ 2 * (b * U + S) < M
    <3>1. s * U \in Int /\ 1 * U = U
      BY <1>1, <1>2, SMT
    <3> QED
      BY <1>1, <1>2, <1>3, <1>19, <3>1
  <2>2. (K * u) * M <= 2 * (b * F) /\ b * F \in Int /\ (K * u) * M \in Int
    <3>1. K * (u * M) = (K * u) * M /\ (K * u) * M \in Int /\ s * F \in Int /\ 1 * F = F /\ K * 1 = K
      BY <1>1, <1>2, SMT
    <3> QED
      BY <1>1, <1>3, <1>5, <3>1
  <2> HIDE DEF b
  <2>3. w * M \in Int /\ w * M <= 2 * (F * S)
    <3>1. w * M \in Int /\ 1 * M = M
      BY <1>1, <1>12, SMT
    <3>2. F <= F * S
      BY <1>1, SMT
    <3> QED
      BY <1>1, <1>3, <1>9, <1>12, <3>1, <3>2
  <2>4. h * M \in Int /\ h * M <= 2 * ((b * U) * F) /\ (b * U) * F \in Int
    <3>1. ((K * u) * M) * U = h * M /\ (2 * (b * F)) * U = 2 * ((b * U) * F) /\ h * M \in Int /\ (b * U) * F \in Int
      BY <1>1, <2>1, SMT
    <3>2. ((K * u) * M) * U <= (2 * (b * F)) * U
      <4>1. 2 * (b * F) \in Int
        BY <2>2
      <4> QED
        BY <1>1, <2>2, <4>1, Times
    <3> QED
      BY <3>1, <3>2
  <2>5. (2 * (b * U + S)) * F < M * F /\ (2 * (b * U + S)) * F = 2 * ((b * U) * F) + 2 * (F * S) /\ M * F = F * M
    <3> DEFINE v == b * U
    <3>1. v \in Int /\ 2 * (v + S) \in Int /\ 2 * (v + S) < M
      BY <1>1, <2>1
    <3> HIDE DEF v
    <3>2. (2 * (v + S)) * F < M * F
      BY <1>1, <3>1, Times
    <3>3. (2 * (v + S)) * F = 2 * (v * F) + 2 * (F * S) /\ M * F = F * M
      BY <1>1, <3>1, SMT
    <3> QED
      BY <3>2, <3>3 DEF v
  <2>6. h \in Int /\ h + w < F
    <3>1. h \in Int
      BY <1>15
    <3> HIDE DEF h
    <3>2. (h + w) * M = h * M + w * M
      BY <1>1, <1>12, <3>1, SMT
    <3>3. (h + w) * M < F * M
      BY <1>9, <1>10, <2>3, <2>4, <2>5, <3>2
    <3>4. h + w \in Int
      BY <1>12, <3>1
    <3> QED
      BY <1>1, <3>1, <3>3, <3>4, Times
  <2>7. (-1) * F < d * F /\ d * F < 1 * F
    <3> DEFINE t == d * F
    <3>1. t \in Int /\ -(h + w + F) <= 2 * t /\ 2 * t <= h + w + F
      BY <1>15
    <3> HIDE DEF t, h
    <3>2. -F < t /\ t < F
      BY <1>1, <1>12, <2>6, <3>1
    <3> QED
      BY <1>1, <3>2 DEF t
  <2> QED
    BY <1>1, <1>14, <2>7, Times
<1>20. ASSUME n % K = 0 PROVE d = 0
  <2> DEFINE m == n \div K
  <2>1. m \in Int /\ n = m * K
    <3>1. m \in Int /\ n = m * K + (n % K)
      BY <1>1, Remainder
    <3>2. m * K \in Int
      BY <1>1, <3>1, SMT
    <3> QED
      BY <1>20, <3>1, <3>2
  <2> HIDE DEF m
  <2>2. Magnitude(m) < M
    <3>1. Magnitude(m) \in Int /\ Magnitude(m) >= 0 /\ s = Magnitude(m) * K
      BY <1>1, <2>1, Sizes DEF s
    <3>2. Magnitude(m) <= s
      <4> DEFINE j == Magnitude(m)
      <4>1. j \in Int /\ j >= 0 /\ s = j * K
        BY <3>1
      <4> HIDE DEF j
      <4>2. j <= s
        BY <1>1, <4>1, SMT
      <4> QED
        BY <4>2 DEF j
    <3> QED
      BY <1>1, <1>2, <3>1, <3>2
  <2>3. x = m * F /\ m * F \in Int
    <3>1. n * F = (m * F) * K /\ m * F \in Int
      BY <1>1, <2>1, SMT
    <3>2. Rounded((m * F) * K, K) = m * F
      BY <1>1, <2>1, <2>2, WholeFloats DEF F, M
    <3> QED
      BY <3>1, <3>2 DEF x
  <2>4. q = m
    <3>1. F * m = m * F
      BY <1>1, <2>1, SMT
    <3>2. Quotient(F * m, F) = m
      BY <1>1, <2>1, QuotientOf
    <3> QED
      BY <2>3, <3>1, <3>2 DEF q
  <2>5. g = 0
    BY <2>3, <2>4 DEF g
  <2>6. p = 0
    <3>1. Rounded((0 * F) * 1, 1) = 0 * F
      <4>1. Magnitude(0) < M
        BY <1>1 DEF Magnitude
      <4> QED
        BY <4>1, WholeFloats DEF F, M
    <3>2. 0 * F = 0 /\ (0 * F) * 1 = 0 /\ 0 * S = 0
      BY <1>1, SMT
    <3> QED
      BY <2>5, <3>1, <3>2 DEF p
  <2>7. k = 0
    <3>1. RoundHalfEven(0 * F, F) = 0 /\ 0 * F = 0
      BY <1>1, RoundExact
    <3> QED
      BY <2>6, <3>1 DEF k
  <2>8. n * U = m * S
    BY <1>1, <2>1, SMT
  <2> QED
    <3>1. m * S \in Int
      BY <1>1, <2>1, SMT
    <3> QED
      BY <2>4, <2>7, <2>8, <3>1 DEF d
<1> QED
  <2>1. ReadMicros(x) = y
    BY DEF ReadMicros, k, p, g, q, F, S
  <2> QED
    BY <1>14, <1>18, <1>19, <1>20, <2>1 DEF d, x, K, U, S, F, M, s

LEMMA NestedDivision ==
  ASSUME NEW b \in Nat \ {0}, NEW c \in Nat \ {0}, NEW n \in Int
  PROVE  n \div (c * b) = (n \div b) \div c
<1> DEFINE q == n \div b
           r == n % b
           p == q \div c
           s == q % c
<1>1. n = q * b + r /\ q \in Int /\ r \in 0..(b - 1)
  BY Remainder
<1>2. q = p * c + s /\ p \in Int /\ s \in 0..(c - 1)
  <2> HIDE DEF q
  <2> QED
    BY <1>1, Remainder
<1> HIDE DEF q, r, p, s
<1>3. c * b \in Nat \ {0} /\ n = p * (c * b) + (s * b + r) /\ s * b \in Int /\ s * b >= 0
  BY <1>1, <1>2, SMT
<1>4. s * b + r \in 0..(c * b - 1)
  <2>1. s * b <= (c - 1) * b
    BY <1>2, Times
  <2>2. (c - 1) * b = c * b - b
    BY SMT
  <2> QED
    BY <1>1, <1>3, <2>1, <2>2
<1> DEFINE a == c * b
           t == s * b + r
<1>5. n \div a = p
  <2>1. a \in Nat \ {0} /\ t \in 0..(a - 1) /\ n = p * a + t
    BY <1>3, <1>4
  <2> HIDE DEF a, t
  <2> QED
    BY <1>2, <2>1, Divided
<1> QED
  BY <1>5 DEF p, q

(* What is at most one less, and no less when it is whole, is in the same second.  *)
LEMMA SameSecond ==
  ASSUME NEW b \in Nat \ {0}, NEW n \in Int, NEW m \in {n, n - 1}, n % b = 0 => m = n
  PROVE  m \in Int /\ m \div b = n \div b
<1>1. CASE m = n
  BY <1>1
<1>2. CASE m # n
  <2> DEFINE q == n \div b
             r == n % b
  <2>1. n = q * b + r /\ q \in Int /\ r \in 0..(b - 1)
    BY Remainder
  <2>2. r # 0 /\ m = n - 1
    BY <1>2
  <2> HIDE DEF q, r
  <2>3. q * b \in Int
    BY <2>1, SMT
  <2>4. r - 1 \in 0..(b - 1) /\ m = q * b + (r - 1)
    BY <2>1, <2>2, <2>3
  <2>5. m \div b = q
    BY <2>1, <2>4, Divided
  <2> QED
    BY <2>2, <2>5 DEF q
<1> QED
  BY <1>1, <1>2

(* The milliseconds that are stored.                                               *)
LEMMA BoundMillis ==
  ASSUME NEW v
  PROVE  /\ v \in [number : Int] => IsNumber(v) /\ v.number \in Int /\ AsCassTimestamp(v) = v.number * MillisPerSecond
         /\ v \in [micros : Int] => ~IsNumber(v) /\ v.micros \in Int /\ AsCassTimestamp(v) = Stored(v.micros \div MicrosPerMilli)
<1>1. v \in [number : Int] => IsNumber(v) /\ v.number \in Int
  BY Zenon DEF IsNumber
<1>2. v \in [micros : Int] => ~IsNumber(v) /\ v.micros \in Int
  BY SMT DEF IsNumber
<1>3. IsNumber(v) => AsCassTimestamp(v) = v.number * MillisPerSecond
  BY Zenon DEF AsCassTimestamp
<1>4. ~IsNumber(v) => AsCassTimestamp(v) = Stored(v.micros \div MicrosPerMilli)
  BY Zenon DEF AsCassTimestamp, Stored, Float, WholeMillis
<1> QED
  BY <1>1, <1>2, <1>3, <1>4, Zenon

(* And those that are read.                                                        *)
LEMMA ReadMillis ==
  ASSUME NEW n \in Int, 2 * Magnitude(n) < Mantissa
  PROVE  \E y \in Int :
           /\ Timestamp(n) = IF CivilFromDays(y \div (DaySeconds * MicrosPerSecond)).y \in PythonYears
                             THEN Gives((y \div MicrosPerMilli) * MicrosPerMilli) ELSE Raised
           /\ y \div MicrosPerMilli \in {n, n - 1}
           /\ n % MillisPerSecond = 0 => y \div MicrosPerMilli = n
           /\ 2 * (Magnitude(n) * MicrosPerMilli + MicrosPerSecond) < Mantissa => y \div MicrosPerMilli = n
<1> DEFINE U == MicrosPerMilli
           x == Rounded(n * Fraction, MillisPerSecond)
           y == ReadMicros(x)
           d == y - n * U
<1>1. /\ y \in Int /\ -U < d /\ d < U
      /\ n % MillisPerSecond = 0 => d = 0
      /\ 2 * (Magnitude(n) * U + MicrosPerSecond) < Mantissa => d = 0
  BY MicrosRead
<1>2. Timestamp(n) = IF CivilFromDays(y \div (DaySeconds * MicrosPerSecond)).y \in PythonYears
                     THEN Gives((y \div U) * U) ELSE Raised
  BY Zenon DEF Timestamp, ReadMicros, Float, WholeMillis
<1> HIDE DEF y, U
<1>3. U \in Nat \ {0} /\ n * U \in Int
  <2>1. U \in Nat \ {0}
    BY Floats DEF U
  <2> QED
    BY <2>1, SMT
<1>4. y \div U \in {n, n - 1}
  BY <1>1, <1>3, RoundsDown
<1>5. d = 0 => y \div U = n
  <2>1. 0 \in 0..(U - 1) /\ n * U + 0 = n * U
    BY <1>3
  <2>2. (n * U + 0) \div U = n
    BY <1>3, <2>1, Divided
  <2> QED
    BY <1>1, <1>3, <2>1, <2>2
<1> QED
  BY <1>1, <1>2, <1>4, <1>5 DEF U

(* The year of a day is one of Python's as the day is.                             *)
LEMMA PythonsDay ==
  ASSUME NEW z \in Int
  PROVE  CivilFromDays(z).y \in PythonYears <=> z \in PythonDays
<1> DEFINE date == CivilFromDays(z)
<1>1. IsDate(date) /\ DaysFromCivil(date.y, date.m, date.d) = z
  BY DaysComeBack
<1> HIDE DEF date
<1>2. DayNumber(date) = z
  BY <1>1, DaysAreNumbers
<1> QED
  BY <1>1, <1>2, YearRange DEF date

(* What is read of n milliseconds that were bound, of which the driver has m.      *)
LEMMA MillisReadBack ==
  ASSUME NEW n \in Int, Near(n), NEW m \in {n, n - 1}, n % MillisPerSecond = 0 => m = n
  PROVE  LET t == n * MicrosPerMilli
             r == Timestamp(m)
         IN  IF t \div (DaySeconds * MicrosPerSecond) \in PythonDays
             THEN /\ ~r.raised /\ r.v \in {t, t - MicrosPerMilli, t - 2 * MicrosPerMilli}
                  /\ r.v \div MicrosPerSecond = t \div MicrosPerSecond
                  /\ 2 * (Magnitude(t) + 2 * MicrosPerSecond) < Mantissa => r.v # t - 2 * MicrosPerMilli
             ELSE r = Raised
<1> DEFINE K == MillisPerSecond
           U == MicrosPerMilli
           S == MicrosPerSecond
           D == DaySeconds
           M == Mantissa
           t == n * U
<1>1. K \in Nat \ {0} /\ U \in Nat \ {0} /\ S \in Nat \ {0} /\ D \in Nat \ {0} /\ M \in Nat \ {0} /\ S = K * U
  BY Floats, Units
<1>2. 2 * U <= S
  BY Fine
<1>3. /\ Magnitude(n) \in Int /\ Magnitude(n) = (IF n < 0 THEN -n ELSE n) /\ 2 * (Magnitude(n) + 1) < M
      /\ Magnitude(m) \in Int /\ Magnitude(m) = (IF m < 0 THEN -m ELSE m)
  <2>1. m \in Int
    OBVIOUS
  <2>2. 2 * (Magnitude(n) + 1) < M
    BY DEF Near
  <2> QED
    BY <2>1, <2>2, Sizes
<1>4. 2 * Magnitude(m) < M /\ Magnitude(m) <= Magnitude(n) + 1
  BY <1>1, <1>3
<1>5. t \in Int /\ Magnitude(t) = Magnitude(n) * U /\ Magnitude(n) * U \in Int /\ Magnitude(m) * U \in Int
  <2>1. t \in Int /\ Magnitude(t) = Magnitude(n) * U
    BY <1>1, Sizes
  <2>2. ASSUME NEW k \in Int PROVE k * U \in Int
    BY <1>1, SMT
  <2> QED
    BY <1>3, <2>1, <2>2
<1>6. m \in Int /\ m \div K = n \div K
  BY <1>1, SameSecond
<1>7. PICK y \in Int :
           /\ Timestamp(m) = IF CivilFromDays(y \div (D * S)).y \in PythonYears
                             THEN Gives((y \div U) * U) ELSE Raised
           /\ y \div U \in {m, m - 1}
           /\ m % K = 0 => y \div U = m
           /\ 2 * (Magnitude(m) * U + S) < M => y \div U = m
  BY <1>4, <1>6, ReadMillis
<1> HIDE DEF K, U, S, D, M, t
<1> DEFINE l == y \div U
<1>8. l \in Int /\ l \div K = n \div K
  BY <1>1, <1>6, <1>7, SameSecond
<1>9. l * U \in Int /\ l * U \in {t, t - U, t - 2 * U} /\ (l # n - 2 => l * U # t - 2 * U)
  <2> HIDE DEF l
  <2>1. l \in {n, n - 1, n - 2}
    BY <1>7 DEF l
  <2>2. n * U = t /\ (n - 1) * U = n * U - U /\ (n - 2) * U = n * U - 2 * U
    BY <1>1, SMT DEF t
  <2> QED
    BY <1>1, <1>5, <2>1, <2>2
<1>10. ASSUME 2 * (Magnitude(t) + 2 * S) < M PROVE l # n - 2
  <2>1. Magnitude(m) * U <= (Magnitude(n) + 1) * U
    <3>1. Magnitude(n) + 1 \in Int
      BY <1>3
    <3> QED
      BY <1>1, <1>3, <1>4, <3>1, Times
  <2>2. (Magnitude(n) + 1) * U = Magnitude(n) * U + U
    BY <1>1, <1>3, SMT
  <2>3. 2 * (Magnitude(m) * U + S) < M
    BY <1>1, <1>2, <1>5, <1>10, <2>1, <2>2
  <2> QED
    BY <1>6, <1>7, <2>3
<1>11. ASSUME NEW z \in Int PROVE z \div S = (z \div U) \div K /\ z \div S \in Int /\ z \div (D * S) = (z \div S) \div D
                                  /\ z \div (D * S) \in Int
  <2>1. z \div (K * U) = (z \div U) \div K /\ z \div (D * S) = (z \div S) \div D
    BY <1>1, NestedDivision
  <2>2. z \div S \in Int
    BY <1>1, Remainder
  <2>3. (z \div S) \div D \in Int
    <3> DEFINE a == z \div S
    <3> HIDE DEF a
    <3>1. a \in Int
      BY <2>2 DEF a
    <3>2. a \div D \in Int
      BY <1>1, <3>1, Remainder
    <3> QED
      BY <3>2 DEF a
  <2> QED
    BY <1>1, <2>1, <2>2, <2>3
<1>12. ASSUME NEW k \in Int PROVE k * U \in Int /\ (k * U) \div U = k
  <2>1. 0 \in 0..(U - 1) /\ k * U \in Int /\ k * U + 0 = k * U
    BY <1>1, SMT
  <2> QED
    BY <1>1, <2>1, Divided
<1>13. t \div S = n \div K /\ y \div S = n \div K /\ (l * U) \div S = n \div K
  <2>1. t \div U = n /\ (l * U) \div U = l
    BY <1>8, <1>12 DEF t
  <2> QED
    BY <1>5, <1>8, <1>9, <1>11, <2>1
<1>14. y \div (D * S) = t \div (D * S) /\ t \div (D * S) \in Int
  BY <1>5, <1>11, <1>13
<1>15. Timestamp(m) = IF t \div (D * S) \in PythonDays THEN Gives(l * U) ELSE Raised
  BY <1>7, <1>14, PythonsDay
<1>16. ~Gives(l * U).raised /\ Gives(l * U).v = l * U
  BY Zenon DEF Gives
<1> HIDE DEF l
<1> QED
  <2>1. CASE t \div (D * S) \in PythonDays
    <3>1. ~Timestamp(m).raised /\ Timestamp(m).v = l * U
      BY <1>15, <1>16, <2>1, Zenon
    <3>2. /\ Timestamp(m).v \in {t, t - U, t - 2 * U}
          /\ Timestamp(m).v \div S = t \div S
          /\ 2 * (Magnitude(t) + 2 * S) < M => Timestamp(m).v # t - 2 * U
      BY <1>9, <1>10, <1>13, <3>1, Zenon
    <3> QED
      BY <2>1, <3>1, <3>2, Zenon DEF K, U, S, D, M, t
  <2>2. CASE ~(t \div (D * S) \in PythonDays)
    BY <1>15, <2>2, Zenon DEF K, U, S, D, M, t
  <2> QED
    BY <2>1, <2>2

LEMMA TimestampsRead ==
  ASSUME NEW v, \/ v \in [micros : Int] /\ Near(v.micros \div MicrosPerMilli)
                \/ v \in [number : Int] /\ Near(v.number * MillisPerSecond)
  PROVE  TimestampWithin(v, Timestamp(AsCassTimestamp(v)))
<1> DEFINE Back(n, r) ==
             LET t == n * MicrosPerMilli
             IN  IF t \div (DaySeconds * MicrosPerSecond) \in PythonDays
                 THEN /\ ~r.raised /\ r.v \in {t, t - MicrosPerMilli, t - 2 * MicrosPerMilli}
                      /\ r.v \div MicrosPerSecond = t \div MicrosPerSecond
                      /\ 2 * (Magnitude(t) + 2 * MicrosPerSecond) < Mantissa => r.v # t - 2 * MicrosPerMilli
                 ELSE r = Raised
<1>1. ASSUME NEW n \in Int, Near(n), NEW m \in {n, n - 1}, n % MillisPerSecond = 0 => m = n
      PROVE  Back(n, Timestamp(m))
  BY <1>1, MillisReadBack
<1>2. MillisPerSecond \in Nat \ {0} /\ MicrosPerMilli \in Nat \ {0} /\ MicrosPerSecond = MillisPerSecond * MicrosPerMilli
  BY Floats
<1>3. CASE v \in [micros : Int] /\ Near(v.micros \div MicrosPerMilli)
  <2> DEFINE n == v.micros \div MicrosPerMilli
  <2>1. ~IsNumber(v) /\ AsCassTimestamp(v) = Stored(n) /\ n \in Int
    <3>1. ~IsNumber(v) /\ AsCassTimestamp(v) = Stored(n) /\ v.micros \in Int
      BY <1>3, BoundMillis, Zenon
    <3> QED
      BY <1>2, <3>1, Remainder
  <2>2. Near(n)
    BY <1>3
  <2>3. Back(n, Timestamp(AsCassTimestamp(v)))
    <3> HIDE DEF n, Back
    <3> QED
      BY <1>1, <2>1, <2>2, StoredMillis
  <2> QED
    BY <2>1, <2>3, Zenon DEF TimestampWithin
<1>4. CASE v \in [number : Int] /\ Near(v.number * MillisPerSecond)
  <2> DEFINE n == v.number * MillisPerSecond
  <2>1. IsNumber(v) /\ AsCassTimestamp(v) = n /\ v.number \in Int
    BY <1>4, BoundMillis, Zenon
  <2>2. n \in Int /\ n * MicrosPerMilli = v.number * MicrosPerSecond
    BY <1>2, <2>1, SMT
  <2>3. Near(n)
    BY <1>4
  <2>4. Back(n, Timestamp(AsCassTimestamp(v)))
    <3> HIDE DEF n, Back
    <3> QED
      BY <1>1, <2>1, <2>2, <2>3
  <2> QED
    BY <2>1, <2>2, <2>4, Zenon DEF TimestampWithin
<1> QED
  BY <1>3, <1>4

--------------------------------------------------------------------------------
(* Values, as they are read.                                                       *)

(* A value of the first row is read from the cell; nobody reads a scalar while a   *)
(* collection is open.                                                             *)
ReadInv ==
  /\ cell \in Cells
  /\ frames # << >> => got # << >> /\ got[1].of = "collection"
  /\ got # << >> => DOMAIN got[1] = {"own", "fresh", "row", "of", "v"}
  /\ ReadCell => got[1].v = ReadBack(cell)

LEMMA ReadInvKept ==
  ASSUME ReadInv, [ResultNext]_resultVars
  PROVE  ReadInv'
<1>1. cell' = cell /\ native' = native
  BY DEF ResultNext, resultVars, First, All, DropResult, Dealloc, NextRow, Finish, DropRow, Read, ReadMissing,
         ReadCollection, Nested, Element, CloseNested, CloseCollection
<1>2. ReadBack(cell)' = ReadBack(cell)
  BY <1>1 DEF ReadBack
<1>3. CASE UNCHANGED <<frames, got>>
  BY <1>1, <1>2, <1>3 DEF ReadInv, ReadCell
<1>4. CASE got' = got /\ frames # << >>
  BY <1>1, <1>2, <1>4 DEF ReadInv, ReadCell
<1>5. ASSUME NEW open, Leaves(open), frames # << >>
      PROVE  ReadInv'
  <2>1. frames' = << >> /\ got' = <<[got[1] EXCEPT !.v = Raised]>>
    BY <1>5 DEF Leaves
  <2>2. got[1].of = "collection" /\ DOMAIN got[1] = {"own", "fresh", "row", "of", "v"}
    BY <1>5 DEF ReadInv
  <2>3. got' # << >> /\ got'[1].of = "collection" /\ DOMAIN got'[1] = {"own", "fresh", "row", "of", "v"}
    BY <2>1, <2>2
  <2> QED
    BY <1>1, <2>1, <2>3 DEF ReadInv, ReadCell
<1>6. ASSUME NEW r, NEW of, NEW v, Got(r, of, v),
             of # "value" \/ (frames' = << >> /\ (RowOf(r) = 1 => v = ReadBack(cell))),
             frames' # << >> => of = "collection"
      PROVE  ReadInv'
  <2>1. got' = <<[own |-> r.own, fresh |-> Fresh(r), row |-> RowOf(r), of |-> of, v |-> v]>>
    BY <1>6 DEF Got
  <2>2. /\ got' # << >> /\ got'[1].of = of /\ got'[1].row = RowOf(r) /\ got'[1].v = v
        /\ DOMAIN got'[1] = {"own", "fresh", "row", "of", "v"}
    BY <2>1
  <2> QED
    BY <1>1, <1>2, <1>6, <2>2 DEF ReadInv, ReadCell
<1>7. ASSUME NEW r \in rows, Read(r) PROVE ReadInv'
  <2>1. frames = << >> /\ frames' = frames /\ Got(r, "value", ReadBack(Value(RowOf(r))))
    BY <1>7 DEF Read, Idle
  <2>2. RowOf(r) = 1 => ReadBack(Value(RowOf(r))) = ReadBack(cell)
    BY DEF Value
  <2> QED
    BY <1>6, <2>1, <2>2
<1>8. ASSUME NEW r \in rows, ReadMissing(r) PROVE ReadInv'
  <2>1. frames = << >> /\ frames' = frames /\ \E v : Got(r, "nothing", v)
    BY <1>8 DEF ReadMissing, Idle
  <2> QED
    BY <1>6, <2>1
<1>9. ASSUME NEW r \in rows, NEW k, NEW n, ReadCollection(r, k, n) PROVE ReadInv'
  <2>1. Got(r, "collection", Gives("collection"))
    BY <1>9 DEF ReadCollection
  <2> QED
    BY <1>6, <2>1
<1>10. CASE \/ First \/ All \/ DropResult \/ Dealloc
            \/ \E i \in DOMAIN iters : NextRow(i) \/ Finish(i)
            \/ \E r \in rows : DropRow(r)
            \/ UNCHANGED resultVars
  <2>1. UNCHANGED <<frames, got>>
    BY <1>10 DEF First, All, DropResult, Dealloc, NextRow, Finish, DropRow, resultVars
  <2> QED
    BY <1>3, <2>1
<1>11. CASE (\E k \in CollectionKinds, n \in 0..MaxSize : Nested(k, n)) \/ Element \/ CloseNested \/ CloseCollection
  <2>1. frames # << >>
    <3>1. frames # << >> \/ Len(frames) > 1 \/ Len(frames) = 1
      BY <1>11, Zenon DEF Nested, Element, CloseNested, CloseCollection, Idle
    <3>2. frames = << >> => Len(frames) = 0
      OBVIOUS
    <3> QED
      BY <3>1, <3>2
  <2>2. got' = got \/ \E open : Leaves(open)
    BY <1>11 DEF Nested, Element, CloseNested, CloseCollection
  <2> QED
    BY <1>4, <1>5, <2>1, <2>2
<1> QED
  BY <1>7, <1>8, <1>9, <1>10, <1>11 DEF ResultNext

LEMMA ReadInvReads == ReadInv => ReadsBack
<1> SUFFICES ASSUME ReadInv, ReadCell PROVE ReadsBack
  BY Zenon DEF ReadsBack
<1> DEFINE r == got[1].v
<1>1. r = ReadBack(cell) /\ Proper(cell)
  BY CellsAreProper, Zenon DEF ReadInv
<1>2. CASE cell.type = "date"
  <2>1. \/ IsDate(cell.v) /\ cell.v.y \in PythonYears
        \/ cell.v \in [number : Int] /\ Quotient(cell.v.number, DaySeconds) \in IntDays
    BY <1>1, <1>2, SMT DEF Proper
  <2>2. r = Date(AsCassDate(cell.v), native)
    BY <1>1, <1>2, SMT DEF ReadBack
  <2>3. DateReadsBack(cell.v, r)
    BY <2>1, <2>2, DatesReadBack, Zenon
  <2> QED
    BY <1>2, <2>3, SMT DEF ReadsBack
<1>3. CASE cell.type = "time"
  <2>1. \/ cell.v \in [number : Int]
        \/ cell.v \in [hour : 0..23, minute : 0..59, second : 0..59, micro : 0..(MicrosPerSecond - 1), offset : Int]
    BY <1>1, <1>3, SMT DEF Proper
  <2>2. r = Time(AsCassTime(cell.v), native)
    BY <1>1, <1>3, SMT DEF ReadBack
  <2>3. TimeReadsBack(cell.v, r)
    BY <2>1, <2>2, TimesReadBack, Zenon
  <2> QED
    BY <1>3, <2>3, SMT DEF ReadsBack
<1>4. CASE cell.type = "timedelta"
  <2>1. cell.v \in [days : Int, seconds : Nat, micros : 0..(MicrosPerSecond - 1)]
    BY <1>1, <1>4, SMT DEF Proper
  <2>2. IsDuration(AsCassDuration(cell.v))
    <3>1. cell.v.days \in Int /\ cell.v.seconds \in Int /\ cell.v.micros \in Int /\ NanosPerSecond \in Int /\ NanosPerMicro \in Int
      BY <2>1, Units
    <3>2. cell.v.seconds * NanosPerSecond + cell.v.micros * NanosPerMicro \in Int
      BY <3>1, SMT
    <3> QED
      BY <3>1, <3>2 DEF IsDuration, AsCassDuration, Duration
  <2>3. r = Gives(IF native THEN AsCassDuration(cell.v) ELSE DurationStr(AsCassDuration(cell.v)))
    BY <1>1, <1>4, SMT DEF ReadBack
  <2>4. DurationReadsBack(AsCassDuration(cell.v), r)
    BY <2>2, <2>3, DurationsReadBack, Zenon
  <2> QED
    BY <1>4, <2>4, SMT DEF ReadsBack
<1>5. CASE cell.type = "duration"
  <2>1. IsDuration(cell.v)
    BY <1>1, <1>5, SMT DEF Proper, IsDuration
  <2>2. r = Gives(IF native THEN cell.v ELSE DurationStr(cell.v))
    BY <1>1, <1>5, SMT DEF ReadBack
  <2>3. DurationReadsBack(cell.v, r)
    BY <2>1, <2>2, DurationsReadBack, Zenon
  <2> QED
    BY <1>5, <2>3, SMT DEF ReadsBack
<1>6. CASE cell.type = "null"
  BY <1>1, <1>6, SMT DEF ReadBack, ReadsBack
<1>7. CASE cell.type \notin {"date", "time", "timedelta", "duration", "null"}
  BY <1>7, SMT DEF ReadsBack
<1> QED
  BY <1>2, <1>3, <1>4, <1>5, <1>6, <1>7

(* Dates, times, timedeltas, durations and None are read as ReadsBack says,        *)
(* whatever they are.                                                              *)
THEOREM ValuesReadBack == ResultSpec => []ReadsBack
<1>1. ResultInit => ReadInv
  BY DEF ResultInit, ReadInv, ReadCell
<1>2. ReadInv /\ [ResultNext]_resultVars => ReadInv'
  BY ReadInvKept
<1> QED
  BY <1>1, <1>2, ReadInvReads, PTL DEF ResultSpec

(* A timestamp loses no more than one or two milliseconds on the way, and stays in *)
(* its second, whatever it is.                                                     *)
THEOREM TimestampsLoseLittle == ResultSpec => []TimestampLossBounded
<1>1. ResultInit => ReadInv
  BY DEF ResultInit, ReadInv, ReadCell
<1>2. ReadInv /\ [ResultNext]_resultVars => ReadInv'
  BY ReadInvKept
<1>3. ReadInv => TimestampLossBounded
  <2> SUFFICES ASSUME ReadInv, ReadCell, cell.type = "timestamp"
               PROVE  TimestampWithin(cell.v, got[1].v)
    BY Zenon DEF TimestampLossBounded
  <2>1. got[1].v = ReadBack(cell) /\ Proper(cell)
    BY CellsAreProper, Zenon DEF ReadInv
  <2>2. got[1].v = Timestamp(AsCassTimestamp(cell.v))
    BY <2>1, SMT DEF ReadBack
  <2>3. \/ cell.v \in [micros : Int] /\ Near(cell.v.micros \div MicrosPerMilli)
        \/ cell.v \in [number : Int] /\ Near(cell.v.number * MillisPerSecond)
    BY <2>1, SMT DEF Proper
  <2> QED
    BY <2>2, <2>3, TimestampsRead, Zenon
<1> QED
  BY <1>1, <1>2, <1>3, PTL DEF ResultSpec
================================================================================
