------------------------ MODULE PagedIteration_proofs ------------------------
(***************************************************************************)
(* Iterations of one statement that do not overlap are scans in order, for *)
(* any number of iterations, pages and rows.                               *)
(***************************************************************************)
EXTENDS PagedIteration, TLAPS

Active(i) == pc[i] \in {"first", "sleep", "rows", "await"}
Fetching(i) == pc[i] \in {"sleep", "rows", "await"}

\* One generator at a time uses the statement.
OneActive == \A i, j \in Iterators : Active(i) /\ Active(j) => i = j

\* What a generator's position says of its request and of the page state.
Position ==
  \A i \in Iterators :
    /\ pc[i] = "new" => page[i] = 0 /\ row[i] = 0 /\ req[i] = "none"
    /\ pc[i] = "first" =>
         /\ page[i] = 0 /\ row[i] = 0
         /\ req[i] \in {"queued", "sent", "ok", "error"}
         /\ req[i] \in {"sent", "ok"} => token[i] = pageState
    /\ Fetching(i) =>
         /\ page[i] \in 1 .. Pages /\ row[i] \in 0 .. RowsIn[page[i]]
         /\ page[i] = Pages <=> req[i] = "none"
         /\ page[i] < Pages => pageState = page[i]
         /\ req[i] \in {"sent", "ok"} => token[i] = page[i]
    /\ pc[i] \in {"sleep", "await"} => page[i] < Pages
    /\ pc[i] = "await" => row[i] = RowsIn[page[i]]

IInv == TypeOK /\ OneActive /\ Position

-----------------------------------------------------------------------------

LEMMA PagesFacts ==
  /\ Pages \in Nat /\ Pages >= 1
  /\ \A p \in 1 .. Pages : RowsIn[p] \in Nat
BY PagedAssumption DEF PagedAssumption

LEMMA InitInv == Init => IInv
<1> SUFFICES ASSUME Init PROVE IInv
  OBVIOUS
<1>1. 0 \in 0 .. Pages - 1 /\ 0 \in 0 .. Pages /\ 0 \in Nat
  BY PagesFacts
<1>2. TypeOK
  BY <1>1 DEF Init, TypeOK
<1>3. OneActive /\ Position
  BY DEF Init, OneActive, Position, Active, Fetching
<1> QED
  BY <1>2, <1>3 DEF IInv

\* A step of one generator's request changes nothing for the others.
LEMMA StepInv == ~Overlap /\ IInv /\ [Next]_vars => IInv'
<1> SUFFICES ASSUME ~Overlap, IInv, [Next]_vars
             PROVE  IInv'
  OBVIOUS
<1> USE PagesFacts DEF IInv, TypeOK, At, Request
<1>1. ASSUME NEW i \in Iterators, Begin(i) PROVE IInv'
  <2>1. \A j \in Iterators : ~Active(j)
    BY <1>1 DEF Begin, Active, Over
  <2>2. TypeOK'
    BY <1>1 DEF Begin, Submitted
  <2>3. OneActive'
    BY <1>1, <2>1 DEF Begin, OneActive, Active
  <2>4. Position'
    BY <1>1, <2>1 DEF Begin, Position, Active, Fetching, Submitted
  <2> QED
    BY <2>2, <2>3, <2>4
<1>2. ASSUME NEW i \in Iterators, TakePage(i) PROVE IInv'
  <2>1. Active(i) /\ token[i] + 1 \in 1 .. Pages
    BY <1>2 DEF TakePage, Active
  <2>2. \A j \in Iterators : j # i => ~Active(j)
    BY <2>1 DEF OneActive
  <2>3. TypeOK'
    BY <1>2, <2>1 DEF TakePage
  <2>4. OneActive'
    BY <1>2, <2>1, <2>2 DEF TakePage, OneActive, Active
  <2>5. Position'
    BY <1>2, <2>1, <2>2 DEF TakePage, Position, Active, Fetching
  <2> QED
    BY <2>3, <2>4, <2>5
<1>3. ASSUME NEW i \in Iterators, TakeError(i) PROVE IInv'
  BY <1>3 DEF TakeError, OneActive, Position, Active, Fetching
<1>4. ASSUME NEW i \in Iterators, Prefetch(i) PROVE IInv'
  BY <1>4 DEF Prefetch, Submitted, genVars, OneActive, Position, Active,
              Fetching
<1>5. ASSUME NEW i \in Iterators, Wake(i) PROVE IInv'
  BY <1>5 DEF Wake, OneActive, Position, Active, Fetching
<1>6. ASSUME NEW i \in Iterators, YieldRow(i) PROVE IInv'
  BY <1>6 DEF YieldRow, OneActive, Position, Active, Fetching
<1>7. ASSUME NEW i \in Iterators, EndPage(i) PROVE IInv'
  BY <1>7 DEF EndPage, OneActive, Position, Active, Fetching
<1>8. ASSUME NEW i \in Iterators, Abandon(i) PROVE IInv'
  BY <1>8 DEF Abandon, OneActive, Position, Active, Fetching
<1>9. ASSUME NEW i \in Iterators, Encode(i) PROVE IInv'
  BY <1>9 DEF Encode, genVars, OneActive, Position, Active, Fetching
<1>10. ASSUME NEW i \in Iterators, Answer(i) PROVE IInv'
  BY <1>10 DEF Answer, genVars, OneActive, Position, Active, Fetching
<1>11. CASE Close
  BY <1>11 DEF Close, genVars, OneActive, Position, Active, Fetching
<1>12. CASE UNCHANGED vars
  BY <1>12 DEF vars, genVars, OneActive, Position, Active, Fetching
<1> HIDE DEF IInv, TypeOK, At, Request
<1> QED
  BY <1>1, <1>2, <1>3, <1>4, <1>5, <1>6, <1>7, <1>8, <1>9, <1>10, <1>11,
     <1>12 DEF Next, GeneratorStep, DriverStep

-----------------------------------------------------------------------------

THEOREM Inductive == ASSUME ~Overlap PROVE SafeSpec => []IInv
<1>1. IInv /\ [Next]_vars => IInv'
  BY StepInv
<1> QED
  BY <1>1, InitInv, PTL DEF SafeSpec

\* Type correctness of the iterations.
THEOREM TypeCorrect == ASSUME ~Overlap PROVE SafeSpec => []TypeOK
<1>1. IInv => TypeOK
  BY DEF IInv
<1> QED
  BY <1>1, Inductive, PTL

\* The request under way is always the one for the next page.
THEOREM PrefetchesNextPage ==
  ASSUME ~Overlap PROVE SafeSpec => []PrefetchIsNextPage
<1>1. IInv => PrefetchIsNextPage
  <2> SUFFICES ASSUME IInv, NEW i \in Iterators,
                      pc[i] \in {"sleep", "rows", "await"}
               PROVE  /\ page[i] < Pages => req[i] # "none"
                      /\ req[i] \in {"sent", "ok"} => token[i] = page[i]
    BY DEF PrefetchIsNextPage
  <2> USE PagesFacts DEF IInv, TypeOK
  <2>1. page[i] < Pages => req[i] # "none"
    BY DEF Position, Fetching
  <2>2. req[i] \in {"sent", "ok"} => token[i] = page[i]
    BY DEF Position, Fetching
  <2> QED
    BY <2>1, <2>2
<1> QED
  BY <1>1, Inductive, PTL

\* An iteration opens with the page after the statement's page state.
THEOREM OpensWhereStatementIs ==
  ASSUME ~Overlap PROVE SafeSpec => OpensAtPageState
<1> DEFINE Opens == \A i \in Iterators : page[i] = 0 /\ page'[i] # 0
                                           => page'[i] = pageState + 1
<1>1. IInv /\ [Next]_vars => [Opens]_vars
  <2> SUFFICES ASSUME IInv, Next, NEW i \in Iterators,
                      page[i] = 0, page'[i] # 0
               PROVE  page'[i] = pageState + 1
    OBVIOUS
  <2> USE PagesFacts DEF IInv, TypeOK
  <2>1. TakePage(i)
    BY DEF Next, GeneratorStep, DriverStep, Begin, TakePage, TakeError,
           Prefetch, Wake, YieldRow, EndPage, Abandon, Encode, Answer, Close,
           genVars
  <2>2. pc[i] = "first" /\ token[i] = pageState
    BY <2>1 DEF TakePage, Position, Fetching
  <2> QED
    BY <2>1, <2>2 DEF TakePage
<1> QED
  BY <1>1, Inductive, PTL DEF SafeSpec, OpensAtPageState

-----------------------------------------------------------------------------
(* Every step of an iteration is a step of its scan.                       *)

\* What Scan(i) sees, unchanged.
LEMMA ScanStutters ==
  ASSUME NEW i \in Iterators, page'[i] = page[i], row'[i] = row[i],
         pc'[i] = pc[i]
  PROVE  UNCHANGED Scan(i)!scanVars
BY DEF Scan!scanVars, Status

LEMMA StepRefines ==
  ASSUME IInv, Next, NEW i \in Iterators
  PROVE  Scan(i)!Next \/ UNCHANGED Scan(i)!scanVars
<1> USE PagesFacts DEF IInv, TypeOK
<1>1. CASE page'[i] = page[i] /\ row'[i] = row[i] /\ pc'[i] = pc[i]
  BY <1>1, ScanStutters
<1>2. CASE Begin(i) \/ Wake(i)
  <2>1. page' = page /\ row' = row /\ Status(i)' = Status(i)
    BY <1>2 DEF Begin, Wake, At, Status
  <2> QED
    BY <2>1 DEF Scan!scanVars
<1>3. CASE TakePage(i)
  <2>1. /\ page'[i] = token[i] + 1 /\ row'[i] = 0
        /\ token[i] + 1 \in 1 .. Pages
        /\ Status(i)' = "open"
    BY <1>3 DEF TakePage, At, Status
  <2>2. CASE pc[i] = "first"
    <3>1. page[i] = 0 /\ Status(i) = "new"
      BY <2>2 DEF Position, Status
    <3>2. Scan(i)!Open(token[i] + 1)
      BY <2>1, <3>1 DEF Scan!Open
    <3> QED
      BY <2>1, <3>2 DEF Scan!Next
  <2>3. CASE pc[i] = "await"
    <3>1. /\ page[i] \in 1 .. Pages /\ row[i] = RowsIn[page[i]]
          /\ page[i] < Pages /\ token[i] = page[i] /\ Status(i) = "open"
      BY <1>3, <2>3 DEF TakePage, Position, Fetching, Status
    <3>2. Scan(i)!Turn
      BY <2>1, <3>1 DEF Scan!Turn, Scan!PageOver
    <3> QED
      BY <3>2 DEF Scan!Next
  <2> QED
    BY <1>3, <2>2, <2>3 DEF TakePage
<1>4. CASE TakeError(i) \/ Abandon(i)
  <2>1. /\ page' = page /\ row' = row /\ Status(i) \in {"new", "open"}
        /\ Status(i)' = "stopped"
    BY <1>4 DEF TakeError, Abandon, At, Status
  <2>2. Scan(i)!Stop
    BY <2>1 DEF Scan!Stop
  <2> QED
    BY <2>2 DEF Scan!Next
<1>5. CASE YieldRow(i)
  <2>1. /\ page[i] \in 1 .. Pages /\ row[i] \in 0 .. RowsIn[page[i]]
        /\ row[i] # RowsIn[page[i]] /\ pc' = pc
        /\ page' = page /\ row'[i] = row[i] + 1
        /\ Status(i) = "open" /\ Status(i)' = "open"
    BY <1>5 DEF YieldRow, Position, Fetching, Status
  <2>2. Scan(i)!Emit
    BY <2>1 DEF Scan!Emit, Scan!PageOver
  <2> QED
    BY <2>2 DEF Scan!Next
<1>6. CASE EndPage(i)
  <2>1. /\ page[i] \in 1 .. Pages /\ row[i] = RowsIn[page[i]]
        /\ page' = page /\ row' = row /\ Status(i) = "open"
        /\ page[i] = Pages <=> req[i] = "none"
    BY <1>6 DEF EndPage, Position, Fetching, Status
  <2>2. CASE req[i] = "none"
    <3>1. Status(i)' = "complete"
      BY <1>6, <2>2 DEF EndPage, At, Status
    <3>2. Scan(i)!Complete
      BY <2>1, <2>2, <3>1 DEF Scan!Complete, Scan!PageOver
    <3> QED
      BY <3>2 DEF Scan!Next
  <2>3. CASE req[i] # "none"
    <3>1. Status(i)' = "open"
      BY <1>6, <2>1, <2>3 DEF EndPage, At, Status
    <3> QED
      BY <2>1, <3>1 DEF Scan!scanVars
  <2> QED
    BY <2>2, <2>3
<1>7. ASSUME NEW j \in Iterators, j # i,
             Begin(j) \/ GeneratorStep(j) \/ Abandon(j)
      PROVE  page'[i] = page[i] /\ row'[i] = row[i] /\ pc'[i] = pc[i]
  BY <1>7 DEF Begin, GeneratorStep, TakePage, TakeError, Prefetch, Wake,
              YieldRow, EndPage, Abandon, At, genVars
<1>8. ASSUME NEW j \in Iterators, Prefetch(j) \/ DriverStep(j)
      PROVE  page'[i] = page[i] /\ row'[i] = row[i] /\ pc'[i] = pc[i]
  BY <1>8 DEF Prefetch, DriverStep, Encode, Answer, genVars
<1>9. ASSUME Close
      PROVE  page'[i] = page[i] /\ row'[i] = row[i] /\ pc'[i] = pc[i]
  BY <1>9 DEF Close, genVars
<1> HIDE DEF IInv, TypeOK
<1> QED
  BY <1>1, <1>2, <1>3, <1>4, <1>5, <1>6, <1>7, <1>8, <1>9
     DEF Next, GeneratorStep

\* Iterations that do not overlap hand out the rows of the result in order,
\* each once, and complete only at its end.
THEOREM IterationsScanInOrder ==
  ASSUME ~Overlap PROVE SafeSpec => ScansInOrder
<1> DEFINE Step == \A i \in Iterators :
                     [Scan(i)!Next]_(Scan(i)!scanVars)
           Start == \A i \in Iterators : Scan(i)!Init
<1>1. Init => Start
  <2> SUFFICES ASSUME Init, NEW i \in Iterators
               PROVE  Scan(i)!Init
    OBVIOUS
  <2>1. pc[i] = "new" /\ page[i] = 0 /\ row[i] = 0
    BY DEF Init
  <2>2. Status(i) = "new"
    BY <2>1 DEF Status
  <2> QED
    BY <2>1, <2>2 DEF Scan!Init
<1>2. IInv /\ [Next]_vars => [Step]_vars
  BY StepRefines
<1> HIDE DEF Step, Start
<1>3. SafeSpec => Start /\ [][Step]_vars
  BY <1>1, <1>2, Inductive, PTL DEF SafeSpec
<1> QED
  BY <1>3 DEF ScansInOrder, Step, Start
=============================================================================
