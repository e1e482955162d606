--------------------------- MODULE PagedIteration ---------------------------
(***************************************************************************)
(* Statement.__aiter__ (statement.pyx): an async generator that hands out  *)
(* the rows of one page while a task it has created fetches the next.      *)
(*                                                                         *)
(* The position of the scan is the page state of the Statement itself.     *)
(* The driver keeps a reference to the statement and encodes it in one of  *)
(* its own threads, so a request reads the page state when it is encoded,  *)
(* some time after cass_session_execute.  Iterations of one Statement,     *)
(* one after the other or at the same time, share that page state.         *)
(***************************************************************************)
EXTENDS Naturals

CONSTANTS
  Iterators,    \* async generators over the same Statement
  Pages,        \* pages of the result on the server
  RowsIn,       \* rows of each page; the server may send an empty page
  Overlap,      \* whether an iteration may start before another has ended
  MayClose      \* whether the session may be closed

ASSUME PagedAssumption ==
  /\ Pages \in Nat \ {0}
  /\ RowsIn \in [1 .. Pages -> Nat]
  /\ Overlap \in BOOLEAN
  /\ MayClose \in BOOLEAN

VARIABLES
  pageState,    \* paging state of the CassStatement: the page it follows
  closed,       \* Session.closed
  pc,           \* where each generator is
  page, row,    \* the page in  result  and the rows of it handed out
  req,          \* the generator's latest execute
  token         \* the page state that request was encoded with

genVars == <<pc, page, row>>
vars == <<pageState, closed, genVars, req, token>>

Init ==
  /\ pageState = 0
  /\ closed = FALSE
  /\ pc = [i \in Iterators |-> "new"]
  /\ page = [i \in Iterators |-> 0]
  /\ row = [i \in Iterators |-> 0]
  /\ req = [i \in Iterators |-> "none"]
  /\ token = [i \in Iterators |-> 0]

At(i, where) == pc' = [pc EXCEPT ![i] = where]
Request(i, state) == req' = [req EXCEPT ![i] = state]

Over(i) == pc[i] \in {"complete", "failed", "abandoned"}

\* Session.execute up to its await: a closed session raises RuntimeError.
Submitted == IF closed THEN "error" ELSE "queued"

-----------------------------------------------------------------------------
(* The generator, from one suspension to the next.                         *)

\* The first __anext__: execute, and wait for the first page.
Begin(i) ==
  /\ pc[i] = "new"
  /\ Overlap \/ \A j \in Iterators : pc[j] = "new" \/ Over(j)
  /\ Request(i, Submitted)
  /\ At(i, "first")
  /\ UNCHANGED <<pageState, closed, page, row, token>>

\* result = await ...: the loop body up to the first row.  With more pages to
\* come, set_page_state, create_task and sleep(0), which suspends; with none,
\* straight on to the rows.
TakePage(i) ==
  /\ pc[i] \in {"first", "await"}
  /\ req[i] = "ok"
  /\ LET p == token[i] + 1 IN
       /\ page' = [page EXCEPT ![i] = p]
       /\ row' = [row EXCEPT ![i] = 0]
       /\ \/ /\ p < Pages
             /\ pageState' = p
             /\ Request(i, "scheduled")
             /\ At(i, "sleep")
          \/ /\ p = Pages
             /\ Request(i, "none")
             /\ At(i, "rows")
             /\ UNCHANGED pageState
  /\ UNCHANGED <<closed, token>>

\* Mutant: an error of the prefetch is not raised to the consumer.
TakeError_FirstOnly(i) ==
  /\ pc[i] = "first"
  /\ req[i] = "error"
  /\ Request(i, "none")
  /\ At(i, "failed")
  /\ UNCHANGED <<pageState, closed, page, row, token>>

\* The same await when the execute raised.
TakeError(i) ==
  /\ pc[i] \in {"first", "await"}
  /\ req[i] = "error"
  /\ Request(i, "none")
  /\ At(i, "failed")
  /\ UNCHANGED <<pageState, closed, page, row, token>>

\* Mutant: the page state is set by the prefetch task as well.
Prefetch_SetsPageState(i) ==
  /\ req[i] = "scheduled"
  /\ Request(i, Submitted)
  /\ pageState' = page[i]
  /\ UNCHANGED <<closed, genVars, token>>

\* The prefetch task's first step.
Prefetch(i) ==
  /\ req[i] = "scheduled"
  /\ Request(i, Submitted)
  /\ UNCHANGED <<pageState, closed, genVars, token>>

\* Back from sleep(0).  The loop runs what is ready in order, so the prefetch
\* task, created before the sleep, has had its step.
Wake(i) ==
  /\ pc[i] = "sleep"
  /\ req[i] # "scheduled"
  /\ At(i, "rows")
  /\ UNCHANGED <<pageState, closed, page, row, req, token>>

YieldRow(i) ==
  /\ pc[i] = "rows"
  /\ row[i] < RowsIn[page[i]]
  /\ row' = [row EXCEPT ![i] = @ + 1]
  /\ UNCHANGED <<pageState, closed, pc, page, req, token>>

\* Mutant: a prefetch that has failed already is taken for no prefetch.
EndPage_DropsError(i) ==
  /\ pc[i] = "rows"
  /\ row[i] = RowsIn[page[i]]
  /\ At(i, IF req[i] \in {"none", "error"} THEN "complete" ELSE "await")
  /\ UNCHANGED <<pageState, closed, page, row, req, token>>

\* No row is left: wait for the next page if one has been asked for.
EndPage(i) ==
  /\ pc[i] = "rows"
  /\ row[i] = RowsIn[page[i]]
  /\ At(i, IF req[i] = "none" THEN "complete" ELSE "await")
  /\ UNCHANGED <<pageState, closed, page, row, req, token>>

\* The consumer breaks out at a row, or its task is cancelled at an await; the
\* await of the prefetch task cancels that task with it, other suspensions
\* leave it to run on its own.
Abandon(i) ==
  /\ pc[i] \in {"first", "sleep", "rows", "await"}
  /\ At(i, "abandoned")
  /\ IF pc[i] = "await" THEN Request(i, "none") ELSE UNCHANGED req
  /\ UNCHANGED <<pageState, closed, page, row, token>>

-----------------------------------------------------------------------------

\* A thread of the driver encodes the request, page state and all.
Encode(i) ==
  /\ req[i] = "queued"
  /\ Request(i, "sent")
  /\ token' = [token EXCEPT ![i] = pageState]
  /\ UNCHANGED <<pageState, closed, genVars>>

\* The server's page arrives, or an error.
Answer(i) ==
  /\ req[i] = "sent"
  /\ \E how \in {"ok", "error"} : Request(i, how)
  /\ UNCHANGED <<pageState, closed, genVars, token>>

\* Session.close() by another task: the requests in flight finish.
Close ==
  /\ MayClose /\ ~closed
  /\ closed' = TRUE
  /\ UNCHANGED <<pageState, genVars, req, token>>

-----------------------------------------------------------------------------

GeneratorStep(i) == \/ TakePage(i) \/ TakeError(i) \/ Prefetch(i) \/ Wake(i)
                    \/ YieldRow(i) \/ EndPage(i)

DriverStep(i) == Encode(i) \/ Answer(i)

Next == \/ \E i \in Iterators : \/ Begin(i) \/ GeneratorStep(i)
                                \/ DriverStep(i) \/ Abandon(i)
        \/ Close

SafeSpec == Init /\ [][Next]_vars

\* The loop runs ready tasks, the consumer keeps asking for rows until it
\* abandons, and the driver answers.
Fairness == \A i \in Iterators : /\ WF_vars(GeneratorStep(i))
                                 /\ WF_vars(DriverStep(i))

Spec == SafeSpec /\ Fairness

-----------------------------------------------------------------------------

\* The values each variable ranges over.
TypeOK ==
  /\ pageState \in 0 .. Pages - 1
  /\ closed \in BOOLEAN
  /\ pc \in [Iterators -> {"new", "first", "sleep", "rows", "await",
                           "complete", "failed", "abandoned"}]
  /\ page \in [Iterators -> 0 .. Pages]
  /\ row \in [Iterators -> Nat]
  /\ req \in [Iterators -> {"none", "scheduled", "queued", "sent", "ok",
                            "error"}]
  /\ token \in [Iterators -> 0 .. Pages - 1]

\* While a generator hands out page p, the one request it has under way, once
\* encoded, is for the page that follows p: it never fetches a page twice and
\* never runs two pages ahead, although the page state is not its own.
PrefetchIsNextPage ==
  \A i \in Iterators :
    /\ pc[i] \in {"sleep", "rows", "await"} /\ page[i] < Pages => req[i] # "none"
    /\ pc[i] \in {"sleep", "rows", "await"} /\ req[i] \in {"sent", "ok"}
         => token[i] = page[i]

\* An iteration opens with the page that follows the page state the statement
\* has at that moment: the first page for a fresh statement, and nothing that
\* an earlier, abandoned iteration left running moves it.
OpensAtPageState ==
  [][\A i \in Iterators : page[i] = 0 /\ page'[i] # 0
                             => page'[i] = pageState + 1]_vars

\* Every iteration that has begun comes to an end: complete, failed, or
\* abandoned by its consumer; also when the session is closed under it.
EveryIterationEnds == \A i \in Iterators : pc[i] = "first" ~> Over(i)

(***************************************************************************)
(* Each iteration is a PagedScan.                                          *)
(***************************************************************************)
Status(i) ==
  CASE pc[i] = "complete" -> "complete"
    [] pc[i] \in {"failed", "abandoned"} -> "stopped"
    [] OTHER -> IF page[i] > 0 THEN "open" ELSE "new"

Scan(i) == INSTANCE PagedScan WITH at <- <<page[i], row[i]>>, status <- Status(i)

\* Rows come in order, each once, no page skipped, and the generator ends
\* normally only after the last row of the last page.  (Scan(i)!Spec for every
\* i, the quantifier moved inside of the box.)
ScansInOrder ==
  /\ \A i \in Iterators : Scan(i)!Init
  /\ [][\A i \in Iterators : [Scan(i)!Next]_(Scan(i)!scanVars)]_vars
=============================================================================
