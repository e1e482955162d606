------------------------------ MODULE PagedScan ------------------------------
(***************************************************************************)
(* What  async for row in statement  promises: the rows of a table that is *)
(* delivered in pages, in order, each once, from where the scan is opened. *)
(***************************************************************************)
EXTENDS Naturals

CONSTANTS Pages,     \* number of pages of the result
          RowsIn     \* RowsIn[p]: rows of page p, possibly none

VARIABLES at,        \* <<p, r>>: the last row handed out is row r of page p
          status     \* "new", "open", "complete" or "stopped"

scanVars == <<at, status>>

\* Every row of the current page has been handed out.
PageOver == at[2] = RowsIn[at[1]]

Init == at = <<0, 0>> /\ status = "new"

\* The scan starts with page p.
Open(p) == /\ status = "new"
           /\ at' = <<p, 0>>
           /\ status' = "open"

\* One row is handed out.
Emit == /\ status = "open"
        /\ ~PageOver
        /\ at' = <<at[1], at[2] + 1>>
        /\ UNCHANGED status

\* The scan goes on to the page after the one that is over.
Turn == /\ status = "open"
        /\ at[1] < Pages
        /\ PageOver
        /\ at' = <<at[1] + 1, 0>>
        /\ UNCHANGED status

Complete == /\ status = "open"
            /\ at[1] = Pages /\ PageOver
            /\ status' = "complete"
            /\ UNCHANGED at

\* An error, or a consumer that has seen enough, ends a scan at any point.
Stop == /\ status \in {"new", "open"}
        /\ status' = "stopped"
        /\ UNCHANGED at

Next == (\E p \in 1 .. Pages : Open(p)) \/ Emit \/ Turn \/ Complete \/ Stop

Spec == Init /\ [][Next]_scanVars
=============================================================================
