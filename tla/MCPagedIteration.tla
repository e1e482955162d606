-------------------------- MODULE MCPagedIteration --------------------------
(* Small instances of PagedIteration for TLC. *)
EXTENDS PagedIteration, TLC

CONSTANTS i1, i2, i3

TwoIterators == {i1, i2}
ThreeIterators == {i1, i2, i3}

\* An empty page in the middle, two rows in the first, one in the last.
SparsePages == <<2, 0, 1>>
=============================================================================
