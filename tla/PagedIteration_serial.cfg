\* Three iterations of one statement, one after the other, over three pages;
\* any of them may fail, be abandoned or find the session closed.
CONSTANTS
  i1 = i1  i2 = i2  i3 = i3
  Iterators <- ThreeIterators
  Pages = 3
  RowsIn <- SparsePages
  Overlap = FALSE
  MayClose = TRUE
SPECIFICATION Spec
INVARIANTS PrefetchIsNextPage
PROPERTIES ScansInOrder OpensAtPageState EveryIterationEnds
CHECK_DEADLOCK FALSE
