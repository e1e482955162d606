-------------------------------- MODULE Python --------------------------------
(* What the models of synchronous code share.                                      *)
CONSTANT None  \* Python's None

================================================================================
