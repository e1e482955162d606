----------------------------- MODULE MCStatements ------------------------------
EXTENDS Statements, TLC

(* Two values, null, a value of the wrong type, a container, a parameter too many:  *)
(* both parameters, one, none, in either order.                                    *)
MCInputs == { << >>, <<<<1, "a">>, <<2, "b">>>>, <<<<2, None>>, <<1, "a">>>>,
              <<<<1, "b">>, <<3, "wrong">>>>, <<<<1, "container">>>> }
MCDefaults == {"default"}
MCSymmetry == Permutations(Stmts)

================================================================================
