----------------------------- MODULE MCSynchronous -----------------------------
(* The components whose methods run to their end, with no callback in between:     *)
(* the configuration, a Result and the metadata.  They share no state, so that a   *)
(* step of one commutes with a step of another, and one of them moves at a time.   *)
EXTENDS MCClusterConfig, MCResults, MCSchema

VARIABLE part  \* the one that moves

jointVars == <<part, configVars, resultVars, scriptVars>>

(* The others stay as they are at first, in one of their initial states.           *)
JointInit ==
  /\ part \in {"config", "results", "metadata"}
  /\ part # "metadata" => history = <<Keyspace(TypesInOrder, Average, <<PlainTable>>)>>
  /\ ScriptInit
  /\ part # "results" => cell = [type |-> "null", v |-> None] /\ native = TRUE
  /\ ResultInit
  /\ IF part = "config" THEN ConfigInit ELSE args = [o \in Options |-> DefaultArg(o)] /\ NothingDone

JointNext ==
  \/ part = "config"   /\ ConfigNext /\ UNCHANGED <<part, resultVars, scriptVars>>
  \/ part = "results"  /\ ResultNext /\ UNCHANGED <<part, configVars, scriptVars>>
  \/ part = "metadata" /\ ScriptNext /\ UNCHANGED <<part, configVars, resultVars>>

JointSpec == JointInit /\ [][JointNext]_jointVars

================================================================================
