------------------------------ MODULE Snapshots -------------------------------
(* Metadata objects and the snapshots they take of a schema that changes, from a   *)
(* Session that may be gone.                                                       *)
EXTENDS Python, Integers, Sequences, FiniteSets

CONSTANTS
  Contents,    \* what a keyspace may contain
  Metas,       \* Metadata objects
  MaxVersions  \* schemas of the cluster, one after another

ASSUME MaxVersionsIsPositive == MaxVersions \in Nat \ {0}

VARIABLES
  history,   \* the keyspace in each schema the cluster has had
  session,   \* "held" or "freed"
  snapshot,  \* of each Metadata: Unmade, Null, a version, Garbage or Freed
  answered,  \* versions its answers were of
  heldSnapshots       \* snapshots of the driver not freed yet

snapshotVars == <<history, session, snapshot, answered, heldSnapshots>>

(* What a Metadata has that is no version; versions are positive.                  *)
Unmade  == 0
Null    == -1
Garbage == -2
Freed   == -3

SnapshotInit ==
  /\ \E k \in Contents : history = <<k>>
  /\ session = "held"
  /\ snapshot = [m \in Metas |-> Unmade] /\ answered = [m \in Metas |-> {}]
  /\ heldSnapshots = 0

(* The schema changes: the keyspace is dropped, or created again.                  *)
Change ==
  /\ Len(history) < MaxVersions
  /\ \E k \in {None, history[1]} : k # history[Len(history)] /\ history' = Append(history, k)
  /\ UNCHANGED <<session, snapshot, answered, heldSnapshots>>

(* Session.get_metadata                                                            *)
NewMetadata(m) ==
  /\ session = "held" /\ snapshot[m] = Unmade
  /\ snapshot' = [snapshot EXCEPT ![m] = Null]
  /\ UNCHANGED <<history, session, answered, heldSnapshots>>

SessionFreed ==
  /\ session = "held"
  /\ session' = "freed"
  /\ UNCHANGED <<history, snapshot, answered, heldSnapshots>>

DeallocMetadata(m) ==
  /\ snapshot[m] \notin {Unmade, Freed}
  /\ snapshot' = [snapshot EXCEPT ![m] = Freed]
  /\ heldSnapshots' = IF snapshot[m] > 0 THEN heldSnapshots - 1 ELSE heldSnapshots
  /\ UNCHANGED <<history, session, answered>>

(* Mutant: every question is asked of a new snapshot.                              *)
GetSchemaMeta_Fresh(m) ==
  /\ snapshot' = [snapshot EXCEPT ![m] = Len(history)]
  /\ answered' = [answered EXCEPT ![m] = @ \cup {Len(history)}]
  /\ heldSnapshots' = heldSnapshots + 1

(* _get_schema_meta: the snapshot, taken when it is first asked for; the driver    *)
(* may have none.  The Session is not kept alive: without it anything may come     *)
(* back.                                                                           *)
GetSchemaMeta(m) ==
  \/ /\ snapshot[m] # Null
     /\ answered' = [answered EXCEPT ![m] = @ \cup {snapshot[m]}]
     /\ UNCHANGED <<snapshot, heldSnapshots>>
  \/ /\ snapshot[m] = Null /\ session = "held"
     /\ snapshot' = [snapshot EXCEPT ![m] = Len(history)]
     /\ answered' = [answered EXCEPT ![m] = @ \cup {Len(history)}]
     /\ heldSnapshots' = heldSnapshots + 1
  \/ /\ snapshot[m] = Null /\ session = "held"
     /\ UNCHANGED <<snapshot, answered, heldSnapshots>>
  \/ /\ snapshot[m] = Null /\ session = "freed"
     /\ snapshot' = [snapshot EXCEPT ![m] = Garbage]
     /\ answered' = [answered EXCEPT ![m] = @ \cup {Garbage}]
     /\ UNCHANGED heldSnapshots

(* Any of the getters.                                                             *)
Ask(m) ==
  /\ snapshot[m] \notin {Unmade, Freed}
  /\ GetSchemaMeta(m)
  /\ UNCHANGED <<history, session>>

SnapshotNext ==
  \/ Change \/ SessionFreed
  \/ \E m \in Metas : NewMetadata(m) \/ Ask(m) \/ DeallocMetadata(m)

--------------------------------------------------------------------------------
(* Whatever happens to the schema and to the Session, the answers of one Metadata  *)
(* are all of one schema; and its snapshot is given back once.                     *)
OneSnapshot ==
  /\ \A m \in Metas : Cardinality(answered[m]) <= 1
  /\ heldSnapshots = Cardinality({m \in Metas : snapshot[m] > 0})

================================================================================
