-------------------------------- MODULE Schema --------------------------------
(* What a Metadata says of a keyspace, as its snapshot has it, and the CQL that is *)
(* to recreate the keyspace, replayed under a new name.  Iterators of the driver   *)
(* are sequences, in the order of the names; table options, function bodies and    *)
(* the wording of the CQL are left out.                                            *)
EXTENDS Snapshots, SequencesExt

VARIABLE replay  \* << >> or <<[from, full, script, built, refused]>>

scriptVars == <<snapshotVars, replay>>

Named(s) == [i \in DOMAIN s |-> s[i].name]
EachOf(s, Of(_)) == FlattenSeq([i \in DOMAIN s |-> Of(s[i])])

--------------------------------------------------------------------------------
(* What a Metadata reads from its snapshot.                                        *)

(* A field's type has its arguments, and they have lost theirs.                    *)
Collections == {"list", "set", "map", "tuple"}
NestedTypes(type) == [i \in DOMAIN type.args |-> [type.args[i] EXCEPT !.args = << >>]]
FieldMeta(type) ==
  [type EXCEPT !.args = IF type.name \in Collections THEN NestedTypes(type) ELSE << >>]
UserTypesMeta(k) ==
  [i \in DOMAIN k.types |->
     [k.types[i] EXCEPT !.fields = [j \in DOMAIN @ |-> FieldMeta(@[j])]]]

(* A view with the name of an index's own table is not a view of the table.        *)
IndexTable(i) == <<i.name, "index">>
TableMeta(t) ==
  [t EXCEPT !.views = SelectSeq(@, LAMBDA v : v.name \notin {IndexTable(t.indexes[i]) : i \in DOMAIN t.indexes})]
TablesMeta(k) == [i \in DOMAIN k.tables |-> TableMeta(k.tables[i])]
IndexesMeta(k) == EachOf(TablesMeta(k), LAMBDA t : t.indexes)
ViewsMeta(k) == EachOf(k.tables, LAMBDA t : t.views)

KeyspaceMeta(k) == [k EXCEPT !.types = UserTypesMeta(k), !.tables = TablesMeta(k)]

(* get_user_types_meta and its kind.                                               *)
MetaKinds == {"types", "functions", "aggregates", "tables", "indexes", "views"}
GetMetas(k, kind) ==
  CASE kind = "types"      -> UserTypesMeta(k)
    [] kind = "functions"  -> k.functions
    [] kind = "aggregates" -> k.aggregates
    [] kind = "tables"     -> TablesMeta(k)
    [] kind = "indexes"    -> IndexesMeta(k)
    [] kind = "views"      -> ViewsMeta(k)

--------------------------------------------------------------------------------
(* as_cql_query: statements, as what they say.                                     *)
TypeQuery(t) == <<[create |-> "type", name |-> t.name, fields |-> t.fields]>>
FunctionQuery(f) == <<[create |-> "function", function |-> f]>>
AggregateQuery(a) == <<[create |-> "aggregate", aggregate |-> a]>>
IndexQuery(t, i) == <<[create |-> "index", table |-> t.name, name |-> i.name, target |-> i.target]>>

KeyOf(columns) ==
  Named(SelectSeq(columns, LAMBDA c : c.kind \in {"partition_key", "clustering"}))

(* Mutant: a clustering order of a column is always taken for ascending.           *)
OrderOf_Ascending(columns) ==
  LET ordered == SelectSeq(columns, LAMBDA c : c.order # "none")
  IN  [i \in DOMAIN ordered |-> [name |-> ordered[i].name, order |-> "asc"]]

OrderOf(columns) ==
  LET ordered == SelectSeq(columns, LAMBDA c : c.order # "none")
  IN  [i \in DOMAIN ordered |-> [name |-> ordered[i].name, order |-> ordered[i].order]]

ViewQuery(t, v) ==
  <<[create |-> "view", name |-> v.name, base |-> t.name,
     columns |-> IF v.all THEN << >> ELSE Named(v.columns), all |-> v.all,
     key |-> KeyOf(v.columns), order |-> OrderOf(v.columns)]>>

TableQuery(t) ==
  <<[create  |-> "table", name |-> t.name,
     columns |-> [i \in DOMAIN t.columns |-> [name |-> t.columns[i].name, type |-> t.columns[i].type]],
     key     |-> KeyOf(t.columns), order |-> OrderOf(t.columns)]>>
    \o EachOf(t.indexes, LAMBDA i : IndexQuery(t, i))
    \o EachOf(t.views, LAMBDA v : ViewQuery(t, v))

(* Mutant: aggregates before their functions.                                      *)
KeyspaceQuery_AggregatesFirst(k, full) ==
  <<[create |-> "keyspace"]>>
    \o (IF full THEN EachOf(k.types, TypeQuery) \o EachOf(k.aggregates, AggregateQuery)
                       \o EachOf(k.functions, FunctionQuery) \o EachOf(k.tables, TableQuery)
        ELSE << >>)

KeyspaceQuery(k, full) ==
  <<[create |-> "keyspace"]>>
    \o (IF full THEN EachOf(k.types, TypeQuery) \o EachOf(k.functions, FunctionQuery)
                       \o EachOf(k.aggregates, AggregateQuery) \o EachOf(k.tables, TableQuery)
        ELSE << >>)

--------------------------------------------------------------------------------
(* The server that is given the script.  The first column of a key is its          *)
(* partition key, unless the columns of it are in brackets of their own.           *)
Empty == [types |-> << >>, functions |-> << >>, aggregates |-> << >>, tables |-> << >>]
Has(s, name) == \E i \in DOMAIN s : s[i].name = name
Place(s, name) == CHOOSE i \in DOMAIN s : s[i].name = name

(* Types whose collections have arguments and whose names there are; two deep, as  *)
(* deep as a script can name those of a field.                                     *)
NameKnown(k, type) ==
  IF type.name \in Collections THEN type.args # << >>
  ELSE type.name = "int" \/ Has(k.types, type.name)
Known(k, type) == NameKnown(k, type) /\ \A i \in DOMAIN type.args : NameKnown(k, type.args[i])

KindIn(key, name) ==
  CASE name = key[1] -> "partition_key"
    [] name # key[1] /\ name \in Range(key) -> "clustering"
    [] OTHER -> "regular"

Column(c, key, order) ==
  LET kind == KindIn(key, c.name)
  IN  [name |-> c.name, type |-> c.type, kind |-> kind,
       order |-> CASE kind # "clustering" -> "none"
                   [] kind = "clustering" /\ Has(order, c.name) -> order[Place(order, c.name)].order
                   [] OTHER -> "asc"]

KeyTaken(key, order) == key # << >> /\ IsPrefix(Named(order), Tail(key))

Partition(t) == Named(SelectSeq(t.columns, LAMBDA c : c.kind = "partition_key"))

(* The columns of a view: those of its key, then the others of its table.          *)
ViewColumns(st, t) ==
  LET chosen == IF st.all THEN Named(t.columns) ELSE st.columns
      names  == st.key \o SelectSeq(chosen, LAMBDA n : n \notin Range(st.key))
  IN  [i \in DOMAIN names |-> Column(t.columns[Place(t.columns, names[i])], st.key, st.order)]

Taken(st, k) ==
  CASE st.create = "keyspace"  -> TRUE
    [] st.create = "type"      -> \A i \in DOMAIN st.fields : Known(k, st.fields[i])
    [] st.create = "function"  -> \A i \in DOMAIN st.function.args : Known(k, st.function.args[i])
    [] st.create = "aggregate" -> /\ {st.aggregate.state_func, st.aggregate.final_func} \subseteq Range(Named(k.functions))
                                  /\ Known(k, st.aggregate.state_type) /\ st.aggregate.initcond # None
    [] st.create = "table"     -> /\ \A i \in DOMAIN st.columns : Known(k, st.columns[i].type)
                                  /\ KeyTaken(st.key, st.order)
    [] st.create = "index"     -> /\ Has(k.tables, st.table)
                                  /\ st.target.pk \in {<< >>, Partition(k.tables[Place(k.tables, st.table)])}
    [] st.create = "view"      -> /\ Has(k.tables, st.base)
                                  /\ KeyTaken(st.key, st.order) /\ st.order # << >>

Created(st, k) ==
  CASE st.create = "keyspace"  -> k
    [] st.create = "type"      -> [k EXCEPT !.types = Append(@, [name |-> st.name, fields |-> st.fields])]
    [] st.create = "function"  -> [k EXCEPT !.functions = Append(@, st.function)]
    [] st.create = "aggregate" -> [k EXCEPT !.aggregates = Append(@, st.aggregate)]
    [] st.create = "table"     ->
         [k EXCEPT !.tables = Append(@,
            [name |-> st.name, indexes |-> << >>, views |-> << >>,
             columns |-> [i \in DOMAIN st.columns |-> Column(st.columns[i], st.key, st.order)]])]
    [] st.create = "index"     ->
         [k EXCEPT !.tables[Place(k.tables, st.table)].indexes =
            Append(@, [name |-> st.name, target |-> st.target, kind |-> "composites"])]
    [] st.create = "view"      ->
         LET t == Place(k.tables, st.base)
         IN  [k EXCEPT !.tables[t].views =
                Append(@, [name |-> st.name, all |-> st.all, columns |-> ViewColumns(st, k.tables[t])])]

--------------------------------------------------------------------------------
ScriptInit == SnapshotInit /\ replay = << >>

(* get_keyspace_meta of a Metadata that has answered, and as_cql_query of that: a  *)
(* keyspace that is not in the snapshot is not found.                              *)
Recreate(m, full) ==
  /\ replay = << >> /\ snapshot[m] > 0
  /\ history[snapshot[m]] # None
  /\ replay' = <<[from |-> snapshot[m], full |-> full, built |-> Empty, refused |-> << >>,
                  script |-> KeyspaceQuery(KeyspaceMeta(history[snapshot[m]]), full)]>>
  /\ UNCHANGED snapshotVars

(* The program executes the next statement, and goes on when one is refused.        *)
Execute ==
  /\ replay # << >> /\ replay[1].script # << >>
  /\ LET st == Head(replay[1].script)
         k  == replay[1].built
     IN  replay' = IF Taken(st, k)
                   THEN <<[replay[1] EXCEPT !.script = Tail(@), !.built = Created(st, k)]>>
                   ELSE <<[replay[1] EXCEPT !.script = Tail(@), !.refused = Append(@, st.create)]>>
  /\ UNCHANGED snapshotVars

(* While a script is executed nothing else happens: it depends on nothing else.    *)
ScriptNext ==
  \/ replay = << >> /\ SnapshotNext /\ UNCHANGED replay
  \/ \E m \in Metas, full \in BOOLEAN : Recreate(m, full)
  \/ Execute

ScriptSpec == ScriptInit /\ [][ScriptNext]_scriptVars

--------------------------------------------------------------------------------
(* Properties.                                                                     *)

Source == history[replay[1].from]
Done == replay # << >> /\ replay[1].script = << >>

(* "Returns a CQL query string that can be used to recreate the entire keyspace     *)
(* including UDT, functions, tables, indexes and materialized views"               *)
(* (base.py:1981): no statement is refused, and a Metadata of the recreated         *)
(* keyspace lists the same as that of the original.  This fails in several ways.    *)
RecreatesKeyspace ==
  Done /\ replay[1].full =>
    /\ replay[1].refused = << >>
    /\ \A kind \in MetaKinds : GetMetas(replay[1].built, kind) = GetMetas(Source, kind)

(* What statements are refused for that as_cql_query has made: a collection in a    *)
(* collection of a field; a type used by one of an earlier name; an aggregate       *)
(* without a final function or a first value; a view without clustering columns; a  *)
(* clustering order, or an index, that does not go with the key; and so             *)
(* RecreatesKeyspace is kept to keyspaces without these.                            *)
Nests(type) == \E i \in DOMAIN type.args : type.args[i].args # << >>
Mentions(type, name) == type.name = name \/ \E i \in DOMAIN type.args : type.args[i].name = name
UsesLater(k) ==
  \E i, j \in DOMAIN k.types : i <= j /\ \E f \in Range(k.types[i].fields) : Mentions(f, k.types[j].name)
Unfinished(a) == a.final_func = None \/ a.initcond = None
Clusters(columns) == \E i \in DOMAIN columns : columns[i].kind = "clustering"
Composite(columns) == Cardinality({i \in DOMAIN columns : columns[i].kind = "partition_key"}) > 1

Sayable(k) ==
  /\ ~UsesLater(k)
  /\ \A t \in Range(k.types) : \A f \in Range(t.fields) : ~Nests(f)
  /\ \A a \in Range(k.aggregates) : ~Unfinished(a)
  /\ \A t \in Range(TablesMeta(k)) :
       /\ Composite(t.columns) => ~Clusters(t.columns) /\ \A i \in Range(t.indexes) : i.target.pk = << >>
       /\ \A v \in Range(t.views) : ~Composite(v.columns) /\ Clusters(v.columns)

(* Everything else can be executed: each statement finds the types, functions,      *)
(* tables and keys it uses, made by earlier ones.                                   *)
FindsWhatItNeeds == replay # << >> /\ Sayable(Source) => replay[1].refused = << >>

(* What statements that are taken leave out: a partition key of several columns,    *)
(* that columns are static, the class of an index, and a view that has the name of  *)
(* an index's table.                                                                *)
SaysAll(t) ==
  /\ \A c \in Range(t.columns) : c.kind # "static"
  /\ ~Composite(t.columns) /\ \A v \in Range(t.views) : ~Composite(v.columns)
  /\ \A i \in Range(t.indexes) : i.kind # "custom" /\ ~Has(t.views, IndexTable(i))

(* Everything else is recreated: a Metadata of the new keyspace lists the same as   *)
(* that of the original.                                                            *)
Recreates ==
  Done /\ replay[1].full /\ replay[1].refused = << >> /\ (\A t \in Range(Source.tables) : SaysAll(t)) =>
    \A kind \in MetaKinds : GetMetas(replay[1].built, kind) = GetMetas(Source, kind)

================================================================================
