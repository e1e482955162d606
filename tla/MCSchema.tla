------------------------------- MODULE MCSchema -------------------------------
EXTENDS Schema

Type(name, args) == [name |-> name, frozen |-> args # << >>, args |-> args]
Number == Type("int", << >>)
UserType(name, field) == [name |-> name, fields |-> <<Number, field>>]
ListOf(type) == Type("list", <<type>>)

(* Two types, the first or the second using the other, directly or in a list; one  *)
(* with a list of lists.                                                           *)
TypeLists ==
  { <<UserType("a", Number), UserType("b", Type("a", << >>))>>,
    <<UserType("a", Number), UserType("b", ListOf(Type("a", << >>)))>>,
    <<UserType("a", Type("b", << >>)), UserType("b", Number)>>,
    <<UserType("a", Number), UserType("b", ListOf(ListOf(Number)))>> }

Functions == <<[name |-> "final", args |-> <<Type("a", << >>)>>], [name |-> "state", args |-> <<Number>>]>>
Aggregate(name, f, i) == [name |-> name, state_func |-> "state", state_type |-> Number, final_func |-> f, initcond |-> i]
Average == <<Aggregate("average", "final", "zero")>>
Aggregates == {Average, <<Aggregate("average", None, "zero")>>, <<Aggregate("average", "final", None)>>}

Col(name, type, kind, order) == [name |-> name, type |-> type, kind |-> kind, order |-> order]
Key(name) == Col(name, Number, "partition_key", "none")
ValueColumn(kind) == Col("v", Type("a", << >>), kind, "none")

ColumnLists ==
  { keys \o clustering \o <<ValueColumn(kind)>> :
      keys \in {<<Key("k")>>, <<Key("k"), Key("l")>>},
      clustering \in {<< >>, <<Col("c", Number, "clustering", "asc")>>,
                      <<Col("c", Number, "clustering", "desc"), Col("d", Number, "clustering", "asc")>>},
      kind \in {"regular", "static"} }

Index(kind, pk) == [name |-> "i", target |-> [pk |-> pk, ck |-> <<"v">>], kind |-> kind]
IndexLists(columns) ==
  {<< >>, <<Index("composites", << >>)>>, <<Index("custom", << >>)>>,
   <<Index("composites", Named(SelectSeq(columns, LAMBDA c : c.kind = "partition_key")))>>}

(* Views by the regular column: (v, key...), with it as a second partition key, or *)
(* in a partition key of all there is.                                             *)
ViewOf(name, columns, keys, all) ==
  LET v    == [ValueColumn("regular") EXCEPT !.kind = "partition_key"]
      rest == SelectSeq(columns, LAMBDA c : c.kind \in {"partition_key", "clustering"})
  IN  [name |-> name, all |-> all,
       columns |-> <<v>> \o [i \in DOMAIN rest |->
                      IF i <= keys THEN [rest[i] EXCEPT !.kind = "partition_key", !.order = "none"]
                      ELSE [rest[i] EXCEPT !.kind = "clustering", !.order = IF @ = "none" THEN "asc" ELSE @]]]
ViewLists(columns) ==
  {<< >>} \cup {<<ViewOf(name, columns, keys, all)>> :
                  name \in {<<"view">>, <<"i", "index">>}, all \in BOOLEAN,
                  keys \in IF Last(columns).kind = "static" THEN {} ELSE {0, 1, Len(columns)}}

Tables ==
  UNION {{[name |-> "t", columns |-> columns, indexes |-> indexes, views |-> views] :
            indexes \in IndexLists(columns), views \in ViewLists(columns)} : columns \in ColumnLists}

Keyspace(types, aggregates, tables) ==
  [types |-> types, functions |-> Functions, aggregates |-> aggregates, tables |-> tables]

TypesInOrder == <<UserType("a", Number), UserType("b", Type("a", << >>))>>
PlainTable == [name |-> "t", columns |-> <<Key("k"), ValueColumn("regular")>>, indexes |-> << >>, views |-> << >>]

(* All types and aggregates beside a plain table, and all tables beside plain ones. *)
MCKeyspaces ==
  {Keyspace(types, aggregates, <<PlainTable>>) : types \in TypeLists, aggregates \in Aggregates}
    \cup {Keyspace(TypesInOrder, Average, <<table>>) : table \in Tables}

(* A keyspace with all that is refused or lost.  Type b uses c; d has a list of     *)
(* lists.  The aggregates have no final function, and no first value.  Table t has  *)
(* a partition key of two columns, w a clustering column as well.  Table u has a    *)
(* static column, a custom index, a view with the name of the index's table and one *)
(* without clustering columns.                                                      *)
Clustering == Col("c", Number, "clustering", "desc")
Hard ==
  LET columns == <<Key("k"), Clustering, Col("s", Number, "static", "none"), ValueColumn("regular")>>
      views   == <<ViewOf(<<"i", "index">>, columns, 0, TRUE), ViewOf(<<"view">>, columns, Len(columns), FALSE)>>
  IN  Keyspace(
        <<UserType("a", Number), UserType("b", Type("c", << >>)), UserType("c", Number),
          UserType("d", ListOf(ListOf(Number)))>>,
        <<Aggregate("average", None, "zero"), Aggregate("total", "final", None)>>,
        <<[PlainTable EXCEPT !.columns = <<Key("k"), Key("l"), ValueColumn("regular")>>],
          [name |-> "u", columns |-> columns, indexes |-> <<Index("custom", << >>)>>, views |-> views],
          [PlainTable EXCEPT !.name = "w",
             !.columns = <<Key("k"), Key("l"), Clustering, ValueColumn("regular")>>]>>)

MCHard == {Hard}

================================================================================
