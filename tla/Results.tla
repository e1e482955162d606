-------------------------------- MODULE Results -------------------------------
(* A Result, the rows taken from it and the iterators behind them, and the reading *)
(* of their values.  Rows keep their Result alive.  A Row of an iteration is a     *)
(* pointer into the iterator and moves on with it.                                 *)
EXTENDS Python, Values, FiniteSets

CONSTANTS
  Cells,     \* values the first row may have: records with a type and a value
  RowCount,  \* rows of the result
  MaxIters,  \* iterations of it
  MaxSize,   \* elements of a collection
  MaxDepth,  \* collections in collections
  MaxLost    \* iterators left behind, after which no more is read

ASSUME CountsAreNat == {RowCount, MaxIters, MaxSize, MaxDepth, MaxLost} \subseteq Nat

VARIABLES
  cell,    \* what was bound, and stored, as the value of the first row
  native,  \* native_types of the result
  result,  \* "held" by the program, "dropped", or "freed"
  iters,   \* the driver's iterators: row, rows yielded, state
  rows,    \* Rows the program holds
  frames,  \* collections that are being read, the innermost last
  live,    \* their iterators, made and not freed
  lost,    \* of those, the ones nobody holds any more
  got      \* the latest value read: << >> or <<record>>

resultVars == <<cell, native, result, iters, rows, frames, live, lost, got>>

--------------------------------------------------------------------------------
(* get_cass_value: the value stored for v, and read again.  Values of the other    *)
(* types are converted one way or another, which is left out: what is read is      *)
(* something.                                                                      *)
ReadBack(c) ==
  CASE c.type = "null"      -> Gives(None)
    [] c.type = "date"      -> Date(AsCassDate(c.v), native)
    [] c.type = "time"      -> Time(AsCassTime(c.v), native)
    [] c.type = "timestamp" -> Timestamp(AsCassTimestamp(c.v))
    [] c.type = "timedelta" -> LET d == AsCassDuration(c.v) IN Gives(IF native THEN d ELSE DurationStr(d))
    [] c.type = "duration"  -> Gives(IF native THEN c.v ELSE DurationStr(c.v))
    [] OTHER                -> Gives("something")

Value(row) == IF row = 1 THEN cell ELSE [type |-> "other", v |-> [row |-> row]]

(* The row that a Row points to.                                                   *)
RowOf(r) == IF r.iter = 0 THEN 1 ELSE iters[r.iter].row

Idle == frames = << >>

ResultInit ==
  /\ cell \in Cells /\ native \in BOOLEAN
  /\ result = "held" /\ iters = << >> /\ rows = {}
  /\ frames = << >> /\ live = 0 /\ lost = 0 /\ got = << >>

(* Result.first                                                                    *)
First ==
  /\ Idle /\ result = "held" /\ RowCount > 0
  /\ rows' = rows \cup {[iter |-> 0, own |-> 1]}
  /\ UNCHANGED <<cell, native, result, iters, frames, live, lost, got>>

(* Result.all and __iter__: a generator, which makes its iterator when it is first *)
(* asked for a row.                                                                *)
All ==
  /\ Idle /\ result = "held" /\ Len(iters) < MaxIters
  /\ iters' = Append(iters, [row |-> 0, yielded |-> 0, state |-> "running"])
  /\ UNCHANGED <<cell, native, result, rows, frames, live, lost, got>>

(* Mutant: the iterator is moved on before the Row is handed out.                  *)
Next_Ahead(i) ==
  /\ Idle /\ iters[i].state = "running" /\ iters[i].row < RowCount
  /\ LET n == iters[i].yielded + 1
     IN  /\ iters' = [iters EXCEPT ![i].row = IF n < RowCount THEN n + 1 ELSE n, ![i].yielded = n]
         /\ rows' = rows \cup {[iter |-> i, own |-> n]}
  /\ UNCHANGED <<cell, native, result, frames, live, lost, got>>

NextRow(i) ==
  /\ Idle /\ iters[i].state = "running" /\ iters[i].row < RowCount
  /\ LET n == iters[i].yielded + 1
     IN  /\ iters' = [iters EXCEPT ![i].row = n, ![i].yielded = n]
         /\ rows' = rows \cup {[iter |-> i, own |-> n]}
  /\ UNCHANGED <<cell, native, result, frames, live, lost, got>>

(* Mutant: who is done with an iterator frees it.                                  *)
Finish_Frees(i) ==
  /\ Idle /\ iters[i].state = "running"
  /\ iters' = [iters EXCEPT ![i].state = "freed"]
  /\ UNCHANGED <<cell, native, result, rows, frames, live, lost, got>>

(* The last row has been taken, or the program drops the generator: the iterator   *)
(* is left to the Result.                                                          *)
Finish(i) ==
  /\ Idle /\ iters[i].state = "running"
  /\ iters' = [iters EXCEPT ![i].state = "kept"]
  /\ UNCHANGED <<cell, native, result, rows, frames, live, lost, got>>

DropRow(r) ==
  /\ Idle
  /\ rows' = rows \ {r}
  /\ UNCHANGED <<cell, native, result, iters, frames, live, lost, got>>

DropResult ==
  /\ Idle /\ result = "held"
  /\ result' = "dropped"
  /\ UNCHANGED <<cell, native, iters, rows, frames, live, lost, got>>

(* Result.__dealloc__, when neither the program nor a Row nor a generator refers   *)
(* to it.                                                                          *)
Dealloc ==
  /\ Idle /\ result = "dropped" /\ rows = {}
  /\ \A i \in DOMAIN iters : iters[i].state # "running"
  /\ result' = "freed"
  /\ iters' = [i \in DOMAIN iters |-> [iters[i] EXCEPT !.state = "freed"]]
  /\ UNCHANGED <<cell, native, rows, frames, live, lost, got>>

--------------------------------------------------------------------------------
(* Row.column_value, column_value_by_index and what is built on them.              *)
Fresh(r) == r.iter = 0 \/ r.own = iters[r.iter].yielded
Got(r, of, v) == got' = <<[own |-> r.own, fresh |-> Fresh(r), row |-> RowOf(r), of |-> of, v |-> v]>>

Read(r) ==
  /\ Idle /\ r \in rows
  /\ Value(RowOf(r)).type # "collection"
  /\ Got(r, "value", ReadBack(Value(RowOf(r))))
  /\ UNCHANGED <<cell, native, result, iters, rows, frames, live, lost>>

(* A column the row has not raises ColumnNotFound; as an attribute it is None.     *)
ReadMissing(r) ==
  /\ Idle /\ r \in rows
  /\ \E v \in {Raised, Gives(None)} : Got(r, "nothing", v)
  /\ UNCHANGED <<cell, native, result, iters, rows, frames, live, lost>>

(* Collections are read by an iterator of their own, a frame per call of _map,     *)
(* _set, _list, _tuple or _udt.  Without an iterator there is None.                *)
CollectionKinds == {"map", "set", "list", "tuple", "udt"}
Top == frames[Len(frames)]
Rest == SubSeq(frames, 1, Len(frames) - 1)
OneLess(fs) == [fs EXCEPT ![Len(fs)].left = @ - 1]

ReadCollection(r, k, n) ==
  /\ Idle /\ r \in rows /\ lost < MaxLost
  /\ Value(RowOf(r)).type = "collection"
  /\ live' = live + 1
  /\ frames' = <<[kind |-> k, left |-> n]>>
  /\ Got(r, "collection", Gives("collection"))
  /\ UNCHANGED <<cell, native, result, iters, rows, lost>>

Nested(k, n) ==
  /\ ~Idle /\ Top.left > 0 /\ Len(frames) < MaxDepth
  /\ live' = live + 1
  /\ frames' = Append(frames, [kind |-> k, left |-> n])
  /\ UNCHANGED <<cell, native, result, iters, rows, lost, got>>

(* What raises while a collection is read leaves its iterators behind.             *)
Leaves(open) == frames' = << >> /\ lost' = lost + open /\ got' = <<[got[1] EXCEPT !.v = Raised]>>

(* An element that is null or a scalar; or one that has no value in Python.        *)
Element ==
  /\ ~Idle /\ Top.left > 0
  /\ (frames' = OneLess(frames) /\ UNCHANGED <<lost, got>>) \/ Leaves(Len(frames))
  /\ UNCHANGED <<cell, native, result, iters, rows, live>>

(* Mutant: the iterator of a tuple is not freed.                                   *)
CloseNested_KeepsTuple ==
  /\ Len(frames) > 1 /\ Top.left = 0
  /\ live' = IF Top.kind = "tuple" THEN live ELSE live - 1
  /\ (frames' = OneLess(Rest) /\ UNCHANGED <<lost, got>>)
  /\ UNCHANGED <<cell, native, result, iters, rows>>

(* Lists, sets and dicts, and tuples of them, cannot be elements of a set or keys  *)
(* of a dict: adding one there raises.                                             *)
CloseNested ==
  /\ Len(frames) > 1 /\ Top.left = 0
  /\ live' = live - 1
  /\ LET outer == Rest[Len(Rest)].kind
     IN  \/ /\ Top.kind = "tuple" \/ outer # "set"
            /\ frames' = OneLess(Rest) /\ UNCHANGED <<lost, got>>
         \/ /\ outer \in {"set", "map"}
            /\ Leaves(Len(Rest))
  /\ UNCHANGED <<cell, native, result, iters, rows>>

CloseCollection ==
  /\ Len(frames) = 1 /\ Top.left = 0
  /\ live' = live - 1 /\ frames' = << >>
  /\ UNCHANGED <<cell, native, result, iters, rows, lost, got>>

ResultNext ==
  \/ First \/ All \/ DropResult \/ Dealloc
  \/ \E i \in DOMAIN iters : NextRow(i) \/ Finish(i)
  \/ \E r \in rows : DropRow(r) \/ Read(r) \/ ReadMissing(r)
  \/ \E k \in CollectionKinds, n \in 0..MaxSize : Nested(k, n) \/ \E r \in rows : ReadCollection(r, k, n)
  \/ Element \/ CloseNested \/ CloseCollection

ResultSpec == ResultInit /\ [][ResultNext]_resultVars

--------------------------------------------------------------------------------
(* Properties.                                                                     *)

(* What a Row points to is there as long as the program holds the Row, whatever    *)
(* becomes of the Result, the iteration and the other rows.                        *)
RowsAlive ==
  \A r \in rows : result # "freed" /\ (r.iter # 0 => iters[r.iter].state # "freed")

(* A Row read before its iteration goes on, and the first row at any time, gives   *)
(* its own values; a Row that was kept gives those of a later row.                 *)
ReadsOwnRow == got # << >> => (got[1].fresh => got[1].row = got[1].own) /\ got[1].row >= got[1].own

(* Iterators of collections are freed when they have been read.  Only an exception *)
(* leaves those behind that were open.                                             *)
DecodersAccounted == live = Len(frames) + lost

(* The calendar by its rules, as a reference; and the days of Python's dates.       *)
LeapYears(y)  == y \div 4 - y \div 100 + y \div 400
IsLeap(y)     == y % 4 = 0 /\ (y % 100 # 0 \/ y % 400 = 0)
DaysBefore    == <<0, 31, 59, 90, 120, 151, 181, 212, 243, 273, 304, 334>>
DayNumber(x)  == 365 * (x.y - 1970) + LeapYears(x.y - 1) - LeapYears(1969)
                   + DaysBefore[x.m] + (IF x.m > 2 /\ IsLeap(x.y) THEN 1 ELSE 0) + x.d - 1

MonthLength(y, m) == CASE m \in {4, 6, 9, 11} -> 30
                       [] m = 2 -> IF IsLeap(y) THEN 29 ELSE 28
                       [] OTHER -> 31
IsDate(x)     == x \in [y : Int, m : 1..12, d : 1..31] /\ x.d <= MonthLength(x.y, x.m)
FirstOfPython == -719162
LastOfPython  == 2932896
PythonDays    == FirstOfPython..LastOfPython
IntDays       == -DateBias..(DateBias - 1 - 719468)

(* What a program can bind: Python's dates, times and timedeltas, durations, and   *)
(* numbers.  Those given for dates may be further away than Python's dates, but    *)
(* civil_from_days adds 719468 to their days, in an int.  Timestamps may be so far *)
(* away as floats have halves of milliseconds, which Python's datetimes are not.   *)
Near(n) == 2 * (Magnitude(n) + 1) < Mantissa
Proper(c) ==
  CASE c.type = "date" ->
         \/ IsDate(c.v) /\ c.v.y \in PythonYears
         \/ c.v \in [number : Int] /\ Quotient(c.v.number, DaySeconds) \in IntDays
    [] c.type = "time" ->
         \/ c.v \in [number : Int]
         \/ c.v \in [hour : 0..23, minute : 0..59, second : 0..59, micro : 0..(MicrosPerSecond - 1), offset : Int]
    [] c.type = "timestamp" -> \/ c.v \in [micros : Int] /\ Near(c.v.micros \div MicrosPerMilli)
                               \/ c.v \in [number : Int] /\ Near(c.v.number * MillisPerSecond)
    [] c.type = "timedelta" -> c.v \in [days : Int, seconds : Nat, micros : 0..(MicrosPerSecond - 1)]
    [] c.type = "duration"  -> c.v \in [months : Int, days : Int, nanos : Int]
    [] OTHER -> TRUE

ASSUME CellsAreProper == DateBias > LastOfPython /\ \A c \in Cells : Proper(c)

DateReadsBack(v, r) ==
  LET days == v.number \div DaySeconds + (IF v.number < 0 /\ v.number % DaySeconds # 0 THEN 1 ELSE 0)
  IN  IF ~IsNumber(v) THEN r = Gives(v) /\ AsCassDate(v) = DateBias + DayNumber(v)
      ELSE IF native \/ days \in PythonDays THEN ~r.raised /\ IsDate(r.v) /\ DayNumber(r.v) = days
      ELSE r = Raised

LastSecond == 86399
SecondsOfDay == 0..LastSecond
TimeReadsBack(v, r) ==
  LET seconds == IF IsNumber(v) THEN v.number ELSE SecondsOf(v) - v.offset
      micro   == IF IsNumber(v) THEN 0 ELSE v.micro
      inDay   == seconds \in SecondsOfDay
  IN  /\ ~native => (r.raised <=> ~inDay)
      /\ inDay => /\ SecondsOf(r.v.time) = seconds /\ r.v.time.minute \in 0..59 /\ r.v.time.second \in 0..59
                 /\ IF native THEN r.v.nano = micro * NanosPerMicro ELSE r.v.micro = micro

TimestampWithin(v, r) ==
  LET t == IF IsNumber(v) THEN v.number * MicrosPerSecond ELSE (v.micros \div MicrosPerMilli) * MicrosPerMilli
  IN  IF t \div (DaySeconds * MicrosPerSecond) \in PythonDays
      THEN /\ ~r.raised /\ r.v \in {t, t - MicrosPerMilli, t - 2 * MicrosPerMilli}
           /\ r.v \div MicrosPerSecond = t \div MicrosPerSecond
           /\ 2 * (Magnitude(t) + 2 * MicrosPerSecond) < Mantissa => r.v # t - 2 * MicrosPerMilli
      ELSE r = Raised

(* The text that is read means, when it is bound again, what was bound, if months, *)
(* days and nanoseconds have no different signs, and are not all zero.             *)
Parts(d) == {d.months, d.days, d.nanos}
DurationReadsBack(d, r) ==
  IF native THEN r.v = d
  ELSE LET again == ParseDurationStr(r.v)
       IN  CASE Parts(d) = {0} -> again = Raised
             [] Parts(d) # {0} /\ ((\A x \in Parts(d) : x >= 0) \/ (\A x \in Parts(d) : x <= 0)) -> again = Gives(d)
             [] OTHER -> LET sign == IF Leading(d) < 0 THEN -1 ELSE 1
                         IN  again = Gives(Duration(sign * Magnitude(d.months), sign * Magnitude(d.days),
                                                    sign * Magnitude(d.nanos)))

(* Dates, times, durations and None are read as they were bound.  Not quite: a date *)
(* given as seconds before the epoch is the day after when they are not whole days; *)
(* a time with an offset that takes it out of its day cannot be read, nor can a     *)
(* number of seconds for a day Python has no date for; durations of both signs read *)
(* as if all of it had the sign of the first non-zero part (a negative timedelta    *)
(* does).  Of values of other types nothing is said.                                *)
ReadCell == got # << >> /\ got[1].of = "value" /\ got[1].row = 1
ReadsBack ==
  ReadCell =>
    LET r == got[1].v
    IN  CASE cell.type = "date"      -> DateReadsBack(cell.v, r)
          [] cell.type = "time"      -> TimeReadsBack(cell.v, r)
          [] cell.type = "duration"  -> DurationReadsBack(cell.v, r)
          [] cell.type = "timedelta" -> DurationReadsBack(AsCassDuration(cell.v), r)
          [] cell.type = "null"      -> r = Gives(None)
          [] OTHER                   -> TRUE

(* A bound on what is lost of a timestamp, which TimestampsReadBack says should be *)
(* nothing: one millisecond, or two where floats have no halves of microseconds    *)
(* (before 1828 or after 2111); never more, and never into an earlier second, so   *)
(* that whole seconds are kept.                                                    *)
TimestampLossBounded == ReadCell /\ cell.type = "timestamp" => TimestampWithin(cell.v, got[1].v)

(* A datetime that is bound is the datetime that is read, cut to milliseconds:     *)
(* "assert row.column_value("value_timestamp") == value" (tests/test_row.py:473),  *)
(* and likewise tests/cql_types.py:173-240.  It is not.                            *)
TimestampsReadBack ==
  ReadCell /\ cell.type = "timestamp" /\ ~IsNumber(cell.v) =>
    got[1].v = Gives((cell.v.micros \div MicrosPerMilli) * MicrosPerMilli)

================================================================================
