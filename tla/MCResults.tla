------------------------------ MODULE MCResults -------------------------------
EXTENDS Results

(* A second has 14 milliseconds of 10 microseconds of 10 nanoseconds, a float 10   *)
(* bits: two milliseconds can be lost from 24 milliseconds on, and more than that  *)
(* from 511 on.  With 10 milliseconds to a second two never are, as of 14 here or  *)
(* of 1000 in the code.                                                            *)
MCMantissa == 2^10
MCFraction == 2^16
MCUlps == {2^i : i \in 0..16}

Dates == { x \in [y : {1, 1900, 1969, 1970, 1972, 2000, 2023, 9999}, m : {1, 2, 3, 12}, d : {1, 28, 29, 31}] : IsDate(x) }
DateEdges == {24 * day : day \in {-719163, -719162, 2932896, 2932897}}
Times == [hour : {0, 23}, minute : {0, 59}, second : {0, 59}, micro : {0, 99}, offset : {-3600, 0, 60, 19800}]
Deltas == [days : {-1, 0, 1}, seconds : {0, 1, 3661, 86399}, micros : {0, 1, 99}]
Durations == [months : {-13, -1, 0, 25}, days : {-1, 0, 8}, nanos : {-3661001, -1, 0, 999, 59000, 7384321}]

Of(type, values) == {[type |-> type, v |-> v] : v \in values}

MCCells == Of("date", Dates) \cup Of("date", [number : -25..25 \cup DateEdges])
             \cup Of("time", Times) \cup Of("time", [number : {-3600, -1, 0, 59, 86399, 86400}])
             \cup Of("timestamp", [micros : {10 * ms : ms \in -510..-490 \cup -30..30 \cup 490..510} \cup {10 * ms + 9 : ms \in -9..9}])
             \cup Of("timestamp", [number : -20..20])
             \cup Of("timedelta", Deltas) \cup Of("duration", Durations)
             \cup {[type |-> type, v |-> None] : type \in {"null", "collection", "other"}}

================================================================================
