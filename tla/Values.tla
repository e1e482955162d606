-------------------------------- MODULE Values --------------------------------
(* The conversions between Python's values and the driver's: bind.pyx on the way   *)
(* in, value.pyx on the way out, and the calendar of utils.cpp.  The units are     *)
(* constants (all 1000, and 86400, in the code), and so is the size of a float.    *)
EXTENDS Integers, Sequences

CONSTANTS
  MillisPerSecond, MicrosPerMilli, NanosPerMicro,
  DaySeconds,  \* seconds of a day, where they only convert days
  DateBias,    \* the date of the epoch: half the range of an unsigned date
  Mantissa,    \* floats have mantissas below this (2^53)
  Fraction,    \* and are multiples of 1/Fraction: enough for the smallest used
  Ulps         \* how far apart they can be, in these: powers of two

ASSUME UnitsArePositive ==
  {MillisPerSecond, MicrosPerMilli, NanosPerMicro, DaySeconds, DateBias, Mantissa, Fraction} \subseteq Nat \ {0}

MicrosPerSecond == MillisPerSecond * MicrosPerMilli
NanosPerSecond  == MicrosPerSecond * NanosPerMicro

(* What doubles are like, whose 53 bits are far more than the units need.          *)
ASSUME FloatsAreBinary ==
  /\ Ulps \subseteq Nat \ {0} /\ {1, Fraction} \subseteq Ulps
  /\ \A u \in Ulps \ {1} : u % 2 = 0 /\ u \div 2 \in Ulps
  /\ \A u, w \in Ulps : u <= w => w % u = 0
ASSUME FloatsAreFine ==
  /\ MillisPerSecond > 1 /\ MicrosPerMilli > 1
  /\ 4 * MicrosPerSecond <= Mantissa /\ MillisPerSecond * Mantissa <= 2 * Fraction

Raised == [raised |-> TRUE]
Gives(v) == [raised |-> FALSE, v |-> v]

(* Values are records; a plain number is [number |-> n].                           *)
IsNumber(v) == DOMAIN v = {"number"}

Magnitude(n) == IF n < 0 THEN -n ELSE n

(* Division as C does it, towards zero; \div and % are Python's // and divmod.     *)
Quotient(a, b) == IF a >= 0 THEN a \div b ELSE -((-a) \div b)

--------------------------------------------------------------------------------
(* Calendar: days since the first of January 1970.  Months are counted from March. *)
FirstDay(mp)      == (153 * mp + 2) \div 5
CalendarMonth(mp) == IF mp < 10 THEN mp + 3 ELSE mp - 9

DaysFromCivil(y0, m, d) ==
  LET y   == IF m <= 2 THEN y0 - 1 ELSE y0
      era == Quotient(IF y >= 0 THEN y ELSE y - 399, 400)
      yoe == y - era * 400
      doy == FirstDay(IF m > 2 THEN m - 3 ELSE m + 9) + d - 1
      doe == yoe * 365 + yoe \div 4 - yoe \div 100 + doy
  IN  era * 146097 + doe - 719468

(* The way back has stages: an era of 400 years, the year and the day of it, and   *)
(* the month, all from the first of March.                                         *)
EraOf(z) == Quotient(IF z >= 0 THEN z ELSE z - 146096, 146097)

(* Mutant: the last day of the 400 years is not corrected.                         *)
YearOfEra_NoLastDay(doe) == (doe - doe \div 1460 + doe \div 36524) \div 365

YearOfEra(doe)  == (doe - doe \div 1460 + doe \div 36524 - doe \div 146096) \div 365
DayOfYear(doe)  == LET yoe == YearOfEra(doe) IN doe - (365 * yoe + yoe \div 4 - yoe \div 100)
MonthOfDay(doy) == (5 * doy + 2) \div 153

CivilFromDays(z0) ==
  LET z   == z0 + 719468
      era == EraOf(z)
      doe == z - era * 146097
      doy == DayOfYear(doe)
      mp  == MonthOfDay(doy)
      m   == CalendarMonth(mp)
  IN  [y |-> YearOfEra(doe) + era * 400 + (IF m <= 2 THEN 1 ELSE 0), m |-> m, d |-> doy - FirstDay(mp) + 1]

(* Dates go through seconds; the driver divides them, and keeps an unsigned number *)
(* with the epoch in its middle.                                                   *)
EpochSeconds(date) == DaySeconds * DaysFromCivil(date.y, date.m, date.d)
CassDateFromEpoch(secs) == (Quotient(secs, DaySeconds) + DateBias) % (2 * DateBias)
AsCassDate(v) == CassDateFromEpoch(IF IsNumber(v) THEN v.number ELSE EpochSeconds(v))

(* Python has no other dates.                                                      *)
PythonYears == 1..9999

Date(n, native) ==
  LET unsigned == (n - DateBias) % (2 * DateBias)
      days     == IF unsigned >= DateBias THEN unsigned - 2 * DateBias ELSE unsigned
      date     == CivilFromDays(days)
  IN  IF native \/ date.y \in PythonYears THEN Gives(date) ELSE Raised

--------------------------------------------------------------------------------
(* Time of the day, with microseconds and the offset from UTC in seconds, or a     *)
(* number of seconds.                                                              *)
SecondsOf(t) == t.hour * 3600 + t.minute * 60 + t.second

AsCassTime(v) ==
  IF IsNumber(v) THEN v.number * NanosPerSecond
  ELSE (SecondsOf(v) - v.offset) * NanosPerSecond + v.micro * NanosPerMicro

Time(nanos, native) ==
  LET seconds == nanos \div NanosPerSecond
      nano    == nanos % NanosPerSecond
      minutes == seconds \div 60
      hour    == Quotient(minutes, 60)
      minute  == minutes - hour * 60
      time    == [hour |-> hour, minute |-> minute, second |-> seconds % 60]
  IN  IF native THEN Gives([time |-> time, nano |-> nano])
      ELSE IF hour \in 0..23 /\ minute \in 0..59
           THEN Gives([time |-> time, micro |-> nano \div NanosPerMicro])
           ELSE Raised

--------------------------------------------------------------------------------
(* Timestamps are floats on the way.  A float is held here as its multiple of      *)
(* 1/Fraction, and Rounded(a, b) is the one nearest to (a/b)/Fraction, ties to     *)
(* even.                                                                           *)
RoundHalfEven(a, b) ==
  LET k == a \div b
      r == 2 * (a % b)
  IN  IF r > b \/ (r = b /\ k % 2 = 1) THEN k + 1 ELSE k

Rounded(a, b) ==
  LET size == Magnitude(a)
      ulp  == CHOOSE u \in Ulps :
                /\ size \div b < u * Mantissa
                /\ u = 1 \/ size \div b >= (u \div 2) * Mantissa
      near == ulp * RoundHalfEven(size, b * ulp)
  IN  IF a >= 0 THEN near ELSE -near

Float(a, b) == Rounded(a * Fraction, b)

(* Mutant: cut off towards zero, as a cast would.                                  *)
WholeMillis_Cast(micros) == Quotient(micros, MicrosPerMilli) * MicrosPerMilli

(* The microseconds of a datetime are cut to milliseconds, which rounds down.      *)
WholeMillis(micros) == (micros \div MicrosPerMilli) * MicrosPerMilli

(* A datetime, as microseconds since the epoch: less than a millisecond is cut off *)
(* and datetime.timestamp() gives seconds.  Or a number of seconds.                *)
AsCassTimestamp(v) ==
  LET seconds == Float(WholeMillis(v.micros), MicrosPerSecond)
  IN  IF IsNumber(v) THEN v.number * MillisPerSecond
      ELSE Rounded(seconds * MillisPerSecond, 1) \div Fraction

(* datetime.fromtimestamp splits the seconds and rounds to microseconds, which are *)
(* cut to milliseconds again.  It raises when the year is none of Python's.        *)
Timestamp(millis) ==
  LET seconds == Float(millis, MillisPerSecond)
      whole   == Quotient(seconds, Fraction)
      part    == Rounded((seconds - whole * Fraction) * MicrosPerSecond, 1)
      micros  == whole * MicrosPerSecond + RoundHalfEven(part, Fraction)
  IN  IF CivilFromDays(micros \div (DaySeconds * MicrosPerSecond)).y \in PythonYears
      THEN Gives(WholeMillis(micros)) ELSE Raised

--------------------------------------------------------------------------------
(* Durations: months, days and nanoseconds.  A timedelta has days of any sign and  *)
(* the rest of its time, which is not negative.                                    *)
Duration(m, d, n) == [months |-> m, days |-> d, nanos |-> n]

UnitNanos == [h |-> 3600 * NanosPerSecond, m |-> 60 * NanosPerSecond, s |-> NanosPerSecond,
              ms |-> MicrosPerMilli * NanosPerMicro, us |-> NanosPerMicro, ns |-> 1]

(* The text of a duration: whether it starts with a minus, and its numbers by unit.*)
SumOf(text, unit) == IF unit \in DOMAIN text.counts THEN text.counts[unit] ELSE 0

ParseDurationStr(text) ==
  LET months == SumOf(text, "y") * 12 + SumOf(text, "mo")
      days   == SumOf(text, "w") * 7 + SumOf(text, "d")
      nanos  == SumOf(text, "h") * UnitNanos["h"] + SumOf(text, "m") * UnitNanos["m"]
                  + SumOf(text, "s") * UnitNanos["s"] + SumOf(text, "ms") * UnitNanos["ms"]
                  + SumOf(text, "us") * UnitNanos["us"] + SumOf(text, "ns")
  IN  IF DOMAIN text.counts = {} THEN Raised
      ELSE Gives(IF text.minus THEN Duration(-months, -days, -nanos) ELSE Duration(months, days, nanos))

AsCassDuration(delta) == Duration(0, delta.days, delta.seconds * NanosPerSecond + delta.micros * NanosPerMicro)

(* One minus, in front, if the first part that is not zero is negative; what is    *)
(* zero is left out.                                                               *)
Leading(v) == IF v.months # 0 THEN v.months ELSE IF v.days # 0 THEN v.days ELSE v.nanos

Amounts(v) ==
  LET nanos == Magnitude(v.nanos)
      s     == nanos \div NanosPerSecond
      n     == nanos % NanosPerSecond
  IN  [y |-> Magnitude(v.months) \div 12, mo |-> Magnitude(v.months) % 12, d |-> Magnitude(v.days),
       h |-> s \div 3600, m |-> (s % 3600) \div 60, s |-> s % 60,
       ms |-> n \div UnitNanos["ms"], us |-> (n % UnitNanos["ms"]) \div NanosPerMicro, ns |-> n % NanosPerMicro]

DurationStr(v) ==
  LET all == Amounts(v)
  IN  [minus  |-> Leading(v) < 0,
       counts |-> [u \in {x \in DOMAIN all : all[x] # 0} |-> all[u]]]

================================================================================
