----------------------------- MODULE CivilTime -----------------------------
(* CivilTime (CivilTime.swift) and the day count of HTTPDate               *)
(* (ResponseCachePolicy.swift), against a calendar that is walked a day at *)
(* a time from the first of January of some year.                          *)
(*                                                                         *)
(* Scale: a day has DayTicks instants, and Int64 goes up to IntMax.  A text *)
(* is the record of its fields: reading and writing digits is left out, but *)
(* how many the year is written with is kept.                               *)
EXTENDS Integers, FiniteSets

CONSTANTS
    Years,          \* the years that are walked
    DayTicks,       \* 86 400 000 000
    IntMax,         \* the largest Int64
    Offsets         \* the UTC offsets a text may carry, in ticks

VARIABLES
    civil,          \* the date
    number          \* how many days after 1970-01-01 it is

vars == <<civil, number>>

-----------------------------------------------------------------------------
(* The calendar, by its rules.                                              *)
Leap(y) == (y % 4 = 0 /\ y % 100 # 0) \/ y % 400 = 0
MonthDays(y, m) == CASE m = 2 -> IF Leap(y) THEN 29 ELSE 28
                     [] m \in {4, 6, 9, 11} -> 30
                     [] OTHER -> 31
NewYear(y) ==
    IF y >= 1970 THEN 365 * (y - 1970) + Cardinality({k \in 1970..(y - 1) : Leap(k)})
    ELSE -(365 * (1970 - y) + Cardinality({k \in y..1969 : Leap(k)}))
Following(c) ==
    IF c.day < MonthDays(c.year, c.month) THEN [c EXCEPT !.day = @ + 1]
    ELSE IF c.month < 12 THEN [c EXCEPT !.day = 1, !.month = @ + 1]
    ELSE [year |-> c.year + 1, month |-> 1, day |-> 1]

Init == \E y \in Years : civil = [year |-> y, month |-> 1, day |-> 1] /\ number = NewYear(y)
Next ==
    /\ Following(civil).year = civil.year
    /\ civil' = Following(civil)
    /\ number' = number + 1
Spec == Init /\ [][Next]_vars

-----------------------------------------------------------------------------
(* The code.  Swift's / truncates.                                          *)
Quot(a, b) == IF a >= 0 THEN a \div b ELSE -((-a) \div b)
Rem(a, b) == a - b * Quot(a, b)
InRange(x) == -IntMax - 1 <= x /\ x <= IntMax
(* What a call comes to: a value, nil, or the trap of an overflow.          *)
Trap == [kind |-> "trap"]
Nil == [kind |-> "nil"]
Instant(x) == [kind |-> "instant", at |-> x]

DayCount(year, month, day, shiftedMonth) ==
    LET y == IF month <= 2 THEN year - 1 ELSE year
        era == Quot(IF y >= 0 THEN y ELSE y - 399, 400)
        yearOfEra == y - era * 400
        dayOfYear == Quot(153 * shiftedMonth + 2, 5) + day - 1
        dayOfEra == yearOfEra * 365 + Quot(yearOfEra, 4) - Quot(yearOfEra, 100) + dayOfYear
    IN era * 146097 + dayOfEra - 719468

(* Mutant: the era of a year before 0 is rounded towards it.                *)
DaysRoundedUp(year, month, day) ==
    LET y == IF month <= 2 THEN year - 1 ELSE year
        era == Quot(y, 400)
        yearOfEra == y - era * 400
        dayOfYear == Quot(153 * (IF month > 2 THEN month - 3 ELSE month + 9) + 2, 5) + day - 1
    IN era * 146097 + yearOfEra * 365 + Quot(yearOfEra, 4) - Quot(yearOfEra, 100) + dayOfYear - 719468
days(year, month, day) == DayCount(year, month, day, IF month > 2 THEN month - 3 ELSE month + 9)

(* HTTPDate's own.                                                          *)
daysSinceEpoch(year, month, day) == DayCount(year, month, day, (month + 9) % 12)

date(dayNumber) ==
    LET z == dayNumber + 719468
        era == Quot(IF z >= 0 THEN z ELSE z - 146096, 146097)
        dayOfEra == z - era * 146097
        yearOfEra == Quot(dayOfEra - Quot(dayOfEra, 1460) + Quot(dayOfEra, 36524) - Quot(dayOfEra, 146096), 365)
        dayOfYear == dayOfEra - (365 * yearOfEra + Quot(yearOfEra, 4) - Quot(yearOfEra, 100))
        shiftedMonth == Quot(5 * dayOfYear + 2, 153)
        month == IF shiftedMonth < 10 THEN shiftedMonth + 3 ELSE shiftedMonth - 9
    IN IF ~InRange(z) THEN Trap
       ELSE [year |-> yearOfEra + era * 400 + (IF month <= 2 THEN 1 ELSE 0), month |-> month,
             day |-> dayOfYear - Quot(153 * shiftedMonth + 2, 5) + 1]

daysInMonth(year, month) ==
    CASE month = 2 -> IF (Rem(year, 4) = 0 /\ Rem(year, 100) # 0) \/ Rem(year, 400) = 0 THEN 29 ELSE 28
      [] month \in {4, 6, 9, 11} -> 30
      [] OTHER -> 31

Abs(x) == IF x < 0 THEN -x ELSE x
Digits(x) == IF x < 10000 THEN 4 ELSE IF x < 100000 THEN 5 ELSE IF x < 1000000 THEN 6 ELSE 7

(* format, as the fields of the text.                                       *)
format(instant, layout) ==
    LET floored == Rem(instant, DayTicks) < 0
        dayNumber == Quot(instant, DayTicks) - (IF floored THEN 1 ELSE 0)
        time == Rem(instant, DayTicks) + (IF floored THEN DayTicks ELSE 0)
        d == date(dayNumber)
        bc == layout # "iso8601" /\ d.year <= 0
    IN [signed |-> ~bc /\ d.year < 0,
        year |-> IF bc THEN 1 - d.year ELSE Abs(d.year),
        month |-> d.month, day |-> d.day, clock |-> time, offset |-> 0, bc |-> bc]

YearOf(text) == IF text.bc THEN 1 - text.year ELSE IF text.signed THEN -text.year ELSE text.year

(* parse: an instant, Nil, or a trap when a product or a sum does not fit.  *)
parse(text) ==
    LET year == YearOf(text)
        dayNumber == days(year, text.month, text.day)
        clock == text.clock - text.offset
    IN IF \/ Digits(text.year) > 6
          \/ text.bc /\ (text.signed \/ text.year < 1)
          \/ text.month \notin 1..12 \/ text.day < 1 \/ text.day > daysInMonth(year, text.month)
       THEN Nil
       ELSE IF ~InRange(dayNumber * DayTicks) \/ ~InRange(dayNumber * DayTicks + clock) THEN Trap
       ELSE Instant(dayNumber * DayTicks + clock)

-----------------------------------------------------------------------------
(* The three conversions agree with the calendar.                           *)
DaysAreCounted ==
    /\ days(civil.year, civil.month, civil.day) = number
    /\ daysSinceEpoch(civil.year, civil.month, civil.day) = number
    /\ date(number) = civil

(* What format writes in any layout, parse reads back as the same instant,  *)
(* years before 1 included.                                                 *)
Layouts == {"iso8601", "postgres"}
ReadsWhatIsWritten ==
    \A tick \in 0..(DayTicks - 1), layout \in Layouts :
        parse(format(number * DayTicks + tick, layout)) = Instant(number * DayTicks + tick)

(* parse takes a date exactly when it is one of the calendar, and an offset *)
(* moves the instant by itself.                                             *)
OnlyDatesThatExist ==
    \A d \in 0..32, offset \in Offsets :
        LET text == [signed |-> civil.year < 0, year |-> Abs(civil.year), month |-> civil.month,
                     day |-> d, clock |-> 0, offset |-> offset, bc |-> FALSE]
        IN parse(text) = IF d \in 1..MonthDays(civil.year, civil.month)
                         THEN Instant((number - civil.day + d) * DayTicks - offset) ELSE Nil

(* date is exact for every day number of its type (CivilTime.swift:5).      *)
DateIsTotal == InRange(number) => date(number) = civil

(* parse answers with an instant or nil for every date of at most six       *)
(* digits of year (CivilTime.swift:117).                                    *)
ParseAnswers ==
    parse([signed |-> civil.year < 0, year |-> Abs(civil.year), month |-> civil.month,
           day |-> civil.day, clock |-> 0, offset |-> 0, bc |-> FALSE]) # Trap

=============================================================================
