------------------------------- MODULE Picker -------------------------------
(***************************************************************************)
(* The date and time picker (ui/picker_datetime.py, ui/picker_validate.py) *)
(* with its mode chip: a moment is cleared, a time of the day or a date    *)
(* and time, digit by digit, and the digits of a mode come back when the   *)
(* chip returns to it.  A moment is its date, <<>> for none, and its time; *)
(* NoMoment is a field that is not set.                                    *)
(***************************************************************************)
EXTENDS Integers, Sequences, FiniteSetsExt

CONSTANTS
    Today,      \* date_t.today()
    MinYear,    \* MIN_YEAR
    MaxYear,    \* MAX_YEAR
    MaxTurns    \* bound: digits turned, over all the pickers of a run

\* A year has four digits.
Year == {y \in Nat : y <= 9999}
Date == Year \X (1..12) \X (1..31)
Time == (0..23) \X (0..59) \X (0..59)

NoMoment == [date |-> <<>>, time |-> <<>>]
Moment == {NoMoment} \cup [date : Date \cup {<<>>}, time : Time]

ASSUME PickerAssumption ==
    /\ {MinYear, MaxYear, MaxTurns} \subseteq Nat /\ MaxYear <= 9999
    /\ Today \in Date

VARIABLES
    picker,     \* App.picker_ix
    turns,      \* bounds the run
    left        \* history: the digits of each mode of the open picker, as they were left

NoPicker == [target |-> "none"]

\* Two decimal digits.
Two(n) == <<n \div 10, n % 10>>
TimeDigits(t) == Two(t[1]) \o Two(t[2]) \o Two(t[3])
DateDigits(d) == Two(d[1] \div 100) \o Two(d[1] % 100) \o Two(d[2]) \o Two(d[3])

\* _digits_from_moment: midnight, and today, for what the moment does not say.
Digits(moment, mode) ==
    LET date == IF moment.date = <<>> THEN Today ELSE moment.date
        time == IF moment.time = <<>> THEN <<0, 0, 0>> ELSE moment.time
    IN CASE mode = "none" -> <<>>
         [] mode = "time" -> TimeDigits(time)
         [] mode = "date_time" -> DateDigits(date) \o TimeDigits(time)

Modes == <<"none", "time", "date_time">>
Highest == [time |-> <<5, 9, 5, 9, 5, 9>>,
            date_time |-> <<9, 9, 9, 9, 1, 9, 3, 9, 2, 9, 5, 9, 5, 9>>]

ModeOf(target, moment) ==
    IF target = "system_clock" \/ moment.date # <<>> THEN "date_time"
    ELSE IF moment = NoMoment THEN "none" ELSE "time"

\* DateTimePickerInteraction: on the first digit, or on the chip if there is none.
OpenPicker(target, moment) ==
    LET mode == ModeOf(target, moment)
        digits == Digits(moment, mode)
    IN /\ picker' = [target |-> target, mode |-> mode, digits |-> digits,
                     cache |-> [m \in {mode} |-> digits], error |-> FALSE,
                     cursor |-> IF mode = "none" THEN -1 ELSE 0]
       /\ left' = [m \in {Modes[i] : i \in DOMAIN Modes} |->
                      IF m = mode THEN digits ELSE Digits(NoMoment, m)]

\* The chip, at -1, is there unless the clock is set, and is the end on the left.
Leftmost == IF picker.target = "system_clock" THEN 0 ELSE -1

PickerMoves(d) ==
    /\ picker' = [picker EXCEPT
           !.cursor = Max({Leftmost, Min({Len(picker.digits) - 1, @ + d})})]
    /\ UNCHANGED <<turns, left>>

\* _cycle_current
PickerTurns(d) ==
    LET i == picker.cursor + 1
        highest == Highest[picker.mode][i]
    IN /\ picker.cursor # -1
       /\ turns < MaxTurns /\ turns' = turns + 1
       /\ picker' = [picker EXCEPT !.digits[i] = (@ + d) % (highest + 1), !.error = FALSE]
       /\ left' = [left EXCEPT ![picker.mode] = picker'.digits]

NextMode(d) ==
    LET i == CHOOSE i \in DOMAIN Modes : Modes[i] = picker.mode
    IN Modes[((i - 1 + d) % 3) + 1]

Cycled(cache, mode) ==
    [picker EXCEPT
        !.mode = mode, !.cache = cache, !.error = FALSE,
        !.digits = IF mode \in DOMAIN cache THEN cache[mode] ELSE Digits(NoMoment, mode)]

\* A mistake: the digits of the mode that is left are not kept.
CycleMode_NoSnapshot(d) ==
    /\ picker.cursor = -1
    /\ picker' = Cycled(picker.cache, NextMode(d))
    /\ UNCHANGED <<turns, left>>

\* _cycle_mode: the digits that are there are kept for when the chip comes back.
CycleMode(d) ==
    /\ picker.cursor = -1
    /\ picker' = Cycled([m \in {picker.mode} \cup DOMAIN picker.cache |->
                            IF m = picker.mode THEN picker.digits ELSE picker.cache[m]],
                        NextMode(d))
    /\ UNCHANGED <<turns, left>>

-------------------------------------------------------------------------------
\* _parse_digits
Number(digits) == 10 * digits[1] + digits[2]
TimeOf(digits) ==
    <<Number(digits), Number(SubSeq(digits, 3, 4)), Number(SubSeq(digits, 5, 6))>>
DateOfDigits(digits) ==
    <<100 * Number(digits) + Number(SubSeq(digits, 3, 4)),
      Number(SubSeq(digits, 5, 6)), Number(SubSeq(digits, 7, 8))>>

Parsed(mode, digits) ==
    IF mode = "time" THEN [date |-> <<>>, time |-> TimeOf(digits)]
    ELSE [date |-> DateOfDigits(digits), time |-> TimeOf(SubSeq(digits, 9, 14))]

\* A mistake: every century is a common year.
DaysInMonth_Julian(year, month) ==
    IF month \in {1, 3, 5, 7, 8, 10, 12} THEN 31
    ELSE IF month \in {4, 6, 9, 11} THEN 30
    ELSE IF year % 4 = 0 /\ year % 100 # 0 THEN 29 ELSE 28

\* _days_in_month
DaysInMonth(year, month) ==
    IF month \in {1, 3, 5, 7, 8, 10, 12} THEN 31
    ELSE IF month \in {4, 6, 9, 11} THEN 30
    ELSE IF (year % 4 = 0 /\ year % 100 # 0) \/ year % 400 = 0 THEN 29 ELSE 28

\* validate_time_digits
ValidTime(t) == t[1] \in 0..23 /\ t[2] \in 0..59 /\ t[3] \in 0..59
ValidDate(d) ==
    /\ d[1] \in MinYear..MaxYear
    /\ d[2] \in 1..12
    /\ d[3] \in 1..DaysInMonth(d[1], d[2])

ValidMoment(moment) ==
    /\ ValidTime(moment.time)
    /\ moment.date # <<>> => ValidDate(moment.date)

\* _try_save: a field may always be cleared.
Saves == picker.mode # "none" => ValidMoment(Parsed(picker.mode, picker.digits))
Picked == IF picker.mode = "none" THEN NoMoment ELSE Parsed(picker.mode, picker.digits)

PickerRefuses ==
    /\ ~Saves
    /\ picker' = [picker EXCEPT !.error = TRUE]
    /\ UNCHANGED <<turns, left>>

\* on_press, for the presses that leave the picker open
PickerEdits ==
    \/ \E d \in {-1, 1} : PickerMoves(d) \/ PickerTurns(d) \/ CycleMode(d)
    \/ PickerRefuses

-------------------------------------------------------------------------------
\* The calendar by the count of days since 1 March of the year 0, which knows neither
\* the months' lengths nor leap years by name: a date is real if the day it counts to
\* is that date.
DayCount(d) ==
    LET y == IF d[2] <= 2 THEN d[1] - 1 ELSE d[1]
        m == (d[2] + 9) % 12
    IN 365 * y + y \div 4 - y \div 100 + y \div 400 + (153 * m + 2) \div 5 + d[3] - 1

DateAt(n) ==
    LET day(y) == 365 * y + y \div 4 - y \div 100 + y \div 400
        guess == n \div 366
        y == Max({k \in guess..(guess + 8) : day(k) <= n})
        m == (5 * (n - day(y)) + 2) \div 153
        month == ((m + 2) % 12) + 1
    IN <<IF month <= 2 THEN y + 1 ELSE y, month, n - day(y) - (153 * m + 2) \div 5 + 1>>

RealDate(d) == d[2] \in 1..12 /\ DateAt(DayCount(d)) = d

\* What the digits of the mode read as one decimal number after the other.
Spelled(digits) == [i \in 1..(Len(digits) \div 2) |-> 10 * digits[2 * i - 1] + digits[2 * i]]

Real(mode, digits) ==
    LET s == Spelled(digits)
        t == SubSeq(s, Len(s) - 2, Len(s))
    IN /\ t[1] < 24 /\ t[2] < 60 /\ t[3] < 60
       /\ mode = "date_time" =>
              LET year == 100 * s[1] + s[2]
              IN MinYear <= year /\ year <= MaxYear /\ RealDate(<<year, s[3], s[4]>>)

\* The renderer's _validate_cursor, which raises otherwise: with no digits only the chip
\* is there to be on, and with no chip only the digits.
PickerOK ==
    picker = NoPicker \/
        /\ picker.cursor \in Leftmost..(Len(picker.digits) - 1)
        /\ picker.mode = "none" => picker.cursor = -1
        /\ picker.mode # "none" =>
               /\ Len(picker.digits) = Len(Highest[picker.mode])
               /\ \A i \in DOMAIN picker.digits : picker.digits[i] \in 0..9
        /\ turns \in 0..MaxTurns

\* Going round the modes costs nothing that was typed: in each mode there are the digits
\* that were left there, or midnight and today if it was not shown before.
DigitsKept == picker = NoPicker \/ picker.digits = left[picker.mode]
=============================================================================
