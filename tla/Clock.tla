------------------------------- MODULE Clock -------------------------------
(***************************************************************************)
(* set_System_Time gives the tablet the PC's local time, as the text       *)
(* YYYYMMDD.hhmmss of "date -s".  The format "%0d" pads nothing, whereas   *)
(* the comment in the code shows 20120801.120503.                          *)
(***************************************************************************)
EXTENDS Integers, Sequences

CONSTANTS
  CkDates,     \* the dates tried: records of year, month and day
  CkTimes      \* the times tried: records of hour, minute and second

Years == 1000 .. 9999      \* those of four digits

ASSUME ClockAssumption ==
  /\ CkDates \subseteq [year : Years, month : 1 .. 12, day : 1 .. 31]
  /\ CkTimes \subseteq [hour : 0 .. 23, minute : 0 .. 59, second : 0 .. 59]

VARIABLES
  ckDate, ckTime,   \* the PC's clock
  ckText            \* what is sent, digits before and after the dot

ckVars == <<ckDate, ckTime, ckText>>

CkInit == ckDate \in CkDates /\ ckTime \in CkTimes /\ ckText = <<>>

\* itoa, and sprintf with "%0d": no leading zeros.
Digits(n) ==
  IF n < 10 THEN <<n>>
  ELSE IF n < 100 THEN <<n \div 10, n % 10>>
  ELSE <<n \div 1000, (n \div 100) % 10, (n \div 10) % 10, n % 10>>

\* Mutant: the day is written before the month.
SetTimeSwapped ==
  /\ ckText = <<>>
  /\ ckText' = << Digits(ckDate.year) \o Digits(ckDate.day) \o Digits(ckDate.month),
                  Digits(ckTime.hour) \o Digits(ckTime.minute) \o Digits(ckTime.second) >>
  /\ UNCHANGED <<ckDate, ckTime>>

SetTime ==
  /\ ckText = <<>>
  /\ ckText' = << Digits(ckDate.year) \o Digits(ckDate.month) \o Digits(ckDate.day),
                  Digits(ckTime.hour) \o Digits(ckTime.minute) \o Digits(ckTime.second) >>
  /\ UNCHANGED <<ckDate, ckTime>>

CkSpec == CkInit /\ [][SetTime]_ckVars

\* The numbers that the first digits, one after the other, stand for.
Value(ds) ==
  LET f[k \in 0 .. Len(ds)] == IF k = 0 THEN 0 ELSE 10 * f[k - 1] + ds[k]
  IN  f

\* The tablet's date takes the two parts for numbers, and each number apart
\* from the right, two digits at a time.
Number10(ds) == Value(ds)[Len(ds)]
DateOf(n) == [year |-> n \div 10000, month |-> (n % 10000) \div 100, day |-> n % 100]
TimeOf(n) == [hour |-> n \div 10000, minute |-> (n % 10000) \div 100, second |-> n % 100]

DateRight == DateOf(Number10(ckText[1])) = ckDate
TimeRight == TimeOf(Number10(ckText[2])) = ckTime

(***************************************************************************)
(* "adb shell date -s "20120801.120503"": what set_System_Time sends gives *)
(* the tablet the PC's date and time.                                      *)
(***************************************************************************)
ClockRight == ckText # <<>> => DateRight /\ TimeRight

(***************************************************************************)
(* The date is right at least if month and day need no padding, the time   *)
(* if minute and second need none: the parts come in the tablet's order,   *)
(* the hour alone may be of one digit.                                     *)
(***************************************************************************)
TwoDigitsRight ==
  ckText # <<>> =>
    /\ ckDate.month >= 10 /\ ckDate.day >= 10 => DateRight
    /\ ckTime.minute >= 10 /\ ckTime.second >= 10 => TimeRight
=============================================================================
