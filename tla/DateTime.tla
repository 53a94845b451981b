------------------------------ MODULE DateTime -------------------------------
(***************************************************************************)
(* From a date and time of a directory entry to the timestamp that the     *)
(* library hands out (libfsfat_date_time.c), and from a timestamp to the   *)
(* date and time that a Python script gets (pyfsfat_datetime.c).  No day,  *)
(* month, hour or minute is refused on the way, whatever is stored.        *)
(*                                                                         *)
(* A timestamp counts hundredths of a second; it is kept as minutes and    *)
(* hundredths, modulo 2^64 like the number it stands for.                  *)
(***************************************************************************)
EXTENDS Integers

CONSTANT
  Dates                   (* as they are stored                            *)

(* The fields have 7, 4, 5, 5, 6, 5, 8 and 8 bits.                         *)
StoredDates ==
  [year : 0 .. 127, month : 0 .. 15, day : 0 .. 31, hours : 0 .. 31,
   minutes : 0 .. 63, seconds : 0 .. 31, fraction : 0 .. 255, utc_offset : 0 .. 255]

ASSUME DateTimeAssumption == Dates \subseteq StoredDates

VARIABLES
  date,
  fat_timestamp,
  shown

dateVars == <<date, fat_timestamp, shown>>

IsLeapYear(year) == (year % 4 = 0 /\ year % 100 # 0) \/ year % 400 = 0

DaysInYear(year) == IF IsLeapYear(year) THEN 366 ELSE 365

(* Mutation: every fourth year is a leap year, in February.                *)
DaysInMonthJulian(month, year) ==
  CASE month = 2 -> IF year % 4 = 0 THEN 29 ELSE 28
    [] month \in {4, 6, 9, 11} -> 30
    [] month \in {1, 3, 5, 7, 8, 10, 12} -> 31
    [] OTHER -> 0

DaysInMonth(month, year) ==
  CASE month = 2 -> IF IsLeapYear(year) THEN 29 ELSE 28
    [] month \in {4, 6, 9, 11} -> 30
    [] month \in {1, 3, 5, 7, 8, 10, 12} -> 31
    [] OTHER -> 0

(***************************************************************************)
(* libfsfat_date_time_get_timestamp, for an access, creation or            *)
(* modification time.                                                      *)
(***************************************************************************)

(* The loop over the months sums the month that the day is in like those   *)
(* before it, and that over the years the year itself, but not 1980.       *)
DaysOfMonths(year) ==
  LET days[month \in Nat] ==
        IF month = 0 THEN 0 ELSE DaysInMonth(month, year) + days[month - 1]
  IN  days

DaysOfYears[year \in Nat] ==
  IF year = 0 THEN 0 ELSE DaysInYear(1980 + year) + DaysOfYears[year - 1]

Days(d) == d.day + DaysOfMonths(1980 + d.year)[d.month] + DaysOfYears[d.year]

(* Quarters of an hour, of seven bits with a sign, when the eighth is set. *)
UtcOffset(d) ==
  LET quarters == d.utc_offset % 128
  IN  IF d.utc_offset < 128 THEN 0
      ELSE IF quarters < 64 THEN quarters * 15 ELSE - (128 - quarters) * 15

Timestamp(d) ==
  [minutes    |-> (Days(d) * 24 + d.hours) * 60 + d.minutes + UtcOffset(d),
   hundredths |-> 200 * d.seconds + d.fraction]

(***************************************************************************)
(* pyfsfat_datetime_new_from_posix_time_in_micro_seconds and               *)
(* pyfsfat_datetime_new_from_time_elements.                                *)
(***************************************************************************)

(* The days that are left to be shared out over a year and its months.     *)
Counts == [year : Nat, month : Nat, days : Nat]

DaysInCentury(year) == IF year % 400 = 0 THEN 36525 ELSE 36524

SkipCenturies[p \in Counts] ==
  IF p.days <= DaysInCentury(p.year) THEN p
  ELSE SkipCenturies[[p EXCEPT !.days = @ - DaysInCentury(p.year), !.year = @ + 100]]

SkipYears[p \in Counts] ==
  IF p.days <= DaysInYear(p.year) THEN p
  ELSE SkipYears[[p EXCEPT !.days = @ - DaysInYear(p.year), !.year = @ + 1]]

SkipMonths[p \in Counts] ==
  IF p.days <= DaysInMonth(p.month, p.year) \/ p.month > 12 THEN p
  ELSE SkipMonths[[p EXCEPT !.days = @ - DaysInMonth(p.month, p.year), !.month = @ + 1]]

DateOf(year, days) ==
  SkipMonths[SkipYears[SkipCenturies[[year |-> year, month |-> 1, days |-> days]]]]

DaysBefore2000 == 10957

MinutesBefore1980 == 3652 * 24 * 60

(* Days since the last of 1969, or since the last of 1999, which is day 0: *)
(* Python takes no day 0, and a thirteenth month is refused before that.   *)
Shown(timestamp) ==
  LET posix_minutes == timestamp.minutes + timestamp.hundredths \div 6000 + MinutesBefore1980
      days          == posix_minutes \div (24 * 60) + 1
      on            == IF days >= DaysBefore2000 THEN DateOf(2000, days - DaysBefore2000)
                                                 ELSE DateOf(1970, days)
  IN  [is         |-> IF on.days = 0 \/ on.month > 12 THEN "error" ELSE "date",
       date       |-> on,
       minutes    |-> posix_minutes % (24 * 60),
       hundredths |-> timestamp.hundredths % 6000]

HasTimestamp == DOMAIN fat_timestamp = {"minutes", "hundredths"}

DateIdle ==
  /\ date = [year |-> 0]
  /\ fat_timestamp = [minutes |-> 0]
  /\ shown = [is |-> "none"]

DateInit ==
  /\ date \in Dates
  /\ fat_timestamp = [minutes |-> 0]
  /\ shown = [is |-> "none"]

GetTimestamp ==
  /\ fat_timestamp' = Timestamp(date)
  /\ UNCHANGED <<date, shown>>

ShowTimestamp ==
  /\ HasTimestamp
  /\ shown' = Shown(fat_timestamp)
  /\ UNCHANGED <<date, fat_timestamp>>

DateNext ==
  /\ date \in StoredDates
  /\ GetTimestamp \/ ShowTimestamp

(***************************************************************************)
(* Properties.                                                             *)
(***************************************************************************)

(* The number of a day of the calendar, in closed form.                    *)
DayNumber(year, month, day) ==
  LET y == IF month <= 2 THEN year - 1 ELSE year
      m == IF month <= 2 THEN month + 9 ELSE month - 3
  IN  365 * y + y \div 4 - y \div 100 + y \div 400 + (153 * m + 2) \div 5 + day

IsDate(d) ==
  /\ d.month \in 1 .. 12
  /\ d.day \in 1 .. DaysInMonth(d.month, 1980 + d.year)
  /\ d.hours < 24 /\ d.minutes < 60 /\ d.seconds < 30 /\ d.fraction < 200

DaysSince1980(d) == DayNumber(1980 + d.year, d.month, d.day) - DayNumber(1980, 1, 1)

(* The days by which a timestamp is ahead of its date: the days of the     *)
(* month and one more, and one less when the year has no leap day, as 1980 *)
(* has, which is counted with its years.                                   *)
Ahead(d) ==
  1 + DaysInMonth(d.month, 1980 + d.year) + DaysInYear(1980 + d.year) - DaysInYear(1980)

(* The local time of a date, in minutes since 1980 and ahead as above.     *)
MinutesAhead(d) ==
  ((DaysSince1980(d) + Ahead(d)) * 24 + d.hours) * 60 + d.minutes

(* An offset from UTC is stored, and is not zero.                          *)
IsElsewhere(d) == d.utc_offset > 128

LastOf1999 == DayNumber(1999, 12, 31) - DayNumber(1980, 1, 1)

(* What is shown is the calendar date and the time of day of so many       *)
(* minutes since 1980.                                                     *)
IsShown(minutes) ==
  IF shown.is = "error"
  THEN minutes \div (24 * 60) = LastOf1999
  ELSE /\ DayNumber(shown.date.year, shown.date.month, shown.date.days)
            = DayNumber(1980, 1, 1) + minutes \div (24 * 60)
       /\ shown.date.month \in 1 .. 12
       /\ shown.date.days \in 1 .. DaysInMonth(shown.date.month, shown.date.year)
       /\ shown.minutes = minutes % (24 * 60)
       /\ shown.hundredths = 200 * date.seconds + date.fraction

(* A script is shown the calendar date and the time of day that the        *)
(* timestamp stands for, over leap years, ends of centuries and the turn of*)
(* every month, and of a date at UTC those that are stored, ahead by a     *)
(* known number of days and otherwise to the hundredth of a second.  Only  *)
(* the last day of 1999 cannot be shown (pyfsfat_datetime.c:675).  Nothing *)
(* is said of how the timestamp of another date takes its offset into      *)
(* account: the code adds it (date_time.c:147-159), where the format       *)
(* documentation has a time relative to UTC (lines 576-581).               *)
DateShown ==
  shown.is # "none" /\ IsDate(date) =>
    /\ IsShown(fat_timestamp.minutes)
    /\ ~ IsElsewhere(date) => IsShown(MinutesAhead(date))

(* A timestamp counts from January 1, 1980, as its documentation says.     *)
TimestampKept ==
  HasTimestamp /\ IsDate(date) /\ date.utc_offset = 0 =>
    fat_timestamp.minutes =
      (DaysSince1980(date) * 24 + date.hours) * 60 + date.minutes
=============================================================================
