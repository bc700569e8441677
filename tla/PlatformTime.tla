---------------------------- MODULE PlatformTime ----------------------------
(***************************************************************************)
(* The clocks: the firmware's calendar behind GetSystemTimeAsFileTime and  *)
(* the deadlines of the scheduler (platform_time.c), the performance       *)
(* counter over the invariant TSC or the wrapping ACPI timer               *)
(* (platform_performance.c), and GetTickCount64.                           *)
(*                                                                         *)
(* Years, months and days are real; a day has SecondsPerDay seconds and a  *)
(* second UnitsPerSecond units, small numbers that keep the conversion.    *)
(* The firmware's time is taken in whole seconds.                          *)
(***************************************************************************)
EXTENDS Integers, FiniteSets

CONSTANTS
  Dates,            \* [year, month, day] that the firmware shows
  FirmwareSeconds,  \* seconds of the day it shows
  Zones,            \* its TimeZone, in seconds; UnspecifiedZone among them
  UnspecifiedZone,  \* EFI_UNSPECIFIED_TIMEZONE, 2047
  MaxZone,          \* 1440 minutes
  SecondsPerDay, UnitsPerSecond, UnitsPerMillisecond,
  UnspecifiedIsUtc, \* GXOS_ASSUME_UNSPECIFIED_TIMEZONE_UTC
  Processors,       \* [invariant, denominator, numerator, crystal]
  MaxFrequency,     \* INT64_MAX
  TimerFrequency,   \* 3579545
  TimerPeriod,      \* 2^24 or 2^32
  MaxTicks, MaxClockCalls

MinYear == 1601
EfiMinYear == 1900
MaxYear == 9999
None == -1

ASSUME TimeAssumption ==
  /\ MaxZone \in Nat /\ UnspecifiedZone \in Nat /\ UnspecifiedZone > MaxZone
  /\ UnspecifiedIsUtc \in BOOLEAN
  /\ SecondsPerDay \in Nat \ {0} /\ UnitsPerSecond \in Nat \ {0}
  /\ UnitsPerMillisecond \in Nat \ {0}
  /\ TimerPeriod \in Nat \ {0, 1} /\ MaxTicks \in Nat

VARIABLES
  instant,    \* what the firmware showed at the last call, in seconds
  filetime,   \* the file time answered to it, or None
  nowMs,      \* the scheduler's milliseconds answered to it, or None
  source,     \* g_perf_source: "none", "tsc", "timer"
  frequency,  \* g_perf_frequency
  ticks,      \* of the hardware, since it was powered on
  startRaw, lastRaw, extended, counter,   \* g_perf_state and g_pm_timer
  counterCalls, regressions,
  zero, readAt, \* ticks at the start, and at the last counted read (history)
  late,       \* a read came more than half a period after the one before (history)
  tickCount,  \* g_nativeaot_gc_tick_count
  timeHalted, clockCalls

perfVars == <<source, frequency, startRaw, lastRaw, extended, counter, counterCalls,
              regressions, zero, readAt, late>>
calendarVars == <<instant, filetime, nowMs>>
timeVars == <<calendarVars, perfVars, ticks, tickCount, timeHalted, clockCalls>>

TimeInit ==
  /\ instant = None /\ filetime = None /\ nowMs = None
  /\ source = "none" /\ frequency = 0
  /\ ticks \in 0 .. (TimerPeriod - 1)
  /\ startRaw = 0 /\ lastRaw = 0 /\ extended = 0 /\ counter = None
  /\ counterCalls = 0 /\ regressions = 0
  /\ zero = 0 /\ readAt = 0 /\ late = FALSE
  /\ tickCount = 0 /\ timeHalted = FALSE /\ clockCalls = 0

-----------------------------------------------------------------------------
(* The calendar.                                                           *)

IsLeapYear(y) == y % 4 = 0 /\ (y % 100 # 0 \/ y % 400 = 0)

DaysInMonth(y, m) ==
  IF m = 2 THEN (IF IsLeapYear(y) THEN 29 ELSE 28)
  ELSE IF m \in {4, 6, 9, 11} THEN 30 ELSE 31

\* gxos_validate_civil.
IsCivil(d, second) ==
  /\ d.year \in MinYear .. MaxYear /\ d.month \in 1 .. 12
  /\ d.day \in 1 .. DaysInMonth(d.year, d.month)
  /\ second \in 0 .. (SecondsPerDay - 1)

\* Mutant: every fourth year is a leap year.
LeapDaysJulian(y) == Cardinality({x \in MinYear .. (y - 1) : x % 4 = 0})

LeapDays(y) == Cardinality({x \in MinYear .. (y - 1) : IsLeapYear(x)})

\* gxos_days_since_epoch, the two loops.
DaysSinceEpoch(d) ==
  LET before[m \in 1 .. 12] == IF m = 1 THEN 0 ELSE before[m - 1] + DaysInMonth(d.year, m - 1)
  IN 365 * (d.year - MinYear) + LeapDays(d.year) + before[d.month] + d.day - 1

\* gxos_filetime_from_efi_time: None is one of its errors.  daylight: adjusts
\* without saying by how much, or a reserved field or bit is set.
FiletimeOf(d, second, zone, daylight) ==
  LET seconds == DaysSinceEpoch(d) * SecondsPerDay + second + zone
  IN IF d.year >= EfiMinYear /\ IsCivil(d, second) /\ ~daylight
        /\ zone \in -MaxZone .. MaxZone /\ seconds >= 0
       THEN seconds * UnitsPerSecond
       ELSE None

\* The day number of a date by the closed formula of the Gregorian calendar.
DayNumber(d) ==
  LET y == IF d.month <= 2 THEN d.year - 1 ELSE d.year
      m == (d.month + 9) % 12
      day == 365 * y + y \div 4 - y \div 100 + y \div 400 + (153 * m + 2) \div 5 + d.day - 1
  IN day - 584694          \* 1 January 1601
\* EFI: local time is UTC less TimeZone, so UTC is local time plus TimeZone.
InstantOf(d, second, zone) ==
  DayNumber(d) * SecondsPerDay + second + (IF zone = UnspecifiedZone THEN 0 ELSE zone)

ClockCall ==
  /\ ~timeHalted /\ clockCalls < MaxClockCalls /\ clockCalls' = clockCalls + 1

\* gxos_get_system_time_as_file_time: every error ends the payload.
GetSystemTimeAsFileTime(d, second, zone, daylight, status) ==
  LET adjusted == IF zone = UnspecifiedZone /\ UnspecifiedIsUtc THEN 0 ELSE zone
      result == IF status THEN FiletimeOf(d, second, adjusted, daylight) ELSE None
  IN /\ ClockCall
     /\ timeHalted' = (result = None)
     /\ filetime' = result /\ nowMs' = None
     /\ instant' = InstantOf(d, second, zone)
     /\ UNCHANGED <<perfVars, ticks, tickCount>>

\* scheduler_now_ms, the clock of the deadlines: an unspecified zone is always
\* UTC here, and an error is returned.
SchedulerNow(d, second, zone, daylight, status) ==
  LET result == FiletimeOf(d, second, IF zone = UnspecifiedZone THEN 0 ELSE zone, daylight)
  IN /\ ClockCall
     /\ nowMs' = IF status /\ result # None THEN result \div UnitsPerMillisecond ELSE None
     /\ filetime' = None /\ instant' = InstantOf(d, second, zone)
     /\ UNCHANGED <<perfVars, ticks, tickCount, timeHalted>>

-----------------------------------------------------------------------------
(* The performance counter.                                                *)

\* gxos_perf_calculate_cpuid15_frequency, 0 when it has none.
TscFrequency(p) ==
  LET product == p.numerator * p.crystal
  IN IF /\ p.invariant /\ p.denominator # 0 /\ p.numerator # 0 /\ p.crystal # 0
        /\ product % p.denominator = 0 /\ product \div p.denominator <= MaxFrequency
       THEN product \div p.denominator ELSE 0

\* gxos_perf_configure: the TSC, else the ACPI timer where the tables have one
\* (acpi), else fail.
PerfConfigure(p, acpi) ==
  /\ source = "none" /\ ~timeHalted
  /\ \/ /\ TscFrequency(p) # 0
        /\ source' = "tsc" /\ frequency' = TscFrequency(p)
        /\ startRaw' = ticks /\ UNCHANGED <<lastRaw, extended, timeHalted>>
     \/ /\ TscFrequency(p) = 0 /\ acpi
        /\ source' = "timer" /\ frequency' = TimerFrequency
        /\ lastRaw' = ticks % TimerPeriod
        /\ extended' = ticks % TimerPeriod /\ startRaw' = ticks % TimerPeriod
        /\ UNCHANGED timeHalted
     \/ /\ TscFrequency(p) = 0 /\ ~acpi
        /\ timeHalted' = TRUE
        /\ UNCHANGED <<source, frequency, startRaw, lastRaw, extended>>
  /\ zero' = ticks /\ readAt' = ticks
  /\ UNCHANGED <<counter, counterCalls, regressions, late, ticks, tickCount, clockCalls,
                 calendarVars>>

\* The hardware counts.
Tick(n) ==
  /\ ticks + n <= MaxTicks /\ ticks' = ticks + n
  /\ UNCHANGED <<perfVars, calendarVars, tickCount, timeHalted, clockCalls>>

\* Mutant: the difference is not masked, so a wrap looks like no progress.
TimerDeltaUnmasked(current) == IF current >= lastRaw THEN current - lastRaw ELSE 0

TimerDelta(current) == (current - lastRaw) % TimerPeriod

\* gxos_perf_read_source: the raw value and the timer after it; a difference of
\* more than half a period is refused and leaves the timer as it was.
RawCounter ==
  CASE source = "tsc" -> [ok |-> TRUE, raw |-> ticks, last |-> lastRaw]
    [] source = "timer" /\ TimerDelta(ticks % TimerPeriod) <= (TimerPeriod - 1) \div 2 ->
         [ok |-> TRUE, raw |-> extended + TimerDelta(ticks % TimerPeriod),
          last |-> ticks % TimerPeriod]
    [] OTHER -> [ok |-> FALSE, raw |-> extended, last |-> lastRaw]

\* gxos_query_performance_counter with gxos_perf_record_counter.
QueryPerformanceCounter ==
  LET r == RawCounter
      value == r.raw - startRaw
      recorded == r.ok /\ value >= 0 /\ (counterCalls # 0 => value >= counter)
  IN /\ ClockCall /\ source # "none"
     /\ lastRaw' = r.last
     /\ extended' = IF source = "timer" THEN r.raw ELSE extended
     /\ counter' = IF recorded THEN value ELSE counter
     /\ counterCalls' = IF recorded THEN counterCalls + 1 ELSE counterCalls
     /\ regressions' = IF recorded THEN regressions ELSE regressions + 1
     /\ readAt' = IF recorded THEN ticks ELSE readAt
     /\ late' = (late \/ (source = "timer" /\ ticks - readAt > (TimerPeriod - 1) \div 2))
     /\ UNCHANGED <<source, frequency, startRaw, zero, calendarVars, ticks, tickCount,
                    timeHalted>>

\* platform_get_tick_count64 counts its calls.
GetTickCount64 ==
  /\ ClockCall /\ tickCount' = tickCount + 1
  /\ UNCHANGED <<perfVars, calendarVars, ticks, timeHalted>>

\* The calendar and the counter share nothing.
CalendarNext ==
  \/ \E d \in Dates, s \in FirmwareSeconds, z \in Zones, daylight, status \in BOOLEAN :
       \/ GetSystemTimeAsFileTime(d, s, z, daylight, status)
       \/ SchedulerNow(d, s, z, daylight, status)
  \/ GetTickCount64
CounterNext ==
  \/ \E p \in Processors, acpi \in BOOLEAN : PerfConfigure(p, acpi)
  \/ \E n \in 1 .. TimerPeriod : Tick(n)
  \/ QueryPerformanceCounter

TimeSpec == TimeInit /\ [][CalendarNext \/ CounterNext]_timeVars

-----------------------------------------------------------------------------
(* Safety.                                                                 *)

\* The file time is the instant that the firmware showed, in whatever zone, by
\* the closed formula of the calendar: the loops over years and months and the
\* sign of the zone agree with it (gxos_filetime_from_local_civil).  The clock
\* of the scheduler's deadlines shows the same instant.
FiletimeIsTheInstant ==
  /\ filetime # None => filetime = instant * UnitsPerSecond
  /\ nowMs # None => nowMs = (instant * UnitsPerSecond) \div UnitsPerMillisecond

\* While reads come within half a period of each other the counter is the time
\* that passed; otherwise it has lost whole periods, and never runs ahead
\* (gxos_perf_read_source extends the wrapping timer).
CounterTracksHardware ==
  counter # None =>
    /\ ~late => counter = readAt - zero
    /\ counter <= readAt - zero
    /\ (readAt - zero - counter) % TimerPeriod = 0
=============================================================================
