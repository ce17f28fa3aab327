------------------------------ MODULE TimeMap ------------------------------
(***************************************************************************)
(* The time map of a section (schedule/timemap.cc) as pure operators.      *)
(*                                                                         *)
(* Times are days from START on.  The list has an entry for every report   *)
(* step.  In a restarted run the steps between the first one and the       *)
(* restart step have no time: the constructor fills them with an invalid   *)
(* time, which lies before every other.                                    *)
(***************************************************************************)
EXTENDS Integers, FiniteSetsExt, Sequences

CONSTANTS
  DaysPerMonth,   \* length of a month
  MonthsPerYear   \* length of a year

ASSUME CalendarAssumption ==
  DaysPerMonth \in Nat \ {0} /\ MonthsPerYear \in Nat \ {0}

Start == 0
Invalid == -1

\* Variant: no time for the restart step either.
WithoutRestartDate(times, offset) ==
  [s \in 0 .. Len(times) |->
     IF s = 0 THEN Start ELSE IF s <= offset THEN Invalid ELSE times[s]]

\* TimeMap::TimeMap() for a run restarted at the report step offset, or from
\* the start (offset 0), when the restart date is the date of that step.
TimeList(times, offset) ==
  [s \in 0 .. Len(times) |->
     IF s = 0 THEN Start ELSE IF s < offset THEN Invalid ELSE times[s]]

\* The year or the month of a time.
Period(time, years) ==
  time \div (IF years THEN DaysPerMonth * MonthsPerYear ELSE DaysPerMonth)

\* m_first_timestep_years or m_first_timestep_months: addTime() compares each
\* step with the one before it.
FirstSteps(list, years) ==
  {0} \cup {s \in DOMAIN list \ {0} :
              list[s] # Invalid /\ Period(list[s], years) # Period(list[s - 1], years)}

\* isTimestepInFreqSequence() for one of these steps.
InFreqSequence(list, step, start, frequency, years) ==
  LET steps == FirstSteps(list, years)
      first == Min({s \in steps : s >= start - 1})
      since(s) == Period(list[s], years) - Period(list[first], years)
      before == Max({s \in steps : s < step})
  IN /\ \E s \in steps : s >= start - 1
     /\ step > first
     /\ \/ since(step) % frequency = 0
        \/ since(step) \div frequency > since(before) \div frequency

\* isTimestepInFirstOfMonthsYearsSequence()
IsFirstInSequence(list, step, years, start, frequency) ==
  /\ step \in FirstSteps(list, years) \ {0}
  /\ frequency <= 1 \/ InFreqSequence(list, step, start, frequency, years)
=============================================================================
