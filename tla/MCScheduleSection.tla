------------------------- MODULE MCScheduleSection -------------------------
(***************************************************************************)
(* Calendars of four report steps after the first.  With two days in a     *)
(* month and two months in a year they have steps that stay in their       *)
(* month, reach the next one, and leave months and years out.              *)
(***************************************************************************)
EXTENDS ScheduleSection

Calendar(times, tstep) ==
  [s \in 1 .. 4 |-> [kind |-> IF s \in tstep THEN "TSTEP" ELSE "DATES", time |-> times[s]]]

MCCalendars ==
  {Calendar(<<1, 2, 5, 6>>, {}), Calendar(<<2, 4, 9, 10>>, {1, 3})}
=============================================================================
