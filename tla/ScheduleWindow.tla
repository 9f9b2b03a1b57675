--------------------------- MODULE ScheduleWindow ---------------------------
(***************************************************************************)
(* The scheduler's daily window (schedule_window.py).  A time of day is a  *)
(* minute; the end of a window may be the end of the day, a window that    *)
(* ends before it starts goes over midnight.                               *)
(***************************************************************************)
EXTENDS Integers

CONSTANT MINUTES_PER_DAY

ASSUME MinutesAssumption == MINUTES_PER_DAY \in Nat \ {0}

Minute == 0 .. MINUTES_PER_DAY - 1

ScheduleWindow == [start_minute : Minute, end_minute : 0 .. MINUTES_PER_DAY]

\* d minutes after m
Later(m, d) == (m + d) % MINUTES_PER_DAY

\* 24:00 is a time of day only where the end of the day may be meant
parse_time_of_day(t, allow_end_of_day) ==
  t \in Minute \/ (allow_end_of_day /\ t = MINUTES_PER_DAY)

\* Whether the text of a window is accepted
parse_window(raw) ==
  /\ parse_time_of_day(raw.start_minute, FALSE)
  /\ parse_time_of_day(raw.end_minute, TRUE)
  /\ raw.start_minute # raw.end_minute

overnight(w) == w.end_minute < w.start_minute

contains(w, m) ==
  IF overnight(w)
  THEN m >= w.start_minute \/ m < w.end_minute
  ELSE w.start_minute <= m /\ m < w.end_minute

\* Mutant: the start that has passed today is answered again
next_open_Today(w, m) ==
  IF contains(w, m) THEN 0
  ELSE IF w.start_minute > m THEN w.start_minute - m ELSE 0

\* How many minutes after m the window is open again
next_open(w, m) ==
  IF contains(w, m) THEN 0
  ELSE w.start_minute - m +
       (IF w.start_minute > m THEN 0 ELSE MINUTES_PER_DAY)

-----------------------------------------------------------------------------
(* What a window means: the minutes from its start, round the clock, until *)
(* its end.                                                                *)

WindowLength(w) ==
  w.end_minute - w.start_minute +
  (IF w.end_minute > w.start_minute THEN 0 ELSE MINUTES_PER_DAY)

Open(w, m) ==
  \E d \in 0 .. WindowLength(w) - 1 : m = Later(w.start_minute, d)

\* d minutes after m it is open for the first time, not before m
FirstOpening(w, m, d) ==
  /\ d >= 0 /\ Open(w, Later(m, d))
  /\ \A e \in 0 .. d - 1 : ~Open(w, Later(m, e))
=============================================================================
