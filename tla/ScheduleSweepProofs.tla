------------------------- MODULE ScheduleSweepProofs -------------------------
(***************************************************************************)
(* The scheduler for every window, day length, clients, apps, settings and *)
(* bounds: the window's arithmetic, type correctness, and that a sweep     *)
(* begins when the estimate says so, serves what is steadily wanted and    *)
(* nothing else, and accounts for itself.                                  *)
(***************************************************************************)
EXTENDS ScheduleSweep, FiniteSetTheorems, TLAPS

USE MinutesAssumption, ScheduleAssumption

-----------------------------------------------------------------------------
(* The window.                                                             *)

\* A minute of the day and less than a day more: one subtraction is enough.
LEMMA LaterIs ==
  ASSUME NEW m \in Minute, NEW d \in 0 .. MINUTES_PER_DAY
  PROVE  Later(m, d) = IF m + d < MINUTES_PER_DAY THEN m + d
                       ELSE m + d - MINUTES_PER_DAY
<1>1. /\ MINUTES_PER_DAY \in Nat \ {0}
      /\ m \in 0 .. MINUTES_PER_DAY - 1
      /\ m + d \in 0 .. 2 * MINUTES_PER_DAY - 1
  BY DEF Minute
<1>2. \A x \in 0 .. 2 * MINUTES_PER_DAY - 1 :
        x % MINUTES_PER_DAY = IF x < MINUTES_PER_DAY THEN x ELSE x - MINUTES_PER_DAY
  BY <1>1
<1> QED
  BY <1>1, <1>2 DEF Later

\* A valid window contains exactly the minutes from its start round to its end
\* (ScheduleWindow.contains).
LEMMA ContainsIsOpen ==
  ASSUME NEW w \in ScheduleWindow, parse_window(w), NEW m \in Minute
  PROVE  contains(w, m) <=> Open(w, m)
<1> DEFINE D == MINUTES_PER_DAY
           s == w.start_minute
           e == w.end_minute
<1>1. D \in Nat /\ D > 0 /\ s \in 0 .. D - 1 /\ e \in 0 .. D /\ s # e /\ m \in 0 .. D - 1
  BY DEF ScheduleWindow, parse_window, Minute
<1>2. WindowLength(w) \in 1 .. D
  BY <1>1, SMT DEF WindowLength
<1>3. ASSUME contains(w, m) PROVE Open(w, m)
  <2> DEFINE d == IF m >= s THEN m - s ELSE m + D - s
  <2>1. d \in 0 .. WindowLength(w) - 1
    BY <1>1, <1>3, SMT DEF contains, overnight, WindowLength
  <2>2. d \in 0 .. D
    BY <1>1, SMT
  <2>3. m = Later(s, d)
    BY <1>1, <2>2, LaterIs, SMT DEF Minute
  <2> QED
    BY <2>1, <2>3 DEF Open
<1>4. ASSUME Open(w, m) PROVE contains(w, m)
  <2>1. PICK d \in 0 .. WindowLength(w) - 1 : m = Later(s, d)
    BY <1>4 DEF Open
  <2>2. d \in 0 .. D
    BY <1>1, <1>2, <2>1, SMT
  <2>3. m = IF s + d < D THEN s + d ELSE s + d - D
    BY <1>1, <2>1, <2>2, LaterIs DEF Minute
  <2> QED
    BY <1>1, <2>1, <2>3, SMT DEF contains, overnight, WindowLength
<1> QED
  BY <1>3, <1>4

\* next_open answers the first minute the window contains, for every window,
\* over midnight or until 24:00, and every time of day.
THEOREM NextOpenIsFirst ==
  ASSUME NEW w \in ScheduleWindow, parse_window(w), NEW m \in Minute
  PROVE  FirstOpening(w, m, next_open(w, m))
<1> DEFINE D == MINUTES_PER_DAY
           s == w.start_minute
           e == w.end_minute
           n == next_open(w, m)
<1>1. D \in Nat /\ D > 0 /\ s \in 0 .. D - 1 /\ e \in 0 .. D /\ s # e /\ m \in 0 .. D - 1
  BY DEF ScheduleWindow, parse_window, Minute
<1>2. n \in 0 .. D - 1
  BY <1>1, SMT DEF next_open, contains, overnight
<1>3. ASSUME NEW d \in 0 .. D
      PROVE  Later(m, d) \in Minute /\ (contains(w, Later(m, d)) <=> Open(w, Later(m, d)))
  <2>1. Later(m, d) \in Minute
    BY <1>1, LaterIs, SMT DEF Minute
  <2> QED
    BY <2>1, ContainsIsOpen
<1>4. contains(w, Later(m, n))
  <2>1. Later(m, n) = IF m + n < D THEN m + n ELSE m + n - D
    BY <1>2, LaterIs, SMT
  <2> QED
    BY <1>1, <1>2, <2>1, SMT DEF next_open, contains, overnight
<1>5. ASSUME NEW d \in 0 .. n - 1 PROVE ~contains(w, Later(m, d))
  <2>1. d \in 0 .. D
    BY <1>1, <1>2, SMT
  <2>2. Later(m, d) = IF m + d < D THEN m + d ELSE m + d - D
    BY <2>1, LaterIs
  <2> QED
    BY <1>1, <1>2, <2>2, SMT DEF next_open, contains, overnight
<1>6. n \in 0 .. D /\ \A d \in 0 .. n - 1 : d \in 0 .. D
  BY <1>1, <1>2, SMT
<1>7. n >= 0
  BY <1>2, SMT
<1> QED
  BY <1>3, <1>4, <1>5, <1>6, <1>7 DEF FirstOpening

-----------------------------------------------------------------------------
(* Types.                                                                  *)

\* Whatever lies in the settings table resolves to sound settings: a row that
\* does not parse is ignored (effective_settings).
LEMMA EffectiveIsSound ==
  ASSUME settings \in SettingsRow
  PROVE  /\ effective_settings \in Settings
         /\ effective_settings.window # NULL => parse_window(effective_settings.window)
<1> DEFINE s == settings
<1>1. DOMAIN Base = {"window", "interval", "include_cached"}
  BY DEF Settings
<1>2. /\ effective_settings.window =
           IF s.window # NULL /\ Parses("window", s.window)
           THEN Typed("window", s.window) ELSE Base.window
      /\ effective_settings.interval =
           IF s.interval # NULL /\ Parses("interval", s.interval)
           THEN Typed("interval", s.interval) ELSE Base.interval
      /\ effective_settings.include_cached =
           IF s.include_cached # NULL /\ Parses("include_cached", s.include_cached)
           THEN Typed("include_cached", s.include_cached) ELSE Base.include_cached
  BY <1>1 DEF effective_settings
<1>3. /\ effective_settings.window \in ScheduleWindow \cup {NULL}
      /\ effective_settings.window # NULL => parse_window(effective_settings.window)
  <2>1. CASE s.window # NULL /\ Parses("window", s.window) /\ s.window # BLANK
    <3>1. s.window \in RawWindow /\ parse_window(s.window)
      BY <2>1 DEF SettingsRow, Parses
    <3>2. s.window \in ScheduleWindow
      BY <3>1 DEF RawWindow, ScheduleWindow, parse_window, parse_time_of_day, Minute
    <3> QED
      BY <1>2, <2>1, <3>1, <3>2 DEF Typed
  <2>2. CASE s.window # NULL /\ Parses("window", s.window) /\ s.window = BLANK
    BY <1>2, <2>2 DEF Typed
  <2>3. CASE ~(s.window # NULL /\ Parses("window", s.window))
    BY <1>2, <2>3 DEF Settings
  <2> QED
    BY <2>1, <2>2, <2>3
<1>4. effective_settings.interval \in Nat \ {0}
  <2>1. CASE s.interval # NULL /\ Parses("interval", s.interval)
    <3>1. s.interval \in Int /\ s.interval >= 1 /\ s.interval # BLANK
      BY <2>1 DEF SettingsRow, Parses
    <3> QED
      BY <1>2, <2>1, <3>1 DEF Typed
  <2>2. CASE ~(s.interval # NULL /\ Parses("interval", s.interval))
    BY <1>2, <2>2 DEF Settings
  <2> QED
    BY <2>1, <2>2
<1>5. effective_settings.include_cached \in BOOLEAN
  <2>1. CASE s.include_cached # NULL /\ Parses("include_cached", s.include_cached)
    <3>1. s.include_cached \in BOOLEAN /\ s.include_cached # BLANK
      BY <2>1 DEF SettingsRow, Parses
    <3> QED
      BY <1>2, <2>1, <3>1 DEF Typed
  <2>2. CASE ~(s.include_cached # NULL /\ Parses("include_cached", s.include_cached))
    BY <1>2, <2>2 DEF Settings
  <2> QED
    BY <2>1, <2>2
<1>6. effective_settings = [window |-> effective_settings.window,
                            interval |-> effective_settings.interval,
                            include_cached |-> effective_settings.include_cached]
  BY <1>1 DEF effective_settings
<1> QED
  BY <1>3, <1>4, <1>5, <1>6 DEF Settings

\* The threads that wait, or are not there
LEMMA WaitingType ==
  /\ Waiting \in Thread /\ NoThread \in Thread
  /\ Waiting.pc = "waiting" /\ NoThread.pc = "none"
  /\ Waiting.settings = Base /\ NoThread.settings = Base
  /\ Waiting.left = {} /\ Waiting.targets = {} /\ Waiting.enqueued = 0
  /\ NoThread.left = {} /\ NoThread.targets = {} /\ NoThread.enqueued = 0
BY DEF Waiting, NoThread, Thread, Minute

\* The part of TypeOK about effective_settings follows from the others, so a
\* step owes only these; and a sweep that runs has stamped its row
CoreTypes ==
  /\ minute \in Minute
  /\ settings \in SettingsRow
  /\ reports \in [Client -> Report \cup {NULL}]
  /\ cached \subseteq App /\ active \subseteq App
  /\ row \in ScheduleState \cup {NULL}
  /\ api \in {"up", "stopping", "down"}
  /\ thread \in Thread
  /\ thread.settings.window # NULL => parse_window(thread.settings.window)
  /\ api = "down" => thread.pc = "none"
  /\ used \in [DOMAIN Limit -> Nat]
  /\ sweep \in History
  /\ Sweeping => row # NULL

LEMMA CoreTypesSuffice == CoreTypes => TypeOK
BY EffectiveIsSound DEF CoreTypes, TypeOK, Thread

LEMMA WishesType ==
  ASSUME CoreTypes
  PROVE  Wishes \subseteq (Client \cup {0}) \X App
BY DEF CoreTypes, Wishes

\* A step spends at most one of a bound
LEMMA SpendType ==
  ASSUME used \in [DOMAIN Limit -> Nat], NEW k \in DOMAIN Limit, Spend(k)
  PROVE  used' \in [DOMAIN Limit -> Nat]
BY DEF Spend

LEMMA InitTypes == Init => CoreTypes
<1> SUFFICES ASSUME Init PROVE CoreTypes
  OBVIOUS
<1>1. thread \in Thread /\ thread.settings = Base /\ sweep \in History
  BY WaitingType DEF Init, NoSweep, History
<1> QED
  BY <1>1, WaitingType DEF Init, CoreTypes, Sweeping, Computing

LEMMA StepTypes == CoreTypes /\ [Next]_vars => CoreTypes'
<1> SUFFICES ASSUME CoreTypes, [Next]_vars PROVE CoreTypes'
  OBVIOUS
<1> USE DEF CoreTypes, Sweeping, Computing
<1>0. /\ DOMAIN Limit = {"outside", "fault"}
      /\ Spend("outside") \/ Spend("fault") \/ UNCHANGED used
         => used' \in [DOMAIN Limit -> Nat]
  BY SpendType DEF Limit
<1>1. \A m \in Minute, d \in Int : (m + d) % MINUTES_PER_DAY \in Minute
  BY DEF Minute
<1>2. CASE Passes
  <2>1. minute' \in Minute
    BY <1>1, <1>2 DEF Passes, Later
  <2>2. row' \in ScheduleState \cup {NULL} /\ (row # NULL => row' # NULL)
    <3>1. CASE row = NULL
      BY <1>2, <3>1 DEF Passes
    <3>2. CASE row \in ScheduleState
      <4>1. row' \in ScheduleState
        BY <1>2, <3>2 DEF Passes, ScheduleState
      <4> QED
        BY <4>1
    <3> QED
      BY <3>1, <3>2
  <2>3. thread' \in Thread /\ thread'.settings = thread.settings
        /\ thread'.pc = thread.pc
    BY <1>2 DEF Passes, Thread
  <2> QED
    BY <1>2, <2>1, <2>2, <2>3 DEF Passes, world
<1>3. CASE SetBack
  <2>1. minute' \in Minute
    BY <1>3 DEF SetBack, Minute
  <2>2. row' \in ScheduleState \cup {NULL} /\ (row # NULL => row' # NULL)
    <3>1. CASE row = NULL
      BY <1>3, <3>1 DEF SetBack
    <3>2. CASE row \in ScheduleState
      <4>1. row' \in ScheduleState
        BY <1>3, <3>2 DEF SetBack, ScheduleState
      <4> QED
        BY <4>1
    <3> QED
      BY <3>1, <3>2
  <2>3. thread' \in Thread /\ thread'.settings = thread.settings
        /\ thread'.pc = thread.pc
    BY <1>3 DEF SetBack, Thread
  <2> QED
    BY <1>0, <1>3, <2>1, <2>2, <2>3 DEF SetBack, world
<1>4. CASE ClockChanges
  BY <1>0, <1>4 DEF ClockChanges, world
<1>5. ASSUME NEW p \in Patch, patch_settings(p) PROVE CoreTypes'
  <2>1. p \in SettingsPatch
    OBVIOUS
  <2>2. settings' \in SettingsRow
    BY <1>5, <2>1 DEF patch_settings, SettingsRow, SettingsPatch
  <2> QED
    BY <1>0, <1>5, <2>2 DEF patch_settings
<1>7. ASSUME NEW c \in Client, ReportChanges(c) PROVE CoreTypes'
  <2>1. reports' \in [Client -> Report \cup {NULL}]
    BY <1>7 DEF ReportChanges, Report
  <2>2. Wishes' \subseteq (Client \cup {0}) \X App
    BY <1>7, <2>1 DEF ReportChanges, Wishes
  <2>3. sweep' \in History
    BY <1>7, <2>2 DEF ReportChanges, Observed, History
  <2> QED
    BY <1>0, <1>7, <2>1, <2>3 DEF ReportChanges
<1>8. ASSUME NEW a \in App, ContentChanges(a) PROVE CoreTypes'
  <2>1. cached' \subseteq App
    BY <1>8 DEF ContentChanges
  <2>2. Wishes' \subseteq (Client \cup {0}) \X App
    BY <1>8, <2>1 DEF ContentChanges, Wishes
  <2>3. sweep' \in History
    BY <1>8, <2>2 DEF ContentChanges, Observed, History
  <2> QED
    BY <1>0, <1>8, <2>1, <2>3 DEF ContentChanges
<1>9. ASSUME NEW a \in App, OthersQueue(a) PROVE CoreTypes'
  BY <1>0, <1>9 DEF OthersQueue
<1>10. ASSUME NEW a \in App, JobEnds(a) PROVE CoreTypes'
  BY <1>10 DEF JobEnds
<1>11. CASE ReadClock
  <2>1. thread' \in Thread /\ thread'.settings = Base
    BY <1>11, WaitingType DEF ReadClock, Thread
  <2> QED
    BY <1>11, <2>1 DEF ReadClock, world
<1>12. CASE ResolveSettings
  <2>1. /\ effective_settings \in Settings
        /\ effective_settings.window # NULL => parse_window(effective_settings.window)
    BY EffectiveIsSound
  <2>2. /\ thread' \in Thread /\ thread'.pc = "ticking"
        /\ thread'.settings = Base \/ thread'.settings = effective_settings
    BY ZenonT(60), <1>12, <2>1 DEF ResolveSettings, Thread
  <2> QED
    BY <1>0, <1>12, <2>1, <2>2 DEF ResolveSettings, world
<1>13. CASE NotDue
  BY <1>13, WaitingType DEF NotDue, world
<1>14. CASE claim_sweep
  <2>1. /\ thread' \in Thread /\ thread'.settings = thread.settings
        /\ thread.pc = "ticking"
    <3>1. 0 \in Minute /\ 0 \in Int
      BY DEF Minute
    <3> QED
      BY <1>14, <3>1 DEF claim_sweep, Thread
  <2>2. row' \in ScheduleState /\ row' # NULL
    <3>1. thread.lag \in Int
      BY DEF Thread
    <3>2. row' \in ScheduleState
      BY <1>14, <3>1 DEF claim_sweep, ScheduleState
    <3> QED
      BY <3>2
  <2>3. sweep' \in History
    BY <1>14, WishesType DEF claim_sweep, History, NoSweep
  <2> QED
    BY <1>14, <2>1, <2>2, <2>3 DEF claim_sweep, world
<1>15. CASE list_clients
  <2>1. thread' \in Thread /\ thread'.settings = thread.settings /\ thread.pc # "none"
    BY <1>15 DEF list_clients, Thread
  <2> QED
    BY <1>15, <2>1 DEF list_clients, world
<1>16. CASE fresh_client_snapshots
  <2>1. PICK c \in thread.todo :
          thread' = [thread EXCEPT !.todo = @ \ {c},
                       !.targets = IF FreshReport(reports[c])
                                   THEN @ \cup reports[c].apps ELSE @]
    BY <1>16 DEF fresh_client_snapshots
  <2>2. c \in Client /\ (FreshReport(reports[c]) => reports[c].apps \subseteq App)
    BY <2>1 DEF Thread, FreshReport, Report
  <2>3. thread' \in Thread /\ thread'.settings = thread.settings
        /\ thread'.pc = thread.pc
    BY <2>1, <2>2 DEF Thread
  <2> QED
    BY <1>16, <2>3 DEF fresh_client_snapshots, world
<1>17. CASE compute_targets
  <2>1. thread' \in Thread /\ thread'.settings = thread.settings /\ thread.pc # "none"
    BY <1>17 DEF compute_targets, Thread
  <2> QED
    BY <1>17, <2>1 DEF compute_targets, world
<1>18. CASE enqueue_prefill
  <2>1. PICK a \in thread.left :
          /\ active' = active \cup {a}
          /\ thread' = [thread EXCEPT !.left = @ \ {a},
                           !.enqueued = IF a \in active THEN @ ELSE @ + 1]
          /\ sweep' = [sweep EXCEPT !.asked = @ \cup {a}]
    BY <1>18 DEF enqueue_prefill
  <2>2. a \in App
    BY <2>1 DEF Thread
  <2>3. thread' \in Thread /\ thread'.settings = thread.settings
        /\ thread'.pc = thread.pc
    <3>1. (IF a \in active THEN thread.enqueued ELSE thread.enqueued + 1) \in Nat
      BY DEF Thread
    <3> QED
      BY <2>1, <3>1 DEF Thread
  <2>4. sweep' \in History
    BY <2>1, <2>2 DEF History
  <2> QED
    BY <1>18, <2>1, <2>2, <2>3, <2>4 DEF enqueue_prefill
<1>19. CASE finish_sweep
  <2>1. IsFiniteSet(thread.targets)
    BY FS_Subset DEF Thread
  <2>2. row' \in ScheduleState
    <3>1. Cardinality(thread.targets) \in Nat /\ thread.enqueued \in Nat
      BY <2>1, FS_CardinalityType DEF Thread
    <3>2. row \in ScheduleState
      BY <1>19 DEF finish_sweep
    <3> QED
      BY <1>19, <3>1, <3>2 DEF finish_sweep, ScheduleState
  <2>3. sweep' \in History
    BY <1>19 DEF finish_sweep, History
  <2> QED
    BY <1>19, <2>2, <2>3, WaitingType DEF finish_sweep, world
<1>20. CASE TickFails
  <2>1. sweep' \in History
    BY <1>20 DEF TickFails, CutOff, History
  <2> QED
    BY <1>0, <1>20, <2>1, WaitingType DEF TickFails, Sweeping, Computing, world
<1>21. CASE start
  BY <1>21, WaitingType DEF start, world
<1>22. CASE stop
  BY <1>0, <1>22 DEF stop, world
<1>23. CASE ThreadEnds
  BY <1>23, WaitingType DEF ThreadEnds, world
<1>24. CASE ProcessEnds
  <2>1. sweep' \in History
    BY <1>24 DEF ProcessEnds, CutOff, History
  <2> QED
    BY <1>0, <1>24, <2>1, WaitingType DEF ProcessEnds, world
<1>25. CASE UNCHANGED vars
  BY <1>25 DEF vars, world
<1> QED
  BY <1>2, <1>3, <1>4, <1>5, <1>7, <1>8, <1>9, <1>10, <1>11, <1>12, <1>13, <1>14,
     <1>15, <1>16, <1>17, <1>18, <1>19, <1>20, <1>21, <1>22, <1>23, <1>24, <1>25
     DEF Next, Tick, Sweeps, Environment

\* Every variable keeps its kind, and the settings a tick works with are sound,
\* whatever lies in the settings table.
THEOREM TypeCorrect == Spec => []TypeOK
<1>1. Init => CoreTypes
  BY InitTypes
<1>2. CoreTypes /\ [Next]_vars => CoreTypes'
  BY StepTypes
<1>3. CoreTypes => TypeOK
  BY CoreTypesSuffice
<1> QED
  BY <1>1, <1>2, <1>3, PTL DEF Spec

\* The estimate is the first opening whatever settings are in force.
THEOREM EstimateHolds == Spec => []EstimateIsFirstOpening
<1>1. TypeOK => EstimateIsFirstOpening
  BY NextOpenIsFirst DEF TypeOK, EstimateIsFirstOpening, Settings
<1> QED
  BY <1>1, TypeCorrect, PTL

-----------------------------------------------------------------------------
(* When a sweep begins.                                                    *)

\* The gates of maybe_sweep and the estimate agree, whatever the tick's lag
LEMMA DueIsEligible ==
  ASSUME CoreTypes, thread.settings.window # NULL
  PROVE  Due <=> next_eligible_at(thread.settings,
                   IF row = NULL THEN NULL ELSE row.since - thread.lag,
                   thread.minute) = 0
<1> DEFINE s == thread.settings
           since == IF row = NULL THEN NULL ELSE row.since - thread.lag
           wait == IF since = NULL \/ since >= s.interval THEN 0
                   ELSE s.interval - since
           m == Later(thread.minute, wait)
<1>1. /\ s.window \in ScheduleWindow /\ parse_window(s.window)
      /\ s.interval \in Nat \ {0} /\ thread.minute \in Minute /\ thread.lag \in Int
  BY DEF CoreTypes, Thread, Settings
<1>2. row # NULL => row.since - thread.lag \in Int
  BY <1>1 DEF CoreTypes, ScheduleState
<1>3. since = NULL <=> row = NULL
  BY <1>2
<1>4. /\ wait \in Nat
      /\ wait = 0 <=> interval_elapsed(row, thread.lag, s.interval)
  BY <1>1, <1>2, <1>3 DEF interval_elapsed
<1>5. m \in Minute
  BY <1>1, <1>4 DEF Later, Minute
<1>6. /\ next_open(s.window, m) \in Nat
      /\ next_open(s.window, m) = 0 <=> contains(s.window, m)
  BY <1>1, <1>5 DEF next_open, contains, overnight, ScheduleWindow, Minute
<1>7. wait = 0 => m = thread.minute
  BY <1>1 DEF Later, Minute
<1>8. wait + next_open(s.window, m) = 0
        <=> interval_elapsed(row, thread.lag, s.interval)
            /\ contains(s.window, thread.minute)
  BY <1>4, <1>6, <1>7
<1>9. next_eligible_at(s, since, thread.minute) = wait + next_open(s.window, m)
  BY DEF next_eligible_at
<1> QED
  BY <1>8, <1>9 DEF Due, InWindow

\* A tick that is at the gates goes to the sweep through the claim, and back to
\* waiting because it is not due or because a statement failed
LEMMA GatesPassed ==
  ASSUME CoreTypes, [Next]_vars, thread.pc = "ticking"
  PROVE  /\ thread'.pc = "listing" => claim_sweep
         /\ thread'.pc = "waiting" => NotDue \/ TickFails
<1>1. thread \in Thread /\ api # "down" /\ NoThread.pc = "none"
  BY WaitingType DEF CoreTypes
<1>2. CASE Passes \/ SetBack
  BY <1>1, <1>2 DEF Passes, SetBack, Thread
<1>3. CASE UNCHANGED thread
  BY <1>3
<1>4. CASE \/ ReadClock \/ ResolveSettings \/ list_clients \/ fresh_client_snapshots
           \/ compute_targets \/ enqueue_prefill \/ finish_sweep
  BY <1>4 DEF ReadClock, ResolveSettings, list_clients, fresh_client_snapshots,
              compute_targets, enqueue_prefill, finish_sweep
<1>5. CASE start \/ ThreadEnds \/ ProcessEnds
  BY <1>1, <1>5 DEF start, ThreadEnds, ProcessEnds
<1>6. CASE claim_sweep
  BY <1>1, <1>6 DEF claim_sweep, Thread
<1>7. CASE NotDue \/ TickFails
  BY <1>7, WaitingType DEF NotDue, TickFails
<1>8. CASE \/ ClockChanges \/ stop \/ UNCHANGED vars
           \/ \E p \in Patch : patch_settings(p)
           \/ \E c \in Client : ReportChanges(c)
           \/ \E a \in App : ContentChanges(a) \/ OthersQueue(a) \/ JobEnds(a)
  BY <1>3, <1>8 DEF ClockChanges, stop, vars, patch_settings, ReportChanges,
                    ContentChanges, OthersQueue, JobEnds
<1> QED
  BY <1>2, <1>4, <1>5, <1>6, <1>7, <1>8 DEF Next, Tick, Sweeps, Environment

\* A tick sweeps only if the estimate, asked when it read its clock, was "now";
\* and an eligible tick ends without a sweep only by a failed statement that
\* stamped nothing, for every lag, interval and window.
THEOREM SweepsWhenEligible == Spec => SweptWhenEligible
<1> DEFINE Decides ==
             thread.pc = "ticking" =>
               /\ thread'.pc = "listing" => Eligible
               /\ thread'.pc = "waiting" =>
                    ~Eligible \/ (used'["fault"] > used["fault"] /\ UNCHANGED row)
<1>1. CoreTypes => (Due <=> Eligible)
  BY DueIsEligible DEF Due, InWindow, Eligible
<1>2. CoreTypes /\ [Next]_vars => Decides
  <2> SUFFICES ASSUME CoreTypes, [Next]_vars, thread.pc = "ticking" PROVE Decides
    OBVIOUS
  <2>1. ASSUME claim_sweep PROVE Eligible
    BY <1>1, <2>1 DEF claim_sweep
  <2>2. ASSUME NotDue PROVE ~Eligible
    BY <1>1, <2>2 DEF NotDue
  <2>3. ASSUME TickFails PROVE used'["fault"] > used["fault"] /\ UNCHANGED row
    <3>1. /\ used \in [DOMAIN Limit -> Nat] /\ "fault" \in DOMAIN Limit
          /\ used' = [used EXCEPT !["fault"] = used["fault"] + 1]
      BY <2>3 DEF TickFails, Spend, CoreTypes, Limit
    <3>2. UNCHANGED row
      BY <2>3 DEF TickFails
    <3> QED
      BY <3>1, <3>2
  <2> QED
    BY <2>1, <2>2, <2>3, GatesPassed
<1>3. Decides => [Decides]_vars
  OBVIOUS
<1> QED
  BY <1>2, InitTypes, StepTypes, PTL DEF Spec, SweptWhenEligible

-----------------------------------------------------------------------------
(* What a sweep finds.                                                     *)

\* While the targets are read: what was wanted since the claim is still wanted,
\* is a target already or belongs to a client that is still to be read; and
\* every target was wanted at some moment.  Then the targets stand
Found ==
  /\ thread.pc # "queueing" => thread.left = {} /\ thread.enqueued = 0
  /\ thread.pc \notin {"reading", "queueing"} => thread.targets = {}
  /\ Computing => sweep.asked = {}
  /\ Computing =>
       /\ sweep.steady \subseteq Wishes /\ Wishes \subseteq sweep.wished
       /\ thread.targets \subseteq AppsOf(sweep.wished)
  /\ thread.pc = "reading" =>
       \A w \in sweep.steady :
         w[1] = 0 \/ w[1] \in thread.todo \/ w[2] \in thread.targets
  /\ thread.pc = "queueing" =>
       /\ AppsOf(sweep.steady) \subseteq thread.targets
       /\ thread.targets \subseteq AppsOf(sweep.wished)
       /\ sweep.asked \cup thread.left = thread.targets

\* Nothing of what Found speaks of changes
LEMMA FoundKept ==
  ASSUME Found, UNCHANGED <<reports, cached, sweep>>,
         thread'.pc = thread.pc, thread'.settings = thread.settings,
         thread'.todo = thread.todo, thread'.targets = thread.targets,
         thread'.left = thread.left, thread'.enqueued = thread.enqueued
  PROVE  Found'
<1>1. Wishes' = Wishes
  BY DEF Wishes, FreshReport
<1> QED
  BY <1>1 DEF Found, Computing, AppsOf

\* What a request changes while the targets are read, the history takes in
LEMMA FoundObserved ==
  ASSUME CoreTypes, Found, UNCHANGED thread, sweep' = Observed
  PROVE  Found'
<1>1. CASE Computing
  <2>1. /\ sweep'.steady = sweep.steady \cap Wishes'
        /\ sweep'.wished = sweep.wished \cup Wishes'
        /\ sweep'.asked = sweep.asked
    BY <1>1 DEF Observed, CoreTypes, History
  <2>2. thread.pc # "queueing"
    BY <1>1 DEF Computing
  <2>3. AppsOf(sweep.wished) \subseteq AppsOf(sweep'.wished)
    BY <2>1 DEF AppsOf
  <2> QED
    BY <1>1, <2>1, <2>2, <2>3 DEF Found, Computing
<1>2. CASE ~Computing
  BY <1>2 DEF Observed, Found, Computing, AppsOf
<1> QED
  BY <1>1, <1>2

LEMMA InitFound == Init => Found
<1> SUFFICES ASSUME Init PROVE Found
  OBVIOUS
<1>1. thread = Waiting /\ thread.pc = "waiting"
  BY WaitingType DEF Init
<1> QED
  BY <1>1, WaitingType DEF Found, Computing

LEMMA StepFound == CoreTypes /\ CoreTypes' /\ Found /\ [Next]_vars => Found'
<1> SUFFICES ASSUME CoreTypes, CoreTypes', Found, [Next]_vars PROVE Found'
  OBVIOUS
<1>0. thread \in Thread /\ sweep \in History
  BY DEF CoreTypes
<1>1. CASE Passes \/ SetBack
  BY <1>0, <1>1, FoundKept DEF Passes, SetBack, Thread, world
<1>2. CASE ClockChanges \/ stop \/ UNCHANGED vars
  BY <1>2, FoundKept DEF ClockChanges, stop, vars, world
<1>3. ASSUME NEW p \in Patch, patch_settings(p) PROVE Found'
  BY <1>3, FoundKept DEF patch_settings
<1>4. ASSUME NEW c \in Client, ReportChanges(c) PROVE Found'
  BY <1>4, FoundObserved DEF ReportChanges
<1>5. ASSUME NEW a \in App, ContentChanges(a) PROVE Found'
  BY <1>5, FoundObserved DEF ContentChanges
<1>6. ASSUME NEW a \in App, OthersQueue(a) \/ JobEnds(a) PROVE Found'
  BY <1>6, FoundKept DEF OthersQueue, JobEnds
<1>7. CASE ReadClock \/ NotDue \/ TickFails \/ start \/ ThreadEnds
           \/ ProcessEnds \/ finish_sweep
  <2>1. /\ thread'.pc \in {"resolving", "waiting", "none"}
        /\ thread'.left = {} /\ thread'.enqueued = 0 /\ thread'.targets = {}
    <3>1. thread' = Waiting \/ thread' = NoThread
          \/ thread' = [Waiting EXCEPT !.pc = "resolving", !.minute = minute]
      BY <1>7 DEF ReadClock, NotDue, TickFails, start, ThreadEnds, ProcessEnds,
                  finish_sweep
    <3>2. CASE thread' = Waiting \/ thread' = NoThread
      BY <3>2, WaitingType
    <3>3. CASE thread' = [Waiting EXCEPT !.pc = "resolving", !.minute = minute]
      BY <3>3 DEF Waiting
    <3> QED
      BY <3>1, <3>2, <3>3
  <2> QED
    BY <2>1 DEF Found, Computing
<1>8. CASE ResolveSettings
  <2>1. /\ thread'.pc = "ticking" /\ thread.pc = "resolving"
        /\ thread'.left = thread.left /\ thread'.enqueued = thread.enqueued
        /\ thread'.targets = thread.targets
    BY <1>0, <1>8 DEF ResolveSettings, Thread
  <2> QED
    BY <2>1 DEF Found, Computing
<1>9. CASE claim_sweep
  <2>1. /\ thread'.pc = "listing" /\ thread.pc = "ticking"
        /\ thread'.settings = thread.settings /\ thread'.left = thread.left
        /\ thread'.enqueued = thread.enqueued /\ thread'.targets = thread.targets
    BY <1>0, <1>9 DEF claim_sweep, Thread
  <2>2. Wishes' = Wishes
    BY <1>9, <2>1 DEF claim_sweep, world, Wishes, FreshReport
  <2>3. sweep'.steady = Wishes /\ sweep'.wished = Wishes /\ sweep'.asked = {}
    BY <1>9 DEF claim_sweep, NoSweep
  <2> QED
    BY <2>1, <2>2, <2>3 DEF Found, Computing
<1>10. CASE list_clients
  <2>1. /\ thread'.pc = "reading" /\ thread.pc = "listing"
        /\ thread'.settings = thread.settings /\ thread'.left = thread.left
        /\ thread'.enqueued = thread.enqueued /\ thread'.targets = thread.targets
        /\ thread'.todo = {c \in Client : reports[c] # NULL}
    BY <1>0, <1>10 DEF list_clients, Thread
  <2>2. Wishes' = Wishes /\ sweep' = sweep
    BY <1>10, <2>1 DEF list_clients, world, Wishes, FreshReport
  <2>3. \A w \in Wishes : w[1] = 0 \/ w[1] \in thread'.todo
    BY <2>1 DEF Wishes, FreshReport
  <2> QED
    BY <2>1, <2>2, <2>3 DEF Found, Computing
<1>11. CASE fresh_client_snapshots
  <2>1. PICK c \in thread.todo :
          thread' = [thread EXCEPT !.todo = @ \ {c},
                       !.targets = IF FreshReport(reports[c])
                                   THEN @ \cup reports[c].apps ELSE @]
    BY <1>11 DEF fresh_client_snapshots
  <2>2. /\ thread'.pc = "reading" /\ thread.pc = "reading"
        /\ thread'.settings = thread.settings /\ thread'.left = thread.left
        /\ thread'.enqueued = thread.enqueued
        /\ thread'.todo = thread.todo \ {c}
        /\ thread'.targets = IF FreshReport(reports[c])
                             THEN thread.targets \cup reports[c].apps
                             ELSE thread.targets
    BY <1>0, <1>11, <2>1 DEF fresh_client_snapshots, Thread
  <2>3. Wishes' = Wishes /\ sweep' = sweep
    BY <1>11, <2>2 DEF fresh_client_snapshots, world, Wishes, FreshReport
  <2>4. c \in Client /\ c # 0
    BY <1>0 DEF Thread
  <2>5. \A w \in sweep.steady :
          w[1] = 0 \/ w[1] \in thread'.todo \/ w[2] \in thread'.targets
    <3> SUFFICES ASSUME NEW w \in sweep.steady, w[1] = c
                 PROVE  w[2] \in thread'.targets
      BY <2>2 DEF Found
    <3>1. w \in Wishes
      BY <2>2 DEF Found, Computing
    <3>2. FreshReport(reports[c]) /\ w[2] \in reports[c].apps
      BY <2>4, <3>1 DEF Wishes
    <3> QED
      BY <2>2, <3>2
  <2>6. thread'.targets \subseteq AppsOf(sweep.wished)
    <3>1. thread.targets \subseteq AppsOf(sweep.wished)
      BY <2>2 DEF Found, Computing
    <3>2. ASSUME FreshReport(reports[c]), NEW a \in reports[c].apps
          PROVE  a \in AppsOf(sweep.wished)
      <4> DEFINE w == <<c, a>>
      <4>1. a \in App
        BY <2>4, <3>2 DEF CoreTypes, FreshReport, Report
      <4>2. w \in Client \X App /\ w[1] = c /\ w[2] = a
        BY <2>4, <4>1
      <4>3. w \in Wishes
        BY <3>2, <4>2 DEF Wishes
      <4>4. w \in sweep.wished
        BY <2>2, <4>3 DEF Found, Computing
      <4> QED
        BY <4>2, <4>4 DEF AppsOf
    <3> QED
      BY <2>2, <3>1, <3>2
  <2> QED
    BY <2>2, <2>3, <2>5, <2>6 DEF Found, Computing
<1>12. CASE compute_targets
  <2> DEFINE found == thread.targets \cup
                      (IF thread.settings.include_cached THEN cached ELSE {})
  <2>1. /\ thread'.pc = "queueing" /\ thread.pc = "reading" /\ thread.todo = {}
        /\ thread'.targets = found /\ thread'.left = found
        /\ sweep' = sweep
    BY <1>0, <1>12 DEF compute_targets, Thread
  <2>2. AppsOf(sweep.steady) \subseteq found
    <3> SUFFICES ASSUME NEW w \in sweep.steady PROVE w[2] \in found
      BY DEF AppsOf
    <3>1. w \in Wishes /\ (w[1] = 0 \/ w[2] \in thread.targets)
      BY <2>1 DEF Found, Computing
    <3>2. CASE w[1] = 0
      BY <3>1, <3>2 DEF Wishes
    <3> QED
      BY <3>1, <3>2
  <2>3. found \subseteq AppsOf(sweep.wished)
    <3> SUFFICES ASSUME NEW a \in cached, thread.settings.include_cached
                 PROVE  a \in AppsOf(sweep.wished)
      BY <2>1 DEF Found, Computing
    <3>1. <<0, a>> \in Wishes
      BY DEF Wishes
    <3>2. <<0, a>> \in sweep.wished
      BY <2>1, <3>1 DEF Found, Computing
    <3> QED
      BY <3>2 DEF AppsOf
  <2>4. sweep.asked = {}
    BY <2>1 DEF Found, Computing
  <2> QED
    BY <2>1, <2>2, <2>3, <2>4 DEF Found, Computing
<1>13. CASE enqueue_prefill
  <2>1. PICK a \in thread.left :
          /\ thread' = [thread EXCEPT !.left = @ \ {a},
                           !.enqueued = IF a \in active THEN @ ELSE @ + 1]
          /\ sweep' = [sweep EXCEPT !.asked = @ \cup {a}]
    BY <1>13 DEF enqueue_prefill
  <2>2. /\ thread'.pc = "queueing" /\ thread.pc = "queueing"
        /\ thread'.targets = thread.targets /\ thread'.left = thread.left \ {a}
        /\ sweep'.asked = sweep.asked \cup {a}
        /\ sweep'.steady = sweep.steady /\ sweep'.wished = sweep.wished
    BY <1>0, <1>13, <2>1 DEF enqueue_prefill, Thread, History
  <2> QED
    BY <2>2 DEF Found, Computing
<1> QED
  BY <1>1, <1>2, <1>3, <1>4, <1>5, <1>6, <1>7, <1>8, <1>9, <1>10, <1>11, <1>12,
     <1>13 DEF Next, Tick, Sweeps, Environment

LEMMA FoundAlways == Spec => [](CoreTypes /\ Found)
BY InitTypes, StepTypes, InitFound, StepFound, PTL DEF Spec

\* What one client's fresh reports, or the cache, name from the claim until the
\* targets stand is among them, for any number of clients and changes.
THEOREM SteadyWishesAreServed == Spec => []SteadyWishIsServed
<1>1. Found => SteadyWishIsServed
  BY DEF Found, SteadyWishIsServed
<1> QED
  BY <1>1, FoundAlways, PTL

\* A sweep asks for nothing that nobody wanted since its claim.
THEOREM NothingIsUnasked == Spec => []NothingUnasked
<1>1. Found => NothingUnasked
  BY DEF Found, NothingUnasked
<1> QED
  BY <1>1, FoundAlways, PTL

-----------------------------------------------------------------------------
(* What a sweep accounts for.                                              *)

\* A running sweep has emptied the counters, and counts no app twice
Accounted ==
  /\ Sweeping => row.targets = NULL /\ ~sweep.died /\ ~sweep.cut
  /\ thread.pc = "queueing" =>
       /\ sweep.asked \cap thread.left = {}
       /\ thread.enqueued <= Cardinality(sweep.asked)
  /\ CountersTellTheSweep

\* A step that leaves the sweep and the two counters alone keeps the account
LEMMA AccountKept ==
  ASSUME Accounted, Sweeping' <=> Sweeping, thread'.pc = thread.pc,
         thread'.left = thread.left, thread'.enqueued = thread.enqueued,
         sweep'.asked = sweep.asked, sweep'.died = sweep.died,
         sweep'.cut = sweep.cut,
         row = NULL <=> row' = NULL,
         row # NULL => row'.targets = row.targets /\ row'.enqueued = row.enqueued,
         Sweeping => row # NULL
  PROVE  Accounted'
BY DEF Accounted, CountersTellTheSweep

\* A tick that does nothing with a sweep
LEMMA AccountIdle ==
  ASSUME Accounted, ~Sweeping, ~Sweeping', UNCHANGED <<row, sweep>>
  PROVE  Accounted'
BY DEF Accounted, CountersTellTheSweep, Sweeping

\* A sweep that dies leaves the counters empty
LEMMA AccountDies ==
  ASSUME CoreTypes, Accounted, Sweeping, ~Sweeping', UNCHANGED row,
         sweep' = [sweep EXCEPT !.died = TRUE, !.steady = {}, !.wished = {}]
  PROVE  Accounted'
<1>1. sweep'.died
  BY DEF CoreTypes, History
<1>2. row.targets = NULL /\ thread'.pc # "queueing"
  BY DEF Accounted, Sweeping
<1> QED
  BY <1>1, <1>2 DEF Accounted, CountersTellTheSweep

LEMMA InitAccounted == Init => Accounted
<1> SUFFICES ASSUME Init PROVE Accounted
  OBVIOUS
<1>1. thread.pc = "waiting" /\ row = NULL
  BY WaitingType DEF Init
<1> QED
  BY <1>1 DEF Accounted, CountersTellTheSweep, Sweeping, Computing

LEMMA StepAccounted ==
  CoreTypes /\ CoreTypes' /\ Found /\ Accounted /\ [Next]_vars => Accounted'
<1> SUFFICES ASSUME CoreTypes, CoreTypes', Found, Accounted, [Next]_vars
             PROVE  Accounted'
  OBVIOUS
<1>0. /\ thread \in Thread /\ sweep \in History
      /\ row \in ScheduleState \cup {NULL} /\ (Sweeping => row # NULL)
  BY DEF CoreTypes
<1>1. CASE Passes \/ SetBack
  <2>1. /\ row = NULL <=> row' = NULL
        /\ row # NULL => row'.targets = row.targets /\ row'.enqueued = row.enqueued
    <3>1. CASE row = NULL
      BY <1>1, <3>1 DEF Passes, SetBack
    <3>2. CASE row \in ScheduleState
      <4>1. /\ row'.targets = row.targets /\ row'.enqueued = row.enqueued
            /\ row' \in ScheduleState
        BY <1>1, <3>2 DEF Passes, SetBack, ScheduleState
      <4> QED
        BY <3>2, <4>1
    <3> QED
      BY <1>0, <3>1, <3>2
  <2>2. /\ thread'.pc = thread.pc /\ thread'.left = thread.left
        /\ thread'.enqueued = thread.enqueued /\ sweep' = sweep
    BY <1>0, <1>1 DEF Passes, SetBack, Thread
  <2>3. Sweeping' <=> Sweeping
    BY <2>2 DEF Sweeping, Computing
  <2> QED
    BY <1>0, <2>1, <2>2, <2>3, AccountKept
<1>2. ASSUME UNCHANGED <<row, thread, sweep>> PROVE Accounted'
  BY <1>2 DEF Accounted, CountersTellTheSweep, Sweeping, Computing
<1>3. ASSUME UNCHANGED <<row, thread>>, sweep' = Observed PROVE Accounted'
  <2>1. /\ sweep'.asked = sweep.asked /\ sweep'.died = sweep.died
        /\ sweep'.cut = sweep.cut
    BY <1>0, <1>3 DEF Observed, History
  <2>2. Sweeping' <=> Sweeping
    BY <1>3 DEF Sweeping, Computing
  <2> QED
    BY <1>0, <1>3, <2>1, <2>2, AccountKept
<1>4. CASE ReadClock \/ ResolveSettings \/ NotDue \/ start \/ ThreadEnds
  <2>1. /\ thread.pc \in {"waiting", "resolving", "ticking", "none"}
        /\ UNCHANGED <<row, sweep>>
    BY <1>4 DEF ReadClock, ResolveSettings, NotDue, start, ThreadEnds, CoreTypes
  <2>2. thread'.pc \in {"waiting", "resolving", "ticking", "none"}
    <3>1. CASE ReadClock
      BY <3>1, <1>0 DEF ReadClock, Waiting
    <3>2. CASE ResolveSettings
      BY <3>2, <1>0 DEF ResolveSettings, Thread
    <3>3. CASE NotDue \/ start \/ ThreadEnds
      BY <3>3, WaitingType DEF NotDue, start, ThreadEnds
    <3> QED
      BY <1>4, <3>1, <3>2, <3>3
  <2> QED
    BY <2>1, <2>2, AccountIdle DEF Sweeping, Computing
<1>5. CASE claim_sweep
  <2>1. thread'.pc = "listing"
    BY <1>0, <1>5 DEF claim_sweep, Thread
  <2>2. row'.targets = NULL /\ ~sweep'.died /\ ~sweep'.cut
    BY <1>5 DEF claim_sweep, NoSweep
  <2> QED
    BY <2>1, <2>2 DEF Accounted, CountersTellTheSweep, Sweeping, Computing
<1>6. CASE list_clients \/ fresh_client_snapshots
  <2>1. thread.pc \in {"listing", "reading"} /\ thread'.pc = "reading"
    BY <1>0, <1>6 DEF list_clients, fresh_client_snapshots, Thread
  <2>2. UNCHANGED <<row, sweep>>
    BY <1>6 DEF list_clients, fresh_client_snapshots
  <2> QED
    BY <2>1, <2>2 DEF Accounted, CountersTellTheSweep, Sweeping, Computing
<1>7. CASE compute_targets
  <2>1. thread.pc = "reading" /\ thread'.pc = "queueing" /\ UNCHANGED <<row, sweep>>
        /\ thread'.enqueued = thread.enqueued
    BY <1>0, <1>7 DEF compute_targets, Thread
  <2>2. sweep.asked = {} /\ thread.enqueued = 0
    BY <2>1 DEF Found, Computing
  <2>3. Cardinality(sweep.asked) = 0
    BY <2>2, FS_EmptySet
  <2> QED
    BY <2>1, <2>2, <2>3 DEF Accounted, CountersTellTheSweep, Sweeping, Computing
<1>8. CASE enqueue_prefill
  <2>1. PICK a \in thread.left :
          /\ thread' = [thread EXCEPT !.left = @ \ {a},
                           !.enqueued = IF a \in active THEN @ ELSE @ + 1]
          /\ sweep' = [sweep EXCEPT !.asked = @ \cup {a}]
    BY <1>8 DEF enqueue_prefill
  <2>2. /\ thread.pc = "queueing" /\ thread'.pc = "queueing" /\ UNCHANGED row
        /\ thread'.left = thread.left \ {a}
        /\ thread'.enqueued = IF a \in active THEN thread.enqueued
                              ELSE thread.enqueued + 1
        /\ sweep'.asked = sweep.asked \cup {a}
        /\ sweep'.died = sweep.died /\ sweep'.cut = sweep.cut
    BY <1>0, <1>8, <2>1 DEF enqueue_prefill, Thread, History
  <2>3. sweep.asked \cap thread.left = {} /\ thread.enqueued <= Cardinality(sweep.asked)
    BY <2>2 DEF Accounted
  <2>4. IsFiniteSet(sweep.asked)
    BY <1>0, FS_Subset DEF History
  <2>5. Cardinality(sweep'.asked) = Cardinality(sweep.asked) + 1
    BY <2>1, <2>2, <2>3, <2>4, FS_AddElement
  <2>6. thread.enqueued \in Nat /\ Cardinality(sweep.asked) \in Nat
    BY <1>0, <2>4, FS_CardinalityType DEF Thread
  <2>7. thread'.enqueued <= Cardinality(sweep'.asked)
    BY <2>2, <2>3, <2>5, <2>6
  <2>8. sweep'.asked \cap thread'.left = {}
    BY <2>2, <2>3
  <2> QED
    BY <2>2, <2>7, <2>8 DEF Accounted, CountersTellTheSweep, Sweeping, Computing
<1>9. CASE finish_sweep
  <2>1. /\ thread.pc = "queueing" /\ thread'.pc = "waiting" /\ row \in ScheduleState
        /\ sweep'.asked = sweep.asked /\ sweep'.died = sweep.died
        /\ sweep'.cut <=> thread.left # {}
    BY <1>0, <1>9, WaitingType DEF finish_sweep, History, CoreTypes, Sweeping
  <2>2. row'.targets = Cardinality(thread.targets) /\ row'.enqueued = thread.enqueued
    BY <1>9, <2>1 DEF finish_sweep, ScheduleState
  <2>3. /\ sweep.asked \cup thread.left = thread.targets
        /\ thread.enqueued <= Cardinality(sweep.asked) /\ ~sweep.died
    BY <2>1 DEF Found, Accounted, Sweeping
  <2>4. IsFiniteSet(thread.targets)
    BY <1>0, FS_Subset DEF Thread
  <2>5. Cardinality(sweep.asked) <= Cardinality(thread.targets)
    BY <2>3, <2>4, FS_Subset
  <2>6. ~sweep'.cut => Cardinality(thread.targets) = Cardinality(sweep.asked)
    <3>1. ~sweep'.cut => thread.targets = sweep.asked
      BY <2>1, <2>3
    <3> QED
      BY <3>1
  <2>7. Cardinality(thread.targets) \in Nat
    BY <2>4, FS_CardinalityType
  <2>8. row'.targets # NULL
    BY <2>2, <2>7
  <2>9. ~Sweeping' /\ ~sweep'.died
    BY <2>1, <2>3 DEF Sweeping, Computing
  <2>10. CountersTellTheSweep'
    BY <2>1, <2>2, <2>3, <2>5, <2>6, <2>8, <2>9 DEF CountersTellTheSweep
  <2> QED
    BY <2>1, <2>9, <2>10 DEF Accounted
<1>10. CASE TickFails \/ ProcessEnds
  <2>1. ~Sweeping' /\ UNCHANGED row /\ sweep' = CutOff
    BY <1>10, WaitingType DEF TickFails, ProcessEnds, Sweeping, Computing
  <2>2. CASE Sweeping
    BY <2>1, <2>2, AccountDies DEF CutOff
  <2>3. CASE ~Sweeping
    BY <2>1, <2>3, AccountIdle DEF CutOff
  <2> QED
    BY <2>2, <2>3
<1>11. CASE \/ ClockChanges \/ stop \/ UNCHANGED vars
            \/ \E p \in Patch : patch_settings(p)
            \/ \E a \in App : OthersQueue(a) \/ JobEnds(a)
  BY <1>2, <1>11 DEF ClockChanges, stop, vars, patch_settings, OthersQueue, JobEnds
<1>12. CASE \/ \E c \in Client : ReportChanges(c)
            \/ \E a \in App : ContentChanges(a)
  BY <1>3, <1>12 DEF ReportChanges, ContentChanges
<1> QED
  BY <1>1, <1>4, <1>5, <1>6, <1>7, <1>8, <1>9, <1>10, <1>11, <1>12
     DEF Next, Tick, Sweeps, Environment

\* The counters tell about the sweep claimed last and about nothing else, for
\* any number of targets, kills, failing statements and stops.
THEOREM CountersAreTrue == Spec => []CountersTellTheSweep
<1>1. Accounted => CountersTellTheSweep
  BY DEF Accounted
<1> QED
  BY <1>1, InitTypes, StepTypes, InitFound, StepFound, InitAccounted,
     StepAccounted, PTL DEF Spec
=============================================================================
