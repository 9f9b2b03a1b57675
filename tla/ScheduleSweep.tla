---------------------------- MODULE ScheduleSweep ----------------------------
(***************************************************************************)
(* The prefill scheduler of vault-api (scheduler.py) under the settings of *)
(* settings_store.py: a thread that ticks, resolves the settings, lets the *)
(* event sweep run and, inside the window and not before the interval is   *)
(* over, claims a sweep, reads what every client has installed and what is *)
(* in the cache, and queues one prefill after the other.                   *)
(*                                                                         *)
(* Time is kept as what the code compares: the local minute of the day,    *)
(* the minutes since last_sweep_at, and how old the clock reading of the   *)
(* present tick is.  All three move together when a minute passes or the   *)
(* clock is set back, so that behaviours go on for ever in finitely many   *)
(* states.                                                                 *)
(***************************************************************************)
EXTENDS ScheduleWindow, FiniteSets, FiniteSetsExt

CONSTANTS
  Client, App,          \* numbered in the order they are read
  Base,                 \* the settings of the environment
  Stored,               \* bound: rows the settings table starts with
  Patch,                \* bound: requests to PATCH /v1/settings
  Installed,            \* bound: lists of apps that agents report
  NULL,                 \* absent: no row, no counter, no window, no override
  BLANK, KEEP,          \* the empty text; a key that a PATCH does not name
  MaxLag,               \* bound: minutes the event sweep may take
  MaxOutside,           \* bound: reports, deletions, content, requests
  MaxFaults             \* bound: kills, stops, exceptions, changes of the clock

Settings == [window : ScheduleWindow \cup {NULL}, interval : Nat \ {0},
             include_cached : BOOLEAN]

\* A client's latest report; the schedule_state row
Report == [apps : SUBSET App, age : {"fresh", "stale", "unreadable"}]
ScheduleState == [since : Int, targets : Nat \cup {NULL},
                  enqueued : Nat \cup {NULL}]

\* The rows of the settings table: text whose form is right, but which may not
\* parse; and what a PATCH may name
RawWindow == [start_minute : Int, end_minute : Int]
SettingsRow == [window : RawWindow \cup {BLANK, NULL},
                interval : Int \cup {BLANK, NULL},
                include_cached : BOOLEAN \cup {NULL}]
SettingsPatch == [window : RawWindow \cup {BLANK, NULL, KEEP},
                  interval : Int \cup {BLANK, NULL, KEEP},
                  include_cached : BOOLEAN \cup {NULL, KEEP}]

ASSUME ScheduleAssumption ==
  /\ IsFiniteSet(Client) /\ Client \subseteq Nat \ {0}
  /\ IsFiniteSet(App) /\ App \subseteq Nat
  /\ Base \in Settings
  /\ Base.window # NULL => parse_window(Base.window)
  /\ Installed \subseteq SUBSET App
  /\ Stored \subseteq SettingsRow /\ Patch \subseteq SettingsPatch
  /\ {NULL, BLANK, KEEP} \cap (RawWindow \cup Int \cup BOOLEAN) = {}
  /\ NULL \notin Report \cup ScheduleState
  /\ {MaxLag, MaxOutside, MaxFaults} \subseteq Nat

VARIABLES
  minute,       \* the local time of day
  settings,     \* the rows of the settings table, as text
  reports,      \* per client the latest report, NULL without one
  cached,       \* apps with content in the cache
  active,       \* apps with a queued or running prefill
  row,          \* the schedule_state row, NULL before the first sweep
  api,          \* "up" | "stopping" | "down"
  thread,       \* the scheduler thread: where it is and what it has read
  used,         \* how much of each bound is used up
  sweep         \* history of the sweep claimed last

world == <<settings, reports, cached, active>>
vars == <<minute, world, row, api, thread, used, sweep>>

Limit == [outside |-> MaxOutside, fault |-> MaxFaults]
Spend(k) == used[k] < Limit[k] /\ used' = [used EXCEPT ![k] = used[k] + 1]

-----------------------------------------------------------------------------
(* Settings.                                                               *)

\* The text of one key, by the key's grammar; blank disables the window and
\* is refused for the others
Parses(key, raw) ==
  CASE key = "window"   -> raw # BLANK => parse_window(raw)
    [] key = "interval" -> raw # BLANK /\ raw >= 1
    [] OTHER            -> raw \in BOOLEAN

Typed(key, raw) == IF raw = BLANK THEN NULL ELSE raw

\* Mutant: a stored value is used although it does not parse any more
effective_settings_Unchecked ==
  [key \in DOMAIN Base |->
     IF settings[key] # NULL THEN Typed(key, settings[key]) ELSE Base[key]]

\* The override where there is one that parses, else the environment's value
effective_settings ==
  [key \in DOMAIN Base |->
     IF settings[key] # NULL /\ Parses(key, settings[key])
     THEN Typed(key, settings[key]) ELSE Base[key]]

\* The longest interval that may be in force, and the minutes since a sweep
\* beyond which no answer depends on their number any more
MaxInterval ==
  Max({Base.interval}
      \cup {s.interval : s \in {t \in Stored : t.interval # NULL}}
      \cup {p.interval : p \in {q \in Patch : q.interval \notin {KEEP, NULL}}})
SinceCap == MaxInterval + MaxLag + MaxFaults

-----------------------------------------------------------------------------
(* What a sweep should find.                                               *)

\* A report the freshness gate lets through
FreshReport(r) == r # NULL /\ r.age = "fresh"

\* Who wants what at this moment; 0 is the cache
Wishes ==
  {w \in Client \X App : FreshReport(reports[w[1]]) /\ w[2] \in reports[w[1]].apps}
  \cup {0} \X (IF thread.settings.include_cached THEN cached ELSE {})

AppsOf(wishes) == {w[2] : w \in wishes}

\* Clients and apps are taken in their order
IsFirst(x, S) == \A y \in S : x <= y

Thread == [pc : {"none", "waiting", "resolving", "ticking", "listing", "reading",
                "queueing"},
           minute : Minute, lag : Int, settings : Settings, todo : SUBSET Client,
           targets : SUBSET App, left : SUBSET App, enqueued : Nat]

Waiting == [pc |-> "waiting", minute |-> 0, lag |-> 0, settings |-> Base,
            todo |-> {}, targets |-> {}, left |-> {}, enqueued |-> 0]
NoThread == [Waiting EXCEPT !.pc = "none"]

Deciding == thread.pc \in {"resolving", "ticking"}
Computing == thread.pc \in {"listing", "reading"}
Sweeping == Computing \/ thread.pc = "queueing"

History == [asked : SUBSET App, cut : BOOLEAN, died : BOOLEAN,
            steady : SUBSET ((Client \cup {0}) \X App),
            wished : SUBSET ((Client \cup {0}) \X App)]

NoSweep == [asked |-> {}, cut |-> FALSE, died |-> FALSE, steady |-> {},
            wished |-> {}]

\* Every variable is of its kind; the settings a tick works with are sound.
TypeOK ==
  /\ minute \in Minute
  /\ settings \in SettingsRow
  /\ reports \in [Client -> Report \cup {NULL}]
  /\ cached \subseteq App /\ active \subseteq App
  /\ row \in ScheduleState \cup {NULL}
  /\ api \in {"up", "stopping", "down"}
  /\ thread \in Thread
  /\ \A s \in {thread.settings, effective_settings} :
       s \in Settings /\ (s.window # NULL => parse_window(s.window))
  /\ api = "down" => thread.pc = "none"
  /\ used \in [DOMAIN Limit -> Nat]
  /\ sweep \in History

Init ==
  /\ minute \in Minute
  /\ settings \in Stored
  /\ reports = [c \in Client |-> NULL]
  /\ cached = {}
  /\ active = {}
  /\ row = NULL
  /\ api = "up"
  /\ thread = Waiting
  /\ used = [k \in DOMAIN Limit |-> 0]
  /\ sweep = NoSweep

-----------------------------------------------------------------------------
(* The world around the scheduler.                                         *)

\* What the history of a sweep keeps while the targets are being read
Observed ==
  IF Computing
  THEN [sweep EXCEPT !.steady = @ \cap Wishes', !.wished = @ \cup Wishes']
  ELSE sweep

\* A minute passes; a tick is at most MaxLag minutes late
Passes ==
  /\ Deciding => thread.lag < MaxLag
  /\ minute' = Later(minute, 1)
  /\ row' = IF row = NULL \/ row.since >= SinceCap THEN row
            ELSE [row EXCEPT !.since = @ + 1]
  /\ thread' = IF Deciding THEN [thread EXCEPT !.lag = @ + 1] ELSE thread
  /\ UNCHANGED <<world, api, used, sweep>>

\* The operator, or a new boot, sets the clock back by a minute
SetBack ==
  /\ Spend("fault")
  /\ minute' = (minute + MINUTES_PER_DAY - 1) % MINUTES_PER_DAY
  /\ row' = IF row = NULL THEN row ELSE [row EXCEPT !.since = @ - 1]
  /\ thread' = IF Deciding THEN [thread EXCEPT !.lag = @ - 1] ELSE thread
  /\ UNCHANGED <<world, api, sweep>>

\* Summer time begins or ends: local time jumps, UTC does not
ClockChanges ==
  /\ Spend("fault")
  /\ \E m \in Minute \ {minute} : minute' = m
  /\ UNCHANGED <<world, row, api, thread, sweep>>

\* PATCH /v1/settings: every key is validated, then all are written in one
\* transaction; one that does not parse is a 422 and nothing is written
patch_settings(p) ==
  /\ api # "down"
  /\ \A key \in DOMAIN p : p[key] \notin {KEEP, NULL} => Parses(key, p[key])
  /\ Spend("outside")
  /\ settings' = [key \in DOMAIN settings |->
                    IF p[key] = KEEP THEN settings[key] ELSE p[key]]
  /\ UNCHANGED <<minute, reports, cached, active, row, api, thread, sweep>>

\* A report arrives, ages, spoils, or its client is deleted.  Its age is counted
\* to the clock reading of the tick, so within a tick none turns stale
ReportChanges(c) ==
  /\ \/ /\ api # "down"
        /\ \E apps \in Installed :
             reports' = [reports EXCEPT ![c] = [apps |-> apps, age |-> "fresh"]]
     \/ /\ reports[c] # NULL
        /\ \/ /\ reports[c].age = "fresh"
              /\ \E age \in {"stale", "unreadable"} :
                   /\ age = "stale" => ~Deciding /\ ~Sweeping
                   /\ reports' = [reports EXCEPT ![c].age = age]
           \/ /\ api # "down"
              /\ reports' = [reports EXCEPT ![c] = NULL]
  /\ Spend("outside")
  /\ UNCHANGED <<minute, settings, cached, active, row, api, thread>>
  /\ sweep' = Observed

\* Content of an app comes into the cache or is deleted
ContentChanges(a) ==
  /\ Spend("outside")
  /\ cached' = IF a \in cached THEN cached \ {a} ELSE cached \cup {a}
  /\ UNCHANGED <<minute, settings, reports, active, row, api, thread>>
  /\ sweep' = Observed

\* Others queue a prefill; any prefill comes to an end
OthersQueue(a) ==
  /\ api # "down"
  /\ a \notin active
  /\ Spend("outside")
  /\ active' = active \cup {a}
  /\ UNCHANGED <<minute, settings, reports, cached, row, api, thread, sweep>>

JobEnds(a) ==
  /\ a \in active
  /\ active' = active \ {a}
  /\ UNCHANGED <<minute, settings, reports, cached, row, api, thread, used, sweep>>

-----------------------------------------------------------------------------
(* One tick of the thread.                                                 *)

\* _tick: the clock is read first
ReadClock ==
  /\ thread.pc = "waiting" /\ api = "up"
  /\ thread' = [Waiting EXCEPT !.pc = "resolving", !.minute = minute]
  /\ UNCHANGED <<minute, world, row, api, used, sweep>>

\* Then the settings; if they cannot be resolved, the environment's hold.
\* The event sweep runs before the tick goes on
ResolveSettings ==
  /\ thread.pc = "resolving"
  /\ \/ /\ thread' = [thread EXCEPT !.pc = "ticking",
                                   !.settings = effective_settings]
        /\ UNCHANGED used
     \/ /\ Spend("fault")
        /\ thread' = [thread EXCEPT !.pc = "ticking", !.settings = Base]
  /\ UNCHANGED <<minute, world, row, api, sweep>>

\* Mutant: an interval that ends with this minute is not over
interval_elapsed_Strict(state, now_lag, interval) ==
  state # NULL => state.since - now_lag > interval

\* Has the interval passed since last_sweep_at, at the clock reading now_lag
\* minutes ago?
interval_elapsed(state, now_lag, interval) ==
  state # NULL => state.since - now_lag >= interval

\* The gates of maybe_sweep; a window of None means disabled.  The row is read
\* only inside the window
InWindow ==
  /\ thread.settings.window # NULL
  /\ contains(thread.settings.window, thread.minute)

Due ==
  /\ InWindow
  /\ interval_elapsed(row, thread.lag, thread.settings.interval)

NotDue ==
  /\ thread.pc = "ticking" /\ ~Due
  /\ thread' = Waiting
  /\ UNCHANGED <<minute, world, row, api, used, sweep>>

\* Mutant: the counters of the last sweep stay
claim_sweep_KeepsCounters ==
  /\ thread.pc = "ticking" /\ Due
  /\ row' = IF row = NULL
            THEN [since |-> thread.lag, targets |-> NULL, enqueued |-> NULL]
            ELSE [row EXCEPT !.since = thread.lag]
  /\ thread' = [thread EXCEPT !.pc = "listing", !.minute = 0, !.lag = 0]
  /\ sweep' = [NoSweep EXCEPT !.steady = Wishes, !.wished = Wishes]
  /\ UNCHANGED <<minute, world, api, used>>

\* Interval and stamp are one transaction; it also empties the counters
claim_sweep ==
  /\ thread.pc = "ticking" /\ Due
  /\ row' = [since |-> thread.lag, targets |-> NULL, enqueued |-> NULL]
  /\ thread' = [thread EXCEPT !.pc = "listing", !.minute = 0, !.lag = 0]
  /\ sweep' = [NoSweep EXCEPT !.steady = Wishes, !.wished = Wishes]
  /\ UNCHANGED <<minute, world, api, used>>

\* compute_targets: every client with a report, in one statement
list_clients ==
  /\ thread.pc = "listing"
  /\ thread' = [thread EXCEPT !.pc = "reading",
                   !.todo = {c \in Client : reports[c] # NULL}]
  /\ UNCHANGED <<minute, world, row, api, used, sweep>>

\* Mutant: a client's report replaces what was found before
fresh_client_snapshots_Last ==
  /\ thread.pc = "reading"
  /\ \E c \in thread.todo :
       /\ IsFirst(c, thread.todo)
       /\ thread' = [thread EXCEPT !.todo = @ \ {c},
                    !.targets = IF FreshReport(reports[c])
                                THEN reports[c].apps ELSE @]
  /\ UNCHANGED <<minute, world, row, api, used, sweep>>

\* Mutant: the freshness gate is left out
fresh_client_snapshots_Stale ==
  /\ thread.pc = "reading"
  /\ \E c \in thread.todo :
       /\ IsFirst(c, thread.todo)
       /\ thread' = [thread EXCEPT !.todo = @ \ {c},
                    !.targets = IF reports[c] # NULL
                                THEN @ \cup reports[c].apps ELSE @]
  /\ UNCHANGED <<minute, world, row, api, used, sweep>>

\* One client after the other; one that is gone, stale or unreadable by now
\* adds nothing
fresh_client_snapshots ==
  /\ thread.pc = "reading"
  /\ \E c \in thread.todo :
       /\ IsFirst(c, thread.todo)
       /\ thread' = [thread EXCEPT !.todo = @ \ {c},
                    !.targets = IF FreshReport(reports[c])
                                THEN @ \cup reports[c].apps ELSE @]
  /\ UNCHANGED <<minute, world, row, api, used, sweep>>

\* What is in the cache is added if the settings say so; the targets stand.  The
\* scan of the disk and the query of the mapping behind it are one read here
compute_targets ==
  /\ thread.pc = "reading" /\ thread.todo = {}
  /\ LET found == thread.targets \cup
                  (IF thread.settings.include_cached THEN cached ELSE {})
     IN thread' = [thread EXCEPT !.pc = "queueing", !.targets = found,
                                 !.left = found]
  /\ UNCHANGED <<minute, world, row, api, used, sweep>>

\* One prefill after the other, unless the process is stopping; an app that
\* has an active prefill keeps it
enqueue_prefill ==
  /\ thread.pc = "queueing" /\ api = "up"
  /\ \E a \in thread.left :
       /\ IsFirst(a, thread.left)
       /\ active' = active \cup {a}
       /\ thread' = [thread EXCEPT !.left = @ \ {a},
                        !.enqueued = IF a \in active THEN @ ELSE @ + 1]
       /\ sweep' = [sweep EXCEPT !.asked = @ \cup {a}]
  /\ UNCHANGED <<minute, settings, reports, cached, row, api, used>>

\* The counters are written and the tick is over
finish_sweep ==
  /\ thread.pc = "queueing"
  /\ thread.left = {} \/ api = "stopping"
  /\ row' = [row EXCEPT !.targets = Cardinality(thread.targets),
                        !.enqueued = thread.enqueued]
  /\ thread' = Waiting
  /\ sweep' = [sweep EXCEPT !.cut = thread.left # {}, !.steady = {}, !.wished = {}]
  /\ UNCHANGED <<minute, world, api, used>>

\* The history of a sweep that ends where it is
CutOff ==
  IF Sweeping THEN [sweep EXCEPT !.died = TRUE, !.steady = {}, !.wished = {}]
  ELSE sweep

\* Mutant: an exception ends the thread
TickFails_EndsThread ==
  /\ Sweeping \/ (thread.pc = "ticking" /\ InWindow)
  /\ Spend("fault")
  /\ thread' = NoThread
  /\ sweep' = CutOff
  /\ UNCHANGED <<minute, world, row, api>>

\* A statement of maybe_sweep fails, in the sweep or before it: the row cannot
\* be read, or the claim's transaction is rolled back.  The tick is over, the
\* thread survives
TickFails ==
  /\ Sweeping \/ (thread.pc = "ticking" /\ InWindow)
  /\ Spend("fault")
  /\ thread' = Waiting
  /\ sweep' = CutOff
  /\ UNCHANGED <<minute, world, row, api>>

-----------------------------------------------------------------------------
(* The process.                                                            *)

start ==
  /\ api = "down"
  /\ api' = "up"
  /\ thread' = Waiting
  /\ UNCHANGED <<minute, world, row, used, sweep>>

\* The stop event is set; the thread ends when its tick is over
stop ==
  /\ api = "up"
  /\ Spend("fault")
  /\ api' = "stopping"
  /\ UNCHANGED <<minute, world, row, thread, sweep>>

ThreadEnds ==
  /\ thread.pc = "waiting" /\ api = "stopping"
  /\ thread' = NoThread
  /\ UNCHANGED <<minute, world, row, api, used, sweep>>

\* The process ends: after the thread, when joining it took too long, or by a
\* kill
ProcessEnds ==
  /\ api # "down"
  /\ \/ api = "stopping" /\ UNCHANGED used
     \/ api = "up" /\ Spend("fault")
  /\ api' = "down"
  /\ thread' = NoThread
  /\ sweep' = CutOff
  /\ UNCHANGED <<minute, world, row>>

Environment ==
  \/ SetBack \/ ClockChanges
  \/ \E p \in Patch : patch_settings(p)
  \/ \E c \in Client : ReportChanges(c)
  \/ \E a \in App : ContentChanges(a) \/ OthersQueue(a)
  \/ TickFails \/ stop \/ ProcessEnds

Sweeps ==
  \/ claim_sweep \/ list_clients \/ fresh_client_snapshots \/ compute_targets
  \/ enqueue_prefill \/ finish_sweep

Tick == ReadClock \/ ResolveSettings \/ NotDue \/ Sweeps

Next ==
  \/ Passes
  \/ Tick
  \/ \E a \in App : JobEnds(a)
  \/ start \/ ThreadEnds
  \/ Environment

Spec == Init /\ [][Next]_vars

\* The window and the interval allow a sweep at this very minute
DueNow ==
  LET s == effective_settings IN
  /\ s.window # NULL /\ contains(s.window, minute)
  /\ interval_elapsed(row, 0, s.interval)

\* Time goes on, the thread runs, and the service is started again.  The
\* thread ticks every minute, so no minute in which a sweep is due is for
\* ever one in which it does not look
Fairness ==
  /\ WF_vars(Passes)
  /\ WF_vars(ResolveSettings \/ NotDue \/ Sweeps)
  /\ SF_vars(ReadClock /\ DueNow)
  /\ WF_vars(start)
  /\ WF_vars(api = "stopping" /\ ProcessEnds)

FairSpec == Spec /\ Fairness

-----------------------------------------------------------------------------
(* Properties.                                                             *)

\* A window is the minutes from its start round to its end, over midnight or
\* up to it, and next_open names the first of them that is not past
\* (ScheduleWindow.contains, next_open).
EstimateIsFirstOpening ==
  LET w == effective_settings.window IN
  w # NULL => FirstOpening(w, minute, next_open(w, minute))

\* The minutes until next_eligible_at, asked at minute m
next_eligible_at(s, since, m) ==
  LET wait == IF since = NULL \/ since >= s.interval THEN 0
              ELSE s.interval - since
  IN wait + next_open(s.window, Later(m, wait))

\* What the estimate said when the tick read its clock
Eligible ==
  /\ thread.settings.window # NULL
  /\ next_eligible_at(thread.settings,
       IF row = NULL THEN NULL ELSE row.since - thread.lag, thread.minute) = 0

\* A tick sweeps only if next_eligible_at, asked when the tick read its clock,
\* would have said "now"; and if it would have, the tick sweeps, or one of its
\* statements failed and nothing is stamped, so that the next tick may.  The
\* decision of maybe_sweep and the estimate of GET /v1/schedule are two
\* computations of one thing, also when the event sweep made the tick late or
\* the clock was set back meanwhile.
SweptWhenEligible ==
  [][thread.pc = "ticking" =>
       /\ thread'.pc = "listing" => Eligible
       /\ thread'.pc = "waiting" =>
            ~Eligible \/ (used'["fault"] > used["fault"] /\ UNCHANGED row)]_vars

\* The counters tell about the sweep that was claimed last, and about nothing
\* else: they are absent exactly while it runs or if it died, and once they
\* are there every target was asked for, unless a shutdown cut it short
\* (claim_sweep, finish_sweep, and the comment of schedule_state in db.py).
CountersTellTheSweep ==
  row # NULL =>
    /\ row.targets = NULL <=> Sweeping \/ sweep.died
    /\ row.targets # NULL =>
         /\ sweep.cut \/ row.targets = Cardinality(sweep.asked)
         /\ row.enqueued <= Cardinality(sweep.asked)
         /\ Cardinality(sweep.asked) <= row.targets

\* What one client's fresh reports, or the cache, name from the claim until the
\* targets stand is among the targets, whatever changes beside it
\* (compute_targets reads client after client, outside a transaction).  It is
\* not enough that some client names it at each moment.
SteadyWishIsServed ==
  thread.pc = "queueing" => AppsOf(sweep.steady) \subseteq sweep.asked \cup thread.left

\* A sweep asks for nothing that no fresh report, and not the cache, named at
\* some moment since it was claimed: a stale, unreadable or deleted client
\* drives no downloads.  (The cache names an app if its depots are on disk and
\* mapped at one moment, since the two are one read in compute_targets.)
NothingUnasked ==
  thread.pc = "queueing" => sweep.asked \cup thread.left \subseteq AppsOf(sweep.wished)

\* An app that a fresh report names for good is queued again and again while a
\* window is configured: crashes in the middle of a sweep, a clock set back
\* and stops postpone it, they do not end it (the module comment and
\* claim_sweep: "the apps it did not reach are picked up by the next one").
WishReturns ==
  \A a \in App :
    (<>[](/\ effective_settings.window # NULL
          /\ \E c \in Client : FreshReport(reports[c]) /\ a \in reports[c].apps))
    => []<>(a \in active)
=============================================================================
