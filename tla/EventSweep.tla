----------------------------- MODULE EventSweep -----------------------------
(***************************************************************************)
(* The cache-event sweep of vault-api (event_sweep.py): vault-core appends *)
(* lines to the event log, the sweep reads them from a byte cursor, queues *)
(* prefills for misses, commits statistics and cursor in one transaction,  *)
(* and truncates the log it has read.  Crashes and failing statements end  *)
(* a sweep anywhere; an operator may rotate the log instead.               *)
(*                                                                         *)
(* The file is a sequence of chunks, the cursor counts them: a line is one *)
(* or two chunks, only its last one has the newline, so a read may land    *)
(* inside a line and so may a cursor that no longer fits the file.  Junk   *)
(* is a line of more chunks, up to more than a whole batch.                *)
(*                                                                         *)
(* A line is the id of its writing.  What a sweep may do about a line is   *)
(* its kind: the app a served chunk MISS maps to, or nothing.              *)
(***************************************************************************)
EXTENDS Naturals, Sequences, FiniteSets

CONSTANTS
  App,
  Other, Junk,          \* lines that trigger nothing; unparsable long lines
  MaxBatch,             \* MAX_BATCH_BYTES, in chunks
  RotateAt,             \* VAULT_EVENT_LOG_MAX_BYTES, in chunks; 0: never
  MaxPerSweep,          \* VAULT_MISS_TRIGGER_MAX_PER_SWEEP
  MaxLines,             \* bound: lines vault-core writes
  MaxJunk,              \* bound: chunks of a junk line
  MaxCrashes,           \* bound: sweeps that end by a crash or an exception
  MaxRotations,         \* bound: rotations by the operator
  MaxExpiries           \* bound: cooldowns and manifest checks that age

ASSUME EventSweepAssumption ==
  /\ Other \notin App /\ Junk \notin App /\ Other # Junk
  /\ MaxBatch \in Nat \ {0, 1}
  /\ {RotateAt, MaxPerSweep, MaxLines, MaxJunk, MaxCrashes, MaxRotations,
      MaxExpiries} \subseteq Nat

VARIABLES
  log,            \* the event log: a sequence of chunks
  lines,          \* the kinds of the lines begun so far, by id
  open,           \* chunks written of the line vault-core is in; 0: none
  cursor,         \* event_sweep_state.cursor_offset
  due,            \* the interval since last_sweep_at has passed
  sweep,          \* the sweep in progress
  counted,        \* how often the statistics have counted a line
  app,            \* per app: active job, cooldown, cached and current
  used,           \* how much of each bound is used up
  file,           \* history: which file the log and the cursor belong to
  fate            \* history: what else became of the lines (see Fate)

vars == <<log, lines, open, cursor, due, sweep, counted, app, used, file, fate>>

LineId == 1..MaxLines
Kind == App \cup {Other, Junk}
Chunk == [line : LineId, part : Nat \ {0}, end : BOOLEAN]

NoApp == "none"
NoSweep == [pc |-> "idle", batch |-> {}, next |-> 0, todo |-> {}, cur |-> NoApp,
            triggered |-> 0, of |-> 0]
Sweep == [pc : {"idle", "read", "trigger", "enqueue", "record", "commit",
                "check", "truncate", "reset"},
          batch : SUBSET LineId, next : Nat, todo : SUBSET App,
          cur : App \cup {NoApp}, triggered : Nat, of : Nat]

\* answered: a miss that was decided on; capped: dropped by the cap; gone:
\* destroyed unread by a truncation or a rotation; skipped: in front of a
\* cursor that belonged to an earlier file
Fate == [answered : SUBSET LineId, capped : SUBSET LineId,
         gone : SUBSET LineId, skipped : SUBSET LineId]

TypeOK ==
  /\ log \in Seq(Chunk)
  /\ lines \in Seq(Kind) /\ Len(lines) <= MaxLines
  /\ open \in Nat
  /\ cursor \in Nat
  /\ due \in BOOLEAN
  /\ sweep \in Sweep
  /\ counted \in [LineId -> Nat]
  /\ app \in [App -> [job : BOOLEAN, cooldown : BOOLEAN, current : BOOLEAN]]
  /\ used \in [{"crash", "rotation", "expiry"} -> Nat]
  /\ file \in [log : Nat, cursor : Nat]
  /\ fate \in Fate

Init ==
  /\ log = <<>> /\ lines = <<>> /\ open = 0
  /\ cursor = 0 /\ due = TRUE /\ sweep = NoSweep
  /\ counted = [l \in LineId |-> 0]
  /\ app = [a \in App |-> [job |-> FALSE, cooldown |-> FALSE, current |-> FALSE]]
  /\ used = [k \in {"crash", "rotation", "expiry"} |-> 0]
  /\ file = [log |-> 0, cursor |-> 0]
  /\ fate = [answered |-> {}, capped |-> {}, gone |-> {}, skipped |-> {}]

Bound == [crash |-> MaxCrashes, rotation |-> MaxRotations, expiry |-> MaxExpiries]
Spend(k) == used[k] < Bound[k] /\ used' = [used EXCEPT ![k] = used[k] + 1]

LinesIn(S) == {log[i].line : i \in S}

\* Lines with a chunk at S that no statistics will tell of
Uncounted(S) == {l \in LinesIn(S) : counted[l] = 0 /\ lines[l] # Junk}

\* The file was emptied since the cursor was set, and not by a reset of it
Stale == cursor > 0 /\ file.cursor # file.log

\* The log is emptied: what was not counted yet is gone
Emptied ==
  /\ log' = <<>>
  /\ file' = [file EXCEPT !.log = file.log + 1]
  /\ fate' = [fate EXCEPT !.gone = fate.gone \cup Uncounted(DOMAIN log)]

-----------------------------------------------------------------------------
(* vault-core, the other writers of jobs, and time.                        *)

Append_(line, part, end) ==
  /\ log' = Append(log, [line |-> line, part |-> part, end |-> end])
  /\ open' = IF end THEN 0 ELSE part

BeginLine(kind) ==
  /\ open = 0
  /\ Len(lines) < MaxLines
  /\ lines' = Append(lines, kind)
  /\ \E end \in IF kind = Junk THEN {FALSE} ELSE BOOLEAN :
       Append_(Len(lines) + 1, 1, end)
  /\ UNCHANGED <<cursor, due, sweep, counted, app, used, file, fate>>

ContinueLine ==
  /\ open > 0
  /\ LET l == Len(lines)
     IN  \E end \in IF lines[l] # Junk \/ open + 1 >= MaxJunk
                    THEN {TRUE} ELSE BOOLEAN :
           Append_(l, open + 1, end)
  /\ UNCHANGED <<lines, cursor, due, sweep, counted, app, used, file, fate>>

\* The operator rotates the file: it starts empty again.
Rotate ==
  /\ Spend("rotation")
  /\ log # <<>>
  /\ Emptied
  /\ UNCHANGED <<lines, open, cursor, due, sweep, counted, app>>

\* Any other request queues a prefill of the app.
EnqueueElsewhere(a) ==
  /\ ~app[a].job
  /\ app' = [app EXCEPT ![a].job = TRUE]
  /\ UNCHANGED <<log, lines, open, cursor, due, sweep, counted, used, file, fate>>

\* done with a manifest check or not, or error
JobEnds(a) ==
  /\ app[a].job
  /\ \E current \in BOOLEAN :
       app' = [app EXCEPT ![a].job = FALSE, ![a].current = current]
  /\ UNCHANGED <<log, lines, open, cursor, due, sweep, counted, used, file, fate>>

\* The cooldown or the last manifest check is older than the cooldown time, or
\* a deletion has set needs_force.
Ages(a) ==
  /\ Spend("expiry")
  /\ \/ app[a].cooldown /\ app' = [app EXCEPT ![a].cooldown = FALSE]
     \/ app[a].current /\ app' = [app EXCEPT ![a].current = FALSE]
  /\ UNCHANGED <<log, lines, open, cursor, due, sweep, counted, file, fate>>

IntervalElapses ==
  /\ ~due
  /\ due' = TRUE
  /\ UNCHANGED <<log, lines, open, cursor, sweep, counted, app, used, file, fate>>

-----------------------------------------------------------------------------
(* One sweep.                                                              *)

\* Mutant: statistics first, then the trigger
Then_CommitFirst(phase) ==
  CASE phase = "read" -> "commit" [] phase = "commit" -> "trigger"
    [] phase = "trigger" -> "check"

\* The order of sweep_once
Then(phase) ==
  CASE phase = "read" -> "trigger" [] phase = "trigger" -> "commit"
    [] phase = "commit" -> "check"

\* claim_sweep: last_sweep_at is stamped before the work
claim_sweep ==
  /\ sweep.pc = "idle"
  /\ due
  /\ due' = FALSE
  /\ sweep' = [NoSweep EXCEPT !.pc = "read"]
  /\ UNCHANGED <<log, lines, open, cursor, counted, app, used, file, fate>>

\* Mutant: a shrunk file is read from the difference
Start_Difference == IF Len(log) < cursor THEN Len(log) - cursor ELSE cursor

\* A file shorter than the cursor was rotated: read it from its start.
Start == IF Len(log) < cursor THEN 0 ELSE cursor

Window == {i \in DOMAIN log : Start < i /\ i <= Start + MaxBatch}
Full == Start + MaxBatch <= Len(log)
Ends(S) == {i \in S : log[i].end}
Beyond == {i \in DOMAIN log : Start + MaxBatch < i}

Newest(S) == CHOOSE i \in S : \A j \in S : j <= i
Oldest(S) == CHOOSE i \in S : \A j \in S : i <= j

\* Mutant: a full batch without a newline is taken for a partial tail
new_cursor_NoSkip == IF Ends(Window) # {} THEN Newest(Ends(Window)) ELSE Start

\* Mutant: the partial line at the end is consumed
new_cursor_Tail == IF Window # {} THEN Newest(Window) ELSE Start

\* Up to the last newline of the batch; without one, wait for it, unless the
\* batch is full: then skip to the next one in the file (_skip_oversized).
new_cursor ==
  CASE Ends(Window) # {} -> Newest(Ends(Window))
    [] Ends(Window) = {} /\ Full /\ Ends(Beyond) # {} -> Oldest(Ends(Beyond))
    [] OTHER -> Start

\* Lines the parser sees from their first chunk to their newline
WholeIn(S) ==
  {l \in LinesIn(S) :
     /\ \E i \in S : log[i].line = l /\ log[i].part = 1
     /\ \E i \in S : log[i].line = l /\ log[i].end}

\* read_batch and aggregate_lines
read_batch ==
  /\ sweep.pc = "read"
  /\ LET batch == WholeIn({i \in Window : i <= new_cursor})
     IN  sweep' = [sweep EXCEPT
                     !.pc = Then("read"), !.batch = batch, !.next = new_cursor,
                     !.todo = {a \in App : \E l \in batch : lines[l] = a},
                     !.of = file.log]
  /\ fate' = IF Stale /\ Start # 0
             THEN [fate EXCEPT !.skipped =
                     fate.skipped \cup Uncounted({i \in DOMAIN log : i <= Start})]
             ELSE fate
  /\ UNCHANGED <<log, lines, open, cursor, due, counted, app, used, file>>

\* The lines of the batch that make a a candidate
MissesOf(a) == {l \in sweep.batch : lines[l] = a}

\* Candidates are taken in the order of their first miss.
IsNext(a) ==
  /\ sweep.pc = "trigger"
  /\ a \in sweep.todo
  /\ \A b \in sweep.todo : \E l \in MissesOf(a) : \A m \in MissesOf(b) : l <= m

Capped(a) ==
  /\ IsNext(a)
  /\ sweep.triggered >= MaxPerSweep
  /\ sweep' = [sweep EXCEPT !.todo = @ \ {a}]
  /\ fate' = [fate EXCEPT !.capped = @ \cup MissesOf(a)]
  /\ UNCHANGED <<log, lines, open, cursor, due, counted, app, used, file>>

\* An active job, the cooldown or a recent confirmation makes it needless.
Needless(a) == app[a].job \/ app[a].cooldown \/ app[a].current

TriggerGuards(a) ==
  /\ IsNext(a)
  /\ sweep.triggered < MaxPerSweep
  /\ \/ /\ Needless(a)
        /\ sweep' = [sweep EXCEPT !.todo = @ \ {a}]
        /\ fate' = [fate EXCEPT !.answered = @ \cup MissesOf(a)]
     \/ /\ ~Needless(a)
        /\ sweep' = [sweep EXCEPT !.todo = @ \ {a}, !.pc = "enqueue", !.cur = a,
                                  !.triggered = @ + 1]
        /\ UNCHANGED fate
  /\ UNCHANGED <<log, lines, open, cursor, due, counted, app, used, file>>

\* enqueue_prefill; a job that came in between is returned instead
enqueue_prefill ==
  /\ sweep.pc = "enqueue"
  /\ app' = [app EXCEPT ![sweep.cur].job = TRUE]
  /\ sweep' = [sweep EXCEPT !.pc = "record"]
  /\ fate' = [fate EXCEPT !.answered = @ \cup MissesOf(sweep.cur)]
  /\ UNCHANGED <<log, lines, open, cursor, due, counted, used, file>>

\* record_trigger: the cooldown, in a transaction of its own
record_trigger ==
  /\ sweep.pc = "record"
  /\ app' = [app EXCEPT ![sweep.cur].cooldown = TRUE]
  /\ sweep' = [sweep EXCEPT !.pc = "trigger", !.cur = NoApp]
  /\ UNCHANGED <<log, lines, open, cursor, due, counted, used, file, fate>>

TriggerDone ==
  /\ sweep.pc = "trigger"
  /\ sweep.todo = {}
  /\ sweep' = [sweep EXCEPT !.pc = Then("trigger")]
  /\ UNCHANGED <<log, lines, open, cursor, due, counted, app, used, file, fate>>

\* Mutant: the cursor in a transaction of its own, which a crash may prevent
commit_batch_Split ==
  /\ sweep.pc = "commit"
  /\ counted' = [l \in LineId |->
       IF l \in sweep.batch THEN counted[l] + 1 ELSE counted[l]]
  /\ \/ /\ cursor' = sweep.next
        /\ file' = [file EXCEPT !.cursor = sweep.of]
        /\ sweep' = [sweep EXCEPT !.pc = Then("commit")]
        /\ UNCHANGED used
     \/ /\ Spend("crash")
        /\ sweep' = NoSweep
        /\ UNCHANGED <<cursor, file>>
  /\ UNCHANGED <<log, lines, open, due, app, fate>>

\* Statistics and cursor in one transaction
commit_batch ==
  /\ sweep.pc = "commit"
  /\ counted' = [l \in LineId |->
       IF l \in sweep.batch THEN counted[l] + 1 ELSE counted[l]]
  /\ cursor' = sweep.next
  /\ file' = [file EXCEPT !.cursor = sweep.of]
  /\ sweep' = [sweep EXCEPT !.pc = Then("commit")]
  /\ UNCHANGED <<log, lines, open, due, app, used, fate>>

\* Mutant: not compared with the cursor
TruncateDue_Unread == RotateAt > 0 /\ cursor > 0 /\ Len(log) >= RotateAt

\* maybe_truncate: the size is compared with the committed cursor ...
TruncateDue ==
  RotateAt > 0 /\ cursor > 0 /\ Len(log) >= RotateAt /\ Len(log) = cursor

maybe_truncate ==
  /\ sweep.pc = "check"
  /\ sweep' = IF TruncateDue
              THEN [sweep EXCEPT !.pc = "truncate", !.next = Len(log)] ELSE NoSweep
  /\ UNCHANGED <<log, lines, open, cursor, due, counted, app, used, file, fate>>

\* ... os.truncate, whatever has been appended since; or it is refused
Truncate ==
  /\ sweep.pc = "truncate"
  /\ \/ Emptied /\ sweep' = [sweep EXCEPT !.pc = "reset"]
     \/ sweep' = NoSweep /\ UNCHANGED <<log, file, fate>>
  /\ UNCHANGED <<lines, open, cursor, due, counted, app, used>>

\* ... and the cursor is reset in a transaction of its own.
ResetCursor ==
  /\ sweep.pc = "reset"
  /\ cursor' = 0
  /\ sweep' = NoSweep
  /\ UNCHANGED <<log, lines, open, due, counted, app, used, file, fate>>

\* vault-api is killed, or a statement fails and the tick gives up
Crash ==
  /\ sweep.pc # "idle"
  /\ Spend("crash")
  /\ sweep' = NoSweep
  /\ UNCHANGED <<log, lines, open, cursor, due, counted, app, file, fate>>

SweepStep ==
  \/ read_batch \/ enqueue_prefill \/ record_trigger \/ TriggerDone
  \/ commit_batch \/ maybe_truncate \/ Truncate \/ ResetCursor
  \/ \E a \in App : Capped(a) \/ TriggerGuards(a)

Next ==
  \/ \E kind \in Kind : BeginLine(kind)
  \/ ContinueLine \/ Rotate \/ IntervalElapses
  \/ \E a \in App : EnqueueElsewhere(a) \/ JobEnds(a) \/ Ages(a)
  \/ claim_sweep \/ SweepStep \/ Crash

Spec == Init /\ [][Next]_vars

(***************************************************************************)
(* The scheduler thread ticks, and time passes; vault-core need not write. *)
(***************************************************************************)
Fairness == WF_vars(IntervalElapses) /\ WF_vars(claim_sweep) /\ WF_vars(SweepStep)

FairSpec == Spec /\ Fairness

-----------------------------------------------------------------------------
(* Properties.                                                             *)

PlacesOf(l) == {i \in DOMAIN log : log[i].line = l}

\* l is in the file, and the next reads will come to all of it.
Waiting(l) == PlacesOf(l) # {} /\ \A i \in PlacesOf(l) : cursor < i \/ Stale

\* Statistics are exactly-once: no crash, rotation or truncation makes a sweep
\* count a line a second time (commit_batch).
CountedOnce == \A l \in LineId : counted[l] <= 1

\* No line gets lost: it is counted, or will be read, or a truncation or a
\* rotation destroyed it unread, or a stale cursor ran past it (read_batch).
NothingLost ==
  \A l \in 1..Len(lines) : lines[l] # Junk =>
    counted[l] = 1 \/ Waiting(l) \/ l \in fate.gone \cup fate.skipped

\* A miss in the statistics has been decided on, whatever crashed in between:
\* it will not be read again (sweep_once's order).
MissAnswered ==
  \A l \in 1..Len(lines) : lines[l] \in App /\ counted[l] > 0 =>
    l \in fate.answered \cup fate.capped

\* A truncation destroys no line but one that was written after the size had
\* been compared with the cursor (maybe_truncate), one of a file that was put in
\* place after the cursor had been committed, or one that was skipped before.
OnlyUnreadGoes ==
  [][\A l \in fate'.gone \ fate.gone :
       \/ used'.rotation # used.rotation
       \/ l \in fate.skipped
       \/ sweep.pc = "truncate" /\ (Stale \/ \E i \in PlacesOf(l) : sweep.next < i)]_vars

\* Every whole line is read in the end, however long the lines before it are
\* (_skip_oversized).
LinesArePassed ==
  \A l \in LineId :
    (\E i \in PlacesOf(l) : cursor < i /\ log[i].end)
    ~> ~(\E i \in PlacesOf(l) : cursor < i /\ log[i].end)

\* What the module docstring says of the operator's rotation and of its own:
\* no line of a file that was not destroyed is skipped.
NothingSkipped == fate.skipped = {}
=============================================================================
