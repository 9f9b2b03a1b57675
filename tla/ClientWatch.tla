---------------------------- MODULE ClientWatch ----------------------------
(***************************************************************************)
(* What vault-api announces, and to whom it may be wrong: agent reports    *)
(* with retention and deletion of clients (agent_reports.py), the bypass   *)
(* verdicts that a sweep of the event log recomputes (event_sweep.py) and  *)
(* the outcomes of jobs, both announced through the notifier of            *)
(* WebhookQueue after they were committed (webhooks.py).                   *)
(*                                                                         *)
(* The scheduler thread sweeps, the worker thread ends jobs; reports and   *)
(* deletions are requests, one transaction each.                           *)
(***************************************************************************)
EXTENDS WebhookQueue, FiniteSetsExt

CONSTANTS
  Client,               \* client ids, numbered in their order
  Addr, NoAddr,         \* peer addresses; none that is usable
  Game,
  Job,
  AGENT_REPORT_KEEP,    \* VAULT_AGENT_REPORT_KEEP
  Reported,             \* bound: what agents report
  Ending,               \* bound: the outcomes the worker can reach
  MaxOutside,           \* bound: reports, deletions, traffic, ageing in total
  MaxRestarts           \* bound: stops and kills

Sweeper == "scheduler"
Worker == "worker"
MIN_REPORTS_KEPT == 2
Outcome == {"done", "error", "cancelled"}

\* A full list of installed games, and the address it came from
Snapshot == [games : SUBSET Game, addr : Addr \cup {NoAddr}]

ASSUME ClientWatchAssumption ==
  /\ Client \subseteq Nat /\ Client \cap Job = {}
  /\ NoAddr \notin Addr
  /\ Subject = Client \cup Job
  /\ Producer = {Sweeper, Worker}
  /\ Kind = {"suspected", "resolved", "done", "error", "cancelled"}
  /\ AGENT_REPORT_KEEP \in Nat
  /\ Ending \subseteq Outcome
  /\ Reported \subseteq Snapshot

VARIABLES
  reports,        \* agent_reports per client, by rowid: retained snapshots
  stale,          \* clients whose latest report is older than the window
  seen,           \* addresses with a line in client_cache_stats in the window
  mature,         \* the feed is older than VAULT_BYPASS_WINDOW_DAYS
  verdict,        \* client_bypass_state, "none" where there is no row
  sweep,          \* sweep_once: how far it is, the verdicts it has read
  jobs,           \* jobs.status
  used,           \* how much of each bound is used up
  told,           \* history: the games a client has after the answers it got
  forgotten       \* history: clients deleted since their last event

clients == <<reports, stale, seen, verdict, mature, told, forgotten>>
vars == <<notifier, clients, sweep, jobs, used>>


Limit == [outside |-> MaxOutside, restart |-> MaxRestarts]
Spend(k) == used[k] < Limit[k] /\ used' = [used EXCEPT ![k] = used[k] + 1]

Keep == IF AGENT_REPORT_KEEP < MIN_REPORTS_KEPT THEN MIN_REPORTS_KEPT
        ELSE AGENT_REPORT_KEEP

\* Every variable is of its kind, and retention bounds the snapshots.
TypeOK ==
  /\ NotifierTypeOK
  /\ reports \in [Client -> Seq(Snapshot)]
  /\ \A c \in Client : Len(reports[c]) <= Keep
  /\ stale \subseteq Client
  /\ seen \subseteq Addr
  /\ mature \in BOOLEAN
  /\ verdict \in [Client -> {"none", "clear", "suspected"}]
  /\ sweep \in [pc : {"idle", "committed", "read"}, previous : SUBSET Client]
  /\ jobs \in [Job -> {"none", "running"} \cup Outcome]
  /\ used \in [DOMAIN Limit -> Nat]
  /\ told \in [Client -> SUBSET Game]
  /\ forgotten \subseteq Client

NoSweep == [pc |-> "idle", previous |-> {}]

Init ==
  /\ NotifierInit
  /\ reports = [c \in Client |-> <<>>]
  /\ stale = {}
  /\ seen = {}
  /\ mature = FALSE
  /\ verdict = [c \in Client |-> "none"]
  /\ sweep = NoSweep
  /\ jobs = [j \in Job |-> "none"]
  /\ used = [k \in DOMAIN Limit |-> 0]
  /\ told = [c \in Client |-> {}]
  /\ forgotten = {}

-----------------------------------------------------------------------------
(* Agent reports.                                                          *)

latest_snapshot(c) == reports[c][Len(reports[c])]

\* Mutant: the oldest snapshots are kept
prune_reports_Oldest(s) == IF Len(s) > Keep THEN SubSeq(s, 1, Keep) ELSE s

\* Mutant: the snapshot just inserted is not among those that are counted
prune_reports_OffByOne(s) ==
  IF Len(s) > Keep + 1 THEN SubSeq(s, Len(s) - Keep, Len(s)) ELSE s

prune_reports(s) ==
  IF Len(s) > Keep THEN SubSeq(s, Len(s) - Keep + 1, Len(s)) ELSE s

\* One transaction: the predecessor, the insert, the pruning; the answer names
\* the difference, or everything when there is no predecessor
store_report(c, snapshot) ==
  LET games == snapshot.games
      first_report == reports[c] = <<>>
      previous == IF first_report THEN {} ELSE latest_snapshot(c).games
      added == games \ previous
      removed == previous \ games
  IN
  /\ api # "down"
  /\ Spend("outside")
  /\ reports' = [reports EXCEPT ![c] =
       prune_reports(Append(reports[c], snapshot))]
  /\ stale' = stale \ {c}
  /\ told' = [told EXCEPT ![c] =
       IF first_report THEN added ELSE (told[c] \ removed) \cup added]
  /\ UNCHANGED <<notifier, seen, mature, verdict, sweep, jobs, forgotten>>

\* One transaction: every snapshot and the verdict; unknown clients are a 404
delete_client(c) ==
  /\ api # "down"
  /\ reports[c] # <<>>
  /\ Spend("outside")
  /\ reports' = [reports EXCEPT ![c] = <<>>]
  /\ verdict' = [verdict EXCEPT ![c] = "none"]
  /\ stale' = stale \ {c}
  /\ forgotten' = forgotten \cup {c}
  /\ UNCHANGED <<notifier, seen, mature, sweep, jobs, told>>

\* Time: a report, or the last line of an address, leaves the window
ReportAges(c) ==
  /\ reports[c] # <<>> /\ c \notin stale
  /\ Spend("outside")
  /\ stale' = stale \cup {c}
  /\ UNCHANGED <<notifier, reports, seen, mature, verdict, sweep, jobs, told,
                 forgotten>>

TrafficAges(a) ==
  /\ a \in seen
  /\ Spend("outside")
  /\ seen' = seen \ {a}
  /\ UNCHANGED <<notifier, reports, stale, mature, verdict, sweep, jobs, told,
                 forgotten>>

\* The first completed sweep falls behind the window
FeedMatures ==
  /\ ~mature
  /\ mature' = TRUE
  /\ UNCHANGED <<notifier, reports, stale, seen, verdict, sweep, jobs, used,
                 told, forgotten>>

-----------------------------------------------------------------------------
(* The sweep's verdicts.                                                   *)

\* The scheduler thread is between two sweeps
SweeperFree == api = "up" /\ sweep.pc = "idle" /\ producer[Sweeper].pc = "idle"

\* A sweep commits the lines it has read, of an address or of none that
\* was not seen lately
commit_batch ==
  /\ SweeperFree
  /\ \/ UNCHANGED <<seen, used>>
     \/ /\ Spend("outside")
        /\ \E a \in Addr \ seen : seen' = seen \cup {a}
  /\ sweep' = [NoSweep EXCEPT !.pc = "committed"]
  /\ UNCHANGED <<notifier, reports, stale, mature, verdict, jobs, told, forgotten>>

\* Nobody is accused on a young feed; else the verdicts are read, in no
\* transaction with what follows
read_bypass_states ==
  /\ api # "down"
  /\ sweep.pc = "committed"
  /\ sweep' = IF mature
              THEN [pc |-> "read",
                    previous |-> {c \in Client : verdict[c] = "suspected"}]
              ELSE NoSweep
  /\ UNCHANGED <<notifier, clients, jobs, used>>

source_addrs_for(c) ==
  {reports[c][i].addr : i \in DOMAIN reports[c]} \ {NoAddr}

\* Every unknown reads as "not suspected"
bypass_suspected(c) ==
  /\ c \notin stale
  /\ latest_snapshot(c).games # {}
  /\ source_addrs_for(c) # {}
  /\ source_addrs_for(c) \cap seen = {}

\* Mutant: joined with the verdicts of earlier sweeps
list_clients_Known == {c \in Client : reports[c] # <<>> /\ verdict[c] # "none"}

\* Clients exist through their reports
list_clients == {c \in Client : reports[c] # <<>>}

\* Mutant: an all-clear is announced and not written
written_verdicts_SuspectedOnly(flipped) ==
  [c \in Client |-> IF c \in flipped /\ bypass_suspected(c) THEN "suspected"
                    ELSE verdict[c]]

written_verdicts(flipped) ==
  [c \in Client |-> IF c \notin flipped THEN verdict[c]
                    ELSE IF bypass_suspected(c) THEN "suspected" ELSE "clear"]

\* The clients of a set in the order of their ids
InOrderOfIds(S) ==
  CHOOSE s \in SetToSeqs(S) : \A i, j \in DOMAIN s : i < j => s[i] < s[j]

\* One transaction over all clients; its transitions are announced behind it
check_bypass_transitions ==
  LET flipped == {c \in list_clients :
                    bypass_suspected(c) # (c \in sweep.previous)}
      ordered == InOrderOfIds(flipped)
      events == [i \in 1..Len(ordered) |->
        [about |-> ordered[i], fate |-> "made",
         kind |-> IF bypass_suspected(ordered[i]) THEN "suspected" ELSE "resolved"]]
  IN
  /\ api # "down"
  /\ sweep.pc = "read"
  /\ verdict' = written_verdicts(flipped)
  /\ forgotten' = forgotten \ flipped
  /\ Announce(Sweeper, events)
  /\ sweep' = NoSweep
  /\ UNCHANGED <<api, queue, thread, heard, reports, stale,
                 seen, mature, jobs, used, told>>

-----------------------------------------------------------------------------
(* Jobs.                                                                   *)

StartJob(j) ==
  /\ api = "up" /\ producer[Worker].pc = "idle"
  /\ \A i \in Job : jobs[i] # "running"
  /\ jobs[j] = "none"
  /\ jobs' = [jobs EXCEPT ![j] = "running"]
  /\ UNCHANGED <<notifier, clients, sweep, used>>

JobEvent(j, status) == [about |-> j, kind |-> status, fate |-> "made"]

\* Mutant: the announcement goes ahead of the commit
finish_job_and_notify_First(j, status) ==
  /\ api # "down" /\ producer[Worker].pc = "idle"
  /\ jobs[j] = "running"
  /\ Announce(Worker, <<JobEvent(j, status)>>)
  /\ UNCHANGED <<api, queue, thread, heard, clients, sweep,
                 jobs, used>>

\* The outcome is committed, the row read back and announced as it is
finish_job_and_notify(j, status) ==
  /\ api # "down" /\ producer[Worker].pc = "idle"
  /\ jobs[j] = "running"
  /\ jobs' = [jobs EXCEPT ![j] = status]
  /\ Announce(Worker, <<JobEvent(j, status)>>)
  /\ UNCHANGED <<api, queue, thread, heard, clients, sweep, used>>

-----------------------------------------------------------------------------
(* Start, stop and kill; recovery fails a running job without an event.    *)

ApiStart ==
  /\ start
  /\ jobs' = [j \in Job |-> IF jobs[j] = "running" THEN "error" ELSE jobs[j]]
  /\ UNCHANGED <<clients, sweep, used>>

ApiStop ==
  /\ stop
  /\ Spend("restart")
  /\ UNCHANGED <<clients, sweep, jobs>>

ApiStopped ==
  /\ api = "stopping"
  /\ ProcessEnds
  /\ sweep' = NoSweep
  /\ UNCHANGED <<clients, jobs, used>>

ApiKill ==
  /\ api = "up"
  /\ Spend("restart")
  /\ ProcessEnds
  /\ sweep' = NoSweep
  /\ UNCHANGED <<clients, jobs>>

Enqueues(p) == enqueue(p) /\ UNCHANGED <<clients, sweep, jobs, used>>
Delivers == Deliver /\ UNCHANGED <<clients, sweep, jobs, used>>
Sweeps == commit_batch \/ read_bypass_states \/ check_bypass_transitions

Next ==
  \/ \E c \in Client :
       \/ \E snapshot \in Reported : store_report(c, snapshot)
       \/ delete_client(c) \/ ReportAges(c)
  \/ \E a \in Addr : TrafficAges(a)
  \/ FeedMatures \/ Sweeps \/ Delivers
  \/ \E j \in Job : StartJob(j)
                    \/ \E status \in Ending : finish_job_and_notify(j, status)
  \/ \E p \in Producer : Enqueues(p)
  \/ ApiStart \/ ApiStop \/ ApiStopped \/ ApiKill

Spec == Init /\ [][Next]_vars

(***************************************************************************)
(* The scheduler thread goes on sweeping and the notifier's thread on      *)
(* delivering, threads return from enqueue, a stop ends, compose restarts  *)
(* the service.  Requests, traffic, time and jobs owe nothing.             *)
(***************************************************************************)
Fairness ==
  /\ WF_vars(Sweeps) /\ WF_vars(Delivers)
  /\ \A p \in Producer : WF_vars(Enqueues(p))
  /\ WF_vars(ApiStopped) /\ WF_vars(ApiStart)

FairSpec == Spec /\ Fairness

-----------------------------------------------------------------------------
(* Properties.                                                             *)

EventsAbout(x) == {e \in DOMAIN log : log[e].about = x}
NewestAbout(x) == Max(EventsAbout(x))

\* The answers of successive reports add up: a client that applied each answer
\* to what it had would have what it reported last, whatever was pruned or
\* deleted in between (store_report, prune_reports, delete_client).
AnswersAddUp ==
  \A c \in Client : reports[c] # <<>> => told[c] = latest_snapshot(c).games

\* Webhooks are transitions: the newest event about a client says what its
\* committed verdict says, unless the client was deleted since.
VerdictIsAnnounced ==
  \A c \in Client \ forgotten :
    verdict[c] = "suspected" <=>
      EventsAbout(c) # {} /\ log[NewestAbout(c)].kind = "suspected"

\* "A webhook must announce a state that has already been committed": what is
\* announced of a job is its outcome for good, kills and recovery included, and
\* it is announced once (finish_job_and_notify).
OutcomeIsAnnounced ==
  \A j \in Job :
    /\ Cardinality(EventsAbout(j)) <= 1
    /\ \A e \in EventsAbout(j) : log[e].kind = jobs[j]

\* enqueue fails to find room after making room only when another producer took
\* it: an event is squeezed out beside an event of the other thread.
OnlyRivalsSqueeze ==
  \A e \in DOMAIN log : log[e].fate = "squeezed" =>
    \E f \in DOMAIN log : /\ log[f].fate \notin {"made", "cut", "unwanted", "squeezed"}
                          /\ (log[f].about \in Job) # (log[e].about \in Job)

\* Whatever the receiver does, and whatever ends the process, no event stays on
\* its way: with no more causes, everything has been delivered, given up, dropped
\* or lost in the end (enqueue never blocks, _deliver always returns).
NothingLingers == []<>(\A e \in DOMAIN log : log[e].fate \notin Pending)

Suspicious(c) == mature /\ reports[c] # <<>> /\ bypass_suspected(c)

\* A client that stays suspicious is announced, although reports, deletions and
\* restarts come in between, with one exception: the verdict was committed and
\* the process ended before its event was queued.
SuspicionIsAnnounced ==
  \A c \in Client :
    Suspicious(c) ~> \/ ~Suspicious(c)
                     \/ /\ EventsAbout(c) # {}
                        /\ log[NewestAbout(c)].kind = "suspected"
                        /\ log[NewestAbout(c)].fate # "made"
=============================================================================
