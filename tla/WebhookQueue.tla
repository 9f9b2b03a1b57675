---------------------------- MODULE WebhookQueue ----------------------------
(***************************************************************************)
(* The webhook notifier (webhooks.py): threads that produce events put     *)
(* them into a bounded queue without ever blocking, one daemon thread      *)
(* delivers them with a few attempts each, and a stop or a kill of         *)
(* vault-api loses whatever is still in memory.                            *)
(*                                                                         *)
(* An event is named by its place in log, the history of all events whose  *)
(* cause was committed.  Several producers may be inside enqueue at once:  *)
(* every call of the queue is a step of its own.                           *)
(***************************************************************************)
EXTENDS Naturals, Sequences, FiniteSets, SequencesExt

CONSTANTS
  Producer,             \* threads that call enqueue
  Subject,              \* what events are about
  Kind,                 \* event names
  WebhookEvents,        \* VAULT_WEBHOOK_EVENTS
  MAX_QUEUE_SIZE,
  DELIVERY_ATTEMPTS

ASSUME WebhookAssumption ==
  /\ WebhookEvents \subseteq Kind
  /\ MAX_QUEUE_SIZE \in Nat \ {0}
  /\ DELIVERY_ATTEMPTS \in Nat \ {0}

VARIABLES
  api,            \* "stopping" from stop() on: the stop event is set
  queue,          \* ids of queued events, oldest first
  thread,         \* the delivery thread
  producer,       \* per producer: what it has committed and not yet enqueued
  log,            \* history: every event, and what became of it
  heard           \* history: per subject, the last event the receiver got

notifier == <<api, queue, thread, producer, log, heard>>

NoEvent == 0

\* made: committed, enqueue not called yet; unwanted: filtered by name; squeezed:
\* no room after making room; cut: never enqueued because the process ended;
\* gone: delivered, given up, dropped as the oldest, or lost with the process
Fate == {"made", "queued", "taken", "unwanted", "squeezed", "cut", "gone"}
Pending == {"made", "queued", "taken"}

Event == [about : Subject, kind : Kind, fate : Fate]

NotifierTypeOK ==
  /\ api \in {"up", "stopping", "down"}
  /\ queue \in Seq(Nat) /\ Len(queue) <= MAX_QUEUE_SIZE
  /\ thread \in [pc : {"off", "get", "try", "backoff"},
                 item : Nat, attempt : Nat]
  /\ producer \in [Producer -> [pc : {"idle", "put", "full", "again"},
                                todo : Seq(Nat)]]
  /\ log \in Seq(Event)
  /\ heard \in [Subject -> Nat]

NoDelivery(pc) == [pc |-> pc, item |-> NoEvent, attempt |-> 0]

NotifierInit ==
  /\ api = "down"
  /\ queue = <<>>
  /\ thread = NoDelivery("off")
  /\ producer = [p \in Producer |-> [pc |-> "idle", todo |-> <<>>]]
  /\ log = <<>>
  /\ heard = [x \in Subject |-> NoEvent]

-----------------------------------------------------------------------------
(* The producers' side.                                                    *)

\* p has committed what the events are about and is going to announce them
Announce(p, events) ==
  /\ log' = log \o events
  /\ producer' = [producer EXCEPT ![p] =
       [pc |-> IF events = <<>> THEN "idle" ELSE "put",
        todo |-> [i \in 1..Len(events) |-> Len(log) + i]]]

InHand(p) == Head(producer[p].todo)

\* enqueue returns: on to the next event
EnqueueReturns(p) ==
  LET rest == Tail(producer[p].todo)
  IN  producer' = [producer EXCEPT ![p] =
        [pc |-> IF rest = <<>> THEN "idle" ELSE "put", todo |-> rest]]

\* put_nowait; a full queue is an exception
put_nowait(p) ==
  /\ api # "down"
  /\ producer[p].pc = "put"
  /\ IF log[InHand(p)].kind \notin WebhookEvents
     THEN /\ log' = [log EXCEPT ![InHand(p)].fate = "unwanted"]
          /\ EnqueueReturns(p)
          /\ UNCHANGED queue
     ELSE IF Len(queue) < MAX_QUEUE_SIZE
     THEN /\ queue' = Append(queue, InHand(p))
          /\ log' = [log EXCEPT ![InHand(p)].fate = "queued"]
          /\ EnqueueReturns(p)
     ELSE /\ producer' = [producer EXCEPT ![p].pc = "full"]
          /\ UNCHANGED <<queue, log>>
  /\ UNCHANGED <<api, thread, heard>>

\* Mutant: the queue stays as it is
drop_oldest_Nothing(p) ==
  /\ api # "down"
  /\ producer[p].pc = "full"
  /\ producer' = [producer EXCEPT ![p].pc = "again"]
  /\ UNCHANGED <<api, queue, thread, log, heard>>

\* get_nowait makes room by dropping the oldest; it may be gone by now
drop_oldest(p) ==
  /\ api # "down"
  /\ producer[p].pc = "full"
  /\ producer' = [producer EXCEPT ![p].pc = "again"]
  /\ IF queue = <<>>
     THEN UNCHANGED <<queue, log>>
     ELSE /\ queue' = Tail(queue)
          /\ log' = [log EXCEPT ![Head(queue)].fate = "gone"]
  /\ UNCHANGED <<api, thread, heard>>

\* The second put_nowait; another producer may have taken the room
put_again(p) ==
  /\ api # "down"
  /\ producer[p].pc = "again"
  /\ IF Len(queue) < MAX_QUEUE_SIZE
     THEN /\ queue' = Append(queue, InHand(p))
          /\ log' = [log EXCEPT ![InHand(p)].fate = "queued"]
     ELSE /\ log' = [log EXCEPT ![InHand(p)].fate = "squeezed"]
          /\ UNCHANGED queue
  /\ EnqueueReturns(p)
  /\ UNCHANGED <<api, thread, heard>>

enqueue(p) == put_nowait(p) \/ drop_oldest(p) \/ put_again(p)

-----------------------------------------------------------------------------
(* The delivery thread.                                                    *)

\* _run: the stop event is looked at between two items
NextItem == NoDelivery(IF api = "up" THEN "get" ELSE "off")

\* get(timeout=0.5) returns an item, also when the stop event was set meanwhile
Take ==
  /\ thread.pc = "get" /\ queue # <<>>
  /\ thread' = [pc |-> "try", item |-> Head(queue), attempt |-> 1]
  /\ queue' = Tail(queue)
  /\ log' = [log EXCEPT ![Head(queue)].fate = "taken"]
  /\ UNCHANGED <<api, producer, heard>>

\* or Empty
RunEnds ==
  /\ thread.pc = "get" /\ queue = <<>> /\ api = "stopping"
  /\ thread' = NoDelivery("off")
  /\ UNCHANGED <<api, queue, producer, log, heard>>

\* Mutant: a failed delivery goes back to the end of the queue
Fails_Requeue ==
  /\ thread' = NextItem
  /\ IF Len(queue) < MAX_QUEUE_SIZE
     THEN /\ queue' = Append(queue, thread.item)
          /\ log' = [log EXCEPT ![thread.item].fate = "queued"]
     ELSE /\ log' = [log EXCEPT ![thread.item].fate = "gone"]
          /\ UNCHANGED queue

\* Mutant: one more attempt, for ever
Fails_Forever ==
  /\ thread' = [thread EXCEPT !.pc = "backoff", !.attempt = 0]
  /\ UNCHANGED <<queue, log>>

\* Any exception of an attempt: back off, or give up after the last
Fails ==
  /\ IF thread.attempt < DELIVERY_ATTEMPTS
     THEN /\ thread' = [thread EXCEPT !.pc = "backoff"]
          /\ UNCHANGED log
     ELSE /\ thread' = NextItem
          /\ log' = [log EXCEPT ![thread.item].fate = "gone"]
  /\ UNCHANGED queue

\* One POST: it arrives or not, and what arrived may fail to be answered
Attempt ==
  /\ thread.pc = "try"
  /\ \/ /\ heard' = [heard EXCEPT ![log[thread.item].about] = thread.item]
        /\ \/ /\ thread' = NextItem
              /\ log' = [log EXCEPT ![thread.item].fate = "gone"]
              /\ UNCHANGED queue
           \/ Fails
     \/ Fails /\ UNCHANGED heard
  /\ UNCHANGED <<api, producer>>

\* The wait for the next attempt ends early when the stop event is set
Backoff ==
  /\ thread.pc = "backoff"
  /\ IF api = "up"
     THEN /\ thread' = [thread EXCEPT !.pc = "try", !.attempt = @ + 1]
          /\ UNCHANGED log
     ELSE /\ thread' = NextItem
          /\ log' = [log EXCEPT ![thread.item].fate = "gone"]
  /\ UNCHANGED <<api, queue, producer, heard>>

Deliver == Take \/ RunEnds \/ Attempt \/ Backoff

-----------------------------------------------------------------------------
(* The life of the process.                                                *)

start ==
  /\ api = "down"
  /\ api' = "up"
  /\ thread' = NoDelivery("get")
  /\ UNCHANGED <<queue, producer, log, heard>>

stop ==
  /\ api = "up"
  /\ api' = "stopping"
  /\ UNCHANGED <<queue, thread, producer, log, heard>>

\* stop() returns when the thread has ended or after its timeout, and the
\* process ends; a kill is the same without the stop
ProcessEnds ==
  /\ api # "down"
  /\ api' = "down"
  /\ queue' = <<>>
  /\ thread' = NoDelivery("off")
  /\ producer' = [p \in Producer |-> [pc |-> "idle", todo |-> <<>>]]
  /\ log' = [e \in DOMAIN log |-> [log[e] EXCEPT !.fate =
       IF @ = "made" THEN "cut" ELSE IF @ \in Pending THEN "gone" ELSE @]]
  /\ UNCHANGED heard

-----------------------------------------------------------------------------
(* What others may rely on.                                                *)

\* Events are delivered oldest first, however often each is tried: nothing about
\* a subject reaches the receiver after something newer, so the last word it
\* has is the newest it got (_run, _deliver).
InOrder == [][\A x \in Subject : heard'[x] >= heard[x]]_heard

\* What the comment in enqueue says of the race with the delivery thread: in the
\* worst case it drops nothing, so nothing is dropped while there is room.
DropsOnlyWhenFull ==
  [][\A p \in Producer :
       producer[p].pc = "full" /\ producer'[p].pc = "again" =>
         Len(queue) \in {0, MAX_QUEUE_SIZE}]_notifier
=============================================================================
