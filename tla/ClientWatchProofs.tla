-------------------------- MODULE ClientWatchProofs --------------------------
(***************************************************************************)
(* The notifier and what feeds it, for any clients, jobs, event filter,    *)
(* capacity, retention and number of attempts, stops and kills: types, the *)
(* order of delivery, what may be squeezed out of the queue, the answers   *)
(* to agents, and that what is announced of a client and of a job is what  *)
(* was committed about it.                                                 *)
(***************************************************************************)
EXTENDS ClientWatch, SequenceTheorems, FiniteSetTheorems, WellFoundedInduction, TLAPS


-----------------------------------------------------------------------------
(* Finite sets of naturals, by induction over the finite subsets: what     *)
(* fails for some fails for a smallest one.                                *)

LEMMA SmallestFiniteSet ==
  ASSUME NEW T, \A S \in T : S \subseteq Nat /\ IsFiniteSet(S), T # {}
  PROVE  \E S \in T : \A x \in S : S \ {x} \notin T
<1>1. IsWellFoundedOn(StrictSubsetOrdering(Nat), FiniteSubsetsOf(Nat))
  BY FS_StrictSubsetOrderingWellFounded
<1>2. T \subseteq FiniteSubsetsOf(Nat)
  BY DEF FiniteSubsetsOf
<1>3. PICK S \in T : \A U \in T : ~ (<<U, S>> \in StrictSubsetOrdering(Nat))
  BY <1>1, <1>2, WFMin
<1>4. ASSUME NEW x \in S PROVE S \ {x} \notin T
  <2>1. <<S \ {x}, S>> \in StrictSubsetOrdering(Nat)
    BY DEF StrictSubsetOrdering
  <2> QED
    BY <1>3, <2>1
<1> QED
  BY <1>3, <1>4

LEMMA FiniteSetHasMax ==
  ASSUME NEW S, S \subseteq Nat, IsFiniteSet(S), S # {}
  PROVE  \E m \in S : \A x \in S : x <= m
<1> DEFINE Unbounded == {U \in SUBSET Nat : /\ IsFiniteSet(U) /\ U # {}
                                            /\ ~ \E m \in U : \A x \in U : x <= m}
<1>1. SUFFICES ASSUME Unbounded # {} PROVE FALSE
  OBVIOUS
<1>2. PICK U \in Unbounded : \A x \in U : U \ {x} \notin Unbounded
  BY <1>1, SmallestFiniteSet
<1>3. PICK x \in U : TRUE
  OBVIOUS
<1>4. IsFiniteSet(U \ {x}) /\ U \ {x} \subseteq Nat
  BY FS_RemoveElement
<1>5. CASE U = {x}
  <2>1. x \in Nat /\ \A y \in U : y <= x
    BY <1>5
  <2> QED
    BY <2>1, <1>3
<1>6. CASE U \ {x} # {}
  <2>1. PICK m \in U \ {x} : \A y \in U \ {x} : y <= m
    BY <1>2, <1>3, <1>4, <1>6
  <2>2. m \in Nat /\ x \in Nat /\ U \subseteq Nat
    OBVIOUS
  <2>3. \A y \in U : y <= IF x <= m THEN m ELSE x
    BY <2>1, <2>2
  <2>4. (IF x <= m THEN m ELSE x) \in U
    BY <2>1, <1>3
  <2> QED
    BY <2>3, <2>4
<1> QED
  BY <1>3, <1>5, <1>6

\* s lists S in increasing order
Lists(s, S) ==
  /\ s \in SetToSeqs(S)
  /\ \A i, j \in DOMAIN s : i < j => s[i] < s[j]

LEMMA FiniteSetIsListed ==
  ASSUME NEW S, S \subseteq Nat, IsFiniteSet(S)
  PROVE  \E s : Lists(s, S)
<1> DEFINE Unlisted == {U \in SUBSET Nat : IsFiniteSet(U) /\ ~ \E s : Lists(s, U)}
<1>1. SUFFICES ASSUME Unlisted # {} PROVE FALSE
  OBVIOUS
<1>2. PICK U \in Unlisted : \A x \in U : U \ {x} \notin Unlisted
  BY <1>1, SmallestFiniteSet
<1>3. CASE U = {}
  <2>1. Cardinality(U) = 0
    BY <1>3, FS_EmptySet
  <2>2. Lists([i \in 1..0 |-> 0], U)
    BY <2>1 DEF Lists, SetToSeqs
  <2> QED
    BY <2>2
<1>4. CASE U # {}
  <2>1. PICK m \in U : \A x \in U : x <= m
    BY <1>4, FiniteSetHasMax
  <2> DEFINE n == Cardinality(U \ {m})
  <2>2. IsFiniteSet(U \ {m}) /\ n \in Nat /\ Cardinality(U) = n + 1
    <3>1. IsFiniteSet(U \ {m}) /\ Cardinality(U \ {m}) = Cardinality(U) - 1
      BY <2>1, FS_RemoveElement
    <3>2. Cardinality(U) \in Nat /\ Cardinality(U \ {m}) \in Nat
      BY <3>1, FS_CardinalityType
    <3> QED
      BY <3>1, <3>2
  <2>3. PICK s : Lists(s, U \ {m})
    BY <1>2, <2>1, <2>2
  <2>4. /\ s \in [1..n -> U \ {m}]
        /\ \A i, j \in 1..n : (i < j => s[i] < s[j]) /\ (i # j => s[i] # s[j])
    BY <2>3 DEF Lists, SetToSeqs
  <2> HIDE DEF n
  <2> DEFINE t == [i \in 1..(n + 1) |-> IF i = n + 1 THEN m ELSE s[i]]
  <2>5. \A i \in 1..n : s[i] \in U /\ s[i] < m /\ t[i] = s[i]
    <3>1. ASSUME NEW i \in 1..n PROVE s[i] \in U /\ s[i] < m /\ t[i] = s[i]
      <4>1. s[i] \in U \ {m}
        BY <2>4
      <4>2. s[i] \in Nat /\ m \in Nat /\ s[i] <= m /\ s[i] # m
        BY <2>1, <4>1
      <4>3. i # n + 1 /\ i \in 1..(n + 1)
        BY <2>2
      <4> QED
        BY <4>1, <4>2, <4>3
    <3> QED
      BY <3>1
  <2>6. t[n + 1] = m /\ DOMAIN t = 1..(n + 1)
    BY <2>2
  <2>7. \A i \in 1..(n + 1) : i \in 1..n \/ i = n + 1
    BY <2>2
  <2>8. t \in [1..(n + 1) -> U]
    BY <2>1, <2>5, <2>6, <2>7
  <2> HIDE DEF t
  <2>9. ASSUME NEW i \in 1..(n + 1), NEW j \in 1..(n + 1), i < j PROVE t[i] < t[j]
    <3>1. i \in 1..n
      BY <2>2, <2>9
    <3> QED
      BY <2>4, <2>5, <2>6, <2>7, <2>9, <3>1
  <2>10. ASSUME NEW i \in 1..(n + 1), NEW j \in 1..(n + 1), i # j PROVE t[i] # t[j]
    <3>1. i < j \/ j < i
      BY <2>10
    <3>2. t[i] \in Nat /\ t[j] \in Nat
      BY <2>8
    <3> QED
      BY <2>9, <3>1, <3>2
  <2>11. Lists(t, U)
    BY <2>2, <2>6, <2>8, <2>9, <2>10 DEF Lists, SetToSeqs
  <2> QED
    BY <2>11
<1> QED
  BY <1>3, <1>4

\* list_clients yields every client of a finite set once, in the order of ids
LEMMA InOrderOfIdsIs ==
  ASSUME NEW S, S \subseteq Nat, IsFiniteSet(S)
  PROVE  LET s == InOrderOfIds(S)
             n == Cardinality(S)
         IN  /\ n \in Nat /\ s \in [1..n -> S]
             /\ \A i, j \in 1..n : i < j => s[i] < s[j]
             /\ \A x \in S : \E i \in 1..n : s[i] = x
<1> DEFINE s == InOrderOfIds(S)
           n == Cardinality(S)
<1>1. Lists(s, S)
  BY FiniteSetIsListed DEF Lists, InOrderOfIds
<1>2. n \in Nat
  BY FS_CardinalityType
<1>3. /\ s \in [1..n -> S]
      /\ \A i, j \in 1..n : (i < j => s[i] < s[j]) /\ (i # j => s[i] # s[j])
  BY <1>1 DEF Lists, SetToSeqs
<1>4. IsFiniteSet(1..n) /\ Cardinality(1..n) = n
  BY <1>2, FS_Interval
<1>5. s \in Injection(1..n, S)
  BY <1>3 DEF Injection, IsInjective
<1>6. s \in Surjection(1..n, S)
  BY <1>4, <1>5, FS_Injection
<1> QED
  BY <1>2, <1>3, <1>6 DEF Surjection

-----------------------------------------------------------------------------
(* Sequences and the log, place by place.                                  *)

LEMMA AppendIs ==
  ASSUME NEW T, NEW s \in Seq(T), NEW x \in T
  PROVE  /\ Append(s, x) \in Seq(T)
         /\ Len(s) \in Nat /\ Len(Append(s, x)) = Len(s) + 1
         /\ DOMAIN s = 1..Len(s) /\ DOMAIN Append(s, x) = 1..(Len(s) + 1)
         /\ \A i \in 1..Len(s) : Append(s, x)[i] = s[i] /\ s[i] \in T
         /\ Append(s, x)[Len(s) + 1] = x
OBVIOUS

LEMMA TailIs ==
  ASSUME NEW T, NEW s \in Seq(T), s # <<>>
  PROVE  /\ Tail(s) \in Seq(T) /\ Head(s) \in T /\ Head(s) = s[1]
         /\ Len(s) \in Nat \ {0} /\ Len(Tail(s)) = Len(s) - 1
         /\ DOMAIN s = 1..Len(s) /\ DOMAIN Tail(s) = 1..(Len(s) - 1)
         /\ \A i \in 1..(Len(s) - 1) : Tail(s)[i] = s[i + 1]
OBVIOUS

\* The log keeps its events; one of them, if it is there, has another fate
FateBecomes(e, fate) ==
  /\ log' \in Seq(Event) /\ Len(log') = Len(log) /\ DOMAIN log' = DOMAIN log
  /\ \A i \in DOMAIN log :
       /\ log'[i].about = log[i].about /\ log'[i].kind = log[i].kind
       /\ log'[i].fate = IF i = e THEN fate ELSE log[i].fate

LEMMA FateWrite ==
  ASSUME log \in Seq(Event), NEW e, NEW fate \in Fate,
         log' = [log EXCEPT ![e].fate = fate]
  PROVE  FateBecomes(e, fate)
<1>1. /\ Len(log) \in Nat /\ DOMAIN log = 1..Len(log)
      /\ \A i \in DOMAIN log : log[i] \in Event
  OBVIOUS
<1>2. ASSUME NEW i \in DOMAIN log
      PROVE  /\ [log[i] EXCEPT !.fate = fate] \in Event
             /\ [log[i] EXCEPT !.fate = fate].about = log[i].about
             /\ [log[i] EXCEPT !.fate = fate].kind = log[i].kind
             /\ [log[i] EXCEPT !.fate = fate].fate = fate
  BY <1>1 DEF Event
<1>3. /\ DOMAIN log' = DOMAIN log
      /\ \A i \in DOMAIN log :
           log'[i] = IF i = e THEN [log[i] EXCEPT !.fate = fate] ELSE log[i]
  OBVIOUS
<1>4. log' \in [1..Len(log) -> Event]
  BY <1>1, <1>2, <1>3
<1>5. log' \in Seq(Event) /\ Len(log') = Len(log)
  BY <1>1, <1>4
<1> QED
  BY <1>2, <1>3, <1>5 DEF FateBecomes

\* The fates after the process ended
LEMMA FatesAtEnd ==
  ASSUME log \in Seq(Event), ProcessEnds
  PROVE  /\ log' \in Seq(Event) /\ Len(log') = Len(log) /\ DOMAIN log' = DOMAIN log
         /\ \A i \in DOMAIN log :
              /\ log'[i].about = log[i].about /\ log'[i].kind = log[i].kind
              /\ log'[i].fate = IF log[i].fate = "made" THEN "cut"
                                ELSE IF log[i].fate \in Pending THEN "gone"
                                ELSE log[i].fate
<1> DEFINE F(i) == IF log[i].fate = "made" THEN "cut"
                   ELSE IF log[i].fate \in Pending THEN "gone" ELSE log[i].fate
<1>1. /\ Len(log) \in Nat /\ DOMAIN log = 1..Len(log)
      /\ \A i \in DOMAIN log : log[i] \in Event
  OBVIOUS
<1>2. log' = [i \in DOMAIN log |-> [log[i] EXCEPT !.fate = F(i)]]
  BY DEF ProcessEnds
<1>3. \A i \in DOMAIN log : F(i) \in Fate
  BY <1>1 DEF Event, Fate
<1> HIDE DEF F
<1>4. ASSUME NEW i \in DOMAIN log
      PROVE  /\ log'[i] \in Event /\ log'[i].about = log[i].about
             /\ log'[i].kind = log[i].kind /\ log'[i].fate = F(i)
  BY <1>1, <1>2, <1>3 DEF Event
<1>5. log' \in [1..Len(log) -> Event]
  BY <1>1, <1>2, <1>4
<1>6. log' \in Seq(Event) /\ Len(log') = Len(log) /\ DOMAIN log' = DOMAIN log
  BY <1>1, <1>5
<1> QED
  BY <1>4, <1>6 DEF F

\* New events stand behind the old ones, and p has them to do in that order
LEMMA AnnounceIs ==
  ASSUME log \in Seq(Event), producer \in [Producer -> [pc : {"idle", "put", "full", "again"},
                                                        todo : Seq(Nat)]],
         NEW p \in Producer, NEW events \in Seq(Event), Announce(p, events)
  PROVE  /\ log' \in Seq(Event) /\ Len(log') = Len(log) + Len(events)
         /\ Len(log) \in Nat /\ Len(events) \in Nat
         /\ DOMAIN log = 1..Len(log) /\ DOMAIN log' = 1..(Len(log) + Len(events))
         /\ \A i \in 1..Len(log) : log'[i] = log[i]
         /\ \A i \in 1..Len(events) : log'[Len(log) + i] = events[i]
         /\ producer' \in [Producer -> [pc : {"idle", "put", "full", "again"},
                                        todo : Seq(Nat)]]
         /\ \A q \in Producer \ {p} : producer'[q] = producer[q]
         /\ producer'[p].pc = IF events = <<>> THEN "idle" ELSE "put"
         /\ Len(producer'[p].todo) = Len(events)
         /\ DOMAIN producer'[p].todo = 1..Len(events)
         /\ \A i \in 1..Len(events) : producer'[p].todo[i] = Len(log) + i
<1> DEFINE todo == [i \in 1..Len(events) |-> Len(log) + i]
<1>1. /\ log' = log \o events
      /\ producer' = [producer EXCEPT ![p] =
           [pc |-> IF events = <<>> THEN "idle" ELSE "put", todo |-> todo]]
  BY DEF Announce
<1>2. Len(log) \in Nat /\ Len(events) \in Nat /\ DOMAIN log = 1..Len(log)
  OBVIOUS
<1>3. /\ log' \in Seq(Event) /\ Len(log') = Len(log) + Len(events)
      /\ DOMAIN log' = 1..(Len(log) + Len(events))
      /\ \A i \in 1..Len(log) : log'[i] = log[i]
      /\ \A i \in 1..Len(events) : log'[Len(log) + i] = events[i]
  BY <1>1
<1>4. /\ todo \in Seq(Nat) /\ Len(todo) = Len(events) /\ DOMAIN todo = 1..Len(events)
      /\ \A i \in 1..Len(events) : todo[i] = Len(log) + i
  BY <1>2
<1> HIDE DEF todo
<1>5. /\ producer' \in [Producer -> [pc : {"idle", "put", "full", "again"},
                                     todo : Seq(Nat)]]
      /\ \A q \in Producer \ {p} : producer'[q] = producer[q]
      /\ producer'[p].pc = IF events = <<>> THEN "idle" ELSE "put"
      /\ producer'[p].todo = todo
  BY <1>1, <1>4
<1> QED
  BY <1>2, <1>3, <1>4, <1>5

-----------------------------------------------------------------------------
(* Types.  A thread inside enqueue has an event in hand; and only finitely *)
(* many clients ever reported.                                             *)

Producers == [Producer -> [pc : {"idle", "put", "full", "again"}, todo : Seq(Nat)]]
Deliveries == [pc : {"off", "get", "try", "backoff"}, item : Nat, attempt : Nat]

NotifierInv ==
  /\ NotifierTypeOK
  /\ \A p \in Producer : producer[p].pc = "idle" <=> producer[p].todo = <<>>

TypeInv ==
  /\ TypeOK /\ NotifierInv
  /\ IsFiniteSet(list_clients)

LEMMA NoDeliveryType ==
  ASSUME NEW pc \in {"off", "get", "try", "backoff"}
  PROVE  NoDelivery(pc) \in Deliveries
BY DEF NoDelivery, NoEvent, Deliveries

LEMMA NextItemType == NextItem \in Deliveries
BY NoDeliveryType DEF NextItem

\* enqueue returns with the first of the events to do off the list
LEMMA EnqueueReturnsIs ==
  ASSUME producer \in Producers, NEW p \in Producer, producer[p].todo # <<>>,
         EnqueueReturns(p)
  PROVE  /\ producer' \in Producers
         /\ \A q \in Producer \ {p} : producer'[q] = producer[q]
         /\ producer'[p].todo = Tail(producer[p].todo)
         /\ producer'[p].pc = IF Tail(producer[p].todo) = <<>> THEN "idle" ELSE "put"
         /\ InHand(p) = producer[p].todo[1] /\ InHand(p) \in Nat
<1> DEFINE rest == Tail(producer[p].todo)
<1>1. producer[p].todo \in Seq(Nat) /\ rest \in Seq(Nat)
  BY TailIs DEF Producers
<1>2. producer' = [producer EXCEPT ![p] =
        [pc |-> IF rest = <<>> THEN "idle" ELSE "put", todo |-> rest]]
  BY DEF EnqueueReturns
<1>3. InHand(p) = producer[p].todo[1] /\ InHand(p) \in Nat
  BY <1>1, TailIs DEF InHand
<1> HIDE DEF rest
<1>4. /\ producer' \in Producers
      /\ \A q \in Producer \ {p} : producer'[q] = producer[q]
      /\ producer'[p].todo = rest
      /\ producer'[p].pc = IF rest = <<>> THEN "idle" ELSE "put"
  BY <1>1, <1>2 DEF Producers
<1> QED
  BY <1>3, <1>4 DEF rest

LEMMA NotifierTypes ==
  NotifierTypeOK <=>
    /\ api \in {"up", "stopping", "down"}
    /\ queue \in Seq(Nat) /\ Len(queue) <= MAX_QUEUE_SIZE
    /\ thread \in Deliveries /\ producer \in Producers
    /\ log \in Seq(Event) /\ heard \in [Subject -> Nat]
BY DEF NotifierTypeOK, Deliveries, Producers

\* A producer goes on inside enqueue with what it has in hand
LEMMA PcWrite ==
  ASSUME producer \in Producers, NEW p \in Producer, NEW pc \in {"full", "again"},
         producer' = [producer EXCEPT ![p].pc = pc]
  PROVE  /\ producer' \in Producers
         /\ \A q \in Producer \ {p} : producer'[q] = producer[q]
         /\ producer'[p].todo = producer[p].todo /\ producer'[p].pc = pc
BY DEF Producers

LEMMA EnqueueTypes ==
  ASSUME NotifierInv, NEW p \in Producer, enqueue(p), WebhookAssumption
  PROVE  NotifierInv'
<1>1. /\ queue \in Seq(Nat) /\ Len(queue) \in Nat /\ Len(queue) <= MAX_QUEUE_SIZE
      /\ MAX_QUEUE_SIZE \in Nat /\ producer \in Producers /\ log \in Seq(Event)
  BY NotifierTypes DEF NotifierInv, WebhookAssumption
<1>2. /\ producer[p].todo # <<>>
      /\ UNCHANGED <<api, thread, heard>>
  BY DEF NotifierInv, enqueue, put_nowait, drop_oldest, put_again
<1>3. queue' \in Seq(Nat) /\ Len(queue') <= MAX_QUEUE_SIZE
  <2>1. InHand(p) \in Nat
    BY <1>1, <1>2, TailIs DEF Producers, InHand
  <2>2. CASE UNCHANGED queue
    BY <1>1, <2>2
  <2>3. CASE queue' = Append(queue, InHand(p)) /\ Len(queue) < MAX_QUEUE_SIZE
    BY <1>1, <2>1, <2>3, AppendIs
  <2>4. CASE queue' = Tail(queue) /\ queue # <<>>
    BY <1>1, <2>4, TailIs
  <2> QED
    BY <2>2, <2>3, <2>4 DEF enqueue, put_nowait, drop_oldest, put_again
<1>4. log' \in Seq(Event)
  <2>1. CASE UNCHANGED log
    BY <1>1, <2>1
  <2>2. ASSUME NEW e, NEW fate \in Fate, log' = [log EXCEPT ![e].fate = fate]
        PROVE  log' \in Seq(Event)
    BY <1>1, <2>2, FateWrite DEF FateBecomes
  <2>3. {"unwanted", "queued", "gone", "squeezed"} \subseteq Fate
    BY DEF Fate
  <2> QED
    BY <2>1, <2>2, <2>3 DEF enqueue, put_nowait, drop_oldest, put_again
<1>5. /\ producer' \in Producers
      /\ \A q \in Producer : producer'[q].pc = "idle" <=> producer'[q].todo = <<>>
  <2> DEFINE Handled(prod) == \A q \in Producer : prod[q].pc = "idle" <=> prod[q].todo = <<>>
  <2>0. Handled(producer)
    BY DEF NotifierInv
  <2>1. CASE EnqueueReturns(p)
    <3>1. /\ producer' \in Producers
          /\ \A q \in Producer \ {p} : producer'[q] = producer[q]
          /\ producer'[p].pc = "idle" <=> producer'[p].todo = <<>>
      BY <1>1, <1>2, <2>1, EnqueueReturnsIs
    <3> QED
      BY <2>0, <3>1
  <2>2. ASSUME NEW pc \in {"full", "again"}, producer' = [producer EXCEPT ![p].pc = pc]
        PROVE  producer' \in Producers /\ Handled(producer')
    <3>1. /\ producer' \in Producers
          /\ \A q \in Producer \ {p} : producer'[q] = producer[q]
          /\ producer'[p].todo # <<>> /\ producer'[p].pc # "idle"
      BY <1>1, <1>2, <2>2, PcWrite
    <3> QED
      BY <2>0, <3>1
  <2> QED
    BY <2>1, <2>2 DEF enqueue, put_nowait, drop_oldest, put_again
<1> QED
  BY <1>2, <1>3, <1>4, <1>5, NotifierTypes DEF NotifierInv, NotifierTypeOK, Producers

LEMMA DeliverTypes ==
  ASSUME NotifierInv, Deliver
  PROVE  NotifierInv'
<1>1. /\ queue \in Seq(Nat) /\ Len(queue) <= MAX_QUEUE_SIZE /\ Len(queue) \in Nat
      /\ thread \in Deliveries /\ log \in Seq(Event) /\ heard \in [Subject -> Nat]
  BY NotifierTypes DEF NotifierInv
<1>2. UNCHANGED <<api, producer>>
  BY DEF Deliver, Take, RunEnds, Attempt, Backoff
<1>3. log' \in Seq(Event)
  <2>1. CASE UNCHANGED log
    BY <1>1, <2>1
  <2>2. ASSUME NEW e, NEW fate \in Fate, log' = [log EXCEPT ![e].fate = fate]
        PROVE  log' \in Seq(Event)
    BY <1>1, <2>2, FateWrite DEF FateBecomes
  <2>3. "taken" \in Fate /\ "gone" \in Fate
    BY DEF Fate
  <2> QED
    BY <2>1, <2>2, <2>3 DEF Deliver, Take, RunEnds, Attempt, Fails, Backoff
<1>4. queue' \in Seq(Nat) /\ Len(queue') <= MAX_QUEUE_SIZE
  <2>1. CASE UNCHANGED queue
    BY <1>1, <2>1
  <2>2. CASE queue' = Tail(queue) /\ queue # <<>>
    <3>1. queue' \in Seq(Nat) /\ Len(queue') = Len(queue) - 1
      BY <1>1, <2>2, TailIs
    <3>2. MAX_QUEUE_SIZE \in Nat
      BY WebhookAssumption
    <3> QED
      BY <1>1, <3>1, <3>2
  <2> QED
    BY <2>1, <2>2 DEF Deliver, Take, RunEnds, Attempt, Fails, Backoff
<1>5. thread' \in Deliveries
  <2>1. CASE Take
    <3>1. Head(queue) \in Nat
      BY <1>1, <2>1, TailIs DEF Take
    <3> QED
      BY <2>1, <3>1 DEF Take, Deliveries
  <2>2. CASE thread' = NoDelivery("off") \/ thread' = NextItem
    BY <2>2, NoDeliveryType, NextItemType
  <2>3. CASE thread' = [thread EXCEPT !.pc = "backoff"]
    BY <1>1, <2>3 DEF Deliveries
  <2>4. CASE thread' = [thread EXCEPT !.pc = "try", !.attempt = thread.attempt + 1]
    <3>1. thread.item \in Nat /\ thread.attempt + 1 \in Nat
      BY <1>1 DEF Deliveries
    <3>2. thread' = [pc |-> "try", item |-> thread.item, attempt |-> thread.attempt + 1]
      BY <1>1, <2>4 DEF Deliveries
    <3> QED
      BY <3>1, <3>2 DEF Deliveries
  <2> QED
    BY <2>1, <2>2, <2>3, <2>4 DEF Deliver, RunEnds, Attempt, Fails, Backoff
<1>6. heard' \in [Subject -> Nat]
  <2>1. CASE UNCHANGED heard
    BY <1>1, <2>1
  <2>2. CASE heard' = [heard EXCEPT ![log[thread.item].about] = thread.item]
    BY <1>1, <2>2 DEF Deliveries
  <2> QED
    BY <2>1, <2>2 DEF Deliver, Take, RunEnds, Attempt, Backoff
<1> QED
  BY <1>2, <1>3, <1>4, <1>5, <1>6, NotifierTypes
     DEF NotifierInv, NotifierTypeOK, Producers, Deliveries

LEMMA ProcessTypes ==
  ASSUME NotifierInv, start \/ stop \/ ProcessEnds
  PROVE  NotifierInv'
<1>1. /\ queue \in Seq(Nat) /\ Len(queue) <= MAX_QUEUE_SIZE
      /\ thread \in Deliveries /\ producer \in Producers
      /\ log \in Seq(Event) /\ heard \in [Subject -> Nat]
  BY NotifierTypes DEF NotifierInv
<1>2. CASE start
  BY <1>1, <1>2, NoDeliveryType
     DEF start, NotifierInv, NotifierTypeOK, Deliveries
<1>3. CASE stop
  BY <1>1, <1>3 DEF stop, NotifierInv, NotifierTypeOK
<1>4. CASE ProcessEnds
  <2>1. log' \in Seq(Event)
    BY <1>1, <1>4, FatesAtEnd
  <2>2. queue' \in Seq(Nat) /\ Len(queue') <= MAX_QUEUE_SIZE
    BY <1>4, WebhookAssumption DEF ProcessEnds
  <2>3. thread' \in Deliveries
    BY <1>4, NoDeliveryType DEF ProcessEnds
  <2>4. /\ producer' \in Producers
        /\ \A p \in Producer : producer'[p].pc = "idle" <=> producer'[p].todo = <<>>
    BY <1>4 DEF ProcessEnds, Producers
  <2> QED
    BY <1>1, <1>4, <2>1, <2>2, <2>3, <2>4
       DEF ProcessEnds, NotifierInv, NotifierTypeOK, Producers, Deliveries
<1> QED
  BY <1>2, <1>3, <1>4

LEMMA AnnounceTypes ==
  ASSUME NotifierInv, NEW p \in Producer, NEW events \in Seq(Event),
         Announce(p, events), UNCHANGED <<api, queue, thread, heard>>
  PROVE  NotifierInv'
<1>1. producer \in Producers /\ log \in Seq(Event)
  BY NotifierTypes DEF NotifierInv
<1>2. /\ log' \in Seq(Event) /\ producer' \in Producers
      /\ \A q \in Producer \ {p} : producer'[q] = producer[q]
      /\ producer'[p].pc = IF events = <<>> THEN "idle" ELSE "put"
      /\ Len(producer'[p].todo) = Len(events)
  BY <1>1, AnnounceIs DEF Producers
<1>3. producer'[p].pc = "idle" <=> producer'[p].todo = <<>>
  BY <1>2 DEF Producers
<1> QED
  BY <1>2, <1>3 DEF NotifierInv, NotifierTypeOK, Producers

-----------------------------------------------------------------------------
(* Clients, sweeps and jobs.                                               *)

\* What a sweep announces: of every client whose verdict flips one event, with
\* the new verdict
LEMMA TransitionsAre ==
  ASSUME TypeInv, check_bypass_transitions
  PROVE  \E flipped \in SUBSET list_clients, events \in Seq(Event) :
           /\ Announce(Sweeper, events)
           /\ verdict' = written_verdicts(flipped)
           /\ forgotten' = forgotten \ flipped
           /\ \A i \in 1..Len(events) :
                /\ events[i].about \in flipped /\ events[i].fate = "made"
                /\ events[i].kind = IF bypass_suspected(events[i].about)
                                    THEN "suspected" ELSE "resolved"
           /\ \A c \in flipped : \E i \in 1..Len(events) : events[i].about = c
           /\ \A i, j \in 1..Len(events) : events[i].about = events[j].about => i = j
<1> DEFINE flipped == {c \in list_clients : bypass_suspected(c) # (c \in sweep.previous)}
           ordered == InOrderOfIds(flipped)
           kind(c) == IF bypass_suspected(c) THEN "suspected" ELSE "resolved"
           events == [i \in 1..Len(ordered) |->
                        [about |-> ordered[i], fate |-> "made",
                         kind |-> kind(ordered[i])]]
           n == Cardinality(flipped)
<1>1. /\ Announce(Sweeper, events) /\ verdict' = written_verdicts(flipped)
      /\ forgotten' = forgotten \ flipped
  BY DEF check_bypass_transitions
<1>2. /\ flipped \subseteq list_clients /\ IsFiniteSet(flipped)
      /\ flipped \subseteq Nat /\ flipped \subseteq Subject
  BY FS_Subset, ClientWatchAssumption DEF TypeInv, list_clients
<1> HIDE DEF flipped
<1>3. /\ n \in Nat /\ ordered \in [1..n -> flipped]
      /\ \A i, j \in 1..n : i < j => ordered[i] < ordered[j]
      /\ \A c \in flipped : \E i \in 1..n : ordered[i] = c
  BY <1>2, InOrderOfIdsIs
<1> HIDE DEF ordered, n
<1>4. Len(ordered) = n
  BY <1>3
<1>5. \A c : kind(c) \in Kind
  BY ClientWatchAssumption
<1> HIDE DEF kind
<1>6. \A i \in 1..n : [about |-> ordered[i], fate |-> "made",
                       kind |-> kind(ordered[i])] \in Event
  BY <1>2, <1>3, <1>5 DEF Event, Fate
<1>7. /\ events \in Seq(Event) /\ Len(events) = n
      /\ \A i \in 1..n : /\ events[i].about = ordered[i] /\ events[i].fate = "made"
                         /\ events[i].kind = kind(ordered[i])
  BY <1>3, <1>4, <1>6
<1> HIDE DEF events
<1>8. \A i, j \in 1..n : events[i].about = events[j].about => i = j
  <2>1. SUFFICES ASSUME NEW i \in 1..n, NEW j \in 1..n, ordered[i] = ordered[j]
                 PROVE  i = j
    BY <1>7
  <2>2. ordered[i] \in Nat /\ ordered[j] \in Nat
    BY <1>2, <1>3
  <2>3. ~(i < j) /\ ~(j < i)
    BY <1>3, <2>1, <2>2
  <2> QED
    BY <1>3, <2>3
<1>9. \A i \in 1..n : /\ events[i].about \in flipped
                      /\ events[i].kind = IF bypass_suspected(events[i].about)
                                          THEN "suspected" ELSE "resolved"
  BY <1>3, <1>7 DEF kind
<1>10. \A c \in flipped : \E i \in 1..n : events[i].about = c
  BY <1>3, <1>7
<1> QED
  BY <1>1, <1>2, <1>7, <1>8, <1>9, <1>10

\* How much of a bound is used up
LEMMA SpendType ==
  ASSUME used \in [DOMAIN Limit -> Nat], NEW k \in DOMAIN Limit, Spend(k)
  PROVE  used' \in [DOMAIN Limit -> Nat]
<1>1. used[k] + 1 \in Nat
  OBVIOUS
<1> QED
  BY <1>1 DEF Spend

\* The latest snapshot outlives the pruning, and Keep bounds what is left
LEMMA PruneIs ==
  ASSUME NEW s \in Seq(Snapshot), NEW snapshot \in Snapshot
  PROVE  LET t == prune_reports(Append(s, snapshot))
         IN  /\ t \in Seq(Snapshot) /\ Len(t) <= Keep /\ t # <<>>
             /\ t[Len(t)] = snapshot
<1> DEFINE u == Append(s, snapshot)
           n == Len(s) + 1
           t == prune_reports(u)
<1>1. /\ u \in Seq(Snapshot) /\ Len(u) = n /\ n \in Nat \ {0} /\ u[n] = snapshot
      /\ \A i \in 1..n : u[i] \in Snapshot
  BY AppendIs
<1>2. Keep \in Nat \ {0}
  BY ClientWatchAssumption DEF Keep, MIN_REPORTS_KEPT
<1> HIDE DEF u, n
<1>0. t = IF n > Keep THEN SubSeq(u, n - Keep + 1, n) ELSE u
  BY <1>1 DEF prune_reports
<1> HIDE DEF t
<1> DEFINE Pruned == /\ t \in Seq(Snapshot) /\ Len(t) <= Keep /\ t # <<>>
                     /\ t[Len(t)] = snapshot
<1>3. ASSUME n > Keep PROVE Pruned
  <2>1. t = SubSeq(u, n - Keep + 1, n)
    BY <1>0, <1>3
  <2>2. /\ n - Keep + 1 \in Int /\ n - Keep + 1 <= n
        /\ \A i \in (n - Keep + 1)..n : u[i] \in Snapshot
    BY <1>1, <1>2, <1>3
  <2>3. /\ t \in Seq(Snapshot) /\ Len(t) = Keep
        /\ \A i \in 1..Keep : t[i] = u[n - Keep + 1 + i - 1]
    <3>1. n - (n - Keep + 1) + 1 = Keep
      BY <1>1, <1>2
    <3>2. n \in Int
      BY <1>1
    <3> QED
      BY <2>1, <2>2, <3>1, <3>2, SubSeqProperties
  <2>4. t[Keep] = u[n]
    <3>1. Keep \in 1..Keep /\ n - Keep + 1 + Keep - 1 = n
      BY <1>1, <1>2
    <3> QED
      BY <2>3, <3>1
  <2> QED
    BY <1>1, <1>2, <2>3, <2>4
<1>4. ASSUME n <= Keep PROVE Pruned
  <2>1. t = u
    BY <1>0, <1>1, <1>2, <1>4
  <2> QED
    BY <1>1, <1>4, <2>1
<1>5. Pruned
  BY <1>1, <1>2, <1>3, <1>4
<1> QED
  BY <1>5 DEF t, u

ClientTypes ==
  /\ reports \in [Client -> Seq(Snapshot)]
  /\ \A c \in Client : Len(reports[c]) <= Keep
  /\ stale \subseteq Client /\ seen \subseteq Addr /\ mature \in BOOLEAN
  /\ verdict \in [Client -> {"none", "clear", "suspected"}]
  /\ told \in [Client -> SUBSET Game] /\ forgotten \subseteq Client

OtherTypes ==
  /\ sweep \in [pc : {"idle", "committed", "read"}, previous : SUBSET Client]
  /\ jobs \in [Job -> {"none", "running"} \cup Outcome]
  /\ used \in [DOMAIN Limit -> Nat]

LEMMA TypeParts == TypeInv <=> /\ NotifierInv /\ ClientTypes /\ OtherTypes
                               /\ IsFiniteSet(list_clients)
BY DEF TypeInv, TypeOK, NotifierInv, ClientTypes, OtherTypes

LEMMA TypePartsNext ==
  ASSUME NotifierInv', ClientTypes', OtherTypes', IsFiniteSet(list_clients)'
  PROVE  TypeInv'
BY DEF TypeInv, TypeOK, NotifierInv, ClientTypes, OtherTypes

\* A step that leaves the clients alone
LEMMA SameClients ==
  ASSUME TypeInv, UNCHANGED clients
  PROVE  ClientTypes' /\ IsFiniteSet(list_clients)'
<1>1. ClientTypes'
  BY TypeParts DEF ClientTypes, clients
<1>2. list_clients' = list_clients
  BY DEF list_clients, clients
<1> QED
  BY <1>1, <1>2, TypeParts

LEMMA SameNotifier ==
  ASSUME NotifierInv, UNCHANGED notifier
  PROVE  NotifierInv'
BY DEF NotifierInv, NotifierTypeOK, notifier

LEMMA TypeInvInit == Init => TypeInv
<1> SUFFICES ASSUME Init PROVE TypeInv
  OBVIOUS
<1>1. NotifierInv
  <2>1. <<>> \in Seq(Nat) /\ <<>> \in Seq(Event) /\ Len(<<>>) = 0
    OBVIOUS
  <2>2. MAX_QUEUE_SIZE \in Nat
    BY WebhookAssumption
  <2>3. thread \in Deliveries
    BY NoDeliveryType DEF Init, NotifierInit
  <2>4. producer \in Producers /\ \A p \in Producer : producer[p].todo = <<>>
                                                 /\ producer[p].pc = "idle"
    BY <2>1 DEF Init, NotifierInit, Producers
  <2>5. /\ queue \in Seq(Nat) /\ Len(queue) <= MAX_QUEUE_SIZE /\ log \in Seq(Event)
        /\ heard \in [Subject -> Nat] /\ api \in {"up", "stopping", "down"}
    BY <2>1, <2>2 DEF Init, NotifierInit, NoEvent
  <2> QED
    BY <2>3, <2>4, <2>5, NotifierTypes DEF NotifierInv
<1>2. ClientTypes
  <2>1. <<>> \in Seq(Snapshot) /\ Len(<<>>) = 0 /\ 0 <= Keep
    BY ClientWatchAssumption DEF Keep, MIN_REPORTS_KEPT
  <2> QED
    BY <2>1 DEF Init, ClientTypes
<1>3. OtherTypes
  BY DEF Init, OtherTypes, NoSweep
<1>4. IsFiniteSet(list_clients)
  <2>1. list_clients = {}
    BY DEF Init, list_clients
  <2> QED
    BY <2>1, FS_EmptySet
<1> QED
  BY <1>1, <1>2, <1>3, <1>4, TypeParts

LEMMA ReportTypes ==
  ASSUME TypeInv, NEW c \in Client, NEW snapshot \in Reported,
         store_report(c, snapshot)
  PROVE  TypeInv'
<1>1. snapshot \in Snapshot
  BY ClientWatchAssumption
<1>2. NotifierInv'
  BY TypeParts, SameNotifier DEF store_report
<1>3. /\ reports' \in [Client -> Seq(Snapshot)]
      /\ \A b \in Client : Len(reports'[b]) <= Keep
      /\ \A b \in Client \ {c} : reports'[b] = reports[b]
  <2> DEFINE s == prune_reports(Append(reports[c], snapshot))
  <2>1. reports \in [Client -> Seq(Snapshot)]
    BY TypeParts DEF ClientTypes
  <2>2. s \in Seq(Snapshot) /\ Len(s) <= Keep
    BY <1>1, <2>1, PruneIs
  <2>3. reports' = [reports EXCEPT ![c] = s]
    BY DEF store_report
  <2> HIDE DEF s
  <2> QED
    BY <2>1, <2>2, <2>3, TypeParts DEF ClientTypes
<1>4. told' \in [Client -> SUBSET Game]
  <2>1. snapshot.games \subseteq Game
    BY <1>1 DEF Snapshot
  <2>2. PICK removed :
          told' = [told EXCEPT ![c] =
            IF reports[c] = <<>>
            THEN snapshot.games \ (IF reports[c] = <<>> THEN {}
                                   ELSE latest_snapshot(c).games)
            ELSE (told[c] \ removed) \cup
                 (snapshot.games \ (IF reports[c] = <<>> THEN {}
                                    ELSE latest_snapshot(c).games))]
    BY DEF store_report
  <2>3. told \in [Client -> SUBSET Game]
    BY TypeParts DEF ClientTypes
  <2> QED
    BY <2>1, <2>2, <2>3
<1>5. ClientTypes'
  BY <1>3, <1>4, TypeParts DEF store_report, ClientTypes, Keep
<1>6. IsFiniteSet(list_clients)'
  <2>1. list_clients' \subseteq list_clients \cup {c}
    BY <1>3 DEF list_clients
  <2>2. IsFiniteSet(list_clients \cup {c})
    BY TypeParts, FS_AddElement
  <2> QED
    BY <2>1, <2>2, FS_Subset
<1>7. OtherTypes'
  BY TypeParts, SpendType DEF store_report, OtherTypes, Limit
<1> QED
  BY <1>2, <1>5, <1>6, <1>7, TypePartsNext

LEMMA DeletionTypes ==
  ASSUME TypeInv, NEW c \in Client, delete_client(c)
  PROVE  TypeInv'
<1>1. NotifierInv'
  BY TypeParts, SameNotifier DEF delete_client
<1>2. reports' = [reports EXCEPT ![c] = <<>>] /\ reports \in [Client -> Seq(Snapshot)]
  BY TypeParts DEF delete_client, ClientTypes
<1>3. ClientTypes'
  <2>1. <<>> \in Seq(Snapshot) /\ Len(<<>>) = 0 /\ 0 <= Keep
    BY ClientWatchAssumption DEF Keep, MIN_REPORTS_KEPT
  <2>2. /\ reports' \in [Client -> Seq(Snapshot)]
        /\ \A b \in Client : Len(reports'[b]) <= Keep
    BY <1>2, <2>1, TypeParts DEF ClientTypes
  <2> QED
    BY <2>2, TypeParts DEF delete_client, ClientTypes, Keep
<1>4. IsFiniteSet(list_clients)'
  <2>1. list_clients' \subseteq list_clients
    BY <1>2 DEF list_clients
  <2> QED
    BY <2>1, TypeParts, FS_Subset
<1>5. OtherTypes'
  BY TypeParts, SpendType DEF delete_client, OtherTypes, Limit
<1> QED
  BY <1>1, <1>3, <1>4, <1>5, TypePartsNext

LEMMA AgeingTypes ==
  ASSUME TypeInv,
         \/ \E c \in Client : ReportAges(c)
         \/ \E a \in Addr : TrafficAges(a)
         \/ FeedMatures \/ commit_batch \/ read_bypass_states
  PROVE  TypeInv'
<1>1. UNCHANGED <<notifier, reports, verdict, told, forgotten, jobs>>
  BY DEF ReportAges, TrafficAges, FeedMatures, commit_batch, read_bypass_states, clients
<1>2. NotifierInv'
  BY <1>1, TypeParts, SameNotifier
<1>3. stale' \subseteq Client /\ seen' \subseteq Addr /\ mature' \in BOOLEAN
  BY TypeParts DEF ClientTypes, ReportAges, TrafficAges, FeedMatures, commit_batch,
                   read_bypass_states, clients
<1>4. ClientTypes'
  BY <1>1, <1>3, TypeParts DEF ClientTypes, Keep
<1>5. list_clients' = list_clients
  BY <1>1 DEF list_clients
<1>6. sweep' \in [pc : {"idle", "committed", "read"}, previous : SUBSET Client]
  BY TypeParts DEF OtherTypes, NoSweep, ReportAges, TrafficAges, FeedMatures,
                   commit_batch, read_bypass_states
<1>7. used' \in [DOMAIN Limit -> Nat]
  <2>1. used \in [DOMAIN Limit -> Nat] /\ "outside" \in DOMAIN Limit
    BY TypeParts DEF OtherTypes, Limit
  <2>2. Spend("outside") \/ UNCHANGED used
    BY DEF ReportAges, TrafficAges, FeedMatures, commit_batch, read_bypass_states
  <2> QED
    BY <2>1, <2>2, SpendType
<1>8. OtherTypes'
  BY <1>1, <1>6, <1>7, TypeParts DEF OtherTypes, Limit
<1> QED
  BY <1>2, <1>4, <1>5, <1>8, TypeParts, TypePartsNext

LEMMA TransitionTypes ==
  ASSUME TypeInv, check_bypass_transitions
  PROVE  TypeInv'
<1>1. PICK flipped \in SUBSET list_clients, events \in Seq(Event) :
        /\ Announce(Sweeper, events)
        /\ verdict' = written_verdicts(flipped)
        /\ forgotten' = forgotten \ flipped
  BY TransitionsAre
<1>2. UNCHANGED <<api, queue, thread, heard, reports, stale, seen, mature, jobs, used, told>>
  BY DEF check_bypass_transitions
<1>3. NotifierInv'
  BY <1>1, <1>2, AnnounceTypes, TypeParts, ClientWatchAssumption
<1>4. ClientTypes'
  <2>1. verdict' \in [Client -> {"none", "clear", "suspected"}]
    BY <1>1, TypeParts DEF ClientTypes, written_verdicts
  <2> QED
    BY <1>1, <1>2, <2>1, TypeParts DEF ClientTypes, Keep
<1>5. list_clients' = list_clients
  BY <1>2 DEF list_clients
<1>6. OtherTypes'
  BY <1>2, TypeParts DEF OtherTypes, check_bypass_transitions, NoSweep, Limit
<1> QED
  BY <1>3, <1>4, <1>5, <1>6, TypeParts, TypePartsNext

\* An outcome is announced by the worker alone, as the one event it has to do
LEMMA OutcomeEvent ==
  ASSUME TypeInv, NEW j \in Job, NEW status \in Ending,
         finish_job_and_notify(j, status)
  PROVE  /\ <<JobEvent(j, status)>> \in Seq(Event)
         /\ Announce(Worker, <<JobEvent(j, status)>>)
         /\ Worker \in Producer /\ status \in Outcome /\ j \in Subject
<1>1. JobEvent(j, status) \in Event /\ status \in Outcome /\ j \in Subject
  BY ClientWatchAssumption DEF JobEvent, Event, Fate, Outcome
<1>2. Worker \in Producer
  BY ClientWatchAssumption
<1> QED
  BY <1>1, <1>2 DEF finish_job_and_notify

LEMMA JobTypes ==
  ASSUME TypeInv, NEW j \in Job,
         StartJob(j) \/ \E status \in Ending : finish_job_and_notify(j, status)
  PROVE  TypeInv'
<1>1. UNCHANGED clients /\ UNCHANGED <<sweep, used>>
  BY DEF StartJob, finish_job_and_notify
<1>2. NotifierInv'
  <2>1. CASE StartJob(j)
    BY <2>1, TypeParts, SameNotifier DEF StartJob
  <2>2. ASSUME NEW status \in Ending, finish_job_and_notify(j, status)
        PROVE  NotifierInv'
    BY <2>2, OutcomeEvent, AnnounceTypes, TypeParts DEF finish_job_and_notify
  <2> QED
    BY <2>1, <2>2
<1>3. jobs' \in [Job -> {"none", "running"} \cup Outcome]
  BY TypeParts, ClientWatchAssumption DEF OtherTypes, StartJob, finish_job_and_notify
<1>4. OtherTypes'
  BY <1>1, <1>3, TypeParts DEF OtherTypes, Limit
<1> QED
  BY <1>1, <1>2, <1>4, SameClients, TypePartsNext

LEMMA ApiTypes ==
  ASSUME TypeInv, ApiStart \/ ApiStop \/ ApiStopped \/ ApiKill
  PROVE  TypeInv'
<1>1. UNCHANGED clients
  BY DEF ApiStart, ApiStop, ApiStopped, ApiKill
<1>2. NotifierInv'
  BY ProcessTypes, TypeParts DEF ApiStart, ApiStop, ApiStopped, ApiKill
<1>3. /\ sweep' \in [pc : {"idle", "committed", "read"}, previous : SUBSET Client]
      /\ jobs' \in [Job -> {"none", "running"} \cup Outcome]
  BY TypeParts DEF OtherTypes, NoSweep, Outcome, ApiStart, ApiStop, ApiStopped, ApiKill
<1>4. used' \in [DOMAIN Limit -> Nat]
  <2>1. used \in [DOMAIN Limit -> Nat] /\ "restart" \in DOMAIN Limit
    BY TypeParts DEF OtherTypes, Limit
  <2>2. Spend("restart") \/ UNCHANGED used
    BY DEF ApiStart, ApiStop, ApiStopped, ApiKill
  <2> QED
    BY <2>1, <2>2, SpendType
<1>5. OtherTypes'
  BY <1>3, <1>4 DEF OtherTypes, Limit
<1> QED
  BY <1>1, <1>2, <1>5, SameClients, TypePartsNext

LEMMA TypeInvStep == TypeInv /\ [Next]_vars => TypeInv'
<1> SUFFICES ASSUME TypeInv, [Next]_vars PROVE TypeInv'
  OBVIOUS
<1>1. ASSUME NEW c \in Client, NEW snapshot \in Reported, store_report(c, snapshot)
      PROVE  TypeInv'
  BY <1>1, ReportTypes
<1>2. ASSUME NEW c \in Client, delete_client(c) PROVE TypeInv'
  BY <1>2, DeletionTypes
<1>3. CASE \/ \E c \in Client : ReportAges(c)
           \/ \E a \in Addr : TrafficAges(a)
           \/ FeedMatures \/ commit_batch \/ read_bypass_states
  BY <1>3, AgeingTypes
<1>4. CASE check_bypass_transitions
  BY <1>4, TransitionTypes
<1>5. ASSUME NEW j \in Job,
             StartJob(j) \/ \E status \in Ending : finish_job_and_notify(j, status)
      PROVE  TypeInv'
  BY <1>5, JobTypes
<1>6. CASE Delivers \/ \E p \in Producer : Enqueues(p)
  <2>1. NotifierInv'
    BY <1>6, TypeParts, EnqueueTypes, DeliverTypes, WebhookAssumption DEF Delivers, Enqueues
  <2>2. UNCHANGED clients /\ UNCHANGED <<sweep, jobs, used>>
    BY <1>6 DEF Delivers, Enqueues
  <2>3. OtherTypes'
    BY <2>2, TypeParts DEF OtherTypes, Limit
  <2> QED
    BY <2>1, <2>2, <2>3, SameClients, TypePartsNext
<1>7. CASE ApiStart \/ ApiStop \/ ApiStopped \/ ApiKill
  BY <1>7, ApiTypes
<1>8. CASE UNCHANGED vars
  <2>1. UNCHANGED notifier /\ UNCHANGED clients /\ UNCHANGED <<sweep, jobs, used>>
    BY <1>8 DEF vars
  <2>2. OtherTypes'
    BY <2>1, TypeParts DEF OtherTypes, Limit
  <2> QED
    BY <2>1, <2>2, TypeParts, SameNotifier, SameClients, TypePartsNext
<1> QED
  BY <1>1, <1>2, <1>3, <1>4, <1>5, <1>6, <1>7, <1>8 DEF Next, Sweeps

LEMMA TypeInvariant == Spec => []TypeInv
BY TypeInvInit, TypeInvStep, PTL DEF Spec

\* Every variable is of its kind and retention bounds the snapshots, however
\* events, reports, sweeps, stops and kills interleave.
THEOREM TypeCorrect == Spec => []TypeOK
<1>1. TypeInv => TypeOK
  BY DEF TypeInv
<1> QED
  BY <1>1, TypeInvariant, PTL

-----------------------------------------------------------------------------
(* The answers to agents.                                                  *)

LEMMA AnswersStep == TypeInv /\ AnswersAddUp /\ [Next]_vars => AnswersAddUp'
<1> SUFFICES ASSUME TypeInv, AnswersAddUp, [Next]_vars PROVE AnswersAddUp'
  OBVIOUS
<1>0. /\ reports \in [Client -> Seq(Snapshot)] /\ told \in [Client -> SUBSET Game]
  BY TypeParts DEF ClientTypes
<1>1. ASSUME NEW c \in Client, NEW snapshot \in Reported, store_report(c, snapshot)
      PROVE  AnswersAddUp'
  <2> DEFINE s == prune_reports(Append(reports[c], snapshot))
             previous == IF reports[c] = <<>> THEN {} ELSE latest_snapshot(c).games
             added == snapshot.games \ previous
             removed == previous \ snapshot.games
  <2>1. /\ reports' = [reports EXCEPT ![c] = s]
        /\ told' = [told EXCEPT ![c] = IF reports[c] = <<>> THEN added
                                       ELSE (told[c] \ removed) \cup added]
    BY <1>1 DEF store_report
  <2>2. s \in Seq(Snapshot) /\ s[Len(s)] = snapshot
    <3>1. snapshot \in Snapshot
      BY ClientWatchAssumption
    <3> QED
      BY <1>0, <3>1, PruneIs
  <2>3. told'[c] = snapshot.games
    <3>1. CASE reports[c] = <<>>
      BY <1>0, <2>1, <3>1
    <3>2. CASE reports[c] # <<>>
      <4>1. told[c] = previous
        BY <3>2 DEF AnswersAddUp
      <4> QED
        BY <1>0, <2>1, <3>2, <4>1
    <3> QED
      BY <3>1, <3>2
  <2> HIDE DEF s, previous, added, removed
  <2>4. reports'[c][Len(reports'[c])] = snapshot
    BY <1>0, <2>1, <2>2
  <2>5. \A b \in Client \ {c} : reports'[b] = reports[b] /\ told'[b] = told[b]
    BY <1>0, <2>1
  <2> QED
    BY <2>3, <2>4, <2>5 DEF AnswersAddUp, latest_snapshot
<1>2. ASSUME NEW c \in Client, delete_client(c) PROVE AnswersAddUp'
  <2>1. /\ reports'[c] = <<>> /\ UNCHANGED told
        /\ \A b \in Client \ {c} : reports'[b] = reports[b]
    BY <1>0, <1>2 DEF delete_client
  <2> QED
    BY <2>1 DEF AnswersAddUp, latest_snapshot
<1>3. CASE UNCHANGED <<reports, told>>
  BY <1>3 DEF AnswersAddUp, latest_snapshot
<1> QED
  BY <1>1, <1>2, <1>3
     DEF Next, vars, clients, ReportAges, TrafficAges, FeedMatures, Sweeps, commit_batch,
         read_bypass_states, check_bypass_transitions, Delivers, StartJob,
         finish_job_and_notify, Enqueues, ApiStart, ApiStop, ApiStopped, ApiKill

\* A client that applies the difference each answer names has what it reported
\* last, for any retention, deletions and order of reports (store_report).
THEOREM AnswersAlwaysAddUp == Spec => []AnswersAddUp
<1>1. Init => AnswersAddUp
  BY DEF Init, AnswersAddUp
<1> QED
  BY <1>1, AnswersStep, TypeInvariant, PTL DEF Spec

-----------------------------------------------------------------------------
(* Where an event is.  Its fate says so: a producer that has committed it  *)
(* has it to do, a queued one is in the queue, a taken one is being        *)
(* delivered; and events of one thread stay in their order all the way.    *)

\* The worker announces jobs, the scheduler's thread announces clients
ByWorker(e) == log[e].about \in Job
Mine(p, e) == ByWorker(e) <=> p = Worker
SameThread(e, f) == ByWorker(e) <=> ByWorker(f)

Busy == thread.pc \in {"try", "backoff"}

Places ==
  /\ \A p \in Producer : \A e \in DOMAIN log :
       Mine(p, e) => (log[e].fate = "made" <=> e \in Range(producer[p].todo))
  /\ \A e \in DOMAIN log : log[e].fate = "queued" <=> e \in Range(queue)
  /\ \A e \in DOMAIN log : log[e].fate = "taken" <=> Busy /\ thread.item = e

\* and nothing else is in these places
PlacesHoldEvents ==
  /\ \A p \in Producer : \A e \in Range(producer[p].todo) :
       e \in DOMAIN log /\ Mine(p, e)
  /\ Range(queue) \subseteq DOMAIN log
  /\ Busy => thread.item \in DOMAIN log

InLine ==
  /\ \A p \in Producer : \A i, j \in DOMAIN producer[p].todo :
       i < j => producer[p].todo[i] < producer[p].todo[j]
  /\ \A i, j \in DOMAIN queue :
       i < j /\ SameThread(queue[i], queue[j]) => queue[i] < queue[j]
  /\ \A e, f \in DOMAIN log : SameThread(e, f) =>
       /\ log[e].fate = "taken" /\ log[f].fate \in Pending => e <= f
       /\ log[e].fate = "queued" /\ log[f].fate = "made" => e < f

\* What is on its way is not older than what was heard of its subject
NotOlder ==
  /\ \A e \in DOMAIN log : log[e].fate \in Pending => heard[log[e].about] <= e
  /\ \A s \in Subject : heard[s] <= Len(log)

QueueInv == Places /\ PlacesHoldEvents /\ InLine /\ NotOlder

\* Who is where after an append, and after the first has left
LEMMA RangeOfAppend ==
  ASSUME NEW T, NEW s \in Seq(T), NEW x \in T
  PROVE  Range(Append(s, x)) = Range(s) \cup {x}
<1> DEFINE t == Append(s, x)
<1>1. /\ Len(s) \in Nat /\ DOMAIN s = 1..Len(s) /\ DOMAIN t = 1..(Len(s) + 1)
      /\ \A i \in 1..Len(s) : t[i] = s[i]
      /\ t[Len(s) + 1] = x
  BY AppendIs
<1> HIDE DEF t
<1>2. \A i \in 1..(Len(s) + 1) : i \in 1..Len(s) \/ i = Len(s) + 1
  BY <1>1
<1>3. Range(t) \subseteq Range(s) \cup {x}
  BY <1>1, <1>2 DEF Range
<1>4. Range(s) \cup {x} \subseteq Range(t)
  <2>1. ASSUME NEW i \in 1..Len(s) PROVE s[i] \in Range(t)
    <3>1. i \in DOMAIN t /\ t[i] = s[i]
      BY <1>1
    <3> QED
      BY <3>1 DEF Range
  <2>2. x \in Range(t)
    <3>1. Len(s) + 1 \in DOMAIN t
      BY <1>1
    <3> QED
      BY <1>1, <3>1 DEF Range
  <2> QED
    BY <1>1, <2>1, <2>2 DEF Range
<1> QED
  BY <1>3, <1>4 DEF t

LEMMA RangeOfTail ==
  ASSUME NEW T, NEW s \in Seq(T), s # <<>>,
         \A i, j \in DOMAIN s : i # j => s[i] # s[j]
  PROVE  Head(s) = s[1] /\ s[1] \in Range(s) /\ Range(Tail(s)) = Range(s) \ {s[1]}
<1> DEFINE t == Tail(s)
           n == Len(s) - 1
<1>1. /\ n \in Nat /\ DOMAIN s = 1..(n + 1) /\ DOMAIN t = 1..n /\ Head(s) = s[1]
      /\ \A i \in 1..n : t[i] = s[i + 1]
  BY TailIs
<1> HIDE DEF t, n
<1>2. \A i \in 1..n : i + 1 \in DOMAIN s /\ i + 1 # 1 /\ 1 \in DOMAIN s
  BY <1>1
<1>3. ASSUME NEW i \in 1..n PROVE t[i] \in Range(s) \ {s[1]}
  <2>1. i + 1 \in DOMAIN s /\ s[i + 1] # s[1]
    BY <1>2
  <2>2. t[i] = s[i + 1]
    BY <1>1
  <2> QED
    BY <2>1, <2>2 DEF Range
<1>4. ASSUME NEW i \in DOMAIN s, s[i] # s[1] PROVE s[i] \in Range(t)
  <2>1. i - 1 \in 1..n /\ i = (i - 1) + 1
    BY <1>1, <1>4
  <2>2. t[i - 1] = s[i]
    BY <1>1, <2>1
  <2> QED
    BY <1>1, <2>1, <2>2 DEF Range
<1>5. Range(t) \subseteq Range(s) \ {s[1]} /\ Range(s) \ {s[1]} \subseteq Range(t)
  BY <1>1, <1>3, <1>4 DEF Range
<1>6. s[1] \in Range(s)
  <2>1. 1 \in DOMAIN s
    BY <1>1
  <2> QED
    BY <2>1 DEF Range
<1> QED
  BY <1>1, <1>5, <1>6 DEF t

LEMMA Distinct ==
  ASSUME NotifierInv, QueueInv
  PROVE  /\ \A i, j \in DOMAIN queue : i # j => queue[i] # queue[j]
         /\ \A p \in Producer : \A i, j \in DOMAIN producer[p].todo :
              i # j => producer[p].todo[i] # producer[p].todo[j]
<1>1. ASSUME NEW i \in DOMAIN queue, NEW j \in DOMAIN queue, i # j
      PROVE  queue[i] # queue[j]
  <2>1. /\ i \in Nat /\ j \in Nat
        /\ queue[i] \in Nat /\ queue[j] \in Nat
    BY NotifierTypes DEF NotifierInv
  <2>2. \A a, b \in DOMAIN queue :
          a < b /\ SameThread(queue[a], queue[b]) => queue[a] < queue[b]
    BY DEF QueueInv, InLine
  <2>3. queue[i] = queue[j] => SameThread(queue[i], queue[j]) /\ SameThread(queue[j], queue[i])
    BY DEF SameThread
  <2> QED
    BY <1>1, <2>1, <2>2, <2>3
<1>2. ASSUME NEW p \in Producer, NEW i \in DOMAIN producer[p].todo,
             NEW j \in DOMAIN producer[p].todo, i # j
      PROVE  producer[p].todo[i] # producer[p].todo[j]
  <2> DEFINE todo == producer[p].todo
  <2>0. todo \in Seq(Nat) /\ i \in DOMAIN todo /\ j \in DOMAIN todo
    BY NotifierTypes DEF NotifierInv, Producers
  <2>2. \A a, b \in DOMAIN todo : a < b => todo[a] < todo[b]
    BY DEF QueueInv, InLine
  <2> HIDE DEF todo
  <2>1. i \in Nat /\ j \in Nat /\ todo[i] \in Nat /\ todo[j] \in Nat
    BY <2>0
  <2>3. todo[i] # todo[j]
    BY <1>2, <2>0, <2>1, <2>2
  <2> QED
    BY <2>3 DEF todo
<1> QED
  BY <1>1, <1>2

\* The events themselves stay as they are when a fate changes
LEMMA SameEvents ==
  ASSUME NEW e, NEW fate, FateBecomes(e, fate)
  PROVE  /\ DOMAIN log' = DOMAIN log /\ Len(log') = Len(log)
         /\ \A i \in DOMAIN log :
              /\ ByWorker(i)' <=> ByWorker(i)
              /\ log'[i].about = log[i].about
              /\ log'[i].fate = IF i = e THEN fate ELSE log[i].fate
BY DEF FateBecomes, ByWorker

\* The first event that p has to do enters the queue, or is turned away
LEMMA HandsOver ==
  ASSUME NotifierInv, QueueInv, ClientWatchAssumption, WebhookAssumption,
         NEW p \in Producer, producer[p].todo # <<>>, EnqueueReturns(p),
         NEW fate \in {"queued", "unwanted", "squeezed"},
         log' = [log EXCEPT ![InHand(p)].fate = fate],
         queue' = IF fate = "queued" THEN Append(queue, InHand(p)) ELSE queue,
         UNCHANGED <<thread, heard>>
  PROVE  QueueInv'
<1> DEFINE e == InHand(p)
           todo == producer[p].todo
<1>1. /\ queue \in Seq(Nat) /\ log \in Seq(Event) /\ producer \in Producers
      /\ DOMAIN queue = 1..Len(queue) /\ Len(queue) \in Nat
      /\ DOMAIN log = 1..Len(log) /\ Len(log) \in Nat
      /\ heard \in [Subject -> Nat] /\ thread \in Deliveries
  BY NotifierTypes DEF NotifierInv
<1>2. /\ todo \in Seq(Nat) /\ todo # <<>>
      /\ \A i, j \in DOMAIN todo : i # j => todo[i] # todo[j]
  BY <1>1, Distinct DEF Producers
<1>3. /\ e = todo[1] /\ e \in Nat /\ e \in Range(todo)
      /\ \A q \in Producer \ {p} : producer'[q] = producer[q]
      /\ producer'[p].todo = Tail(todo)
      /\ Range(Tail(todo)) = Range(todo) \ {e}
  <2>1. /\ \A q \in Producer \ {p} : producer'[q] = producer[q]
        /\ producer'[p].todo = Tail(todo) /\ e = todo[1] /\ e \in Nat
    BY <1>1, EnqueueReturnsIs
  <2> HIDE DEF e, todo
  <2>2. todo[1] \in Range(todo) /\ Range(Tail(todo)) = Range(todo) \ {todo[1]}
    BY <1>2, RangeOfTail
  <2> QED
    BY <2>1, <2>2
<1>4. e \in DOMAIN log /\ Mine(p, e) /\ log[e].fate = "made"
  BY <1>3 DEF QueueInv, Places, PlacesHoldEvents
<1>5. /\ DOMAIN log' = DOMAIN log /\ Len(log') = Len(log)
      /\ \A i \in DOMAIN log :
           /\ ByWorker(i)' <=> ByWorker(i)
           /\ log'[i].about = log[i].about
           /\ log'[i].fate = IF i = e THEN fate ELSE log[i].fate
  <2>1. fate \in Fate
    BY DEF Fate
  <2> QED
    <3>1. log' = [log EXCEPT ![e].fate = fate]
      OBVIOUS
    <3> HIDE DEF e
    <3>2. FateBecomes(e, fate)
      BY <1>1, <2>1, <3>1, FateWrite
    <3> QED
      BY <3>2, SameEvents
<1>6. Range(queue') = IF fate = "queued" THEN Range(queue) \cup {e} ELSE Range(queue)
  <2>1. queue' = IF fate = "queued" THEN Append(queue, e) ELSE queue
    OBVIOUS
  <2> HIDE DEF e
  <2>2. Range(Append(queue, e)) = Range(queue) \cup {e}
    BY <1>1, <1>3, RangeOfAppend
  <2> QED
    BY <2>1, <2>2 DEF Range
<1>6a. queue' = IF fate = "queued" THEN Append(queue, e) ELSE queue
  OBVIOUS
<1> HIDE DEF e, todo
<1>7. Busy' <=> Busy
  BY DEF Busy
<1>8. \A q \in Producer, f \in DOMAIN log : Mine(q, f)' <=> Mine(q, f)
  BY <1>5 DEF Mine
<1>9. \A q \in Producer : Mine(q, e) => q = p
  BY <1>4, ClientWatchAssumption DEF Mine, Worker, Sweeper
<1>10. Places'
  <2>1. ASSUME NEW q \in Producer, NEW f \in DOMAIN log, Mine(q, f)
        PROVE  log'[f].fate = "made" <=> f \in Range(producer'[q].todo)
    <3>1. log[f].fate = "made" <=> f \in Range(producer[q].todo)
      BY <2>1 DEF QueueInv, Places
    <3>2. CASE q = p
      BY <1>3, <1>4, <1>5, <2>1, <3>1, <3>2 DEF todo
    <3>3. CASE q # p
      <4>1. f # e
        BY <1>9, <2>1, <3>3
      <4> QED
        BY <1>3, <1>5, <3>1, <3>3, <4>1
    <3> QED
      BY <3>2, <3>3
  <2>2. ASSUME NEW f \in DOMAIN log
        PROVE  /\ log'[f].fate = "queued" <=> f \in Range(queue')
               /\ log'[f].fate = "taken" <=> Busy' /\ thread'.item = f
    <3>1. /\ log[f].fate = "queued" <=> f \in Range(queue)
          /\ log[f].fate = "taken" <=> Busy /\ thread.item = f
      BY DEF QueueInv, Places
    <3>2. f = e => log[f].fate = "made"
      BY <1>4
    <3> QED
      BY <1>5, <1>6, <1>7, <3>1, <3>2
  <2> QED
    BY <1>5, <1>8, <2>1, <2>2 DEF Places
<1>11. PlacesHoldEvents'
  <2>1. /\ \A q \in Producer : \A f \in Range(producer[q].todo) :
             f \in DOMAIN log /\ Mine(q, f)
        /\ Range(queue) \subseteq DOMAIN log
        /\ Busy => thread.item \in DOMAIN log
    BY DEF QueueInv, PlacesHoldEvents
  <2>2. \A q \in Producer : Range(producer'[q].todo) \subseteq Range(producer[q].todo)
    BY <1>3 DEF todo
  <2>3. Range(queue') \subseteq DOMAIN log
    BY <1>4, <1>6, <2>1
  <2> QED
    BY <1>5, <1>7, <1>8, <2>1, <2>2, <2>3 DEF PlacesHoldEvents
<1>12. InLine'
  <2>1. ASSUME NEW q \in Producer, NEW i \in DOMAIN producer'[q].todo,
               NEW j \in DOMAIN producer'[q].todo, i < j
        PROVE  producer'[q].todo[i] < producer'[q].todo[j]
    <3>1. \A a, b \in DOMAIN producer[q].todo :
            a < b => producer[q].todo[a] < producer[q].todo[b]
      BY DEF QueueInv, InLine
    <3>2. CASE q # p
      BY <1>3, <2>1, <3>1, <3>2
    <3>3. CASE q = p
      <4>1. /\ Tail(todo)[i] = todo[i + 1] /\ Tail(todo)[j] = todo[j + 1]
            /\ i + 1 \in DOMAIN todo /\ j + 1 \in DOMAIN todo /\ i + 1 < j + 1
        <5>1. i \in DOMAIN Tail(todo) /\ j \in DOMAIN Tail(todo)
          BY <1>3, <2>1, <3>3
        <5>2. /\ Len(todo) \in Nat \ {0} /\ DOMAIN todo = 1..Len(todo)
              /\ DOMAIN Tail(todo) = 1..(Len(todo) - 1)
              /\ \A k \in 1..(Len(todo) - 1) : Tail(todo)[k] = todo[k + 1]
          BY <1>2, TailIs
        <5> QED
          BY <2>1, <5>1, <5>2
      <4> QED
        BY <1>3, <3>1, <3>3, <4>1 DEF todo
    <3> QED
      BY <3>2, <3>3
  <2>2. ASSUME NEW i \in DOMAIN queue', NEW j \in DOMAIN queue', i < j,
               SameThread(queue[i], queue[j])'
        PROVE  queue'[i] < queue'[j]
    <3>1. queue'[i] \in DOMAIN log /\ queue'[j] \in DOMAIN log
      <4>1. Range(queue') \subseteq DOMAIN log
        BY <1>5, <1>11 DEF PlacesHoldEvents
      <4> QED
        BY <4>1 DEF Range
    <3>2. SameThread(queue'[i], queue'[j])
      <4>1. /\ log'[queue'[i]].about = log[queue'[i]].about
            /\ log'[queue'[j]].about = log[queue'[j]].about
        BY <1>5, <3>1
      <4> QED
        BY <2>2, <4>1 DEF SameThread, ByWorker
    <3>3. CASE j \in DOMAIN queue
      <4>1. i \in DOMAIN queue /\ queue'[i] = queue[i] /\ queue'[j] = queue[j]
        BY <1>1, <1>3, <2>2, <3>3, AppendIs
      <4> QED
        BY <2>2, <3>2, <3>3, <4>1 DEF QueueInv, InLine
    <3>4. CASE j \notin DOMAIN queue
      <4>1. /\ fate = "queued" /\ j = Len(queue) + 1 /\ queue'[j] = e
            /\ i \in DOMAIN queue /\ queue'[i] = queue[i]
        <5>1. fate = "queued" /\ queue' = Append(queue, e)
          BY <1>6a, <2>2, <3>4
        <5>2. /\ DOMAIN queue' = 1..(Len(queue) + 1) /\ queue'[Len(queue) + 1] = e
              /\ \A k \in 1..Len(queue) : queue'[k] = queue[k]
          BY <1>1, <1>3, <5>1, AppendIs
        <5> QED
          BY <1>1, <2>2, <3>4, <5>1, <5>2
      <4>2. queue[i] \in DOMAIN log /\ log[queue[i]].fate = "queued"
        BY <4>1 DEF QueueInv, Places, PlacesHoldEvents, Range
      <4> QED
        BY <1>4, <3>2, <4>1, <4>2 DEF QueueInv, InLine
    <3> QED
      BY <3>3, <3>4
  <2>3. ASSUME NEW f \in DOMAIN log, NEW g \in DOMAIN log, SameThread(f, g)
        PROVE  /\ log'[f].fate = "taken" /\ log'[g].fate \in Pending => f <= g
               /\ log'[f].fate = "queued" /\ log'[g].fate = "made" => f < g
    <3>1. /\ log[f].fate = "taken" /\ log[g].fate \in Pending => f <= g
          /\ log[f].fate = "queued" /\ log[g].fate = "made" => f < g
      BY <2>3 DEF QueueInv, InLine
    <3>2. /\ log'[f].fate = "taken" => log[f].fate = "taken"
          /\ log'[g].fate \in Pending => log[g].fate \in Pending
          /\ log'[g].fate = "made" => log[g].fate = "made" /\ g # e
      BY <1>4, <1>5 DEF Pending
    <3>3. CASE f # e
      BY <1>5, <3>1, <3>2, <3>3
    <3>4. ASSUME f = e, log'[g].fate = "made" PROVE f < g
      <4>1. Mine(p, g)
        BY <1>4, <2>3, <3>4 DEF SameThread, Mine
      <4>2. g \in Range(todo) /\ g # e
        BY <3>2, <3>4, <4>1 DEF QueueInv, Places, todo
      <4>3. PICK i \in DOMAIN todo : todo[i] = g
        BY <4>2 DEF Range
      <4>4. i # 1 /\ 1 < i /\ 1 \in DOMAIN todo
        BY <1>2, <1>3, <4>2, <4>3
      <4> QED
        BY <1>3, <3>4, <4>3, <4>4 DEF QueueInv, InLine, todo
    <3> QED
      BY <1>4, <1>5, <3>1, <3>2, <3>3, <3>4
  <2>4. \A f, g \in DOMAIN log : SameThread(f, g)' <=> SameThread(f, g)
    BY <1>5 DEF SameThread
  <2>5. /\ \A q \in Producer : \A i, j \in DOMAIN producer'[q].todo :
             i < j => producer'[q].todo[i] < producer'[q].todo[j]
        /\ \A i, j \in DOMAIN queue' :
             i < j /\ SameThread(queue[i], queue[j])' => queue'[i] < queue'[j]
    BY <2>1, <2>2
  <2>6. \A f, g \in DOMAIN log' : SameThread(f, g)' =>
          /\ log'[f].fate = "taken" /\ log'[g].fate \in Pending => f <= g
          /\ log'[f].fate = "queued" /\ log'[g].fate = "made" => f < g
    BY <1>5, <2>3, <2>4
  <2> QED
    BY <2>5, <2>6 DEF InLine
<1>13. NotOlder'
  <2>1. \A f \in DOMAIN log : log'[f].fate \in Pending => log[f].fate \in Pending
    BY <1>4, <1>5 DEF Pending
  <2> QED
    BY <1>5, <2>1 DEF QueueInv, NotOlder
<1> QED
  BY <1>10, <1>11, <1>12, <1>13 DEF QueueInv

\* The oldest of the queue is taken for delivery, or dropped
LEMMA HeadLeaves ==
  ASSUME NotifierInv, QueueInv, queue # <<>>, NEW fate \in {"taken", "gone"},
         queue' = Tail(queue), log' = [log EXCEPT ![Head(queue)].fate = fate],
         IF fate = "taken" THEN ~Busy /\ Busy' /\ thread'.item = Head(queue)
                           ELSE UNCHANGED thread,
         \A p \in Producer : producer'[p].todo = producer[p].todo,
         UNCHANGED heard
  PROVE  QueueInv'
<1> DEFINE e == Head(queue)
<1>1. /\ queue \in Seq(Nat) /\ log \in Seq(Event)
      /\ \A f \in DOMAIN log : f \in Nat
      /\ \A i, j \in DOMAIN queue : i # j => queue[i] # queue[j]
  BY NotifierTypes, Distinct DEF NotifierInv
<1>2. e = queue[1] /\ e \in Range(queue) /\ Range(Tail(queue)) = Range(queue) \ {e}
  BY <1>1, RangeOfTail
<1>3. /\ Len(queue) \in Nat \ {0} /\ DOMAIN queue = 1..Len(queue)
      /\ DOMAIN queue' = 1..(Len(queue) - 1)
      /\ \A i \in 1..(Len(queue) - 1) : queue'[i] = queue[i + 1]
  BY <1>1, TailIs
<1>4. e \in DOMAIN log /\ log[e].fate = "queued"
  BY <1>2 DEF QueueInv, Places, PlacesHoldEvents
<1>5. /\ DOMAIN log' = DOMAIN log /\ Len(log') = Len(log)
      /\ \A i \in DOMAIN log :
           /\ ByWorker(i)' <=> ByWorker(i)
           /\ log'[i].about = log[i].about
           /\ log'[i].fate = IF i = e THEN fate ELSE log[i].fate
  <2>1. fate \in Fate
    BY DEF Fate
  <2>2. log' = [log EXCEPT ![e].fate = fate]
    OBVIOUS
  <2> HIDE DEF e
  <2>3. FateBecomes(e, fate)
    BY <1>1, <2>1, <2>2, FateWrite
  <2> QED
    BY <2>3, SameEvents
<1>6. IF fate = "taken" THEN ~Busy /\ Busy' /\ thread'.item = e
      ELSE (Busy' <=> Busy) /\ thread'.item = thread.item
  BY DEF Busy
<1>7. Range(queue') = Range(queue) \ {e}
  BY <1>2
<1> HIDE DEF e
<1>8. \A q \in Producer, f \in DOMAIN log : Mine(q, f)' <=> Mine(q, f)
  BY <1>5 DEF Mine
<1>9. Places'
  <2>1. ASSUME NEW q \in Producer, NEW f \in DOMAIN log, Mine(q, f)
        PROVE  log'[f].fate = "made" <=> f \in Range(producer'[q].todo)
    BY <1>4, <1>5, <2>1 DEF QueueInv, Places
  <2>2. ASSUME NEW f \in DOMAIN log
        PROVE  /\ log'[f].fate = "queued" <=> f \in Range(queue')
               /\ log'[f].fate = "taken" <=> Busy' /\ thread'.item = f
    BY <1>4, <1>5, <1>6, <1>7 DEF QueueInv, Places
  <2> QED
    BY <1>5, <1>8, <2>1, <2>2 DEF Places
<1>10. PlacesHoldEvents'
  <2>1. \A q \in Producer : \A f \in Range(producer[q].todo) :
             f \in DOMAIN log /\ Mine(q, f)
    BY DEF QueueInv, PlacesHoldEvents
  <2>2. Range(queue') \subseteq DOMAIN log /\ (Busy' => thread'.item \in DOMAIN log)
    BY <1>4, <1>6, <1>7 DEF QueueInv, PlacesHoldEvents
  <2> QED
    BY <1>5, <1>8, <2>1, <2>2 DEF PlacesHoldEvents
<1>11. InLine'
  <2>1. \A q \in Producer : \A i, j \in DOMAIN producer'[q].todo :
          i < j => producer'[q].todo[i] < producer'[q].todo[j]
    BY DEF QueueInv, InLine
  <2>2. ASSUME NEW i \in DOMAIN queue', NEW j \in DOMAIN queue', i < j,
               SameThread(queue[i], queue[j])'
        PROVE  queue'[i] < queue'[j]
    <3>1. /\ queue'[i] = queue[i + 1] /\ queue'[j] = queue[j + 1]
          /\ i + 1 \in DOMAIN queue /\ j + 1 \in DOMAIN queue /\ i + 1 < j + 1
      BY <1>3, <2>2
    <3>2. queue[i + 1] \in DOMAIN log /\ queue[j + 1] \in DOMAIN log
      BY <3>1 DEF QueueInv, PlacesHoldEvents, Range
    <3>3. SameThread(queue[i + 1], queue[j + 1])
      BY <1>5, <2>2, <3>1, <3>2 DEF SameThread, ByWorker
    <3> QED
      BY <3>1, <3>3 DEF QueueInv, InLine
  <2>3. ASSUME NEW f \in DOMAIN log, NEW g \in DOMAIN log, SameThread(f, g)
        PROVE  /\ log'[f].fate = "taken" /\ log'[g].fate \in Pending => f <= g
               /\ log'[f].fate = "queued" /\ log'[g].fate = "made" => f < g
    <3>1. /\ log[f].fate = "taken" /\ log[g].fate \in Pending => f <= g
          /\ log[f].fate = "queued" /\ log[g].fate = "made" => f < g
      BY <2>3 DEF QueueInv, InLine
    <3>2. /\ log'[f].fate = "queued" => log[f].fate = "queued"
          /\ log'[g].fate \in Pending => log[g].fate \in Pending
          /\ log'[g].fate = "made" => log[g].fate = "made"
      BY <1>4, <1>5 DEF Pending
    <3>3. ASSUME log'[f].fate = "taken", f # e PROVE log[f].fate = "taken"
      BY <1>5, <3>3
    <3>4. ASSUME log'[f].fate = "taken", f = e, log'[g].fate \in Pending PROVE f <= g
      <4>1. fate = "taken" /\ log[g].fate # "taken"
        BY <1>5, <1>6, <3>4 DEF QueueInv, Places
      <4>2. CASE log[g].fate = "queued"
        <5>1. PICK i \in DOMAIN queue : queue[i] = g
          BY <4>2 DEF QueueInv, Places, Range
        <5>2. CASE i = 1
          BY <1>1, <1>2, <3>4, <5>1, <5>2
        <5>3. CASE i # 1
          <6>1. 1 \in DOMAIN queue /\ 1 < i
            BY <1>3, <5>3
          <6> QED
            BY <1>1, <1>2, <2>3, <3>4, <5>1, <6>1 DEF QueueInv, InLine
        <5> QED
          BY <5>2, <5>3
      <4>3. CASE log[g].fate = "made"
        BY <1>1, <1>4, <3>1, <3>4, <4>3
      <4> QED
        BY <3>2, <3>4, <4>1, <4>2, <4>3 DEF Pending
    <3> QED
      BY <3>1, <3>2, <3>3, <3>4
  <2>4. \A f, g \in DOMAIN log : SameThread(f, g)' <=> SameThread(f, g)
    BY <1>5 DEF SameThread
  <2>5. \A i, j \in DOMAIN queue' :
          i < j /\ SameThread(queue[i], queue[j])' => queue'[i] < queue'[j]
    BY <2>2
  <2>6. \A f, g \in DOMAIN log' : SameThread(f, g)' =>
          /\ log'[f].fate = "taken" /\ log'[g].fate \in Pending => f <= g
          /\ log'[f].fate = "queued" /\ log'[g].fate = "made" => f < g
    BY <1>5, <2>3, <2>4
  <2> QED
    BY <2>1, <2>5, <2>6 DEF InLine
<1>12. NotOlder'
  <2>1. \A f \in DOMAIN log : log'[f].fate \in Pending => log[f].fate \in Pending
    BY <1>4, <1>5 DEF Pending
  <2> QED
    BY <1>5, <2>1 DEF QueueInv, NotOlder
<1> QED
  BY <1>9, <1>10, <1>11, <1>12 DEF QueueInv

\* The event being delivered may have arrived; it stays or is done with
LEMMA Settles ==
  ASSUME NotifierInv, QueueInv, Busy, UNCHANGED <<queue, producer>>,
         UNCHANGED heard \/ heard' = [heard EXCEPT ![log[thread.item].about] = thread.item],
         \/ ~Busy' /\ log' = [log EXCEPT ![thread.item].fate = "gone"]
         \/ Busy' /\ thread'.item = thread.item /\ UNCHANGED log
  PROVE  QueueInv'
<1> DEFINE e == thread.item
<1>1. /\ log \in Seq(Event) /\ heard \in [Subject -> Nat]
      /\ DOMAIN log = 1..Len(log) /\ Len(log) \in Nat
      /\ \A f \in DOMAIN log : log[f].about \in Subject
  <2>1. log \in Seq(Event) /\ heard \in [Subject -> Nat]
    BY NotifierTypes DEF NotifierInv
  <2>2. /\ DOMAIN log = 1..Len(log) /\ Len(log) \in Nat
        /\ \A f \in DOMAIN log : log[f] \in Event
    BY <2>1
  <2> QED
    BY <2>1, <2>2 DEF Event
<1>2. e \in DOMAIN log /\ log[e].fate = "taken"
  BY DEF QueueInv, Places, PlacesHoldEvents
<1>3. /\ DOMAIN log' = DOMAIN log /\ Len(log') = Len(log)
      /\ \A i \in DOMAIN log :
           /\ ByWorker(i)' <=> ByWorker(i)
           /\ log'[i].about = log[i].about
           /\ log'[i].fate = IF i = e /\ ~Busy' THEN "gone" ELSE log[i].fate
  <2>1. CASE ~Busy' /\ log' = [log EXCEPT ![e].fate = "gone"]
    <3> HIDE DEF e
    <3>1. "gone" \in Fate
      BY DEF Fate
    <3>2. FateBecomes(e, "gone")
      BY <1>1, <2>1, <3>1, FateWrite
    <3> QED
      BY <2>1, <3>2, SameEvents
  <2>2. CASE Busy' /\ UNCHANGED log
    BY <2>2 DEF ByWorker
  <2> QED
    BY <2>1, <2>2
<1>4. Busy' => thread'.item = e
  OBVIOUS
<1>5. \/ UNCHANGED heard
      \/ heard' = [heard EXCEPT ![log[e].about] = e]
  OBVIOUS
<1> HIDE DEF e
<1>6. \A q \in Producer, f \in DOMAIN log : Mine(q, f)' <=> Mine(q, f)
  BY <1>3 DEF Mine
<1>7. Places'
  <2>1. ASSUME NEW q \in Producer, NEW f \in DOMAIN log, Mine(q, f)
        PROVE  log'[f].fate = "made" <=> f \in Range(producer'[q].todo)
    BY <1>2, <1>3, <2>1 DEF QueueInv, Places
  <2>2. ASSUME NEW f \in DOMAIN log
        PROVE  /\ log'[f].fate = "queued" <=> f \in Range(queue')
               /\ log'[f].fate = "taken" <=> Busy' /\ thread'.item = f
    <3>1. /\ log[f].fate = "queued" <=> f \in Range(queue)
          /\ log[f].fate = "taken" <=> e = f
      BY DEF QueueInv, Places, e
    <3> QED
      BY <1>2, <1>3, <1>4, <3>1
  <2> QED
    BY <1>3, <1>6, <2>1, <2>2 DEF Places
<1>8. PlacesHoldEvents'
  <2>1. /\ \A q \in Producer : \A f \in Range(producer[q].todo) :
             f \in DOMAIN log /\ Mine(q, f)
        /\ Range(queue) \subseteq DOMAIN log
    BY DEF QueueInv, PlacesHoldEvents
  <2> QED
    BY <1>2, <1>3, <1>4, <1>6, <2>1 DEF PlacesHoldEvents
<1>9. InLine'
  <2>1. /\ \A q \in Producer : \A i, j \in DOMAIN producer'[q].todo :
             i < j => producer'[q].todo[i] < producer'[q].todo[j]
    BY DEF QueueInv, InLine
  <2>2. ASSUME NEW i \in DOMAIN queue', NEW j \in DOMAIN queue', i < j,
               SameThread(queue[i], queue[j])'
        PROVE  queue'[i] < queue'[j]
    <3>1. queue[i] \in DOMAIN log /\ queue[j] \in DOMAIN log
      BY DEF QueueInv, PlacesHoldEvents, Range
    <3>2. SameThread(queue[i], queue[j])
      BY <1>3, <2>2, <3>1 DEF SameThread, ByWorker
    <3> QED
      BY <2>2, <3>2 DEF QueueInv, InLine
  <2>3. \A f, g \in DOMAIN log : SameThread(f, g)' <=> SameThread(f, g)
    BY <1>3 DEF SameThread
  <2>4. \A f \in DOMAIN log :
          /\ log'[f].fate \in Pending => log[f].fate \in Pending
          /\ \A fate \in Pending : log'[f].fate = fate => log[f].fate = fate
    BY <1>3 DEF Pending
  <2>5. \A f, g \in DOMAIN log' : SameThread(f, g)' =>
          /\ log'[f].fate = "taken" /\ log'[g].fate \in Pending => f <= g
          /\ log'[f].fate = "queued" /\ log'[g].fate = "made" => f < g
    BY <1>3, <2>3, <2>4 DEF QueueInv, InLine, Pending
  <2>6. \A i, j \in DOMAIN queue' :
          i < j /\ SameThread(queue[i], queue[j])' => queue'[i] < queue'[j]
    BY <2>2
  <2> QED
    BY <2>1, <2>5, <2>6 DEF InLine
<1>10. NotOlder'
  <2>1. ASSUME NEW f \in DOMAIN log, log'[f].fate \in Pending
        PROVE  heard'[log'[f].about] <= f
    <3>1. log[f].fate \in Pending /\ log'[f].about = log[f].about
      BY <1>3, <2>1 DEF Pending
    <3>2. heard[log[f].about] <= f
      BY <3>1 DEF QueueInv, NotOlder
    <3>3. log[f].about = log[e].about => e <= f
      BY <1>2, <3>1 DEF QueueInv, InLine, SameThread, ByWorker
    <3> QED
      BY <1>1, <1>5, <3>1, <3>2, <3>3
  <2>2. ASSUME NEW s \in Subject PROVE heard'[s] <= Len(log')
    <3>1. heard[s] <= Len(log) /\ e <= Len(log)
      BY <1>1, <1>2 DEF QueueInv, NotOlder
    <3> QED
      BY <1>1, <1>3, <1>5, <3>1
  <2> QED
    BY <1>3, <2>1, <2>2 DEF NotOlder
<1> QED
  BY <1>7, <1>8, <1>9, <1>10 DEF QueueInv

\* What p has committed enters the log, and p has it to do
LEMMA Enters ==
  ASSUME NotifierInv, QueueInv, ClientWatchAssumption,
         NEW p \in Producer, producer[p].todo = <<>>, NEW events \in Seq(Event),
         \A i \in 1..Len(events) : /\ events[i].fate = "made"
                                   /\ events[i].about \in Job <=> p = Worker,
         Announce(p, events), UNCHANGED <<queue, thread, heard>>
  PROVE  QueueInv'
<1> DEFINE n == Len(log)
           m == Len(events)
<1>1. /\ log \in Seq(Event) /\ producer \in Producers /\ queue \in Seq(Nat)
      /\ heard \in [Subject -> Nat]
  BY NotifierTypes DEF NotifierInv
<1>2. /\ n \in Nat /\ m \in Nat /\ DOMAIN log = 1..n /\ DOMAIN log' = 1..(n + m)
      /\ Len(log') = n + m /\ log' \in Seq(Event)
      /\ \A i \in 1..n : log'[i] = log[i]
      /\ \A i \in 1..m : log'[n + i] = events[i]
      /\ \A q \in Producer \ {p} : producer'[q] = producer[q]
      /\ DOMAIN producer'[p].todo = 1..m
      /\ \A i \in 1..m : producer'[p].todo[i] = n + i
  <2>1. producer \in [Producer -> [pc : {"idle", "put", "full", "again"}, todo : Seq(Nat)]]
    BY <1>1 DEF Producers
  <2>2. /\ log' \in Seq(Event) /\ Len(log') = Len(log) + Len(events)
        /\ Len(log) \in Nat /\ Len(events) \in Nat
        /\ DOMAIN log = 1..Len(log) /\ DOMAIN log' = 1..(Len(log) + Len(events))
        /\ \A i \in 1..Len(log) : log'[i] = log[i]
        /\ \A i \in 1..Len(events) : log'[Len(log) + i] = events[i]
    BY <1>1, <2>1, AnnounceIs
  <2>3. /\ \A q \in Producer \ {p} : producer'[q] = producer[q]
        /\ DOMAIN producer'[p].todo = 1..Len(events)
    BY <1>1, <2>1, AnnounceIs
  <2>4. ASSUME NEW i \in 1..Len(events) PROVE producer'[p].todo[i] = Len(log) + i
    <3>1. producer' = [producer EXCEPT ![p] =
            [pc |-> IF events = <<>> THEN "idle" ELSE "put",
             todo |-> [k \in 1..Len(events) |-> Len(log) + k]]]
      BY DEF Announce
    <3>2. producer'[p] = [pc |-> IF events = <<>> THEN "idle" ELSE "put",
                          todo |-> [k \in 1..Len(events) |-> Len(log) + k]]
      BY <2>1, <3>1
    <3> QED
      BY <3>2
  <2> QED
    BY <2>2, <2>3, <2>4
<1> HIDE DEF n, m
<1>3. ASSUME NEW f \in DOMAIN log', f \notin DOMAIN log
      PROVE  /\ f - n \in 1..m /\ f = n + (f - n) /\ f > n
             /\ log'[f].fate = "made" /\ (ByWorker(f)' <=> p = Worker)
             /\ f \in Range(producer'[p].todo)
  <2>1. f - n \in 1..m /\ f = n + (f - n) /\ f > n
    BY <1>2, <1>3
  <2>2. log'[f] = events[f - n]
    BY <1>2, <2>1
  <2>3. producer'[p].todo[f - n] = f
    BY <1>2, <2>1
  <2>4. f \in Range(producer'[p].todo)
    BY <1>2, <2>1, <2>3 DEF Range
  <2> QED
    BY <2>1, <2>2, <2>4 DEF ByWorker, m
<1>4. ASSUME NEW f \in DOMAIN log
      PROVE  /\ f \in DOMAIN log' /\ f <= n /\ log'[f] = log[f]
             /\ ByWorker(f)' <=> ByWorker(f)
             /\ f \notin Range(producer'[p].todo)
  <2>1. f \in DOMAIN log' /\ f <= n /\ log'[f] = log[f]
    BY <1>2
  <2>2. f \notin Range(producer'[p].todo)
    BY <1>2, <2>1 DEF Range
  <2> QED
    BY <2>1, <2>2 DEF ByWorker
<1>5. Busy' <=> Busy
  BY DEF Busy
<1>6. \A q \in Producer, f \in DOMAIN log : Mine(q, f)' <=> Mine(q, f)
  BY <1>4 DEF Mine
<1>7. \A q \in Producer, f \in DOMAIN log' \ DOMAIN log : Mine(q, f)' <=> q = p
  BY <1>3, ClientWatchAssumption DEF Mine, Worker, Sweeper
<1>8. Range(queue) \subseteq DOMAIN log /\ (Busy => thread.item \in DOMAIN log)
  BY DEF QueueInv, PlacesHoldEvents
<1>9. \A f \in DOMAIN log : Mine(p, f) => log[f].fate # "made"
  <2>1. Range(producer[p].todo) = {}
    BY DEF Range
  <2> QED
    BY <2>1 DEF QueueInv, Places
<1>10. Places'
  <2>1. ASSUME NEW q \in Producer, NEW f \in DOMAIN log', Mine(q, f)'
        PROVE  log'[f].fate = "made" <=> f \in Range(producer'[q].todo)
    <3>1. CASE f \notin DOMAIN log
      BY <1>3, <1>7, <2>1, <3>1
    <3>2. CASE f \in DOMAIN log /\ q = p
      BY <1>4, <1>6, <1>9, <2>1, <3>2
    <3>3. CASE f \in DOMAIN log /\ q # p
      BY <1>2, <1>4, <1>6, <2>1, <3>3 DEF QueueInv, Places
    <3> QED
      BY <3>1, <3>2, <3>3
  <2>2. ASSUME NEW f \in DOMAIN log'
        PROVE  /\ log'[f].fate = "queued" <=> f \in Range(queue')
               /\ log'[f].fate = "taken" <=> Busy' /\ thread'.item = f
    <3>1. CASE f \notin DOMAIN log
      BY <1>3, <1>5, <1>8, <3>1
    <3>2. CASE f \in DOMAIN log
      BY <1>4, <1>5, <3>2 DEF QueueInv, Places
    <3> QED
      BY <3>1, <3>2
  <2> QED
    BY <2>1, <2>2 DEF Places
<1>11. PlacesHoldEvents'
  <2>1. ASSUME NEW q \in Producer, NEW f \in Range(producer'[q].todo)
        PROVE  f \in DOMAIN log' /\ Mine(q, f)'
    <3>1. CASE q = p
      <4>1. PICK i \in 1..m : f = n + i
        <5>1. PICK i \in DOMAIN producer'[p].todo : f = producer'[p].todo[i]
          BY <2>1, <3>1 DEF Range
        <5> QED
          BY <1>2, <5>1
      <4>2. f \in DOMAIN log' \ DOMAIN log
        BY <1>2, <4>1
      <4> QED
        BY <1>7, <3>1, <4>2
    <3>2. CASE q # p
      <4>1. f \in DOMAIN log /\ Mine(q, f)
        BY <1>2, <2>1, <3>2 DEF QueueInv, PlacesHoldEvents
      <4> QED
        BY <1>4, <1>6, <4>1
    <3> QED
      BY <3>1, <3>2
  <2>2. Range(queue') \subseteq DOMAIN log' /\ (Busy' => thread'.item \in DOMAIN log')
    BY <1>4, <1>5, <1>8
  <2> QED
    BY <2>1, <2>2 DEF PlacesHoldEvents
<1>12. InLine'
  <2>1. ASSUME NEW q \in Producer, NEW i \in DOMAIN producer'[q].todo,
               NEW j \in DOMAIN producer'[q].todo, i < j
        PROVE  producer'[q].todo[i] < producer'[q].todo[j]
    <3>1. CASE q = p
      BY <1>2, <2>1, <3>1
    <3>2. CASE q # p
      BY <1>2, <2>1, <3>2 DEF QueueInv, InLine
    <3> QED
      BY <3>1, <3>2
  <2>2. ASSUME NEW i \in DOMAIN queue', NEW j \in DOMAIN queue', i < j,
               SameThread(queue[i], queue[j])'
        PROVE  queue'[i] < queue'[j]
    <3>1. queue[i] \in DOMAIN log /\ queue[j] \in DOMAIN log
      BY <1>8 DEF Range
    <3>2. SameThread(queue[i], queue[j])
      BY <1>4, <2>2, <3>1 DEF SameThread, ByWorker
    <3> QED
      BY <2>2, <3>2 DEF QueueInv, InLine
  <2>3. ASSUME NEW f \in DOMAIN log', NEW g \in DOMAIN log', SameThread(f, g)'
        PROVE  /\ log'[f].fate = "taken" /\ log'[g].fate \in Pending => f <= g
               /\ log'[f].fate = "queued" /\ log'[g].fate = "made" => f < g
    <3>1. CASE f \notin DOMAIN log
      BY <1>3, <3>1
    <3>2. CASE f \in DOMAIN log /\ g \notin DOMAIN log
      <4>1. f <= n /\ n < g
        BY <1>3, <1>4, <3>2
      <4>2. f \in Int /\ g \in Int /\ n \in Int
        BY <1>2
      <4> QED
        BY <4>1, <4>2
    <3>3. CASE f \in DOMAIN log /\ g \in DOMAIN log
      <4>1. SameThread(f, g)
        BY <1>4, <2>3, <3>3 DEF SameThread
      <4> QED
        BY <1>4, <3>3, <4>1 DEF QueueInv, InLine
    <3> QED
      BY <3>1, <3>2, <3>3
  <2>4. \A i, j \in DOMAIN queue' :
          i < j /\ SameThread(queue[i], queue[j])' => queue'[i] < queue'[j]
    BY <2>2
  <2> QED
    BY <2>1, <2>3, <2>4 DEF InLine
<1>13. NotOlder'
  <2>1. \A s \in Subject : heard[s] \in Nat /\ heard[s] <= n
    BY <1>1 DEF QueueInv, NotOlder, n
  <2>2. ASSUME NEW f \in DOMAIN log', log'[f].fate \in Pending
        PROVE  heard'[log'[f].about] <= f
    <3>1. CASE f \in DOMAIN log
      BY <1>4, <2>2, <3>1 DEF QueueInv, NotOlder
    <3>2. CASE f \notin DOMAIN log
      <4>1. log'[f].about \in Subject
        <5>1. log'[f] \in Event
          BY <1>2
        <5> QED
          BY <5>1 DEF Event
      <4>2. heard[log'[f].about] \in Nat /\ heard[log'[f].about] <= n
        BY <2>1, <4>1
      <4>3. f > n /\ f \in Nat
        BY <1>2, <1>3, <3>2
      <4> QED
        BY <1>2, <4>2, <4>3
    <3> QED
      BY <3>1, <3>2
  <2>3. \A s \in Subject : heard'[s] <= Len(log')
    BY <1>2, <2>1
  <2> QED
    BY <2>2, <2>3 DEF NotOlder
<1> QED
  BY <1>10, <1>11, <1>12, <1>13 DEF QueueInv

\* After the end of the process nothing is on its way
LEMMA NothingLeft ==
  ASSUME NotifierInv, QueueInv, ProcessEnds
  PROVE  QueueInv'
<1>1. /\ DOMAIN log' = DOMAIN log /\ Len(log') = Len(log)
      /\ \A i \in DOMAIN log : log'[i].fate \notin Pending
  <2>1. log \in Seq(Event)
    BY NotifierTypes DEF NotifierInv
  <2> QED
    BY <2>1, FatesAtEnd DEF Pending
<1>2. /\ queue' = <<>> /\ Range(queue') = {} /\ UNCHANGED heard
  BY DEF ProcessEnds, Range
<1>3. \A p \in Producer : producer'[p].todo = <<>> /\ Range(producer'[p].todo) = {}
  BY DEF ProcessEnds, Range
<1>4. ~Busy'
  BY DEF ProcessEnds, NoDelivery, Busy
<1>5. Places'
  BY <1>1, <1>2, <1>3, <1>4 DEF Places, Pending
<1>6. PlacesHoldEvents'
  BY <1>2, <1>3, <1>4 DEF PlacesHoldEvents
<1>7. InLine'
  BY <1>1, <1>2, <1>3 DEF InLine, Pending
<1>8. NotOlder'
  BY <1>1, <1>2 DEF NotOlder, QueueInv
<1> QED
  BY <1>5, <1>6, <1>7, <1>8 DEF QueueInv

\* Steps that move no event
LEMMA NothingMoves ==
  ASSUME QueueInv, UNCHANGED <<queue, log, heard>>,
         \A p \in Producer : producer'[p].todo = producer[p].todo,
         UNCHANGED thread \/ (~Busy /\ ~Busy')
  PROVE  QueueInv'
<1>1. (Busy' <=> Busy) /\ (Busy => thread'.item = thread.item)
  BY DEF Busy
<1>2. Places' /\ PlacesHoldEvents'
  BY <1>1 DEF QueueInv, Places, PlacesHoldEvents, Mine, ByWorker
<1>3. InLine' /\ NotOlder'
  BY DEF QueueInv, InLine, NotOlder, SameThread, ByWorker
<1> QED
  BY <1>2, <1>3 DEF QueueInv

\* No sweep reads verdicts while its thread has events to announce; nothing is
\* delivered while the process is down
ThreadsRest ==
  /\ sweep.pc # "idle" => producer[Sweeper].pc = "idle"
  /\ api = "down" => thread.pc = "off"

LEMMA QueueInvInit == Init => QueueInv /\ ThreadsRest
<1> SUFFICES ASSUME Init PROVE QueueInv /\ ThreadsRest
  OBVIOUS
<1>1. /\ queue = <<>> /\ log = <<>> /\ DOMAIN log = {} /\ Len(log) = 0 /\ DOMAIN queue = {}
      /\ heard = [x \in Subject |-> 0] /\ ~Busy /\ sweep.pc = "idle" /\ thread.pc = "off"
      /\ \A p \in Producer : producer[p].todo = <<>>
  BY DEF Init, NotifierInit, NoEvent, NoSweep, NoDelivery, Busy
<1>2. Range(queue) = {} /\ \A p \in Producer : Range(producer[p].todo) = {}
  BY <1>1 DEF Range
<1> QED
  BY <1>1, <1>2 DEF QueueInv, Places, PlacesHoldEvents, InLine, NotOlder, ThreadsRest

\* Every step of enqueue moves at most one event
LEMMA EnqueueMoves ==
  ASSUME NotifierInv, QueueInv, ClientWatchAssumption, WebhookAssumption,
         NEW p \in Producer, enqueue(p)
  PROVE  QueueInv'
<1>1. /\ producer \in Producers /\ producer[p].todo # <<>>
      /\ UNCHANGED <<api, thread, heard>>
  BY NotifierTypes DEF NotifierInv, enqueue, put_nowait, drop_oldest, put_again
<1>2. ASSUME EnqueueReturns(p), NEW fate \in {"queued", "unwanted", "squeezed"},
             log' = [log EXCEPT ![InHand(p)].fate = fate],
             queue' = IF fate = "queued" THEN Append(queue, InHand(p)) ELSE queue
      PROVE  QueueInv'
  BY <1>1, <1>2, HandsOver
<1>3. ASSUME NEW pc \in {"full", "again"}, producer' = [producer EXCEPT ![p].pc = pc]
      PROVE  \A q \in Producer : producer'[q].todo = producer[q].todo
  BY <1>1, <1>3, PcWrite
<1>4. CASE put_nowait(p)
  <2>1. CASE /\ log' = [log EXCEPT ![InHand(p)].fate = "unwanted"]
             /\ EnqueueReturns(p) /\ UNCHANGED queue
    BY <1>2, <2>1
  <2>2. CASE /\ queue' = Append(queue, InHand(p))
             /\ log' = [log EXCEPT ![InHand(p)].fate = "queued"]
             /\ EnqueueReturns(p)
    BY <1>2, <2>2
  <2>3. CASE producer' = [producer EXCEPT ![p].pc = "full"] /\ UNCHANGED <<queue, log>>
    BY <1>1, <1>3, <2>3, NothingMoves
  <2> QED
    BY <1>4, <2>1, <2>2, <2>3 DEF put_nowait
<1>5. CASE drop_oldest(p)
  <2>1. \A q \in Producer : producer'[q].todo = producer[q].todo
    BY <1>3, <1>5 DEF drop_oldest
  <2>2. CASE queue = <<>>
    BY <1>1, <1>5, <2>1, <2>2, NothingMoves DEF drop_oldest
  <2>3. CASE queue # <<>>
    <3>1. queue' = Tail(queue) /\ log' = [log EXCEPT ![Head(queue)].fate = "gone"]
      BY <1>5, <2>3 DEF drop_oldest
    <3> QED
      BY <1>1, <2>1, <2>3, <3>1, HeadLeaves
  <2> QED
    BY <2>2, <2>3
<1>6. CASE put_again(p)
  <2>1. CASE /\ queue' = Append(queue, InHand(p))
             /\ log' = [log EXCEPT ![InHand(p)].fate = "queued"]
    BY <1>2, <1>6, <2>1 DEF put_again
  <2>2. CASE log' = [log EXCEPT ![InHand(p)].fate = "squeezed"] /\ UNCHANGED queue
    BY <1>2, <1>6, <2>2 DEF put_again
  <2> QED
    BY <1>6, <2>1, <2>2 DEF put_again
<1> QED
  BY <1>4, <1>5, <1>6 DEF enqueue

LEMMA NextItemIsFree == thread' = NextItem \/ thread' = NoDelivery("off") => ~Busy'
BY DEF NextItem, NoDelivery, Busy

\* So does every step of the delivery thread
LEMMA DeliverMoves ==
  ASSUME NotifierInv, QueueInv, Deliver
  PROVE  QueueInv'
<1>1. thread \in Deliveries /\ UNCHANGED producer
  BY NotifierTypes DEF NotifierInv, Deliver, Take, RunEnds, Attempt, Backoff
<1>2. CASE Take
  <2>1. ~Busy /\ Busy' /\ thread'.item = Head(queue)
    BY <1>2 DEF Take, Busy
  <2> QED
    BY <1>1, <1>2, <2>1, HeadLeaves DEF Take
<1>3. CASE RunEnds
  <2>1. ~Busy /\ ~Busy'
    BY <1>3, NextItemIsFree DEF RunEnds, Busy
  <2> QED
    BY <1>1, <1>3, <2>1, NothingMoves DEF RunEnds
<1>4. CASE Attempt \/ Backoff
  <2>1. Busy /\ UNCHANGED <<queue, producer>>
    BY <1>4 DEF Attempt, Fails, Backoff, Busy
  <2>2. \/ UNCHANGED heard
        \/ heard' = [heard EXCEPT ![log[thread.item].about] = thread.item]
    BY <1>4 DEF Attempt, Backoff
  <2>3. \/ thread' = NextItem /\ log' = [log EXCEPT ![thread.item].fate = "gone"]
        \/ /\ \/ thread' = [thread EXCEPT !.pc = "backoff"]
              \/ thread' = [thread EXCEPT !.pc = "try", !.attempt = thread.attempt + 1]
           /\ UNCHANGED log
    BY <1>4 DEF Attempt, Fails, Backoff
  <2>4. \/ thread' = [thread EXCEPT !.pc = "backoff"]
        \/ thread' = [thread EXCEPT !.pc = "try", !.attempt = thread.attempt + 1]
        => Busy' /\ thread'.item = thread.item
    BY <1>1 DEF Deliveries, Busy
  <2> QED
    BY <2>1, <2>2, <2>3, <2>4, NextItemIsFree, Settles
<1> QED
  BY <1>2, <1>3, <1>4 DEF Deliver

LEMMA QueueStep ==
  ASSUME TypeInv, QueueInv, ThreadsRest, [Next]_vars
  PROVE  QueueInv' /\ ThreadsRest'
<1>0. /\ NotifierInv /\ ClientWatchAssumption /\ WebhookAssumption
      /\ Sweeper \in Producer /\ Worker \in Producer /\ Sweeper # Worker
      /\ producer \in Producers
  BY TypeParts, NotifierTypes, ClientWatchAssumption, WebhookAssumption
     DEF NotifierInv, Sweeper, Worker
<1>1. CASE UNCHANGED notifier /\ (sweep' = sweep \/ SweeperFree \/ sweep.pc = "committed")
  BY <1>1, NothingMoves DEF notifier, ThreadsRest, SweeperFree
<1>2. CASE check_bypass_transitions
  <2>1. PICK flipped \in SUBSET list_clients, events \in Seq(Event) :
          /\ Announce(Sweeper, events)
          /\ \A i \in 1..Len(events) : events[i].about \in flipped /\ events[i].fate = "made"
    BY <1>2, TransitionsAre
  <2>2. \A i \in 1..Len(events) : events[i].about \notin Job
    BY <2>1, ClientWatchAssumption DEF list_clients
  <2>3. producer[Sweeper].todo = <<>>
    BY <1>0, <1>2 DEF check_bypass_transitions, ThreadsRest, NotifierInv
  <2>4. UNCHANGED <<queue, thread, heard, api>> /\ sweep'.pc = "idle"
    BY <1>2 DEF check_bypass_transitions, NoSweep
  <2>5. QueueInv'
    BY <1>0, <2>1, <2>2, <2>3, <2>4, Enters
  <2> QED
    BY <2>4, <2>5 DEF ThreadsRest
<1>3. ASSUME NEW j \in Job, NEW status \in Ending, finish_job_and_notify(j, status)
      PROVE  QueueInv' /\ ThreadsRest'
  <2> DEFINE events == <<JobEvent(j, status)>>
  <2>1. events \in Seq(Event) /\ Announce(Worker, events)
    BY <1>3, OutcomeEvent
  <2>2. Len(events) = 1 /\ events[1].about = j /\ events[1].fate = "made"
    BY DEF JobEvent
  <2> HIDE DEF events
  <2>3. /\ producer[Worker].todo = <<>> /\ UNCHANGED <<queue, thread, heard, sweep, api>>
    BY <1>0, <1>3 DEF finish_job_and_notify, NotifierInv
  <2>4. \A i \in 1..Len(events) : events[i].about \in Job /\ events[i].fate = "made"
    BY <2>2
  <2>5. QueueInv'
    BY <1>0, <2>1, <2>3, <2>4, Enters
  <2>6. producer'[Sweeper] = producer[Sweeper]
    BY <1>0, <2>1 DEF Announce
  <2> QED
    BY <2>3, <2>5, <2>6 DEF ThreadsRest
<1>4. ASSUME NEW p \in Producer, Enqueues(p) PROVE QueueInv' /\ ThreadsRest'
  <2>1. QueueInv'
    BY <1>0, <1>4, EnqueueMoves DEF Enqueues
  <2>2. p # Sweeper => producer'[Sweeper] = producer[Sweeper]
    <3>1. \A q \in Producer \ {p} : producer'[q] = producer[q]
      <4>1. producer[p].todo # <<>>
        BY <1>0, <1>4 DEF Enqueues, enqueue, put_nowait, drop_oldest, put_again, NotifierInv
      <4>2. CASE EnqueueReturns(p)
        BY <1>0, <4>1, <4>2, EnqueueReturnsIs
      <4>3. ASSUME NEW pc \in {"full", "again"}, producer' = [producer EXCEPT ![p].pc = pc]
            PROVE  \A q \in Producer \ {p} : producer'[q] = producer[q]
        BY <1>0, <4>3, PcWrite
      <4> QED
        BY <1>4, <4>2, <4>3 DEF Enqueues, enqueue, put_nowait, drop_oldest, put_again
    <3> QED
      BY <1>0, <3>1
  <2>3. producer[p].pc # "idle" /\ UNCHANGED <<sweep, api, thread>>
    BY <1>4 DEF Enqueues, enqueue, put_nowait, drop_oldest, put_again
  <2> QED
    BY <2>1, <2>2, <2>3 DEF ThreadsRest
<1>5. CASE Delivers
  <2>1. QueueInv'
    BY <1>0, <1>5, DeliverMoves DEF Delivers
  <2>2. UNCHANGED <<producer, sweep, api>> /\ thread.pc # "off"
    BY <1>5 DEF Delivers, Deliver, Take, RunEnds, Attempt, Backoff
  <2> QED
    BY <2>1, <2>2 DEF ThreadsRest
<1>6. CASE ApiStart \/ ApiStop
  <2>1. /\ UNCHANGED <<queue, log, heard, producer, sweep>>
        /\ UNCHANGED thread \/ (~Busy /\ ~Busy')
        /\ api' # "down"
    BY <1>6 DEF ApiStart, ApiStop, start, stop, NoDelivery, Busy, ThreadsRest
  <2> QED
    BY <2>1, NothingMoves DEF ThreadsRest
<1>7. CASE ApiStopped \/ ApiKill
  <2>1. ProcessEnds /\ sweep'.pc = "idle" /\ thread'.pc = "off"
    BY <1>7 DEF ApiStopped, ApiKill, NoSweep, ProcessEnds, NoDelivery
  <2> QED
    BY <1>0, <2>1, NothingLeft DEF ThreadsRest
<1> QED
  BY <1>1, <1>2, <1>3, <1>4, <1>5, <1>6, <1>7
     DEF Next, vars, Sweeps, store_report, delete_client, ReportAges, TrafficAges,
         FeedMatures, commit_batch, read_bypass_states, StartJob

LEMMA QueueInvariant == Spec => [](TypeInv /\ QueueInv /\ ThreadsRest)
<1>1. TypeInv /\ QueueInv /\ ThreadsRest /\ [Next]_vars
      => TypeInv' /\ QueueInv' /\ ThreadsRest'
  BY TypeInvStep, QueueStep
<1> QED
  BY <1>1, TypeInvInit, QueueInvInit, PTL DEF Spec

\* Only the delivery thread makes the receiver hear anything
LEMMA OnlyAttemptsAreHeard ==
  ASSUME [Next]_vars, heard' # heard
  PROVE  /\ thread.pc = "try"
         /\ heard' = [heard EXCEPT ![log[thread.item].about] = thread.item]
<1>1. CASE Delivers
  BY <1>1 DEF Delivers, Deliver, Take, RunEnds, Attempt, Backoff
<1>2. CASE \E p \in Producer : Enqueues(p)
  BY <1>2 DEF Enqueues, enqueue, put_nowait, drop_oldest, put_again
<1>3. CASE ApiStart \/ ApiStop \/ ApiStopped \/ ApiKill
  BY <1>3 DEF ApiStart, ApiStop, ApiStopped, ApiKill, start, stop, ProcessEnds
<1> QED
  BY <1>1, <1>2, <1>3
     DEF Next, vars, notifier, Sweeps, store_report, delete_client, ReportAges, TrafficAges,
         FeedMatures, commit_batch, read_bypass_states, check_bypass_transitions, StartJob,
         finish_job_and_notify

\* Nothing about a subject reaches the receiver after something newer about it,
\* for any capacity and number of attempts, with full queues, retries, stops and
\* kills (enqueue, _run, _deliver).
THEOREM DeliveredInOrder == Spec => InOrder
<1>1. ASSUME TypeInv, QueueInv, [Next]_vars, heard' # heard, NEW x \in Subject
      PROVE  heard'[x] >= heard[x]
  <2> DEFINE e == thread.item
  <2>1. /\ thread.pc = "try" /\ heard \in [Subject -> Nat]
        /\ heard' = [heard EXCEPT ![log[e].about] = e]
    BY <1>1, OnlyAttemptsAreHeard, TypeParts, NotifierTypes DEF NotifierInv
  <2>2. e \in DOMAIN log /\ log[e].fate = "taken"
    BY <1>1, <2>1 DEF QueueInv, Places, PlacesHoldEvents, Busy
  <2>3. heard[log[e].about] <= e /\ e \in Nat
    <3>1. e \in Nat
      BY <1>1, TypeParts, NotifierTypes DEF NotifierInv, Deliveries
    <3> QED
      BY <1>1, <2>2, <3>1 DEF QueueInv, NotOlder, Pending
  <2> HIDE DEF e
  <2> QED
    BY <2>1, <2>3
<1>2. TypeInv /\ QueueInv /\ [Next]_vars => [\A x \in Subject : heard'[x] >= heard[x]]_heard
  BY <1>1
<1> QED
  BY <1>2, QueueInvariant, PTL DEF Spec, InOrder

-----------------------------------------------------------------------------
(* What becomes of the log.                                                *)

\* e once had its place in the queue
Admitted(e) == log[e].fate \notin {"made", "cut", "unwanted", "squeezed"}

LogStays ==
  /\ DOMAIN log' = DOMAIN log /\ Len(log') = Len(log)
  /\ \A e \in DOMAIN log :
       /\ log'[e].about = log[e].about /\ log'[e].kind = log[e].kind
       /\ Admitted(e) => Admitted(e)'

LogGrows ==
  \E p \in Producer, events \in Seq(Event) :
    /\ \A i \in 1..Len(events) : events[i].fate = "made"
    /\ Announce(p, events)

LEMMA OneFate ==
  ASSUME log \in Seq(Event), NEW e, NEW fate \in Fate,
         log' = [log EXCEPT ![e].fate = fate],
         Admitted(e) => fate \in {"queued", "taken", "gone"}
  PROVE  LogStays
<1>1. FateBecomes(e, fate)
  BY FateWrite
<1> QED
  BY <1>1 DEF FateBecomes, LogStays, Admitted

LEMMA SameLog == UNCHANGED log => LogStays
BY DEF LogStays, Admitted

LEMMA EnqueueLog ==
  ASSUME NotifierInv, QueueInv, NEW p \in Producer, enqueue(p)
  PROVE  LogStays
<1>1. /\ log \in Seq(Event) /\ producer \in Producers /\ producer[p].todo # <<>>
  BY NotifierTypes DEF NotifierInv, enqueue, put_nowait, drop_oldest, put_again
<1>2. ~Admitted(InHand(p))
  <2>1. /\ producer[p].todo \in Seq(Nat) /\ InHand(p) = producer[p].todo[1]
        /\ 1 \in DOMAIN producer[p].todo
    BY <1>1, TailIs DEF InHand, Producers
  <2>2. InHand(p) \in Range(producer[p].todo)
    BY <2>1 DEF Range
  <2> QED
    BY <2>2 DEF QueueInv, Places, PlacesHoldEvents, Admitted
<1>3. CASE UNCHANGED log
  BY <1>3, SameLog
<1>4. ASSUME NEW fate \in {"unwanted", "queued", "squeezed"},
             log' = [log EXCEPT ![InHand(p)].fate = fate]
      PROVE  LogStays
  <2>1. fate \in Fate
    BY DEF Fate
  <2> QED
    BY <1>1, <1>2, <1>4, <2>1, OneFate
<1>5. CASE log' = [log EXCEPT ![Head(queue)].fate = "gone"]
  <2>1. "gone" \in Fate
    BY DEF Fate
  <2> QED
    BY <1>1, <1>5, <2>1, OneFate
<1> QED
  BY <1>3, <1>4, <1>5 DEF enqueue, put_nowait, drop_oldest, put_again

LEMMA DeliverLog ==
  ASSUME NotifierInv, Deliver
  PROVE  LogStays
<1>1. log \in Seq(Event) /\ "taken" \in Fate /\ "gone" \in Fate
  BY NotifierTypes DEF NotifierInv, Fate
<1>2. CASE UNCHANGED log
  BY <1>2, SameLog
<1>3. ASSUME NEW e, NEW fate \in {"taken", "gone"}, log' = [log EXCEPT ![e].fate = fate]
      PROVE  LogStays
  <2>1. fate \in Fate
    BY <1>1
  <2> QED
    BY <1>1, <1>3, <2>1, OneFate
<1> QED
  BY <1>2, <1>3 DEF Deliver, Take, RunEnds, Attempt, Fails, Backoff

\* Which steps announce
LEMMA WhoAnnounces ==
  ASSUME TypeInv, QueueInv, ThreadsRest, [Next]_vars
  PROVE  \/ LogStays
         \/ check_bypass_transitions
         \/ \E j \in Job, status \in Ending : finish_job_and_notify(j, status)
<1>0. NotifierInv
  BY TypeParts
<1>1. CASE UNCHANGED log
  BY <1>1, SameLog
<1>2. CASE Delivers \/ \E p \in Producer : Enqueues(p)
  BY <1>0, <1>2, DeliverLog, EnqueueLog DEF Delivers, Enqueues
<1>3. CASE ApiStopped \/ ApiKill
  <2>1. log \in Seq(Event) /\ ProcessEnds
    BY <1>0, <1>3, NotifierTypes DEF NotifierInv, ApiStopped, ApiKill
  <2>2. LogStays
    BY <2>1, FatesAtEnd DEF LogStays, Admitted
  <2> QED
    BY <2>2
<1> QED
  BY <1>1, <1>2, <1>3
     DEF Next, vars, notifier, Sweeps, store_report, delete_client, ReportAges, TrafficAges,
         FeedMatures, commit_batch, read_bypass_states, StartJob, ApiStart, ApiStop,
         start, stop

\* Events are never changed or taken back, and what was admitted stays so
LEMMA LogGoesOn ==
  ASSUME TypeInv, QueueInv, ThreadsRest, [Next]_vars
  PROVE  LogStays \/ LogGrows
<1>1. CASE check_bypass_transitions
  <2>1. \E events \in Seq(Event) :
          /\ \A i \in 1..Len(events) : events[i].fate = "made"
          /\ Announce(Sweeper, events)
    BY <1>1, TransitionsAre
  <2>2. Sweeper \in Producer
    BY ClientWatchAssumption
  <2> QED
    BY <2>1, <2>2 DEF LogGrows
<1>2. ASSUME NEW j \in Job, NEW status \in Ending, finish_job_and_notify(j, status)
      PROVE  LogGrows
  <2>1. /\ <<JobEvent(j, status)>> \in Seq(Event) /\ Worker \in Producer
        /\ Announce(Worker, <<JobEvent(j, status)>>)
    BY <1>2, OutcomeEvent
  <2>2. \A i \in 1..Len(<<JobEvent(j, status)>>) : <<JobEvent(j, status)>>[i].fate = "made"
    BY DEF JobEvent
  <2> QED
    BY <2>1, <2>2 DEF LogGrows
<1> QED
  BY <1>1, <1>2, WhoAnnounces

LEMMA OldEventsStay ==
  ASSUME NotifierInv, LogStays \/ LogGrows, NEW e \in DOMAIN log
  PROVE  /\ e \in DOMAIN log'
         /\ log'[e].about = log[e].about /\ log'[e].kind = log[e].kind
         /\ Admitted(e) => Admitted(e)'
<1>1. CASE LogStays
  BY <1>1 DEF LogStays
<1>2. CASE LogGrows
  <2>1. PICK p \in Producer, events \in Seq(Event) : Announce(p, events)
    BY <1>2 DEF LogGrows
  <2>2. /\ log \in Seq(Event)
        /\ producer \in [Producer -> [pc : {"idle", "put", "full", "again"}, todo : Seq(Nat)]]
    BY NotifierTypes DEF NotifierInv, Producers
  <2>3. /\ Len(log) \in Nat /\ Len(events) \in Nat /\ DOMAIN log = 1..Len(log)
        /\ DOMAIN log' = 1..(Len(log) + Len(events))
        /\ \A i \in 1..Len(log) : log'[i] = log[i]
    BY <2>1, <2>2, AnnounceIs
  <2>4. e \in DOMAIN log' /\ log'[e] = log[e]
    BY <2>3
  <2> QED
    BY <2>4 DEF Admitted
<1> QED
  BY <1>1, <1>2

-----------------------------------------------------------------------------
(* What is squeezed out.                                                   *)

\* A producer that made room and finds none, finds an event of the other one
\* that got its place
RivalTookRoom ==
  \A p \in Producer : producer[p].pc = "again" /\ Len(queue) >= MAX_QUEUE_SIZE =>
    \E f \in DOMAIN log : Admitted(f) /\ ~Mine(p, f)

Squeezed(e) == e \in DOMAIN log /\ log[e].fate = "squeezed"

\* In every step but the second put_nowait, nothing is squeezed out
LEMMA OtherFate ==
  ASSUME log \in Seq(Event), NEW e, NEW fate \in Fate \ {"squeezed"},
         log' = [log EXCEPT ![e].fate = fate], NEW i, Squeezed(i)'
  PROVE  Squeezed(i)
<1>1. FateBecomes(e, fate)
  BY FateWrite
<1> QED
  BY <1>1 DEF FateBecomes, Squeezed

LEMMA SqueezedByPutAgain ==
  ASSUME TypeInv, [Next]_vars, NEW e, Squeezed(e)', ~Squeezed(e)
  PROVE  \E p \in Producer : /\ put_again(p) /\ Len(queue) >= MAX_QUEUE_SIZE
                             /\ e = InHand(p)
<1>0. /\ log \in Seq(Event) /\ producer \in Producers /\ NotifierInv
      /\ queue \in Seq(Nat) /\ Len(queue) \in Nat /\ MAX_QUEUE_SIZE \in Nat
  BY TypeParts, NotifierTypes, WebhookAssumption DEF NotifierInv
<1>1. ASSUME UNCHANGED log PROVE FALSE
  BY <1>1 DEF Squeezed
<1>2. ASSUME NEW f, NEW fate \in {"unwanted", "queued", "taken", "gone"},
             log' = [log EXCEPT ![f].fate = fate]
      PROVE  FALSE
  <2>1. fate \in Fate \ {"squeezed"}
    BY DEF Fate
  <2> QED
    BY <1>0, <1>2, <2>1, OtherFate
<1>3. ASSUME NEW p \in Producer, NEW events \in Seq(Event), Announce(p, events),
             \A i \in 1..Len(events) : events[i].fate = "made"
      PROVE  FALSE
  <2>1. /\ DOMAIN log' = 1..(Len(log) + Len(events)) /\ DOMAIN log = 1..Len(log)
        /\ Len(log) \in Nat /\ Len(events) \in Nat
        /\ \A i \in 1..Len(log) : log'[i] = log[i]
        /\ \A i \in 1..Len(events) : log'[Len(log) + i] = events[i]
    BY <1>0, <1>3, AnnounceIs DEF Producers
  <2>2. e \in DOMAIN log' /\ log'[e].fate = "squeezed"
    BY DEF Squeezed
  <2>3. CASE e \in DOMAIN log
    BY <2>1, <2>2, <2>3 DEF Squeezed
  <2>4. CASE e \notin DOMAIN log
    <3>1. e - Len(log) \in 1..Len(events) /\ e = Len(log) + (e - Len(log))
      BY <2>1, <2>2, <2>4
    <3> QED
      BY <1>3, <2>1, <2>2, <3>1
  <2> QED
    BY <2>3, <2>4
<1>4. CASE check_bypass_transitions
  <2>1. \E events \in Seq(Event) :
          /\ \A i \in 1..Len(events) : events[i].fate = "made"
          /\ Announce(Sweeper, events)
    BY <1>4, TransitionsAre
  <2>2. Sweeper \in Producer
    BY ClientWatchAssumption
  <2> QED
    BY <1>3, <2>1, <2>2
<1>5. ASSUME NEW j \in Job, NEW status \in Ending, finish_job_and_notify(j, status)
      PROVE  FALSE
  <2>1. /\ <<JobEvent(j, status)>> \in Seq(Event) /\ Worker \in Producer
        /\ Announce(Worker, <<JobEvent(j, status)>>)
    BY <1>5, OutcomeEvent
  <2>2. \A i \in 1..Len(<<JobEvent(j, status)>>) : <<JobEvent(j, status)>>[i].fate = "made"
    BY DEF JobEvent
  <2> QED
    BY <1>3, <2>1, <2>2
<1>6. CASE Delivers
  BY <1>1, <1>2, <1>6 DEF Delivers, Deliver, Take, RunEnds, Attempt, Fails, Backoff
<1>7. ASSUME NEW p \in Producer, enqueue(p)
      PROVE  /\ put_again(p) /\ Len(queue) >= MAX_QUEUE_SIZE
             /\ e = InHand(p)
  <2>1. CASE put_nowait(p)
    <3>1. CASE UNCHANGED log
      BY <1>1, <3>1
    <3>2. ASSUME NEW fate \in {"unwanted", "queued"},
                 log' = [log EXCEPT ![InHand(p)].fate = fate]
          PROVE  FALSE
      BY <1>2, <3>2
    <3> QED
      BY <2>1, <3>1, <3>2 DEF put_nowait
  <2>3. CASE drop_oldest(p)
    <3>1. UNCHANGED log \/ log' = [log EXCEPT ![Head(queue)].fate = "gone"]
      BY <2>3 DEF drop_oldest
    <3>2. CASE UNCHANGED log
      BY <1>1, <3>2
    <3>3. CASE log' = [log EXCEPT ![Head(queue)].fate = "gone"]
      BY <1>2, <3>3
    <3> QED
      BY <3>1, <3>2, <3>3
  <2>2. CASE put_again(p)
    <3>1. Len(queue) >= MAX_QUEUE_SIZE /\ log' = [log EXCEPT ![InHand(p)].fate = "squeezed"]
      BY <1>0, <1>2, <2>2 DEF put_again
    <3>2. FateBecomes(InHand(p), "squeezed")
      <4>1. "squeezed" \in Fate
        BY DEF Fate
      <4> QED
        BY <1>0, <3>1, <4>1, FateWrite
    <3>3. e = InHand(p)
      BY <3>2 DEF FateBecomes, Squeezed
    <3> QED
      BY <2>2, <3>1, <3>3
  <2> QED
    BY <1>7, <2>1, <2>2, <2>3 DEF enqueue
<1>8. CASE ApiStopped \/ ApiKill
  <2>1. ProcessEnds
    BY <1>8 DEF ApiStopped, ApiKill
  <2> QED
    BY <1>0, <2>1, FatesAtEnd DEF Squeezed, Pending
<1> QED
  BY <1>1, <1>4, <1>5, <1>6, <1>7, <1>8
     DEF Next, vars, notifier, Sweeps, store_report, delete_client, ReportAges, TrafficAges,
         FeedMatures, commit_batch, read_bypass_states, StartJob, ApiStart, ApiStop,
         start, stop, Enqueues

\* Who takes the room that another made
LEMMA RivalTakesRoom ==
  ASSUME TypeInv, QueueInv, [Next]_vars, NEW p \in Producer,
         producer'[p].pc = "again", Len(queue') >= MAX_QUEUE_SIZE,
         ~(producer[p].pc = "again" /\ Len(queue) >= MAX_QUEUE_SIZE)
  PROVE  \E q \in Producer \ {p} :
           log' = [log EXCEPT ![InHand(q)].fate = "queued"] /\ producer[q].todo # <<>>
<1>0. /\ producer \in Producers /\ NotifierInv
      /\ queue \in Seq(Nat) /\ Len(queue) \in Nat /\ Len(queue) <= MAX_QUEUE_SIZE
      /\ MAX_QUEUE_SIZE \in Nat \ {0} /\ log \in Seq(Event)
  BY TypeParts, NotifierTypes, WebhookAssumption DEF NotifierInv
<1>1. CASE UNCHANGED producer /\ (UNCHANGED queue \/ (queue # <<>> /\ queue' = Tail(queue)))
  <2>1. queue # <<>> /\ queue' = Tail(queue) => Len(queue') = Len(queue) - 1
    BY <1>0, TailIs
  <2> QED
    BY <1>0, <1>1, <2>1
<1>2. ASSUME NEW q \in Producer, NEW events \in Seq(Event), Announce(q, events),
             UNCHANGED queue
      PROVE  FALSE
  <2>1. /\ \A r \in Producer \ {q} : producer'[r] = producer[r]
        /\ producer'[q].pc = IF events = <<>> THEN "idle" ELSE "put"
    BY <1>0, <1>2, AnnounceIs DEF Producers
  <2> QED
    BY <1>2, <2>1
<1>3. CASE check_bypass_transitions
  <2>1. /\ \E events \in Seq(Event) : Announce(Sweeper, events)
        /\ Sweeper \in Producer /\ UNCHANGED queue
    BY <1>3, TransitionsAre, ClientWatchAssumption DEF check_bypass_transitions
  <2> QED
    BY <1>2, <2>1
<1>4. ASSUME NEW j \in Job, NEW status \in Ending, finish_job_and_notify(j, status)
      PROVE  FALSE
  <2>1. /\ <<JobEvent(j, status)>> \in Seq(Event) /\ Worker \in Producer
        /\ Announce(Worker, <<JobEvent(j, status)>>) /\ UNCHANGED queue
    BY <1>4, OutcomeEvent DEF finish_job_and_notify
  <2> QED
    BY <1>2, <2>1
<1>5. ASSUME NEW q \in Producer, enqueue(q)
      PROVE  /\ q # p /\ log' = [log EXCEPT ![InHand(q)].fate = "queued"]
             /\ producer[q].todo # <<>>
  <2>1. producer[q].todo # <<>>
    BY <1>0, <1>5 DEF NotifierInv, enqueue, put_nowait, drop_oldest, put_again
  <2>2. CASE EnqueueReturns(q)
    <3>1. producer'[q].pc \in {"idle", "put"} /\ \A r \in Producer \ {q} : producer'[r] = producer[r]
      BY <1>0, <2>1, <2>2, EnqueueReturnsIs
    <3>2. q # p /\ producer[p].pc = "again"
      BY <3>1
    <3>3. queue' # queue
      BY <3>2
    <3>4. CASE put_nowait(q)
      BY <2>1, <3>2, <3>3, <3>4 DEF put_nowait
    <3>5. CASE put_again(q)
      BY <2>1, <3>2, <3>3, <3>5 DEF put_again
    <3>6. ~drop_oldest(q)
      <4>1. drop_oldest(q) => producer' = [producer EXCEPT ![q].pc = "again"]
        BY DEF drop_oldest
      <4>2. drop_oldest(q) => producer'[q].pc = "again"
        BY <1>0, <4>1, PcWrite
      <4> QED
        BY <3>1, <4>2
    <3> QED
      BY <1>5, <3>4, <3>5, <3>6 DEF enqueue
  <2>3. CASE producer' = [producer EXCEPT ![q].pc = "full"] /\ UNCHANGED queue
    <3>1. producer'[q].pc = "full" /\ \A r \in Producer \ {q} : producer'[r] = producer[r]
      BY <1>0, <2>3, PcWrite
    <3> QED
      BY <2>3, <3>1
  <2>4. CASE drop_oldest(q)
    <3>1. Len(queue') < MAX_QUEUE_SIZE
      <4>1. CASE queue = <<>>
        BY <1>0, <2>4, <4>1 DEF drop_oldest
      <4>2. CASE queue # <<>>
        <5>1. Len(queue') = Len(queue) - 1
          BY <1>0, <2>4, <4>2, TailIs DEF drop_oldest
        <5> QED
          BY <1>0, <5>1
      <4> QED
        BY <4>1, <4>2
    <3>2. Len(queue') \in Nat
      BY <1>0, <1>5, EnqueueTypes, NotifierTypes, WebhookAssumption DEF NotifierInv
    <3> QED
      BY <1>0, <3>1, <3>2
  <2> QED
    BY <1>5, <2>2, <2>3, <2>4 DEF enqueue, put_nowait, put_again
<1>6. CASE Delivers
  BY <1>1, <1>6 DEF Delivers, Deliver, Take, RunEnds, Attempt, Fails, Backoff
<1>7. CASE ApiStopped \/ ApiKill
  BY <1>7 DEF ApiStopped, ApiKill, ProcessEnds
<1> QED
  BY <1>1, <1>3, <1>4, <1>5, <1>6, <1>7
     DEF Next, vars, notifier, Sweeps, store_report, delete_client, ReportAges, TrafficAges,
         FeedMatures, commit_batch, read_bypass_states, StartJob, ApiStart, ApiStop,
         start, stop, Enqueues

LEMMA RivalStep ==
  ASSUME TypeInv, QueueInv, ThreadsRest, RivalTookRoom, [Next]_vars
  PROVE  RivalTookRoom'
<1>0. NotifierInv /\ log \in Seq(Event) /\ producer \in Producers
      /\ (LogStays \/ LogGrows)
  BY TypeParts, NotifierTypes, LogGoesOn DEF NotifierInv
<1>1. SUFFICES ASSUME NEW p \in Producer, producer'[p].pc = "again",
                      Len(queue') >= MAX_QUEUE_SIZE
               PROVE  \E f \in DOMAIN log' : Admitted(f)' /\ ~Mine(p, f)'
  BY DEF RivalTookRoom
<1>2. CASE producer[p].pc = "again" /\ Len(queue) >= MAX_QUEUE_SIZE
  <2>1. PICK f \in DOMAIN log : Admitted(f) /\ ~Mine(p, f)
    BY <1>2 DEF RivalTookRoom
  <2>2. f \in DOMAIN log' /\ Admitted(f)' /\ ~Mine(p, f)'
    BY <1>0, <2>1, OldEventsStay DEF Mine, ByWorker
  <2> QED
    BY <2>2
<1>3. CASE ~(producer[p].pc = "again" /\ Len(queue) >= MAX_QUEUE_SIZE)
  <2>1. PICK q \in Producer \ {p} :
          log' = [log EXCEPT ![InHand(q)].fate = "queued"] /\ producer[q].todo # <<>>
    BY <1>1, <1>3, RivalTakesRoom
  <2>0. PICK f : f = InHand(q)
    OBVIOUS
  <2>2. f \in DOMAIN log /\ Mine(q, f)
    <3>1. producer[q].todo \in Seq(Nat) /\ producer[q].todo # <<>>
      BY <1>0, <2>1 DEF Producers
    <3>2. f = producer[q].todo[1] /\ 1 \in DOMAIN producer[q].todo
      BY <2>0, <3>1, TailIs DEF InHand
    <3>3. f \in Range(producer[q].todo)
      BY <3>2 DEF Range
    <3> QED
      BY <3>3 DEF QueueInv, PlacesHoldEvents
  <2>3. FateBecomes(f, "queued")
    <3>1. "queued" \in Fate
      BY DEF Fate
    <3> QED
      BY <1>0, <2>0, <2>1, <3>1, FateWrite
  <2>4. ~Mine(p, f)
    BY <2>1, <2>2, ClientWatchAssumption DEF Mine, Sweeper, Worker
  <2>5. f \in DOMAIN log' /\ log'[f].fate = "queued" /\ log'[f].about = log[f].about
    BY <2>2, <2>3 DEF FateBecomes
  <2>6. Admitted(f)' /\ ~Mine(p, f)'
    BY <2>4, <2>5 DEF Admitted, Mine, ByWorker
  <2> QED
    BY <2>5, <2>6
<1> QED
  BY <1>2, <1>3

LEMMA SqueezeStep ==
  ASSUME TypeInv, QueueInv, ThreadsRest, RivalTookRoom, OnlyRivalsSqueeze, [Next]_vars
  PROVE  OnlyRivalsSqueeze'
<1>0. NotifierInv /\ producer \in Producers /\ (LogStays \/ LogGrows)
  BY TypeParts, NotifierTypes, LogGoesOn DEF NotifierInv
<1>1. ASSUME NEW e \in DOMAIN log, NEW f \in DOMAIN log, Admitted(f),
             (log[f].about \in Job) # (log[e].about \in Job)
      PROVE  /\ f \in DOMAIN log' /\ Admitted(f)'
             /\ (log'[f].about \in Job) # (log'[e].about \in Job)
  BY <1>0, <1>1, OldEventsStay
<1>2. SUFFICES ASSUME NEW e, Squeezed(e)'
               PROVE  \E f \in DOMAIN log : /\ e \in DOMAIN log /\ Admitted(f)
                        /\ (log[f].about \in Job) # (log[e].about \in Job)
  BY <1>1 DEF OnlyRivalsSqueeze, Squeezed, Admitted
<1>3. CASE Squeezed(e)
  BY <1>3 DEF Squeezed, OnlyRivalsSqueeze, Admitted
<1>4. CASE ~Squeezed(e)
  <2>1. PICK p \in Producer : /\ put_again(p) /\ Len(queue) >= MAX_QUEUE_SIZE
                              /\ e = InHand(p)
    BY <1>2, <1>4, SqueezedByPutAgain
  <2>2. PICK f \in DOMAIN log : Admitted(f) /\ ~Mine(p, f)
    BY <2>1 DEF put_again, RivalTookRoom
  <2>3. e \in DOMAIN log /\ Mine(p, e)
    <3>1. producer[p].todo \in Seq(Nat) /\ producer[p].todo # <<>>
      BY <1>0, <2>1 DEF Producers, NotifierInv, put_again
    <3>2. e = producer[p].todo[1] /\ 1 \in DOMAIN producer[p].todo
      BY <2>1, <3>1, TailIs DEF InHand
    <3>3. e \in Range(producer[p].todo)
      BY <3>2 DEF Range
    <3> QED
      BY <3>3 DEF QueueInv, PlacesHoldEvents
  <2>4. (log[f].about \in Job) # (log[e].about \in Job)
    BY <2>2, <2>3 DEF Mine, ByWorker
  <2> QED
    BY <2>2, <2>3, <2>4
<1> QED
  BY <1>3, <1>4

\* An event finds no room after room was made for it only when the other thread
\* took that room, for any capacity (enqueue).
THEOREM RivalsSqueeze == Spec => []OnlyRivalsSqueeze
<1>1. Init => RivalTookRoom /\ OnlyRivalsSqueeze
  BY DEF Init, NotifierInit, RivalTookRoom, OnlyRivalsSqueeze
<1>2. TypeInv /\ QueueInv /\ ThreadsRest /\ RivalTookRoom /\ OnlyRivalsSqueeze /\ [Next]_vars
      => RivalTookRoom' /\ OnlyRivalsSqueeze'
  BY RivalStep, SqueezeStep
<1> QED
  BY <1>1, <1>2, QueueInvariant, PTL DEF Spec

-----------------------------------------------------------------------------
(* What is announced of jobs and of clients.                               *)

\* The events about x after some were announced
LEMMA NewEvents ==
  ASSUME NotifierInv, NEW p \in Producer, NEW events \in Seq(Event),
         Announce(p, events), NEW x
  PROVE  /\ \A e \in EventsAbout(x) : e \in EventsAbout(x)' /\ log'[e].kind = log[e].kind
         /\ \A i \in 1..Len(events) : events[i].about = x =>
              /\ Len(log) + i \in EventsAbout(x)'
              /\ log'[Len(log) + i].kind = events[i].kind
              /\ \A e \in EventsAbout(x) : e < Len(log) + i
         /\ \A e \in EventsAbout(x)' \ EventsAbout(x) :
              \E i \in 1..Len(events) : e = Len(log) + i /\ events[i].about = x
<1>1. log \in Seq(Event) /\ producer \in Producers
  BY NotifierTypes DEF NotifierInv
<1>2. /\ DOMAIN log' = 1..(Len(log) + Len(events)) /\ DOMAIN log = 1..Len(log)
      /\ Len(log) \in Nat /\ Len(events) \in Nat
      /\ \A i \in 1..Len(log) : log'[i] = log[i]
      /\ \A i \in 1..Len(events) : log'[Len(log) + i] = events[i]
  BY <1>1, AnnounceIs DEF Producers
<1>3. ASSUME NEW e \in EventsAbout(x)
      PROVE  e \in EventsAbout(x)' /\ log'[e].kind = log[e].kind
  BY <1>2 DEF EventsAbout
<1>4. ASSUME NEW i \in 1..Len(events), events[i].about = x
      PROVE  /\ Len(log) + i \in EventsAbout(x)'
             /\ log'[Len(log) + i].kind = events[i].kind
             /\ \A e \in EventsAbout(x) : e < Len(log) + i
  BY <1>2, <1>4 DEF EventsAbout
<1>5. ASSUME NEW e \in EventsAbout(x)', e \notin EventsAbout(x)
      PROVE  \E i \in 1..Len(events) : e = Len(log) + i /\ events[i].about = x
  <2>1. e \in DOMAIN log' /\ log'[e].about = x /\ e \notin DOMAIN log
    BY <1>2, <1>5 DEF EventsAbout
  <2>2. e - Len(log) \in 1..Len(events) /\ e = Len(log) + (e - Len(log))
    BY <1>2, <2>1
  <2> QED
    BY <1>2, <2>1, <2>2
<1> QED
  BY <1>3, <1>4, <1>5

LEMMA SameEventsAbout ==
  ASSUME LogStays, NEW x
  PROVE  EventsAbout(x)' = EventsAbout(x) /\ \A e \in EventsAbout(x) : log'[e].kind = log[e].kind
BY DEF LogStays, EventsAbout

\* The one event about a job, if there is one, tells an outcome: no job leaves it
OutcomeInv ==
  \A j \in Job :
    /\ \A e, f \in EventsAbout(j) : e = f
    /\ \A e \in EventsAbout(j) : log[e].kind = jobs[j] /\ jobs[j] \in Outcome

LEMMA OutcomeStep ==
  ASSUME TypeInv, QueueInv, ThreadsRest, OutcomeInv, [Next]_vars
  PROVE  OutcomeInv'
<1>0. NotifierInv /\ jobs \in [Job -> {"none", "running"} \cup Outcome]
  BY TypeParts DEF OtherTypes
<1>1. SUFFICES ASSUME NEW j \in Job
               PROVE  /\ \A e, f \in EventsAbout(j)' : e = f
                      /\ \A e \in EventsAbout(j)' : log'[e].kind = jobs'[j] /\ jobs'[j] \in Outcome
  BY DEF OutcomeInv, Outcome
<1>2. jobs[j] \in Outcome => jobs'[j] = jobs[j]
  BY <1>0
     DEF Outcome, Next, vars, Sweeps, store_report, delete_client, ReportAges, TrafficAges,
         FeedMatures, commit_batch, read_bypass_states, check_bypass_transitions, Delivers,
         StartJob, finish_job_and_notify, Enqueues, ApiStart, ApiStop, ApiStopped, ApiKill
<1>3. ASSUME EventsAbout(j)' = EventsAbout(j),
             \A e \in EventsAbout(j) : log'[e].kind = log[e].kind
      PROVE  /\ \A e, f \in EventsAbout(j)' : e = f
             /\ \A e \in EventsAbout(j)' : log'[e].kind = jobs'[j] /\ jobs'[j] \in Outcome
  BY <1>2, <1>3 DEF OutcomeInv
<1>4. CASE LogStays
  BY <1>3, <1>4, SameEventsAbout
<1>5. ASSUME NEW p \in Producer, NEW events \in Seq(Event), Announce(p, events),
             \A i \in 1..Len(events) : events[i].about # j
      PROVE  /\ EventsAbout(j)' = EventsAbout(j)
             /\ \A e \in EventsAbout(j) : log'[e].kind = log[e].kind
  <2>1. /\ \A e \in EventsAbout(j) : e \in EventsAbout(j)' /\ log'[e].kind = log[e].kind
        /\ \A e \in EventsAbout(j)' \ EventsAbout(j) :
             \E i \in 1..Len(events) : e = Len(log) + i /\ events[i].about = j
    BY <1>0, <1>5, NewEvents
  <2> QED
    BY <1>5, <2>1
<1>6. CASE check_bypass_transitions
  <2>1. PICK flipped \in SUBSET list_clients, events \in Seq(Event) :
          /\ Announce(Sweeper, events)
          /\ \A i \in 1..Len(events) : events[i].about \in flipped
    BY <1>6, TransitionsAre
  <2>2. \A i \in 1..Len(events) : events[i].about # j
    BY <2>1, ClientWatchAssumption DEF list_clients
  <2>3. Sweeper \in Producer
    BY ClientWatchAssumption
  <2> QED
    BY <1>3, <1>5, <2>1, <2>2, <2>3
<1>7. ASSUME NEW i \in Job, NEW status \in Ending, finish_job_and_notify(i, status)
      PROVE  /\ \A e, f \in EventsAbout(j)' : e = f
             /\ \A e \in EventsAbout(j)' : log'[e].kind = jobs'[j] /\ jobs'[j] \in Outcome
  <2> DEFINE events == <<JobEvent(i, status)>>
  <2>1. /\ events \in Seq(Event) /\ Announce(Worker, events) /\ Worker \in Producer
        /\ status \in Outcome
    BY <1>7, OutcomeEvent
  <2>2. Len(events) = 1 /\ events[1].about = i /\ events[1].kind = status
    BY DEF JobEvent
  <2> HIDE DEF events
  <2>3. CASE i # j
    BY <1>3, <1>5, <2>1, <2>2, <2>3
  <2>4. CASE i = j
    <3>1. jobs[j] = "running" /\ jobs'[j] = status
      BY <1>0, <1>7, <2>4 DEF finish_job_and_notify
    <3>2. EventsAbout(j) = {}
      BY <3>1 DEF OutcomeInv, Outcome
    <3>3. \A e \in EventsAbout(j)' : e = Len(log) + 1
      BY <1>0, <2>1, <2>2, <3>2, NewEvents
    <3>4. log'[Len(log) + 1].kind = status
      <4>1. 1 \in 1..Len(events) /\ events[1].about = j
        BY <2>2, <2>4
      <4> QED
        BY <1>0, <2>1, <2>2, <4>1, NewEvents
    <3> QED
      BY <2>1, <3>1, <3>3, <3>4
  <2> QED
    BY <2>3, <2>4
<1> QED
  BY <1>4, <1>6, <1>7, WhoAnnounces

\* Of a job at most one thing is ever announced and it is the outcome the job has
\* for good, for any interleaving of sweeps, stops, kills and recoveries
\* (finish_job_and_notify).
THEOREM OutcomeAnnounced == Spec => []OutcomeIsAnnounced
<1>1. Init => OutcomeInv
  BY DEF Init, NotifierInit, OutcomeInv, EventsAbout
<1>2. OutcomeInv => OutcomeIsAnnounced
  <2>1. ASSUME OutcomeInv, NEW j \in Job PROVE Cardinality(EventsAbout(j)) <= 1
    <3>1. CASE EventsAbout(j) = {}
      BY <3>1, FS_EmptySet
    <3>2. CASE EventsAbout(j) # {}
      <4>1. PICK e : EventsAbout(j) = {e}
        BY <2>1, <3>2 DEF OutcomeInv
      <4> QED
        BY <4>1, FS_Singleton
    <3> QED
      BY <3>1, <3>2
  <2> QED
    BY <2>1 DEF OutcomeInv, OutcomeIsAnnounced
<1>3. TypeInv /\ QueueInv /\ ThreadsRest /\ OutcomeInv /\ [Next]_vars => OutcomeInv'
  BY OutcomeStep
<1> QED
  BY <1>1, <1>2, <1>3, QueueInvariant, PTL DEF Spec

\* The newest of some events
LEMMA NewestIs ==
  ASSUME NEW S, S \subseteq Nat, NEW m \in S, \A e \in S : e <= m
  PROVE  Max(S) = m
<1>1. \A e \in S : e >= m => e = m
  OBVIOUS
<1> QED
  BY <1>1 DEF Max

LEMMA NewestAboutIs ==
  ASSUME log \in Seq(Event), NEW x, EventsAbout(x) # {}
  PROVE  NewestAbout(x) \in EventsAbout(x)
<1>1. EventsAbout(x) \subseteq 1..Len(log) /\ Len(log) \in Nat
  BY DEF EventsAbout
<1>2. EventsAbout(x) \subseteq Nat /\ IsFiniteSet(EventsAbout(x))
  <2>1. EventsAbout(x) \subseteq Nat
    BY <1>1
  <2>2. IsFiniteSet(1..Len(log))
    BY <1>1, FS_Interval
  <2> QED
    BY <1>1, <2>1, <2>2, FS_Subset
<1>3. PICK m \in EventsAbout(x) : \A e \in EventsAbout(x) : e <= m
  BY <1>2, FiniteSetHasMax
<1> QED
  BY <1>2, <1>3, NewestIs DEF NewestAbout

\* The newest event about c tells its verdict
Told(c) == verdict[c] = "suspected" <=>
             EventsAbout(c) # {} /\ log[NewestAbout(c)].kind = "suspected"

LEMMA VerdictStep ==
  ASSUME TypeInv, QueueInv, ThreadsRest, VerdictIsAnnounced, [Next]_vars
  PROVE  VerdictIsAnnounced'
<1>0. /\ NotifierInv /\ log \in Seq(Event) /\ log' \in Seq(Event)
      /\ verdict \in [Client -> {"none", "clear", "suspected"}]
      /\ Sweeper \in Producer
  BY TypeParts, TypeInvStep, NotifierTypes, ClientWatchAssumption
     DEF NotifierInv, ClientTypes, TypeInv, NotifierTypeOK
<1>1. SUFFICES ASSUME NEW c \in Client, c \notin forgotten' PROVE Told(c)'
  BY DEF VerdictIsAnnounced, Told
<1>2. c \notin forgotten => Told(c)
  BY DEF VerdictIsAnnounced, Told
<1>3. ASSUME EventsAbout(c)' = EventsAbout(c), c \notin forgotten,
             \A e \in EventsAbout(c) : log'[e].kind = log[e].kind,
             verdict'[c] = verdict[c]
      PROVE  Told(c)'
  <2>1. NewestAbout(c)' = NewestAbout(c)
    BY <1>3 DEF NewestAbout
  <2>2. EventsAbout(c) # {} => NewestAbout(c) \in EventsAbout(c)
    BY <1>0, NewestAboutIs
  <2>3. Told(c)
    BY <1>2, <1>3
  <2> QED
    BY <1>3, <2>1, <2>2, <2>3 DEF Told
<1>4. ASSUME NEW p \in Producer, NEW events \in Seq(Event), Announce(p, events),
             \A i \in 1..Len(events) : events[i].about # c
      PROVE  /\ EventsAbout(c)' = EventsAbout(c)
             /\ \A e \in EventsAbout(c) : log'[e].kind = log[e].kind
  <2>1. /\ \A e \in EventsAbout(c) : e \in EventsAbout(c)' /\ log'[e].kind = log[e].kind
        /\ \A e \in EventsAbout(c)' \ EventsAbout(c) :
             \E i \in 1..Len(events) : e = Len(log) + i /\ events[i].about = c
    BY <1>0, <1>4, NewEvents
  <2> QED
    BY <1>4, <2>1
<1>5. CASE check_bypass_transitions
  <2>1. PICK flipped \in SUBSET list_clients, events \in Seq(Event) :
          /\ Announce(Sweeper, events)
          /\ verdict' = written_verdicts(flipped)
          /\ forgotten' = forgotten \ flipped
          /\ \A i \in 1..Len(events) :
               /\ events[i].about \in flipped
               /\ events[i].kind = IF bypass_suspected(events[i].about)
                                   THEN "suspected" ELSE "resolved"
          /\ \A b \in flipped : \E i \in 1..Len(events) : events[i].about = b
          /\ \A i, j \in 1..Len(events) : events[i].about = events[j].about => i = j
    BY <1>5, TransitionsAre
  <2>2. CASE c \notin flipped
    <3>1. c \notin forgotten
      BY <1>1, <2>1, <2>2
    <3>2. verdict'[c] = verdict[c]
      BY <2>1, <2>2 DEF written_verdicts
    <3>3. \A i \in 1..Len(events) : events[i].about # c
      BY <2>1, <2>2
    <3> QED
      BY <1>0, <1>3, <1>4, <2>1, <3>1, <3>2, <3>3
  <2>3. CASE c \in flipped
    <3>1. PICK i \in 1..Len(events) : events[i].about = c
      BY <2>1, <2>3
    <3> DEFINE e == Len(log) + i
    <3>2. /\ e \in EventsAbout(c)' /\ log'[e].kind = events[i].kind
          /\ \A f \in EventsAbout(c) : f < e
          /\ \A f \in EventsAbout(c)' \ EventsAbout(c) :
               \E k \in 1..Len(events) : f = Len(log) + k /\ events[k].about = c
      BY <1>0, <2>1, <3>1, NewEvents
    <3>3. EventsAbout(c)' \subseteq Nat /\ e \in Nat
      BY <1>0, <3>1 DEF EventsAbout
    <3>4. \A f \in EventsAbout(c)' \ EventsAbout(c) : f = e
      BY <2>1, <3>1, <3>2
    <3> HIDE DEF e
    <3>5. \A f \in EventsAbout(c)' : f <= e
      BY <3>2, <3>3, <3>4
    <3>6. NewestAbout(c)' = e
      BY <3>2, <3>3, <3>5, NewestIs DEF NewestAbout
    <3>7. verdict'[c] = IF bypass_suspected(c) THEN "suspected" ELSE "clear"
      BY <2>1, <2>3 DEF written_verdicts
    <3>8. log'[e].kind = IF bypass_suspected(c) THEN "suspected" ELSE "resolved"
      BY <2>1, <3>1, <3>2
    <3> QED
      BY <3>2, <3>6, <3>7, <3>8 DEF Told
  <2> QED
    BY <2>2, <2>3
<1>6. ASSUME NEW j \in Job, NEW status \in Ending, finish_job_and_notify(j, status)
      PROVE  Told(c)'
  <2> DEFINE events == <<JobEvent(j, status)>>
  <2>1. events \in Seq(Event) /\ Announce(Worker, events) /\ Worker \in Producer
    BY <1>6, OutcomeEvent
  <2>2. Len(events) = 1 /\ events[1].about = j
    BY DEF JobEvent
  <2> HIDE DEF events
  <2>3. \A i \in 1..Len(events) : events[i].about # c
    BY <2>2, ClientWatchAssumption
  <2>4. UNCHANGED <<verdict, forgotten>>
    BY <1>6 DEF finish_job_and_notify, clients
  <2> QED
    BY <1>1, <1>3, <1>4, <2>1, <2>3, <2>4
<1>7. ASSUME LogStays, ~check_bypass_transitions PROVE Told(c)'
  <2>1. c \notin forgotten /\ verdict'[c] = verdict[c]
    <3>1. ASSUME NEW b \in Client, delete_client(b)
          PROVE  c \notin forgotten /\ verdict'[c] = verdict[c]
      BY <1>0, <1>1, <3>1 DEF delete_client
    <3>2. CASE UNCHANGED <<verdict, forgotten>>
      BY <1>1, <3>2
    <3> QED
      BY <1>7, <3>1, <3>2
         DEF Next, vars, clients, Sweeps, store_report, ReportAges, TrafficAges,
             FeedMatures, commit_batch, read_bypass_states, Delivers, StartJob,
             finish_job_and_notify, Enqueues, ApiStart, ApiStop, ApiStopped, ApiKill
  <2> QED
    BY <1>3, <1>7, <2>1, SameEventsAbout
<1> QED
  BY <1>5, <1>6, <1>7, WhoAnnounces

\* The newest event about a client that was not deleted since says what its
\* committed verdict says, for any clients, reports, traffic, stops and kills
\* (check_bypass_transitions).
THEOREM VerdictAnnounced == Spec => []VerdictIsAnnounced
<1>1. Init => VerdictIsAnnounced
  BY DEF Init, NotifierInit, VerdictIsAnnounced, EventsAbout
<1>2. TypeInv /\ QueueInv /\ ThreadsRest /\ VerdictIsAnnounced /\ [Next]_vars
      => VerdictIsAnnounced'
  BY VerdictStep
<1> QED
  BY <1>1, <1>2, QueueInvariant, PTL DEF Spec
=============================================================================
