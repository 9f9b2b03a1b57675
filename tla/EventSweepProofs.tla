-------------------------- MODULE EventSweepProofs --------------------------
(***************************************************************************)
(* The cache-event sweep for every number of lines, batch size, cap and    *)
(* number of crashes and rotations: types, exactly-once counting, no line  *)
(* lost unaccounted for, no miss forgotten.                                *)
(***************************************************************************)
EXTENDS EventSweep, SequenceTheorems, WellFoundedInduction, TLAPS

USE EventSweepAssumption

-----------------------------------------------------------------------------
(* The ends of a set of places.                                            *)

\* Every set of naturals that is not empty has a least element
LEMMA LeastElement ==
  ASSUME NEW S, S \subseteq Nat, S # {}
  PROVE  \E i \in S : \A j \in S : i <= j
<1> DEFINE R == OpToRel(<, Nat)
<1>1. IsWellFoundedOn(R, Nat)
  BY NatLessThanWellFounded
<1>2. PICK i \in S : \A j \in S : ~ (<<j, i>> \in R)
  <2> HIDE DEF R
  <2> QED
    BY <1>1, WFMin
<1>3. ASSUME NEW j \in S PROVE i <= j
  <2>1. <<j, i>> \in Nat \X Nat /\ ~(<<j, i>> \in R)
    BY <1>2
  <2>2. ~(j < i)
    BY <2>1 DEF OpToRel
  <2> QED
    BY <2>2
<1> QED
  BY <1>3

\* and one that is bounded has a greatest
LEMMA GreatestElement ==
  ASSUME NEW n \in Nat, NEW S, S \subseteq 0..n, S # {}
  PROVE  \E i \in S : \A j \in S : j <= i
<1> DEFINE T == {n - i : i \in S}
<1>1. T \subseteq Nat /\ T # {}
  <2>1. \A i \in S : n - i \in Nat
    OBVIOUS
  <2>2. PICK i \in S : TRUE
    OBVIOUS
  <2> QED
    BY <2>1, <2>2
<1>2. PICK k \in T : \A j \in T : k <= j
  BY <1>1, LeastElement
<1>3. PICK i \in S : k = n - i
  BY <1>2
<1>4. ASSUME NEW j \in S PROVE j <= i
  <2>1. n - j \in T /\ i \in Nat /\ j \in Nat
    OBVIOUS
  <2>2. n - i <= n - j
    BY <1>2, <1>3, <2>1
  <2> QED
    BY <2>1, <2>2
<1> QED
  BY <1>4

LEMMA NewestIs ==
  ASSUME NEW n \in Nat, NEW S, S \subseteq 0..n, S # {}
  PROVE  Newest(S) \in S /\ \A j \in S : j <= Newest(S)
BY GreatestElement DEF Newest

LEMMA OldestIs ==
  ASSUME NEW S, S \subseteq Nat, S # {}
  PROVE  Oldest(S) \in S /\ \A j \in S : Oldest(S) <= j
BY LeastElement DEF Oldest

-----------------------------------------------------------------------------
(* Types.                                                                  *)

\* An append, place by place
LEMMA AppendIs ==
  ASSUME NEW T, NEW s \in Seq(T), NEW x \in T
  PROVE  /\ Append(s, x) \in Seq(T)
         /\ Len(s) \in Nat /\ Len(Append(s, x)) = Len(s) + 1
         /\ DOMAIN s = 1..Len(s) /\ DOMAIN Append(s, x) = 1..(Len(s) + 1)
         /\ \A i \in 1..Len(s) : Append(s, x)[i] = s[i] /\ s[i] \in T
         /\ Append(s, x)[Len(s) + 1] = x
OBVIOUS

\* Where the cursor goes is a place of the log, the end of a line, or where it
\* started
LEMMA NewCursorIs ==
  ASSUME log \in Seq(Chunk), cursor \in Nat
  PROVE  /\ Start \in Nat /\ new_cursor \in Nat /\ Start <= new_cursor
         /\ \/ new_cursor = Start /\ (Ends(Window) = {})
            \/ /\ new_cursor \in Ends(Window)
               /\ \A i \in Ends(Window) : i <= new_cursor
            \/ /\ Ends(Window) = {} /\ Start + MaxBatch < new_cursor
               /\ new_cursor \in DOMAIN log /\ log[new_cursor].end
               /\ \A i \in Ends(Beyond) : new_cursor <= i
<1>1. /\ Len(log) \in Nat /\ DOMAIN log = 1..Len(log) /\ Start \in Nat
      /\ MaxBatch \in Nat
  BY DEF Start
<1>2. CASE Ends(Window) # {}
  <2>1. Ends(Window) \subseteq 0..Len(log)
    BY <1>1 DEF Ends, Window
  <2>2. new_cursor = Newest(Ends(Window))
    BY <1>2 DEF new_cursor
  <2>3. new_cursor \in Ends(Window) /\ \A i \in Ends(Window) : i <= new_cursor
    BY <1>1, <1>2, <2>1, <2>2, NewestIs
  <2>4. new_cursor \in Nat /\ Start < new_cursor
    BY <1>1, <2>3 DEF Ends, Window
  <2> QED
    BY <1>1, <2>3, <2>4
<1>3. CASE Ends(Window) = {} /\ Full /\ Ends(Beyond) # {}
  <2>1. Ends(Beyond) \subseteq Nat
    BY <1>1 DEF Ends, Beyond
  <2>2. new_cursor = Oldest(Ends(Beyond))
    BY <1>3 DEF new_cursor
  <2>3. new_cursor \in Ends(Beyond) /\ \A i \in Ends(Beyond) : new_cursor <= i
    BY <1>3, <2>1, <2>2, OldestIs
  <2>4. /\ new_cursor \in DOMAIN log /\ log[new_cursor].end
        /\ new_cursor \in Nat /\ Start + MaxBatch < new_cursor
    BY <1>1, <2>3 DEF Ends, Beyond
  <2> QED
    BY <1>1, <1>3, <2>3, <2>4
<1>4. CASE Ends(Window) = {} /\ ~(Full /\ Ends(Beyond) # {})
  <2>1. new_cursor = Start
    BY <1>4 DEF new_cursor
  <2> QED
    BY <1>1, <1>4, <2>1
<1> QED
  BY <1>2, <1>3, <1>4

\* vault-core is inside a line only when it has begun one
Types == TypeOK /\ (open > 0 => lines # <<>>)

LEMMA InitTypes == Init => Types
BY DEF Init, Types, TypeOK, NoSweep, Sweep, NoApp, Fate

\* What lies in the log, place by place
LEMMA PlaceType ==
  ASSUME log \in Seq(Chunk)
  PROVE  /\ Len(log) \in Nat /\ DOMAIN log = 1..Len(log)
         /\ \A i \in DOMAIN log : /\ log[i].line \in LineId
                                  /\ log[i].part \in Nat \ {0}
                                  /\ log[i].end \in BOOLEAN
<1>1. \A i \in DOMAIN log : log[i] \in Chunk
  OBVIOUS
<1> QED
  BY <1>1 DEF Chunk

LEMMA LinesType ==
  ASSUME log \in Seq(Chunk), NEW S, S \subseteq DOMAIN log
  PROVE  LinesIn(S) \subseteq LineId /\ Uncounted(S) \subseteq LineId
         /\ WholeIn(S) \subseteq LineId
<1>1. LinesIn(S) \subseteq LineId
  BY PlaceType DEF LinesIn
<1> QED
  BY <1>1 DEF Uncounted, WholeIn

\* A step spends at most one of a bound
LEMMA SpendType ==
  ASSUME used \in [{"crash", "rotation", "expiry"} -> Nat],
         NEW k \in {"crash", "rotation", "expiry"}, Spend(k)
  PROVE  used' \in [{"crash", "rotation", "expiry"} -> Nat]
BY DEF Spend

\* An emptied log and its history
LEMMA EmptiedType ==
  ASSUME TypeOK, Emptied
  PROVE  log' \in Seq(Chunk) /\ file' \in [log : Nat, cursor : Nat] /\ fate' \in Fate
<1>1. Uncounted(DOMAIN log) \subseteq LineId
  BY LinesType DEF TypeOK
<1>2. fate' = [fate EXCEPT !.gone = fate.gone \cup Uncounted(DOMAIN log)]
  BY DEF Emptied
<1>3. fate' \in Fate
  BY <1>1, <1>2 DEF TypeOK, Fate
<1>4. file' \in [log : Nat, cursor : Nat]
  <2>1. file.log \in Nat /\ file \in [log : Nat, cursor : Nat]
    BY DEF TypeOK
  <2>2. file.log + 1 \in Nat
    BY <2>1
  <2>3. file' = [file EXCEPT !.log = file.log + 1]
    BY DEF Emptied
  <2> QED
    BY <2>1, <2>2, <2>3
<1> QED
  BY <1>3, <1>4 DEF Emptied

LEMMA MissesType ==
  ASSUME TypeOK
  PROVE  \A a : MissesOf(a) \subseteq LineId
BY DEF TypeOK, MissesOf, Sweep

LEMMA StepTypes == Types /\ [Next]_vars => Types'
<1> SUFFICES ASSUME Types, [Next]_vars PROVE Types'
  OBVIOUS
<1> USE DEF Types, TypeOK
<1>0. NoSweep \in Sweep /\ sweep \in Sweep
  BY DEF NoSweep, Sweep, NoApp
<1>1. ASSUME NEW kind \in Kind, BeginLine(kind) PROVE Types'
  <2>1. PICK end \in BOOLEAN : Append_(Len(lines) + 1, 1, end)
    BY <1>1 DEF BeginLine
  <2>2. /\ lines' \in Seq(Kind) /\ Len(lines') = Len(lines) + 1
        /\ Len(lines) + 1 \in LineId
    BY SMTT(30), <1>1, AppendIs DEF BeginLine, LineId
  <2>3. [line |-> Len(lines) + 1, part |-> 1, end |-> end] \in Chunk
    BY <2>2 DEF Chunk
  <2>4. log' \in Seq(Chunk) /\ open' \in Nat
    BY <2>1, <2>3, AppendIs DEF Append_
  <2> QED
    BY SMTT(30), <1>1, <2>2, <2>4 DEF BeginLine, LineId
<1>2. CASE ContinueLine
  <2>1. PICK end \in BOOLEAN : Append_(Len(lines), open + 1, end)
    BY <1>2 DEF ContinueLine
  <2>2. log' \in Seq(Chunk) /\ open' \in Nat /\ lines # <<>>
    <3>1. Len(lines) \in LineId /\ lines # <<>>
      BY <1>2 DEF LineId, ContinueLine
    <3>2. [line |-> Len(lines), part |-> open + 1, end |-> end] \in Chunk
      BY <3>1 DEF Chunk
    <3> QED
      BY <2>1, <3>1, <3>2, AppendIs DEF Append_
  <2> QED
    BY <1>2, <2>2 DEF ContinueLine
<1>3. CASE Rotate
  BY <1>3, SpendType, EmptiedType DEF Rotate
<1>4. ASSUME NEW a \in App, EnqueueElsewhere(a) \/ JobEnds(a) PROVE Types'
  <2>1. app' \in [App -> [job : BOOLEAN, cooldown : BOOLEAN, current : BOOLEAN]]
    <3>1. CASE EnqueueElsewhere(a)
      BY <3>1 DEF EnqueueElsewhere
    <3>2. CASE JobEnds(a)
      <4>1. PICK current \in BOOLEAN :
              app' = [app EXCEPT ![a].job = FALSE, ![a].current = current]
        BY <3>2 DEF JobEnds
      <4> QED
        BY ZenonT(60), <4>1
    <3> QED
      BY <1>4, <3>1, <3>2
  <2> QED
    BY <1>4, <2>1 DEF EnqueueElsewhere, JobEnds
<1>5. ASSUME NEW a \in App, Ages(a) PROVE Types'
  <2>1. app' \in [App -> [job : BOOLEAN, cooldown : BOOLEAN, current : BOOLEAN]]
    <3>1. CASE app' = [app EXCEPT ![a].cooldown = FALSE]
      BY <3>1
    <3>2. CASE app' = [app EXCEPT ![a].current = FALSE]
      BY <3>2
    <3> QED
      BY <1>5, <3>1, <3>2 DEF Ages
  <2>2. used' \in [{"crash", "rotation", "expiry"} -> Nat]
    BY <1>5, SpendType DEF Ages
  <2> QED
    BY <1>5, <2>1, <2>2 DEF Ages
<1>6. CASE IntervalElapses
  BY <1>6 DEF IntervalElapses
<1>7. CASE claim_sweep
  <2>1. sweep' \in Sweep
    BY <1>7 DEF claim_sweep, NoSweep, Sweep, NoApp
  <2> QED
    BY <1>7, <2>1 DEF claim_sweep
<1>8. CASE read_batch
  <2>1. new_cursor \in Nat
    BY NewCursorIs
  <2>2. WholeIn({i \in Window : i <= new_cursor}) \subseteq LineId
    BY LinesType DEF Window
  <2>3. sweep' \in Sweep
    BY <1>8, <2>1, <2>2 DEF read_batch, Sweep, Then
  <2>4. Uncounted({i \in DOMAIN log : i <= Start}) \subseteq LineId
    BY LinesType
  <2>5. fate' \in Fate
    BY <1>8, <2>4 DEF read_batch, Fate
  <2> QED
    BY <1>8, <2>3, <2>5 DEF read_batch
<1>9. ASSUME NEW a \in App, Capped(a) PROVE Types'
  <2>1. sweep' \in Sweep
    BY <1>0, <1>9 DEF Capped, Sweep
  <2>2. fate' \in Fate
    BY <1>9, MissesType DEF Capped, Fate
  <2> QED
    BY <1>9, <2>1, <2>2 DEF Capped
<1>10. ASSUME NEW a \in App, TriggerGuards(a) PROVE Types'
  <2>1. sweep' \in Sweep
    <3>1. CASE sweep' = [sweep EXCEPT !.todo = @ \ {a}]
      BY <1>0, <3>1 DEF Sweep
    <3>2. CASE sweep' = [sweep EXCEPT !.todo = @ \ {a}, !.pc = "enqueue", !.cur = a,
                                      !.triggered = @ + 1]
      <4>1. sweep.triggered + 1 \in Nat
        <5>1. sweep.triggered \in Nat
          BY <1>0 DEF Sweep
        <5> QED
          BY SMTT(30), <5>1
      <4> QED
        BY <1>0, <3>2, <4>1 DEF Sweep
    <3> QED
      BY <1>10, <3>1, <3>2 DEF TriggerGuards
  <2>2. fate' \in Fate
    <3>1. CASE fate' = fate
      BY <3>1
    <3>2. CASE fate' = [fate EXCEPT !.answered = @ \cup MissesOf(a)]
      BY <3>2, MissesType DEF Fate
    <3> QED
      BY <1>10, <3>1, <3>2 DEF TriggerGuards
  <2> QED
    BY <1>10, <2>1, <2>2 DEF TriggerGuards
<1>11. CASE enqueue_prefill
  <2>1. sweep' \in Sweep
    BY <1>0, <1>11 DEF enqueue_prefill, Sweep
  <2>2. fate' \in Fate
    BY <1>11, MissesType DEF enqueue_prefill, Fate
  <2> QED
    BY <1>11, <2>1, <2>2 DEF enqueue_prefill
<1>12. CASE record_trigger
  <2>1. sweep' \in Sweep
    BY <1>0, <1>12 DEF record_trigger, Sweep
  <2> QED
    BY <1>12, <2>1 DEF record_trigger
<1>13. CASE TriggerDone
  <2>1. sweep' \in Sweep
    BY <1>0, <1>13 DEF TriggerDone, Sweep, Then
  <2> QED
    BY <1>13, <2>1 DEF TriggerDone
<1>14. CASE commit_batch
  <2>1. sweep' \in Sweep
    BY <1>0, <1>14 DEF commit_batch, Sweep, Then
  <2>2. cursor' \in Nat /\ file' \in [log : Nat, cursor : Nat]
    BY <1>14 DEF commit_batch, Sweep
  <2>3. counted' \in [LineId -> Nat]
    <3>1. \A l \in LineId : counted[l] \in Nat /\ counted[l] + 1 \in Nat
      OBVIOUS
    <3> QED
      BY <1>14, <3>1 DEF commit_batch
  <2> QED
    BY <1>14, <2>1, <2>2, <2>3 DEF commit_batch
<1>15. CASE maybe_truncate
  <2>1. sweep' \in Sweep
    <3>1. CASE sweep' = [sweep EXCEPT !.pc = "truncate", !.next = Len(log)]
      BY <1>0, <3>1, PlaceType DEF Sweep
    <3> QED
      BY <1>0, <1>15, <3>1 DEF maybe_truncate
  <2> QED
    BY <1>15, <2>1 DEF maybe_truncate
<1>16. CASE Truncate
  <2>1. sweep' \in Sweep
    BY <1>0, <1>16 DEF Truncate, Sweep
  <2>2. log' \in Seq(Chunk) /\ file' \in [log : Nat, cursor : Nat] /\ fate' \in Fate
    BY <1>16, EmptiedType DEF Truncate
  <2> QED
    BY <1>16, <2>1, <2>2 DEF Truncate
<1>17. CASE ResetCursor
  BY <1>0, <1>17 DEF ResetCursor
<1>18. CASE Crash
  BY <1>0, <1>18, SpendType DEF Crash
<1>19. CASE UNCHANGED vars
  BY <1>19 DEF vars
<1> QED
  BY <1>1, <1>2, <1>3, <1>4, <1>5, <1>6, <1>7, <1>8, <1>9, <1>10, <1>11, <1>12,
     <1>13, <1>14, <1>15, <1>16, <1>17, <1>18, <1>19 DEF Next, SweepStep

\* Every variable keeps its kind, whatever is written, read, cut off or rotated.
THEOREM TypeCorrect == Spec => []TypeOK
<1>1. Types => TypeOK
  BY DEF Types
<1> QED
  BY <1>1, InitTypes, StepTypes, PTL DEF Spec

-----------------------------------------------------------------------------
(* Where lines lie in the log.                                             *)

\* Lines lie one behind the other, their chunks in order and without a gap; a
\* line is followed by another only behind its end.
Shape ==
  /\ \A i, j \in DOMAIN log : i < j =>
       /\ log[i].line <= log[j].line
       /\ log[i].line = log[j].line => /\ ~log[i].end
                                       /\ log[j].part = log[i].part + (j - i)
       /\ log[i].line # log[j].line =>
            \E k \in i..(j - 1) : log[k].end /\ log[k].line = log[i].line
  /\ \A i \in DOMAIN log :
       /\ log[i].line <= Len(lines)
       /\ lines[log[i].line] # Junk => log[i].part <= 2
       /\ log[i].line = Len(lines) /\ open > 0 => log[i].part <= open /\ ~log[i].end
  /\ log # <<>> =>
       /\ open = IF log[Len(log)].end THEN 0 ELSE log[Len(log)].part
       /\ open > 0 => log[Len(log)].line = Len(lines)
  /\ open > 0 => lines # <<>> /\ (lines[Len(lines)] # Junk => open = 1)

\* A chunk is appended: the first of a new line, or the next of the open one
LEMMA ShapeAppended ==
  ASSUME Types, Types', Shape, NEW l \in LineId, NEW p \in Nat \ {0}, NEW end \in BOOLEAN,
         Append_(l, p, end), l = Len(lines'), Len(lines) <= Len(lines'),
         \A k \in 1..Len(lines) : lines'[k] = lines[k],
         lines'[l] # Junk => p <= 2 /\ (~end => p = 1),
         \/ open = 0 /\ p = 1 /\ l = Len(lines) + 1
         \/ open > 0 /\ p = open + 1 /\ l = Len(lines)
  PROVE  Shape'
<1> DEFINE n == Len(log)
           c == [line |-> l, part |-> p, end |-> end]
<1>1. /\ n \in Nat /\ DOMAIN log = 1..n /\ Len(log') = n + 1 /\ DOMAIN log' = 1..(n + 1)
      /\ \A i \in 1..n : log'[i] = log[i]
      /\ log'[n + 1].line = l /\ log'[n + 1].part = p /\ log'[n + 1].end = end
      /\ open' = IF end THEN 0 ELSE p
  <2>1. c \in Chunk /\ c.line = l /\ c.part = p /\ c.end = end
    BY DEF Chunk
  <2>2. log \in Seq(Chunk) /\ log' = Append(log, c) /\ open' = IF end THEN 0 ELSE p
    BY DEF Append_, Types, TypeOK
  <2> HIDE DEF c
  <2>3. /\ n \in Nat /\ Len(log') = n + 1
        /\ DOMAIN log = 1..n /\ DOMAIN log' = 1..(n + 1)
        /\ \A i \in 1..n : log'[i] = log[i]
        /\ log'[n + 1] = c
    BY <2>1, <2>2, AppendIs
  <2> QED
    BY <2>1, <2>2, <2>3
<1>2. /\ \A i \in 1..n : /\ log[i].line \in LineId /\ log[i].part \in Nat \ {0}
                         /\ log[i].end \in BOOLEAN /\ log[i].line <= Len(lines)
      /\ Len(lines) \in Nat /\ Len(lines') \in Nat /\ open \in Nat /\ l \in Nat
      /\ LineId \subseteq Nat
  <2>1. log \in Seq(Chunk) /\ lines \in Seq(Kind) /\ lines' \in Seq(Kind) /\ open \in Nat
    BY DEF Types, TypeOK
  <2>2. \A i \in 1..n : log[i].line <= Len(lines)
    BY <1>1 DEF Shape
  <2>3. LineId \subseteq Nat
    BY DEF LineId
  <2>4. \A i \in 1..n : /\ log[i].line \in LineId /\ log[i].part \in Nat \ {0}
                        /\ log[i].end \in BOOLEAN
    BY <1>1, <2>1, PlaceType
  <2>5. Len(lines) \in Nat /\ Len(lines') \in Nat
    BY <2>1
  <2> QED
    BY <2>1, <2>2, <2>3, <2>4, <2>5
<1>3. ASSUME NEW i \in 1..n, log[i].line = l
      PROVE  /\ n # 0 /\ log[n].line = l /\ ~log[n].end /\ log[n].part = open
             /\ ~log[i].end /\ p = log[i].part + (n + 1 - i)
  <2>1. open > 0 /\ l = Len(lines) /\ p = open + 1
    BY SMTT(30), <1>2, <1>3
  <2>2. n # 0 /\ log # <<>> /\ n \in DOMAIN log
    BY <1>1
  <2>3. log[n].line = l /\ ~log[n].end /\ log[n].part = open
    BY <1>1, <2>1, <2>2 DEF Shape
  <2>4. CASE i = n
    BY <2>1, <2>2, <2>3, <2>4, <1>2
  <2>5. CASE i < n
    <3>1. i \in DOMAIN log /\ log[i].line = log[n].line
      BY <1>1, <1>3, <2>3
    <3>2. ~log[i].end /\ log[n].part = log[i].part + (n - i)
      BY <2>2, <2>5, <3>1 DEF Shape
    <3>3. log[i].part \in Nat /\ i \in Nat
      BY SMTT(30), <1>2
    <3> QED
      BY SMTT(30), <1>1, <1>2, <2>1, <2>2, <2>3, <3>2, <3>3
  <2>6. i = n \/ i < n
    <3>1. n \in Nat /\ i \in 1..n
      BY <1>1, <1>3
    <3> HIDE DEF n
    <3> QED
      BY <3>1
  <2> QED
    BY <2>2, <2>3, <2>4, <2>5, <2>6
<1>4. ASSUME NEW i \in 1..n, log[i].line # l
      PROVE  \E k \in i..n : log[k].end /\ log[k].line = log[i].line
  <2>1. n # 0 /\ log # <<>> /\ n \in DOMAIN log
    BY <1>1
  <2>2. CASE log[n].line = log[i].line
    <3>1. log[n].end
      BY SMTT(30), <1>1, <1>2, <1>4, <2>1, <2>2 DEF Shape
    <3> QED
      BY <2>1, <2>2, <3>1, <1>1
  <2>3. CASE log[n].line # log[i].line
    <3>1. i < n
      BY <1>1, <2>1, <2>3
    <3>2. PICK k \in i..(n - 1) : log[k].end /\ log[k].line = log[i].line
      BY <1>1, <2>1, <2>3, <3>1 DEF Shape
    <3> QED
      BY SMTT(30), <1>1, <3>2
  <2> QED
    BY <2>2, <2>3
<1>5. ASSUME NEW i \in DOMAIN log', NEW j \in DOMAIN log', i < j
      PROVE  /\ log'[i].line <= log'[j].line
             /\ log'[i].line = log'[j].line => /\ ~log'[i].end
                                               /\ log'[j].part = log'[i].part + (j - i)
             /\ log'[i].line # log'[j].line =>
                  \E k \in i..(j - 1) : log'[k].end /\ log'[k].line = log'[i].line
  <2>1. i \in 1..n /\ log'[i] = log[i]
    BY SMTT(30), <1>1, <1>5
  <2>2. CASE j \in 1..n
    <3>1. log'[j] = log[j] /\ \A k \in i..(j - 1) : log'[k] = log[k]
      <4>1. n \in Nat /\ (\A k \in 1..n : log'[k] = log[k])
        BY <1>1
      <4> HIDE DEF n
      <4>2. \A k \in i..(j - 1) : k \in 1..n
        BY SMTT(30), <2>1, <2>2, <4>1
      <4> QED
        BY <2>2, <4>1, <4>2
    <3>2. i \in DOMAIN log /\ j \in DOMAIN log
      BY <1>1, <2>1, <2>2
    <3>3. /\ log[i].line <= log[j].line
          /\ log[i].line = log[j].line => /\ ~log[i].end
                                          /\ log[j].part = log[i].part + (j - i)
          /\ log[i].line # log[j].line =>
               \E k \in i..(j - 1) : log[k].end /\ log[k].line = log[i].line
      BY <1>5, <3>2 DEF Shape
    <3> QED
      BY <2>1, <3>1, <3>3
  <2>3. CASE j = n + 1
    <3>1. log'[i].line <= log'[j].line
      <4>1. log[i].line \in Nat /\ log[i].line <= Len(lines) /\ Len(lines) <= l
        BY <1>2, <2>1
      <4> QED
        BY SMTT(30), <1>1, <1>2, <2>1, <2>3, <4>1
    <3>2. CASE log[i].line = l
      BY SMTT(30), <1>1, <1>3, <2>1, <2>3, <3>1, <3>2
    <3>3. CASE log[i].line # l
      <4>1. PICK k \in i..n : log[k].end /\ log[k].line = log[i].line
        BY <1>4, <2>1, <3>3
      <4>2. k \in i..(j - 1) /\ log'[k] = log[k]
        BY SMTT(30), <1>1, <2>1, <2>3, <4>1
      <4> QED
        BY <1>1, <2>1, <2>3, <3>1, <3>3, <4>1, <4>2
    <3> QED
      BY <3>2, <3>3
  <2> QED
    BY SMTT(30), <1>1, <2>2, <2>3
<1>6. ASSUME NEW i \in DOMAIN log'
      PROVE  /\ log'[i].line <= Len(lines')
             /\ lines'[log'[i].line] # Junk => log'[i].part <= 2
             /\ log'[i].line = Len(lines') /\ open' > 0 =>
                  log'[i].part <= open' /\ ~log'[i].end
  <2>1. CASE i = n + 1
    BY SMTT(30), <1>1, <1>2, <2>1
  <2>2. CASE i \in 1..n
    <3>1. /\ log'[i] = log[i] /\ log[i].line \in 1..Len(lines)
          /\ lines'[log[i].line] = lines[log[i].line]
      <4>1. log'[i] = log[i]
        BY <1>1, <2>2
      <4>2. log[i].line \in LineId /\ log[i].line <= Len(lines)
        BY <1>2, <2>2
      <4>3. Len(lines) \in Nat
        BY <1>2
      <4>4. log[i].line \in 1..Len(lines)
        BY <4>2, <4>3 DEF LineId
      <4> QED
        BY <4>1, <4>4
    <3>2. log[i].line <= Len(lines') /\ (lines'[log[i].line] # Junk => log[i].part <= 2)
      BY SMTT(30), <1>1, <1>2, <2>2, <3>1 DEF Shape
    <3>3. log[i].line = l => log[i].part <= p /\ ~log[i].end
      BY SMTT(30), <1>2, <1>3, <2>2
    <3> QED
      BY <1>1, <3>1, <3>2, <3>3
  <2> QED
    BY SMTT(30), <1>1, <2>1, <2>2
<1>7. log' # <<>> =>
       /\ open' = IF log'[Len(log')].end THEN 0 ELSE log'[Len(log')].part
       /\ open' > 0 => log'[Len(log')].line = Len(lines')
  BY <1>1
<1>8. open' > 0 => lines' # <<>> /\ (lines'[Len(lines')] # Junk => open' = 1)
  <2>1. lines' # <<>>
    BY <1>2 DEF LineId
  <2> QED
    BY <1>1, <2>1
<1> QED
  BY <1>5, <1>6, <1>7, <1>8 DEF Shape

\* BeginLine and ContinueLine are such appends
LEMMA WriteIs ==
  ASSUME Types, Shape, ContinueLine \/ \E kind \in Kind : BeginLine(kind)
  PROVE  \E l \in LineId, p \in Nat \ {0}, end \in BOOLEAN :
           /\ Append_(l, p, end) /\ l = Len(lines') /\ Len(lines) <= Len(lines')
           /\ \A k \in 1..Len(lines) : lines'[k] = lines[k]
           /\ lines'[l] # Junk => p <= 2 /\ (~end => p = 1)
           /\ \/ open = 0 /\ p = 1 /\ l = Len(lines) + 1
              \/ open > 0 /\ p = open + 1 /\ l = Len(lines)
           /\ UNCHANGED <<cursor, sweep, counted, file, fate, app>>
<1>1. ASSUME NEW kind \in Kind, BeginLine(kind)
      PROVE  \E end \in BOOLEAN :
               /\ Append_(Len(lines) + 1, 1, end) /\ open = 0
               /\ Len(lines) + 1 \in LineId
               /\ Len(lines') = Len(lines) + 1
               /\ \A k \in 1..Len(lines) : lines'[k] = lines[k]
               /\ UNCHANGED <<cursor, sweep, counted, file, fate, app>>
  <2>1. PICK end \in BOOLEAN : Append_(Len(lines) + 1, 1, end)
    BY <1>1 DEF BeginLine
  <2>2. /\ Len(lines) + 1 \in LineId /\ Len(lines') = Len(lines) + 1
        /\ \A k \in 1..Len(lines) : lines'[k] = lines[k]
    BY <1>1, AppendIs DEF BeginLine, LineId, Types, TypeOK
  <2> QED
    BY <1>1, <2>1, <2>2 DEF BeginLine
<1>2. ASSUME ContinueLine
      PROVE  \E end \in BOOLEAN :
               /\ Append_(Len(lines), open + 1, end) /\ open > 0 /\ lines' = lines
               /\ Len(lines) \in LineId
               /\ lines[Len(lines)] # Junk => end /\ open = 1
               /\ UNCHANGED <<cursor, sweep, counted, file, fate, app>>
  <2>1. PICK end \in IF lines[Len(lines)] # Junk \/ open + 1 >= MaxJunk
                     THEN {TRUE} ELSE BOOLEAN :
               Append_(Len(lines), open + 1, end)
    BY <1>2 DEF ContinueLine
  <2>2. open > 0 /\ lines # <<>> /\ (lines[Len(lines)] # Junk => open = 1)
    BY <1>2 DEF ContinueLine, Shape
  <2>3. Len(lines) \in LineId
    BY <2>2 DEF LineId, Types, TypeOK
  <2>4. end \in BOOLEAN /\ (lines[Len(lines)] # Junk => end)
    BY <2>1
  <2> QED
    BY <1>2, <2>1, <2>2, <2>3, <2>4 DEF ContinueLine
<1>3. CASE ContinueLine
  <2>1. PICK end \in BOOLEAN :
               /\ Append_(Len(lines), open + 1, end) /\ open > 0 /\ lines' = lines
               /\ Len(lines) \in LineId
               /\ lines[Len(lines)] # Junk => end /\ open = 1
               /\ UNCHANGED <<cursor, sweep, counted, file, fate, app>>
    BY <1>2, <1>3
  <2>2. open + 1 \in Nat \ {0} /\ (open = 1 => open + 1 <= 2)
        /\ Len(lines) <= Len(lines')
    BY SMTT(30), <2>1 DEF Types, TypeOK
  <2> QED
    BY <2>1, <2>2
<1>4. CASE \E kind \in Kind : BeginLine(kind)
  <2>1. PICK end \in BOOLEAN :
               /\ Append_(Len(lines) + 1, 1, end) /\ open = 0
               /\ Len(lines) + 1 \in LineId
               /\ Len(lines') = Len(lines) + 1
               /\ \A k \in 1..Len(lines) : lines'[k] = lines[k]
               /\ UNCHANGED <<cursor, sweep, counted, file, fate, app>>
    BY <1>1, <1>4
  <2>2. 1 \in Nat \ {0} /\ 1 <= 2 /\ Len(lines) <= Len(lines')
    BY <2>1 DEF Types, TypeOK
  <2> QED
    BY <2>1, <2>2
<1> QED
  BY <1>3, <1>4

\* In an emptied log every shape is right
LEMMA ShapeEmptied ==
  ASSUME Types, Shape, Emptied, UNCHANGED <<lines, open>>
  PROVE  Shape'
<1>1. log' = <<>> /\ DOMAIN log' = {}
  BY DEF Emptied
<1> QED
  BY <1>1 DEF Shape

\* What the other actions leave alone
OtherStep ==
  \/ IntervalElapses \/ claim_sweep \/ Crash
  \/ \E a \in App : EnqueueElsewhere(a) \/ JobEnds(a) \/ Ages(a)
  \/ read_batch \/ enqueue_prefill \/ record_trigger \/ TriggerDone
  \/ \E a \in App : Capped(a) \/ TriggerGuards(a)
  \/ commit_batch \/ maybe_truncate \/ ResetCursor
  \/ Truncate /\ sweep' = NoSweep /\ UNCHANGED <<log, file, fate>>

LEMMA Steps ==
  ASSUME [Next]_vars
  PROVE  \/ ContinueLine \/ \E kind \in Kind : BeginLine(kind)
         \/ Emptied /\ UNCHANGED <<lines, open>> /\ (Rotate \/ Truncate)
         \/ OtherStep
         \/ UNCHANGED vars
BY DEF Next, SweepStep, OtherStep, Rotate, Truncate

LEMMA OtherKeepsLog ==
  ASSUME OtherStep \/ UNCHANGED vars
  PROVE  UNCHANGED <<log, lines, open>>
BY DEF OtherStep, IntervalElapses, claim_sweep, Crash, EnqueueElsewhere, JobEnds,
       Ages, read_batch, enqueue_prefill, record_trigger, TriggerDone, Capped,
       TriggerGuards, commit_batch, maybe_truncate, ResetCursor, Truncate, vars

LEMMA InitShape == Init => Shape
BY DEF Init, Shape

LEMMA StepShape == Types /\ Types' /\ Shape /\ [Next]_vars => Shape'
<1> SUFFICES ASSUME Types, Types', Shape, [Next]_vars PROVE Shape'
  OBVIOUS
<1>1. CASE ContinueLine \/ \E kind \in Kind : BeginLine(kind)
  BY <1>1, WriteIs, ShapeAppended
<1>2. CASE Emptied /\ UNCHANGED <<lines, open>>
  BY <1>2, ShapeEmptied
<1>3. CASE OtherStep \/ UNCHANGED vars
  BY <1>3, OtherKeepsLog DEF Shape
<1> QED
  BY <1>1, <1>2, <1>3, Steps

-----------------------------------------------------------------------------
(* Exactly once.                                                           *)

Finished(l) == l \in 1..Len(lines) /\ (l = Len(lines) => open = 0)

\* A sweep has read its batch and not yet committed it
Batching == sweep.pc \in {"trigger", "enqueue", "record", "commit"}

\* A cursor of the file that is there is in it; so is where a batch ends, not
\* before the cursor
Cursors ==
  /\ file.cursor <= file.log
  /\ file.cursor = file.log => cursor <= Len(log)
  /\ sweep.pc = "reset" => file.cursor < file.log
  /\ Batching => file.cursor <= sweep.of /\ sweep.of <= file.log
  /\ Batching /\ sweep.of = file.log =>
       sweep.next <= Len(log) /\ (file.cursor = file.log => cursor <= sweep.next)

\* What is counted was counted once, is complete, and lies behind the cursor of
\* the file or not in the file at all
CountedBehind ==
  \A l \in LineId : counted[l] > 0 =>
    /\ counted[l] = 1 /\ Finished(l)
    /\ \A i \in PlacesOf(l) : file.cursor = file.log /\ i <= cursor

\* The batch in hand is complete lines nobody counted
BatchUncounted ==
  Batching => \A l \in sweep.batch :
    /\ counted[l] = 0 /\ Finished(l)
    /\ \A i \in PlacesOf(l) : sweep.of = file.log /\ i <= sweep.next

CountInv == Cursors /\ CountedBehind /\ BatchUncounted

LEMMA InitCount == Init => CountInv
BY DEF Init, CountInv, Cursors, CountedBehind, BatchUncounted, Batching, NoSweep

\* The types of the fields the invariants compare
LEMMA FieldTypes ==
  ASSUME Types
  PROVE  /\ file.log \in Nat /\ file.cursor \in Nat /\ cursor \in Nat
         /\ sweep.next \in Nat /\ sweep.of \in Nat /\ sweep.batch \subseteq LineId
         /\ Len(log) \in Nat /\ Len(lines) \in Nat /\ open \in Nat
         /\ \A l \in LineId : counted[l] \in Nat
BY SMTT(30) DEF Types, TypeOK, Sweep

\* A write leaves every finished line where it is
LEMMA WriteKeeps ==
  ASSUME Types, Shape, NEW l \in Nat, Finished(l),
         ContinueLine \/ \E kind \in Kind : BeginLine(kind)
  PROVE  PlacesOf(l)' = PlacesOf(l) /\ Finished(l)'
<1>1. PICK m \in LineId, p \in Nat \ {0}, end \in BOOLEAN :
        /\ Append_(m, p, end) /\ m = Len(lines') /\ Len(lines) <= Len(lines')
        /\ \/ open = 0 /\ p = 1 /\ m = Len(lines) + 1
           \/ open > 0 /\ p = open + 1 /\ m = Len(lines)
  BY WriteIs
<1>2. m # l
  BY SMTT(30), <1>1, FieldTypes DEF Finished
<1>3. [line |-> m, part |-> p, end |-> end] \in Chunk
  BY DEF Chunk
<1>4. /\ DOMAIN log' = 1..(Len(log) + 1) /\ DOMAIN log = 1..Len(log) /\ Len(log) \in Nat
      /\ \A i \in 1..Len(log) : log'[i] = log[i]
      /\ log'[Len(log) + 1].line = m
  <2> DEFINE c == [line |-> m, part |-> p, end |-> end]
  <2>1. log \in Seq(Chunk) /\ log' = Append(log, c) /\ c \in Chunk /\ c.line = m
    BY <1>1, <1>3 DEF Append_, Types, TypeOK
  <2> HIDE DEF c
  <2> QED
    BY <2>1, AppendIs
<1>5. PlacesOf(l)' = PlacesOf(l)
  BY <1>2, <1>4 DEF PlacesOf
<1>6. Finished(l)'
  BY <1>1, <1>2, FieldTypes DEF Finished
<1> QED
  BY <1>5, <1>6

\* The batch stays as it is
SameBatch ==
  /\ sweep'.batch = sweep.batch /\ sweep'.next = sweep.next /\ sweep'.of = sweep.of
  /\ Batching' => Batching
  /\ sweep'.pc = "reset" => sweep.pc = "reset"

\* All a step that leaves the log alone may do to cursor, batch and statistics
LEMMA OtherIs ==
  ASSUME Types, OtherStep \/ UNCHANGED vars
  PROVE  \/ /\ UNCHANGED <<cursor, counted, file>>
            /\ SameBatch \/ (~Batching' /\ sweep'.pc # "reset")
         \/ read_batch \/ commit_batch \/ ResetCursor
<1>0. sweep \in Sweep
  BY DEF Types, TypeOK
<1>1. CASE IntervalElapses \/ UNCHANGED vars
           \/ \E a \in App : EnqueueElsewhere(a) \/ JobEnds(a) \/ Ages(a)
  <2>1. UNCHANGED <<cursor, counted, file, sweep>>
    BY <1>1 DEF IntervalElapses, vars, EnqueueElsewhere, JobEnds, Ages
  <2> QED
    BY <2>1 DEF SameBatch, Batching
<1>2. CASE \/ claim_sweep \/ Crash \/ maybe_truncate
           \/ Truncate /\ sweep' = NoSweep /\ UNCHANGED <<log, file, fate>>
  <2>2. CASE claim_sweep
    BY <2>2 DEF claim_sweep, NoSweep, Batching
  <2>3. CASE Crash
    BY <2>3 DEF Crash, NoSweep, Batching
  <2>4. CASE maybe_truncate
    <3>1. sweep'.pc = "truncate" \/ sweep' = NoSweep
      BY <1>0, <2>4 DEF maybe_truncate, Sweep
    <3> QED
      BY <2>4, <3>1 DEF NoSweep, Batching, maybe_truncate
  <2>5. CASE Truncate /\ sweep' = NoSweep /\ UNCHANGED <<log, file, fate>>
    BY <2>5 DEF Truncate, NoSweep, Batching
  <2> QED
    BY <1>2, <2>2, <2>3, <2>4, <2>5
<1>3. CASE enqueue_prefill \/ record_trigger \/ TriggerDone
           \/ \E a \in App : Capped(a) \/ TriggerGuards(a)
  <2>1. UNCHANGED <<cursor, counted, file>>
    BY <1>3 DEF enqueue_prefill, record_trigger, TriggerDone, Capped, TriggerGuards
  <2>2. SameBatch
    BY <1>0, <1>3 DEF SameBatch, Batching, Sweep, enqueue_prefill, record_trigger,
                      TriggerDone, Capped, TriggerGuards, IsNext, Then
  <2> QED
    BY <2>1, <2>2
<1> QED
  BY <1>1, <1>2, <1>3 DEF OtherStep

\* Counting survives a write ...
LEMMA WriteCount ==
  ASSUME Types, Types', Shape, CountInv,
         ContinueLine \/ \E kind \in Kind : BeginLine(kind)
  PROVE  CountInv'
<1>1. /\ UNCHANGED <<cursor, sweep, counted, file>>
      /\ Len(log) <= Len(log') /\ Len(log') \in Nat
  <2>1. PICK l \in LineId, p \in Nat \ {0}, end \in BOOLEAN :
          Append_(l, p, end) /\ UNCHANGED <<cursor, sweep, counted, file>>
    BY WriteIs
  <2>2. [line |-> l, part |-> p, end |-> end] \in Chunk
    BY DEF Chunk
  <2>3. Len(log) \in Nat /\ Len(log') = Len(log) + 1
    BY <2>1, <2>2, AppendIs DEF Append_, Types, TypeOK
  <2> QED
    BY <2>1, <2>3
<1>2. Cursors'
  BY SMTT(30), <1>1, FieldTypes DEF CountInv, Cursors, Batching
<1>3. CountedBehind'
  <2>1. ASSUME NEW l \in LineId, counted[l] > 0
        PROVE  /\ counted[l] = 1 /\ Finished(l)'
               /\ \A i \in PlacesOf(l)' : file.cursor = file.log /\ i <= cursor
    <3>1. l \in Nat /\ Finished(l) /\ counted[l] = 1
      BY <2>1 DEF LineId, CountInv, CountedBehind
    <3>2. PlacesOf(l)' = PlacesOf(l) /\ Finished(l)'
      BY <3>1, WriteKeeps
    <3> QED
      BY <2>1, <3>1, <3>2 DEF CountInv, CountedBehind
  <2> QED
    BY <1>1, <2>1 DEF CountedBehind
<1>4. BatchUncounted'
  <2>1. ASSUME Batching, NEW l \in sweep.batch
        PROVE  /\ counted[l] = 0 /\ Finished(l)'
               /\ \A i \in PlacesOf(l)' : sweep.of = file.log /\ i <= sweep.next
    <3>1. l \in Nat /\ Finished(l) /\ counted[l] = 0
      BY SMTT(30), <2>1, FieldTypes DEF LineId, CountInv, BatchUncounted
    <3>2. PlacesOf(l)' = PlacesOf(l) /\ Finished(l)'
      BY <3>1, WriteKeeps
    <3> QED
      BY <2>1, <3>1, <3>2 DEF CountInv, BatchUncounted
  <2> QED
    BY <1>1, <2>1 DEF BatchUncounted, Batching
<1> QED
  BY <1>2, <1>3, <1>4 DEF CountInv

\* ... the log being emptied: what is of the old file is nowhere now ...
LEMMA EmptiedCount ==
  ASSUME Types, Types', CountInv, Emptied, UNCHANGED <<lines, open>>, Rotate \/ Truncate
  PROVE  CountInv'
<1>1. /\ UNCHANGED <<cursor, counted>> /\ log' = <<>>
      /\ file'.log = file.log + 1 /\ file'.cursor = file.cursor
  BY DEF Emptied, Rotate, Truncate, Types, TypeOK
<1>2. /\ file.cursor <= file.log /\ (Batching => file.cursor <= sweep.of /\ sweep.of <= file.log)
      /\ file.log \in Nat /\ file.cursor \in Nat /\ sweep.of \in Nat
  BY FieldTypes DEF CountInv, Cursors
<1>3. UNCHANGED sweep \/ ~Batching'
  <2>1. CASE Rotate
    BY <2>1 DEF Rotate
  <2>2. CASE Truncate
    <3>1. sweep'.pc = "reset" \/ sweep' = NoSweep
      BY <2>2 DEF Truncate, Types, TypeOK, Sweep
    <3> QED
      BY <3>1 DEF Batching, NoSweep
  <2> QED
    BY <2>1, <2>2
<1>4. \A l : PlacesOf(l)' = {} /\ Finished(l)' = Finished(l)
  BY <1>1 DEF PlacesOf, Finished
<1>5. Cursors'
  <2>1. file'.cursor < file'.log
    BY <1>1, <1>2
  <2>2. Batching' => Batching /\ UNCHANGED sweep /\ sweep.of < file'.log
    BY <1>1, <1>2, <1>3 DEF Batching
  <2>3. sweep.of < file'.log => sweep.of # file'.log /\ sweep.of <= file'.log
    BY <1>1, <1>2
  <2>4. file'.cursor # file'.log /\ file'.cursor <= file'.log
    BY <1>1, <1>2
  <2> QED
    BY <1>1, <1>2, <2>1, <2>2, <2>3, <2>4 DEF Cursors
<1>6. CountedBehind'
  BY <1>1, <1>4 DEF CountInv, CountedBehind
<1>7. BatchUncounted'
  BY <1>1, <1>3, <1>4 DEF CountInv, BatchUncounted, Batching
<1> QED
  BY <1>5, <1>6, <1>7 DEF CountInv

\* ... and a read: the lines it takes begin behind the cursor of the file, and
\* end where the batch ends or before.
LEMMA ReadCount ==
  ASSUME Types, Types', Shape, CountInv, read_batch
  PROVE  CountInv'
<1> DEFINE S == {i \in Window : i <= new_cursor}
<1>1. /\ UNCHANGED <<cursor, counted, file, log, lines, open>>
      /\ sweep'.pc = "trigger" /\ sweep'.batch = WholeIn(S)
      /\ sweep'.next = new_cursor /\ sweep'.of = file.log
  BY DEF read_batch, Then, Types, TypeOK, Sweep
<1>2. /\ file.cursor <= file.log /\ (file.cursor = file.log => cursor <= Len(log))
      /\ file.log \in Nat /\ file.cursor \in Nat /\ cursor \in Nat /\ Len(log) \in Nat
      /\ DOMAIN log = 1..Len(log)
  BY FieldTypes DEF CountInv, Cursors, Types, TypeOK
<1>3. Start \in Nat /\ new_cursor \in Nat /\ Start <= new_cursor
  BY NewCursorIs DEF Types, TypeOK
<1>4. /\ Start <= Len(log)
      /\ file.cursor = file.log => Start = cursor
  BY <1>2 DEF Start
<1>5. new_cursor <= Len(log)
  <2>1. new_cursor = Start \/ new_cursor \in DOMAIN log
    BY NewCursorIs DEF Types, TypeOK, Ends, Window
  <2> QED
    BY <1>2, <1>4, <2>1
<1>6. Cursors'
  BY <1>1, <1>2, <1>3, <1>4, <1>5 DEF Cursors, Batching
<1>7. CountedBehind'
  BY <1>1 DEF CountInv, CountedBehind, Finished, PlacesOf
<1>8. ASSUME NEW l \in WholeIn(S)
      PROVE  /\ counted[l] = 0 /\ Finished(l)
             /\ \A i \in PlacesOf(l) : i <= new_cursor
  <2>1. PICK f \in S : log[f].line = l
    BY DEF WholeIn
  <2>2. PICK e \in S : log[e].line = l /\ log[e].end
    BY DEF WholeIn
  <2>3. /\ f \in DOMAIN log /\ Start < f /\ f \in Nat
        /\ e \in DOMAIN log /\ e <= new_cursor /\ e \in Nat
    BY <1>2 DEF Window
  <2>4. l \in LineId /\ l \in Nat /\ l \in 1..Len(lines)
    <3>1. log[f].line \in LineId
      BY <2>3, PlaceType DEF Types, TypeOK
    <3>2. l <= Len(lines)
      BY <2>1, <2>3 DEF Shape
    <3> QED
      BY <2>1, <3>1, <3>2, FieldTypes DEF LineId
  <2>5. Finished(l)
    <3>1. ~(l = Len(lines) /\ open > 0)
      BY <2>2, <2>3 DEF Shape
    <3> QED
      BY <2>4, <3>1, FieldTypes DEF Finished
  <2>6. counted[l] = 0
    <3>1. SUFFICES ASSUME counted[l] > 0 PROVE FALSE
      BY SMTT(30), <2>4, FieldTypes
    <3>2. f \in PlacesOf(l)
      BY <2>1, <2>3 DEF PlacesOf
    <3>3. file.cursor = file.log /\ f <= cursor
      BY <2>4, <3>1, <3>2 DEF CountInv, CountedBehind
    <3> QED
      BY <1>2, <1>4, <2>3, <3>3
  <2>7. ASSUME NEW i \in PlacesOf(l) PROVE i <= new_cursor
    <3>1. i \in DOMAIN log /\ log[i].line = l /\ i \in Nat
      BY <1>2 DEF PlacesOf
    <3>2. ~(e < i)
      BY <2>2, <2>3, <3>1 DEF Shape
    <3> QED
      BY <1>3, <2>3, <3>1, <3>2
  <2> QED
    BY <2>5, <2>6, <2>7
<1>9. BatchUncounted'
  <2> HIDE DEF S
  <2>1. \A l : PlacesOf(l)' = PlacesOf(l) /\ Finished(l)' = Finished(l)
    BY <1>1 DEF PlacesOf, Finished
  <2> QED
    BY <1>1, <1>8, <2>1 DEF BatchUncounted
<1> QED
  BY <1>6, <1>7, <1>9 DEF CountInv

\* The commit counts the batch and moves the cursor behind it.
LEMMA CommitCount ==
  ASSUME Types, Types', CountInv, commit_batch
  PROVE  CountInv'
<1>1. /\ UNCHANGED <<log, lines, open>>
      /\ cursor' = sweep.next /\ file'.log = file.log /\ file'.cursor = sweep.of
      /\ counted' = [l \in LineId |->
                       IF l \in sweep.batch THEN counted[l] + 1 ELSE counted[l]]
      /\ Batching /\ sweep'.pc = "check"
  BY DEF commit_batch, Types, TypeOK, Sweep, Batching, Then
<1>2. /\ file.cursor <= sweep.of /\ sweep.of <= file.log
      /\ sweep.of = file.log =>
           sweep.next <= Len(log) /\ (file.cursor = file.log => cursor <= sweep.next)
      /\ file.log \in Nat /\ file.cursor \in Nat /\ sweep.of \in Nat
      /\ cursor \in Nat /\ sweep.next \in Nat
  BY <1>1, FieldTypes DEF CountInv, Cursors
<1>3. Cursors'
  BY <1>1, <1>2 DEF Cursors, Batching
<1>4. ASSUME NEW l \in LineId, counted'[l] > 0
      PROVE  /\ counted'[l] = 1 /\ Finished(l)
             /\ \A i \in PlacesOf(l) : sweep.of = file.log /\ i <= sweep.next
  <2>1. CASE l \in sweep.batch
    <3>1. /\ counted[l] = 0 /\ Finished(l)
          /\ \A i \in PlacesOf(l) : sweep.of = file.log /\ i <= sweep.next
      BY <1>1, <2>1 DEF CountInv, BatchUncounted
    <3> QED
      BY <1>1, <2>1, <3>1
  <2>2. CASE l \notin sweep.batch
    <3>1. counted'[l] = counted[l] /\ counted[l] > 0
      BY <1>1, <1>4, <2>2
    <3>2. /\ counted[l] = 1 /\ Finished(l)
          /\ \A i \in PlacesOf(l) : file.cursor = file.log /\ i <= cursor
      BY <3>1 DEF CountInv, CountedBehind
    <3>3. ASSUME NEW i \in PlacesOf(l)
          PROVE  sweep.of = file.log /\ i <= sweep.next
      <4>1. i \in Nat /\ i <= cursor /\ file.cursor = file.log
        <5>1. DOMAIN log = 1..Len(log) /\ Len(log) \in Nat
          BY PlaceType DEF Types, TypeOK
        <5>2. i \in DOMAIN log
          BY DEF PlacesOf
        <5> QED
          BY <3>2, <5>1, <5>2
      <4>2. sweep.of = file.log
        BY <1>2, <4>1
      <4> QED
        BY <1>2, <4>1, <4>2
    <3> QED
      BY <3>1, <3>2, <3>3
  <2> QED
    BY <2>1, <2>2
<1>5. CountedBehind'
  <2>1. \A l : PlacesOf(l)' = PlacesOf(l) /\ Finished(l)' = Finished(l)
    BY <1>1 DEF PlacesOf, Finished
  <2> QED
    BY <1>1, <1>4, <2>1 DEF CountedBehind
<1>6. BatchUncounted'
  BY <1>1 DEF BatchUncounted, Batching
<1> QED
  BY <1>3, <1>5, <1>6 DEF CountInv

LEMMA StepCount ==
  ASSUME Types, Types', Shape, CountInv, [Next]_vars
  PROVE  CountInv'
<1>1. CASE ContinueLine \/ \E kind \in Kind : BeginLine(kind)
  BY <1>1, WriteCount
<1>2. CASE Emptied /\ UNCHANGED <<lines, open>> /\ (Rotate \/ Truncate)
  BY <1>2, EmptiedCount
<1>3. CASE OtherStep \/ UNCHANGED vars
  <2>0. UNCHANGED <<log, lines, open>>
    BY <1>3, OtherKeepsLog
  <2>1. \A l : PlacesOf(l)' = PlacesOf(l) /\ Finished(l)' = Finished(l)
    BY <2>0 DEF PlacesOf, Finished
  <2>2. CASE UNCHANGED <<cursor, counted, file>> /\ SameBatch
    <3>1. Cursors'
      BY <2>0, <2>2 DEF CountInv, Cursors, SameBatch
    <3>2. CountedBehind'
      BY <2>1, <2>2 DEF CountInv, CountedBehind
    <3>3. BatchUncounted'
      BY <2>1, <2>2 DEF CountInv, BatchUncounted, SameBatch
    <3> QED
      BY <3>1, <3>2, <3>3 DEF CountInv
  <2>3. CASE UNCHANGED <<cursor, counted, file>> /\ ~Batching' /\ sweep'.pc # "reset"
    <3>1. Cursors'
      BY <2>0, <2>3 DEF CountInv, Cursors
    <3>2. CountedBehind'
      BY <2>1, <2>3 DEF CountInv, CountedBehind
    <3>3. BatchUncounted'
      BY <2>3 DEF BatchUncounted
    <3> QED
      BY <3>1, <3>2, <3>3 DEF CountInv
  <2>4. CASE ResetCursor
    <3>1. /\ UNCHANGED <<counted, file>> /\ cursor' = 0 /\ file.cursor < file.log
          /\ file.cursor \in Nat /\ file.log \in Nat /\ ~Batching' /\ sweep'.pc # "reset"
      BY <2>4, FieldTypes DEF ResetCursor, CountInv, Cursors, NoSweep, Batching
    <3>2. file.cursor # file.log /\ file.cursor <= file.log
      BY <3>1
    <3>3. Cursors'
      BY <3>1, <3>2 DEF Cursors
    <3>4. CountedBehind'
      BY <2>1, <3>1, <3>2 DEF CountInv, CountedBehind
    <3> QED
      BY <3>1, <3>3, <3>4 DEF CountInv, BatchUncounted
  <2> QED
    BY <1>3, <2>2, <2>3, <2>4, OtherIs, ReadCount, CommitCount
<1> QED
  BY <1>1, <1>2, <1>3, Steps

\* Statistics are exactly-once, for every number of crashes, truncations and
\* rotations: the cursor moves in the transaction that counts, a batch begins
\* behind it, and what was counted of an earlier file is in none any more.
THEOREM ExactlyOnce == Spec => []CountedOnce
<1> DEFINE Inv == Types /\ Shape /\ CountInv
<1>1. Init => Inv
  BY InitTypes, InitShape, InitCount
<1>2. Inv /\ [Next]_vars => Inv'
  BY StepTypes, StepShape, StepCount
<1>3. Inv => CountedOnce
  <2> SUFFICES ASSUME Inv, NEW l \in LineId PROVE counted[l] <= 1
    BY DEF CountedOnce
  <2>1. counted[l] \in Nat /\ (counted[l] > 0 => counted[l] = 1)
    BY FieldTypes DEF CountInv, CountedBehind
  <2> QED
    BY <2>1
<1> QED
  BY <1>1, <1>2, <1>3, PTL DEF Spec

-----------------------------------------------------------------------------
(* Nothing lost.                                                           *)

\* A line no statistics tell of and nothing has destroyed has its first chunk
\* in the log
Whole ==
  \A l \in 1..Len(lines) :
    counted[l] = 0 /\ lines[l] # Junk /\ l \notin fate.gone =>
      \E i \in PlacesOf(l) : log[i].part = 1

\* A line that is neither counted nor accounted for is behind the cursor and,
\* where a batch is in hand, in it or behind it
Ahead ==
  \A l \in 1..Len(lines) :
    counted[l] = 0 /\ lines[l] # Junk /\ l \notin fate.gone \cup fate.skipped =>
      /\ \A i \in PlacesOf(l) : cursor < i \/ Stale
      /\ Batching /\ sweep.of = file.log =>
           l \in sweep.batch \/ \A i \in PlacesOf(l) : sweep.next < i

LossInv == Whole /\ Ahead

LEMMA InitLoss == Init => LossInv
BY DEF Init, LossInv, Whole, Ahead

LEMMA LineNumbers ==
  ASSUME Types, NEW l \in 1..Len(lines)
  PROVE  l \in LineId /\ l \in Nat /\ counted[l] \in Nat
<1>1. l \in LineId /\ l \in Nat
  <2>1. MaxLines \in Nat
    BY EventSweepAssumption
  <2>2. Len(lines) \in Nat /\ Len(lines) <= MaxLines
    BY FieldTypes DEF Types, TypeOK
  <2> QED
    BY <2>1, <2>2 DEF LineId
<1> QED
  BY <1>1, FieldTypes

\* A write adds a chunk behind the cursor and behind every batch.
LEMMA WriteLoss ==
  ASSUME Types, Types', Shape, CountInv, LossInv,
         ContinueLine \/ \E kind \in Kind : BeginLine(kind)
  PROVE  LossInv'
<1>1. PICK m \in LineId, p \in Nat \ {0}, end \in BOOLEAN :
        /\ Append_(m, p, end) /\ m = Len(lines') /\ Len(lines) <= Len(lines')
        /\ \A k \in 1..Len(lines) : lines'[k] = lines[k]
        /\ \/ open = 0 /\ p = 1 /\ m = Len(lines) + 1
           \/ open > 0 /\ p = open + 1 /\ m = Len(lines)
        /\ UNCHANGED <<cursor, sweep, counted, file, fate, app>>
  BY WriteIs
<1> DEFINE n == Len(log)
           c == [line |-> m, part |-> p, end |-> end]
<1>2. /\ n \in Nat /\ DOMAIN log = 1..n /\ DOMAIN log' = 1..(n + 1)
      /\ \A i \in 1..n : log'[i] = log[i]
      /\ log'[n + 1].line = m /\ log'[n + 1].part = p
  <2>1. /\ log \in Seq(Chunk) /\ log' = Append(log, c)
        /\ c \in Chunk /\ c.line = m /\ c.part = p
    BY <1>1 DEF Append_, Types, TypeOK, Chunk
  <2> HIDE DEF c
  <2> QED
    BY <2>1, AppendIs
<1>3. \A l : PlacesOf(l)' = IF l = m THEN PlacesOf(l) \cup {n + 1} ELSE PlacesOf(l)
  BY <1>2 DEF PlacesOf
<1>4. /\ n < n + 1 /\ n \in Nat /\ cursor \in Nat /\ sweep.next \in Nat
      /\ cursor < n + 1 \/ Stale
      /\ Batching /\ sweep.of = file.log => sweep.next < n + 1
  <2>1. file.cursor = file.log => cursor <= n
    BY DEF CountInv, Cursors
  <2>2. Batching /\ sweep.of = file.log => sweep.next <= n
    BY DEF CountInv, Cursors
  <2> QED
    BY SMTT(30), <1>2, <2>1, <2>2, FieldTypes DEF Stale
<1>5. Stale' = Stale /\ Batching' = Batching
  BY <1>1 DEF Stale, Batching
<1>6. ASSUME NEW l \in 1..Len(lines'), l \notin 1..Len(lines)
      PROVE  l = m /\ p = 1 /\ PlacesOf(l) = {}
  <2>1. l = m /\ p = 1 /\ l > Len(lines)
    BY SMTT(30), <1>1, <1>6, FieldTypes
  <2>2. \A i \in DOMAIN log : log[i].line <= Len(lines)
    BY DEF Shape
  <2>3. \A i \in DOMAIN log : log[i].line # l
    BY SMTT(30), <2>1, <2>2, FieldTypes
  <2> QED
    BY <2>1, <2>3 DEF PlacesOf
<1>7. ASSUME NEW l \in 1..Len(lines'), counted'[l] = 0, lines'[l] # Junk,
             l \notin fate'.gone
      PROVE  \E i \in PlacesOf(l)' : log'[i].part = 1
  <2>1. CASE l \in 1..Len(lines)
    <3>1. PICK i \in PlacesOf(l) : log[i].part = 1
      BY <1>1, <1>7, <2>1 DEF LossInv, Whole
    <3>2. i \in 1..n
      BY <1>2 DEF PlacesOf
    <3> QED
      BY <1>2, <1>3, <3>1, <3>2
  <2>2. CASE l \notin 1..Len(lines)
    BY <1>2, <1>3, <1>6, <2>2
  <2> QED
    BY <2>1, <2>2
<1>8. ASSUME NEW l \in 1..Len(lines'), counted'[l] = 0, lines'[l] # Junk,
             l \notin fate'.gone \cup fate'.skipped
      PROVE  /\ \A i \in PlacesOf(l)' : cursor < i \/ Stale
             /\ Batching /\ sweep.of = file.log =>
                  l \in sweep.batch \/ \A i \in PlacesOf(l)' : sweep.next < i
  <2>1. CASE l \in 1..Len(lines)
    <3>1. /\ \A i \in PlacesOf(l) : cursor < i \/ Stale
          /\ Batching /\ sweep.of = file.log =>
               l \in sweep.batch \/ \A i \in PlacesOf(l) : sweep.next < i
      BY <1>1, <1>8, <2>1 DEF LossInv, Ahead
    <3> QED
      BY <1>3, <1>4, <3>1
  <2>2. CASE l \notin 1..Len(lines)
    BY <1>3, <1>4, <1>6, <2>2
  <2> QED
    BY <2>1, <2>2
<1>9. Whole'
  BY <1>7 DEF Whole
<1>10. Ahead'
  BY <1>1, <1>5, <1>8 DEF Ahead
<1> QED
  BY <1>9, <1>10 DEF LossInv

\* What is emptied was counted, or is gone.
LEMMA EmptiedLoss ==
  ASSUME Types, Types', LossInv, Emptied, UNCHANGED <<lines, open>>, Rotate \/ Truncate
  PROVE  LossInv'
<1>1. /\ UNCHANGED counted /\ log' = <<>>
      /\ fate'.gone = fate.gone \cup Uncounted(DOMAIN log)
  BY DEF Emptied, Rotate, Truncate, Types, TypeOK, Fate
<1>2. \A l : PlacesOf(l)' = {}
  BY <1>1 DEF PlacesOf
<1>3. ASSUME NEW l \in 1..Len(lines), counted[l] = 0, lines[l] # Junk, l \notin fate.gone
      PROVE  l \in Uncounted(DOMAIN log)
  <2>1. PICK i \in PlacesOf(l) : TRUE
    BY <1>3 DEF LossInv, Whole
  <2> QED
    BY <1>3, <2>1 DEF Uncounted, LinesIn, PlacesOf
<1>4. Whole'
  BY <1>1, <1>3 DEF Whole
<1>5. Ahead'
  BY <1>2 DEF Ahead
<1> QED
  BY <1>4, <1>5 DEF LossInv

\* A read passes no line it does not take, but what was skipped before: up to
\* the last newline of the batch every line it enters has its end there, and a
\* line with no end in a whole batch is junk.
LEMMA ReadTakes ==
  ASSUME Types, Shape, CountInv, LossInv, NEW l \in 1..Len(lines),
         counted[l] = 0, lines[l] # Junk, l \notin fate.gone,
         \A j \in PlacesOf(l) : Start < j,
         NEW i \in PlacesOf(l), i <= new_cursor
  PROVE  l \in WholeIn({k \in Window : k <= new_cursor})
<1> DEFINE e == new_cursor
<1>1. /\ DOMAIN log = 1..Len(log) /\ Len(log) \in Nat /\ Start \in Nat
      /\ log \in Seq(Chunk) /\ MaxBatch \in Nat /\ MaxBatch >= 2 /\ e \in Nat
  BY NewCursorIs, PlaceType DEF Types, TypeOK
<1>2. i \in DOMAIN log /\ log[i].line = l /\ i \in Nat /\ Start < i /\ i <= e
  BY <1>1 DEF PlacesOf
<1>3. /\ e \in DOMAIN log /\ log[e].end /\ e # Start
      /\ \/ /\ e <= Start + MaxBatch
         \/ /\ Ends(Window) = {} /\ Start + MaxBatch < e
            /\ \A j \in Ends(Beyond) : e <= j
  <2>1. e # Start
    BY <1>1, <1>2
  <2>2. \/ e \in Ends(Window)
        \/ /\ Ends(Window) = {} /\ Start + MaxBatch < e
           /\ e \in DOMAIN log /\ log[e].end
           /\ \A j \in Ends(Beyond) : e <= j
    BY <1>1, <2>1, NewCursorIs DEF Types, TypeOK
  <2> QED
    BY <2>1, <2>2 DEF Ends, Window
<1>4. PICK k \in i..e : k \in DOMAIN log /\ log[k].end /\ log[k].line = l
  <2>1. CASE log[e].line = l
    <3>1. e \in i..e
      BY <1>1, <1>2
    <3> QED
      BY <1>3, <2>1, <3>1
  <2>2. CASE log[e].line # l
    <3>1. i < e
      BY <1>1, <1>2, <2>2
    <3>2. PICK k \in i..(e - 1) : log[k].end /\ log[k].line = log[i].line
      BY <1>2, <1>3, <2>2, <3>1 DEF Shape
    <3>3. k \in i..e /\ k \in DOMAIN log
      BY SMTT(30), <1>1, <1>2, <1>3, <3>2
    <3> QED
      BY <1>2, <3>2, <3>3
  <2> QED
    BY <2>1, <2>2
<1>5. k \in Nat /\ Start < k /\ k <= e
  BY <1>1, <1>2
<1>6. PICK f \in PlacesOf(l) : log[f].part = 1
  BY DEF LossInv, Whole
<1>7. f \in DOMAIN log /\ log[f].line = l /\ Start < f /\ f \in Nat
  BY <1>1 DEF PlacesOf
<1>8. f <= k
  <2>1. ~(k < f)
    BY <1>4, <1>7 DEF Shape
  <2> QED
    BY <1>5, <1>7, <2>1
<1>9. CASE e <= Start + MaxBatch
  <2> DEFINE S == {j \in Window : j <= new_cursor}
  <2>1. f \in S /\ k \in S
    BY <1>1, <1>4, <1>5, <1>7, <1>8, <1>9 DEF Window
  <2>2. l \in LinesIn(S)
    BY <1>4, <2>1 DEF LinesIn
  <2> QED
    BY <1>4, <1>6, <1>7, <2>1, <2>2 DEF WholeIn
<1>10. CASE ~(e <= Start + MaxBatch)
  <2>0. /\ Ends(Window) = {} /\ Start + MaxBatch < e
        /\ \A j \in Ends(Beyond) : e <= j
    BY <1>3, <1>10
  <2>1. ASSUME NEW j \in DOMAIN log, log[j].end, Start < j PROVE e <= j
    <3>1. j \in Nat
      BY SMTT(30), <1>1
    <3>2. j \notin Window
      BY <2>0, <2>1 DEF Ends
    <3>3. Start + MaxBatch < j
      BY <1>1, <2>1, <3>1, <3>2 DEF Window
    <3>4. j \in Ends(Beyond)
      BY <2>1, <3>3 DEF Ends, Beyond
    <3> QED
      BY <2>0, <3>4
  <2>2. k = e
    <3>1. e <= k
      BY <1>4, <1>5, <2>1
    <3> QED
      BY <1>1, <1>5, <3>1
  <2> DEFINE b == Start + 1
  <2>3. b \in DOMAIN log /\ b < e /\ b \in Nat /\ Start < b
    BY <1>1, <1>3, <2>0
  <2>4. log[b].line = l
    <3>1. SUFFICES ASSUME log[b].line # log[e].line PROVE FALSE
      BY <1>4, <2>2
    <3>2. PICK j \in b..(e - 1) : log[j].end
      BY <1>3, <2>3, <3>1 DEF Shape
    <3>3. j \in DOMAIN log /\ Start < j /\ ~(e <= j)
      <4>1. e \in Nat /\ e <= Len(log) /\ b \in Nat /\ b = Start + 1
        BY SMTT(30), <1>1, <1>3
      <4>2. j \in b..(e - 1)
        BY <3>2
      <4> HIDE DEF e, b
      <4> QED
        BY SMTT(30), <1>1, <4>1, <4>2
    <3> QED
      BY <2>1, <3>2, <3>3
  <2>5. log[e].part = log[b].part + (e - b)
    BY <1>3, <1>4, <2>2, <2>3, <2>4 DEF Shape
  <2>6. log[b].part \in Nat \ {0} /\ log[e].part <= 2
    <3>1. log[b].part \in Nat \ {0}
      BY <1>1, <2>3, PlaceType
    <3>2. lines[log[e].line] # Junk
      BY <1>4, <2>2
    <3> QED
      BY <1>3, <3>1, <3>2 DEF Shape
  <2>7. e - b >= 2
    BY <1>1, <2>0
  <2> QED
    BY SMTT(30), <1>1, <2>3, <2>5, <2>6, <2>7
<1> QED
  BY <1>9, <1>10

LEMMA ReadLoss ==
  ASSUME Types, Types', Shape, CountInv, LossInv, read_batch
  PROVE  LossInv'
<1> DEFINE S == {i \in Window : i <= new_cursor}
<1>1. /\ UNCHANGED <<cursor, counted, file, log, lines, open>>
      /\ sweep'.pc = "trigger" /\ sweep'.batch = WholeIn(S)
      /\ sweep'.next = new_cursor /\ sweep'.of = file.log
      /\ fate'.gone = fate.gone /\ fate.skipped \subseteq fate'.skipped
      /\ Stale /\ Start # 0 => Uncounted({i \in DOMAIN log : i <= Start}) \subseteq fate'.skipped
  BY DEF read_batch, Then, Types, TypeOK, Sweep, Fate
<1>2. Start \in Nat /\ new_cursor \in Nat /\ DOMAIN log = 1..Len(log) /\ Len(log) \in Nat
      /\ cursor \in Nat
  BY NewCursorIs, PlaceType DEF Types, TypeOK
<1>3. Start <= cursor
  BY <1>2 DEF Start
<1>4. ASSUME NEW l \in 1..Len(lines), counted[l] = 0, lines[l] # Junk,
             l \notin fate'.gone \cup fate'.skipped
      PROVE  /\ \A i \in PlacesOf(l) : cursor < i \/ Stale
             /\ l \in WholeIn(S) \/ \A i \in PlacesOf(l) : new_cursor < i
  <2>1. \A i \in PlacesOf(l) : cursor < i \/ Stale
    BY <1>1, <1>4 DEF LossInv, Ahead
  <2>2. ASSUME NEW i \in PlacesOf(l) PROVE Start < i
    <3>1. i \in DOMAIN log /\ i \in Nat /\ i > 0 /\ log[i].line = l
      BY <1>2 DEF PlacesOf
    <3>2. CASE ~Stale
      BY <1>2, <1>3, <2>1, <3>1, <3>2
    <3>3. CASE Stale /\ Start = 0
      BY <1>2, <3>1, <3>3
    <3>4. CASE Stale /\ Start # 0
      <4>1. ~(i <= Start)
        <5>1. SUFFICES ASSUME i <= Start PROVE FALSE
          OBVIOUS
        <5>2. i \in {j \in DOMAIN log : j <= Start}
          BY <3>1, <5>1
        <5>3. l \in Uncounted({j \in DOMAIN log : j <= Start})
          BY <1>4, <3>1, <5>2 DEF Uncounted, LinesIn
        <5> QED
          BY <1>1, <1>4, <3>4, <5>3
      <4> QED
        BY <1>2, <3>1, <4>1
    <3> QED
      BY <3>2, <3>3, <3>4
  <2>3. ASSUME NEW i \in PlacesOf(l), ~(new_cursor < i)
        PROVE  l \in WholeIn(S)
    <3>1. i <= new_cursor
      BY <1>2, <2>3 DEF PlacesOf
    <3> QED
      BY <1>1, <1>4, <2>2, <3>1, ReadTakes
  <2> QED
    BY <2>1, <2>3
<1>5. Whole'
  BY <1>1 DEF LossInv, Whole, PlacesOf
<1>6. Ahead'
  <2> HIDE DEF S
  <2>1. Stale' = Stale /\ \A l : PlacesOf(l)' = PlacesOf(l)
    BY <1>1 DEF Stale, PlacesOf
  <2> QED
    BY <1>1, <1>4, <2>1 DEF Ahead
<1> QED
  BY <1>5, <1>6 DEF LossInv

\* The commit passes what it counts, and nothing behind the batch.
LEMMA CommitLoss ==
  ASSUME Types, Types', CountInv, LossInv, commit_batch
  PROVE  LossInv'
<1>1. /\ UNCHANGED <<log, lines, open, fate>>
      /\ cursor' = sweep.next /\ file'.log = file.log /\ file'.cursor = sweep.of
      /\ counted' = [l \in LineId |->
                       IF l \in sweep.batch THEN counted[l] + 1 ELSE counted[l]]
      /\ Batching /\ ~Batching'
  BY DEF commit_batch, Types, TypeOK, Sweep, Batching, Then
<1>2. \A l : PlacesOf(l)' = PlacesOf(l)
  BY <1>1 DEF PlacesOf
<1>3. ASSUME NEW l \in 1..Len(lines), counted'[l] = 0
      PROVE  counted[l] = 0 /\ l \notin sweep.batch
  BY <1>1, <1>3, LineNumbers
<1>4. Whole'
  BY <1>1, <1>2, <1>3 DEF LossInv, Whole
<1>5. ASSUME NEW l \in 1..Len(lines), counted'[l] = 0, lines[l] # Junk,
             l \notin fate.gone \cup fate.skipped, NEW i \in PlacesOf(l)
      PROVE  cursor' < i \/ Stale'
  <2>1. sweep.of = file.log => sweep.next < i
    BY <1>1, <1>3, <1>5 DEF LossInv, Ahead
  <2>2. i \in Nat /\ i > 0
    <3>1. DOMAIN log = 1..Len(log) /\ Len(log) \in Nat
      BY PlaceType DEF Types, TypeOK
    <3> QED
      BY <3>1 DEF PlacesOf
  <2> QED
    BY <1>1, <2>1, <2>2, FieldTypes DEF Stale
<1>6. Ahead'
  BY <1>1, <1>2, <1>5 DEF Ahead
<1> QED
  BY <1>4, <1>6 DEF LossInv

\* What steps that leave the log alone may do to the history
LEMMA OtherFate ==
  ASSUME Types, OtherStep \/ UNCHANGED vars
  PROVE  fate'.gone = fate.gone /\ fate.skipped \subseteq fate'.skipped
<1>0. fate \in Fate
  BY DEF Types, TypeOK
<1>1. CASE read_batch
  BY <1>0, <1>1 DEF read_batch, Fate
<1>2. CASE enqueue_prefill \/ \E a \in App : Capped(a) \/ TriggerGuards(a)
  BY <1>0, <1>2 DEF enqueue_prefill, Capped, TriggerGuards, Fate
<1>3. CASE UNCHANGED fate
  BY <1>3
<1> QED
  BY <1>1, <1>2, <1>3 DEF OtherStep, IntervalElapses, claim_sweep, Crash, EnqueueElsewhere,
     JobEnds, Ages, record_trigger, TriggerDone, commit_batch, maybe_truncate,
     ResetCursor, Truncate, vars

LEMMA StepLoss ==
  ASSUME Types, Types', Shape, CountInv, LossInv, [Next]_vars
  PROVE  LossInv'
<1>1. CASE ContinueLine \/ \E kind \in Kind : BeginLine(kind)
  BY <1>1, WriteLoss
<1>2. CASE Emptied /\ UNCHANGED <<lines, open>> /\ (Rotate \/ Truncate)
  BY <1>2, EmptiedLoss
<1>3. CASE OtherStep \/ UNCHANGED vars
  <2>0. /\ UNCHANGED <<log, lines, open>>
        /\ fate'.gone = fate.gone /\ fate.skipped \subseteq fate'.skipped
    BY <1>3, OtherKeepsLog, OtherFate
  <2>1. \A l : PlacesOf(l)' = PlacesOf(l)
    BY <2>0 DEF PlacesOf
  <2>2. CASE UNCHANGED <<cursor, counted, file>> /\ (SameBatch \/ ~Batching')
    <3>1. Whole'
      BY <2>0, <2>1, <2>2 DEF LossInv, Whole
    <3>2. Stale' = Stale
      BY <2>2 DEF Stale
    <3>3. Ahead'
      BY <2>0, <2>1, <2>2, <3>2 DEF LossInv, Ahead, SameBatch
    <3> QED
      BY <3>1, <3>3 DEF LossInv
  <2>3. CASE ResetCursor
    <3>1. UNCHANGED counted /\ cursor' = 0 /\ ~Batching'
      BY <2>3 DEF ResetCursor, NoSweep, Batching
    <3>2. Whole'
      BY <2>0, <2>1, <3>1 DEF LossInv, Whole
    <3>3. \A l : \A i \in PlacesOf(l) : 0 < i
      <4>1. DOMAIN log = 1..Len(log)
        BY PlaceType DEF Types, TypeOK
      <4> QED
        BY <4>1 DEF PlacesOf
    <3>4. Ahead'
      BY <2>0, <2>1, <3>1, <3>3 DEF Ahead
    <3> QED
      BY <3>2, <3>4 DEF LossInv
  <2> QED
    BY <1>3, <2>2, <2>3, OtherIs, ReadLoss, CommitLoss
<1> QED
  BY <1>1, <1>2, <1>3, Steps

\* No line gets lost unaccounted for, whatever is written, cut off, rotated or
\* crashed in between: what the cursor passes is counted in the same
\* transaction, is junk, or was on record as destroyed or skipped.
THEOREM NothingIsLost == Spec => []NothingLost
<1> DEFINE Inv == Types /\ Shape /\ CountInv /\ LossInv
<1>1. Init => Inv
  BY InitTypes, InitShape, InitCount, InitLoss
<1>2. Inv /\ [Next]_vars => Inv'
  BY StepTypes, StepShape, StepCount, StepLoss
<1>3. Inv => NothingLost
  <2> SUFFICES ASSUME Inv, NEW l \in 1..Len(lines), lines[l] # Junk,
                      counted[l] # 1, l \notin fate.gone \cup fate.skipped
               PROVE  Waiting(l)
    BY DEF NothingLost
  <2>1. counted[l] = 0
    <3>1. l \in LineId /\ counted[l] \in Nat
      BY LineNumbers
    <3>2. counted[l] > 0 => counted[l] = 1
      BY <3>1 DEF CountInv, CountedBehind
    <3> QED
      BY <3>1, <3>2
  <2>2. PlacesOf(l) # {}
    BY <2>1 DEF LossInv, Whole
  <2>3. \A i \in PlacesOf(l) : cursor < i \/ Stale
    BY <2>1 DEF LossInv, Ahead
  <2> QED
    BY <2>2, <2>3 DEF Waiting
<1> QED
  BY <1>1, <1>2, <1>3, PTL DEF Spec

-----------------------------------------------------------------------------
(* No miss forgotten.                                                      *)

\* Every miss of the batch in hand is decided on, on the list, or in hand
Decided ==
  Batching =>
    /\ \A l \in sweep.batch : lines[l] \in App =>
         \/ l \in fate.answered \cup fate.capped
         \/ lines[l] \in sweep.todo
         \/ sweep.pc = "enqueue" /\ sweep.cur = lines[l]
    /\ sweep.pc = "commit" => sweep.todo = {}

AnswerInv == Decided /\ MissAnswered

LEMMA InitAnswer == Init => AnswerInv
BY DEF Init, AnswerInv, Decided, MissAnswered, Batching, NoSweep

\* Steps that do not touch the sweep or the statistics
LEMMA QuietAnswer ==
  ASSUME Types, Types', CountInv, AnswerInv, UNCHANGED <<sweep, counted>>,
         fate'.answered = fate.answered, fate'.capped = fate.capped,
         \A l \in 1..Len(lines) : lines'[l] = lines[l]
  PROVE  AnswerInv'
<1>1. Decided'
  <2>1. Batching => \A l \in sweep.batch : lines'[l] = lines[l]
    BY DEF CountInv, BatchUncounted, Finished
  <2> QED
    BY <2>1 DEF AnswerInv, Decided, Batching
<1>2. MissAnswered'
  <2>1. ASSUME NEW l \in 1..Len(lines'), lines'[l] \in App, counted[l] > 0
        PROVE  l \in fate.answered \cup fate.capped
    <3>0. l \in LineId
      <4>1. Len(lines') \in Nat /\ Len(lines') <= MaxLines
        BY DEF Types, TypeOK
      <4> QED
        BY <2>1, <4>1 DEF LineId
    <3>1. l \in 1..Len(lines)
      BY <2>1, <3>0 DEF CountInv, CountedBehind, Finished
    <3> QED
      BY <2>1, <3>1 DEF AnswerInv, MissAnswered
  <2> QED
    BY <2>1 DEF MissAnswered
<1> QED
  BY <1>1, <1>2 DEF AnswerInv

\* Steps that leave no batch in hand
LEMMA DropAnswer ==
  ASSUME AnswerInv, UNCHANGED <<counted, lines>>, ~Batching',
         fate'.answered = fate.answered, fate'.capped = fate.capped
  PROVE  AnswerInv'
BY DEF AnswerInv, Decided, MissAnswered

\* The steps of the trigger: what leaves the list is decided on or in hand, and
\* what was in hand is decided on.
LEMMA TriggerAnswer ==
  ASSUME Types, AnswerInv, UNCHANGED <<lines, counted>>,
         \/ read_batch \/ enqueue_prefill \/ record_trigger \/ TriggerDone
         \/ \E a \in App : Capped(a) \/ TriggerGuards(a)
  PROVE  AnswerInv'
<1>0. /\ sweep \in Sweep /\ fate \in Fate
      /\ \A a : MissesOf(a) = {l \in sweep.batch : lines[l] = a}
  BY DEF Types, TypeOK, MissesOf
<1>1. MissAnswered'
  <2>1. fate.answered \cup fate.capped \subseteq fate'.answered \cup fate'.capped
    <3>1. CASE read_batch
      BY <1>0, <3>1 DEF Fate, read_batch
    <3>2. CASE enqueue_prefill
      BY <1>0, <3>2 DEF Fate, enqueue_prefill
    <3>3. CASE record_trigger \/ TriggerDone
      BY <3>3 DEF record_trigger, TriggerDone
    <3>4. ASSUME NEW a \in App, Capped(a)
          PROVE  fate.answered \cup fate.capped \subseteq fate'.answered \cup fate'.capped
      BY <1>0, <3>4 DEF Fate, Capped
    <3>5. ASSUME NEW a \in App, TriggerGuards(a)
          PROVE  fate.answered \cup fate.capped \subseteq fate'.answered \cup fate'.capped
      BY ZenonT(60), <1>0, <3>5 DEF Fate, TriggerGuards
    <3> QED
      BY <3>1, <3>2, <3>3, <3>4, <3>5
  <2> QED
    BY <2>1 DEF AnswerInv, MissAnswered
<1>2. CASE read_batch
  <2> DEFINE batch == WholeIn({i \in Window : i <= new_cursor})
  <2>1. /\ sweep'.batch = batch /\ sweep'.pc = "trigger"
        /\ sweep'.todo = {a \in App : \E l \in batch : lines[l] = a}
    BY <1>0, <1>2 DEF read_batch, Sweep, Then
  <2> HIDE DEF batch
  <2>2. Decided'
    BY <2>1 DEF Decided
  <2> QED
    BY <1>1, <2>2 DEF AnswerInv
<1>3. ASSUME NEW a \in App, Capped(a) PROVE Decided'
  <2>1. /\ sweep'.batch = sweep.batch /\ sweep'.pc = "trigger" /\ sweep.pc = "trigger"
        /\ sweep'.todo = sweep.todo \ {a}
        /\ fate'.answered = fate.answered /\ fate'.capped = fate.capped \cup MissesOf(a)
    BY <1>0, <1>3 DEF Capped, IsNext, Sweep, Fate
  <2> QED
    BY <1>0, <2>1 DEF AnswerInv, Decided, Batching
<1>4. ASSUME NEW a \in App, TriggerGuards(a) PROVE Decided'
  <2>1. sweep.pc = "trigger"
    BY <1>4 DEF TriggerGuards, IsNext
  <2>2. CASE /\ sweep' = [sweep EXCEPT !.todo = @ \ {a}]
             /\ fate' = [fate EXCEPT !.answered = @ \cup MissesOf(a)]
    <3>1. /\ sweep'.batch = sweep.batch /\ sweep'.pc = "trigger"
          /\ sweep'.todo = sweep.todo \ {a}
          /\ fate'.answered = fate.answered \cup MissesOf(a) /\ fate'.capped = fate.capped
      BY <1>0, <2>1, <2>2 DEF Sweep, Fate
    <3> QED
      BY <1>0, <2>1, <3>1 DEF AnswerInv, Decided, Batching
  <2>3. CASE /\ sweep' = [sweep EXCEPT !.todo = @ \ {a}, !.pc = "enqueue", !.cur = a,
                                       !.triggered = @ + 1]
             /\ UNCHANGED fate
    <3>1. /\ sweep'.batch = sweep.batch /\ sweep'.pc = "enqueue" /\ sweep'.cur = a
          /\ sweep'.todo = sweep.todo \ {a}
      BY <1>0, <2>3 DEF Sweep
    <3> QED
      BY <2>1, <2>3, <3>1 DEF AnswerInv, Decided, Batching
  <2> QED
    BY <1>4, <2>2, <2>3 DEF TriggerGuards
<1>5. CASE enqueue_prefill
  <2>1. /\ sweep'.batch = sweep.batch /\ sweep'.pc = "record" /\ sweep.pc = "enqueue"
        /\ sweep'.todo = sweep.todo /\ sweep'.cur = sweep.cur
        /\ fate'.answered = fate.answered \cup MissesOf(sweep.cur)
        /\ fate'.capped = fate.capped
    BY <1>0, <1>5 DEF enqueue_prefill, Sweep, Fate
  <2>2. Decided'
    BY <1>0, <2>1 DEF AnswerInv, Decided, Batching
  <2> QED
    BY <1>1, <2>2 DEF AnswerInv
<1>6. CASE record_trigger
  <2>1. /\ sweep'.batch = sweep.batch /\ sweep'.pc = "trigger" /\ sweep.pc = "record"
        /\ sweep'.todo = sweep.todo /\ UNCHANGED fate
    BY <1>0, <1>6 DEF record_trigger, Sweep
  <2>2. Decided'
    BY <2>1 DEF AnswerInv, Decided, Batching
  <2> QED
    BY <1>1, <2>2 DEF AnswerInv
<1>7. CASE TriggerDone
  <2>1. /\ sweep'.batch = sweep.batch /\ sweep'.pc = "commit" /\ sweep.pc = "trigger"
        /\ sweep'.todo = {} /\ sweep.todo = {} /\ UNCHANGED fate
    BY <1>0, <1>7 DEF TriggerDone, Sweep, Then
  <2>2. Decided'
    BY <2>1 DEF AnswerInv, Decided, Batching
  <2> QED
    BY <1>1, <2>2 DEF AnswerInv
<1> QED
  BY <1>1, <1>2, <1>3, <1>4, <1>5, <1>6, <1>7 DEF AnswerInv

\* The commit comes when the list is empty and nothing is in hand.
LEMMA CommitAnswer ==
  ASSUME Types, Types', AnswerInv, commit_batch
  PROVE  AnswerInv'
<1>1. /\ UNCHANGED <<lines, fate>>
      /\ counted' = [l \in LineId |->
                       IF l \in sweep.batch THEN counted[l] + 1 ELSE counted[l]]
      /\ sweep.pc = "commit" /\ Batching /\ ~Batching'
  BY DEF commit_batch, Types, TypeOK, Sweep, Batching, Then
<1>2. ASSUME NEW l \in 1..Len(lines), lines[l] \in App, counted'[l] > 0
      PROVE  l \in fate.answered \cup fate.capped
  <2>1. l \in LineId
    BY LineNumbers
  <2>2. CASE l \in sweep.batch
    <3>1. lines[l] \notin sweep.todo /\ sweep.pc # "enqueue"
      BY <1>1 DEF AnswerInv, Decided
    <3> QED
      BY <1>1, <1>2, <2>2, <3>1 DEF AnswerInv, Decided
  <2>3. CASE l \notin sweep.batch
    BY <1>1, <1>2, <2>1, <2>3 DEF AnswerInv, MissAnswered
  <2> QED
    BY <2>2, <2>3
<1> QED
  BY <1>1, <1>2 DEF AnswerInv, Decided, MissAnswered

LEMMA StepAnswer ==
  ASSUME Types, Types', Shape, CountInv, AnswerInv, [Next]_vars
  PROVE  AnswerInv'
<1>0. fate \in Fate /\ sweep \in Sweep
  BY DEF Types, TypeOK
<1>1. CASE ContinueLine \/ \E kind \in Kind : BeginLine(kind)
  <2>1. /\ UNCHANGED <<sweep, counted, fate>>
        /\ \A l \in 1..Len(lines) : lines'[l] = lines[l]
    BY <1>1, WriteIs
  <2> QED
    BY <2>1, QuietAnswer
<1>2. CASE Emptied /\ UNCHANGED <<lines, open>> /\ (Rotate \/ Truncate)
  <2>1. fate'.answered = fate.answered /\ fate'.capped = fate.capped
    BY <1>0, <1>2 DEF Emptied, Fate
  <2>2. CASE Rotate
    BY <1>2, <2>1, <2>2, QuietAnswer DEF Rotate
  <2>3. CASE Truncate
    <3>1. sweep'.pc = "reset" \/ sweep' = NoSweep
      BY <1>0, <2>3 DEF Truncate, Sweep
    <3>2. ~Batching' /\ UNCHANGED counted
      BY <2>3, <3>1 DEF Truncate, Batching, NoSweep
    <3> QED
      BY <1>2, <2>1, <3>2, DropAnswer
  <2> QED
    BY <1>2, <2>2, <2>3
<1>3. CASE OtherStep \/ UNCHANGED vars
  <2>0. UNCHANGED <<log, lines, open>>
    BY <1>3, OtherKeepsLog
  <2>1. CASE IntervalElapses \/ UNCHANGED vars
             \/ \E a \in App : EnqueueElsewhere(a) \/ JobEnds(a) \/ Ages(a)
    <3>1. UNCHANGED <<sweep, counted, fate>>
      BY <2>1 DEF IntervalElapses, vars, EnqueueElsewhere, JobEnds, Ages
    <3> QED
      BY <2>0, <3>1, QuietAnswer
  <2>2. CASE claim_sweep \/ Crash \/ maybe_truncate \/ ResetCursor
             \/ (Truncate /\ sweep' = NoSweep /\ UNCHANGED <<log, file, fate>>)
    <3>1. UNCHANGED <<counted, fate>>
      BY <2>2 DEF claim_sweep, Crash, maybe_truncate, ResetCursor, Truncate
    <3>2. sweep'.pc \in {"idle", "read", "truncate"}
      <4>1. CASE claim_sweep
        BY <4>1 DEF claim_sweep, NoSweep
      <4>2. CASE maybe_truncate
        BY <1>0, <4>2 DEF maybe_truncate, NoSweep, Sweep
      <4>3. CASE sweep' = NoSweep
        BY <4>3 DEF NoSweep
      <4> QED
        BY <2>2, <4>1, <4>2, <4>3 DEF Crash, ResetCursor
    <3> QED
      BY <2>0, <3>1, <3>2, DropAnswer DEF Batching
  <2>3. CASE \/ read_batch \/ enqueue_prefill \/ record_trigger \/ TriggerDone
             \/ \E a \in App : Capped(a) \/ TriggerGuards(a)
    <3>1. UNCHANGED counted
      BY <2>3 DEF read_batch, enqueue_prefill, record_trigger, TriggerDone, Capped,
                  TriggerGuards
    <3> QED
      BY <2>0, <2>3, <3>1, TriggerAnswer
  <2> QED
    BY <1>3, <2>1, <2>2, <2>3, CommitAnswer DEF OtherStep
<1> QED
  BY <1>1, <1>2, <1>3, Steps

\* What the statistics tell of has been decided on, whatever crashed in between:
\* the trigger works through its list before the commit, and a sweep that ends
\* early counts nothing.
THEOREM MissesAreAnswered == Spec => []MissAnswered
<1> DEFINE Inv == Types /\ Shape /\ CountInv /\ AnswerInv
<1>1. Init => Inv
  BY InitTypes, InitShape, InitCount, InitAnswer
<1>2. Inv /\ [Next]_vars => Inv'
  BY StepTypes, StepShape, StepCount, StepAnswer
<1>3. Inv => MissAnswered
  BY DEF AnswerInv
<1> QED
  BY <1>1, <1>2, <1>3, PTL DEF Spec

-----------------------------------------------------------------------------
(* What a truncation may destroy.                                          *)

\* Until the truncation the cursor stays where the size was compared with it
Compared == sweep.pc = "truncate" => sweep.next = cursor

LEMMA InitCompared == Init => Compared
BY DEF Init, Compared, NoSweep

LEMMA StepCompared == Types /\ Compared /\ [Next]_vars => Compared'
<1> SUFFICES ASSUME Types, Compared, [Next]_vars PROVE Compared'
  OBVIOUS
<1>0. sweep \in Sweep
  BY DEF Types, TypeOK
<1>1. CASE maybe_truncate
  <2>1. sweep'.pc = "truncate" => sweep'.next = Len(log) /\ Len(log) = cursor
    BY <1>0, <1>1 DEF maybe_truncate, TruncateDue, NoSweep, Sweep
  <2>2. UNCHANGED cursor
    BY <1>1 DEF maybe_truncate
  <2> QED
    BY <2>1, <2>2 DEF Compared
<1>2. CASE \/ claim_sweep \/ Crash \/ Truncate \/ ResetCursor \/ enqueue_prefill
           \/ record_trigger \/ TriggerDone \/ read_batch \/ commit_batch
           \/ \E a \in App : Capped(a) \/ TriggerGuards(a)
  <2>1. CASE claim_sweep \/ Crash \/ Truncate \/ ResetCursor
    BY <1>0, <2>1 DEF claim_sweep, Crash, Truncate, ResetCursor, NoSweep, Sweep, Compared
  <2>2. CASE enqueue_prefill \/ record_trigger
    BY <1>0, <2>2 DEF enqueue_prefill, record_trigger, Sweep, Compared
  <2>3. CASE TriggerDone \/ read_batch \/ commit_batch
    <3>1. Then("read") = "trigger" /\ Then("trigger") = "commit" /\ Then("commit") = "check"
      BY DEF Then
    <3>2. sweep'.pc # "truncate"
      BY <1>0, <2>3, <3>1 DEF TriggerDone, read_batch, commit_batch, Sweep
    <3> QED
      BY <3>2 DEF Compared
  <2>4. CASE \E a \in App : Capped(a) \/ TriggerGuards(a)
    BY <1>0, <2>4 DEF Capped, TriggerGuards, IsNext, Sweep, Compared
  <2> QED
    BY <1>2, <2>1, <2>2, <2>3, <2>4
<1>3. CASE \/ ContinueLine \/ \E kind \in Kind : BeginLine(kind)
           \/ Rotate \/ IntervalElapses \/ UNCHANGED vars
           \/ \E a \in App : EnqueueElsewhere(a) \/ JobEnds(a) \/ Ages(a)
  <2>1. UNCHANGED <<sweep, cursor>>
    BY <1>3 DEF ContinueLine, BeginLine, Rotate, IntervalElapses, EnqueueElsewhere,
       JobEnds, Ages, vars
  <2> QED
    BY <2>1 DEF Compared
<1> QED
  BY <1>1, <1>2, <1>3 DEF Next, SweepStep

\* What a step adds to the destroyed lines was in the log, uncounted, and an
\* operator or the sweep has emptied it.
LEMMA Destroyed ==
  ASSUME Types, Shape, [Next]_vars, NEW l \in fate'.gone \ fate.gone
  PROVE  /\ l \in 1..Len(lines) /\ counted[l] = 0 /\ lines[l] # Junk
         /\ PlacesOf(l) # {}
         /\ Rotate \/ sweep.pc = "truncate"
<1>1. CASE ContinueLine \/ \E kind \in Kind : BeginLine(kind)
  <2>1. UNCHANGED fate
    BY <1>1 DEF ContinueLine, BeginLine
  <2> QED
    BY <2>1
<1>2. CASE OtherStep \/ UNCHANGED vars
  BY <1>2, OtherFate
<1>3. CASE Emptied /\ (Rotate \/ Truncate)
  <2>1. l \in Uncounted(DOMAIN log)
    BY <1>3 DEF Emptied, Types, TypeOK, Fate
  <2>2. PICK i \in DOMAIN log : log[i].line = l
    BY <2>1 DEF Uncounted, LinesIn
  <2>3. l \in 1..Len(lines)
    <3>1. log[i] \in Chunk
      BY PlaceType DEF Types, TypeOK
    <3>2. l \in LineId /\ l <= Len(lines)
      BY <2>2, <3>1 DEF Shape, Chunk
    <3> QED
      BY <3>2, FieldTypes DEF LineId
  <2>4. PlacesOf(l) # {}
    BY <2>2 DEF PlacesOf
  <2>5. Rotate \/ sweep.pc = "truncate"
    BY <1>3 DEF Truncate
  <2> QED
    BY <2>1, <2>3, <2>4, <2>5 DEF Uncounted
<1> QED
  BY <1>1, <1>2, <1>3, Steps

\* A truncation destroys no unread line but what has come behind the place where
\* the size was compared with the cursor, and nothing else but the operator
\* destroys any: OnlyUnreadGoes for every instance.
THEOREM TruncationSparesTheRead == Spec => OnlyUnreadGoes
<1> DEFINE Inv == Types /\ Shape /\ CountInv /\ LossInv /\ Compared
<1>1. Init => Inv
  BY InitTypes, InitShape, InitCount, InitLoss, InitCompared
<1>2. Inv /\ [Next]_vars => Inv'
  BY StepTypes, StepShape, StepCount, StepLoss, StepCompared
<1>3. ASSUME Inv, [Next]_vars, NEW l \in fate'.gone \ fate.gone
      PROVE  \/ used'.rotation # used.rotation
             \/ l \in fate.skipped
             \/ sweep.pc = "truncate" /\ (Stale \/ \E i \in PlacesOf(l) : sweep.next < i)
  <2>1. CASE Rotate
    <3>1. /\ used \in [{"crash", "rotation", "expiry"} -> Nat]
          /\ used' = [used EXCEPT !["rotation"] = used["rotation"] + 1]
      BY <1>3, <2>1 DEF Rotate, Spend, Types, TypeOK
    <3>2. used'.rotation = used.rotation + 1 /\ used.rotation \in Nat
      BY <3>1
    <3> QED
      BY <3>2
  <2>2. CASE sweep.pc = "truncate" /\ l \notin fate.skipped
    <3>1. /\ l \in 1..Len(lines) /\ counted[l] = 0 /\ lines[l] # Junk
          /\ PlacesOf(l) # {} /\ l \notin fate.gone
      BY <1>3, Destroyed
    <3>2. \A i \in PlacesOf(l) : cursor < i \/ Stale
      BY <1>3, <2>2, <3>1 DEF LossInv, Ahead
    <3>3. sweep.next = cursor
      BY <1>3, <2>2 DEF Compared
    <3> QED
      BY <2>2, <3>1, <3>2, <3>3
  <2> QED
    BY <1>3, <2>1, <2>2, Destroyed
<1>4. Inv /\ [Next]_vars =>
        [\A l \in fate'.gone \ fate.gone :
           \/ used'.rotation # used.rotation
           \/ l \in fate.skipped
           \/ sweep.pc = "truncate" /\ (Stale \/ \E i \in PlacesOf(l) : sweep.next < i)]_vars
  BY <1>3
<1> QED
  BY <1>1, <1>2, <1>4, PTL DEF Spec, OnlyUnreadGoes
=============================================================================
