--------------------------- MODULE Autonomous_proofs ---------------------------
(***************************************************************************)
(* The promises of the autonomous daemon, proved for every queue, summary  *)
(* and action limit, every number of wakes and every schedule of crashes.  *)
(***************************************************************************)
EXTENDS Autonomous, SequenceTheorems, FiniteSetTheorems, TLAPS

USE AutonomousAssumption, NoDecisionAssumption

\* The invariant in groups that few variables decide.
QueueTypes ==
    /\ sequence \in Nat
    /\ events \in Seq(Event)
    /\ receipts \in SUBSET Nat
    /\ decision \in Decision \cup {None}
    /\ unfinished \in SUBSET [event : Nat, index : Nat, status : Statuses]
    /\ summaries \in Seq(Nat)

QueueInv == QueueTypes /\ StateValidates /\ Ordered

CallTypes ==
    /\ executing \in SUBSET (Nat \X Nat)
    /\ acted \in BOOLEAN
    /\ timedOut \in SUBSET Nat

CallInv ==
    CallTypes /\ ProgressKept /\ TimeoutEndsMutations /\ OpenLast /\ TimeoutsBlock /\ ActedOnRecord

Rounds == [at : {"idle", "running", "done", "failed"}, event : Nat, aborted : BOOLEAN]
Boots == {"down", "locked", "initialized", "activated", "up", "halting", "stopping"}
Ticks == {"control", "poll", "wakes", "begin"}

ProcessInv ==
    /\ control \in Controls
    /\ boot \in Boots
    /\ tick \in Ticks
    /\ pollFailures \in Nat
    /\ round \in Rounds
    /\ RoundsExact

WakeInv ==
    /\ wakes \in [Revisions -> {"unused", "active", "spent", "gone"}]
    /\ due \in SUBSET Revisions
    /\ fired \in [Revisions -> Nat]
    /\ WakeFiresOnce /\ SpentWakes

\* The invariant in four groups, by the variables that they read.
LEMMA InvGroups == AutonomousInv <=> QueueInv /\ CallInv /\ ProcessInv /\ WakeInv
  BY DEF AutonomousInv, AutonomousTypeOK, QueueInv, QueueTypes, CallInv, CallTypes, ProcessInv, WakeInv,
     Rounds, Boots, Ticks

\* The same for the next state.
LEMMA InvGroupsNext == ASSUME QueueInv', CallInv', ProcessInv', WakeInv' PROVE AutonomousInv'
  BY DEF AutonomousInv, AutonomousTypeOK, QueueInv, QueueTypes, CallInv, CallTypes, ProcessInv, WakeInv,
     Rounds, Boots, Ticks

-----------------------------------------------------------------------------
(* Sequences *)

\* A function over 1..n is a sequence.
LEMMA FunctionIsSeq ==
    ASSUME NEW S, NEW n \in Nat, NEW f \in [1..n -> S]
    PROVE  f \in Seq(S) /\ Len(f) = n
  OBVIOUS

\* Sequences of numbers, one after the other.
LEMMA NumbersConcat ==
    \A x, y \in Seq(Nat) :
        /\ x \o y \in Seq(Nat) /\ Len(x \o y) = Len(x) + Len(y)
        /\ \A i \in 1..Len(x) + Len(y) : (x \o y)[i] = IF i <= Len(x) THEN x[i] ELSE y[i - Len(x)]
  BY ConcatProperties

\* The ids of queued events, in order.
LEMMA IdSeqProperties ==
    ASSUME NEW s \in Seq(Event)
    PROVE  /\ IdSeq(s) \in Seq(Nat)
           /\ Len(IdSeq(s)) = Len(s)
           /\ \A k \in 1..Len(s) : IdSeq(s)[k] = s[k].id /\ s[k].id \in Nat /\ s[k] \in Event
<1>1. Len(s) \in Nat /\ \A k \in 1..Len(s) : s[k] \in Event
  BY LenProperties, ElementOfSeq
<1>2. \A k \in 1..Len(s) : s[k].id \in Nat
  BY <1>1 DEF Event
<1>3. IdSeq(s) \in [1..Len(s) -> Nat]
  BY <1>2 DEF IdSeq
<1>4. IdSeq(s) \in Seq(Nat) /\ Len(IdSeq(s)) = Len(s)
  BY <1>1, <1>3, FunctionIsSeq
<1> QED BY <1>1, <1>2, <1>4 DEF IdSeq

\* What is kept of a list of summaries.
LEMMA LastOfProperties ==
    ASSUME NEW s \in Seq(Nat), NEW n \in Nat \ {0}
    PROVE  /\ LastOf(s, n) \in Seq(Nat)
           /\ Len(LastOf(s, n)) <= n
           /\ Members(LastOf(s, n)) \subseteq Members(s)
<1>0. Len(s) \in Nat /\ \A k \in 1..Len(s) : s[k] \in Nat
  BY LenProperties, ElementOfSeq
<1>1. CASE Len(s) > n
  <2> DEFINE a == Len(s) - n + 1
             t == SubSeq(s, a, Len(s))
  <2>1. a \in 1..Len(s) /\ Len(s) - a + 1 = n
    BY <1>0, <1>1
  <2>2. t \in Seq(Nat) /\ Len(t) = n /\ \A i \in 1..n : t[i] = s[a + i - 1]
    <3>1. a \in Int /\ Len(s) \in Int /\ a <= Len(s) /\ \A i \in a..Len(s) : s[i] \in Nat
      BY <1>0, <2>1
    <3> HIDE DEF a
    <3>2. /\ t \in Seq(Nat)
          /\ Len(t) = IF a <= Len(s) THEN Len(s) - a + 1 ELSE 0
          /\ \A i \in 1..Len(s) - a + 1 : t[i] = s[a + i - 1]
      BY <3>1, SubSeqProperties
    <3> QED BY <2>1, <3>1, <3>2
  <2>3. \A i \in 1..n : a + i - 1 \in 1..Len(s)
    BY <1>0, <2>1
  <2>4. LastOf(s, n) = t
    BY <1>1 DEF LastOf
  <2> HIDE DEF a, t
  <2>5. Members(t) \subseteq Members(s)
    BY <2>2, <2>3 DEF Members
  <2> QED BY <2>2, <2>4, <2>5
<1>2. CASE ~(Len(s) > n)
  BY <1>0, <1>2 DEF LastOf
<1> QED BY <1>1, <1>2

-----------------------------------------------------------------------------
(* Events *)

\* What enqueueAutonomousEvent does to the queue: n new events at its end.
LEMMA EnqueueEffect ==
    ASSUME QueueInv, NEW ks \in Seq(EventKinds), Enqueue(ks)
    PROVE  \E n \in Nat :
              /\ sequence' = sequence + n
              /\ events' \in Seq(Event)
              /\ Len(events) \in Nat /\ Len(events') = Len(events) + n /\ Len(events') <= QueueLimit
              /\ \A k \in 1..Len(events) : events'[k] = events[k]
              /\ \A k \in Len(events) + 1 .. Len(events) + n :
                    events'[k].id = sequence + k - Len(events) - 1
              /\ receipts' = receipts \cup (sequence .. sequence + n - 1)
<1> DEFINE room == QueueLimit - Len(events)
           n == IF Len(ks) <= room THEN Len(ks) ELSE room
           new == [j \in 1..n |-> [id |-> sequence + j - 1, kind |-> ks[j]]]
<1>1. /\ sequence \in Nat /\ events \in Seq(Event) /\ Len(events) \in Nat /\ Len(events) <= QueueLimit
      /\ Len(ks) \in Nat /\ \A k \in 1..Len(ks) : ks[k] \in EventKinds
  BY LenProperties, ElementOfSeq DEF QueueInv, QueueTypes, StateValidates
<1>2. n \in Nat /\ n <= room /\ n <= Len(ks)
  BY <1>1
<1>3. /\ events' = events \o new
      /\ receipts' = receipts \cup (sequence .. sequence + n - 1)
      /\ sequence' = sequence + n
  BY DEF Enqueue
<1> HIDE DEF n
<1>4. new \in [1..n -> Event]
  <2>1. \A j \in 1..n : sequence + j - 1 \in Nat /\ ks[j] \in EventKinds
    BY <1>1, <1>2
  <2>2. \A j \in 1..n : [id |-> sequence + j - 1, kind |-> ks[j]] \in Event
    BY <2>1 DEF Event
  <2> QED BY <2>2
<1>5. /\ new \in Seq(Event) /\ Len(new) = n
      /\ \A j \in 1..n : new[j].id = sequence + j - 1
  BY <1>2, <1>4, FunctionIsSeq
<1> HIDE DEF new
<1>6. /\ events' \in Seq(Event) /\ Len(events') = Len(events) + n
      /\ \A k \in 1..Len(events) + n :
            events'[k] = IF k <= Len(events) THEN events[k] ELSE new[k - Len(events)]
  <2>1. /\ events \o new \in Seq(Event) /\ Len(events \o new) = Len(events) + Len(new)
        /\ \A k \in 1..Len(events) + Len(new) :
              (events \o new)[k] = IF k <= Len(events) THEN events[k] ELSE new[k - Len(events)]
    <3>1. \A x, y \in Seq(Event) :
             /\ x \o y \in Seq(Event) /\ Len(x \o y) = Len(x) + Len(y)
             /\ \A i \in 1..Len(x) + Len(y) : (x \o y)[i] = IF i <= Len(x) THEN x[i] ELSE y[i - Len(x)]
      BY ConcatProperties
    <3> QED BY <1>1, <1>5, <3>1, Zenon
  <2> QED BY <1>3, <1>5, <2>1
<1>7. \A k \in 1..Len(events) : events'[k] = events[k]
  BY <1>1, <1>2, <1>6
<1>8. ASSUME NEW k \in Len(events) + 1 .. Len(events) + n
      PROVE  events'[k].id = sequence + k - Len(events) - 1
  <2>1. k - Len(events) \in 1..n /\ k \in 1..Len(events) + n /\ ~(k <= Len(events))
    BY <1>1, <1>2
  <2>2. events'[k] = new[k - Len(events)]
    BY <1>6, <2>1
  <2> QED BY <1>1, <1>5, <2>1, <2>2
<1>9. Len(events') <= QueueLimit
  BY <1>1, <1>2, <1>6
<1> QED BY <1>1, <1>2, <1>3, <1>6, <1>7, <1>8, <1>9

\* New events keep the stored state valid.
LEMMA EnqueueKeeps ==
    ASSUME QueueInv, NEW ks \in Seq(EventKinds), Enqueue(ks),
           UNCHANGED <<decision, unfinished, summaries>>
    PROVE  QueueInv'
<1>1. PICK n \in Nat :
              /\ sequence' = sequence + n
              /\ events' \in Seq(Event)
              /\ Len(events) \in Nat /\ Len(events') = Len(events) + n /\ Len(events') <= QueueLimit
              /\ \A k \in 1..Len(events) : events'[k] = events[k]
              /\ \A k \in Len(events) + 1 .. Len(events) + n :
                    events'[k].id = sequence + k - Len(events) - 1
              /\ receipts' = receipts \cup (sequence .. sequence + n - 1)
  BY EnqueueEffect
<1>2. QueueTypes /\ StateValidates /\ Ordered /\ sequence \in Nat /\ events \in Seq(Event)
  BY DEF QueueInv, QueueTypes
<1>3. \A k \in 1..Len(events) : events[k].id \in Nat /\ events[k].id < sequence
  BY <1>2, IdSeqProperties DEF Ordered
<1>4. ASSUME NEW k \in 1..Len(events')
      PROVE  \/ k \in 1..Len(events) /\ events'[k].id = events[k].id
             \/ /\ k \in Len(events) + 1 .. Len(events) + n
                /\ events'[k].id = sequence + k - Len(events) - 1
  BY <1>1
<1>5. \A k \in 1..Len(events') : events'[k].id \in Nat /\ events'[k].id < sequence'
  <2> SUFFICES ASSUME NEW k \in 1..Len(events')
               PROVE  events'[k].id \in Nat /\ events'[k].id < sequence'
    OBVIOUS
  <2>1. CASE k \in 1..Len(events)
    BY <1>1, <1>2, <1>3, <2>1
  <2>2. CASE k \in Len(events) + 1 .. Len(events) + n
    BY <1>1, <1>2, <2>2
  <2> QED BY <1>4, <2>1, <2>2
<1>6. \A i, j \in 1..Len(events') : i < j => events'[i].id < events'[j].id
  <2> SUFFICES ASSUME NEW i \in 1..Len(events'), NEW j \in 1..Len(events'), i < j
               PROVE  events'[i].id < events'[j].id
    OBVIOUS
  <2>1. CASE j \in 1..Len(events)
    <3>1. i \in 1..Len(events)
      BY <1>1, <2>1
    <3> QED BY <1>1, <1>2, <2>1, <3>1 DEF Ordered
  <2>2. CASE j \in Len(events) + 1 .. Len(events) + n
    <3>1. events'[j].id = sequence + j - Len(events) - 1
      BY <1>1, <2>2
    <3>2. CASE i \in 1..Len(events)
      BY <1>1, <1>2, <1>3, <2>2, <3>1, <3>2
    <3>3. CASE i \in Len(events) + 1 .. Len(events) + n
      <4>1. events'[i].id = sequence + i - Len(events) - 1
        BY <1>1, <3>3
      <4> QED BY <1>1, <1>2, <2>2, <3>1, <3>3, <4>1
    <3> QED BY <1>4, <3>2, <3>3
  <2> QED BY <1>4, <2>1, <2>2
<1>7. \A x \in Nat : x < sequence /\ x \notin Ids(events) => x \notin Ids(events')
  <2> SUFFICES ASSUME NEW x \in Nat, x < sequence, x \notin Ids(events), NEW k \in 1..Len(events')
               PROVE  x # events'[k].id
    BY DEF Ids
  <2>1. CASE k \in 1..Len(events)
    BY <1>1, <2>1 DEF Ids
  <2>2. CASE k \in Len(events) + 1 .. Len(events) + n
    <3>1. events'[k].id = sequence + k - Len(events) - 1
      BY <1>1, <2>2
    <3> QED BY <1>1, <1>2, <2>2, <3>1
  <2> QED BY <1>4, <2>1, <2>2
<1>8. QueueTypes'
  <2>1. receipts' \in SUBSET Nat
    BY <1>1, <1>2 DEF QueueTypes
  <2> QED BY <1>1, <1>2, <2>1 DEF QueueTypes
<1>9. \A u \in unfinished : u.event \in Nat
  BY <1>2 DEF QueueTypes
<1>10. decision # None => decision.event \in Nat
  BY <1>2 DEF QueueTypes, Decision
<1>11. Ordered'
  <2>1. decision # None => \A i \in 1..Len(events') : decision.event < events'[i].id
    <3> SUFFICES ASSUME decision # None, NEW i \in 1..Len(events')
                 PROVE  decision.event < events'[i].id
      OBVIOUS
    <3>1. /\ decision.event \in Nat /\ decision.event < sequence
          /\ \A k \in 1..Len(events) : decision.event < events[k].id
      BY <1>2, <1>10 DEF Ordered
    <3>2. CASE i \in 1..Len(events) /\ events'[i].id = events[i].id
      BY <3>1, <3>2
    <3>3. CASE i \in Len(events) + 1 .. Len(events) + n /\ events'[i].id = sequence + i - Len(events) - 1
      BY <1>1, <1>2, <3>1, <3>3
    <3> QED BY <1>4, <3>2, <3>3
  <2>2. \A u \in unfinished : u.event < sequence' /\ u.event \notin Ids(events')
    BY <1>1, <1>2, <1>7, <1>9 DEF Ordered
  <2>3. decision # None => decision.event < sequence'
    BY <1>1, <1>2, <1>10 DEF Ordered
  <2> QED BY <1>5, <1>6, <2>1, <2>2, <2>3 DEF Ordered
<1>12. StateValidates'
  <2>1. Len(events') <= QueueLimit /\ Len(summaries') <= SummaryLimit
    BY <1>1, <1>2 DEF StateValidates
  <2>2. receipts' \subseteq 0..sequence' - 1
    BY <1>1, <1>2 DEF StateValidates
  <2>3. Ids(events') \subseteq receipts'
    <3> SUFFICES ASSUME NEW k \in 1..Len(events') PROVE events'[k].id \in receipts'
      BY DEF Ids
    <3>1. CASE k \in 1..Len(events)
      BY <1>1, <1>2, <3>1 DEF StateValidates, Ids
    <3>2. CASE k \in Len(events) + 1 .. Len(events) + n
      BY <1>1, <1>2, <3>2
    <3> QED BY <1>4, <3>1, <3>2
  <2>4. Members(summaries') \subseteq receipts'
    BY <1>1, <1>2 DEF StateValidates
  <2>5. \A i, j \in 1..Len(events') : events'[i].id = events'[j].id => i = j
    BY <1>1, <1>5, <1>6
  <2>6. decision # None => decision.event \in receipts' \ Ids(events')
    BY <1>1, <1>2, <1>7, <1>10 DEF StateValidates, Ordered
  <2> QED BY <1>2, <2>1, <2>2, <2>3, <2>4, <2>5, <2>6 DEF StateValidates
<1> QED BY <1>8, <1>11, <1>12 DEF QueueInv

-----------------------------------------------------------------------------
(* Decisions *)

\* finishDecision keeps the stored state valid, and what is still executing on record.
LEMMA FinishKeeps ==
    ASSUME QueueInv, CallInv, decision # None, FinishDecision,
           UNCHANGED <<events, sequence, executing>>
    PROVE  QueueInv' /\ CallInv'
<1>0. QueueTypes /\ StateValidates /\ Ordered /\ CallTypes /\ ProgressKept /\ OpenLast
  BY DEF QueueInv, CallInv
<1>1. /\ decision \in Decision /\ decision.event \in Nat /\ decision.actions \in Seq(Statuses)
      /\ Len(decision.actions) \in Nat
      /\ \A k \in 1..Len(decision.actions) : decision.actions[k] \in Statuses
  <2>1. decision \in Decision /\ decision.event \in Nat /\ decision.actions \in Seq(Statuses)
    BY <1>0 DEF QueueTypes, Decision
  <2> QED BY <2>1, LenProperties, ElementOfSeq
<1>2. /\ unfinished' = unfinished \cup UnfinishedOf(decision)
      /\ summaries' = LastOf(Append(summaries, decision.event), SummaryLimit)
      /\ receipts' = receipts \cap (Ids(events) \cup Members(summaries'))
      /\ decision' = None /\ acted' = FALSE /\ timedOut' = {}
  BY DEF FinishDecision, Compacted
<1>3. /\ summaries' \in Seq(Nat) /\ Len(summaries') <= SummaryLimit
      /\ Members(summaries') \subseteq receipts
  <2> DEFINE s == Append(summaries, decision.event)
  <2>1. summaries \in Seq(Nat) /\ Len(summaries) \in Nat
    BY <1>0, LenProperties DEF QueueTypes
  <2>2. /\ s \in Seq(Nat) /\ Len(s) = Len(summaries) + 1
        /\ \A i \in 1..Len(summaries) : s[i] = summaries[i]
        /\ s[Len(summaries) + 1] = decision.event
    BY <1>1, <2>1, AppendProperties
  <2>3. \A i \in 1..Len(s) : i \in 1..Len(summaries) \/ i = Len(summaries) + 1
    BY <2>1, <2>2
  <2>4. Members(s) \subseteq receipts
    <3>1. decision.event \in receipts /\ Members(summaries) \subseteq receipts
      BY <1>0 DEF StateValidates
    <3> HIDE DEF s
    <3> QED BY <2>2, <2>3, <3>1 DEF Members
  <2> HIDE DEF s
  <2>5. /\ LastOf(s, SummaryLimit) \in Seq(Nat) /\ Len(LastOf(s, SummaryLimit)) <= SummaryLimit
        /\ Members(LastOf(s, SummaryLimit)) \subseteq Members(s)
    BY <2>2, LastOfProperties
  <2>6. summaries' = LastOf(s, SummaryLimit)
    BY <1>2 DEF s
  <2> QED BY <2>4, <2>5, <2>6
<1>4. \A u \in UnfinishedOf(decision) :
         /\ u \in [event : Nat, index : Nat, status : Statuses]
         /\ u.event = decision.event
         /\ u.index \in 1..Len(decision.actions) /\ u.status = decision.actions[u.index]
  BY <1>1 DEF UnfinishedOf
<1>5. \A u, v \in UnfinishedOf(decision) : u.index = v.index => u = v
  BY <1>1 DEF UnfinishedOf
<1>6. QueueTypes'
  BY <1>0, <1>2, <1>3, <1>4 DEF QueueTypes
<1>7. StateValidates'
  <2>1. Ids(events) \cup Members(summaries') \subseteq receipts' /\ receipts' \subseteq 0..sequence - 1
    BY <1>0, <1>2, <1>3 DEF StateValidates
  <2>2. \A u, v \in unfinished' : u.event = v.event /\ u.index = v.index => u = v
    BY <1>0, <1>2, <1>4, <1>5 DEF StateValidates
  <2> QED BY <1>0, <1>2, <1>3, <2>1, <2>2 DEF StateValidates
<1>8. Ordered'
  <2>1. \A u \in unfinished' : u.event < sequence /\ u.event \notin Ids(events)
    BY <1>0, <1>2, <1>4 DEF Ordered, StateValidates
  <2> QED BY <1>0, <1>2, <2>1 DEF Ordered
<1>9. ProgressKept'
  <2> SUFFICES ASSUME NEW c \in executing
               PROVE  \E u \in unfinished' : u.event = c[1] /\ u.index = c[2]
    BY <1>2 DEF ProgressKept, Deciding
  <2>1. CASE c[1] = decision.event
    <3>1. c[2] \in 1..Len(decision.actions) /\ decision.actions[c[2]] \in Open
      BY <1>0, <2>1 DEF OpenLast
    <3> DEFINE u == [event |-> decision.event, index |-> c[2], status |-> decision.actions[c[2]]]
    <3>2. u \in UnfinishedOf(decision)
      BY <3>1 DEF UnfinishedOf
    <3> QED BY <1>2, <2>1, <3>2
  <2>2. CASE c[1] # decision.event
    BY <1>0, <1>2, <2>2 DEF ProgressKept, Deciding
  <2> QED BY <2>1, <2>2
<1>10. TimeoutEndsMutations' /\ OpenLast' /\ TimeoutsBlock' /\ ActedOnRecord'
  BY <1>2 DEF TimeoutEndsMutations, OpenLast, TimeoutsBlock, ActedOnRecord
<1>11. CallTypes'
  BY <1>0, <1>2 DEF CallTypes
<1> QED BY <1>6, <1>7, <1>8, <1>9, <1>10, <1>11 DEF QueueInv, CallInv

\* beginDecision takes the oldest event, which nothing executes or left unfinished.
LEMMA TakeKeeps ==
    ASSUME QueueInv, CallInv, decision = None, events # <<>>,
           decision' = [event |-> Head(events).id, attempts |-> 1, actions |-> <<>>, blocked |-> FALSE],
           events' = Tail(events),
           UNCHANGED <<sequence, receipts, unfinished, summaries, executing, acted, timedOut>>
    PROVE  /\ QueueInv' /\ CallInv'
           /\ decision' # None /\ decision'.actions = <<>> /\ decision'.event \in Nat
<1>0. QueueTypes /\ StateValidates /\ Ordered /\ CallTypes /\ ProgressKept
  BY DEF QueueInv, CallInv
<1> DEFINE n == Len(events)
           h == Head(events).id
<1>1. /\ events \in Seq(Event) /\ n \in Nat \ {0}
      /\ events' \in Seq(Event) /\ Len(events') = n - 1
      /\ \A i \in 1..n - 1 : events'[i] = events[i + 1]
      /\ h = events[1].id
  BY <1>0, HeadTailProperties, EmptySeq DEF QueueTypes
<1>2. \A i \in 1..n : events[i].id \in Nat
  BY <1>1, IdSeqProperties
<1>3. h \in Nat /\ h \in Ids(events) /\ h < sequence
  BY <1>0, <1>1, <1>2 DEF Ids, Ordered
<1>4. /\ decision' \in Decision /\ decision' # None /\ decision'.event = h
      /\ decision'.actions = <<>> /\ decision'.blocked = FALSE
  <2>1. decision' \in Decision
    <3>1. <<>> \in Seq(Statuses)
      BY EmptySeq
    <3> QED BY <1>3, <3>1 DEF Decision
  <2> QED BY <2>1
<1> HIDE DEF n, h
<1>5. \A i \in 1..Len(events') : i + 1 \in 1..n /\ events'[i].id = events[i + 1].id /\ 1 < i + 1
  BY <1>1
<1>6. Ids(events') \subseteq Ids(events)
  BY <1>5 DEF Ids, n
<1>7. \A i \in 1..Len(events') : h < events'[i].id
  BY <1>0, <1>1, <1>5 DEF Ordered, n
<1>8. h \notin Ids(events')
  BY <1>2, <1>3, <1>5, <1>7 DEF Ids
<1>9. QueueTypes'
  BY <1>0, <1>1, <1>4 DEF QueueTypes
<1>10. Ordered'
  <2>1. \A i \in 1..Len(events') : events'[i].id < sequence
    BY <1>0, <1>5 DEF Ordered, n
  <2>2. \A i, j \in 1..Len(events') : i < j => events'[i].id < events'[j].id
    <3> SUFFICES ASSUME NEW i \in 1..Len(events'), NEW j \in 1..Len(events'), i < j
                 PROVE  events'[i].id < events'[j].id
      OBVIOUS
    <3>1. i + 1 < j + 1
      BY <1>1
    <3> QED BY <1>0, <1>5, <3>1 DEF Ordered, n
  <2>3. \A u \in unfinished : u.event < sequence /\ u.event \notin Ids(events')
    BY <1>0, <1>6 DEF Ordered
  <2> QED BY <1>3, <1>4, <1>7, <2>1, <2>2, <2>3 DEF Ordered
<1>11. StateValidates'
  <2>1. Len(events') <= QueueLimit
    BY <1>0, <1>1 DEF StateValidates, n
  <2>2. \A i, j \in 1..Len(events') : events'[i].id = events'[j].id => i = j
    <3> SUFFICES ASSUME NEW i \in 1..Len(events'), NEW j \in 1..Len(events'),
                        events'[i].id = events'[j].id
                 PROVE  i = j
      OBVIOUS
    <3>1. i + 1 = j + 1
      BY <1>0, <1>5 DEF StateValidates, n
    <3> QED BY <1>1, <3>1
  <2>3. h \in receipts \ Ids(events') /\ \A u \in unfinished : u.event # h
    BY <1>0, <1>3, <1>8 DEF StateValidates, Ordered
  <2>4. Ids(events') \cup Members(summaries) \subseteq receipts
    BY <1>0, <1>6 DEF StateValidates
  <2> QED BY <1>0, <1>4, <2>1, <2>2, <2>3, <2>4 DEF StateValidates
<1>12. \A c \in executing : c[1] # h /\ \E u \in unfinished : u.event = c[1] /\ u.index = c[2]
  BY <1>0, <1>3 DEF ProgressKept, Deciding, Ordered
<1>13. ProgressKept'
  BY <1>4, <1>12 DEF ProgressKept, Deciding
<1>14. timedOut = {} /\ acted = FALSE
  BY <1>0 DEF CallInv, CallTypes, TimeoutsBlock, ActedOnRecord
<1>15. OpenLast'
  BY <1>4, <1>12 DEF OpenLast
<1>16. TimeoutEndsMutations' /\ TimeoutsBlock' /\ ActedOnRecord' /\ CallTypes'
  BY <1>0, <1>4, <1>14 DEF TimeoutEndsMutations, TimeoutsBlock, ActedOnRecord, CallTypes
<1> QED BY <1>3, <1>4, <1>9, <1>10, <1>11, <1>13, <1>15, <1>16 DEF QueueInv, CallInv

\* A change of the decision that keeps its event keeps the stored state valid.
LEMMA EditKeeps ==
    ASSUME QueueInv, decision # None, decision' \in Decision, decision'.event = decision.event,
           UNCHANGED <<events, sequence, receipts, unfinished, summaries>>
    PROVE  QueueInv'
<1>0. decision' # None
  OBVIOUS
<1>1. QueueTypes'
  BY DEF QueueInv, QueueTypes
<1>2. StateValidates'
  BY <1>0 DEF QueueInv, StateValidates
<1>3. Ordered'
  BY <1>0 DEF QueueInv, Ordered
<1> QED BY <1>1, <1>2, <1>3 DEF QueueInv

\* The fields of a decision in progress.
LEMMA DecisionFields ==
    ASSUME QueueInv, decision # None
    PROVE  /\ decision \in Decision /\ decision.event \in Nat
           /\ decision.actions \in Seq(Statuses) /\ Len(decision.actions) \in Nat
           /\ \A k \in 1..Len(decision.actions) : decision.actions[k] \in Statuses
<1>1. decision \in Decision /\ decision.event \in Nat /\ decision.actions \in Seq(Statuses)
  BY DEF QueueInv, QueueTypes, Decision
<1> QED BY <1>1, LenProperties, ElementOfSeq

\* A mutating call is recorded at the end, where no other is open or timed out.
LEMMA StartKeeps ==
    ASSUME QueueInv, CallInv, NEW status \in Statuses, StartCall(status),
           UNCHANGED <<events, sequence, receipts, unfinished, summaries, timedOut>>,
           \/ UNCHANGED executing
           \/ /\ executing' = executing \cup {<<decision.event, Len(decision.actions) + 1>>}
              /\ status \in Open
    PROVE  /\ QueueInv' /\ CallInv'
           /\ decision # None /\ decision' # None /\ decision'.event = decision.event
<1> DEFINE a == decision.actions
           n == Len(decision.actions)
<1>0. /\ decision # None /\ ~decision.blocked /\ acted' = TRUE
      /\ \A k \in 1..n : a[k] \notin Open
      /\ decision' = [decision EXCEPT !.actions = Append(@, status)]
  BY DEF StartCall, Authorized, Deciding, Unblocked
<1>1. decision \in Decision /\ decision.event \in Nat /\ a \in Seq(Statuses) /\ n \in Nat
  BY <1>0, DecisionFields
<1>2. /\ decision' \in Decision /\ decision'.event = decision.event
      /\ decision'.actions = Append(a, status) /\ decision'.blocked = decision.blocked
  <2>1. Append(a, status) \in Seq(Statuses)
    BY <1>1, AppendProperties
  <2> QED BY <1>0, <1>1, <2>1 DEF Decision
<1>3. /\ Len(decision'.actions) = n + 1 /\ decision'.actions # <<>>
      /\ \A k \in 1..n : decision'.actions[k] = a[k]
      /\ decision'.actions[n + 1] = status
  BY <1>1, <1>2, AppendProperties
<1>4. QueueInv' /\ decision' # None
  BY <1>0, <1>2, EditKeeps
<1>5. ProgressKept /\ OpenLast /\ TimeoutsBlock /\ CallTypes
  BY DEF CallInv
<1>6. \A c \in executing : c[1] # decision.event
  BY <1>0, <1>5 DEF OpenLast
<1>7. timedOut = {}
  BY <1>0, <1>5 DEF TimeoutsBlock
<1>8. ASSUME NEW c \in executing'
      PROVE  \/ c \in executing /\ c[1] # decision.event
             \/ c[1] = decision.event /\ c[2] = n + 1 /\ status \in Open
  BY <1>6
<1>9. ProgressKept'
  <2> SUFFICES ASSUME NEW c \in executing'
               PROVE  IF c[1] = decision.event THEN c[2] \in 1..n + 1
                      ELSE \E u \in unfinished : u.event = c[1] /\ u.index = c[2]
    BY <1>2, <1>3, <1>4 DEF ProgressKept, Deciding
  <2> QED BY <1>0, <1>1, <1>5, <1>8 DEF ProgressKept, Deciding
<1>10. OpenLast'
  <2>1. \A k \in 1..n + 1 : decision'.actions[k] \in Open => k = n + 1
    <3> SUFFICES ASSUME NEW k \in 1..n + 1, k # n + 1 PROVE decision'.actions[k] \notin Open
      OBVIOUS
    <3>1. k \in 1..n
      BY <1>1
    <3> QED BY <1>0, <1>3, <3>1
  <2>2. \A c \in executing' : c[1] = decision.event =>
           c[2] \in 1..n + 1 /\ decision'.actions[c[2]] \in Open
    BY <1>1, <1>3, <1>8
  <2> QED BY <1>2, <1>3, <2>1, <2>2 DEF OpenLast
<1>11. TimeoutEndsMutations' /\ TimeoutsBlock' /\ ActedOnRecord'
  BY <1>0, <1>3, <1>4, <1>7 DEF TimeoutEndsMutations, TimeoutsBlock, ActedOnRecord
<1>12. CallTypes'
  <2>1. <<decision.event, n + 1>> \in Nat \X Nat
    BY <1>1
  <2> QED BY <1>0, <1>5, <1>7, <2>1 DEF CallTypes
<1> QED BY <1>0, <1>2, <1>4, <1>9, <1>10, <1>11, <1>12 DEF CallInv

\* The status of one action of the open decision changes, by an execution that ends or
\* by a deadline.
LEMMA StatusFields ==
    ASSUME QueueInv, decision # None, NEW index \in 1..Len(decision.actions), NEW status \in Statuses,
           NEW blocked \in BOOLEAN,
           decision' = [decision EXCEPT !.blocked = blocked, !.actions[index] = status]
    PROVE  /\ decision' \in Decision /\ decision' # None /\ decision'.event = decision.event
           /\ decision'.blocked = blocked
           /\ Len(decision'.actions) = Len(decision.actions)
           /\ \A k \in 1..Len(decision.actions) :
                 decision'.actions[k] = IF k = index THEN status ELSE decision.actions[k]
           /\ decision'.actions # <<>> /\ decision.actions # <<>>
<1> DEFINE a == decision.actions
           b == [decision.actions EXCEPT ![index] = status]
<1>1. decision \in Decision /\ a \in Seq(Statuses) /\ Len(a) \in Nat
  BY DecisionFields
<1>2. /\ b \in Seq(Statuses) /\ Len(b) = Len(a)
      /\ \A k \in 1..Len(a) : b[k] = IF k = index THEN status ELSE a[k]
  BY <1>1, ExceptSeq
<1>3. decision' = [decision EXCEPT !.blocked = blocked, !.actions = b]
  OBVIOUS
<1>4. a # <<>> /\ b # <<>>
  BY <1>1, <1>2, EmptySeq
<1> HIDE DEF b
<1>5. /\ decision' \in Decision /\ decision'.event = decision.event /\ decision'.actions = b
      /\ decision'.blocked = blocked
  BY <1>1, <1>2, <1>3 DEF Decision
<1> QED BY <1>2, <1>4, <1>5

\* unfinished once the action index of event e has the status f makes of it.
Relabelled(e, index, f) ==
    {IF u.event = e /\ u.index = index THEN [u EXCEPT !.status = f[@]] ELSE u : u \in unfinished}

\* Recording the outcome of an action of a closed decision.
LEMMA LateRecordKeeps ==
    ASSUME QueueInv, NEW e, NEW index, NEW f \in [Statuses -> Statuses],
           unfinished' = Relabelled(e, index, f),
           UNCHANGED <<events, sequence, receipts, decision, summaries>>
    PROVE  /\ QueueInv'
           /\ \A u \in unfinished : \E v \in unfinished' : v.event = u.event /\ v.index = u.index
<1> DEFINE g(u) == IF u.event = e /\ u.index = index THEN [u EXCEPT !.status = f[@]] ELSE u
<1>0. QueueTypes /\ StateValidates /\ Ordered
  BY DEF QueueInv
<1>1. \A u \in unfinished : /\ g(u) \in [event : Nat, index : Nat, status : Statuses]
                            /\ g(u).event = u.event /\ g(u).index = u.index
  <2> SUFFICES ASSUME NEW u \in unfinished
               PROVE  /\ g(u) \in [event : Nat, index : Nat, status : Statuses]
                      /\ g(u).event = u.event /\ g(u).index = u.index
    OBVIOUS
  <2>1. u \in [event : Nat, index : Nat, status : Statuses]
    BY <1>0 DEF QueueTypes
  <2> QED BY <2>1
<1>2. unfinished' = {g(u) : u \in unfinished}
  BY DEF Relabelled
<1> HIDE DEF g
<1>3. \A u \in unfinished : g(u) \in unfinished'
  BY <1>2
<1>4. \A v \in unfinished' : \E u \in unfinished : v = g(u)
  BY <1>2
<1>5. QueueTypes'
  BY <1>0, <1>1, <1>4 DEF QueueTypes
<1>6. \A v, w \in unfinished' : v.event = w.event /\ v.index = w.index => v = w
  <2> SUFFICES ASSUME NEW v \in unfinished', NEW w \in unfinished', v.event = w.event, v.index = w.index
               PROVE  v = w
    OBVIOUS
  <2>1. PICK t \in unfinished : v = g(t)
    BY <1>4
  <2>2. PICK u \in unfinished : w = g(u)
    BY <1>4
  <2>3. t = u
    BY <1>0, <1>1, <2>1, <2>2 DEF StateValidates
  <2> QED BY <2>1, <2>2, <2>3
<1>7. decision # None => \A v \in unfinished' : v.event # decision.event
  BY <1>0, <1>1, <1>4 DEF StateValidates
<1>8. StateValidates'
  BY <1>0, <1>6, <1>7 DEF StateValidates
<1>9. Ordered'
  BY <1>0, <1>1, <1>4 DEF Ordered
<1> QED BY <1>1, <1>3, <1>5, <1>8, <1>9 DEF QueueInv

\* An execution ends: its outcome finds its record.
LEMMA EndCallKeeps ==
    ASSUME QueueInv, CallInv, NEW e, NEW index, NEW status \in Statuses \ {"started"},
           EndCall(e, index, status)
    PROVE  /\ QueueInv' /\ CallInv'
           /\ decision' = None <=> decision = None
           /\ decision # None => decision'.event = decision.event
           /\ decision # None => (decision'.actions = <<>> <=> decision.actions = <<>>)
<1> DEFINE f == [s \in Statuses |-> status]
<1>0. /\ <<e, index>> \in executing /\ executing' = executing \ {<<e, index>>}
      /\ Recorded(e, index, f)
      /\ UNCHANGED <<events, sequence, receipts, summaries, acted, timedOut>>
  BY DEF EndCall, historyVars
<1>1. /\ QueueTypes /\ CallTypes /\ ProgressKept /\ OpenLast /\ TimeoutEndsMutations
      /\ TimeoutsBlock /\ ActedOnRecord
  BY DEF QueueInv, CallInv
<1>2. f \in [Statuses -> Statuses] /\ CallTypes'
  BY <1>0, <1>1 DEF CallTypes
<1>3. CASE Deciding(e)
  <2>1. decision # None /\ decision.event = e /\ UNCHANGED unfinished
    BY <1>0, <1>3 DEF Deciding, Recorded
  <2>2. /\ index \in 1..Len(decision.actions) /\ decision.actions[index] \in Open
        /\ index = Len(decision.actions)
    BY <1>0, <1>1, <2>1 DEF OpenLast
  <2>3. /\ decision \in Decision /\ Len(decision.actions) \in Nat
        /\ decision.actions[index] \in Statuses /\ decision.blocked \in BOOLEAN
    BY <2>1, <2>2, DecisionFields DEF Decision
  <2>4. decision' = [decision EXCEPT !.blocked = decision.blocked, !.actions[index] = status]
    <3>1. decision' = [decision EXCEPT !.actions[index] = f[@]]
      BY <1>0, <1>3 DEF Recorded
    <3>2. f[decision.actions[index]] = status
      BY <2>3
    <3>3. decision' = [decision EXCEPT !.actions[index] = status]
      BY <3>1, <3>2
    <3> QED BY <2>3, <3>3 DEF Decision
  <2>5. /\ decision' \in Decision /\ decision' # None /\ decision'.event = decision.event
        /\ decision'.blocked = decision.blocked
        /\ Len(decision'.actions) = Len(decision.actions)
        /\ \A k \in 1..Len(decision.actions) :
              decision'.actions[k] = IF k = index THEN status ELSE decision.actions[k]
        /\ decision'.actions # <<>> /\ decision.actions # <<>>
    BY <2>1, <2>2, <2>3, <2>4, StatusFields, ZenonT(60)
  <2>6. QueueInv'
    BY <1>0, <2>1, <2>5, EditKeeps
  <2>7. \A c \in executing' : c[1] # e
    <3> SUFFICES ASSUME NEW c \in executing, c[1] = e PROVE c = <<e, index>>
      BY <1>0
    <3>1. c[2] = index
      BY <1>1, <2>1, <2>2 DEF OpenLast
    <3> QED BY <1>1, <3>1 DEF CallTypes
  <2>8. ProgressKept'
    BY <1>0, <1>1, <2>1, <2>5, <2>7 DEF ProgressKept, Deciding
  <2>9. OpenLast'
    BY <1>1, <2>1, <2>2, <2>5, <2>7 DEF OpenLast
  <2>10. TimeoutEndsMutations' /\ TimeoutsBlock' /\ ActedOnRecord'
    BY <1>0, <1>1, <2>1, <2>5 DEF TimeoutEndsMutations, TimeoutsBlock, ActedOnRecord
  <2> QED BY <1>2, <2>1, <2>5, <2>6, <2>8, <2>9, <2>10 DEF CallInv
<1>4. CASE ~Deciding(e)
  <2>1. /\ UNCHANGED decision
        /\ unfinished' = Relabelled(e, index, f)
    BY <1>0, <1>4 DEF Recorded, Relabelled
  <2> HIDE DEF f
  <2>2. /\ QueueInv'
        /\ \A u \in unfinished : \E v \in unfinished' : v.event = u.event /\ v.index = u.index
    BY <1>0, <1>2, <2>1, LateRecordKeeps
  <2>3. ProgressKept'
    BY <1>0, <1>1, <2>1, <2>2 DEF ProgressKept, Deciding
  <2>4. OpenLast' /\ TimeoutEndsMutations' /\ TimeoutsBlock' /\ ActedOnRecord'
    BY <1>0, <1>1, <2>1 DEF OpenLast, TimeoutEndsMutations, TimeoutsBlock, ActedOnRecord
  <2> QED BY <1>2, <2>1, <2>2, <2>3, <2>4 DEF CallInv
<1> QED BY <1>3, <1>4

\* A deadline passes after the decision was closed.
LEMMA LateTimeoutKeeps ==
    ASSUME QueueInv, CallInv, NEW e, NEW index, LateCallTimesOut(e, index)
    PROVE  QueueInv' /\ CallInv' /\ UNCHANGED decision
<1>0. /\ UNCHANGED <<events, sequence, receipts, summaries, acted, timedOut, executing, decision>>
      /\ unfinished' = Relabelled(e, index, Lapsed)
  BY DEF LateCallTimesOut, Recorded, Relabelled, historyVars, processVars
<1>1. Lapsed \in [Statuses -> Statuses]
  BY DEF Lapsed, Statuses
<1>2. /\ QueueInv'
      /\ \A u \in unfinished : \E v \in unfinished' : v.event = u.event /\ v.index = u.index
  BY <1>0, <1>1, LateRecordKeeps
<1>3. ProgressKept'
  BY <1>0, <1>2 DEF CallInv, ProgressKept, Deciding
<1>4. OpenLast' /\ TimeoutEndsMutations' /\ TimeoutsBlock' /\ ActedOnRecord' /\ CallTypes'
  BY <1>0 DEF CallInv, OpenLast, TimeoutEndsMutations, TimeoutsBlock, ActedOnRecord, CallTypes
<1> QED BY <1>0, <1>2, <1>3, <1>4 DEF CallInv

\* A deadline passes in the decision of the call: it is blocked for good.
LEMMA TimeoutKeeps ==
    ASSUME QueueInv, CallInv, NEW index, CallTimesOut(index)
    PROVE  /\ QueueInv' /\ CallInv'
           /\ decision # None /\ decision' # None /\ decision'.event = decision.event
           /\ decision.actions # <<>> /\ decision'.actions # <<>>
<1>0. /\ decision # None /\ index \in 1..Len(decision.actions)
      /\ decision' = [decision EXCEPT !.blocked = TRUE, !.actions[index] = Lapsed[@]]
      /\ timedOut' = IF <<decision.event, index>> \in executing THEN timedOut \cup {index} ELSE timedOut
      /\ UNCHANGED <<events, sequence, receipts, unfinished, summaries, executing, acted>>
  BY DEF CallTimesOut, processVars
<1>1. CallTypes /\ ProgressKept /\ OpenLast /\ TimeoutEndsMutations /\ TimeoutsBlock /\ ActedOnRecord
  BY DEF CallInv
<1> DEFINE status == Lapsed[decision.actions[index]]
<1>2. /\ Len(decision.actions) \in Nat /\ status \in Statuses
      /\ status \in Open <=> decision.actions[index] \in Open
  BY <1>0, DecisionFields DEF Lapsed, Statuses, Open
<1>3. decision' = [decision EXCEPT !.blocked = TRUE, !.actions[index] = status]
  BY <1>0
<1> HIDE DEF status
<1>4. /\ decision' \in Decision /\ decision' # None /\ decision'.event = decision.event
      /\ decision'.blocked = TRUE
      /\ Len(decision'.actions) = Len(decision.actions)
      /\ \A k \in 1..Len(decision.actions) :
            decision'.actions[k] = IF k = index THEN status ELSE decision.actions[k]
      /\ decision'.actions # <<>> /\ decision.actions # <<>>
  BY <1>0, <1>2, <1>3, StatusFields
<1>5. QueueInv'
  BY <1>0, <1>4, EditKeeps
<1>6. \A k \in 1..Len(decision.actions) : decision'.actions[k] \in Open <=> decision.actions[k] \in Open
  BY <1>2, <1>4
<1>7. ProgressKept'
  BY <1>0, <1>1, <1>4 DEF ProgressKept, Deciding
<1>8. OpenLast'
  BY <1>0, <1>1, <1>4, <1>6 DEF OpenLast
<1>9. TimeoutEndsMutations'
  <2>1. <<decision.event, index>> \in executing => index = Len(decision.actions)
    BY <1>0, <1>1 DEF OpenLast
  <2> QED BY <1>0, <1>1, <1>4, <2>1 DEF TimeoutEndsMutations
<1>10. TimeoutsBlock' /\ ActedOnRecord'
  BY <1>0, <1>1, <1>4 DEF TimeoutsBlock, ActedOnRecord
<1>11. CallTypes'
  BY <1>0, <1>1, <1>2 DEF CallTypes
<1> QED BY <1>0, <1>4, <1>5, <1>7, <1>8, <1>9, <1>10, <1>11 DEF CallInv

-----------------------------------------------------------------------------
(* The steps *)

decisionVars == <<decision, unfinished, acted, timedOut>>

\* The group about the queue reads only the stored queue.
LEMMA QueueSteady ==
    ASSUME QueueInv, UNCHANGED <<sequence, events, receipts, decision, unfinished, summaries>>
    PROVE  QueueInv'
  BY DEF QueueInv, QueueTypes, StateValidates, Ordered

\* The group about decisions survives the end of all tool calls.
LEMMA CallSteady ==
    ASSUME CallInv, UNCHANGED decisionVars, executing' = executing \/ executing' = {}
    PROVE  CallInv'
  BY DEF CallInv, CallTypes, ProgressKept, TimeoutEndsMutations, OpenLast, TimeoutsBlock,
     ActedOnRecord, Deciding, decisionVars

\* The group about wakes does not depend on which are due.
LEMMA WakeSteady ==
    ASSUME WakeInv, UNCHANGED <<wakes, fired>>, due' \in SUBSET Revisions
    PROVE  WakeInv'
  BY DEF WakeInv, WakeFiresOnce, SpentWakes

\* The daemon starts, stops or dies.
LEMMA DaemonStep == AutonomousInv /\ DaemonNext => AutonomousInv'
<1> SUFFICES ASSUME AutonomousInv, DaemonNext PROVE AutonomousInv'
  OBVIOUS
<1>0. QueueInv /\ CallInv /\ ProcessInv /\ WakeInv
  BY InvGroups
<1>1. /\ boot \in Boots /\ tick \in Ticks /\ control \in Controls /\ pollFailures \in Nat
      /\ round \in Rounds /\ RoundsExact /\ due \in SUBSET Revisions /\ NoRound \in Rounds
  BY <1>0 DEF ProcessInv, WakeInv, NoRound, Rounds
<1>2. ASSUME QueueInv', CallInv', ProcessInv', WakeInv' PROVE AutonomousInv'
  BY <1>2, InvGroupsNext
<1>3. CASE Launch \/ Terminate \/ LoopEnds
  <2>1. /\ UNCHANGED <<sequence, events, receipts, decision, unfinished, summaries, wakes, control>>
        /\ UNCHANGED <<tick, pollFailures, due, round, executing, acted, timedOut, fired>>
        /\ (boot = "down" /\ boot' = "locked") \/ boot' = "halting" \/ boot' = "stopping"
    BY <1>3 DEF Launch, Terminate, LoopEnds, durableVars, historyVars
  <2>2. ProcessInv'
    BY <1>1, <2>1 DEF ProcessInv, RoundsExact, Deciding, Boots
  <2> QED BY <1>0, <1>1, <1>2, <2>1, <2>2, QueueSteady, CallSteady, WakeSteady DEF decisionVars
<1>4. CASE Initialize
  <2>1. /\ UNCHANGED <<control, sequence, events, wakes, tick, pollFailures, due, round, executing, fired>>
        /\ boot = "locked" /\ boot' = "initialized"
    BY <1>4 DEF Initialize
  <2>2. CASE decision # None /\ decision.actions # <<>>
    <3>1. FinishDecision
      BY <1>4, <2>2 DEF Initialize
    <3>2. QueueInv' /\ CallInv' /\ decision' = None
      BY <1>0, <2>1, <2>2, <3>1, FinishKeeps DEF FinishDecision
    <3>3. ProcessInv'
      BY <1>1, <2>1, <3>2 DEF ProcessInv, RoundsExact, Deciding, Boots, NoRound
    <3> QED BY <1>0, <1>1, <1>2, <2>1, <3>2, <3>3, WakeSteady
  <2>3. CASE ~(decision # None /\ decision.actions # <<>>)
    <3>1. UNCHANGED <<unfinished, summaries, receipts, decision, acted, timedOut>>
      BY <1>4, <2>3 DEF Initialize
    <3>2. ProcessInv'
      BY <1>1, <2>1, <2>3, <3>1 DEF ProcessInv, RoundsExact, Deciding, Boots, NoRound
    <3> QED BY <1>0, <1>1, <1>2, <2>1, <3>1, <3>2, QueueSteady, CallSteady, WakeSteady DEF decisionVars
  <2> QED BY <2>2, <2>3
<1>5. CASE Activate
  <2>1. /\ UNCHANGED <<sequence, events, receipts, decision, unfinished, summaries, wakes>>
        /\ UNCHANGED <<tick, pollFailures, due, round, executing, acted, timedOut, fired>>
        /\ control' = "running" \/ control' = control
        /\ boot = "initialized" /\ boot' = IF decision = None THEN "activated" ELSE "up"
    BY <1>5 DEF Activate, historyVars
  <2>2. ProcessInv'
    BY <1>1, <2>1 DEF ProcessInv, RoundsExact, Deciding, Boots, NoRound, Controls
  <2> QED BY <1>0, <1>1, <1>2, <2>1, <2>2, QueueSteady, CallSteady, WakeSteady DEF decisionVars
<1>6. CASE StartEvent
  <2>1. /\ UNCHANGED <<decision, unfinished, summaries, wakes, control>>
        /\ UNCHANGED <<tick, pollFailures, due, round, executing, acted, timedOut, fired>>
        /\ boot = "activated" /\ boot' = "up" /\ Enqueue(<<"start">>)
    BY <1>6 DEF StartEvent, historyVars
  <2>2. <<"start">> \in Seq(EventKinds)
    BY DEF EventKinds
  <2>3. ProcessInv'
    BY <1>1, <2>1 DEF ProcessInv, RoundsExact, Deciding, Boots, NoRound
  <2> QED BY <1>0, <1>1, <1>2, <2>1, <2>2, <2>3, EnqueueKeeps, CallSteady, WakeSteady DEF decisionVars
<1>7. CASE StopModel
  <2>1. /\ UNCHANGED <<sequence, events, receipts, decision, unfinished, summaries, wakes, control>>
        /\ UNCHANGED <<boot, tick, pollFailures, due, executing, acted, timedOut, fired>>
        /\ boot = "stopping" /\ round.at # "idle" /\ round' = Aborted(round)
    BY <1>7 DEF StopModel, durableVars, historyVars
  <2>2. round' \in Rounds /\ round'.event = round.event /\ round'.at # "idle"
    BY <1>1, <2>1 DEF Aborted, Rounds
  <2>3. ProcessInv'
    BY <1>1, <2>1, <2>2 DEF ProcessInv, RoundsExact, Deciding
  <2> QED BY <1>0, <1>1, <1>2, <2>1, <2>3, QueueSteady, CallSteady, WakeSteady DEF decisionVars
<1>8. CASE Exit \/ Die
  <2>1. /\ UNCHANGED <<sequence, events, receipts, decision, unfinished, summaries, wakes, control>>
        /\ UNCHANGED <<acted, timedOut, fired>>
        /\ boot' = "down" /\ tick' = "control" /\ pollFailures' = 0 /\ due' = {}
        /\ round' = NoRound /\ executing' = {}
    BY <1>8 DEF Exit, Die, durableVars, historyVars
  <2>2. ProcessInv'
    BY <1>1, <2>1 DEF ProcessInv, RoundsExact, Deciding, Boots, Ticks, NoRound
  <2> QED BY <1>0, <1>1, <1>2, <2>1, <2>2, QueueSteady, CallSteady, WakeSteady DEF decisionVars
<1> QED BY <1>3, <1>4, <1>5, <1>6, <1>7, <1>8 DEF DaemonNext

\* An operator pauses, stops or resumes.
LEMMA OperatorStep == AutonomousInv /\ OperatorNext => AutonomousInv'
<1> SUFFICES ASSUME AutonomousInv, OperatorNext PROVE AutonomousInv'
  OBVIOUS
<1>0. QueueInv /\ CallInv /\ ProcessInv /\ WakeInv
  BY InvGroups
<1>1. /\ UNCHANGED <<decision, unfinished, summaries, wakes, boot, tick, pollFailures, due, round>>
      /\ UNCHANGED <<executing, acted, timedOut, fired>>
      /\ control' \in Controls
      /\ Enqueue(<<"start">>) \/ UNCHANGED <<sequence, events, receipts>>
  BY DEF OperatorNext, Pause, StopCommand, Resume, processVars, historyVars, Controls
<1>2. <<"start">> \in Seq(EventKinds)
  BY DEF EventKinds
<1>3. QueueInv'
  BY <1>0, <1>1, <1>2, EnqueueKeeps, QueueSteady
<1>4. ProcessInv'
  BY <1>0, <1>1 DEF ProcessInv, RoundsExact, Deciding
<1>5. due' \in SUBSET Revisions
  BY <1>0, <1>1 DEF WakeInv
<1> QED BY <1>0, <1>1, <1>3, <1>4, <1>5, CallSteady, WakeSteady, InvGroupsNext DEF decisionVars

\* evaluateWakes: what fires is spent in the same transaction.
LEMMA FiringKeeps ==
    ASSUME WakeInv, NEW firing \in SUBSET Current,
           wakes' = [w \in Revisions |-> IF w \in firing THEN "spent" ELSE wakes[w]],
           fired' = [w \in Revisions |-> IF w \in firing THEN fired[w] + 1 ELSE fired[w]],
           due' = {}
    PROVE  WakeInv'
<1>0. /\ wakes \in [Revisions -> {"unused", "active", "spent", "gone"}]
      /\ fired \in [Revisions -> Nat] /\ due \subseteq Revisions
      /\ \A w \in Revisions : fired[w] <= 1
      /\ \A w \in Revisions : fired[w] = 1 => wakes[w] \in {"spent", "gone"}
  BY DEF WakeInv, WakeFiresOnce, SpentWakes
<1>1. \A w \in firing : w \in Revisions /\ wakes[w] = "active" /\ fired[w] = 0
  BY <1>0 DEF Current
<1>2. wakes' \in [Revisions -> {"unused", "active", "spent", "gone"}] /\ fired' \in [Revisions -> Nat]
  BY <1>0
<1>3. \A w \in Revisions : fired'[w] <= 1 /\ (fired'[w] = 1 => wakes'[w] \in {"spent", "gone"})
  BY <1>0, <1>1
<1> QED BY <1>2, <1>3 DEF WakeInv, WakeFiresOnce, SpentWakes

\* As many wake events are enqueued as triggers fired.
LEMMA FiringKinds ==
    ASSUME WakeInv, NEW firing \in SUBSET Current
    PROVE  [j \in 1..Cardinality(firing) |-> "wake"] \in Seq(EventKinds)
<1>1. firing \in SUBSET Revisions
  BY DEF WakeInv, Current
<1>2. IsFiniteSet(Revisions)
  BY FS_Interval DEF Revisions
<1>3. Cardinality(firing) \in Nat
  BY <1>1, <1>2, FS_Subset, FS_CardinalityType
<1>4. [j \in 1..Cardinality(firing) |-> "wake"] \in [1..Cardinality(firing) -> EventKinds]
  BY DEF EventKinds
<1> QED BY <1>3, <1>4, FunctionIsSeq

\* The loop takes its next step.
LEMMA TickStep == AutonomousInv /\ TickNext => AutonomousInv'
<1> SUFFICES ASSUME AutonomousInv, TickNext PROVE AutonomousInv'
  OBVIOUS
<1>0. QueueInv /\ CallInv /\ ProcessInv /\ WakeInv
  BY InvGroups
<1>1. /\ boot \in Boots /\ tick \in Ticks /\ control \in Controls /\ pollFailures \in Nat
      /\ round \in Rounds /\ RoundsExact /\ due \in SUBSET Revisions
  BY <1>0 DEF ProcessInv, WakeInv
<1>2. ASSUME QueueInv', CallInv', ProcessInv', WakeInv' PROVE AutonomousInv'
  BY <1>2, InvGroupsNext
<1>3. CASE TickControl
  <2>1. /\ UNCHANGED <<sequence, events, receipts, decision, unfinished, summaries, wakes, control>>
        /\ UNCHANGED <<pollFailures, due, executing, acted, timedOut, fired>>
        /\ round' = round \/ (round.at # "idle" /\ round' = Aborted(round))
        /\ boot = "up"
        /\ (boot' = "stopping" /\ tick' = tick) \/ (boot' = boot /\ tick' = "poll")
    BY <1>3 DEF TickControl, durableVars, historyVars
  <2>2. round' \in Rounds /\ round'.event = round.event /\ (round'.at = "idle" <=> round.at = "idle")
    BY <1>1, <2>1 DEF Aborted, Rounds
  <2>3. ProcessInv'
    BY <1>1, <2>1, <2>2 DEF ProcessInv, RoundsExact, Deciding, Boots, Ticks
  <2> QED BY <1>0, <1>1, <1>2, <2>1, <2>3, QueueSteady, CallSteady, WakeSteady DEF decisionVars
<1>4. ASSUME NEW new \in Reports, PollReports(new)
      PROVE  AutonomousInv'
  <2>1. /\ UNCHANGED <<decision, unfinished, summaries, wakes, control>>
        /\ UNCHANGED <<boot, round, executing, acted, timedOut, fired>>
        /\ Enqueue(new) /\ pollFailures' = 0 /\ due' \in SUBSET Revisions /\ tick' = "wakes"
    BY <1>4 DEF PollReports, historyVars
  <2>2. new \in Seq(EventKinds)
    BY SeqMonotonic DEF EventKinds
  <2>3. ProcessInv'
    BY <1>1, <2>1 DEF ProcessInv, RoundsExact, Deciding, Ticks
  <2> QED BY <1>0, <1>2, <2>1, <2>2, <2>3, EnqueueKeeps, CallSteady, WakeSteady DEF decisionVars
<1>5. CASE PollFails \/ PollWaits \/ BeginNothing \/ BeginWaits
  <2>1. /\ UNCHANGED <<sequence, events, receipts, decision, unfinished, summaries, wakes>>
        /\ UNCHANGED <<boot, due, round, executing, acted, timedOut, fired>>
        /\ control' = control \/ control' = "paused"
        /\ pollFailures' = pollFailures \/ pollFailures' = pollFailures + 1
        /\ tick' \in {"begin", "control"}
    BY <1>5 DEF PollFails, PollWaits, BeginNothing, BeginWaits, durableVars, historyVars
  <2>2. ProcessInv'
    BY <1>1, <2>1 DEF ProcessInv, RoundsExact, Deciding, Ticks, Controls
  <2> QED BY <1>0, <1>1, <1>2, <2>1, <2>2, QueueSteady, CallSteady, WakeSteady DEF decisionVars
<1>6. ASSUME NEW firing \in SUBSET Current, EvaluateWakes(firing)
      PROVE  AutonomousInv'
  <2>1. /\ UNCHANGED <<decision, unfinished, summaries, control>>
        /\ UNCHANGED <<boot, pollFailures, round, executing, acted, timedOut>>
        /\ Enqueue([j \in 1..Cardinality(firing) |-> "wake"])
        /\ tick' = "begin"
    BY <1>6 DEF EvaluateWakes
  <2>2. WakeInv'
    BY <1>0, <1>6, FiringKeeps DEF EvaluateWakes
  <2>3. ProcessInv'
    BY <1>1, <2>1 DEF ProcessInv, RoundsExact, Deciding, Ticks
  <2>4. QueueInv'
    BY <1>0, <2>1, FiringKinds, EnqueueKeeps
  <2> QED BY <1>0, <1>2, <2>1, <2>2, <2>3, <2>4, CallSteady DEF decisionVars
<1>7. CASE BeginDecision
  <2>1. /\ UNCHANGED <<control, sequence, receipts, unfinished, summaries, wakes>>
        /\ UNCHANGED <<boot, pollFailures, due, executing, acted, timedOut, fired>>
        /\ tick' = "control" /\ boot \in {"up", "halting"} /\ round.at = "idle"
        /\ \/ round' = [at |-> "running", event |-> decision'.event, aborted |-> FALSE]
           \/ round' = [at |-> "failed", event |-> decision'.event, aborted |-> TRUE]
    BY <1>7 DEF BeginDecision, Looping, historyVars
  <2>2. /\ QueueInv' /\ CallInv' /\ decision' # None /\ decision'.event \in Nat
    <3>1. CASE decision = None
      <4>1. /\ events # <<>> /\ events' = Tail(events)
            /\ decision' = [event |-> Head(events).id, attempts |-> 1, actions |-> <<>>,
                            blocked |-> FALSE]
        BY <1>7, <3>1 DEF BeginDecision
      <4> QED BY <1>0, <2>1, <3>1, <4>1, TakeKeeps
    <3>2. CASE decision # None
      <4>1. /\ UNCHANGED events
            /\ decision' = [decision EXCEPT !.attempts = IF @ < Attempts THEN @ + 1 ELSE @]
        BY <1>7, <3>2 DEF BeginDecision
      <4>2. decision \in Decision /\ decision.event \in Nat
        BY <1>0, <3>2, DecisionFields
      <4>3. decision.attempts \in Nat
        BY <4>2 DEF Decision
      <4> DEFINE n == IF decision.attempts < Attempts THEN decision.attempts + 1 ELSE decision.attempts
      <4>4. n \in Nat /\ decision' = [decision EXCEPT !.attempts = n]
        BY <4>1, <4>3
      <4> HIDE DEF n
      <4>5. /\ decision' \in Decision /\ decision'.event = decision.event
            /\ decision'.actions = decision.actions /\ decision'.blocked = decision.blocked
        BY <4>2, <4>4 DEF Decision
      <4>6. QueueInv' /\ decision' # None
        BY <1>0, <2>1, <3>2, <4>1, <4>5, EditKeeps
      <4>7. CallInv'
        BY <1>0, <2>1, <3>2, <4>5, <4>6
        DEF CallInv, CallTypes, ProgressKept, TimeoutEndsMutations, OpenLast, TimeoutsBlock,
            ActedOnRecord, Deciding
      <4> QED BY <4>2, <4>5, <4>6, <4>7
    <3> QED BY <3>1, <3>2
  <2>3. round' \in Rounds /\ round'.event = decision'.event /\ round'.at # "idle"
    <3>1. CASE round' = [at |-> "running", event |-> decision'.event, aborted |-> FALSE]
      BY <2>2, <3>1 DEF Rounds
    <3>2. CASE round' = [at |-> "failed", event |-> decision'.event, aborted |-> TRUE]
      BY <2>2, <3>2 DEF Rounds
    <3> QED BY <2>1, <3>1, <3>2
  <2>4. ProcessInv'
    BY <1>1, <2>1, <2>2, <2>3 DEF ProcessInv, RoundsExact, Deciding, Ticks
  <2> QED BY <1>0, <1>1, <1>2, <2>1, <2>2, <2>4, WakeSteady
<1> QED BY <1>3, <1>4, <1>5, <1>6, <1>7 DEF TickNext

\* A model round ends.
LEMMA ModelStep == AutonomousInv /\ ModelNext => AutonomousInv'
<1> SUFFICES ASSUME AutonomousInv, ModelNext PROVE AutonomousInv'
  OBVIOUS
<1>0. QueueInv /\ CallInv /\ ProcessInv /\ WakeInv
  BY InvGroups
<1>1. /\ boot \in Boots /\ tick \in Ticks /\ control \in Controls /\ pollFailures \in Nat
      /\ round \in Rounds /\ RoundsExact /\ due \in SUBSET Revisions /\ NoRound \in Rounds
  BY <1>0 DEF ProcessInv, WakeInv, NoRound, Rounds
<1>2. ASSUME QueueInv', CallInv', ProcessInv', WakeInv' PROVE AutonomousInv'
  BY <1>2, InvGroupsNext
<1>3. ASSUME ModelDone \/ \E deadline \in BOOLEAN : ModelFails(deadline)
      PROVE  AutonomousInv'
  <2>1. PICK at \in {"done", "failed"}, aborted \in BOOLEAN :
           round' = [round EXCEPT !.at = at, !.aborted = aborted]
    <3>1. round.aborted \in BOOLEAN /\ round = [round EXCEPT !.aborted = round.aborted]
      BY <1>1 DEF Rounds
    <3>2. CASE ModelDone
      <4>1. round' = [round EXCEPT !.at = "done", !.aborted = round.aborted]
        BY <1>1, <3>2 DEF ModelDone, Rounds
      <4> QED BY <3>1, <4>1
    <3>3. CASE \E deadline \in BOOLEAN : ModelFails(deadline)
      BY <3>1, <3>3 DEF ModelFails
    <3> QED BY <1>3, <3>2, <3>3
  <2>2. /\ UNCHANGED <<sequence, events, receipts, decision, unfinished, summaries, wakes, control>>
        /\ UNCHANGED <<boot, tick, pollFailures, due, executing, acted, timedOut, fired>>
        /\ round.at # "idle"
    BY <1>3 DEF ModelDone, ModelFails, durableVars, historyVars
  <2>3. round' \in Rounds /\ round'.event = round.event /\ round'.at # "idle"
    BY <1>1, <2>1 DEF Rounds
  <2>4. ProcessInv'
    BY <1>1, <2>2, <2>3 DEF ProcessInv, RoundsExact, Deciding, NoRound
  <2> QED BY <1>0, <1>1, <1>2, <2>2, <2>4, QueueSteady, CallSteady, WakeSteady DEF decisionVars
<1>4. CASE EndRound
  <2>1. /\ UNCHANGED <<control, sequence, events, wakes, boot, tick, pollFailures, due, executing, fired>>
        /\ round.at # "idle" /\ round' = NoRound
    BY <1>4 DEF EndRound
  <2>2. decision # None /\ boot \notin {"down", "locked", "initialized", "activated"}
    BY <1>1, <2>1 DEF RoundsExact, Deciding, NoRound
  <2>3. CASE UNCHANGED <<unfinished, summaries, receipts, decision, acted, timedOut>> /\ RetryAllowed
    <3>1. ProcessInv'
      BY <1>1, <2>1, <2>2, <2>3 DEF ProcessInv, RoundsExact, RetryAllowed, NoRound
    <3> QED BY <1>0, <1>1, <1>2, <2>1, <2>3, <3>1, QueueSteady, CallSteady, WakeSteady DEF decisionVars
  <2>4. CASE FinishDecision
    <3>1. QueueInv' /\ CallInv' /\ decision' = None
      BY <1>0, <2>1, <2>2, <2>4, FinishKeeps DEF FinishDecision
    <3>2. ProcessInv'
      BY <1>1, <2>1, <2>2, <3>1 DEF ProcessInv, RoundsExact, NoRound
    <3> QED BY <1>0, <1>1, <1>2, <2>1, <3>1, <3>2, WakeSteady
  <2> QED BY <1>4, <2>3, <2>4 DEF EndRound
<1>5. CASE EndRoundUnstored
  <2>1. /\ UNCHANGED <<sequence, events, receipts, decision, unfinished, summaries, wakes, control>>
        /\ UNCHANGED <<tick, pollFailures, due, executing, acted, timedOut, fired>>
        /\ round.at # "idle" /\ round' = NoRound
        /\ boot' = IF boot = "up" THEN "halting" ELSE boot
    BY <1>5 DEF EndRoundUnstored, durableVars, historyVars
  <2>2. boot \notin {"down", "locked", "initialized", "activated"}
    BY <1>1, <2>1 DEF RoundsExact, NoRound
  <2>3. ProcessInv'
    BY <1>1, <2>1, <2>2 DEF ProcessInv, RoundsExact, NoRound, Boots
  <2> QED BY <1>0, <1>1, <1>2, <2>1, <2>3, QueueSteady, CallSteady, WakeSteady DEF decisionVars
<1> QED BY <1>3, <1>4, <1>5 DEF ModelNext

\* A tool call of the model starts, ends or times out.
LEMMA ToolStep == AutonomousInv /\ ToolNext => AutonomousInv'
<1> SUFFICES ASSUME AutonomousInv, ToolNext PROVE AutonomousInv'
  OBVIOUS
<1>0. QueueInv /\ CallInv /\ ProcessInv /\ WakeInv
  BY InvGroups
<1>1. /\ boot \in Boots /\ tick \in Ticks /\ control \in Controls /\ pollFailures \in Nat
      /\ round \in Rounds /\ RoundsExact /\ due \in SUBSET Revisions
  BY <1>0 DEF ProcessInv, WakeInv
<1>2. ASSUME QueueInv', CallInv', ProcessInv', WakeInv' PROVE AutonomousInv'
  BY <1>2, InvGroupsNext
<1>3. ASSUME UNCHANGED <<control, boot, tick, pollFailures, round>>,
             decision # None, decision' # None, decision'.event = decision.event,
             round.at # "idle" \/ executing # {},
             boot = "up" /\ round.at = "idle" =>
                 (decision'.actions = <<>> <=> decision.actions = <<>>)
      PROVE  ProcessInv'
  <2>1. boot \notin {"down", "locked", "initialized", "activated"}
    BY <1>1, <1>3 DEF RoundsExact, NoRound
  <2> QED BY <1>1, <1>3, <2>1 DEF ProcessInv, RoundsExact, Deciding
<1>4. "started" \in Statuses /\ "settled" \in Statuses /\ "started" \in Open
  BY DEF Statuses, Open
<1>5. CASE TradeCall
  <2>1. /\ StartCall("started") /\ round.at # "idle"
        /\ executing' = executing \cup {<<decision.event, Len(decision.actions) + 1>>}
        /\ UNCHANGED <<control, sequence, events, receipts, unfinished, summaries, wakes>>
        /\ UNCHANGED <<boot, tick, pollFailures, due, round, timedOut, fired>>
    BY <1>5 DEF TradeCall, StartCall, Authorized
  <2>2. QueueInv' /\ CallInv' /\ decision # None /\ decision' # None /\ decision'.event = decision.event
    BY <1>0, <1>4, <2>1, StartKeeps
  <2>3. ProcessInv'
    BY <1>3, <2>1, <2>2
  <2> QED BY <1>0, <1>1, <1>2, <2>1, <2>2, <2>3, WakeSteady
<1>6. ASSUME NEW w \in Revisions, (\E old : ScheduleWake(w, old)) \/ CancelWake(w)
      PROVE  AutonomousInv'
  <2>1. /\ StartCall("settled") /\ round.at # "idle"
        /\ UNCHANGED <<control, sequence, events, receipts, unfinished, summaries>>
        /\ UNCHANGED <<boot, tick, pollFailures, due, round, executing, timedOut, fired>>
    BY <1>6 DEF ScheduleWake, CancelWake, StartCall, Authorized, processVars
  <2>2. QueueInv' /\ CallInv' /\ decision # None /\ decision' # None /\ decision'.event = decision.event
    BY <1>0, <1>4, <2>1, StartKeeps
  <2>3. ProcessInv'
    BY <1>3, <2>1, <2>2
  <2>4. /\ wakes \in [Revisions -> {"unused", "active", "spent", "gone"}]
        /\ \A v \in Revisions : fired[v] = 1 => wakes[v] \in {"spent", "gone"}
    BY <1>0 DEF WakeInv, SpentWakes
  <2>5. /\ wakes' \in [Revisions -> {"unused", "active", "spent", "gone"}]
        /\ \A v \in Revisions : wakes[v] \in {"spent", "gone"} => wakes'[v] \in {"spent", "gone"}
    <3>1. CASE \E old : ScheduleWake(w, old)
      BY <2>4, <3>1 DEF ScheduleWake
    <3>2. CASE CancelWake(w)
      BY <2>4, <3>2 DEF CancelWake
    <3> QED BY <1>6, <3>1, <3>2
  <2>6. WakeInv'
    BY <1>0, <2>1, <2>4, <2>5 DEF WakeInv, WakeFiresOnce, SpentWakes
  <2> QED BY <1>2, <2>2, <2>3, <2>6
<1>7. ASSUME NEW c \in executing, NEW status \in Statuses \ {"started"}, EndCall(c[1], c[2], status)
      PROVE  AutonomousInv'
  <2>1. UNCHANGED <<control, wakes, boot, tick, pollFailures, due, round, fired>>
    BY <1>7 DEF EndCall, historyVars
  <2>2. /\ QueueInv' /\ CallInv'
        /\ decision' = None <=> decision = None
        /\ decision # None => decision'.event = decision.event
        /\ decision # None => (decision'.actions = <<>> <=> decision.actions = <<>>)
    BY <1>0, <1>7, EndCallKeeps
  <2>3. ProcessInv'
    <3>1. CASE decision # None
      BY <1>3, <1>7, <2>1, <2>2, <3>1
    <3>2. CASE decision = None
      <4>1. boot \notin {"down", "locked", "initialized", "activated"}
        BY <1>1, <1>7 DEF RoundsExact
      <4> QED BY <1>1, <2>1, <2>2, <3>2, <4>1 DEF ProcessInv, RoundsExact, Deciding
    <3> QED BY <3>1, <3>2
  <2> QED BY <1>0, <1>1, <1>2, <2>1, <2>2, <2>3, WakeSteady
<1>8. ASSUME NEW c \in executing, LateCallTimesOut(c[1], c[2])
      PROVE  AutonomousInv'
  <2>1. UNCHANGED <<control, wakes, boot, tick, pollFailures, due, round, executing, fired>>
    BY <1>8 DEF LateCallTimesOut, processVars, historyVars
  <2>2. QueueInv' /\ CallInv' /\ UNCHANGED decision
    BY <1>0, <1>8, LateTimeoutKeeps
  <2>3. ProcessInv'
    BY <1>1, <2>1, <2>2 DEF ProcessInv, RoundsExact, Deciding
  <2> QED BY <1>0, <1>1, <1>2, <2>1, <2>2, <2>3, WakeSteady
<1>9. ASSUME NEW index, CallTimesOut(index)
      PROVE  AutonomousInv'
  <2>1. /\ UNCHANGED <<control, wakes, boot, tick, pollFailures, due, round, fired>>
        /\ round.at # "idle" \/ executing # {}
    BY <1>9 DEF CallTimesOut, processVars
  <2>2. /\ QueueInv' /\ CallInv'
        /\ decision # None /\ decision' # None /\ decision'.event = decision.event
        /\ decision.actions # <<>> /\ decision'.actions # <<>>
    BY <1>0, <1>9, TimeoutKeeps
  <2>3. ProcessInv'
    BY <1>3, <2>1, <2>2
  <2> QED BY <1>0, <1>1, <1>2, <2>1, <2>2, <2>3, WakeSteady
<1> QED BY <1>5, <1>6, <1>7, <1>8, <1>9 DEF ToolNext

-----------------------------------------------------------------------------
(* Refinement: events are delivered once *)

\* New events are new events of the abstract queue, or none were accepted.
LEMMA EnqueueDelivers ==
    ASSUME QueueInv, NEW ks \in Seq(EventKinds), Enqueue(ks), UNCHANGED <<decision, round, acted>>
    PROVE  [Once!OnceNext]_Once!onceVars
<1>1. PICK n \in Nat :
              /\ sequence' = sequence + n
              /\ events' \in Seq(Event)
              /\ Len(events) \in Nat /\ Len(events') = Len(events) + n /\ Len(events') <= QueueLimit
              /\ \A k \in 1..Len(events) : events'[k] = events[k]
              /\ \A k \in Len(events) + 1 .. Len(events) + n :
                    events'[k].id = sequence + k - Len(events) - 1
              /\ receipts' = receipts \cup (sequence .. sequence + n - 1)
  BY EnqueueEffect
<1>2. sequence \in Nat /\ events \in Seq(Event)
  BY DEF QueueInv, QueueTypes
<1> DEFINE new == [j \in 1..n |-> sequence + j - 1]
<1>3. /\ IdSeq(events) \in Seq(Nat) /\ Len(IdSeq(events)) = Len(events)
      /\ \A k \in 1..Len(events) : IdSeq(events)[k] = events[k].id
  BY <1>2, IdSeqProperties
<1>4. /\ IdSeq(events') \in Seq(Nat) /\ Len(IdSeq(events')) = Len(events')
      /\ \A k \in 1..Len(events') : IdSeq(events')[k] = events'[k].id
  BY <1>1, IdSeqProperties
<1>5. new \in Seq(Nat) /\ Len(new) = n
  <2>1. new \in [1..n -> Nat]
    BY <1>2
  <2> QED BY <2>1, FunctionIsSeq
<1>6. \A j \in 1..n : new[j] = sequence + j - 1
  OBVIOUS
<1> HIDE DEF new
<1> DEFINE cat == IdSeq(events) \o new
<1>7. /\ cat \in Seq(Nat) /\ Len(cat) = Len(events) + n
      /\ \A i \in 1..Len(events) + n :
            cat[i] = IF i <= Len(events) THEN IdSeq(events)[i] ELSE new[i - Len(events)]
  <2> DEFINE ids == IdSeq(events)
  <2>1. ids \in Seq(Nat) /\ new \in Seq(Nat) /\ Len(ids) = Len(events) /\ Len(new) = n
    BY <1>3, <1>5
  <2> HIDE DEF ids
  <2>2. /\ ids \o new \in Seq(Nat) /\ Len(ids \o new) = Len(ids) + Len(new)
        /\ \A i \in 1..Len(ids) + Len(new) :
              (ids \o new)[i] = IF i <= Len(ids) THEN ids[i] ELSE new[i - Len(ids)]
    BY <2>1, NumbersConcat, Zenon
  <2> QED BY <2>1, <2>2 DEF ids
<1> HIDE DEF cat
<1>8. \A i \in 1..Len(cat) : cat[i] = IdSeq(events')[i]
  <2> SUFFICES ASSUME NEW i \in 1..Len(events) + n PROVE cat[i] = events'[i].id
    BY <1>1, <1>4, <1>7
  <2>1. CASE i <= Len(events)
    <3>1. i \in 1..Len(events)
      BY <1>1, <2>1
    <3>2. cat[i] = IdSeq(events)[i]
      BY <1>7, <2>1
    <3> QED BY <1>1, <1>3, <3>1, <3>2
  <2>2. CASE ~(i <= Len(events))
    <3>1. i \in Len(events) + 1 .. Len(events) + n /\ i - Len(events) \in 1..n
      BY <1>1, <2>2
    <3>2. cat[i] = sequence + (i - Len(events)) - 1
      BY <1>6, <1>7, <2>2, <3>1
    <3>3. events'[i].id = sequence + i - Len(events) - 1
      BY <1>1, <3>1
    <3> QED BY <1>1, <1>2, <3>1, <3>2, <3>3
  <2> QED BY <2>1, <2>2
<1>9. IdSeq(events') = cat
  BY <1>1, <1>4, <1>7, <1>8, SeqEqual
<1>10. CASE n = 0
  <2>1. sequence' = sequence
    BY <1>1, <1>2, <1>10
  <2>2. new = <<>>
    BY <1>5, <1>10, EmptySeq
  <2>3. IdSeq(events') = IdSeq(events)
    BY <1>3, <1>9, <2>2, ConcatEmptySeq DEF cat
  <2> QED BY <2>1, <2>3 DEF Once!onceVars
<1>11. CASE n # 0
  <2>1. sequence' \in Nat /\ sequence' > sequence /\ sequence' - sequence = n
    BY <1>1, <1>2, <1>11
  <2>2. IdSeq(events') = IdSeq(events) \o [j \in 1..(sequence' - sequence) |-> sequence + j - 1]
    BY <1>9, <2>1 DEF cat, new
  <2>3. Once!AcceptEvents
    BY <2>1, <2>2 DEF Once!AcceptEvents
  <2> QED BY <2>3 DEF Once!OnceNext
<1> QED BY <1>10, <1>11

\* The oldest event is taken.
LEMMA TakeDelivers ==
    ASSUME QueueInv, round.at = "idle", decision = None, events # <<>>,
           decision' # None, decision'.event = Head(events).id, events' = Tail(events),
           UNCHANGED <<sequence, acted>>
    PROVE  Once!OnceNext
<1>1. events \in Seq(Event)
  BY DEF QueueInv, QueueTypes
<1>2. /\ Len(events) \in Nat \ {0} /\ events' \in Seq(Event) /\ Len(events') = Len(events) - 1
      /\ \A i \in 1..Len(events) - 1 : events'[i] = events[i + 1]
      /\ Head(events) = events[1]
  BY <1>1, HeadTailProperties, EmptySeq
<1> DEFINE ids == IdSeq(events)
<1>3. /\ ids \in Seq(Nat) /\ Len(ids) = Len(events)
      /\ \A k \in 1..Len(events) : ids[k] = events[k].id
  BY <1>1, IdSeqProperties
<1>4. /\ IdSeq(events') \in Seq(Nat) /\ Len(IdSeq(events')) = Len(events) - 1
      /\ \A k \in 1..Len(events) - 1 : IdSeq(events')[k] = events[k + 1].id
  <2>1. /\ IdSeq(events') \in Seq(Nat) /\ Len(IdSeq(events')) = Len(events')
        /\ \A k \in 1..Len(events') : IdSeq(events')[k] = events'[k].id
    <3> DEFINE rest == events'
    <3>1. rest \in Seq(Event)
      BY <1>2
    <3> HIDE DEF rest
    <3>2. /\ IdSeq(rest) \in Seq(Nat) /\ Len(IdSeq(rest)) = Len(rest)
          /\ \A k \in 1..Len(rest) : IdSeq(rest)[k] = rest[k].id
      BY <3>1, IdSeqProperties
    <3> QED BY <3>2 DEF rest
  <2> QED BY <1>2, <2>1
<1> HIDE DEF ids
<1>5. /\ ids # <<>> /\ Tail(ids) \in Seq(Nat) /\ Len(Tail(ids)) = Len(events) - 1
      /\ Head(ids) = events[1].id
  BY <1>2, <1>3, HeadTailProperties, EmptySeq
<1>6. \A k \in 1..Len(events) - 1 : Tail(ids)[k] = events[k + 1].id
  <2> SUFFICES ASSUME NEW k \in 1..Len(events) - 1 PROVE Tail(ids)[k] = events[k + 1].id
    OBVIOUS
  <2>1. k + 1 \in 1..Len(events) /\ k \in 1..Len(Tail(ids))
    BY <1>2, <1>5
  <2>2. Tail(ids)[k] = ids[k + 1]
    BY <1>3, <1>5, <2>1, HeadTailProperties
  <2> QED BY <1>3, <2>1, <2>2
<1>7. IdSeq(events') = Tail(ids)
  <2> DEFINE s == IdSeq(events')
             t == Tail(ids)
  <2>1. /\ s \in Seq(Nat) /\ t \in Seq(Nat) /\ Len(s) = Len(t)
        /\ \A k \in 1..Len(s) : s[k] = t[k]
    BY <1>2, <1>4, <1>5, <1>6
  <2> HIDE DEF s, t
  <2>2. s = t
    BY <2>1, SeqEqual
  <2> QED BY <2>2 DEF s, t
<1>8. Once!TakeEvent
  BY <1>2, <1>5, <1>7 DEF Once!TakeEvent, ids
<1> QED BY <1>8 DEF Once!OnceNext

\* A step that leaves queue and decision alone starts no round: it breaks one off or
\* is invisible.
LEMMA RoundDelivers ==
    ASSUME UNCHANGED <<sequence, events, acted>>,
           decision' = None <=> decision = None, decision # None => decision'.event = decision.event,
           (round'.at # "idle" /\ ~round'.aborted) => (round.at # "idle" /\ ~round.aborted)
    PROVE  [Once!OnceNext]_Once!onceVars
<1> DEFINE old == round.at # "idle" /\ ~round.aborted
           new == round'.at # "idle" /\ ~round'.aborted
<1>1. CASE old = new
  BY <1>1 DEF Once!onceVars
<1>2. CASE old /\ ~new
  <2>1. Once!BreakOff
    BY <1>2 DEF Once!BreakOff
  <2> QED BY <2>1 DEF Once!OnceNext
<1> QED BY <1>1, <1>2

\* Every step of the daemon is one that OnceDelivery allows, or none.
LEMMA AutonomousMaps == AutonomousInv /\ [AutonomousNext]_autonomousVars => [Once!OnceNext]_Once!onceVars
<1> SUFFICES ASSUME AutonomousInv, [AutonomousNext]_autonomousVars
             PROVE  [Once!OnceNext]_Once!onceVars
  OBVIOUS
<1>0. /\ QueueInv /\ CallInv /\ ProcessInv /\ WakeInv
      /\ round \in Rounds /\ RoundsExact /\ ActedOnRecord /\ NoRound.at = "idle"
  BY InvGroups DEF ProcessInv, CallInv, NoRound
<1>1. ASSUME FinishDecision, decision # None, round' = NoRound, UNCHANGED <<sequence, events>>
      PROVE  Once!OnceNext
  <2>1. decision' = None /\ acted' = FALSE /\ decision.event # None
    BY <1>0, <1>1, DecisionFields DEF FinishDecision
  <2>2. Once!CloseEvent
    BY <1>0, <1>1, <2>1 DEF Once!CloseEvent
  <2> QED BY <2>2 DEF Once!OnceNext
<1>2. ASSUME DaemonNext PROVE [Once!OnceNext]_Once!onceVars
  <2>1. CASE Launch \/ Terminate \/ LoopEnds \/ Activate
    BY <2>1, RoundDelivers DEF Launch, Terminate, LoopEnds, Activate, durableVars, historyVars
  <2>2. CASE Initialize
    <3>1. round = NoRound /\ round' = NoRound /\ UNCHANGED <<sequence, events>>
      BY <1>0, <2>2 DEF Initialize, RoundsExact
    <3>2. CASE decision # None /\ decision.actions # <<>>
      BY <1>1, <2>2, <3>1, <3>2 DEF Initialize
    <3>3. CASE ~(decision # None /\ decision.actions # <<>>)
      BY <2>2, <3>1, <3>3, RoundDelivers DEF Initialize
    <3> QED BY <3>2, <3>3
  <2>3. CASE StartEvent
    <3>1. <<"start">> \in Seq(EventKinds)
      BY DEF EventKinds
    <3> QED BY <1>0, <2>3, <3>1, EnqueueDelivers DEF StartEvent, historyVars
  <2>4. CASE StopModel
    <3>1. round'.aborted = TRUE /\ UNCHANGED <<sequence, events, decision, acted>>
      BY <1>0, <2>4 DEF StopModel, Aborted, Rounds, durableVars, historyVars
    <3> QED BY <3>1, RoundDelivers
  <2>5. CASE Exit \/ Die
    <3>1. round'.at = "idle" /\ UNCHANGED <<sequence, events, decision, acted>>
      BY <1>0, <2>5 DEF Exit, Die, durableVars, historyVars
    <3> QED BY <3>1, RoundDelivers
  <2> QED BY <1>2, <2>1, <2>2, <2>3, <2>4, <2>5 DEF DaemonNext
<1>3. ASSUME OperatorNext PROVE [Once!OnceNext]_Once!onceVars
  <2>1. /\ UNCHANGED <<decision, round, acted>>
        /\ Enqueue(<<"start">>) \/ UNCHANGED <<sequence, events>>
    BY <1>3 DEF OperatorNext, Pause, StopCommand, Resume, processVars, historyVars
  <2>2. <<"start">> \in Seq(EventKinds)
    BY DEF EventKinds
  <2> QED BY <1>0, <2>1, <2>2, EnqueueDelivers, RoundDelivers
<1>4. ASSUME TickNext PROVE [Once!OnceNext]_Once!onceVars
  <2>1. CASE TickControl
    <3>1. /\ UNCHANGED <<sequence, events, decision, acted>>
          /\ round' = round \/ round' = Aborted(round)
      BY <2>1 DEF TickControl, durableVars, historyVars
    <3>2. round' = Aborted(round) => round'.aborted = TRUE
      BY <1>0 DEF Aborted, Rounds
    <3> QED BY <3>1, <3>2, RoundDelivers
  <2>2. ASSUME NEW new \in Reports, PollReports(new)
        PROVE  [Once!OnceNext]_Once!onceVars
    <3>1. new \in Seq(EventKinds)
      BY SeqMonotonic DEF EventKinds
    <3> QED BY <1>0, <2>2, <3>1, EnqueueDelivers DEF PollReports, historyVars
  <2>3. CASE PollFails \/ PollWaits \/ BeginNothing \/ BeginWaits
    BY <2>3, RoundDelivers DEF PollFails, PollWaits, BeginNothing, BeginWaits, durableVars, historyVars
  <2>4. ASSUME NEW firing \in SUBSET Current, EvaluateWakes(firing)
        PROVE  [Once!OnceNext]_Once!onceVars
    <3>1. /\ Enqueue([j \in 1..Cardinality(firing) |-> "wake"])
          /\ UNCHANGED <<decision, round, acted>>
      BY <2>4 DEF EvaluateWakes
    <3> QED BY <1>0, <3>1, FiringKinds, EnqueueDelivers
  <2>5. CASE BeginDecision
    <3>1. round.at = "idle" /\ UNCHANGED <<sequence, acted>>
      BY <2>5 DEF BeginDecision, historyVars
    <3>2. CASE decision = None
      <4>1. /\ events # <<>> /\ events' = Tail(events)
            /\ decision' = [event |-> Head(events).id, attempts |-> 1, actions |-> <<>>,
                            blocked |-> FALSE]
        BY <2>5, <3>2 DEF BeginDecision
      <4>2. decision' # None
        <5>1. UNCHANGED <<sequence, receipts, unfinished, summaries, executing, acted, timedOut>>
          BY <2>5 DEF BeginDecision, historyVars
        <5> QED BY <1>0, <3>2, <4>1, <5>1, TakeKeeps
      <4> QED BY <1>0, <3>1, <3>2, <4>1, <4>2, TakeDelivers
    <3>3. CASE decision # None
      <4>1. /\ UNCHANGED events
            /\ decision' = [decision EXCEPT !.attempts = IF @ < Attempts THEN @ + 1 ELSE @]
        BY <2>5, <3>3 DEF BeginDecision
      <4>2. decision \in Decision /\ decision.event \in Nat /\ decision.event # None
        BY <1>0, <3>3, DecisionFields
      <4>3. decision'.event = decision.event /\ decision' # None
        <5>1. decision.attempts \in Nat
          BY <4>2 DEF Decision
        <5> DEFINE n == IF decision.attempts < Attempts THEN decision.attempts + 1 ELSE decision.attempts
        <5>2. n \in Nat /\ decision' = [decision EXCEPT !.attempts = n]
          BY <4>1, <5>1
        <5> HIDE DEF n
        <5>3. decision' \in Decision /\ decision'.event = decision.event
          BY <4>2, <5>2 DEF Decision
        <5> QED BY <5>3
      <4>4. CASE boot = "up"
        <5>1. round' = [at |-> "running", event |-> decision'.event, aborted |-> FALSE]
          BY <2>5, <4>4 DEF BeginDecision
        <5>2. acted = FALSE /\ acted' = FALSE
          BY <1>0, <3>1, <3>3, <4>4 DEF RoundsExact, ActedOnRecord, CallInv, CallTypes
        <5>3. Once!RetryEvent
          BY <3>1, <3>3, <4>1, <4>2, <4>3, <5>1, <5>2 DEF Once!RetryEvent
        <5> QED BY <5>3 DEF Once!OnceNext
      <4>5. CASE boot # "up"
        <5>1. round' = [at |-> "failed", event |-> decision'.event, aborted |-> TRUE]
          BY <2>5, <4>5 DEF BeginDecision
        <5>2. round'.aborted = TRUE
          BY <5>1
        <5> QED BY <3>1, <3>3, <4>1, <4>3, <5>2, RoundDelivers
      <4> QED BY <4>4, <4>5
    <3> QED BY <3>2, <3>3
  <2> QED BY <1>4, <2>1, <2>2, <2>3, <2>4, <2>5 DEF TickNext
<1>5. ASSUME ModelNext PROVE [Once!OnceNext]_Once!onceVars
  <2>1. CASE ModelDone
    <3>1. /\ UNCHANGED <<sequence, events, decision, acted>> /\ round.at # "idle"
          /\ round' = [round EXCEPT !.at = "done"]
      BY <2>1 DEF ModelDone, durableVars, historyVars
    <3>2. round'.aborted = round.aborted
      BY <1>0, <3>1 DEF Rounds
    <3> QED BY <3>1, <3>2, RoundDelivers
  <2>2. ASSUME NEW deadline \in BOOLEAN, ModelFails(deadline)
        PROVE  [Once!OnceNext]_Once!onceVars
    <3>1. /\ UNCHANGED <<sequence, events, decision, acted>> /\ round.at # "idle"
          /\ round' = [round EXCEPT !.at = "failed", !.aborted = @ \/ deadline]
      BY <2>2 DEF ModelFails, durableVars, historyVars
    <3>2. round.aborted => round'.aborted
      BY <1>0, <3>1 DEF Rounds
    <3> QED BY <3>1, <3>2, RoundDelivers
  <2>3. CASE EndRound
    <3>1. round' = NoRound /\ UNCHANGED <<sequence, events>> /\ decision # None
      BY <1>0, <2>3 DEF EndRound, RoundsExact, Deciding
    <3>2. CASE FinishDecision
      BY <1>1, <3>1, <3>2
    <3>3. CASE UNCHANGED <<decision, acted>>
      BY <1>0, <3>1, <3>3, RoundDelivers
    <3> QED BY <2>3, <3>2, <3>3 DEF EndRound
  <2>4. CASE EndRoundUnstored
    BY <1>0, <2>4, RoundDelivers DEF EndRoundUnstored, durableVars, historyVars
  <2> QED BY <1>5, <2>1, <2>2, <2>3, <2>4 DEF ModelNext
<1>6. ASSUME ToolNext PROVE [Once!OnceNext]_Once!onceVars
  <2>1. ASSUME NEW status \in Statuses, StartCall(status),
               \/ UNCHANGED executing
               \/ /\ executing' = executing \cup {<<decision.event, Len(decision.actions) + 1>>}
                  /\ status \in Open,
               UNCHANGED <<events, sequence, receipts, unfinished, summaries, timedOut, round>>
        PROVE  Once!OnceNext
    <3>1. decision # None /\ decision' # None /\ decision'.event = decision.event
      BY <1>0, <2>1, StartKeeps
    <3>2. round.at # "idle" /\ ~round.aborted /\ acted' = TRUE
      BY <2>1 DEF StartCall, Authorized
    <3>3. Once!StartMutation
      BY <2>1, <3>1, <3>2 DEF Once!StartMutation
    <3> QED BY <3>3 DEF Once!OnceNext
  <2>2. "started" \in Statuses /\ "settled" \in Statuses /\ "started" \in Open
    BY DEF Statuses, Open
  <2>3. CASE TradeCall
    BY <2>1, <2>2, <2>3 DEF TradeCall
  <2>4. ASSUME NEW w \in Revisions, (\E old : ScheduleWake(w, old)) \/ CancelWake(w)
        PROVE  [Once!OnceNext]_Once!onceVars
    BY <2>1, <2>2, <2>4 DEF ScheduleWake, CancelWake, processVars
  <2>5. ASSUME NEW c \in executing, NEW status \in Statuses \ {"started"}, EndCall(c[1], c[2], status)
        PROVE  [Once!OnceNext]_Once!onceVars
    <3>1. /\ decision' = None <=> decision = None
          /\ decision # None => decision'.event = decision.event
      BY <1>0, <2>5, EndCallKeeps
    <3>2. UNCHANGED <<sequence, events, acted, round>>
      BY <2>5 DEF EndCall, historyVars
    <3> QED BY <3>1, <3>2, RoundDelivers
  <2>6. ASSUME NEW c \in executing, LateCallTimesOut(c[1], c[2])
        PROVE  [Once!OnceNext]_Once!onceVars
    <3>1. UNCHANGED <<decision, sequence, events, acted, round>>
      BY <1>0, <2>6, LateTimeoutKeeps DEF LateCallTimesOut, historyVars, processVars
    <3> QED BY <3>1, RoundDelivers
  <2>7. ASSUME NEW index, CallTimesOut(index)
        PROVE  [Once!OnceNext]_Once!onceVars
    <3>1. decision # None /\ decision' # None /\ decision'.event = decision.event
      BY <1>0, <2>7, TimeoutKeeps
    <3>2. UNCHANGED <<sequence, events, acted, round>>
      BY <2>7 DEF CallTimesOut, processVars
    <3> QED BY <3>1, <3>2, RoundDelivers
  <2> QED BY <1>6, <2>3, <2>4, <2>5, <2>6, <2>7 DEF ToolNext
<1>7. ASSUME UNCHANGED autonomousVars PROVE [Once!OnceNext]_Once!onceVars
  BY <1>7, RoundDelivers DEF autonomousVars, durableVars, processVars, historyVars
<1> QED BY <1>2, <1>3, <1>4, <1>5, <1>6, <1>7 DEF AutonomousNext

-----------------------------------------------------------------------------
(* The theorems *)

\* An empty store satisfies the invariant.
LEMMA AutonomousInitInv == AutonomousInit => AutonomousInv
<1> SUFFICES ASSUME AutonomousInit PROVE AutonomousInv
  OBVIOUS
<1> USE DEF AutonomousInit
<1>1. /\ <<>> \in Seq(Event) /\ <<>> \in Seq(Nat) /\ Len(<<>>) = 0
  BY EmptySeq
<1>2. AutonomousTypeOK
  BY <1>1 DEF AutonomousTypeOK, NoRound, Controls
<1>3. StateValidates /\ Ordered
  <2>1. Ids(<<>>) = {} /\ Members(<<>>) = {}
    BY <1>1 DEF Ids, Members
  <2> QED BY <1>1, <2>1 DEF StateValidates, Ordered
<1>4. /\ ProgressKept /\ TimeoutEndsMutations /\ OpenLast /\ TimeoutsBlock /\ ActedOnRecord
  BY DEF ProgressKept, TimeoutEndsMutations, OpenLast, TimeoutsBlock, ActedOnRecord
<1>5. RoundsExact /\ WakeFiresOnce /\ SpentWakes
  BY DEF RoundsExact, WakeFiresOnce, SpentWakes, NoRound
<1> QED BY <1>2, <1>3, <1>4, <1>5 DEF AutonomousInv

\* Every step of the daemon preserves the invariant.
LEMMA AutonomousStep == AutonomousInv /\ [AutonomousNext]_autonomousVars => AutonomousInv'
<1> SUFFICES ASSUME AutonomousInv, [AutonomousNext]_autonomousVars PROVE AutonomousInv'
  OBVIOUS
<1>1. ASSUME UNCHANGED autonomousVars PROVE AutonomousInv'
  <2>0. QueueInv /\ CallInv /\ ProcessInv /\ WakeInv
    BY InvGroups
  <2>1. /\ UNCHANGED <<sequence, events, receipts, decision, unfinished, summaries, wakes, control>>
        /\ UNCHANGED <<boot, tick, pollFailures, due, round, executing, acted, timedOut, fired>>
    BY <1>1 DEF autonomousVars, durableVars, processVars, historyVars
  <2>2. due' \in SUBSET Revisions
    BY <2>0, <2>1 DEF WakeInv
  <2>3. ProcessInv'
    BY <2>0, <2>1 DEF ProcessInv, RoundsExact, Deciding
  <2> QED BY <2>0, <2>1, <2>2, <2>3, QueueSteady, CallSteady, WakeSteady, InvGroupsNext DEF decisionVars
<1> QED BY <1>1, DaemonStep, OperatorStep, TickStep, ModelStep, ToolStep DEF AutonomousNext

\* The daemon's invariant: queue, decision and summaries stay in line, only the last
\* action of a decision can be open, and without a round a decision that acted waits
\* only for the next start.
THEOREM AutonomousInvariant == AutonomousSpec => []AutonomousInv
  BY AutonomousInitInv, AutonomousStep, PTL DEF AutonomousSpec

\* The stored state never fails validateAutonomousState, whatever died in between.
THEOREM AutonomousStateValidates == AutonomousSpec => []StateValidates
<1>1. AutonomousInv => StateValidates
  BY DEF AutonomousInv
<1> QED BY <1>1, AutonomousInvariant, PTL

\* A mutation under way is always on record where its outcome will be stored.
THEOREM AutonomousProgressKept == AutonomousSpec => []ProgressKept
<1>1. AutonomousInv => ProgressKept
  BY DEF AutonomousInv
<1> QED BY <1>1, AutonomousInvariant, PTL

\* No mutation follows one that timed out in the same decision.
THEOREM AutonomousTimeoutEnds == AutonomousSpec => []TimeoutEndsMutations
<1>1. AutonomousInv => TimeoutEndsMutations
  BY DEF AutonomousInv
<1> QED BY <1>1, AutonomousInvariant, PTL

\* No revision of a wake fires twice.
THEOREM AutonomousWakeOnce == AutonomousSpec => []WakeFiresOnce
<1>1. AutonomousInv => WakeFiresOnce
  BY DEF AutonomousInv
<1> QED BY <1>1, AutonomousInvariant, PTL

\* The daemon implements OnceDelivery: events are taken in order and once, and one for
\* which a mutation was started is never given to another round.
THEOREM AutonomousDeliversOnce == AutonomousSpec => DeliversOnce
<1>1. AutonomousInit => Once!OnceInit
  <2> SUFFICES ASSUME AutonomousInit PROVE Once!OnceInit
    OBVIOUS
  <2>1. IdSeq(<<>>) = <<>>
    BY EmptySeq DEF IdSeq
  <2> QED BY <2>1 DEF AutonomousInit, Once!OnceInit, NoRound
<1> QED BY <1>1, AutonomousMaps, AutonomousInvariant, PTL DEF AutonomousSpec, DeliversOnce, Once!OnceSpec

-----------------------------------------------------------------------------
(* What delivery once means for the daemon *)

\* A model round may still act.
Working == round.at # "idle" /\ ~round.aborted

\* No accepted event is queued again; a decision starts on the oldest queued event, when
\* there is no other, and takes it off the queue; and once it acted no new round works on
\* it.
HandledOnce ==
    /\ \A n \in Ids(events)' : n \in Ids(events) \/ n >= sequence
    /\ decision' # None /\ (decision = None \/ decision'.event # decision.event) =>
            /\ decision = None
            /\ decision'.event \in Ids(events) \ Ids(events)'
            /\ \A n \in Ids(events) : decision'.event <= n
    /\ decision # None /\ decision' # None /\ acted /\ ~Working => ~Working'

\* What the abstract steps mean for the daemon's queue, decision and round.
LEMMA DeliveryHandles ==
    ASSUME QueueInv, QueueInv', [Once!OnceNext]_Once!onceVars
    PROVE  HandledOnce
<1> DEFINE ids == IdSeq(events)
           next == IdSeq(events)'
           cur == IF decision = None THEN None ELSE decision.event
           new == IF decision' = None THEN None ELSE decision'.event
<1>1. /\ sequence \in Nat /\ events \in Seq(Event) /\ events' \in Seq(Event)
      /\ decision \in Decision \cup {None} /\ decision' \in Decision \cup {None} /\ Ordered
  BY DEF QueueInv, QueueTypes
<1>2. /\ ids \in Seq(Nat) /\ Len(ids) \in Nat /\ Len(ids) = Len(events)
      /\ \A k \in 1..Len(ids) : ids[k] = events[k].id /\ ids[k] \in Nat
  <2>1. /\ IdSeq(events) \in Seq(Nat) /\ Len(IdSeq(events)) = Len(events)
        /\ \A k \in 1..Len(events) : IdSeq(events)[k] = events[k].id /\ events[k].id \in Nat
    BY <1>1, IdSeqProperties
  <2> QED BY <1>1, <2>1
<1>3. /\ next \in Seq(Nat) /\ Len(next) = Len(events') /\ Len(next) \in Nat
      /\ \A k \in 1..Len(next) : next[k] = events'[k].id /\ next[k] \in Nat
  <2> DEFINE later == events'
  <2>1. later \in Seq(Event)
    BY <1>1
  <2> HIDE DEF later
  <2>2. /\ IdSeq(later) \in Seq(Nat) /\ Len(IdSeq(later)) = Len(later)
        /\ \A k \in 1..Len(later) : IdSeq(later)[k] = later[k].id /\ later[k].id \in Nat
    BY <2>1, IdSeqProperties
  <2> QED BY <2>1, <2>2 DEF later
<1>4. /\ Ids(events) = {ids[k] : k \in 1..Len(ids)}
      /\ Ids(events)' = {next[k] : k \in 1..Len(next)}
  BY <1>2, <1>3 DEF Ids
<1>5. /\ cur = None <=> decision = None
      /\ new = None <=> decision' = None
  BY <1>1 DEF Decision
<1>6. \/ next = ids
      \/ /\ new = cur
         /\ \A k \in 1..Len(next) : next[k] \in Ids(events) \/ next[k] >= sequence
      \/ /\ cur = None /\ ids # <<>> /\ next = Tail(ids) /\ new = Head(ids)
  <2>1. CASE Once!AcceptEvents
    <3> DEFINE more == sequence' - sequence
               added == [j \in 1..more |-> sequence + j - 1]
    <3>1. sequence' \in Nat /\ sequence' > sequence /\ next = ids \o added /\ new = cur
      BY <2>1 DEF Once!AcceptEvents
    <3>2. more \in Nat
      <4>1. sequence \in Nat /\ sequence' \in Nat /\ sequence' > sequence
        BY <1>1, <3>1
      <4>2. ASSUME NEW a \in Nat, NEW b \in Nat, a > b PROVE a - b \in Nat
        BY <4>2
      <4>3. sequence' - sequence \in Nat
        BY <4>1, <4>2
      <4> QED BY <4>3 DEF more
    <3> HIDE DEF more
    <3>3. /\ added \in Seq(Nat) /\ Len(added) = more
          /\ \A j \in 1..more : added[j] >= sequence
      <4>1. \A j \in 1..more : sequence + j - 1 \in Nat /\ sequence + j - 1 >= sequence
        BY <1>1, <3>2
      <4>2. added \in [1..more -> Nat] /\ \A j \in 1..more : added[j] >= sequence
        BY <4>1
      <4> QED BY <3>2, <4>2, FunctionIsSeq
    <3> HIDE DEF added, ids, next
    <3>4. /\ ids \o added \in Seq(Nat) /\ Len(ids \o added) = Len(ids) + Len(added)
          /\ \A k \in 1..Len(ids) + Len(added) :
                (ids \o added)[k] = IF k <= Len(ids) THEN ids[k] ELSE added[k - Len(ids)]
      BY <1>2, <3>3, NumbersConcat, Zenon
    <3>5. ASSUME NEW k \in 1..Len(next) PROVE next[k] \in Ids(events) \/ next[k] >= sequence
      <4>1. CASE k <= Len(ids)
        BY <1>2, <1>4, <3>1, <3>3, <3>4, <4>1
      <4>2. CASE k > Len(ids)
        <5>1. k - Len(ids) \in 1..Len(added)
          BY <1>2, <3>1, <3>3, <3>4, <4>2
        <5> QED BY <1>2, <3>1, <3>3, <3>4, <4>2, <5>1
      <4> QED BY <1>2, <4>1, <4>2
    <3> QED BY <3>1, <3>5
  <2>2. CASE Once!TakeEvent
    BY <2>2 DEF Once!TakeEvent
  <2>3. CASE Once!RetryEvent \/ Once!StartMutation \/ Once!BreakOff \/ Once!CloseEvent
    BY <2>3 DEF Once!RetryEvent, Once!StartMutation, Once!BreakOff, Once!CloseEvent
  <2>4. CASE UNCHANGED Once!onceVars
    BY <2>4 DEF Once!onceVars
  <2> QED BY <2>1, <2>2, <2>3, <2>4 DEF Once!OnceNext
<1>7. \/ new \in {cur, None}
      \/ cur = None /\ ids # <<>> /\ next = Tail(ids) /\ new = Head(ids)
  BY DEF Once!OnceNext, Once!AcceptEvents, Once!TakeEvent, Once!RetryEvent, Once!StartMutation,
         Once!BreakOff, Once!CloseEvent, Once!onceVars
<1>8. cur # None /\ new # None /\ acted /\ ~Working => ~Working'
  BY DEF Working, Once!OnceNext, Once!AcceptEvents, Once!TakeEvent, Once!RetryEvent, Once!StartMutation,
         Once!BreakOff, Once!CloseEvent, Once!onceVars
<1>9. \A i, j \in 1..Len(ids) : i < j => ids[i] < ids[j]
  BY <1>1, <1>2 DEF Ordered
<1> HIDE DEF ids, next, cur, new
<1>10. ASSUME ids # <<>>
       PROVE  /\ Head(ids) = ids[1] /\ 1 \in 1..Len(ids)
              /\ Len(Tail(ids)) = Len(ids) - 1
              /\ \A k \in 1..Len(ids) - 1 : Tail(ids)[k] = ids[k + 1] /\ k + 1 \in 1..Len(ids)
  BY <1>2, <1>10, HeadTailProperties, EmptySeq
<1>11. \A n \in Ids(events)' : n \in Ids(events) \/ n >= sequence
  <2>1. CASE next = ids
    BY <1>4, <2>1
  <2>2. CASE \A k \in 1..Len(next) : next[k] \in Ids(events) \/ next[k] >= sequence
    BY <1>4, <2>2
  <2>3. CASE ids # <<>> /\ next = Tail(ids)
    BY <1>4, <1>10, <2>3
  <2> QED BY <1>6, <2>1, <2>2, <2>3
<1>12. ASSUME cur = None, ids # <<>>, next = Tail(ids), new = Head(ids)
       PROVE  /\ new \in Ids(events) \ Ids(events)'
              /\ \A n \in Ids(events) : new <= n
  <2>1. new = ids[1] /\ new \in Ids(events) /\ new \in Nat
    BY <1>2, <1>4, <1>10, <1>12
  <2>2. \A k \in 1..Len(ids) : k = 1 \/ ids[1] < ids[k]
    BY <1>2, <1>9, <1>10, <1>12
  <2>3. \A n \in Ids(events) : new <= n
    BY <1>2, <1>4, <2>1, <2>2
  <2>4. \A k \in 1..Len(next) : next[k] \in Nat /\ next[k] > new
    <3> SUFFICES ASSUME NEW k \in 1..Len(next) PROVE next[k] \in Nat /\ next[k] > new
      OBVIOUS
    <3>1. next[k] = ids[k + 1] /\ k + 1 \in 1..Len(ids) /\ k + 1 # 1
      BY <1>2, <1>10, <1>12
    <3> QED BY <1>2, <2>1, <2>2, <3>1
  <2>5. new \notin Ids(events)'
    BY <1>4, <2>1, <2>4
  <2> QED BY <2>1, <2>3, <2>5
<1>13. (decision # None => cur = decision.event) /\ (decision' # None => new = decision'.event)
  BY DEF cur, new
<1> QED BY <1>5, <1>7, <1>8, <1>11, <1>12, <1>13 DEF HandledOnce

\* Every event is decided on at most once, oldest first, and a decision that touched the
\* account is not given to another model round, through crashes, restarts and dropped or
\* compacted receipts.
THEOREM AutonomousHandlesOnce == AutonomousSpec => [][HandledOnce]_autonomousVars
<1>1. AutonomousInv /\ AutonomousInv' /\ [AutonomousNext]_autonomousVars => [HandledOnce]_autonomousVars
  BY InvGroups, AutonomousMaps, DeliveryHandles, PTL
<1> QED BY <1>1, AutonomousInvariant, PTL DEF AutonomousSpec

=============================================================================
