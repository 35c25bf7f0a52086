-------------------------- MODULE RiskSupervisor_proofs --------------------------
(***************************************************************************)
(* Proofs about the risk supervisor, for every set of entries and exits,   *)
(* every number of attempts and every holding: the targets claim the       *)
(* repairs made out for them, an unresolved repair keeps its claim while   *)
(* the position is seen uncovered, and a position loses its target in two  *)
(* ways only.                                                              *)
(***************************************************************************)
EXTENDS RiskSupervisor, FiniteSums, TLAPS

USE SupervisorAssumption

\* What RepairKept says of a step.
ClaimsKept ==
    \A e \in targets' :
        (Uncovered /\ repair[e] \notin {None, repair'[e]}) => exec'[repair[e]] \in Known

Records == {"none", "prepared", "begun", "unknown", "committed", "released"}

\* The parts of the supervisor that the invariant is about, in the initial state.
LEMMA SupervisorInitInv == SupervisorInit => SupervisorInv
  BY DEF SupervisorInit, SupervisorInv, SupervisorShape, SubmissionKnown, ClaimsTrue, TargetsRecorded,
         Submitting, Idle, Orders

\* A step of others: purposes and the supervisor stay, records of entries are not lost,
\* and the targets that there were and are keep their claims.
LEMMA OthersStep ==
    ASSUME SupervisorInv,
           order' \in [Orders -> {"inflight", "open", "filled", "over"}],
           exec' \in [Orders -> Records],
           targets' \subseteq Entries, repair' \in [Entries -> Exits \cup {None}],
           sup.item \in Exits => exec'[sup.item] = exec[sup.item],
           \A e \in Entries : exec[e] # "none" => exec'[e] # "none",
           \A e \in targets' : exec'[e] # "none" /\ (e \in targets \/ exec[e] = "none") /\ repair'[e] = repair[e],
           \A e \in Entries : repair'[e] # None => e \in targets',
           UNCHANGED <<purpose, sup>>
    PROVE  SupervisorInv' /\ ClaimsKept
<1> USE DEF SupervisorInv, SupervisorShape
<1>1. SupervisorShape'
  BY DEF Records
<1>2. SubmissionKnown'
  BY DEF SubmissionKnown, Submitting
<1>3. ClaimsTrue'
  <2>1. ASSUME NEW e \in Entries, repair'[e] # None PROVE e \in targets' /\ purpose[repair'[e]] = e
    BY <2>1 DEF ClaimsTrue
  <2>2. ASSUME Submitting, sup.why = "repair"
        PROVE  /\ purpose[sup.item] # None
               /\ purpose[sup.item] \in targets' => repair'[purpose[sup.item]] = sup.item
    <3>1. sup.item \in Exits
      BY <2>2 DEF SubmissionKnown
    <3>2. purpose[sup.item] # None /\ exec[purpose[sup.item]] # "none"
      BY <2>2, <3>1 DEF ClaimsTrue, TargetsRecorded
    <3> QED BY <2>2, <3>1, <3>2 DEF ClaimsTrue
  <2> QED BY <2>1, <2>2 DEF ClaimsTrue, Submitting
<1>4. TargetsRecorded'
  BY DEF TargetsRecorded
<1>5. ClaimsKept
  BY DEF ClaimsKept
<1> QED BY <1>1, <1>2, <1>3, <1>4, <1>5

\* settle(): the targets that are left keep their claims.
LEMMA SettleKeeps ==
    ASSUME SupervisorInv, NEW o \in Orders, sup.item # o, exec[o] \in {"begun", "unknown"}, Settle(o),
           UNCHANGED <<order, purpose, sup>>
    PROVE  SupervisorInv' /\ ClaimsKept
<1> USE DEF SupervisorInv, SupervisorShape
<1>1. /\ exec' = [exec EXCEPT ![o] = IF order[o] = "over" THEN "released" ELSE "committed"]
      /\ targets' = LeftBy(o) /\ LeftBy(o) \subseteq targets
      /\ repair' = [e \in Entries |-> IF e \in LeftBy(o) THEN repair[e] ELSE None]
  BY DEF Settle, Settled, LeftBy
<1>2. exec' \in [Orders -> Records] /\ (sup.item \in Exits => exec'[sup.item] = exec[sup.item])
  BY <1>1 DEF Orders, Records
<1>3. /\ \A e \in Entries : exec[e] # "none" => exec'[e] # "none"
      /\ \A e \in targets : exec[e] # "none"
  BY <1>1 DEF Orders, TargetsRecorded
<1>4. /\ targets' \subseteq targets /\ targets' \subseteq Entries
      /\ repair' \in [Entries -> Exits \cup {None}]
      /\ \A e \in targets' : repair'[e] = repair[e]
      /\ \A e \in Entries : repair'[e] # None => e \in targets'
  BY <1>1
<1> QED BY <1>2, <1>3, <1>4, OthersStep

\* Entries of other processes, what becomes of orders that nobody waits for, and the
\* exchange.
LEMMA EntriesStep ==
    ASSUME SupervisorInv,
           \/ \E e \in Entries : PrepareEntry(e) \/ BeginEntry(e)
           \/ \E o \in Orders : OtherEnds(o) \/ Recover(o) \/ Lands(o) \/ Fill(o)
    PROVE  SupervisorInv' /\ ClaimsKept
<1> USE DEF SupervisorInv, SupervisorShape
<1>0. /\ sup.item \in Exits => sup.item \in Orders /\ sup.item \notin Entries /\ exec[sup.item] # "unknown"
      /\ \A e \in Entries : e \in Orders
      /\ \A e \in targets : exec[e] # "none"
      /\ \A e \in Entries : repair[e] # None => e \in targets
  BY DEF SubmissionKnown, Submitting, Orders, ClaimsTrue, TargetsRecorded
<1>1. CASE \E e \in Entries : PrepareEntry(e)
  <2> PICK e \in Entries : PrepareEntry(e) BY <1>1
  <2> QED BY <1>0, OthersStep DEF PrepareEntry, NextEntry, exchangeVars, Records
<1>2. CASE \E e \in Entries : BeginEntry(e)
  <2> PICK e \in Entries : BeginEntry(e) BY <1>2
  <2> QED BY <1>0, OthersStep DEF BeginEntry, targetVars, Records
<1>3. CASE \E o \in Orders : OtherEnds(o)
  <2> PICK o \in Orders : OtherEnds(o) BY <1>3
  <2>1. CASE Settle(o) /\ exec[o] = "begun"
    BY <2>1, SettleKeeps DEF OtherEnds, exchangeVars
  <2>2. CASE ~(Settle(o) /\ exec[o] = "begun")
    BY <1>0, <2>2, OthersStep DEF OtherEnds, exchangeVars, targetVars, Records
  <2> QED BY <2>1, <2>2
<1>4. CASE \E o \in Orders : Recover(o)
  <2> PICK o \in Orders : Recover(o) BY <1>4
  <2>1. sup.item # o
    BY DEF Recover, SubmissionKnown, Submitting, Orders
  <2> QED BY <2>1, SettleKeeps DEF Recover, exchangeVars
<1>5. CASE \E o \in Orders : Lands(o)
  <2> PICK o \in Orders, as \in {"open", "filled", "over"} : Land(o, as) BY <1>5 DEF Lands
  <2> QED BY <1>0, OthersStep DEF Land, targetVars, Records
<1>6. CASE \E o \in Orders : Fill(o)
  <2> PICK o \in Orders : Fill(o) BY <1>6
  <2> QED BY <1>0, OthersStep DEF Fill, targetVars, Records
<1> QED BY <1>1, <1>2, <1>3, <1>4, <1>5, <1>6

\* The pass between submissions: the supervisor has no exit before and after.
LEMMA PassStepKeeps ==
    ASSUME SupervisorInv,
           \/ StartPass \/ StorePass \/ ListExecutions \/ ReadTargets \/ AskAgain \/ EndPass \/ Crash
           \/ (\E breach \in BOOLEAN : StoreAfter(breach))
           \/ (\E e \in Entries, effective \in BOOLEAN : CancelEntry(e, effective))
           \/ (\E e \in Entries : RetireTarget(e) \/ LeaveTarget(e) \/ AwaitRepair(e) \/ MissTarget(e))
    PROVE  SupervisorInv' /\ ClaimsKept
<1> USE DEF SupervisorInv, SupervisorShape, SubmissionKnown, ClaimsTrue, TargetsRecorded, Submitting
<1>1. CASE StartPass \/ StorePass \/ ListExecutions \/ ReadTargets \/ AskAgain \/ EndPass \/ Crash
  <2> USE DEF Look, Idle, exchangeVars, targetVars, ClaimsKept
  <2>1. CASE StartPass BY <2>1 DEF StartPass
  <2>2. CASE StorePass BY <2>2 DEF StorePass
  <2>3. CASE AskAgain BY <2>3 DEF AskAgain
  <2>4. CASE EndPass BY <2>4 DEF EndPass
  <2>5. CASE Crash BY <2>5 DEF Crash
  <2>6. CASE ListExecutions BY <2>6 DEF ListExecutions
  <2>7. CASE ReadTargets BY <2>7 DEF ReadTargets
  <2> QED BY <1>1, <2>1, <2>2, <2>3, <2>4, <2>5, <2>6, <2>7
<1>2. CASE \E breach \in BOOLEAN : StoreAfter(breach)
  BY <1>2 DEF StoreAfter, Idle, exchangeVars, targetVars, ClaimsKept
<1>3. CASE \E e \in Entries, effective \in BOOLEAN : CancelEntry(e, effective)
  BY <1>3, OthersStep DEF CancelEntry, targetVars, Records
<1>4. CASE \E e \in Entries : RetireTarget(e)
  BY <1>4 DEF RetireTarget, Due, Done, exchangeVars, ClaimsKept
<1>5. CASE \E e \in Entries : LeaveTarget(e)
  BY <1>5 DEF LeaveTarget, FinishedWell, Due, Done, exchangeVars, ClaimsKept
<1>6. CASE \E e \in Entries : AwaitRepair(e)
  BY <1>6 DEF AwaitRepair, Due, Done, exchangeVars, targetVars, ClaimsKept
<1>7. CASE \E e \in Entries : MissTarget(e)
  <2> USE DEF exchangeVars, targetVars, ClaimsKept
  <2> PICK e \in Entries : MissTarget(e) BY <1>7
  <2>1. CASE Done(e)
    BY <2>1 DEF MissTarget, Done
  <2>2. CASE sup' = Idle
    BY <2>2 DEF MissTarget, Idle
  <2> QED BY <2>1, <2>2 DEF MissTarget
<1> QED BY <1>1, <1>2, <1>3, <1>4, <1>5, <1>6, <1>7

\* A claim: the exit is the one that is claimed, or one that no target claims.
LEMMA ClaimKeeps ==
    ASSUME SupervisorInv, NEW e \in Entries, NEW o \in Exits, Claim(e, o), NEW amount, NewExit(o, amount, e),
           targets' = targets, sup'.todo \subseteq sup.todo,
           \/ sup'.at = "targets" /\ sup'.item = None
           \/ sup'.at = "seen" /\ sup'.why = "repair" /\ sup'.item = o
    PROVE  SupervisorInv' /\ ClaimsKept
<1> USE DEF SupervisorInv, SupervisorShape
<1>1. /\ repair' = [repair EXCEPT ![e] = o] /\ e \in targets
      /\ MayRepair(e) /\ (IF repair[e] = None \/ Recorded(e) THEN Free(o) ELSE o = repair[e])
    BY DEF Claim, Due, NextExit
<1>2. /\ order' = [order EXCEPT ![o] = "over"] /\ exec' = [exec EXCEPT ![o] = "none"]
      /\ purpose' = [purpose EXCEPT ![o] = e]
    BY DEF NewExit
<1>3. SupervisorShape'
  BY <1>1, <1>2 DEF Orders
<1>4. SubmissionKnown'
  BY <1>2 DEF SubmissionKnown, Submitting, Orders
<1>5. \A x \in Entries : x # e => repair[x] # o
  BY <1>1 DEF Free, ClaimsTrue
<1>6. ClaimsTrue'
  <2>1. ASSUME NEW x \in Entries, repair'[x] # None PROVE x \in targets' /\ purpose'[repair'[x]] = x
    <3>1. CASE x = e
      BY <1>1, <1>2, <3>1
    <3>2. CASE x # e
      BY <1>1, <1>2, <1>5, <2>1, <3>2 DEF ClaimsTrue
    <3> QED BY <3>1, <3>2
  <2>2. purpose'[o] = e /\ repair'[e] = o /\ e # None
    BY <1>1, <1>2 DEF Orders
  <2> QED BY <2>1, <2>2 DEF ClaimsTrue, Submitting
<1>7. TargetsRecorded'
  <2>1. \A x \in Entries : exec'[x] = exec[x]
    BY <1>2
  <2>2. exec[e] # "none"
    BY <1>1 DEF TargetsRecorded
  <2>3. \A x \in Exits : purpose'[x] # None => exec'[purpose'[x]] # "none"
    BY <1>2, <2>1, <2>2 DEF TargetsRecorded
  <2> QED BY <2>1, <2>3 DEF TargetsRecorded
<1>8. ClaimsKept
  BY <1>1, <1>2 DEF ClaimsKept, MayRepair, Recorded, Resolved, Known, Orders
<1> QED BY <1>3, <1>4, <1>6, <1>7, <1>8

\* A repair is claimed, and made out or skipped; or a close is made out.
LEMMA MakeOutKeeps ==
    ASSUME SupervisorInv,
           \/ \E e \in Entries, o \in Exits : StartRepair(e, o) \/ SkipRepair(e, o)
           \/ \E o \in Exits : ReducePosition(o)
    PROVE  SupervisorInv' /\ ClaimsKept
<1> USE DEF SupervisorInv, SupervisorShape
<1>1. CASE \E e \in Entries, o \in Exits : StartRepair(e, o)
  <2> PICK e \in Entries, o \in Exits : StartRepair(e, o) BY <1>1
  <2> DEFINE amount == view.position - Cover(view.open)
  <2> HIDE DEF amount
  <2>1. /\ Claim(e, o) /\ NewExit(o, amount, e) /\ targets' = targets
        /\ sup' = [at |-> "seen", why |-> "repair", item |-> o, holding |-> position, todo |-> sup.todo \ {e}]
    BY DEF StartRepair, MakeOut, Look, amount
  <2> QED BY <2>1, ClaimKeeps
<1>2. CASE \E e \in Entries, o \in Exits : SkipRepair(e, o)
  <2> PICK e \in Entries, o \in Exits : SkipRepair(e, o) BY <1>2
  <2>1. /\ Claim(e, o) /\ NewExit(o, 0, e) /\ targets' = targets
        /\ sup' = [sup EXCEPT !.todo = @ \ {e}]
    BY DEF SkipRepair, Done
  <2>2. sup.at = "targets" /\ sup.item = None
    BY <2>1 DEF Claim, Due, SubmissionKnown, Submitting
  <2>3. sup'.at = "targets" /\ sup'.item = None /\ sup'.todo \subseteq sup.todo
    BY <2>1, <2>2
  <2> QED BY <2>1, <2>3, ClaimKeeps
<1>3. CASE \E o \in Exits : ReducePosition(o)
  <2> PICK o \in Exits : ReducePosition(o) BY <1>3
  <2>1. /\ MakeOut(o, position, None, "close", {}) /\ UNCHANGED targetVars /\ Free(o)
    BY DEF ReducePosition, NextExit
  <2>2. /\ order' = [order EXCEPT ![o] = "over"] /\ exec' = [exec EXCEPT ![o] = "none"]
        /\ purpose' = [purpose EXCEPT ![o] = None]
        /\ sup' = [at |-> "seen", why |-> "close", item |-> o, holding |-> position, todo |-> {}]
        /\ repair' = repair /\ targets' = targets
    BY <2>1 DEF MakeOut, NewExit, Look, targetVars
  <2>3. SupervisorShape'
    BY <2>2 DEF Orders
  <2>4. SubmissionKnown'
    BY <2>2 DEF SubmissionKnown, Submitting, Orders
  <2>5. ClaimsTrue'
    BY <2>1, <2>2 DEF ClaimsTrue, Free
  <2>6. TargetsRecorded'
    BY <2>2 DEF TargetsRecorded
  <2>7. ClaimsKept
    BY <2>2 DEF ClaimsKept
  <2> QED BY <2>3, <2>4, <2>5, <2>6, <2>7
<1> QED BY <1>1, <1>2, <1>3

\* The exit is recorded and sent.
LEMMA SendKeeps ==
    ASSUME SupervisorInv, PrepareExit \/ BeginExit
    PROVE  SupervisorInv' /\ ClaimsKept
<1> USE DEF SupervisorInv, SupervisorShape
<1>1. CASE PrepareExit
  <2>1. sup.item \in Exits /\ sup.item \in Orders
    BY <1>1 DEF PrepareExit, SubmissionKnown, Submitting, Orders
  <2>2. SupervisorShape'
    BY <1>1, <2>1 DEF PrepareExit, exchangeVars, targetVars
  <2>3. SubmissionKnown'
    BY <1>1, <2>1 DEF PrepareExit, SubmissionKnown, Submitting
  <2>4. ClaimsTrue' /\ ClaimsKept
    BY <1>1 DEF PrepareExit, ClaimsTrue, ClaimsKept, Submitting, exchangeVars, targetVars
  <2>5. TargetsRecorded'
    BY <1>1, <2>1 DEF PrepareExit, TargetsRecorded, exchangeVars, targetVars
  <2> QED BY <2>2, <2>3, <2>4, <2>5
<1>2. CASE BeginExit
  <2>1. sup.item \in Exits /\ sup.item \in Orders
    BY <1>2 DEF BeginExit, SubmissionKnown, Submitting, Orders
  <2>2. SupervisorShape'
    BY <1>2, <2>1 DEF BeginExit, targetVars
  <2>3. SubmissionKnown'
    BY <1>2, <2>1 DEF BeginExit, SubmissionKnown, Submitting
  <2>4. ClaimsTrue' /\ ClaimsKept
    BY <1>2 DEF BeginExit, ClaimsTrue, ClaimsKept, Submitting, targetVars
  <2>5. TargetsRecorded'
    BY <1>2, <2>1 DEF BeginExit, TargetsRecorded, targetVars
  <2> QED BY <2>2, <2>3, <2>4, <2>5
<1> QED BY <1>1, <1>2

\* The catch around a submission gives up a claim only of a repair without a record.
LEMMA CaughtKeeps ==
    ASSUME SupervisorInv, Caught, sup.at \in {"seen", "prepared", "waiting"},
           exec' \in [Orders -> Records],
           sup.at = "seen" => exec' = exec,
           \A e \in Entries : exec'[e] = exec[e],
           UNCHANGED <<order, purpose, targets>>
    PROVE  SupervisorInv' /\ ClaimsKept
<1> USE DEF SupervisorInv, SupervisorShape
<1>1. /\ \A e \in Entries :
            \/ repair'[e] = repair[e]
            \/ repair'[e] = None /\ repair[e] = sup.item /\ sup.why = "repair" /\ sup.at = "seen"
      /\ repair' \in [Entries -> Exits \cup {None}]
  BY DEF Caught, Unrecorded
<1>2. sup' = NextTarget \/ sup' = Idle
  BY DEF Caught
<1>3. sup'.item = None /\ sup'.at \in {"targets", "idle"} /\ sup'.todo \subseteq sup.todo
  <2>1. CASE sup' = NextTarget BY <2>1 DEF NextTarget, Idle
  <2>2. CASE sup' = Idle BY <2>2 DEF Idle
  <2> QED BY <1>2, <2>1, <2>2
<1>4. SupervisorShape' /\ SubmissionKnown'
  BY <1>1, <1>3 DEF SubmissionKnown, Submitting, Records
<1>5. ClaimsTrue' /\ TargetsRecorded'
  BY <1>1, <1>3 DEF ClaimsTrue, TargetsRecorded, Submitting
<1>6. ClaimsKept
  BY <1>1 DEF ClaimsKept, SubmissionKnown, Submitting, Known
<1> QED BY <1>4, <1>5, <1>6

\* A submission ends: refused, aborted, answered, or not answered.
LEMMA EndKeeps ==
    ASSUME SupervisorInv, FailBefore \/ ReleaseExit \/ Answered \/ TimedOut
    PROVE  SupervisorInv' /\ ClaimsKept
<1> USE DEF SupervisorInv, SupervisorShape
<1>0. sup.at \in {"prepared", "waiting"} => sup.item \in Exits /\ sup.item \in Orders /\ sup.item \notin Entries
  BY DEF SubmissionKnown, Submitting, Orders
<1>1. CASE FailBefore
  BY <1>1, CaughtKeeps DEF FailBefore, exchangeVars, Records
<1>2. CASE ReleaseExit
  BY <1>0, <1>2, CaughtKeeps DEF ReleaseExit, exchangeVars, Records
<1>3. CASE TimedOut
  BY <1>0, <1>3, CaughtKeeps DEF TimedOut, exchangeVars, Records
<1>4. CASE Answered
  <2> DEFINE o == sup.item
  <2>1. /\ o \in Exits /\ o \in Orders /\ exec[o] = "begun" /\ sup.at = "waiting"
        /\ sup.why \in {"repair", "close"}
    BY <1>4 DEF Answered, SubmissionKnown, Submitting, Orders
  <2>2. /\ exec' = Settled(o) /\ UNCHANGED <<order, purpose, targets>>
    BY <1>4, <2>1 DEF Answered, exchangeVars
  <2>3. /\ exec' \in [Orders -> Records] /\ exec'[o] \in Known
        /\ \A e \in Entries : exec'[e] = exec[e]
    BY <2>1, <2>2 DEF Settled, Known, Records
  <2>4. CASE order[o] = "over" \/ sup.why = "close" \/ Orphaned
    <3>1. Caught
      BY <1>4, <2>4 DEF Answered
    <3> QED BY <2>1, <2>2, <2>3, <3>1, CaughtKeeps
  <2>5. CASE ~(order[o] = "over" \/ sup.why = "close" \/ Orphaned)
    <3>1. /\ repair' = [repair EXCEPT ![purpose[o]] = None] /\ sup' = NextTarget
      BY <1>4, <2>5 DEF Answered, FinishedWell
    <3>2. sup.why = "repair" /\ purpose[o] \in targets /\ repair[purpose[o]] = o
      BY <2>1, <2>5 DEF ClaimsTrue, Submitting, Orphaned
    <3>3. sup'.item = None /\ sup'.at = "targets" /\ sup'.todo = sup.todo
      BY <3>1 DEF NextTarget, Idle
    <3>4. SupervisorShape' /\ SubmissionKnown'
      BY <2>2, <2>3, <3>1, <3>2, <3>3 DEF SubmissionKnown, Submitting, Records
    <3>5. ClaimsTrue' /\ TargetsRecorded'
      BY <2>2, <2>3, <3>1, <3>2, <3>3 DEF ClaimsTrue, TargetsRecorded, Submitting
    <3>6. ClaimsKept
      BY <2>3, <3>1, <3>2 DEF ClaimsKept
    <3> QED BY <3>4, <3>5, <3>6
  <2> QED BY <2>4, <2>5
<1> QED BY <1>1, <1>2, <1>3, <1>4

\* Every step keeps the invariant and the claims.
LEMMA SupervisorStep ==
    ASSUME SupervisorInv, [SupervisorNext]_supervisorVars
    PROVE  SupervisorInv' /\ (ClaimsKept \/ UNCHANGED supervisorVars)
<1>1. CASE UNCHANGED supervisorVars
  BY <1>1 DEF supervisorVars, exchangeVars, targetVars, SupervisorInv, SupervisorShape, SubmissionKnown,
              ClaimsTrue, TargetsRecorded, Submitting
<1>2. CASE SupervisorNext
  <2>1. CASE \/ \E e \in Entries : PrepareEntry(e) \/ BeginEntry(e)
             \/ \E o \in Orders : OtherEnds(o) \/ Recover(o) \/ Lands(o) \/ Fill(o)
    BY <2>1, EntriesStep
  <2>2. CASE Setback
    BY <2>2, PassStepKeeps, EndKeeps DEF Setback
  <2>3. CASE StartPass
    BY <2>3, PassStepKeeps
  <2>4. CASE PassStep
    <3>1. CASE \E e \in Entries : TargetStep(e)
      BY <3>1, PassStepKeeps, MakeOutKeeps DEF TargetStep
    <3>2. CASE StorePass \/ ListExecutions \/ ReadTargets \/ AskAgain \/ EndPass
      BY <3>2, PassStepKeeps
    <3>3. CASE PrepareExit \/ BeginExit
      BY <3>3, SendKeeps
    <3>4. CASE Answered
      BY <3>4, EndKeeps
    <3>5. CASE \E breach \in BOOLEAN : StoreAfter(breach)
      BY <3>5, PassStepKeeps
    <3>6. CASE \E e \in Entries, effective \in BOOLEAN : CancelEntry(e, effective)
      BY <3>6, PassStepKeeps
    <3>7. CASE \E o \in Exits : ReducePosition(o)
      BY <3>7, MakeOutKeeps
    <3> QED BY <2>4, <3>1, <3>2, <3>3, <3>4, <3>5, <3>6, <3>7 DEF PassStep
  <2> QED BY <1>2, <2>1, <2>2, <2>3, <2>4 DEF SupervisorNext
<1> QED BY <1>1, <1>2

\* A target claims the exit that was made out for it, and what the supervisor submits is
\* what its record says, through every timeout, refusal, crash and entry of others.
THEOREM SupervisorInvariant == SupervisorSpec => []SupervisorInv
<1>1. SupervisorInv /\ [SupervisorNext]_supervisorVars => SupervisorInv'
  BY SupervisorStep
<1> QED BY <1>1, SupervisorInitInv, PTL DEF SupervisorSpec

\* An unresolved repair keeps its claim while the position is seen uncovered:
\* superviseAccountRisk starts no second repair of a target over it.
THEOREM SupervisorKeepsRepair == SupervisorSpec => RepairKept
<1>1. SupervisorInv /\ [SupervisorNext]_supervisorVars => [ClaimsKept]_supervisorVars
  BY SupervisorStep
<1> QED BY <1>1, SupervisorInvariant, PTL DEF SupervisorSpec, RepairKept, ClaimsKept

-----------------------------------------------------------------------------
(* Targets *)

\* The shape of what TargetsInv is about.
LEMMA Shape ==
    ASSUME SupervisorInv
    PROVE  /\ order \in [Orders -> {"inflight", "open", "filled", "over"}]
           /\ exec \in [Orders -> Records] /\ targets \subseteq Entries /\ sup.todo \subseteq Entries
           /\ Entries \subseteq Orders /\ Exits \subseteq Orders /\ \A o \in Exits : o \notin Entries
           /\ \A e \in targets \cup sup.todo : exec[e] # "none"
  BY DEF SupervisorInv, SupervisorShape, TargetsRecorded, Orders, Records

\* The cover of stops is a number.
LEMMA CoverType ==
    ASSUME TargetsShape, NEW orders
    PROVE  Cover(orders) \in Nat
<1> DEFINE S == orders \cap Stops
<1>1. S \subseteq Orders /\ S \subseteq Exits
  BY DEF Stops, Orders
<1>2. IsFiniteSet(S)
  BY <1>1, FS_Subset
<1>3. \A o \in S : size[o] \in Nat
  BY <1>1 DEF TargetsShape
<1> HIDE DEF S
<1>4. SumFunctionOnSet(size, S) \in Nat
  BY <1>2, <1>3, SumType
<1> QED BY <1>4 DEF Cover, S

\* The record or the order of one entry changes, and it is not committed: what exposes
\* it is pending under a target.
LEMMA EntryChanges ==
    ASSUME SupervisorInv, TargetsInv, NEW e \in Entries,
           \A x \in Entries : x # e => exec'[x] = exec[x] /\ order'[x] = order[x],
           order'[e] \in {"inflight", "open"} => exec'[e] \in {"begun", "unknown", "committed"},
           order'[e] = "inflight" => exec'[e] # "committed",
           Resolved(e) => Resolved(e)',
           exec[e] = "released" => exec'[e] = "released",
           Holds(e) => Holds(e)', Pending(e) => Pending(e)',
           Exposed' => Exposed \/ (Pending(e)' /\ e \in targets),
           position' \in Int,
           UNCHANGED <<size, targets, sup, view, fresh>>
    PROVE  TargetsInv'
<1> USE Shape
<1>1. TargetsShape'
  BY DEF TargetsInv, TargetsShape
<1>2. /\ \A x \in Entries : (Resolved(x) => Resolved(x)') /\ (Holds(x) => Holds(x)') /\ (Pending(x) => Pending(x)')
      /\ \A x \in Entries : exec[x] = "released" => exec'[x] = "released"
    BY DEF Resolved, Holds, Pending
<1>3. EntriesTracked'
  BY <1>2 DEF TargetsInv, EntriesTracked
<1>4. Guarded(targets)'
  <2> SUFFICES ASSUME Exposed' PROVE \E x \in targets : Holds(x)'
    BY DEF Guarded
  <2>1. CASE Exposed
    BY <1>2, <2>1 DEF TargetsInv, Guarded
  <2>2. CASE Pending(e)' /\ e \in targets
    BY <2>2 DEF Holds
  <2> QED BY <2>1, <2>2
<1>5. SeenTracked'
  <2>1. Observed \/ sup.at = "reading" => sup.todo = {}
    BY DEF TargetsInv, SeenTracked
  <2>2. ASSUME Observed, sup.at = "listing" \/ fresh, Clean, Exposed' PROVE \E x \in targets : Pending(x)'
    <3>1. CASE Exposed
      BY <1>2, <2>2, <3>1 DEF TargetsInv, SeenTracked
    <3>2. CASE Pending(e)' /\ e \in targets
      BY <3>2
    <3> QED BY <2>2, <3>1, <3>2
  <2> QED BY <2>1, <2>2 DEF SeenTracked, Observed, Clean
<1>6. PassTracked'
  <2> SUFFICES ASSUME LookingAfter
               PROVE  /\ view.released \subseteq view.known
                      /\ \A x \in MayRetire : Resolved(x)' /\ (x \in view.released => exec'[x] = "released")
                      /\ Clean => (Exposed' => \E x \in targets \ MayRetire : Holds(x)')
    BY DEF PassTracked, LookingAfter, Submitting, Clean, Guarded, MayRetire
  <2>1. /\ view.released \subseteq view.known
        /\ \A x \in MayRetire : Resolved(x) /\ (x \in view.released => exec[x] = "released")
        /\ Clean => (Exposed => \E x \in targets \ MayRetire : Holds(x))
    BY DEF TargetsInv, PassTracked, Guarded
  <2>2. MayRetire \subseteq Entries
    BY DEF TargetsInv, TargetsShape, MayRetire
  <2>3. \A x \in MayRetire : Resolved(x)' /\ (x \in view.released => exec'[x] = "released")
    BY <1>2, <2>1, <2>2
  <2>4. ASSUME Clean, Exposed' PROVE \E x \in targets \ MayRetire : Holds(x)'
    <3>1. CASE Exposed
      BY <1>2, <2>1, <2>4, <3>1
    <3>2. CASE Pending(e)' /\ e \in targets
      <4>1. ~Resolved(e)'
        BY <3>2 DEF Pending, Resolved, Known
      <4> QED BY <2>3, <3>2, <4>1 DEF Holds
    <3> QED BY <2>4, <3>1, <3>2
  <2> QED BY <2>1, <2>3, <2>4
<1> QED BY <1>1, <1>3, <1>4, <1>5, <1>6 DEF TargetsInv

\* An entry is committed: it alone is the target, and no pass that observed the account
\* without it may retire it.
LEMMA CommitTracked ==
    ASSUME SupervisorInv, TargetsInv, NothingUnseen, NEW e \in Entries, ~Resolved(e),
           order[e] # "inflight", exec' = [exec EXCEPT ![e] = "committed"], targets' = {e},
           UNCHANGED <<order, size, position, sup, view, fresh>>
    PROVE  TargetsInv'
<1> USE Shape
<1>1. \A x \in Entries : exec'[x] = IF x = e THEN "committed" ELSE exec[x]
  OBVIOUS
<1>2. Resolved(e)' /\ Holds(e)' /\ \A x \in Entries : x # e => (Resolved(x)' <=> Resolved(x))
  BY <1>1 DEF Resolved, Known, Holds
<1>3. \A x \in Entries : x # e => Resolved(x)
  BY DEF TargetsInv, EntriesTracked
<1>4. TargetsShape'
  BY DEF TargetsInv, TargetsShape
<1>5. EntriesTracked'
  BY <1>1, <1>2, <1>3 DEF TargetsInv, EntriesTracked
<1>6. Guarded(targets)'
  BY <1>2 DEF Guarded
<1>7. SeenTracked'
  <2>1. ~Observed
    BY <1>1 DEF NothingUnseen, Resolved, Known
  <2> QED BY <2>1 DEF TargetsInv, SeenTracked, Observed
<1>8. PassTracked'
  <2> SUFFICES ASSUME LookingAfter
               PROVE  /\ view.released \subseteq view.known
                      /\ \A x \in MayRetire : Resolved(x)' /\ (x \in view.released => exec'[x] = "released")
                      /\ \E x \in targets' \ MayRetire : Holds(x)'
    BY DEF PassTracked, LookingAfter, Submitting, Clean, Guarded, MayRetire
  <2>1. /\ view.released \subseteq view.known /\ MayRetire \subseteq Entries
        /\ \A x \in MayRetire : Resolved(x) /\ (x \in view.released => exec[x] = "released")
    BY DEF TargetsInv, PassTracked, TargetsShape, MayRetire
  <2>2. e \notin MayRetire
    BY <2>1
  <2> QED BY <1>1, <1>2, <2>1, <2>2
<1> QED BY <1>4, <1>5, <1>6, <1>7, <1>8 DEF TargetsInv

\* Exits change: entries, targets and the pass stay, the holding does not grow.
LEMMA ExitsChange ==
    ASSUME SupervisorInv, TargetsInv,
           \A x \in Entries : exec'[x] = exec[x] /\ order'[x] = order[x],
           position' \in Int, position' > 0 => position > 0,
           UNCHANGED <<size, targets, sup, view, fresh>>
    PROVE  TargetsInv'
<1> USE Shape
<1>1. \A x \in Entries : (Holds(x)' <=> Holds(x)) /\ (Pending(x)' <=> Pending(x)) /\ (Resolved(x)' <=> Resolved(x))
  BY DEF Holds, Pending, Resolved
<1>2. Exposed' => Exposed
  BY <1>1 DEF Exposed
<1>3. TargetsShape' /\ EntriesTracked' /\ Guarded(targets)'
  BY <1>1, <1>2 DEF TargetsInv, TargetsShape, EntriesTracked, Guarded
<1>4. SeenTracked'
  BY <1>1, <1>2 DEF TargetsInv, SeenTracked, Observed, Clean
<1>5. PassTracked'
  <2>1. MayRetire \subseteq Entries
    BY DEF TargetsInv, TargetsShape, MayRetire
  <2> QED BY <1>1, <1>2, <2>1 DEF TargetsInv, PassTracked, LookingAfter, Submitting, Guarded, Clean, MayRetire
<1> QED BY <1>3, <1>4, <1>5 DEF TargetsInv

\* The pass moves on while entries, targets and the holding stay: it looks after fewer
\* targets by what it knew or by what it sees now, or after none.
LEMMA PassMoves ==
    ASSUME SupervisorInv, TargetsInv,
           \A x \in Entries : exec'[x] = exec[x] /\ order'[x] = order[x],
           UNCHANGED <<position, targets>>,
           size' \in [Exits -> Nat], view'.position \in Int, view'.known \subseteq Entries,
           ~Observed', sup'.at # "reading",
           \/ ~LookingAfter'
           \/ /\ LookingAfter /\ sup.at # "reading" /\ sup'.todo \subseteq sup.todo
              /\ view'.known = view.known /\ view'.released = view.released
              /\ \/ view' = view
                 \/ view'.position = position /\ view'.open = Open
    PROVE  TargetsInv'
<1> USE Shape
<1>1. \A x \in Entries : (Holds(x)' <=> Holds(x)) /\ (Resolved(x)' <=> Resolved(x))
  BY DEF Holds, Pending, Resolved
<1>2. Exposed' <=> Exposed
  BY <1>1 DEF Exposed
<1>3. TargetsShape' /\ EntriesTracked' /\ Guarded(targets)'
  BY <1>1, <1>2 DEF TargetsInv, TargetsShape, EntriesTracked, Guarded
<1>4. SeenTracked'
  BY DEF SeenTracked
<1>5. PassTracked'
  <2> SUFFICES ASSUME LookingAfter, sup.at # "reading", sup'.todo \subseteq sup.todo,
                      view'.known = view.known, view'.released = view.released,
                      view' = view \/ (view'.position = position /\ view'.open = Open)
               PROVE  /\ view.released \subseteq view.known
                      /\ \A x \in MayRetire' : Resolved(x)' /\ (x \in view.released => exec'[x] = "released")
                      /\ Clean' => (Exposed => \E x \in targets \ MayRetire' : Holds(x)')
    BY <1>2 DEF PassTracked, Guarded
  <2>1. /\ view.released \subseteq view.known
        /\ \A x \in MayRetire : Resolved(x) /\ (x \in view.released => exec[x] = "released")
        /\ Clean => (Exposed => \E x \in targets \ MayRetire : Holds(x))
    BY DEF TargetsInv, PassTracked, Guarded
  <2>2. MayRetire' \subseteq MayRetire /\ MayRetire \subseteq Entries
    BY DEF TargetsInv, TargetsShape, MayRetire
  <2>3. \A x \in MayRetire' : Resolved(x)' /\ (x \in view.released => exec'[x] = "released")
    BY <1>1, <2>1, <2>2
  <2>4. ASSUME Clean', Exposed PROVE \E x \in targets \ MayRetire' : Holds(x)'
    <3>1. CASE view' = view
      <4>1. Clean
        BY <2>4, <3>1 DEF Clean
      <4> QED BY <1>1, <2>1, <2>2, <2>4, <4>1
    <3>2. CASE view'.position = position /\ view'.open = Open
      BY <2>4, <3>2 DEF Clean, Open, Exposed
    <3> QED BY <3>1, <3>2
  <2> QED BY <2>1, <2>3, <2>4
<1> QED BY <1>3, <1>4, <1>5 DEF TargetsInv

\* An entry is prepared with its target: nothing that is held or looked after is new.
LEMMA PrepareEntryTracked ==
    ASSUME SupervisorInv, TargetsInv, NothingUnseen, NEW e \in Entries, PrepareEntry(e)
    PROVE  TargetsInv'
<1> USE Shape
<1>1. /\ exec' = [exec EXCEPT ![e] = "prepared"] /\ targets' = targets \cup {e} /\ fresh' = FALSE
      /\ UNCHANGED <<order, size, position, sup, view>>
      /\ exec[e] = "none" /\ \A x \in Entries : Resolved(x)
  BY DEF PrepareEntry, NextEntry, AllResolved, exchangeVars
<1>2. /\ e \notin targets /\ e \notin sup.todo /\ ~Holds(e) /\ ~Resolved(e)'
      /\ order[e] \notin {"inflight", "open"}
  BY <1>1 DEF TargetsInv, EntriesTracked, Holds, Pending, Resolved, Known
<1>3. \A x \in Entries : x # e => /\ exec'[x] = exec[x] /\ (Holds(x)' <=> Holds(x))
                                  /\ (Pending(x)' <=> Pending(x)) /\ (Resolved(x)' <=> Resolved(x))
  BY <1>1 DEF Holds, Pending, Resolved
<1>4. Exposed' => Exposed
  BY <1>1, <1>2, <1>3 DEF Exposed
<1>5. TargetsShape'
  BY <1>1 DEF TargetsInv, TargetsShape
<1>6. EntriesTracked'
  BY <1>1, <1>2, <1>3 DEF TargetsInv, EntriesTracked
<1>7. Guarded(targets)'
  BY <1>1, <1>2, <1>3, <1>4 DEF TargetsInv, Guarded
<1>8. SeenTracked'
  <2>1. ASSUME Observed, sup.at = "listing", Clean, Exposed' PROVE \E x \in targets' : Pending(x)'
    <3>1. PICK x \in targets : Pending(x)
      BY <1>4, <2>1 DEF TargetsInv, SeenTracked
    <3> QED BY <1>1, <3>1 DEF Pending, Resolved, Known
  <2>2. Observed \/ sup.at = "reading" => sup.todo = {}
    BY DEF TargetsInv, SeenTracked
  <2> QED BY <1>1, <2>1, <2>2 DEF SeenTracked, Observed, Clean
<1>9. PassTracked'
  <2> SUFFICES ASSUME LookingAfter
               PROVE  /\ view.released \subseteq view.known
                      /\ \A x \in MayRetire : Resolved(x)' /\ (x \in view.released => exec'[x] = "released")
                      /\ Clean => (Exposed' => \E x \in targets' \ MayRetire : Holds(x)')
    BY <1>1 DEF PassTracked, LookingAfter, Submitting, Clean, Guarded, MayRetire
  <2>1. /\ view.released \subseteq view.known /\ MayRetire \subseteq Entries
        /\ \A x \in MayRetire : Resolved(x) /\ (x \in view.released => exec[x] = "released")
        /\ Clean => (Exposed => \E x \in targets \ MayRetire : Holds(x))
    BY DEF TargetsInv, PassTracked, TargetsShape, MayRetire, Guarded
  <2>2. sup.at # "reading"
    BY <1>1 DEF NothingUnseen
  <2>3. e \notin MayRetire
    BY <1>2, <2>2 DEF MayRetire
  <2>4. \A x \in MayRetire : Resolved(x)' /\ (x \in view.released => exec'[x] = "released")
    BY <1>3, <2>1, <2>3
  <2>5. ASSUME Clean, Exposed' PROVE \E x \in targets' \ MayRetire : Holds(x)'
    BY <1>1, <1>2, <1>3, <1>4, <2>1, <2>5
  <2> QED BY <2>1, <2>4, <2>5
<1> QED BY <1>5, <1>6, <1>7, <1>8, <1>9 DEF TargetsInv

\* An entry is settled: committed, or released without having traded.
LEMMA SettleTracked ==
    ASSUME SupervisorInv, TargetsInv, NothingUnseen, NEW e \in Entries, exec[e] \in {"begun", "unknown"},
           order[e] # "inflight", Settle(e), UNCHANGED <<order, size, position, sup, view, fresh>>
    PROVE  TargetsInv'
<1> USE Shape
<1>1. ~Resolved(e) /\ e \in targets /\ position \in Int
  BY DEF Resolved, Known, TargetsInv, EntriesTracked, TargetsShape
<1>2. CASE order[e] # "over"
  BY <1>1, <1>2, CommitTracked DEF Settle, Settled, LeftBy
<1>3. CASE order[e] = "over"
  <2>1. exec' = [exec EXCEPT ![e] = "released"] /\ targets' = targets
    BY <1>3 DEF Settle, Settled, LeftBy
  <2>2. ~Holds(e) /\ ~Pending(e)
    BY <1>3 DEF Holds, Pending
  <2>3. Exposed' => Exposed
    BY <1>3, <2>1 DEF Exposed, Resolved
  <2> QED BY <1>1, <1>3, <2>1, <2>2, <2>3, EntryChanges
<1> QED BY <1>2, <1>3

\* Other processes, recovery and the exchange change the order of an entry.
LEMMA EntryTracked ==
    ASSUME SupervisorInv, TargetsInv, NothingUnseen, NEW e \in Entries,
           BeginEntry(e) \/ OtherEnds(e) \/ Recover(e) \/ Lands(e) \/ Fill(e)
    PROVE  TargetsInv'
<1> USE Shape
<1>1. /\ position \in Int
      /\ order[e] \in {"inflight", "open"} => exec[e] \in {"begun", "unknown", "committed"}
      /\ order[e] = "inflight" => exec[e] # "committed"
      /\ ~Resolved(e) => e \in targets
  BY DEF TargetsInv, TargetsShape, EntriesTracked
<1>2. CASE BeginEntry(e)
  <2>1. /\ exec[e] = "prepared" /\ exec' = [exec EXCEPT ![e] = "begun"]
        /\ order' = [order EXCEPT ![e] = "inflight"]
        /\ UNCHANGED <<size, position, targets, sup, view, fresh>>
    BY <1>2 DEF BeginEntry, targetVars
  <2>2. ~Holds(e) /\ ~Pending(e) /\ ~Resolved(e)
    BY <2>1 DEF Holds, Pending, Resolved, Known
  <2>3. Exposed' => Exposed
    BY <2>1 DEF Exposed, Resolved
  <2> QED BY <1>1, <2>1, <2>2, <2>3, EntryChanges
<1>3. CASE OtherEnds(e)
  <2>1. UNCHANGED <<order, size, position, sup, view, fresh>>
    BY <1>3 DEF OtherEnds, exchangeVars
  <2>2. CASE exec[e] = "prepared" /\ exec' = [exec EXCEPT ![e] = "released"] /\ targets' = targets
    <3>1. ~Holds(e) /\ ~Pending(e) /\ order[e] \notin {"inflight", "open"} /\ ~Resolved(e)
      BY <1>1, <2>2 DEF Holds, Pending, Resolved, Known
    <3>2. Exposed' => Exposed
      BY <2>1, <2>2, <3>1 DEF Exposed, Resolved
    <3> QED BY <1>1, <2>1, <2>2, <3>1, <3>2, EntryChanges
  <2>3. CASE exec[e] = "begun" /\ exec' = [exec EXCEPT ![e] = "unknown"] /\ targets' = targets
    <3>1. ~Resolved(e) /\ ~Resolved(e)' /\ (Holds(e) => Holds(e)') /\ (Pending(e) => Pending(e)')
      BY <2>1, <2>3 DEF Holds, Pending, Resolved, Known
    <3>2. Exposed' => Exposed
      BY <2>1, <2>3, <3>1 DEF Exposed, Resolved
    <3> QED BY <1>1, <2>1, <2>3, <3>1, <3>2, EntryChanges
  <2>4. CASE exec[e] = "begun" /\ order[e] # "inflight" /\ Settle(e)
    BY <2>1, <2>4, SettleTracked
  <2> QED BY <1>3, <2>2, <2>3, <2>4 DEF OtherEnds, targetVars
<1>4. CASE Recover(e)
  BY <1>4, SettleTracked DEF Recover, exchangeVars
<1>5. CASE Lands(e)
  <2>1. PICK as \in {"open", "filled", "over"} : Land(e, as)
    BY <1>5 DEF Lands
  <2>2. /\ order[e] = "inflight" /\ exec' = exec /\ UNCHANGED <<size, targets, sup, view, fresh>>
        /\ position' = IF as # "filled" THEN position ELSE position + 1
    BY <2>1 DEF Land, targetVars
  <2>3. order'[e] = as /\ \A x \in Entries : x # e => order'[x] = order[x]
    BY <2>1 DEF Land
  <2>4. exec[e] \in {"begun", "unknown"} /\ ~Resolved(e) /\ ~Resolved(e)' /\ ~Holds(e) /\ ~Pending(e) /\ e \in targets
    BY <1>1, <2>2 DEF Resolved, Known, Holds, Pending
  <2>5. position' \in Int
    BY <1>1, <2>2
  <2>6. Exposed' => Exposed \/ (Pending(e)' /\ e \in targets)
    <3>1. CASE as = "filled"
      BY <2>2, <2>3, <2>4, <3>1 DEF Pending
    <3>2. CASE as # "filled"
      BY <2>2, <2>3, <2>4, <3>2 DEF Exposed, Resolved
    <3> QED BY <3>1, <3>2
  <2> HIDE <1>1
  <2>7. order'[e] # "inflight" /\ exec'[e] = exec[e] /\ exec[e] # "released"
    BY <2>2, <2>3, <2>4
  <2> QED BY <2>2, <2>3, <2>4, <2>5, <2>6, <2>7, EntryChanges
<1>6. CASE Fill(e)
  <2>1. /\ order[e] = "open" /\ exec' = exec /\ UNCHANGED <<size, targets, sup, view, fresh>>
        /\ position' = position + 1 /\ order' = [order EXCEPT ![e] = "filled"]
    BY <1>6 DEF Fill, targetVars
  <2>2. position' \in Int
    BY <1>1, <2>1
  <2>3. exec[e] \in {"begun", "unknown", "committed"} /\ ~Pending(e) /\ (Holds(e) => Holds(e)') /\ (Resolved(e)' <=> Resolved(e))
    BY <1>1, <2>1 DEF Resolved, Known, Holds, Pending
  <2>4. Exposed \/ (Pending(e)' /\ e \in targets)
    <3>1. CASE exec[e] = "committed"
      BY <2>1, <3>1 DEF Exposed, Resolved, Known
    <3>2. CASE exec[e] # "committed"
      BY <1>1, <2>1, <2>3, <3>2 DEF Pending, Resolved, Known
    <3> QED BY <3>1, <3>2
  <2> HIDE <1>1
  <2>5. /\ order'[e] = "filled" /\ exec'[e] = exec[e] /\ exec[e] # "released"
        /\ \A x \in Entries : x # e => order'[x] = order[x]
    BY <2>1, <2>3
  <2> QED BY <2>1, <2>2, <2>3, <2>4, <2>5, EntryChanges
<1> QED BY <1>2, <1>3, <1>4, <1>5, <1>6

\* Recovery and the exchange change an exit.
LEMMA ExitTracked ==
    ASSUME SupervisorInv, TargetsInv, NEW o \in Exits, OtherEnds(o) \/ Recover(o) \/ Lands(o) \/ Fill(o)
    PROVE  TargetsInv'
<1> USE Shape
<1>1. position \in Int /\ size \in [Exits -> Nat]
  BY DEF TargetsInv, TargetsShape
<1>2. Settle(o) => targets' = targets
  BY DEF Settle, LeftBy
<1>3. CASE OtherEnds(o)
  BY <1>1, <1>2, <1>3, ExitsChange DEF OtherEnds, Settle, Settled, exchangeVars, targetVars
<1>4. CASE Recover(o)
  BY <1>1, <1>2, <1>4, ExitsChange DEF Recover, Settle, Settled, exchangeVars
<1>5. CASE Lands(o)
  <2>1. PICK as \in {"open", "filled", "over"} : Land(o, as)
    BY <1>5 DEF Lands
  <2>2. /\ exec' = exec /\ position' = IF as # "filled" THEN position ELSE 0
        /\ UNCHANGED <<size, targets, sup, view, fresh>>
    BY <2>1 DEF Land, targetVars
  <2>3. \A x \in Entries : order'[x] = order[x]
    BY <2>1 DEF Land
  <2>4. position' \in Int /\ (position' > 0 => position > 0)
    <3>1. CASE as = "filled"
      BY <1>1, <2>2, <3>1
    <3>2. CASE as # "filled"
      BY <1>1, <2>2, <3>2
    <3> QED BY <3>1, <3>2
  <2> QED BY <2>2, <2>3, <2>4, ExitsChange
<1>6. CASE Fill(o)
  <2>1. /\ exec' = exec /\ position' = position - size[o] /\ size[o] \in Nat
        /\ UNCHANGED <<size, targets, sup, view, fresh>>
        /\ \A x \in Entries : order'[x] = order[x]
    BY <1>1, <1>6 DEF Fill, targetVars
  <2>2. position' \in Int /\ (position' > 0 => position > 0)
    BY <1>1, <2>1
  <2> QED BY <2>1, <2>2, ExitsChange
<1> QED BY <1>3, <1>4, <1>5, <1>6

\* The pass observes the account, lists the executions and reads the targets.
LEMMA ObserveTracked ==
    ASSUME SupervisorInv, TargetsInv, StartPass \/ StorePass \/ ListExecutions \/ ReadTargets
    PROVE  TargetsInv'
<1> USE Shape
<1>1. UNCHANGED <<order, size, position, exec, targets>>
  BY DEF StartPass, StorePass, ListExecutions, ReadTargets, exchangeVars, targetVars
<1>2. /\ \A x : (Holds(x)' <=> Holds(x)) /\ (Pending(x)' <=> Pending(x)) /\ (Resolved(x)' <=> Resolved(x))
      /\ Exposed' <=> Exposed
  BY <1>1 DEF Holds, Pending, Resolved, Exposed
<1>3. EntriesTracked' /\ Guarded(targets)'
  BY <1>1, <1>2 DEF TargetsInv, EntriesTracked, Guarded
<1>4. CASE StartPass
  <2>1. /\ sup' = [at |-> "seen", why |-> "pass", item |-> None, holding |-> position, todo |-> {}]
        /\ view' = [position |-> position, open |-> Open, known |-> {}, released |-> {}]
    BY <1>4 DEF StartPass, Look, Snapshot, Blank
  <2>2. TargetsShape' /\ PassTracked'
    BY <1>1, <2>1 DEF TargetsInv, TargetsShape, PassTracked, LookingAfter, Submitting
  <2>3. SeenTracked'
    <3>1. Clean' => ~Exposed
      BY <2>1 DEF Clean, Open, Exposed
    <3> QED BY <1>2, <2>1, <3>1 DEF SeenTracked, Observed
  <2> QED BY <1>3, <2>2, <2>3 DEF TargetsInv
<1>5. CASE StorePass
  <2>1. /\ sup.at = "seen" /\ sup.why = "pass" /\ fresh
        /\ sup'.at = "listing" /\ sup'.todo = {} /\ view' = view
    BY <1>5 DEF StorePass, Idle
  <2>2. TargetsShape' /\ PassTracked'
    BY <1>1, <2>1 DEF TargetsInv, TargetsShape, PassTracked, LookingAfter, Submitting
  <2>3. SeenTracked'
    BY <1>1, <1>2, <2>1 DEF TargetsInv, SeenTracked, Observed, Clean
  <2> QED BY <1>3, <2>2, <2>3 DEF TargetsInv
<1>6. CASE ListExecutions
  <2>1. /\ sup.at = "listing" /\ sup' = [sup EXCEPT !.at = "reading"]
        /\ view' = [view EXCEPT !.known = {e \in Entries : Resolved(e)},
                                !.released = {e \in Entries : exec[e] = "released"}]
    BY <1>6 DEF ListExecutions
  <2>2. /\ sup'.at = "reading" /\ sup'.todo = sup.todo
        /\ view'.position = view.position /\ view'.open = view.open
        /\ view'.known = {e \in Entries : Resolved(e)} /\ view'.released = {e \in Entries : exec[e] = "released"}
    BY <2>1 DEF SupervisorInv, SubmissionKnown, TargetsInv, TargetsShape
  <2>3. TargetsShape'
    BY <1>1, <2>2 DEF TargetsInv, TargetsShape
  <2>4. SeenTracked'
    BY <2>1, <2>2 DEF TargetsInv, SeenTracked, Observed
  <2>5. PassTracked'
    <3>1. MayRetire' = {e \in Entries : Resolved(e)}
      BY <2>2 DEF MayRetire
    <3>2. view'.released \subseteq view'.known
      BY <2>2 DEF Resolved, Known
    <3>3. ASSUME Clean', Exposed PROVE \E x \in targets \ MayRetire' : Holds(x)
      <4>1. PICK x \in targets : Pending(x)
        BY <2>1, <2>2, <3>3 DEF TargetsInv, SeenTracked, Observed, Clean
      <4> QED BY <3>1, <4>1 DEF Pending, Holds, Resolved, Known
    <3> QED BY <1>1, <1>2, <2>2, <3>1, <3>2, <3>3 DEF PassTracked, Guarded
  <2> QED BY <1>3, <2>3, <2>4, <2>5 DEF TargetsInv
<1>7. CASE ReadTargets
  <2>1. /\ sup.at = "reading" /\ sup' = [sup EXCEPT !.at = "targets", !.todo = targets] /\ view' = view
    BY <1>7 DEF ReadTargets
  <2>2. sup'.at = "targets" /\ sup'.todo = targets
    BY <2>1 DEF SupervisorInv, SubmissionKnown
  <2>3. TargetsShape' /\ SeenTracked'
    BY <1>1, <2>1, <2>2 DEF TargetsInv, TargetsShape, SeenTracked, Observed
  <2>4. PassTracked'
    <3>1. MayRetire' \subseteq MayRetire /\ MayRetire \subseteq Entries /\ (Clean' <=> Clean)
      BY <2>1, <2>2 DEF MayRetire, Clean, TargetsInv, TargetsShape
    <3>2. /\ view.released \subseteq view.known
          /\ \A x \in MayRetire : Resolved(x) /\ (x \in view.released => exec[x] = "released")
          /\ Clean => (Exposed => \E x \in targets \ MayRetire : Holds(x))
      BY <2>1 DEF TargetsInv, PassTracked, LookingAfter, Guarded
    <3> QED BY <1>1, <1>2, <2>1, <3>1, <3>2 DEF PassTracked, Guarded
  <2> QED BY <1>3, <2>3, <2>4 DEF TargetsInv
<1> QED BY <1>4, <1>5, <1>6, <1>7

\* A target is retired only when it does not guard what is held: its entry was released,
\* or the guard is not among the targets that the pass may retire.
LEMMA RetireTracked ==
    ASSUME SupervisorInv, TargetsInv, NEW e \in Entries, RetireTarget(e)
    PROVE  TargetsInv'
<1> USE Shape
<1>1. /\ sup.at = "targets" /\ e \in sup.todo /\ e \in targets
      /\ e \in view.released \/ (e \in view.known /\ Clean)
      /\ UNCHANGED <<order, size, position, exec, view, fresh>>
      /\ targets' = targets \ {e} /\ sup' = [sup EXCEPT !.todo = @ \ {e}]
  BY DEF RetireTarget, Due, Retirable, Done, exchangeVars
<1>2. /\ \A x : (Holds(x)' <=> Holds(x)) /\ (Resolved(x)' <=> Resolved(x))
      /\ Exposed' <=> Exposed
  BY <1>1 DEF Holds, Pending, Resolved, Exposed
<1>3. /\ view.released \subseteq view.known
      /\ \A x \in MayRetire : Resolved(x) /\ (x \in view.released => exec[x] = "released")
      /\ Clean => (Exposed => \E x \in targets \ MayRetire : Holds(x))
  BY <1>1 DEF TargetsInv, PassTracked, LookingAfter, Guarded
<1>4. e \in MayRetire /\ Resolved(e) /\ (e \in view.released => ~Holds(e))
  BY <1>1, <1>3 DEF MayRetire, Holds, Pending
<1>5. /\ sup'.todo = sup.todo \ {e} /\ sup'.at = "targets"
      /\ MayRetire' = MayRetire \ {e} /\ (Clean' <=> Clean)
  BY <1>1 DEF MayRetire, Clean
<1>6. TargetsShape' /\ EntriesTracked'
  BY <1>1, <1>2, <1>4 DEF TargetsInv, TargetsShape, EntriesTracked
<1>7. Guarded(targets)'
  <2> SUFFICES ASSUME Exposed PROVE \E x \in targets' : Holds(x)
    BY <1>2 DEF Guarded
  <2>1. CASE e \in view.released
    <3>1. PICK x \in targets : Holds(x)
      BY DEF TargetsInv, Guarded
    <3> QED BY <1>1, <1>4, <2>1, <3>1
  <2>2. CASE Clean
    <3>1. PICK x \in targets \ MayRetire : Holds(x)
      BY <1>3, <2>2
    <3> QED BY <1>1, <1>4, <3>1
  <2> QED BY <1>1, <2>1, <2>2
<1>8. SeenTracked'
  BY <1>5 DEF SeenTracked, Observed
<1>9. PassTracked'
  <2>1. ASSUME Clean, Exposed PROVE \E x \in targets' \ MayRetire' : Holds(x)
    BY <1>1, <1>3, <1>4, <1>5, <2>1
  <2> QED BY <1>1, <1>2, <1>3, <1>5, <2>1 DEF PassTracked, Guarded
<1> QED BY <1>6, <1>7, <1>8, <1>9 DEF TargetsInv

\* cancelEntriesOnBreach: an entry that rests is over; the pass looks after no target.
LEMMA CancelTracked ==
    ASSUME SupervisorInv, TargetsInv, NEW e \in Entries, NEW effective \in BOOLEAN, CancelEntry(e, effective)
    PROVE  TargetsInv'
<1> USE Shape
<1>1. /\ sup.at = "stored" /\ UNCHANGED <<size, position, exec, targets, sup>>
      /\ view' = [view EXCEPT !.open = @ \ {e}]
  BY DEF CancelEntry, targetVars
<1>2. \A x \in Entries : order'[x] = order[x] \/ (order[x] = "open" /\ order'[x] = "over")
  BY DEF CancelEntry
<1>3. /\ \A x \in Entries : (Holds(x)' <=> Holds(x)) /\ (Resolved(x)' <=> Resolved(x))
      /\ Exposed' => Exposed
  BY <1>1, <1>2 DEF Holds, Pending, Resolved, Exposed
<1>4. view'.position = view.position /\ view'.known = view.known
  BY <1>1
<1>5. TargetsShape' /\ EntriesTracked' /\ Guarded(targets)'
  BY <1>1, <1>2, <1>3, <1>4 DEF TargetsInv, TargetsShape, EntriesTracked, Guarded
<1>6. SeenTracked' /\ PassTracked'
  BY <1>1 DEF SeenTracked, PassTracked, LookingAfter, Submitting, Observed
<1> QED BY <1>5, <1>6 DEF TargetsInv

\* Looking after a target without retiring it: left, waited for, found to be gone, or
\* claimed, for a stop over what is uncovered, which is a number, or none.
LEMMA TargetStepTracked ==
    ASSUME SupervisorInv, TargetsInv, NEW e \in Entries,
           \/ LeaveTarget(e) \/ AwaitRepair(e) \/ MissTarget(e)
           \/ \E o \in Exits : StartRepair(e, o) \/ SkipRepair(e, o)
    PROVE  TargetsInv'
<1> USE Shape
<1>1. size \in [Exits -> Nat] /\ view.position \in Int /\ view.known \subseteq Entries
  BY DEF TargetsInv, TargetsShape
<1>2. CASE (LeaveTarget(e) \/ AwaitRepair(e) \/ MissTarget(e)) /\ Done(e)
  <2>1. /\ sup.at = "targets" /\ sup' = [sup EXCEPT !.todo = @ \ {e}]
        /\ UNCHANGED <<order, size, position, exec, targets, view>>
    BY <1>2 DEF LeaveTarget, AwaitRepair, MissTarget, Due, Done, exchangeVars, targetVars
  <2>2. sup'.at = "targets" /\ sup'.todo \subseteq sup.todo /\ LookingAfter /\ ~Observed'
    BY <2>1 DEF LookingAfter, Observed
  <2> QED BY <1>1, <2>1, <2>2, PassMoves
<1>3. CASE MissTarget(e) /\ ~Done(e)
  <2>1. /\ sup' = Idle /\ view' = Blank /\ UNCHANGED <<order, size, position, exec, targets>>
    BY <1>3 DEF MissTarget, exchangeVars, targetVars
  <2>2. /\ sup'.at = "idle" /\ view'.position = 0 /\ view'.known = {} /\ ~LookingAfter' /\ ~Observed'
    BY <2>1 DEF Idle, Blank, LookingAfter, Submitting, Observed
  <2> QED BY <1>1, <2>1, <2>2, PassMoves
<1>4. CASE \E o \in Exits : SkipRepair(e, o)
  <2>1. PICK o \in Exits : SkipRepair(e, o)
    BY <1>4
  <2>2. /\ sup.at = "targets" /\ UNCHANGED <<position, targets, view>> /\ sup' = [sup EXCEPT !.todo = @ \ {e}]
        /\ size' = [size EXCEPT ![o] = 0] /\ order' = [order EXCEPT ![o] = "over"]
        /\ exec' = [exec EXCEPT ![o] = "none"]
    BY <2>1 DEF SkipRepair, Claim, Due, NewExit, Done
  <2>3. size' \in [Exits -> Nat] /\ \A x \in Entries : exec'[x] = exec[x] /\ order'[x] = order[x]
    BY <1>1, <2>2
  <2>4. sup'.at = "targets" /\ sup'.todo \subseteq sup.todo /\ LookingAfter /\ ~Observed'
    BY <2>2 DEF LookingAfter, Observed
  <2> QED BY <1>1, <2>2, <2>3, <2>4, PassMoves
<1>5. CASE \E o \in Exits : StartRepair(e, o)
  <2>1. PICK o \in Exits : StartRepair(e, o)
    BY <1>5
  <2>2. /\ Uncovered /\ sup.at = "targets" /\ LookingAfter /\ UNCHANGED <<position, targets>>
        /\ MakeOut(o, view.position - Cover(view.open), e, "repair", sup.todo \ {e})
    BY <2>1 DEF StartRepair, Claim, Due, LookingAfter
  <2>3. Cover(view.open) \in Nat
    BY CoverType DEF TargetsInv
  <2>4. view.position - Cover(view.open) \in Nat
    BY <1>1, <2>2, <2>3 DEF Uncovered
  <2> DEFINE amount == view.position - Cover(view.open)
  <2> HIDE DEF amount
  <2>5. /\ size' = [size EXCEPT ![o] = amount] /\ order' = [order EXCEPT ![o] = "over"]
        /\ exec' = [exec EXCEPT ![o] = "none"] /\ view' = view
        /\ sup' = [at |-> "seen", why |-> "repair", item |-> o, holding |-> position, todo |-> sup.todo \ {e}]
    BY <2>2 DEF MakeOut, NewExit, Look, amount
  <2>6. size' \in [Exits -> Nat]
    BY <1>1, <2>4, <2>5 DEF amount
  <2>7. /\ \A x \in Entries : exec'[x] = exec[x] /\ order'[x] = order[x]
        /\ sup'.at = "seen" /\ sup'.todo \subseteq sup.todo /\ ~Observed'
    BY <2>5 DEF Observed
  <2> QED BY <1>1, <2>2, <2>5, <2>6, <2>7, PassMoves
<1> QED BY <1>2, <1>3, <1>4, <1>5 DEF LeaveTarget, AwaitRepair

\* The rest of a submission leaves the entries alone.
LEMMA SubmissionTracked ==
    ASSUME SupervisorInv, TargetsInv,
           \/ PrepareExit \/ BeginExit \/ Answered \/ FailBefore \/ ReleaseExit \/ TimedOut
    PROVE  TargetsInv'
<1> USE Shape
<1>1. /\ size \in [Exits -> Nat] /\ view.position \in Int /\ position \in Int /\ view.known \subseteq Entries
  BY DEF TargetsInv, TargetsShape
<1>2. /\ Submitting => sup.item \in Exits /\ LookingAfter = (sup.why = "repair")
      /\ sup.why = "repair" /\ sup.at \in {"seen", "prepared", "waiting"} => LookingAfter
  BY DEF SupervisorInv, SubmissionKnown, Submitting, LookingAfter
<1>3. /\ UNCHANGED <<size, position, targets>>
      /\ \A x \in Entries : exec'[x] = exec[x] /\ order'[x] = order[x]
  <2>1. CASE PrepareExit
    BY <1>2, <2>1 DEF PrepareExit, Submitting, exchangeVars, targetVars
  <2>2. CASE BeginExit
    BY <1>2, <2>2 DEF BeginExit, Submitting, targetVars
  <2>3. CASE Answered
    BY <1>2, <2>3 DEF Answered, Submitting, Settled, exchangeVars
  <2>4. CASE FailBefore
    BY <2>4 DEF FailBefore, exchangeVars
  <2>5. CASE ReleaseExit
    BY <1>2, <2>5 DEF ReleaseExit, Submitting, exchangeVars
  <2>6. CASE TimedOut
    BY <1>2, <2>6 DEF TimedOut, Submitting, exchangeVars
  <2> QED BY <2>1, <2>2, <2>3, <2>4, <2>5, <2>6
<1>4. CASE PrepareExit \/ BeginExit
  <2>1. /\ view' = view /\ sup'.at \in {"prepared", "waiting"} /\ sup'.todo = sup.todo /\ sup'.why = sup.why
        /\ Submitting /\ sup.at \in {"seen", "prepared"}
    <3>1. CASE PrepareExit
      BY <3>1 DEF PrepareExit, Submitting
    <3>2. CASE BeginExit
      BY <3>2 DEF BeginExit, Submitting
    <3> QED BY <1>4, <3>1, <3>2
  <2>2. (LookingAfter' => LookingAfter) /\ ~Observed'
    BY <1>2, <2>1 DEF LookingAfter, Observed
  <2> QED BY <1>1, <1>3, <2>1, <2>2, PassMoves
<1>5. CASE Caught /\ sup.at \in {"seen", "prepared", "waiting"}
  <2>1. CASE sup.why = "repair" /\ sup' = NextTarget
    <3>1. view' = view
      BY <1>5, <2>1 DEF Caught, NextTarget, Idle
    <3>2. sup'.at = "targets" /\ sup'.todo = sup.todo /\ ~Observed'
      BY <2>1 DEF NextTarget, Idle, Observed
    <3> QED BY <1>1, <1>2, <1>3, <1>5, <2>1, <3>1, <3>2, PassMoves
  <2>2. CASE ~(sup.why = "repair" /\ sup' = NextTarget)
    <3>1. sup' = Idle /\ view' = Blank
      BY <1>5, <2>2 DEF Caught
    <3>2. sup'.at = "idle" /\ view'.position = 0 /\ view'.known = {} /\ ~LookingAfter' /\ ~Observed'
      BY <3>1 DEF Idle, Blank, LookingAfter, Submitting, Observed
    <3> QED BY <1>1, <1>3, <3>2, PassMoves
  <2> QED BY <2>1, <2>2
<1>6. CASE Answered
  <2>1. CASE Caught
    BY <1>5, <1>6, <2>1 DEF Answered
  <2>2. CASE ~Caught
    <3>1. /\ sup.at = "waiting" /\ sup.why # "close" /\ sup' = NextTarget
          /\ view' \in {view, [view EXCEPT !.position = position, !.open = Open]}
      BY <1>6, <2>2 DEF Answered
    <3>2. sup'.at = "targets" /\ sup'.todo = sup.todo /\ ~Observed'
      BY <3>1 DEF NextTarget, Idle, Observed
    <3>3. LookingAfter
      BY <3>1 DEF SupervisorInv, SubmissionKnown, Submitting, LookingAfter
    <3>4. CASE view' = view
      BY <1>1, <1>3, <3>1, <3>2, <3>3, <3>4, PassMoves
    <3>5. CASE view' = [view EXCEPT !.position = position, !.open = Open]
      <4>1. /\ view'.position = position /\ view'.open = Open
            /\ view'.known = view.known /\ view'.released = view.released
        BY <3>5
      <4> QED BY <1>1, <1>3, <3>1, <3>2, <3>3, <4>1, PassMoves
    <3> QED BY <3>1, <3>4, <3>5
  <2> QED BY <2>1, <2>2
<1> QED BY <1>4, <1>5, <1>6 DEF FailBefore, ReleaseExit, TimedOut

\* The end of a pass, with or without a breach.
LEMMA EndTracked ==
    ASSUME SupervisorInv, TargetsInv,
           \/ AskAgain \/ EndPass \/ Crash \/ (\E breach \in BOOLEAN : StoreAfter(breach))
           \/ \E o \in Exits : ReducePosition(o)
    PROVE  TargetsInv'
<1> USE Shape
<1>1. /\ size \in [Exits -> Nat] /\ view.position \in Int /\ position \in Int /\ view.known \subseteq Entries
  BY DEF TargetsInv, TargetsShape
<1>2. CASE AskAgain
  <2>1. /\ sup'.at = "seen" /\ sup'.why = "after" /\ view'.position = position /\ view'.known = {}
        /\ UNCHANGED <<order, size, position, exec, targets>>
    BY <1>2 DEF AskAgain, Look, Snapshot, Blank, exchangeVars, targetVars
  <2>2. ~LookingAfter' /\ ~Observed'
    BY <2>1 DEF LookingAfter, Submitting, Observed
  <2> QED BY <1>1, <2>1, <2>2, PassMoves
<1>3. CASE EndPass \/ Crash \/ \E breach \in BOOLEAN : StoreAfter(breach)
  <2>1. /\ UNCHANGED <<order, size, position, exec, targets>>
        /\ sup'.at \in {"idle", "stored"} /\ (view' = view \/ (view'.position = 0 /\ view'.known = {}))
    BY <1>3 DEF EndPass, Crash, StoreAfter, Idle, Blank, exchangeVars, targetVars
  <2>2. ~LookingAfter' /\ ~Observed'
    BY <2>1 DEF LookingAfter, Submitting, Observed
  <2> QED BY <1>1, <2>1, <2>2, PassMoves
<1>4. CASE \E o \in Exits : ReducePosition(o)
  <2>1. PICK o \in Exits : ReducePosition(o)
    BY <1>4
  <2>2. /\ size' = [size EXCEPT ![o] = position] /\ order' = [order EXCEPT ![o] = "over"]
        /\ exec' = [exec EXCEPT ![o] = "none"] /\ position > 0
        /\ UNCHANGED <<position, targets, view>>
        /\ sup'.at = "seen" /\ sup'.why = "close"
    BY <2>1 DEF ReducePosition, MakeOut, NewExit, Look, targetVars
  <2>3. position \in Nat
    BY <1>1, <2>2
  <2>4. size' \in [Exits -> Nat]
    BY <1>1, <2>2, <2>3
  <2>5. \A x \in Entries : exec'[x] = exec[x] /\ order'[x] = order[x]
    BY <2>2
  <2>6. ~LookingAfter' /\ ~Observed'
    BY <2>2 DEF LookingAfter, Submitting, Observed
  <2> QED BY <1>1, <2>2, <2>4, <2>5, <2>6, PassMoves
<1> QED BY <1>2, <1>3, <1>4

\* Every step keeps TargetsInv, unless an entry is committed or prepared unseen.
LEMMA TargetsStep ==
    ASSUME SupervisorInv, TargetsInv, NothingUnseen, SupervisorNext
    PROVE  TargetsInv'
<1>1. CASE StartPass
  BY <1>1, ObserveTracked
<1>2. CASE Setback
  BY <1>2, SubmissionTracked, EndTracked DEF Setback
<1>3. CASE \E e \in Entries : PrepareEntry(e) \/ BeginEntry(e)
  BY <1>3, PrepareEntryTracked, EntryTracked
<1>4. CASE \E o \in Orders : OtherEnds(o) \/ Recover(o) \/ Lands(o) \/ Fill(o)
  BY <1>4, EntryTracked, ExitTracked DEF Orders
<1>5. CASE PassStep
  <2>1. CASE StorePass \/ ListExecutions \/ ReadTargets
    BY <2>1, ObserveTracked
  <2>2. CASE \E e \in Entries : TargetStep(e)
    BY <2>2, RetireTracked, TargetStepTracked DEF TargetStep
  <2>3. CASE PrepareExit \/ BeginExit \/ Answered
    BY <2>3, SubmissionTracked
  <2>4. CASE AskAgain \/ EndPass \/ \E breach \in BOOLEAN : StoreAfter(breach)
    BY <2>4, EndTracked
  <2>5. CASE \E e \in Entries, effective \in BOOLEAN : CancelEntry(e, effective)
    BY <2>5, CancelTracked
  <2>6. CASE \E o \in Exits : ReducePosition(o)
    BY <2>6, EndTracked
  <2> QED BY <1>5, <2>1, <2>2, <2>3, <2>4, <2>5, <2>6 DEF PassStep
<1> QED BY <1>1, <1>2, <1>3, <1>4, <1>5 DEF SupervisorNext

\* The supervisor forgets what it has to protect in two ways only: when an entry is
\* committed after a pass observed the account and before it listed the executions, and
\* when one is prepared after that and before it read the targets.  In every behaviour
\* without such steps, through crashes, timeouts, any number of repairs and any number of
\* entries of the instrument, each of which takes the others' targets when it is
\* committed, whatever is held has a target.
THEOREM SupervisorTargetKept ==
    SupervisorSpec /\ [][NothingUnseen]_supervisorVars => []TargetKept
<1>1. SupervisorInit => TargetsInv
  BY DEF SupervisorInit, TargetsInv, TargetsShape, EntriesTracked, Guarded, Exposed, SeenTracked, PassTracked,
         LookingAfter, Submitting, Observed, Resolved, Known, Idle, Blank, Orders
<1>2. SupervisorInv /\ TargetsInv /\ [SupervisorNext]_supervisorVars /\ [NothingUnseen]_supervisorVars
        => TargetsInv'
  <2> SUFFICES ASSUME SupervisorInv, TargetsInv, UNCHANGED supervisorVars PROVE TargetsInv'
    BY TargetsStep
  <2>1. UNCHANGED <<order, size, position, exec, targets, sup, view, fresh>>
    BY DEF supervisorVars, exchangeVars, targetVars
  <2> QED BY <2>1, Shape, ExitsChange DEF TargetsInv, TargetsShape
<1>3. TargetsInv => TargetKept
  BY DEF TargetsInv, Guarded, Exposed, TargetKept
<1> QED BY <1>1, <1>2, <1>3, SupervisorInvariant, PTL DEF SupervisorSpec

=============================================================================
