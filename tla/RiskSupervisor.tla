----------------------------- MODULE RiskSupervisor -----------------------------
(***************************************************************************)
(* The supervisor that keeps positions protected: superviseAccountRisk and *)
(* controlledRiskClose (trading-engine/src/risk-supervisor.ts) with the    *)
(* protection targets of execution-journal.ts, while other processes enter *)
(* the same instrument and the supervisor's process may stop at any point. *)
(* AccountRisk.tla has the guard it observes the account through: here an  *)
(* observation may be refused for any reason, and fresh says that no entry *)
(* changed the guard's revision since.                                     *)
(*                                                                         *)
(* Amounts are counted in entries.  An exit that nothing refers to any     *)
(* more stands for the next one; an entry is submitted once, and which of  *)
(* the unused ones is next does not matter.                                *)
(***************************************************************************)
EXTENDS Integers, FiniteSets, Functions

CONSTANTS
    None,
    Entries,            \* orders that open exposure
    Exits,              \* orders that reduce it: stops and closes
    Attempts,           \* config.protectionAttempts
    MaxHolding          \* bound: holdings that entries may add up to

Orders == Entries \cup Exits

ASSUME SupervisorAssumption ==
    /\ Entries \cap Exits = {} /\ None \notin Orders /\ IsFiniteSet(Orders)
    /\ Attempts \in Nat \ {0} /\ MaxHolding \in Nat \ {0}

VARIABLES
    \* the exchange
    order,          \* per order: how far it is
    size,           \* per exit: the amount it reduces
    purpose,        \* per exit: the target it is a stop for, None for a close
    position,       \* the holding
    \* the risk state
    exec,           \* per order: the status of its execution record
    targets,        \* entries with a protection target
    repair,         \* per target: lastRepairIntentId
    failures,       \* per target: failed repairs in a row
    \* the supervisor
    sup,            \* its pass: where it is, for what order and what holding it saw
                    \* when it submitted it, the targets that are left
    view,           \* what the pass goes by: holding, open orders, and of the entries
                    \* those it listed as released and those not listed as unresolved
    fresh

exchangeVars == <<order, size, purpose, position>>
targetVars == <<targets, repair, failures>>
supervisorVars == <<exchangeVars, exec, targetVars, sup, view, fresh>>

Idle == [at |-> "idle", why |-> None, item |-> None, holding |-> 0, todo |-> {}]
Blank == [position |-> 0, open |-> {}, known |-> {}, released |-> {}]
Amounts == 0..MaxHolding

SupervisorTypeOK ==
    /\ order \in [Orders -> {"inflight", "open", "filled", "over"}]
    /\ size \in [Exits -> Amounts]
    /\ purpose \in [Exits -> Entries \cup {None}]
    /\ position \in Amounts
    /\ exec \in [Orders -> {"none", "prepared", "begun", "unknown", "committed", "released"}]
    /\ targets \subseteq Entries
    /\ repair \in [Entries -> Exits \cup {None}]
    /\ failures \in [Entries -> 0..Attempts]
    /\ sup \in [at : {"idle", "seen", "listing", "reading", "targets", "stored", "prepared", "waiting"},
                why : {None, "pass", "repair", "after", "close"},
                item : Exits \cup {None}, holding : Amounts, todo : SUBSET Entries]
    /\ view \in [position : Amounts, open : SUBSET Orders,
                 known : SUBSET Entries, released : SUBSET Entries]
    /\ fresh \in BOOLEAN

SupervisorInit ==
    /\ order = [o \in Orders |-> "over"]
    /\ size = [o \in Exits |-> 0]
    /\ purpose = [o \in Exits |-> None]
    /\ position = 0
    /\ exec = [o \in Orders |-> "none"]
    /\ targets = {}
    /\ repair = [e \in Entries |-> None]
    /\ failures = [e \in Entries |-> 0]
    /\ sup = Idle /\ view = Blank /\ fresh = FALSE

Known == {"none", "committed", "released"}
Resolved(o) == exec[o] \in Known
AllResolved == \A o \in Orders : Resolved(o)
Stops == {o \in Exits : purpose[o] # None}
Open == {o \in Orders : order[o] = "open"}

\* The amount of the stops among these orders.
Cover(orders) == SumFunctionOnSet(size, orders \cap Stops)
Uncovered == view.position > Cover(view.open)

\* Failures are only compared with the limit: counted up to it.
Failed(e) == IF failures[e] < Attempts THEN failures[e] + 1 ELSE failures[e]

\* Nothing refers to the exit any more.
Free(o) ==
    /\ Resolved(o) /\ order[o] \notin {"inflight", "open"}
    /\ o \notin view.open /\ sup.item # o
    /\ \A e \in Entries : repair[e] # o

NextExit(o) == Free(o) /\ o = CHOOSE x \in Exits : Free(x)
NextEntry(e) == exec[e] = "none" /\ e = CHOOSE x \in Entries : exec[x] = "none"

-----------------------------------------------------------------------------
(* Entries of other processes.  TradingEngine.tla has their submission in full. *)

\* prepare() of an entry with its protection target.
PrepareEntry(e) ==
    /\ AllResolved /\ NextEntry(e)
    /\ position + Cardinality(Open \cap Entries) < MaxHolding
    /\ exec' = [exec EXCEPT ![e] = "prepared"]
    /\ targets' = targets \cup {e}
    /\ fresh' = FALSE
    /\ UNCHANGED <<exchangeVars, repair, failures, sup, view>>

\* begin(), and the request leaves.
BeginEntry(e) ==
    /\ exec[e] = "prepared"
    /\ exec' = [exec EXCEPT ![e] = "begun"]
    /\ order' = [order EXCEPT ![e] = "inflight"]
    /\ UNCHANGED <<size, purpose, position, targetVars, sup, view, fresh>>

Settled(o) == [exec EXCEPT ![o] = IF order[o] = "over" THEN "released" ELSE "committed"]

\* The targets of the instrument that are left when o is settled: an entry that is
\* committed takes over from the others.
LeftBy(o) == IF o \in targets /\ order[o] # "over" THEN {o} ELSE targets

\* settle()
Settle(o) ==
    /\ exec' = Settled(o)
    /\ targets' = LeftBy(o)
    /\ repair' = [e \in Entries |-> IF e \in LeftBy(o) THEN repair[e] ELSE None]
    /\ failures' = [e \in Entries |-> IF e \in LeftBy(o) THEN failures[e] ELSE 0]

\* A submission is aborted before it began; or not answered in time, or its process
\* stopped; or answered.  The supervisor's own orders end this way when it stopped.
OtherEnds(o) ==
    /\ sup.item # o
    /\ \/ exec[o] = "prepared" /\ exec' = [exec EXCEPT ![o] = "released"] /\ UNCHANGED targetVars
       \/ exec[o] = "begun" /\ exec' = [exec EXCEPT ![o] = "unknown"] /\ UNCHANGED targetVars
       \/ exec[o] = "begun" /\ order[o] # "inflight" /\ Settle(o)
    /\ UNCHANGED <<exchangeVars, sup, view, fresh>>

\* Recovery by client id, or an operator, resolves an order that is known to have
\* rested, filled or ended.
Recover(o) ==
    /\ exec[o] = "unknown" /\ order[o] # "inflight"
    /\ Settle(o)
    /\ UNCHANGED <<exchangeVars, sup, view, fresh>>

-----------------------------------------------------------------------------
(* A pass: observe, look after each target, observe again, act on a breach *)

\* inspect(): the account is asked.
Look(why, item, todo) ==
    /\ sup' = [at |-> "seen", why |-> why, item |-> item, holding |-> position, todo |-> todo]
    /\ fresh' = TRUE

Snapshot == [Blank EXCEPT !.position = position, !.open = Open]

StartPass ==
    /\ sup.at = "idle"
    /\ Look("pass", None, {}) /\ view' = Snapshot
    /\ UNCHANGED <<exchangeVars, exec, targetVars>>

\* inspect() of the pass is stored, ...
StorePass ==
    /\ sup.at = "seen" /\ sup.why = "pass" /\ fresh
    /\ sup' = [Idle EXCEPT !.at = "listing", !.why = "pass"]
    /\ UNCHANGED <<exchangeVars, exec, targetVars, view, fresh>>

\* ... then the executions are listed, ...
ListExecutions ==
    /\ sup.at = "listing"
    /\ sup' = [sup EXCEPT !.at = "reading"]
    /\ view' = [view EXCEPT !.known = {e \in Entries : Resolved(e)},
                           !.released = {e \in Entries : exec[e] = "released"}]
    /\ UNCHANGED <<exchangeVars, exec, targetVars, fresh>>

\* ... and then the targets are read: others may act in between.
ReadTargets ==
    /\ sup.at = "reading"
    /\ sup' = [sup EXCEPT !.at = "targets", !.todo = targets]
    /\ UNCHANGED <<exchangeVars, exec, targetVars, view, fresh>>

Done(e) == sup' = [sup EXCEPT !.todo = @ \ {e}] /\ UNCHANGED <<view, fresh>>

Due(e) == sup.at = "targets" /\ e \in sup.todo \cap targets

\* The pass goes by a view without a position and without an order that could open one.
Clean == view.position = 0 /\ view.open \cap Entries = {}

\* The entry never became a position, or the position and all that could still open
\* one are gone.
Retirable(e) == e \in view.released \/ (e \in view.known /\ Clean)

\* The target was read and is gone: the entry that took over removed it.  It is passed
\* by where nothing is asked of it; retiring it, claiming or finishing a repair of it
\* throws and ends the pass.
MissTarget(e) ==
    /\ sup.at = "targets" /\ e \in sup.todo \ targets
    /\ \/ ~Retirable(e) /\ ~Uncovered /\ Done(e)
       \/ (Retirable(e) \/ view.position > 0) /\ sup' = Idle /\ view' = Blank /\ UNCHANGED fresh
    /\ UNCHANGED <<exchangeVars, exec, targetVars>>

\* retireProtectionTarget
RetireTarget(e) ==
    /\ Due(e) /\ Retirable(e)
    /\ targets' = targets \ {e}
    /\ repair' = [repair EXCEPT ![e] = None]
    /\ failures' = [failures EXCEPT ![e] = 0]
    /\ Done(e)
    /\ UNCHANGED <<exchangeVars, exec>>

\* finishProtectionRepair(id, true)
FinishedWell(e) ==
    /\ repair' = [repair EXCEPT ![e] = None]
    /\ failures' = [failures EXCEPT ![e] = 0]

\* Nothing to protect yet, or protected: a repair that was claimed is finished.
LeaveTarget(e) ==
    /\ Due(e) /\ ~Retirable(e) /\ ~Uncovered
    /\ IF view.position > 0 /\ repair[e] # None THEN FinishedWell(e) ELSE UNCHANGED <<repair, failures>>
    /\ Done(e)
    /\ UNCHANGED <<exchangeVars, exec, targets>>

\* The repair that is claimed left a record.
Recorded(e) == repair[e] # None /\ exec[repair[e]] # "none"

\* Mutant: an unresolved repair does not keep the next one from starting.
MayRepairAnyway(e) == TRUE

\* Mutant: a repair that left a record is taken for one that is still pending.
MayRepairUnrecorded(e) == ~Recorded(e)

MayRepair(e) == Recorded(e) => Resolved(repair[e])

\* The outcome of the last repair is not known: wait.
AwaitRepair(e) ==
    /\ Due(e) /\ ~Retirable(e) /\ Uncovered /\ ~MayRepair(e)
    /\ Done(e)
    /\ UNCHANGED <<exchangeVars, exec, targetVars>>

\* The failures in a row once the last repair is counted.
FailuresNow(e) ==
    IF ~Recorded(e) THEN failures[e]
    ELSE IF exec[repair[e]] = "committed" THEN 0 ELSE Failed(e)

\* o stands for a new exit.
NewExit(o, amount, for) ==
    /\ size' = [size EXCEPT ![o] = amount]
    /\ purpose' = [purpose EXCEPT ![o] = for]
    /\ order' = [order EXCEPT ![o] = "over"]
    /\ exec' = [exec EXCEPT ![o] = "none"]

\* An exit is made out; its submission observes the account first.
MakeOut(o, amount, for, why, todo) ==
    NewExit(o, amount, for) /\ Look(why, o, todo) /\ UNCHANGED view

\* claimProtectionRepair: the identity that is claimed, or a new one once the record of
\* the last is settled, whose failure counts.
Claim(e, o) ==
    /\ Due(e) /\ ~Retirable(e) /\ Uncovered /\ MayRepair(e)
    /\ IF repair[e] = None \/ Recorded(e) THEN NextExit(o) ELSE o = repair[e]
    /\ repair' = [repair EXCEPT ![e] = o]
    /\ failures' = [failures EXCEPT ![e] = FailuresNow(e)]

\* A stop over what is uncovered.
StartRepair(e, o) ==
    /\ Claim(e, o) /\ FailuresNow(e) < Attempts
    /\ MakeOut(o, view.position - Cover(view.open), e, "repair", sup.todo \ {e})
    /\ UNCHANGED <<position, targets>>

\* Too many have failed: the identity is claimed and not used.
SkipRepair(e, o) ==
    /\ Claim(e, o) /\ FailuresNow(e) >= Attempts
    /\ NewExit(o, 0, e)
    /\ Done(e)
    /\ UNCHANGED <<position, targets>>

\* inspect() of a submission is stored and prepare() records the exit, which must fit
\* the position.
PrepareExit ==
    /\ sup.at = "seen" /\ sup.why \in {"repair", "close"} /\ fresh
    /\ size[sup.item] <= sup.holding
    /\ exec' = [exec EXCEPT ![sup.item] = "prepared"]
    /\ sup' = [sup EXCEPT !.at = "prepared"]
    /\ UNCHANGED <<exchangeVars, targetVars, view, fresh>>

BeginExit ==
    /\ sup.at = "prepared" /\ fresh
    /\ exec' = [exec EXCEPT ![sup.item] = "begun"]
    /\ order' = [order EXCEPT ![sup.item] = "inflight"]
    /\ sup' = [sup EXCEPT !.at = "waiting"]
    /\ UNCHANGED <<size, purpose, position, targetVars, view, fresh>>

NextTarget == [Idle EXCEPT !.at = "targets", !.why = "pass", !.todo = sup.todo]

\* The repair that is submitted has no record; its target is gone.
Unrecorded == sup.why = "repair" /\ sup.at = "seen"
Orphaned == sup.why = "repair" /\ purpose[sup.item] \notin targets

\* The catch around a submission: a repair without a record has failed, one with a
\* record stays claimed.  The failure of a target that is gone throws.
Caught ==
    /\ LET failed == {e \in targets : Unrecorded /\ repair[e] = sup.item}
       IN  /\ repair' = [e \in Entries |-> IF e \in failed THEN None ELSE repair[e]]
           /\ failures' = [e \in Entries |-> IF e \in failed THEN Failed(e) ELSE failures[e]]
    /\ IF sup.why = "repair" /\ ~(Unrecorded /\ Orphaned)
       THEN sup' = NextTarget /\ UNCHANGED view
       ELSE sup' = Idle /\ view' = Blank

\* An observation fails or is overtaken, or a check of the submission refuses.
FailBefore ==
    /\ sup.at = "seen"
    /\ Caught
    /\ UNCHANGED <<exchangeVars, exec, targets, fresh>>

\* begin() refuses, or the submission is aborted.
ReleaseExit ==
    /\ sup.at = "prepared"
    /\ exec' = [exec EXCEPT ![sup.item] = "released"]
    /\ Caught
    /\ UNCHANGED <<exchangeVars, targets, fresh>>

\* The answer.  A stop that rests finishes the repair, which throws when the target is
\* gone, and the account is looked at again, which may fail; a refusal is thrown.
Answered ==
    LET o == sup.item IN
    /\ sup.at = "waiting" /\ order[o] # "inflight"
    /\ exec' = IF exec[o] = "begun" THEN Settled(o) ELSE exec
    /\ IF order[o] = "over" \/ sup.why = "close" \/ Orphaned
       THEN Caught
       ELSE /\ FinishedWell(purpose[o])
            /\ sup' = NextTarget
            /\ view' \in {view, [view EXCEPT !.position = position, !.open = Open]}
    /\ UNCHANGED <<exchangeVars, targets, fresh>>

\* No answer in time: unknown.
TimedOut ==
    /\ sup.at = "waiting"
    /\ exec' = IF exec[sup.item] = "begun" THEN [exec EXCEPT ![sup.item] = "unknown"] ELSE exec
    /\ Caught
    /\ UNCHANGED <<exchangeVars, targets, fresh>>

\* The second observation, ...
AskAgain ==
    /\ sup.at = "targets" /\ sup.todo = {}
    /\ Look("after", None, {}) /\ view' = Snapshot
    /\ UNCHANGED <<exchangeVars, exec, targetVars>>

\* ... which ends the pass or shows a breach, for the protection that is missing or
\* another limit.
StoreAfter(breach) ==
    /\ sup.at = "seen" /\ sup.why = "after" /\ fresh
    /\ Uncovered => breach
    /\ sup' = IF breach THEN [Idle EXCEPT !.at = "stored"] ELSE Idle
    /\ view' = IF breach THEN view ELSE Blank
    /\ UNCHANGED <<exchangeVars, exec, targetVars, fresh>>

\* cancelEntriesOnBreach: the cancellation takes effect or not.
CancelEntry(e, effective) ==
    /\ sup.at = "stored" /\ e \in view.open \cap Entries
    /\ view' = [view EXCEPT !.open = @ \ {e}]
    /\ order' = IF effective /\ order[e] = "open" THEN [order EXCEPT ![e] = "over"] ELSE order
    /\ UNCHANGED <<size, purpose, position, exec, targetVars, sup, fresh>>

\* reduceOnBreach, while no order is unresolved: controlledRiskClose
ReducePosition(o) ==
    /\ sup.at = "stored" /\ view.open \cap Entries = {}
    /\ view.position > 0 /\ position > 0 /\ AllResolved /\ NextExit(o)
    /\ MakeOut(o, position, None, "close", {})
    /\ UNCHANGED <<position, targetVars>>

\* Nothing is left to reduce, it is not configured, or an order is unresolved.
EndPass ==
    /\ sup.at = "stored" /\ view.open \cap Entries = {}
    /\ sup' = Idle /\ view' = Blank
    /\ UNCHANGED <<exchangeVars, exec, targetVars, fresh>>

\* The process stops; the next one starts with a new pass.  (Stopping before the
\* executions are listed or the targets are read is as good as stopping after.)
Crash ==
    /\ sup.at \notin {"idle", "listing", "reading"}
    /\ sup' = Idle /\ view' = Blank
    /\ UNCHANGED <<exchangeVars, exec, targetVars, fresh>>

-----------------------------------------------------------------------------
(* The exchange *)

\* What can become of an order that arrives.  Stops never exceed the position, a close
\* fits it.
Outcomes(o) ==
    {"over"} \cup
    IF o \in Entries THEN {"open", "filled"}
    ELSE IF o \in Stops THEN (IF size[o] + Cover(Open) <= position THEN {"open"} ELSE {})
    ELSE IF size[o] = position THEN {"filled"} ELSE {}

\* An order arrives.  A close takes the stops with it.
Land(o, as) ==
    /\ order[o] = "inflight" /\ as \in Outcomes(o)
    /\ position' = IF as # "filled" THEN position ELSE IF o \in Entries THEN position + 1 ELSE 0
    /\ order' = [x \in Orders |->
                    IF x = o THEN as
                    ELSE IF as = "filled" /\ o \in Exits /\ x \in Exits \cap Open THEN "over"
                    ELSE order[x]]
    /\ UNCHANGED <<size, purpose, exec, targetVars, sup, view, fresh>>

\* An order that rests is filled.
Fill(o) ==
    /\ order[o] = "open"
    /\ order' = [order EXCEPT ![o] = "filled"]
    /\ position' = IF o \in Entries THEN position + 1 ELSE position - size[o]
    /\ UNCHANGED <<size, purpose, exec, targetVars, sup, view, fresh>>

-----------------------------------------------------------------------------
TargetStep(e) ==
    \/ RetireTarget(e) \/ LeaveTarget(e) \/ AwaitRepair(e) \/ MissTarget(e)
    \/ \E o \in Exits : StartRepair(e, o) \/ SkipRepair(e, o)

PassStep ==
    \/ StorePass \/ ListExecutions \/ ReadTargets \/ (\E e \in Entries : TargetStep(e))
    \/ PrepareExit \/ BeginExit \/ Answered
    \/ AskAgain \/ \E breach \in BOOLEAN : StoreAfter(breach)
    \/ \E e \in Entries, effective \in BOOLEAN : CancelEntry(e, effective)
    \/ \E o \in Exits : ReducePosition(o)
    \/ EndPass

Setback == FailBefore \/ ReleaseExit \/ TimedOut \/ Crash

Lands(o) == \E as \in {"open", "filled", "over"} : Land(o, as)

SupervisorNext ==
    \/ StartPass \/ PassStep \/ Setback
    \/ \E e \in Entries : PrepareEntry(e) \/ BeginEntry(e)
    \/ \E o \in Orders : OtherEnds(o) \/ Recover(o) \/ Lands(o) \/ Fill(o)

SupervisorSpec == SupervisorInit /\ [][SupervisorNext]_supervisorVars

\* The observation or the admission of an exit cannot succeed any more.
Refused == ~fresh \/ (sup.item # None /\ size[sup.item] > sup.holding)

\* Passes follow each other and run to their end.  The process may stop and calls may
\* fail, but not always at the same point; requests reach the exchange or are lost, and
\* unresolved orders are resolved at last.
LiveSupervisorSpec ==
    /\ SupervisorSpec
    /\ WF_supervisorVars(StartPass \/ PassStep \/ (Refused /\ (FailBefore \/ ReleaseExit)))
    /\ SF_supervisorVars(StorePass)
    /\ \A e \in Entries : SF_supervisorVars(TargetStep(e))
    /\ SF_supervisorVars(PrepareExit) /\ SF_supervisorVars(BeginExit)
    /\ \A o \in Orders : WF_supervisorVars(OtherEnds(o) \/ Recover(o) \/ Lands(o))

-----------------------------------------------------------------------------
(* What supervision promises *)

\* A target is not protected again over an unknown outcome: while the position is seen
\* uncovered, a target gives up the repair it claimed only when its outcome is known,
\* through timeouts, crashes and new identities ("never resends an unresolved order",
\* docs/autonomous-trading.md).  A covered position ends the claim whatever became of
\* the repair.
RepairKept ==
    [][\A e \in targets' :
        (Uncovered /\ repair[e] \notin {None, repair'[e]}) => exec'[repair[e]] \in Known]_supervisorVars

\* A position with a target does not stay unprotected: a stop covers it, or it is gone,
\* or the attempts are spent.  (TargetKept is about losing the target.)
CoverageRestored ==
    (targets # {} /\ position > Cover(Open))
        ~> (position <= Cover(Open) \/ (\E e \in targets : failures[e] = Attempts) \/ targets = {})

\* A position has a target until it is gone: the supervisor never forgets what it has to
\* protect.  One target stands for all that is held of the instrument.
TargetKept == position > 0 => targets # {}

-----------------------------------------------------------------------------
(* The inductive invariant behind RepairKept: which repair a target claims is  *)
(* the exit made out for it, and how far the supervisor's exit is.             *)

SupervisorShape ==
    /\ order \in [Orders -> {"inflight", "open", "filled", "over"}]
    /\ purpose \in [Exits -> Entries \cup {None}]
    /\ exec \in [Orders -> {"none", "prepared", "begun", "unknown", "committed", "released"}]
    /\ targets \subseteq Entries
    /\ repair \in [Entries -> Exits \cup {None}]
    /\ sup.todo \subseteq Entries

\* The exit that the supervisor submits.
Submitting == sup.at \in {"prepared", "waiting"} \/ (sup.at = "seen" /\ sup.why \in {"repair", "close"})

SubmissionKnown ==
    IF ~Submitting THEN sup.item = None
    ELSE /\ sup.item \in Exits
         /\ sup.why \in {"repair", "close"}
         /\ exec[sup.item] = CASE sup.at = "seen" -> "none" [] sup.at = "prepared" -> "prepared"
                                [] sup.at = "waiting" -> "begun"

\* A claimed repair is a stop for its target, and the repair that is being submitted is
\* the claimed one unless the target is gone.
ClaimsTrue ==
    /\ \A e \in Entries : repair[e] # None => e \in targets /\ purpose[repair[e]] = e
    /\ Submitting /\ sup.why = "repair" =>
            /\ purpose[sup.item] # None
            /\ purpose[sup.item] \in targets => repair[purpose[sup.item]] = sup.item

\* Targets, and the entries that stops are made out for, have been submitted.
TargetsRecorded ==
    /\ \A e \in targets \cup sup.todo : exec[e] # "none"
    /\ \A o \in Exits : purpose[o] # None => exec[purpose[o]] # "none"

SupervisorInv == SupervisorShape /\ SubmissionKnown /\ ClaimsTrue /\ TargetsRecorded

-----------------------------------------------------------------------------
(* TargetKept fails in two ways only: an entry is committed between a pass's   *)
(* observation and the listing of the executions, so that it seems to have     *)
(* ended without a position; or one is prepared between the listing and the    *)
(* reading of the targets, so that its target seems to have no execution.      *)
(* Without such steps:                                                         *)

Observed == (sup.at = "seen" /\ sup.why = "pass") \/ sup.at = "listing"

NothingUnseen ==
    \A e \in Entries :
        /\ Observed /\ exec'[e] = "committed" => exec[e] = "committed"
        /\ sup.at = "reading" /\ exec'[e] = "prepared" => exec[e] = "prepared"

\* What the records say of the orders of entries.  One entry at a time is unresolved,
\* and its target is there.
EntriesTracked ==
    /\ \A e \in Entries :
        /\ order[e] \in {"inflight", "open"} => exec[e] \in {"begun", "unknown", "committed"}
        /\ order[e] = "inflight" => exec[e] # "committed"
        /\ ~Resolved(e) => e \in targets
    /\ \A e, f \in Entries : ~Resolved(e) /\ ~Resolved(f) => e = f

\* Something is held, or may come to be held by an order whose record is settled.
Exposed == position > 0 \/ \E e \in Entries : order[e] = "open" /\ Resolved(e)

\* The entry was committed, or will be.
Pending(e) == exec[e] \in {"begun", "unknown"} /\ order[e] = "filled"
Holds(e) == exec[e] = "committed" \/ Pending(e)

Guarded(es) == Exposed => \E e \in es : Holds(e)

\* What trades after an observation without a position is unresolved when the executions
\* are listed, ...
SeenTracked ==
    /\ Observed /\ (sup.at = "listing" \/ fresh) /\ Clean => (Exposed => \E e \in targets : Pending(e))
    /\ Observed \/ sup.at = "reading" => sup.todo = {}

\* ... and is not among the targets that the pass may retire.
MayRetire == IF sup.at = "reading" THEN view.known ELSE sup.todo \cap view.known

LookingAfter == sup.at \in {"reading", "targets"} \/ (Submitting /\ sup.why = "repair")

PassTracked ==
    LookingAfter =>
        /\ view.released \subseteq view.known
        /\ \A e \in MayRetire : Resolved(e) /\ (e \in view.released => exec[e] = "released")
        /\ Clean => Guarded(targets \ MayRetire)

TargetsShape ==
    /\ position \in Int /\ size \in [Exits -> Nat] /\ view.position \in Int
    /\ view.known \subseteq Entries

TargetsInv ==
    /\ TargetsShape /\ EntriesTracked /\ Guarded(targets)
    /\ SeenTracked /\ PassTracked

=============================================================================
