------------------------------ MODULE AccountRisk ------------------------------
(***************************************************************************)
(* The guard of an account with hard limits: AccountRiskGuard              *)
(* (trading-engine/src/account-risk.ts) with the loss memory of            *)
(* trading-risk/src/account-risk.ts, and the entries, cancellations and    *)
(* setting changes of engine.ts that ask it.  The processes that trade or  *)
(* watch the account share one risk state and one exchange account.        *)
(*                                                                         *)
(* The guard's revision is only compared: current holds the processes      *)
(* whose revision is still the stored one.  Likewise holders knows the id  *)
(* of the pending mutation, and seen orders the observations that are not  *)
(* stored yet by their time.                                               *)
(***************************************************************************)
EXTENDS Integers, Sequences, FiniteSets, SequencesExt

CONSTANTS
    None,
    Entries,            \* orders that open exposure
    Procs,              \* model tools, interactive processes, the supervisor
    Reconciler,         \* the reconciliation of mutations
    Settings            \* leverage or margin mode values that are asked for

ASSUME AccountAssumption ==
    /\ Entries \cap Settings = {} /\ None \notin Entries \cup Settings
    /\ Reconciler \notin Procs

VARIABLES
    \* the exchange
    order,          \* per entry: how far it is
    loss,           \* whether the flow-adjusted value is beyond the loss limits
    setting,        \* the account's setting: None is the one it was opened with
    requests,       \* cancellations and settings on their way
    \* the risk state
    exec,           \* per entry: the status of its execution record
    blocked,        \* whether blockedReasons is not empty
    trip,           \* memory.lossTrip
    mutation,       \* the account mutation that is pending
    \* processes
    proc,           \* per process: what it is doing
    current, holders, seen,
    recon,          \* the reconciliation under way
    \* history
    lost            \* a stored observation saw the loss

exchangeVars == <<order, loss, setting, requests>>
guardVars == <<blocked, trip, mutation>>
accountVars == <<exchangeVars, exec, guardVars, proc, current, holders, seen, recon, lost>>

Idle == [at |-> "idle", why |-> "none", item |-> None, loss |-> FALSE]
NoRecon == [at |-> "idle", of |-> None]
Whys == {"none", "entry", "cancel", "setting", "watch"}

AccountTypeOK ==
    /\ order \in [Entries -> {"inflight", "open", "filled", "over"}]
    /\ loss \in BOOLEAN
    /\ setting \in Settings \cup {None}
    /\ requests \subseteq Entries \cup Settings
    /\ exec \in [Entries -> {"none", "prepared", "begun"}]
    /\ blocked \in BOOLEAN /\ trip \in BOOLEAN
    /\ mutation \in Entries \cup Settings \cup {None}
    /\ proc \in [Procs ->
          [at : {"idle", "seen", "stored", "prepared", "changing"}, why : Whys,
           item : Entries \cup Settings \cup {None}, loss : BOOLEAN]]
    /\ current \subseteq Procs
    /\ holders \subseteq Procs \cup {Reconciler}
    /\ recon \in [at : {"idle", "asked", "resolved"}, of : Entries \cup Settings \cup {None}]
    /\ lost \in BOOLEAN

AccountInit ==
    /\ order = [e \in Entries |-> "over"]
    /\ loss = FALSE
    /\ setting = None
    /\ requests = {}
    /\ exec = [e \in Entries |-> "none"]
    /\ blocked = FALSE /\ trip = FALSE /\ mutation = None
    /\ proc = [p \in Procs |-> Idle]
    /\ current = {} /\ holders = {} /\ seen = <<>>
    /\ recon = NoRecon
    /\ lost = FALSE

At(p, label) == proc[p].at = label
Item(p) == proc[p].item

\* No execution but e is unresolved.
AllResolved(but) == \A e \in Entries \ but : exec[e] = "none"

\* Nothing refers to e: it can stand for a new order.
Free(e) ==
    /\ exec[e] = "none" /\ order[e] = "over"
    /\ e \notin requests /\ mutation # e /\ recon.of # e
    /\ \A p \in Procs : Item(p) # e

\* What a setting asks for, besides limits: no unresolved execution, order or position.
Unexposed == AllResolved({}) /\ \A e \in Entries : order[e] = "over"

\* The operation of p is over, and with it what p knew.
Ends(p) ==
    /\ proc' = [proc EXCEPT ![p] = Idle]
    /\ current' = current \ {p}
    /\ holders' = holders \ {p}

-----------------------------------------------------------------------------
(* Observing the account: inspect() *)

\* The revision is read and the account asked.  (A change of the revision between the
\* two only makes the transaction refuse.)  An operation that the snapshot rules out
\* is a watch.
Inspect(p, why, item) ==
    /\ At(p, "idle")
    /\ proc' = [proc EXCEPT ![p] = [at |-> "seen", why |-> why, item |-> item, loss |-> loss]]
    /\ current' = current \cup {p}
    /\ seen' = Append(seen, p)
    /\ UNCHANGED <<exchangeVars, exec, guardVars, holders, recon, lost>>

\* Nothing changed the account through the guard, and no later observation is stored.
Storable(p) == p \in current /\ p \in ToSet(seen)

\* Mutant: the loss memory is what the last observation says.
MemoryFollows(now) == now

\* memory.lossTrip: latched.
Latched(now) == trip \/ now

\* Which observations can still be stored after p's: those that are not older, or all
\* when p's is too old to count.
Later(p, aged) ==
    IF aged THEN Remove(seen, p)
    ELSE SubSeq(seen, 1 + CHOOSE k \in 1..Len(seen) : seen[k] = p, Len(seen))

\* The transaction of inspect().  aged: the facts are too old to count, which is a
\* reason by itself; breach: an exposure, margin or protection limit is broken.  An
\* entry or a setting goes on only without reasons; a watch is over.
Store(p, aged, breach) ==
    LET hit == proc[p].loss /\ ~aged
        why == proc[p].why
    IN  /\ At(p, "seen") /\ Storable(p)
        /\ trip' = Latched(hit)
        /\ lost' = (lost \/ hit)
        /\ blocked' = (aged \/ breach \/ proc[p].loss \/ trip' \/ mutation # None)
        /\ IF why = "watch" \/ (why \in {"entry", "setting"} /\ blocked')
           THEN Ends(p)
           ELSE /\ proc' = [proc EXCEPT ![p].at = "stored", ![p].loss = FALSE]
                /\ UNCHANGED <<current, holders>>
        /\ seen' = Later(p, aged)
        /\ UNCHANGED <<exchangeVars, exec, mutation, recon>>

\* An operation ends before it changed anything.  A failed observation closes the
\* account; one that was overtaken and the checks that follow do not.
FailBefore(p) ==
    /\ At(p, "seen") \/ At(p, "stored")
    /\ Ends(p)
    /\ \/ At(p, "seen") /\ blocked' = TRUE
       \/ ~(At(p, "seen") /\ Storable(p)) /\ UNCHANGED blocked
    /\ seen' = Remove(seen, p)
    /\ UNCHANGED <<exchangeVars, exec, trip, mutation, recon, lost>>

-----------------------------------------------------------------------------
(* Entries, as the guard sees them: prepare() and begin().  TradingEngine.tla   *)
(* and OrderRecovery.tla have the submission in full.                           *)

PrepareEntry(p) ==
    LET e == Item(p) IN
    /\ At(p, "stored") /\ proc[p].why = "entry" /\ p \in current
    /\ ~blocked /\ ~trip /\ mutation = None /\ AllResolved({})
    /\ exec' = [exec EXCEPT ![e] = "prepared"]
    /\ proc' = [proc EXCEPT ![p].at = "prepared"]
    /\ current' = {p}
    /\ UNCHANGED <<exchangeVars, guardVars, holders, seen, recon, lost>>

\* The final admission of begin().
Admitted(p) == p \in current /\ ~blocked /\ ~trip /\ mutation = None

\* begin(), and the request leaves; its submission is not the guard's any more.
Begin(p) ==
    LET e == Item(p) IN
    /\ At(p, "prepared") /\ Admitted(p) /\ AllResolved({e})
    /\ exec' = [exec EXCEPT ![e] = "begun"]
    /\ order' = [order EXCEPT ![e] = "inflight"]
    /\ Ends(p)
    /\ UNCHANGED <<loss, setting, requests, guardVars, seen, recon, lost>>

\* begin() refuses or the submission is aborted.
Release(p) ==
    /\ At(p, "prepared")
    /\ exec' = [exec EXCEPT ![Item(p)] = "none"]
    /\ Ends(p)
    /\ UNCHANGED <<exchangeVars, guardVars, seen, recon, lost>>

\* Recovery revokes what a process that stopped had prepared.
Revoke(e) ==
    /\ exec[e] = "prepared" /\ \A p \in Procs : Item(p) # e
    /\ exec' = [exec EXCEPT ![e] = "none"]
    /\ UNCHANGED <<exchangeVars, guardVars, proc, current, holders, seen, recon, lost>>

\* The answer, or recovery, resolves the record.
Settle(e) ==
    /\ exec[e] = "begun" /\ order[e] # "inflight"
    /\ exec' = [exec EXCEPT ![e] = "none"]
    /\ UNCHANGED <<exchangeVars, guardVars, proc, current, holders, seen, recon, lost>>

-----------------------------------------------------------------------------
(* Cancellations and settings: claim, request, finish; or reconciliation *)

\* cancelOrder, setLeverage, setMarginMode: the mutation is recorded before the request
\* leaves.
Claim(p) ==
    /\ At(p, "stored") /\ proc[p].why \in {"cancel", "setting"}
    /\ p \in current /\ mutation = None
    /\ mutation' = Item(p)
    /\ holders' = {p}
    /\ current' = {}
    /\ requests' = requests \cup {Item(p)}
    /\ proc' = [proc EXCEPT ![p] = [Idle EXCEPT !.at = "changing", !.item = Item(p)]]
    /\ UNCHANGED <<order, loss, setting, exec, blocked, trip, seen, recon, lost>>

\* finishMutation, by one that knows the id of a mutation.
FinishMutation(h) ==
    IF h \in holders
    THEN mutation' = None /\ holders' = {} /\ current' = {}
    ELSE UNCHANGED <<mutation, holders, current>>

\* Mutant: only a cancellation that took effect ends one.
AppliedStrictly(m) == IF m \in Entries THEN order[m] = "over" ELSE setting = m

\* The change is observable: the order has ended, the setting has its value.
Applied(m) == IF m \in Entries THEN order[m] \in {"filled", "over"} ELSE setting = m

\* The client reports success.
Changed(p) ==
    /\ At(p, "changing") /\ Item(p) \notin requests
    /\ IF Item(p) \in Entries THEN order[Item(p)] = "over" ELSE setting = Item(p)
    /\ FinishMutation(p)
    /\ proc' = [proc EXCEPT ![p] = Idle]
    /\ UNCHANGED <<exchangeVars, exec, blocked, trip, seen, recon, lost>>

\* Mutant: a mutation is over when its call is.
ForgottenFailure(p) ==
    /\ At(p, "changing")
    /\ FinishMutation(p)
    /\ proc' = [proc EXCEPT ![p] = Idle]
    /\ UNCHANGED <<exchangeVars, exec, blocked, trip, seen, recon, lost>>

\* It reports an error or nothing in time: the mutation stays pending.
Unchanged(p) ==
    /\ At(p, "changing")
    /\ Ends(p)
    /\ UNCHANGED <<exchangeVars, exec, guardVars, seen, recon, lost>>

\* reconcileMutation: one at a time.  The mutation is read, ...
ReconcileStart ==
    /\ recon.at = "idle" /\ mutation # None
    /\ recon' = [at |-> "asked", of |-> mutation]
    /\ holders' = holders \cup {Reconciler}
    /\ UNCHANGED <<exchangeVars, exec, guardVars, proc, current, seen, lost>>

\* ... the exchange is asked about it, ...
ReconcileLook ==
    /\ recon.at = "asked"
    /\ IF Applied(recon.of)
       THEN recon' = [recon EXCEPT !.at = "resolved"] /\ UNCHANGED holders
       ELSE recon' = NoRecon /\ holders' = holders \ {Reconciler}
    /\ UNCHANGED <<exchangeVars, exec, guardVars, proc, current, seen, lost>>

\* ... which may fail, or its process stops, ...
ReconcileFails ==
    /\ recon.at # "idle"
    /\ recon' = NoRecon
    /\ holders' = holders \ {Reconciler}
    /\ UNCHANGED <<exchangeVars, exec, guardVars, proc, current, seen, lost>>

\* ... and a change that was observed is finished.
ReconcileFinish ==
    /\ recon.at = "resolved"
    /\ FinishMutation(Reconciler)
    /\ recon' = NoRecon
    /\ UNCHANGED <<exchangeVars, exec, blocked, trip, proc, seen, lost>>

-----------------------------------------------------------------------------
(* The exchange, and processes that stop *)

\* An entry arrives: it fills, rests, or is refused.
Land(e, as) ==
    /\ order[e] = "inflight"
    /\ order' = [order EXCEPT ![e] = as]
    /\ UNCHANGED <<loss, setting, requests, exec, guardVars, proc, current, holders, seen, recon, lost>>

\* An order that rests is filled, a position is closed.
Fill(e) ==
    /\ order[e] \in {"open", "filled"}
    /\ order' = [order EXCEPT ![e] = IF @ = "open" THEN "filled" ELSE "over"]
    /\ UNCHANGED <<loss, setting, requests, exec, guardVars, proc, current, holders, seen, recon, lost>>

\* A cancellation or a setting arrives, or is refused or lost.
LandChange(m, effective) ==
    /\ m \in requests
    /\ requests' = requests \ {m}
    /\ order' = IF effective /\ m \in Entries /\ order[m] = "open"
                THEN [order EXCEPT ![m] = "over"] ELSE order
    /\ setting' = IF effective /\ m \in Settings THEN m ELSE setting
    /\ UNCHANGED <<loss, exec, guardVars, proc, current, holders, seen, recon, lost>>

ValueMoves ==
    /\ loss' = ~loss
    /\ UNCHANGED <<order, setting, requests, exec, guardVars, proc, current, holders, seen, recon, lost>>

\* A process stops; the one that starts in its place knows nothing.
Crash(p) ==
    /\ ~At(p, "idle")
    /\ Ends(p)
    /\ seen' = Remove(seen, p)
    /\ UNCHANGED <<exchangeVars, exec, guardVars, recon, lost>>

-----------------------------------------------------------------------------
ProcessNext(p) ==
    \/ \E e \in Entries : Free(e) /\ Inspect(p, "entry", e)
    \/ \E e \in Entries : order[e] = "open" /\ Inspect(p, "cancel", e)
    \/ \E v \in Settings : Unexposed /\ Inspect(p, "setting", v)
    \/ Inspect(p, "watch", None)
    \/ \E aged, breach \in BOOLEAN : Store(p, aged, breach)
    \/ FailBefore(p) \/ PrepareEntry(p) \/ Begin(p) \/ Release(p)
    \/ Claim(p) \/ Changed(p) \/ Unchanged(p) \/ Crash(p)

ReconcileNext == ReconcileStart \/ ReconcileLook \/ ReconcileFails \/ ReconcileFinish

ExchangeNext ==
    \/ \E e \in Entries : Fill(e) \/ \E as \in {"open", "filled", "over"} : Land(e, as)
    \/ \E m \in requests, effective \in BOOLEAN : LandChange(m, effective)
    \/ ValueMoves

AccountNext ==
    \/ \E p \in Procs : ProcessNext(p)
    \/ \E e \in Entries : Revoke(e) \/ Settle(e)
    \/ ReconcileNext \/ ExchangeNext

AccountSpec == AccountInit /\ [][AccountNext]_accountVars

\* Supervision reconciles in every pass, and the exchange is not unreachable for ever:
\* a lookup that is repeated is answered at last and its answer gets through.
LiveAccountSpec ==
    /\ AccountSpec
    /\ WF_accountVars(ReconcileStart)
    /\ SF_accountVars(ReconcileLook)
    /\ SF_accountVars(ReconcileFinish)

-----------------------------------------------------------------------------
(* What the guard promises *)

\* "A hard loss trip remains latched": once an observation that showed the loss is
\* stored, no entry is begun any more, whatever was observed, prepared or asked
\* before and whatever is observed later.
TripHolds ==
    [][lost => \A e \in Entries : exec[e] = "prepared" => exec'[e] # "begun"]_accountVars

\* Cancellations do not overlap: one that can still take effect is the pending
\* mutation, through timeouts, crashes and late answers, so the account is closed to
\* entries and to other changes until then.
MutationExclusive == \A e \in requests \cap Entries : order[e] = "open" => mutation = e

\* A cancellation whose outcome nobody learned does not close the account for ever: once
\* its order has ended, by the cancellation or by a fill, the mutation is finished.
CancellationObserved ==
    \A e \in Entries : (mutation = e /\ order[e] \in {"filled", "over"}) ~> mutation # e

=============================================================================
