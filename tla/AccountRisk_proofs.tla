--------------------------- MODULE AccountRisk_proofs ---------------------------
(***************************************************************************)
(* Proofs about the account guard, for any number of processes, entries    *)
(* and settings.                                                           *)
(***************************************************************************)
EXTENDS AccountRisk, TLAPS

-----------------------------------------------------------------------------
(* The inductive invariant.  MutationExclusive needs to know whose mutation  *)
(* is pending (Holders, Reconciling) and that an entry on its way is nobody's *)
(* cancellation (Entering, Canceling, Apart, InFlight).                       *)

\* The loss that was stored is latched.
Tripped == lost => trip

\* A process that knows the id of the pending mutation is making it.
Holders == \A p \in Procs : p \in holders => At(p, "changing") /\ Item(p) = mutation

\* So is reconciliation; what it found resolved cannot take effect any more.
Reconciling ==
    Reconciler \in holders =>
        /\ mutation # None /\ recon.of = mutation
        /\ (recon.at = "resolved" /\ mutation \in Entries) => order[mutation] \in {"filled", "over"}

\* An entry that is being prepared is new.
Entering ==
    \A p \in Procs :
        /\ At(p, "prepared") => proc[p].why = "entry"
        /\ proc[p].why = "entry" =>
               Item(p) \in Entries /\ Item(p) \notin requests /\ order[Item(p)] = "over"

\* Each is prepared by one process.
EnteringOnce ==
    \A p, q \in Procs : (proc[p].why = "entry" /\ proc[q].why = "entry" /\ Item(p) = Item(q)) => p = q

\* A cancellation is about an order that has arrived.
Canceling ==
    \A p \in Procs : proc[p].why = "cancel" => Item(p) \in Entries /\ order[Item(p)] # "inflight"

\* A setting is not an order.
Setting == \A p \in Procs : proc[p].why = "setting" => Item(p) \in Settings

\* Nobody cancels what is being prepared.
Apart ==
    \A p, q \in Procs : (proc[p].why = "entry" /\ proc[q].why = "cancel") => Item(p) # Item(q)

\* Nobody cancels an entry on its way.
InFlight == \A e \in Entries : order[e] = "inflight" => e \notin requests

AccountInv ==
    /\ AccountTypeOK /\ Tripped /\ Holders /\ Reconciling
    /\ Entering /\ EnteringOnce /\ Canceling /\ Setting /\ Apart /\ InFlight
    /\ MutationExclusive

USE DEF At, Item

\* The account starts with no loss, no mutation and no request.
LEMMA InitInv == AccountInit => AccountInv
<1> SUFFICES ASSUME AccountInit PROVE AccountInv
  OBVIOUS
<1>1. Idle \in [at : {"idle", "seen", "stored", "prepared", "changing"}, why : Whys,
                item : Entries \cup Settings \cup {None}, loss : BOOLEAN]
  BY DEF Idle, Whys
<1>2. AccountTypeOK
  BY <1>1 DEF AccountInit, AccountTypeOK, NoRecon
<1>3. \A p \in Procs : proc[p].why = "none" /\ proc[p].at = "idle"
  BY DEF AccountInit, Idle
<1> QED
  BY <1>2, <1>3 DEF AccountInit, AccountInv, Tripped, Holders, Reconciling, Entering, EnteringOnce,
      Canceling, Setting, Apart, InFlight, MutationExclusive

\* An operation that ends and changes nothing but reasons keeps the invariant.
LEMMA EndsInv ==
  ASSUME AccountInv, NEW p \in Procs, Ends(p),
         UNCHANGED <<order, loss, setting, requests, mutation, recon>>,
         exec' \in [Entries -> {"none", "prepared", "begun"}],
         blocked' \in BOOLEAN, trip' \in BOOLEAN, lost' \in BOOLEAN, lost' => trip'
  PROVE  AccountInv'
  BY AccountAssumption
  DEF Ends, AccountInv, AccountTypeOK, Tripped, Holders, Reconciling, Entering, EnteringOnce,
      Canceling, Setting, Apart, InFlight, MutationExclusive, Idle, Whys

\* Inspecting the account.
LEMMA InspectInv ==
  ASSUME AccountInv, NEW p \in Procs, NEW why \in Whys, NEW item \in Entries \cup Settings \cup {None},
         Inspect(p, why, item),
         why = "entry" => item \in Entries /\ Free(item),
         why = "cancel" => item \in Entries /\ order[item] = "open",
         why = "setting" => item \in Settings
  PROVE  AccountInv'
<1>1. AccountTypeOK' /\ Tripped' /\ Holders' /\ Reconciling'
  BY AccountAssumption
  DEF Inspect, AccountInv, AccountTypeOK, Tripped, Holders, Reconciling, exchangeVars, guardVars
<1>2. Entering' /\ EnteringOnce' /\ Canceling' /\ Setting' /\ Apart'
  BY DEF Inspect, Free, AccountInv, AccountTypeOK, Entering, EnteringOnce, Canceling, Setting, Apart,
         exchangeVars, guardVars
<1>3. InFlight' /\ MutationExclusive'
  BY DEF Inspect, AccountInv, InFlight, MutationExclusive, exchangeVars, guardVars
<1> QED
  BY <1>1, <1>2, <1>3 DEF AccountInv

\* Storing an observation, and failing to.
LEMMA StoreInv ==
  ASSUME AccountInv, NEW p \in Procs, NEW aged \in BOOLEAN, NEW breach \in BOOLEAN,
         Store(p, aged, breach)
  PROVE  AccountInv'
<1>a. UNCHANGED <<order, loss, setting, requests, mutation, recon, exec>>
  BY DEF Store, exchangeVars
<1>b. blocked' \in BOOLEAN /\ trip' \in BOOLEAN /\ lost' \in BOOLEAN
  BY Zenon DEF Store, Latched
<1>c. lost' => trip'
  BY Zenon DEF Store, Latched, AccountInv, Tripped
<1>1. /\ UNCHANGED <<order, loss, setting, requests, mutation, recon, exec>>
      /\ blocked' \in BOOLEAN /\ trip' \in BOOLEAN /\ lost' \in BOOLEAN /\ (lost' => trip')
  BY <1>a, <1>b, <1>c
<1>2. CASE Ends(p)
  BY <1>1, <1>2, EndsInv DEF AccountInv, AccountTypeOK
<1>3. CASE /\ proc' = [proc EXCEPT ![p].at = "stored", ![p].loss = FALSE]
           /\ At(p, "seen") /\ UNCHANGED <<current, holders>>
  <2> DEFINE Proc == [at : {"idle", "seen", "stored", "prepared", "changing"}, why : Whys,
                      item : Entries \cup Settings \cup {None}, loss : BOOLEAN]
  <2>a. proc \in [Procs -> Proc]
    BY DEF AccountInv, AccountTypeOK
  <2>b. ASSUME NEW r \in Proc
        PROVE  [r EXCEPT !.at = "stored", !.loss = FALSE] \in Proc
    OBVIOUS
  <2>c. proc' = [proc EXCEPT ![p] = [proc[p] EXCEPT !.at = "stored", !.loss = FALSE]]
    BY <1>3, <2>a
  <2>d. proc' \in [Procs -> Proc]
    <3> HIDE DEF Proc
    <3> QED
      BY <2>a, <2>b, <2>c
  <2>e. AccountTypeOK'
    BY <1>1, <1>3, <2>d, Zenon DEF AccountInv, AccountTypeOK
  <2>f. Tripped' /\ MutationExclusive' /\ InFlight'
    BY <1>1 DEF AccountInv, Tripped, MutationExclusive, InFlight
  <2>2. /\ proc[p].at = "seen" /\ proc'[p].at = "stored"
        /\ \A q \in Procs : proc'[q].why = proc[q].why /\ proc'[q].item = proc[q].item
        /\ \A q \in Procs \ {p} : proc'[q] = proc[q]
    BY <1>3 DEF At, AccountInv, AccountTypeOK
  <2>3. Holders' /\ Reconciling'
    BY <1>1, <1>3, <2>2 DEF AccountInv, Holders, Reconciling, At, Item
  <2>4. Entering' /\ EnteringOnce' /\ Canceling' /\ Setting' /\ Apart'
    BY <1>1, <2>2 DEF AccountInv, Entering, EnteringOnce, Canceling, Setting, Apart, At, Item
  <2> QED
    BY <2>e, <2>f, <2>3, <2>4 DEF AccountInv
<1> QED
  BY <1>2, <1>3 DEF Store

\* A failure before a request is sent leaves the account as it was.
LEMMA FailBeforeInv ==
  ASSUME AccountInv, NEW p \in Procs, FailBefore(p)
  PROVE  AccountInv'
  BY EndsInv DEF FailBefore, AccountInv, AccountTypeOK, Tripped, exchangeVars

\* prepare() and begin().
LEMMA PrepareInv ==
  ASSUME AccountInv, NEW p \in Procs, PrepareEntry(p)
  PROVE  AccountInv'
<1>1. AccountTypeOK' /\ Tripped' /\ Holders' /\ Reconciling'
  <2>1. AccountTypeOK'
    <3> DEFINE State == [at : {"idle", "seen", "stored", "prepared", "changing"}, why : Whys,
                         item : Entries \cup Settings \cup {None}, loss : BOOLEAN]
    <3>1. /\ exec' \in [Entries -> {"none", "prepared", "begun"}]
          /\ current' \subseteq Procs
      BY DEF PrepareEntry, AccountInv, AccountTypeOK
    <3>2. proc' \in [Procs -> State]
      <4>1. [proc[p] EXCEPT !.at = "prepared"] \in State
        BY DEF AccountInv, AccountTypeOK
      <4>2. proc \in [Procs -> State] /\ proc' = [proc EXCEPT ![p] = [proc[p] EXCEPT !.at = "prepared"]]
        BY DEF AccountInv, AccountTypeOK, PrepareEntry
      <4> HIDE DEF State
      <4> QED BY <4>1, <4>2
    <3>3. UNCHANGED <<order, loss, setting, requests, blocked, trip, mutation, holders, recon, lost>>
      BY DEF PrepareEntry, exchangeVars, guardVars
    <3> QED BY <3>1, <3>2, <3>3, Zenon DEF AccountInv, AccountTypeOK
  <2>2. Tripped' /\ Holders'
    BY DEF PrepareEntry, AccountInv, AccountTypeOK, Tripped, Holders, exchangeVars, guardVars
  <2>3. Reconciling'
    BY DEF PrepareEntry, AccountInv, Reconciling, exchangeVars, guardVars
  <2> QED BY <2>1, <2>2, <2>3
<1>2. Entering' /\ EnteringOnce' /\ Canceling' /\ Setting' /\ Apart'
  BY DEF PrepareEntry, AccountInv, AccountTypeOK, Entering, EnteringOnce, Canceling, Setting, Apart,
         exchangeVars
<1>3. InFlight' /\ MutationExclusive'
  BY DEF PrepareEntry, AccountInv, InFlight, MutationExclusive, exchangeVars, guardVars
<1> QED
  BY <1>1, <1>2, <1>3 DEF AccountInv

\* begin(): the request of a prepared entry, never that of a cancellation.
LEMMA BeginInv ==
  ASSUME AccountInv, NEW p \in Procs, Begin(p)
  PROVE  AccountInv'
<1>1. proc[p].why = "entry" /\ Item(p) \in Entries /\ Item(p) \notin requests
  BY DEF Begin, AccountInv, Entering
<1>2. AccountTypeOK' /\ Tripped' /\ Holders'
  BY <1>1 DEF Begin, Ends, AccountInv, AccountTypeOK, Tripped, Holders, Idle, Whys, guardVars
<1>3. Reconciling'
  BY AccountAssumption DEF Begin, Admitted, Ends, AccountInv, Reconciling, guardVars
<1>4. Entering' /\ EnteringOnce'
  BY <1>1 DEF Begin, Ends, AccountInv, AccountTypeOK, Entering, EnteringOnce, Idle
<1>5. Canceling' /\ Setting' /\ Apart'
  BY <1>1 DEF Begin, Ends, AccountInv, AccountTypeOK, Canceling, Setting, Apart, Idle
<1>6. InFlight' /\ MutationExclusive'
  BY <1>1 DEF Begin, AccountInv, AccountTypeOK, InFlight, MutationExclusive, guardVars
<1> QED
  BY <1>2, <1>3, <1>4, <1>5, <1>6 DEF AccountInv

\* An entry that was not begun is released.
LEMMA ReleaseInv ==
  ASSUME AccountInv, NEW p \in Procs, Release(p)
  PROVE  AccountInv'
<1>1. Item(p) \in Entries
  BY DEF Release, AccountInv, Entering
<1> QED
  BY <1>1, EndsInv DEF Release, AccountInv, AccountTypeOK, Tripped, exchangeVars, guardVars

\* The record of an entry is revoked or settled.
LEMMA RecordInv ==
  ASSUME AccountInv, NEW e \in Entries, Revoke(e) \/ Settle(e)
  PROVE  AccountInv'
  BY DEF Revoke, Settle, AccountInv, AccountTypeOK, Tripped, Holders, Reconciling, Entering, EnteringOnce,
         Canceling, Setting, Apart, InFlight, MutationExclusive, exchangeVars, guardVars

\* Claiming a mutation: nothing open is being canceled when none is pending.
LEMMA ClaimInv ==
  ASSUME AccountInv, NEW p \in Procs, Claim(p)
  PROVE  AccountInv'
<1>1. Item(p) \in Entries \cup Settings /\ (Item(p) \in Entries => order[Item(p)] # "inflight")
  BY AccountAssumption DEF Claim, AccountInv, Canceling, Setting
<1>2. AccountTypeOK'
  BY <1>1 DEF Claim, AccountInv, AccountTypeOK, Idle, Whys
<1>3. Tripped' /\ Holders' /\ Reconciling'
  BY <1>1, AccountAssumption DEF Claim, AccountInv, AccountTypeOK, Tripped, Holders, Reconciling, Idle
<1>4. Entering'
  <2>1. \A q \in Procs : proc[q].why = "entry" => Item(p) # Item(q)
    BY AccountAssumption DEF Claim, AccountInv, Entering, Apart, Setting
  <2> QED
    BY <2>1 DEF Claim, AccountInv, AccountTypeOK, Entering, Idle
<1>5. EnteringOnce' /\ Canceling' /\ Setting' /\ Apart'
  BY DEF Claim, AccountInv, AccountTypeOK, EnteringOnce, Canceling, Setting, Apart, Idle
<1>6. InFlight'
  BY <1>1 DEF Claim, AccountInv, AccountTypeOK, InFlight
<1>7. MutationExclusive'
  BY AccountAssumption DEF Claim, AccountInv, MutationExclusive
<1> QED
  BY <1>2, <1>3, <1>4, <1>5, <1>6, <1>7 DEF AccountInv

\* Finishing one: a process that was told its request took effect, or reconciliation
\* that saw the order over.
LEMMA ChangedInv ==
  ASSUME AccountInv, NEW p \in Procs, Changed(p)
  PROVE  AccountInv'
<1>1. AccountTypeOK' /\ Tripped'
  BY DEF Changed, FinishMutation, AccountInv, AccountTypeOK, Tripped, Idle, Whys, exchangeVars
<1>2. Holders' /\ Reconciling'
  BY AccountAssumption
  DEF Changed, FinishMutation, AccountInv, AccountTypeOK, Holders, Reconciling, Idle, exchangeVars
<1>3. Entering' /\ EnteringOnce' /\ Canceling' /\ Setting' /\ Apart' /\ InFlight'
  BY DEF Changed, AccountInv, AccountTypeOK, Entering, EnteringOnce, Canceling, Setting, Apart, InFlight,
         Idle, exchangeVars
<1>4. MutationExclusive'
  BY DEF Changed, FinishMutation, AccountInv, Holders, MutationExclusive, exchangeVars
<1> QED
  BY <1>1, <1>2, <1>3, <1>4 DEF AccountInv

\* A pass that stores nothing, or a crash, only ends a process.
LEMMA UnchangedInv ==
  ASSUME AccountInv, NEW p \in Procs, Unchanged(p) \/ Crash(p)
  PROVE  AccountInv'
  BY EndsInv DEF Unchanged, Crash, AccountInv, AccountTypeOK, Tripped, exchangeVars, guardVars

\* reconcileMutation(): what it clears can take effect no more.
LEMMA ReconcileInv ==
  ASSUME AccountInv, ReconcileNext
  PROVE  AccountInv'
<1>1. AccountTypeOK' /\ Tripped'
  BY DEF ReconcileNext, ReconcileStart, ReconcileLook, ReconcileFails, ReconcileFinish, FinishMutation,
         AccountInv, AccountTypeOK, Tripped, NoRecon, exchangeVars, guardVars
<1>2. Holders'
  BY AccountAssumption
  DEF ReconcileNext, ReconcileStart, ReconcileLook, ReconcileFails, ReconcileFinish, FinishMutation,
         AccountInv, Holders, exchangeVars, guardVars
<1>3. Reconciling'
  <2>1. CASE ReconcileStart
    BY <2>1 DEF ReconcileStart, AccountInv, Reconciling, exchangeVars, guardVars
  <2>2. CASE ReconcileLook
    BY <2>2, AccountAssumption
    DEF ReconcileLook, Applied, AccountInv, AccountTypeOK, Reconciling, NoRecon, exchangeVars, guardVars
  <2>3. CASE ReconcileFails
    BY <2>3 DEF ReconcileFails, Reconciling
  <2>4. CASE ReconcileFinish
    BY <2>4 DEF ReconcileFinish, FinishMutation, AccountInv, Reconciling
  <2> QED
    BY <2>1, <2>2, <2>3, <2>4 DEF ReconcileNext
<1>4. Entering' /\ EnteringOnce' /\ Canceling' /\ Setting' /\ Apart' /\ InFlight'
  BY DEF ReconcileNext, ReconcileStart, ReconcileLook, ReconcileFails, ReconcileFinish,
         AccountInv, Entering, EnteringOnce, Canceling, Setting, Apart, InFlight, exchangeVars
<1>5. MutationExclusive'
  BY DEF ReconcileNext, ReconcileStart, ReconcileLook, ReconcileFails, ReconcileFinish, FinishMutation,
         AccountInv, Reconciling, MutationExclusive, exchangeVars, guardVars
<1> QED
  BY <1>1, <1>2, <1>3, <1>4, <1>5 DEF AccountInv

\* The exchange: an order that arrives is nobody's cancellation, one that ended does not
\* come back.
LEMMA ExchangeInv ==
  ASSUME AccountInv, ExchangeNext
  PROVE  AccountInv'
<1>1. CASE \E e \in Entries : Fill(e) \/ \E as \in {"open", "filled", "over"} : Land(e, as)
  <2> PICK e \in Entries : Fill(e) \/ \E as \in {"open", "filled", "over"} : Land(e, as)
    BY <1>1
  <2>0. PICK as \in {"open", "filled", "over"} :
           /\ order' = [order EXCEPT ![e] = as]
           /\ order[e] = "over" => as = "over"
           /\ order[e] = "filled" => as # "open"
           /\ order[e] = "inflight" \/ as # "open"
           /\ UNCHANGED <<loss, setting, requests, exec, guardVars, proc, current, holders, seen, recon, lost>>
    BY DEF Fill, Land, AccountInv, AccountTypeOK
  <2>1. AccountTypeOK' /\ Tripped' /\ Holders'
    <3>0. AccountTypeOK /\ Tripped /\ Holders
      BY DEF AccountInv
    <3>1. AccountTypeOK'
      <4>1. order' \in [Entries -> {"inflight", "open", "filled", "over"}]
        BY <2>0, <3>0 DEF AccountTypeOK
      <4> QED BY <2>0, <3>0, <4>1, Zenon DEF AccountTypeOK, guardVars
    <3>2. Tripped' /\ Holders'
      BY <2>0, <3>0 DEF Tripped, Holders, guardVars
    <3> QED BY <3>1, <3>2
  <2>2. Reconciling'
    BY <2>0 DEF AccountInv, AccountTypeOK, Reconciling, guardVars, InFlight
  <2>3. Entering' /\ EnteringOnce' /\ Canceling' /\ Setting' /\ Apart'
    <3>0. AccountTypeOK /\ Entering /\ EnteringOnce /\ Canceling /\ Setting /\ Apart
      BY DEF AccountInv
    <3>1. Entering'
      BY <2>0, <3>0 DEF AccountTypeOK, Entering
    <3>2. Canceling' /\ Setting'
      BY <2>0, <3>0 DEF AccountTypeOK, Canceling, Setting
    <3>3. EnteringOnce' /\ Apart'
      BY <2>0, <3>0 DEF AccountTypeOK, EnteringOnce, Apart
    <3> QED BY <3>1, <3>2, <3>3
  <2>4. InFlight' /\ MutationExclusive'
    BY <2>0 DEF AccountInv, AccountTypeOK, InFlight, MutationExclusive, guardVars
  <2> QED
    BY <2>1, <2>2, <2>3, <2>4 DEF AccountInv
<1>2. CASE \E m \in requests, effective \in BOOLEAN : LandChange(m, effective)
  <2> PICK m \in requests, effective \in BOOLEAN : LandChange(m, effective)
    BY <1>2
  <2>1. AccountTypeOK' /\ Tripped' /\ Holders'
    BY DEF LandChange, AccountInv, AccountTypeOK, Tripped, Holders, guardVars
  <2>2. Reconciling'
    BY DEF LandChange, AccountInv, AccountTypeOK, Reconciling, guardVars
  <2>3. Entering' /\ EnteringOnce' /\ Canceling' /\ Setting' /\ Apart'
    BY DEF LandChange, AccountInv, AccountTypeOK, Entering, EnteringOnce, Canceling, Setting, Apart
  <2>4. InFlight' /\ MutationExclusive'
    BY DEF LandChange, AccountInv, AccountTypeOK, InFlight, MutationExclusive, guardVars
  <2> QED
    BY <2>1, <2>2, <2>3, <2>4 DEF AccountInv
<1>3. CASE ValueMoves
  BY <1>3
  DEF ValueMoves, AccountInv, AccountTypeOK, Tripped, Holders, Reconciling, Entering, EnteringOnce,
      Canceling, Setting, Apart, InFlight, MutationExclusive, guardVars
<1> QED
  BY <1>1, <1>2, <1>3 DEF ExchangeNext

-----------------------------------------------------------------------------

\* Every step of the guard preserves the invariant.
LEMMA NextInv == AccountInv /\ [AccountNext]_accountVars => AccountInv'
<1> SUFFICES ASSUME AccountInv, [AccountNext]_accountVars PROVE AccountInv'
  OBVIOUS
<1>1. CASE \E p \in Procs : ProcessNext(p)
  <2> PICK p \in Procs : ProcessNext(p)
    BY <1>1
  <2>1. CASE \E e \in Entries : Free(e) /\ Inspect(p, "entry", e)
    BY <2>1, InspectInv DEF Whys
  <2>2. CASE \E e \in Entries : order[e] = "open" /\ Inspect(p, "cancel", e)
    BY <2>2, InspectInv DEF Whys
  <2>3. CASE \E v \in Settings : Unexposed /\ Inspect(p, "setting", v)
    BY <2>3, InspectInv DEF Whys
  <2>4. CASE Inspect(p, "watch", None)
    BY <2>4, InspectInv DEF Whys
  <2>5. CASE \E aged, breach \in BOOLEAN : Store(p, aged, breach)
    BY <2>5, StoreInv
  <2> QED
    BY <2>1, <2>2, <2>3, <2>4, <2>5, FailBeforeInv, PrepareInv, BeginInv, ReleaseInv, ClaimInv, ChangedInv,
       UnchangedInv DEF ProcessNext
<1>2. CASE UNCHANGED accountVars
  BY <1>2
  DEF accountVars, exchangeVars, guardVars, AccountInv, AccountTypeOK, Tripped, Holders, Reconciling,
      Entering, EnteringOnce, Canceling, Setting, Apart, InFlight, MutationExclusive
<1> QED
  BY <1>1, <1>2, RecordInv, ReconcileInv, ExchangeInv DEF AccountNext

\* The guard's inductive invariant, for any sets of processes, entries and settings.
THEOREM AccountInvariant == AccountSpec => []AccountInv
  BY InitInv, NextInv, PTL DEF AccountSpec

\* The guard's state keeps its types.
THEOREM AccountTypeCorrect == AccountSpec => []AccountTypeOK
<1>1. AccountInv => AccountTypeOK
  BY DEF AccountInv
<1> QED
  BY <1>1, AccountInvariant, PTL

\* A cancellation that can still take effect is the pending mutation.
THEOREM MutationsAreExclusive == AccountSpec => []MutationExclusive
<1>1. AccountInv => MutationExclusive
  BY DEF AccountInv
<1> QED
  BY <1>1, AccountInvariant, PTL

\* After a stored loss no entry is begun.
THEOREM TripsHold == AccountSpec => TripHolds
<1> DEFINE Held == lost => \A e \in Entries : exec[e] = "prepared" => exec'[e] # "begun"
<1>1. AccountInv /\ [AccountNext]_accountVars => [Held]_accountVars
  <2> SUFFICES ASSUME AccountInv, AccountNext, lost, NEW e \in Entries, exec[e] = "prepared",
                      exec'[e] = "begun"
               PROVE  FALSE
    OBVIOUS
  <2>1. trip
    BY DEF AccountInv, Tripped
  <2>2. \A p \in Procs : ~Begin(p)
    BY <2>1 DEF Begin, Admitted
  <2>3. exec' = exec \/ \E x \in Entries, s \in {"none", "prepared"} : exec' = [exec EXCEPT ![x] = s]
    <3>1. CASE \E p \in Procs : ProcessNext(p)
      <4> PICK p \in Procs : ProcessNext(p)
        BY <3>1
      <4>1. CASE PrepareEntry(p) \/ Release(p)
        <5>1. Item(p) \in Entries
          BY <4>1 DEF PrepareEntry, Release, AccountInv, Entering
        <5> QED BY <4>1, <5>1 DEF PrepareEntry, Release
      <4>2. CASE ~(PrepareEntry(p) \/ Release(p))
        BY <2>2, <4>2
        DEF ProcessNext, Inspect, Store, FailBefore, Claim, Changed, Unchanged, Crash
      <4> QED BY <4>1, <4>2
    <3>2. CASE ReconcileNext
      BY <3>2 DEF ReconcileNext, ReconcileStart, ReconcileLook, ReconcileFails, ReconcileFinish
    <3>3. CASE ExchangeNext
      BY <3>3 DEF ExchangeNext, Fill, Land, LandChange, ValueMoves
    <3>4. CASE \E x \in Entries : Revoke(x) \/ Settle(x)
      BY <3>4 DEF Revoke, Settle
    <3> QED BY <3>1, <3>2, <3>3, <3>4 DEF AccountNext
  <2> QED
    BY <2>3 DEF AccountInv, AccountTypeOK
<1> QED
  BY <1>1, AccountInvariant, PTL DEF AccountSpec, TripHolds

=============================================================================
