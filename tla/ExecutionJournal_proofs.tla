------------------------ MODULE ExecutionJournal_proofs ------------------------
(***************************************************************************)
(* The promises of the execution journal, proved for every number of       *)
(* executions, runtimes, intents and days.                                 *)
(***************************************************************************)
EXTENDS ExecutionJournal, SequenceTheorems, FiniteSums, TLAPS

USE RiskUsageAssumption, JournalAssumption

\* Trimming the history (trimExecutionHistory) leaves a sequence of record ids.
LEMMA TrimType ==
    ASSUME NEW s \in Seq(Execs)
    PROVE  Trim(s) \in Seq(Execs)
<1>1. CASE Len(s) > HistoryLimit
  <2> DEFINE a == Len(s) - HistoryLimit + 1
  <2>1. Len(s) \in Nat /\ a \in 1..Len(s)
    BY <1>1, LenProperties
  <2>2. SubSeq(s, a, Len(s)) \in Seq(Execs)
    BY <2>1, SubSeqProperties
  <2> QED BY <1>1, <2>2 DEF Trim
<1>2. CASE ~(Len(s) > HistoryLimit)
  BY <1>2 DEF Trim
<1> QED BY <1>1, <1>2

\* A new journal satisfies the invariant.
LEMMA JournalInitInv == JournalInit => JournalInv
<1> SUFFICES ASSUME JournalInit PROVE JournalInv
  OBVIOUS
<1> USE DEF JournalInit, UsageInit
<1>1. \A e \in Execs : rec[e] = NoRecord
  OBVIOUS
<1>2. NoRecord \in Record
  BY DEF NoRecord, Record, Modes, Pending, Resolved, Outcomes, Evidences
<1>3. JournalTypeOK
  <2>1. UsageTypeOK
    BY DEF UsageTypeOK, Modes
  <2>2. rec \in [Execs -> Record] /\ closed \in Seq(Execs)
    BY <1>2
  <2>3. captured \in [Runtimes -> Nat \cup {-1}]
    OBVIOUS
  <2>4. account \in [Modes -> [revision : Nat, blocked : BOOLEAN, mutation : BOOLEAN]]
    OBVIOUS
  <2> QED BY <2>1, <2>2, <2>3, <2>4 DEF JournalTypeOK
<1>4. Unresolved = {}
  BY <1>1 DEF Unresolved, IsUnresolved, NoRecord, Pending
<1>5. SettledExact /\ Tombstones
  BY <1>1 DEF SettledExact, Tombstones, IsResolved, NoRecord, Resolved
<1>6. BlocksExact
  BY <1>4 DEF BlocksExact
<1>7. QuotaExact
  BY <1>4 DEF QuotaExact, Claimants
<1>8. EntryExclusive /\ FenceQuiescent /\ GenerationCurrent
  BY <1>4 DEF EntryExclusive, FenceQuiescent, GenerationCurrent
<1>9. QuotaHonoured /\ ReservedFits
  BY DEF QuotaHonoured, ReservedFits, Modes
<1>10. SuccessorFenced
  BY DEF SuccessorFenced
<1> QED BY <1>3, <1>5, <1>6, <1>7, <1>8, <1>9, <1>10 DEF JournalInv

-----------------------------------------------------------------------------
(* Steps that leave the accounting view of every record alone *)

\* What the invariant reads of a record.
SameView ==
    \A e \in Execs :
        /\ rec'[e].status \in Pending <=> rec[e].status \in Pending
        /\ rec'[e].status \in Resolved <=> rec[e].status \in Resolved
        /\ rec'[e].gen = rec[e].gen
        /\ rec'[e].mode = rec[e].mode
        /\ rec'[e].counted = rec[e].counted
        /\ rec'[e].notional = rec[e].notional
        /\ rec'[e].intent = rec[e].intent
        /\ rec'[e].outcome = rec[e].outcome

\* Under an unchanged view the same executions are unresolved, with the same claims.
LEMMA ViewFacts ==
    ASSUME SameView
    PROVE  /\ Unresolved' = Unresolved
           /\ \A m \in Modes : Claimants(m)' = Claimants(m)
           /\ \A e \in Execs : ClaimOf(e)' = ClaimOf(e)
<1>1. Unresolved' = Unresolved
  BY DEF SameView, Unresolved, IsUnresolved
<1>2. \A m \in Modes : Claimants(m)' = Claimants(m)
  BY <1>1 DEF SameView, Claimants, Unresolved
<1>3. \A e \in Execs : ClaimOf(e)' = ClaimOf(e)
  BY DEF SameView, ClaimOf
<1> QED BY <1>1, <1>2, <1>3

\* Steps that keep the view, the claims, the blocks and the intent keys keep the
\* invariant's facts about records.
LEMMA ViewStep ==
    ASSUME JournalInv, SameView, UNCHANGED <<claims, reserved, blocks, intentKeys>>
    PROVE  /\ SettledExact' /\ Tombstones' /\ BlocksExact'
           /\ QuotaExact' /\ EntryExclusive' /\ ReservedFits'
<1>1. Unresolved' = Unresolved /\ \A m \in Modes : Claimants(m)' = Claimants(m)
  BY ViewFacts
<1>2. \A e \in Execs : ClaimOf(e)' = ClaimOf(e)
  BY ViewFacts
<1>3. SettledExact'
  BY DEF JournalInv, SettledExact, SameView, IsResolved
<1>4. Tombstones'
  BY DEF JournalInv, Tombstones, SameView
<1>5. BlocksExact'
  BY <1>1 DEF JournalInv, BlocksExact, SameView, Unresolved
<1>6. QuotaExact'
  <2> SUFFICES ASSUME NEW m \in Modes
               PROVE  /\ claims'[m] = {ClaimOf(e)' : e \in Claimants(m)'}
                      /\ \A e \in Claimants(m)' : reserved'[m] = rec'[e].notional
                      /\ Claimants(m)' = {} => reserved'[m] = 0
    BY DEF QuotaExact
  <2>1. Claimants(m) \subseteq Execs
    BY DEF Claimants, Unresolved
  <2>2. {ClaimOf(e)' : e \in Claimants(m)'} = {ClaimOf(e) : e \in Claimants(m)}
    BY <1>1, <1>2, <2>1
  <2>3. /\ claims'[m] = claims[m] /\ reserved'[m] = reserved[m]
        /\ \A e \in Claimants(m) : rec'[e].notional = rec[e].notional
    BY <2>1 DEF SameView
  <2>4. /\ claims[m] = {ClaimOf(e) : e \in Claimants(m)}
        /\ \A e \in Claimants(m) : reserved[m] = rec[e].notional
        /\ Claimants(m) = {} => reserved[m] = 0
    BY DEF JournalInv, QuotaExact
  <2> QED BY <1>1, <2>2, <2>3, <2>4
<1>7. EntryExclusive'
  BY <1>1 DEF JournalInv, EntryExclusive, SameView, Unresolved
<1>8. ReservedFits'
  BY DEF JournalInv, ReservedFits
<1> QED BY <1>3, <1>4, <1>5, <1>6, <1>7, <1>8

\* begin, unknown, claimAttempt and updateEvidence change a record's status only
\* within its class, and nothing else the invariant reads.
LEMMA TouchStep ==
    ASSUME JournalInv, SameView, rec' \in [Execs -> Record],
           UNCHANGED <<usageVars, closed, intentKeys, fenceVars, captured, account>>
    PROVE  JournalInv'
<1> USE DEF usageVars, fenceVars, ledgerVars
<1>1. Unresolved' = Unresolved
  BY ViewFacts
<1>2. JournalTypeOK'
  BY DEF JournalInv, JournalTypeOK, UsageTypeOK
<1>3. /\ SettledExact' /\ Tombstones' /\ BlocksExact'
      /\ QuotaExact' /\ EntryExclusive' /\ ReservedFits'
  BY ViewStep
<1>4. QuotaHonoured' /\ SuccessorFenced'
  BY DEF JournalInv, QuotaHonoured, SuccessorFenced
<1>5. FenceQuiescent'
  BY <1>1 DEF JournalInv, FenceQuiescent
<1>6. GenerationCurrent'
  BY <1>1 DEF JournalInv, GenerationCurrent, SameView, Unresolved
<1> QED BY <1>2, <1>3, <1>4, <1>5, <1>6 DEF JournalInv

\* begin() grants the permission to send; the execution stays unresolved, so the
\* invariant's view of it does not change.
LEMMA BeginStep ==
    ASSUME JournalInv, NEW r \in Runtimes, NEW e \in Execs, NEW v, Begin(r, e, v)
    PROVE  JournalInv'
<1>1. rec \in [Execs -> Record]
  BY DEF JournalInv, JournalTypeOK
<1>2. rec' \in [Execs -> Record]
  BY <1>1 DEF Begin, Record, Pending
<1>3. SameView
  BY <1>1 DEF Begin, SameView, Record, Pending, Resolved
<1> QED BY <1>2, <1>3, TouchStep DEF Begin

\* unknown() leaves claim and block where they are.
LEMMA UnknownStep ==
    ASSUME JournalInv, NEW e \in Execs, Unknown(e)
    PROVE  JournalInv'
<1>1. rec \in [Execs -> Record]
  BY DEF JournalInv, JournalTypeOK
<1>2. rec' \in [Execs -> Record]
  BY <1>1 DEF Unknown, Record, Pending
<1>3. SameView
  BY <1>1 DEF Unknown, SameView, Record, IsUnresolved, Pending, Resolved
<1> QED BY <1>2, <1>3, TouchStep DEF Unknown

\* claimAttempt(), granted or spent, touches counters and the issue only.
LEMMA AttemptStep ==
    ASSUME JournalInv, NEW e \in Execs, ClaimAttempt(e) \/ ExhaustAttempts(e)
    PROVE  JournalInv'
<1>1. rec \in [Execs -> Record]
  BY DEF JournalInv, JournalTypeOK
<1>2. rec' \in [Execs -> Record]
  BY <1>1 DEF ClaimAttempt, ExhaustAttempts, Record, Pending
<1>3. SameView
  BY <1>1 DEF ClaimAttempt, ExhaustAttempts, SameView, Record, IsUnresolved, Pending, Resolved
<1> QED BY <1>2, <1>3, TouchStep DEF ClaimAttempt, ExhaustAttempts

\* updateEvidence() replaces the evidence of a resolved record, never its settlement.
LEMMA UpdateEvidenceStep ==
    ASSUME JournalInv, NEW e \in Execs, UpdateEvidence(e)
    PROVE  JournalInv'
<1>1. rec \in [Execs -> Record]
  BY DEF JournalInv, JournalTypeOK
<1>2. rec' \in [Execs -> Record]
  BY <1>1 DEF UpdateEvidence, Record, Resolved, Evidences
<1>3. SameView
  BY <1>1 DEF UpdateEvidence, SameView, Record, IsResolved, Pending, Resolved
<1> QED BY <1>2, <1>3, TouchStep DEF UpdateEvidence

-----------------------------------------------------------------------------
(* Steps that leave the records and the claims alone *)

\* Instances come and go, the fence rises and falls, the clock and the account
\* verdict move: no record, claim or block changes.
LEMMA FrameStep ==
    ASSUME JournalInv, UNCHANGED <<recordVars, claims, reserved, blocks>>,
           JournalTypeOK', QuotaHonoured', FenceQuiescent', GenerationCurrent',
           SuccessorFenced'
    PROVE  JournalInv'
<1>1. SameView
  BY DEF SameView, recordVars
<1> QED BY <1>1, ViewStep DEF JournalInv, recordVars

\* Instances come and go without the stored state; an installed successor is ahead
\* by one generation, behind the fence.
LEMMA InstanceStep ==
    ASSUME JournalInv, NEW r \in Runtimes, NEW s \in Runtimes,
           Open(r) \/ Install(r, s) \/ Halt(r)
    PROVE  JournalInv'
<1> USE DEF usageVars, ledgerVars, recordVars, fenceVars
<1>0. generation \in Nat /\ captured \in [Runtimes -> Nat \cup {-1}] /\ owners \subseteq Runtimes
  BY DEF JournalInv, JournalTypeOK
<1>1. JournalTypeOK'
  <2>1. captured' \in [Runtimes -> Nat \cup {-1}]
    BY <1>0 DEF Open, Install, Halt
  <2>2. owners' \in SUBSET Runtimes
    BY <1>0 DEF Open, Install, Halt
  <2>3. UNCHANGED <<usageVars, recordVars, generation, fence, account>>
    BY DEF Open, Install, Halt
  <2> QED BY <2>1, <2>2, <2>3 DEF JournalInv, JournalTypeOK, UsageTypeOK
<1>2. QuotaHonoured'
  BY DEF JournalInv, QuotaHonoured, Open, Install, Halt
<1>3. Unresolved' = Unresolved
  BY DEF Unresolved, IsUnresolved, Open, Install, Halt
<1>4. FenceQuiescent' /\ GenerationCurrent'
  BY <1>3 DEF JournalInv, FenceQuiescent, GenerationCurrent, Open, Install, Halt
<1>5. SuccessorFenced'
  <2> SUFFICES ASSUME NEW t \in Runtimes, captured'[t] > generation'
               PROVE  fence' /\ captured'[t] = generation' + 1
    BY DEF SuccessorFenced
  <2>1. captured[t] > generation => fence /\ captured[t] = generation + 1
    BY DEF JournalInv, SuccessorFenced
  <2>2. generation' = generation /\ (fence' <=> fence)
    BY DEF Open, Install, Halt
  <2>3. CASE Open(r)
    BY <1>0, <2>1, <2>2, <2>3 DEF Open
  <2>4. CASE Install(r, s)
    BY <1>0, <2>1, <2>2, <2>4 DEF Install
  <2>5. CASE Halt(r)
    BY <1>0, <2>1, <2>2, <2>5 DEF Halt
  <2> QED BY <2>3, <2>4, <2>5
<1> QED BY <1>1, <1>2, <1>4, <1>5, FrameStep DEF Open, Install, Halt

\* The maintenance calls: the fence rises over a quiet journal only, and the
\* generation advances while nothing is unresolved.
LEMMA MaintenanceStep ==
    ASSUME JournalInv, NEW r \in Runtimes, NEW b \in BOOLEAN,
           BeginMaintenance(r) \/ CancelMaintenance(r) \/ CompleteMaintenance(r, b)
    PROVE  JournalInv'
<1> USE DEF usageVars, ledgerVars, recordVars
<1>0. generation \in Nat /\ captured \in [Runtimes -> Nat \cup {-1}]
  BY DEF JournalInv, JournalTypeOK
<1>1. JournalTypeOK'
  <2>1. generation' \in Nat /\ owners' \in SUBSET Runtimes
    BY <1>0 DEF BeginMaintenance, CancelMaintenance, CompleteMaintenance
  <2>2. fence' \in BOOLEAN
    BY DEF BeginMaintenance, CancelMaintenance, CompleteMaintenance
  <2>3. UNCHANGED <<usageVars, recordVars, captured, account>>
    BY DEF BeginMaintenance, CancelMaintenance, CompleteMaintenance
  <2> QED BY <2>1, <2>2, <2>3 DEF JournalInv, JournalTypeOK, UsageTypeOK
<1>2. QuotaHonoured'
  BY DEF JournalInv, QuotaHonoured, BeginMaintenance, CancelMaintenance, CompleteMaintenance
<1>3. Unresolved' = Unresolved
  BY DEF Unresolved, IsUnresolved, BeginMaintenance, CancelMaintenance, CompleteMaintenance
<1>4. FenceQuiescent'
  BY <1>3 DEF JournalInv, FenceQuiescent, BeginMaintenance, CancelMaintenance,
              CompleteMaintenance
<1>5. GenerationCurrent'
  \* the generation moves only behind the fence, where nothing is unresolved
  BY <1>3 DEF JournalInv, FenceQuiescent, GenerationCurrent, BeginMaintenance,
              CancelMaintenance, CompleteMaintenance
<1>6. SuccessorFenced'
  <2> SUFFICES ASSUME NEW t \in Runtimes, captured'[t] > generation'
               PROVE  fence' /\ captured'[t] = generation' + 1
    BY DEF SuccessorFenced
  <2>1. captured[t] > generation => captured[t] = generation + 1
    BY DEF JournalInv, SuccessorFenced
  <2>2. captured' = captured
    BY DEF BeginMaintenance, CancelMaintenance, CompleteMaintenance
  <2>3. CASE BeginMaintenance(r)
    BY <1>0, <2>1, <2>2, <2>3 DEF BeginMaintenance
  <2>4. CASE CancelMaintenance(r)
    BY <1>0, <2>2, <2>4 DEF CancelMaintenance
  <2>5. CASE CompleteMaintenance(r, b)
    BY <1>0, <2>1, <2>2, <2>5 DEF CompleteMaintenance
  <2> QED BY <2>3, <2>4, <2>5
<1> QED BY <1>1, <1>2, <1>4, <1>5, <1>6, FrameStep
        DEF BeginMaintenance, CancelMaintenance, CompleteMaintenance

\* Quota bookkeeping, account-risk writes and the clock leave the records alone;
\* used only restarts, so the cap is kept.
LEMMA EnvironmentStep ==
    ASSUME JournalInv, NEW m \in Modes,
           Refresh \/ Reset(m) \/ NextDay \/ AccountVerdict(m) \/ ClaimMutation(m) \/ FinishMutation(m)
    PROVE  JournalInv'
<1> USE DEF usageVars, ledgerVars, recordVars, fenceVars
<1>0. JournalTypeOK /\ UsageTypeOK
  BY DEF JournalInv, JournalTypeOK
<1>1. /\ UNCHANGED <<blocks, reserved, claims, recordVars, fenceVars, captured>>
  BY DEF Refresh, Reset, RefreshUsage, ResetUsage, NextDay, AccountVerdict, ClaimMutation, FinishMutation
<1>2. Unresolved' = Unresolved
  BY <1>1 DEF Unresolved, IsUnresolved
<1>3. FenceQuiescent' /\ GenerationCurrent' /\ SuccessorFenced'
  BY <1>1, <1>2 DEF JournalInv, FenceQuiescent, GenerationCurrent, SuccessorFenced
<1>4. CASE Refresh
  <2>1. UsageTypeOK' /\ QuotaHonoured'
    BY <1>0, <1>4 DEF Refresh, RefreshUsage, UsageTypeOK, JournalInv, QuotaHonoured,
                      ReservedFits, Modes
  <2>2. JournalTypeOK'
    BY <1>0, <1>1, <1>4, <2>1 DEF Refresh, JournalTypeOK
  <2> QED BY <1>1, <1>3, <2>1, <2>2, FrameStep
<1>5. CASE Reset(m)
  <2>1. UsageTypeOK' /\ QuotaHonoured'
    BY <1>0, <1>5 DEF Reset, ResetUsage, UsageTypeOK, JournalInv, QuotaHonoured,
                      ReservedFits, Modes
  <2>2. JournalTypeOK'
    BY <1>0, <1>1, <1>5, <2>1 DEF Reset, JournalTypeOK
  <2> QED BY <1>1, <1>3, <2>1, <2>2, FrameStep
<1>6. CASE NextDay
  <2>1. UsageTypeOK' /\ QuotaHonoured'
    BY <1>0, <1>6 DEF NextDay, UsageTypeOK, JournalInv, QuotaHonoured
  <2>2. JournalTypeOK'
    BY <1>0, <1>1, <1>6, <2>1 DEF NextDay, JournalTypeOK
  <2> QED BY <1>1, <1>3, <2>1, <2>2, FrameStep
<1>7. CASE AccountVerdict(m) \/ ClaimMutation(m) \/ FinishMutation(m)
  <2>1. UsageTypeOK' /\ QuotaHonoured'
    BY <1>0, <1>7 DEF AccountVerdict, ClaimMutation, FinishMutation, UsageTypeOK, JournalInv, QuotaHonoured
  <2>2. account' \in [Modes -> [revision : Nat, blocked : BOOLEAN, mutation : BOOLEAN]]
    <3> DEFINE State == [revision : Nat, blocked : BOOLEAN, mutation : BOOLEAN]
    <3> SUFFICES account' \in [Modes -> State]
      OBVIOUS
    <3>1. account \in [Modes -> State]
      BY <1>0 DEF JournalTypeOK
    <3>2. CASE AccountVerdict(m)
      <4>1. PICK blocked \in BOOLEAN : account' = [account EXCEPT ![m].blocked = blocked]
        BY <3>2 DEF AccountVerdict
      <4>2. [account[m] EXCEPT !.blocked = blocked] \in State
        BY <3>1
      <4> HIDE DEF State
      <4> QED BY <3>1, <4>1, <4>2
    <3>3. CASE ClaimMutation(m) \/ FinishMutation(m)
      <4>1. PICK pending \in BOOLEAN :
              account' = [account EXCEPT ![m].mutation = pending, ![m].revision = @ + 1]
        <5>1. CASE ClaimMutation(m)
          BY <5>1, Zenon DEF ClaimMutation
        <5>2. CASE FinishMutation(m)
          BY <5>2, Zenon DEF FinishMutation
        <5> QED BY <3>3, <5>1, <5>2
      <4> DEFINE new == [account[m] EXCEPT !.mutation = pending, !.revision = @ + 1]
      <4>2. new \in State
        <5>1. account[m] \in State
          BY <3>1
        <5>2. [account[m] EXCEPT !.mutation = pending] \in State
          BY <5>1
        <5>3. new = [[account[m] EXCEPT !.mutation = pending] EXCEPT
                        !.revision = account[m].revision + 1]
          BY <5>1
        <5>4. account[m].revision + 1 \in Nat
          BY <5>1
        <5> QED BY <5>2, <5>3, <5>4
      <4>3. account' = [account EXCEPT ![m] = new]
        BY <3>1, <4>1
      <4> HIDE DEF State, new
      <4> QED BY <3>1, <4>2, <4>3
    <3> QED BY <1>7, <3>2, <3>3
  <2>3. JournalTypeOK'
    BY <1>0, <1>1, <2>1, <2>2 DEF JournalTypeOK
  <2> QED BY <1>1, <1>3, <2>1, <2>3, FrameStep
<1> QED BY <1>4, <1>5, <1>6, <1>7

-----------------------------------------------------------------------------
(* Preparing an execution *)

\* prepare() with a claim finds every block of both modes gone, hence nothing
\* unresolved and nothing reserved.
LEMMA NothingPending ==
    ASSUME JournalInv, NewExposureAllowed({})
    PROVE  /\ Unresolved = {}
           /\ \A k \in Modes : claims[k] = {} /\ reserved[k] = 0
<1>1. Unresolved = {}
  <2> SUFFICES ASSUME NEW e \in Unresolved PROVE FALSE
    OBVIOUS
  <2>1. rec[e].mode \in Modes
    BY DEF JournalInv, JournalTypeOK, Record, Unresolved
  <2>2. e \in blocks[rec[e].mode]
    BY <2>1 DEF JournalInv, BlocksExact
  <2> QED BY <2>1, <2>2 DEF NewExposureAllowed
<1>2. \A k \in Modes : Claimants(k) = {}
  BY <1>1 DEF Claimants
<1> QED BY <1>1, <1>2 DEF JournalInv, QuotaExact

\* prepare() adds one record with its claim, block and intent key; for a counted one
\* NothingPending says that it is alone.
LEMMA PrepareStep ==
    ASSUME JournalInv, NEW r \in Runtimes, NEW e \in Execs, NEW i \in Intents \cup {NoIntent},
           NEW n \in Notionals, NEW counted \in BOOLEAN, NEW seen,
           Prepare(r, e, i, n, counted, seen)
    PROVE  JournalInv'
<1> DEFINE m == ModeOf[r]
<1> DEFINE new == [NoRecord EXCEPT !.status = "prepared", !.gen = captured[r], !.mode = m,
                                   !.counted = counted, !.notional = n, !.intent = i]
<1>1. m \in Modes /\ n \in Nat
  OBVIOUS
<1>2. JournalTypeOK /\ UsageTypeOK
  BY DEF JournalInv, JournalTypeOK
<1>3. ~fence /\ captured[r] = generation /\ generation \in Nat
  BY <1>2 DEF Prepare, Admitted, JournalTypeOK
<1>4. /\ new.status = "prepared" /\ new.gen = generation /\ new.mode = m
      /\ new.counted = counted /\ new.notional = n /\ new.intent = i
      /\ new.outcome = "none" /\ new \in Record
  BY <1>1, <1>3 DEF NoRecord, Record, Pending, Resolved, Outcomes, Evidences
<1>5. rec' = [rec EXCEPT ![e] = new]
  BY DEF Prepare
<1>6. rec \in [Execs -> Record] /\ rec[e].status = "absent"
  BY <1>2 DEF JournalTypeOK, Prepare
<1> HIDE DEF new
<1>7. rec'[e] = new /\ \A f \in Execs \ {e} : rec'[f] = rec[f]
  BY <1>5, <1>6
<1>8. e \notin Unresolved /\ Unresolved' = Unresolved \cup {e}
  BY <1>4, <1>6, <1>7 DEF Unresolved, IsUnresolved, Pending
<1>9. blocks' = [blocks EXCEPT ![m] = @ \cup {e}]
  BY DEF Prepare
<1>10. JournalTypeOK'
  <2>1. rec' \in [Execs -> Record]
    BY <1>4, <1>5, <1>6
  <2>2. intentKeys' \in [Intents -> Execs \cup {NoExec}]
    BY <1>2 DEF JournalTypeOK, Prepare
  <2>3. account' \in [Modes -> [revision : Nat, blocked : BOOLEAN, mutation : BOOLEAN]]
    <3> DEFINE State == [revision : Nat, blocked : BOOLEAN, mutation : BOOLEAN]
    <3> SUFFICES account' \in [Modes -> State]
      OBVIOUS
    <3> DEFINE d == IF AccountLimits THEN 1 ELSE 0
    <3>1. account \in [Modes -> State]
      BY <1>2 DEF JournalTypeOK
    <3>2. account' = [account EXCEPT ![m].revision = @ + d]
      BY DEF Prepare
    <3>3. d \in Nat
      OBVIOUS
    <3>4. [account[m] EXCEPT !.revision = @ + d] \in State
      BY <1>1, <3>1, <3>3
    <3> HIDE DEF State, d
    <3> QED BY <1>1, <3>1, <3>2, <3>4
  <2>4. UsageTypeOK'
    <3>1. today' \in Nat /\ blocks' \in [Modes -> SUBSET Execs]
      BY <1>1, <1>2, <1>9 DEF UsageTypeOK, Prepare
    <3>2. CASE counted
      <4>1. ReserveClaim(m, e, n, e)
        BY <3>2 DEF Prepare
      <4>2. date' \in Nat /\ used' \in [Modes -> Nat] /\ reserved' \in [Modes -> Nat]
        BY <1>1, <1>2, <4>1 DEF ReserveClaim, WithinLimits, FreshUsed, UsageTypeOK
      <4>3. charged' \in [Modes -> SUBSET Execs] /\ overrun' \in [Modes -> Nat]
        BY <1>1, <1>2, <4>1 DEF ReserveClaim, WithinLimits, FreshCharged, FreshOverrun, UsageTypeOK
      <4>4. [id |-> e, notional |-> n, exec |-> e] \in Claim
        BY <1>1 DEF Claim
      <4>5. claims' \in [Modes -> SUBSET Claim]
        BY <1>1, <1>2, <4>1, <4>4 DEF ReserveClaim, WithinLimits, UsageTypeOK
      <4> QED BY <3>1, <4>2, <4>3, <4>5 DEF UsageTypeOK
    <3>3. CASE ~counted
      BY <1>2, <3>1, <3>3 DEF Prepare, UsageTypeOK, ledgerVars
    <3> QED BY <3>2, <3>3
  <2> QED BY <1>2, <2>1, <2>2, <2>3, <2>4 DEF JournalTypeOK, Prepare, fenceVars
<1>11. SettledExact'
  BY <1>4, <1>7 DEF JournalInv, SettledExact, IsResolved, Resolved
<1>12. Tombstones'
  <2> SUFFICES ASSUME NEW f \in Execs, rec'[f].intent # NoIntent
               PROVE  intentKeys'[rec'[f].intent] = f \/ rec'[f].outcome = "release"
    BY DEF Tombstones
  <2>1. rec'[f].intent \in Intents
    BY <1>10 DEF JournalTypeOK, Record
  <2>2. intentKeys \in [Intents -> Execs \cup {NoExec}]
    BY <1>2 DEF JournalTypeOK
  <2>3. CASE f = e
    BY <1>4, <1>7, <2>1, <2>2, <2>3 DEF Prepare
  <2>4. CASE f # e
    <3>1. rec'[f] = rec[f]
      BY <1>7, <2>4
    <3>2. intentKeys[rec[f].intent] = f \/ rec[f].outcome = "release"
      BY <3>1 DEF JournalInv, Tombstones
    <3>3. CASE rec[f].intent = i
      <4>1. i \in Intents /\ i # NoIntent
        BY <2>1, <3>1, <3>3
      <4>2. intentKeys[i] = f => rec[f].outcome = "release"
        BY <4>1 DEF Prepare, IntentFree
      <4> QED BY <3>1, <3>2, <3>3, <4>2
    <3>4. CASE rec[f].intent # i
      <4>1. intentKeys'[rec[f].intent] = intentKeys[rec[f].intent]
        BY <2>1, <2>2, <3>1, <3>4 DEF Prepare
      <4> QED BY <3>1, <3>2, <4>1
    <3> QED BY <3>3, <3>4
  <2> QED BY <2>3, <2>4
<1>13. BlocksExact'
  <2> SUFFICES ASSUME NEW k \in Modes
               PROVE  blocks'[k] = {f \in Unresolved' : rec'[f].mode = k}
    BY DEF BlocksExact
  <2>1. blocks[k] = {f \in Unresolved : rec[f].mode = k}
    BY DEF JournalInv, BlocksExact
  <2>2. \A f \in Unresolved : rec'[f] = rec[f]
    BY <1>7, <1>8 DEF Unresolved
  <2>3. blocks \in [Modes -> SUBSET Execs]
    BY <1>2 DEF UsageTypeOK
  <2>4. blocks'[k] = IF k = m THEN blocks[k] \cup {e} ELSE blocks[k]
    BY <1>1, <1>9, <2>3
  <2> QED BY <1>4, <1>7, <1>8, <2>1, <2>2, <2>4
<1>14. /\ QuotaExact' /\ EntryExclusive' /\ ReservedFits' /\ QuotaHonoured'
  <2>1. CASE counted
    <3>1. ReserveClaim(m, e, n, e)
      BY <2>1 DEF Prepare
    <3>2. /\ Unresolved = {}
          /\ \A k \in Modes : claims[k] = {} /\ reserved[k] = 0
      BY <3>1, NothingPending DEF ReserveClaim, WithinLimits
    <3>3. Unresolved' = {e}
      BY <1>8, <3>2
    <3>4. \A k \in Modes : Claimants(k)' = IF k = m THEN {e} ELSE {}
      BY <1>4, <1>7, <2>1, <3>3 DEF Claimants
    <3>5. ClaimOf(e)' = [id |-> e, notional |-> n, exec |-> e]
      BY <1>4, <1>7 DEF ClaimOf
    <3>6. \A k \in Modes : /\ claims'[k] = IF k = m THEN {ClaimOf(e)'} ELSE {}
                           /\ reserved'[k] = IF k = m THEN n ELSE 0
      <4>1. \A k \in Modes : reserved'[k] = IF k = m THEN n ELSE 0
        BY <1>1, <1>2, <3>1, <3>2 DEF ReserveClaim, WithinLimits, UsageTypeOK
      <4>2. claims' = [claims EXCEPT ![m] = claims[m] \cup {ClaimOf(e)'}]
        BY <3>1, <3>5 DEF ReserveClaim, WithinLimits
      <4>3. claims \in [Modes -> SUBSET Claim]
        BY <1>2 DEF UsageTypeOK
      <4> HIDE DEF m
      <4>4. \A k \in Modes : claims'[k] = IF k = m THEN {ClaimOf(e)'} ELSE {}
        BY <1>1, <3>2, <4>2, <4>3
      <4> QED BY <4>1, <4>4
    <3>7. QuotaExact'
      BY <1>4, <1>7, <3>4, <3>6 DEF QuotaExact
    <3>8. EntryExclusive'
      BY <3>3 DEF EntryExclusive
    <3>9. FreshUsed(m) + n <= MaxDaily
      BY <1>1, <1>2, <3>1, <3>2 DEF ReserveClaim, WithinLimits, FreshUsed, UsageTypeOK
    <3>10. ReservedFits'
      BY <1>1, <1>2, <3>6, <3>9 DEF ReservedFits, FreshUsed, UsageTypeOK
    <3>11. QuotaHonoured'
      <4> SUFFICES ASSUME NEW k \in Modes
                   PROVE  used'[k] + reserved'[k] <= MaxDaily + overrun'[k]
        BY DEF QuotaHonoured
      <4>1. CASE k = m
        BY <1>1, <1>2, <3>1, <3>6, <3>9, <4>1
           DEF ReserveClaim, WithinLimits, FreshUsed, FreshOverrun, UsageTypeOK
      <4>2. CASE k # m
        <5>1. used'[k] = used[k] /\ overrun'[k] = overrun[k] /\ reserved'[k] = reserved[k]
          BY <1>1, <1>2, <3>1, <3>2, <3>6, <4>2 DEF ReserveClaim, WithinLimits, UsageTypeOK
        <5> QED BY <5>1 DEF JournalInv, QuotaHonoured
      <4> QED BY <4>1, <4>2
    <3> QED BY <3>7, <3>8, <3>10, <3>11
  <2>2. CASE ~counted
    <3>1. UNCHANGED <<used, reserved, claims, overrun>>
      BY <2>2 DEF Prepare, ledgerVars
    <3>2. \A f \in Unresolved : rec'[f] = rec[f] /\ ClaimOf(f)' = ClaimOf(f)
      BY <1>7, <1>8 DEF Unresolved, ClaimOf
    <3>3. ~rec'[e].counted
      BY <1>4, <1>7, <2>2
    <3>4. \A k \in Modes : Claimants(k)' = Claimants(k)
      BY <1>8, <3>2, <3>3 DEF Claimants
    <3>5. QuotaExact'
      <4> SUFFICES ASSUME NEW k \in Modes
                   PROVE  /\ claims'[k] = {ClaimOf(f)' : f \in Claimants(k)'}
                          /\ \A f \in Claimants(k)' : reserved'[k] = rec'[f].notional
                          /\ Claimants(k)' = {} => reserved'[k] = 0
        BY DEF QuotaExact
      <4>1. Claimants(k) \subseteq Unresolved
        BY DEF Claimants
      <4>2. {ClaimOf(f)' : f \in Claimants(k)'} = {ClaimOf(f) : f \in Claimants(k)}
        BY <3>2, <3>4, <4>1
      <4> QED BY <3>1, <3>2, <3>4, <4>1, <4>2 DEF JournalInv, QuotaExact
    <3>6. EntryExclusive'
      BY <1>8, <3>2, <3>3 DEF JournalInv, EntryExclusive
    <3> QED BY <3>1, <3>5, <3>6 DEF JournalInv, ReservedFits, QuotaHonoured
  <2> QED BY <2>1, <2>2
<1>15. FenceQuiescent'
  BY <1>3 DEF FenceQuiescent, Prepare, fenceVars
<1>16. GenerationCurrent'
  BY <1>4, <1>7, <1>8 DEF JournalInv, GenerationCurrent, Unresolved, Prepare, fenceVars
<1>17. SuccessorFenced'
  BY DEF JournalInv, SuccessorFenced, Prepare, fenceVars
<1> QED BY <1>10, <1>11, <1>12, <1>13, <1>14, <1>15, <1>16, <1>17 DEF JournalInv

-----------------------------------------------------------------------------
(* Settling an execution *)

\* settle() writes a well-formed record.
LEMMA SettledType ==
    ASSUME NEW x \in Record, NEW outcome \in Outcomes, NEW n \in Nat,
           NEW status \in Resolved, NEW evidence \in Evidences
    PROVE  Settled(x, outcome, n, status, evidence) \in Record
<1> DEFINE charge == IF outcome = "commit" THEN n ELSE 0
<1> DEFINE revision == x.revision + 1
<1>1. charge \in Nat /\ revision \in Nat
  BY DEF Record
<1>2. Settled(x, outcome, n, status, evidence)
        = [x EXCEPT !.status = status, !.revision = revision, !.evidence = evidence,
                    !.issue = "none", !.outcome = outcome, !.charge = charge]
  BY DEF Settled
<1> HIDE DEF charge, revision
<1> DEFINE y == [x EXCEPT !.status = status, !.revision = revision, !.evidence = evidence,
                          !.issue = "none", !.outcome = outcome, !.charge = charge]
<1>3. y \in Record
  BY <1>1 DEF Record
<1> QED BY <1>2, <1>3, Zenon

\* settle() removes claim, block and record from the unresolved side in one commit.
LEMMA SettleStep ==
    ASSUME JournalInv, NEW e \in Execs, NEW outcome \in Outcomes, NEW n \in Charges,
           NEW status \in Resolved, NEW evidence \in Evidences,
           Settle(e, outcome, n, status, evidence)
    PROVE  JournalInv'
<1> DEFINE m == rec[e].mode
<1> DEFINE new == Settled(rec[e], outcome, n, status, evidence)
<1>1. JournalTypeOK /\ UsageTypeOK
  BY DEF JournalInv, JournalTypeOK
<1>2. rec \in [Execs -> Record] /\ rec[e] \in Record /\ n \in Nat
  BY <1>1 DEF JournalTypeOK
<1>3. m \in Modes /\ rec[e].counted \in BOOLEAN /\ rec[e].notional \in Nat
  BY <1>2 DEF Record
<1>4. /\ new.status = status /\ new.gen = rec[e].gen /\ new.mode = m
      /\ new.counted = rec[e].counted /\ new.notional = rec[e].notional
      /\ new.intent = rec[e].intent /\ new.outcome = outcome
  BY <1>2 DEF Record, Settled
<1>5. new \in Record
  BY <1>2, SettledType
<1>6. rec' = [rec EXCEPT ![e] = new]
  BY DEF Settle
<1>7. rec[e].status \in Pending
  BY DEF Settle, Settleable, IsUnresolved
<1> HIDE DEF new, m
<1>8. rec'[e] = new /\ \A f \in Execs \ {e} : rec'[f] = rec[f]
  BY <1>2, <1>6
<1>9. e \in Unresolved /\ Unresolved' = Unresolved \ {e}
  BY <1>4, <1>7, <1>8 DEF Unresolved, IsUnresolved, Pending, Resolved
<1>10. blocks' = [blocks EXCEPT ![m] = @ \ {e}]
  BY DEF Settle, m
<1>11. rec[e].counted => ReconcileClaim(m, ClaimOf(e), outcome, n, e)
  BY DEF Settle, m
<1>12. ~rec[e].counted => UNCHANGED ledgerVars
  BY DEF Settle
<1>13. JournalTypeOK'
  <2>1. rec' \in [Execs -> Record]
    BY <1>2, <1>5, <1>6
  <2>2. closed' \in Seq(Execs)
    BY <1>1, TrimType, AppendProperties DEF JournalTypeOK, Settle
  <2>3. UsageTypeOK'
    <3>1. today' \in Nat /\ blocks' \in [Modes -> SUBSET Execs]
      <4>1. today' = today
        BY DEF Settle
      <4> QED BY <1>1, <1>3, <1>10, <4>1 DEF UsageTypeOK
    <3>2. CASE rec[e].counted
      <4>1. /\ ReconcileClaim(m, ClaimOf(e), outcome, n, e)
            /\ ClaimOf(e).notional = rec[e].notional /\ ClaimOf(e).id = e
        BY <1>11, <3>2 DEF ClaimOf
      <4>2. date' \in Nat /\ used' \in [Modes -> Nat]
        BY <1>1, <1>2, <4>1 DEF ReconcileClaim, FreshUsed, UsageTypeOK
      <4>3. reserved' \in [Modes -> Nat]
        BY <1>1, <1>3, <4>1 DEF ReconcileClaim, UsageTypeOK
      <4>4. charged' \in [Modes -> SUBSET Execs]
        BY <1>1, <4>1 DEF ReconcileClaim, FreshCharged, UsageTypeOK
      <4>5. overrun' \in [Modes -> Nat]
        BY <1>1, <1>2, <1>3, <4>1 DEF ReconcileClaim, FreshOverrun, UsageTypeOK
      <4>6. claims' \in [Modes -> SUBSET Claim]
        BY <1>1, <1>3, <4>1 DEF ReconcileClaim, UsageTypeOK
      <4> QED BY <3>1, <4>2, <4>3, <4>4, <4>5, <4>6 DEF UsageTypeOK
    <3>3. CASE ~rec[e].counted
      BY <1>1, <1>12, <3>1, <3>3 DEF UsageTypeOK, ledgerVars
    <3> QED BY <3>2, <3>3
  <2> QED BY <1>1, <2>1, <2>2, <2>3 DEF JournalTypeOK, Settle, fenceVars
<1>14. SettledExact'
  BY <1>4, <1>8 DEF JournalInv, SettledExact, IsResolved, Outcomes
<1>15. Tombstones'
  <2>1. rec[e].outcome = "none"
    BY <1>7 DEF JournalInv, SettledExact, IsResolved, Pending, Resolved
  <2>2. intentKeys' = intentKeys
    BY DEF Settle
  <2> QED BY <1>4, <1>8, <2>1, <2>2 DEF JournalInv, Tombstones
<1>16. \A f \in Unresolved' : f \in Unresolved /\ f # e /\ rec'[f] = rec[f]
                              /\ ClaimOf(f)' = ClaimOf(f)
  BY <1>8, <1>9 DEF Unresolved, ClaimOf
<1>17. BlocksExact'
  <2> SUFFICES ASSUME NEW k \in Modes
               PROVE  blocks'[k] = {f \in Unresolved' : rec'[f].mode = k}
    BY DEF BlocksExact
  <2>1. blocks[k] = {f \in Unresolved : rec[f].mode = k}
    BY DEF JournalInv, BlocksExact
  <2>2. blocks \in [Modes -> SUBSET Execs]
    BY <1>1 DEF UsageTypeOK
  <2>3. blocks'[k] = IF k = m THEN blocks[k] \ {e} ELSE blocks[k]
    BY <1>3, <1>10, <2>2
  <2>4. k # m => e \notin blocks[k]
    BY <2>1 DEF m
  <2> QED BY <1>9, <1>16, <2>1, <2>3, <2>4
<1>18. EntryExclusive'
  BY <1>16 DEF JournalInv, EntryExclusive
<1>19. QuotaExact' /\ ReservedFits' /\ QuotaHonoured'
  <2>1. CASE rec[e].counted
    <3>1. /\ ReconcileClaim(m, ClaimOf(e), outcome, n, e)
          /\ ClaimOf(e).notional = rec[e].notional
      BY <1>11, <2>1 DEF ClaimOf
    <3>2. \A k \in Modes : Claimants(k) = IF k = m THEN {e} ELSE {}
      \* the settled execution held the only claim
      BY <1>9, <2>1 DEF JournalInv, EntryExclusive, Claimants, m
    <3>3. \A k \in Modes : Claimants(k)' = {}
      BY <1>16, <3>2 DEF Claimants
    <3>4. \A k \in Modes : /\ claims[k] = IF k = m THEN {ClaimOf(e)} ELSE {}
                           /\ reserved[k] = IF k = m THEN rec[e].notional ELSE 0
      <4> SUFFICES ASSUME NEW k \in Modes
                   PROVE  /\ claims[k] = IF k = m THEN {ClaimOf(e)} ELSE {}
                          /\ reserved[k] = IF k = m THEN rec[e].notional ELSE 0
        OBVIOUS
      <4>1. /\ claims[k] = {ClaimOf(f) : f \in Claimants(k)}
            /\ \A f \in Claimants(k) : reserved[k] = rec[f].notional
            /\ Claimants(k) = {} => reserved[k] = 0
        BY DEF JournalInv, QuotaExact
      <4>2. CASE k = m
        BY <3>2, <4>1, <4>2
      <4>3. CASE k # m
        BY <3>2, <4>1, <4>3
      <4> QED BY <4>2, <4>3
    <3>5. \A k \in Modes : claims'[k] = {}
      BY <1>1, <1>3, <3>1, <3>4 DEF ReconcileClaim, UsageTypeOK
    <3>6. \A k \in Modes : reserved'[k] = 0
      BY <1>1, <1>3, <3>1, <3>4 DEF ReconcileClaim, UsageTypeOK
    <3>7. QuotaExact'
      BY <3>3, <3>5, <3>6 DEF QuotaExact
    <3>8. QuotaHonoured'
      <4> SUFFICES ASSUME NEW k \in Modes
                   PROVE  used'[k] + reserved'[k] <= MaxDaily + overrun'[k]
        BY DEF QuotaHonoured
      <4>1. FreshUsed(k) + reserved[k] <= MaxDaily + FreshOverrun(k)
        BY <1>1 DEF JournalInv, QuotaHonoured, ReservedFits, FreshUsed, FreshOverrun, UsageTypeOK
      <4>2. FreshUsed(k) \in Nat /\ FreshOverrun(k) \in Nat
        BY <1>1 DEF FreshUsed, FreshOverrun, UsageTypeOK
      <4>3. used'[k] = FreshUsed(k) + (IF k = m /\ outcome = "commit" THEN n ELSE 0)
        BY <3>1 DEF ReconcileClaim
      <4>4. overrun'[k] = FreshOverrun(k)
               + (IF k = m /\ outcome = "commit" /\ n > rec[e].notional
                  THEN n - rec[e].notional ELSE 0)
        BY <3>1 DEF ReconcileClaim
      <4> HIDE DEF FreshUsed, FreshOverrun
      <4> QED BY <1>2, <1>3, <3>4, <3>6, <4>1, <4>2, <4>3, <4>4
    <3> QED BY <3>6, <3>7, <3>8 DEF ReservedFits
  <2>2. CASE ~rec[e].counted
    <3>1. UNCHANGED <<used, reserved, claims, overrun>>
      BY <1>12, <2>2 DEF ledgerVars
    <3>2. \A k \in Modes : Claimants(k)' = Claimants(k)
      BY <1>9, <1>16, <2>2 DEF Claimants
    <3>3. QuotaExact'
      <4> SUFFICES ASSUME NEW k \in Modes
                   PROVE  /\ claims'[k] = {ClaimOf(f)' : f \in Claimants(k)'}
                          /\ \A f \in Claimants(k)' : reserved'[k] = rec'[f].notional
                          /\ Claimants(k)' = {} => reserved'[k] = 0
        BY DEF QuotaExact
      <4>1. Claimants(k)' \subseteq Unresolved'
        BY DEF Claimants
      <4>2. {ClaimOf(f)' : f \in Claimants(k)'} = {ClaimOf(f) : f \in Claimants(k)}
        BY <1>16, <3>2, <4>1
      <4> QED BY <1>16, <3>1, <3>2, <4>1, <4>2 DEF JournalInv, QuotaExact
    <3> QED BY <3>1, <3>3 DEF JournalInv, ReservedFits, QuotaHonoured
  <2> QED BY <1>3, <2>1, <2>2
<1>20. FenceQuiescent'
  \* something was unresolved, so the fence is down
  BY <1>9 DEF JournalInv, FenceQuiescent, Settle, fenceVars
<1>21. GenerationCurrent'
  BY <1>16 DEF JournalInv, GenerationCurrent, Settle, fenceVars
<1>22. SuccessorFenced'
  BY DEF JournalInv, SuccessorFenced, Settle, fenceVars
<1> QED BY <1>13, <1>14, <1>15, <1>17, <1>18, <1>19, <1>20, <1>21, <1>22 DEF JournalInv

-----------------------------------------------------------------------------
(* The theorems *)

\* Every call of the journal preserves the invariant.
LEMMA JournalStep == JournalInv /\ [JournalNext]_journalVars => JournalInv'
<1> SUFFICES ASSUME JournalInv, [JournalNext]_journalVars PROVE JournalInv'
  OBVIOUS
<1>1. ASSUME NEW r \in Runtimes,
             \/ Open(r) \/ Halt(r)
             \/ \E s \in Runtimes : Install(r, s)
      PROVE  JournalInv'
  BY <1>1, InstanceStep
<1>2. ASSUME NEW r \in Runtimes,
             \/ BeginMaintenance(r) \/ CancelMaintenance(r)
             \/ \E byOperator \in BOOLEAN : CompleteMaintenance(r, byOperator)
      PROVE  JournalInv'
  BY <1>2, MaintenanceStep
<1>3. ASSUME NEW r \in Runtimes,
             \E e \in Execs : Begin(r, e, account[ModeOf[r]].revision)
      PROVE  JournalInv'
  BY <1>3, BeginStep
<1>4. ASSUME NEW r \in Runtimes, NEW e \in Execs, NEW i \in Intents \cup {NoIntent},
             NEW n \in Notionals, NEW counted \in BOOLEAN,
             Prepare(r, e, i, n, counted, account[ModeOf[r]].revision)
      PROVE  JournalInv'
  BY <1>4, PrepareStep
<1>5. ASSUME NEW e \in Execs,
             Unknown(e) \/ ClaimAttempt(e) \/ ExhaustAttempts(e) \/ UpdateEvidence(e)
      PROVE  JournalInv'
  BY <1>5, UnknownStep, AttemptStep, UpdateEvidenceStep
<1>6. ASSUME NEW e \in Execs, NEW s \in Settlements, NEW n \in Charges,
             Settle(e, s[1], n, s[2], s[3])
      PROVE  JournalInv'
  <2>1. s[1] \in Outcomes /\ s[2] \in Resolved /\ s[3] \in Evidences
    OBVIOUS
  <2> QED BY <1>6, <2>1, SettleStep
<1>7. ASSUME NEW m \in Modes,
             Refresh \/ NextDay \/ Reset(m) \/ AccountVerdict(m) \/ ClaimMutation(m) \/ FinishMutation(m)
      PROVE  JournalInv'
  BY <1>7, EnvironmentStep
<1>8. CASE UNCHANGED journalVars
  <2> USE <1>8 DEF journalVars, usageVars, ledgerVars, recordVars, fenceVars
  <2>1. SameView
    BY DEF SameView
  <2>2. rec' \in [Execs -> Record]
    BY DEF JournalInv, JournalTypeOK
  <2> QED BY <2>1, <2>2, TouchStep
<1>9. "live" \in Modes /\ \A r \in Runtimes : ModeOf[r] \in Modes
  BY JournalAssumption DEF Modes
<1> QED BY <1>1, <1>2, <1>3, <1>4, <1>5, <1>6, <1>7, <1>8, <1>9 DEF JournalNext

\* The journal's state always has the shape and the cross-references that
\* validateExecutionRiskState demands, for any calls by any number of processes.
THEOREM JournalInvariant == JournalSpec => []JournalInv
BY JournalInitInv, JournalStep, PTL DEF JournalSpec

\* The journal's state is well typed: no call leaves the store in a shape that
\* isExecutionJournalState would refuse.
THEOREM JournalTypeCorrect == JournalSpec => []JournalTypeOK
<1>1. JournalInv => JournalTypeOK
  BY DEF JournalInv
<1> QED BY <1>1, JournalInvariant, PTL

\* prepare() and settle() keep at most one entry unresolved over both modes.
THEOREM EntryIsExclusive == JournalSpec => []EntryExclusive
<1>1. JournalInv => EntryExclusive
  BY DEF JournalInv
<1> QED BY <1>1, JournalInvariant, PTL

\* The claims and the reserved totals of risk.ts follow the unresolved executions.
THEOREM QuotaFollowsExecutions == JournalSpec => []QuotaExact
<1>1. JournalInv => QuotaExact
  BY DEF JournalInv
<1> QED BY <1>1, JournalInvariant, PTL

\* The entry blocks that prepare() and settle() write follow the unresolved executions.
THEOREM BlocksFollowExecutions == JournalSpec => []BlocksExact
<1>1. JournalInv => BlocksExact
  BY DEF JournalInv
<1> QED BY <1>1, JournalInvariant, PTL

\* reserve() and reconcileReservation() respect the daily cap up to slippage.
THEOREM DailyCapHolds == JournalSpec => []QuotaHonoured
<1>1. JournalInv => QuotaHonoured
  BY DEF JournalInv
<1> QED BY <1>1, JournalInvariant, PTL

\* Between beginMaintenance() and completeMaintenance() nothing is pending or reserved.
THEOREM FenceIsQuiescent == JournalSpec => []FenceQuiescent
<1>1. JournalInv => FenceQuiescent
  BY DEF JournalInv
<1> QED BY <1>1, JournalInvariant, PTL

\* completeMaintenance() leaves no unresolved execution of an older generation.
THEOREM GenerationsAreCurrent == JournalSpec => []GenerationCurrent
<1>1. JournalInv => GenerationCurrent
  BY DEF JournalInv
<1> QED BY <1>1, JournalInvariant, PTL

\* A runtime ahead of the stored generation is the one the fence installs.
THEOREM SuccessorsAreFenced == JournalSpec => []SuccessorFenced
<1>1. JournalInv => SuccessorFenced
  BY DEF JournalInv
<1> QED BY <1>1, JournalInvariant, PTL

\* The tombstones of prepare() make a stable intent trade at most once.
THEOREM IntentTradesOnce == JournalSpec => []IntentOnce
<1>1. JournalInv => IntentOnce
  BY DEF JournalInv, Tombstones, IntentOnce
<1> QED BY <1>1, JournalInvariant, PTL

-----------------------------------------------------------------------------
(* Settlements, and the sum of what they charged *)

\* No call touches the settlement of a resolved record, or whether it was counted.
LEMMA SettledKept ==
    ASSUME JournalTypeOK, [JournalNext]_journalVars, NEW e \in Execs, IsResolved(e)
    PROVE  /\ rec'[e].status \in Resolved
           /\ rec'[e].outcome = rec[e].outcome
           /\ rec'[e].charge = rec[e].charge
           /\ rec'[e].counted = rec[e].counted
<1>0. rec \in [Execs -> Record] /\ rec[e].status \notin Pending \cup {"absent"} /\ rec[e].status \in Resolved
  BY DEF JournalTypeOK, Pending, Resolved, IsResolved
<1>1. CASE rec' = rec
  BY <1>0, <1>1
<1>2. ASSUME NEW r \in Runtimes, NEW f \in Execs, Begin(r, f, account[ModeOf[r]].revision)
      PROVE  rec'[e] = rec[e]
  BY <1>0, <1>2 DEF Begin, Pending
<1>3. ASSUME NEW r \in Runtimes, NEW f \in Execs, NEW i \in Intents \cup {NoIntent},
             NEW n \in Notionals, NEW counted \in BOOLEAN,
             Prepare(r, f, i, n, counted, account[ModeOf[r]].revision)
      PROVE  rec'[e] = rec[e]
  BY <1>0, <1>3 DEF Prepare
<1>4. ASSUME NEW f \in Execs, Unknown(f) \/ ClaimAttempt(f) \/ ExhaustAttempts(f)
      PROVE  rec'[e] = rec[e]
  BY <1>0, <1>4 DEF Unknown, ClaimAttempt, ExhaustAttempts, IsUnresolved
<1>5. ASSUME NEW f \in Execs, UpdateEvidence(f)
      PROVE  /\ rec'[e].status \in Resolved
             /\ rec'[e].outcome = rec[e].outcome
             /\ rec'[e].charge = rec[e].charge
             /\ rec'[e].counted = rec[e].counted
  BY <1>0, <1>5 DEF UpdateEvidence, Resolved, Record
<1>6. ASSUME NEW f \in Execs, NEW s \in Settlements, NEW n \in Charges,
             Settle(f, s[1], n, s[2], s[3])
      PROVE  rec'[e] = rec[e]
  BY <1>0, <1>6 DEF Settle, Settleable, IsUnresolved
<1>7. ASSUME \/ \E r \in Runtimes : \/ Open(r) \/ Halt(r)
                                    \/ BeginMaintenance(r) \/ CancelMaintenance(r)
                                    \/ \E s \in Runtimes : Install(r, s)
                                    \/ \E b \in BOOLEAN : CompleteMaintenance(r, b)
             \/ Refresh \/ NextDay
             \/ \E m \in {ModeOf[r] : r \in Runtimes} :
                   Reset(m) \/ AccountVerdict(m) \/ ClaimMutation(m) \/ FinishMutation(m)
      PROVE  rec' = rec
  BY <1>7 DEF Open, Halt, Install, BeginMaintenance, CancelMaintenance, CompleteMaintenance,
              Refresh, NextDay, Reset, AccountVerdict, ClaimMutation, FinishMutation, recordVars
<1>8. CASE UNCHANGED journalVars
  BY <1>1, <1>8 DEF journalVars, recordVars
<1> QED BY <1>0, <1>1, <1>2, <1>3, <1>4, <1>5, <1>6, <1>7, <1>8 DEF JournalNext

\* settle() is final: no later call changes a settlement.
THEOREM SettlementsAreFinal == JournalSpec => SettlementFinal
<1> DEFINE A == \A e \in Execs : IsResolved(e) =>
                  /\ rec'[e].status \in Resolved
                  /\ rec'[e].outcome = rec[e].outcome
                  /\ rec'[e].charge = rec[e].charge
<1>1. JournalTypeOK /\ [JournalNext]_journalVars => [A]_journalVars
  BY SettledKept
<1> QED BY <1>1, JournalTypeCorrect, PTL DEF JournalSpec, SettlementFinal

\* What a call does to usage: nothing, a restart at zero, or one commit.
LEMMA UsageMoves ==
    ASSUME JournalInv, [JournalNext]_journalVars, NEW m \in Modes
    PROVE  \/ used'[m] = used[m] /\ charged'[m] = charged[m]
           \/ used'[m] = 0 /\ charged'[m] = {}
           \/ \E e \in Execs, n \in Nat :
                 /\ ~IsResolved(e)
                 /\ rec'[e].outcome = "commit" /\ rec'[e].counted /\ rec'[e].charge = n
                 /\ used'[m] = FreshUsed(m) + n
                 /\ charged'[m] = FreshCharged(m) \cup {e}
<1>0. /\ rec \in [Execs -> Record] /\ used \in [Modes -> Nat] /\ charged \in [Modes -> SUBSET Execs]
      /\ FreshUsed(m) \in Nat
      /\ \/ FreshUsed(m) = used[m] /\ FreshCharged(m) = charged[m]
         \/ FreshUsed(m) = 0 /\ FreshCharged(m) = {}
  <2>1. /\ rec \in [Execs -> Record] /\ used \in [Modes -> Nat] /\ charged \in [Modes -> SUBSET Execs]
        /\ used[m] \in Nat
    BY DEF JournalInv, JournalTypeOK, UsageTypeOK
  <2>2. CASE Rolled(m)
    BY <2>1, <2>2 DEF FreshUsed, FreshCharged
  <2>3. CASE ~Rolled(m)
    BY <2>1, <2>3 DEF FreshUsed, FreshCharged
  <2> QED BY <2>2, <2>3
<1>1. CASE UNCHANGED ledgerVars
  BY <1>1 DEF ledgerVars
<1>2. ASSUME NEW r \in Runtimes, NEW f \in Execs, NEW i \in Intents \cup {NoIntent},
             NEW n \in Notionals, NEW counted \in BOOLEAN,
             Prepare(r, f, i, n, counted, account[ModeOf[r]].revision)
      PROVE  \/ used'[m] = used[m] /\ charged'[m] = charged[m]
             \/ used'[m] = 0 /\ charged'[m] = {}
  <2>1. \/ UNCHANGED ledgerVars
        \/ \E k \in Modes : /\ used' = [used EXCEPT ![k] = FreshUsed(k)]
                            /\ charged' = [charged EXCEPT ![k] = FreshCharged(k)]
    BY <1>2 DEF Prepare, ReserveClaim
  <2> QED BY <1>0, <1>1, <2>1 DEF FreshUsed, FreshCharged, ledgerVars
<1>3. ASSUME NEW f \in Execs, NEW s \in Settlements, NEW n \in Charges,
             Settle(f, s[1], n, s[2], s[3])
      PROVE  \/ used'[m] = used[m] /\ charged'[m] = charged[m]
             \/ used'[m] = 0 /\ charged'[m] = {}
             \/ \E e \in Execs, x \in Nat :
                   /\ ~IsResolved(e)
                   /\ rec'[e].outcome = "commit" /\ rec'[e].counted /\ rec'[e].charge = x
                   /\ used'[m] = FreshUsed(m) + x
                   /\ charged'[m] = FreshCharged(m) \cup {e}
  <2>1. CASE ~rec[f].counted
    BY <1>1, <1>3, <2>1 DEF Settle, ledgerVars
  <2>2. CASE rec[f].counted
    <3>1. /\ used' = [k \in Modes |-> FreshUsed(k) + (IF k = rec[f].mode /\ s[1] = "commit" THEN n ELSE 0)]
          /\ charged' = [k \in Modes |->
                FreshCharged(k) \cup (IF k = rec[f].mode /\ s[1] = "commit" THEN {f} ELSE {})]
      BY <1>3, <2>2 DEF Settle, ReconcileClaim, ClaimOf
    <3>2. CASE m = rec[f].mode /\ s[1] = "commit"
      <4>1. used'[m] = FreshUsed(m) + n /\ charged'[m] = FreshCharged(m) \cup {f}
        BY <3>1, <3>2
      <4>2. ~IsResolved(f)
        BY <1>3 DEF Settle, Settleable, IsUnresolved, IsResolved, Pending, Resolved
      <4>3. rec'[f] = Settled(rec[f], s[1], n, s[2], s[3])
        BY <1>0, <1>3 DEF Settle
      <4>4. rec'[f].outcome = "commit" /\ rec'[f].counted /\ rec'[f].charge = n
        BY <1>0, <2>2, <3>2, <4>3 DEF Settled, Record
      <4>5. n \in Nat
        OBVIOUS
      <4> QED BY <4>1, <4>2, <4>4, <4>5
    <3>3. CASE ~(m = rec[f].mode /\ s[1] = "commit")
      <4>1. used'[m] = FreshUsed(m) + 0 /\ charged'[m] = FreshCharged(m) \cup {}
        BY <3>1, <3>3
      <4> QED BY <1>0, <4>1
    <3> QED BY <3>2, <3>3
  <2> QED BY <2>1, <2>2
<1>4. ASSUME NEW k \in Modes, Refresh \/ Reset(k)
      PROVE  \/ used'[m] = used[m] /\ charged'[m] = charged[m]
             \/ used'[m] = 0 /\ charged'[m] = {}
  <2>1. \E x \in Modes : used' = [used EXCEPT ![x] = 0] /\ charged' = [charged EXCEPT ![x] = {}]
    BY <1>4 DEF Refresh, RefreshUsage, Reset, ResetUsage, Modes
  <2> QED BY <1>0, <2>1
<1>5. ASSUME \/ \E r \in Runtimes : \/ Open(r) \/ Halt(r)
                                    \/ BeginMaintenance(r) \/ CancelMaintenance(r)
                                    \/ \E s \in Runtimes : Install(r, s)
                                    \/ \E b \in BOOLEAN : CompleteMaintenance(r, b)
                                    \/ \E e \in Execs : Begin(r, e, account[ModeOf[r]].revision)
             \/ \E e \in Execs : Unknown(e) \/ ClaimAttempt(e) \/ ExhaustAttempts(e) \/ UpdateEvidence(e)
             \/ NextDay
             \/ \E k \in {ModeOf[r] : r \in Runtimes} :
                   AccountVerdict(k) \/ ClaimMutation(k) \/ FinishMutation(k)
             \/ UNCHANGED journalVars
      PROVE  UNCHANGED ledgerVars
  BY <1>5 DEF Open, Halt, Install, BeginMaintenance, CancelMaintenance, CompleteMaintenance, Begin,
              Unknown, ClaimAttempt, ExhaustAttempts, UpdateEvidence,
              NextDay, AccountVerdict, ClaimMutation, FinishMutation, usageVars, ledgerVars, journalVars
<1>6. "live" \in Modes /\ \A r \in Runtimes : ModeOf[r] \in Modes
  BY DEF Modes
<1> QED BY <1>1, <1>2, <1>3, <1>4, <1>5, <1>6 DEF JournalNext

\* The counters stay the sum of the settlements they are charged with.
LEMMA UsedStep == UsedInv /\ [JournalNext]_journalVars => UsedInv'
<1> SUFFICES ASSUME UsedInv, [JournalNext]_journalVars PROVE UsedInv'
  OBVIOUS
<1>1. JournalInv' /\ JournalTypeOK
  BY JournalStep DEF UsedInv, JournalInv
<1> DEFINE charge == [e \in Execs |-> rec[e].charge]
           later == [e \in Execs |-> rec'[e].charge]
<1>2. ASSUME NEW m \in Modes
      PROVE  /\ IsFiniteSet(charged'[m])
             /\ \A e \in charged'[m] : rec'[e].outcome = "commit" /\ rec'[e].counted
             /\ used'[m] = SumFunctionOnSet(later, charged'[m])
  <2> DEFINE S == charged[m]
  <2>1. /\ S \subseteq Execs /\ IsFiniteSet(S) /\ used[m] = SumFunctionOnSet(charge, S)
        /\ \A e \in S : rec[e].outcome = "commit" /\ rec[e].counted
    BY DEF UsedInv, UsedExact, ChargedFinite, JournalInv, JournalTypeOK, UsageTypeOK
  <2>2. \A e \in S : IsResolved(e)
    BY <2>1 DEF UsedInv, JournalInv, SettledExact
  <2>3. \A e \in S : /\ rec'[e].outcome = "commit" /\ rec'[e].counted
                     /\ rec'[e].charge = rec[e].charge
    BY <1>1, <2>1, <2>2, SettledKept
  <2>4. \A e \in Execs : later[e] \in Int
    BY <1>1 DEF JournalInv, JournalTypeOK, Record
  <2>5. used[m] = SumFunctionOnSet(later, S)
    <3>1. \A e \in S : charge[e] = later[e]
      BY <2>1, <2>3
    <3> HIDE DEF charge, later, S
    <3> QED BY <2>1, <3>1, SumSame
  <2>6. CASE used'[m] = used[m] /\ charged'[m] = charged[m]
    BY <2>1, <2>3, <2>5, <2>6
  <2>7. CASE used'[m] = 0 /\ charged'[m] = {}
    BY <2>7, FS_EmptySet, SumEmpty
  <2>8. ASSUME NEW e \in Execs, NEW n \in Nat, ~IsResolved(e),
               rec'[e].outcome = "commit" /\ rec'[e].counted /\ rec'[e].charge = n,
               used'[m] = FreshUsed(m) + n,
               charged'[m] = FreshCharged(m) \cup {e}
        PROVE  /\ IsFiniteSet(charged'[m])
               /\ \A f \in charged'[m] : rec'[f].outcome = "commit" /\ rec'[f].counted
               /\ used'[m] = SumFunctionOnSet(later, charged'[m])
    <3> DEFINE C == FreshCharged(m)
    <3>1. C = S \/ C = {}
      BY DEF FreshCharged
    <3>2. IsFiniteSet(C) /\ C \subseteq S
      BY <2>1, <3>1, FS_EmptySet
    <3>3. FreshUsed(m) = SumFunctionOnSet(later, C)
      <4>1. CASE Rolled(m)
        BY <4>1, SumEmpty DEF FreshUsed, FreshCharged
      <4>2. CASE ~Rolled(m)
        BY <2>5, <4>2 DEF FreshUsed, FreshCharged
      <4> QED BY <4>1, <4>2
    <3>4. e \notin C /\ later[e] = n
      BY <2>2, <2>8, <3>2
    <3>5. IsFiniteSet(C \cup {e})
      BY <3>2, FS_AddElement
    <3>6. SumFunctionOnSet(later, C \cup {e}) = later[e] + SumFunctionOnSet(later, C)
      <4>1. \A y \in C \cup {e} : later[y] \in Int
        BY <2>1, <2>4, <3>2
      <4> HIDE DEF later, C
      <4> QED BY <3>2, <3>4, <4>1, SumAdd
    <3>7. SumFunctionOnSet(later, C) \in Int
      <4>1. \A y \in C : later[y] \in Int
        BY <2>1, <2>4, <3>2
      <4> HIDE DEF later, C
      <4> QED BY <3>2, <4>1, SumType
    <3>8. used'[m] = SumFunctionOnSet(later, charged'[m])
      <4> DEFINE sum == SumFunctionOnSet(later, C)
      <4>1. used'[m] = sum + n /\ SumFunctionOnSet(later, charged'[m]) = n + sum /\ sum \in Int
        BY <2>8, <3>3, <3>4, <3>6, <3>7
      <4> HIDE DEF sum
      <4> QED BY <4>1
    <3>9. \A f \in charged'[m] : rec'[f].outcome = "commit" /\ rec'[f].counted
      BY <2>3, <2>8, <3>2
    <3> QED BY <2>8, <3>5, <3>8, <3>9
  <2> HIDE DEF later
  <2> QED BY <2>6, <2>7, <2>8, UsageMoves DEF UsedInv
<1> QED BY <1>1, <1>2 DEF UsedInv, UsedExact, ChargedFinite

\* usedDailyNotional is exactly the sum of the commits it stands for, for any number of
\* executions, over days, resets and processes.
THEOREM UsageIsExact == JournalSpec => []UsedExact
<1>1. JournalInit => UsedInv
  <2> SUFFICES ASSUME JournalInit PROVE UsedInv
    OBVIOUS
  <2>1. \A m \in Modes : charged[m] = {} /\ used[m] = 0
    BY DEF JournalInit, UsageInit
  <2> QED BY <2>1, JournalInitInv, FS_EmptySet, SumEmpty DEF UsedInv, UsedExact, ChargedFinite
<1>2. UsedInv => UsedExact
  BY DEF UsedInv
<1> QED BY <1>1, <1>2, UsedStep, PTL DEF JournalSpec

=============================================================================
