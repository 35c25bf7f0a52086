-------------------------- MODULE TradingEngine_proofs --------------------------
(***************************************************************************)
(* Recovery and order submission, proved for every number of plans,        *)
(* executions, runtimes and lookups.  Recovery makes only calls the        *)
(* journal promises to survive, and loses no order as long as no two       *)
(* executions share a client order id; submitWithReservation asks of       *)
(* recovery only what it covers, and a plan that may have traded is never  *)
(* submitted again.                                                        *)
(***************************************************************************)
EXTENDS TradingEngine, ExecutionJournal_proofs

-----------------------------------------------------------------------------
(* Recovery refines the journal: every step is a call of it or leaves it alone *)

\* SettleAs settles in one of the ways the journal's callers may.
LEMMA SettleAsIsSettle ==
    ASSUME JournalTypeOK, RecordsBlank, NEW e \in Execs, NEW fill,
           NEW status, NEW evidence,
           \/ status = "acknowledged" /\ evidence = "submission"
           \/ status = "reconciled" /\ evidence = "client-id-lookup",
           SettleAs(e, fill, status, evidence)
    PROVE  \E s \in Settlements, n \in Charges : Settle(e, s[1], n, s[2], s[3])
<1>1. /\ <<"commit", status, evidence>> \in Settlements
      /\ <<"release", status, evidence>> \in Settlements
  BY RecoveryAssumption DEF AllSettlements, Outcomes
<1>2. 0 \in Charges
  BY RecoveryAssumption
<1>3. CASE fill \in {"open", "filled"}
  <2>1. PICK n \in Charges : Settle(e, "commit", n, status, evidence)
    BY <1>3 DEF SettleAs
  <2> DEFINE s == <<"commit", status, evidence>>
  <2>2. s \in Settlements /\ Settle(e, s[1], n, s[2], s[3])
    BY <1>1, <2>1
  <2> QED BY <2>2
<1>4. CASE fill = "void"
  <2>1. Settle(e, "release", 0, status, evidence)
    BY <1>4 DEF SettleAs
  <2> DEFINE s == <<"release", status, evidence>>
  <2>2. s \in Settlements /\ Settle(e, s[1], 0, s[2], s[3])
    BY <1>1, <2>1
  <2> QED BY <1>2, <2>2
<1> QED BY <1>3, <1>4 DEF SettleAs

\* So does a release without the exchange's word.
LEMMA ReleaseIsSettle ==
    ASSUME NEW e \in Execs, NEW status \in {"definite-rejection", "reconciled"},
           Settle(e, "release", 0, status, "none")
    PROVE  \E s \in Settlements, n \in Charges : Settle(e, s[1], n, s[2], s[3])
<1> DEFINE s == <<"release", status, "none">>
<1>1. s \in Settlements /\ 0 \in Charges
  BY RecoveryAssumption DEF AllSettlements
<1>2. Settle(e, s[1], 0, s[2], s[3])
  OBVIOUS
<1> QED BY <1>1, <1>2

\* Every step of recovery, submitters, exchange and processes is a call the journal
\* allows, or none.
LEMMA RecoveryMaps == RecoveryInv /\ [RecoveryNext]_recoveryVars => [JournalNext]_journalVars
<1> SUFFICES ASSUME RecoveryInv, [RecoveryNext]_recoveryVars PROVE [JournalNext]_journalVars
  OBVIOUS
<1>0. JournalTypeOK /\ RecordsBlank /\ LookupsTrue
  BY DEF RecoveryInv, RecoveryTypeOK
<1>1. ASSUME NEW r \in Runtimes, NEW e \in Execs, NEW i \in Intents \cup {NoIntent},
             NEW n \in Notionals, NEW counted \in BOOLEAN,
             PrepareRecord(r, e, i, n, counted, account[ModeOf[r]].revision)
      PROVE  JournalNext
  BY <1>1 DEF PrepareRecord, JournalNext
<1>2. ASSUME NEW r \in Runtimes, NEW e \in Execs, NEW reported \in BOOLEAN,
             Permit(r, e, account[ModeOf[r]].revision, reported)
      PROVE  JournalNext
  BY <1>2 DEF Permit, JournalNext
<1>3. ASSUME NEW e \in Execs, Leave(e) \/ GiveUp(e) \/ SettleByReply(e) \/ ReleasePrepared(e)
      PROVE  [JournalNext]_journalVars
  <2>1. CASE Leave(e)
    BY <2>1 DEF Leave
  <2>2. CASE GiveUp(e)
    BY <2>2 DEF GiveUp, JournalNext
  <2>3. CASE SettleByReply(e)
    <3>1. \E s \in Settlements, n \in Charges : Settle(e, s[1], n, s[2], s[3])
      BY <1>0, <2>3, SettleAsIsSettle, ReleaseIsSettle DEF SettleByReply
    <3> QED BY <3>1 DEF JournalNext
  <2>4. CASE ReleasePrepared(e)
    <3>1. \E s \in Settlements, n \in Charges : Settle(e, s[1], n, s[2], s[3])
      BY <2>4, ReleaseIsSettle DEF ReleasePrepared
    <3> QED BY <3>1 DEF JournalNext
  <2> QED BY <1>3, <2>1, <2>2, <2>3, <2>4
<1>4. ASSUME ExchangeNext PROVE UNCHANGED journalVars
  BY <1>4 DEF ExchangeNext, Accept, Drop, Conclude
<1>5. ASSUME NEW r \in Runtimes, RecoverRevoke(r) \/ RecoverLookup(r) \/ RecoverApply(r)
      PROVE  [JournalNext]_journalVars
  <2>1. CASE RecoverRevoke(r)
    <3>1. look[r].exec \in Execs
      BY <1>0, <2>1 DEF RecoverRevoke, LookupsTrue
    <3>2. CASE Settle(look[r].exec, "release", 0, "reconciled", "none")
      <4>1. \E s \in Settlements, n \in Charges : Settle(look[r].exec, s[1], n, s[2], s[3])
        BY <3>1, <3>2, ReleaseIsSettle
      <4> QED BY <3>1, <4>1 DEF JournalNext
    <3> QED BY <2>1, <3>2 DEF RecoverRevoke
  <2>2. CASE RecoverLookup(r)
    BY <2>2 DEF RecoverLookup
  <2>3. CASE RecoverApply(r)
    <3>1. look[r].exec \in Execs
      BY <1>0, <2>3 DEF RecoverApply, LookupsTrue
    <3>2. CASE SettleAs(look[r].exec, look[r].found, "reconciled", "client-id-lookup")
      <4>1. \E s \in Settlements, n \in Charges : Settle(look[r].exec, s[1], n, s[2], s[3])
        BY <1>0, <3>1, <3>2, SettleAsIsSettle
      <4> QED BY <3>1, <4>1 DEF JournalNext
    <3>3. CASE Unknown(look[r].exec)
      BY <3>1, <3>3 DEF JournalNext
    <3> QED BY <2>3, <3>2, <3>3 DEF RecoverApply
  <2> QED BY <1>5, <2>1, <2>2, <2>3
<1>6. ASSUME NEW r \in Runtimes, NEW e \in Execs,
             \/ RecoverPick(r, e) \/ RecoverClaim(r, e) \/ RecoverExhausted(r, e)
             \/ RecoverUnsupported(r, e) \/ ManuallyResolve(r, e)
      PROVE  [JournalNext]_journalVars
  <2>1. CASE ManuallyResolve(r, e)
    <3> DEFINE s(outcome) == <<outcome, "reconciled", "operator">>
    <3>1. s("commit") \in Settlements /\ s("release") \in Settlements /\ 0 \in Charges
      BY RecoveryAssumption DEF AllSettlements, Outcomes
    <3>2. \E outcome \in {"commit", "release"}, n \in Charges :
              Settle(e, s(outcome)[1], n, s(outcome)[2], s(outcome)[3])
      BY <2>1, <3>1 DEF ManuallyResolve
    <3> QED BY <3>1, <3>2 DEF JournalNext
  <2>2. CASE RecoverPick(r, e)
    BY <2>2 DEF RecoverPick
  <2>3. CASE RecoverClaim(r, e) \/ RecoverExhausted(r, e) \/ RecoverUnsupported(r, e)
    BY <2>3 DEF RecoverClaim, RecoverExhausted, RecoverUnsupported, JournalNext
  <2> QED BY <1>6, <2>1, <2>2, <2>3
<1>7. ASSUME NEW r \in Runtimes, NEW own, Start(r) \/ Maintain(r) \/ Crash(r, own)
      PROVE  JournalNext
  BY <1>7 DEF Start, Maintain, Crash, JournalNext
<1>8. ASSUME Environment PROVE JournalNext
  BY <1>8 DEF Environment, JournalNext
<1>9. CASE UNCHANGED recoveryVars
  BY <1>9 DEF recoveryVars
<1> QED
  BY <1>1, <1>2, <1>3, <1>4, <1>5, <1>6, <1>7, <1>8, <1>9 DEF RecoveryNext, SubmitterNext, RecoverNext

-----------------------------------------------------------------------------
(* What the steps do to the records *)

\* The record of e is left as it was, or moved on within its class.
Moved(e) ==
    /\ rec'[e].intent = rec[e].intent
    /\ rec'[e].notional = rec[e].notional
    /\ rec'[e].outcome = rec[e].outcome
    /\ rec[e].evidence = "client-id-lookup" => rec'[e].evidence = "client-id-lookup"
    /\ rec'[e].status = "absent" <=> rec[e].status = "absent"
    /\ rec[e].status \notin {"absent", "prepared"} => rec'[e].status \notin {"absent", "prepared"}
    /\ rec[e].status \in Pending => rec'[e].status \in Pending
    /\ rec'[e].revision = 0 => rec[e].revision = 0 /\ rec'[e].status = rec[e].status

Quiet == \A e \in Execs : Moved(e)

\* Every call but prepare() and settle() is quiet.
LEMMA CallsAreQuiet ==
    ASSUME JournalTypeOK,
           \/ UNCHANGED rec
           \/ \E e \in Execs : \/ \E r, v : Begin(r, e, v)
                               \/ Unknown(e) \/ ClaimAttempt(e) \/ ExhaustAttempts(e)
                               \/ UpdateEvidence(e)
    PROVE  Quiet
<1>0. rec \in [Execs -> Record]
  BY DEF JournalTypeOK
<1>1. CASE UNCHANGED rec
  BY <1>1 DEF Quiet, Moved
<1>2. ASSUME NEW e \in Execs, Moved(e), \A f \in Execs \ {e} : rec'[f] = rec[f]
      PROVE  Quiet
  BY <1>2 DEF Quiet, Moved
<1>3. ASSUME NEW e \in Execs, NEW r, NEW v, Begin(r, e, v)
      PROVE  Quiet
  <2>1. /\ rec[e].status = "prepared" /\ rec[e] \in Record
        /\ rec'[e] = [rec[e] EXCEPT !.status = "submission-started", !.revision = @ + 1]
        /\ \A f \in Execs \ {e} : rec'[f] = rec[f]
    BY <1>0, <1>3 DEF Begin
  <2>2. Moved(e)
    BY <2>1 DEF Moved, Record, Pending
  <2> QED BY <1>2, <2>1, <2>2
<1>4. ASSUME NEW e \in Execs, Unknown(e)
      PROVE  Quiet
  <2>1. /\ rec[e].status \in Pending /\ rec[e] \in Record
        /\ rec'[e] = [rec[e] EXCEPT !.status = "unknown", !.revision = @ + 1, !.issue = "uncertain"]
        /\ \A f \in Execs \ {e} : rec'[f] = rec[f]
    BY <1>0, <1>4 DEF Unknown, IsUnresolved
  <2>2. Moved(e)
    BY <2>1 DEF Moved, Record, Pending
  <2> QED BY <1>2, <2>1, <2>2
<1>5. ASSUME NEW e \in Execs, ClaimAttempt(e)
      PROVE  Quiet
  <2>1. /\ rec[e].status \in Pending /\ rec[e] \in Record
        /\ rec'[e] = [rec[e] EXCEPT !.attempts = @ + 1, !.revision = @ + 1]
        /\ \A f \in Execs \ {e} : rec'[f] = rec[f]
    BY <1>0, <1>5 DEF ClaimAttempt, IsUnresolved
  <2>2. Moved(e)
    BY <2>1 DEF Moved, Record, Pending
  <2> QED BY <1>2, <2>1, <2>2
<1>6. ASSUME NEW e \in Execs, ExhaustAttempts(e)
      PROVE  Quiet
  <2>1. /\ rec[e].status \in Pending /\ rec[e] \in Record
        /\ rec'[e] = [rec[e] EXCEPT !.status = "unknown", !.revision = @ + 1,
                                    !.issue = "attempts-exhausted"]
        /\ \A f \in Execs \ {e} : rec'[f] = rec[f]
    BY <1>0, <1>6 DEF ExhaustAttempts, IsUnresolved
  <2>2. Moved(e)
    BY <2>1 DEF Moved, Record, Pending
  <2> QED BY <1>2, <2>1, <2>2
<1>7. ASSUME NEW e \in Execs, UpdateEvidence(e)
      PROVE  Quiet
  <2>1. /\ rec[e].status \in Resolved /\ rec[e] \in Record
        /\ rec'[e] = [rec[e] EXCEPT !.status = "reconciled", !.revision = @ + 1,
                                    !.evidence = "client-id-lookup"]
        /\ \A f \in Execs \ {e} : rec'[f] = rec[f]
    BY <1>0, <1>7 DEF UpdateEvidence, IsResolved
  <2>2. Moved(e)
    BY <2>1 DEF Moved, Record, Pending, Resolved
  <2> QED BY <1>2, <2>1, <2>2
<1> QED BY <1>1, <1>3, <1>4, <1>5, <1>6, <1>7

\* A client id that is shared stays shared, as intents are never taken back.
LEMMA SharedKept ==
    ASSUME \A e \in Execs : rec[e].intent # NoIntent => rec'[e].intent = rec[e].intent,
           NEW e \in Execs, Shared(e)
    PROVE  Shared(e)'
  BY DEF Shared, SameClientId

\* A quiet step that leaves the exchange alone, and at most drops or keeps what the
\* recoveries hold, keeps what the invariant says of the exchange.
Held == \A r \in Runtimes : look'[r] = look[r] \/ look'[r] = Idle

\* The invariant but for the journal's own.
RecoveryFacts ==
    RecordsBlank /\ SentBegun /\ AnswersTrue /\ LookupsTrue /\ SentUnresolved /\ LostOnlyIfMisread

\* Steps without news from the exchange: at most a permission is given up.
LEMMA QuietStep ==
    ASSUME RecoveryFacts, Quiet, Held, UNCHANGED <<order, reply>>,
           \A e \in Execs : \/ wire'[e] = wire[e]
                            \/ wire[e] = "permitted" /\ wire'[e] = "unsent"
    PROVE  RecoveryFacts'
<1>1. \A e \in Execs : (Shared(e) => Shared(e)') /\ (Misread(e) => Misread(e)')
  BY SharedKept DEF Quiet, Moved, Misread
<1>2. RecordsBlank' /\ SentBegun'
  BY DEF RecoveryFacts, RecordsBlank, SentBegun, Quiet, Moved
<1>3. AnswersTrue'
  BY DEF RecoveryFacts, AnswersTrue
<1>4. LookupsTrue'
  BY <1>1 DEF RecoveryFacts, LookupsTrue, Held, Idle
<1>5. SentUnresolved'
  BY <1>1 DEF RecoveryFacts, SentUnresolved, IsUnresolved, Quiet, Moved
<1>6. LostOnlyIfMisread'
  BY <1>1 DEF RecoveryFacts, LostOnlyIfMisread, MayTrade, Quiet, Moved
<1> QED BY <1>2, <1>3, <1>4, <1>5, <1>6 DEF RecoveryFacts

\* What settle() does to the records.
LEMMA SettleEffect ==
    ASSUME JournalTypeOK, NEW e \in Execs, NEW outcome, NEW n, NEW status \in Resolved, NEW evidence,
           Settle(e, outcome, n, status, evidence)
    PROVE  /\ rec[e].status \in Pending /\ rec'[e].status = status
           /\ rec'[e].outcome = outcome /\ rec'[e].evidence = evidence
           /\ rec'[e].intent = rec[e].intent /\ rec'[e].notional = rec[e].notional
           /\ rec'[e].revision = rec[e].revision + 1 /\ rec[e].revision \in Nat
           /\ \A f \in Execs \ {e} : rec'[f] = rec[f]
<1> DEFINE new == Settled(rec[e], outcome, n, status, evidence)
<1>1. rec \in [Execs -> Record] /\ rec[e] \in Record
  BY DEF JournalTypeOK
<1>2. /\ new.status = status /\ new.outcome = outcome /\ new.evidence = evidence
      /\ new.intent = rec[e].intent /\ new.notional = rec[e].notional
      /\ new.revision = rec[e].revision + 1
  BY <1>1 DEF Settled, Record
<1>3. rec' = [rec EXCEPT ![e] = new] /\ rec[e].status \in Pending
  BY DEF Settle, Settleable, IsUnresolved
<1>4. rec[e].revision \in Nat
  BY <1>1 DEF Record
<1> HIDE DEF new
<1> QED BY <1>1, <1>2, <1>3, <1>4

\* A settlement keeps the invariant when the request is not under way and, for a
\* release, left no order that trades; or when it rests on a lookup that two
\* executions share.
LEMMA SettleFacts ==
    ASSUME JournalTypeOK, RecoveryFacts, Held, UNCHANGED <<wire, order, reply>>,
           NEW e \in Execs, NEW outcome, NEW n, NEW status \in Resolved, NEW evidence,
           Settle(e, outcome, n, status, evidence),
           \/ /\ wire[e] \notin {"permitted", "inflight"}
              /\ outcome = "release" => ~MayTrade(e)
           \/ evidence = "client-id-lookup" /\ Shared(e)
    PROVE  RecoveryFacts'
<1>1. /\ rec[e].status \in Pending /\ rec'[e].status = status
      /\ rec'[e].outcome = outcome /\ rec'[e].evidence = evidence
      /\ rec'[e].intent = rec[e].intent /\ rec'[e].notional = rec[e].notional
      /\ rec'[e].revision = rec[e].revision + 1 /\ rec[e].revision \in Nat
      /\ \A f \in Execs \ {e} : rec'[f] = rec[f]
  BY SettleEffect
<1>2. status \notin {"absent", "prepared"} /\ rec[e].status # "absent"
  BY <1>1 DEF Resolved, Pending
<1>3. \A f \in Execs : Shared(f) => Shared(f)'
  BY <1>1, SharedKept
<1>4. \A f \in Execs \ {e} : Misread(f) => Misread(f)'
  BY <1>1, <1>3 DEF Misread
<1>5. evidence = "client-id-lookup" /\ Shared(e) => Misread(e)'
  BY <1>1, <1>3 DEF Misread
<1>6. RecordsBlank' /\ SentBegun'
  BY <1>1, <1>2 DEF RecoveryFacts, RecordsBlank, SentBegun
<1>7. AnswersTrue'
  BY DEF RecoveryFacts, AnswersTrue
<1>8. LookupsTrue'
  BY <1>3 DEF RecoveryFacts, LookupsTrue, Held, Idle
<1>9. SentUnresolved'
  BY <1>1, <1>4, <1>5 DEF RecoveryFacts, SentUnresolved, IsUnresolved, MayTrade
<1>10. LostOnlyIfMisread'
  BY <1>1, <1>4, <1>5 DEF RecoveryFacts, LostOnlyIfMisread, MayTrade
<1> QED BY <1>6, <1>7, <1>8, <1>9, <1>10 DEF RecoveryFacts

\* prepare() appends a record of which nothing was sent.
LEMMA PrepareFacts ==
    ASSUME RecoveryInv, NEW r \in Runtimes, NEW e \in Execs, NEW i \in Intents \cup {NoIntent},
           NEW n \in Notionals, NEW counted \in BOOLEAN, NEW base,
           PrepareRecord(r, e, i, n, counted, base)
    PROVE  RecoveryFacts'
<1>1. /\ RecoveryFacts /\ rec \in [Execs -> Record] /\ SettledExact
  BY DEF RecoveryInv, RecoveryFacts, RecoveryTypeOK, JournalTypeOK, JournalInv
<1>2. UNCHANGED <<wire, order, reply, look>>
  BY DEF PrepareRecord, exchangeVars
<1>3. /\ rec[e].status = "absent"
      /\ rec' = [rec EXCEPT ![e] = [NoRecord EXCEPT !.status = "prepared", !.gen = captured[r],
                                            !.mode = ModeOf[r], !.counted = counted,
                                            !.notional = n, !.intent = i]]
  BY DEF PrepareRecord, Prepare
<1>4. /\ rec'[e].status = "prepared" /\ rec'[e].notional = n /\ rec'[e].outcome = "none"
      /\ \A f \in Execs \ {e} : rec'[f] = rec[f]
  BY <1>1, <1>3 DEF NoRecord
<1>5. rec[e].intent = NoIntent /\ wire[e] = "unsent"
  BY <1>1, <1>3 DEF RecoveryFacts, RecordsBlank, SentBegun
<1>6. \A f \in Execs : Shared(f) => Shared(f)'
  BY <1>4, <1>5, SharedKept
<1>7. \A f \in Execs \ {e} : Misread(f) => Misread(f)'
  BY <1>4, <1>6 DEF Misread
<1>8. RecordsBlank' /\ SentBegun'
  BY <1>1, <1>2, <1>4, <1>5 DEF RecoveryFacts, RecordsBlank, SentBegun
<1>9. AnswersTrue' /\ LookupsTrue'
  BY <1>1, <1>2, <1>6 DEF RecoveryFacts, AnswersTrue, LookupsTrue
<1>10. SentUnresolved' /\ LostOnlyIfMisread'
  BY <1>1, <1>2, <1>4, <1>5, <1>7
  DEF RecoveryFacts, SentUnresolved, LostOnlyIfMisread, MayTrade, IsUnresolved, AnswersTrue
<1> QED BY <1>8, <1>9, <1>10 DEF RecoveryFacts

-----------------------------------------------------------------------------
(* The steps *)

\* The invariant gives the facts about orders and the types.
LEMMA FactsHold == RecoveryInv => RecoveryFacts /\ JournalTypeOK /\ RecoveryTypeOK
  BY DEF RecoveryInv, RecoveryFacts, RecoveryTypeOK

\* Submitters: begin() and what follows, a timeout, and the answers.
LEMMA SubmitterFacts ==
    ASSUME RecoveryInv, NEW e \in Execs,
           \/ \E r \in Runtimes, reported \in BOOLEAN :
                 Permit(r, e, account[ModeOf[r]].revision, reported)
           \/ Leave(e) \/ GiveUp(e) \/ SettleByReply(e) \/ ReleasePrepared(e)
    PROVE  RecoveryFacts'
<1>0. /\ RecoveryFacts /\ JournalTypeOK /\ RecoveryTypeOK
      /\ wire \in [Execs -> {"unsent", "permitted", "inflight", "accepted", "gone"}]
  BY FactsHold DEF RecoveryTypeOK
<1> DEFINE v(r) == account[ModeOf[r]].revision
<1>1. ASSUME NEW r \in Runtimes, NEW reported \in BOOLEAN, Permit(r, e, v(r), reported)
      PROVE  RecoveryFacts'
  <2>1. /\ UNCHANGED <<order, reply, look>> /\ Begin(r, e, v(r))
        /\ wire' = IF reported THEN [wire EXCEPT ![e] = "permitted"] ELSE wire
    BY <1>1 DEF Permit
  <2>2. Quiet
    BY <1>0, <2>1, CallsAreQuiet
  <2>3. CASE ~reported
    BY <1>0, <2>1, <2>2, <2>3, QuietStep DEF Held
  <2>4. CASE reported
    <3>1. rec[e].status = "prepared" /\ rec'[e].status = "submission-started"
      BY <1>0, <2>1 DEF Begin, JournalTypeOK, Record
    <3>2. wire[e] = "unsent"
      BY <1>0, <3>1 DEF RecoveryFacts, SentBegun
    <3>3. order[e] = "none" /\ reply[e] = "none" /\ rec[e].outcome = "none"
      BY <1>0, <3>1, <3>2
      DEF RecoveryInv, JournalInv, RecoveryFacts, AnswersTrue, SettledExact, IsResolved, Resolved
    <3>4. wire'[e] = "permitted" /\ \A f \in Execs \ {e} : wire'[f] = wire[f]
      BY <1>0, <2>1, <2>4
    <3>5. \A f \in Execs : (Shared(f) => Shared(f)') /\ (Misread(f) => Misread(f)')
      BY <2>2, SharedKept DEF Quiet, Moved, Misread
    <3>6. RecordsBlank' /\ SentBegun'
      BY <1>0, <2>2, <3>1, <3>4 DEF RecoveryFacts, RecordsBlank, SentBegun, Quiet, Moved
    <3>7. AnswersTrue' /\ LookupsTrue'
      BY <1>0, <2>1, <3>3, <3>4, <3>5 DEF RecoveryFacts, AnswersTrue, LookupsTrue
    <3>8. SentUnresolved'
      BY <1>0, <2>2, <3>1, <3>4, <3>5
      DEF RecoveryFacts, SentUnresolved, IsUnresolved, Quiet, Moved, Pending
    <3>9. LostOnlyIfMisread'
      BY <1>0, <2>1, <2>2, <3>3, <3>4, <3>5
      DEF RecoveryFacts, LostOnlyIfMisread, MayTrade, Quiet, Moved
    <3> QED BY <3>6, <3>7, <3>8, <3>9 DEF RecoveryFacts
  <2> QED BY <2>3, <2>4
<1>2. CASE Leave(e)
  <2>1. /\ UNCHANGED <<rec, order, reply, look>>
        /\ wire[e] = "permitted" /\ wire' = [wire EXCEPT ![e] = "inflight"]
    BY <1>2 DEF Leave, journalVars, recordVars
  <2>2. wire'[e] = "inflight" /\ \A f \in Execs \ {e} : wire'[f] = wire[f]
    BY <1>0, <2>1
  <2>3. \A f \in Execs : (Shared(f)' <=> Shared(f)) /\ (Misread(f)' <=> Misread(f))
    BY <2>1 DEF Shared, SameClientId, Misread
  <2> QED
    BY <1>0, <2>1, <2>2, <2>3
    DEF RecoveryFacts, RecordsBlank, SentBegun, AnswersTrue, LookupsTrue, SentUnresolved,
        LostOnlyIfMisread, MayTrade, IsUnresolved
<1>3. CASE GiveUp(e)
  <2>1. /\ UNCHANGED <<order, reply, look>>
        /\ Unknown(e) \/ UNCHANGED rec
        /\ wire' = [wire EXCEPT ![e] = IF @ = "permitted" THEN "unsent" ELSE @]
    BY <1>3 DEF GiveUp, journalVars, recordVars
  <2>2. Quiet
    BY <1>0, <2>1, CallsAreQuiet
  <2>3. \A f \in Execs : wire'[f] = wire[f] \/ (wire[f] = "permitted" /\ wire'[f] = "unsent")
    BY <1>0, <2>1
  <2> QED BY <1>0, <2>1, <2>2, <2>3, QuietStep DEF Held
<1>4. CASE SettleByReply(e)
  <2>0. UNCHANGED <<wire, order, reply, look>> /\ Held
    BY <1>4 DEF SettleByReply, exchangeVars, Held
  <2>1. CASE reply[e] = "rejected" /\ Settle(e, "release", 0, "definite-rejection", "none")
    <3>1. wire[e] \in {"accepted", "gone"} /\ order[e] = "none"
      BY <1>0, <2>1 DEF RecoveryFacts, AnswersTrue
    <3>2. ~MayTrade(e) /\ wire[e] \notin {"permitted", "inflight"}
      BY <3>1 DEF MayTrade
    <3>3. "definite-rejection" \in Resolved
      BY DEF Resolved
    <3> QED BY <1>0, <2>0, <2>1, <3>2, <3>3, SettleFacts
  <2>2. CASE SettleAs(e, reply[e], "acknowledged", "submission")
    <3>1. reply[e] # "none" /\ "acknowledged" \in Resolved
      BY <2>2 DEF SettleAs, Resolved
    <3>2. wire[e] \in {"accepted", "gone"}
      BY <1>0, <3>1 DEF RecoveryFacts, AnswersTrue
    <3>3. wire[e] \notin {"permitted", "inflight"}
      BY <3>2
    <3>4. reply[e] = "void" => ~MayTrade(e)
      BY <1>0, <3>2 DEF RecoveryFacts, AnswersTrue, MayTrade
    <3>5. CASE reply[e] = "void" /\ Settle(e, "release", 0, "acknowledged", "submission")
      BY <1>0, <2>0, <3>1, <3>3, <3>4, <3>5, SettleFacts
    <3>6. ASSUME NEW n, Settle(e, "commit", n, "acknowledged", "submission")
          PROVE  RecoveryFacts'
      BY <1>0, <2>0, <3>1, <3>3, <3>6, SettleFacts
    <3> QED BY <2>2, <3>5, <3>6 DEF SettleAs
  <2> QED BY <1>4, <2>1, <2>2 DEF SettleByReply
<1>5. CASE ReleasePrepared(e)
  <2>1. /\ UNCHANGED <<wire, order, reply, look>> /\ Held
        /\ rec[e].revision = 0 /\ Settle(e, "release", 0, "definite-rejection", "none")
    BY <1>5 DEF ReleasePrepared, exchangeVars, Held
  <2>2. wire[e] = "unsent" /\ order[e] = "none"
    BY <1>0, <2>1 DEF RecoveryFacts, SentBegun, AnswersTrue
  <2>3. ~MayTrade(e) /\ wire[e] \notin {"permitted", "inflight"}
    BY <2>2 DEF MayTrade
  <2>4. "definite-rejection" \in Resolved
    BY DEF Resolved
  <2> QED BY <1>0, <2>1, <2>3, <2>4, SettleFacts
<1> QED BY <1>1, <1>2, <1>3, <1>4, <1>5

\* The exchange: a request arrives or is lost, an open order ends.
LEMMA ExchangeFacts ==
    ASSUME RecoveryInv, NEW e \in Execs, Accept(e) \/ Drop(e) \/ Conclude(e)
    PROVE  RecoveryFacts'
<1>0. /\ RecoveryFacts
      /\ wire \in [Execs -> {"unsent", "permitted", "inflight", "accepted", "gone"}]
      /\ order \in [Execs -> {"none"} \cup Fills]
      /\ reply \in [Execs -> {"none", "rejected"} \cup Fills]
  BY FactsHold DEF RecoveryTypeOK
<1>1. UNCHANGED <<rec, look>>
  BY DEF Accept, Drop, Conclude, journalVars, recordVars
<1>2. \A f \in Execs : (Shared(f)' <=> Shared(f)) /\ (Misread(f)' <=> Misread(f))
  BY <1>1 DEF Shared, SameClientId, Misread
<1>3. \A f \in Execs \ {e} : wire'[f] = wire[f] /\ order'[f] = order[f] /\ reply'[f] = reply[f]
  BY <1>0 DEF Accept, Drop, Conclude
<1>4. RecordsBlank'
  BY <1>0, <1>1 DEF RecoveryFacts, RecordsBlank
<1>5. CASE Accept(e)
  <2>1. PICK fill \in Fills : order' = [order EXCEPT ![e] = fill] /\ reply' = [reply EXCEPT ![e] = fill]
    BY <1>5 DEF Accept
  <2>2. wire[e] = "inflight" /\ wire'[e] = "accepted" /\ order'[e] = fill /\ reply'[e] = fill
    BY <1>0, <1>5, <2>1 DEF Accept
  <2>3. order[e] = "none" /\ fill \notin {"none", "rejected"}
    BY <1>0, <2>2 DEF RecoveryFacts, AnswersTrue, Fills
  <2>4. SentBegun' /\ AnswersTrue'
    BY <1>0, <1>1, <1>3, <2>2, <2>3 DEF RecoveryFacts, SentBegun, AnswersTrue
  <2>5. LookupsTrue'
    BY <1>0, <1>1, <1>2, <1>3, <2>3 DEF RecoveryFacts, LookupsTrue
  <2>6. SentUnresolved' /\ LostOnlyIfMisread'
    BY <1>0, <1>1, <1>2, <1>3, <2>2
    DEF RecoveryFacts, SentUnresolved, LostOnlyIfMisread, IsUnresolved, MayTrade
  <2> QED BY <1>4, <2>4, <2>5, <2>6 DEF RecoveryFacts
<1>6. CASE Drop(e)
  <2>1. /\ wire[e] = "inflight" /\ wire'[e] = "gone" /\ order'[e] = order[e]
        /\ reply'[e] \in {"none", "rejected"}
    BY <1>0, <1>6 DEF Drop
  <2>2. order[e] = "none"
    BY <1>0, <2>1 DEF RecoveryFacts, AnswersTrue
  <2>3. SentBegun' /\ AnswersTrue' /\ LookupsTrue'
    BY <1>0, <1>1, <1>2, <1>3, <2>1, <2>2 DEF RecoveryFacts, SentBegun, AnswersTrue, LookupsTrue
  <2>4. SentUnresolved' /\ LostOnlyIfMisread'
    BY <1>0, <1>1, <1>2, <1>3, <2>1
    DEF RecoveryFacts, SentUnresolved, LostOnlyIfMisread, IsUnresolved, MayTrade
  <2> QED BY <1>4, <2>3, <2>4 DEF RecoveryFacts
<1>7. CASE Conclude(e)
  <2>1. /\ order[e] = "open" /\ order'[e] \in {"filled", "void"}
        /\ wire'[e] = wire[e] /\ reply'[e] = reply[e]
    BY <1>0, <1>7 DEF Conclude
  <2>2. SentBegun' /\ AnswersTrue' /\ LookupsTrue'
    BY <1>0, <1>1, <1>2, <1>3, <2>1 DEF RecoveryFacts, SentBegun, AnswersTrue, LookupsTrue
  <2>3. SentUnresolved' /\ LostOnlyIfMisread'
    BY <1>0, <1>1, <1>2, <1>3, <2>1
    DEF RecoveryFacts, SentUnresolved, LostOnlyIfMisread, IsUnresolved, MayTrade
  <2> QED BY <1>4, <2>2, <2>3 DEF RecoveryFacts
<1> QED BY <1>5, <1>6, <1>7

\* A lookup that is kept, or that starts without an answer, stays true when the step
\* moves no record's intent and no order.
LEMMA PickedLook ==
    ASSUME RecoveryFacts, Quiet, UNCHANGED <<wire, order, reply>>, NEW r \in Runtimes,
           look'[r].at # "answered", look'[r].exec \in Execs,
           \A s \in Runtimes \ {r} : look'[s] = look[s]
    PROVE  RecoveryFacts'
<1>1. \A e \in Execs : (Shared(e) => Shared(e)') /\ (Misread(e) => Misread(e)')
  BY SharedKept DEF Quiet, Moved, Misread
<1>2. RecordsBlank' /\ SentBegun'
  BY DEF RecoveryFacts, RecordsBlank, SentBegun, Quiet, Moved
<1>3. AnswersTrue'
  BY DEF RecoveryFacts, AnswersTrue
<1>4. LookupsTrue'
  BY <1>1 DEF RecoveryFacts, LookupsTrue
<1>5. SentUnresolved'
  BY <1>1 DEF RecoveryFacts, SentUnresolved, IsUnresolved, Quiet, Moved
<1>6. LostOnlyIfMisread'
  BY <1>1 DEF RecoveryFacts, LostOnlyIfMisread, MayTrade, Quiet, Moved
<1> QED BY <1>2, <1>3, <1>4, <1>5, <1>6 DEF RecoveryFacts

Looks == [at : {"idle", "prepared", "claimed", "answered"}, exec : Execs \cup {NoExec},
          revision : Nat, found : {"none"} \cup Fills]

\* Recovery: a record is picked, revoked, claimed, looked up, settled or left, and an
\* operator resolves one.
LEMMA RecoverFacts ==
    ASSUME RecoveryInv, NEW r \in Runtimes, RecoverNext(r)
    PROVE  RecoveryFacts'
<1>0. RecoveryFacts /\ JournalTypeOK /\ look \in [Runtimes -> Looks]
  BY FactsHold DEF RecoveryTypeOK, Looks
<1>1. CASE RecoverRevoke(r)
  <2> DEFINE e == look[r].exec
  <2>1. e \in Execs
    BY <1>0, <1>1 DEF RecoverRevoke, RecoveryFacts, LookupsTrue
  <2>2. UNCHANGED <<wire, order, reply>> /\ Held
    BY <1>0, <1>1 DEF RecoverRevoke, exchangeVars, Held
  <2>3. CASE Settle(e, "release", 0, "reconciled", "none")
    <3>1. rec[e].status = "prepared"
      BY <2>3 DEF Settle, Settleable
    <3>2. wire[e] = "unsent" /\ order[e] = "none"
      BY <1>0, <2>1, <3>1 DEF RecoveryFacts, SentBegun, AnswersTrue
    <3>3. ~MayTrade(e) /\ wire[e] \notin {"permitted", "inflight"}
      BY <3>2 DEF MayTrade
    <3>4. "reconciled" \in Resolved
      BY DEF Resolved
    <3> QED BY <1>0, <2>1, <2>2, <2>3, <3>3, <3>4, SettleFacts
  <2>4. CASE UNCHANGED journalVars
    BY <1>0, <2>2, <2>4, CallsAreQuiet, QuietStep DEF journalVars, recordVars
  <2> QED BY <1>1, <2>3, <2>4 DEF RecoverRevoke
<1>2. CASE RecoverLookup(r)
  <2> DEFINE e == look[r].exec
  <2>1. PICK found \in Found(e) : look' = [look EXCEPT ![r].at = "answered", ![r].found = found]
    BY <1>2 DEF RecoverLookup
  <2>2. UNCHANGED <<rec, wire, order, reply>>
    BY <1>2 DEF RecoverLookup, journalVars, recordVars, exchangeVars
  <2>3. e \in Execs
    BY <1>0, <1>2 DEF RecoverLookup, RecoveryFacts, LookupsTrue
  <2>4. /\ look[r] \in Looks
        /\ look'[r] = [look[r] EXCEPT !.at = "answered", !.found = found]
        /\ \A s \in Runtimes \ {r} : look'[s] = look[s]
    BY <1>0, <2>1
  <2>5. look'[r].exec = e /\ look'[r].found = found
    BY <2>4 DEF Looks
  <2>6. \A f \in Execs : (Shared(f)' <=> Shared(f)) /\ (Misread(f)' <=> Misread(f))
    BY <2>2 DEF Shared, SameClientId, Misread
  <2>7. found # "none" => Shared(e) \/ found = order[e]
    <3>1. CASE found = "none"
      BY <3>1
    <3>2. CASE found # "none"
      <4>1. PICK f \in Execs : SameClientId(e, f) /\ found = order[f]
        BY <2>1, <3>2 DEF Found
      <4> QED BY <2>3, <4>1 DEF Shared
    <3> QED BY <3>1, <3>2
  <2>8. LookupsTrue'
    <3>1. found \in {"filled", "void"} /\ ~Shared(e) => order[e] = found
      BY <2>7
    <3>2. /\ look'[r].exec \in Execs
          /\ look'[r].found # "none" =>
                \/ Shared(e)
                \/ /\ order'[look'[r].exec] # "none"
                   /\ look'[r].found \in {"filled", "void"} => order'[look'[r].exec] = look'[r].found
      BY <2>2, <2>3, <2>5, <2>7, <3>1
    <3>3. \A s \in Runtimes \ {r} : look'[s].at # "idle" => look'[s].exec \in Execs
      BY <1>0, <2>4 DEF RecoveryFacts, LookupsTrue
    <3>4. (look[r].exec \in Execs /\ Shared(look[r].exec)) => Shared(look[r].exec)'
      BY <2>2, <2>3, <2>5 DEF Shared, SameClientId
    <3>5. ASSUME NEW s \in Runtimes \ {r}, Shared(look[s].exec)
          PROVE  Shared(look[s].exec)'
      BY <2>2, <2>4, <3>5 DEF Shared, SameClientId
    <3>6. ASSUME NEW s \in Runtimes \ {r}, look'[s].at = "answered", look'[s].found # "none",
                 ~Shared(look[s].exec)
          PROVE  /\ order'[look'[s].exec] # "none"
                 /\ look'[s].found \in {"filled", "void"} => order'[look'[s].exec] = look'[s].found
      BY <1>0, <2>2, <2>4, <3>6 DEF RecoveryFacts, LookupsTrue
    <3> QED BY <2>3, <3>2, <3>3, <3>4, <3>5, <3>6 DEF LookupsTrue
  <2>9. RecordsBlank' /\ SentBegun' /\ AnswersTrue'
    BY <1>0, <2>2 DEF RecoveryFacts, RecordsBlank, SentBegun, AnswersTrue
  <2>10. SentUnresolved'
    BY <1>0, <2>2, <2>6 DEF RecoveryFacts, SentUnresolved, IsUnresolved
  <2>11. LostOnlyIfMisread'
    BY <1>0, <2>2, <2>6 DEF RecoveryFacts, LostOnlyIfMisread, MayTrade
  <2> QED BY <2>8, <2>9, <2>10, <2>11 DEF RecoveryFacts
<1>3. CASE RecoverApply(r)
  <2> DEFINE e == look[r].exec
  <2>1. e \in Execs /\ look[r].at = "answered"
    BY <1>0, <1>3 DEF RecoverApply, RecoveryFacts, LookupsTrue
  <2>2. UNCHANGED <<wire, order, reply>> /\ Held
    BY <1>0, <1>3 DEF RecoverApply, exchangeVars, Held
  <2>3. CASE SettleAs(e, look[r].found, "reconciled", "client-id-lookup")
    <3>1. look[r].found \in Fills /\ "reconciled" \in Resolved
      BY <2>3 DEF SettleAs, Fills, Resolved
    <3>2. \/ Shared(e)
          \/ wire[e] = "accepted" /\ (look[r].found \in {"filled", "void"} => order[e] = look[r].found)
      BY <1>0, <2>1, <3>1 DEF RecoveryFacts, LookupsTrue, AnswersTrue, Fills
    <3>3. CASE look[r].found = "void" /\ Settle(e, "release", 0, "reconciled", "client-id-lookup")
      <4>1. Shared(e) \/ (wire[e] \notin {"permitted", "inflight"} /\ ~MayTrade(e))
        BY <3>2, <3>3 DEF MayTrade
      <4> QED BY <1>0, <2>1, <2>2, <3>1, <3>3, <4>1, SettleFacts
    <3>4. ASSUME NEW n, Settle(e, "commit", n, "reconciled", "client-id-lookup")
          PROVE  RecoveryFacts'
      <4>1. Shared(e) \/ wire[e] \notin {"permitted", "inflight"}
        BY <3>2
      <4> QED BY <1>0, <2>1, <2>2, <3>1, <3>4, <4>1, SettleFacts
    <3> QED BY <2>3, <3>3, <3>4 DEF SettleAs
  <2>4. CASE Unknown(e) \/ UNCHANGED journalVars
    <3>1. Quiet
      BY <1>0, <2>1, <2>4, CallsAreQuiet DEF journalVars, recordVars
    <3> QED BY <1>0, <2>2, <3>1, QuietStep
  <2> QED BY <1>3, <2>3, <2>4 DEF RecoverApply
<1>4. ASSUME NEW e \in Execs, RecoverPick(r, e)
      PROVE  RecoveryFacts'
  <2>1. Quiet /\ UNCHANGED <<wire, order, reply>>
    BY <1>0, <1>4, CallsAreQuiet DEF RecoverPick, journalVars, recordVars, exchangeVars
  <2>2. look'[r].at = "prepared" /\ look'[r].exec = e /\ \A s \in Runtimes \ {r} : look'[s] = look[s]
    BY <1>0, <1>4 DEF RecoverPick, Idle
  <2> QED BY <1>0, <2>1, <2>2, PickedLook
<1>5. ASSUME NEW e \in Execs, RecoverClaim(r, e)
      PROVE  RecoveryFacts'
  <2>1. Quiet /\ UNCHANGED <<wire, order, reply>>
    BY <1>0, <1>5, CallsAreQuiet DEF RecoverClaim, exchangeVars
  <2>2. look'[r].at = "claimed" /\ look'[r].exec = e /\ \A s \in Runtimes \ {r} : look'[s] = look[s]
    BY <1>0, <1>5 DEF RecoverClaim, Idle
  <2> QED BY <1>0, <2>1, <2>2, PickedLook
<1>6. ASSUME NEW e \in Execs, RecoverExhausted(r, e) \/ RecoverUnsupported(r, e)
      PROVE  RecoveryFacts'
  <2>1. UNCHANGED <<wire, order, reply, look>> /\ (ExhaustAttempts(e) \/ Unknown(e))
    BY <1>6 DEF RecoverExhausted, RecoverUnsupported, exchangeVars
  <2>2. Quiet
    BY <1>0, <2>1, CallsAreQuiet
  <2> QED BY <1>0, <2>1, <2>2, QuietStep DEF Held
<1>7. ASSUME NEW e \in Execs, ManuallyResolve(r, e)
      PROVE  RecoveryFacts'
  <2>1. /\ UNCHANGED <<wire, order, reply>> /\ Held
        /\ wire[e] \notin {"permitted", "inflight"} /\ order[e] # "open"
    BY <1>7 DEF ManuallyResolve, VerifiedTerminal, exchangeVars, Held
  <2>2. "reconciled" \in Resolved
    BY DEF Resolved
  <2>3. CASE order[e] # "filled" /\ Settle(e, "release", 0, "reconciled", "operator")
    <3>1. ~MayTrade(e)
      BY <2>1, <2>3 DEF MayTrade
    <3> QED BY <1>0, <2>1, <2>2, <2>3, <3>1, SettleFacts
  <2>4. ASSUME NEW n, Settle(e, "commit", n, "reconciled", "operator")
        PROVE  RecoveryFacts'
    BY <1>0, <2>1, <2>2, <2>4, SettleFacts
  <2> QED BY <1>7, <2>3, <2>4 DEF ManuallyResolve
<1> QED BY <1>1, <1>2, <1>3, <1>4, <1>5, <1>6, <1>7 DEF RecoverNext

\* Processes come and go, maintenance, the clock and evidence of settled orders: no
\* record changes its class, no order moves.
LEMMA ProcessFacts ==
    ASSUME RecoveryInv,
           \/ \E r \in Runtimes : Start(r) \/ Maintain(r)
           \/ \E r \in Runtimes, own \in SUBSET Execs : Crash(r, own)
           \/ Environment
    PROVE  RecoveryFacts'
<1>0. RecoveryFacts /\ JournalTypeOK /\ look \in [Runtimes -> Looks]
  BY FactsHold DEF RecoveryTypeOK, Looks
<1>1. ASSUME NEW r \in Runtimes, Start(r) \/ Maintain(r)
      PROVE  RecoveryFacts'
  <2>1. UNCHANGED <<rec, wire, order, reply, look>>
    BY <1>1 DEF Start, Maintain, Open, BeginMaintenance, CancelMaintenance, Install,
       CompleteMaintenance, recordVars, exchangeVars
  <2> QED BY <1>0, <2>1, CallsAreQuiet, QuietStep DEF Held
<1>2. ASSUME NEW r \in Runtimes, NEW own \in SUBSET Execs, Crash(r, own)
      PROVE  RecoveryFacts'
  <2>1. UNCHANGED <<rec, order, reply>>
    BY <1>2 DEF Crash, Halt, recordVars
  <2>2. \A e \in Execs : wire'[e] = wire[e] \/ (wire[e] = "permitted" /\ wire'[e] = "unsent")
    BY <1>2 DEF Crash
  <2>3. Held
    BY <1>0, <1>2 DEF Crash, Held
  <2> QED BY <1>0, <2>1, <2>2, <2>3, CallsAreQuiet, QuietStep
<1>3. CASE Environment
  <2>1. UNCHANGED <<wire, order, reply, look>>
    BY <1>3 DEF Environment, exchangeVars
  <2>2. UNCHANGED rec \/ \E e \in Execs : UpdateEvidence(e)
    BY <1>3 DEF Environment, NextDay, Refresh, Reset, AccountVerdict, ClaimMutation,
       FinishMutation, recordVars
  <2>3. Quiet
    BY <1>0, <2>2, CallsAreQuiet
  <2> QED BY <1>0, <2>1, <2>3, QuietStep DEF Held
<1> QED BY <1>1, <1>2, <1>3

Wires == {"unsent", "permitted", "inflight", "accepted", "gone"}

\* The exchange's variables and the recoveries' own keep their types.
LEMMA RecoveryTypeStep ==
    ASSUME RecoveryInv, [RecoveryNext]_recoveryVars, JournalTypeOK'
    PROVE  RecoveryTypeOK'
<1>0. /\ wire \in [Execs -> Wires]
      /\ order \in [Execs -> {"none"} \cup Fills]
      /\ reply \in [Execs -> {"none", "rejected"} \cup Fills]
      /\ lookupable \in SUBSET Execs
      /\ arrivals \in Seq(Execs)
      /\ look \in [Runtimes -> Looks]
      /\ rec \in [Execs -> Record]
      /\ LookupsTrue
  BY DEF RecoveryInv, RecoveryTypeOK, Wires, Looks, JournalTypeOK
<1> DEFINE Typed == /\ wire' \in [Execs -> Wires]
                    /\ order' \in [Execs -> {"none"} \cup Fills]
                    /\ reply' \in [Execs -> {"none", "rejected"} \cup Fills]
                    /\ lookupable' = lookupable
                    /\ arrivals' \in Seq(Execs)
                    /\ look' \in [Runtimes -> Looks]
<1>1. Idle \in Looks
  BY RiskUsageAssumption DEF Idle, Looks
<1>2. ASSUME NEW r \in Runtimes, NEW e \in Execs, NEW i, NEW n, NEW counted, NEW base,
             PrepareRecord(r, e, i, n, counted, base)
      PROVE  Typed
  BY <1>0, <1>2 DEF PrepareRecord, exchangeVars
<1>3. ASSUME NEW r \in Runtimes, NEW e \in Execs, NEW v, NEW reported \in BOOLEAN,
             Permit(r, e, v, reported)
      PROVE  Typed
  <2>1. wire' = [wire EXCEPT ![e] = "permitted"] \/ wire' = wire
    BY <1>3 DEF Permit
  <2>2. wire' \in [Execs -> Wires]
    BY <1>0, <2>1 DEF Wires
  <2> QED BY <1>0, <1>3, <2>2 DEF Permit
<1>4. ASSUME NEW e \in Execs, Leave(e) \/ GiveUp(e) \/ SettleByReply(e) \/ ReleasePrepared(e)
      PROVE  Typed
  <2>1. /\ UNCHANGED <<order, reply, lookupable, arrivals, look>>
        /\ \/ wire' = [wire EXCEPT ![e] = "inflight"]
           \/ wire' = [wire EXCEPT ![e] = IF @ = "permitted" THEN "unsent" ELSE @]
           \/ wire' = wire
    BY <1>4 DEF Leave, GiveUp, SettleByReply, ReleasePrepared, exchangeVars
  <2>2. wire' \in [Execs -> Wires]
    BY <1>0, <2>1 DEF Wires
  <2> QED BY <1>0, <2>1, <2>2
<1>5. ASSUME NEW e \in Execs, Accept(e) \/ Drop(e) \/ Conclude(e)
      PROVE  Typed
  <2>1. wire' \in [Execs -> Wires]
    BY <1>0, <1>5 DEF Accept, Drop, Conclude, Wires
  <2>2. order' \in [Execs -> {"none"} \cup Fills]
    BY <1>0, <1>5 DEF Accept, Drop, Conclude, Fills
  <2>3. reply' \in [Execs -> {"none", "rejected"} \cup Fills]
    BY <1>0, <1>5 DEF Accept, Drop, Conclude, Fills
  <2> QED BY <1>0, <1>5, <2>1, <2>2, <2>3 DEF Accept, Drop, Conclude
<1>6. ASSUME NEW r \in Runtimes, RecoverNext(r)
      PROVE  Typed
  <2>1. ASSUME NEW x \in Looks, look' = [look EXCEPT ![r] = x], UNCHANGED <<exchangeVars, arrivals>>
        PROVE  Typed
    BY <1>0, <2>1 DEF exchangeVars
  <2>2. CASE RecoverRevoke(r) \/ RecoverApply(r)
    BY <1>1, <2>1, <2>2 DEF RecoverRevoke, RecoverApply
  <2>3. CASE RecoverLookup(r)
    <3>1. PICK found \in Found(look[r].exec) :
             look' = [look EXCEPT ![r].at = "answered", ![r].found = found]
      BY <2>3 DEF RecoverLookup
    <3>2. found \in {"none"} \cup Fills
      BY <1>0, <3>1 DEF Found
    <3>3. look[r] \in Looks
      BY <1>0
    <3> DEFINE x == [look[r] EXCEPT !.at = "answered", !.found = found]
    <3>4. x \in Looks
      BY <3>2, <3>3 DEF Looks
    <3>5. look' = [look EXCEPT ![r] = x]
      BY <3>1
    <3> QED BY <2>1, <2>3, <3>4, <3>5 DEF RecoverLookup
  <2>4. ASSUME NEW e \in Execs, RecoverPick(r, e) \/ RecoverClaim(r, e)
        PROVE  Typed
    <3>1. rec[e].revision \in Nat
      BY <1>0 DEF Record
    <3>2. PICK at \in {"prepared", "claimed"}, v \in {rec[e].revision, rec[e].revision + 1} :
             look' = [look EXCEPT ![r] = [Idle EXCEPT !.at = at, !.exec = e, !.revision = v]]
      BY <2>4 DEF RecoverPick, RecoverClaim
    <3> DEFINE x == [Idle EXCEPT !.at = at, !.exec = e, !.revision = v]
    <3>3. x \in Looks
      <4>0. v \in Nat
        BY <3>1
      <4>1. at \in {"idle", "prepared", "claimed", "answered"} /\ e \in Execs \cup {NoExec}
        OBVIOUS
      <4> QED BY <1>1, <4>0, <4>1 DEF Looks
    <3> QED BY <2>1, <2>4, <3>2, <3>3 DEF RecoverPick, RecoverClaim
  <2>5. ASSUME NEW e \in Execs,
               RecoverExhausted(r, e) \/ RecoverUnsupported(r, e) \/ ManuallyResolve(r, e)
        PROVE  Typed
    BY <1>0, <2>5 DEF RecoverExhausted, RecoverUnsupported, ManuallyResolve, exchangeVars
  <2> QED BY <1>6, <2>2, <2>3, <2>4, <2>5 DEF RecoverNext
<1>7. ASSUME NEW r \in Runtimes, Start(r) \/ Maintain(r)
      PROVE  Typed
  BY <1>0, <1>7 DEF Start, Maintain, exchangeVars
<1>8. ASSUME NEW r \in Runtimes, NEW own \in SUBSET Execs, Crash(r, own)
      PROVE  Typed
  <2>1. wire' \in [Execs -> Wires]
    BY <1>0, <1>8 DEF Crash, Wires
  <2>2. look' \in [Runtimes -> Looks]
    BY <1>0, <1>1, <1>8 DEF Crash
  <2> QED BY <1>0, <1>8, <2>1, <2>2 DEF Crash
<1>9. ASSUME Environment \/ UNCHANGED recoveryVars
      PROVE  Typed
  BY <1>0, <1>9 DEF Environment, exchangeVars, recoveryVars
<1> HIDE DEF Typed
<1>10. Typed
  BY <1>2, <1>3, <1>4, <1>5, <1>6, <1>7, <1>8, <1>9
  DEF RecoveryNext, SubmitterNext, ExchangeNext
<1> QED BY <1>0, <1>10 DEF Typed, RecoveryTypeOK, Wires, Looks

-----------------------------------------------------------------------------
(* The theorems *)

\* Before the first execution the invariant holds.
LEMMA RecoveryInitInv == RecoveryInit => RecoveryInv
<1> SUFFICES ASSUME RecoveryInit PROVE RecoveryInv
  OBVIOUS
<1>1. JournalInv /\ JournalTypeOK
  BY JournalInitInv DEF RecoveryInit, JournalInv
<1>2. rec = [e \in Execs |-> NoRecord]
  BY DEF RecoveryInit, JournalInit
<1>3. RecoveryTypeOK
  BY <1>1, RecoveryAssumption, RiskUsageAssumption DEF RecoveryInit, RecoveryTypeOK, Idle, Fills
<1>4. RecordsBlank /\ SentBegun /\ AnswersTrue /\ LookupsTrue /\ SentUnresolved /\ LostOnlyIfMisread
  BY <1>2
  DEF RecoveryInit, RecordsBlank, SentBegun, AnswersTrue, LookupsTrue, SentUnresolved,
      LostOnlyIfMisread, NoRecord, Idle
<1> QED BY <1>1, <1>3, <1>4 DEF RecoveryInv

\* Every step of recovery, submitters and exchange preserves the invariant.
LEMMA RecoveryStep == RecoveryInv /\ [RecoveryNext]_recoveryVars => RecoveryInv'
<1> SUFFICES ASSUME RecoveryInv, [RecoveryNext]_recoveryVars PROVE RecoveryInv'
  OBVIOUS
<1>1. JournalInv' /\ JournalTypeOK'
  BY RecoveryMaps, JournalStep DEF RecoveryInv, JournalInv
<1>2. RecoveryTypeOK'
  BY <1>1, RecoveryTypeStep
<1>3. ASSUME SubmitterNext PROVE RecoveryFacts'
  <2>1. ASSUME NEW r \in Runtimes, NEW e \in Execs, NEW i \in Intents \cup {NoIntent},
               NEW n \in Notionals, NEW counted \in BOOLEAN,
               PrepareRecord(r, e, i, n, counted, account[ModeOf[r]].revision)
        PROVE  RecoveryFacts'
    BY <2>1, PrepareFacts
  <2>2. ASSUME NEW r \in Runtimes, NEW e \in Execs, NEW reported \in BOOLEAN,
               Permit(r, e, account[ModeOf[r]].revision, reported)
        PROVE  RecoveryFacts'
    BY <2>2, SubmitterFacts
  <2>3. ASSUME NEW e \in Execs, Leave(e) \/ GiveUp(e) \/ SettleByReply(e) \/ ReleasePrepared(e)
        PROVE  RecoveryFacts'
    BY <2>3, SubmitterFacts
  <2> QED BY <1>3, <2>1, <2>2, <2>3 DEF SubmitterNext
<1>4. ASSUME ExchangeNext PROVE RecoveryFacts'
  BY <1>4, ExchangeFacts DEF ExchangeNext
<1>5. ASSUME NEW r \in Runtimes, RecoverNext(r) PROVE RecoveryFacts'
  BY <1>5, RecoverFacts
<1>6. ASSUME UNCHANGED recoveryVars PROVE RecoveryFacts'
  <2>1. UNCHANGED <<rec, wire, order, reply, look>>
    BY <1>6 DEF recoveryVars, journalVars, recordVars, exchangeVars
  <2> QED BY <2>1, FactsHold, CallsAreQuiet, QuietStep DEF Held
<1>7. RecoveryFacts'
  BY <1>3, <1>4, <1>5, <1>6, ProcessFacts DEF RecoveryNext
<1> QED BY <1>1, <1>2, <1>7 DEF RecoveryInv, RecoveryFacts

\* The invariant of recovery against the exchange: nothing is sent that begin() did
\* not permit, final answers and lookups are true, and a request under way belongs to
\* an unresolved execution.
THEOREM RecoveryInvariant == RecoverySpec => []RecoveryInv
  BY RecoveryInitInv, RecoveryStep, PTL DEF RecoverySpec

\* wire, order, reply, arrivals and look keep their types through every interleaving.
THEOREM RecoveryTypeCorrect == RecoverySpec => []RecoveryTypeOK
<1>1. RecoveryInv => RecoveryTypeOK
  BY DEF RecoveryInv
<1> QED BY <1>1, RecoveryInvariant, PTL

\* Submitters, the exchange, recoveries and operators together make only calls of
\* ExecutionJournal.tla, so everything proved of the journal holds of them.
THEOREM RecoveryImplementsJournal == RecoverySpec => ImplementsJournal
<1>1. RecoveryInit => JournalInit
  BY DEF RecoveryInit
<1> QED BY <1>1, RecoveryMaps, RecoveryInvariant, PTL DEF RecoverySpec, ImplementsJournal, JournalSpec

\* Whatever answers are late, lost or stale, quota is given back for an order that
\* trades only if a lookup by a client id that two executions share told so.
THEOREM RecoveryLosesOnlyMisread == RecoverySpec => []LostOnlyIfMisread
<1>1. RecoveryInv => LostOnlyIfMisread
  BY DEF RecoveryInv
<1> QED BY <1>1, RecoveryInvariant, PTL

\* If no two executions share a client id, no lookup is misread.
LEMMA UniqueIdsSafe ==
    ASSUME RecoveryInv, UniqueClientIds
    PROVE  NoLostOrder /\ OneEntryInFlight /\ FenceIsolation
<1>1. \A e \in Execs : ~Misread(e)
  BY DEF UniqueClientIds, Misread
<1>2. NoLostOrder
  BY <1>1 DEF RecoveryInv, LostOnlyIfMisread, NoLostOrder
<1>3. \A e \in Execs : wire[e] \in {"permitted", "inflight"} => e \in Unresolved
  BY <1>1 DEF RecoveryInv, SentUnresolved, Unresolved
<1>4. OneEntryInFlight
  BY <1>3 DEF RecoveryInv, JournalInv, EntryExclusive, OneEntryInFlight
<1>5. FenceIsolation
  BY <1>3 DEF RecoveryInv, JournalInv, FenceQuiescent, FenceIsolation
<1> QED BY <1>2, <1>4, <1>5

\* As long as no intent is submitted twice, a released execution has no request under
\* way and no order that is open or filled: no timeout, crash, revocation, stale lookup
\* or operator gives back quota that is still at work.
THEOREM RecoveryNoLostOrder == RecoverySpec /\ []UniqueClientIds => []NoLostOrder
  BY RecoveryInvariant, UniqueIdsSafe, PTL

\* As long as no intent is submitted twice, at most one entry is on its way to the
\* exchange, over all processes and both modes.
THEOREM RecoveryOneEntryInFlight == RecoverySpec /\ []UniqueClientIds => []OneEntryInFlight
  BY RecoveryInvariant, UniqueIdsSafe, PTL

\* As long as no intent is submitted twice, nothing is on the wire behind the fence.
THEOREM RecoveryFenceIsolation == RecoverySpec /\ []UniqueClientIds => []FenceIsolation
  BY RecoveryInvariant, UniqueIdsSafe, PTL

-----------------------------------------------------------------------------
(* Submission refines recovery: every step is one it expects of a submitter *)

\* The revision a caller saw matters to prepare() and begin() only when there are
\* account limits, and then it is the account's.
LEMMA SeenIsCurrent ==
    ASSUME NEW r, NEW e, NEW i, NEW n, NEW counted, NEW v
    PROVE  /\ Prepare(r, e, i, n, counted, v)
                => Prepare(r, e, i, n, counted, account[ModeOf[r]].revision)
           /\ Begin(r, e, v) => Begin(r, e, account[ModeOf[r]].revision)
  BY DEF Prepare, Begin

\* Every step of the engine is a step of a submitter of recovery, or none.
LEMMA EngineMaps == EngineInv /\ [EngineNext]_engineVars => [RecoveryNext]_recoveryVars
<1> SUFFICES ASSUME EngineInv, [EngineNext]_engineVars PROVE [RecoveryNext]_recoveryVars
  OBVIOUS
<1>0. /\ exec \in [Plans -> Execs \cup {NoExec}]
      /\ \A p \in Plans : pc[p] \notin {"ready", "preflighted", "consumed"} => exec[p] \in Execs
  BY DEF EngineInv, EngineTypeOK
<1>1. ASSUME NEW p \in Plans,
             Submit(p) \/ Refuse(p) \/ ReadRevision(p) \/ Confirm(p) \/ Replan(p)
      PROVE  UNCHANGED recoveryVars
  BY <1>1 DEF Submit, Refuse, ReadRevision, Confirm, Replan
<1>2. ASSUME NEW p \in Plans, ReleaseAndThrow(p) \/ Send(p) \/ Answered(p) \/ TimedOut(p)
      PROVE  [RecoveryNext]_recoveryVars
  <2>1. exec[p] \in Execs
    BY <1>0, <1>2 DEF ReleaseAndThrow, Send, Answered, TimedOut
  <2>2. \/ UNCHANGED recoveryVars
        \/ ReleasePrepared(exec[p]) \/ Leave(exec[p]) \/ SettleByReply(exec[p]) \/ GiveUp(exec[p])
    BY <1>2 DEF ReleaseAndThrow, Send, Answered, TimedOut
  <2> QED BY <2>1, <2>2 DEF RecoveryNext, SubmitterNext
<1>3. ASSUME NEW p \in Plans, NEW e \in Execs, NEW reported \in BOOLEAN,
             RecordExecution(p, e, reported)
      PROVE  RecoveryNext
  <2> DEFINE r == RuntimeOf[p]
  <2>1. PrepareRecord(r, e, IntentOf[p], NotionalOf[p], CountedOf[p], seen[p])
    BY <1>3 DEF RecordExecution
  <2>2. PrepareRecord(r, e, IntentOf[p], NotionalOf[p], CountedOf[p], account[ModeOf[r]].revision)
    BY <2>1, SeenIsCurrent DEF PrepareRecord
  <2>3. /\ r \in Runtimes /\ IntentOf[p] \in Intents \cup {NoIntent}
        /\ NotionalOf[p] \in Notionals /\ CountedOf[p] \in BOOLEAN
    BY EngineAssumption
  <2> QED BY <2>2, <2>3 DEF RecoveryNext, SubmitterNext
<1>4. ASSUME NEW p \in Plans, NEW reported \in BOOLEAN, BeginSubmission(p, reported)
      PROVE  RecoveryNext
  <2> DEFINE r == RuntimeOf[p]
  <2>1. exec[p] \in Execs /\ r \in Runtimes
    BY <1>0, <1>4, EngineAssumption DEF BeginSubmission
  <2>2. Permit(r, exec[p], riskRevision[p], reported)
    BY <1>4 DEF BeginSubmission
  <2>3. Permit(r, exec[p], account[ModeOf[r]].revision, reported)
    BY <2>2, SeenIsCurrent DEF Permit
  <2> QED BY <2>1, <2>3 DEF RecoveryNext, SubmitterNext
<1>5. ASSUME NEW r \in Runtimes, EndProcess(r)
      PROVE  RecoveryNext
  <2> DEFINE own == {exec[p] : p \in {p \in Plans : RuntimeOf[p] = r}} \ {NoExec}
  <2>1. own \in SUBSET Execs
    BY <1>0
  <2>2. Crash(r, own)
    BY <1>5 DEF EndProcess
  <2> HIDE DEF own
  <2> QED BY <2>1, <2>2 DEF RecoveryNext
<1>6. ASSUME NEW r \in Runtimes, Start(r) \/ Maintain(r) \/ RecoverNext(r)
      PROVE  RecoveryNext
  BY <1>6 DEF RecoveryNext
<1>7. ASSUME ExchangeNext \/ Environment PROVE RecoveryNext
  BY <1>7 DEF RecoveryNext
<1>8. CASE UNCHANGED engineVars
  BY <1>8 DEF engineVars
<1> QED BY <1>1, <1>2, <1>3, <1>4, <1>5, <1>6, <1>7, <1>8 DEF EngineNext

-----------------------------------------------------------------------------
(* What recovery does to a plan's execution *)

\* No step takes a record off the journal, or its intent back, and only prepare()
\* makes one.
LEMMA RecordsStay ==
    ASSUME JournalTypeOK, [JournalNext]_journalVars, NEW f \in Execs
    PROVE  \/ /\ rec'[f].intent = rec[f].intent
              /\ rec[f].status # "absent" => rec'[f].status # "absent"
           \/ \E r \in Runtimes, i \in Intents \cup {NoIntent}, n \in Notionals, counted \in BOOLEAN :
                 Prepare(r, f, i, n, counted, account[ModeOf[r]].revision)
<1> DEFINE Stays == /\ rec'[f].intent = rec[f].intent
                    /\ rec[f].status # "absent" => rec'[f].status # "absent"
<1>0. rec \in [Execs -> Record]
  BY DEF JournalTypeOK
<1>1. ASSUME Quiet PROVE Stays
  BY <1>1 DEF Quiet, Moved
<1>2. ASSUME NEW e \in Execs, NEW s \in Settlements, NEW n \in Charges, Settle(e, s[1], n, s[2], s[3])
      PROVE  Stays
  <2>1. s[2] \in Resolved
    BY JournalAssumption
  <2>2. /\ rec'[e].status = s[2] /\ rec'[e].intent = rec[e].intent
        /\ \A g \in Execs \ {e} : rec'[g] = rec[g]
    BY <1>2, <2>1, SettleEffect
  <2> QED BY <2>1, <2>2 DEF Resolved
<1>3. ASSUME NEW e \in Execs, NEW r \in Runtimes, NEW i \in Intents \cup {NoIntent},
             NEW n \in Notionals, NEW counted \in BOOLEAN,
             Prepare(r, e, i, n, counted, account[ModeOf[r]].revision), e # f
      PROVE  Stays
  <2>1. rec'[f] = rec[f]
    BY <1>0, <1>3 DEF Prepare
  <2> QED BY <2>1
<1>4. ASSUME NEW e \in Execs,
             \/ \E r \in Runtimes : Begin(r, e, account[ModeOf[r]].revision)
             \/ Unknown(e) \/ ClaimAttempt(e) \/ ExhaustAttempts(e) \/ UpdateEvidence(e)
      PROVE  Stays
  <2>1. Quiet
    BY <1>4, CallsAreQuiet
  <2> QED BY <1>1, <2>1
<1>5. ASSUME UNCHANGED rec PROVE Stays
  BY <1>5
<1>6. ASSUME NEW r \in Runtimes,
             \/ Open(r) \/ Halt(r) \/ BeginMaintenance(r) \/ CancelMaintenance(r)
             \/ \E s \in Runtimes : Install(r, s)
             \/ \E byOperator \in BOOLEAN : CompleteMaintenance(r, byOperator)
      PROVE  UNCHANGED rec
  BY <1>6 DEF Open, Halt, BeginMaintenance, CancelMaintenance, Install, CompleteMaintenance, recordVars
<1>7. ASSUME NEW m, \/ Refresh \/ NextDay \/ Reset(m) \/ AccountVerdict(m)
                    \/ ClaimMutation(m) \/ FinishMutation(m) \/ UNCHANGED journalVars
      PROVE  UNCHANGED rec
  BY <1>7 DEF Refresh, NextDay, Reset, AccountVerdict, ClaimMutation, FinishMutation, recordVars,
     journalVars
<1> HIDE DEF Stays
<1>8. \/ Stays
      \/ \E r \in Runtimes, i \in Intents \cup {NoIntent}, n \in Notionals, counted \in BOOLEAN :
            Prepare(r, f, i, n, counted, account[ModeOf[r]].revision)
  BY <1>2, <1>3, <1>4, <1>5, <1>6, <1>7 DEF JournalNext
<1> QED BY <1>8 DEF Stays

\* A step that is not a submitter's sends nothing that was not permitted before.
LEMMA UnsentStays ==
    ASSUME RecoveryTypeOK, NEW f \in Execs, wire[f] = "unsent",
           \/ ExchangeNext \/ Environment
           \/ \E r \in Runtimes : Start(r) \/ Maintain(r) \/ RecoverNext(r)
           \/ \E r \in Runtimes, own \in SUBSET Execs : Crash(r, own)
    PROVE  wire'[f] = "unsent"
<1>0. wire \in [Execs -> Wires]
  BY DEF RecoveryTypeOK, Wires
<1>1. ASSUME NEW e \in Execs, Accept(e) \/ Drop(e) \/ Conclude(e)
      PROVE  wire'[f] = "unsent"
  BY <1>0, <1>1 DEF Accept, Drop, Conclude
<1>2. ASSUME NEW r \in Runtimes, Start(r) \/ Maintain(r) \/ RecoverNext(r)
      PROVE  UNCHANGED wire
  BY <1>2 DEF Start, Maintain, RecoverNext, RecoverRevoke, RecoverLookup, RecoverApply, RecoverPick,
     RecoverClaim, RecoverExhausted, RecoverUnsupported, ManuallyResolve, exchangeVars
<1>3. ASSUME NEW r \in Runtimes, NEW own \in SUBSET Execs, Crash(r, own)
      PROVE  wire'[f] = "unsent"
  BY <1>3 DEF Crash
<1>4. ASSUME Environment PROVE UNCHANGED wire
  BY <1>4 DEF Environment, exchangeVars
<1> QED BY <1>1, <1>2, <1>3, <1>4 DEF ExchangeNext

-----------------------------------------------------------------------------
(* The inductive step *)

PcLabels == Unsubmitted \cup {"sending", "waiting", "consumed"}

PlanTypes ==
    /\ pc \in [Plans -> PcLabels]
    /\ exec \in [Plans -> Execs \cup {NoExec}]
    /\ \A p \in Plans : pc[p] \notin {"ready", "preflighted", "consumed"} => exec[p] # NoExec
    /\ seen \in [Plans -> Nat]
    /\ riskRevision \in [Plans -> Nat]

\* The engine's types are those of recovery and of its plans.
LEMMA EngineTypes == EngineTypeOK <=> RecoveryTypeOK /\ PlanTypes
  BY DEF EngineTypeOK, PlanTypes, PcLabels, Unsubmitted

\* The plans' variables keep their types.
LEMMA PlanTypesStep ==
    ASSUME EngineInv, [EngineNext]_engineVars
    PROVE  PlanTypes'
<1>0. PlanTypes /\ JournalTypeOK
  BY EngineTypes DEF EngineInv, RecoveryInv, RecoveryTypeOK
<1>1. \A p \in Plans : AccountOf(p).revision \in Nat
  BY <1>0, EngineAssumption, JournalAssumption DEF AccountOf, JournalTypeOK
<1>2. ASSUME NEW p \in Plans, Submit(p)
      PROVE  PlanTypes'
  <2>1. seen' \in [Plans -> Nat] /\ UNCHANGED <<exec, riskRevision>> /\ Goto(p, "preflighted")
    BY <1>0, <1>1, <1>2 DEF Submit, PlanTypes
  <2> QED BY <1>0, <2>1 DEF PlanTypes, Goto, PcLabels, Unsubmitted
<1>3. ASSUME NEW p \in Plans, ReadRevision(p)
      PROVE  PlanTypes'
  <2>1. /\ riskRevision' \in [Plans -> Nat] /\ UNCHANGED <<exec, seen>> /\ Goto(p, "confirming")
        /\ pc[p] = "recorded"
    BY <1>0, <1>1, <1>3 DEF ReadRevision, PlanTypes
  <2> QED BY <1>0, <2>1 DEF PlanTypes, Goto, PcLabels, Unsubmitted
<1>4. ASSUME NEW p \in Plans,
             \/ Refuse(p) \/ Confirm(p) \/ ReleaseAndThrow(p) \/ Send(p) \/ Answered(p) \/ TimedOut(p)
             \/ \E reported \in BOOLEAN : BeginSubmission(p, reported)
      PROVE  PlanTypes'
  <2>1. /\ UNCHANGED <<exec, seen, riskRevision>>
        /\ \/ Goto(p, "ready") \/ Goto(p, "consumed")
           \/ /\ pc[p] \notin {"ready", "preflighted", "consumed"}
              /\ Goto(p, "confirmed") \/ Goto(p, "sending") \/ Goto(p, "waiting")
    BY <1>4 DEF Refuse, Confirm, ReleaseAndThrow, Send, Answered, TimedOut, BeginSubmission
  <2> QED BY <1>0, <2>1 DEF PlanTypes, Goto, PcLabels, Unsubmitted
<1>5. ASSUME NEW p \in Plans, Replan(p)
      PROVE  PlanTypes'
  <2>1. /\ UNCHANGED <<seen, riskRevision>> /\ Goto(p, "ready")
        /\ exec' = [exec EXCEPT ![p] = NoExec]
    BY <1>5 DEF Replan
  <2> QED BY <1>0, <2>1 DEF PlanTypes, Goto, PcLabels, Unsubmitted
<1>6. ASSUME NEW p \in Plans, NEW e \in Execs, NEW reported \in BOOLEAN,
             RecordExecution(p, e, reported)
      PROVE  PlanTypes'
  <2>1. /\ UNCHANGED <<seen, riskRevision>>
        /\ \/ Goto(p, "recorded") /\ exec' = [exec EXCEPT ![p] = e]
           \/ Goto(p, "ready") /\ UNCHANGED exec
    BY <1>6 DEF RecordExecution
  <2>2. e # NoExec
    BY RiskUsageAssumption
  <2> QED BY <1>0, <2>1, <2>2 DEF PlanTypes, Goto, PcLabels, Unsubmitted
<1>7. ASSUME NEW r \in Runtimes, EndProcess(r)
      PROVE  PlanTypes'
  BY <1>0, <1>7 DEF EndProcess, PlanTypes, PcLabels, Unsubmitted
<1>8. ASSUME UNCHANGED submitVars PROVE PlanTypes'
  BY <1>0, <1>8 DEF PlanTypes, submitVars
<1> QED BY <1>2, <1>3, <1>4, <1>5, <1>6, <1>7, <1>8 DEF EngineNext, engineVars

\* A plan's execution stays its own, and unsent until the plan is past begin().
LEMMA PlanOwnsStep ==
    ASSUME EngineInv, [EngineNext]_engineVars
    PROVE  PlanOwnsExecution'
<1>0. /\ PlanTypes /\ RecoveryTypeOK /\ JournalTypeOK /\ PlanOwnsExecution /\ SentBegun
      /\ wire \in [Execs -> Wires] /\ [JournalNext]_journalVars
  BY EngineTypes, EngineMaps, RecoveryMaps DEF EngineInv, RecoveryInv, RecoveryTypeOK, Wires
<1>1. /\ pc \in [Plans -> PcLabels]
      /\ exec \in [Plans -> Execs \cup {NoExec}]
      /\ \A p \in Plans : pc[p] \notin {"ready", "preflighted", "consumed"} => exec[p] # NoExec
  BY <1>0 DEF PlanTypes
<1>2. \A f \in Execs : rec[f].status # "absent" => rec'[f].status # "absent"
  <2> TAKE f \in Execs
  <2>1. ASSUME NEW r, NEW i, NEW n, NEW counted, NEW v, Prepare(r, f, i, n, counted, v)
        PROVE  rec[f].status = "absent"
    BY <2>1 DEF Prepare
  <2> QED BY <1>0, <2>1, RecordsStay
<1>3. ASSUME NEW p \in Plans, pc'[p] = "consumed" \/ pc'[p] = pc[p] \/ (pc[p] \in Unsubmitted),
             \A q \in Plans \ {p} : pc'[q] = pc[q], UNCHANGED exec,
             \A f \in Execs : wire[f] = "unsent" => wire'[f] = "unsent"
      PROVE  PlanOwnsExecution'
  <2> SUFFICES ASSUME NEW q \in Plans, exec[q] # NoExec
               PROVE  /\ rec'[exec[q]].status # "absent"
                      /\ \A s \in Plans : exec[s] = exec[q] => s = q
                      /\ pc'[q] \in Unsubmitted => wire'[exec[q]] = "unsent"
    BY <1>3 DEF PlanOwnsExecution
  <2>1. exec[q] \in Execs
    BY <1>1
  <2>2. pc'[q] \in Unsubmitted => pc[q] \in Unsubmitted
    BY <1>3 DEF Unsubmitted
  <2> QED BY <1>0, <1>2, <1>3, <2>1, <2>2 DEF PlanOwnsExecution
<1>4. ASSUME NEW p \in Plans,
             \/ Submit(p) \/ Refuse(p) \/ ReadRevision(p) \/ Confirm(p) \/ ReleaseAndThrow(p)
             \/ Answered(p) \/ TimedOut(p)
      PROVE  PlanOwnsExecution'
  <2>1. \A f \in Execs : wire[f] = "unsent" => wire'[f] = "unsent"
    BY <1>0, <1>4 DEF Submit, Refuse, ReadRevision, Confirm, ReleaseAndThrow, Answered, TimedOut,
       ReleasePrepared, SettleByReply, GiveUp, recoveryVars, exchangeVars
  <2>2. /\ UNCHANGED exec /\ \A q \in Plans \ {p} : pc'[q] = pc[q]
        /\ pc'[p] = "consumed" \/ pc[p] \in Unsubmitted
    BY <1>1, <1>4 DEF Submit, Refuse, ReadRevision, Confirm, ReleaseAndThrow, Answered, TimedOut,
       Goto, Unsubmitted
  <2> QED BY <1>3, <2>1, <2>2
<1>5. ASSUME NEW p \in Plans,
             Send(p) \/ \E reported \in BOOLEAN : BeginSubmission(p, reported)
      PROVE  PlanOwnsExecution'
  <2>1. /\ UNCHANGED exec /\ \A q \in Plans \ {p} : pc'[q] = pc[q]
        /\ pc'[p] \notin Unsubmitted /\ exec[p] \in Execs
    BY <1>1, <1>5 DEF Send, BeginSubmission, Goto, Unsubmitted
  <2>2. \A f \in Execs \ {exec[p]} : wire'[f] = wire[f]
    BY <1>0, <1>5 DEF Send, BeginSubmission, Leave, Permit
  <2> SUFFICES ASSUME NEW q \in Plans, exec[q] # NoExec
               PROVE  /\ rec'[exec[q]].status # "absent"
                      /\ \A s \in Plans : exec[s] = exec[q] => s = q
                      /\ pc'[q] \in Unsubmitted => wire'[exec[q]] = "unsent"
    BY <2>1 DEF PlanOwnsExecution
  <2>3. exec[q] \in Execs
    BY <1>1
  <2>4. CASE q = p
    BY <1>0, <1>2, <2>1, <2>3, <2>4 DEF PlanOwnsExecution
  <2>5. CASE q # p
    BY <1>0, <1>2, <2>1, <2>2, <2>3, <2>5 DEF PlanOwnsExecution
  <2> QED BY <2>4, <2>5
<1>6. ASSUME NEW p \in Plans, Replan(p)
      PROVE  PlanOwnsExecution'
  <2>1. /\ exec'[p] = NoExec /\ UNCHANGED <<rec, wire>>
        /\ \A q \in Plans \ {p} : exec'[q] = exec[q] /\ pc'[q] = pc[q]
    BY <1>1, <1>6 DEF Replan, Goto, recoveryVars, journalVars, recordVars, exchangeVars
  <2> QED BY <1>0, <2>1 DEF PlanOwnsExecution
<1>7. ASSUME NEW p \in Plans, NEW e \in Execs, NEW reported \in BOOLEAN,
             RecordExecution(p, e, reported)
      PROVE  PlanOwnsExecution'
  <2>1. /\ PrepareRecord(RuntimeOf[p], e, IntentOf[p], NotionalOf[p], CountedOf[p], seen[p])
        /\ pc[p] = "preflighted" /\ UNCHANGED wire
    BY <1>7 DEF RecordExecution, PrepareRecord, exchangeVars
  <2>2. rec[e].status = "absent" /\ rec'[e].status = "prepared"
    BY <1>0, <2>1 DEF PrepareRecord, Prepare, NoRecord, JournalTypeOK
  <2>3. wire[e] = "unsent" /\ \A q \in Plans : exec[q] # e
    BY <1>0, <2>2, RiskUsageAssumption DEF SentBegun, PlanOwnsExecution
  <2>4. CASE reported
    <3>1. /\ exec'[p] = e /\ pc'[p] = "recorded"
          /\ \A q \in Plans \ {p} : exec'[q] = exec[q] /\ pc'[q] = pc[q]
      BY <1>1, <1>7, <2>4 DEF RecordExecution, Goto
    <3> SUFFICES ASSUME NEW q \in Plans, exec'[q] # NoExec
                 PROVE  /\ rec'[exec'[q]].status # "absent"
                        /\ \A s \in Plans : exec'[s] = exec'[q] => s = q
                        /\ pc'[q] \in Unsubmitted => wire'[exec'[q]] = "unsent"
      BY DEF PlanOwnsExecution
    <3>2. CASE q = p
      BY <2>1, <2>2, <2>3, <3>1, <3>2
    <3>3. CASE q # p
      <4>1. exec'[q] = exec[q] /\ pc'[q] = pc[q] /\ exec[q] \in Execs
        BY <1>1, <3>1, <3>3
      <4> QED BY <1>0, <1>2, <2>1, <2>3, <3>1, <4>1 DEF PlanOwnsExecution
    <3> QED BY <3>2, <3>3
  <2>5. CASE ~reported
    <3>1. UNCHANGED exec /\ \A q \in Plans \ {p} : pc'[q] = pc[q]
      BY <1>1, <1>7, <2>5 DEF RecordExecution, Goto
    <3>2. pc[p] \in Unsubmitted
      BY <2>1 DEF Unsubmitted
    <3> QED BY <1>3, <2>1, <3>1, <3>2
  <2> QED BY <2>4, <2>5
<1>8. ASSUME NEW r \in Runtimes, EndProcess(r)
      PROVE  PlanOwnsExecution'
  <2>1. \A f \in Execs : wire[f] = "unsent" => wire'[f] = "unsent"
    BY <1>8 DEF EndProcess, Crash
  <2>2. \A q \in Plans : exec'[q] = NoExec \/ (exec'[q] = exec[q] /\ pc'[q] = pc[q])
    BY <1>8 DEF EndProcess
  <2> SUFFICES ASSUME NEW q \in Plans, exec'[q] # NoExec
               PROVE  /\ rec'[exec'[q]].status # "absent"
                      /\ \A s \in Plans : exec'[s] = exec'[q] => s = q
                      /\ pc'[q] \in Unsubmitted => wire'[exec'[q]] = "unsent"
    BY DEF PlanOwnsExecution
  <2>3. exec'[q] = exec[q] /\ pc'[q] = pc[q] /\ exec[q] \in Execs
    BY <1>1, <2>2
  <2> QED BY <1>0, <1>2, <2>1, <2>2, <2>3 DEF PlanOwnsExecution
<1>9. ASSUME UNCHANGED submitVars,
             \/ ExchangeNext \/ Environment \/ UNCHANGED recoveryVars
             \/ \E r \in Runtimes : Start(r) \/ Maintain(r) \/ RecoverNext(r)
      PROVE  PlanOwnsExecution'
  <2>1. \A f \in Execs : wire[f] = "unsent" => wire'[f] = "unsent"
    BY <1>0, <1>9, UnsentStays DEF recoveryVars, exchangeVars
  <2>2. UNCHANGED <<pc, exec>>
    BY <1>9 DEF submitVars
  <2> SUFFICES ASSUME NEW q \in Plans, exec[q] # NoExec
               PROVE  /\ rec'[exec[q]].status # "absent"
                      /\ \A s \in Plans : exec[s] = exec[q] => s = q
                      /\ pc[q] \in Unsubmitted => wire'[exec[q]] = "unsent"
    BY <2>2 DEF PlanOwnsExecution
  <2>3. exec[q] \in Execs
    BY <1>1
  <2> QED BY <1>0, <1>2, <2>1, <2>3 DEF PlanOwnsExecution
<1> QED BY <1>4, <1>5, <1>6, <1>7, <1>8, <1>9 DEF EngineNext, engineVars

IntentsKept == \A f \in Execs : rec'[f].intent = rec[f].intent

\* A settlement keeps the intents.
LEMMA SettleKeepsIntents ==
    ASSUME JournalTypeOK, NEW e \in Execs, NEW status \in Resolved, NEW evidence,
           \/ Settle(e, "release", 0, status, evidence)
           \/ \E n \in Charges : Settle(e, "commit", n, status, evidence)
           \/ \E fill \in Fills : SettleAs(e, fill, status, evidence)
    PROVE  IntentsKept
<1>1. ASSUME NEW outcome, NEW n, Settle(e, outcome, n, status, evidence)
      PROVE  IntentsKept
  BY <1>1, SettleEffect DEF IntentsKept
<1> QED BY <1>1 DEF SettleAs

\* Only prepare() gives a record its intent.
LEMMA RecoveryKeepsIntents ==
    ASSUME RecoveryInv,
           \/ \E e \in Execs : Leave(e) \/ GiveUp(e) \/ SettleByReply(e) \/ ReleasePrepared(e)
           \/ ExchangeNext \/ Environment \/ UNCHANGED recoveryVars
           \/ \E r \in Runtimes : Start(r) \/ Maintain(r) \/ RecoverNext(r)
           \/ \E r, own : Crash(r, own)
    PROVE  IntentsKept
<1>0. JournalTypeOK /\ LookupsTrue
  BY DEF RecoveryInv, RecoveryTypeOK
<1>1. ASSUME Quiet PROVE IntentsKept
  BY <1>1 DEF Quiet, Moved, IntentsKept
<1>2. ASSUME UNCHANGED rec PROVE IntentsKept
  BY <1>2 DEF IntentsKept
<1>3. \A x \in {"acknowledged", "definite-rejection", "reconciled"} : x \in Resolved
  BY DEF Resolved
<1>4. ASSUME NEW e \in Execs, Leave(e) \/ GiveUp(e) \/ SettleByReply(e) \/ ReleasePrepared(e)
      PROVE  IntentsKept
  <2>1. \/ UNCHANGED rec \/ Unknown(e)
        \/ Settle(e, "release", 0, "definite-rejection", "none")
        \/ \E fill \in Fills : SettleAs(e, fill, "acknowledged", "submission")
    BY <1>4 DEF Leave, GiveUp, SettleByReply, ReleasePrepared, SettleAs, Fills, journalVars, recordVars
  <2>2. Unknown(e) => Quiet
    BY <1>0, CallsAreQuiet
  <2> QED BY <1>0, <1>1, <1>2, <1>3, <2>1, <2>2, SettleKeepsIntents
<1>5. ASSUME NEW r \in Runtimes, RecoverRevoke(r) \/ RecoverLookup(r) \/ RecoverApply(r)
      PROVE  IntentsKept
  <2> DEFINE e == look[r].exec
  <2>1. \/ UNCHANGED rec \/ Unknown(e)
        \/ Settle(e, "release", 0, "reconciled", "none")
        \/ \E fill \in Fills : SettleAs(e, fill, "reconciled", "client-id-lookup")
    BY <1>5 DEF RecoverRevoke, RecoverLookup, RecoverApply, SettleAs, Fills, journalVars, recordVars
  <2>2. e \in Execs
    BY <1>0, <1>5 DEF RecoverRevoke, RecoverLookup, RecoverApply, LookupsTrue
  <2>3. Unknown(e) => Quiet
    BY <1>0, <2>2, CallsAreQuiet
  <2> QED BY <1>0, <1>1, <1>2, <1>3, <2>1, <2>2, <2>3, SettleKeepsIntents
<1>6. ASSUME NEW r \in Runtimes, NEW e \in Execs,
             \/ RecoverPick(r, e) \/ RecoverClaim(r, e) \/ RecoverExhausted(r, e)
             \/ RecoverUnsupported(r, e) \/ ManuallyResolve(r, e)
      PROVE  IntentsKept
  <2>1. \/ UNCHANGED rec \/ Unknown(e) \/ ClaimAttempt(e) \/ ExhaustAttempts(e)
        \/ Settle(e, "release", 0, "reconciled", "operator")
        \/ \E n \in Charges : Settle(e, "commit", n, "reconciled", "operator")
    BY <1>6 DEF RecoverPick, RecoverClaim, RecoverExhausted, RecoverUnsupported, ManuallyResolve,
       journalVars, recordVars
  <2>2. Unknown(e) \/ ClaimAttempt(e) \/ ExhaustAttempts(e) => Quiet
    BY <1>0, CallsAreQuiet
  <2> QED BY <1>0, <1>1, <1>2, <1>3, <2>1, <2>2, SettleKeepsIntents
<1>7. ASSUME NEW r, NEW own, Start(r) \/ Maintain(r) \/ Crash(r, own)
      PROVE  UNCHANGED rec
  BY <1>7 DEF Start, Maintain, Crash, Halt, Open, BeginMaintenance, CancelMaintenance, Install,
     CompleteMaintenance, recordVars
<1>8. ASSUME ExchangeNext \/ UNCHANGED recoveryVars PROVE UNCHANGED rec
  BY <1>8 DEF ExchangeNext, Accept, Drop, Conclude, recoveryVars, journalVars, recordVars
<1>9. ASSUME Environment PROVE Quiet
  <2>1. UNCHANGED rec \/ \E e \in Execs : UpdateEvidence(e)
    BY <1>9 DEF Environment, NextDay, Refresh, Reset, AccountVerdict, ClaimMutation,
       FinishMutation, recordVars
  <2> QED BY <1>0, <2>1, CallsAreQuiet
<1> QED BY <1>1, <1>2, <1>4, <1>5, <1>6, <1>7, <1>8, <1>9 DEF RecoverNext

\* Every record carries the intent of the plan that prepared it.
LEMMA IntentsStep ==
    ASSUME EngineInv, [EngineNext]_engineVars
    PROVE  IntentsFromPlans'
<1>0. /\ RecoveryInv /\ IntentsFromPlans /\ rec \in [Execs -> Record]
      /\ \A p \in Plans : pc[p] \notin {"ready", "preflighted", "consumed"} => exec[p] \in Execs
  BY DEF EngineInv, EngineTypeOK, RecoveryTypeOK, JournalTypeOK
<1>1. ASSUME IntentsKept PROVE IntentsFromPlans'
  BY <1>0, <1>1 DEF IntentsKept, IntentsFromPlans
<1>2. ASSUME NEW p \in Plans, NEW e \in Execs, NEW reported \in BOOLEAN,
             RecordExecution(p, e, reported)
      PROVE  IntentsFromPlans'
  <2>1. rec'[e].intent = IntentOf[p] /\ \A f \in Execs \ {e} : rec'[f] = rec[f]
    BY <1>0, <1>2 DEF RecordExecution, PrepareRecord, Prepare, NoRecord
  <2> QED BY <1>0, <2>1 DEF IntentsFromPlans
<1>3. ASSUME NEW p \in Plans,
             \/ Submit(p) \/ Refuse(p) \/ ReadRevision(p) \/ Confirm(p) \/ ReleaseAndThrow(p)
             \/ Send(p) \/ Answered(p) \/ TimedOut(p) \/ Replan(p)
      PROVE  IntentsKept
  <2>1. \/ UNCHANGED recoveryVars
        \/ /\ exec[p] \in Execs
           /\ \/ ReleasePrepared(exec[p]) \/ Leave(exec[p])
              \/ SettleByReply(exec[p]) \/ GiveUp(exec[p])
    BY <1>0, <1>3 DEF Submit, Refuse, ReadRevision, Confirm, ReleaseAndThrow, Send, Answered,
       TimedOut, Replan
  <2> QED BY <1>0, <2>1, RecoveryKeepsIntents
<1>4. ASSUME NEW p \in Plans, NEW reported \in BOOLEAN, BeginSubmission(p, reported)
      PROVE  IntentsKept
  <2>1. exec[p] \in Execs /\ Permit(RuntimeOf[p], exec[p], riskRevision[p], reported)
    BY <1>0, <1>4 DEF BeginSubmission
  <2>2. Quiet
    BY <1>0, <2>1, CallsAreQuiet DEF Permit, RecoveryInv, RecoveryTypeOK
  <2> QED BY <2>2 DEF Quiet, Moved, IntentsKept
<1>5. ASSUME NEW r \in Runtimes, EndProcess(r)
      PROVE  IntentsKept
  <2>1. \E own : Crash(r, own)
    BY <1>5 DEF EndProcess
  <2> QED BY <1>0, <2>1, RecoveryKeepsIntents
<1>6. ASSUME \/ ExchangeNext \/ Environment \/ UNCHANGED recoveryVars
             \/ \E r \in Runtimes : Start(r) \/ Maintain(r) \/ RecoverNext(r)
      PROVE  IntentsKept
  BY <1>0, <1>6, RecoveryKeepsIntents
<1> QED BY <1>1, <1>2, <1>3, <1>4, <1>5, <1>6 DEF EngineNext, engineVars

-----------------------------------------------------------------------------
(* The theorems *)

\* No plan has been submitted at the start.
LEMMA EngineInitInv == EngineInit => EngineInv
<1> SUFFICES ASSUME EngineInit PROVE EngineInv
  OBVIOUS
<1>1. RecoveryInv /\ RecoveryTypeOK
  BY RecoveryInitInv DEF EngineInit, RecoveryInv
<1>2. EngineTypeOK /\ PlanOwnsExecution
  BY <1>1 DEF EngineInit, EngineTypeOK, PlanOwnsExecution
<1>3. IntentsFromPlans
  BY DEF EngineInit, RecoveryInit, JournalInit, NoRecord, IntentsFromPlans
<1> QED BY <1>1, <1>2, <1>3 DEF EngineInv

\* Every step of the engine preserves the invariant.
LEMMA EngineStep == EngineInv /\ [EngineNext]_engineVars => EngineInv'
<1> SUFFICES ASSUME EngineInv, [EngineNext]_engineVars PROVE EngineInv'
  OBVIOUS
<1>1. RecoveryInv' /\ RecoveryTypeOK'
  BY EngineMaps, RecoveryStep DEF EngineInv, RecoveryInv
<1>2. PlanTypes'
  BY PlanTypesStep
<1>3. EngineTypeOK'
  BY <1>1, <1>2 DEF EngineTypeOK, PlanTypes, PcLabels, Unsubmitted
<1>4. PlanOwnsExecution' /\ IntentsFromPlans'
  BY PlanOwnsStep, IntentsStep
<1> QED BY <1>1, <1>3, <1>4 DEF EngineInv

\* The invariant of submission: every plan past prepare() owns one execution, of which
\* nothing was sent before begin() reported success.
THEOREM EngineInvariant == EngineSpec => []EngineInv
  BY EngineInitInv, EngineStep, PTL DEF EngineSpec

\* pc, exec, seen and riskRevision keep their types through every interleaving.
THEOREM EngineTypeCorrect == EngineSpec => []EngineTypeOK
<1>1. EngineInv => EngineTypeOK
  BY DEF EngineInv
<1> QED BY <1>1, EngineInvariant, PTL

\* submitWithReservation makes only the steps that recovery expects of a submitter,
\* for every interleaving with recovery, crashes, maintenance and account changes.
THEOREM EngineImplementsRecovery == EngineSpec => ImplementsRecovery
<1>1. EngineInit => RecoveryInit
  BY DEF EngineInit
<1> QED BY <1>1, EngineMaps, EngineInvariant, PTL DEF EngineSpec, ImplementsRecovery, RecoverySpec

\* A plan whose order is open, filled or on its way is never submitted again.
THEOREM EngineSentPlanSpent == EngineSpec => []SentPlanSpent
<1>1. EngineInv => SentPlanSpent
  <2> SUFFICES ASSUME EngineInv, NEW p \in Plans, exec[p] # NoExec, MayTrade(exec[p])
               PROVE  pc[p] \in {"sending", "waiting", "consumed"}
    BY DEF SentPlanSpent
  <2>1. exec[p] \in Execs /\ pc[p] \in PcLabels
    BY EngineTypes DEF EngineInv, PlanTypes
  <2>2. wire[exec[p]] # "unsent"
    BY <2>1 DEF EngineInv, RecoveryInv, AnswersTrue, MayTrade
  <2>3. pc[p] \notin Unsubmitted
    BY <2>2 DEF EngineInv, PlanOwnsExecution
  <2> QED BY <2>1, <2>3 DEF PcLabels
<1> QED BY <1>1, EngineInvariant, PTL

\* What is left of a plan without a stable intent carries a client order id of its own,
\* so lookups never confuse two orders: whatever engines, recoveries and operators do,
\* at most one entry is on its way to the exchange, no order that trades is given back
\* as unused, and nothing is on the wire behind the maintenance fence.
THEOREM EngineSafeWithoutIntents ==
    ASSUME \A p \in Plans : IntentOf[p] = NoIntent
    PROVE  EngineSpec => [](OneEntryInFlight /\ NoLostOrder /\ FenceIsolation)
<1>1. EngineInv => OneEntryInFlight /\ NoLostOrder /\ FenceIsolation
  <2> SUFFICES ASSUME EngineInv PROVE OneEntryInFlight /\ NoLostOrder /\ FenceIsolation
    OBVIOUS
  <2>1. UniqueClientIds
    BY DEF EngineInv, IntentsFromPlans, UniqueClientIds, Shared, SameClientId
  <2> QED BY <2>1, UniqueIdsSafe DEF EngineInv
<1> QED BY <1>1, EngineInvariant, PTL

\* What the journal promises to any caller, it promises under the engine, recovery,
\* operators and crashes together: one entry at a time, usage that is exactly what
\* executions were charged, a cap that only fills above their claims exceed, a quiet
\* fence, intents that trade once, and settlements that are final.
THEOREM EngineKeepsJournal ==
    EngineSpec => /\ [](EntryExclusive /\ QuotaExact /\ UsedExact /\ QuotaHonoured /\ FenceQuiescent /\ IntentOnce)
                  /\ SettlementFinal
<1>1. EngineSpec => JournalSpec
  BY EngineImplementsRecovery, RecoveryImplementsJournal, PTL DEF ImplementsRecovery, ImplementsJournal
<1> QED
  BY <1>1, EntryIsExclusive, QuotaFollowsExecutions, UsageIsExact, DailyCapHolds, FenceIsQuiescent,
     IntentTradesOnce, SettlementsAreFinal, PTL

\* Plans with a stable intent may share a client order id.  Whatever else engines,
\* recoveries and operators do, the only order that is given back as unused and may yet
\* trade is one whose lookup answered with the order of another execution of its intent.
THEOREM EngineLosesOnlyMisread == EngineSpec => []LostOnlyIfMisread
  BY EngineImplementsRecovery, RecoveryLosesOnlyMisread, PTL DEF ImplementsRecovery

=============================================================================
