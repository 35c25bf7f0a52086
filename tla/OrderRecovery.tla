---------------------------- MODULE OrderRecovery ----------------------------
(***************************************************************************)
(* The journal against an exchange: placement requests on the wire, the    *)
(* orders they leave, and recovery (src/execution-recovery.ts), run by     *)
(* several processes at once.  The exchange answers late or never, a       *)
(* request may still be under way when its sender has given up or died,    *)
(* and a lookup answers about a moment that has passed.                    *)
(*                                                                         *)
(* RecoverySpec asks little of submitters: they send only what begin()     *)
(* permitted, settle only by the exchange's answer, and release without    *)
(* one only what was never begun.  TradingEngine.tla implements it.        *)
(***************************************************************************)
EXTENDS ExecutionJournal

CONSTANT LookupChoices  \* the sets of executions that may be the lookupable ones

ASSUME RecoveryAssumption ==
    /\ LookupChoices \subseteq SUBSET Execs
    /\ AllSettlements \subseteq Settlements
    /\ Notionals \cup {0} \subseteq Charges

VARIABLES
    wire,       \* per execution: its placement request
    order,      \* per execution: its order at the exchange
    reply,      \* per execution: the exchange's answer to the request
    lookupable, \* executions whose venue and order type can be queried by client id; never changes
    arrivals,   \* executions in the order prepare() appended their records
    look        \* per runtime: the record its recovery works on

exchangeVars == <<wire, order, reply, lookupable>>
recoveryVars == <<journalVars, exchangeVars, arrivals, look>>

Fills == {"open", "filled", "void"}     \* void: ended without a fill

Idle == [at |-> "idle", exec |-> NoExec, revision |-> 0, found |-> "none"]

RecoveryTypeOK ==
    /\ JournalTypeOK
    /\ wire \in [Execs -> {"unsent", "permitted", "inflight", "accepted", "gone"}]
    /\ order \in [Execs -> {"none"} \cup Fills]
    /\ reply \in [Execs -> {"none", "rejected"} \cup Fills]
    /\ lookupable \in SUBSET Execs
    /\ arrivals \in Seq(Execs)
    /\ look \in [Runtimes -> [at : {"idle", "prepared", "claimed", "answered"},
                              exec : Execs \cup {NoExec}, revision : Nat,
                              found : {"none"} \cup Fills]]

RecoveryInit ==
    /\ JournalInit
    /\ wire = [e \in Execs |-> "unsent"]
    /\ order = [e \in Execs |-> "none"]
    /\ reply = [e \in Execs |-> "none"]
    /\ lookupable \in LookupChoices
    /\ arrivals = <<>>
    /\ look = [r \in Runtimes |-> Idle]

Running(r) == captured[r] # -1

-----------------------------------------------------------------------------
(* Submission, as recovery sees it *)

\* The next execution id is random: a new one, and it does not matter which.
NextExec == CHOOSE e \in Execs : rec[e].status = "absent"

\* prepare() appends the record.
PrepareRecord(r, e, i, n, counted, seen) ==
    /\ Prepare(r, e, i, n, counted, seen) /\ e = NextExec
    /\ arrivals' = Append(arrivals, e)
    /\ UNCHANGED <<exchangeVars, look>>

\* begin() commits.  Only a caller that learns so may send.
Permit(r, e, riskRevision, reported) ==
    /\ Begin(r, e, riskRevision)
    /\ wire' = IF reported THEN [wire EXCEPT ![e] = "permitted"] ELSE wire
    /\ UNCHANGED <<order, reply, lookupable, arrivals, look>>

\* submit(): the placement request leaves the process.
Leave(e) ==
    /\ wire[e] = "permitted"
    /\ wire' = [wire EXCEPT ![e] = "inflight"]
    /\ UNCHANGED <<journalVars, order, reply, lookupable, arrivals, look>>

\* Mutant: a timeout counts as a rejection.
TimeoutIsRejection(e) ==
    /\ Settle(e, "release", 0, "definite-rejection", "none") \/ UNCHANGED journalVars
    /\ UNCHANGED <<exchangeVars, arrivals, look>>

\* No answer, or none that can be trusted; what was not sent yet never will be.
GiveUp(e) ==
    /\ Unknown(e) \/ UNCHANGED journalVars
    /\ wire' = [wire EXCEPT ![e] = IF @ = "permitted" THEN "unsent" ELSE @]
    /\ UNCHANGED <<order, reply, lookupable, arrivals, look>>

\* The settlement an order observed in the state fill calls for: an open order is
\* charged what was claimed, or what it cost so far if that is more; a final one what
\* it cost, nothing if it never filled.
SettleAs(e, fill, status, evidence) ==
    \/ fill = "open" /\ \E n \in Charges : n >= rec[e].notional /\ Settle(e, "commit", n, status, evidence)
    \/ fill = "filled" /\ \E n \in Charges \ {0} : Settle(e, "commit", n, status, evidence)
    \/ fill = "void" /\ Settle(e, "release", 0, status, evidence)

\* The submitter settles by the answer to its request.
SettleByReply(e) ==
    /\ \/ reply[e] = "rejected" /\ Settle(e, "release", 0, "definite-rejection", "none")
       \/ SettleAs(e, reply[e], "acknowledged", "submission")
    /\ UNCHANGED <<exchangeVars, arrivals, look>>

\* Mutant: the release does not compare the revision.
ReleaseStale(e) ==
    /\ Settle(e, "release", 0, "definite-rejection", "none")
    /\ UNCHANGED <<exchangeVars, arrivals, look>>

\* Declined, drifted or refused by begin(): released only as prepare() left it.
ReleasePrepared(e) ==
    /\ rec[e].revision = 0
    /\ Settle(e, "release", 0, "definite-rejection", "none")
    /\ UNCHANGED <<exchangeVars, arrivals, look>>

-----------------------------------------------------------------------------
(* The exchange (external) *)

\* executionClientIds: executions of one intent share their client order id;
\* without a stable intent every execution has its own.
SameClientId(e, f) == e = f \/ (rec[e].intent # NoIntent /\ rec[e].intent = rec[f].intent)

\* A client order id is refused while another order with it is open.
Accept(e) ==
    /\ wire[e] = "inflight"
    /\ \A f \in Execs \ {e} : SameClientId(e, f) => order[f] # "open"
    /\ wire' = [wire EXCEPT ![e] = "accepted"]
    /\ \E fill \in Fills :
          /\ order' = [order EXCEPT ![e] = fill]
          /\ reply' = [reply EXCEPT ![e] = fill]
    /\ UNCHANGED <<journalVars, lookupable, arrivals, look>>

\* Refused, or lost on the way.
Drop(e) ==
    /\ wire[e] = "inflight"
    /\ wire' = [wire EXCEPT ![e] = "gone"]
    /\ \E answer \in {"none", "rejected"} : reply' = [reply EXCEPT ![e] = answer]
    /\ UNCHANGED <<journalVars, order, lookupable, arrivals, look>>

\* An open order fills or is cancelled.
Conclude(e) ==
    /\ order[e] = "open"
    /\ \E fill \in {"filled", "void"} : order' = [order EXCEPT ![e] = fill]
    /\ UNCHANGED <<journalVars, wire, reply, lookupable, arrivals, look>>

-----------------------------------------------------------------------------
(* Recovery: recoverJournal *)

\* A record of this scope is found prepared, perhaps by a confirmer still alive.
RecoverPick(r, e) ==
    /\ Running(r) /\ look[r] = Idle
    /\ rec[e].status = "prepared" /\ rec[e].mode = ModeOf[r]
    /\ look' = [look EXCEPT ![r] = [Idle EXCEPT !.at = "prepared", !.exec = e,
                                                !.revision = rec[e].revision]]
    /\ UNCHANGED <<journalVars, exchangeVars, arrivals>>

\* It is released if it is still at the revision that was listed.
RecoverRevoke(r) ==
    LET e == look[r].exec IN
    /\ look[r].at = "prepared"
    /\ IF IsUnresolved(e) /\ rec[e].revision = look[r].revision
       THEN Settle(e, "release", 0, "reconciled", "none")
       ELSE UNCHANGED journalVars
    /\ look' = [look EXCEPT ![r] = Idle]
    /\ UNCHANGED <<exchangeVars, arrivals>>

\* A started or unknown record of this scope gets one of its bounded lookups.
RecoverClaim(r, e) ==
    /\ Running(r) /\ look[r] = Idle
    /\ rec[e].mode = ModeOf[r] /\ e \in lookupable
    /\ ClaimAttempt(e)
    /\ look' = [look EXCEPT ![r] = [Idle EXCEPT !.at = "claimed", !.exec = e,
                                                !.revision = rec[e].revision + 1]]
    /\ UNCHANGED <<exchangeVars, arrivals>>

RecoverExhausted(r, e) ==
    /\ Running(r) /\ look[r] = Idle
    /\ rec[e].mode = ModeOf[r] /\ e \in lookupable
    /\ ExhaustAttempts(e)
    /\ UNCHANGED <<exchangeVars, arrivals, look>>

\* Without a correlated lookup the record is only marked unknown.
RecoverUnsupported(r, e) ==
    /\ Running(r) /\ look[r] = Idle
    /\ rec[e].mode = ModeOf[r] /\ e \notin lookupable
    /\ rec[e].status # "prepared" /\ Unknown(e)
    /\ UNCHANGED <<exchangeVars, arrivals, look>>

\* getOrderByClientId answers with an order of that client id (paper the oldest,
\* other venues the youngest) or with nothing: none is found or visible yet, the
\* query failed or timed out.
Found(e) == {order[f] : f \in {f \in Execs : SameClientId(e, f)}} \cup {"none"}

RecoverLookup(r) ==
    /\ look[r].at = "claimed"
    /\ \E found \in Found(look[r].exec) :
          look' = [look EXCEPT ![r].at = "answered", ![r].found = found]
    /\ UNCHANGED <<journalVars, exchangeVars, arrivals>>

\* Mutant: an order that is not found is prepared for sending again.
RecoverRearms(r) ==
    LET e == look[r].exec IN
    /\ look[r].at = "answered"
    /\ IF IsUnresolved(e) /\ rec[e].revision = look[r].revision /\ look[r].found = "none"
       THEN /\ rec' = [rec EXCEPT ![e].status = "prepared"]
            /\ UNCHANGED <<usageVars, closed, intentKeys, fenceVars, captured, account>>
       ELSE UNCHANGED journalVars
    /\ look' = [look EXCEPT ![r] = Idle]
    /\ UNCHANGED <<exchangeVars, arrivals>>

\* The answer is applied only to the revision the lookup was claimed for.  Not
\* found, or evidence that does not match: the execution stays unknown.
RecoverApply(r) ==
    LET e == look[r].exec IN
    /\ look[r].at = "answered"
    /\ IF IsUnresolved(e) /\ rec[e].revision = look[r].revision
       THEN \/ Unknown(e)
            \/ SettleAs(e, look[r].found, "reconciled", "client-id-lookup")
            \/ UNCHANGED journalVars            \* the write failed
       ELSE UNCHANGED journalVars
    /\ look' = [look EXCEPT ![r] = Idle]
    /\ UNCHANGED <<exchangeVars, arrivals>>

\* What the operator attests (external): the request is not under way, and the
\* order, if there is one, has ended.
VerifiedTerminal(e) == wire[e] \notin {"permitted", "inflight"} /\ order[e] # "open"

\* manuallyResolveExecution, in a runtime of the execution's scope: what did not fill is
\* released; of what did any notional is committed, even none.
ManuallyResolve(r, e) ==
    /\ Running(r) /\ rec[e].mode = ModeOf[r]
    /\ IsUnresolved(e) /\ VerifiedTerminal(e)
    /\ \/ order[e] # "filled" /\ Settle(e, "release", 0, "reconciled", "operator")
       \/ order[e] = "filled" /\ \E n \in Charges : Settle(e, "commit", n, "reconciled", "operator")
    /\ UNCHANGED <<exchangeVars, arrivals, look>>

-----------------------------------------------------------------------------
(* Processes and the rest of the shared state *)

Start(r) == Open(r) /\ UNCHANGED <<exchangeVars, arrivals, look>>

\* A process ends.  Its lookup goes with it, and so do those permissions to send
\* that were its own; requests that left stay under way.
Crash(r, own) ==
    /\ Halt(r)
    /\ wire' = [e \in Execs |-> IF e \in own /\ wire[e] = "permitted" THEN "unsent" ELSE wire[e]]
    /\ look' = [look EXCEPT ![r] = Idle]
    /\ UNCHANGED <<order, reply, lookupable, arrivals>>

\* Runtime replacement and account reset (trading-agent/src/context.ts).
Maintain(r) ==
    /\ \/ BeginMaintenance(r)
       \/ CancelMaintenance(r)
       \/ \E s \in Runtimes : Install(r, s)
       \/ \E byOperator \in BOOLEAN : CompleteMaintenance(r, byOperator)
    /\ UNCHANGED <<exchangeVars, arrivals, look>>

\* The clock, and what a running process does besides submitting: quota bookkeeping,
\* account observation, cancellations and settings, evidence of settled orders.
Environment ==
    /\ \/ NextDay
       \/ \E r \in Runtimes :
             /\ Running(r)
             /\ \/ Refresh \/ Reset(ModeOf[r])
                \/ AccountVerdict(ModeOf[r])
                \/ ClaimMutation(ModeOf[r]) \/ FinishMutation(ModeOf[r])
       \/ \E e \in Execs : UpdateEvidence(e)
    /\ UNCHANGED <<exchangeVars, arrivals, look>>

-----------------------------------------------------------------------------
SubmitterNext ==
    \/ \E r \in Runtimes, e \in Execs :
          \/ \E i \in Intents \cup {NoIntent}, n \in Notionals, counted \in BOOLEAN :
                PrepareRecord(r, e, i, n, counted, account[ModeOf[r]].revision)
          \/ \E reported \in BOOLEAN : Permit(r, e, account[ModeOf[r]].revision, reported)
    \/ \E e \in Execs : Leave(e) \/ GiveUp(e) \/ SettleByReply(e) \/ ReleasePrepared(e)

ExchangeNext == \E e \in Execs : Accept(e) \/ Drop(e) \/ Conclude(e)

RecoverNext(r) ==
    \/ RecoverRevoke(r) \/ RecoverLookup(r) \/ RecoverApply(r)
    \/ \E e \in Execs : \/ RecoverPick(r, e) \/ RecoverClaim(r, e) \/ RecoverExhausted(r, e)
                      \/ RecoverUnsupported(r, e) \/ ManuallyResolve(r, e)

RecoveryNext ==
    \/ SubmitterNext
    \/ ExchangeNext
    \/ \E r \in Runtimes : Start(r) \/ Maintain(r) \/ RecoverNext(r)
    \/ \E r \in Runtimes, own \in SUBSET Execs : Crash(r, own)
    \/ Environment

RecoverySpec == RecoveryInit /\ [][RecoveryNext]_recoveryVars

-----------------------------------------------------------------------------
(* Fairness *)

\* Mutant: a pass takes the record that arrived last.
YoungestUnknown(m) ==
    LET at == {k \in 1..Len(arrivals) :
                  rec[arrivals[k]].status = "unknown" /\ rec[arrivals[k]].mode = m}
    IN  {arrivals[k] : k \in {k \in at : \A j \in at : k >= j}}

\* The oldest unknown record of the scope: superviseAccountRisk recovers with
\* maxRecords 1 and unknownOnly, and the journal lists records as they arrived.
OldestUnknown(m) ==
    LET at == {k \in 1..Len(arrivals) :
                  rec[arrivals[k]].status = "unknown" /\ rec[arrivals[k]].mode = m}
    IN  {arrivals[k] : k \in {k \in at : \A j \in at : k <= j}}

\* One pass of periodic supervision.
Supervise(r) ==
    \E e \in OldestUnknown(ModeOf[r]) : RecoverClaim(r, e) \/ RecoverExhausted(r, e)

\* Lookups end (bounded-lookup.ts), processes are started again, and the
\* supervisor of a runtime that is up again and again gets its turn.
SupervisionFairness ==
    \A r \in Runtimes :
        /\ WF_recoveryVars(Start(r))
        /\ WF_recoveryVars(RecoverRevoke(r) \/ RecoverLookup(r) \/ RecoverApply(r))
        /\ SF_recoveryVars(Supervise(r))

LiveRecoverySpec == RecoverySpec /\ SupervisionFairness

-----------------------------------------------------------------------------
(* What recovery promises *)

\* The request of e may still reach the exchange, or left an order there that is
\* open or filled.
MayTrade(e) == wire[e] \in {"permitted", "inflight"} \/ order[e] \in {"open", "filled"}

\* Quota is given back only for an execution that never trades: whatever timed
\* out, crashed, was revoked, looked up or resolved by hand, a released execution
\* has no request under way and no order that is open or filled.
NoLostOrder ==
    \A e \in Execs : rec[e].outcome = "release" => ~MayTrade(e)

\* Over all processes and both modes at most one entry is on its way to the
\* exchange, whatever recovery and operators settled meanwhile.
OneEntryInFlight ==
    \A e, f \in Execs :
        /\ rec[e].counted /\ wire[e] \in {"permitted", "inflight"}
        /\ rec[f].counted /\ wire[f] \in {"permitted", "inflight"}
        => e = f

\* Behind the maintenance fence nothing is on the wire and nothing may be sent,
\* so the account may be reset and the client replaced.
FenceIsolation ==
    fence => \A e \in Execs : wire[e] \notin {"permitted", "inflight"}

\* Submitters, recovery and operators together make only calls that the journal's
\* promises cover.
ImplementsJournal == JournalSpec

Decided(e) == IsResolved(e) \/ rec[e].issue = "attempts-exhausted"

\* No record of its account arrived before the k-th and is still unresolved.
FirstUnresolved(k) ==
    \A j \in 1..k - 1 : rec[arrivals[j]].mode = rec[arrivals[k]].mode => IsResolved(arrivals[j])

\* Supervision settles the oldest unresolved execution of an account once it is
\* unknown and can be looked up, or hands it to an operator, through lookups that
\* fail, find nothing or are cut short by a crash.  (Not every unknown one: each pass
\* takes one record, and an exhausted one stays the oldest.)
OldestDecided ==
    \A k \in 1..Cardinality(Execs) :
        (/\ k <= Len(arrivals) /\ FirstUnresolved(k)
         /\ rec[arrivals[k]].status = "unknown" /\ arrivals[k] \in lookupable)
            ~> (k <= Len(arrivals) /\ Decided(arrivals[k]))

-----------------------------------------------------------------------------
(* The inductive invariant behind these promises *)

\* Executions of one intent share a client order id, so a lookup for one may answer
\* with the order of the other.
Shared(e) == \E f \in Execs \ {e} : SameClientId(e, f)
Misread(e) == rec[e].evidence = "client-id-lookup" /\ Shared(e)

\* No intent was submitted twice.
UniqueClientIds == \A e \in Execs : ~Shared(e)

\* A record starts blank, and claims a notional that a plan may have.
RecordsBlank ==
    \A e \in Execs :
        IF rec[e].status = "absent" THEN rec[e].intent = NoIntent ELSE rec[e].notional \in Notionals

\* Nothing was sent of a record that begin() has not seen.
SentBegun ==
    \A e \in Execs :
        /\ wire[e] # "unsent" => rec[e].status \notin {"absent", "prepared"}
        /\ rec[e].revision = 0 => rec[e].status \in {"absent", "prepared"}

\* Orders and answers come from requests that arrived, and an answer that is final
\* is still true.
AnswersTrue ==
    \A e \in Execs :
        /\ order[e] # "none" => wire[e] = "accepted"
        /\ reply[e] # "none" => wire[e] \in {"accepted", "gone"}
        /\ reply[e] = "rejected" => order[e] = "none"
        /\ reply[e] \in {"filled", "void"} => order[e] = reply[e]

\* What a lookup found is an order of its execution, or of one that shares its id.
LookupsTrue ==
    \A r \in Runtimes :
        /\ look[r].at # "idle" => look[r].exec \in Execs
        /\ look[r].at = "answered" /\ look[r].found # "none" =>
               \/ Shared(look[r].exec)
               \/ /\ order[look[r].exec] # "none"
                  /\ look[r].found \in {"filled", "void"} => order[look[r].exec] = look[r].found

\* A request under way belongs to an unresolved execution.
SentUnresolved ==
    \A e \in Execs : wire[e] \in {"permitted", "inflight"} => IsUnresolved(e) \/ Misread(e)

\* An order is lost only to a lookup that two executions of one intent share.
LostOnlyIfMisread ==
    \A e \in Execs : rec[e].outcome = "release" => ~MayTrade(e) \/ Misread(e)

RecoveryInv ==
    /\ RecoveryTypeOK
    /\ JournalInv
    /\ RecordsBlank
    /\ SentBegun
    /\ AnswersTrue
    /\ LookupsTrue
    /\ SentUnresolved
    /\ LostOnlyIfMisread

=============================================================================
