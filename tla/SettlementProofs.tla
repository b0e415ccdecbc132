-------------------------- MODULE SettlementProofs --------------------------
(* What holds of Settlement for every value of its constants.              *)
EXTENDS Settlement, TLAPS

-----------------------------------------------------------------------------
(* Type correctness, one step per action.                                  *)

\* NoTime lies outside every set of days.
LEMMA TimeFacts ==
    /\ Times \subseteq Nat
    /\ Deadlines \subseteq Nat
    /\ NoTime \notin Times
    /\ NoTime \notin Deadlines
    /\ MinDays \in Nat \ {0}
    /\ MaxDays \in Nat
    /\ MaxTime \in Nat
BY BoundsAssumption DEF Times, Deadlines, NoTime

LEMMA BlankRecords == NoCase \in Rows /\ NoTx \in Transactions
<1>1. NoCase \in Rows
  BY DEF NoCase, Rows, Statuses, MaybeTimes
<1> QED BY <1>1 DEF NoTx, Transactions

\* The UPDATEs of cases.repo.ts write rows, and what they leave alone.
LEMMA ApprovedRow ==
    ASSUME NEW r \in Rows, NEW o \in Operators, NEW at \in Times, NEW ends \in Deadlines
    PROVE  /\ Approved(r, o, at, ends) \in Rows
           /\ Approved(r, o, at, ends).status = "waiting_period"
           /\ Approved(r, o, at, ends).reviewer = o
           /\ Approved(r, o, at, ends).reviewedAt = at
           /\ Approved(r, o, at, ends).waitEnds = ends
           /\ Approved(r, o, at, ends).reporter = r.reporter
           /\ Approved(r, o, at, ends).verifiedAt = r.verifiedAt
           /\ Approved(r, o, at, ends).resolution = r.resolution
           /\ Approved(r, o, at, ends).resolvedAt = r.resolvedAt
BY DEF Approved, Rows, Statuses, Open, MaybeTimes

LEMMA ResolvedRow ==
    ASSUME NEW r \in Rows, NEW resolution \in {"operator_rejected", "owner_voided"},
           NEW o \in Operators \cup {Nobody}, NEW at \in MaybeTimes
    PROVE  /\ Resolved(r, resolution, o, at) \in Rows
           /\ Resolved(r, resolution, o, at).status = "rejected_fraud"
           /\ Resolved(r, resolution, o, at).reporter = r.reporter
           /\ Resolved(r, resolution, o, at).reviewer = o
           /\ Resolved(r, resolution, o, at).reviewedAt = at
           /\ Resolved(r, resolution, o, at).verifiedAt = "null"
           /\ Resolved(r, resolution, o, at).resolution = resolution
           /\ Resolved(r, resolution, o, at).resolvedAt = "set"
BY DEF Resolved, Rows, Statuses, Terminal

LEMMA VerifiedRow ==
    ASSUME NEW r \in Rows
    PROVE  /\ Verified(r) \in Rows
           /\ Verified(r).status = "verified"
           /\ Verified(r).reporter = r.reporter
           /\ Verified(r).reviewer = r.reviewer
           /\ Verified(r).reviewedAt = r.reviewedAt
           /\ Verified(r).verifiedAt = "set"
           /\ Verified(r).resolution = r.resolution
           /\ Verified(r).resolvedAt = r.resolvedAt
BY DEF Verified, Rows, Statuses, Administered

LEMMA ResolvedKeepsReview ==
    ASSUME NEW r \in Rows, NEW resolution \in {"operator_rejected", "owner_voided"}
    PROVE  LET v == Resolved(r, resolution, r.reviewer, r.reviewedAt)
           IN  /\ v \in Rows
               /\ v.status = "rejected_fraud"
               /\ v.resolution = resolution
               /\ v.reporter = r.reporter
               /\ v.reviewer = r.reviewer
               /\ v.reviewedAt = r.reviewedAt
               /\ v.verifiedAt = "null"
               /\ v.resolvedAt = "set"
BY DEF Resolved, Rows, Statuses, Terminal

\* What the handlers make of them: a void keeps the review, a rejection keeps it
\* or, out of verifying, brings its own.
LEMMA VoidedRow ==
    ASSUME NEW r \in Rows
    PROVE  /\ Voided(r) \in Rows
           /\ Voided(r).status = "rejected_fraud"
           /\ Voided(r).resolution = "owner_voided"
           /\ Voided(r).reporter = r.reporter
           /\ Voided(r).reviewer = r.reviewer
           /\ Voided(r).reviewedAt = r.reviewedAt
           /\ Voided(r).verifiedAt = "null"
           /\ Voided(r).resolvedAt = "set"
BY ResolvedKeepsReview DEF Voided

LEMMA RejectedRow ==
    ASSUME NEW r \in Rows, NEW o \in Operators, NEW at \in Times
    PROVE  /\ Rejected(r, o, at) \in Rows
           /\ Rejected(r, o, at).status = "rejected_fraud"
           /\ Rejected(r, o, at).resolution = "operator_rejected"
           /\ Rejected(r, o, at).reporter = r.reporter
           /\ IF r.status = "verifying"
              THEN /\ Rejected(r, o, at).reviewer = o
                   /\ Rejected(r, o, at).reviewedAt = at
              ELSE /\ Rejected(r, o, at).reviewer = r.reviewer
                   /\ Rejected(r, o, at).reviewedAt = r.reviewedAt
           /\ Rejected(r, o, at).verifiedAt = "null"
           /\ Rejected(r, o, at).resolvedAt = "set"
<1>1. CASE r.status = "verifying"
  <2> DEFINE v == Resolved(r, "operator_rejected", o, at)
  <2>1. Rejected(r, o, at) = v
    BY <1>1 DEF Rejected
  <2>3. at \in MaybeTimes
    BY DEF MaybeTimes
  <2>2. /\ v \in Rows /\ v.status = "rejected_fraud" /\ v.resolution = "operator_rejected"
        /\ v.reporter = r.reporter /\ v.reviewer = o /\ v.reviewedAt = at
        /\ v.verifiedAt = "null" /\ v.resolvedAt = "set"
    BY <2>3, ResolvedRow
  <2> HIDE DEF v
  <2> QED BY <1>1, <2>1, <2>2
<1>2. CASE r.status # "verifying"
  <2> DEFINE v == Resolved(r, "operator_rejected", r.reviewer, r.reviewedAt)
  <2>1. Rejected(r, o, at) = v
    BY <1>2 DEF Rejected
  <2>2. /\ v \in Rows /\ v.status = "rejected_fraud" /\ v.resolution = "operator_rejected"
        /\ v.reporter = r.reporter /\ v.reviewer = r.reviewer
        /\ v.reviewedAt = r.reviewedAt /\ v.verifiedAt = "null" /\ v.resolvedAt = "set"
    BY ResolvedKeepsReview
  <2> HIDE DEF v
  <2> QED BY <1>2, <2>1, <2>2
<1> QED BY <1>1, <1>2

LEMMA InitTypeOK == Init => TypeOK
<1> SUFFICES ASSUME Init PROVE TypeOK
  OBVIOUS
<1>1. row \in [Cases -> Rows] /\ tx \in Transactions /\ tx.op = "none"
  BY BlankRecords DEF Init, NoTx
<1>2. /\ waitDays \in MinDays .. MaxDays
      /\ settingsDraft \in {0} \cup MinDays .. MaxDays
      /\ lastStepUp \in MaybeTimes
      /\ abandoned \in 0 .. MaxAbandoned
      /\ now \in Times
  BY BoundsAssumption DEF Init, MaybeTimes, Times
<1>3. /\ account \in Locks
      /\ settledFor \in Cases \cup {Nobody}
      /\ stepUpPending \in BOOLEAN
      /\ fresh \in BOOLEAN
      /\ docs \in [Docs -> DocStates]
      /\ late \subseteq Requests
  BY DEF Init, Locks, DocStates
<1> QED BY <1>1, <1>2, <1>3 DEF TypeOK

LEMMA CaseStepTypeOK ==
    ASSUME TypeOK, NEW c \in Cases, CaseStep(c)
    PROVE  TypeOK'
<1> USE BoundsAssumption DEF TypeOK, Times, MaybeTimes, NoTime
<1>1. ASSUME NEW u \in Users, InsertCase(c, u)
      PROVE  TypeOK'
  BY <1>1 DEF InsertCase, NoCase, Rows, Statuses, Terminal, Open, Users, Deadlines,
              identityVars, wireVars
<1>2. ASSUME NEW o \in Operators, StartReview(c, o)
      PROVE  TypeOK'
  BY <1>2 DEF StartReview, Rows, Statuses, Open, identityVars, wireVars
<1>3. ASSUME NEW op \in {"approve", "reject", "void", "confirm"}, NEW draft \in Rows,
             NEW step \in {"commit", "liveness"} \cup IdentityCalls \cup DocumentsCalls,
             Begin(op, c, draft, step)
      PROVE  TypeOK'
  BY <1>3 DEF Begin, Transactions, identityVars, wireVars
<1>4. ASSUME NEW to \in Statuses, AdvanceStatus(c, to)
      PROVE  TypeOK'
  BY <1>4 DEF AdvanceStatus, Rows, identityVars, wireVars
<1>5. ASSUME NEW k \in Contacts, Report(c, k)
      PROVE  TypeOK'
  BY <1>5, <1>1 DEF Report, Users
<1>6. ASSUME NEW o \in Operators, ReportProviderSignal(c, o) \/ StartReview(c, o)
      PROVE  TypeOK'
  BY <1>6, <1>1, <1>2 DEF ReportProviderSignal, Users
<1>7. ASSUME NEW o \in Operators, NEW at \in RequestTimes,
             Approve(c, o, at) \/ Reject(c, o, at) \/ ConfirmVerification(c, o, at)
      PROVE  TypeOK'
  <2>1. at \in Times
    BY DEF RequestTimes
  <2>2. at + WaitingDays \in Deadlines
    BY <2>1 DEF WaitingDays, Deadlines
  <2>3. row[c] \in Rows
    OBVIOUS
  <2>4. CASE Approve(c, o, at)
    BY <2>1, <2>2, <2>3, <2>4, <1>3, ApprovedRow DEF Approve, IdentityCalls
  <2>5. CASE Reject(c, o, at)
    BY <2>1, <2>3, <2>5, <1>3, RejectedRow DEF Reject, IdentityCalls
  <2>6. CASE ConfirmVerification(c, o, at)
    BY <2>3, <2>6, <1>3 DEF ConfirmVerification
  <2> QED BY <1>7, <2>4, <2>5, <2>6
<1>8. ASSUME Void(c)
      PROVE  TypeOK'
  <2>1. row[c] \in Rows
    OBVIOUS
  <2> QED BY <1>8, <2>1, <1>3, VoidedRow DEF Void, IdentityCalls
<1> QED BY <1>4, <1>5, <1>6, <1>7, <1>8 DEF CaseStep

\* What a server does to its own state keeps it well-typed.
LEMMA AppliesTypeOK ==
    ASSUME TypeOK, NEW call, NEW c \in Cases, Applies(call, c)
    PROVE  /\ account' \in Locks
           /\ settledFor' \in Cases \cup {Nobody}
           /\ docs' \in [Docs -> DocStates]
<1>1. CASE call \in IdentityCalls /\ SetState(call, c) /\ UNCHANGED docs
  BY <1>1 DEF SetState, Target, IdentityCalls, TypeOK, Locks
<1>2. CASE SetEstateLegalHold(call) /\ UNCHANGED <<account, settledFor>>
  BY <1>2 DEF SetEstateLegalHold, TypeOK, DocStates
<1> QED BY <1>1, <1>2 DEF Applies

LEMMA TxStepTypeOK ==
    ASSUME TypeOK, TxStep
    PROVE  TypeOK'
<1> USE DEF TypeOK
<1>0. NoTx \in Transactions /\ NoTx.op = "none"
  BY BlankRecords DEF NoTx
<1>1. CASE CallSucceeds
  <2>1. tx.step \in IdentityCalls \cup DocumentsCalls
    BY <1>1 DEF CallSucceeds, Applies
  <2>2. AfterCall(tx.op, tx.step) \in {"commit"} \cup IdentityCalls \cup DocumentsCalls
    BY <2>1 DEF AfterCall, IdentityCalls, DocumentsCalls
  <2>3. tx' \in Transactions /\ tx'.op = tx.op /\ tx'.case = tx.case
    BY <1>1, <2>2 DEF CallSucceeds, Transactions
  <2> QED BY <1>1, <2>3, AppliesTypeOK DEF CallSucceeds, wireVars
<1>2. CASE LivenessAnswered \/ OwnerAliveAnswered
  <2>1. tx.draft \in Rows /\ tx.op # "none"
    BY <1>2 DEF LivenessAnswered, OwnerAliveAnswered, Transactions
  <2>2. tx' \in Transactions /\ tx'.case = tx.case
    <3>1. Voided(tx.draft) \in Rows /\ Verified(tx.draft) \in Rows
      BY <2>1, VoidedRow, VerifiedRow
    <3> QED BY <1>2, <3>1
            DEF LivenessAnswered, OwnerAliveAnswered, VoidLiving, Transactions,
                IdentityCalls, DocumentsCalls
  <2> QED BY <1>2, <2>1, <2>2
          DEF LivenessAnswered, OwnerAliveAnswered, identityVars, wireVars
<1>4. CASE ReplyLost
  BY <1>4, <1>0, AppliesTypeOK DEF ReplyLost, wireVars
<1>5. CASE RequestAbandoned
  BY <1>5, <1>0, BoundsAssumption DEF RequestAbandoned, Requests, identityVars
<1>6. CASE Abort
  BY <1>6, <1>0 DEF Abort, identityVars, wireVars
<1>7. CASE Commit
  <2>1. tx.draft \in Rows
    BY DEF Transactions
  <2> QED BY <1>7, <2>1, <1>0 DEF Commit, identityVars, wireVars
<1> QED BY <1>1, <1>2, <1>4, <1>5, <1>6, <1>7 DEF TxStep

LEMMA OtherStepTypeOK ==
    ASSUME TypeOK, OwnerStep \/ Tick \/ \E r \in late : LateArrival(r)
    PROVE  TypeOK'
<1> USE DEF TypeOK, settlementVars, identityVars, wireVars
<1>1. CASE StepUpGranted \/ StepUpRecorded \/ StepUpUnrecorded
  BY <1>1 DEF StepUpGranted, StepUpRecorded, StepUpUnrecorded, MaybeTimes
<1>2. ASSUME NEW d \in Docs, UploadStarts(d) \/ UploadInserts(d) \/ SoftDelete(d)
      PROVE  TypeOK'
  BY <1>2 DEF UploadStarts, UploadInserts, SoftDelete, DocStates
<1>3. ASSUME NEW days \in MinDays .. MaxDays, SettingsChecked(days)
      PROVE  TypeOK'
  BY <1>3 DEF SettingsChecked
<1>4. CASE SettingsWritten
  BY <1>4 DEF SettingsWritten
<1>5. CASE Tick
  <2>1. now' \in Times
    BY <1>5, BoundsAssumption DEF Tick, Times
  <2>2. fresh' \in BOOLEAN
    BY <1>5 DEF Tick
  <2> QED BY <1>5, <2>1, <2>2 DEF Tick
<1>6. ASSUME NEW r \in late, LateArrival(r)
      PROVE  TypeOK'
  <2>1. r.case \in Cases
    BY DEF Requests
  <2>2. CASE Applies(r.call, r.case)
    BY <1>6, <2>1, <2>2, AppliesTypeOK DEF LateArrival
  <2>3. CASE UNCHANGED <<account, settledFor, docs>>
    BY <1>6, <2>3 DEF LateArrival
  <2> QED BY <1>6, <2>2, <2>3 DEF LateArrival
<1> QED BY <1>1, <1>2, <1>3, <1>4, <1>5, <1>6 DEF OwnerStep

LEMMA NextTypeOK == TypeOK /\ [Next]_vars => TypeOK'
<1> SUFFICES ASSUME TypeOK, [Next]_vars PROVE TypeOK'
  OBVIOUS
<1>1. CASE UNCHANGED vars
  BY <1>1 DEF TypeOK, vars, settlementVars, identityVars, wireVars
<1>2. CASE Next
  BY <1>2, CaseStepTypeOK, TxStepTypeOK, OtherStepTypeOK DEF Next
<1> QED BY <1>1, <1>2

\* Every variable of the saga stays in its domain: the rows and transactions the
\* handlers of settlement.service.ts write, and the states the two servers keep.
THEOREM TypeCorrect == Spec => []TypeOK
BY InitTypeOK, NextTypeOK, PTL DEF Spec

-----------------------------------------------------------------------------
(* The inductive invariant.  A settlement request is sent, or still on the *)
(* wire, only for a case that was reviewed by somebody other than its      *)
(* reporter and has waited since; such a case never stops being so.        *)

Settleable(c) ==
    /\ row[c].status \in {"waiting_period", "rejected_fraud", "closed"} \cup Administered
    /\ row[c].reviewer \in Operators
    /\ row[c].reviewer # row[c].reporter
    /\ row[c].reviewedAt + MinDays <= now

\* The deadline of a waiting case is at least MinDays after its review.
WaitIsLongEnough ==
    \A c \in Cases : row[c].status = "waiting_period" =>
        row[c].reviewedAt + MinDays <= row[c].waitEnds

\* The open transaction found the row in a status its handler accepts, goes
\* through the calls of its own operation, and has written what its statements
\* so far write; a review that stands is not touched.
TxLegal ==
    /\ tx.op = "approve" =>
          /\ row[tx.case].status = "verifying"
          /\ tx.draft.status = "waiting_period"
          /\ tx.draft.reviewedAt + MinDays <= tx.draft.waitEnds
    /\ tx.op = "reject" =>
          /\ row[tx.case].status \in {"verifying", "waiting_period"}
          /\ tx.draft.resolution = "operator_rejected"
    /\ tx.op = "void" => row[tx.case].status \in Open
    /\ tx.op \in {"confirm", "livevoid"} => row[tx.case].status = "waiting_period"
    /\ tx.op = "confirm" =>
          /\ Settleable(tx.case)
          /\ tx.step \in {"liveness", "hold", "settle", "commit"}
          /\ tx.draft.status = IF tx.step = "liveness" THEN "waiting_period" ELSE "verified"
    /\ tx.op \in {"reject", "void", "livevoid"} => tx.draft.status = "rejected_fraud"
    /\ tx.op # "none" =>
          /\ tx.draft.reporter = row[tx.case].reporter
          /\ tx.draft.reviewer \in {row[tx.case].reviewer} \cup Operators
          /\ row[tx.case].status # "verifying" =>
                /\ tx.draft.reviewer = row[tx.case].reviewer
                /\ tx.draft.reviewedAt = row[tx.case].reviewedAt
    /\ tx.step = "settle" => tx.op = "confirm"

\* A confirmation is committed only after its settlement was acknowledged.
ConfirmIsSettled ==
    tx.op = "confirm" /\ tx.step = "commit" => account = "settlement"

LateSettlesAreLegal ==
    \A r \in late : r.call = "settle" => Settleable(r.case)

AccountIsJustified ==
    account = "settlement" => settledFor \in Cases /\ Settleable(settledFor)

SagaInv ==
    /\ TypeOK
    /\ CheckConstraints
    /\ VerifiedIsLocked
    /\ WaitIsLongEnough
    /\ TxLegal
    /\ ConfirmIsSettled
    /\ LateSettlesAreLegal
    /\ AccountIsJustified

-----------------------------------------------------------------------------
(* Lemmas about single variables.                                          *)

\* The instants in a row, and the clock, are integers.
LEMMA RowTypes ==
    ASSUME TypeOK, NEW c \in Cases
    PROVE  /\ row[c] \in Rows
           /\ row[c].openedAt \in Int
           /\ row[c].reviewedAt \in Int
           /\ row[c].waitEnds \in Int
           /\ now \in Int
<1>1. row[c] \in Rows /\ now \in Times
  BY DEF TypeOK
<1>2. /\ row[c].openedAt \in MaybeTimes
      /\ row[c].reviewedAt \in MaybeTimes
      /\ row[c].waitEnds \in Deadlines \cup {NoTime}
  BY <1>1 DEF Rows
<1>3. MaybeTimes \subseteq Int /\ Deadlines \cup {NoTime} \subseteq Int /\ Times \subseteq Int
  BY TimeFacts DEF MaybeTimes, NoTime
<1> QED BY <1>1, <1>2, <1>3

\* A case keeps its settleability while its review stands and time goes on.
LEMMA SettleableKept ==
    ASSUME TypeOK, TypeOK', now <= now', NEW c \in Cases, Settleable(c),
           row'[c].reporter = row[c].reporter,
           row'[c].reviewer = row[c].reviewer,
           row'[c].reviewedAt = row[c].reviewedAt,
           row'[c].status \in {"waiting_period", "rejected_fraud", "closed"} \cup Administered
    PROVE  Settleable(c)'
<1>1. now \in Int /\ row[c].reviewedAt \in Int
  BY RowTypes
<1>2. now' \in Int
  BY TimeFacts DEF TypeOK
<1> QED BY <1>1, <1>2, TimeFacts DEF Settleable

\* What no step on the rows has touched.
LEMMA RowsKept ==
    ASSUME SagaInv, TypeOK', row' = row, now <= now', Legal(tx'.draft)
    PROVE  /\ CheckConstraints'
           /\ WaitIsLongEnough'
           /\ \A c \in Cases : Settleable(c) => Settleable(c)'
<1>1. CheckConstraints' /\ WaitIsLongEnough'
  BY DEF SagaInv, CheckConstraints, Legal, WaitIsLongEnough
<1>2. ASSUME NEW c \in Cases, Settleable(c)
      PROVE  Settleable(c)'
  BY <1>2, SettleableKept DEF SagaInv, Settleable
<1> QED BY <1>1, <1>2

\* A step that leaves all rows but one alone, and that one and the draft legal.
LEMMA OneRowLegal ==
    ASSUME CheckConstraints, NEW c \in Cases, Legal(row'[c]), Legal(tx'.draft),
           \A x \in Cases \ {c} : row'[x] = row[x]
    PROVE  CheckConstraints'
<1>1. ASSUME NEW x \in Cases
      PROVE  Legal(row'[x])
  <2>1. CASE x = c
    BY <2>1
  <2>2. CASE x # c
    BY <2>2 DEF CheckConstraints
  <2> QED BY <2>1, <2>2
<1> QED BY <1>1 DEF CheckConstraints, Legal

\* A blank row is legal, and every statement of a handler leaves a legal row so.
LEMMA NoCaseLegal == Legal(NoCase)
BY DEF Legal, NoCase, Administered

LEMMA ApprovedLegal ==
    ASSUME NEW r \in Rows, Legal(r), NEW o \in Operators, NEW at \in Times,
           NEW ends \in Deadlines, r.status = "verifying", o # r.reporter
    PROVE  Legal(Approved(r, o, at, ends))
<1>1. r.verifiedAt = "null" /\ r.resolution = "none" /\ r.resolvedAt = "null"
  BY DEF Legal, Administered
<1> HIDE DEF Approved
<1> DEFINE a == Approved(r, o, at, ends)
<1>2. /\ a.status = "waiting_period" /\ a.reviewer = o /\ a.reviewedAt = at
      /\ a.waitEnds = ends /\ a.reporter = r.reporter /\ a.verifiedAt = "null"
      /\ a.resolution = "none" /\ a.resolvedAt = "null"
  BY <1>1, ApprovedRow
<1> HIDE DEF a
<1>3. Legal(a)
  BY <1>2, TimeFacts, NobodyAssumption DEF Legal, Administered
<1> QED BY <1>3 DEF a

LEMMA VerifiedLegal ==
    ASSUME NEW r \in Rows, Legal(r), r.status = "waiting_period"
    PROVE  Legal(Verified(r))
<1> DEFINE v == Verified(r)
<1>1. /\ r.resolution = "none" /\ r.resolvedAt = "null" /\ r.reviewer # Nobody
      /\ r.reviewer # r.reporter /\ r.reviewedAt # NoTime
  BY DEF Legal
<1>2. /\ v.status = "verified" /\ v.reporter = r.reporter /\ v.reviewer = r.reviewer
      /\ v.reviewedAt = r.reviewedAt /\ v.verifiedAt = "set"
      /\ v.resolution = "none" /\ v.resolvedAt = "null"
  BY <1>1, VerifiedRow
<1> HIDE DEF v
<1>3. Legal(v)
  BY <1>1, <1>2 DEF Legal, Administered
<1> QED BY <1>3 DEF v

LEMMA VoidedLegal ==
    ASSUME NEW r \in Rows, Legal(r)
    PROVE  Legal(Voided(r))
<1> DEFINE v == Voided(r)
<1>1. /\ v.status = "rejected_fraud" /\ v.resolution = "owner_voided"
      /\ v.reporter = r.reporter /\ v.reviewer = r.reviewer
      /\ v.reviewedAt = r.reviewedAt /\ v.verifiedAt = "null" /\ v.resolvedAt = "set"
  BY VoidedRow
<1> HIDE DEF v
<1>2. Legal(v)
  BY <1>1 DEF Legal, Administered
<1> QED BY <1>2 DEF v

LEMMA RejectedLegal ==
    ASSUME NEW r \in Rows, Legal(r), NEW o \in Operators, NEW at \in Times,
           o # r.reporter
    PROVE  Legal(Rejected(r, o, at))
<1> DEFINE v == Rejected(r, o, at)
<1>1. /\ v.status = "rejected_fraud" /\ v.resolution = "operator_rejected"
      /\ v.reporter = r.reporter /\ v.verifiedAt = "null" /\ v.resolvedAt = "set"
      /\ \/ v.reviewer = o /\ v.reviewedAt = at
         \/ v.reviewer = r.reviewer /\ v.reviewedAt = r.reviewedAt
  BY RejectedRow
<1> HIDE DEF v
<1>2. Legal(v)
  BY <1>1, TimeFacts, NobodyAssumption DEF Legal, Administered
<1> QED BY <1>2 DEF v

\* A step that only the owner, the documents or the clock notice.
LEMMA QuietStep ==
    ASSUME SagaInv, TypeOK', UNCHANGED <<row, tx, account, settledFor, late>>, now <= now'
    PROVE  SagaInv'
<1> USE DEF SagaInv
<1>0. Legal(tx'.draft)
  BY DEF CheckConstraints
<1>1. \A c \in Cases : Settleable(c) => Settleable(c)'
  BY <1>0, RowsKept
<1>2. VerifiedIsLocked' /\ ConfirmIsSettled'
  BY DEF VerifiedIsLocked, ConfirmIsSettled
<1>3. TxLegal'
  BY <1>1 DEF TxLegal, TypeOK
<1>4. LateSettlesAreLegal'
  BY <1>1 DEF LateSettlesAreLegal, TypeOK, Requests
<1>5. AccountIsJustified'
  BY <1>1 DEF AccountIsJustified
<1> QED BY <1>0, <1>2, <1>3, <1>4, <1>5, RowsKept

\* settlement is never left, and entered only by a settlement request.
LEMMA SettlementAbsorbs ==
    ASSUME TypeOK, NEW call, NEW c \in Cases, Applies(call, c)
    PROVE  /\ account = "settlement" =>
                 account' = "settlement" /\ settledFor' = settledFor
           /\ account' = "settlement" /\ account # "settlement" =>
                 call = "settle" /\ settledFor' = c /\ ~Alive(c)
           /\ call = "settle" => account' = "settlement"
<1>1. CASE call \in DocumentsCalls
  BY <1>1 DEF Applies, DocumentsCalls, IdentityCalls
<1>2. CASE call \in IdentityCalls
  <2>1. Accepts(call, c) /\ SetState(call, c)
    BY <1>2 DEF Applies, IdentityCalls, DocumentsCalls
  <2>2. CASE call = "lock"
    BY <2>1, <2>2 DEF Accepts, CanMove, SetState, Target, AllowedFrom
  <2>3. CASE call = "unlock"
    BY <2>1, <2>3 DEF Accepts, CanMove, SetState, Target, AllowedFrom
  <2>4. CASE call = "settle"
    BY <2>1, <2>4 DEF Accepts, CanMove, SetState, Target, AllowedFrom
  <2> QED BY <1>2, <2>2, <2>3, <2>4 DEF IdentityCalls
<1> QED BY <1>1, <1>2 DEF Applies

-----------------------------------------------------------------------------
(* The steps.                                                              *)

LEMMA InitSagaInv == Init => SagaInv
<1> SUFFICES ASSUME Init PROVE SagaInv
  OBVIOUS
<1> USE DEF Init, NoCase, NoTx
<1>1. TypeOK
  BY InitTypeOK
<1>2. CheckConstraints /\ VerifiedIsLocked /\ WaitIsLongEnough
  BY NoCaseLegal DEF CheckConstraints, VerifiedIsLocked, WaitIsLongEnough, Administered
<1>3. TxLegal /\ ConfirmIsSettled /\ LateSettlesAreLegal /\ AccountIsJustified
  BY DEF TxLegal, ConfirmIsSettled, LateSettlesAreLegal, AccountIsJustified
<1> QED BY <1>1, <1>2, <1>3 DEF SagaInv

\* A handler that only opens its transaction.
LEMMA BeginSagaInv ==
    ASSUME SagaInv, TypeOK', row' = row, UNCHANGED <<account, settledFor, late, now>>,
           Legal(tx'.draft), TxLegal', ConfirmIsSettled'
    PROVE  SagaInv'
<1>1. now <= now'
  BY TimeFacts DEF SagaInv, TypeOK
<1>2. VerifiedIsLocked'
  BY DEF SagaInv, VerifiedIsLocked
<1>3. LateSettlesAreLegal'
  BY <1>1, RowsKept DEF SagaInv, LateSettlesAreLegal, TypeOK, Requests
<1>4. AccountIsJustified'
  BY <1>1, RowsKept DEF SagaInv, AccountIsJustified
<1> QED BY <1>1, <1>2, <1>3, <1>4, RowsKept DEF SagaInv

\* One row changes: of a case no transaction is open on, or of the case whose
\* transaction commits.
LEMMA RowStep ==
    ASSUME SagaInv, TypeOK', UNCHANGED <<account, settledFor, late, now>>,
           NEW c \in Cases,
           \/ tx' = NoTx
           \/ UNCHANGED tx /\ (tx.op # "none" => tx.case # c),
           \A x \in Cases \ {c} : row'[x] = row[x],
           Settleable(c) =>
              /\ row'[c].reporter = row[c].reporter
              /\ row'[c].reviewer = row[c].reviewer
              /\ row'[c].reviewedAt = row[c].reviewedAt
              /\ row'[c].status \in
                    {"waiting_period", "rejected_fraud", "closed"} \cup Administered,
           CheckConstraints', VerifiedIsLocked', WaitIsLongEnough'
    PROVE  SagaInv'
<1> USE DEF SagaInv
<1>1. now <= now'
  BY TimeFacts DEF TypeOK
<1>2. ASSUME NEW x \in Cases, Settleable(x)
      PROVE  Settleable(x)'
  <2>1. CASE x = c
    BY <1>1, <1>2, <2>1, SettleableKept
  <2>2. CASE x # c
    BY <1>1, <1>2, <2>2, SettleableKept DEF Settleable
  <2> QED BY <2>1, <2>2
<1>3. LateSettlesAreLegal'
  BY <1>2 DEF LateSettlesAreLegal, TypeOK, Requests
<1>4. AccountIsJustified'
  BY <1>2 DEF AccountIsJustified
<1>5. CASE tx' = NoTx
  <2>1. TxLegal' /\ ConfirmIsSettled'
    BY <1>5 DEF TxLegal, ConfirmIsSettled, NoTx
  <2> QED BY <1>3, <1>4, <2>1
<1>6. CASE UNCHANGED tx /\ (tx.op # "none" => tx.case # c)
  <2>0. UNCHANGED tx
    BY <1>6
  <2>1. TxLegal'
    <3>1. CASE tx.op = "none"
      BY <2>0, <3>1 DEF TxLegal
    <3>2. CASE tx.op # "none"
      <4>1. row'[tx.case] = row[tx.case] /\ tx.case \in Cases
        BY <1>6, <3>2 DEF TypeOK
      <4> QED BY <2>0, <4>1, <1>2 DEF TxLegal
    <3> QED BY <3>1, <3>2
  <2>2. ConfirmIsSettled'
    BY <2>0 DEF ConfirmIsSettled
  <2> QED BY <1>3, <1>4, <2>1, <2>2
<1> QED BY <1>5, <1>6

LEMMA CaseStepSagaInv ==
    ASSUME SagaInv, NEW c \in Cases, CaseStep(c)
    PROVE  SagaInv'
<1> USE DEF SagaInv
<1>0. TypeOK'
  BY CaseStepTypeOK
<1>1. ASSUME NEW u \in Operators \cup Contacts, InsertCase(c, u)
      PROVE  SagaInv'
  <2>1. /\ row'[c] = [NoCase EXCEPT !.status = "reported", !.reporter = u, !.openedAt = now]
        /\ row[c].status = "absent"
        /\ \A x \in Cases \ {c} : row'[x] = row[x]
    BY <1>1 DEF InsertCase, TypeOK
  <2>2. CheckConstraints' /\ VerifiedIsLocked' /\ WaitIsLongEnough'
    <3>1. Legal(row'[c])
      BY <2>1 DEF NoCase, Legal, Administered
    <3>2. Legal(tx'.draft)
      BY <1>1 DEF InsertCase, CheckConstraints
    <3>3. VerifiedIsLocked' /\ WaitIsLongEnough'
      BY <1>1, <2>1
      DEF InsertCase, identityVars, NoCase, VerifiedIsLocked, WaitIsLongEnough, Administered
    <3> QED BY <2>1, <3>1, <3>2, <3>3, OneRowLegal
  <2>3. ~Settleable(c)
    BY <2>1 DEF Settleable, Administered
  <2>4. tx.op # "none" => tx.case # c
    BY <2>1 DEF TxLegal, TypeOK, Transactions, Open
  <2>5. UNCHANGED <<tx, account, settledFor, late, now>>
    BY <1>1 DEF InsertCase, identityVars, wireVars
  <2> QED BY <1>0, <2>1, <2>2, <2>3, <2>4, <2>5, RowStep
<1>2. ASSUME NEW o \in Operators, StartReview(c, o)
      PROVE  SagaInv'
  <2>1. /\ row'[c] = [row[c] EXCEPT !.status = "verifying"]
        /\ row[c].status = "reported"
        /\ \A x \in Cases \ {c} : row'[x] = row[x]
        /\ row[c] \in Rows
    BY <1>2 DEF StartReview, TypeOK
  <2>2. CheckConstraints' /\ VerifiedIsLocked' /\ WaitIsLongEnough'
    <3>1. Legal(row'[c])
      BY <2>1 DEF CheckConstraints, Rows, Legal, Administered
    <3>2. Legal(tx'.draft)
      BY <1>2 DEF StartReview, CheckConstraints
    <3>3. VerifiedIsLocked' /\ WaitIsLongEnough'
      BY <1>2, <2>1
      DEF StartReview, identityVars, Rows, VerifiedIsLocked, WaitIsLongEnough, Administered
    <3> QED BY <2>1, <3>1, <3>2, <3>3, OneRowLegal
  <2>3. ~Settleable(c)
    BY <2>1 DEF Settleable, Administered
  <2>4. UNCHANGED <<tx, account, settledFor, late, now>> /\ tx.op = "none"
    BY <1>2 DEF StartReview, Unlocked, identityVars, wireVars
  <2> QED BY <1>0, <2>1, <2>2, <2>3, <2>4, RowStep
<1>3. ASSUME NEW to \in Statuses, AdvanceStatus(c, to)
      PROVE  SagaInv'
  <2>1. /\ row'[c] = [row[c] EXCEPT !.status = to]
        /\ row[c].status \in Administered
        /\ to \in {"active", "distributing", "closed"}
        /\ \A x \in Cases \ {c} : row'[x] = row[x]
        /\ row[c] \in Rows
    BY <1>3 DEF AdvanceStatus, Advances, TypeOK, Administered
  <2>2. /\ row'[c].status = to
        /\ row'[c].reporter = row[c].reporter
        /\ row'[c].reviewer = row[c].reviewer
        /\ row'[c].reviewedAt = row[c].reviewedAt
        /\ row'[c].resolution = row[c].resolution
        /\ row'[c].verifiedAt = row[c].verifiedAt
        /\ row'[c].resolvedAt = row[c].resolvedAt
    BY <2>1 DEF Rows
  <2>3. UNCHANGED <<tx, account, settledFor, late, now>> /\ tx.op = "none"
    BY <1>3 DEF AdvanceStatus, Unlocked, identityVars, wireVars
  <2>4. CheckConstraints' /\ VerifiedIsLocked' /\ WaitIsLongEnough'
    <3>1. CheckConstraints'
      <4>1. /\ row[c].reviewer # Nobody
            /\ row[c].resolution = "none"
            /\ row[c].verifiedAt # "null"
        BY <2>1 DEF CheckConstraints, Legal, Administered
      <4>2. Legal(row'[c])
        BY <2>1, <2>2, <4>1 DEF CheckConstraints, Legal, Administered
      <4>3. Legal(tx'.draft)
        BY <2>3 DEF CheckConstraints
      <4> QED BY <2>1, <4>2, <4>3, OneRowLegal
    <3>2. VerifiedIsLocked' /\ WaitIsLongEnough'
      BY <2>1, <2>2, <2>3 DEF VerifiedIsLocked, WaitIsLongEnough
    <3> QED BY <3>1, <3>2
  <2> QED BY <1>0, <2>1, <2>2, <2>3, <2>4, RowStep DEF Administered
<1>4. ASSUME NEW o \in Operators, NEW at \in RequestTimes, Approve(c, o, at)
      PROVE  SagaInv'
  <2> DEFINE draft == Approved(row[c], o, at, at + WaitingDays)
  <2>1. /\ tx' = [op |-> "approve", case |-> c, draft |-> draft, step |-> "lock"]
        /\ UNCHANGED <<row, account, settledFor, late, now>>
        /\ row[c].status = "verifying"
        /\ o # row[c].reporter
        /\ row[c] \in Rows
    BY <1>4, RowTypes DEF Approve, Begin, identityVars, wireVars
  <2>2. at \in Times /\ at + WaitingDays \in Deadlines /\ at + MinDays <= at + WaitingDays
    BY TimeFacts DEF TypeOK, WaitingDays, RequestTimes, Times, Deadlines
  <2>3. Legal(draft)
    BY <2>1, <2>2, ApprovedLegal DEF CheckConstraints
  <2>4. /\ draft.status = "waiting_period" /\ draft.reviewer = o
        /\ draft.reviewedAt = at /\ draft.waitEnds = at + WaitingDays
        /\ draft.reporter = row[c].reporter
    BY <2>1, <2>2, ApprovedRow
  <2> HIDE DEF draft
  <2>5. TxLegal' /\ ConfirmIsSettled'
    BY <2>1, <2>2, <2>4 DEF TxLegal, ConfirmIsSettled
  <2> QED BY <1>0, <2>1, <2>3, <2>5, BeginSagaInv
<1>5. ASSUME NEW o \in Operators, NEW at \in RequestTimes, Reject(c, o, at)
      PROVE  SagaInv'
  <2> DEFINE draft == Rejected(row[c], o, at)
  <2>1. /\ tx'.op = "reject" /\ tx'.case = c /\ tx'.draft = draft
        /\ tx'.step # "settle"
        /\ UNCHANGED <<row, account, settledFor, late, now>>
        /\ row[c].status \in {"verifying", "waiting_period"}
        /\ o # row[c].reporter
        /\ row[c] \in Rows
        /\ at \in Times
    BY <1>5, RowTypes DEF Reject, Begin, RequestTimes, identityVars, wireVars
  <2>2. Legal(draft)
    BY <2>1, RejectedLegal DEF CheckConstraints
  <2>3. /\ draft.status = "rejected_fraud" /\ draft.resolution = "operator_rejected"
        /\ draft.reporter = row[c].reporter
        /\ draft.reviewer \in {row[c].reviewer} \cup Operators
        /\ row[c].status # "verifying" =>
              draft.reviewer = row[c].reviewer /\ draft.reviewedAt = row[c].reviewedAt
    BY <2>1, RejectedRow
  <2> HIDE DEF draft
  <2>4. TxLegal' /\ ConfirmIsSettled'
    BY <2>1, <2>3 DEF TxLegal, ConfirmIsSettled
  <2> QED BY <1>0, <2>1, <2>2, <2>4, BeginSagaInv
<1>6. ASSUME NEW o \in Operators, NEW at \in RequestTimes, ConfirmVerification(c, o, at)
      PROVE  SagaInv'
  <2>1. /\ tx'.op = "confirm" /\ tx'.case = c /\ tx'.step = "liveness"
        /\ tx'.draft = row[c]
        /\ row[c].status = "waiting_period"
        /\ UNCHANGED <<row, account, settledFor, late, now>>
    BY <1>6 DEF ConfirmVerification, Begin, identityVars, wireVars
  <2>2. row[c].reviewer \in Operators /\ row[c].reviewer # row[c].reporter
    BY <2>1 DEF CheckConstraints, Legal, TypeOK, Rows
  <2>3. row[c].reviewedAt + MinDays <= now
    <3>1. row[c].waitEnds <= at /\ at <= now /\ at \in Times
      BY <1>6 DEF ConfirmVerification, WaitLapsed, RequestTimes
    <3>2. row[c].reviewedAt + MinDays <= row[c].waitEnds
      BY <2>1 DEF WaitIsLongEnough
    <3>3. row[c].reviewedAt \in Int /\ row[c].waitEnds \in Int /\ now \in Int /\ at \in Int
      BY <3>1, RowTypes DEF Times
    <3> QED BY <3>1, <3>2, <3>3, TimeFacts
  <2>4. Settleable(c)
    BY <2>1, <2>2, <2>3 DEF Settleable
  <2>5. Settleable(c)'
    BY <2>1, <2>4 DEF Settleable
  <2>6. TxLegal' /\ ConfirmIsSettled'
    BY <2>1, <2>5 DEF TxLegal, ConfirmIsSettled
  <2>7. Legal(tx'.draft)
    BY <2>1 DEF CheckConstraints
  <2> QED BY <1>0, <2>1, <2>6, <2>7, BeginSagaInv
<1>7. ASSUME Void(c)
      PROVE  SagaInv'
  <2> DEFINE draft == Voided(row[c])
  <2>1. /\ tx'.op = "void" /\ tx'.case = c /\ tx'.draft = draft /\ tx'.step = "unlock"
        /\ row[c].status \in Open
        /\ row[c] \in Rows
        /\ UNCHANGED <<row, account, settledFor, late, now>>
    BY <1>7, RowTypes DEF Void, Begin, identityVars, wireVars
  <2>2. Legal(draft)
    BY <2>1, VoidedLegal DEF CheckConstraints
  <2>3. /\ draft.status = "rejected_fraud" /\ draft.reporter = row[c].reporter
        /\ draft.reviewer = row[c].reviewer /\ draft.reviewedAt = row[c].reviewedAt
    BY <2>1, VoidedRow
  <2> HIDE DEF draft
  <2>4. TxLegal' /\ ConfirmIsSettled'
    BY <2>1, <2>3 DEF TxLegal, ConfirmIsSettled
  <2> QED BY <1>0, <2>1, <2>2, <2>4, BeginSagaInv
<1> QED BY <1>1, <1>2, <1>3, <1>4, <1>5, <1>6, <1>7 DEF CaseStep, Report, ReportProviderSignal

LEMMA TxStepSagaInv ==
    ASSUME SagaInv, TxStep
    PROVE  SagaInv'
<1> USE DEF SagaInv
<1>0. TypeOK' /\ now <= now' /\ now' = now
  BY TxStepTypeOK, TimeFacts
  DEF TypeOK, TxStep, CallSucceeds, LivenessAnswered, OwnerAliveAnswered, ReplyLost,
      RequestAbandoned, Abort, Commit
<1>1. ASSUME row' = row, late' = late, now' = now, Legal(tx'.draft), TxLegal',
             ConfirmIsSettled',
             tx.op # "none", Applies(tx.step, tx.case)
      PROVE  SagaInv'
  <2>1. tx.case \in Cases
    BY <1>1 DEF TypeOK
  <2>2. \A x \in Cases : Settleable(x) => Settleable(x)'
    BY <1>0, <1>1, RowsKept
  <2>3. VerifiedIsLocked'
    BY <1>1, <2>1, SettlementAbsorbs DEF VerifiedIsLocked
  <2>4. LateSettlesAreLegal'
    BY <1>1, <2>2 DEF LateSettlesAreLegal, TypeOK, Requests
  <2>5. AccountIsJustified'
    <3>1. CASE account = "settlement"
      BY <1>1, <2>1, <2>2, <3>1, SettlementAbsorbs DEF AccountIsJustified
    <3>2. CASE account # "settlement"
      BY <1>1, <2>1, <2>2, <3>2, SettlementAbsorbs DEF AccountIsJustified, TxLegal
    <3> QED BY <3>1, <3>2
  <2> QED BY <1>0, <1>1, <2>3, <2>4, <2>5, RowsKept
<1>2. CASE CallSucceeds
  <2>1. /\ row' = row /\ late' = late /\ now' = now
        /\ tx.op # "none"
        /\ Applies(tx.step, tx.case)
        /\ tx' = [tx EXCEPT !.step = AfterCall(tx.op, tx.step)]
    BY <1>2 DEF CallSucceeds, wireVars
  <2>2. tx.step \in IdentityCalls \cup DocumentsCalls
    BY <2>1 DEF Applies
  <2>3. /\ tx'.op = tx.op /\ tx'.case = tx.case /\ tx'.draft = tx.draft
        /\ tx'.step = AfterCall(tx.op, tx.step)
    BY <2>1 DEF TypeOK, Transactions
  <2>4. tx'.step = "settle" => tx.op = "confirm"
    BY <2>2, <2>3 DEF AfterCall, IdentityCalls, DocumentsCalls
  <2>5. ASSUME tx.op = "confirm"
        PROVE  \/ tx.step = "hold" /\ tx'.step = "settle"
               \/ tx.step = "settle" /\ tx'.step = "commit"
    <3>1. tx.step = "hold" \/ tx.step = "settle"
      BY <2>2, <2>5 DEF TxLegal, IdentityCalls, DocumentsCalls
    <3> QED BY <2>3, <2>5, <3>1 DEF AfterCall
  <2>6. tx.case \in Cases
    BY <2>1 DEF TypeOK
  <2>9. Legal(tx'.draft)
    BY <2>3 DEF CheckConstraints
  <2>7. TxLegal'
    BY <1>0, <2>1, <2>3, <2>4, <2>5, <2>6, <2>9, RowsKept DEF TxLegal
  <2>8. ConfirmIsSettled'
    BY <2>1, <2>3, <2>5, <2>6, SettlementAbsorbs DEF ConfirmIsSettled
  <2> QED BY <1>1, <2>1, <2>7, <2>8, <2>9
<1>3. CASE ReplyLost
  <2>1. TxLegal' /\ ConfirmIsSettled' /\ Legal(tx'.draft)
    BY <1>3, NoCaseLegal DEF ReplyLost, NoTx, TxLegal, ConfirmIsSettled
  <2> QED BY <1>1, <1>3, <2>1 DEF ReplyLost, wireVars
<1>4. CASE LivenessAnswered \/ OwnerAliveAnswered
  <2>1. /\ UNCHANGED <<row, account, settledFor, late, now>>
        /\ tx.op = "confirm" /\ tx'.case = tx.case
        /\ \/ /\ tx'.op = "livevoid" /\ tx'.step = "unlock"
              /\ tx'.draft = Voided(tx.draft)
           \/ /\ tx.step = "liveness"
              /\ tx'.op = "confirm" /\ tx'.step = "hold"
              /\ tx'.draft = Verified(tx.draft)
    BY <1>4 DEF LivenessAnswered, OwnerAliveAnswered, VoidLiving, TypeOK, Transactions,
                identityVars, wireVars
  <2>2. /\ tx.case \in Cases
        /\ tx.draft \in Rows
        /\ Legal(tx.draft)
        /\ tx.step = "liveness" => tx.draft.status = "waiting_period"
    BY <2>1 DEF TypeOK, Transactions, CheckConstraints, TxLegal
  <2>3. Legal(tx'.draft)
    BY <2>1, <2>2, VoidedLegal, VerifiedLegal
  <2>4. /\ tx'.draft.reporter = tx.draft.reporter
        /\ tx'.draft.reviewer = tx.draft.reviewer
        /\ tx'.draft.reviewedAt = tx.draft.reviewedAt
        /\ tx'.draft.status = IF tx'.op = "confirm" THEN "verified" ELSE "rejected_fraud"
    BY <2>1, <2>2, VoidedRow, VerifiedRow
  <2>5. Settleable(tx.case)'
    BY <1>0, <2>1, <2>2, <2>3, RowsKept DEF TxLegal
  <2>6. TxLegal' /\ ConfirmIsSettled'
    BY <2>1, <2>4, <2>5 DEF TxLegal, ConfirmIsSettled
  <2> QED BY <1>0, <2>1, <2>3, <2>6, BeginSagaInv
<1>6. CASE RequestAbandoned
  <2>1. /\ UNCHANGED <<row, account, settledFor, now>>
        /\ late' = late \cup {[call |-> tx.step, case |-> tx.case]}
        /\ tx' = NoTx
        /\ tx.case \in Cases
    BY <1>6 DEF RequestAbandoned, TypeOK, identityVars
  <2>6. Legal(tx'.draft)
    BY <2>1, NoCaseLegal DEF NoTx
  <2>2. \A x \in Cases : Settleable(x) => Settleable(x)'
    BY <1>0, <2>1, <2>6, RowsKept
  <2>3. LateSettlesAreLegal'
    <3> SUFFICES ASSUME NEW r \in late', r.call = "settle"
                 PROVE  Settleable(r.case)'
      BY DEF LateSettlesAreLegal
    <3>1. CASE r \in late
      BY <2>2, <3>1 DEF LateSettlesAreLegal, TypeOK, Requests
    <3>2. CASE r = [call |-> tx.step, case |-> tx.case]
      BY <2>1, <2>2, <3>2 DEF TxLegal
    <3> QED BY <2>1, <3>1, <3>2
  <2>4. TxLegal' /\ ConfirmIsSettled'
    BY <2>1 DEF NoTx, TxLegal, ConfirmIsSettled
  <2>5. VerifiedIsLocked' /\ AccountIsJustified'
    BY <2>1, <2>2 DEF VerifiedIsLocked, AccountIsJustified
  <2> QED BY <1>0, <2>1, <2>3, <2>4, <2>5, <2>6, RowsKept
<1>7. CASE Abort
  <2>1. UNCHANGED <<row, account, settledFor, late, now>> /\ tx' = NoTx
    BY <1>7 DEF Abort, identityVars, wireVars
  <2>2. TxLegal' /\ ConfirmIsSettled' /\ Legal(tx'.draft)
    BY <2>1, NoCaseLegal DEF NoTx, TxLegal, ConfirmIsSettled
  <2> QED BY <1>0, <2>1, <2>2, BeginSagaInv
<1>8. CASE Commit
  <2>0. PICK c \in Cases : c = tx.case
    BY <1>8 DEF Commit, TypeOK
  <2> DEFINE r == row[c]
  <2>1. /\ UNCHANGED <<account, settledFor, late, now>>
        /\ tx.op # "none" /\ tx.step = "commit"
        /\ tx' = NoTx
        /\ c \in Cases
        /\ r \in Rows
        /\ row'[c] = tx.draft
        /\ \A x \in Cases \ {c} : row'[x] = row[x]
    BY <1>8, <2>0 DEF Commit, TypeOK, identityVars, wireVars
  <2>2. tx.op \in {"approve", "reject", "void", "livevoid", "confirm"}
    BY <2>1 DEF TypeOK, Transactions
  <2>3. CheckConstraints'
    <3>1. Legal(row'[c]) /\ Legal(tx'.draft)
      BY <2>1, NoCaseLegal DEF CheckConstraints, NoTx
    <3> QED BY <2>1, <3>1, OneRowLegal
  <2>4. VerifiedIsLocked' /\ WaitIsLongEnough'
    <3>1. CASE tx.op = "confirm"
      <4>1. account = "settlement" /\ row'[c].status = "verified"
        BY <2>1, <3>1 DEF TxLegal, ConfirmIsSettled
      <4> QED BY <2>1, <4>1 DEF VerifiedIsLocked, WaitIsLongEnough
    <3>2. CASE tx.op = "approve"
      <4>1. /\ row'[c].status = "waiting_period"
            /\ row'[c].reviewedAt + MinDays <= row'[c].waitEnds
        BY <2>1, <3>2 DEF TxLegal
      <4> QED BY <2>1, <4>1 DEF VerifiedIsLocked, WaitIsLongEnough, Administered
    <3>3. CASE tx.op \in {"reject", "void", "livevoid"}
      <4>1. row'[c].status = "rejected_fraud"
        BY <2>1, <3>3 DEF TxLegal
      <4> QED BY <2>1, <4>1 DEF VerifiedIsLocked, WaitIsLongEnough, Administered
    <3> QED BY <2>2, <3>1, <3>2, <3>3
  <2>5. Settleable(c) =>
            /\ row'[c].reporter = r.reporter
            /\ row'[c].reviewer = r.reviewer
            /\ row'[c].reviewedAt = r.reviewedAt
            /\ row'[c].status \in {"waiting_period", "rejected_fraud", "closed"} \cup Administered
    BY <2>0, <2>1, <2>2 DEF Settleable, TxLegal, Administered
  <2> HIDE DEF SagaInv
  <2> QED BY <1>0, <2>1, <2>3, <2>4, <2>5, RowStep
<1> QED BY <1>2, <1>3, <1>4, <1>6, <1>7, <1>8 DEF TxStep

LEMMA OtherStepSagaInv ==
    ASSUME SagaInv, OwnerStep \/ Tick \/ \E r \in late : LateArrival(r)
    PROVE  SagaInv'
<1> USE DEF SagaInv
<1>0. TypeOK'
  BY OtherStepTypeOK
<1>1. CASE OwnerStep
  <2>1. UNCHANGED <<row, tx, account, settledFor, late, now>>
    BY <1>1 DEF OwnerStep, StepUpGranted, StepUpRecorded, StepUpUnrecorded, UploadStarts,
                UploadInserts, SoftDelete, SettingsChecked, SettingsWritten,
                settlementVars, identityVars, wireVars
  <2>2. now <= now'
    BY <2>1, TimeFacts DEF TypeOK
  <2> QED BY <1>0, <2>1, <2>2, QuietStep
<1>2. CASE Tick
  <2>1. UNCHANGED <<row, tx, account, settledFor, late>> /\ now' = now + 1
    BY <1>2 DEF Tick, settlementVars, wireVars
  <2>2. now <= now'
    BY <2>1, TimeFacts DEF TypeOK
  <2> QED BY <1>0, <2>1, <2>2, QuietStep
<1>3. ASSUME NEW r \in late, LateArrival(r)
      PROVE  SagaInv'
  <2>1. /\ UNCHANGED <<row, tx, now>>
        /\ late' = late \ {r}
        /\ r.case \in Cases
        /\ Applies(r.call, r.case) \/ UNCHANGED <<account, settledFor>>
    BY <1>3 DEF LateArrival, settlementVars, TypeOK, Requests
  <2>2. now <= now'
    BY <2>1, TimeFacts DEF TypeOK
  <2>10. Legal(tx'.draft)
    BY <2>1 DEF CheckConstraints
  <2>3. \A x \in Cases : Settleable(x) => Settleable(x)'
    BY <1>0, <2>1, <2>2, <2>10, RowsKept
  <2>4. account = "settlement" => account' = "settlement" /\ settledFor' = settledFor
    BY <2>1, SettlementAbsorbs
  <2>5. account' = "settlement" /\ account # "settlement" =>
            r.call = "settle" /\ settledFor' = r.case
    BY <2>1, SettlementAbsorbs
  <2>6. VerifiedIsLocked' /\ ConfirmIsSettled'
    BY <2>1, <2>4 DEF VerifiedIsLocked, ConfirmIsSettled
  <2>7. TxLegal'
    BY <2>1, <2>3 DEF TxLegal, TypeOK
  <2>8. LateSettlesAreLegal'
    BY <2>1, <2>3 DEF LateSettlesAreLegal, TypeOK, Requests
  <2>9. AccountIsJustified'
    BY <2>1, <2>3, <2>4, <2>5 DEF AccountIsJustified, LateSettlesAreLegal
  <2> QED BY <1>0, <2>1, <2>2, <2>6, <2>7, <2>8, <2>9, <2>10, RowsKept
<1> QED BY <1>1, <1>2, <1>3

LEMMA NextSagaInv == SagaInv /\ [Next]_vars => SagaInv'
<1> SUFFICES ASSUME SagaInv, [Next]_vars PROVE SagaInv'
  OBVIOUS
<1>1. CASE UNCHANGED vars
  <2>1. UNCHANGED <<row, tx, account, settledFor, late, now>>
    BY <1>1 DEF vars, settlementVars, identityVars, wireVars
  <2>2. now <= now' /\ TypeOK'
    BY <1>1, <2>1, TimeFacts, NextTypeOK DEF SagaInv, TypeOK
  <2> QED BY <2>1, <2>2, QuietStep
<1>2. CASE Next
  BY <1>2, CaseStepSagaInv, TxStepSagaInv, OtherStepSagaInv DEF Next
<1> QED BY <1>1, <1>2

LEMMA SagaInvAlways == Spec => []SagaInv
BY InitSagaInv, NextSagaInv, PTL DEF Spec

-----------------------------------------------------------------------------
(* The theorems.                                                           *)

\* No statement of the saga is one that a CHECK of migration 001 refuses: not the
\* review of a reporter, and not the resolution of a case the same transaction has
\* just verified.
THEOREM ConstraintsHold == Spec => []CheckConstraints
<1>1. SagaInv => CheckConstraints
  BY DEF SagaInv
<1> QED BY <1>1, SagaInvAlways, PTL

\* However many requests are lost, delayed or applied for a transaction that
\* rolled back, a verified estate belongs to a terminally locked account.
THEOREM VerifiedLocked == Spec => []VerifiedIsLocked
<1>1. SagaInv => VerifiedIsLocked
  BY DEF SagaInv
<1> QED BY <1>1, SagaInvAlways, PTL

\* An account enters settlement only for a case reviewed by an operator other
\* than its reporter, at least MinDays after that review.
THEOREM SettlementIsJustified == Spec => []SettlementJustified
<1>1. SagaInv => SettlementJustified
  BY DEF SagaInv, AccountIsJustified, Settleable, SettlementJustified
<1> QED BY <1>1, SagaInvAlways, PTL

\* A handler up to its first call touches neither identity nor documents nor the
\* wire; a void begins with the unlock.
LEMMA CaseStepQuiet ==
    ASSUME NEW c \in Cases, CaseStep(c)
    PROVE  /\ UNCHANGED <<account, docs, late, abandoned>>
           /\ \/ UNCHANGED tx
              \/ tx'.op \notin {"void", "livevoid"}
              \/ tx'.step = "unlock"
<1>1. ASSUME NEW op, NEW draft, NEW step, Begin(op, c, draft, step)
      PROVE  /\ UNCHANGED <<account, docs, late, abandoned>>
             /\ tx'.op = op /\ tx'.step = step
  BY <1>1 DEF Begin, identityVars, wireVars
<1>2. CASE \E by : InsertCase(c, by)
  BY <1>2 DEF InsertCase, identityVars, wireVars
<1>3. CASE \E o \in Operators : StartReview(c, o)
  BY <1>3 DEF StartReview, identityVars, wireVars
<1>4. ASSUME NEW o, NEW at, Approve(c, o, at) \/ Reject(c, o, at) \/ ConfirmVerification(c, o, at)
      PROVE  \E op, draft, step :
                Begin(op, c, draft, step) /\ op \notin {"void", "livevoid"}
  BY <1>4 DEF Approve, Reject, ConfirmVerification
<1>5. ASSUME Void(c)
      PROVE  \E op, draft : Begin(op, c, draft, "unlock")
  BY <1>5 DEF Void
<1>6. CASE \E to \in Statuses : AdvanceStatus(c, to)
  BY <1>6 DEF AdvanceStatus, identityVars, wireVars
<1> QED BY <1>1, <1>2, <1>3, <1>4, <1>5, <1>6 DEF CaseStep, Report, ReportProviderSignal

\* The watermark of updateStatusFrom: no interleaving of step-ups, retries and
\* delayed requests settles an owner recorded alive since the case was opened.
THEOREM LivingOwnerNeverSettled == Spec => NoLivingOwnerSettled
<1> DEFINE Act == account # "settlement" /\ account' = "settlement" =>
                      lastStepUp <= row[settledFor'].openedAt
<1>1. SagaInv /\ [Next]_vars => [Act]_vars
  <2> SUFFICES ASSUME SagaInv, Next, account # "settlement", account' = "settlement"
               PROVE  lastStepUp <= row[settledFor'].openedAt
    BY DEF vars, identityVars
  <2> USE DEF SagaInv
  <2>1. ASSUME NEW call, NEW c \in Cases, Applies(call, c)
        PROVE  lastStepUp <= row[settledFor'].openedAt
    <3>1. settledFor' = c /\ ~Alive(c)
      BY <2>1, SettlementAbsorbs
    <3>2. lastStepUp \in Int /\ row[c].openedAt \in Int
      BY RowTypes, TimeFacts DEF TypeOK, MaybeTimes, NoTime
    <3> QED BY <3>1, <3>2 DEF Alive
  <2>2. \/ CallSucceeds
        \/ ReplyLost
        \/ \E r \in late : LateArrival(r)
    <3>1. \A c \in Cases : CaseStep(c) => UNCHANGED account
      BY CaseStepQuiet
    <3>2. OwnerStep => UNCHANGED account
      BY DEF OwnerStep, StepUpGranted, StepUpRecorded, StepUpUnrecorded, UploadStarts,
             UploadInserts, SoftDelete, SettingsChecked, SettingsWritten, identityVars
    <3>3. LivenessAnswered \/ OwnerAliveAnswered \/ RequestAbandoned \/ Abort \/ Commit \/ Tick
             => UNCHANGED account
      BY DEF LivenessAnswered, OwnerAliveAnswered, RequestAbandoned, Abort, Commit, Tick,
             identityVars
    <3> QED BY <3>1, <3>2, <3>3 DEF Next, TxStep
  <2>3. CASE CallSucceeds \/ ReplyLost
    BY <2>1, <2>3 DEF CallSucceeds, ReplyLost, TypeOK
  <2>4. ASSUME NEW r \in late, LateArrival(r)
        PROVE  \E call : Applies(call, r.case) /\ r.case \in Cases
    BY <2>4 DEF LateArrival, TypeOK, Requests
  <2> QED BY <2>1, <2>2, <2>3, <2>4
<1> QED BY <1>1, SagaInvAlways, PTL DEF Spec, NoLivingOwnerSettled

-----------------------------------------------------------------------------
(* Refinement: what each step is to the abstract account lock.             *)

\* A row that was never opened has no reviewer.
BlankRows == \A c \in Cases : row[c].status = "absent" => row[c].reviewer = Nobody

LockPhase == [c \in Cases |-> Phase(row[c])]
LockReviewed == {c \in Cases : row[c].reviewer # Nobody}

LEMMA PhaseOf ==
    ASSUME NEW r, r.status \in Statuses
    PROVE  /\ Phase(r) \in {"none", "open", "verified", "ended"}
           /\ Phase(r) = "none" <=> r.status = "absent"
           /\ Phase(r) = "open" <=> r.status \in Open
           /\ Phase(r) = "verified" <=> r.status \in Administered
           /\ Phase(r) = "ended" <=> r.status \in Terminal
BY DEF Phase, Statuses, Open, Administered, Terminal

LEMMA InitLock == Init => Lock!Init
<1> SUFFICES ASSUME Init PROVE Lock!Init
  OBVIOUS
<1>1. \A c \in Cases : row[c] = NoCase
  BY DEF Init
<1>2. \A c \in Cases : Phase(row[c]) = "none" /\ row[c].reviewer = Nobody
  BY <1>1, PhaseOf DEF NoCase, Statuses
<1> QED BY <1>2 DEF Init, Lock!Init

\* What a change of one row is to the account lock.
LEMMA RowStepLock ==
    ASSUME SagaInv, BlankRows, TypeOK', NEW c \in Cases,
           UNCHANGED <<account, settledFor>>,
           \A x \in Cases \ {c} : row'[x] = row[x],
           \/ /\ row[c].status = "absent"
              /\ NoOpenCase
              /\ row'[c].status \in Open
              /\ row'[c].reviewer = Nobody
           \/ /\ row[c].status \in Open
              /\ row'[c].status \in Open \cup Terminal
              /\ row'[c].reviewer \in {row[c].reviewer} \cup Operators
           \/ /\ row[c].status \in Administered
              /\ row'[c].status \in Administered \cup Terminal
              /\ row'[c].reviewer = row[c].reviewer
           \/ /\ row[c].status \in Open
              /\ row'[c].status \in Administered
              /\ row'[c].reviewer = row[c].reviewer
              /\ row[c].reviewer # Nobody
              /\ account = "settlement"
    PROVE  [Lock!Next]_(Lock!vars)
<1> USE DEF SagaInv
<1>0. row \in [Cases -> Rows] /\ row' \in [Cases -> Rows]
  BY DEF TypeOK
<1>1. /\ LockPhase \in [Cases -> {"none", "open", "verified", "ended"}]
      /\ \A d \in Cases : LockPhase[d] = Phase(row[d])
      /\ LockPhase' = [LockPhase EXCEPT ![c] = Phase(row'[c])]
  <2>1. \A d \in Cases : row[d].status \in Statuses /\ row'[d].status \in Statuses
    BY <1>0 DEF Rows
  <2>2. \A d \in Cases : LockPhase[d] = Phase(row[d]) /\ LockPhase'[d] = Phase(row'[d])
    BY DEF LockPhase
  <2>3. \A d \in Cases : LockPhase[d] \in {"none", "open", "verified", "ended"}
    BY <2>1, <2>2, PhaseOf
  <2> QED BY <2>2, <2>3 DEF LockPhase
<1>2. row[c].status \in Statuses /\ row'[c].status \in Statuses
  BY <1>0 DEF Rows
<1>3. \/ row'[c].reviewer = row[c].reviewer /\ LockReviewed' = LockReviewed
      \/ row'[c].reviewer \in Operators /\ LockReviewed' = LockReviewed \cup {c}
      \/ row'[c].reviewer = Nobody /\ row[c].status = "absent" /\ LockReviewed' = LockReviewed
  <2>1. Nobody \notin Operators
    BY NobodyAssumption
  <2>2. \A x \in Cases \ {c} : x \in LockReviewed' <=> x \in LockReviewed
    BY DEF LockReviewed
  <2>3. c \in LockReviewed <=> row[c].reviewer # Nobody
    BY DEF LockReviewed
  <2>4. c \in LockReviewed' <=> row'[c].reviewer # Nobody
    BY DEF LockReviewed
  <2>5. LockReviewed \subseteq Cases /\ LockReviewed' \subseteq Cases
    BY DEF LockReviewed
  <2>6. row[c].status = "absent" => row[c].reviewer = Nobody
    BY DEF BlankRows
  <2>7. CASE row'[c].reviewer = row[c].reviewer
    BY <2>2, <2>3, <2>4, <2>5, <2>7
  <2>8. CASE row'[c].reviewer \in Operators
    BY <2>1, <2>2, <2>4, <2>5, <2>8
  <2> QED BY <2>6, <2>7, <2>8
<1>4. CASE /\ row[c].status = "absent"
           /\ NoOpenCase
           /\ row'[c].status \in Open
           /\ row'[c].reviewer = Nobody
  <2>1. LockReviewed' = LockReviewed
    BY <1>3, <1>4, NobodyAssumption
  <2>2. LockPhase[c] = "none" /\ Phase(row'[c]) = "open"
    BY <1>1, <1>2, <1>4, PhaseOf
  <2>3. \A d \in Cases : LockPhase[d] \notin {"open", "verified"}
    <3> SUFFICES ASSUME NEW d \in Cases PROVE LockPhase[d] \notin {"open", "verified"}
      OBVIOUS
    <3>1. row[d].status \in {"absent"} \cup Terminal
      BY <1>4 DEF NoOpenCase
    <3> QED BY <3>1, <1>1 DEF Phase, Terminal, Open, Administered
  <2>4. Lock!File(c)
    BY <1>1, <2>1, <2>2, <2>3 DEF Lock!File, LockPhase, LockReviewed
  <2> QED BY <2>4 DEF Lock!Next
<1>5. CASE /\ row[c].status \in Open
           /\ row'[c].status \in Open \cup Terminal
           /\ row'[c].reviewer \in {row[c].reviewer} \cup Operators
  <2>1. LockPhase[c] = "open" /\ Phase(row'[c]) \in {"open", "ended"}
    BY <1>1, <1>2, <1>5, PhaseOf
  <2>2. LockPhase' \in {LockPhase, [LockPhase EXCEPT ![c] = "ended"]}
    BY <1>1, <2>1
  <2>3. CASE LockReviewed' = LockReviewed \cup {c}
    <3>1. Lock!Review(c)
      BY <2>1, <2>2, <2>3 DEF Lock!Review, LockPhase, LockReviewed
    <3> QED BY <3>1 DEF Lock!Next
  <2>4. CASE LockReviewed' = LockReviewed /\ LockPhase' = LockPhase
    BY <2>4 DEF Lock!vars, LockPhase, LockReviewed
  <2>5. CASE LockReviewed' = LockReviewed /\ LockPhase' = [LockPhase EXCEPT ![c] = "ended"]
    <3>1. Lock!End(c)
      BY <2>1, <2>5 DEF Lock!End, LockPhase, LockReviewed
    <3> QED BY <3>1 DEF Lock!Next
  <2> QED BY <1>3, <2>2, <2>3, <2>4, <2>5
<1>6. CASE /\ row[c].status \in Administered
           /\ row'[c].status \in Administered \cup Terminal
           /\ row'[c].reviewer = row[c].reviewer
  <2>1. LockPhase[c] = "verified" /\ Phase(row'[c]) \in {"verified", "ended"}
    BY <1>1, <1>2, <1>6, PhaseOf
  <2>2. LockReviewed' = LockReviewed
    BY <1>6 DEF LockReviewed
  <2>3. CASE Phase(row'[c]) = "verified"
    BY <1>1, <2>1, <2>2, <2>3 DEF Lock!vars, LockPhase, LockReviewed
  <2>4. CASE Phase(row'[c]) = "ended"
    <3>1. Lock!End(c)
      BY <1>1, <2>1, <2>2, <2>4 DEF Lock!End, LockPhase, LockReviewed
    <3> QED BY <3>1 DEF Lock!Next
  <2> QED BY <2>1, <2>3, <2>4
<1>7. CASE /\ row[c].status \in Open
           /\ row'[c].status \in Administered
           /\ row'[c].reviewer = row[c].reviewer
           /\ row[c].reviewer # Nobody
           /\ account = "settlement"
  <2>1. LockPhase[c] = "open" /\ Phase(row'[c]) = "verified"
    BY <1>1, <1>2, <1>7, PhaseOf
  <2>2. LockReviewed' = LockReviewed /\ c \in LockReviewed
    BY <1>7 DEF LockReviewed
  <2>3. Lock!Verify(c)
    BY <1>1, <1>7, <2>1, <2>2 DEF Lock!Verify, LockPhase, LockReviewed
  <2> QED BY <2>3 DEF Lock!Next
<1> QED BY <1>4, <1>5, <1>6, <1>7

\* A call that identity applies locks, unlocks or settles, or finds its target state.
LEMMA IdentityStepLock ==
    ASSUME SagaInv, UNCHANGED row, NEW call, NEW c \in Cases, Applies(call, c),
           call = "settle" => Settleable(c)
    PROVE  [Lock!Next]_(Lock!vars)
<1> USE DEF SagaInv
<1>1. CASE UNCHANGED <<account, settledFor>>
  BY <1>1 DEF Lock!vars
<1>2. CASE call \in IdentityCalls /\ account = AllowedFrom(call) /\ SetState(call, c)
  <2>1. CASE call = "lock"
    <3>1. Lock!Lock
      BY <1>2, <2>1 DEF Lock!Lock, AllowedFrom, SetState, Target
    <3> QED BY <3>1 DEF Lock!Next
  <2>2. CASE call = "unlock"
    <3>1. Lock!Unlock
      BY <1>2, <2>2 DEF Lock!Unlock, AllowedFrom, SetState, Target
    <3> QED BY <3>1 DEF Lock!Next
  <2>3. CASE call = "settle"
    <3>1. row[c].reviewer # Nobody
      BY <2>3, NobodyAssumption DEF Settleable
    <3>2. Lock!Settle(c)
      BY <1>2, <2>3, <3>1 DEF Lock!Settle, AllowedFrom, SetState, Target
    <3> QED BY <3>2 DEF Lock!Next
  <2> QED BY <1>2, <2>1, <2>2, <2>3 DEF IdentityCalls
<1>3. CASE call \in IdentityCalls /\ account = Target(call) /\ SetState(call, c)
  <2>1. account' = account
    BY <1>3 DEF SetState
  <2>2. settledFor' = settledFor
    <3>1. call = "settle" => account = "settlement"
      BY <1>3 DEF Target
    <3> QED BY <1>3, <3>1 DEF SetState
  <2> QED BY <1>1, <2>1, <2>2
<1> QED BY <1>1, <1>2, <1>3 DEF Applies, Accepts, CanMove

LEMMA CaseStepLock ==
    ASSUME SagaInv, BlankRows, NEW c \in Cases, CaseStep(c)
    PROVE  [Lock!Next]_(Lock!vars) /\ BlankRows'
<1> USE DEF SagaInv
<1>0. TypeOK'
  BY CaseStepTypeOK
<1>1. ASSUME NEW u, InsertCase(c, u)
      PROVE  [Lock!Next]_(Lock!vars) /\ BlankRows'
  <2>1. /\ row'[c] = [NoCase EXCEPT !.status = "reported", !.reporter = u, !.openedAt = now]
        /\ row[c].status = "absent"
        /\ NoOpenCase
        /\ \A x \in Cases \ {c} : row'[x] = row[x]
        /\ UNCHANGED <<account, settledFor>>
    BY <1>1 DEF InsertCase, TypeOK, identityVars
  <2>2. row'[c].status = "reported" /\ row'[c].reviewer = Nobody
    BY <2>1 DEF NoCase
  <2>3. BlankRows'
    BY <2>1, <2>2 DEF BlankRows
  <2> QED BY <1>0, <2>1, <2>2, <2>3, RowStepLock DEF Open
<1>2. ASSUME NEW o, StartReview(c, o)
      PROVE  [Lock!Next]_(Lock!vars) /\ BlankRows'
  <2>1. /\ row'[c] = [row[c] EXCEPT !.status = "verifying"]
        /\ row[c] \in Rows
        /\ row[c].status = "reported"
        /\ \A x \in Cases \ {c} : row'[x] = row[x]
        /\ UNCHANGED <<account, settledFor>>
    BY <1>2 DEF StartReview, TypeOK, identityVars
  <2>2. row'[c].status = "verifying" /\ row'[c].reviewer = row[c].reviewer
    BY <2>1 DEF Rows
  <2>3. BlankRows'
    BY <2>1, <2>2 DEF BlankRows
  <2> QED BY <1>0, <2>1, <2>2, <2>3, RowStepLock DEF Open
<1>3. ASSUME NEW to \in Statuses, AdvanceStatus(c, to)
      PROVE  [Lock!Next]_(Lock!vars) /\ BlankRows'
  <2>1. /\ row'[c] = [row[c] EXCEPT !.status = to]
        /\ row[c] \in Rows
        /\ row[c].status \in Administered
        /\ to \in Administered \cup Terminal
        /\ \A x \in Cases \ {c} : row'[x] = row[x]
        /\ UNCHANGED <<account, settledFor>>
    BY <1>3 DEF AdvanceStatus, Advances, Administered, Terminal, TypeOK, identityVars
  <2>2. row'[c].status = to /\ row'[c].reviewer = row[c].reviewer
    BY <2>1 DEF Rows
  <2>3. BlankRows'
    BY <2>1, <2>2 DEF BlankRows, Administered, Terminal
  <2> QED BY <1>0, <2>1, <2>2, <2>3, RowStepLock
<1>4. ASSUME UNCHANGED <<row, account, settledFor>>
      PROVE  [Lock!Next]_(Lock!vars) /\ BlankRows'
  BY <1>4 DEF Lock!vars, BlankRows
<1>5. \/ \E u : InsertCase(c, u)
      \/ \E o : StartReview(c, o)
      \/ \E to \in Statuses : AdvanceStatus(c, to)
      \/ UNCHANGED <<row, account, settledFor>>
  BY DEF CaseStep, Report, ReportProviderSignal, Approve, Reject, ConfirmVerification,
         Void, Begin, identityVars
<1> QED BY <1>1, <1>2, <1>3, <1>4, <1>5

\* COMMIT moves its case to "verified" only after a settlement.
LEMMA CommitLock ==
    ASSUME SagaInv, BlankRows, Commit
    PROVE  [Lock!Next]_(Lock!vars) /\ BlankRows'
<1> USE DEF SagaInv
<1> DEFINE c == tx.case
<1>0. TypeOK'
  BY TxStepTypeOK DEF TxStep
<1>1. /\ c \in Cases
      /\ row[c] \in Rows
      /\ row'[c] = tx.draft
      /\ \A x \in Cases \ {c} : row'[x] = row[x]
      /\ UNCHANGED <<account, settledFor>>
      /\ tx.op # "none"
  BY DEF Commit, TypeOK, identityVars
<1>2. tx.op \in {"approve", "reject", "void", "livevoid", "confirm"}
  BY DEF Commit, TypeOK, Transactions
<1>3. row'[c].reviewer \in {row[c].reviewer} \cup Operators
  BY <1>1 DEF TxLegal
<1>4. CASE tx.op = "approve"
  <2>1. row[c].status \in Open /\ row'[c].status \in Open
    BY <1>1, <1>4 DEF TxLegal, Open
  <2>2. BlankRows'
    BY <1>1, <2>1 DEF BlankRows, Open
  <2> QED BY <1>0, <1>1, <1>3, <2>1, <2>2, RowStepLock
<1>5. CASE tx.op \in {"reject", "void", "livevoid"}
  <2>1. row[c].status \in Open /\ row'[c].status \in Terminal
    BY <1>1, <1>5 DEF TxLegal, Open, Terminal
  <2>2. BlankRows'
    BY <1>1, <2>1 DEF BlankRows, Terminal
  <2> QED BY <1>0, <1>1, <1>3, <2>1, <2>2, RowStepLock
<1>6. CASE tx.op = "confirm"
  <2>1. /\ row[c].status = "waiting_period"
        /\ row[c].reviewer \in Operators
        /\ account = "settlement"
        /\ row'[c].status = "verified"
        /\ row'[c].reviewer = row[c].reviewer
    BY <1>1, <1>6 DEF TxLegal, Settleable, ConfirmIsSettled, Commit
  <2>2. row[c].status \in Open /\ row'[c].status \in Administered
    BY <2>1 DEF Open, Administered
  <2>3. BlankRows'
    BY <1>1, <2>1 DEF BlankRows
  <2> QED BY <1>0, <1>1, <2>1, <2>2, <2>3, RowStepLock, NobodyAssumption
<1> QED BY <1>2, <1>4, <1>5, <1>6

LEMMA NextLockStep ==
    SagaInv /\ BlankRows /\ [Next]_vars => [Lock!Next]_(Lock!vars) /\ BlankRows'
<1> SUFFICES ASSUME SagaInv, BlankRows, [Next]_vars
             PROVE  [Lock!Next]_(Lock!vars) /\ BlankRows'
  OBVIOUS
<1> USE DEF SagaInv
<1>1. ASSUME UNCHANGED row
      PROVE  BlankRows'
  BY <1>1 DEF BlankRows
<1>2. CASE UNCHANGED <<row, account, settledFor>>
  BY <1>1, <1>2 DEF Lock!vars
<1>3. CASE \E c \in Cases : CaseStep(c)
  BY <1>3, CaseStepLock
<1>4. CASE CallSucceeds \/ ReplyLost
  <2>1. /\ UNCHANGED row
        /\ tx.case \in Cases
        /\ Applies(tx.step, tx.case)
        /\ tx.step = "settle" => Settleable(tx.case)
    BY <1>4 DEF CallSucceeds, ReplyLost, TypeOK, TxLegal
  <2> QED BY <1>1, <2>1, IdentityStepLock
<1>5. CASE Commit
  BY <1>5, CommitLock
<1>6. ASSUME NEW r \in late, LateArrival(r)
      PROVE  [Lock!Next]_(Lock!vars) /\ BlankRows'
  <2>1. /\ UNCHANGED row
        /\ r.case \in Cases
        /\ r.call = "settle" => Settleable(r.case)
    BY <1>6 DEF LateArrival, settlementVars, TypeOK, Requests, LateSettlesAreLegal
  <2>2. CASE Applies(r.call, r.case)
    BY <1>1, <2>1, <2>2, IdentityStepLock
  <2>3. CASE UNCHANGED <<account, settledFor, docs>>
    BY <1>2, <2>1, <2>3
  <2> QED BY <1>6, <2>2, <2>3 DEF LateArrival
<1>7. ASSUME \/ LivenessAnswered \/ OwnerAliveAnswered \/ RequestAbandoned \/ Abort
             \/ OwnerStep \/ Tick \/ UNCHANGED vars
      PROVE  UNCHANGED <<row, account, settledFor>>
  BY <1>7 DEF LivenessAnswered, OwnerAliveAnswered, RequestAbandoned, Abort, OwnerStep,
              StepUpGranted, StepUpRecorded, StepUpUnrecorded, UploadStarts, UploadInserts,
              SoftDelete, SettingsChecked, SettingsWritten, Tick, vars, settlementVars,
              identityVars
<1> QED BY <1>2, <1>3, <1>4, <1>5, <1>6, <1>7 DEF Next, TxStep

LEMMA InitBlankRows == Init => BlankRows
BY DEF Init, BlankRows, NoCase

\* The saga implements the account lock: lost, duplicated and late calls, transactions
\* that roll back and reviews by whoever it is are steps of AccountLock, or none.
THEOREM SagaImplementsLock == Spec => ImplementsAccountLock
<1>1. Spec => Lock!Spec
  BY InitLock, InitBlankRows, NextLockStep, SagaInvAlways, PTL DEF Spec, Lock!Spec
<1> QED BY <1>1 DEF ImplementsAccountLock

-----------------------------------------------------------------------------
(* What a void restores.                                                   *)

\* With nothing left on the wire, a void past its unlock has an active account, and
\* one past its release no held document.
VoidUnderway ==
    abandoned = 0 =>
        /\ late = {}
        /\ tx.op \in {"void", "livevoid"} =>
              /\ tx.step \in {"unlock", "release", "commit"}
              /\ tx.step # "unlock" => account = "active"
              /\ tx.step = "commit" => \A d \in Docs : docs[d] # "held"

LEMMA InitVoidUnderway == Init => VoidUnderway
BY DEF Init, VoidUnderway, NoTx

LEMMA NextVoidUnderway == SagaInv /\ VoidUnderway /\ [Next]_vars => VoidUnderway'
<1> SUFFICES ASSUME SagaInv, VoidUnderway, [Next]_vars, abandoned' = 0
             PROVE  /\ late' = {}
                    /\ tx'.op \in {"void", "livevoid"} =>
                          /\ tx'.step \in {"unlock", "release", "commit"}
                          /\ tx'.step # "unlock" => account' = "active"
                          /\ tx'.step = "commit" => \A d \in Docs : docs'[d] # "held"
  BY DEF VoidUnderway
<1> USE DEF SagaInv
<1>1. abandoned = 0 /\ UNCHANGED late
  <2>1. abandoned \in Nat
    BY BoundsAssumption DEF TypeOK
  <2>2. CASE RequestAbandoned
    BY <2>1, <2>2 DEF RequestAbandoned
  <2>3. CASE \E r \in late : LateArrival(r)
    BY <2>3 DEF LateArrival, VoidUnderway
  <2>4. CASE UNCHANGED wireVars
    BY <2>4 DEF wireVars
  <2>5. CASE \E c \in Cases : CaseStep(c)
    BY <2>4, <2>5, CaseStepQuiet DEF wireVars
  <2>6. CASE TxStep
    BY <2>2, <2>4, <2>6 DEF TxStep, CallSucceeds, LivenessAnswered, OwnerAliveAnswered,
           ReplyLost, Abort, Commit
  <2>7. CASE OwnerStep \/ Tick \/ UNCHANGED vars
    BY <2>4, <2>7 DEF OwnerStep, StepUpGranted, StepUpRecorded, StepUpUnrecorded,
           UploadStarts, UploadInserts, SoftDelete, SettingsChecked, SettingsWritten,
           Tick, vars, wireVars
  <2> QED BY <2>3, <2>5, <2>6, <2>7 DEF Next
<1>2. late = {} /\ (tx.op \in {"void", "livevoid"} =>
              /\ tx.step \in {"unlock", "release", "commit"}
              /\ tx.step # "unlock" => account = "active"
              /\ tx.step = "commit" => \A d \in Docs : docs[d] # "held")
  BY <1>1 DEF VoidUnderway
<1>3. CASE tx' = NoTx
  BY <1>1, <1>2, <1>3 DEF NoTx
<1>4. CASE tx'.op \in {"void", "livevoid"} /\ tx'.step = "unlock"
  BY <1>1, <1>2, <1>4
<1>5. CASE tx'.op \notin {"void", "livevoid"}
  BY <1>1, <1>2, <1>5
<1>6. CASE UNCHANGED <<tx, account, docs>>
  BY <1>1, <1>2, <1>6
<1>7. CASE CallSucceeds
  <2>1. tx'.op = tx.op /\ tx'.step = AfterCall(tx.op, tx.step)
    BY <1>7 DEF CallSucceeds, TypeOK, Transactions
  <2>2. CASE tx.op \in {"void", "livevoid"}
    <3>1. tx.step \in {"unlock", "release"}
      BY <1>2, <1>7, <2>2 DEF CallSucceeds, Applies, IdentityCalls, DocumentsCalls
    <3>2. CASE tx.step = "unlock"
      <4>1. account' = "active" /\ tx'.step = "release"
        BY <1>7, <2>1, <3>2
        DEF CallSucceeds, Applies, SetState, Target, AfterCall, IdentityCalls, DocumentsCalls
      <4> QED BY <1>1, <1>2, <4>1
    <3>3. CASE tx.step = "release"
      <4>1. tx'.step = "commit"
        BY <2>1, <3>3 DEF AfterCall
      <4>2. account' = account /\ SetEstateLegalHold("release")
        BY <1>7, <3>3 DEF CallSucceeds, Applies, IdentityCalls, DocumentsCalls
      <4>3. \A d \in Docs : docs'[d] # "held"
        BY <4>2 DEF SetEstateLegalHold
      <4> QED BY <1>1, <1>2, <2>2, <3>3, <4>1, <4>2, <4>3
    <3> QED BY <3>1, <3>2, <3>3
  <2> QED BY <1>5, <2>1, <2>2
<1>8. CASE OwnerStep
  <2>1. UNCHANGED <<tx, account>> /\
        (\A d \in Docs : docs[d] # "held" => docs'[d] # "held")
    BY <1>8 DEF OwnerStep, StepUpGranted, StepUpRecorded, StepUpUnrecorded, UploadStarts,
               UploadInserts, SoftDelete, SettingsChecked, SettingsWritten, settlementVars,
               identityVars, TypeOK
  <2> QED BY <1>1, <1>2, <2>1
<1>9. CASE \E c \in Cases : CaseStep(c)
  <2>1. /\ UNCHANGED <<account, docs>>
        /\ \/ UNCHANGED tx
           \/ tx'.op \notin {"void", "livevoid"}
           \/ tx'.step = "unlock"
    BY <1>9, CaseStepQuiet
  <2> QED BY <1>4, <1>5, <1>6, <2>1
<1>10. CASE LivenessAnswered \/ OwnerAliveAnswered
  <2>1. \/ tx'.op = "confirm"
        \/ tx'.op = "livevoid" /\ tx'.step = "unlock"
    BY <1>10 DEF LivenessAnswered, OwnerAliveAnswered, VoidLiving, TypeOK, Transactions
  <2> QED BY <1>4, <1>5, <2>1
<1>11. CASE ReplyLost \/ RequestAbandoned \/ Abort \/ Commit
  BY <1>3, <1>11 DEF ReplyLost, RequestAbandoned, Abort, Commit
<1>12. CASE Tick \/ UNCHANGED vars
  BY <1>6, <1>12 DEF Tick, vars, settlementVars, identityVars
<1>13. ~ \E r \in late : LateArrival(r)
  BY <1>2
<1> QED BY <1>7, <1>8, <1>9, <1>10, <1>11, <1>12, <1>13 DEF Next, TxStep

\* A void that commits finds the account active and no document held, as long as no
\* request of an earlier transaction was left on the wire.
THEOREM VoidRestores == Spec => VoidRestoresAccount
<1> DEFINE Restores ==
        \A c \in Cases :
          /\ abandoned = 0
          /\ row[c].resolution # "owner_voided"
          /\ row'[c].resolution = "owner_voided"
          => account = "active" /\ \A d \in Docs : docs[d] # "held"
<1>1. SagaInv /\ VoidUnderway /\ [Next]_vars => [Restores]_vars
  <2> SUFFICES ASSUME SagaInv, VoidUnderway, Next, NEW c \in Cases, abandoned = 0,
                      row[c].resolution # "owner_voided",
                      row'[c].resolution = "owner_voided"
               PROVE  account = "active" /\ \A d \in Docs : docs[d] # "held"
    OBVIOUS
  <2> USE DEF SagaInv
  <2>1. row[c] \in Rows
    BY DEF TypeOK
  <2>2. ~ \E x \in Cases : CaseStep(x)
    <3> SUFFICES ASSUME NEW x \in Cases, CaseStep(x) PROVE FALSE
      OBVIOUS
    <3>1. row[x] \in Rows
      BY DEF TypeOK
    <3>2. CASE \E u : InsertCase(x, u)
      BY <2>1, <3>2 DEF InsertCase, TypeOK, NoCase
    <3>3. CASE \E o : StartReview(x, o)
      BY <2>1, <3>1, <3>3 DEF StartReview, TypeOK, Rows
    <3>4. CASE \E to \in Statuses : AdvanceStatus(x, to)
      BY <2>1, <3>1, <3>4 DEF AdvanceStatus, TypeOK, Rows
    <3>5. CASE UNCHANGED row
      BY <3>5
    <3> QED BY <3>2, <3>3, <3>4, <3>5 DEF CaseStep, Report, ReportProviderSignal, Approve,
                                        Reject, ConfirmVerification, Void, Begin
  <2>3. Commit
    BY <2>2 DEF Next, TxStep, CallSucceeds, LivenessAnswered, OwnerAliveAnswered, ReplyLost,
           RequestAbandoned, Abort, LateArrival, OwnerStep, StepUpGranted, StepUpRecorded,
           StepUpUnrecorded, UploadStarts, UploadInserts, SoftDelete, SettingsChecked,
           SettingsWritten, Tick, settlementVars
  <2>4. c = tx.case /\ row'[c] = tx.draft
    BY <2>3 DEF Commit, TypeOK
  <2>5. tx.op \in {"approve", "reject", "void", "livevoid", "confirm"} /\ tx.step = "commit"
    BY <2>3 DEF Commit, TypeOK, Transactions
  <2>6. tx.op \in {"void", "livevoid"}
    BY <2>4, <2>5 DEF TxLegal, CheckConstraints, Legal
  <2> QED BY <2>5, <2>6 DEF VoidUnderway
<1> QED BY <1>1, InitVoidUnderway, NextVoidUnderway, SagaInvAlways, PTL
        DEF Spec, VoidRestoresAccount
=============================================================================
