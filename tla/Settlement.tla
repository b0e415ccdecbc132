----------------------------- MODULE Settlement -----------------------------
(***************************************************************************)
(* The death-settlement saga of one decedent (docs/03 section 5.1): the    *)
(* case state machine of the settlement service, the account lock the      *)
(* identity service keeps for it, the estate-wide legal hold the documents *)
(* service keeps for it, and the living owner who may object meanwhile.    *)
(*                                                                         *)
(* A transition of a case is a database transaction that holds the case    *)
(* row and, while it is open, calls the other two services over HTTP:      *)
(*                                                                         *)
(*    approve                lock, hold, COMMIT                            *)
(*    reject (from waiting)  unlock, release, COMMIT                       *)
(*    void                   unlock, release, COMMIT                       *)
(*    confirm                liveness, hold, settle, COMMIT                *)
(*                                                                         *)
(* A call takes effect at its server at once, whatever happens to the      *)
(* caller's transaction afterwards: the saga is exactly about transactions *)
(* that roll back after a call was applied, and about requests that arrive *)
(* after the transaction that sent them is gone.  The row is written       *)
(* before the calls, so the transaction carries a draft of it; confirm     *)
(* writes it twice when identity answers that the owner lives.             *)
(*                                                                         *)
(* Abstracted: evidence, the claim a reviewer puts on a case, operator     *)
(* breadth counting, notifications and audit events.  Time is in days; of  *)
(* verified_at and resolved_at only whether they are set.                  *)
(***************************************************************************)
EXTENDS Integers, CaseStatus

CONSTANTS
    Cases,          \* case ids that may be opened for the decedent
    Operators,      \* users on the settlement_operators allowlist
    Contacts,       \* users linked to a live contact of the decedent
    Docs,           \* ids of the decedent's documents
    Nobody,         \* stands for a NULL user or case id
    MinDays,        \* DEFAULT_WAITING_PERIOD_DAYS, also the floor in the DDL
    MaxDays,        \* the ceiling in the DDL
    MaxTime,        \* bound: the last day the model looks at
    MaxLockWait,    \* bound: days a request may queue for the case row
    MaxAbandoned    \* bound: requests that outlive their transaction

ASSUME NobodyAssumption ==
    Nobody \notin Operators \cup Contacts \cup Cases

ASSUME BoundsAssumption ==
    /\ MinDays \in Nat \ {0}
    /\ MaxDays \in Nat
    /\ MinDays <= MaxDays
    /\ MaxTime \in Nat
    /\ MaxLockWait \in Nat
    /\ MaxAbandoned \in Nat

VARIABLES
    row,            \* settlement_cases, as committed
    tx,             \* the transaction that holds the open case's row
    waitDays,       \* settlement_settings.waiting_period_days
    settingsDraft,  \* an updateSettings that has passed its open-case check
    account,        \* users.status in identity
    settledFor,     \* the case that made the account "settlement"
    lastStepUp,     \* newest stepup.granted row of auth_events
    stepUpPending,  \* a step-up granted on the session, its row not yet inserted
    fresh,          \* the owner holds a step-up-fresh session
    docs,           \* documents of the owner
    late,           \* requests still on the wire whose transaction has gone
    abandoned,      \* how many requests were ever abandoned
    now             \* the day

settlementVars == <<row, tx, waitDays, settingsDraft>>
identityVars == <<account, settledFor, lastStepUp, stepUpPending, fresh>>
wireVars == <<late, abandoned>>
vars == <<settlementVars, identityVars, docs, wireVars, now>>

NoTime == -1
Times == 0 .. MaxTime

Statuses == {"absent"} \cup Open \cup Administered \cup Terminal

IdentityCalls == {"lock", "unlock", "settle"}
DocumentsCalls == {"hold", "release"}
Requests == [call : IdentityCalls \cup DocumentsCalls, case : Cases]

\* The row of a case nobody has opened.
NoCase ==
    [status |-> "absent", reporter |-> Nobody, openedAt |-> NoTime,
     reviewer |-> Nobody, reviewedAt |-> NoTime, waitEnds |-> NoTime,
     verifiedAt |-> "null", resolution |-> "none", resolvedAt |-> "null",
     checklist |-> FALSE]

\* No transaction is open on any case.
NoTx == [op |-> "none", case |-> Nobody, draft |-> NoCase, step |-> "commit"]

Init ==
    /\ row = [c \in Cases |-> NoCase]
    /\ tx = NoTx
    /\ waitDays = MinDays
    /\ settingsDraft = 0
    /\ account = "active"
    /\ settledFor = Nobody
    /\ lastStepUp = NoTime
    /\ stepUpPending = FALSE
    /\ fresh = FALSE
    /\ docs = [d \in Docs |-> "absent"]
    /\ late = {}
    /\ abandoned = 0
    /\ now = 0

-----------------------------------------------------------------------------
(* Intake.  The partial unique index ux_settlement_cases_open admits one   *)
(* case that is neither closed nor rejected per decedent.                  *)

NoOpenCase == \A c \in Cases : row[c].status \in {"absent"} \cup Terminal

InsertCase(c, reporter) ==
    /\ row[c].status = "absent"
    /\ NoOpenCase
    /\ row' = [row EXCEPT ![c] =
                  [NoCase EXCEPT !.status = "reported",
                                 !.reporter = reporter,
                                 !.openedAt = now]]
    /\ UNCHANGED <<tx, waitDays, settingsDraft, identityVars, docs, wireVars, now>>

\* A linked contact reports the death.
Report(c, contact) == contact \in Contacts /\ InsertCase(c, contact)

\* An operator files a provider's match.
ReportProviderSignal(c, operator) == operator \in Operators /\ InsertCase(c, operator)

-----------------------------------------------------------------------------
(* Transitions.  A handler reads the clock, then queues for the row lock:  *)
(* what it stamps is up to MaxLockWait days old.                           *)

Unlocked == tx.op = "none"

RequestTimes == {t \in Times : t <= now /\ now <= t + MaxLockWait}

StartReview(c, operator) ==
    /\ Unlocked
    /\ row[c].status = "reported"
    /\ operator # row[c].reporter
    /\ row' = [row EXCEPT ![c].status = "verifying"]
    /\ UNCHANGED <<tx, waitDays, settingsDraft, identityVars, docs, wireVars, now>>

\* The UPDATEs of cases.repo.ts.  markApproved:
Approved(r, operator, at, ends) ==
    [r EXCEPT !.status = "waiting_period", !.reviewer = operator,
              !.reviewedAt = at, !.waitEnds = ends]

ResolvedKeepingVerifiedAt(r, resolution, reviewer, reviewedAt) ==
    [r EXCEPT !.status = "rejected_fraud", !.resolution = resolution,
              !.resolvedAt = "set", !.reviewer = reviewer,
              !.reviewedAt = reviewedAt, !.waitEnds = NoTime]

\* markResolved: COALESCE keeps the approval's reviewer, and a rejection from
\* verifying brings its own.
Resolved(r, resolution, reviewer, reviewedAt) ==
    [r EXCEPT !.status = "rejected_fraud", !.resolution = resolution,
              !.resolvedAt = "set", !.reviewer = reviewer,
              !.reviewedAt = reviewedAt, !.waitEnds = NoTime,
              !.verifiedAt = "null"]

\* markVerified, and the checklist inserted with it.
Verified(r) ==
    [r EXCEPT !.status = "verified", !.verifiedAt = "set", !.checklist = TRUE]

\* The handler holds the row, has run its first statement and is about to take
\* its next step.
Begin(op, c, draft, step) ==
    /\ Unlocked
    /\ tx' = [op |-> op, case |-> c, draft |-> draft, step |-> step]
    /\ UNCHANGED <<row, waitDays, settingsDraft, identityVars, docs, wireVars, now>>

\* The waiting period of an approval: the owner's setting, never below the floor.
WaitingDays == IF waitDays > MinDays THEN waitDays ELSE MinDays

Approve(c, operator, at) ==
    /\ row[c].status = "verifying"
    /\ operator # row[c].reporter
    /\ Begin("approve", c, Approved(row[c], operator, at, at + WaitingDays), "lock")

Rejected(r, operator, at) ==
    IF r.status = "verifying"
    THEN Resolved(r, "operator_rejected", operator, at)
    ELSE Resolved(r, "operator_rejected", r.reviewer, r.reviewedAt)

\* Only a case that was approved has an account to restore.
Reject(c, operator, at) ==
    /\ row[c].status \in {"verifying", "waiting_period"}
    /\ operator # row[c].reporter
    /\ Begin("reject", c, Rejected(row[c], operator, at),
             IF row[c].status = "waiting_period" THEN "unlock" ELSE "commit")

\* A session works while the account is in this allowlist.
SessionLive == account \in {"active", "deceased_pending"}

Voided(r) == Resolved(r, "owner_voided", r.reviewer, r.reviewedAt)

Void(c) ==
    /\ fresh
    /\ SessionLive
    /\ row[c].status \in Open
    /\ Begin("void", c, Voided(row[c]), "unlock")

WaitLapsedWithoutDeadline(c, at) == row[c].reviewedAt <= at

WaitLapsed(c, at) == row[c].waitEnds # NoTime /\ row[c].waitEnds <= at

ConfirmVerification(c, operator, at) ==
    /\ row[c].status = "waiting_period"
    /\ operator # row[c].reporter
    /\ WaitLapsed(c, at)
    /\ Begin("confirm", c, row[c], "liveness")

-----------------------------------------------------------------------------
(* The other side of the wire.                                             *)

Target(call) == CASE call = "lock" -> "deceased_pending"
                  [] call = "unlock" -> "active"
                  [] call = "settle" -> "settlement"

AllowedFromLocked(call) ==
    CASE call = "lock" -> "active"
      [] call = "settle" -> "deceased_pending"
      [] call = "unlock" -> account

\* ALLOWED_TRANSITIONS of identity.
AllowedFrom(call) == IF call = "lock" THEN "active" ELSE "deceased_pending"

\* The owner has stepped up since the case was opened.
Alive(c) == lastStepUp > row[c].openedAt

CanMoveWithoutWatermark(call, c) == account = AllowedFrom(call)

\* The compare-and-set of updateStatusFrom: settle carries the case's
\* created_at as a watermark and is refused once the ledger is ahead of it.
CanMove(call, c) == account = AllowedFrom(call) /\ (call = "settle" => ~Alive(c))

Accepts(call, c) == account = Target(call) \/ CanMove(call, c)

SetState(call, c) ==
    /\ account' = Target(call)
    /\ settledFor' = IF call = "settle" /\ account # "settlement" THEN c ELSE settledFor

SetEstateLegalHold(call) ==
    docs' = IF call = "hold"
            THEN [d \in Docs |-> IF docs[d] = "live" THEN "held" ELSE docs[d]]
            ELSE [d \in Docs |-> IF docs[d] = "held" THEN "live" ELSE docs[d]]

\* The server accepts the call and applies it.
Applies(call, c) ==
    \/ /\ call \in IdentityCalls
       /\ Accepts(call, c)
       /\ SetState(call, c)
       /\ UNCHANGED docs
    \/ /\ call \in DocumentsCalls
       /\ SetEstateLegalHold(call)
       /\ UNCHANGED <<account, settledFor>>

AfterCallWithoutSettle(op, call) ==
    CASE call = "lock" -> "hold"
      [] call = "unlock" -> "release"
      [] OTHER -> "commit"

AfterCallWithoutRelease(op, call) ==
    CASE call = "lock" -> "hold"
      [] call = "hold" -> IF op = "confirm" THEN "settle" ELSE "commit"
      [] OTHER -> "commit"

\* What the handler does after each call that succeeded.
AfterCall(op, call) ==
    CASE call = "lock" -> "hold"
      [] call = "unlock" -> "release"
      [] call = "release" -> "commit"
      [] call = "settle" -> "commit"
      [] call = "hold" -> IF op = "confirm" THEN "settle" ELSE "commit"

CallSucceeds ==
    /\ tx.op # "none"
    /\ Applies(tx.step, tx.case)
    /\ tx' = [tx EXCEPT !.step = AfterCall(tx.op, tx.step)]
    /\ UNCHANGED <<row, waitDays, settingsDraft, lastStepUp, stepUpPending, fresh,
                   wireVars, now>>

\* The confirmation goes on as a void of what it has written so far.
VoidLiving == [tx EXCEPT !.op = "livevoid", !.draft = Voided(tx.draft), !.step = "unlock"]

\* The first answer confirm waits for: the owner's newest step-up.  Without one
\* since the case was opened, markVerified runs before the two calls.
LivenessAnswered ==
    /\ tx.op = "confirm"
    /\ tx.step = "liveness"
    /\ tx' = IF Alive(tx.case)
             THEN VoidLiving
             ELSE [tx EXCEPT !.draft = Verified(tx.draft), !.step = "hold"]
    /\ UNCHANGED <<row, waitDays, settingsDraft, identityVars, docs, wireVars, now>>

\* 409 owner_alive: the watermark refused the settlement, so the verification
\* just written is undone by markResolved in the same transaction.
OwnerAliveAnswered ==
    /\ tx.op = "confirm"
    /\ tx.step = "settle"
    /\ account # "settlement"
    /\ Alive(tx.case)
    /\ tx' = VoidLiving
    /\ UNCHANGED <<row, waitDays, settingsDraft, identityVars, docs, wireVars, now>>

\* The call was applied but its reply was lost, unreadable or too late, or the
\* service crashed before it: the transaction rolls back.
ReplyLost ==
    /\ tx.op # "none"
    /\ Applies(tx.step, tx.case)
    /\ tx' = NoTx
    /\ UNCHANGED <<row, waitDays, settingsDraft, lastStepUp, stepUpPending, fresh,
                   wireVars, now>>

\* The transaction rolls back while its request is still on its way.
RequestAbandoned ==
    /\ tx.op # "none"
    /\ tx.step \in IdentityCalls \cup DocumentsCalls
    /\ abandoned < MaxAbandoned
    /\ abandoned' = abandoned + 1
    /\ late' = late \cup {[call |-> tx.step, case |-> tx.case]}
    /\ tx' = NoTx
    /\ UNCHANGED <<row, waitDays, settingsDraft, identityVars, docs, now>>

\* Such a request arrives, and nobody waits for the answer; or it is refused,
\* or lost after all.
LateArrival(r) ==
    /\ r \in late
    /\ late' = late \ {r}
    /\ Applies(r.call, r.case) \/ UNCHANGED <<account, settledFor, docs>>
    /\ UNCHANGED <<settlementVars, lastStepUp, stepUpPending, fresh, abandoned, now>>

\* A refused or undelivered call, a crash, or a COMMIT that fails.
Abort ==
    /\ tx.op # "none"
    /\ tx' = NoTx
    /\ UNCHANGED <<row, waitDays, settingsDraft, identityVars, docs, wireVars, now>>

-----------------------------------------------------------------------------
(* COMMIT: the row becomes what the transaction wrote to it.               *)

Commit ==
    /\ tx.op # "none"
    /\ tx.step = "commit"
    /\ row' = [row EXCEPT ![tx.case] = tx.draft]
    /\ tx' = NoTx
    /\ UNCHANGED <<waitDays, settingsDraft, identityVars, docs, wireVars, now>>

\* Administration of a verified estate, seen from here: only the status moves.
AdvanceStatus(c, to) ==
    /\ Unlocked
    /\ Advances(row[c].status, to)
    /\ row' = [row EXCEPT ![c].status = to]
    /\ UNCHANGED <<tx, waitDays, settingsDraft, identityVars, docs, wireVars, now>>

-----------------------------------------------------------------------------
(* The owner.                                                              *)

\* stepUp: the grant on the session and the ledger row are two statements.
StepUpGranted ==
    /\ SessionLive
    /\ ~stepUpPending
    /\ fresh' = TRUE
    /\ stepUpPending' = TRUE
    /\ UNCHANGED <<settlementVars, account, settledFor, lastStepUp, docs, wireVars, now>>

StepUpRecorded ==
    /\ stepUpPending
    /\ lastStepUp' = now
    /\ stepUpPending' = FALSE
    /\ UNCHANGED <<settlementVars, account, settledFor, fresh, docs, wireVars, now>>

\* identity crashes between the two statements.
StepUpUnrecorded ==
    /\ stepUpPending
    /\ stepUpPending' = FALSE
    /\ UNCHANGED <<settlementVars, account, settledFor, lastStepUp, fresh, docs, wireVars, now>>

\* generate and upload authorise long before they insert, and insert un-held.
UploadStarts(d) ==
    /\ SessionLive
    /\ docs[d] = "absent"
    /\ docs' = [docs EXCEPT ![d] = "uploading"]
    /\ UNCHANGED <<settlementVars, identityVars, wireVars, now>>

UploadInserts(d) ==
    /\ docs[d] = "uploading"
    /\ docs' = [docs EXCEPT ![d] = "live"]
    /\ UNCHANGED <<settlementVars, identityVars, wireVars, now>>

\* softDelete refuses a document on legal hold.
SoftDelete(d) ==
    /\ SessionLive
    /\ docs[d] = "live"
    /\ docs' = [docs EXCEPT ![d] = "deleted"]
    /\ UNCHANGED <<settlementVars, identityVars, wireVars, now>>

\* updateSettings at READ COMMITTED: the check for an open case and the upsert
\* are two statements, and nothing locks what the first one did not find.
\* (A request for the value already set changes nothing and is left out.)
SettingsChecked(days) ==
    /\ fresh
    /\ SessionLive
    /\ days # waitDays
    /\ settingsDraft = 0
    /\ NoOpenCase
    /\ settingsDraft' = days
    /\ UNCHANGED <<row, tx, waitDays, identityVars, docs, wireVars, now>>

SettingsWritten ==
    /\ settingsDraft # 0
    /\ waitDays' = settingsDraft
    /\ settingsDraft' = 0
    /\ UNCHANGED <<row, tx, identityVars, docs, wireVars, now>>

\* A day passes.  A step-up window is minutes long, and its two statements are
\* never a day apart.
Tick ==
    /\ now < MaxTime
    /\ ~stepUpPending
    /\ now' = now + 1
    /\ fresh' = FALSE
    /\ UNCHANGED <<settlementVars, account, settledFor, lastStepUp, stepUpPending, docs,
                   wireVars>>

-----------------------------------------------------------------------------
CaseStep(c) ==
    \/ \E k \in Contacts : Report(c, k)
    \/ \E o \in Operators : ReportProviderSignal(c, o) \/ StartReview(c, o)
    \/ \E o \in Operators, at \in RequestTimes :
          Approve(c, o, at) \/ Reject(c, o, at) \/ ConfirmVerification(c, o, at)
    \/ Void(c)
    \/ \E to \in Statuses : AdvanceStatus(c, to)

TxStep ==
    \/ CallSucceeds \/ LivenessAnswered \/ OwnerAliveAnswered
    \/ ReplyLost \/ RequestAbandoned \/ Abort \/ Commit

OwnerStep ==
    \/ StepUpGranted \/ StepUpRecorded \/ StepUpUnrecorded
    \/ \E d \in Docs : UploadStarts(d) \/ UploadInserts(d) \/ SoftDelete(d)
    \/ \E days \in MinDays .. MaxDays : SettingsChecked(days)
    \/ SettingsWritten

Next ==
    \/ \E c \in Cases : CaseStep(c)
    \/ TxStep
    \/ \E r \in late : LateArrival(r)
    \/ OwnerStep
    \/ Tick

Spec == Init /\ [][Next]_vars
-----------------------------------------------------------------------------
(* Properties.                                                             *)

Users == Operators \cup Contacts
MaybeTimes == Times \cup {NoTime}
Deadlines == 0 .. MaxTime + MaxDays

Rows ==
    [status : Statuses, reporter : Users \cup {Nobody}, openedAt : MaybeTimes,
     reviewer : Operators \cup {Nobody}, reviewedAt : MaybeTimes,
     waitEnds : Deadlines \cup {NoTime}, verifiedAt : {"null", "set"},
     resolution : {"none", "operator_rejected", "owner_voided"},
     resolvedAt : {"null", "set"}, checklist : BOOLEAN]

Transactions ==
    [op : {"none", "approve", "reject", "void", "confirm", "livevoid"},
     case : Cases \cup {Nobody}, draft : Rows,
     step : {"commit", "liveness"} \cup IdentityCalls \cup DocumentsCalls]

Locks == {"active", "deceased_pending", "settlement"}
DocStates == {"absent", "uploading", "live", "held", "deleted"}

\* Every variable stays in its domain, and the waiting period between the
\* floor and the ceiling of its CHECK constraint.
TypeOK ==
    /\ row \in [Cases -> Rows]
    /\ tx \in Transactions
    /\ tx.op # "none" => tx.case \in Cases
    /\ waitDays \in MinDays .. MaxDays
    /\ settingsDraft \in {0} \cup MinDays .. MaxDays
    /\ account \in Locks
    /\ settledFor \in Cases \cup {Nobody}
    /\ lastStepUp \in MaybeTimes
    /\ stepUpPending \in BOOLEAN
    /\ fresh \in BOOLEAN
    /\ docs \in [Docs -> DocStates]
    /\ late \subseteq Requests
    /\ abandoned \in 0 .. MaxAbandoned
    /\ now \in Times

\* The CHECK constraints of migration 001 on a row of settlement_cases, in the
\* order of the file (those on single columns are in Rows).
Legal(r) ==
    /\ r.reviewer # Nobody => r.reviewer # r.reporter
    /\ r.reviewer = Nobody <=> r.reviewedAt = NoTime
    /\ r.reviewer = Nobody =>
          r.status \in {"absent", "reported", "verifying", "rejected_fraud"}
    /\ r.status = "waiting_period" => r.waitEnds # NoTime
    /\ r.verifiedAt # "null" <=> r.status \in Administered \cup {"closed"}
    /\ r.resolution # "none" <=> r.status = "rejected_fraud"
    /\ r.resolution = "none" <=> r.resolvedAt = "null"

\* No statement of a handler is one that a CHECK refuses, neither what has been
\* committed nor what an open transaction has written so far.  A refusal would
\* undo the transaction when it matters most: confirm verifies the case, learns
\* from identity that the owner lives, and resolves the row it has just verified.
CheckConstraints == Legal(tx.draft) /\ \A c \in Cases : Legal(row[c])

\* Whatever calls were lost, delayed or applied for a transaction that rolled
\* back, a case that counts as verified has its account terminally locked: no
\* estate is administered while the owner can still sign in.
VerifiedIsLocked ==
    \A c \in Cases :
        row[c].status \in Administered \cup {"closed"} => account = "settlement"

\* An account is in settlement only for a case that an operator other than its
\* reporter approved at least MinDays earlier, even when the request that put it
\* there was delayed past its own transaction.
SettlementJustified ==
    account = "settlement" =>
        /\ settledFor \in Cases
        /\ row[settledFor].reviewer \in Operators
        /\ row[settledFor].reviewer # row[settledFor].reporter
        /\ row[settledFor].reviewedAt + MinDays <= now

\* identity never puts an owner into settlement whose step-up it has recorded
\* since the case was opened, at whatever point of a confirmation the step-up lands.
NoLivingOwnerSettled ==
    [][account # "settlement" /\ account' = "settlement" =>
          lastStepUp <= row[settledFor'].openedAt]_vars

\* When a void commits, the account is active again and no document is held,
\* provided no request of an earlier transaction was left on the wire.
VoidRestoresAccount ==
    [][\A c \in Cases :
          /\ abandoned = 0
          /\ row[c].resolution # "owner_voided"
          /\ row'[c].resolution = "owner_voided"
          => account = "active" /\ \A d \in Docs : docs[d] # "held"]_vars

-----------------------------------------------------------------------------
(* The abstract specification.                                             *)

Phase(r) ==
    CASE r.status = "absent" -> "none"
      [] r.status \in Open -> "open"
      [] r.status \in Administered -> "verified"
      [] r.status \in Terminal -> "ended"

Lock ==
    INSTANCE AccountLock WITH
        status <- account,
        phase <- [c \in Cases |-> Phase(row[c])],
        reviewed <- {c \in Cases : row[c].reviewer # Nobody}

\* Calls lost, applied for nothing or arriving late, rolled-back transactions and
\* reviews by whoever it is come out as steps of AccountLock or change nothing there.
ImplementsAccountLock == Lock!Spec

-----------------------------------------------------------------------------
(* Claims of the source that the saga does not keep.                       *)

\* decideReview: "reject terminates the case (restoring the account if it was
\* already locked)"; without requests left on the wire, an account is locked or
\* a document held only while some case is open or verified.
RejectRestoresAccount ==
    [][\A c \in Cases :
          /\ abandoned = 0
          /\ row[c].resolution # "operator_rejected"
          /\ row'[c].resolution = "operator_rejected"
          => account # "deceased_pending"]_vars

\* confirmVerification: "every live document of a verified estate is held".
VerifiedEstateHeld ==
    \A c \in Cases :
        row[c].status \in Administered => \A d \in Docs : docs[d] # "live"

\* updateSettings: "a pending case's parameters are frozen".
OpenCaseSettingsFrozen ==
    [][~NoOpenCase => waitDays' = waitDays]_vars

\* The class comment: "a commit failure after a successful lock is healed by
\* retry".  A retry reads liveness first, and once the ledger is ahead of the
\* case it can only void, which identity refuses from settlement.
SettledCaseCanBeRetried ==
    \A c \in Cases :
        account = "settlement" /\ row[c].status = "waiting_period" => ~Alive(c)
=============================================================================
