# Estate Platform: TLA+ models and proofs

This directory holds a formal model of the parts of the Estate Platform whose
correctness depends on interleavings, partial failures and delayed calls. The
modules are written from the source of the services; `PROJECT.json` maps every
definition to the lines it models.

- [Inventory](#inventory): the system and what is hard about it
- [Modules](#modules): which module models what, and how
- [Runs](#runs): what TLC checks, on which instances, and what it shows
- [Where the code and its comments disagree](#where-the-code-and-its-comments-disagree)
- [Proofs](#proofs): what TLAPS proves, and along which argument
- [Not modelled](#not-modelled) and the [plan](#plan)

To check: `tlc -workers 2 -config <X>.cfg <M>` with the pairs under "Runs", and
`tlapm <P>.tla` for each of the eight proof modules under "Proofs".

## Inventory

The platform is a set of NestJS services under `src/apps/services`, one database
each. Services never share tables; they call each other over internal HTTP
routes with a shared credential, and emit audit events over Kafka. A handler
usually is one PostgreSQL transaction at READ COMMITTED; mutual exclusion comes
from `SELECT ... FOR UPDATE`, compare-and-set `UPDATE ... WHERE status = ...`
and partial unique indexes. There are no distributed transactions: several
handlers call another service from inside an open transaction and roll back when
the call fails.

| Component | State | Operations | What is hard | What makes it correct |
|---|---|---|---|---|
| **settlement saga** (`settlement/src/settlement.service.ts`) | `settlement_cases`, `settlement_settings` | report, provider signal, start review, approve, reject, void, confirm verification, settings | calls to identity and documents inside the transaction; lost replies, failed commits, requests outliving their transaction; the owner racing the operator | a verified estate has a locked account; no lock without a second person's review and the full wait; no living owner is locked out for good; a void gives the account back |
| **estate administration** (`admin.service.ts`) | `settlement_access_stages`, `settlement_tasks`, `distributions`, the case status | request, decide, revoke stage; complete task; record, approve, move distribution; close | two-row locking order, predicates over unlocked sibling rows | ladder order, dual control, nothing open at closing, a closed estate is frozen, no deadlock |
| **owner contact sweep** (`workflow-driver.ts`, `runContactSweep`) | `contact_attempts` | timer | overlapping sweeps, crash between insert and send | every due attempt once, at most one notice each, none after the wait |
| **operator breadth** (`operator-breadth*.ts`) | `operator_actions` | record and count | counts at READ COMMITTED miss concurrent rows | warns, at the latest on the next action |
| **identity account lock** (`settlement-lock.service.ts`) | `users.status`, `auth_events` | lock, unlock, settle, liveness | one conditional UPDATE races the step-up ledger | only allowed transitions, no settle past the watermark |
| **identity sessions** (`auth.service.ts`, `sessions.repo.ts`) | `sessions`, `auth_events` | login, refresh, step-up, password change, revoke | refresh rotation without a compare-and-set, login racing a revocation | no session older than a password change comes back |
| **identity erasure** (`erasure.service.ts`) | `erasure_requests`, per-domain progress, DEKs | request, cancel, claim, execute, release | claims without an owner, crash and resume at each step, withdrawals and death reports racing a sweep | what is reported erased is; a withdrawn or unreachable account keeps its key; a closed one loses it in the end |
| **identity credentials** | codes, pairings, factors | reset, verify, change e-mail, pair | codes are retired, minted and redeemed in separate statements | a code works once and not after a newer one; no redemption in flight undoes a revocation |
| **documents** | `documents`, versions, grants | generate, upload, delete, estate hold | inserts that commit long after authorisation | held documents are not deleted |
| **vault emergency access** (`emergency.service.ts`) | `emergency_access_policies`, escrow config, notice claims | configure, request, deny, re-arm, revoke, release | owner and grantee racing; a settlement answer that ages; notices once per collection | no release before the wait or after a denial; share and wrapped key of one generation; no collection unannounced |
| **vault keyset and items** (`vault.service.ts`) | keyset, vault sessions, handshakes, items with revisions | unlock, replace keyset, reset, item CRUD | sessions and items created across a reset | nothing readable or writable survives a reset |
| **audit log** (`audit/src`) | hash chain, head | ingest, verify | redelivery, two consumers of one message, a verifier without a snapshot | one entry per event, none skipped, chain unbroken, corruption found |
| **assets** | event ledger, projections | commands, rebuild, repair | retries overlapping their original, repair against live commands | a command runs once and is answered truly; projection equals the fold of the ledger; no update lost |
| **plaid** | items, accounts, events filed | link, sync, webhook, revoke | an item read before and written after a call of the provider; two-row locking | nothing live after a revocation; an event names what it replaced; no deadlock |
| **profile** | contacts, designations, link codes | grant, revoke, delete, invite, redeem, unlink | checks in one table and writes in another; a redemption of two statements, an invitation of three | a designation names a live contact; a code is spent if and only if it linked |
| **ai-assistant** | conversations, consents | turns around a model call | consent withdrawn during a turn | no context without consent |
| **notifications** | send ledger | send | retried sends | a recipient is resolved at send time |
| shared packages, vault cryptography, bff, web clients, infrastructure | none of their own | | | not modelled, see below |

The interactions that matter most:

- settlement calls identity (`PUT /internal/v1/settlement-lock/:user`, `GET
  .../liveness`) and documents (estate-wide legal hold) inside its transactions;
- vault asks settlement whether an estate permits a release;
- documents, assets and vault ask settlement for a stage's authority;
- settlement and vault hand notices to notifications and do not wait for delivery.

`PROJECT.json` lists the hazards of this code line by line, with the property
that would catch each, or why none does.

## Modules

| Module | Models |
|---|---|
| `CaseStatus` | the statuses of a case and the moves administration makes, shared by the settlement modules |
| `AccountLock` | abstract: `users.status` as the cases of one decedent may move it |
| `Settlement` | the settlement saga of one decedent, with identity's account lock, the documents hold, the owner; implements `AccountLock` |
| `Administration` | administration of one verified estate |
| `EmergencyAccess` | emergency access to the vault of one owner, with the settlement gate |
| `VaultKeyset` | the keyset, unlock handshakes and sessions of one vault |
| `VaultItems` | its items with their version images, composed with `VaultKeyset` through reset |
| `Account` | password, sessions, refresh tokens and single-use codes of one account |
| `Erasure` | identity's domain of erasing one account |
| `AuditChain` | the audit trail from the topic to the hash chain, and its verifier |
| `AssetLedger` | event ledger, projections, idempotent commands, rebuild and repair |
| `PlaidSync` | the bank connections of one user, around the provider's answers |
| `People` | contacts, designations and link codes of one estate |
| `SettlementProofs`, `AdministrationProofs`, `AuditChainProofs`, `PeopleProofs` | proofs about the module of that name |
| `EmergencyProofs`, `VaultProofs` | proofs about `EmergencyAccess`; `VaultItems` with `VaultKeyset` |
| `IdentityProofs` | proofs about `Erasure` and `Account` |
| `FinanceProofs` | proofs about `PlaidSync` and `AssetLedger` |
| `MC<module>` | instances for TLC |

Every module keeps a `TypeOK` for its reader and for the proofs; the runs spend their
time on the other properties. `Account` and `AssetLedger` share a module of proofs with
another component, so their `Init`, `Next`, `Spec` and `TypeOK` carry a prefix
(`AccountSpec`, `LedgerSpec`).

### Settlement

The state is the committed table (`row`), at most one open transaction (`tx`),
the setting (`waitDays`) and a settings update half way (`settingsDraft`), the
account in identity with the two-statement step-up, the documents, the requests
still on the wire (`late`) and the day (`now`).

*One transaction at a time is enough*: the partial unique index admits one
non-terminal case per decedent, every handler takes that row `FOR UPDATE` before
it looks at it, and everything a handler reads or writes before that lock is
modelled outside it (the clock, `RequestTimes`). `report` inserts a row that
conflicts with the open one, if there is one.

*A transaction is a program counter.* `Approve`, `Reject`, `Void` and
`ConfirmVerification` are the handlers up to the first call, with all their
refusals as guards; `tx.step` is the call they are about to make; `AfterCall` is
the order of calls of the source. Each call succeeds (`CallSucceeds`), is applied
but the handler never learns (`ReplyLost`), is not applied (`Abort`), or is left
on the wire by a handler that is gone (`RequestAbandoned`, then `LateArrival` at
any later time, or never). The handler's `UPDATE`s (`Approved`, `Resolved`,
`Verified`) come where the source has them, before, between or after the calls, and
write `tx.draft`; `Commit` makes the draft the row. Until then nobody else sees it,
but the CHECKs of migration 001 do, statement by statement: `Legal` is all of them, and
`CheckConstraints` asks them of the draft as well as of every committed row. A
confirmation writes `verified` before identity is asked; when identity then answers
that the owner is alive, the same draft must become a legal void (`VoidLiving`).
Whether `verified_at` and `resolved_at` are set is all the properties tell apart, so
they are `"null"` or `"set"`. The constraints of later migrations concern columns the
model leaves out.

*Identity* is `Accepts`/`SetState`: idempotent when already there, otherwise one
conditional update from `ALLOWED_TRANSITIONS`, for settle with the step-up
watermark. `settledFor` is history: which case's request made the account
settle. *The owner* has a session while the account's status is in the session
query's allowlist; step-up is two statements with a possible crash between.

Time is in days and integer; a handler's clock may lag the lock by up to
`MaxLockWait`. Evidence, claims on a review, breadth counting, notices and audit
events do not feed back into any transition and are left out.

### Administration

Here two handlers run at the same time and the granularity is one lock or one
read. A handler (`req[h]`) names the row it is about, takes the locks it `Needs`
one by one in the order of the source (`NextLock`: own row, then case), checks
what the code checks under each (`LockAllows`), reads the rungs below its stage
one at a time (`ClimbRung`, unlocked reads of siblings), and ends with its
`Commit...` or `Insert...` action. A handler may fail at any step (`Crash`): its
transaction rolls back. `closeCase` counts open distributions with an unlocked
read, as the source does. The unique index on live stages is *not* in the model:
`OneLiveGrant` shows the case lock already implies it.

### EmergencyAccess

Two handlers again, one lock at a time. `configure` and `reset` take the keyset,
then every live policy (in any order, which is what an `UPDATE` without `ORDER BY`
promises), then the escrow's row; `deny`, `rearm`, `revoke`, `request`, `release`
and `readAsGrantee` take one policy, and `release` the escrow's row after it has
asked settlement. `LockAllows` is what a handler checks under a lock,
`AskSettlement` the call it makes while it holds the policy (a refusal and a
missing answer both roll back), and the `Commit...` actions what it writes.
`request` and `release` read the clock when they arrive, a read's claim reads it
when it is written: `Arrive` and `CommitRead` keep the difference, which is what
`EveryCollectionTold` is about.

Keys and shares are the number of the configuration that wrote them, so "one
escrow" is an equality of numbers; a retired row is never read again and keeps no
data. `permitted` stands for the answer of settlement's `vaultReleaseAuthority`,
which changes at any time: a case is reported, its vault stage is approved or
revoked, the case ends. `refusedAt` and `told` are history. `reset` is modelled as
far as the escrow goes; items and sessions belong to `VaultKeyset` and `VaultItems`.

### AccountLock

What the saga promises identity, without operators, time, calls or failures: the
account is locked and restored freely, settled only for a case an operator has
decided on, and then for good; a case is verified only after that. `Settlement`
implements it under the mapping `Lock` at its end: `account` is the status, a
row's status is read as a phase (none, open, verified, ended), a case is
reviewed once its row has a reviewer, and `settledFor` is the same history on both
sides. `Settle` does not ask for an open
case: a delayed request may arrive after its case ended.

### VaultKeyset and VaultItems

What replaces the keyset is one transaction under the lock of its row;
`ArriveFresh` and `ArriveReplace` are the guards a request passes before, and
nothing they saw is looked at again. An unlock is the three statements it is in
`finishUnlock` (`Claim`, `Verify`, `CreateSession`) and any request may fit in
between. `SiblingsEnd` is therefore about the sessions that existed: `since` is the
password in force when a session was inserted, not the one its unlock has proved, and
a session inserted late may rest on an older proof until the next change. A password is the number of the payload that set it, a master key that of
the payload that first wrapped it, so "the same key" is an equality of numbers.

An item request is sent (`Send`, behind the session guard) on a row its client has
read and served later (`Serve`, under the item's lock, with `Allowed` for what the
handler checks). `Update` includes the two triggers of the migration: the revision
counter and the image of the overwritten row (`Capture`). A content is the revision
it was first stored under, with the version it was sealed for and the key that
sealed it. `ResetVault` is one transaction that does `Reset` and retires every item.

### Account

Almost every handler of identity reads, computes (a password hash takes long) and
writes with another statement. `request[r]` is what such a handler has read and not
yet acted upon; `Login`/`LoginInserts`, `Refresh`/`Rotate`, `Refresh`/
`LookUpPrevious`/`RevokeReused`, `Mint`/`CodeInserted`, `Redeem`/`RedeemInserts`,
`Reset`/`ResetCompleted` are pairs or triples of such statements, and `Fails` is any
refusal, error or crash between them. `token` is history: whom each refresh token
was issued to. The three code tables are one, with a
kind; a code that was claimed or redeemed is `spent`, one that was superseded or could
not be mailed `retired`, and one past its expiry `lapsed`: it still stands, since
neither the unique indexes nor a retirement look at the clock. `used` is history: how
often a code opened a session or set a password.
A redemption burns its code first and inserts the session later; a reset looks at
its code, hashes the password, and only then redeems the code in the transaction that
writes it. `CodesWorkOnce` says that neither order lets a code work twice, or after
a newer one of its kind was requested. That it lapsed meanwhile does not matter: the
redemption compares the expiry with the clock its look read. `userStatus = "active"`
stands for `deceased_pending` as well, which every lookup here admits. A settlement moves the status first and revokes sessions afterwards.

### Erasure

`row` is the request with identity's line of the progress table, `sweep[d]` the
program counter of one run of the timer's handler: `Claim` (one `UPDATE` over what
is due or was taken up before), the read of the user, then one transaction per
step (`CloseAndUnlinkEmail`, `RevokeSessions`, `UnlinkAllForErasure`, `DestroyDek`,
`MarkDomainDone`) or `ReleaseClaim`. `Crash` cuts a sweep short anywhere; a second
sweep may start on what the first holds. `Admit` lets requests of the owner pass
the guard while the account is open and take effect later. The other domains are
never reported done by any code, so a request never completes.

### AuditChain

A partition is a sequence of messages with a committed offset; a consumer has a
position of its own, which `Restart` takes back to the offset. The append is
statement by statement: `LockHead`, `Duplicate` or `InsertEvent`, `Commit`, and
`Fails` at each, with the COMMIT possibly applied. A hash is the sequence of
everything hashed into it, which is what a hash without collisions stands for. The
verifier reads a batch per step and the head last; `Corrupt` alters or drops a row
behind everybody's back.

### AssetLedger

`attempt[r]` is where one request is. `Ask`, `LockRow`, `CommitCommand` or `LosesRace`,
`Ends` are `runCommand`: the first look
for the event id outside the transaction, the row lock with the second look and
the preconditions, the append with the projection's upsert, the loser of the unique
index answered as a retry, the answer lost or read. `ReadVersion` and `ReadRow` are
the two reads behind an If-Match. A rebuild replays, compares views, compares
beneficiaries and repairs in four steps, and `Fold` is the replay: a recursive function
that goes through the events by `Reduced`; `Diverge` (external) sets a projection
back, as restoring an older database does. `suspect` marks the assets whose
projection is not expected to agree.

### PlaidSync

A request reads the item (`Arrive`), waits for the provider (`SyncAccounts`,
`RemoveItem`), and writes in one transaction: `TakeLock` for the item's row, where
`setStatus` and `markRevoked` look whether it is still live and read the status they
replace, `TakeLock` for the accounts, `Commit`, and after it `File` for the event.
`Fails` is any error or crash in between; a rolled back transaction has written
nothing. `changes` is history, the statuses in the order of their COMMITs. The
provider is external: what a token still opens (`remote`) and the balance (`world`).

### People

Granting (`insertForLockedContact`) and deleting (`softDelete`) are transactions
that lock the contact, look and write: `LockContact`, then `GrantRole` or
`CheckRoles` and `DeleteContact`. Redeeming is a read (`Present`) and a transaction of two
compare-and-set statements (`Spend`, `Link`); inviting is a read and two statements
of their own (`Invite`, `RetireCode`, `InsertCode`); all else is one statement. A
statement that meets a row some transaction holds waits for it. `links` is history.

## Runs

| Run | Instance | Shows |
|---|---|---|
| `settlement` (`MCSettlement`, `MCSettlement.cfg`) | 2 cases, 2 operators, 1 contact, 2 days, floor 1 day, 1 abandoned request | `CheckConstraints`, `VerifiedIsLocked`, `SettlementJustified`, `NoLivingOwnerSettled`, and every step is one of `AccountLock` (`ImplementsAccountLock`); 1.4 M states |
| `settlement_docs` (`MCSettlementDocs.cfg`) | 1 case, 1 document, 3 days, settings of 1 or 2 days, lock wait of 1 day | `VoidRestoresAccount`; 0.47 M states |
| `administration` (`MCAdministration`, `MCAdministration.cfg`) | 3 stages, 3 records, 1 distribution, 1 task, 2 handlers | `OneLiveGrant`, `LadderClimbed`, `DualControl`, `ClosedIsSettled`, `ClosedIsFrozen`, `NeverStuck`; 1.4 M states up to symmetry |
| `emergency` (`MCEmergencyAccess`, `MCEmergencyAccess.cfg`) | 2 policies, 2 handlers, a wait of 1, times 0 and 1 | `ToldOnce`, `NeverStuck`, `OneEscrow`, `CollectedAfterWait`, `SettlementComesFirst`; 0.5 M states up to symmetry |
| `vault` (`MCVaultItems`, `MCVaultItems.cfg`) | 1 item, 2 writers, 2 keyset requests, 2 sessions, 2 handshakes, 3 keysets, 4 revisions | `SiblingsEnd`, `VersionTravels`, `NothingLost`, `ResetRetiresAll`, `NoLostUpdate`; 1.3 M states up to symmetry |
| `account` (`MCAccount`, `MCAccount.cfg`) | 2 sessions, 2 codes, 2 requests, 2 tokens, 3 passwords | `PasswordChangeEnds`, `CodesWorkOnce`; 3.2 M states up to symmetry |
| `erasure` (`MCErasure`, `MCErasure.cfg`) | 2 requests, 2 sweeps, 1 request in flight, 2 crashes | `DoneMeansErased`, `NeverShredOpen`, `WithdrawnIsSpared`, `ClosedIsErased`; 334 k states |
| `audit` (`MCAuditChain`, `MCAuditChain.cfg`) | 2 events and 1 malformed, 1 partition, 2 consumers, batches of 1, 1 failure | `ChainUnbroken`, `OncePerEvent`, `NothingSkipped`, `CorruptionFound`, `EventuallyChained`; 327 k states |
| `assets` (`MCAssetLedger`, `MCAssetLedger.cfg`) | 2 assets, 3 event ids, 2 contacts, 2 attempts, 1 divergence | `ProjectionIsFold`, `AnswersTrue`, `NoLostUpdate`; 456 k states up to symmetry |
| `plaid` (`MCPlaidSync`, `MCPlaidSync.cfg`) | 1 item, 3 requests, 3 changes of status | `RevokedStaysEmpty`, `EdgesTrue`; 292 k states up to symmetry |
| `people` (`MCPeople`, `MCPeople.cfg`) | 1 contact, 2 roles, 3 codes, 2 accounts, 3 requests | `RolesHaveContacts`, `SpentMeansLinked`; 200 k states up to symmetry |
| `reject_restores` (`MCSettlement_RejectRestoresAccount.cfg`) | 1 case | violated: see the next section |

*Why the bounds are enough.* Two cases are the least that make a request of an
earlier case meet a later one, and one abandoned request is the least that makes
any request late; the proofs cover every number of both for the safety
properties. One reporter among two operators makes every reviewer-is-reporter
refusal matter. Two days suffice for one approval, its lapsed wait and the
confirmation; three when an approval's clock may be a day old. The settings need
two admissible values to differ. With documents the estate-wide hold treats all
alike, so one is enough.

In administration one user is executor and operator at
once (every dual control is in play), another only operator; three stages are all
the code has; two handlers are enough for every pairwise interference, and three
stage records let a denied or revoked stage be requested again. In emergency
access two policies let one be collected while the escrow is replaced by one for
the other; a request at 0 can be collected at 1.

In the vault one item is enough, as no statement but the reset touches two, and
the reset treats all alike; two writers make every lost update, four revisions let
a row be written, overwritten, restored and overwritten again, and three keysets
are an enrolment, a replacement and a reset in flight at the same time. In the
account two requests are every pair of statements; two tokens are a token and the
one that replaces it, so that the first can be presented again; three passwords are the
first and two more, so that two resets could both complete. In the erasure a second request follows a
withdrawn one, two sweeps overlap, and the second crash cuts the resuming sweep
short as well. In the audit trail one partition is the case of two consumers on
one message; two events are the least in which order and gaps show, batches of one
make the verifier stop between any two rows. In the ledger three ids are a
create, an update and the command that meets a retry of either; the second asset
is what an event id may be reused on.

A bank connection's statements touch one item and its accounts; three requests are
a sync and a webhook that both read the item before a revocation. Three
requests of an estate's people are two redemptions and whoever withdraws, unlinks or
invites between them, and three codes a used, a retired and a live one.

Policies, handlers, writers, sessions and ids are symmetric in the runs that use a
symmetry set and no property of those is temporal beyond a step, so symmetry is
sound there; the runs with liveness use none. One more configuration checks what
the runs leave out, and holds: `MCAdministration_RequestsFinish` (every request is
answered, with one stage and under fairness). `PlaidSync`'s `NeverStuck` and
`People`'s `LinksDoNotMove` have no run: they are proved. Deadlock checking
is off because the systems legitimately stop: time ends at its bound, the supply
of ids and rows is finite. Progress is the business of
`ClosedIsErased`, `EventuallyChained` and `RequestsFinish`, and of the invariant
`NeverStuck` where transactions take several locks. It says that the guards of an
open transaction's next statement hold (in `EmergencyAccess` `CanProceed`, made of the
guards `Obtainable`, `MayAsk` and `Ready` of the actions themselves), not `ENABLED`,
which the prover cannot follow; in every state of the run's instance TLC found
`CanProceed(req[h])` equivalent to `ENABLED Proceed(h)`.

*Fairness.* Three specifications assume any. `Administration`: strong fairness of
each handler's `Proceed`. PostgreSQL queues the waiters of a row in order of
arrival, so a handler whose lock becomes free again and again is served; weak
fairness would be too weak, as another handler can take and release the row for
ever. `Erasure`: weak fairness of each sweep's steps; the timer starts a sweep at
every interval for as long as the service runs, and crashes are bounded.
`AuditChain`: weak fairness of each consumer's steps, since it polls for ever;
what is sent, fails and is rebalanced is bounded. People (the `...Asks`, `Admit` and
`Send` actions), producers and failures are never fair. `Settlement` states safety
only: every progress there needs a person to act. `EmergencyAccess` states that
handlers never wait for each other in a circle, without fairness; in the vault, the
account and the ledger a handler holds at most one lock that others wait for.

## Where the code and its comments disagree

One is a run that must be violated, and a finding in `PROJECT.json`:
`RejectRestoresAccount`: rejecting a case restores the account only when the row says
`waiting_period`. After an approval that rolled back with its lock applied, rejecting
out of `verifying` ends the case and leaves the account in `deceased_pending`, with
no open case left to void. Approving again first, or a void, avoids it.

*Further counterexamples.* Each has a `.cfg` of its own (`MC<module>_<property>.cfg`)
under which TLC shows a behaviour. Most are narrow windows or matters of reading;
`LedgerReplays` and `FailedRemoveSurfaces` contradict a comment outright. They are kept
out of the findings so that the listed runs stay those of the components' promises.

- `MCSettlement_VerifiedEstateHeld`: a document whose insert commits after the
  confirmation's hold is not held.
- `MCSettlement_OpenCaseSettingsFrozen`: a settings update that checked before a
  report was committed writes after it. The value read by an approval is still at
  least the floor (`SettlementJustified`).
- `MCSettlement_SettledCaseCanBeRetried`: a settle applied under a confirmation that
  rolled back, together with a step-up recorded late, cannot be retried: the retry
  reads the step-up, turns into a void, and identity refuses to unlock a settled
  account.
- `MCAdministration_ApprovalLeavesNoHole`: the re-check of the ladder reads the
  predecessor without locking it, and a revocation does not take the case row.
- `MCEmergencyAccess_EveryCollectionTold`: a collection stamps `released_at` with a
  clock it read before it queued for the policy. When a read claims its notice in
  between, the older `released_at` makes that claim cover the new collection as
  well, and the owner hears nothing of the reads that follow it. (The collection
  itself is still announced, as `emergency.released`.)
- `MCAssetLedger_LedgerReplays`: a repair writes rows replayed from a ledger it read
  before its transaction. If the asset is retired in between, the repair un-retires
  its row, the next command passes validation, and its event follows `AssetRetired`:
  every replay from then on throws, rebuilds included, although `projection.ts:52-54`
  says validation prevents such a sequence. Of an asset that is not `suspect` it does:
  that is the theorem `LawfulUnlessSuspectHolds`.
- `MCPlaidSync_FailedRemoveSurfaces`: a removal that failed at the provider ends in the
  same status as one that succeeded; the doc of `revoke` (`plaid.service.ts:124-129`)
  says it "surfaces in the item's final status for ops follow-up".
- `MCPlaidSync_BalanceAdvances`: of two overlapping syncs the one with the older
  answer may commit last, and its balance replaces the newer one until the next sync.
- `MCPeople_NoCodeForLinked`: an invitation that saw the contact unlinked inserts its
  code after another one was redeemed. The code cannot be redeemed while the contact
  is linked (`Linkable`), but comes to life when the owner unlinks.
- `MCVaultItems_ResetDestroysKey`: a keyset replacement in flight commits after a
  reset and wraps the old master key again; the comment of `reset`
  (`vault.service.ts:748-751`) says every wrapping of it is destroyed.
- `MCAccount_OldCredentialsDie`: a login that verified the old password inserts its
  session after the change (or reset) that revoked every session; the comment of
  `changePassword` (`auth.service.ts:601-603`) is about the credentials that exist.
- `MCErasure_KilledIsFinished`: a sweep that dies between closing the account and
  revoking its sessions leaves the resumed run a closed account, and it goes on
  after the revocation (`erasure.service.ts:188-193`). Every lookup refuses a closed
  account, so the sessions open nothing.
- `MCErasure_ShredIsLast`: a request admitted before the close can stage an address
  after the unlink, under a new key when the old one is destroyed by then
  (`erasure.service.ts:276-277`).
- `MCAuditChain_SoundChainVerifies`: rows appended between the verifier's last batch
  and its read of the head make it report a sound chain as corrupt
  (`verifier.ts:66`).

Noticed while modelling, without a configuration: the checklist rows inserted by a
confirmation stay when the settle call answers `owner_alive` and the case becomes
a voided one in the same transaction; `vaultReleaseAuthority` allows releases
again once a case is closed; revoking a stage does not revoke those above it; of two rotations of one refresh token the later replaces the
earlier one's answer, which is then neither the current nor the previous token, so
the client that keeps it is signed out although no token was reused
(`auth.service.ts:359-388`); when
two sweeps hold one erasure, the one that cannot close the account hands the claim
back, the owner withdraws, and the other closes the account if a restored status
lets it (the missing lease is admitted in `docs/03`).

## Proofs

The theorems hold for *every* value of the constants, under the assumptions the
modules name (a NULL is not an id, a bound is a natural number, an interval is
positive, the ledger's `None` is neither a number nor a command). Where the runs have two handlers, three codes or batches of one, the
theorems have any number. Each rests on an inductive invariant of its component, which
TLC checked on the run's instance before it was proved; its initial lemma and one
lemma per group of actions lead to `<name>Always`, and the theorems follow from it.
None of the properties is inductive on its own. What follows is what each invariant
adds, and thereby why the code is right.

| Module | Theorems (each `Spec => []P`, or `Spec => P` for an action property) |
|---|---|
| `SettlementProofs` | `TypeCorrect`, `ConstraintsHold`, `VerifiedLocked`, `SettlementIsJustified`, `LivingOwnerNeverSettled`, `VoidRestores`, `SagaImplementsLock` |
| `AdministrationProofs` | `TypeCorrect`, `DualControlHolds`, `OneLiveGrantHolds`, `LadderClimbedHolds`, `ClosedIsSettledHolds`, `ClosedIsFrozenHolds`, `NeverStuckHolds` |
| `EmergencyProofs` | `TypeCorrect`, `OneEscrowHolds`, `CollectedAfterWaitHolds`, `SettlementComesFirstHolds`, `ToldOnceHolds`, `NeverStuckHolds` |
| `VaultProofs` | `TypeCorrect`, `SiblingsEndHolds`, `VersionTravelsHolds`, `NothingLostHolds`, `ResetRetiresAllHolds`, `NoLostUpdateHolds` |
| `IdentityProofs` | `TypeCorrect`, `DoneIsErased`, `OpenIsNeverShredded`, `WithdrawnSpared` (erasure); `AccountTypeCorrect`, `PasswordChangeHolds`, `CodesWorkOnceHolds` (account) |
| `AuditChainProofs` | `TypeCorrect`, `ChainUnbrokenHolds`, `OncePerEventHolds`, `NothingSkippedHolds`, `CorruptionFoundHolds` |
| `FinanceProofs` | `TypeCorrect`, `RevokedStaysEmptyHolds`, `EdgesTrueHolds`, `NeverStuckHolds` (plaid); `LedgerTypeCorrect`, `ProjectionIsFoldHolds`, `RecordedOnceHolds`, `AnswersTrueHolds`, `NoLostUpdateHolds`, `LawfulUnlessSuspectHolds` (assets) |
| `PeopleProofs` | `TypeCorrect`, `RolesHaveContactsHolds`, `SpentMeansLinkedHolds`, `LinksDoNotMoveHolds` |

**Settlement.** The invariant `SagaInv` adds:

- `WaitIsLongEnough`: a deadline is at least `MinDays` after its review, so a
  confirmation that passed `WaitLapsed` knows the review is old enough;
- `TxLegal`: an open transaction fits the row it holds (its guards still hold,
  because nobody else may touch the row), and what it has written so far, its draft, has
  the status its handler gives that row by this step (that the draft is legal is
  `CheckConstraints`, a conjunct of its own);
- `ConfirmIsSettled`: a confirmation that reached COMMIT has an account in
  settlement, and nothing takes an account out of settlement;
- `LateSettlesAreLegal`: a settle left on the wire belongs to a case whose review
  and wait are complete, whatever became of the case since. This is what makes late
  requests harmless: identity cannot know the case has been voided, but the request
  was only ever sent for a case that had earned it;
- `AccountIsJustified`: the same for a settled account and its `settledFor`.

`LivingOwnerNeverSettled` is an action property proved from the guards of identity's
update. *The refinement* `SagaImplementsLock` (`Settlement` implements `AccountLock`)
shows step by step, from `SagaInv`, that a call which takes effect at identity, in
time or late, is `Lock`, `Restore` or `Settle`, that a COMMIT moves the phase of one
case, and that everything else stutters. `VoidRestores` needs one more invariant,
`VoidUnderway`: a void past its unlock has an active account, past its release no
held document, as long as nothing was left on the wire.

**Administration.** `HandlersInv` says why unlocked reads suffice: a handler takes the
case row last (`WellFormed`), what it checked under a lock stays true while it holds
it (`Checked`), a row about to be inserted does not exist (`Fresh`), the rungs an
executor's request has read are still approved as long as nothing was ever revoked
(`Climbed`), and no two handlers hold one row (`Apart`). `NeverStuckHolds` follows from
the lock order: whoever has the case row needs nothing more.

**Emergency access.** `PolicyOK`: a live policy holds a share of the escrow in force,
and one that waits has the deadline of *its* request. `HandlerOK`: a transaction's
clock is not of the future, and a collection that was permitted when it asked asked
before the refusal, if it is refused by now. `Exclusive`: a row has one holder.
*No deadlock* rests on an invariant of its own, `LockOrder`: configure and reset take the
keyset, then every live policy, then the escrow; a handler of one policy takes that
policy and, only to collect and only after settlement has answered, the escrow. So
whoever has the escrow has everything it needs; if nobody has it, a transaction
that holds a policy can go on; and if nobody holds a policy, whoever has the keyset can.
A policy comes to life only under the escrow's lock, so a replacement that has the escrow
never finds a policy it still has to wait for.

**Vault.** `KeysetOK`: an open session was inserted under the password in force or has
set it, and an unlock past its proof is of a keyset that exists. `ItemOK`: an item has an image for
every revision before the one in force, each with the version its content is sealed
for, and every content ever stored is in one of them; what is live was stored since
the last reset. `SeenOK`: whoever saw the revision in force saw the row in force,
which is why comparing a number is enough against lost updates.

**Identity.** *Erasure:* a sweep past the close works on a closed account, and marks
its part done after the key is gone (`SweepOK`); one row has one sweep unless it was
recorded as overlapped (`ClaimsOK`); the row an account was closed for is not
handed back by anybody else (`ClosedForOK`). *Account:*
`AccountInv` needs only that a rotation or change names a session (`ReadsOK`); Account's
bounds are not needed there (`AccountDomains`). `CodesInv` is a second induction on top of
it: a code that is not spent was never used, and a redemption in flight is the only one
to hold its code, which is spent and not used yet. With that, a claim or a reset that
finds its code live finds an unused one, and the insertion after a claim needs no
second look. `AccountTypeCorrect` is a third (`AccountTyped`): a session keeps its audience for good and one of the
vault origin has no token to be found by, so a rotation in flight is never about it
(`Rotates`), whatever happened since its lookup.

**Audit log.** `HolderOK`: whoever holds the head row has read the head in force and
the next well-formed message, and its number is above all others. `Chained`: every
position before an offset or a consumer's is in the chain. `RowsOK`: intact rows
have hashes as long as their place; after the damage there is an altered row, or a
gap after which every hash is one longer than its place. `VerifierOK`: a verifier
begun after the damage has not come past it, or carries the gap to the head.
Here the bounds of the runs mattered most (batches of one, two events).

**Plaid.** `ItemOK`: the status is the last one committed, and a revoked item has no
live account. `RequestOK`: a transaction holds the item first, unchanged since; a
change about to be filed names its predecessor. `Apart`: one holder, and one filer for
each change.

**Assets.** `LedgerInv` has `ProjectionIsFold` itself, and `AttemptOK`: what a client saw
is the replay of its version as long as that is the newest (the version is read before
the row, so it may be too old, never too new), and a locked row satisfies the
precondition until the COMMIT, because `Alone` gives a row one writer. A create has no
row to lock: it is the first event of its asset because nobody else draws its id. With
that, every COMMIT appends an event that is lawful in the state the ledger replays to,
and `FoldAppend` says that the replay of the longer ledger is the row just written.
`RecordedOnce` makes the original of a retry unique, so its acknowledgement is the right
one. A repair writes what the ledger replays to unless it was overtaken, and then the
asset is a suspect one. `LawfulInv` adds that no replay a rebuild in progress relies on
has failed, so an asset is cleared of suspicion only with a ledger that replays. That a
replay is defined by its steps (`FoldIsTrace`), for ledgers of any length, is an
induction over the length. The induction theorems of the library take an operator as a
parameter and cannot be used; `UpTo` is induction for a *set*, from the least
counterexample that the well-foundedness of the natural numbers provides.

**People.** `RequestOK`: a contact that is locked is live, one about to be deleted
has no designation, a code being spent is live and held. `CodeOK`: a code is spent just
if one link names it, and that link is of its contact. `Exclusive` as before.

*Only model-checked:*

- the liveness properties `RequestsFinish`, `ClosedIsErased` and `EventuallyChained`
  (liveness under fairness is out of the prover's reach);
- that `CanProceed` of `EmergencyAccess` is `ENABLED Proceed`, as said under the bounds
  (`ENABLED` is out of reach as well);
- the further counterexamples and the finding, which are what TLC is for.

Every invariant and every action property of the passing runs is a theorem.

Some definitions are in the form the provers can follow: `AuditChain` describes the
verifier's batch as the unread rows and a prefix of them (`Unread`, `NextBatch`),
`VaultKeyset` ends the other sessions in one function, `AssetLedger` folds with a
recursive function, and the modules with locks update a request's fields side by side
instead of one EXCEPT inside another. TLC found the same number of states before and
after.

## Not modelled

- Reading routes, authorization policies (they appear as guards on roles), audit
  events, wording of notices, envelope encryption: none feeds back into a state
  change.
- Of identity: registration, second factors, completing an address change, rate
  bounds. Of the vault: publishing the recovery key pair, a blind write of two columns
  under the lock of the keyset row. Of documents: versions, grants, sealing. Of the audit
  service: the decrypt-rate detector, which only warns.
- The contact sweep: it inserts at most one attempt per case and slot by a unique
  index, and no transition reads an attempt back. Of profile: the attempt counter of a
  code, permissions under a role and the reads they allow.
- ai-assistant and notifications: conversations around an external model, and a
  ledger of sends nobody waits for.
- Shared packages and vault cryptography: libraries without state.
- bff and web clients: no authority; the services enforce every rule. They are more
  than half of the repository's lines, which is why the map covers a small share.
- Infrastructure, containers, end-to-end tests.

## Plan

1. Abstract specifications for more components: what a notice, a designation or a
   chain promises its callers, with the refinement proved as for `AccountLock`.
2. A model of the contact sweep.
