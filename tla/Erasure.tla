------------------------------- MODULE Erasure -------------------------------
(***************************************************************************)
(* Erasing an account (identity's own domain of it): the owner asks, may   *)
(* withdraw while nothing has begun, and after a grace period a sweep      *)
(* claims the request and closes the account, revokes its sessions,        *)
(* unlinks the addresses it staged, and destroys its data key.  These are  *)
(* separate transactions and a process may die between any two; the next   *)
(* sweep claims an unfinished request again.  A claim has no owner: a      *)
(* timer that fires while a sweep is running starts a second one.          *)
(*                                                                         *)
(* Meanwhile a death report may take the account out of reach, and         *)
(* requests admitted while the account was open are still being served.    *)
(*                                                                         *)
(* Abstracted: the grace period (a request becomes due at some moment),    *)
(* the other domains (nothing in the code ever reports them done, so a     *)
(* request never completes), the mail and the audit trail.                 *)
(***************************************************************************)
EXTENDS Integers, FiniteSets

CONSTANTS
    Requests,       \* ids of erasure_requests rows of the account
    Drivers,        \* sweeps that may run at the same time
    Callers,        \* bound: requests of the owner being served at the same time
    Nobody,         \* stands for no row
    MaxCrashes      \* bound: sweeps cut short

ASSUME ErasureAssumption == Nobody \notin Requests /\ MaxCrashes \in Nat

VARIABLES
    status,         \* users.status
    signedIn,       \* the account has a session that is not revoked
    staged,         \* email_changes holds an address that can be looked up
    dek,            \* the data key of users.dek_id: "live" or "destroyed"
    minted,         \* another data key was created for the account since
    row,            \* erasure_requests, with identity's line of the progress table
    sweep,          \* where each sweep is
    call,           \* what each admitted request is about to do
    overlapped,     \* history: rows two sweeps held at the same time
    closedFor,      \* history: the row the account was closed for
    crashes

vars == <<status, signedIn, staged, dek, minted, row, sweep, call, overlapped,
          closedFor, crashes>>

accountVars == <<status, signedIn, staged, dek, minted, closedFor>>

NoRow == [status |-> "absent", due |-> FALSE, done |-> FALSE]

Idle == [step |-> "idle", row |-> Nobody, worked |-> {}]

Init ==
    /\ status = "active"
    /\ signedIn = TRUE
    /\ staged = FALSE
    /\ dek = "live"
    /\ minted = FALSE
    /\ row = [q \in Requests |-> NoRow]
    /\ sweep = [d \in Drivers |-> Idle]
    /\ call = [u \in Callers |-> "none"]
    /\ overlapped = {}
    /\ closedFor = Nobody
    /\ crashes = 0

\* ERASURE_PERMITTED_STATUSES.
Permitted == status = "active"

Outstanding == {q \in Requests : row[q].status \in {"pending", "executing"}}

-----------------------------------------------------------------------------
(* The owner.  A request is admitted first and takes effect later.         *)

Admit(u, op) ==
    /\ call[u] = "none"
    /\ signedIn
    /\ status \in {"active", "deceased_pending"}
    /\ op \in {"request", "cancel", "encrypt"}
    /\ call' = [call EXCEPT ![u] = op]
    /\ UNCHANGED <<accountVars, row, sweep, overlapped, crashes>>

Answer(u) == call' = [call EXCEPT ![u] = "none"]

MayInsert == Permitted /\ Outstanding = {}

\* insertIfPermitted; a request while one is outstanding answers with that one.
Request(u, q) ==
    /\ call[u] = "request"
    /\ row[q] = NoRow
    /\ row' = IF MayInsert
              THEN [row EXCEPT ![q].status = "pending"] ELSE row
    /\ Answer(u)
    /\ UNCHANGED <<accountVars, sweep, overlapped, crashes>>

CancellableWhileOutstanding == Outstanding

Cancellable == {q \in Requests : row[q].status = "pending"}

Cancel(u) ==
    /\ call[u] = "cancel"
    /\ row' = [q \in Requests |->
                  IF q \in Cancellable THEN [row[q] EXCEPT !.status = "cancelled"] ELSE row[q]]
    /\ Answer(u)
    /\ UNCHANGED <<accountVars, sweep, overlapped, crashes>>

\* requestChange encrypts the new address: getOrCreateDek mints a key when the
\* account has none ...
Encrypt(u) ==
    /\ call[u] = "encrypt"
    /\ minted' = (minted \/ dek = "destroyed")
    /\ call' = [call EXCEPT ![u] = "stage"]
    /\ UNCHANGED <<status, signedIn, staged, dek, closedFor, row, sweep, overlapped, crashes>>

\* ... and then stores the address with its index.
Stage(u) ==
    /\ call[u] = "stage"
    /\ staged' = TRUE
    /\ Answer(u)
    /\ UNCHANGED <<status, signedIn, dek, minted, closedFor, row, sweep, overlapped, crashes>>

\* The account is reported dead, restored, or settled.
StatusMoves(to) ==
    /\ \/ status = "active" /\ to = "deceased_pending"
       \/ status = "deceased_pending" /\ to \in {"active", "settlement"}
    /\ status' = to
    /\ signedIn' = (signedIn /\ to # "settlement")
    /\ UNCHANGED <<staged, dek, minted, closedFor, row, sweep, call, overlapped, crashes>>

\* The grace period of a pending request is over.
FallsDue(q) ==
    /\ row[q].status = "pending"
    /\ ~row[q].due
    /\ row' = [row EXCEPT ![q].due = TRUE]
    /\ UNCHANGED <<accountVars, sweep, call, overlapped, crashes>>

-----------------------------------------------------------------------------
(* A sweep.                                                                *)

ClaimableWhenDue ==
    {q \in Requests : row[q].status = "pending" /\ row[q].due /\ Permitted}

\* claimDue: due for the first time, or taken up by some sweep and not done.
Claimable ==
    {q \in Requests :
        \/ row[q].status = "pending" /\ row[q].due /\ Permitted
        \/ row[q].status = "executing" /\ ~row[q].done}

Holders(q) == {d \in Drivers : sweep[d].row = q}

\* One it has worked already ends the sweep, but is claimed first.
Claim(d, q) ==
    /\ sweep[d].step \in {"idle", "again"}
    /\ q \in Claimable
    /\ row' = [row EXCEPT ![q].status = "executing"]
    /\ IF q \in sweep[d].worked
       THEN /\ sweep' = [sweep EXCEPT ![d] = Idle]
            /\ UNCHANGED overlapped
       ELSE /\ sweep' = [sweep EXCEPT ![d] = [step |-> "read", row |-> q,
                                              worked |-> sweep[d].worked \cup {q}]]
            /\ overlapped' = IF Holders(q) # {} THEN overlapped \cup {q} ELSE overlapped
    /\ UNCHANGED <<accountVars, call, crashes>>

NothingToClaim(d) ==
    /\ sweep[d].step = "again"
    /\ Claimable = {}
    /\ sweep' = [sweep EXCEPT ![d] = Idle]
    /\ UNCHANGED <<accountVars, row, call, overlapped, crashes>>

At(d, step) == sweep[d].step = step

To(d, step) == sweep' = [sweep EXCEPT ![d].step = step]

Leave(d) == sweep' = [sweep EXCEPT ![d].step = "again", ![d].row = Nobody]

\* What is left to do, judged by the status read first.
FirstStepDoneOnceClosed == IF status = "closed" THEN "mark" ELSE "close"

FirstStep == IF status = "closed" THEN "unlink" ELSE "close"

ReadUser(d) ==
    /\ At(d, "read")
    /\ To(d, FirstStep)
    /\ UNCHANGED <<accountVars, row, call, overlapped, crashes>>

AfterCloseAnyway == "revoke"

AfterClose == IF Permitted THEN "revoke" ELSE "release"

\* closeAndUnlinkEmail: no row, and the claim is handed back.
CloseAndUnlinkEmail(d) ==
    /\ At(d, "close")
    /\ status' = IF Permitted THEN "closed" ELSE status
    /\ closedFor' = IF Permitted THEN sweep[d].row ELSE closedFor
    /\ To(d, AfterClose)
    /\ UNCHANGED <<signedIn, staged, dek, minted, row, call, overlapped, crashes>>

ReleaseClaim(d) ==
    /\ At(d, "release")
    /\ row' = IF row[sweep[d].row].status = "executing"
              THEN [row EXCEPT ![sweep[d].row].status = "pending"] ELSE row
    /\ Leave(d)
    /\ UNCHANGED <<accountVars, call, overlapped, crashes>>

RevokeSessions(d) ==
    /\ At(d, "revoke")
    /\ signedIn' = FALSE
    /\ To(d, "unlink")
    /\ UNCHANGED <<status, staged, dek, minted, closedFor, row, call, overlapped, crashes>>

UnlinkAllForErasure(d) ==
    /\ At(d, "unlink")
    /\ staged' = FALSE
    /\ To(d, "destroy")
    /\ UNCHANGED <<status, signedIn, dek, minted, closedFor, row, call, overlapped, crashes>>

DestroyDek(d) ==
    /\ At(d, "destroy")
    /\ dek' = "destroyed"
    /\ To(d, "mark")
    /\ UNCHANGED <<status, signedIn, staged, minted, closedFor, row, call, overlapped, crashes>>

\* markDomainDone asks only whether it is done already.
MarkDomainDone(d) ==
    /\ At(d, "mark")
    /\ row' = [row EXCEPT ![sweep[d].row].done = TRUE]
    /\ Leave(d)
    /\ UNCHANGED <<accountVars, call, overlapped, crashes>>

\* The process dies, or a statement fails and the sweep with it.
Crash(d) ==
    /\ sweep[d] # Idle
    /\ crashes < MaxCrashes
    /\ crashes' = crashes + 1
    /\ sweep' = [sweep EXCEPT ![d] = Idle]
    /\ UNCHANGED <<accountVars, row, call, overlapped>>

-----------------------------------------------------------------------------
SweepStep(d) ==
    \/ \E q \in Requests : Claim(d, q)
    \/ NothingToClaim(d) \/ ReadUser(d) \/ CloseAndUnlinkEmail(d) \/ ReleaseClaim(d)
    \/ RevokeSessions(d) \/ UnlinkAllForErasure(d) \/ DestroyDek(d) \/ MarkDomainDone(d)

CallStep(u) ==
    \/ \E op \in {"request", "cancel", "encrypt"} : Admit(u, op)
    \/ \E q \in Requests : Request(u, q)
    \/ Cancel(u) \/ Encrypt(u) \/ Stage(u)

Next ==
    \/ \E d \in Drivers : SweepStep(d) \/ Crash(d)
    \/ \E u \in Callers : CallStep(u)
    \/ \E to \in {"active", "deceased_pending", "settlement"} : StatusMoves(to)
    \/ \E q \in Requests : FallsDue(q)

\* The timer starts a sweep at every interval for as long as the service runs,
\* and a sweep that is not cut short takes its next step.
Fairness == \A d \in Drivers : WF_vars(SweepStep(d))

Spec == Init /\ [][Next]_vars /\ Fairness

-----------------------------------------------------------------------------
(* Properties.                                                             *)

Steps == {"idle", "again", "read", "close", "release", "revoke", "unlink", "destroy", "mark"}

\* Every variable stays in its domain, and the account has one request
\* outstanding at most.
TypeOK ==
    /\ status \in {"active", "deceased_pending", "settlement", "closed"}
    /\ signedIn \in BOOLEAN
    /\ staged \in BOOLEAN
    /\ dek \in {"live", "destroyed"}
    /\ minted \in BOOLEAN
    /\ row \in [Requests -> [status : {"absent", "pending", "executing", "cancelled"},
                             due : BOOLEAN, done : BOOLEAN]]
    /\ Cardinality(Outstanding) <= 1
    /\ sweep \in [Drivers -> [step : Steps, row : Requests \cup {Nobody},
                              worked : SUBSET Requests]]
    /\ call \in [Callers -> {"none", "request", "cancel", "encrypt", "stage"}]
    /\ overlapped \subseteq Requests
    /\ closedFor \in Requests \cup {Nobody}
    /\ crashes \in 0 .. MaxCrashes

\* However sweeps overlap and die, identity's part is reported done only for a
\* closed account whose data key is destroyed.
DoneMeansErased ==
    \A q \in Requests : row[q].done => status = "closed" /\ dek = "destroyed"

\* The data key of an account that a death report or a settlement took out of
\* reach is never destroyed, whatever a sweep had read before.
NeverShredOpen == dek = "destroyed" => status = "closed"

\* The owner who was told "withdrawn" keeps the account: it is closed for a
\* withdrawn request only if two sweeps had held that request at the same time.
WithdrawnIsSpared ==
    \A q \in Requests :
        row[q].status = "cancelled" /\ closedFor = q => q \in overlapped

\* A closed account loses its data key in the end, wherever sweeps were cut
\* short, unless two of them had held its request at the same time.
ClosedIsErased == status = "closed" ~> dek = "destroyed" \/ overlapped # {}

-----------------------------------------------------------------------------
(* Claims of the source that the code does not keep.                       *)

\* runDueErasures: "a process killed anywhere in the middle is finished by the next
\* tick rather than left half done with nothing saying where it stopped".
KilledIsFinished == \A q \in Requests : row[q].done => ~signedIn

\* executeIdentityDomain: "Closing and revoking first is what makes step 4 the last
\* thing that can happen".
ShredIsLast == \A q \in Requests : row[q].done => ~minted /\ ~staged
=============================================================================
