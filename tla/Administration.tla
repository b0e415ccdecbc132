--------------------------- MODULE Administration ---------------------------
(***************************************************************************)
(* Administration of a verified estate in the settlement service: the      *)
(* three-stage access ladder (inventory, documents, vault), the checklist, *)
(* the distributions with their dual control, and closing the case.        *)
(*                                                                         *)
(* Every handler is one transaction at READ COMMITTED.  What keeps two of  *)
(* them apart is only the rows they lock: first the stage, distribution or *)
(* task they are about, then the case row.  Sibling rows are read, not     *)
(* locked.  A handler therefore runs in steps here, one per lock or read,  *)
(* and its writes show when it commits.                                    *)
(*                                                                         *)
(* Abstracted: amounts and their DEK, documents cited by a task, operator  *)
(* breadth counting, audit events.                                         *)
(***************************************************************************)
EXTENDS Integers, CaseStatus

CONSTANTS
    Executors,      \* users holding the executor role for the decedent
    Operators,      \* users on the settlement_operators allowlist
    LastStage,      \* stages are numbered 1 (inventory) to LastStage (vault)
    Grants,         \* ids of settlement_access_stages rows
    Dists,          \* ids of distributions rows
    Tasks,          \* ids of the checklist rows
    Handlers,       \* bound: requests in flight at the same time
    Nobody          \* stands for a NULL user and for no row

ASSUME RolesAssumption == Nobody \notin Executors \cup Operators

ASSUME RowsAssumption ==
    /\ LastStage \in Nat \ {0}
    /\ Nobody \notin Grants \cup Dists \cup Tasks
    /\ Grants \cap Dists = {}
    /\ Grants \cap Tasks = {}
    /\ Dists \cap Tasks = {}

VARIABLES
    status,         \* settlement_cases.status of the case
    grant,          \* settlement_access_stages
    dist,           \* distributions
    task,           \* settlement_tasks: open or completed
    req             \* the transaction each handler is in

tables == <<status, grant, dist, task>>
vars == <<tables, req>>

Stages == 1 .. LastStage
Users == Executors \cup Operators
Live == {"requested", "approved"}
Closable == {"absent", "completed", "disputed"}

NoGrant == [stage |-> 0, status |-> "absent", requester |-> Nobody, decider |-> Nobody]
NoDist == [status |-> "absent", recorder |-> Nobody, approver |-> Nobody]

\* The handler serves no request.
Idle == [op |-> "none", by |-> Nobody, id |-> Nobody, stage |-> 0, to |-> "none",
         rung |-> 0, held |-> {}]

Init ==
    /\ status = "verified"
    /\ grant = [g \in Grants |-> NoGrant]
    /\ dist = [d \in Dists |-> NoDist]
    /\ task = [t \in Tasks |-> "open"]
    /\ req = [h \in Handlers |-> Idle]

-----------------------------------------------------------------------------
(* Requests.  A request names the row it is about (id), takes the locks it *)
(* Needs one by one, climbs the rungs below its stage, and commits.        *)

Arrive(h, request) ==
    /\ req[h] = Idle
    /\ req' = [req EXCEPT ![h] = request]
    /\ UNCHANGED tables

\* The id of a row about to be inserted is new (gen_random_uuid).
NewId(id) == \A h \in Handlers : req[h].id # id

\* Rung 0 is the look for a live record of the stage itself.
RequestStage(h, e, s, g) ==
    /\ grant[g] = NoGrant
    /\ NewId(g)
    /\ Arrive(h, [Idle EXCEPT !.op = "request", !.by = e, !.id = g, !.stage = s])

\* An approval climbs the ladder from rung 1, a denial does not climb.
DecideStage(h, o, g, verdict) ==
    /\ grant[g] # NoGrant
    /\ Arrive(h, IF verdict = "approve"
                 THEN [Idle EXCEPT !.op = verdict, !.by = o, !.id = g,
                                   !.stage = grant[g].stage, !.rung = 1]
                 ELSE [Idle EXCEPT !.op = verdict, !.by = o, !.id = g])

RevokeStage(h, o, g) ==
    /\ grant[g] # NoGrant
    /\ Arrive(h, [Idle EXCEPT !.op = "revoke", !.by = o, !.id = g])

CompleteTask(h, e, t, to) ==
    Arrive(h, [Idle EXCEPT !.op = "task", !.by = e, !.id = t, !.to = to])

RecordDistribution(h, e, d) ==
    /\ dist[d] = NoDist
    /\ NewId(d)
    /\ Arrive(h, [Idle EXCEPT !.op = "record", !.by = e, !.id = d])

ApproveDistribution(h, o, d) ==
    /\ dist[d] # NoDist
    /\ Arrive(h, [Idle EXCEPT !.op = "approvedist", !.by = o, !.id = d])

SetDistributionStatus(h, u, d, to) ==
    /\ dist[d] # NoDist
    /\ Arrive(h, [Idle EXCEPT !.op = "setdist", !.by = u, !.id = d, !.to = to])

CloseCase(h, o) == Arrive(h, [Idle EXCEPT !.op = "close", !.by = o])

-----------------------------------------------------------------------------
(* Locks.                                                                  *)

Needs(op) ==
    CASE op \in {"request", "record", "close"} -> {"case"}
      [] op = "revoke" -> {"row"}
      [] op = "none" -> {}
      [] OTHER -> {"row", "case"}

NextLockCaseFirstForStatus(r) ==
    IF "row" \in Needs(r.op) \ r.held /\ ~(r.op = "setdist" /\ r.held = {})
    THEN "row" ELSE "case"

\* Every handler that needs both takes its own row first.
NextLock(r) == IF "row" \in Needs(r.op) \ r.held THEN "row" ELSE "case"

FreeWithoutCaseLock(h, lock) ==
    \A other \in Handlers \ {h} :
        "row" \in req[other].held => lock = "case" \/ req[other].id # req[h].id

Free(h, lock) ==
    \A other \in Handlers \ {h} :
        lock \in req[other].held => lock = "row" /\ req[other].id # req[h].id

RowAllowsAnyDecider(r) ==
    CASE r.op \in {"approve", "deny"} -> grant[r.id].status = "requested"
      [] r.op = "revoke" -> grant[r.id].status \in Live
      [] OTHER -> TRUE

\* What the handler asks of the row, or of the case, once it holds it.
RowAllows(r) ==
    CASE r.op \in {"approve", "deny"} ->
            grant[r.id].requester # r.by /\ grant[r.id].status = "requested"
      [] r.op = "revoke" -> grant[r.id].requester # r.by /\ grant[r.id].status \in Live
      [] r.op = "approvedist" -> dist[r.id].recorder # r.by
      [] OTHER -> TRUE

LockAllowsAnyStatus(r, lock) == lock = "row" => RowAllows(r)

LockAllows(r, lock) == IF lock = "row" THEN RowAllows(r) ELSE status \in Administered

StageApproved(s) == \E g \in Grants : grant[g].stage = s /\ grant[g].status = "approved"
StageLive(s) == \E g \in Grants : grant[g].stage = s /\ grant[g].status \in Live

RungAllowsLivePredecessor(r) ==
    IF r.rung = 0 THEN ~StageLive(r.stage) ELSE StageLive(r.rung)

\* findLive, then assertPredecessorApproved rung by rung; none of it is locked.
RungAllows(r) == IF r.rung = 0 THEN ~StageLive(r.stage) ELSE StageApproved(r.rung)

Locked(h) == req[h].held = Needs(req[h].op)

TakeLock(h) ==
    LET lock == NextLock(req[h]) IN
    /\ ~Locked(h)
    /\ Free(h, lock)
    /\ req' = IF LockAllows(req[h], lock)
              THEN [req EXCEPT ![h].held = @ \cup {lock}]
              ELSE [req EXCEPT ![h] = Idle]
    /\ UNCHANGED tables

ClimbRung(h) ==
    /\ Locked(h)
    /\ req[h].rung < req[h].stage
    /\ req' = IF RungAllows(req[h])
              THEN [req EXCEPT ![h].rung = @ + 1]
              ELSE [req EXCEPT ![h] = Idle]
    /\ UNCHANGED tables

-----------------------------------------------------------------------------
(* The last statements of a handler, and its COMMIT.                       *)

Writing(h, op) ==
    /\ req[h].op = op
    /\ Locked(h)
    /\ req[h].rung = req[h].stage
    /\ req' = [req EXCEPT ![h] = Idle]

InsertStage(h) ==
    /\ Writing(h, "request")
    /\ grant' = [grant EXCEPT ![req[h].id] =
                    [stage |-> req[h].stage, status |-> "requested",
                     requester |-> req[h].by, decider |-> Nobody]]
    /\ UNCHANGED <<status, dist, task>>

Decided(h, to) ==
    grant' = [grant EXCEPT ![req[h].id].status = to, ![req[h].id].decider = req[h].by]

\* The first approved stage moves the case from verified into administration.
CommitApproval(h) ==
    /\ Writing(h, "approve")
    /\ Decided(h, "approved")
    /\ status' = IF status = "verified" THEN "active" ELSE status
    /\ UNCHANGED <<dist, task>>

CommitDenial(h) ==
    /\ Writing(h, "deny")
    /\ Decided(h, "denied")
    /\ UNCHANGED <<status, dist, task>>

CommitRevocation(h) ==
    /\ Writing(h, "revoke")
    /\ Decided(h, "revoked")
    /\ UNCHANGED <<status, dist, task>>

CommitTask(h) ==
    /\ Writing(h, "task")
    /\ task' = [task EXCEPT ![req[h].id] = IF req[h].to = "completed" THEN "completed" ELSE "open"]
    /\ UNCHANGED <<status, grant, dist>>

InsertDistribution(h) ==
    /\ Writing(h, "record")
    /\ dist' = [dist EXCEPT ![req[h].id] =
                   [status |-> "planned", recorder |-> req[h].by, approver |-> Nobody]]
    /\ status' = IF Advances(status, "distributing") THEN "distributing" ELSE status
    /\ UNCHANGED <<grant, task>>

\* Compare-and-set from planned: a second approval changes nothing.
CommitDistApproval(h) ==
    /\ Writing(h, "approvedist")
    /\ dist' = IF dist[req[h].id].status = "planned"
               THEN [dist EXCEPT ![req[h].id].status = "approved",
                                 ![req[h].id].approver = req[h].by]
               ELSE dist
    /\ UNCHANGED <<status, grant, task>>

StatusFrom(to) ==
    CASE to = "disputed" -> {"approved", "in_progress", "completed"}
      [] to = "in_progress" -> {"approved"}
      [] to = "completed" -> {"in_progress"}

CommitDistStatus(h) ==
    /\ Writing(h, "setdist")
    /\ dist' = IF dist[req[h].id].status \in StatusFrom(req[h].to)
               THEN [dist EXCEPT ![req[h].id].status = req[h].to]
               ELSE dist
    /\ UNCHANGED <<status, grant, task>>

\* countOpen reads the distributions without locking them.
CommitClose(h) ==
    /\ Writing(h, "close")
    /\ status' = IF \A d \in Dists : dist[d].status \in Closable THEN "closed" ELSE status
    /\ UNCHANGED <<grant, dist, task>>

\* The connection is lost or the service stops: the transaction rolls back.
Crash(h) ==
    /\ req[h] # Idle
    /\ req' = [req EXCEPT ![h] = Idle]
    /\ UNCHANGED tables

-----------------------------------------------------------------------------
ExecutorAsks(h) ==
    \E e \in Executors :
        \/ \E s \in Stages, g \in Grants : RequestStage(h, e, s, g)
        \/ \E t \in Tasks, to \in {"completed", "reopened"} : CompleteTask(h, e, t, to)
        \/ \E d \in Dists : RecordDistribution(h, e, d)

OperatorAsks(h) ==
    \E o \in Operators :
        \/ \E g \in Grants, verdict \in {"approve", "deny"} : DecideStage(h, o, g, verdict)
        \/ \E g \in Grants : RevokeStage(h, o, g)
        \/ \E d \in Dists : ApproveDistribution(h, o, d)
        \/ CloseCase(h, o)

EitherAsks(h) ==
    \E u \in Users, d \in Dists, to \in {"in_progress", "completed", "disputed"} :
        SetDistributionStatus(h, u, d, to)

\* A step of the transaction itself.
Proceed(h) ==
    \/ TakeLock(h) \/ ClimbRung(h)
    \/ InsertStage(h) \/ CommitApproval(h) \/ CommitDenial(h) \/ CommitRevocation(h)
    \/ CommitTask(h)
    \/ InsertDistribution(h) \/ CommitDistApproval(h) \/ CommitDistStatus(h)
    \/ CommitClose(h)

Next ==
    \E h \in Handlers :
        ExecutorAsks(h) \/ OperatorAsks(h) \/ EitherAsks(h) \/ Proceed(h) \/ Crash(h)

\* PostgreSQL serves the waiters of a row in the order they came, so a handler
\* whose lock is free again and again gets it; users owe the system nothing.
Fairness == \A h \in Handlers : SF_vars(Proceed(h))

Spec == Init /\ [][Next]_vars /\ Fairness
-----------------------------------------------------------------------------
(* Properties.                                                             *)

GrantRows ==
    [stage : Stages \cup {0}, status : {"absent", "denied", "revoked"} \cup Live,
     requester : Executors \cup {Nobody}, decider : Operators \cup {Nobody}]

DistStatuses == {"planned", "approved", "in_progress"} \cup Closable
DistRows ==
    [status : DistStatuses, recorder : Executors \cup {Nobody},
     approver : Operators \cup {Nobody}]

Operations ==
    {"none", "request", "approve", "deny", "revoke", "task", "record", "approvedist",
     "setdist", "close"}
Requests ==
    [op : Operations, by : Users \cup {Nobody},
     id : Grants \cup Dists \cup Tasks \cup {Nobody}, stage : Stages \cup {0},
     to : {"none", "reopened", "in_progress", "completed", "disputed"},
     rung : Stages \cup {0}, held : SUBSET {"row", "case"}]

\* Every variable stays in its domain.
TypeOK ==
    /\ status \in Administered \cup {"closed"}
    /\ grant \in [Grants -> GrantRows]
    /\ dist \in [Dists -> DistRows]
    /\ task \in [Tasks -> {"open", "completed"}]
    /\ req \in [Handlers -> Requests]

\* Nobody decides the stage they requested or approves the distribution they
\* recorded, also when they are executor and operator, and nothing is decided or
\* past planned without a decider: the CHECK constraints of migration 002, which no
\* handler runs into.
DualControl ==
    /\ \A g \in Grants :
          /\ grant[g].status \in {"approved", "denied", "revoked"}
                => grant[g].decider # Nobody
          /\ grant[g].decider # Nobody => grant[g].decider # grant[g].requester
    /\ \A d \in Dists :
          /\ dist[d].status \notin {"absent", "planned"} => dist[d].approver # Nobody
          /\ dist[d].approver # Nobody => dist[d].approver # dist[d].recorder

\* Two requests for the same stage never both become live, though each one only
\* looked for the other before inserting (the unique index is not needed).
OneLiveGrant ==
    \A g, other \in Grants :
        /\ grant[g].status \in Live
        /\ grant[other].status \in Live
        /\ grant[g].stage = grant[other].stage
        => g = other

\* As long as nothing was revoked, a live stage stands on approved ones: the ladder
\* is not climbed out of order or skipped by requests decided concurrently.
LadderClimbed ==
    (\A g \in Grants : grant[g].status # "revoked") =>
        \A g \in Grants :
            grant[g].status \in Live => \A s \in 1 .. grant[g].stage - 1 : StageApproved(s)

\* A closed estate has no distribution still to be paid, whoever recorded,
\* approved or moved one while it was being closed.
ClosedIsSettled ==
    status = "closed" => \A d \in Dists : dist[d].status \in Closable

\* Once closed, an estate stays as it is: no distribution, task or status
\* changes, and no stage is granted any more.
ClosedIsFrozen ==
    [][status = "closed" =>
          /\ UNCHANGED <<status, dist, task>>
          /\ \A g \in Grants :
                grant'[g].status \in Live => grant'[g] = grant[g]]_vars

\* Handlers never wait for each other's rows in a circle: while transactions are
\* open, one of them is past its locks or can take its next one.
NeverStuck ==
    (\E h \in Handlers : req[h] # Idle) =>
        \E h \in Handlers : req[h] # Idle /\ (Locked(h) \/ Free(h, NextLock(req[h])))

\* So every request is answered.
RequestsFinish == \A h \in Handlers : req[h] # Idle ~> req[h] = Idle

-----------------------------------------------------------------------------
(* A claim of the source that the handlers do not keep.                    *)

\* decideStage: "approval re-checks the ladder under the lock so a concurrently
\* revoked predecessor cannot leave a hole".
ApprovalLeavesNoHole ==
    [][\A g \in Grants :
          grant'[g].status = "approved" /\ grant[g].status # "approved" =>
              \A s \in 1 .. grant[g].stage - 1 : StageApproved(s)']_vars
=============================================================================
