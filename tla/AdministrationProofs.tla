------------------------ MODULE AdministrationProofs ------------------------
(* What holds of Administration for every value of its constants.          *)
EXTENDS Administration, TLAPS

-----------------------------------------------------------------------------
(* The inductive invariant.  A handler reads under the locks it holds, so   *)
(* what it found is still true when it writes.                             *)

\* Each request is about a row of its own kind, of a user of its own role, and takes
\* the case row last.
WellFormed(r) ==
    /\ r.op = "request" => r.by \in Executors /\ r.id \in Grants /\ r.stage \in Stages
    /\ r.op \in {"approve", "deny", "revoke"} =>
          r.by \in Operators /\ r.id \in Grants /\ grant[r.id] # NoGrant
    /\ r.op = "record" => r.by \in Executors /\ r.id \in Dists
    /\ r.op = "approvedist" => r.by \in Operators
    /\ r.op \in {"approvedist", "setdist"} =>
          r.id \in Dists /\ dist[r.id] # NoDist
    /\ r.op = "setdist" => r.to \in {"in_progress", "completed", "disputed"}
    /\ r.op = "task" => r.id \in Tasks
    /\ r.held \subseteq Needs(r.op)
    /\ "case" \in r.held => r.held = Needs(r.op)

\* A row about to be inserted does not exist yet.
Fresh(r) ==
    /\ r.op = "request" => grant[r.id] = NoGrant
    /\ r.op = "record" => dist[r.id] = NoDist

\* What a handler found once it held a lock stays true while it holds it.
Checked(r) ==
    /\ "row" \in r.held => RowAllows(r)
    /\ "case" \in r.held => status \in Administered

NoneRevoked == \A g \in Grants : grant[g].status # "revoked"

\* So does what an executor's request found on the rungs it has climbed.
Climbed(r) ==
    r.op = "request" /\ r.rung > 0 =>
        /\ "case" \in r.held
        /\ ~StageLive(r.stage)
        /\ NoneRevoked => \A s \in 1 .. r.rung - 1 : StageApproved(s)

\* Two transactions never hold the same row, and a new id is used once.
Apart(r, q) ==
    /\ "case" \notin r.held \cap q.held
    /\ "row" \in r.held \cap q.held => r.id # q.id
    /\ r.op \in {"request", "record"} => q.id # r.id

HandlersInv ==
    /\ \A h \in Handlers :
          WellFormed(req[h]) /\ Fresh(req[h]) /\ Checked(req[h]) /\ Climbed(req[h])
    /\ \A h, other \in Handlers : h # other => Apart(req[h], req[other])

AdministrationInv ==
    /\ TypeOK
    /\ HandlersInv
    /\ DualControl
    /\ OneLiveGrant
    /\ LadderClimbed
    /\ ClosedIsSettled

-----------------------------------------------------------------------------
(* Type correctness.                                                       *)

LEMMA StageNumbers ==
    Stages \subseteq Nat /\ Stages = 1 .. LastStage /\ LastStage \in Nat /\ 1 \in Stages
BY RowsAssumption DEF Stages

LEMMA BlankRows == NoGrant \in GrantRows /\ NoDist \in DistRows /\ Idle \in Requests
BY DEF NoGrant, NoDist, Idle, GrantRows, DistRows, Requests, DistStatuses, Closable,
       Live, Operations, Users

LEMMA InitTypeOK == Init => TypeOK
BY BlankRows DEF Init, TypeOK, Administered

\* A request that arrives is well-typed and leaves the tables alone.
LEMMA AskTypeOK ==
    ASSUME TypeOK, NEW h \in Handlers, ExecutorAsks(h) \/ OperatorAsks(h) \/ EitherAsks(h)
    PROVE  TypeOK'
<1> USE DEF TypeOK
<1>1. ASSUME NEW r \in Requests, Arrive(h, r)
      PROVE  TypeOK'
  BY <1>1 DEF Arrive, tables
<1> USE DEF Requests, Operations, Users, Idle, Stages
<1>2. ASSUME NEW e \in Executors, NEW s \in Stages, NEW g \in Grants, RequestStage(h, e, s, g)
      PROVE  TypeOK'
  BY <1>1, <1>2 DEF RequestStage
<1>3. ASSUME NEW e \in Executors, NEW t \in Tasks, NEW to \in {"completed", "reopened"},
             CompleteTask(h, e, t, to)
      PROVE  TypeOK'
  BY <1>1, <1>3 DEF CompleteTask
<1>4. ASSUME NEW e \in Executors, NEW d \in Dists, RecordDistribution(h, e, d)
      PROVE  TypeOK'
  BY <1>1, <1>4 DEF RecordDistribution
<1>5. ASSUME NEW o \in Operators, NEW g \in Grants, NEW verdict \in {"approve", "deny"},
             DecideStage(h, o, g, verdict)
      PROVE  TypeOK'
  <2>1. grant[g].stage \in Stages \cup {0}
    BY DEF GrantRows
  <2> QED BY <1>1, <1>5, <2>1, StageNumbers DEF DecideStage
<1>6. ASSUME NEW o \in Operators, NEW g \in Grants, RevokeStage(h, o, g)
      PROVE  TypeOK'
  BY <1>1, <1>6 DEF RevokeStage
<1>7. ASSUME NEW o \in Operators, NEW d \in Dists, ApproveDistribution(h, o, d)
      PROVE  TypeOK'
  BY <1>1, <1>7 DEF ApproveDistribution
<1>8. ASSUME NEW o \in Operators, CloseCase(h, o)
      PROVE  TypeOK'
  BY <1>1, <1>8 DEF CloseCase
<1>9. ASSUME NEW u \in Users, NEW d \in Dists,
             NEW to \in {"in_progress", "completed", "disputed"},
             SetDistributionStatus(h, u, d, to)
      PROVE  TypeOK'
  BY <1>1, <1>9 DEF SetDistributionStatus
<1> QED BY <1>2, <1>3, <1>4, <1>5, <1>6, <1>7, <1>8, <1>9
        DEF ExecutorAsks, OperatorAsks, EitherAsks

\* What a handler writes with its last statements.
Write(h) ==
    \/ InsertStage(h) \/ CommitApproval(h) \/ CommitDenial(h) \/ CommitRevocation(h)
    \/ CommitTask(h)
    \/ InsertDistribution(h) \/ CommitDistApproval(h) \/ CommitDistStatus(h)
    \/ CommitClose(h)

LEMMA WriteTypeOK ==
    ASSUME TypeOK, HandlersInv, NEW h \in Handlers, Write(h)
    PROVE  TypeOK'
<1> USE DEF TypeOK
<1>1. req' \in [Handlers -> Requests]
  BY BlankRows
  DEF Write, Writing, InsertStage, CommitApproval, CommitDenial, CommitRevocation, CommitTask,
      InsertDistribution, CommitDistApproval, CommitDistStatus, CommitClose
<1>2. WellFormed(req[h]) /\ req[h] \in Requests
  BY DEF HandlersInv
<1>3. CASE InsertStage(h)
  <2>1. [stage |-> req[h].stage, status |-> "requested",
         requester |-> req[h].by, decider |-> Nobody] \in GrantRows
    BY <1>2, <1>3 DEF InsertStage, Writing, WellFormed, GrantRows, Live
  <2> QED BY <1>1, <1>3, <2>1 DEF InsertStage
<1>4. ASSUME NEW to \in {"approved", "denied", "revoked"}, Decided(h, to),
             req[h].op \in {"approve", "deny", "revoke"}
      PROVE  grant' \in [Grants -> GrantRows]
  BY <1>2, <1>4 DEF Decided, WellFormed, GrantRows, Live
<1>5. CASE CommitApproval(h)
  BY <1>1, <1>4, <1>5 DEF CommitApproval, Writing, Administered
<1>6. CASE CommitDenial(h) \/ CommitRevocation(h)
  BY <1>1, <1>4, <1>6 DEF CommitDenial, CommitRevocation, Writing
<1>7. CASE CommitTask(h)
  BY <1>1, <1>7 DEF CommitTask
<1>8. CASE InsertDistribution(h)
  <2>1. [status |-> "planned", recorder |-> req[h].by, approver |-> Nobody] \in DistRows
    BY <1>2, <1>8 DEF InsertDistribution, Writing, WellFormed, DistRows, DistStatuses
  <2> QED BY <1>1, <1>8, <2>1 DEF InsertDistribution, Administered
<1>9. CASE CommitDistApproval(h)
  <2>1. dist' \in [Dists -> DistRows]
    BY <1>2, <1>9 DEF CommitDistApproval, Writing, WellFormed, DistRows, DistStatuses
  <2> QED BY <1>1, <1>9, <2>1 DEF CommitDistApproval
<1>10. CASE CommitDistStatus(h)
  <2>1. dist' \in [Dists -> DistRows]
    BY <1>2, <1>10
    DEF CommitDistStatus, Writing, WellFormed, DistRows, DistStatuses, Closable
  <2> QED BY <1>1, <1>10, <2>1 DEF CommitDistStatus
<1>11. CASE CommitClose(h)
  BY <1>1, <1>11 DEF CommitClose
<1> QED BY <1>3, <1>5, <1>6, <1>7, <1>8, <1>9, <1>10, <1>11 DEF Write

\* The steps of a transaction before it writes.
LEMMA WaitTypeOK ==
    ASSUME TypeOK, NEW h \in Handlers, TakeLock(h) \/ ClimbRung(h) \/ Crash(h)
    PROVE  TypeOK'
<1> USE DEF TypeOK, tables
<1>1. req[h] \in Requests /\ Idle \in Requests
  BY BlankRows
<1>2. CASE TakeLock(h)
  <2>1. NextLock(req[h]) \in {"row", "case"}
    BY DEF NextLock
  <2>2. [req[h] EXCEPT !.held = @ \cup {NextLock(req[h])}] \in Requests
    BY <1>1, <2>1 DEF Requests
  <2>3. \/ req' = [req EXCEPT ![h].held = @ \cup {NextLock(req[h])}]
        \/ req' = [req EXCEPT ![h] = Idle]
    BY <1>2 DEF TakeLock
  <2>4. req' \in [Handlers -> Requests]
    BY <1>1, <2>2, <2>3
  <2> QED BY <1>2, <2>4 DEF TakeLock
<1>3. CASE ClimbRung(h)
  <2>1. req[h].rung < req[h].stage
    BY <1>3 DEF ClimbRung
  <2>2. req[h].rung + 1 \in Stages
    <3>1. req[h].rung \in Stages \cup {0} /\ req[h].stage \in Stages \cup {0}
      BY <1>1 DEF Requests
    <3> QED BY <2>1, <3>1, StageNumbers
  <2>3. [req[h] EXCEPT !.rung = @ + 1] \in Requests
    BY <1>1, <2>2 DEF Requests
  <2>4. \/ req' = [req EXCEPT ![h].rung = @ + 1]
        \/ req' = [req EXCEPT ![h] = Idle]
    BY <1>3 DEF ClimbRung
  <2>5. req' \in [Handlers -> Requests]
    BY <1>1, <2>3, <2>4
  <2> QED BY <1>3, <2>5 DEF ClimbRung
<1>4. CASE Crash(h)
  BY <1>1, <1>4 DEF Crash
<1> QED BY <1>2, <1>3, <1>4

-----------------------------------------------------------------------------
(* The invariant of the handlers.                                          *)

\* One handler moves: what is to be shown of it, and of the others.
LEMMA OneHandlerMoves ==
    ASSUME TypeOK, HandlersInv, NEW h \in Handlers,
           \A o \in Handlers \ {h} : req'[o] = req[o],
           WellFormed(req[h])' /\ Fresh(req[h])' /\ Checked(req[h])' /\ Climbed(req[h])',
           \A o \in Handlers \ {h} :
              /\ Apart(req'[h], req[o]) /\ Apart(req[o], req'[h])
              /\ WellFormed(req[o])' /\ Fresh(req[o])' /\ Checked(req[o])' /\ Climbed(req[o])'
    PROVE  HandlersInv'
<1>1. ASSUME NEW o \in Handlers
      PROVE  WellFormed(req[o])' /\ Fresh(req[o])' /\ Checked(req[o])' /\ Climbed(req[o])'
  BY <1>1
<1>2. ASSUME NEW o \in Handlers, NEW other \in Handlers, o # other
      PROVE  Apart(req[o], req[other])'
  <2>1. Apart(req'[o], req'[other])
    <3>1. CASE o = h
      BY <1>2, <3>1
    <3>2. CASE other = h
      BY <1>2, <3>2
    <3>3. CASE o # h /\ other # h
      BY <1>2, <3>3 DEF HandlersInv
    <3> QED BY <3>1, <3>2, <3>3
  <2> QED BY <2>1 DEF Apart
<1> QED BY <1>1, <1>2 DEF HandlersInv

\* As long as the tables stand still, a request is as good as it was.
LEMMA TablesStandStill ==
    ASSUME UNCHANGED tables, NEW o \in Handlers, req'[o] = req[o], HandlersInv
    PROVE  WellFormed(req[o])' /\ Fresh(req[o])' /\ Checked(req[o])' /\ Climbed(req[o])'
<1> USE DEF tables
<1>1. WellFormed(req[o]) /\ Fresh(req[o]) /\ Checked(req[o]) /\ Climbed(req[o])
  BY DEF HandlersInv
<1>2. WellFormed(req[o])' /\ Fresh(req[o])'
  BY <1>1 DEF WellFormed, Fresh
<1>3. Checked(req[o])'
  BY <1>1 DEF Checked, RowAllows
<1>4. Climbed(req[o])'
  BY <1>1 DEF Climbed, NoneRevoked, StageLive, StageApproved
<1> QED BY <1>2, <1>3, <1>4

\* An idle handler claims nothing.
LEMMA IdleClaimsNothing ==
    ASSUME NEW h \in Handlers, req'[h] = Idle, HandlersInv
    PROVE  /\ WellFormed(req[h])' /\ Fresh(req[h])' /\ Checked(req[h])' /\ Climbed(req[h])'
           /\ \A o \in Handlers : Apart(req'[h], req[o]) /\ Apart(req[o], req'[h])
<1>1. Idle.op = "none" /\ Idle.held = {} /\ Idle.id = Nobody /\ Idle.rung = 0
  BY DEF Idle
<1>2. WellFormed(req[h])' /\ Fresh(req[h])' /\ Checked(req[h])' /\ Climbed(req[h])'
  BY <1>1 DEF WellFormed, Fresh, Checked, Climbed, Needs
<1>3. ASSUME NEW o \in Handlers
      PROVE  Apart(req'[h], req[o]) /\ Apart(req[o], req'[h])
  <2>1. WellFormed(req[o])
    BY DEF HandlersInv
  <2>2. req[o].op \in {"request", "record"} => req[o].id # Nobody
    BY <2>1, RowsAssumption DEF WellFormed
  <2> QED BY <1>1, <2>2 DEF Apart
<1> QED BY <1>2, <1>3

LEMMA AskInv ==
    ASSUME TypeOK, HandlersInv, NEW h \in Handlers,
           ExecutorAsks(h) \/ OperatorAsks(h) \/ EitherAsks(h)
    PROVE  HandlersInv' /\ UNCHANGED tables
<1>1. ASSUME NEW r \in Requests, Arrive(h, r), r.held = {}, r.op = "request" => r.rung = 0,
             WellFormed(r), Fresh(r),
             \A o \in Handlers \ {h} : Apart(r, req[o]) /\ Apart(req[o], r)
      PROVE  HandlersInv' /\ UNCHANGED tables
  <2>1. /\ req'[h] = r
        /\ \A o \in Handlers \ {h} : req'[o] = req[o]
        /\ UNCHANGED tables
    BY <1>1 DEF Arrive, TypeOK
  <2>2. WellFormed(req[h])' /\ Fresh(req[h])'
    BY <1>1, <2>1 DEF WellFormed, Fresh, tables
  <2>3. Checked(req[h])' /\ Climbed(req[h])'
    BY <1>1, <2>1 DEF Checked, Climbed
  <2> QED BY <1>1, <2>1, <2>2, <2>3, OneHandlerMoves, TablesStandStill
<1> DEFINE Others == Handlers \ {h}
<1>2. \A o \in Others : WellFormed(req[o]) /\ Fresh(req[o])
  BY DEF HandlersInv
<1>3. \A o \in Others :
          /\ req[o].op = "request" => req[o].id \in Grants /\ grant[req[o].id] = NoGrant
          /\ req[o].op = "record" => req[o].id \in Dists /\ dist[req[o].id] = NoDist
  BY <1>2 DEF WellFormed, Fresh
<1>4. ASSUME NEW r, r.held = {}, r.op \notin {"request", "record"},
             \/ r.id \in Grants /\ grant[r.id] # NoGrant
             \/ r.id \in Dists /\ dist[r.id] # NoDist
             \/ r.id \in Tasks \cup {Nobody}
      PROVE  \A o \in Others : Apart(r, req[o]) /\ Apart(req[o], r)
  BY <1>3, <1>4, RowsAssumption DEF Apart
<1>5. ASSUME NEW r, r.held = {}, NewId(r.id)
      PROVE  \A o \in Others : Apart(r, req[o]) /\ Apart(req[o], r)
  BY <1>5 DEF Apart, NewId
<1> USE DEF Idle, WellFormed, Fresh, Needs, Requests, Operations, Users
<1>6. ASSUME NEW e \in Executors, NEW s \in Stages, NEW g \in Grants, RequestStage(h, e, s, g)
      PROVE  HandlersInv' /\ UNCHANGED tables
  BY <1>1, <1>5, <1>6 DEF RequestStage
<1>7. ASSUME NEW e \in Executors, NEW t \in Tasks, NEW to \in {"completed", "reopened"},
             CompleteTask(h, e, t, to)
      PROVE  HandlersInv' /\ UNCHANGED tables
  BY <1>1, <1>4, <1>7 DEF CompleteTask
<1>8. ASSUME NEW e \in Executors, NEW d \in Dists, RecordDistribution(h, e, d)
      PROVE  HandlersInv' /\ UNCHANGED tables
  BY <1>1, <1>5, <1>8 DEF RecordDistribution
<1>9. ASSUME NEW o \in Operators, NEW g \in Grants, NEW verdict \in {"approve", "deny"},
             DecideStage(h, o, g, verdict)
      PROVE  HandlersInv' /\ UNCHANGED tables
  <2>1. grant[g].stage \in Stages \cup {0}
    BY DEF GrantRows, TypeOK
  <2> QED BY <1>1, <1>4, <1>9, <2>1, StageNumbers DEF DecideStage
<1>10. ASSUME NEW o \in Operators, NEW g \in Grants, RevokeStage(h, o, g)
      PROVE  HandlersInv' /\ UNCHANGED tables
  BY <1>1, <1>4, <1>10 DEF RevokeStage
<1>11. ASSUME NEW o \in Operators, NEW d \in Dists, ApproveDistribution(h, o, d)
      PROVE  HandlersInv' /\ UNCHANGED tables
  BY <1>1, <1>4, <1>11 DEF ApproveDistribution
<1>12. ASSUME NEW o \in Operators, CloseCase(h, o)
      PROVE  HandlersInv' /\ UNCHANGED tables
  BY <1>1, <1>4, <1>12 DEF CloseCase
<1>13. ASSUME NEW u \in Users, NEW d \in Dists,
             NEW to \in {"in_progress", "completed", "disputed"},
             SetDistributionStatus(h, u, d, to)
      PROVE  HandlersInv' /\ UNCHANGED tables
  BY <1>1, <1>4, <1>13 DEF SetDistributionStatus
<1> QED BY <1>6, <1>7, <1>8, <1>9, <1>10, <1>11, <1>12, <1>13
        DEF ExecutorAsks, OperatorAsks, EitherAsks

LEMMA TakeLockInv ==
    ASSUME TypeOK, HandlersInv, NEW h \in Handlers, TakeLock(h)
    PROVE  HandlersInv'
<1> DEFINE lock == NextLock(req[h])
           got == [req[h] EXCEPT !.held = @ \cup {lock}]
<1>0. /\ req[h] \in Requests
      /\ WellFormed(req[h]) /\ Fresh(req[h]) /\ Checked(req[h]) /\ Climbed(req[h])
      /\ \A o \in Handlers \ {h} : req'[o] = req[o]
      /\ UNCHANGED tables
      /\ req[h].held # Needs(req[h].op)
  BY DEF TypeOK, HandlersInv, TakeLock, Locked
<1>1. CASE req'[h] = Idle
  BY <1>0, <1>1, IdleClaimsNothing, OneHandlerMoves, TablesStandStill
<1>2. CASE req'[h] = got /\ LockAllows(req[h], lock)
  <2>1. /\ got.op = req[h].op /\ got.by = req[h].by /\ got.id = req[h].id
        /\ got.stage = req[h].stage /\ got.to = req[h].to /\ got.rung = req[h].rung
        /\ got.held = req[h].held \cup {lock}
    BY <1>0 DEF Requests
  <2> HIDE DEF got
  <2>2. \/ /\ lock = "row" /\ "row" \in Needs(req[h].op) /\ "row" \notin req[h].held
           /\ got.held = {"row"}
        \/ lock = "case" /\ "case" \notin req[h].held /\ got.held = Needs(req[h].op)
    <3>1. req[h].held \in SUBSET {"row", "case"}
      BY <1>0 DEF Requests
    <3>2. /\ Needs(req[h].op) \in {{}, {"row"}, {"case"}, {"row", "case"}}
          /\ req[h].held \subseteq Needs(req[h].op)
          /\ "case" \in req[h].held => req[h].held = Needs(req[h].op)
      BY <1>0 DEF WellFormed, Needs
    <3>3. CASE "row" \in Needs(req[h].op) \ req[h].held
      <4>1. lock = "row" /\ req[h].held = {}
        BY <3>1, <3>2, <3>3 DEF NextLock
      <4> QED BY <2>1, <3>3, <4>1
    <3>4. CASE "row" \notin Needs(req[h].op) \ req[h].held
      <4>1. lock = "case" /\ "case" \notin req[h].held /\ "case" \in Needs(req[h].op)
        BY <1>0, <3>1, <3>2, <3>4 DEF NextLock
      <4>2. req[h].held \cup {"case"} = Needs(req[h].op)
        BY <3>1, <3>2, <3>4, <4>1
      <4> QED BY <2>1, <4>1, <4>2
    <3> QED BY <3>3, <3>4
  <2>3. WellFormed(req[h])' /\ Fresh(req[h])'
    BY <1>0, <1>2, <2>1, <2>2 DEF WellFormed, Fresh, tables, Needs
  <2>4. Checked(req[h])'
    <3>1. "row" \in got.held => RowAllows(req[h])
      BY <1>0, <1>2, <2>1, <2>2 DEF LockAllows, Checked
    <3>2. "case" \in got.held => status \in Administered
      BY <1>0, <1>2, <2>1, <2>2 DEF LockAllows, Checked
    <3> QED BY <1>0, <1>2, <2>1, <3>1, <3>2 DEF Checked, RowAllows, tables
  <2>5. Climbed(req[h])'
    <3>1. req[h].op = "request" /\ req[h].rung > 0 => req[h].held = Needs(req[h].op)
      BY <1>0 DEF Climbed, WellFormed
    <3> QED BY <1>0, <1>2, <2>1, <3>1 DEF Climbed
  <2>6. ASSUME NEW o \in Handlers \ {h}
        PROVE  Apart(got, req[o]) /\ Apart(req[o], got)
    <3>1. Free(h, lock)
      BY DEF TakeLock
    <3>2. Apart(req[h], req[o]) /\ Apart(req[o], req[h])
      BY DEF HandlersInv
    <3> QED BY <2>1, <2>2, <3>1, <3>2 DEF Free, Apart
  <2> QED BY <1>0, <1>2, <2>3, <2>4, <2>5, <2>6, OneHandlerMoves, TablesStandStill
<1> QED BY <1>1, <1>2 DEF TakeLock, TypeOK

LEMMA ClimbRungInv ==
    ASSUME TypeOK, HandlersInv, NEW h \in Handlers, ClimbRung(h)
    PROVE  HandlersInv'
<1> DEFINE next == [req[h] EXCEPT !.rung = @ + 1]
<1>0. /\ req[h] \in Requests
      /\ WellFormed(req[h]) /\ Fresh(req[h]) /\ Checked(req[h]) /\ Climbed(req[h])
      /\ \A o \in Handlers \ {h} : req'[o] = req[o]
      /\ UNCHANGED tables
      /\ req[h].held = Needs(req[h].op)
  BY DEF TypeOK, HandlersInv, ClimbRung, Locked
<1>1. CASE req'[h] = Idle
  BY <1>0, <1>1, IdleClaimsNothing, OneHandlerMoves, TablesStandStill
<1>2. CASE req'[h] = next /\ RungAllows(req[h])
  <2>1. /\ next.op = req[h].op /\ next.by = req[h].by /\ next.id = req[h].id
        /\ next.stage = req[h].stage /\ next.to = req[h].to /\ next.held = req[h].held
        /\ next.rung = req[h].rung + 1
    BY <1>0 DEF Requests
  <2> HIDE DEF next
  <2>2. WellFormed(req[h])' /\ Fresh(req[h])'
    BY <1>0, <1>2, <2>1 DEF WellFormed, Fresh, tables
  <2>3. Checked(req[h])'
    BY <1>0, <1>2, <2>1 DEF Checked, RowAllows, tables
  <2>4. req[h].rung \in Nat
    BY <1>0, StageNumbers DEF Requests
  <2>5. ASSUME next.op = "request"
        PROVE  /\ "case" \in next.held
               /\ ~StageLive(next.stage)
               /\ NoneRevoked => \A s \in 1 .. next.rung - 1 : StageApproved(s)
    <3>1. "case" \in next.held
      BY <1>0, <2>1, <2>5 DEF Needs
    <3>2. CASE req[h].rung = 0
      BY <1>2, <2>1, <3>1, <3>2 DEF RungAllows
    <3>3. CASE req[h].rung > 0
      <4>1. /\ ~StageLive(req[h].stage)
            /\ NoneRevoked => \A s \in 1 .. req[h].rung - 1 : StageApproved(s)
        BY <1>0, <2>1, <2>5, <3>3 DEF Climbed
      <4>2. StageApproved(req[h].rung)
        BY <1>2, <3>3 DEF RungAllows
      <4>3. \A s \in 1 .. next.rung - 1 : s \in 1 .. req[h].rung - 1 \/ s = req[h].rung
        BY <2>1, <2>4
      <4> QED BY <2>1, <3>1, <4>1, <4>2, <4>3
    <3> QED BY <2>4, <3>2, <3>3
  <2>6. Climbed(req[h])'
    BY <1>0, <1>2, <2>5 DEF Climbed, NoneRevoked, StageLive, StageApproved, tables
  <2>7. ASSUME NEW o \in Handlers \ {h}
        PROVE  Apart(next, req[o]) /\ Apart(req[o], next)
    BY <2>1 DEF HandlersInv, Apart
  <2> QED BY <1>0, <1>2, <2>2, <2>3, <2>6, <2>7, OneHandlerMoves, TablesStandStill
<1> QED BY <1>1, <1>2 DEF ClimbRung, TypeOK

LEMMA CrashInv ==
    ASSUME TypeOK, HandlersInv, NEW h \in Handlers, Crash(h)
    PROVE  HandlersInv'
<1>1. /\ req'[h] = Idle
      /\ \A o \in Handlers \ {h} : req'[o] = req[o]
      /\ UNCHANGED tables
  BY DEF Crash, TypeOK
<1> QED BY <1>1, IdleClaimsNothing, OneHandlerMoves, TablesStandStill

\* A write to the row a handler holds, or has just created, and to the case it holds,
\* takes nothing from the others.
LEMMA OthersKept ==
    ASSUME TypeOK, HandlersInv, NEW h \in Handlers, NEW o \in Handlers \ {h}, req'[o] = req[o],
           \A g \in Grants \ {req[h].id} : grant'[g] = grant[g],
           \A g \in Grants : grant[g] # NoGrant => grant'[g] # NoGrant,
           \A d \in Dists \ {req[h].id} : dist'[d] = dist[d],
           \A d \in Dists : dist[d] # NoDist =>
              dist'[d] # NoDist /\ dist'[d].recorder = dist[d].recorder,
           req[h].op = "request" \/ "row" \in req[h].held \/ UNCHANGED grant,
           "case" \in req[h].held \/ UNCHANGED status,
           \/ "case" \in req[h].held
           \/ UNCHANGED grant
           \/ req[h].id \in Grants /\ grant'[req[h].id].status = "revoked"
    PROVE  WellFormed(req[o])' /\ Fresh(req[o])' /\ Checked(req[o])' /\ Climbed(req[o])'
<1>0. /\ WellFormed(req[o]) /\ Fresh(req[o]) /\ Checked(req[o]) /\ Climbed(req[o])
      /\ Apart(req[h], req[o]) /\ Apart(req[o], req[h])
  BY DEF HandlersInv
<1>1. WellFormed(req[o])'
  BY <1>0 DEF WellFormed
<1>2. Fresh(req[o])'
  BY <1>0 DEF Fresh, WellFormed, Apart
<1>3. Checked(req[o])'
  <2>1. "case" \in req[o].held => status' \in Administered
    BY <1>0 DEF Checked, Apart
  <2>2. ASSUME "row" \in req[o].held
        PROVE  RowAllows(req[o])'
    <3>1. RowAllows(req[o])
      BY <1>0, <2>2 DEF Checked
    <3>2. CASE req[o].op \in {"approve", "deny", "revoke"}
      <4>1. grant'[req[o].id] = grant[req[o].id]
        BY <1>0, <2>2, <3>2 DEF WellFormed, Apart
      <4> QED BY <3>1, <3>2, <4>1 DEF RowAllows
    <3>3. CASE req[o].op = "approvedist"
      <4>1. dist'[req[o].id].recorder = dist[req[o].id].recorder
        BY <1>0, <3>3 DEF WellFormed
      <4> QED BY <3>1, <3>3, <4>1 DEF RowAllows
    <3>4. CASE req[o].op \notin {"approve", "deny", "revoke", "approvedist"}
      BY <3>4 DEF RowAllows
    <3> QED BY <3>2, <3>3, <3>4
  <2> QED BY <2>1, <2>2 DEF Checked
<1>4. Climbed(req[o])'
  <2> SUFFICES ASSUME req[o].op = "request", req[o].rung > 0
               PROVE  /\ "case" \in req[o].held
                      /\ ~StageLive(req[o].stage)'
                      /\ NoneRevoked' =>
                            \A s \in 1 .. req[o].rung - 1 : StageApproved(s)'
    BY DEF Climbed, StageApproved
  <2>1. /\ "case" \in req[o].held
        /\ ~StageLive(req[o].stage)
        /\ NoneRevoked => \A s \in 1 .. req[o].rung - 1 : StageApproved(s)
    BY <1>0 DEF Climbed
  <2>2. "case" \notin req[h].held
    BY <1>0, <2>1 DEF Apart
  <2>3. CASE UNCHANGED grant
    BY <2>1, <2>3 DEF StageLive, NoneRevoked, StageApproved
  <2>4. CASE req[h].id \in Grants /\ grant'[req[h].id].status = "revoked"
    <3>1. ~NoneRevoked'
      BY <2>4 DEF NoneRevoked
    <3>2. ~StageLive(req[o].stage)'
      BY <2>1, <2>4 DEF StageLive, Live
    <3> QED BY <2>1, <3>1, <3>2
  <2> QED BY <2>2, <2>3, <2>4
<1> QED BY <1>1, <1>2, <1>3, <1>4

LEMMA WriteInv ==
    ASSUME TypeOK, HandlersInv, NEW h \in Handlers, Write(h)
    PROVE  HandlersInv'
<1> DEFINE r == req[h]
<1>0. /\ r \in Requests
      /\ WellFormed(r) /\ Fresh(r) /\ Checked(r)
      /\ r.held = Needs(r.op)
      /\ req'[h] = Idle
      /\ \A o \in Handlers \ {h} : req'[o] = req[o]
  BY DEF TypeOK, HandlersInv, Write, Writing, Locked, InsertStage, CommitApproval,
         CommitDenial, CommitRevocation, CommitTask, InsertDistribution,
         CommitDistApproval, CommitDistStatus, CommitClose
<1>1. ASSUME NEW o \in Handlers \ {h}
      PROVE  WellFormed(req[o])' /\ Fresh(req[o])' /\ Checked(req[o])' /\ Climbed(req[o])'
  <2>0. req'[o] = req[o]
    BY <1>0
  <2> USE DEF TypeOK
  <2>1. CASE InsertStage(h)
    <3>1. /\ r.op = "request" /\ "case" \in r.held /\ r.id \in Grants
          /\ grant[r.id] = NoGrant
          /\ UNCHANGED <<status, dist>>
          /\ grant'[r.id].status = "requested"
          /\ \A g \in Grants \ {r.id} : grant'[g] = grant[g]
      BY <1>0, <2>1 DEF InsertStage, Writing, WellFormed, Fresh, Needs
    <3> QED BY <2>0, <3>1, OthersKept DEF NoGrant
  <2>2. ASSUME NEW to \in {"approved", "denied", "revoked"}, Decided(h, to),
               r.op \in {"approve", "deny", "revoke"}
        PROVE  /\ r.id \in Grants
               /\ grant'[r.id].status = to
               /\ \A g \in Grants \ {r.id} : grant'[g] = grant[g]
               /\ \A g \in Grants : grant[g] # NoGrant => grant'[g] # NoGrant
    <3>1. r.id \in Grants
      BY <1>0, <2>2 DEF WellFormed
    <3>2. grant'[r.id].status = to /\ \A g \in Grants \ {r.id} : grant'[g] = grant[g]
      BY <2>2, <3>1 DEF Decided, GrantRows
    <3> QED BY <3>1, <3>2 DEF NoGrant
  <2>3. CASE CommitApproval(h) \/ CommitDenial(h)
    <3>1. "case" \in r.held /\ "row" \in r.held /\ UNCHANGED dist
      BY <1>0, <2>3 DEF CommitApproval, CommitDenial, Writing, Needs
    <3>2. PICK to \in {"approved", "denied"} : Decided(h, to) /\ r.op \in {"approve", "deny"}
      BY <2>3 DEF CommitApproval, CommitDenial, Writing
    <3> QED BY <2>0, <2>2, <3>1, <3>2, OthersKept
  <2>4. CASE CommitRevocation(h)
    <3>1. "row" \in r.held /\ r.op = "revoke" /\ Decided(h, "revoked") /\ UNCHANGED <<status, dist>>
      BY <1>0, <2>4 DEF CommitRevocation, Writing, Needs
    <3> QED BY <2>0, <2>2, <3>1, OthersKept
  <2>5. CASE CommitTask(h) \/ CommitClose(h)
    <3>1. UNCHANGED <<grant, dist>> /\ "case" \in r.held
      BY <1>0, <2>5 DEF CommitTask, CommitClose, Writing, Needs
    <3> QED BY <2>0, <3>1, OthersKept
  <2>6. CASE InsertDistribution(h)
    <3>1. /\ r.op = "record" /\ "case" \in r.held /\ r.id \in Dists
          /\ dist[r.id] = NoDist
          /\ UNCHANGED grant
          /\ \A d \in Dists \ {r.id} : dist'[d] = dist[d]
      BY <1>0, <2>6 DEF InsertDistribution, Writing, WellFormed, Fresh, Needs
    <3> QED BY <2>0, <3>1, OthersKept
  <2>7. CASE CommitDistApproval(h) \/ CommitDistStatus(h)
    <3>1. /\ r.op \in {"approvedist", "setdist"} /\ "case" \in r.held /\ r.id \in Dists
          /\ dist[r.id] # NoDist
          /\ UNCHANGED <<status, grant>>
      BY <1>0, <2>7 DEF CommitDistApproval, CommitDistStatus, Writing, WellFormed, Needs
    <3>2. /\ dist[r.id] \in DistRows
          /\ \A d \in Dists \ {r.id} : dist'[d] = dist[d]
          /\ dist'[r.id].recorder = dist[r.id].recorder
          /\ dist'[r.id] = dist[r.id] \/ dist'[r.id].status \in {"approved", r.to}
      BY <2>7, <3>1 DEF CommitDistApproval, CommitDistStatus, DistRows
    <3>3. dist'[r.id] # NoDist
      <4>1. r.to # "absent"
        BY <1>0 DEF Requests
      <4> QED BY <3>1, <3>2, <4>1 DEF NoDist
    <3> QED BY <2>0, <3>1, <3>2, <3>3, OthersKept
  <2> QED BY <2>1, <2>3, <2>4, <2>5, <2>6, <2>7 DEF Write
<1> QED BY <1>0, <1>1, IdleClaimsNothing, OneHandlerMoves

-----------------------------------------------------------------------------
(* What the writes do to the estate.                                       *)

\* What a handler knows when it writes.
LEMMA WriterKnows ==
    ASSUME TypeOK, HandlersInv, NEW h \in Handlers, NEW op, Writing(h, op)
    PROVE  /\ req[h] \in Requests /\ req[h].op = op
           /\ WellFormed(req[h]) /\ Fresh(req[h]) /\ Climbed(req[h])
           /\ req[h].rung = req[h].stage
           /\ "row" \in Needs(op) => RowAllows(req[h])
           /\ "case" \in Needs(op) => status \in Administered
BY DEF TypeOK, HandlersInv, Writing, Locked, Checked

LEMMA WriteDualControl ==
    ASSUME TypeOK, HandlersInv, DualControl, NEW h \in Handlers, Write(h)
    PROVE  DualControl'
<1> DEFINE r == req[h]
<1> USE DEF TypeOK
<1>1. Nobody \notin Executors \cup Operators
  BY RolesAssumption
<1>2. ASSUME NEW to \in {"approved", "denied", "revoked"}, Decided(h, to), UNCHANGED dist,
             r.by \in Operators, r.id \in Grants, grant[r.id].requester # r.by
      PROVE  DualControl'
  <2>1. /\ grant'[r.id].decider = r.by /\ grant'[r.id].requester = grant[r.id].requester
        /\ \A g \in Grants \ {r.id} : grant'[g] = grant[g]
    BY <1>2 DEF Decided, GrantRows
  <2> QED BY <1>1, <1>2, <2>1 DEF DualControl
<1>3. CASE InsertStage(h)
  <2>1. r.id \in Grants
    BY <1>3, WriterKnows DEF InsertStage, WellFormed
  <2>2. /\ grant'[r.id].status = "requested" /\ grant'[r.id].decider = Nobody
        /\ \A g \in Grants \ {r.id} : grant'[g] = grant[g]
        /\ UNCHANGED dist
    BY <1>3, <2>1 DEF InsertStage
  <2> QED BY <2>2 DEF DualControl
<1>4. CASE CommitApproval(h) \/ CommitDenial(h)
  <2>1. PICK to \in {"approved", "denied"} :
           Decided(h, to) /\ UNCHANGED dist /\ r.op \in {"approve", "deny"} /\ Writing(h, r.op)
    BY <1>4 DEF CommitApproval, CommitDenial, Writing
  <2>2. WellFormed(r) /\ RowAllows(r)
    BY <2>1, WriterKnows DEF Needs
  <2> QED BY <1>2, <2>1, <2>2 DEF WellFormed, RowAllows
<1>5. CASE CommitRevocation(h)
  <2>1. Decided(h, "revoked") /\ UNCHANGED dist /\ r.op = "revoke" /\ Writing(h, "revoke")
    BY <1>5 DEF CommitRevocation, Writing
  <2>2. WellFormed(r) /\ RowAllows(r)
    BY <2>1, WriterKnows DEF Needs
  <2> QED BY <1>2, <2>1, <2>2 DEF WellFormed, RowAllows
<1>6. CASE CommitTask(h) \/ CommitClose(h)
  BY <1>6 DEF CommitTask, CommitClose, DualControl
<1>7. CASE InsertDistribution(h)
  <2>1. r.id \in Dists
    BY <1>7, WriterKnows DEF InsertDistribution, WellFormed
  <2>2. /\ dist'[r.id].status = "planned" /\ dist'[r.id].approver = Nobody
        /\ \A d \in Dists \ {r.id} : dist'[d] = dist[d]
        /\ UNCHANGED grant
    BY <1>7, <2>1 DEF InsertDistribution
  <2> QED BY <2>2 DEF DualControl
<1>8. CASE CommitDistApproval(h)
  <2>1. r.id \in Dists /\ r.by \in Operators /\ dist[r.id].recorder # r.by
    BY <1>8, WriterKnows DEF CommitDistApproval, Writing, WellFormed, RowAllows, Needs
  <2>2. /\ \/ dist'[r.id].approver = r.by /\ dist'[r.id].recorder = dist[r.id].recorder
           \/ dist'[r.id] = dist[r.id]
        /\ \A d \in Dists \ {r.id} : dist'[d] = dist[d]
        /\ UNCHANGED grant
    BY <1>8, <2>1 DEF CommitDistApproval, DistRows
  <2> QED BY <1>1, <2>1, <2>2 DEF DualControl
<1>9. CASE CommitDistStatus(h)
  <2>1. r.id \in Dists /\ r.to \in {"in_progress", "completed", "disputed"}
    BY <1>9, WriterKnows DEF CommitDistStatus, Writing, WellFormed
  <2>2. /\ dist'[r.id].approver = dist[r.id].approver
        /\ dist'[r.id].recorder = dist[r.id].recorder
        /\ \/ dist[r.id].status \notin {"absent", "planned"}
           \/ dist'[r.id] = dist[r.id]
        /\ \A d \in Dists \ {r.id} : dist'[d] = dist[d]
        /\ UNCHANGED grant
    BY <1>9, <2>1 DEF CommitDistStatus, DistRows, StatusFrom
  <2> QED BY <2>1, <2>2 DEF DualControl
<1> QED BY <1>3, <1>4, <1>5, <1>6, <1>7, <1>8, <1>9 DEF Write

\* The grants either stay, or one of them is decided, or one is inserted.
LEMMA GrantWrites ==
    ASSUME TypeOK, HandlersInv, NEW h \in Handlers, Write(h)
    PROVE  \/ UNCHANGED grant
           \/ /\ req[h].id \in Grants
              /\ \A g \in Grants \ {req[h].id} : grant'[g] = grant[g]
              /\ grant'[req[h].id].stage = grant[req[h].id].stage
              /\ \/ grant[req[h].id].status = "requested" /\ status \in Administered
                    /\ grant'[req[h].id].status \in {"approved", "denied"}
                 \/ grant'[req[h].id].status = "revoked"
           \/ /\ req[h].id \in Grants
              /\ \A g \in Grants \ {req[h].id} : grant'[g] = grant[g]
              /\ status \in Administered
              /\ grant[req[h].id] = NoGrant
              /\ grant'[req[h].id].stage = req[h].stage
              /\ grant'[req[h].id].status = "requested"
              /\ req[h].stage \in Stages
              /\ ~StageLive(req[h].stage)
              /\ NoneRevoked => \A s \in 1 .. req[h].stage - 1 : StageApproved(s)
<1> DEFINE r == req[h]
<1> USE DEF TypeOK
<1>1. CASE InsertStage(h)
  <2>1. /\ r.id \in Grants /\ grant[r.id] = NoGrant /\ r.stage \in Stages
        /\ status \in Administered
        /\ r.op = "request" /\ r.rung = r.stage /\ Climbed(r)
    BY <1>1, WriterKnows DEF InsertStage, WellFormed, Fresh, Needs
  <2>2. r.rung > 0
    BY <2>1, StageNumbers DEF Stages
  <2>3. /\ ~StageLive(r.stage)
        /\ NoneRevoked => \A s \in 1 .. r.stage - 1 : StageApproved(s)
    BY <2>1, <2>2 DEF Climbed
  <2>4. /\ grant'[r.id].stage = r.stage /\ grant'[r.id].status = "requested"
        /\ \A g \in Grants \ {r.id} : grant'[g] = grant[g]
    BY <1>1, <2>1 DEF InsertStage
  <2> QED BY <2>1, <2>3, <2>4
<1>2. ASSUME NEW to \in {"approved", "denied", "revoked"}, Decided(h, to), r.id \in Grants
      PROVE  /\ grant'[r.id].stage = grant[r.id].stage /\ grant'[r.id].status = to
             /\ \A g \in Grants \ {r.id} : grant'[g] = grant[g]
  BY <1>2 DEF Decided, GrantRows
<1>3. CASE CommitApproval(h) \/ CommitDenial(h)
  <2>1. PICK to \in {"approved", "denied"} :
           Decided(h, to) /\ r.op \in {"approve", "deny"} /\ Writing(h, r.op)
    BY <1>3 DEF CommitApproval, CommitDenial, Writing
  <2>2. r.id \in Grants /\ grant[r.id].status = "requested" /\ status \in Administered
    BY <2>1, WriterKnows DEF Needs, WellFormed, RowAllows
  <2> QED BY <1>2, <2>1, <2>2
<1>4. CASE CommitRevocation(h)
  <2>1. Decided(h, "revoked") /\ r.op = "revoke" /\ r.id \in Grants
    BY <1>4, WriterKnows DEF CommitRevocation, Writing, WellFormed
  <2> QED BY <1>2, <2>1
<1>5. CASE CommitTask(h) \/ CommitClose(h) \/ InsertDistribution(h)
           \/ CommitDistApproval(h) \/ CommitDistStatus(h)
  BY <1>5 DEF CommitTask, CommitClose, InsertDistribution, CommitDistApproval, CommitDistStatus
<1> QED BY <1>1, <1>3, <1>4, <1>5 DEF Write

LEMMA WriteLadder ==
    ASSUME TypeOK, HandlersInv, OneLiveGrant, LadderClimbed, NEW h \in Handlers, Write(h)
    PROVE  OneLiveGrant' /\ LadderClimbed'
<1> DEFINE i == req[h].id
<1>1. CASE UNCHANGED grant
  BY <1>1 DEF OneLiveGrant, LadderClimbed, StageApproved
<1>2. CASE /\ i \in Grants
           /\ \A g \in Grants \ {i} : grant'[g] = grant[g]
           /\ grant'[i].stage = grant[i].stage
           /\ \/ grant[i].status = "requested" /\ grant'[i].status \in {"approved", "denied"}
              \/ grant'[i].status = "revoked"
  <2>1. \A g \in Grants : /\ grant'[g].stage = grant[g].stage
                          /\ grant'[g].status \in Live => grant[g].status \in Live
    BY <1>2 DEF Live
  <2>2. OneLiveGrant'
    BY <2>1 DEF OneLiveGrant
  <2>3. CASE grant'[i].status = "revoked"
    BY <1>2, <2>2, <2>3 DEF LadderClimbed
  <2>4. CASE grant'[i].status \in {"approved", "denied"} /\ grant[i].status = "requested"
    <3> SUFFICES ASSUME \A g \in Grants : grant'[g].status # "revoked",
                        NEW g \in Grants, grant'[g].status \in Live,
                        NEW s \in 1 .. grant'[g].stage - 1
                 PROVE  StageApproved(s)'
      BY <2>2 DEF LadderClimbed, StageApproved
    <3>1. \A x \in Grants : grant[x].status # "revoked"
      BY <1>2, <2>4
    <3>2. StageApproved(s)
      BY <2>1, <3>1 DEF LadderClimbed
    <3> QED BY <1>2, <2>4, <3>2 DEF StageApproved
  <2> QED BY <1>2, <2>3, <2>4
<1>3. CASE /\ i \in Grants
           /\ \A g \in Grants \ {i} : grant'[g] = grant[g]
           /\ grant[i] = NoGrant
           /\ grant'[i].stage = req[h].stage
           /\ grant'[i].status = "requested"
           /\ ~StageLive(req[h].stage)
           /\ NoneRevoked => \A s \in 1 .. req[h].stage - 1 : StageApproved(s)
  <2>1. \A g \in Grants \ {i} :
           grant[g].status \in Live => grant[g].stage # req[h].stage
    BY <1>3 DEF StageLive
  <2>2. OneLiveGrant'
    BY <1>3, <2>1 DEF OneLiveGrant
  <2>3. ASSUME NEW s, StageApproved(s)
        PROVE  StageApproved(s)'
    BY <1>3, <2>3 DEF StageApproved, NoGrant
  <2>4. LadderClimbed'
    <3> SUFFICES ASSUME \A g \in Grants : grant'[g].status # "revoked",
                        NEW g \in Grants, grant'[g].status \in Live,
                        NEW s \in 1 .. grant'[g].stage - 1
                 PROVE  StageApproved(s)'
      BY DEF LadderClimbed, StageApproved
    <3>1. NoneRevoked
      BY <1>3 DEF NoneRevoked, NoGrant
    <3>2. StageApproved(s)
      BY <1>3, <3>1 DEF LadderClimbed, NoneRevoked
    <3> QED BY <2>3, <3>2
  <2> QED BY <2>2, <2>4
<1> QED BY <1>1, <1>2, <1>3, GrantWrites

\* The case row is held by whoever changes a distribution, a task or the status.
LEMMA WriteClosed ==
    ASSUME TypeOK, HandlersInv, ClosedIsSettled, NEW h \in Handlers, Write(h)
    PROVE  /\ ClosedIsSettled'
           /\ status = "closed" =>
                 /\ UNCHANGED <<status, dist, task>>
                 /\ \A g \in Grants :
                       grant'[g].status \in Live => grant'[g] = grant[g]
<1> USE DEF TypeOK, Administered
<1>1. CASE CommitRevocation(h)
  BY <1>1, GrantWrites DEF CommitRevocation, ClosedIsSettled, Live, NoGrant
<1>2. CASE CommitClose(h)
  BY <1>2, WriterKnows DEF CommitClose, ClosedIsSettled, Needs
<1>3. CASE InsertStage(h) \/ CommitApproval(h) \/ CommitDenial(h) \/ CommitTask(h)
           \/ InsertDistribution(h) \/ CommitDistApproval(h) \/ CommitDistStatus(h)
  <2>1. status \in {"verified", "active", "distributing"}
    BY <1>3, WriterKnows
    DEF InsertStage, CommitApproval, CommitDenial, CommitTask, InsertDistribution,
        CommitDistApproval, CommitDistStatus, Needs
  <2>2. status' # "closed"
    BY <1>3, <2>1
    DEF InsertStage, CommitApproval, CommitDenial, CommitTask, InsertDistribution,
        CommitDistApproval, CommitDistStatus
  <2> QED BY <2>1, <2>2 DEF ClosedIsSettled
<1> QED BY <1>1, <1>2, <1>3 DEF Write

\* Handlers never wait in a circle: whoever holds the case row has all it needs, and
\* while nobody holds it everybody who holds a row can have it.
LEMMA NobodyStuck == TypeOK /\ HandlersInv => NeverStuck
<1> SUFFICES ASSUME TypeOK, HandlersInv, NEW h \in Handlers, req[h] # Idle
             PROVE  \E o \in Handlers : req[o] # Idle /\ (Locked(o) \/ Free(o, NextLock(req[o])))
  BY DEF NeverStuck
<1>1. \A o \in Handlers :
         /\ req[o].held \subseteq Needs(req[o].op)
         /\ "case" \in req[o].held => Locked(o)
  BY DEF HandlersInv, WellFormed, Locked
<1>2. \A o \in Handlers : req[o].held # {} => req[o] # Idle
  BY DEF Idle
<1>3. CASE \E o \in Handlers : "case" \in req[o].held
  BY <1>1, <1>2, <1>3
<1>4. CASE \A o \in Handlers : "case" \notin req[o].held
  <2>1. ASSUME NEW o \in Handlers, NextLock(req[o]) = "case"
        PROVE  Free(o, NextLock(req[o]))
    BY <1>4, <2>1 DEF Free
  <2>2. CASE NextLock(req[h]) = "case" \/ Free(h, NextLock(req[h]))
    BY <2>1, <2>2
  <2>3. CASE NextLock(req[h]) = "row" /\ ~Free(h, "row")
    <3>1. PICK o \in Handlers \ {h} : "row" \in req[o].held
      BY <2>3 DEF Free
    <3>2. NextLock(req[o]) = "case"
      BY <3>1 DEF NextLock
    <3> QED BY <1>2, <2>1, <3>1, <3>2
  <2> QED BY <2>2, <2>3 DEF NextLock
<1> QED BY <1>3, <1>4

-----------------------------------------------------------------------------
(* The theorems.                                                           *)

LEMMA InitAdministrationInv == Init => AdministrationInv
<1> SUFFICES ASSUME Init PROVE AdministrationInv
  OBVIOUS
<1>1. TypeOK
  BY InitTypeOK
<1>2. HandlersInv
  <2>1. \A h \in Handlers : req[h] = Idle
    BY DEF Init
  <2> QED BY <2>1 DEF HandlersInv, WellFormed, Fresh, Checked, Climbed, Apart, Idle, Needs
<1>3. /\ \A g \in Grants : grant[g] = NoGrant
      /\ \A d \in Dists : dist[d] = NoDist
      /\ status = "verified"
  BY DEF Init
<1>4. DualControl /\ OneLiveGrant /\ LadderClimbed /\ ClosedIsSettled
  BY <1>3 DEF DualControl, OneLiveGrant, LadderClimbed, ClosedIsSettled, NoGrant, NoDist, Live
<1> QED BY <1>1, <1>2, <1>4 DEF AdministrationInv

\* A step either leaves the tables alone or is the write of one handler.
LEMMA StepInv ==
    ASSUME TypeOK, HandlersInv, [Next]_vars
    PROVE  /\ TypeOK' /\ HandlersInv'
           /\ UNCHANGED tables \/ \E h \in Handlers : Write(h)
<1>1. CASE UNCHANGED vars
  <2>1. UNCHANGED tables /\ UNCHANGED req
    BY <1>1 DEF vars
  <2>2. TypeOK'
    BY <2>1 DEF TypeOK, tables
  <2>3. \A h \in Handlers :
           WellFormed(req[h])' /\ Fresh(req[h])' /\ Checked(req[h])' /\ Climbed(req[h])'
    BY <2>1, TablesStandStill
  <2>4. \A h, other \in Handlers : h # other => Apart(req[h], req[other])'
    BY <2>1 DEF HandlersInv, Apart
  <2> QED BY <2>1, <2>2, <2>3, <2>4 DEF HandlersInv
<1>2. ASSUME NEW h \in Handlers, ExecutorAsks(h) \/ OperatorAsks(h) \/ EitherAsks(h)
      PROVE  TypeOK' /\ HandlersInv' /\ UNCHANGED tables
  BY <1>2, AskTypeOK, AskInv
<1>3. ASSUME NEW h \in Handlers, TakeLock(h) \/ ClimbRung(h) \/ Crash(h)
      PROVE  TypeOK' /\ HandlersInv' /\ UNCHANGED tables
  BY <1>3, WaitTypeOK, TakeLockInv, ClimbRungInv, CrashInv DEF TakeLock, ClimbRung, Crash
<1>4. ASSUME NEW h \in Handlers, Write(h)
      PROVE  TypeOK' /\ HandlersInv'
  BY <1>4, WriteTypeOK, WriteInv
<1>5. CASE Next
  <2>1. PICK h \in Handlers :
           ExecutorAsks(h) \/ OperatorAsks(h) \/ EitherAsks(h) \/ Proceed(h) \/ Crash(h)
    BY <1>5 DEF Next
  <2>2. Proceed(h) => TakeLock(h) \/ ClimbRung(h) \/ Write(h)
    BY DEF Proceed, Write
  <2> QED BY <1>2, <1>3, <1>4, <2>1, <2>2
<1> QED BY <1>1, <1>5

LEMMA NextAdministrationInv == AdministrationInv /\ [Next]_vars => AdministrationInv'
<1> SUFFICES ASSUME AdministrationInv, [Next]_vars PROVE AdministrationInv'
  OBVIOUS
<1> USE DEF AdministrationInv
<1>1. TypeOK' /\ HandlersInv' /\ (UNCHANGED tables \/ \E h \in Handlers : Write(h))
  BY StepInv
<1>2. CASE UNCHANGED tables
  BY <1>1, <1>2 DEF tables, DualControl, OneLiveGrant, LadderClimbed, ClosedIsSettled,
                    StageApproved
<1>3. ASSUME NEW h \in Handlers, Write(h)
      PROVE  AdministrationInv'
  BY <1>1, <1>3, WriteDualControl, WriteLadder, WriteClosed
<1> QED BY <1>1, <1>2, <1>3

LEMMA AdministrationInvAlways == Spec => []AdministrationInv
BY InitAdministrationInv, NextAdministrationInv, PTL DEF Spec

\* Every row of the estate and every transaction stays in its domain.
THEOREM TypeCorrect == Spec => []TypeOK
<1>1. AdministrationInv => TypeOK
  BY DEF AdministrationInv
<1> QED BY <1>1, AdministrationInvAlways, PTL

\* Whoever requested a stage never decides it and whoever recorded a distribution
\* never approves it, however requests of executors and operators interleave.
THEOREM DualControlHolds == Spec => []DualControl
<1>1. AdministrationInv => DualControl
  BY DEF AdministrationInv
<1> QED BY <1>1, AdministrationInvAlways, PTL

\* At most one record of a stage is live: the case row orders the inserts.
THEOREM OneLiveGrantHolds == Spec => []OneLiveGrant
<1>1. AdministrationInv => OneLiveGrant
  BY DEF AdministrationInv
<1> QED BY <1>1, AdministrationInvAlways, PTL

\* Until a first revocation no stage is live above one that is not approved, though
\* a handler reads the rungs below without locking them.
THEOREM LadderClimbedHolds == Spec => []LadderClimbed
<1>1. AdministrationInv => LadderClimbed
  BY DEF AdministrationInv
<1> QED BY <1>1, AdministrationInvAlways, PTL

\* A closed estate has nothing left to pay out.
THEOREM ClosedIsSettledHolds == Spec => []ClosedIsSettled
<1>1. AdministrationInv => ClosedIsSettled
  BY DEF AdministrationInv
<1> QED BY <1>1, AdministrationInvAlways, PTL

\* Transactions never wait for each other in a circle.
THEOREM NeverStuckHolds == Spec => []NeverStuck
<1>1. AdministrationInv => NeverStuck
  BY NobodyStuck DEF AdministrationInv
<1> QED BY <1>1, AdministrationInvAlways, PTL

\* Nothing of a closed estate changes any more, whatever was in flight when it closed.
THEOREM ClosedIsFrozenHolds == Spec => ClosedIsFrozen
<1>1. AdministrationInv /\ [Next]_vars =>
         [status = "closed" =>
            /\ UNCHANGED <<status, dist, task>>
            /\ \A g \in Grants :
                  grant'[g].status \in Live => grant'[g] = grant[g]]_vars
  BY StepInv, WriteClosed DEF AdministrationInv, tables
<1> QED BY <1>1, AdministrationInvAlways, PTL DEF Spec, ClosedIsFrozen
=============================================================================
