--------------------------- MODULE EmergencyAccess ---------------------------
(***************************************************************************)
(* Emergency access to the vault of one owner (docs/03 section 5.2): the   *)
(* escrow the owner configures for a set of grantees, a grantee's request, *)
(* the waiting period in which the owner may deny it, and the collection   *)
(* that hands out the grantee's share with the platform's part.            *)
(*                                                                         *)
(* Every handler is a transaction at READ COMMITTED which locks the policy *)
(* it is about, or, to replace the escrow, the keyset and then every live  *)
(* policy.  The escrow's own row comes last.  Requests, collections and    *)
(* reads ask the settlement service over HTTP while they hold the policy.  *)
(*                                                                         *)
(* Abstracted: keys and shares are the number of the configuration they    *)
(* belong to (its generation), a grantee is the policy that names it; the  *)
(* count of requests, delivery of notices and audit events are left out.   *)
(***************************************************************************)
EXTENDS Integers, FiniteSets

CONSTANTS
    Policies,       \* ids of emergency_access_policies rows
    Wait,           \* waiting_period_hours
    Handlers,       \* bound: requests in flight at the same time
    MaxTime,        \* bound: the last instant the model looks at
    Nobody          \* stands for no row

ASSUME WaitAssumption == Wait \in Nat \ {0} /\ MaxTime \in Nat

ASSUME IdsAssumption == Nobody \notin Policies /\ {"keyset", "config"} \cap Policies = {}

VARIABLES
    policy,         \* emergency_access_policies
    config,         \* generation in emergency_access_configs, 0 for no row
    generation,     \* how many times the owner configured an escrow
    claimed,        \* created_at of the newest read_by_grantee notice of a policy
    told,           \* history: notices claimed since the policy's last collection
    permitted,      \* what the settlement service answers
    refusedAt,      \* history: since when it refuses, if it does
    req,            \* the transaction each handler is in
    now

escrow == <<policy, config, generation, claimed, told>>
gate == <<permitted, refusedAt>>
vars == <<escrow, gate, req, now>>

NoTime == -1
Times == 0 .. MaxTime

NoPolicy ==
    [status |-> "absent", share |-> 0, requestedAt |-> NoTime, releasesAt |-> NoTime,
     releasedAt |-> NoTime]

\* The handler serves no request.
Idle == [op |-> "none", id |-> Nobody, at |-> NoTime, held |-> {}, asked |-> FALSE]

Live(p) == policy[p].status \notin {"absent", "retired"}

Init ==
    /\ policy = [p \in Policies |-> NoPolicy]
    /\ config = 0
    /\ generation = 0
    /\ claimed = [p \in Policies |-> NoTime]
    /\ told = [p \in Policies |-> 0]
    /\ permitted = TRUE
    /\ refusedAt = NoTime
    /\ req = [h \in Handlers |-> Idle]
    /\ now = 0

-----------------------------------------------------------------------------
(* Requests.  Those that stamp the policy read the clock first of all.     *)

Replacing == {"configure", "reset"}
Vetoing == {"deny", "rearm", "revoke"}
Asking == {"request", "release", "read"}

\* Bound: beyond the ids in taken, every configure in flight still finds a new one.
Spare(taken, h) ==
    LET others == {g \in Handlers \ {h} : req[g].op = "configure"}
    IN Cardinality({p \in Policies \ taken : policy[p] = NoPolicy}) >=
       Cardinality(others) + IF req[h].op = "configure" THEN 0 ELSE 1

Arrive(h, op, id, at) ==
    /\ req[h] = Idle
    /\ req' = [req EXCEPT ![h] = [Idle EXCEPT !.op = op, !.id = id, !.at = at]]
    /\ UNCHANGED <<escrow, gate, now>>

\* configure and reset.
OwnerReplaces(h, op) ==
    /\ op = "configure" => Spare({}, h)
    /\ Arrive(h, op, Nobody, NoTime)

\* deny, rearm and revoke.
OwnerDecides(h, op, p) == policy[p] # NoPolicy /\ Arrive(h, op, p, NoTime)

\* request, release and readAsGrantee.
GranteeAsks(h, op, p) ==
    /\ policy[p] # NoPolicy
    /\ Arrive(h, op, p, IF op = "read" THEN NoTime ELSE now)

-----------------------------------------------------------------------------
(* Locks.                                                                  *)

Needs(r) ==
    CASE r.op \in Replacing -> {"keyset", "config"} \cup {p \in Policies : Live(p)}
      [] r.op = "release" -> {r.id, "config"}
      [] r.op = "none" -> {}
      [] OTHER -> {r.id}

MissingWithoutPolicies(r) ==
    IF r.op \in Replacing THEN {"keyset", "config"} \ r.held ELSE Needs(r) \ r.held

Missing(r) == Needs(r) \ r.held

MustAskOnRequest(r) == r.op = "request" /\ ~r.asked

MustAsk(r) == r.op \in Asking /\ ~r.asked

MayTakeConfigFirst(r, lock) ==
    \/ lock = "keyset"
    \/ lock \in Policies /\ "keyset" \notin Missing(r)
    \/ lock = "config" /\ "keyset" \notin Missing(r)

\* The keyset, then policies in whatever order the UPDATE finds them, then the
\* escrow's row, which a collection takes after it asked the settlement service.
MayTake(r, lock) ==
    \/ lock = "keyset"
    \/ lock \in Policies /\ "keyset" \notin Missing(r)
    \/ lock = "config" /\ Missing(r) = {"config"} /\ ~MustAsk(r)

Free(lock) == \A h \in Handlers : lock \notin req[h].held

Obtainable(r, lock) == MayTake(r, lock) /\ Free(lock)

MayAsk(r) == MustAsk(r) /\ r.id \in r.held

\* Every row is locked and every question answered: the last statements may run.
Ready(r) == r.op # "none" /\ Missing(r) = {} /\ ~MustAsk(r)

CollectableUnlessDenied(p, at) ==
    policy[p].status # "denied" /\ policy[p].releasesAt <= at

\* A policy can be collected, again and again, once its waiting period lapsed.
Collectable(p, at) ==
    /\ policy[p].status \in {"waiting", "released"}
    /\ policy[p].releasesAt # NoTime
    /\ policy[p].releasesAt <= at

\* What a handler asks of the row it just locked.
LockAllows(r, lock) ==
    /\ lock = r.id =>
        /\ Live(r.id)
        /\ r.op = "release" => Collectable(r.id, r.at)
        /\ r.op = "read" => policy[r.id].status = "released"
        /\ r.op = "rearm" => policy[r.id].status # "released"
    /\ lock = "config" /\ r.op = "release" => config # 0

TakeLock(h, lock) ==
    /\ lock \in Missing(req[h])
    /\ Obtainable(req[h], lock)
    /\ req' = IF LockAllows(req[h], lock) THEN [req EXCEPT ![h].held = @ \cup {lock}]
              ELSE [req EXCEPT ![h] = Idle]
    /\ UNCHANGED <<escrow, gate, now>>

\* assertSettlementPermits: a refusal, or no answer, rolls back.
AskSettlement(h) ==
    /\ MayAsk(req[h])
    /\ req' = IF permitted THEN [req EXCEPT ![h].asked = TRUE] ELSE [req EXCEPT ![h] = Idle]
    /\ UNCHANGED <<escrow, gate, now>>

-----------------------------------------------------------------------------
(* The last statements of a handler, and its COMMIT.                       *)

Writing(h, op) ==
    /\ req[h].op = op
    /\ Ready(req[h])
    /\ req' = [req EXCEPT ![h] = Idle]
    /\ UNCHANGED <<gate, now>>

Retired(inserted, share) ==
    [p \in Policies |->
        IF p \in inserted THEN [NoPolicy EXCEPT !.status = "configured", !.share = share]
        ELSE IF Live(p) THEN [NoPolicy EXCEPT !.status = "retired"]
        ELSE policy[p]]

\* Configuring retires every policy and inserts one per grantee it names.
CommitConfigure(h, grantees) ==
    /\ Writing(h, "configure")
    /\ grantees # {}
    /\ \A p \in grantees : policy[p] = NoPolicy
    /\ Spare(grantees, h)
    /\ generation' = generation + 1
    /\ config' = generation'
    /\ policy' = Retired(grantees, generation')
    /\ UNCHANGED <<claimed, told>>

\* Resetting the vault, as far as the escrow goes.
CommitReset(h) ==
    /\ Writing(h, "reset")
    /\ policy' = Retired({}, 0)
    /\ config' = 0
    /\ UNCHANGED <<generation, claimed, told>>

CommitDeny(h) ==
    /\ Writing(h, "deny")
    /\ policy' = [policy EXCEPT ![req[h].id].status = "denied",
                                ![req[h].id].releasesAt = NoTime]
    /\ UNCHANGED <<config, generation, claimed, told>>

CommitRearm(h) ==
    /\ Writing(h, "rearm")
    /\ policy' = [policy EXCEPT ![req[h].id].status = "configured",
                                ![req[h].id].requestedAt = NoTime,
                                ![req[h].id].releasesAt = NoTime]
    /\ UNCHANGED <<config, generation, claimed, told>>

CommitRevoke(h) ==
    /\ Writing(h, "revoke")
    /\ policy' = [policy EXCEPT ![req[h].id] = [NoPolicy EXCEPT !.status = "retired"]]
    /\ UNCHANGED <<config, generation, claimed, told>>

\* blockReason: a blocked request is counted and reported, and changes nothing.
Blocked(p) == policy[p].status \in {"released", "waiting", "denied"}

MarkRequested(p, at) ==
    [policy EXCEPT ![p].status = "waiting", ![p].requestedAt = at, ![p].releasesAt = at + Wait]

CommitRequest(h) ==
    LET p == req[h].id IN
    /\ Writing(h, "request")
    /\ policy' = IF Blocked(p) THEN policy ELSE MarkRequested(p, req[h].at)
    /\ UNCHANGED <<config, generation, claimed, told>>

CommitRelease(h) ==
    LET p == req[h].id IN
    /\ Writing(h, "release")
    /\ policy' = [policy EXCEPT ![p].status = "released", ![p].releasedAt = req[h].at]
    /\ told' = [told EXCEPT ![p] = 0]
    /\ UNCHANGED <<config, generation, claimed>>

HasNotifiedAfter(p) == claimed[p] > policy[p].releasedAt

\* hasNotifiedSince: some notice was claimed at or after the collection's instant.
HasNotifiedSince(p) == claimed[p] >= policy[p].releasedAt

\* The first read after a collection claims the notice to the owner, with the
\* clock of that moment.
CommitRead(h) ==
    LET p == req[h].id IN
    /\ Writing(h, "read")
    /\ IF HasNotifiedSince(p)
       THEN UNCHANGED <<claimed, told>>
       ELSE /\ claimed' = [claimed EXCEPT ![p] = now]
            /\ told' = [told EXCEPT ![p] = @ + 1]
    /\ UNCHANGED <<policy, config, generation>>

\* The connection is lost or the service stops: the transaction rolls back.
Crash(h) ==
    /\ req[h] # Idle
    /\ req' = [req EXCEPT ![h] = Idle]
    /\ UNCHANGED <<escrow, gate, now>>

\* The estate enters settlement, or its vault stage is approved, or it is over.
SettlementChanges ==
    /\ permitted' = ~permitted
    /\ refusedAt' = IF permitted THEN now ELSE NoTime
    /\ UNCHANGED <<escrow, req, now>>

Tick ==
    /\ now < MaxTime
    /\ now' = now + 1
    /\ UNCHANGED <<escrow, gate, req>>

-----------------------------------------------------------------------------
Asks(h) ==
    \/ \E op \in Replacing : OwnerReplaces(h, op)
    \/ \E p \in Policies :
          \/ \E op \in Vetoing : OwnerDecides(h, op, p)
          \/ \E op \in Asking : GranteeAsks(h, op, p)

\* A step of the transaction itself.
Proceed(h) ==
    \/ \E lock \in Missing(req[h]) : TakeLock(h, lock)
    \/ AskSettlement(h)
    \/ \E grantees \in SUBSET Policies : CommitConfigure(h, grantees)
    \/ CommitReset(h)
    \/ CommitDeny(h) \/ CommitRearm(h) \/ CommitRevoke(h)
    \/ CommitRequest(h) \/ CommitRelease(h) \/ CommitRead(h)

Next ==
    \/ \E h \in Handlers : Asks(h) \/ Proceed(h) \/ Crash(h)
    \/ SettlementChanges
    \/ Tick

Spec == Init /\ [][Next]_vars
-----------------------------------------------------------------------------
(* Properties.                                                             *)

MaybeTimes == Times \cup {NoTime}

PolicyRows ==
    [status : {"absent", "configured", "waiting", "denied", "released", "retired"},
     share : Nat, requestedAt : MaybeTimes, releasesAt : 0 .. MaxTime + Wait \cup {NoTime},
     releasedAt : MaybeTimes]

Requests ==
    [op : {"none"} \cup Replacing \cup Vetoing \cup Asking, id : Policies \cup {Nobody},
     at : MaybeTimes, held : SUBSET (Policies \cup {"keyset", "config"}), asked : BOOLEAN]

\* Every variable stays in its domain; a policy that waits has its deadline.
TypeOK ==
    /\ policy \in [Policies -> PolicyRows]
    /\ \A p \in Policies : policy[p].status = "waiting" => policy[p].releasesAt # NoTime
    /\ generation \in Nat
    /\ config \in {0, generation}
    /\ claimed \in [Policies -> MaybeTimes]
    /\ told \in [Policies -> Nat]
    /\ permitted \in BOOLEAN
    /\ refusedAt \in MaybeTimes
    /\ req \in [Handlers -> Requests]
    /\ now \in Times

\* This step collects the escrow of p.
Collected(p) == policy'[p].status = "released" /\ policy'[p] # policy[p]

\* What a collection hands out is one escrow: the share of the policy and the
\* platform's part are never of different configurations, though the two rows are
\* locked and read apart and configure and reset replace them meanwhile.
OneEscrow == [][\A p \in Policies : Collected(p) => policy[p].share = config]_vars

\* Nothing is collected before the owner had the whole waiting period to object,
\* counted from the request that is still standing.
CollectedAfterWait ==
    [][\A p \in Policies : Collected(p) =>
          /\ policy[p].requestedAt # NoTime
          /\ policy[p].requestedAt + Wait <= now]_vars

\* An estate that entered settlement before the grantee came to collect, and has
\* not approved the vault stage since, hands out nothing.
SettlementComesFirst ==
    [][\A p \in Policies :
          Collected(p) /\ ~permitted => policy'[p].releasedAt <= refusedAt]_vars

\* The owner hears of the reads that follow a collection once, not at every read.
ToldOnce == \A p \in Policies : told[p] <= 1

\* The guards of Proceed, but for the supply of fresh ids, which bounds the model
\* and which no transaction waits for.
CanProceed(r) ==
    \/ \E lock \in Missing(r) : Obtainable(r, lock)
    \/ MayAsk(r)
    \/ Ready(r)

\* configure, reset, release and the rest never all wait for each other: while
\* transactions are open, one of them can take its next step.
NeverStuck ==
    (\E h \in Handlers : req[h] # Idle) => \E h \in Handlers : CanProceed(req[h])

-----------------------------------------------------------------------------
(* A claim of the source that the handlers do not keep.                    *)

\* hasNotifiedSince: the notice "is emitted once per COLLECTION", by a predicate
\* "that re-arms by itself because released_at moves forward on every collection";
\* so the owner has been told when the first read after a collection commits,
\* setting aside a notice claimed at the very instant of the collection.
EveryCollectionTold ==
    [][\A h \in Handlers : CommitRead(h) =>
          \/ told'[req[h].id] = 1
          \/ claimed[req[h].id] = policy[req[h].id].releasedAt]_vars
=============================================================================
