--------------------------- MODULE EmergencyProofs ---------------------------
(* What holds of EmergencyAccess for every value of its constants: any number *)
(* of policies, of transactions open at once and any waiting period.          *)
EXTENDS EmergencyAccess, TLAPS

-----------------------------------------------------------------------------
(* The inductive invariant.                                                *)

\* A live policy holds a share of the escrow in force; one that waits or was
\* collected has the deadline of its request; no collection is of the future.
PolicyOK(p) ==
    /\ Live(p) => policy[p].share = config
    /\ policy[p].status \in {"waiting", "released"} =>
          policy[p].requestedAt # NoTime /\ policy[p].releasesAt = policy[p].requestedAt + Wait
    /\ policy[p].releasedAt <= now
    /\ told[p] = 0 \/ (told[p] = 1 /\ policy[p].releasedAt <= claimed[p])

\* A transaction started in the past, is about a policy, and holds it as it found
\* it; what it was allowed before a refusal it was allowed in time.
HandlerOK(h) ==
    LET r == req[h]
    IN  /\ r.at <= now
        /\ r.op \in {"request", "release"} => r.at # NoTime
        /\ r.op = "none" => r.held = {}
        /\ r.op \in Vetoing \cup Asking => r.id \in Policies
        /\ r.op \in Vetoing \cup Asking /\ r.id \in r.held => Live(r.id)
        /\ r.op = "release" /\ r.id \in r.held => Collectable(r.id, r.at)
        /\ r.op \in Asking /\ r.asked /\ ~permitted => r.at <= refusedAt

\* A row is locked by one transaction.
Exclusive == \A g, h \in Handlers : g # h => req[g].held \cap req[h].held = {}

EmergencyInv ==
    /\ TypeOK
    /\ \A p \in Policies : PolicyOK(p)
    /\ \A h \in Handlers : HandlerOK(h)
    /\ Exclusive

-----------------------------------------------------------------------------
LEMMA InitEmergencyInv == Init => EmergencyInv
<1> SUFFICES ASSUME Init PROVE EmergencyInv
  OBVIOUS
<1>1. NoPolicy \in PolicyRows /\ Idle \in Requests
  BY DEF NoPolicy, PolicyRows, Idle, Requests, MaybeTimes
<1>2. TypeOK
  <2>1. /\ policy \in [Policies -> PolicyRows] /\ req \in [Handlers -> Requests]
        /\ \A p \in Policies : policy[p].status # "waiting"
    BY <1>1 DEF Init, NoPolicy
  <2>2. now \in Times /\ claimed \in [Policies -> MaybeTimes] /\ refusedAt \in MaybeTimes
    BY WaitAssumption DEF Init, Times, MaybeTimes
  <2>3. generation \in Nat /\ config \in {0, generation} /\ told \in [Policies -> Nat]
    BY DEF Init
  <2>4. permitted \in BOOLEAN
    BY DEF Init
  <2> QED BY <2>1, <2>2, <2>3, <2>4 DEF TypeOK
<1>3. ASSUME NEW p \in Policies PROVE PolicyOK(p)
  BY DEF Init, PolicyOK, NoPolicy, Live, NoTime
<1>4. ASSUME NEW h \in Handlers PROVE HandlerOK(h)
  BY DEF Init, HandlerOK, Idle, NoTime, Vetoing, Asking
<1>5. Exclusive
  BY DEF Init, Exclusive, Idle
<1> QED BY <1>2, <1>3, <1>4, <1>5 DEF EmergencyInv

-----------------------------------------------------------------------------
(* Steps that leave the policies alone.                                    *)

LEMMA IdleTyped == Idle \in Requests /\ Idle.held = {} /\ Idle.op = "none" /\ Idle.at = NoTime
BY DEF Idle, Requests, MaybeTimes

\* Only the transaction of h moves.
LEMMA HandlerMoves ==
    ASSUME EmergencyInv, NEW h \in Handlers, NEW to \in Requests,
           req' = [req EXCEPT ![h] = to], UNCHANGED <<escrow, gate, now>>,
           HandlerOK(h)',
           \A g \in Handlers \ {h} : req[g].held \cap to.held = {}
    PROVE  EmergencyInv'
<1> USE DEF EmergencyInv
<1>1. UNCHANGED <<policy, config, generation, claimed, told, permitted, refusedAt, now>>
  BY DEF escrow, gate
<1>2. /\ req' \in [Handlers -> Requests]
      /\ \A g \in Handlers : req'[g] = IF g = h THEN to ELSE req[g]
  BY DEF TypeOK
<1>3. TypeOK'
  BY <1>1, <1>2 DEF TypeOK
<1>4. \A p \in Policies : PolicyOK(p)'
  BY <1>1 DEF PolicyOK, Live
<1>5. ASSUME NEW g \in Handlers PROVE HandlerOK(g)'
  <2>1. CASE g # h
    BY <1>1, <1>2, <2>1 DEF HandlerOK, Live, Collectable
  <2> QED BY <2>1
<1>6. Exclusive'
  BY <1>2 DEF Exclusive
<1> QED BY <1>3, <1>4, <1>5, <1>6

LEMMA BackToIdle ==
    ASSUME EmergencyInv, NEW h \in Handlers, req' = [req EXCEPT ![h] = Idle],
           UNCHANGED <<escrow, gate, now>>
    PROVE  EmergencyInv'
<1>1. now' \in Nat /\ req'[h] = Idle
  BY DEF EmergencyInv, TypeOK, Times
<1>2. HandlerOK(h)'
  BY <1>1, IdleTyped DEF HandlerOK, NoTime, Vetoing, Asking
<1> QED BY <1>2, IdleTyped, HandlerMoves

LEMMA AsksStep ==
    ASSUME EmergencyInv, NEW h \in Handlers, Asks(h)
    PROVE  EmergencyInv'
<1> USE DEF EmergencyInv
<1>1. ASSUME NEW op \in Replacing \cup Vetoing \cup Asking, NEW id \in Policies \cup {Nobody},
             NEW at \in {NoTime, now}, Arrive(h, op, id, at),
             op \in Vetoing \cup Asking => id \in Policies,
             op \in {"request", "release"} => at = now
      PROVE  EmergencyInv'
  <2>1. now \in Times /\ now \in Nat
    BY DEF TypeOK, Times
  <2> DEFINE to == [Idle EXCEPT !.op = op, !.id = id, !.at = at]
  <2>2. /\ to \in Requests /\ to.op = op /\ to.id = id /\ to.at = at
        /\ to.held = {} /\ to.asked = FALSE
    <3>1. at \in MaybeTimes
      BY <2>1 DEF MaybeTimes
    <3> QED BY <3>1 DEF Idle, Requests
  <2>3. req' = [req EXCEPT ![h] = to] /\ UNCHANGED <<escrow, gate, now>>
    BY <1>1 DEF Arrive
  <2> HIDE DEF to
  <2>4. req'[h] = to
    BY <2>3 DEF TypeOK
  <2>5. HandlerOK(h)'
    <3>1. op # "none"
      BY DEF Replacing, Vetoing, Asking
    <3> QED BY <1>1, <2>1, <2>2, <2>3, <2>4, <3>1 DEF HandlerOK, NoTime
  <2>6. \A g \in Handlers \ {h} : req[g].held \cap to.held = {}
    BY <2>2
  <2> QED BY <2>2, <2>3, <2>5, <2>6, HandlerMoves
<1>2. ASSUME NEW op \in Replacing, OwnerReplaces(h, op) PROVE EmergencyInv'
  BY <1>1, <1>2 DEF OwnerReplaces, Replacing, Vetoing, Asking
<1>3. ASSUME NEW p \in Policies, NEW op \in Vetoing, OwnerDecides(h, op, p) PROVE EmergencyInv'
  BY <1>1, <1>3 DEF OwnerDecides, Vetoing
<1>4. ASSUME NEW p \in Policies, NEW op \in Asking, GranteeAsks(h, op, p) PROVE EmergencyInv'
  BY <1>1, <1>4 DEF GranteeAsks
<1> QED BY <1>2, <1>3, <1>4 DEF Asks

LEMMA TakeLockStep ==
    ASSUME EmergencyInv, NEW h \in Handlers, NEW lock, TakeLock(h, lock)
    PROVE  EmergencyInv'
<1> USE DEF EmergencyInv
<1>1. req[h] \in Requests /\ HandlerOK(h)
  BY DEF TypeOK
<1>2. CASE ~LockAllows(req[h], lock)
  BY <1>2, BackToIdle DEF TakeLock
<1>3. CASE LockAllows(req[h], lock)
  <2>1. lock \in Policies \cup {"keyset", "config"} /\ req[h].op # "none"
        /\ (req[h].op \in Vetoing \cup Asking => lock \in {req[h].id, "config"})
    <3>1. lock \in Needs(req[h])
      BY DEF TakeLock, Missing
    <3>2. req[h].op \in Replacing =>
              lock \in Policies \cup {"keyset", "config"} /\ req[h].op \notin Vetoing \cup Asking \cup {"none"}
      BY <3>1 DEF Needs, Replacing, Vetoing, Asking
    <3>3. req[h].op = "release" => lock \in {req[h].id, "config"} /\ req[h].id \in Policies
      BY <1>1, <3>1 DEF Needs, Replacing, HandlerOK, Vetoing, Asking
    <3>4. req[h].op \in (Vetoing \cup Asking) \ {"release"} => lock = req[h].id /\ req[h].id \in Policies
      BY <1>1, <3>1 DEF Needs, Replacing, Vetoing, Asking, HandlerOK
    <3>5. req[h].op # "none"
      BY <3>1 DEF Needs, Replacing
    <3>6. req[h].op \in {"none"} \cup Replacing \cup Vetoing \cup Asking
      BY <1>1 DEF Requests
    <3> QED BY <3>2, <3>3, <3>4, <3>5, <3>6
  <2> DEFINE to == [req[h] EXCEPT !.held = req[h].held \cup {lock}]
  <2>2. /\ to \in Requests /\ to.held = req[h].held \cup {lock}
        /\ to.op = req[h].op /\ to.id = req[h].id /\ to.at = req[h].at /\ to.asked = req[h].asked
    BY <1>1, <2>1 DEF Requests
  <2>3. req' = [req EXCEPT ![h] = to] /\ UNCHANGED <<escrow, gate, now>>
    BY <1>3 DEF TakeLock
  <2> HIDE DEF to
  <2>4. req'[h] = to /\ UNCHANGED <<policy, config, permitted, refusedAt, now>>
    BY <2>3 DEF TypeOK, escrow, gate
  <2>5. HandlerOK(h)'
    <3>1. to.op \in Vetoing \cup Asking /\ to.id \in to.held => Live(to.id)
      BY <1>1, <1>3, <2>2 DEF HandlerOK, LockAllows
    <3>2. to.op = "release" /\ to.id \in to.held => Collectable(to.id, to.at)
      BY <1>1, <1>3, <2>2 DEF HandlerOK, LockAllows
    <3> QED BY <1>1, <2>1, <2>2, <2>4, <3>1, <3>2 DEF HandlerOK, Live, Collectable
  <2>6. \A g \in Handlers \ {h} : req[g].held \cap to.held = {}
    BY <2>2 DEF TakeLock, Obtainable, Free, Exclusive
  <2> QED BY <2>2, <2>3, <2>5, <2>6, HandlerMoves
<1> QED BY <1>2, <1>3

LEMMA AskSettlementStep ==
    ASSUME EmergencyInv, NEW h \in Handlers, AskSettlement(h)
    PROVE  EmergencyInv'
<1> USE DEF EmergencyInv
<1>1. req[h] \in Requests /\ HandlerOK(h)
  BY DEF TypeOK
<1>2. CASE ~permitted
  BY <1>2, BackToIdle DEF AskSettlement
<1>3. CASE permitted
  <2> DEFINE to == [req[h] EXCEPT !.asked = TRUE]
  <2>1. /\ to \in Requests /\ to.held = req[h].held
        /\ to.op = req[h].op /\ to.id = req[h].id /\ to.at = req[h].at
    BY <1>1 DEF Requests
  <2>2. req' = [req EXCEPT ![h] = to] /\ UNCHANGED <<escrow, gate, now>>
    BY <1>3 DEF AskSettlement
  <2> HIDE DEF to
  <2>3. req'[h] = to /\ UNCHANGED <<policy, config, permitted, refusedAt, now>>
    BY <2>2 DEF TypeOK, escrow, gate
  <2>4. HandlerOK(h)'
    BY <1>1, <1>3, <2>1, <2>3 DEF HandlerOK, Live, Collectable
  <2>5. \A g \in Handlers \ {h} : req[g].held \cap to.held = {}
    BY <2>1 DEF Exclusive
  <2> QED BY <2>1, <2>2, <2>4, <2>5, HandlerMoves
<1> QED BY <1>2, <1>3

\* The settlement service starts to refuse: what was asked was asked before.
LEMMA SettlementChangesStep ==
    ASSUME EmergencyInv, SettlementChanges
    PROVE  EmergencyInv'
<1> USE DEF EmergencyInv
<1>1. /\ UNCHANGED <<policy, config, generation, claimed, told, req, now>>
      /\ permitted' = ~permitted /\ refusedAt' = IF permitted THEN now ELSE NoTime
  BY DEF SettlementChanges, escrow
<1>2. TypeOK'
  <2>1. permitted' \in BOOLEAN
    BY <1>1 DEF TypeOK
  <2>2. refusedAt' \in MaybeTimes
    BY <1>1 DEF TypeOK, MaybeTimes
  <2> QED BY <1>1, <2>1, <2>2 DEF TypeOK
<1>3. \A p \in Policies : PolicyOK(p)'
  BY <1>1 DEF PolicyOK, Live
<1>4. ASSUME NEW h \in Handlers PROVE HandlerOK(h)'
  <2>1. HandlerOK(h) /\ req[h].at <= now
    BY DEF HandlerOK
  <2>2. permitted' = FALSE => refusedAt' = now
    BY <1>1 DEF TypeOK
  <2> QED BY <1>1, <2>1, <2>2 DEF HandlerOK, Live, Collectable
<1> QED BY <1>1, <1>2, <1>3, <1>4 DEF Exclusive

LEMMA TickStep ==
    ASSUME EmergencyInv, Tick
    PROVE  EmergencyInv'
<1> USE DEF EmergencyInv
<1>1. /\ UNCHANGED <<policy, config, generation, claimed, told, permitted, refusedAt, req>>
      /\ now' = now + 1 /\ now < MaxTime /\ now \in Nat
  BY DEF Tick, escrow, gate, TypeOK, Times
<1>2. now' \in Times
  BY <1>1, WaitAssumption DEF Times
<1>3. TypeOK'
  BY <1>1, <1>2 DEF TypeOK
<1>4. ASSUME NEW p \in Policies PROVE PolicyOK(p)'
  <2>1. policy[p].releasedAt \in Int /\ policy[p].releasedAt <= now
    BY DEF TypeOK, PolicyRows, MaybeTimes, Times, NoTime, PolicyOK
  <2>2. policy[p].releasedAt <= now + 1
    BY <1>1, <2>1
  <2> QED BY <1>1, <2>2 DEF PolicyOK, Live
<1>5. ASSUME NEW h \in Handlers PROVE HandlerOK(h)'
  <2>1. req[h].at \in Int /\ req[h].at <= now
    BY DEF TypeOK, Requests, MaybeTimes, Times, NoTime, HandlerOK
  <2>2. req[h].at <= now + 1
    BY <1>1, <2>1
  <2> QED BY <1>1, <2>2 DEF HandlerOK, Live, Collectable
<1> QED BY <1>1, <1>3, <1>4, <1>5 DEF Exclusive

-----------------------------------------------------------------------------
(* Commits.                                                                *)

\* A transaction that commits holds every row it needs.
LEMMA HoldsWhatItNeeds ==
    ASSUME EmergencyInv, NEW h \in Handlers, Missing(req[h]) = {}
    PROVE  /\ req[h].op \in Replacing => \A p \in Policies : Live(p) => p \in req[h].held
           /\ req[h].op \in Vetoing \cup Asking =>
                 req[h].id \in Policies /\ req[h].id \in req[h].held /\ Live(req[h].id)
<1>1. Needs(req[h]) \subseteq req[h].held
  BY DEF Missing
<1>2. req[h].op \in Replacing => \A p \in Policies : Live(p) => p \in req[h].held
  BY <1>1 DEF Needs, Replacing
<1>3. ASSUME req[h].op \in Vetoing \cup Asking PROVE req[h].id \in Needs(req[h])
  BY <1>3 DEF Needs, Replacing, Vetoing, Asking
<1> QED BY <1>1, <1>2, <1>3 DEF EmergencyInv, HandlerOK

\* A commit that changes only policies which its transaction locked, or which no
\* transaction can hold, leaves the others what they found.
LEMMA CommitKeeps ==
    ASSUME EmergencyInv, NEW h \in Handlers, req' = [req EXCEPT ![h] = Idle],
           UNCHANGED <<gate, now>>,
           \A p \in Policies : Live(p) /\ p \notin req[h].held => policy'[p] = policy[p],
           policy' \in [Policies -> PolicyRows],
           generation' \in Nat, config' \in {0, generation'},
           claimed' \in [Policies -> MaybeTimes], told' \in [Policies -> Nat],
           \A p \in Policies : PolicyOK(p)'
    PROVE  EmergencyInv'
<1> USE DEF EmergencyInv
<1>1. permitted' = permitted /\ refusedAt' = refusedAt /\ now' = now
  BY DEF gate
<1>2. /\ req' \in [Handlers -> Requests] /\ req'[h] = Idle
      /\ \A g \in Handlers \ {h} : req'[g] = req[g]
  BY IdleTyped DEF TypeOK
<1>3. TypeOK'
  <2>1. ASSUME NEW p \in Policies PROVE (policy[p].status = "waiting" => policy[p].releasesAt # NoTime)'
    <3>1. PolicyOK(p)' /\ policy'[p] \in PolicyRows
      OBVIOUS
    <3>2. CASE policy'[p].status = "waiting"
      <4>1. /\ policy'[p].requestedAt # NoTime
            /\ policy'[p].releasesAt = policy'[p].requestedAt + Wait
        BY <3>1, <3>2 DEF PolicyOK
      <4>2. policy'[p].requestedAt \in Nat
        BY <3>1, <4>1 DEF PolicyRows, MaybeTimes, Times
      <4> QED BY <4>1, <4>2, WaitAssumption DEF NoTime
    <3> QED BY <3>2
  <2> QED BY <1>1, <1>2, <2>1 DEF TypeOK
<1>4. HandlerOK(h)'
  <2>1. now' \in Nat
    BY <1>1 DEF TypeOK, Times
  <2> QED BY <1>2, <2>1, IdleTyped DEF HandlerOK, NoTime, Vetoing, Asking
<1>5. ASSUME NEW g \in Handlers \ {h} PROVE HandlerOK(g)'
  <2>1. HandlerOK(g) /\ req'[g] = req[g]
    BY <1>2
  <2>2. ASSUME req[g].op \in Vetoing \cup Asking, req[g].id \in req[g].held
        PROVE  policy'[req[g].id] = policy[req[g].id]
    <3>1. req[g].id \in Policies /\ Live(req[g].id)
      BY <2>1, <2>2 DEF HandlerOK
    <3>2. req[g].id \notin req[h].held
      BY <2>2 DEF Exclusive
    <3> QED BY <3>1, <3>2
  <2>3. (req[g].op \in Vetoing \cup Asking /\ req[g].id \in req[g].held => Live(req[g].id))'
    BY <2>1, <2>2 DEF HandlerOK, Live
  <2>4. (req[g].op = "release" /\ req[g].id \in req[g].held => Collectable(req[g].id, req[g].at))'
    BY <2>1, <2>2 DEF HandlerOK, Collectable, Asking
  <2> QED BY <1>1, <2>1, <2>3, <2>4 DEF HandlerOK
<1>6. Exclusive'
  BY <1>2, IdleTyped DEF Exclusive
<1> QED BY <1>3, <1>4, <1>5, <1>6

LEMMA NoPolicyTyped ==
    /\ NoPolicy \in PolicyRows
    /\ \A share \in Nat : [NoPolicy EXCEPT !.status = "configured", !.share = share] \in PolicyRows
    /\ [NoPolicy EXCEPT !.status = "retired"] \in PolicyRows
BY DEF NoPolicy, PolicyRows, MaybeTimes

\* Replacing the escrow leaves live only what it inserted.
LEMMA RetiredRows ==
    ASSUME EmergencyInv, NEW inserted \in SUBSET Policies, NEW share \in Nat,
           policy' = Retired(inserted, share), config' = share \/ inserted = {},
           UNCHANGED <<claimed, told, now>>
    PROVE  /\ policy' \in [Policies -> PolicyRows]
           /\ \A p \in Policies : PolicyOK(p)'
<1> USE DEF EmergencyInv
<1>1. ASSUME NEW p \in Policies PROVE policy'[p] \in PolicyRows /\ PolicyOK(p)'
  <2>1. policy'[p] = IF p \in inserted THEN [NoPolicy EXCEPT !.status = "configured", !.share = share]
                     ELSE IF Live(p) THEN [NoPolicy EXCEPT !.status = "retired"] ELSE policy[p]
    BY DEF Retired
  <2>2. policy[p] \in PolicyRows /\ PolicyOK(p) /\ claimed[p] \in MaybeTimes /\ now \in Nat
    BY DEF TypeOK, Times
  <2>3. NoTime <= claimed[p] /\ NoTime <= now
    BY <2>2 DEF MaybeTimes, Times, NoTime
  <2>4. CASE p \in inserted
    <3>1. /\ policy'[p].status = "configured" /\ policy'[p].share = share
          /\ policy'[p].releasedAt = NoTime
      BY <2>1, <2>4 DEF NoPolicy
    <3> QED BY <2>1, <2>2, <2>3, <2>4, <3>1, NoPolicyTyped DEF PolicyOK, Live
  <2>5. CASE p \notin inserted /\ Live(p)
    <3>1. policy'[p].status = "retired" /\ policy'[p].releasedAt = NoTime
      BY <2>1, <2>5 DEF NoPolicy
    <3> QED BY <2>1, <2>2, <2>3, <2>5, <3>1, NoPolicyTyped DEF PolicyOK, Live
  <2>6. CASE p \notin inserted /\ ~Live(p)
    BY <2>1, <2>2, <2>6 DEF PolicyOK, Live
  <2> QED BY <2>4, <2>5, <2>6
<1>2. policy' = [p \in Policies |-> policy'[p]]
  BY DEF Retired
<1> QED BY <1>1, <1>2

LEMMA CommitConfigureStep ==
    ASSUME EmergencyInv, NEW h \in Handlers, NEW grantees \in SUBSET Policies,
           CommitConfigure(h, grantees)
    PROVE  EmergencyInv'
<1> USE DEF EmergencyInv
<1>1. /\ req[h].op = "configure" /\ Missing(req[h]) = {} /\ req' = [req EXCEPT ![h] = Idle]
      /\ UNCHANGED <<gate, now, claimed, told>>
      /\ generation' = generation + 1 /\ config' = generation'
      /\ policy' = Retired(grantees, generation')
  BY DEF CommitConfigure, Writing, Ready
<1>2. generation \in Nat /\ claimed \in [Policies -> MaybeTimes] /\ told \in [Policies -> Nat]
  BY DEF TypeOK
<1> DEFINE share == generation + 1
<1>3. share \in Nat /\ share = generation'
  BY <1>1, <1>2
<1> HIDE DEF share
<1>4. policy' = Retired(grantees, share) /\ config' = share
  BY <1>1, <1>3
<1>5. policy' \in [Policies -> PolicyRows] /\ \A p \in Policies : PolicyOK(p)'
  BY <1>1, <1>3, <1>4, RetiredRows
<1>6. \A p \in Policies : Live(p) => p \in req[h].held
  BY <1>1, HoldsWhatItNeeds DEF Replacing
<1>7. generation' \in Nat /\ config' \in {0, generation'}
  BY <1>3, <1>4
<1> QED BY <1>1, <1>2, <1>5, <1>6, <1>7, CommitKeeps

LEMMA CommitResetStep ==
    ASSUME EmergencyInv, NEW h \in Handlers, CommitReset(h)
    PROVE  EmergencyInv'
<1> USE DEF EmergencyInv
<1>1. /\ req[h].op = "reset" /\ Missing(req[h]) = {} /\ req' = [req EXCEPT ![h] = Idle]
      /\ UNCHANGED <<gate, now, generation, claimed, told>>
      /\ config' = 0 /\ policy' = Retired({}, 0)
  BY DEF CommitReset, Writing, Ready
<1>2. generation \in Nat /\ claimed \in [Policies -> MaybeTimes] /\ told \in [Policies -> Nat]
  BY DEF TypeOK
<1>3. policy' \in [Policies -> PolicyRows] /\ \A p \in Policies : PolicyOK(p)'
  BY <1>1, RetiredRows
<1>4. \A p \in Policies : Live(p) => p \in req[h].held
  BY <1>1, HoldsWhatItNeeds DEF Replacing
<1> QED BY <1>1, <1>2, <1>3, <1>4, CommitKeeps

\* A commit about one policy that its transaction holds.
LEMMA OneRowCommit ==
    ASSUME EmergencyInv, NEW h \in Handlers, req' = [req EXCEPT ![h] = Idle],
           UNCHANGED <<gate, now, generation, config>>,
           NEW p \in Policies, p \in req[h].held,
           NEW row \in PolicyRows, policy' = [policy EXCEPT ![p] = row],
           claimed' \in [Policies -> MaybeTimes], told' \in [Policies -> Nat],
           \A q \in Policies \ {p} : claimed'[q] = claimed[q] /\ told'[q] = told[q],
           PolicyOK(p)'
    PROVE  EmergencyInv'
<1> USE DEF EmergencyInv
<1>1. /\ policy' \in [Policies -> PolicyRows] /\ policy'[p] = row
      /\ \A q \in Policies \ {p} : policy'[q] = policy[q]
  BY DEF TypeOK
<1>2. ASSUME NEW q \in Policies \ {p} PROVE PolicyOK(q)'
  BY <1>1 DEF PolicyOK, Live
<1>3. generation' \in Nat /\ config' \in {0, generation'}
  BY DEF TypeOK
<1>4. \A q \in Policies : PolicyOK(q)'
  BY <1>2
<1>5. \A q \in Policies : q \notin req[h].held => policy'[q] = policy[q]
  BY <1>1
<1> HIDE DEF EmergencyInv
<1> QED BY <1>1, <1>3, <1>4, <1>5, CommitKeeps

LEMMA CommitDenyStep ==
    ASSUME EmergencyInv, NEW h \in Handlers, CommitDeny(h)
    PROVE  EmergencyInv'
<1> USE DEF EmergencyInv
<1>0. PICK p \in Policies : p = req[h].id
  BY HoldsWhatItNeeds DEF CommitDeny, Writing, Ready, Vetoing
<1> DEFINE row == [policy[p] EXCEPT !.status = "denied", !.releasesAt = NoTime]
<1>1. p \in Policies /\ p \in req[h].held /\ Live(p)
  BY <1>0, HoldsWhatItNeeds DEF CommitDeny, Writing, Ready, Vetoing
<1>2. /\ req' = [req EXCEPT ![h] = Idle] /\ UNCHANGED <<gate, now, generation, config, claimed, told>>
      /\ policy' = [policy EXCEPT ![p] = row]
  BY <1>0, <1>1 DEF CommitDeny, Writing, Ready, TypeOK
<1>3. policy[p] \in PolicyRows /\ claimed \in [Policies -> MaybeTimes] /\ told \in [Policies -> Nat]
      /\ PolicyOK(p) /\ p \in Policies
  BY <1>1 DEF TypeOK
<1>4. /\ row \in PolicyRows /\ row.status = "denied" /\ row.share = policy[p].share
      /\ row.releasedAt = policy[p].releasedAt
  BY <1>3 DEF PolicyRows
<1> HIDE DEF row
<1>5. policy'[p] = row
  BY <1>2, <1>3 DEF TypeOK
<1>6. PolicyOK(p)'
  BY <1>1, <1>2, <1>3, <1>4, <1>5 DEF PolicyOK, Live
<1> QED BY <1>1, <1>2, <1>3, <1>4, <1>6, OneRowCommit

LEMMA CommitRearmStep ==
    ASSUME EmergencyInv, NEW h \in Handlers, CommitRearm(h)
    PROVE  EmergencyInv'
<1> USE DEF EmergencyInv
<1>0. PICK p \in Policies : p = req[h].id
  BY HoldsWhatItNeeds DEF CommitRearm, Writing, Ready, Vetoing
<1> DEFINE row == [policy[p] EXCEPT !.status = "configured", !.requestedAt = NoTime,
                                    !.releasesAt = NoTime]
<1>1. p \in Policies /\ p \in req[h].held /\ Live(p)
  BY <1>0, HoldsWhatItNeeds DEF CommitRearm, Writing, Ready, Vetoing
<1>2. /\ req' = [req EXCEPT ![h] = Idle] /\ UNCHANGED <<gate, now, generation, config, claimed, told>>
      /\ policy' = [policy EXCEPT ![p] = row]
  BY <1>0, <1>1 DEF CommitRearm, Writing, Ready, TypeOK
<1>3. policy[p] \in PolicyRows /\ claimed \in [Policies -> MaybeTimes] /\ told \in [Policies -> Nat]
      /\ PolicyOK(p) /\ p \in Policies
  BY <1>1 DEF TypeOK
<1>4. /\ row \in PolicyRows /\ row.status = "configured" /\ row.share = policy[p].share
      /\ row.releasedAt = policy[p].releasedAt
  BY <1>3 DEF PolicyRows, MaybeTimes
<1> HIDE DEF row
<1>5. policy'[p] = row
  BY <1>2, <1>3 DEF TypeOK
<1>6. PolicyOK(p)'
  BY <1>1, <1>2, <1>3, <1>4, <1>5 DEF PolicyOK, Live
<1> QED BY <1>1, <1>2, <1>3, <1>4, <1>6, OneRowCommit

LEMMA CommitRevokeStep ==
    ASSUME EmergencyInv, NEW h \in Handlers, CommitRevoke(h)
    PROVE  EmergencyInv'
<1> USE DEF EmergencyInv
<1>0. PICK p \in Policies : p = req[h].id
  BY HoldsWhatItNeeds DEF CommitRevoke, Writing, Ready, Vetoing
<1> DEFINE row == [NoPolicy EXCEPT !.status = "retired"]
<1>1. p \in Policies /\ p \in req[h].held
  BY <1>0, HoldsWhatItNeeds DEF CommitRevoke, Writing, Ready, Vetoing
<1>2. /\ req' = [req EXCEPT ![h] = Idle] /\ UNCHANGED <<gate, now, generation, config, claimed, told>>
      /\ policy' = [policy EXCEPT ![p] = row]
  BY <1>0 DEF CommitRevoke, Writing, Ready
<1>3. /\ claimed \in [Policies -> MaybeTimes] /\ told \in [Policies -> Nat]
      /\ PolicyOK(p) /\ p \in Policies /\ claimed[p] \in MaybeTimes /\ now \in Nat
  BY <1>0, <1>1 DEF TypeOK, Times
<1>4. row \in PolicyRows /\ row.status = "retired" /\ row.releasedAt = NoTime
  BY NoPolicyTyped DEF NoPolicy
<1> HIDE DEF row
<1>5. policy'[p] = row
  BY <1>2, <1>3 DEF TypeOK
<1>6. NoTime <= claimed[p] /\ NoTime <= now
  BY <1>3 DEF MaybeTimes, Times, NoTime
<1>7. PolicyOK(p)'
  BY <1>2, <1>3, <1>4, <1>5, <1>6 DEF PolicyOK, Live
<1> QED BY <1>1, <1>2, <1>3, <1>4, <1>7, OneRowCommit

LEMMA CommitRequestStep ==
    ASSUME EmergencyInv, NEW h \in Handlers, CommitRequest(h)
    PROVE  EmergencyInv'
<1> USE DEF EmergencyInv
<1>0. PICK p \in Policies, at \in MaybeTimes : p = req[h].id /\ at = req[h].at
  BY HoldsWhatItNeeds DEF CommitRequest, Writing, Ready, Asking, TypeOK, Requests
<1>1. p \in Policies /\ p \in req[h].held /\ Live(p)
  BY <1>0, HoldsWhatItNeeds DEF CommitRequest, Writing, Ready, Asking
<1>2. /\ req' = [req EXCEPT ![h] = Idle] /\ UNCHANGED <<gate, now, generation, config, claimed, told>>
      /\ policy' = IF Blocked(p) THEN policy ELSE MarkRequested(p, at)
  BY <1>0 DEF CommitRequest, Writing, Ready
<1>3. /\ policy[p] \in PolicyRows /\ policy \in [Policies -> PolicyRows]
      /\ claimed \in [Policies -> MaybeTimes] /\ told \in [Policies -> Nat]
      /\ PolicyOK(p) /\ p \in Policies
  BY <1>0, <1>1 DEF TypeOK
<1>4. at \in Times /\ at \in Nat /\ at # NoTime
  <2>1. at # NoTime /\ at \in MaybeTimes
    BY <1>0 DEF CommitRequest, Writing, Ready, HandlerOK, TypeOK, Requests
  <2> QED BY <2>1 DEF MaybeTimes, Times, NoTime
<1>5. PICK until \in Nat : until = at + Wait
  BY <1>4, WaitAssumption
<1>6. until \in 0 .. MaxTime + Wait
  BY <1>4, <1>5, WaitAssumption DEF Times
<1> DEFINE row == IF Blocked(p) THEN policy[p]
                  ELSE [policy[p] EXCEPT !.status = "waiting", !.requestedAt = at,
                                         !.releasesAt = until]
<1>7. policy' = [policy EXCEPT ![p] = row]
  BY <1>2, <1>3, <1>5 DEF MarkRequested
<1>8. /\ row \in PolicyRows /\ row.share = policy[p].share
      /\ row.releasedAt = policy[p].releasedAt
      /\ \/ row = policy[p]
         \/ row.status = "waiting" /\ row.requestedAt = at /\ row.releasesAt = until
  BY <1>3, <1>4, <1>6 DEF PolicyRows, MaybeTimes
<1> HIDE DEF row
<1>9. policy'[p] = row
  BY <1>3, <1>7
<1>10. PolicyOK(p)'
  BY <1>1, <1>2, <1>3, <1>4, <1>5, <1>8, <1>9 DEF PolicyOK, Live
<1> QED BY <1>1, <1>2, <1>3, <1>7, <1>8, <1>10, OneRowCommit

\* What a transaction that commits a collection found, and still finds.
LEMMA ReleaseFinds ==
    ASSUME EmergencyInv, NEW h \in Handlers, CommitRelease(h)
    PROVE  LET p == req[h].id IN
           /\ p \in Policies /\ p \in req[h].held /\ Live(p)
           /\ Collectable(p, req[h].at)
           /\ req[h].at \in Times /\ req[h].at <= now
           /\ ~permitted => req[h].at <= refusedAt
<1>1. req[h].op = "release" /\ Missing(req[h]) = {} /\ ~MustAsk(req[h])
  BY DEF CommitRelease, Writing, Ready
<1>2. req[h].asked /\ HandlerOK(h) /\ req[h] \in Requests
  BY <1>1 DEF MustAsk, Asking, EmergencyInv, TypeOK, Requests
<1>3. req[h].id \in Policies /\ req[h].id \in req[h].held /\ Live(req[h].id)
  BY <1>1, HoldsWhatItNeeds DEF Asking
<1>4. req[h].at \in Times
  BY <1>1, <1>2 DEF HandlerOK, Requests, MaybeTimes
<1>5. Collectable(req[h].id, req[h].at) /\ req[h].at <= now /\ (~permitted => req[h].at <= refusedAt)
  BY <1>1, <1>2, <1>3 DEF HandlerOK, Asking
<1> QED BY <1>3, <1>4, <1>5

LEMMA CommitReleaseStep ==
    ASSUME EmergencyInv, NEW h \in Handlers, CommitRelease(h)
    PROVE  EmergencyInv'
<1> USE DEF EmergencyInv
<1>0. PICK p \in Policies, at \in MaybeTimes : p = req[h].id /\ at = req[h].at
  BY ReleaseFinds DEF MaybeTimes
<1> DEFINE row == [policy[p] EXCEPT !.status = "released", !.releasedAt = at]
<1>1. p \in Policies /\ p \in req[h].held /\ Live(p) /\ Collectable(p, at) /\ at \in Times /\ at <= now
  BY <1>0, ReleaseFinds
<1>2. /\ req' = [req EXCEPT ![h] = Idle] /\ UNCHANGED <<gate, now, generation, config, claimed>>
      /\ policy' = [policy EXCEPT ![p] = row] /\ told' = [told EXCEPT ![p] = 0]
  BY <1>0, <1>1 DEF CommitRelease, Writing, Ready, TypeOK
<1>3. policy[p] \in PolicyRows /\ claimed \in [Policies -> MaybeTimes] /\ told \in [Policies -> Nat]
      /\ PolicyOK(p) /\ p \in Policies
  BY <1>1 DEF TypeOK
<1>4. /\ row \in PolicyRows /\ row.status = "released" /\ row.share = policy[p].share
      /\ row.releasedAt = at /\ row.requestedAt = policy[p].requestedAt
      /\ row.releasesAt = policy[p].releasesAt
  BY <1>1, <1>3 DEF PolicyRows, MaybeTimes
<1> HIDE DEF row
<1>5. /\ policy'[p] = row /\ told'[p] = 0 /\ told' \in [Policies -> Nat]
      /\ \A q \in Policies \ {p} : told'[q] = told[q]
  BY <1>2, <1>3 DEF TypeOK
<1>6. PolicyOK(p)'
  BY <1>1, <1>2, <1>3, <1>4, <1>5 DEF PolicyOK, Live, Collectable
<1> QED BY <1>1, <1>2, <1>3, <1>4, <1>5, <1>6, OneRowCommit

\* The notice is claimed at an instant no earlier than the collection's, so the
\* reads that follow find it.
LEMMA CommitReadStep ==
    ASSUME EmergencyInv, NEW h \in Handlers, CommitRead(h)
    PROVE  EmergencyInv'
<1> USE DEF EmergencyInv
<1>0. PICK p \in Policies : p = req[h].id
  BY HoldsWhatItNeeds DEF CommitRead, Writing, Ready, Asking
<1>1. p \in Policies /\ p \in req[h].held
  BY <1>0, HoldsWhatItNeeds DEF CommitRead, Writing, Ready, Asking
<1>2. /\ req' = [req EXCEPT ![h] = Idle] /\ UNCHANGED <<gate, now, generation, config, policy>>
      /\ \/ UNCHANGED <<claimed, told>>
         \/ /\ ~HasNotifiedSince(p)
            /\ claimed' = [claimed EXCEPT ![p] = now] /\ told' = [told EXCEPT ![p] = told[p] + 1]
  BY <1>0 DEF CommitRead, Writing, Ready
<1>3. /\ claimed \in [Policies -> MaybeTimes] /\ told \in [Policies -> Nat]
      /\ policy \in [Policies -> PolicyRows] /\ policy[p] \in PolicyRows
      /\ PolicyOK(p) /\ p \in Policies /\ now \in Times /\ now \in MaybeTimes
  BY <1>0, <1>1 DEF TypeOK, MaybeTimes, Times
<1>4. policy' = [policy EXCEPT ![p] = policy[p]]
  BY <1>2, <1>3
<1>5. CASE UNCHANGED <<claimed, told>>
  <2>1. PolicyOK(p)'
    BY <1>2, <1>3, <1>5 DEF PolicyOK, Live
  <2> QED BY <1>1, <1>2, <1>3, <1>4, <1>5, <2>1, OneRowCommit
<1>6. CASE /\ ~HasNotifiedSince(p)
           /\ claimed' = [claimed EXCEPT ![p] = now] /\ told' = [told EXCEPT ![p] = told[p] + 1]
  <2>1. claimed[p] \in Int /\ policy[p].releasedAt \in Int /\ ~(claimed[p] >= policy[p].releasedAt)
    BY <1>3, <1>6 DEF HasNotifiedSince, MaybeTimes, Times, PolicyRows, NoTime
  <2>2. told[p] = 0
    BY <1>3, <2>1 DEF PolicyOK
  <2>3. /\ claimed' \in [Policies -> MaybeTimes] /\ claimed'[p] = now
        /\ \A q \in Policies \ {p} : claimed'[q] = claimed[q]
    BY <1>3, <1>6
  <2>4. /\ told' \in [Policies -> Nat] /\ told'[p] = 1
        /\ \A q \in Policies \ {p} : told'[q] = told[q]
    BY <1>3, <1>6, <2>2
  <2>5. PolicyOK(p)'
    BY <1>2, <1>3, <2>3, <2>4 DEF PolicyOK, Live
  <2> QED BY <1>1, <1>2, <1>3, <1>4, <2>3, <2>4, <2>5, OneRowCommit
<1> QED BY <1>2, <1>5, <1>6

-----------------------------------------------------------------------------
(* Every step, and the invariant.                                          *)

LEMMA ProceedStep ==
    ASSUME EmergencyInv, NEW h \in Handlers, Proceed(h)
    PROVE  EmergencyInv'
<1>1. CASE \E lock \in Missing(req[h]) : TakeLock(h, lock)
  BY <1>1, TakeLockStep
<1>2. CASE AskSettlement(h)
  BY <1>2, AskSettlementStep
<1>3. CASE \E grantees \in SUBSET Policies : CommitConfigure(h, grantees)
  BY <1>3, CommitConfigureStep
<1>4. CASE CommitReset(h)
  BY <1>4, CommitResetStep
<1>5. CASE CommitDeny(h) \/ CommitRearm(h) \/ CommitRevoke(h)
  BY <1>5, CommitDenyStep, CommitRearmStep, CommitRevokeStep
<1>6. CASE CommitRequest(h) \/ CommitRelease(h) \/ CommitRead(h)
  BY <1>6, CommitRequestStep, CommitReleaseStep, CommitReadStep
<1> QED BY <1>1, <1>2, <1>3, <1>4, <1>5, <1>6 DEF Proceed

LEMMA NextEmergencyInv == EmergencyInv /\ [Next]_vars => EmergencyInv'
<1> SUFFICES ASSUME EmergencyInv, [Next]_vars PROVE EmergencyInv'
  OBVIOUS
<1>1. ASSUME NEW h \in Handlers, Asks(h) \/ Proceed(h) PROVE EmergencyInv'
  BY <1>1, AsksStep, ProceedStep
<1>2. ASSUME NEW h \in Handlers, Crash(h) PROVE EmergencyInv'
  BY <1>2, BackToIdle DEF Crash
<1>3. CASE SettlementChanges
  BY <1>3, SettlementChangesStep
<1>4. CASE Tick
  BY <1>4, TickStep
<1>5. CASE UNCHANGED vars
  BY <1>5 DEF vars, escrow, gate, EmergencyInv, TypeOK, PolicyOK, HandlerOK, Exclusive, Live, Collectable
<1> QED BY <1>1, <1>2, <1>3, <1>4, <1>5 DEF Next

LEMMA AlwaysEmergencyInv == Spec => []EmergencyInv
BY InitEmergencyInv, NextEmergencyInv, PTL DEF Spec

-----------------------------------------------------------------------------
(* What the steps may never do.                                            *)

\* Only the commit of a collection collects, and only the policy it holds.
LEMMA OnlyReleaseCollects ==
    ASSUME EmergencyInv, [Next]_vars, NEW p \in Policies, Collected(p)
    PROVE  \E h \in Handlers : CommitRelease(h) /\ p = req[h].id
<1> USE DEF EmergencyInv
<1>1. policy'[p].status = "released" /\ policy'[p] # policy[p] /\ policy \in [Policies -> PolicyRows]
  BY DEF Collected, TypeOK
<1>2. ASSUME NEW inserted, NEW share, policy' = Retired(inserted, share) PROVE FALSE
  <2>1. \/ policy'[p] = [NoPolicy EXCEPT !.status = "configured", !.share = share]
        \/ policy'[p] = [NoPolicy EXCEPT !.status = "retired"]
        \/ policy'[p] = policy[p]
    BY <1>2 DEF Retired
  <2> QED BY <1>1, <2>1 DEF NoPolicy
<1>3. ASSUME NEW q \in Policies, NEW row \in PolicyRows, row.status # "released",
             policy' = [policy EXCEPT ![q] = row]
      PROVE  FALSE
  BY <1>1, <1>3
<1>4. PICK h \in Handlers : Proceed(h) /\ ~UNCHANGED policy
  BY <1>1 DEF Next, vars, escrow, Asks, OwnerReplaces, OwnerDecides, GranteeAsks, Arrive, Crash,
              SettlementChanges, Tick
<1>5. req[h].op \in Vetoing \cup Asking /\ Missing(req[h]) = {} =>
          req[h].id \in Policies /\ policy[req[h].id] \in PolicyRows
  BY HoldsWhatItNeeds DEF TypeOK
<1>6. ~CommitReset(h) /\ \A grantees \in SUBSET Policies : ~CommitConfigure(h, grantees)
  BY <1>2 DEF CommitReset, CommitConfigure
<1>7. ASSUME CommitDeny(h) PROVE FALSE
  <2>1. policy' = [policy EXCEPT ![req[h].id] =
                     [policy[req[h].id] EXCEPT !.status = "denied", !.releasesAt = NoTime]]
    BY <1>1, <1>5, <1>7 DEF CommitDeny, Writing, Ready, Vetoing
  <2> DEFINE row == [policy[req[h].id] EXCEPT !.status = "denied", !.releasesAt = NoTime]
  <2>2. req[h].id \in Policies /\ row \in PolicyRows /\ row.status # "released"
    BY <1>5, <1>7 DEF CommitDeny, Writing, Ready, Vetoing, PolicyRows
  <2> QED BY <1>3, <2>1, <2>2
<1>8. ASSUME CommitRearm(h) PROVE FALSE
  <2> DEFINE row == [policy[req[h].id] EXCEPT !.status = "configured", !.requestedAt = NoTime,
                                              !.releasesAt = NoTime]
  <2>1. policy' = [policy EXCEPT ![req[h].id] = row]
    BY <1>1, <1>5, <1>8 DEF CommitRearm, Writing, Ready, Vetoing
  <2>2. req[h].id \in Policies /\ row \in PolicyRows /\ row.status # "released"
    BY <1>5, <1>8 DEF CommitRearm, Writing, Ready, Vetoing, PolicyRows, MaybeTimes
  <2> QED BY <1>3, <2>1, <2>2
<1>9. ASSUME CommitRevoke(h) PROVE FALSE
  <2> DEFINE row == [NoPolicy EXCEPT !.status = "retired"]
  <2>1. policy' = [policy EXCEPT ![req[h].id] = row] /\ req[h].id \in Policies
    BY <1>5, <1>9 DEF CommitRevoke, Writing, Ready, Vetoing
  <2>2. row \in PolicyRows /\ row.status # "released"
    BY NoPolicyTyped DEF NoPolicy
  <2> QED BY <1>3, <2>1, <2>2
<1>10. ASSUME CommitRequest(h) PROVE FALSE
  <2>1. policy' = MarkRequested(req[h].id, req[h].at) /\ req[h].id \in Policies
    BY <1>4, <1>5, <1>10 DEF CommitRequest, Writing, Ready, Asking
  <2>2. policy'[p] = policy[p] \/ policy'[p].status = "waiting"
    BY <1>1, <2>1 DEF MarkRequested, PolicyRows
  <2> QED BY <1>1, <2>2
<1>11. CommitRelease(h)
  BY <1>4, <1>6, <1>7, <1>8, <1>9, <1>10 DEF Proceed, TakeLock, AskSettlement, CommitRead, escrow
<1>12. p = req[h].id
  BY <1>1, <1>11 DEF CommitRelease
<1> QED BY <1>11, <1>12

\* What each collection finds, in the terms of the three properties.
LEMMA CollectedIsDue ==
    ASSUME EmergencyInv, [Next]_vars, NEW p \in Policies, Collected(p)
    PROVE  /\ policy[p].share = config
           /\ policy[p].requestedAt # NoTime
           /\ policy[p].requestedAt + Wait <= now
           /\ ~permitted => policy'[p].releasedAt <= refusedAt
<1> USE DEF EmergencyInv
<1>1. PICK h \in Handlers : CommitRelease(h) /\ p = req[h].id
  BY OnlyReleaseCollects
<1>2. /\ Live(p) /\ Collectable(p, req[h].at) /\ req[h].at \in Times /\ req[h].at <= now
      /\ ~permitted => req[h].at <= refusedAt
  BY <1>1, ReleaseFinds
<1>3. policy[p] \in PolicyRows /\ policy \in [Policies -> PolicyRows] /\ PolicyOK(p) /\ now \in Nat
  BY DEF TypeOK, Times
<1>4. policy'[p].releasedAt = req[h].at
  BY <1>1, <1>3 DEF CommitRelease, PolicyRows
<1>5. policy[p].requestedAt # NoTime /\ policy[p].releasesAt = policy[p].requestedAt + Wait
      /\ policy[p].share = config
  BY <1>2, <1>3 DEF PolicyOK, Collectable
<1>6. policy[p].requestedAt + Wait <= now
  <2>1. policy[p].requestedAt \in Nat /\ req[h].at \in Nat
    BY <1>2, <1>3, <1>5 DEF PolicyRows, MaybeTimes, Times
  <2> QED BY <1>2, <1>3, <1>5, <2>1, WaitAssumption DEF Collectable
<1> QED BY <1>2, <1>4, <1>5, <1>6

-----------------------------------------------------------------------------
(* The order of the locks, and why no ring of transactions waits.          *)

\* Whoever replaces the escrow locks the keyset first and the escrow's row when it
\* has every live policy; whoever works on one policy locks nothing else, but for a
\* collection, which takes the escrow's row last and after its question.
InOrder(r) ==
    /\ r = Idle \/ r.op # "none"
    /\ r.op \in Replacing /\ r.held # {} => "keyset" \in r.held
    /\ r.op \in Replacing /\ "config" \in r.held => \A p \in Policies : Live(p) => p \in r.held
    /\ r.op \notin Replacing => r.held \subseteq {r.id, "config"}
    /\ r.op \notin Replacing /\ "config" \in r.held => r.op = "release" /\ r.id \in r.held /\ r.asked

LockOrder == \A h \in Handlers : InOrder(req[h])

LEMMA InitLockOrder == Init => LockOrder
BY DEF Init, LockOrder, InOrder, Idle, Replacing

\* One transaction moves; a policy comes to life only under the escrow's lock.
LEMMA OrderKept ==
    ASSUME EmergencyInv, LockOrder, NEW h \in Handlers, NEW to,
           req' = [req EXCEPT ![h] = to], InOrder(req[h])',
           \A p \in Policies : Live(p)' /\ ~Live(p) => "config" \in req[h].held
    PROVE  LockOrder'
<1> SUFFICES ASSUME NEW g \in Handlers, g # h PROVE InOrder(req[g])'
  BY DEF LockOrder
<1>1. req'[g] = req[g] /\ InOrder(req[g]) /\ req[g].held \cap req[h].held = {}
  BY DEF LockOrder, EmergencyInv, TypeOK, Exclusive
<1>2. "config" \in req[g].held => \A p \in Policies : Live(p)' => Live(p)
  BY <1>1
<1> QED BY <1>1, <1>2 DEF InOrder

LEMMA IdleKeepsOrder ==
    ASSUME EmergencyInv, LockOrder, NEW h \in Handlers, req' = [req EXCEPT ![h] = Idle],
           \A p \in Policies : Live(p)' /\ ~Live(p) => "config" \in req[h].held
    PROVE  LockOrder'
<1>1. req'[h] = Idle
  BY DEF EmergencyInv, TypeOK
<1>2. InOrder(req[h])'
  BY <1>1, IdleTyped DEF InOrder, Replacing
<1> QED BY <1>2, OrderKept

LEMMA NeedsAll ==
    ASSUME NEW r, r.op \in Replacing
    PROVE  Needs(r) = {"keyset", "config"} \cup {p \in Policies : Live(p)}
BY DEF Needs, Replacing

LEMMA AsksKeepsOrder ==
    ASSUME EmergencyInv, LockOrder, NEW h \in Handlers, Asks(h)
    PROVE  LockOrder'
<1>1. PICK op \in Replacing \cup Vetoing \cup Asking : \E id, at : Arrive(h, op, id, at)
  BY DEF Asks, OwnerReplaces, OwnerDecides, GranteeAsks
<1>2. PICK id, at : Arrive(h, op, id, at)
  BY <1>1
<1> DEFINE to == [Idle EXCEPT !.op = op, !.id = id, !.at = at]
<1>3. req' = [req EXCEPT ![h] = to] /\ to.op = op /\ to.held = {} /\ UNCHANGED policy
  BY <1>2 DEF Arrive, Idle, escrow
<1> HIDE DEF to
<1>4. req'[h] = to /\ op # "none"
  BY <1>3 DEF EmergencyInv, TypeOK, Replacing, Vetoing, Asking
<1>5. InOrder(req[h])'
  BY <1>3, <1>4 DEF InOrder
<1> QED BY <1>3, <1>5, OrderKept DEF Live

\* What a transaction may lock next keeps the order.
LEMMA LockInOrder ==
    ASSUME EmergencyInv, LockOrder, NEW h \in Handlers, NEW lock,
           lock \in Missing(req[h]), MayTake(req[h], lock), NEW to,
           to.op = req[h].op, to.id = req[h].id, to.asked = req[h].asked,
           to.held = req[h].held \cup {lock}
    PROVE  InOrder(to)
<1> DEFINE r == req[h]
<1>1. InOrder(r) /\ HandlerOK(h) /\ r \in Requests
  BY DEF LockOrder, EmergencyInv, TypeOK
<1>2. lock \in Needs(r) /\ r.op # "none"
  BY DEF Missing, Needs, Replacing
<1>3. CASE r.op \in Replacing
  <2>1. Needs(r) = {"keyset", "config"} \cup {p \in Policies : Live(p)}
    BY <1>3, NeedsAll
  <2>2. "keyset" \in to.held
    BY <2>1, IdsAssumption DEF MayTake, Missing
  <2>3. "config" \in to.held => \A p \in Policies : Live(p) => p \in to.held
    <3>1. CASE lock = "config"
      <4>1. Missing(r) = {"config"}
        BY <3>1, IdsAssumption DEF MayTake
      <4> QED BY <2>1, <4>1 DEF Missing
    <3> QED BY <1>1, <1>3, <3>1 DEF InOrder
  <2> QED BY <1>2, <1>3, <2>2, <2>3 DEF InOrder
<1>4. CASE r.op \notin Replacing
  <2>1. r.op \in Vetoing \cup Asking /\ r.id \in Policies /\ r.id # "config" /\ r.id # "keyset"
    BY <1>1, <1>2, <1>4, IdsAssumption DEF Requests, HandlerOK
  <2>2. r.op # "release" => Needs(r) = {r.id}
    BY <1>2, <1>4 DEF Needs
  <2>3. r.op = "release" => Needs(r) = {r.id, "config"}
    BY DEF Needs, Replacing
  <2>4. to.held \subseteq {to.id, "config"}
    BY <1>1, <1>2, <1>4, <2>2, <2>3 DEF InOrder
  <2>5. ASSUME "config" \in to.held PROVE to.op = "release" /\ to.id \in to.held /\ to.asked
    <3>1. CASE "config" \in r.held
      BY <1>1, <1>4, <3>1 DEF InOrder
    <3>2. CASE lock = "config"
      <4>1. r.op = "release"
        BY <1>2, <2>1, <2>2, <3>2
      <4>2. Missing(r) = {"config"} /\ ~MustAsk(r)
        BY <3>2, IdsAssumption DEF MayTake
      <4>3. r.id \in r.held
        BY <2>1, <2>3, <4>1, <4>2 DEF Missing
      <4>4. r.asked
        BY <4>1, <4>2 DEF MustAsk, Asking
      <4> QED BY <4>1, <4>3, <4>4
    <3> QED BY <2>5, <3>1, <3>2
  <2> QED BY <1>2, <1>4, <2>4, <2>5 DEF InOrder
<1> QED BY <1>3, <1>4

LEMMA TakeLockKeepsOrder ==
    ASSUME EmergencyInv, LockOrder, NEW h \in Handlers, NEW lock, TakeLock(h, lock)
    PROVE  LockOrder'
<1>1. UNCHANGED policy /\ req[h] \in Requests
  BY DEF TakeLock, escrow, EmergencyInv, TypeOK
<1>2. CASE ~LockAllows(req[h], lock)
  BY <1>1, <1>2, IdleKeepsOrder DEF TakeLock, Live
<1>3. CASE LockAllows(req[h], lock)
  <2> DEFINE to == [req[h] EXCEPT !.held = req[h].held \cup {lock}]
  <2>1. /\ to.op = req[h].op /\ to.id = req[h].id /\ to.asked = req[h].asked
        /\ to.held = req[h].held \cup {lock}
    BY <1>1 DEF Requests
  <2>2. req' = [req EXCEPT ![h] = to]
    BY <1>3 DEF TakeLock
  <2> HIDE DEF to
  <2>3. InOrder(to)
    BY <2>1, LockInOrder DEF TakeLock, Obtainable
  <2>4. req'[h] = to
    BY <2>2 DEF EmergencyInv, TypeOK
  <2>5. InOrder(req[h])'
    BY <1>1, <2>3, <2>4 DEF InOrder, Live
  <2> QED BY <1>1, <2>2, <2>5, OrderKept DEF Live
<1> QED BY <1>2, <1>3

LEMMA AskSettlementKeepsOrder ==
    ASSUME EmergencyInv, LockOrder, NEW h \in Handlers, AskSettlement(h)
    PROVE  LockOrder'
<1>1. UNCHANGED policy /\ req[h] \in Requests /\ InOrder(req[h])
  BY DEF AskSettlement, escrow, EmergencyInv, TypeOK, LockOrder
<1>2. CASE ~permitted
  BY <1>1, <1>2, IdleKeepsOrder DEF AskSettlement, Live
<1>3. CASE permitted
  <2> DEFINE to == [req[h] EXCEPT !.asked = TRUE]
  <2>1. to.op = req[h].op /\ to.id = req[h].id /\ to.asked /\ to.held = req[h].held
    BY <1>1 DEF Requests
  <2>2. req' = [req EXCEPT ![h] = to] /\ req[h].op # "none"
    BY <1>3 DEF AskSettlement, MayAsk, MustAsk, Asking
  <2> HIDE DEF to
  <2>3. req'[h] = to
    BY <2>2 DEF EmergencyInv, TypeOK
  <2>4. InOrder(req[h])'
    BY <1>1, <2>1, <2>2, <2>3 DEF InOrder, Live
  <2> QED BY <1>1, <2>2, <2>4, OrderKept DEF Live
<1> QED BY <1>2, <1>3

LEMMA CommitKeepsOrder ==
    ASSUME EmergencyInv, LockOrder, NEW h \in Handlers,
           \/ \E grantees \in SUBSET Policies : CommitConfigure(h, grantees)
           \/ CommitReset(h) \/ CommitDeny(h) \/ CommitRearm(h) \/ CommitRevoke(h)
           \/ CommitRequest(h) \/ CommitRelease(h) \/ CommitRead(h)
    PROVE  LockOrder'
<1>1. req' = [req EXCEPT ![h] = Idle] /\ Missing(req[h]) = {} /\ policy \in [Policies -> PolicyRows]
  BY DEF CommitConfigure, CommitReset, CommitDeny, CommitRearm, CommitRevoke, CommitRequest,
         CommitRelease, CommitRead, Writing, Ready, EmergencyInv, TypeOK
<1>2. CASE \E grantees \in SUBSET Policies : CommitConfigure(h, grantees)
  <2>1. "config" \in req[h].held
    BY <1>1, <1>2 DEF CommitConfigure, Writing, Missing, Needs, Replacing
  <2> QED BY <1>1, <2>1, IdleKeepsOrder
<1>3. CASE CommitReset(h)
  <2>1. ASSUME NEW p \in Policies, Live(p)' PROVE Live(p)
    BY <1>3, <2>1 DEF CommitReset, Retired, Live, NoPolicy
  <2> QED BY <1>1, <2>1, IdleKeepsOrder
<1>4. CASE \/ CommitDeny(h) \/ CommitRearm(h) \/ CommitRevoke(h)
           \/ CommitRequest(h) \/ CommitRelease(h) \/ CommitRead(h)
  <2>1. req[h].op \in Vetoing \cup Asking
    BY <1>4 DEF CommitDeny, CommitRearm, CommitRevoke, CommitRequest, CommitRelease, CommitRead,
                Writing, Vetoing, Asking
  <2>2. Live(req[h].id)
    BY <1>1, <2>1, HoldsWhatItNeeds
  <2>3. ASSUME NEW p \in Policies, p # req[h].id PROVE policy'[p] = policy[p]
    BY <1>1, <1>4, <2>3 DEF CommitDeny, CommitRearm, CommitRevoke, CommitRequest, MarkRequested,
                            CommitRelease, CommitRead
  <2> QED BY <1>1, <2>2, <2>3, IdleKeepsOrder DEF Live
<1> QED BY <1>2, <1>3, <1>4

LEMMA AlwaysLockOrder == Spec => []LockOrder
<1>1. ASSUME EmergencyInv, LockOrder, [Next]_vars PROVE LockOrder'
  <2>1. ASSUME NEW h \in Handlers, Asks(h) \/ Proceed(h) PROVE LockOrder'
    BY <1>1, <2>1, AsksKeepsOrder, TakeLockKeepsOrder, AskSettlementKeepsOrder, CommitKeepsOrder
       DEF Proceed
  <2>2. ASSUME NEW h \in Handlers, Crash(h) PROVE LockOrder'
    BY <1>1, <2>2, IdleKeepsOrder DEF Crash, escrow, Live
  <2>3. CASE SettlementChanges \/ Tick \/ UNCHANGED vars
    BY <1>1, <2>3 DEF SettlementChanges, Tick, vars, escrow, LockOrder, InOrder, Live
  <2> QED BY <1>1, <2>1, <2>2, <2>3 DEF Next
<1> QED BY <1>1, InitLockOrder, AlwaysEmergencyInv, PTL DEF Spec

\* With the escrow's row free, whoever holds the policy it works on can go on: it
\* asks, takes that row, or commits.
LEMMA HolderProceeds ==
    ASSUME EmergencyInv, NEW h \in Handlers, req[h].op \in Vetoing \cup Asking,
           req[h].id \in req[h].held, Free("config")
    PROVE  CanProceed(req[h])
<1> DEFINE r == req[h]
<1>1. r.op # "none" /\ r.op \notin Replacing
  BY DEF Replacing, Vetoing, Asking
<1>2. Missing(r) \subseteq {"config"}
  BY <1>1 DEF Missing, Needs
<1>3. CASE MustAsk(r)
  BY <1>3 DEF CanProceed, MayAsk
<1>4. CASE ~MustAsk(r) /\ Missing(r) = {}
  BY <1>1, <1>4 DEF CanProceed, Ready
<1>5. CASE ~MustAsk(r) /\ Missing(r) = {"config"}
  BY <1>5 DEF CanProceed, Obtainable, MayTake
<1> QED BY <1>2, <1>3, <1>4, <1>5

\* Whoever holds the escrow's row has all it needs.
LEMMA LastLockIsReady ==
    ASSUME EmergencyInv, LockOrder, NEW h \in Handlers, "config" \in req[h].held
    PROVE  CanProceed(req[h])
<1> DEFINE r == req[h]
<1>1. InOrder(r) /\ r # Idle
  BY IdleTyped DEF LockOrder
<1>2. CASE r.op \in Replacing
  <2>1. Missing(r) = {}
    BY <1>1, <1>2, NeedsAll DEF InOrder, Missing
  <2>2. ~MustAsk(r)
    BY <1>2 DEF MustAsk, Asking, Replacing
  <2> QED BY <1>1, <2>1, <2>2 DEF CanProceed, Ready, InOrder
<1>3. CASE r.op \notin Replacing
  <2>1. r.op = "release" /\ r.id \in r.held /\ r.asked
    BY <1>1, <1>3 DEF InOrder
  <2>2. Missing(r) = {} /\ ~MustAsk(r)
    BY <2>1 DEF Missing, Needs, Replacing, MustAsk
  <2> QED BY <2>1, <2>2 DEF CanProceed, Ready
<1> QED BY <1>2, <1>3

\* Otherwise who holds a policy either replaces the escrow, under the keyset's lock,
\* or can go on.
LEMMA PolicyHeld ==
    ASSUME EmergencyInv, LockOrder, Free("config"), NEW p \in Policies, ~Free(p)
    PROVE  \E h \in Handlers :
              \/ CanProceed(req[h])
              \/ req[h].op \in Replacing /\ "keyset" \in req[h].held /\ p \in req[h].held
<1>1. PICK h \in Handlers : p \in req[h].held
  BY DEF Free
<1>2. InOrder(req[h]) /\ HandlerOK(h) /\ req[h] \in Requests
  BY DEF LockOrder, EmergencyInv, TypeOK
<1>3. CASE req[h].op \in Replacing
  BY <1>1, <1>2, <1>3 DEF InOrder
<1>4. CASE req[h].op \notin Replacing
  <2>1. p = req[h].id
    BY <1>1, <1>2, <1>4, IdsAssumption DEF InOrder
  <2>2. req[h].op # "none"
    BY <1>1, <1>2 DEF HandlerOK
  <2>3. req[h].op \in Vetoing \cup Asking
    BY <1>2, <1>4, <2>2 DEF Requests
  <2> QED BY <1>1, <2>1, <2>3, HolderProceeds
<1> QED BY <1>3, <1>4

\* The transaction that holds the keyset waits for a policy only while the holder of
\* that policy can go on, and for the escrow's row not at all.
LEMMA KeysetHolderProceeds ==
    ASSUME EmergencyInv, LockOrder, Free("config"), NEW h \in Handlers, "keyset" \in req[h].held
    PROVE  \E g \in Handlers : CanProceed(req[g])
<1> DEFINE r == req[h]
<1>1. InOrder(r) /\ HandlerOK(h) /\ r \in Requests
  BY DEF LockOrder, EmergencyInv, TypeOK
<1>2. r.op \in Replacing
  <2>1. SUFFICES ASSUME r.op \notin Replacing PROVE FALSE
    OBVIOUS
  <2>2. r.id = "keyset" /\ r.op # "none"
    BY <1>1, <2>1 DEF InOrder, HandlerOK
  <2>3. r.id \in Policies
    BY <1>1, <2>1, <2>2 DEF Requests, HandlerOK
  <2> QED BY <2>2, <2>3, IdsAssumption
<1>3. Missing(r) \subseteq Policies \cup {"config"} /\ "config" \in Missing(r)
  BY <1>2, NeedsAll DEF Missing, Free
<1>4. CASE Missing(r) = {"config"}
  <2>1. ~MustAsk(r)
    BY <1>2 DEF MustAsk, Asking, Replacing
  <2> QED BY <1>4, <2>1 DEF CanProceed, Obtainable, MayTake
<1>5. ASSUME NEW p \in Policies, p \in Missing(r) PROVE \E g \in Handlers : CanProceed(req[g])
  <2>1. "keyset" \notin Missing(r)
    BY DEF Missing
  <2>2. CASE Free(p)
    BY <1>5, <2>1, <2>2 DEF CanProceed, Obtainable, MayTake
  <2>3. CASE ~Free(p)
    <3>1. PICK g \in Handlers :
              \/ CanProceed(req[g])
              \/ req[g].op \in Replacing /\ "keyset" \in req[g].held /\ p \in req[g].held
      BY <2>3, PolicyHeld
    <3>2. CASE p \in req[g].held /\ "keyset" \in req[g].held
      <4>1. g # h
        BY <1>5, <3>2 DEF Missing
      <4> QED BY <3>2, <4>1 DEF EmergencyInv, Exclusive
    <3> QED BY <3>1, <3>2
  <2> QED BY <2>2, <2>3
<1> QED BY <1>3, <1>4, <1>5

LEMMA SomeoneProceeds == EmergencyInv /\ LockOrder => NeverStuck
<1> SUFFICES ASSUME EmergencyInv, LockOrder, NEW h \in Handlers, req[h] # Idle
             PROVE  \E g \in Handlers : CanProceed(req[g])
  BY DEF NeverStuck
<1>1. CASE ~Free("config")
  BY <1>1, LastLockIsReady DEF Free
<1>2. CASE Free("config") /\ ~Free("keyset")
  BY <1>2, KeysetHolderProceeds DEF Free
<1>3. CASE Free("config") /\ Free("keyset")
  <2> DEFINE r == req[h]
  <2>1. InOrder(r) /\ HandlerOK(h) /\ r \in Requests /\ r.op # "none"
    BY DEF LockOrder, InOrder, EmergencyInv, TypeOK
  <2>2. CASE r.op \in Replacing
    <3>1. "keyset" \in Missing(r)
      BY <1>3, <2>2, NeedsAll DEF Missing, Free
    <3> QED BY <1>3, <3>1 DEF CanProceed, Obtainable, MayTake
  <2>3. CASE r.op \notin Replacing
    <3>1. r.op \in Vetoing \cup Asking /\ r.id \in Policies
      BY <2>1, <2>3 DEF Requests, HandlerOK
    <3>2. CASE r.id \in r.held
      BY <1>3, <3>1, <3>2, HolderProceeds
    <3>3. CASE ~Free(r.id)
      BY <1>3, <3>1, <3>3, PolicyHeld DEF Free
    <3>4. CASE r.id \notin r.held /\ Free(r.id)
      <4>1. r.id \in Missing(r) /\ "keyset" \notin Missing(r)
        BY <2>3, <3>1, <3>4, IdsAssumption DEF Missing, Needs, Vetoing, Asking
      <4> QED BY <3>1, <3>4, <4>1 DEF CanProceed, Obtainable, MayTake
    <3> QED BY <3>2, <3>3, <3>4
  <2> QED BY <2>2, <2>3
<1> QED BY <1>1, <1>2, <1>3

-----------------------------------------------------------------------------
(* Theorems.                                                               *)

\* Every variable stays in its domain, and a policy that waits has its deadline.
THEOREM TypeCorrect == Spec => []TypeOK
BY AlwaysEmergencyInv, PTL DEF EmergencyInv

\* The owner is told at most once of the reads that follow one collection
\* (hasNotifiedSince and the notice of readAsGrantee).
THEOREM ToldOnceHolds == Spec => []ToldOnce
<1>1. EmergencyInv => ToldOnce
  BY DEF EmergencyInv, PolicyOK, ToldOnce
<1> QED BY <1>1, AlwaysEmergencyInv, PTL

\* A collection hands out two halves of one configuration, however configure,
\* reset and release interleave (releaseAsGrantee).
THEOREM OneEscrowHolds == Spec => OneEscrow
<1>1. EmergencyInv /\ [Next]_vars =>
          [\A p \in Policies : Collected(p) => policy[p].share = config]_vars
  BY CollectedIsDue
<1> QED BY <1>1, AlwaysEmergencyInv, PTL DEF Spec, OneEscrow

\* The owner had the whole waiting period, of the request that still stands, to
\* object to whatever is collected (requestAccess, releaseAsGrantee).
THEOREM CollectedAfterWaitHolds == Spec => CollectedAfterWait
<1>1. EmergencyInv /\ [Next]_vars =>
          [\A p \in Policies : Collected(p) =>
              /\ policy[p].requestedAt # NoTime
              /\ policy[p].requestedAt + Wait <= now]_vars
  BY CollectedIsDue
<1> QED BY <1>1, AlwaysEmergencyInv, PTL DEF Spec, CollectedAfterWait

\* Whoever comes to collect after the estate entered settlement gets nothing,
\* though the answer may be stale when the collection commits
\* (assertSettlementPermits).
THEOREM SettlementComesFirstHolds == Spec => SettlementComesFirst
<1>1. EmergencyInv /\ [Next]_vars =>
          [\A p \in Policies :
              Collected(p) /\ ~permitted => policy'[p].releasedAt <= refusedAt]_vars
  BY CollectedIsDue
<1> QED BY <1>1, AlwaysEmergencyInv, PTL DEF Spec, SettlementComesFirst

\* No number of configures, resets, decisions, requests, collections and reads ever
\* waits in a ring: some open transaction finds the guards of its next statement true
\* (configure, VaultService.reset, requireOwnerPolicy, requireGranteePolicy, release).
THEOREM NeverStuckHolds == Spec => []NeverStuck
BY SomeoneProceeds, AlwaysEmergencyInv, AlwaysLockOrder, PTL
=============================================================================
