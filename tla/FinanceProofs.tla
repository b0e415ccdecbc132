---------------------------- MODULE FinanceProofs -----------------------------
(* What holds of PlaidSync and of AssetLedger for every value of their       *)
(* constants: any number of items, assets, requests in flight, changes and   *)
(* events.                                                                   *)
EXTENDS PlaidSync, AssetLedger, SequenceTheorems, WellFoundedInduction, TLAPS

-----------------------------------------------------------------------------
(* The inductive invariant.                                                *)

\* The row's status is the last that was committed; a revoked item has no live
\* account, and no other was ever revoked.
ItemOK(i) ==
    /\ item[i] = "absent" => changes[i] = <<>>
    /\ item[i] # "absent" => changes[i] # <<>> /\ item[i] = changes[i][Len(changes[i])]
    /\ item[i] = "revoked" => ~account[i].live
    /\ item[i] # "revoked" => \A n \in 1 .. Len(changes[i]) : changes[i][n] # "revoked"

\* A handler in a transaction locked the item first, and it is as it was then; one
\* that is about to file a change knows what it replaced, and nobody filed it.
RequestOK(r) ==
    /\ req[r].op # "none" => req[r].id \in Items
    /\ req[r].step \in {"call", "write", "file"} => req[r].op # "none"
    /\ req[r].held # {} =>
          /\ req[r].step = "write" /\ "item" \in req[r].held
          /\ Live(req[r].id) /\ req[r].prior = item[req[r].id]
    /\ req[r].step = "file" =>
          /\ req[r].change \in 2 .. Len(changes[req[r].id])
          /\ req[r].prior = changes[req[r].id][req[r].change - 1]
          /\ \A f \in filed : f.id = req[r].id => f.change # req[r].change

\* One transaction at a time has the item, and each change has one handler to file it.
Apart(q, r) ==
    req[q].id = req[r].id =>
        /\ req[q].held = {} \/ req[r].held = {}
        /\ req[q].step = "file" /\ req[r].step = "file" => req[q].change # req[r].change

PlaidInv ==
    /\ TypeOK
    /\ \A i \in Items : ItemOK(i)
    /\ \A r \in Requests : RequestOK(r)
    /\ \A q, r \in Requests : q # r => Apart(q, r)
    /\ EdgesTrue

LEMMA FreeTyped ==
    /\ Free \in RequestStates /\ Free.op = "none" /\ Free.step = "idle" /\ Free.held = {}
BY PlaidAssumption DEF Free, RequestStates, Statuses

LEMMA InitPlaidInv == Init => PlaidInv
<1> SUFFICES ASSUME Init PROVE PlaidInv
  OBVIOUS
<1>1. TypeOK
  <2>1. NoAccount \in [live : BOOLEAN, balance : 0 .. MaxBalance] /\ world \in 0 .. MaxBalance
    BY PlaidAssumption DEF Init, NoAccount
  <2> QED BY <2>1, FreeTyped DEF Init, TypeOK, Statuses
<1>2. ASSUME NEW i \in Items PROVE ItemOK(i)
  BY DEF Init, ItemOK
<1>3. ASSUME NEW r \in Requests PROVE RequestOK(r)
  BY FreeTyped DEF Init, RequestOK
<1>4. ASSUME NEW q \in Requests, NEW r \in Requests PROVE Apart(q, r)
  BY FreeTyped DEF Init, Apart
<1>5. EdgesTrue
  BY DEF Init, EdgesTrue
<1> QED BY <1>1, <1>2, <1>3, <1>4, <1>5 DEF PlaidInv

-----------------------------------------------------------------------------
(* Steps that commit nothing.                                              *)

LEMMA RequestMoves ==
    ASSUME PlaidInv, NEW r \in Requests, NEW to \in RequestStates,
           req' = [req EXCEPT ![r] = to],
           UNCHANGED <<item, account, world, changes, filed>>,
           remote' \in [Items -> {"absent", "valid", "removed"}],
           to.step # "file", RequestOK(r)',
           to.held # {} => \A q \in Requests \ {r} : req[q].id = to.id => req[q].held = {}
    PROVE  PlaidInv'
<1> USE DEF PlaidInv
<1>1. /\ req' \in [Requests -> RequestStates]
      /\ \A q \in Requests : req'[q] = IF q = r THEN to ELSE req[q]
  BY DEF TypeOK
<1>2. TypeOK' /\ EdgesTrue'
  BY <1>1 DEF TypeOK, EdgesTrue
<1>3. ASSUME NEW i \in Items PROVE ItemOK(i)'
  BY DEF ItemOK
<1>4. ASSUME NEW q \in Requests \ {r} PROVE RequestOK(q)'
  BY <1>1 DEF RequestOK, Live
<1>5. ASSUME NEW p \in Requests, NEW q \in Requests, p # q PROVE Apart(p, q)'
  BY <1>1, <1>5 DEF Apart
<1> QED BY <1>2, <1>3, <1>4, <1>5

LEMMA FailsStep ==
    ASSUME PlaidInv, NEW r \in Requests, req' = [req EXCEPT ![r] = Free],
           UNCHANGED <<item, account, remote, world, changes, filed>>
    PROVE  PlaidInv'
<1>1. req'[r] = Free /\ remote' \in [Items -> {"absent", "valid", "removed"}]
  BY DEF PlaidInv, TypeOK
<1>2. RequestOK(r)'
  BY <1>1, FreeTyped DEF RequestOK
<1> QED BY <1>1, <1>2, FreeTyped, RequestMoves

LEMMA ArriveStep ==
    ASSUME PlaidInv, NEW r \in Requests, NEW op \in {"sync", "login_required", "revoke"},
           NEW i \in Items, Arrive(r, op, i)
    PROVE  PlaidInv'
<1>1. PICK step \in {"write", "call"}, seen \in Statuses :
          /\ req' = [req EXCEPT ![r] = [Free EXCEPT !.op = op, !.id = i, !.seen = seen, !.step = step]]
          /\ UNCHANGED <<item, account, remote, world, changes, filed>>
  BY DEF Arrive, PlaidInv, TypeOK
<1> DEFINE to == [Free EXCEPT !.op = op, !.id = i, !.seen = seen, !.step = step]
<1>2. to \in RequestStates
  BY FreeTyped DEF RequestStates
<1>3. to.op = op /\ to.id = i /\ to.held = {} /\ to.step = step
  BY DEF Free
<1>4. req' = [req EXCEPT ![r] = to]
  BY <1>1
<1> HIDE DEF to
<1>5. req'[r] = to /\ remote' \in [Items -> {"absent", "valid", "removed"}]
  BY <1>1, <1>4 DEF PlaidInv, TypeOK
<1>6. RequestOK(r)'
  BY <1>3, <1>5 DEF RequestOK
<1> QED BY <1>1, <1>2, <1>3, <1>4, <1>5, <1>6, RequestMoves

\* The provider was asked, and the transaction may begin.
LEMMA ProviderAnswered ==
    ASSUME PlaidInv, NEW r \in Requests, req[r].step = "call",
           NEW op \in {req[r].op, "error"}, NEW balance \in {req[r].balance, world},
           req' = [req EXCEPT ![r] = [req[r] EXCEPT !.step = "write", !.op = op, !.balance = balance]],
           UNCHANGED <<item, account, world, changes, filed>>,
           remote' \in [Items -> {"absent", "valid", "removed"}]
    PROVE  PlaidInv'
<1> DEFINE to == [req[r] EXCEPT !.step = "write", !.op = op, !.balance = balance]
<1>1. req[r] \in RequestStates /\ RequestOK(r) /\ world \in 0 .. MaxBalance
  BY DEF PlaidInv, TypeOK
<1>2. req[r].held = {} /\ req[r].op # "none" /\ req[r].id \in Items
  BY <1>1 DEF RequestOK
<1>3. /\ to \in RequestStates /\ to.op = op /\ to.id = req[r].id /\ to.held = {} /\ to.step = "write"
  BY <1>1, <1>2 DEF RequestStates
<1> HIDE DEF to
<1>4. req' = [req EXCEPT ![r] = to]
  BY DEF to
<1>5. req'[r] = to
  BY <1>4 DEF PlaidInv, TypeOK
<1>6. RequestOK(r)'
  BY <1>2, <1>3, <1>5 DEF RequestOK
<1> QED BY <1>3, <1>4, <1>6, RequestMoves

LEMMA SyncAccountsStep ==
    ASSUME PlaidInv, NEW r \in Requests, SyncAccounts(r)
    PROVE  PlaidInv'
<1>1. /\ req[r].step = "call" /\ req[r] \in RequestStates /\ req \in [Requests -> RequestStates]
      /\ UNCHANGED <<item, account, world, changes, filed>>
      /\ remote' \in [Items -> {"absent", "valid", "removed"}]
  BY DEF SyncAccounts, PlaidInv, TypeOK
<1>2. CASE req' = [req EXCEPT ![r].step = "write", ![r].balance = world]
  <2>1. req' = [req EXCEPT ![r] = [req[r] EXCEPT !.step = "write", !.op = req[r].op, !.balance = world]]
    BY <1>1, <1>2 DEF RequestStates
  <2> QED BY <1>1, <2>1, ProviderAnswered
<1>3. CASE req' = [req EXCEPT ![r].step = "write", ![r].op = "error"]
  <2>1. req' = [req EXCEPT ![r] = [req[r] EXCEPT !.step = "write", !.op = "error", !.balance = req[r].balance]]
    BY <1>1, <1>3 DEF RequestStates
  <2> QED BY <1>1, <2>1, ProviderAnswered
<1> QED BY <1>2, <1>3 DEF SyncAccounts

LEMMA RemoveItemStep ==
    ASSUME PlaidInv, NEW r \in Requests, RemoveItem(r)
    PROVE  PlaidInv'
<1>1. /\ req[r].step = "call" /\ req[r] \in RequestStates /\ req \in [Requests -> RequestStates]
      /\ UNCHANGED <<item, account, world, changes, filed>>
      /\ req' = [req EXCEPT ![r].step = "write"]
  BY DEF RemoveItem, PlaidInv, TypeOK
<1>2. remote' \in [Items -> {"absent", "valid", "removed"}]
  BY DEF RemoveItem, PlaidInv, TypeOK
<1>3. req' = [req EXCEPT ![r] = [req[r] EXCEPT !.step = "write", !.op = req[r].op, !.balance = req[r].balance]]
  BY <1>1 DEF RequestStates
<1> QED BY <1>1, <1>2, <1>3, ProviderAnswered

\* The item's row is read under its lock, and nobody else has it.
LEMMA TakeLockStep ==
    ASSUME PlaidInv, NEW r \in Requests, TakeLock(r)
    PROVE  PlaidInv'
<1> USE DEF PlaidInv
<1>1. /\ req[r] \in RequestStates /\ RequestOK(r) /\ req[r].step = "write"
      /\ req[r].op # "none" /\ req[r].id \in Items /\ item[req[r].id] \in Statuses
      /\ UNCHANGED <<item, account, world, changes, filed>>
      /\ remote' \in [Items -> {"absent", "valid", "removed"}]
  BY DEF TakeLock, RequestOK, TypeOK
<1>2. CASE NextLock(r) = "accounts"
  <2> DEFINE to == [req[r] EXCEPT !.held = req[r].held \cup {"accounts"}]
  <2>1. /\ to \in RequestStates /\ to.op = req[r].op /\ to.id = req[r].id /\ to.step = "write"
        /\ to.prior = req[r].prior /\ to.held = req[r].held \cup {"accounts"}
    BY <1>1 DEF RequestStates
  <2>2. req' = [req EXCEPT ![r] = to] /\ "item" \in req[r].held
    BY <1>2 DEF TakeLock, NextLock
  <2> HIDE DEF to
  <2>3. req'[r] = to
    BY <2>2 DEF TypeOK
  <2>4. RequestOK(r)'
    BY <1>1, <2>1, <2>2, <2>3 DEF RequestOK, Live
  <2>5. \A q \in Requests \ {r} : req[q].id = to.id => req[q].held = {}
    BY <2>1, <2>2 DEF Apart
  <2> QED BY <1>1, <2>1, <2>2, <2>4, <2>5, RequestMoves
<1>3. CASE NextLock(r) # "accounts" /\ Found(r)
  <2> DEFINE to == [req[r] EXCEPT !.held = req[r].held \cup {"item"}, !.prior = item[req[r].id]]
  <2>1. /\ to \in RequestStates /\ to.op = req[r].op /\ to.id = req[r].id /\ to.step = "write"
        /\ to.prior = item[req[r].id] /\ to.held = req[r].held \cup {"item"}
    BY <1>1 DEF RequestStates
  <2>2. req' = [req EXCEPT ![r] = to] /\ Unlocked("item", req[r].id)
    BY <1>1, <1>3 DEF TakeLock, NextLock, Prior, TypeOK
  <2> HIDE DEF to
  <2>3. req'[r] = to
    BY <2>2 DEF TypeOK
  <2>4. RequestOK(r)'
    BY <1>1, <1>3, <2>1, <2>3 DEF RequestOK, Live, Found
  <2>5. \A q \in Requests \ {r} : req[q].id = to.id => req[q].held = {}
    BY <2>1, <2>2 DEF Unlocked, RequestOK
  <2> QED BY <1>1, <2>1, <2>2, <2>4, <2>5, RequestMoves
<1>4. CASE NextLock(r) # "accounts" /\ ~Found(r)
  BY <1>4, FailsStep DEF TakeLock
<1> QED BY <1>2, <1>3, <1>4

-----------------------------------------------------------------------------
(* Steps that commit.                                                      *)

\* Only an item that was never there can be linked: none of its changes is in flight.
LEMMA LinkItemStep ==
    ASSUME PlaidInv, NEW i \in Items, LinkItem(i)
    PROVE  PlaidInv'
<1> USE DEF PlaidInv
<1>1. /\ item[i] = "absent" /\ item' = [item EXCEPT ![i] = "healthy"]
      /\ remote' = [remote EXCEPT ![i] = "valid"]
      /\ changes' = [changes EXCEPT ![i] = <<"healthy">>]
      /\ UNCHANGED <<account, world, req, filed>>
  BY DEF LinkItem
<1>2. <<"healthy">> \in Seq(Statuses) /\ Len(<<"healthy">>) = 1 /\ <<"healthy">>[1] = "healthy"
      /\ <<"healthy">> # <<>>
  BY DEF Statuses
<1>3. /\ item'[i] = "healthy" /\ changes'[i] = <<"healthy">>
      /\ \A j \in Items \ {i} : item'[j] = item[j] /\ changes'[j] = changes[j]
  BY <1>1 DEF TypeOK
<1>4. TypeOK'
  BY <1>1, <1>2 DEF TypeOK, Statuses
<1>5. ASSUME NEW j \in Items PROVE ItemOK(j)'
  <2>1. CASE j = i
    BY <1>2, <1>3, <2>1 DEF ItemOK
  <2>2. CASE j # i
    BY <1>1, <1>3, <2>2 DEF ItemOK
  <2> QED BY <2>1, <2>2
<1>6. Len(changes[i]) = 0
  BY <1>1 DEF ItemOK
<1>7. ASSUME NEW r \in Requests PROVE RequestOK(r)'
  <2>1. RequestOK(r)
    OBVIOUS
  <2>2. CASE req[r].id = i
    <3>1. req[r].held = {}
      BY <1>1, <2>1, <2>2 DEF RequestOK, Live
    <3>2. req[r].step # "file"
      BY <1>6, <2>1, <2>2 DEF RequestOK
    <3> QED BY <1>1, <2>1, <3>1, <3>2 DEF RequestOK
  <2>3. CASE req[r].id # i
    <3>1. req[r].op # "none" => item'[req[r].id] = item[req[r].id] /\ changes'[req[r].id] = changes[req[r].id]
      BY <1>3, <2>1, <2>3 DEF RequestOK
    <3>2. (req[r].held # {} \/ req[r].step = "file") => req[r].op # "none"
      BY <2>1 DEF RequestOK
    <3> QED BY <1>1, <2>1, <3>1, <3>2 DEF RequestOK, Live
  <2> QED BY <2>2, <2>3
<1>8. \A q, r \in Requests : q # r => Apart(q, r)'
  BY <1>1 DEF Apart
<1>9. EdgesTrue'
  <2>1. \A f \in filed : f.id \in Items /\ f.id # i
    BY <1>6 DEF EdgesTrue, TypeOK
  <2> QED BY <1>1, <1>3, <2>1 DEF EdgesTrue
<1> QED BY <1>4, <1>5, <1>7, <1>8, <1>9

\* What a transaction that commits holds.
LEMMA CommitFinds ==
    ASSUME PlaidInv, NEW r \in Requests, Commit(r)
    PROVE  /\ req[r] \in RequestStates /\ req[r].id \in Items /\ req[r].op # "none"
           /\ req[r].held # {} /\ Live(req[r].id) /\ req[r].prior = item[req[r].id]
           /\ \A q \in Requests \ {r} : req[q].id = req[r].id => req[q].held = {}
<1> USE DEF PlaidInv
<1>1. req[r].held # {}
  BY DEF Commit, Needs
<1>2. RequestOK(r) /\ req[r] \in RequestStates
  BY DEF TypeOK
<1>3. req[r].op # "none" /\ req[r].id \in Items /\ Live(req[r].id) /\ req[r].prior = item[req[r].id]
  BY <1>1, <1>2 DEF RequestOK
<1> QED BY <1>1, <1>2, <1>3 DEF Apart

LEMMA CommitStep ==
    ASSUME PlaidInv, NEW r \in Requests, Commit(r)
    PROVE  PlaidInv'
<1> USE DEF PlaidInv
<1>1. PICK i \in Items, status \in Statuses \ {"absent"} :
          i = req[r].id /\ status = NewStatus(req[r].op)
  BY CommitFinds DEF NewStatus, RequestStates, Statuses
<1>2. PICK n \in Nat : n = Len(changes[i])
  BY DEF TypeOK
<1>0. PICK next \in Nat : next = n + 1
  OBVIOUS
<1> DEFINE to == [req[r] EXCEPT !.step = "file", !.held = {}, !.change = next]
<1>3. /\ item' = [item EXCEPT ![i] = status]
      /\ account' = [account EXCEPT ![i] = Written(r)]
      /\ changes' = [changes EXCEPT ![i] = Append(changes[i], status)]
      /\ UNCHANGED <<remote, world, filed>>
  BY <1>1 DEF Commit
<1>4. req' = [req EXCEPT ![r] = to]
  BY <1>0, <1>1, <1>2 DEF Commit, TypeOK
<1>5. /\ req[r] \in RequestStates /\ req[r].op # "none" /\ Live(i) /\ req[r].prior = item[i]
      /\ \A q \in Requests \ {r} : req[q].id = i => req[q].held = {}
  BY <1>1, CommitFinds
<1>6. /\ to \in RequestStates /\ to.op = req[r].op /\ to.id = i /\ to.held = {} /\ to.step = "file"
      /\ to.change = next /\ to.prior = req[r].prior
  BY <1>1, <1>5 DEF RequestStates
<1> HIDE DEF to
<1>7. /\ req' \in [Requests -> RequestStates] /\ req'[r] = to
      /\ \A q \in Requests \ {r} : req'[q] = req[q]
  BY <1>4, <1>6 DEF TypeOK
<1>8. /\ item[i] \notin {"absent", "revoked"} /\ n >= 1 /\ item[i] = changes[i][n]
      /\ \A m \in 1 .. n : changes[i][m] # "revoked"
  BY <1>2, <1>5 DEF Live, ItemOK, TypeOK
<1>9. /\ Append(changes[i], status) \in Seq(Statuses)
      /\ Len(Append(changes[i], status)) = n + 1
      /\ Append(changes[i], status)[n + 1] = status
      /\ \A m \in 1 .. n : Append(changes[i], status)[m] = changes[i][m]
  BY <1>2 DEF TypeOK
<1>10. /\ item'[i] = status /\ account'[i] = Written(r)
       /\ changes'[i] = Append(changes[i], status)
       /\ \A j \in Items \ {i} : item'[j] = item[j] /\ account'[j] = account[j] /\ changes'[j] = changes[j]
  BY <1>3 DEF TypeOK
<1>11. TypeOK'
  <2>1. Written(r) \in [live : BOOLEAN, balance : 0 .. MaxBalance]
    <3>1. account[i] \in [live : BOOLEAN, balance : 0 .. MaxBalance]
      BY DEF TypeOK
    <3>2. req[r].balance \in 0 .. MaxBalance
      BY <1>5 DEF RequestStates
    <3> QED BY <1>1, <3>1, <3>2 DEF Written
  <2> QED BY <1>3, <1>7, <1>9, <2>1 DEF TypeOK
<1>12. ASSUME NEW j \in Items PROVE ItemOK(j)'
  <2>1. CASE j # i
    BY <1>10, <2>1 DEF ItemOK
  <2>2. CASE j = i
    <3>1. changes'[j] # <<>> /\ item'[j] = changes'[j][Len(changes'[j])] /\ item'[j] # "absent"
      BY <1>9, <1>10, <2>2
    <3>2. item'[j] = "revoked" => ~account'[j].live
      <4>1. CASE status = "revoked"
        <5>1. req[r].op = "revoke"
          BY <1>1, <4>1, <1>5 DEF NewStatus, RequestStates
        <5>2. account[i] \in [live : BOOLEAN, balance : 0 .. MaxBalance]
          BY DEF TypeOK
        <5> QED BY <1>1, <1>10, <2>2, <5>1, <5>2 DEF Written
      <4> QED BY <1>10, <2>2, <4>1
    <3>3. item'[j] # "revoked" => \A m \in 1 .. Len(changes'[j]) : changes'[j][m] # "revoked"
      <4>1. \A m \in 1 .. n + 1 : m \in 1 .. n \/ m = n + 1
        OBVIOUS
      <4> QED BY <1>8, <1>9, <1>10, <2>2, <4>1
    <3> QED BY <3>1, <3>2, <3>3 DEF ItemOK
  <2> QED BY <2>1, <2>2
<1>13. \A f \in filed : f.id = i => f.change \in 2 .. n
  BY <1>2 DEF EdgesTrue
<1>14. RequestOK(r)'
  <2>1. n + 1 \in 2 .. Len(changes'[i]) /\ req[r].prior = changes'[i][n]
    BY <1>5, <1>8, <1>9, <1>10
  <2>2. \A f \in filed' : f.id = i => f.change # n + 1
    BY <1>3, <1>13
  <2>3. (n + 1) - 1 = n
    OBVIOUS
  <2> QED BY <1>0, <1>5, <1>6, <1>7, <2>1, <2>2, <2>3 DEF RequestOK
<1>15. ASSUME NEW q \in Requests \ {r} PROVE RequestOK(q)'
  <2>1. RequestOK(q) /\ req'[q] = req[q]
    BY <1>7
  <2>2. CASE req[q].id = i
    <3>1. req[q].held = {}
      BY <1>5, <2>2
    <3>2. ASSUME req[q].step = "file"
          PROVE  /\ req[q].change \in 2 .. Len(changes'[i])
                 /\ req[q].prior = changes'[i][req[q].change - 1]
      <4>1. req[q].change \in 2 .. n /\ req[q].prior = changes[i][req[q].change - 1]
        BY <1>2, <2>1, <2>2, <3>2 DEF RequestOK
      <4>2. req[q].change - 1 \in 1 .. n /\ req[q].change \in 2 .. n + 1
        BY <4>1
      <4> QED BY <1>9, <1>10, <4>1, <4>2
    <3> QED BY <1>3, <2>1, <2>2, <3>1, <3>2 DEF RequestOK
  <2>3. CASE req[q].id # i
    <3>1. req[q].op # "none" => item'[req[q].id] = item[req[q].id] /\ changes'[req[q].id] = changes[req[q].id]
      BY <1>10, <2>1, <2>3 DEF RequestOK
    <3>2. (req[q].held # {} \/ req[q].step = "file") => req[q].op # "none"
      BY <2>1 DEF RequestOK
    <3> QED BY <1>3, <2>1, <3>1, <3>2 DEF RequestOK, Live
  <2> QED BY <2>2, <2>3
<1>16. ASSUME NEW p \in Requests, NEW q \in Requests, p # q PROVE Apart(p, q)'
  <2>1. \A s \in Requests \ {r} : req[s].id = i /\ req[s].step = "file" => req[s].change \in 2 .. n
    BY <1>2 DEF RequestOK
  <2>2. CASE p = r
    BY <1>0, <1>6, <1>7, <1>16, <2>1, <2>2 DEF Apart
  <2>3. CASE q = r
    BY <1>0, <1>6, <1>7, <1>16, <2>1, <2>3 DEF Apart
  <2>4. CASE p # r /\ q # r
    BY <1>7, <1>16, <2>4 DEF Apart
  <2> QED BY <2>2, <2>3, <2>4
<1>17. EdgesTrue'
  <2>1. ASSUME NEW f \in filed
        PROVE  f.change \in 2 .. Len(changes'[f.id]) /\ f.from = changes'[f.id][f.change - 1]
    <3>1. f.id \in Items /\ f.change \in 2 .. Len(changes[f.id]) /\ f.from = changes[f.id][f.change - 1]
      BY DEF EdgesTrue, TypeOK
    <3>2. CASE f.id = i
      <4>1. f.change \in 2 .. n /\ f.change - 1 \in 1 .. n /\ f.change \in 2 .. n + 1
        BY <1>2, <3>1, <3>2
      <4> QED BY <1>9, <1>10, <3>1, <3>2, <4>1
    <3>3. CASE f.id # i
      BY <1>10, <3>1, <3>3
    <3> QED BY <3>2, <3>3
  <2> QED BY <1>3, <2>1 DEF EdgesTrue
<1> QED BY <1>11, <1>12, <1>14, <1>15, <1>16, <1>17

LEMMA FileStep ==
    ASSUME PlaidInv, NEW r \in Requests, File(r)
    PROVE  PlaidInv'
<1> USE DEF PlaidInv
<1> DEFINE new == [id |-> req[r].id, change |-> req[r].change, from |-> req[r].prior]
<1>1. /\ req' = [req EXCEPT ![r] = Free] /\ filed' = filed \cup {new}
      /\ UNCHANGED <<item, account, remote, world, changes>>
  BY DEF File, Finish
<1>2. /\ req[r] \in RequestStates /\ req[r].id \in Items /\ req[r].step = "file"
      /\ req[r].change \in 2 .. Len(changes[req[r].id])
      /\ req[r].prior = changes[req[r].id][req[r].change - 1]
      /\ \A f \in filed : f.id = req[r].id => f.change # req[r].change
  BY DEF File, RequestOK, TypeOK
<1>3. /\ new.id = req[r].id /\ new.change = req[r].change /\ new.from = req[r].prior
      /\ new \in [id : Items, change : Nat, from : Statuses]
  BY <1>2 DEF RequestStates
<1> HIDE DEF new
<1>4. /\ req' \in [Requests -> RequestStates] /\ req'[r] = Free
      /\ \A q \in Requests \ {r} : req'[q] = req[q]
  BY <1>1, FreeTyped DEF TypeOK
<1>5. TypeOK'
  BY <1>1, <1>3, <1>4 DEF TypeOK
<1>6. ASSUME NEW i \in Items PROVE ItemOK(i)'
  BY <1>1 DEF ItemOK
<1>7. ASSUME NEW q \in Requests PROVE RequestOK(q)'
  <2>1. CASE q = r
    BY <1>4, <2>1, FreeTyped DEF RequestOK
  <2>2. CASE q # r
    <3>1. RequestOK(q) /\ req'[q] = req[q]
      BY <1>4, <2>2
    <3>2. req[q].id = req[r].id /\ req[q].step = "file" => req[q].change # req[r].change
      BY <1>2, <2>2 DEF Apart
    <3>3. req[q].step = "file" => \A f \in filed' : f.id = req[q].id => f.change # req[q].change
      BY <1>1, <1>3, <3>1, <3>2 DEF RequestOK
    <3> QED BY <1>1, <3>1, <3>3 DEF RequestOK, Live
  <2> QED BY <2>1, <2>2
<1>8. ASSUME NEW p \in Requests, NEW q \in Requests, p # q PROVE Apart(p, q)'
  BY <1>4, <1>8, FreeTyped DEF Apart
<1>9. EdgesTrue'
  BY <1>1, <1>2, <1>3 DEF EdgesTrue
<1> QED BY <1>5, <1>6, <1>7, <1>8, <1>9

-----------------------------------------------------------------------------
(* Every step, and the theorems.                                           *)

LEMMA NextPlaidInv == PlaidInv /\ [Next]_vars => PlaidInv'
<1> SUFFICES ASSUME PlaidInv, [Next]_vars PROVE PlaidInv'
  OBVIOUS
<1>1. ASSUME NEW i \in Items, LinkItem(i) PROVE PlaidInv'
  BY <1>1, LinkItemStep
<1>2. ASSUME NEW r \in Requests,
             \/ \E op \in {"sync", "login_required", "revoke"}, i \in Items : Arrive(r, op, i)
             \/ SyncAccounts(r) \/ RemoveItem(r)
      PROVE  PlaidInv'
  BY <1>2, ArriveStep, SyncAccountsStep, RemoveItemStep
<1>3. ASSUME NEW r \in Requests, TakeLock(r) \/ Commit(r) \/ File(r) PROVE PlaidInv'
  BY <1>3, TakeLockStep, CommitStep, FileStep
<1>4. ASSUME NEW r \in Requests, Fails(r) PROVE PlaidInv'
  BY <1>4, FailsStep DEF Fails, Finish
<1>5. CASE BalanceMoves \/ UNCHANGED vars
  <2>1. UNCHANGED <<item, account, remote, req, changes, filed>> /\ world' \in 0 .. MaxBalance
    BY <1>5, PlaidAssumption DEF BalanceMoves, vars, PlaidInv, TypeOK
  <2> QED BY <2>1 DEF PlaidInv, TypeOK, ItemOK, RequestOK, Apart, EdgesTrue, Live
<1> QED BY <1>1, <1>2, <1>3, <1>4, <1>5 DEF Next

LEMMA AlwaysPlaidInv == Spec => []PlaidInv
BY InitPlaidInv, NextPlaidInv, PTL DEF Spec

\* Every variable stays in its domain.
THEOREM TypeCorrect == Spec => []TypeOK
BY AlwaysPlaidInv, PTL DEF PlaidInv

\* A revoked item stays revoked and without a live account, whatever was in flight
\* when it was revoked (setStatus, markRevoked, softDeleteByItem, upsert).
THEOREM RevokedStaysEmptyHolds == Spec => []RevokedStaysEmpty
<1>1. PlaidInv => RevokedStaysEmpty
  BY DEF PlaidInv, ItemOK, RevokedStaysEmpty
<1> QED BY <1>1, AlwaysPlaidInv, PTL

\* The audit trail names for each change what it really replaced, once (itemSynced,
\* itemErrored, itemLoginRequired, itemRevoked).
THEOREM EdgesTrueHolds == Spec => []EdgesTrue
BY AlwaysPlaidInv, PTL DEF PlaidInv

\* Of the handlers in a transaction one can always go on: all lock the item first.
THEOREM NeverStuckHolds == Spec => []NeverStuck
<1>1. ASSUME PlaidInv PROVE NeverStuck
  <2> SUFFICES ASSUME NEW r \in Requests, req[r].held # {}, ~(Needs(req[r].op) \subseteq req[r].held)
               PROVE  Unlocked(NextLock(r), req[r].id)
    BY DEF NeverStuck
  <2>1. "item" \in req[r].held /\ NextLock(r) = "accounts"
    BY <1>1 DEF PlaidInv, RequestOK, NextLock
  <2>2. "accounts" \notin req[r].held
    BY <2>1 DEF Needs
  <2>3. \A q \in Requests \ {r} : req[q].id = req[r].id => req[q].held = {}
    BY <1>1 DEF PlaidInv, Apart
  <2> QED BY <2>1, <2>2, <2>3 DEF Unlocked
<1> QED BY <1>1, AlwaysPlaidInv, PTL

-----------------------------------------------------------------------------
(* Induction over the natural numbers, for a set instead of a predicate.    *)

\* What holds of 0, and of the successor of whatever it holds of, holds up to n.
LEMMA UpTo ==
    ASSUME NEW n \in Nat, NEW T, 0 \in T, \A m \in 0 .. n - 1 : m \in T => m + 1 \in T
    PROVE  \A m \in 0 .. n : m \in T
<1> SUFFICES ASSUME NEW bad \in 0 .. n, bad \notin T PROVE FALSE
  OBVIOUS
<1> DEFINE S == {m \in 0 .. n : m \notin T}
<1>1. S \subseteq Nat /\ S # {}
  OBVIOUS
<1>2. PICK m \in S : \A k \in S : ~(<<k, m>> \in OpToRel(<, Nat))
  BY <1>1, NatLessThanWellFounded, WFMin
<1>3. m \in 0 .. n /\ m \notin T /\ m # 0
  BY <1>2
<1>5. m - 1 \in 0 .. n - 1 /\ m - 1 + 1 = m /\ m - 1 \in Nat
  BY <1>3
<1>6. m - 1 \notin S
  <2>1. <<m - 1, m>> \in OpToRel(<, Nat)
    BY <1>3, <1>5 DEF OpToRel
  <2> QED BY <1>2, <2>1
<1>7. m - 1 \in T
  BY <1>5, <1>6
<1> QED BY <1>3, <1>5, <1>7

-----------------------------------------------------------------------------
(* The reducer.                                                            *)

\* f holds the states a replay of the first m events of s goes through.
IsTrace(f, s, m) ==
    f = [n \in 0 .. m |-> IF n = 0 THEN Missing ELSE Reduced(f[n - 1], s[n])]

LEMMA TraceFacts ==
    ASSUME NEW s, NEW m \in Nat, NEW f, IsTrace(f, s, m)
    PROVE  /\ f[0] = Missing
           /\ \A n \in 1 .. m : n - 1 \in 0 .. m - 1 /\ f[n] = Reduced(f[n - 1], s[n])
BY DEF IsTrace

LEMMA TraceExists ==
    ASSUME NEW s, NEW n \in Nat
    PROVE  \E f : IsTrace(f, s, n)
<1> DEFINE T == {m \in 0 .. n : \E f : IsTrace(f, s, m)}
<1>1. 0 \in T
  <2>1. IsTrace([k \in 0 .. 0 |-> Missing], s, 0)
    BY DEF IsTrace
  <2> QED BY <2>1
<1>2. ASSUME NEW m \in 0 .. n - 1, m \in T PROVE m + 1 \in T
  <2>1. PICK f : IsTrace(f, s, m)
    BY <1>2
  <2> DEFINE g == [k \in 0 .. m + 1 |-> IF k = m + 1 THEN Reduced(f[m], s[k]) ELSE f[k]]
  <2>2. ASSUME NEW k \in 0 .. m + 1
        PROVE  g[k] = IF k = 0 THEN Missing ELSE Reduced(g[k - 1], s[k])
    <3>1. CASE k = 0
      BY <2>1, <3>1, TraceFacts
    <3>2. CASE k = m + 1
      BY <3>2
    <3>3. CASE k \in 1 .. m
      <4>1. g[k] = f[k] /\ g[k - 1] = f[k - 1]
        BY <3>3
      <4>2. f[k] = Reduced(f[k - 1], s[k])
        BY <2>1, <3>3, TraceFacts
      <4> QED BY <3>3, <4>1, <4>2
    <3> QED BY <3>1, <3>2, <3>3
  <2>3. IsTrace(g, s, m + 1)
    BY <2>2 DEF IsTrace
  <2> QED BY <2>3
<1> HIDE DEF T
<1>3. n \in T
  BY <1>1, <1>2, UpTo
<1> QED BY <1>3 DEF T

\* Two replays agree as far as their events do.
LEMMA TracesAgree ==
    ASSUME NEW s, NEW t, NEW n \in Nat, NEW l \in Nat, NEW m \in 0 .. n, m <= l,
           NEW f, IsTrace(f, s, n), NEW g, IsTrace(g, t, l),
           \A k \in 1 .. m : s[k] = t[k]
    PROVE  f[m] = g[m]
<1> DEFINE T == {k \in 0 .. m : f[k] = g[k]}
<1>1. 0 \in T
  BY TraceFacts
<1>2. ASSUME NEW k \in 0 .. m - 1, k \in T PROVE k + 1 \in T
  <2>1. f[k + 1] = Reduced(f[k + 1 - 1], s[k + 1]) /\ g[k + 1] = Reduced(g[k + 1 - 1], t[k + 1])
    BY TraceFacts
  <2>2. k + 1 - 1 = k /\ s[k + 1] = t[k + 1]
    OBVIOUS
  <2> QED BY <1>2, <2>1, <2>2
<1> HIDE DEF T
<1>3. m \in T
  BY <1>1, <1>2, UpTo
<1> QED BY <1>3 DEF T

LEMMA FoldIsTrace ==
    ASSUME NEW s, Len(s) \in Nat
    PROVE  \E f : IsTrace(f, s, Len(s)) /\ Fold(s) = f[Len(s)]
<1> DEFINE g == CHOOSE f : IsTrace(f, s, Len(s))
<1>1. IsTrace(g, s, Len(s))
  BY TraceExists
<1>2. Fold(s) = g[Len(s)]
  BY DEF Fold, IsTrace
<1> QED BY <1>1, <1>2

\* An empty ledger projects to no asset, and one event more to one more reduction.
LEMMA FoldEmpty == Fold(<<>>) = Missing
<1>1. Len(<<>>) = 0
  OBVIOUS
<1> QED BY <1>1, FoldIsTrace, TraceFacts

LEMMA FoldAppend ==
    ASSUME NEW S, NEW s \in Seq(S), NEW e \in S
    PROVE  Fold(Append(s, e)) = Reduced(Fold(s), e)
<1> DEFINE t == Append(s, e)
           n == Len(s)
<1>1. /\ n \in Nat /\ Len(t) = n + 1 /\ t[n + 1] = e
      /\ \A k \in 1 .. n : s[k] = t[k]
  OBVIOUS
<1>2. PICK f : IsTrace(f, s, n) /\ Fold(s) = f[n]
  BY <1>1, FoldIsTrace
<1>3. PICK g : IsTrace(g, t, n + 1) /\ Fold(t) = g[n + 1]
  <2>1. Len(t) \in Nat
    BY <1>1
  <2> QED BY <1>1, <2>1, FoldIsTrace
<1> HIDE DEF t, n
<1>4. f[n] = g[n]
  BY <1>1, <1>2, <1>3, TracesAgree
<1>5. g[n + 1] = Reduced(g[n], t[n + 1])
  <2>1. PICK k \in 1 .. n + 1 : k = n + 1 /\ k - 1 = n
    BY <1>1
  <2>2. n + 1 \in Nat
    BY <1>1
  <2>3. g[k] = Reduced(g[k - 1], t[k])
    BY <1>3, <2>1, <2>2, TraceFacts
  <2> QED BY <2>1, <2>3
<1> QED BY <1>1, <1>2, <1>3, <1>4, <1>5 DEF t

LEMMA MissingRow == Missing \in Rows /\ Broken \in Rows
BY DEF Missing, Broken, Rows

LEMMA EventFacts ==
    ASSUME NEW e \in Events
    PROVE  /\ e.id \in Ids /\ e.kind \in {"create", "set", "designate", "remove", "retire"}
           /\ e.kind \in {"create", "set"} => e.arg \in Values
           /\ e.kind \in {"designate", "remove"} => e.arg \in Contacts
BY DEF Events, Commands

LEMMA ReducedRow ==
    ASSUME NEW row \in Rows, NEW e \in Events
    PROVE  Applied(row, e) \in Rows /\ Reduced(row, e) \in Rows
<1>1. Missing \in Rows /\ Broken \in Rows
  BY MissingRow
<1>2. /\ e.id \in Ids /\ e.kind \in {"create", "set", "designate", "remove", "retire"}
      /\ e.kind \in {"create", "set"} => e.arg \in Values
      /\ e.kind \in {"designate", "remove"} => e.arg \in Contacts
  BY EventFacts
<1>3. CASE e.kind = "create"
  <2>1. Applied(row, e) = [Missing EXCEPT !.status = "live", !.value = e.arg]
    BY <1>3 DEF Applied
  <2> QED BY <1>1, <1>2, <1>3, <2>1 DEF Reduced, Rows
<1>4. CASE e.kind = "set"
  BY <1>1, <1>2, <1>4 DEF Applied, Reduced, Rows
<1>5. CASE e.kind = "designate"
  BY <1>1, <1>2, <1>5 DEF Applied, Reduced, Rows
<1>6. CASE e.kind = "remove"
  BY <1>1, <1>6 DEF Applied, Reduced, Rows
<1>7. CASE e.kind = "retire"
  BY <1>1, <1>7 DEF Applied, Reduced, Rows
<1> QED BY <1>2, <1>3, <1>4, <1>5, <1>6, <1>7

\* Whatever the ledger holds, its replay is a row.
LEMMA FoldRow ==
    ASSUME NEW s \in Seq(Events)
    PROVE  Fold(s) \in Rows
<1>1. PICK n \in Nat : n = Len(s)
  OBVIOUS
<1>2. PICK f : IsTrace(f, s, n) /\ Fold(s) = f[n]
  BY <1>1, FoldIsTrace
<1> DEFINE T == {k \in 0 .. n : f[k] \in Rows}
<1>3. 0 \in T
  BY <1>2, MissingRow, TraceFacts
<1>4. ASSUME NEW k \in 0 .. n - 1, k \in T PROVE k + 1 \in T
  <2>1. k + 1 \in 1 .. n /\ k + 1 - 1 = k /\ s[k + 1] \in Events
    BY <1>1
  <2>2. f[k + 1] = Reduced(f[k], s[k + 1])
    BY <1>2, <2>1, TraceFacts
  <2> QED BY <1>4, <2>1, <2>2, ReducedRow
<1> HIDE DEF T
<1>5. n \in T
  BY <1>1, <1>3, <1>4, UpTo
<1> QED BY <1>1, <1>2, <1>5 DEF T

-----------------------------------------------------------------------------
(* The inductive invariant of the ledger.                                  *)

Active(r) == attempt[r].step \in {"sent", "locked"}

\* An attempt knows the asset it is about and its command.  What it saw is the state
\* of the version it names, if that is still the newest; a create is the first event
\* of its asset; and a locked row is as the precondition found it.
AttemptOK(r) ==
    LET q == attempt[r]
    IN  /\ q.step \in {"versioned", "read", "sent", "locked"} => q.asset \in Assets
        /\ q.step \in {"versioned", "read"} => q.token # None
        /\ q.token # None => q.asset \in Assets /\ q.token <= Len(ledger[q.asset])
        /\ q.saw # None =>
              /\ q.token # None
              /\ q.token = Len(ledger[q.asset]) => q.saw = Fold(ledger[q.asset])
        /\ Active(r) => q.id \in Ids /\ command[q.id] \in Commands
        /\ Active(r) /\ Creates(r) => ledger[q.asset] = <<>> /\ q.saw = None
        /\ q.step = "locked" => Precondition(r)

\* No two creates are about one asset, and no two other commands lock one row.
Alone(q, r) ==
    /\ Active(q) /\ Active(r) /\ Creates(q) /\ Creates(r) => attempt[q].asset # attempt[r].asset
    /\ attempt[q].step = "locked" /\ attempt[r].step = "locked" /\ ~Creates(q) /\ ~Creates(r)
          => attempt[q].asset # attempt[r].asset

\* ux_asset_events_user_event_id.
RecordedOnce ==
    \A a, b \in Assets : \A i \in DOMAIN ledger[a], j \in DOMAIN ledger[b] :
        ledger[a][i].id = ledger[b][j].id => a = b /\ i = j

NoEventsNoRow == \A a \in Assets : ledger[a] = <<>> => view[a] = Missing

\* A rebuild read no more than there is, and compares only assets that have events.
RebuildOK ==
    \A a \in Assets :
        /\ rebuild.base[a] <= Len(ledger[a])
        /\ a \in rebuild.differs => rebuild.base[a] > 0

LedgerInv ==
    /\ LedgerTypeOK
    /\ ProjectionIsFold
    /\ \A r \in Attempts : AttemptOK(r)
    /\ \A q, r \in Attempts : q # r => Alone(q, r)
    /\ RecordedOnce
    /\ NoEventsNoRow
    /\ RebuildOK

LEMMA NoAttemptTyped ==
    /\ NoAttempt \in AttemptStates /\ NoAttempt.step = "free" /\ NoAttempt.token = None
    /\ NoAttempt.saw = None /\ NoAttempt.asset = None /\ NoAttempt.id = None
BY DEF NoAttempt, AttemptStates

LEMMA InitLedgerInv == LedgerInit => LedgerInv
<1> SUFFICES ASSUME LedgerInit PROVE LedgerInv
  OBVIOUS
<1>1. LedgerTypeOK
  <2>1. NoRebuild \in [step : {"idle", "replayed", "views", "compared"},
                       base : [Assets -> Nat], differs : SUBSET Assets]
    BY DEF NoRebuild
  <2>2. /\ ledger \in [Assets -> Seq(Events)] /\ view \in [Assets -> Rows]
        /\ attempt \in [Attempts -> AttemptStates]
    BY MissingRow, NoAttemptTyped DEF LedgerInit
  <2> QED BY <2>1, <2>2, AssetAssumption DEF LedgerInit, LedgerTypeOK
<1>2. ProjectionIsFold /\ NoEventsNoRow
  BY FoldEmpty DEF LedgerInit, ProjectionIsFold, NoEventsNoRow
<1>3. ASSUME NEW r \in Attempts PROVE AttemptOK(r)
  BY NoAttemptTyped DEF LedgerInit, AttemptOK, Active
<1>4. ASSUME NEW q \in Attempts, NEW r \in Attempts PROVE Alone(q, r)
  BY NoAttemptTyped DEF LedgerInit, Alone, Active
<1>5. RecordedOnce /\ RebuildOK
  BY DEF LedgerInit, RecordedOnce, RebuildOK, NoRebuild
<1> QED BY <1>1, <1>2, <1>3, <1>4, <1>5 DEF LedgerInv

-----------------------------------------------------------------------------
(* Steps that record nothing.                                              *)

\* One attempt moves, and a command is named at most once for each id.
LEMMA AttemptMoves ==
    ASSUME LedgerInv, NEW r \in Attempts, NEW to \in AttemptStates,
           attempt' = [attempt EXCEPT ![r] = to],
           UNCHANGED <<ledger, view, rebuild, suspect, divergences>>,
           command' \in [Ids -> Commands \cup {None}],
           \A id \in Ids : command[id] \in Commands => command'[id] = command[id],
           AttemptOK(r)',
           \A q \in Attempts \ {r} : Alone(q, r)' /\ Alone(r, q)'
    PROVE  LedgerInv'
<1> USE DEF LedgerInv
<1>1. /\ attempt' \in [Attempts -> AttemptStates]
      /\ \A q \in Attempts \ {r} : attempt'[q] = attempt[q]
  BY DEF LedgerTypeOK
<1>2. LedgerTypeOK' /\ ProjectionIsFold' /\ RecordedOnce' /\ NoEventsNoRow' /\ RebuildOK'
  BY <1>1 DEF LedgerTypeOK, ProjectionIsFold, RecordedOnce, NoEventsNoRow, RebuildOK
<1>3. ASSUME NEW q \in Attempts \ {r}, Active(q)
      PROVE  /\ attempt[q].id \in Ids /\ Active(q)'
             /\ (command[attempt[q].id])' = command[attempt[q].id]
  BY <1>1, <1>3 DEF AttemptOK, Active
<1>4. ASSUME NEW q \in Attempts \ {r} PROVE AttemptOK(q)'
  <2>1. CASE Active(q)
    <3>1. /\ attempt'[q] = attempt[q] /\ Creates(q)' = Creates(q)
          /\ Precondition(q)' = Precondition(q)
      BY <1>1, <1>3, <2>1 DEF Creates, Command, Precondition
    <3> QED BY <1>1, <1>3, <2>1, <3>1 DEF AttemptOK, Active
  <2>2. CASE ~Active(q)
    BY <1>1, <2>2 DEF AttemptOK, Active
  <2> QED BY <2>1, <2>2
<1>5. ASSUME NEW p \in Attempts \ {r}, NEW q \in Attempts \ {r}, p # q PROVE Alone(p, q)'
  BY <1>1, <1>3, <1>5 DEF Alone, Active, Creates, Command
<1> QED BY <1>2, <1>4, <1>5

\* An attempt that is answered or gone asks nothing of the rest.
LEMMA AttemptEnds ==
    ASSUME LedgerInv, NEW r \in Attempts, NEW to \in AttemptStates,
           attempt' = [attempt EXCEPT ![r] = to],
           to.step \in {"free", "acked", "refused"}, to.token = None, to.saw = None
    PROVE  /\ AttemptOK(r)'
           /\ \A q \in Attempts \ {r} : Alone(q, r)' /\ Alone(r, q)'
<1>1. attempt'[r] = to
  BY DEF LedgerInv, LedgerTypeOK
<1> QED BY <1>1 DEF AttemptOK, Alone, Active

\* What the lookup by event id finds.
LEMMA RecordedFacts ==
    ASSUME LedgerInv, NEW id
    PROVE  /\ \A e \in Recorded(id) : \E a \in Assets : \E k \in DOMAIN ledger[a] :
                  e = <<a, k>> /\ ledger[a][k].id = id
           /\ \A a \in Assets : \A k \in DOMAIN ledger[a] :
                  ledger[a][k].id = id => <<a, k>> \in Recorded(id)
           /\ \A e, f \in Recorded(id) : e = f
<1>1. \A e \in Recorded(id) : \E a \in Assets : \E k \in DOMAIN ledger[a] :
          e = <<a, k>> /\ ledger[a][k].id = id
  BY DEF Recorded
<1>2. \A a \in Assets : \A k \in DOMAIN ledger[a] :
          ledger[a][k].id = id => <<a, k>> \in Recorded(id)
  BY DEF Recorded
<1>3. \A e, f \in Recorded(id) : e = f
  BY <1>1 DEF LedgerInv, RecordedOnce
<1> QED BY <1>1, <1>2, <1>3

LEMMA AckForFacts ==
    ASSUME LedgerInv, NEW r \in Attempts, NEW id \in Ids, NEW a \in Assets,
           NEW creates \in BOOLEAN, Recorded(id) # {}
    PROVE  \E to \in AttemptStates :
              /\ AckFor(r, id, a, creates) = [attempt EXCEPT ![r] = to]
              /\ to.token = None /\ to.saw = None /\ to.id = id
              /\ \/ to.step = "acked" /\ <<to.asset, to.version>> \in Recorded(id)
                 \/ /\ to.step = "refused" /\ to.asset = a
                    /\ \A e \in Recorded(id) : e[1] # a
<1> DEFINE original == CHOOSE e \in Recorded(id) : TRUE
<1>1. /\ original \in Recorded(id)
      /\ \E b \in Assets : \E k \in DOMAIN ledger[b] : original = <<b, k>>
  <2>1. original \in Recorded(id)
    OBVIOUS
  <2> QED BY <2>1, RecordedFacts
<1>b. PICK b \in Assets : \E k \in DOMAIN ledger[b] : original = <<b, k>>
  BY <1>1
<1>k. PICK k \in DOMAIN ledger[b] : original = <<b, k>>
  BY <1>b
<1>2. k \in Nat
  BY DEF LedgerInv, LedgerTypeOK
<1> DEFINE acked == [NoAttempt EXCEPT !.step = "acked", !.id = id, !.asset = b, !.version = k]
           refused == [NoAttempt EXCEPT !.step = "refused", !.id = id, !.asset = a]
<1>3. /\ acked \in AttemptStates /\ acked.step = "acked" /\ acked.token = None
      /\ acked.saw = None /\ acked.id = id /\ acked.asset = b /\ acked.version = k
  BY <1>2 DEF NoAttempt, AttemptStates
<1>4. /\ refused \in AttemptStates /\ refused.step = "refused" /\ refused.token = None
      /\ refused.saw = None /\ refused.id = id /\ refused.asset = a
  BY DEF NoAttempt, AttemptStates
<1>o. AckFor(r, id, a, creates) =
          IF creates \/ original[1] = a THEN Acked(r, id, original[1], original[2])
          ELSE Refused(r, id, a)
  BY DEF AckFor
<1> HIDE DEF original
<1>5. CASE creates \/ b = a
  <2>1. AckFor(r, id, a, creates) = [attempt EXCEPT ![r] = acked]
    BY <1>k, <1>o, <1>5 DEF Acked
  <2> HIDE DEF acked
  <2> QED BY <1>1, <1>k, <1>3, <2>1
<1>6. CASE ~(creates \/ b = a)
  <2>1. AckFor(r, id, a, creates) = [attempt EXCEPT ![r] = refused]
    BY <1>k, <1>o, <1>6 DEF Refused
  <2>2. \A e \in Recorded(id) : e[1] # a
    BY <1>1, <1>k, <1>6, RecordedFacts
  <2> HIDE DEF refused
  <2> QED BY <1>4, <2>1, <2>2
<1> QED BY <1>5, <1>6
\* An answered attempt, whatever the answer, keeps the invariant.
LEMMA AckForKeeps ==
    ASSUME LedgerInv, NEW r \in Attempts, NEW id \in Ids, NEW a \in Assets,
           NEW creates \in BOOLEAN, Recorded(id) # {},
           attempt' = AckFor(r, id, a, creates),
           UNCHANGED <<ledger, view, rebuild, suspect, divergences>>,
           command' \in [Ids -> Commands \cup {None}],
           \A i \in Ids : command[i] \in Commands => command'[i] = command[i]
    PROVE  LedgerInv'
<1>1. PICK to \in AttemptStates :
          /\ AckFor(r, id, a, creates) = [attempt EXCEPT ![r] = to]
          /\ to.token = None /\ to.saw = None
          /\ to.step = "acked" \/ to.step = "refused"
  <2>1. \E to \in AttemptStates :
            /\ AckFor(r, id, a, creates) = [attempt EXCEPT ![r] = to]
            /\ to.token = None /\ to.saw = None /\ to.id = id
            /\ \/ to.step = "acked" /\ <<to.asset, to.version>> \in Recorded(id)
               \/ /\ to.step = "refused" /\ to.asset = a
                  /\ \A e \in Recorded(id) : e[1] # a
    BY AckForFacts
  <2> QED BY <2>1
<1> QED BY <1>1, AttemptEnds, AttemptMoves

LEMMA ReadVersionStep ==
    ASSUME LedgerInv, NEW r \in Attempts, NEW a \in Assets, ReadVersion(r, a)
    PROVE  LedgerInv'
<1> USE DEF LedgerInv
<1>1. Len(ledger[a]) \in Nat
  BY DEF LedgerTypeOK
<1> DEFINE to == [NoAttempt EXCEPT !.step = "versioned", !.asset = a, !.token = Len(ledger[a])]
<1>2. /\ to \in AttemptStates /\ to.step = "versioned" /\ to.asset = a
      /\ to.token = Len(ledger[a]) /\ to.saw = None
  BY <1>1 DEF NoAttempt, AttemptStates
<1>3. attempt' = [attempt EXCEPT ![r] = to]
  BY DEF ReadVersion
<1> HIDE DEF to
<1>4. attempt'[r] = to
  BY <1>3 DEF LedgerTypeOK
<1>5. UNCHANGED <<ledger, view, command, rebuild, suspect, divergences>>
  BY DEF ReadVersion
<1>6. AttemptOK(r)'
  BY <1>1, <1>2, <1>4, <1>5, NoneAssumption DEF AttemptOK, Active
<1>7. \A q \in Attempts \ {r} : Alone(q, r)' /\ Alone(r, q)'
  BY <1>2, <1>4 DEF Alone, Active
<1>8. command' \in [Ids -> Commands \cup {None}]
  BY <1>5 DEF LedgerTypeOK
<1> QED BY <1>2, <1>3, <1>5, <1>6, <1>7, <1>8, AttemptMoves

\* The row is what its ledger replays to; if the version read before is still the
\* newest, it describes that row.
LEMMA ReadRowStep ==
    ASSUME LedgerInv, NEW r \in Attempts, ReadRow(r)
    PROVE  LedgerInv'
<1> USE DEF LedgerInv
<1> DEFINE a == attempt[r].asset
           seen == IF a \in suspect THEN None ELSE view[a]
           to == [attempt[r] EXCEPT !.step = "read", !.saw = seen]
<1>1. /\ attempt[r] \in AttemptStates /\ a \in Assets /\ AttemptOK(r)
      /\ attempt[r].step = "versioned" /\ attempt[r].token # None
  BY DEF ReadRow, LedgerTypeOK, AttemptOK
<1>2. seen \in Rows \cup {None} /\ (seen # None => seen = Fold(ledger[a]))
  BY <1>1 DEF LedgerTypeOK, ProjectionIsFold
<1>3. attempt' = [attempt EXCEPT ![r] = to]
  BY <1>1 DEF ReadRow, LedgerTypeOK
<1> HIDE DEF seen
<1>4. /\ to \in AttemptStates /\ to.step = "read" /\ to.asset = a
      /\ to.token = attempt[r].token /\ to.saw = seen
  BY <1>1, <1>2 DEF AttemptStates
<1> HIDE DEF to
<1>5. attempt'[r] = to
  BY <1>3 DEF LedgerTypeOK
<1>6. UNCHANGED <<ledger, view, command, rebuild, suspect, divergences>>
  BY DEF ReadRow
<1>7. AttemptOK(r)'
  BY <1>1, <1>2, <1>4, <1>5, <1>6 DEF AttemptOK, Active
<1>8. \A q \in Attempts \ {r} : Alone(q, r)' /\ Alone(r, q)'
  BY <1>4, <1>5 DEF Alone, Active
<1>9. command' \in [Ids -> Commands \cup {None}]
  BY <1>6 DEF LedgerTypeOK
<1> QED BY <1>3, <1>4, <1>6, <1>7, <1>8, <1>9, AttemptMoves

LEMMA AskStep ==
    ASSUME LedgerInv, NEW r \in Attempts, NEW id \in Ids, NEW c \in Commands, NEW a \in Assets,
           Ask(r, id, c, a)
    PROVE  LedgerInv'
<1> USE DEF LedgerInv
<1>1. /\ command' = [command EXCEPT ![id] = c] /\ command[id] \in {None, c}
      /\ UNCHANGED <<ledger, view, rebuild, suspect, divergences>>
      /\ Addressed(r, c, a) /\ attempt[r] \in AttemptStates /\ AttemptOK(r)
  BY DEF Ask, LedgerTypeOK
<1>2. /\ command' \in [Ids -> Commands \cup {None}] /\ command'[id] = c
      /\ \A i \in Ids : command[i] \in Commands => command'[i] = command[i]
  BY <1>1, NoneAssumption DEF LedgerTypeOK
<1>3. CASE Recorded(id) # {}
  <2>1. attempt' = AckFor(r, id, a, c.kind = "create")
    BY <1>3 DEF Ask
  <2> QED BY <1>1, <1>2, <1>3, <2>1, AckForKeeps
<1>4. CASE Recorded(id) = {}
  <2> DEFINE to == [attempt[r] EXCEPT !.step = "sent", !.id = id, !.asset = a]
  <2>1. /\ to \in AttemptStates /\ to.step = "sent" /\ to.id = id /\ to.asset = a
        /\ to.token = attempt[r].token /\ to.saw = attempt[r].saw
    BY <1>1 DEF AttemptStates
  <2>2. attempt' = [attempt EXCEPT ![r] = to]
    BY <1>1, <1>4 DEF Ask, LedgerTypeOK
  <2> HIDE DEF to
  <2>3. /\ attempt'[r] = to
        /\ \A q \in Attempts \ {r} : attempt'[q] = attempt[q]
    BY <2>2 DEF LedgerTypeOK
  <2>4. Active(r)' /\ Creates(r)' = (c.kind = "create") /\ attempt'[r].step # "locked"
    BY <1>2, <2>1, <2>3 DEF Active, Creates, Command
  <2>5. /\ to.token # None => a = attempt[r].asset
        /\ to.saw # None => a = attempt[r].asset
        /\ c.kind = "create" => /\ ledger[a] = <<>> /\ to.saw = None
                               /\ \A q \in Attempts : attempt[q].asset # a
    BY <1>1, <2>1, NoAttemptTyped DEF Addressed
  <2>6. AttemptOK(r)'
    BY <1>1, <1>2, <2>1, <2>3, <2>4, <2>5 DEF AttemptOK
  <2>7. \A q \in Attempts \ {r} : Alone(q, r)' /\ Alone(r, q)'
    BY <2>1, <2>3, <2>4, <2>5 DEF Alone
  <2> QED BY <1>1, <1>2, <2>1, <2>2, <2>6, <2>7, AttemptMoves
<1> QED BY <1>3, <1>4

LEMMA LockRowStep ==
    ASSUME LedgerInv, NEW r \in Attempts, LockRow(r)
    PROVE  LedgerInv'
<1> USE DEF LedgerInv
<1> DEFINE id == attempt[r].id
           a == attempt[r].asset
<1>1. /\ attempt[r].step = "sent" /\ attempt[r] \in AttemptStates /\ AttemptOK(r)
      /\ Creates(r) \/ RowFree(a)
      /\ UNCHANGED <<ledger, view, command, rebuild, suspect, divergences>>
  BY DEF LockRow, LedgerTypeOK
<1>2. Active(r) /\ id \in Ids /\ a \in Assets
  BY <1>1 DEF Active, AttemptOK
<1>3. /\ command' \in [Ids -> Commands \cup {None}]
      /\ \A i \in Ids : command[i] \in Commands => command'[i] = command[i]
  BY <1>1 DEF LedgerTypeOK
<1>4. CASE Restated(r)
  <2>1. attempt' = AckFor(r, id, a, Creates(r)) /\ Recorded(id) # {} /\ Creates(r) \in BOOLEAN
    BY <1>4 DEF LockRow, Restated, Creates
  <2> QED BY <1>1, <1>2, <1>3, <2>1, AckForKeeps
<1>5. CASE ~Restated(r) /\ Precondition(r)
  <2> DEFINE to == [attempt[r] EXCEPT !.step = "locked"]
  <2>1. /\ to \in AttemptStates /\ to.step = "locked" /\ to.id = id /\ to.asset = a
        /\ to.token = attempt[r].token /\ to.saw = attempt[r].saw
    BY <1>1 DEF AttemptStates
  <2>2. attempt' = [attempt EXCEPT ![r] = to]
    BY <1>1, <1>5 DEF LockRow, LedgerTypeOK
  <2> HIDE DEF to
  <2>3. /\ attempt'[r] = to
        /\ \A q \in Attempts \ {r} : attempt'[q] = attempt[q]
    BY <2>2 DEF LedgerTypeOK
  <2>4. /\ Active(r)' /\ Creates(r)' = Creates(r) /\ Precondition(r)'
        /\ \A q \in Attempts \ {r} : Active(q)' = Active(q) /\ Creates(q)' = Creates(q)
    BY <1>1, <1>5, <2>1, <2>3 DEF Active, Creates, Command, Precondition
  <2>5. AttemptOK(r)'
    BY <1>1, <1>2, <2>1, <2>3, <2>4 DEF AttemptOK
  <2>6. ASSUME NEW q \in Attempts \ {r} PROVE Alone(q, r)' /\ Alone(r, q)'
    <3>1. Alone(q, r) /\ Alone(r, q)
      OBVIOUS
    <3>2. ~Creates(r) /\ attempt[q].step = "locked" /\ ~Creates(q) => attempt[q].asset # a
      BY <1>1 DEF RowFree, Creates, Command
    <3> QED BY <1>2, <2>1, <2>3, <2>4, <3>1, <3>2 DEF Alone
  <2> QED BY <1>1, <1>3, <2>1, <2>2, <2>5, <2>6, AttemptMoves
<1>6. CASE ~Restated(r) /\ ~Precondition(r)
  <2> DEFINE to == [NoAttempt EXCEPT !.step = "refused", !.id = id, !.asset = a]
  <2>1. /\ to \in AttemptStates /\ to.step = "refused" /\ to.token = None /\ to.saw = None
    BY <1>2 DEF NoAttempt, AttemptStates
  <2>2. attempt' = [attempt EXCEPT ![r] = to]
    BY <1>1, <1>6 DEF LockRow, Refused
  <2> HIDE DEF to
  <2> QED BY <1>1, <1>3, <2>1, <2>2, AttemptEnds, AttemptMoves
<1> QED BY <1>4, <1>5, <1>6

LEMMA LosesRaceStep ==
    ASSUME LedgerInv, NEW r \in Attempts, LosesRace(r)
    PROVE  LedgerInv'
<1> USE DEF LedgerInv
<1>1. attempt[r].id \in Ids /\ attempt[r].asset \in Assets /\ Creates(r) \in BOOLEAN
  BY DEF LosesRace, AttemptOK, Active, Creates
<1>2. command' \in [Ids -> Commands \cup {None}]
  BY DEF LosesRace, LedgerTypeOK
<1> QED BY <1>1, <1>2, AckForKeeps DEF LosesRace, Unique

\* A crash before anything is committed.
LEMMA GoneStep ==
    ASSUME LedgerInv, NEW r \in Attempts, attempt' = [attempt EXCEPT ![r] = NoAttempt],
           UNCHANGED <<ledger, view, command, rebuild, suspect, divergences>>
    PROVE  LedgerInv'
<1>1. command' \in [Ids -> Commands \cup {None}]
  BY DEF LedgerInv, LedgerTypeOK
<1> QED BY <1>1, NoAttemptTyped, AttemptEnds, AttemptMoves

-----------------------------------------------------------------------------
(* Commits.                                                                *)

\* Whoever appends to an asset is alone with it: no other command holds its row, and
\* no create is waiting for it.
LEMMA WriterIsAlone ==
    ASSUME LedgerInv, NEW r \in Attempts, attempt[r].step = "locked",
           NEW q \in Attempts \ {r}, attempt[q].step = "locked" \/ (Active(q) /\ Creates(q))
    PROVE  attempt[q].asset # attempt[r].asset
<1> USE DEF LedgerInv
<1> SUFFICES ASSUME attempt[q].asset = attempt[r].asset PROVE FALSE
  OBVIOUS
<1> DEFINE a == attempt[r].asset
<1>1. a \in Assets /\ AttemptOK(q) /\ AttemptOK(r) /\ Alone(q, r) /\ Active(q) /\ Active(r)
  BY DEF AttemptOK, Active
<1>2. ~(Creates(q) /\ Creates(r)) /\ (Creates(q) \/ Creates(r))
  BY <1>1 DEF Alone
<1>3. Creates(q) => ledger[a] = <<>>
  BY <1>1 DEF AttemptOK
<1>4. Creates(r) => ledger[a] = <<>>
  BY <1>1 DEF AttemptOK
<1>5. view[a].status # "live"
  BY <1>1, <1>2, <1>3, <1>4 DEF NoEventsNoRow, Missing
<1>6. CASE Creates(q)
  BY <1>1, <1>2, <1>5, <1>6 DEF AttemptOK, Precondition
<1>7. CASE Creates(r)
  BY <1>1, <1>2, <1>5, <1>7 DEF AttemptOK, Precondition
<1> QED BY <1>2, <1>6, <1>7
\* The event is a lawful next one, unless the row was already out of step.
LEMMA CommitFacts ==
    ASSUME LedgerInv, NEW r \in Attempts, Commits(r)
    PROVE  \E e \in Events : LET a == attempt[r].asset IN
              /\ a \in Assets /\ e.id = attempt[r].id /\ Recorded(e.id) = {}
              /\ ledger' = [ledger EXCEPT ![a] = Append(ledger[a], e)]
              /\ view' = [view EXCEPT ![a] = Applied(view[a], e)]
              /\ UNCHANGED <<command, rebuild, suspect, divergences>>
              /\ a \notin suspect => Lawful(view[a], e)
<1> USE DEF LedgerInv
<1> DEFINE a == attempt[r].asset
           c == Command(r)
           e == [id |-> attempt[r].id, kind |-> c.kind, arg |-> c.arg]
<1>1. /\ attempt[r].step = "locked" /\ AttemptOK(r) /\ Active(r) /\ Recorded(attempt[r].id) = {}
      /\ UNCHANGED <<command, rebuild, suspect, divergences>>
  BY DEF Commits, Unique, Active
<1>2. a \in Assets /\ attempt[r].id \in Ids /\ c \in Commands
  BY <1>1 DEF AttemptOK, Command
<1>3. e \in Events
  BY <1>2 DEF Events
<1>4. /\ ledger' = [ledger EXCEPT ![a] = Append(ledger[a], e)]
      /\ view' = [view EXCEPT ![a] = Applied(view[a], e)]
  BY <1>2 DEF Commits, LedgerTypeOK
<1>5. ASSUME a \notin suspect PROVE Lawful(view[a], e)
  <2>1. CASE Creates(r)
    <3>1. ledger[a] = <<>>
      BY <1>1, <2>1 DEF AttemptOK
    <3>2. view[a].status = "absent"
      BY <1>2, <3>1 DEF NoEventsNoRow, Missing
    <3> QED BY <2>1, <3>2 DEF Lawful, Creates
  <2>2. CASE ~Creates(r)
    <3>1. Precondition(r)
      BY <1>1 DEF AttemptOK
    <3> QED BY <2>2, <3>1 DEF Lawful, Creates, Precondition
  <2> QED BY <2>1, <2>2
<1> HIDE DEF c
<1>6. e.id = attempt[r].id
  OBVIOUS
<1> HIDE DEF e
<1> QED BY <1>1, <1>2, <1>3, <1>4, <1>5, <1>6

LEMMA CommitsKeeps ==
    ASSUME LedgerInv, NEW r \in Attempts, Commits(r), NEW to \in AttemptStates,
           attempt' = [attempt EXCEPT ![r] = to],
           to.step \in {"free", "acked"}, to.token = None, to.saw = None
    PROVE  LedgerInv'
<1> USE DEF LedgerInv
<1>0. PICK a \in Assets : a = attempt[r].asset
  BY CommitFacts
<1>1. PICK e \in Events :
          /\ e.id = attempt[r].id /\ Recorded(e.id) = {}
          /\ ledger' = [ledger EXCEPT ![a] = Append(ledger[a], e)]
          /\ view' = [view EXCEPT ![a] = Applied(view[a], e)]
          /\ UNCHANGED <<command, rebuild, suspect, divergences>>
          /\ a \notin suspect => Lawful(view[a], e)
  BY <1>0, CommitFacts
<1>2. PICK n \in Nat : n = Len(ledger[a])
  BY DEF LedgerTypeOK
<1>3. /\ ledger' \in [Assets -> Seq(Events)]
      /\ ledger'[a] = Append(ledger[a], e) /\ Len(ledger'[a]) = n + 1
      /\ DOMAIN ledger[a] = 1 .. n /\ DOMAIN ledger'[a] = 1 .. n + 1
      /\ \A k \in 1 .. n : ledger'[a][k] = ledger[a][k]
      /\ ledger'[a][n + 1] = e /\ ledger'[a] # <<>>
      /\ \A b \in Assets \ {a} : ledger'[b] = ledger[b]
  <2>1. ledger[a] \in Seq(Events) /\ ledger'[a] = Append(ledger[a], e)
    BY <1>1 DEF LedgerTypeOK
  <2>2. \A b \in Assets \ {a} : ledger'[b] = ledger[b]
    BY <1>1 DEF LedgerTypeOK
  <2>3. ledger' \in [Assets -> Seq(Events)]
    BY <1>1, <2>1 DEF LedgerTypeOK
  <2>4. /\ Len(ledger'[a]) = n + 1 /\ ledger'[a][n + 1] = e
        /\ \A k \in 1 .. n : ledger'[a][k] = ledger[a][k]
    BY <1>2, <2>1
  <2>5. DOMAIN ledger[a] = 1 .. n /\ DOMAIN ledger'[a] = 1 .. n + 1
    BY <1>2, <2>1, <2>3, <2>4
  <2>6. ledger'[a] # <<>>
    BY <1>2, <2>4
  <2> QED BY <2>1, <2>2, <2>3, <2>4, <2>5, <2>6
<1>4. /\ view' \in [Assets -> Rows] /\ view'[a] = Applied(view[a], e)
      /\ \A b \in Assets \ {a} : view'[b] = view[b]
  BY <1>1, ReducedRow DEF LedgerTypeOK
<1>5. /\ attempt' \in [Attempts -> AttemptStates] /\ attempt'[r] = to
      /\ \A q \in Attempts \ {r} : attempt'[q] = attempt[q]
  BY DEF LedgerTypeOK
<1>6. LedgerTypeOK'
  BY <1>1, <1>3, <1>4, <1>5 DEF LedgerTypeOK
<1>7. ProjectionIsFold'
  <2>1. ASSUME a \notin suspect PROVE view'[a] = Fold(ledger'[a])
    <3>1. Fold(ledger'[a]) = Reduced(Fold(ledger[a]), e)
      BY <1>3, FoldAppend DEF LedgerTypeOK
    <3>2. view[a] = Fold(ledger[a])
      BY <2>1 DEF ProjectionIsFold
    <3> QED BY <1>1, <1>4, <2>1, <3>1, <3>2 DEF Reduced
  <2> QED BY <1>1, <1>3, <1>4, <2>1 DEF ProjectionIsFold
<1>8. attempt[r].step = "locked"
  BY DEF Commits
<1>9. ASSUME NEW q \in Attempts \ {r} PROVE AttemptOK(q)'
  <2>1. AttemptOK(q) /\ attempt'[q] = attempt[q] /\ attempt[q] \in AttemptStates
    BY <1>5 DEF LedgerTypeOK
  <2>2. attempt[q].step = "locked" \/ (Active(q) /\ Creates(q)) => attempt[q].asset # a
    BY <1>0, <1>8, WriterIsAlone
  <2>3. Active(q)' = Active(q) /\ Creates(q)' = Creates(q)
    BY <1>1, <2>1 DEF Active, Creates, Command
  <2>4. CASE attempt[q].asset # a
    <3>1. attempt[q].asset \in Assets =>
              /\ ledger'[attempt[q].asset] = ledger[attempt[q].asset]
              /\ view'[attempt[q].asset] = view[attempt[q].asset]
      BY <1>3, <1>4, <2>4
    <3>2. attempt[q].asset \in Assets => Precondition(q)' = Precondition(q)
      BY <1>1, <2>1, <2>3, <3>1 DEF Precondition, Command
    <3>3. CASE attempt[q].asset \in Assets
      BY <1>1, <2>1, <2>3, <3>1, <3>2, <3>3 DEF AttemptOK
    <3>4. CASE attempt[q].asset \notin Assets
      <4>1. /\ attempt[q].step \notin {"versioned", "read", "sent", "locked"}
            /\ attempt[q].token = None /\ attempt[q].saw = None /\ ~Active(q)
        BY <2>1, <3>4 DEF AttemptOK, Active
      <4> QED BY <2>1, <2>3, <4>1 DEF AttemptOK
    <3> QED BY <3>3, <3>4
  <2>5. CASE attempt[q].asset = a
    <3>1. attempt[q].step # "locked" /\ ~(Active(q) /\ Creates(q))
      BY <2>2, <2>5
    <3>2. attempt[q].token # None => attempt[q].token \in Nat /\ attempt[q].token <= n
      BY <1>2, <2>1, <2>5 DEF AttemptOK, AttemptStates
    <3>3. attempt[q].token # None => attempt[q].token <= n + 1 /\ attempt[q].token # n + 1
      BY <3>2
    <3> QED BY <1>1, <1>3, <2>1, <2>3, <2>5, <3>1, <3>3 DEF AttemptOK
  <2> QED BY <2>4, <2>5
<1>10. AttemptOK(r)' /\ \A q \in Attempts \ {r} : Alone(q, r)' /\ Alone(r, q)'
  BY AttemptEnds
<1>11. ASSUME NEW p \in Attempts \ {r}, NEW q \in Attempts \ {r}, p # q PROVE Alone(p, q)'
  BY <1>1, <1>5, <1>11 DEF Alone, Active, Creates, Command
<1>12. RecordedOnce'
  <2>1. ASSUME NEW b \in Assets, NEW k \in DOMAIN ledger[b] PROVE ledger[b][k].id # e.id
    BY <1>1, RecordedFacts
  <2>2. ASSUME NEW b \in Assets, NEW k \in DOMAIN ledger'[b]
        PROVE  \/ k \in DOMAIN ledger[b] /\ ledger'[b][k] = ledger[b][k]
               \/ b = a /\ k = n + 1 /\ ledger'[b][k] = e
    BY <1>3
  <2> QED BY <2>1, <2>2 DEF RecordedOnce
<1>13. NoEventsNoRow'
  BY <1>3, <1>4 DEF NoEventsNoRow
<1>14. RebuildOK'
  <2>1. ASSUME NEW b \in Assets PROVE rebuild.base[b] <= Len(ledger'[b])
    <3>1. rebuild.base[a] \in Nat /\ rebuild.base[a] <= n
      BY <1>2 DEF RebuildOK, LedgerTypeOK
    <3>2. rebuild.base[a] <= n + 1
      BY <3>1
    <3> QED BY <1>3, <3>2 DEF RebuildOK
  <2> QED BY <1>1, <2>1 DEF RebuildOK
<1> QED BY <1>6, <1>7, <1>9, <1>10, <1>11, <1>12, <1>13, <1>14

LEMMA CommitCommandStep ==
    ASSUME LedgerInv, NEW r \in Attempts, CommitCommand(r)
    PROVE  LedgerInv'
<1> DEFINE a == attempt[r].asset
           to == [NoAttempt EXCEPT !.step = "acked", !.id = attempt[r].id, !.asset = a,
                                   !.version = Len(ledger'[a])]
<1>1. attempt' = [attempt EXCEPT ![r] = to] /\ Commits(r)
  BY DEF CommitCommand, Acked
<1>2. Len(ledger'[a]) \in Nat /\ a \in Assets /\ attempt[r].id \in Ids
  <2>1. PICK e \in Events : /\ a \in Assets /\ e.id = attempt[r].id
                            /\ ledger' = [ledger EXCEPT ![a] = Append(ledger[a], e)]
    BY <1>1, CommitFacts
  <2>2. ledger'[a] = Append(ledger[a], e) /\ ledger[a] \in Seq(Events)
    BY <2>1 DEF LedgerInv, LedgerTypeOK
  <2> QED BY <2>1, <2>2, EventFacts
<1>3. to \in AttemptStates /\ to.step = "acked" /\ to.token = None /\ to.saw = None
  BY <1>2 DEF NoAttempt, AttemptStates
<1> HIDE DEF to
<1> QED BY <1>1, <1>3, CommitsKeeps

LEMMA EndsStep ==
    ASSUME LedgerInv, NEW r \in Attempts, Ends(r)
    PROVE  LedgerInv'
<1>1. attempt' = [attempt EXCEPT ![r] = NoAttempt]
  BY DEF Ends
<1>2. CASE Commits(r)
  BY <1>1, <1>2, NoAttemptTyped, CommitsKeeps
<1>3. CASE UNCHANGED <<ledger, view, command, rebuild, suspect, divergences>>
  BY <1>1, <1>3, GoneStep
<1> QED BY <1>2, <1>3 DEF Ends
-----------------------------------------------------------------------------
(* Divergence and rebuild.                                                 *)

\* Only rows of the projection move, and none under a lock or without events.
LEMMA RowsMove ==
    ASSUME LedgerInv, view' \in [Assets -> Rows], UNCHANGED <<ledger, command, attempt>>,
           \A a \in Assets : view'[a] # view[a] => RowFree(a) /\ ledger[a] # <<>>,
           suspect' \subseteq Assets,
           \A a \in Assets \ suspect' : view'[a] = Fold(ledger[a]),
           rebuild' \in [step : {"idle", "replayed", "views", "compared"},
                        base : [Assets -> Nat], differs : SUBSET Assets],
           RebuildOK', divergences' \in 0 .. MaxDivergences
    PROVE  LedgerInv'
<1> USE DEF LedgerInv
<1>1. LedgerTypeOK' /\ ProjectionIsFold' /\ RecordedOnce' /\ NoEventsNoRow'
  BY DEF LedgerTypeOK, ProjectionIsFold, RecordedOnce, NoEventsNoRow
<1>2. ASSUME NEW r \in Attempts PROVE AttemptOK(r)'
  <2>1. Active(r)' = Active(r) /\ Creates(r)' = Creates(r)
    BY DEF Active, Creates, Command
  <2>2. ASSUME attempt[r].step = "locked" PROVE Precondition(r)'
    <3>1. Precondition(r) /\ attempt[r].asset \in Assets
      BY <2>2 DEF AttemptOK
    <3>2. CASE Creates(r)
      BY <2>1, <3>2 DEF Precondition
    <3>3. CASE ~Creates(r)
      <4>1. ~RowFree(attempt[r].asset)
        BY <2>2, <3>3 DEF RowFree, Creates, Command
      <4>2. view'[attempt[r].asset] = view[attempt[r].asset]
        BY <3>1, <4>1
      <4> QED BY <2>1, <3>1, <4>2 DEF Precondition, Command
    <3> QED BY <3>2, <3>3
  <2> QED BY <2>1, <2>2 DEF AttemptOK
<1>3. ASSUME NEW q \in Attempts, NEW r \in Attempts, q # r PROVE Alone(q, r)'
  BY <1>3 DEF Alone, Active, Creates, Command
<1> QED BY <1>1, <1>2, <1>3

LEMMA RebuildMoves ==
    ASSUME LedgerInv, UNCHANGED <<ledger, view, command, attempt, suspect, divergences>>,
           rebuild' \in [step : {"idle", "replayed", "views", "compared"},
                        base : [Assets -> Nat], differs : SUBSET Assets],
           RebuildOK'
    PROVE  LedgerInv'
BY RowsMove DEF LedgerInv, LedgerTypeOK, ProjectionIsFold

LEMMA NoRebuildTyped ==
    /\ NoRebuild \in [step : {"idle", "replayed", "views", "compared"},
                      base : [Assets -> Nat], differs : SUBSET Assets]
    /\ \A a \in Assets : NoRebuild.base[a] = 0
    /\ NoRebuild.differs = {}
BY DEF NoRebuild

LEMMA StopRebuildStep ==
    ASSUME LedgerInv, StopRebuild
    PROVE  LedgerInv'
<1>1. RebuildOK'
  BY NoRebuildTyped DEF StopRebuild, RebuildOK, LedgerInv, LedgerTypeOK
<1> QED BY <1>1, NoRebuildTyped, RebuildMoves DEF StopRebuild

LEMMA ReplayAllStep ==
    ASSUME LedgerInv, ReplayAll
    PROVE  LedgerInv'
<1> DEFINE base == [a \in Assets |-> Len(ledger[a])]
           to == [NoRebuild EXCEPT !.step = "replayed", !.base = base]
<1>1. base \in [Assets -> Nat]
  BY DEF LedgerInv, LedgerTypeOK
<1>2. /\ to \in [step : {"idle", "replayed", "views", "compared"},
                 base : [Assets -> Nat], differs : SUBSET Assets]
      /\ to.base = base /\ to.differs = {}
  BY <1>1 DEF NoRebuild
<1>3. rebuild' = to /\ UNCHANGED <<ledger, view, command, attempt, suspect, divergences>>
  BY DEF ReplayAll
<1>4. \A a \in Assets : base[a] = Len(ledger[a]) /\ base[a] \in Nat
  BY <1>1
<1> HIDE DEF to, base
<1>5. RebuildOK'
  BY <1>2, <1>3, <1>4 DEF RebuildOK
<1> QED BY <1>2, <1>3, <1>5, RebuildMoves

LEMMA DiffStep ==
    ASSUME LedgerInv, DiffViews \/ DiffBeneficiaries
    PROVE  LedgerInv'
<1>1. PICK step \in {"views", "compared"}, differs \in SUBSET {a \in Assets : rebuild.base[a] > 0} :
          rebuild' = [rebuild EXCEPT !.step = step, !.differs = differs]
  <2>1. CASE DiffViews
    BY <2>1 DEF DiffViews
  <2>2. CASE DiffBeneficiaries
    <3>1. rebuild.differs \subseteq {a \in Assets : rebuild.base[a] > 0}
      BY DEF LedgerInv, LedgerTypeOK, RebuildOK
    <3> QED BY <2>2, <3>1 DEF DiffBeneficiaries
  <2> QED BY <2>1, <2>2
<1>2. UNCHANGED <<ledger, view, command, attempt, suspect, divergences>>
  BY DEF DiffViews, DiffBeneficiaries
<1>3. /\ rebuild' \in [step : {"idle", "replayed", "views", "compared"},
                       base : [Assets -> Nat], differs : SUBSET Assets]
      /\ rebuild'.base = rebuild.base /\ rebuild'.differs = differs
  BY <1>1 DEF LedgerInv, LedgerTypeOK
<1>4. RebuildOK'
  BY <1>1, <1>2, <1>3 DEF RebuildOK, LedgerInv
<1> QED BY <1>2, <1>3, <1>4, RebuildMoves

\* What is replayed is a beginning of the ledger, and all of it if none was added.
LEMMA ExpectedFacts ==
    ASSUME LedgerInv, NEW a \in Assets
    PROVE  /\ Expected(a) \in Rows
           /\ rebuild.base[a] = Len(ledger[a]) => Expected(a) = Fold(ledger[a])
<1>1. ledger[a] \in Seq(Events) /\ rebuild.base[a] \in Nat /\ rebuild.base[a] <= Len(ledger[a])
  BY DEF LedgerInv, LedgerTypeOK, RebuildOK
<1>2. SubSeq(ledger[a], 1, rebuild.base[a]) \in Seq(Events)
  BY <1>1
<1>3. rebuild.base[a] = Len(ledger[a]) => SubSeq(ledger[a], 1, rebuild.base[a]) = ledger[a]
  BY <1>1
<1> QED BY <1>2, <1>3, FoldRow DEF Expected

LEMMA RepairStep ==
    ASSUME LedgerInv, Repair
    PROVE  LedgerInv'
<1> USE DEF LedgerInv
<1>1. /\ view' = [a \in Assets |-> IF a \in rebuild.differs THEN Expected(a) ELSE view[a]]
      /\ suspect' = (suspect \ rebuild.differs) \cup Overtaken
      /\ rebuild' = NoRebuild /\ UNCHANGED <<ledger, command, attempt, divergences>>
      /\ \A a \in rebuild.differs : RowFree(a)
  BY DEF Repair
<1>2. view' \in [Assets -> Rows] /\ suspect' \subseteq Assets
  BY <1>1, ExpectedFacts DEF LedgerTypeOK, Overtaken
<1>3. ASSUME NEW a \in Assets, view'[a] # view[a] PROVE RowFree(a) /\ ledger[a] # <<>>
  <2>1. a \in rebuild.differs
    BY <1>1, <1>3
  <2>2. rebuild.base[a] > 0 /\ rebuild.base[a] <= Len(ledger[a]) /\ rebuild.base[a] \in Nat
    BY <2>1 DEF RebuildOK, LedgerTypeOK
  <2>3. Len(ledger[a]) # 0
    BY <2>2 DEF LedgerTypeOK
  <2> QED BY <1>1, <2>1, <2>3
<1>4. ASSUME NEW a \in Assets \ suspect' PROVE view'[a] = Fold(ledger[a])
  <2>1. CASE a \in rebuild.differs
    <3>1. rebuild.base[a] = Len(ledger[a])
      BY <1>1, <2>1 DEF Overtaken
    <3> QED BY <1>1, <2>1, <3>1, ExpectedFacts
  <2>2. CASE a \notin rebuild.differs
    BY <1>1, <2>2 DEF ProjectionIsFold
  <2> QED BY <2>1, <2>2
<1>5. RebuildOK'
  BY <1>1, NoRebuildTyped DEF RebuildOK, LedgerTypeOK
<1>6. divergences' \in 0 .. MaxDivergences
  BY <1>1 DEF LedgerTypeOK
<1> QED BY <1>1, <1>2, <1>3, <1>4, <1>5, <1>6, NoRebuildTyped, RowsMove

LEMMA DivergeStep ==
    ASSUME LedgerInv, NEW a \in Assets, Diverge(a)
    PROVE  LedgerInv'
<1> USE DEF LedgerInv
<1>1. PICK k \in 0 .. Len(ledger[a]) - 1 :
          view' = [view EXCEPT ![a] = Fold(SubSeq(ledger[a], 1, k))]
  BY DEF Diverge
<1>2. /\ divergences < MaxDivergences /\ divergences' = divergences + 1 /\ RowFree(a)
      /\ suspect' = suspect \cup {a} /\ UNCHANGED <<ledger, command, attempt, rebuild>>
  BY DEF Diverge
<1>3. ledger[a] \in Seq(Events) /\ ledger[a] # <<>> /\ SubSeq(ledger[a], 1, k) \in Seq(Events)
  <2>1. ledger[a] \in Seq(Events)
    BY DEF LedgerTypeOK
  <2> QED BY <1>1, <2>1
<1>4. /\ view' \in [Assets -> Rows] /\ \A b \in Assets \ {a} : view'[b] = view[b]
  BY <1>1, <1>3, FoldRow DEF LedgerTypeOK
<1>5. divergences' \in 0 .. MaxDivergences
  BY <1>2, AssetAssumption DEF LedgerTypeOK
<1>6. \A b \in Assets \ suspect' : view'[b] = Fold(ledger[b])
  BY <1>2, <1>4 DEF ProjectionIsFold
<1>7. RebuildOK' /\ suspect' \subseteq Assets
  BY <1>2 DEF RebuildOK, LedgerTypeOK
<1>8. rebuild' \in [step : {"idle", "replayed", "views", "compared"},
                   base : [Assets -> Nat], differs : SUBSET Assets]
  BY <1>2 DEF LedgerTypeOK
<1> QED BY <1>2, <1>3, <1>4, <1>5, <1>6, <1>7, <1>8, RowsMove

-----------------------------------------------------------------------------
(* Every step, and what no step may do.                                    *)

LEMMA NextLedgerInv == LedgerInv /\ [LedgerNext]_ledgerVars => LedgerInv'
<1> SUFFICES ASSUME LedgerInv, [LedgerNext]_ledgerVars PROVE LedgerInv'
  OBVIOUS
<1>1. ASSUME NEW r \in Attempts, NEW a \in Assets, ReadVersion(r, a) PROVE LedgerInv'
  BY <1>1, ReadVersionStep
<1>2. ASSUME NEW r \in Attempts, NEW id \in Ids, NEW c \in Commands, NEW a \in Assets,
             Ask(r, id, c, a)
      PROVE  LedgerInv'
  BY <1>2, AskStep
<1>3. ASSUME NEW r \in Attempts,
             ReadRow(r) \/ LockRow(r) \/ CommitCommand(r) \/ LosesRace(r) \/ Ends(r)
      PROVE  LedgerInv'
  BY <1>3, ReadRowStep, LockRowStep, CommitCommandStep, LosesRaceStep, EndsStep
<1>4. ASSUME NEW a \in Assets, Diverge(a) PROVE LedgerInv'
  BY <1>4, DivergeStep
<1>5. CASE ReplayAll \/ DiffViews \/ DiffBeneficiaries \/ Repair \/ StopRebuild
  BY <1>5, ReplayAllStep, DiffStep, RepairStep, StopRebuildStep
<1>6. CASE UNCHANGED ledgerVars
  <2>1. RebuildOK'
    BY <1>6 DEF ledgerVars, LedgerInv, RebuildOK
  <2> QED BY <1>6, <2>1, RebuildMoves DEF ledgerVars, LedgerInv, LedgerTypeOK
<1> QED BY <1>1, <1>2, <1>3, <1>4, <1>5, <1>6 DEF LedgerNext

LEMMA AlwaysLedgerInv == LedgerSpec => []LedgerInv
BY InitLedgerInv, NextLedgerInv, PTL DEF LedgerSpec

\* Which replays a rebuild in progress has made is part of the argument: none failed.
LawfulInv ==
    /\ LawfulUnlessSuspect
    /\ rebuild.step # "idle" => \A a \in Assets : Expected(a) # Broken

LEMMA PrefixKept ==
    ASSUME NEW S, NEW s \in Seq(S), NEW e \in S, NEW k \in Nat, k <= Len(s)
    PROVE  SubSeq(Append(s, e), 1, k) = SubSeq(s, 1, k)
<1>1. /\ Append(s, e) \in Seq(S) /\ Len(s) \in Nat
      /\ \A i \in 1 .. k : s[i] \in S /\ Append(s, e)[i] = s[i]
  BY AppendProperties
<1>2. /\ SubSeq(s, 1, k) \in Seq(S) /\ Len(SubSeq(s, 1, k)) = k
      /\ \A i \in 1 .. k : SubSeq(s, 1, k)[i] = s[i]
  BY <1>1
<1> DEFINE t == Append(s, e)
<1> HIDE DEF t
<1>3. /\ SubSeq(t, 1, k) \in Seq(S) /\ Len(SubSeq(t, 1, k)) = k
      /\ \A i \in 1 .. k : SubSeq(t, 1, k)[i] = t[i]
  BY <1>1 DEF t
<1>4. SubSeq(t, 1, k) = SubSeq(s, 1, k)
  <2>1. \A i \in 1 .. k : t[i] = s[i]
    BY <1>1 DEF t
  <2> QED BY <1>2, <1>3, <2>1, SeqEqual
<1> QED BY <1>4 DEF t

\* A lawful event takes a row that replays to one that does, and what has been
\* replayed of a ledger does not change when it grows.
LEMMA CommitsStayLawful ==
    ASSUME LedgerInv, LawfulInv, NEW r \in Attempts, Commits(r)
    PROVE  LawfulInv'
<1>1. PICK e \in Events : LET a == attempt[r].asset IN
          /\ a \in Assets
          /\ ledger' = [ledger EXCEPT ![a] = Append(ledger[a], e)]
          /\ UNCHANGED <<rebuild, suspect>>
          /\ a \notin suspect => Lawful(view[a], e)
  BY CommitFacts
<1>2. PICK a \in Assets : a = attempt[r].asset
  BY <1>1
<1>3. /\ ledger'[a] = Append(ledger[a], e) /\ ledger[a] \in Seq(Events)
      /\ \A b \in Assets \ {a} : ledger'[b] = ledger[b]
  BY <1>1, <1>2 DEF LedgerInv, LedgerTypeOK
<1>4. ASSUME NEW b \in Assets \ suspect PROVE Fold(ledger'[b]) # Broken
  <2>1. CASE b = a
    <3>1. Lawful(view[a], e) /\ view[a] = Fold(ledger[a])
      BY <1>1, <1>2, <1>4, <2>1 DEF LedgerInv, ProjectionIsFold
    <3>2. Fold(ledger'[a]) = Applied(view[a], e)
      BY <1>3, <3>1, FoldAppend DEF Reduced
    <3>3. view[a] \in Rows
      BY DEF LedgerInv, LedgerTypeOK
    <3>4. e.kind \in {"create", "set", "designate", "remove", "retire"}
      BY EventFacts
    <3>5. Applied(view[a], e).status \in {"live", "retired"}
      BY <3>1, <3>3, <3>4 DEF Applied, Lawful, Missing, Rows
    <3> QED BY <2>1, <3>2, <3>5 DEF Broken
  <2>2. CASE b # a
    BY <1>3, <1>4, <2>2 DEF LawfulInv, LawfulUnlessSuspect
  <2> QED BY <2>1, <2>2
<1>5. ASSUME NEW b \in Assets
      PROVE  SubSeq(ledger'[b], 1, rebuild.base[b]) = SubSeq(ledger[b], 1, rebuild.base[b])
  <2>1. rebuild.base[b] \in Nat /\ rebuild.base[b] <= Len(ledger[b]) /\ ledger[b] \in Seq(Events)
    BY DEF LedgerInv, LedgerTypeOK, RebuildOK
  <2>2. CASE b = a
    BY <1>3, <2>1, <2>2, PrefixKept
  <2>3. CASE b # a
    BY <1>3, <2>3
  <2> QED BY <2>2, <2>3
<1>6. rebuild'.step # "idle" => \A b \in Assets : Expected(b)' # Broken
  BY <1>1, <1>5 DEF LawfulInv, Expected
<1> QED BY <1>1, <1>4, <1>6 DEF LawfulInv, LawfulUnlessSuspect

\* A run of the rebuild goes on only if every replay succeeded, and it clears an
\* asset of suspicion only with a replay of its whole ledger.
LEMMA RebuildStaysLawful ==
    ASSUME LedgerInv, LawfulInv,
           ReplayAll \/ DiffViews \/ DiffBeneficiaries \/ Repair \/ StopRebuild
    PROVE  LawfulInv'
<1>0. ledger' = ledger
  BY DEF ReplayAll, DiffViews, DiffBeneficiaries, Repair, StopRebuild
<1>1. CASE ReplayAll
  <2>1. /\ \A a \in Assets : Fold(ledger[a]) # Broken
        /\ \A a \in Assets : rebuild'.base[a] = Len(ledger[a])
        /\ suspect' = suspect
    BY <1>1 DEF ReplayAll, NoRebuild
  <2>2. \A a \in Assets : SubSeq(ledger[a], 1, Len(ledger[a])) = ledger[a]
    BY DEF LedgerInv, LedgerTypeOK
  <2> QED BY <1>0, <2>1, <2>2 DEF LawfulInv, LawfulUnlessSuspect, Expected
<1>2. CASE DiffViews \/ DiffBeneficiaries
  <2>1. /\ rebuild.step # "idle" /\ rebuild'.base = rebuild.base /\ suspect' = suspect
    BY <1>2 DEF DiffViews, DiffBeneficiaries, LedgerInv, LedgerTypeOK
  <2> QED BY <1>0, <2>1 DEF LawfulInv, LawfulUnlessSuspect, Expected
<1>3. CASE Repair
  <2>1. /\ rebuild.step # "idle" /\ rebuild'.step = "idle"
        /\ suspect' = (suspect \ rebuild.differs) \cup Overtaken
    BY <1>3 DEF Repair, NoRebuild
  <2>2. ASSUME NEW a \in Assets \ suspect' PROVE Fold(ledger[a]) # Broken
    <3>1. CASE a \in rebuild.differs
      <4>1. rebuild.base[a] = Len(ledger[a])
        BY <2>1, <2>2, <3>1 DEF Overtaken
      <4> QED BY <2>1, <4>1, ExpectedFacts DEF LawfulInv
    <3>2. CASE a \notin rebuild.differs
      BY <2>1, <2>2, <3>2 DEF LawfulInv, LawfulUnlessSuspect
    <3> QED BY <3>1, <3>2
  <2> QED BY <1>0, <2>1, <2>2 DEF LawfulInv, LawfulUnlessSuspect
<1>4. CASE StopRebuild
  <2>1. rebuild'.step = "idle" /\ suspect' = suspect
    BY <1>4 DEF StopRebuild, NoRebuild
  <2> QED BY <1>0, <2>1 DEF LawfulInv, LawfulUnlessSuspect
<1> QED BY <1>1, <1>2, <1>3, <1>4

LEMMA NextLawfulInv == LedgerInv /\ LawfulInv /\ [LedgerNext]_ledgerVars => LawfulInv'
<1> SUFFICES ASSUME LedgerInv, LawfulInv, [LedgerNext]_ledgerVars PROVE LawfulInv'
  OBVIOUS
<1>1. ASSUME UNCHANGED <<ledger, rebuild>>, suspect \subseteq suspect' PROVE LawfulInv'
  BY <1>1 DEF LawfulInv, LawfulUnlessSuspect, Expected
<1>2. ASSUME NEW r \in Attempts, CommitCommand(r) \/ Ends(r) PROVE LawfulInv'
  <2>1. CASE Commits(r)
    BY <2>1, CommitsStayLawful
  <2>2. CASE ~Commits(r)
    BY <1>1, <1>2, <2>2 DEF CommitCommand, Ends
  <2> QED BY <2>1, <2>2
<1>3. ASSUME NEW r \in Attempts, ReadRow(r) \/ LockRow(r) \/ LosesRace(r) PROVE LawfulInv'
  BY <1>1, <1>3 DEF ReadRow, LockRow, LosesRace
<1>4. ASSUME NEW r \in Attempts, NEW a \in Assets, ReadVersion(r, a) PROVE LawfulInv'
  BY <1>1, <1>4 DEF ReadVersion
<1>5. ASSUME NEW r \in Attempts, NEW id \in Ids, NEW c \in Commands, NEW a \in Assets,
             Ask(r, id, c, a)
      PROVE  LawfulInv'
  BY <1>1, <1>5 DEF Ask
<1>6. ASSUME NEW a \in Assets, Diverge(a) PROVE LawfulInv'
  BY <1>1, <1>6 DEF Diverge
<1>7. CASE ReplayAll \/ DiffViews \/ DiffBeneficiaries \/ Repair \/ StopRebuild
  BY <1>7, RebuildStaysLawful
<1>8. CASE UNCHANGED ledgerVars
  BY <1>1, <1>8 DEF ledgerVars
<1> QED BY <1>2, <1>3, <1>4, <1>5, <1>6, <1>7, <1>8 DEF LedgerNext

\* What AnswersTrue asks of an answer, whether or not it was given just now.
TrueAnswer(r) ==
    /\ attempt'[r].step = "acked" =>
          ledger'[attempt'[r].asset][attempt'[r].version].id = attempt'[r].id
    /\ attempt'[r].step = "refused" =>
          \A e \in Recorded(attempt'[r].id) : e[1] # attempt'[r].asset

LEMMA AckForIsTrue ==
    ASSUME LedgerInv, NEW r \in Attempts, NEW id \in Ids, NEW a \in Assets,
           NEW creates \in BOOLEAN, Recorded(id) # {},
           attempt' = AckFor(r, id, a, creates), UNCHANGED ledger
    PROVE  TrueAnswer(r)
<1>1. PICK to \in AttemptStates :
          /\ attempt' = [attempt EXCEPT ![r] = to] /\ to.id = id
          /\ \/ to.step = "acked" /\ <<to.asset, to.version>> \in Recorded(id)
             \/ /\ to.step = "refused" /\ to.asset = a
                /\ \A e \in Recorded(id) : e[1] # a
  <2>1. \E to \in AttemptStates :
            /\ AckFor(r, id, a, creates) = [attempt EXCEPT ![r] = to]
            /\ to.token = None /\ to.saw = None /\ to.id = id
            /\ \/ to.step = "acked" /\ <<to.asset, to.version>> \in Recorded(id)
               \/ /\ to.step = "refused" /\ to.asset = a
                  /\ \A e \in Recorded(id) : e[1] # a
    BY AckForFacts
  <2> QED BY <2>1
<1>2. attempt'[r] = to
  BY <1>1 DEF LedgerInv, LedgerTypeOK
<1>3. CASE to.step = "acked"
  <2>1. <<to.asset, to.version>> \in Recorded(id)
    BY <1>1, <1>3
  <2>2. ledger[to.asset][to.version].id = id
    BY <2>1, RecordedFacts
  <2> QED BY <1>1, <1>2, <1>3, <2>2 DEF TrueAnswer
<1>4. CASE to.step = "refused"
  BY <1>1, <1>2, <1>4 DEF TrueAnswer
<1> QED BY <1>1, <1>3, <1>4

LEMMA LockRowIsTrue ==
    ASSUME LedgerInv, NEW r \in Attempts, LockRow(r)
    PROVE  TrueAnswer(r)
<1> DEFINE id == attempt[r].id
           a == attempt[r].asset
<1>1. /\ id \in Ids /\ a \in Assets /\ Creates(r) \in BOOLEAN /\ UNCHANGED ledger
      /\ attempt \in [Attempts -> AttemptStates]
  BY DEF LockRow, LedgerInv, LedgerTypeOK, AttemptOK, Active, Creates
<1>2. CASE Restated(r)
  BY <1>1, <1>2, AckForIsTrue DEF LockRow, Restated
<1>3. CASE ~Restated(r) /\ Precondition(r)
  <2>1. attempt'[r].step = "locked"
    BY <1>1, <1>3 DEF LockRow, AttemptStates
  <2> QED BY <2>1 DEF TrueAnswer
<1>4. CASE ~Restated(r) /\ ~Precondition(r)
  <2>1. attempt'[r] = [NoAttempt EXCEPT !.step = "refused", !.id = id, !.asset = a]
    BY <1>1, <1>4 DEF LockRow, Refused
  <2>2. attempt'[r].step = "refused" /\ attempt'[r].id = id
    BY <2>1 DEF NoAttempt
  <2>3. Recorded(id) = {}
    BY <1>4 DEF Restated
  <2> QED BY <2>2, <2>3 DEF TrueAnswer
<1> QED BY <1>2, <1>3, <1>4

LEMMA CommitIsTrue ==
    ASSUME LedgerInv, NEW r \in Attempts, CommitCommand(r)
    PROVE  TrueAnswer(r)
<1> DEFINE a == attempt[r].asset
<1>1. PICK e \in Events : /\ a \in Assets /\ e.id = attempt[r].id
                          /\ ledger' = [ledger EXCEPT ![a] = Append(ledger[a], e)]
  BY CommitFacts DEF CommitCommand
<1>2. /\ ledger[a] \in Seq(Events) /\ ledger'[a] = Append(ledger[a], e)
      /\ attempt \in [Attempts -> AttemptStates]
  BY <1>1 DEF LedgerInv, LedgerTypeOK
<1>3. ledger'[a][Len(ledger'[a])] = e
  BY <1>2
<1>4. attempt'[r] = [NoAttempt EXCEPT !.step = "acked", !.id = attempt[r].id, !.asset = a,
                                      !.version = Len(ledger'[a])]
  BY <1>2 DEF CommitCommand, Acked
<1>5. /\ attempt'[r].step = "acked" /\ attempt'[r].id = attempt[r].id
      /\ attempt'[r].asset = a /\ attempt'[r].version = Len(ledger'[a])
  BY <1>4 DEF NoAttempt
<1> QED BY <1>1, <1>3, <1>5 DEF TrueAnswer

\* An answer is the step of the attempt that is answered.
LEMMA AnswersStep ==
    ASSUME LedgerInv, [LedgerNext]_ledgerVars, NEW r \in Attempts, NEW answer \in {"acked", "refused"},
           Answered(r, answer)
    PROVE  TrueAnswer(r)
<1>0. attempt \in [Attempts -> AttemptStates] /\ attempt'[r] # attempt[r]
      /\ attempt'[r].step = answer
  BY DEF LedgerInv, LedgerTypeOK, Answered
<1>1. ASSUME NEW q \in Attempts, NEW id \in Ids, NEW c \in Commands, NEW a \in Assets,
             Ask(q, id, c, a)
      PROVE  TrueAnswer(r)
  <2>1. CASE Recorded(id) # {}
    <3>1. attempt' = AckFor(q, id, a, c.kind = "create") /\ UNCHANGED ledger
      BY <1>1, <2>1 DEF Ask
    <3>2. q = r
      BY <1>0, <3>1 DEF AckFor, Acked, Refused
    <3> QED BY <2>1, <3>1, <3>2, AckForIsTrue
  <2>2. CASE Recorded(id) = {}
    <3>1. attempt' = [attempt EXCEPT ![q].step = "sent", ![q].id = id, ![q].asset = a]
      BY <1>1, <2>2 DEF Ask
    <3>2. q = r /\ attempt[r] \in AttemptStates
      BY <1>0, <3>1
    <3>3. attempt'[r].step = "sent"
      BY <1>0, <3>1, <3>2 DEF AttemptStates
    <3> QED BY <1>0, <3>3
  <2> QED BY <2>1, <2>2
<1>2. ASSUME NEW q \in Attempts, LockRow(q) PROVE TrueAnswer(r)
  <2>1. q = r
    BY <1>0, <1>2 DEF LockRow, AckFor, Acked, Refused
  <2> QED BY <1>2, <2>1, LockRowIsTrue
<1>3. ASSUME NEW q \in Attempts, CommitCommand(q) PROVE TrueAnswer(r)
  <2>1. q = r
    BY <1>0, <1>3 DEF CommitCommand, Acked
  <2> QED BY <1>3, <2>1, CommitIsTrue
<1>4. ASSUME NEW q \in Attempts, LosesRace(q) PROVE TrueAnswer(r)
  <2>1. q = r
    BY <1>0, <1>4 DEF LosesRace, AckFor, Acked, Refused
  <2>2. attempt[r].id \in Ids /\ attempt[r].asset \in Assets /\ Creates(r) \in BOOLEAN
    BY <1>4, <2>1 DEF LosesRace, LedgerInv, AttemptOK, Active, Creates
  <2> QED BY <1>4, <2>1, <2>2, AckForIsTrue DEF LosesRace, Unique
<1>5. ASSUME NEW q \in Attempts, NEW a \in Assets, ReadVersion(q, a) PROVE FALSE
  <2>1. q = r
    BY <1>0, <1>5 DEF ReadVersion
  <2>2. attempt'[r].step = "versioned"
    BY <1>0, <1>5, <2>1 DEF ReadVersion, AttemptStates
  <2> QED BY <1>0, <2>2
<1>6. ASSUME NEW q \in Attempts, ReadRow(q) PROVE FALSE
  <2>1. q = r
    BY <1>0, <1>6 DEF ReadRow
  <2>2. attempt'[r].step = "read"
    BY <1>0, <1>6, <2>1 DEF ReadRow, AttemptStates
  <2> QED BY <1>0, <2>2
<1>7. ASSUME NEW q \in Attempts, Ends(q) PROVE FALSE
  <2>1. attempt' = [attempt EXCEPT ![q] = NoAttempt]
    BY <1>7 DEF Ends
  <2>2. attempt'[r] = NoAttempt
    BY <1>0, <2>1
  <2> QED BY <1>0, <2>2, NoAttemptTyped
<1>8. UNCHANGED attempt => FALSE
  BY <1>0
<1> QED BY <1>1, <1>2, <1>3, <1>4, <1>5, <1>6, <1>7, <1>8
        DEF LedgerNext, ledgerVars, Diverge, ReplayAll, DiffViews, DiffBeneficiaries, Repair, StopRebuild

\* While a command that names a version holds its row, the row is what its client saw.
LEMMA LockedAsSeen ==
    ASSUME LedgerInv, NEW r \in Attempts, attempt[r].step = "locked", attempt[r].saw # None,
           attempt[r].asset \notin suspect
    PROVE  view[attempt[r].asset] = attempt[r].saw
<1> DEFINE a == attempt[r].asset
<1>1. AttemptOK(r) /\ Active(r) /\ a \in Assets
  BY DEF LedgerInv, AttemptOK, Active
<1>2. ~Creates(r) /\ Precondition(r) /\ attempt[r].token # None
  BY <1>1 DEF AttemptOK
<1>3. attempt[r].token = Len(ledger[a])
  BY <1>2 DEF Precondition
<1>4. attempt[r].saw = Fold(ledger[a])
  BY <1>1, <1>3 DEF AttemptOK
<1> QED BY <1>1, <1>4 DEF LedgerInv, ProjectionIsFold

-----------------------------------------------------------------------------
(* Theorems about the ledger.                                              *)

\* Every variable stays in its domain; in particular every replay ends in a row.
THEOREM LedgerTypeCorrect == LedgerSpec => []LedgerTypeOK
<1>1. LedgerInv => LedgerTypeOK
  BY DEF LedgerInv
<1> QED BY <1>1, AlwaysLedgerInv, PTL

\* However commands, retries, crashes and rebuilds interleave, the projection of an
\* asset is the replay of its ledger, unless a repair was overtaken (runCommand,
\* rebuild).
THEOREM ProjectionIsFoldHolds == LedgerSpec => []ProjectionIsFold
<1>1. LedgerInv => ProjectionIsFold
  BY DEF LedgerInv
<1> QED BY <1>1, AlwaysLedgerInv, PTL

\* However often and at whatever moment a client repeats a command, its event is in
\* the ledgers at most once (the two lookups and ux_asset_events_user_event_id).
THEOREM RecordedOnceHolds == LedgerSpec => []RecordedOnce
<1>1. LedgerInv => RecordedOnce
  BY DEF LedgerInv
<1> QED BY <1>1, AlwaysLedgerInv, PTL

\* A client is told of the event it recorded, and never that a command which is in the
\* ledger is impossible (runCommand, replayAck).
THEOREM AnswersTrueHolds == LedgerSpec => AnswersTrue
<1>1. ASSUME LedgerInv, [LedgerNext]_ledgerVars, NEW r \in Attempts
      PROVE  /\ Answered(r, "acked") =>
                    ledger'[attempt'[r].asset][attempt'[r].version].id = attempt'[r].id
             /\ Answered(r, "refused") =>
                    \A e \in Recorded(attempt'[r].id) : e[1] # attempt'[r].asset
  <2>1. Answered(r, "acked") \/ Answered(r, "refused") => TrueAnswer(r)
    BY <1>1, AnswersStep
  <2> QED BY <2>1 DEF Answered, TrueAnswer
<1>2. LedgerInv /\ [LedgerNext]_ledgerVars
      => [\A r \in Attempts :
             /\ Answered(r, "acked") =>
                    ledger'[attempt'[r].asset][attempt'[r].version].id = attempt'[r].id
             /\ Answered(r, "refused") =>
                    \A e \in Recorded(attempt'[r].id) : e[1] # attempt'[r].asset]_ledgerVars
  BY <1>1
<1> QED BY <1>2, AlwaysLedgerInv, PTL DEF LedgerSpec, AnswersTrue

\* A command with If-Match writes over the state its client saw and over no other
\* (getWithVersion, runCommand).
THEOREM NoLostUpdateHolds == LedgerSpec => NoLostUpdate
<1>1. LedgerInv /\ [LedgerNext]_ledgerVars
      => [\A r \in Attempts :
             /\ attempt[r].step = "locked"
             /\ attempt[r].saw # None
             /\ attempt[r].asset \notin suspect
             /\ ledger'[attempt[r].asset] # ledger[attempt[r].asset]
             => view[attempt[r].asset] = attempt[r].saw]_ledgerVars
  BY LockedAsSeen
<1> QED BY <1>1, AlwaysLedgerInv, PTL DEF LedgerSpec, NoLostUpdate

\* Validation keeps every history replayable, whatever commands race, as long as the
\* row they are validated against was neither set back nor repaired from a ledger that
\* had moved on; an overtaken repair is the only way in which the code itself breaks
\* one (runCommand, applyAssetEvent, repair).
THEOREM LawfulUnlessSuspectHolds == LedgerSpec => []LawfulUnlessSuspect
<1>1. LedgerInit => LawfulInv
  BY FoldEmpty DEF LedgerInit, LawfulInv, LawfulUnlessSuspect, NoRebuild, Missing, Broken
<1>2. LawfulInv => LawfulUnlessSuspect
  BY DEF LawfulInv
<1> QED BY <1>1, <1>2, NextLawfulInv, AlwaysLedgerInv, PTL DEF LedgerSpec
=============================================================================
