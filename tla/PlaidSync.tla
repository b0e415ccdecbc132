------------------------------ MODULE PlaidSync ------------------------------
(***************************************************************************)
(* The bank connections of one user: linking an item, syncing its account  *)
(* balances (for the owner, or because the provider's webhook says so),    *)
(* the webhook that asks for a new login, and revoking it.                 *)
(*                                                                         *)
(* A handler reads the item, talks to the provider, and then writes in a   *)
(* transaction that locks the item's row and after it the rows of its      *)
(* accounts.  What it read first may be long out of date.  Each committed  *)
(* change of status is filed afterwards with the status it replaced.       *)
(*                                                                         *)
(* Abstracted: the accounts of an item are one, a balance is the number of *)
(* times it changed at the provider, encryption, the anomaly counter (it   *)
(* only alerts) and the cursor (the provider's balances are snapshots).    *)
(***************************************************************************)
EXTENDS Integers, Sequences

CONSTANTS
    Items,          \* ids of plaid_items rows, all of one item at the provider
    Requests,       \* bound: requests in flight at the same time
    Nobody,         \* stands for no row
    MaxBalance,     \* bound: changes of the balance at the provider
    MaxChanges      \* bound: changes of status of one item

ASSUME PlaidAssumption ==
    Nobody \notin Items /\ MaxBalance \in Nat /\ MaxChanges \in Nat \ {0}

VARIABLES
    item,           \* plaid_items.status
    account,        \* accounts
    remote,         \* the item's access token at the provider
    world,          \* the balance at the provider
    req,            \* what each request is doing
    changes,        \* history: the statuses of an item, in the order of COMMITs
    filed           \* the audit trail: which change, and from what

vars == <<item, account, remote, world, req, changes, filed>>

NoAccount == [live |-> FALSE, balance |-> 0]

Free == [op |-> "none", id |-> Nobody, step |-> "idle", balance |-> 0, held |-> {},
         seen |-> "absent", prior |-> "absent", change |-> 0]

Init ==
    /\ item = [i \in Items |-> "absent"]
    /\ account = [i \in Items |-> NoAccount]
    /\ remote = [i \in Items |-> "absent"]
    /\ world = 0
    /\ req = [r \in Requests |-> Free]
    /\ changes = [i \in Items |-> <<>>]
    /\ filed = {}

\* deleted_at IS NULL
Live(i) == item[i] \in {"healthy", "login_required", "error"}

Finish(r) == req' = [req EXCEPT ![r] = Free]

-----------------------------------------------------------------------------
(* Before the transaction.                                                 *)

\* The unique index admits one live row of the item.
LinkItem(i) ==
    /\ item[i] = "absent"
    /\ \A j \in Items : ~Live(j)
    /\ item' = [item EXCEPT ![i] = "healthy"]
    /\ remote' = [remote EXCEPT ![i] = "valid"]
    /\ changes' = [changes EXCEPT ![i] = <<"healthy">>]
    /\ UNCHANGED <<account, world, req, filed>>

\* requireItem, or the webhook's lookup.
Arrive(r, op, i) ==
    /\ req[r] = Free
    /\ Live(i)
    /\ Len(changes[i]) < MaxChanges
    /\ req' = [req EXCEPT ![r] =
                 [Free EXCEPT !.op = op, !.id = i, !.seen = item[i],
                              !.step = IF op = "login_required" THEN "write" ELSE "call"]]
    /\ UNCHANGED <<item, account, remote, world, changes, filed>>

\* The provider answers with the balance of the moment, or refuses the token
\* (any HTTP 400 counts as that).
SyncAccounts(r) ==
    /\ req[r].op = "sync"
    /\ req[r].step = "call"
    /\ \/ /\ remote[req[r].id] = "valid"
          /\ req' = [req EXCEPT ![r].step = "write", ![r].balance = world]
       \/ req' = [req EXCEPT ![r].step = "write", ![r].op = "error"]
    /\ UNCHANGED <<item, account, remote, world, changes, filed>>

\* A failure to remove the item at the provider is ignored.
RemoveItem(r) ==
    /\ req[r].op = "revoke"
    /\ req[r].step = "call"
    /\ remote' \in {remote, [remote EXCEPT ![req[r].id] = "removed"]}
    /\ req' = [req EXCEPT ![r].step = "write"]
    /\ UNCHANGED <<item, account, world, changes, filed>>

-----------------------------------------------------------------------------
(* The transaction.                                                        *)

Needs(op) == IF op \in {"sync", "revoke"} THEN {"item", "accounts"} ELSE {"item"}

\* The item first, on every path.
NextLock(r) == IF "item" \notin req[r].held THEN "item" ELSE "accounts"

Unlocked(lock, i) == \A q \in Requests : req[q].id = i => lock \notin req[q].held

FoundAnyway(r) == item[req[r].id] # "absent"

\* setStatus and markRevoked find no row that is not live.
Found(r) == Live(req[r].id)

PriorAsRead(r) == req[r].seen

\* The pre-image under the row lock, not the row the handler read first.
Prior(r) == item[req[r].id]

TakeLock(r) ==
    LET lock == NextLock(r) IN
    /\ req[r].step = "write"
    /\ Needs(req[r].op) \ req[r].held # {}
    /\ Unlocked(lock, req[r].id)
    /\ req' = IF lock = "accounts" THEN [req EXCEPT ![r].held = @ \cup {lock}]
              ELSE IF Found(r) THEN [req EXCEPT ![r].held = @ \cup {lock}, ![r].prior = Prior(r)]
              ELSE [req EXCEPT ![r] = Free]
    /\ UNCHANGED <<item, account, remote, world, changes, filed>>

NewStatus(op) ==
    CASE op = "sync" -> "healthy"
      [] op = "revoke" -> "revoked"
      [] OTHER -> op

\* upsert, which clears a soft delete, and softDeleteByItem.
Written(r) ==
    CASE req[r].op = "sync" -> [live |-> TRUE, balance |-> req[r].balance]
      [] req[r].op = "revoke" -> [account[req[r].id] EXCEPT !.live = FALSE]
      [] OTHER -> account[req[r].id]

Commit(r) ==
    LET i == req[r].id
        status == NewStatus(req[r].op)
    IN  /\ req[r].step = "write"
        /\ Needs(req[r].op) \subseteq req[r].held
        /\ item' = [item EXCEPT ![i] = status]
        /\ account' = [account EXCEPT ![i] = Written(r)]
        /\ changes' = [changes EXCEPT ![i] = Append(@, status)]
        /\ req' = [req EXCEPT ![r].step = "file", ![r].held = {},
                              ![r].change = Len(changes[i]) + 1]
        /\ UNCHANGED <<remote, world, filed>>

\* itemSynced, itemErrored, itemLoginRequired, itemRevoked.
File(r) ==
    /\ req[r].step = "file"
    /\ filed' = filed \cup {[id |-> req[r].id, change |-> req[r].change, from |-> req[r].prior]}
    /\ Finish(r)
    /\ UNCHANGED <<item, account, remote, world, changes>>

\* The provider or the database fails, or the process dies.
Fails(r) ==
    /\ req[r] # Free
    /\ Finish(r)
    /\ UNCHANGED <<item, account, remote, world, changes, filed>>

BalanceMoves ==
    /\ world < MaxBalance
    /\ world' = world + 1
    /\ UNCHANGED <<item, account, remote, req, changes, filed>>

-----------------------------------------------------------------------------
Next ==
    \/ \E i \in Items : LinkItem(i)
    \/ \E r \in Requests :
          \/ \E op \in {"sync", "login_required", "revoke"}, i \in Items : Arrive(r, op, i)
          \/ SyncAccounts(r) \/ RemoveItem(r)
          \/ TakeLock(r) \/ Commit(r) \/ File(r) \/ Fails(r)
    \/ BalanceMoves

Spec == Init /\ [][Next]_vars

-----------------------------------------------------------------------------
(* Properties.                                                             *)

Statuses == {"absent", "healthy", "login_required", "error", "revoked"}

RequestStates ==
    [op : {"none", "sync", "login_required", "error", "revoke"}, id : Items \cup {Nobody},
     step : {"idle", "call", "write", "file"}, balance : 0 .. MaxBalance,
     held : SUBSET {"item", "accounts"}, seen : Statuses, prior : Statuses, change : Nat]

\* Every variable stays in its domain.
TypeOK ==
    /\ item \in [Items -> Statuses]
    /\ account \in [Items -> [live : BOOLEAN, balance : 0 .. MaxBalance]]
    /\ remote \in [Items -> {"absent", "valid", "removed"}]
    /\ world \in 0 .. MaxBalance
    /\ req \in [Requests -> RequestStates]
    /\ changes \in [Items -> Seq(Statuses)]
    /\ filed \subseteq [id : Items, change : Nat, from : Statuses]

\* A revoked item has no live account and stays revoked, whatever sync or webhook
\* was in flight when it was revoked.
RevokedStaysEmpty ==
    \A i \in Items :
        (\E n \in 1 .. Len(changes[i]) : changes[i][n] = "revoked") =>
            item[i] = "revoked" /\ ~account[i].live

\* Every filed change was committed, names the status it really replaced, and is
\* filed once; concurrent handlers had all read the same older status.
EdgesTrue ==
    \A f \in filed :
        /\ f.change \in 2 .. Len(changes[f.id])
        /\ f.from = changes[f.id][f.change - 1]
        /\ \A g \in filed : g.id = f.id /\ g.change = f.change => g = f

\* Handlers never wait for each other in a circle: among those in a transaction one
\* can take its lock or commit.
NeverStuck ==
    LET inside == {r \in Requests : req[r].held # {}} IN
    inside # {} =>
        \E r \in inside :
            Needs(req[r].op) \subseteq req[r].held \/ Unlocked(NextLock(r), req[r].id)

-----------------------------------------------------------------------------
(* Claims of the source that the code does not keep, and a hazard.         *)

\* revoke: "a failed remote remove surfaces in the item's final status for ops
\* follow-up".
FailedRemoveSurfaces == \A i \in Items : item[i] = "revoked" => remote[i] = "removed"

\* A live balance is not replaced by one the provider gave out earlier.
BalanceAdvances ==
    [][\A i \in Items :
          account[i].live /\ account'[i].live => account'[i].balance >= account[i].balance]_vars
=============================================================================
