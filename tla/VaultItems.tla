------------------------------ MODULE VaultItems ------------------------------
(***************************************************************************)
(* The items of the vault whose keyset VaultKeyset describes: what clients *)
(* with an open session write, the image of every overwritten row that a   *)
(* trigger keeps, going back to one, deleting and undeleting, and the      *)
(* reset, which retires every item in the transaction that replaces the    *)
(* keyset.                                                                 *)
(*                                                                         *)
(* A request is looked at by the session guard when it arrives and takes   *)
(* effect later, in one transaction that locks its item; nothing of the    *)
(* guard is checked again.                                                 *)
(*                                                                         *)
(* Abstracted: a content is the revision it was first stored under, with   *)
(* the version it is sealed for and the master key that sealed it.  What   *)
(* a client does about an item is based on the row it has just read.       *)
(***************************************************************************)
EXTENDS VaultKeyset, Sequences

CONSTANTS
    Items,          \* ids of vault_items rows
    Writers,        \* bound: item requests in flight at the same time
    MaxRevision     \* bound: the last revision a client may write

ASSUME ItemsAssumption == MaxRevision \in Nat \ {0} /\ Nobody \notin Items

VARIABLES
    item,           \* vault_items
    versions,       \* vault_items_versions: per item its images, by revision
    write,          \* the request each writer is in
    stored          \* history: the contents an item ever had

itemVars == <<item, versions, write, stored>>
vars == <<keysetVars, itemVars>>

NoBlob == [origin |-> 0, sealed |-> 0, key |-> 0, era |-> 0]

NoItem == [status |-> "absent", revision |-> 0, version |-> 0, blob |-> NoBlob]

NoWrite == [op |-> "none", id |-> Nobody, seen |-> NoItem, key |-> 0, target |-> 0]

Init ==
    /\ InitKeyset
    /\ item = [i \in Items |-> NoItem]
    /\ versions = [i \in Items |-> <<>>]
    /\ write = [w \in Writers |-> NoWrite]
    /\ stored = [i \in Items |-> {}]

Live(i) == item[i].status = "live"

-----------------------------------------------------------------------------
(* Requests.                                                               *)

\* Which rows a client offers an operation for.
Offered(op, i) ==
    CASE op = "create" -> item[i] = NoItem
      [] op = "undelete" -> item[i].status \in {"live", "user_delete"}
      [] OTHER -> Live(i)

\* The guard finds the session open; target is the revision to go back to.  Only
\* an update and a restore are about the row as the client saw it.
Send(w, op, i, s, target) ==
    /\ write[w] = NoWrite
    /\ Open(s)
    /\ Offered(op, i)
    /\ item[i].revision < MaxRevision
    /\ IF op = "restore" THEN target \in 1 .. item[i].revision ELSE target = 0
    /\ write' = [write EXCEPT ![w] =
                   [op |-> op, id |-> i, target |-> target,
                    seen |-> IF op \in {"update", "restore"} THEN item[i] ELSE NoItem,
                    key |-> IF op \in {"create", "update"} THEN session[s].master ELSE 0]]
    /\ UNCHANGED <<keysetVars, item, versions, stored>>

\* Sealed for the version after the one the client saw.
Sealed(w) ==
    [origin |-> item[write[w].id].revision + 1, sealed |-> write[w].seen.version + 1,
     key |-> write[w].key, era |-> resets]

-----------------------------------------------------------------------------
(* Rows.                                                                   *)

\* What the trigger keeps of a row that is overwritten.
CaptureAfter(i, row) ==
    [live |-> row.status = "live", version |-> row.version, blob |-> row.blob]

Capture(i, row) ==
    [live |-> Live(i), version |-> item[i].version, blob |-> item[i].blob]

Bumped(i, row) == [row EXCEPT !.revision = item[i].revision + 1]

\* An UPDATE of the row, with its triggers.
Update(i, row) ==
    /\ item' = [item EXCEPT ![i] = Bumped(i, row)]
    /\ versions' = [versions EXCEPT ![i] = Append(@, Capture(i, row))]

MatchesVersion(w) ==
    Live(write[w].id) /\ item[write[w].id].version = write[w].seen.version

Matches(w) ==
    Live(write[w].id) /\ item[write[w].id].revision = write[w].seen.revision

Restorable == {"user_delete"}

\* The row with the content of an image, and the version that content is sealed for.
RestoredOver(i, image) == [item[i] EXCEPT !.blob = image.blob, !.version = @ + 1]

Restored(i, image) == [item[i] EXCEPT !.blob = image.blob, !.version = image.version]

-----------------------------------------------------------------------------
(* Handlers.  One that finds the row in another state leaves it alone.     *)

\* An image of a deleted row cannot be named.
Named(i, k) == k \in 1 .. Len(versions[i]) /\ versions[i][k].live

\* Restoring the revision in force is done already.
Allowed(w) ==
    LET i == write[w].id
    IN CASE write[w].op = "create" -> item[i] = NoItem
         [] write[w].op = "update" -> Matches(w)
         [] write[w].op = "restore" -> Matches(w) /\ Named(i, write[w].target)
         [] write[w].op = "delete" -> Live(i)
         [] write[w].op = "undelete" -> item[i].status \in Restorable
         [] OTHER -> FALSE

CreateItem(w) ==
    /\ write[w].op = "create"
    /\ item' = [item EXCEPT ![write[w].id] =
                  [status |-> "live", revision |-> 1, version |-> 1, blob |-> Sealed(w)]]
    /\ UNCHANGED versions

UpdateItem(w) ==
    LET i == write[w].id
    IN /\ write[w].op = "update"
       /\ Update(i, [item[i] EXCEPT !.blob = Sealed(w), !.version = @ + 1])

RestoreItemVersion(w) ==
    LET i == write[w].id
    IN /\ write[w].op = "restore"
       /\ Update(i, Restored(i, versions[i][write[w].target]))

DeleteItem(w) ==
    LET i == write[w].id
    IN /\ write[w].op = "delete"
       /\ Update(i, [item[i] EXCEPT !.status = "user_delete"])

UndeleteItem(w) ==
    LET i == write[w].id
    IN /\ write[w].op = "undelete"
       /\ Update(i, [item[i] EXCEPT !.status = "live"])

Changes(w) ==
    CreateItem(w) \/ UpdateItem(w) \/ RestoreItemVersion(w) \/ DeleteItem(w) \/ UndeleteItem(w)

\* 404, 409, or nothing to do.
Refused(w) == write[w] # NoWrite /\ UNCHANGED <<item, versions>>

Serve(w) ==
    /\ IF Allowed(w) THEN Changes(w) ELSE Refused(w)
    /\ stored' = [i \in Items |->
                    IF item'[i] = NoItem THEN {} ELSE stored[i] \cup {item'[i].blob}]
    /\ write' = [write EXCEPT ![w] = NoWrite]
    /\ UNCHANGED keysetVars

DoomedLive == {i \in Items : Live(i)}

\* Whatever is not retired by a reset already, live or deleted by its owner.
Doomed == {i \in Items : item[i].status \notin {"absent", "vault_reset"}}

ResetVault(r) ==
    /\ Reset(r)
    /\ item' = [i \in Items |->
                  IF i \in Doomed THEN Bumped(i, [item[i] EXCEPT !.status = "vault_reset"])
                  ELSE item[i]]
    /\ versions' = [i \in Items |->
                      IF i \in Doomed THEN Append(versions[i], Capture(i, item'[i]))
                      ELSE versions[i]]
    /\ UNCHANGED <<write, stored>>

Ops == {"create", "update", "restore", "delete", "undelete"}

Next ==
    \/ KeysetStep /\ UNCHANGED itemVars
    \/ \E r \in Requests : ResetVault(r)
    \/ \E w \in Writers :
        \/ \E op \in Ops, i \in Items, s \in Sessions, target \in 0 .. MaxRevision :
              Send(w, op, i, s, target)
        \/ Serve(w)

Spec == Init /\ [][Next]_vars

-----------------------------------------------------------------------------
(* Properties.                                                             *)

Blobs == [origin : Nat, sealed : Nat, key : 0 .. MaxKeysets, era : Nat]
Rows == [status : {"absent", "live", "user_delete", "vault_reset"},
         revision : Nat, version : Nat, blob : Blobs]
Images == [live : BOOLEAN, version : Nat, blob : Blobs]

TypeOK ==
    /\ KeysetTypeOK
    /\ item \in [Items -> Rows]
    /\ versions \in [Items -> Seq(Images)]
    /\ \A i \in Items : item[i] # NoItem => Len(versions[i]) = item[i].revision - 1
    /\ write \in [Writers -> [op : Ops \cup {"none"}, id : Items \cup {Nobody}, seen : Rows,
                              key : 0 .. MaxKeysets, target : Nat]]
    /\ stored \in [Items -> SUBSET Blobs]

\* A content is only overwritten by a request whose client saw that content,
\* whatever other clients wrote, restored, deleted and undeleted meanwhile
\* (vault.service.ts, updateItem and restoreItemVersion).
NoLostUpdate ==
    [][\A i \in Items :
         item'[i].blob # item[i].blob =>
           \E w \in Writers : write[w].id = i /\ write'[w] = NoWrite /\ write[w].seen.blob = item[i].blob]_vars

\* A content is always stored with the version it is sealed for, in the row and
\* in its images: with another one it could never be opened again
\* (items.repo.ts, restoreVersion).
VersionTravels ==
    \A i \in Items :
        /\ item[i].version = item[i].blob.sealed
        /\ \A k \in 1 .. Len(versions[i]) : versions[i][k].version = versions[i][k].blob.sealed

\* Every content an item ever had can be gone back to: it is in the row or in an
\* image that may be named, so no sequence of updates, restores, deletions and
\* undeletions loses one (the versions trigger and listVersions).
NothingLost ==
    \A i \in Items :
        \A blob \in stored[i] :
            \/ item[i].blob = blob
            \/ \E n \in 1 .. Len(versions[i]) : versions[i][n].live /\ versions[i][n].blob = blob

\* Nothing stored before the last reset is live after it: a reset retires what
\* is live and what an undeletion could have brought back (vault.service.ts, reset).
ResetRetiresAll == \A i \in Items : Live(i) => item[i].blob.era = resets
=============================================================================
