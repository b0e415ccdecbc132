-------------------------------- MODULE People --------------------------------
(***************************************************************************)
(* The people of one estate in the profile service: contacts, the roles    *)
(* they are given (executor, trustee ...), and the codes by which a        *)
(* contact's own account is linked to the contact.  A link and a role make *)
(* somebody able to report a death and to act for the estate, so what      *)
(* matters is that neither comes about, stays or vanishes behind the       *)
(* owner's back.                                                           *)
(*                                                                         *)
(* Granting a role and deleting a contact lock the contact's row and look  *)
(* before they write; redeeming a code is a transaction of two             *)
(* compare-and-set statements on two rows; inviting is three statements on *)
(* their own; everything else is one statement.  A statement waits for     *)
(* the row a transaction holds.                                            *)
(*                                                                         *)
(* Abstracted: names and addresses, authorization of the owner, the bound  *)
(* on presenting a code (a code presented by anyone but the owner while it *)
(* is live is redeemed), permissions under a role.                         *)
(***************************************************************************)
EXTENDS Integers, FiniteSets

CONSTANTS
    Contacts,       \* ids of contacts rows
    Roles,          \* ids of role_assignments rows
    Invitations,    \* ids of contact_link_invitations rows
    Users,          \* accounts that redeem codes
    Requests,       \* bound: requests in flight at the same time
    Nobody          \* stands for no row or account

ASSUME PeopleAssumption ==
    Nobody \notin Contacts \cup Roles \cup Invitations \cup Users

VARIABLES
    contact,        \* contacts
    role,           \* role_assignments
    invitation,     \* contact_link_invitations
    req,            \* where each request is, and the rows its transaction holds
    links           \* history: which code linked which account

vars == <<contact, role, invitation, req, links>>

NoContact == [state |-> "absent", linked |-> Nobody]
NoRole == [state |-> "absent", contact |-> Nobody]
NoInvitation == [state |-> "absent", contact |-> Nobody, lapsed |-> FALSE, by |-> Nobody]

Idle == [op |-> "none", contact |-> Nobody, code |-> Nobody, user |-> Nobody, held |-> {}]

Init ==
    /\ contact = [c \in Contacts |-> NoContact]
    /\ role = [x \in Roles |-> NoRole]
    /\ invitation = [v \in Invitations |-> NoInvitation]
    /\ req = [r \in Requests |-> Idle]
    /\ links = {}

Unheld(row) == \A r \in Requests : row \notin req[r].held

At(r, op) == req[r].op = op

Begin(r, to) == req[r] = Idle /\ req' = [req EXCEPT ![r] = to]

Finish(r) == req' = [req EXCEPT ![r] = Idle]

CreateContact(c) ==
    /\ contact[c] = NoContact
    /\ contact' = [contact EXCEPT ![c].state = "live"]
    /\ UNCHANGED <<role, invitation, req, links>>

-----------------------------------------------------------------------------
(* Roles, and deleting a contact.                                          *)

UnheldOrGranting(op, c) == op = "grant" \/ Unheld(c)

\* SELECT ... FOR UPDATE.
LockIsFree(op, c) == Unheld(c)

\* insertForLockedContact and softDelete.
LockContact(r, op, c) ==
    /\ op \in {"grant", "delete"}
    /\ contact[c].state = "live"
    /\ LockIsFree(op, c)
    /\ Begin(r, [Idle EXCEPT !.op = op, !.contact = c, !.held = {c}])
    /\ UNCHANGED <<contact, role, invitation, links>>

GrantRole(r, x) ==
    /\ At(r, "grant")
    /\ role[x] = NoRole
    /\ role' = [role EXCEPT ![x] = [state |-> "live", contact |-> req[r].contact]]
    /\ Finish(r)
    /\ UNCHANGED <<contact, invitation, links>>

Named(c) == \E x \in Roles : role[x].state = "live" /\ role[x].contact = c

\* A designation stands in the way, or not; the row is deleted afterwards.
CheckRoles(r) ==
    /\ At(r, "delete")
    /\ req' = IF Named(req[r].contact) THEN [req EXCEPT ![r] = Idle]
              ELSE [req EXCEPT ![r].op = "unused"]
    /\ UNCHANGED <<contact, role, invitation, links>>

DeleteContact(r) ==
    /\ At(r, "unused")
    /\ contact' = [contact EXCEPT ![req[r].contact].state = "deleted"]
    /\ Finish(r)
    /\ UNCHANGED <<role, invitation, links>>

RevokeRole(x) ==
    /\ role[x].state = "live"
    /\ role' = [role EXCEPT ![x].state = "revoked"]
    /\ UNCHANGED <<contact, invitation, req, links>>

-----------------------------------------------------------------------------
(* Codes.                                                                  *)

\* Live for the index, though it may have lapsed.
LiveCodes(c) == {v \in Invitations : invitation[v].state = "live" /\ invitation[v].contact = c}

\* invite: the contact is there and has no link ...
Invite(r, c) ==
    /\ contact[c] = [state |-> "live", linked |-> Nobody]
    /\ Begin(r, [Idle EXCEPT !.op = "invite", !.contact = c])
    /\ UNCHANGED <<contact, role, invitation, links>>

Revoked(c) ==
    [v \in Invitations |-> IF v \in LiveCodes(c) THEN [invitation[v] EXCEPT !.state = "revoked"]
                           ELSE invitation[v]]

\* ... the code before is retired ...
RetireCode(r) ==
    /\ At(r, "invite")
    /\ \A v \in LiveCodes(req[r].contact) : Unheld(v)
    /\ invitation' = Revoked(req[r].contact)
    /\ req' = [req EXCEPT ![r].op = "retired"]
    /\ UNCHANGED <<contact, role, links>>

\* ... and one is inserted, which the unique index may refuse.
InsertCode(r, v) ==
    LET c == req[r].contact IN
    /\ At(r, "retired")
    /\ invitation[v] = NoInvitation
    /\ \A w \in LiveCodes(c) : Unheld(w)
    /\ invitation' = IF LiveCodes(c) # {} THEN invitation
                     ELSE [invitation EXCEPT ![v] = [NoInvitation EXCEPT !.state = "live",
                                                                         !.contact = c]]
    /\ Finish(r)
    /\ UNCHANGED <<contact, role, links>>

RevokeInvitation(c) ==
    /\ LiveCodes(c) # {}
    /\ \A v \in LiveCodes(c) : Unheld(v)
    /\ invitation' = Revoked(c)
    /\ UNCHANGED <<contact, role, req, links>>

Lapse(v) ==
    /\ invitation[v].state = "live"
    /\ ~invitation[v].lapsed
    /\ invitation' = [invitation EXCEPT ![v].lapsed = TRUE]
    /\ UNCHANGED <<contact, role, req, links>>

Redeemable(v) == invitation[v].state = "live" /\ ~invitation[v].lapsed

\* redeem: the code as it is read ...
Present(r, v, u) ==
    /\ Redeemable(v)
    /\ Begin(r, [Idle EXCEPT !.op = "redeem", !.code = v, !.user = u,
                             !.contact = invitation[v].contact])
    /\ UNCHANGED <<contact, role, invitation, links>>

\* ... as the transaction finds it, by its own clock of before ...
Spendable(v) == invitation[v].state = "live"

Spend(r) ==
    /\ At(r, "redeem")
    /\ Unheld(req[r].code)
    /\ req' = IF Spendable(req[r].code)
              THEN [req EXCEPT ![r].op = "spent", ![r].held = {req[r].code}]
              ELSE [req EXCEPT ![r] = Idle]
    /\ UNCHANGED <<contact, role, invitation, links>>

Linkable(c) == contact[c] = [state |-> "live", linked |-> Nobody]

SpentAnyway(r) ==
    [invitation EXCEPT ![req[r].code].state = "redeemed", ![req[r].code].by = req[r].user]

\* InvitationRaceError undoes the spending.
SpentWithLink(r) ==
    IF Linkable(req[r].contact) THEN SpentAnyway(r) ELSE invitation

\* ... and the contact linked, both or neither.
Link(r) ==
    /\ At(r, "spent")
    /\ Unheld(req[r].contact)
    /\ invitation' = SpentWithLink(r)
    /\ IF Linkable(req[r].contact)
       THEN /\ contact' = [contact EXCEPT ![req[r].contact].linked = req[r].user]
            /\ links' = links \cup {<<req[r].contact, req[r].code, req[r].user>>}
       ELSE UNCHANGED <<contact, links>>
    /\ Finish(r)
    /\ UNCHANGED role

Unlink(c) ==
    /\ contact[c].state = "live"
    /\ contact[c].linked # Nobody
    /\ Unheld(c)
    /\ contact' = [contact EXCEPT ![c].linked = Nobody]
    /\ UNCHANGED <<role, invitation, req, links>>

\* Refused further on, or the process dies: a transaction rolls back.
Fails(r) ==
    /\ req[r] # Idle
    /\ Finish(r)
    /\ UNCHANGED <<contact, role, invitation, links>>

-----------------------------------------------------------------------------
Next ==
    \/ \E c \in Contacts : CreateContact(c) \/ RevokeInvitation(c) \/ Unlink(c)
    \/ \E x \in Roles : RevokeRole(x)
    \/ \E v \in Invitations : Lapse(v)
    \/ \E r \in Requests :
          \/ \E op \in {"grant", "delete"}, c \in Contacts : LockContact(r, op, c)
          \/ \E x \in Roles : GrantRole(r, x)
          \/ CheckRoles(r) \/ DeleteContact(r)
          \/ \E c \in Contacts : Invite(r, c)
          \/ RetireCode(r)
          \/ \E v \in Invitations : InsertCode(r, v)
          \/ \E v \in Invitations, u \in Users : Present(r, v, u)
          \/ Spend(r) \/ Link(r) \/ Fails(r)

Spec == Init /\ [][Next]_vars

-----------------------------------------------------------------------------
(* Properties.                                                             *)

Ops == {"none", "grant", "delete", "unused", "invite", "retired", "redeem", "spent"}

ContactRows == [state : {"absent", "live", "deleted"}, linked : Users \cup {Nobody}]

RoleRows == [state : {"absent", "live", "revoked"}, contact : Contacts \cup {Nobody}]

InvitationRows ==
    [state : {"absent", "live", "redeemed", "revoked"}, contact : Contacts \cup {Nobody},
     lapsed : BOOLEAN, by : Users \cup {Nobody}]

RequestStates ==
    [op : Ops, contact : Contacts \cup {Nobody}, code : Invitations \cup {Nobody},
     user : Users \cup {Nobody}, held : SUBSET (Contacts \cup Invitations)]

\* Every variable stays in its domain.
TypeOK ==
    /\ contact \in [Contacts -> ContactRows]
    /\ role \in [Roles -> RoleRows]
    /\ invitation \in [Invitations -> InvitationRows]
    /\ req \in [Requests -> RequestStates]
    /\ links \subseteq Contacts \X Invitations \X Users

\* A live designation always names a live contact: deleting a contact never retires
\* a fiduciary by the way, whichever grant it races.
RolesHaveContacts ==
    \A x \in Roles : role[x].state = "live" => contact[role[x].contact].state = "live"

\* A code is spent if and only if it made its link, and makes one at most: whatever
\* redemptions, unlinkings and deletions overlap, nobody is locked out by a code
\* that was spent for nothing and none is used twice.
SpentMeansLinked ==
    \A v \in Invitations :
        /\ invitation[v].state = "redeemed" <=>
              \E l \in links : l[2] = v
        /\ Cardinality({l \in links : l[2] = v}) <= 1
        /\ \A l \in links : l[2] = v => l[1] = invitation[v].contact /\ l[3] = invitation[v].by

\* A link is never moved from one account to another: only to nobody, and from
\* nobody by a code that its owner has not withdrawn.
LinksDoNotMove ==
    [][\A c \in Contacts : contact'[c].linked # contact[c].linked =>
          \/ contact'[c].linked = Nobody
          \/ /\ contact[c].linked = Nobody
             /\ \E v \in LiveCodes(c) :
                   invitation'[v].state = "redeemed" /\ invitation'[v].by = contact'[c].linked]_vars

-----------------------------------------------------------------------------
(* A hazard the code is exposed to.                                        *)

\* No code waits for a contact that is linked already.
NoCodeForLinked == \A c \in Contacts : contact[c].linked # Nobody => LiveCodes(c) = {}
=============================================================================
