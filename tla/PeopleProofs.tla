----------------------------- MODULE PeopleProofs -----------------------------
(* What holds of People for every value of its constants: any number of      *)
(* contacts, roles, codes, accounts and requests in flight.                  *)
EXTENDS People, FiniteSetTheorems, TLAPS

-----------------------------------------------------------------------------
(* The inductive invariant.                                                *)

\* What a request found is still so: the contact it locked is live, one about to be
\* deleted has no designation, a code it is spending is live and its own.
RequestOK(r) ==
    /\ req[r].op \in {"grant", "delete", "unused"} =>
          /\ req[r].contact \in Contacts
          /\ req[r].held = {req[r].contact}
          /\ contact[req[r].contact].state = "live"
    /\ req[r].op = "unused" => ~Named(req[r].contact)
    /\ req[r].op \in {"invite", "retired"} => req[r].contact \in Contacts
    /\ req[r].op \in {"redeem", "spent"} =>
          /\ req[r].code \in Invitations
          /\ req[r].user \in Users
          /\ invitation[req[r].code].state # "absent"
          /\ invitation[req[r].code].contact = req[r].contact
    /\ req[r].op = "spent" =>
          req[r].held = {req[r].code} /\ invitation[req[r].code].state = "live"
    /\ req[r].op \in {"none", "invite", "retired", "redeem"} => req[r].held = {}

\* A code that was issued names its contact; it is spent just if it made a link, and
\* that link is of its contact to the account it was spent by.
CodeOK(v) ==
    /\ invitation[v].state # "absent" => invitation[v].contact \in Contacts
    /\ invitation[v].state = "redeemed" <=> \E l \in links : l[2] = v
    /\ \A l \in links : l[2] = v => l[1] = invitation[v].contact /\ l[3] = invitation[v].by

\* A live designation names a contact, and a live one.
RolesOK ==
    \A x \in Roles : role[x].state = "live" =>
        role[x].contact \in Contacts /\ contact[role[x].contact].state = "live"

\* A row is locked by one transaction.
Exclusive == \A q, r \in Requests : q # r => req[q].held \cap req[r].held = {}

PeopleInv ==
    /\ TypeOK
    /\ RolesOK
    /\ \A v \in Invitations : CodeOK(v)
    /\ \A r \in Requests : RequestOK(r)
    /\ Exclusive

LEMMA Typed ==
    /\ NoContact \in ContactRows /\ NoRole \in RoleRows /\ NoInvitation \in InvitationRows
    /\ Idle \in RequestStates /\ Idle.op = "none" /\ Idle.held = {}
BY DEF NoContact, ContactRows, NoRole, RoleRows, NoInvitation, InvitationRows, Idle,
       RequestStates, Ops

LEMMA InitPeopleInv == Init => PeopleInv
<1> SUFFICES ASSUME Init PROVE PeopleInv
  OBVIOUS
<1>1. TypeOK
  BY Typed DEF Init, TypeOK
<1>2. RolesOK /\ Exclusive
  BY Typed DEF Init, RolesOK, Exclusive, NoRole
<1>3. ASSUME NEW v \in Invitations PROVE CodeOK(v)
  BY DEF Init, CodeOK, NoInvitation
<1>4. ASSUME NEW r \in Requests PROVE RequestOK(r)
  BY Typed DEF Init, RequestOK
<1> QED BY <1>1, <1>2, <1>3, <1>4 DEF PeopleInv

-----------------------------------------------------------------------------
(* Steps that change no row.                                               *)

LEMMA RequestMoves ==
    ASSUME PeopleInv, NEW r \in Requests, NEW to \in RequestStates,
           req' = [req EXCEPT ![r] = to],
           UNCHANGED <<contact, role, invitation, links>>,
           RequestOK(r)', \A q \in Requests \ {r} : req[q].held \cap to.held = {}
    PROVE  PeopleInv'
<1> USE DEF PeopleInv
<1>1. /\ req' \in [Requests -> RequestStates]
      /\ \A q \in Requests : req'[q] = IF q = r THEN to ELSE req[q]
  BY DEF TypeOK
<1>2. TypeOK' /\ RolesOK'
  BY <1>1 DEF TypeOK, RolesOK
<1>3. \A v \in Invitations : CodeOK(v)'
  BY DEF CodeOK
<1>4. ASSUME NEW q \in Requests \ {r} PROVE RequestOK(q)'
  BY <1>1 DEF RequestOK, Named
<1>5. Exclusive'
  BY <1>1 DEF Exclusive
<1> QED BY <1>2, <1>3, <1>4, <1>5

LEMMA BackToIdle ==
    ASSUME PeopleInv, NEW r \in Requests, Finish(r),
           UNCHANGED <<contact, role, invitation, links>>
    PROVE  PeopleInv'
<1>1. req' = [req EXCEPT ![r] = Idle] /\ req'[r] = Idle
  BY DEF Finish, PeopleInv, TypeOK
<1>2. RequestOK(r)'
  BY <1>1, Typed DEF RequestOK
<1> QED BY <1>1, <1>2, Typed, RequestMoves

LEMMA LockContactStep ==
    ASSUME PeopleInv, NEW r \in Requests, NEW op \in {"grant", "delete"}, NEW c \in Contacts,
           LockContact(r, op, c)
    PROVE  PeopleInv'
<1> DEFINE to == [Idle EXCEPT !.op = op, !.contact = c, !.held = {c}]
<1>1. to \in RequestStates /\ to.op = op /\ to.contact = c /\ to.held = {c}
  BY DEF Idle, RequestStates, Ops
<1>2. req' = [req EXCEPT ![r] = to] /\ UNCHANGED <<contact, role, invitation, links>>
  BY DEF LockContact, Begin
<1> HIDE DEF to
<1>3. req'[r] = to
  BY <1>2 DEF PeopleInv, TypeOK
<1>4. RequestOK(r)'
  BY <1>1, <1>2, <1>3 DEF RequestOK, LockContact
<1>5. \A q \in Requests \ {r} : req[q].held \cap to.held = {}
  BY <1>1 DEF LockContact, LockIsFree, Unheld
<1> QED BY <1>1, <1>2, <1>4, <1>5, RequestMoves

LEMMA CheckRolesStep ==
    ASSUME PeopleInv, NEW r \in Requests, CheckRoles(r)
    PROVE  PeopleInv'
<1> USE DEF PeopleInv
<1>1. CASE Named(req[r].contact)
  BY <1>1, BackToIdle DEF CheckRoles, Finish
<1>2. CASE ~Named(req[r].contact)
  <2> DEFINE to == [req[r] EXCEPT !.op = "unused"]
  <2>1. req[r] \in RequestStates /\ RequestOK(r) /\ req[r].op = "delete"
    BY DEF TypeOK, CheckRoles, At
  <2>2. to \in RequestStates /\ to.op = "unused" /\ to.contact = req[r].contact /\ to.held = req[r].held
    BY <2>1 DEF RequestStates, Ops
  <2>3. req' = [req EXCEPT ![r] = to] /\ UNCHANGED <<contact, role, invitation, links>>
    BY <1>2 DEF CheckRoles
  <2> HIDE DEF to
  <2>4. req'[r] = to
    BY <2>3 DEF TypeOK
  <2>5. RequestOK(r)'
    BY <1>2, <2>1, <2>2, <2>3, <2>4 DEF RequestOK, Named
  <2>6. \A q \in Requests \ {r} : req[q].held \cap to.held = {}
    BY <2>2 DEF Exclusive
  <2> QED BY <2>2, <2>3, <2>5, <2>6, RequestMoves
<1> QED BY <1>1, <1>2

LEMMA InviteStep ==
    ASSUME PeopleInv, NEW r \in Requests, NEW c \in Contacts, Invite(r, c)
    PROVE  PeopleInv'
<1> DEFINE to == [Idle EXCEPT !.op = "invite", !.contact = c]
<1>1. to \in RequestStates /\ to.op = "invite" /\ to.contact = c /\ to.held = {}
  BY DEF Idle, RequestStates, Ops
<1>2. req' = [req EXCEPT ![r] = to] /\ UNCHANGED <<contact, role, invitation, links>>
  BY DEF Invite, Begin
<1> HIDE DEF to
<1>3. req'[r] = to
  BY <1>2 DEF PeopleInv, TypeOK
<1>4. RequestOK(r)'
  BY <1>1, <1>3 DEF RequestOK
<1> QED BY <1>1, <1>2, <1>4, RequestMoves

LEMMA PresentStep ==
    ASSUME PeopleInv, NEW r \in Requests, NEW v \in Invitations, NEW u \in Users, Present(r, v, u)
    PROVE  PeopleInv'
<1> DEFINE to == [Idle EXCEPT !.op = "redeem", !.code = v, !.user = u,
                              !.contact = invitation[v].contact]
<1>1. invitation[v] \in InvitationRows /\ invitation[v].state = "live"
  BY DEF Present, Redeemable, PeopleInv, TypeOK
<1>2. /\ to \in RequestStates /\ to.op = "redeem" /\ to.contact = invitation[v].contact
      /\ to.code = v /\ to.user = u /\ to.held = {}
  BY <1>1 DEF Idle, RequestStates, Ops, InvitationRows
<1>3. req' = [req EXCEPT ![r] = to] /\ UNCHANGED <<contact, role, invitation, links>>
  BY DEF Present, Begin
<1> HIDE DEF to
<1>4. req'[r] = to
  BY <1>3 DEF PeopleInv, TypeOK
<1>5. RequestOK(r)'
  BY <1>1, <1>2, <1>3, <1>4 DEF RequestOK
<1> QED BY <1>2, <1>3, <1>5, RequestMoves

LEMMA SpendStep ==
    ASSUME PeopleInv, NEW r \in Requests, Spend(r)
    PROVE  PeopleInv'
<1> USE DEF PeopleInv
<1>1. CASE ~Spendable(req[r].code)
  BY <1>1, BackToIdle DEF Spend, Finish
<1>2. CASE Spendable(req[r].code)
  <2> DEFINE to == [req[r] EXCEPT !.op = "spent", !.held = {req[r].code}]
  <2>1. req[r] \in RequestStates /\ RequestOK(r) /\ req[r].op = "redeem" /\ req[r].code \in Invitations
    BY DEF TypeOK, Spend, At, RequestOK
  <2>2. /\ to \in RequestStates /\ to.op = "spent" /\ to.contact = req[r].contact
        /\ to.code = req[r].code /\ to.user = req[r].user /\ to.held = {req[r].code}
    BY <2>1 DEF RequestStates, Ops
  <2>3. req' = [req EXCEPT ![r] = to] /\ UNCHANGED <<contact, role, invitation, links>>
    BY <1>2 DEF Spend, TypeOK
  <2> HIDE DEF to
  <2>4. req'[r] = to
    BY <2>3 DEF TypeOK
  <2>5. RequestOK(r)'
    BY <1>2, <2>1, <2>2, <2>3, <2>4 DEF RequestOK, Spendable
  <2>6. \A q \in Requests \ {r} : req[q].held \cap to.held = {}
    BY <2>2 DEF Spend, Unheld
  <2> QED BY <2>2, <2>3, <2>5, <2>6, RequestMoves
<1> QED BY <1>1, <1>2

-----------------------------------------------------------------------------
(* Steps that change a row.                                                *)

\* A request that does not move still finds what it found, if its contact stays
\* live and gets no designation while locked, and its code stays as it is.
LEMMA RequestKept ==
    ASSUME PeopleInv, NEW q \in Requests, req'[q] = req[q],
           \A c \in Contacts : c \in req[q].held /\ contact[c].state = "live" =>
              contact'[c].state = "live" /\ (Named(c)' => Named(c)),
           \A v \in Invitations : invitation[v].state # "absent" =>
              /\ invitation'[v].state # "absent" /\ invitation'[v].contact = invitation[v].contact
              /\ v \in req[q].held /\ invitation[v].state = "live" => invitation'[v].state = "live"
    PROVE  RequestOK(q)'
<1>1. RequestOK(q)
  BY DEF PeopleInv
<1>2. req[q].op \in {"grant", "delete", "unused"} =>
          /\ req[q].contact \in Contacts /\ req[q].contact \in req[q].held
          /\ contact[req[q].contact].state = "live"
  BY <1>1 DEF RequestOK
<1>3. req[q].op \in {"grant", "delete", "unused"} => contact'[req[q].contact].state = "live"
  BY <1>2
<1>4. ASSUME NEW c \in Contacts, c = req[q].contact, req[q].op = "unused" PROVE ~Named(c)'
  BY <1>1, <1>2, <1>4 DEF RequestOK
<1>5. req[q].op = "unused" => ~Named(req[q].contact)'
  BY <1>2, <1>4 DEF Named
<1>6. req[q].op = "spent" => invitation'[req[q].code].state = "live"
  BY <1>1 DEF RequestOK
<1>7. req[q].op \in {"redeem", "spent"} =>
          /\ invitation'[req[q].code].state # "absent"
          /\ invitation'[req[q].code].contact = req[q].contact
  BY <1>1 DEF RequestOK
<1> QED BY <1>1, <1>3, <1>5, <1>6, <1>7 DEF RequestOK

\* The request that commits is over; whoever else holds a row keeps it.
LEMMA Commits ==
    ASSUME PeopleInv, NEW r \in Requests, Finish(r),
           contact' \in [Contacts -> ContactRows], role' \in [Roles -> RoleRows],
           invitation' \in [Invitations -> InvitationRows],
           links' \subseteq Contacts \X Invitations \X Users,
           RolesOK', \A v \in Invitations : CodeOK(v)',
           \A q \in Requests \ {r} : req'[q] = req[q] => RequestOK(q)'
    PROVE  PeopleInv'
<1> USE DEF PeopleInv
<1>1. /\ req' \in [Requests -> RequestStates] /\ req'[r] = Idle
      /\ \A q \in Requests \ {r} : req'[q] = req[q]
  BY Typed DEF Finish, TypeOK
<1>2. RequestOK(r)'
  BY <1>1, Typed DEF RequestOK
<1>3. Exclusive'
  BY <1>1, Typed DEF Exclusive
<1> QED BY <1>1, <1>2, <1>3 DEF TypeOK

\* One statement, while the requests stay where they are.
LEMMA Statement ==
    ASSUME PeopleInv, UNCHANGED <<req, links>>,
           contact' \in [Contacts -> ContactRows], role' \in [Roles -> RoleRows],
           invitation' \in [Invitations -> InvitationRows],
           RolesOK', \A v \in Invitations : CodeOK(v)',
           \A q \in Requests : req'[q] = req[q] => RequestOK(q)'
    PROVE  PeopleInv'
BY DEF PeopleInv, TypeOK, Exclusive

\* A live code may be withdrawn or lapse, and a code be issued, without a link.
LEMMA CodesKept ==
    ASSUME PeopleInv, UNCHANGED links, invitation' \in [Invitations -> InvitationRows],
           \A v \in Invitations :
              \/ invitation'[v] = invitation[v]
              \/ /\ invitation[v].state = "live" /\ invitation'[v].state \in {"live", "revoked"}
                 /\ invitation'[v].contact = invitation[v].contact
              \/ /\ invitation[v].state = "absent" /\ invitation'[v].state = "live"
                 /\ invitation'[v].contact \in Contacts
    PROVE  \A v \in Invitations : CodeOK(v)'
<1> SUFFICES ASSUME NEW v \in Invitations PROVE CodeOK(v)'
  OBVIOUS
<1>1. CodeOK(v)
  BY DEF PeopleInv
<1>2. CASE invitation'[v] = invitation[v]
  BY <1>1, <1>2 DEF CodeOK
<1>3. CASE invitation'[v] # invitation[v]
  <2>1. invitation[v].state # "redeemed" /\ invitation'[v].state # "redeemed"
    BY <1>3
  <2>2. ~\E l \in links : l[2] = v
    BY <1>1, <2>1 DEF CodeOK
  <2>3. invitation'[v].contact \in Contacts
    BY <1>1, <1>3 DEF CodeOK
  <2> QED BY <2>1, <2>2, <2>3 DEF CodeOK
<1> QED BY <1>2, <1>3

LEMMA CreateContactStep ==
    ASSUME PeopleInv, NEW c \in Contacts, CreateContact(c)
    PROVE  PeopleInv'
<1> USE DEF PeopleInv
<1>1. /\ contact' \in [Contacts -> ContactRows] /\ contact'[c].state = "live"
      /\ \A d \in Contacts \ {c} : contact'[d] = contact[d]
      /\ UNCHANGED <<role, invitation, req, links>>
  BY DEF CreateContact, TypeOK, ContactRows
<1>2. \A d \in Contacts : contact[d].state = "live" => contact'[d].state = "live"
  BY <1>1
<1>3. role' \in [Roles -> RoleRows] /\ invitation' \in [Invitations -> InvitationRows]
  BY <1>1 DEF TypeOK
<1>4. RolesOK'
  BY <1>1, <1>2 DEF RolesOK
<1>5. \A v \in Invitations : CodeOK(v)'
  BY <1>1, <1>3, CodesKept
<1>6. ASSUME NEW q \in Requests PROVE RequestOK(q)'
  BY <1>1, <1>2, RequestKept DEF Named
<1> QED BY <1>1, <1>3, <1>4, <1>5, <1>6, Statement

LEMMA UnlinkStep ==
    ASSUME PeopleInv, NEW c \in Contacts, Unlink(c)
    PROVE  PeopleInv'
<1> USE DEF PeopleInv
<1>1. /\ contact' \in [Contacts -> ContactRows]
      /\ \A d \in Contacts : contact'[d].state = contact[d].state
      /\ UNCHANGED <<role, invitation, req, links>>
  BY DEF Unlink, TypeOK, ContactRows
<1>2. role' \in [Roles -> RoleRows] /\ invitation' \in [Invitations -> InvitationRows]
  BY <1>1 DEF TypeOK
<1>3. RolesOK'
  BY <1>1 DEF RolesOK
<1>4. \A v \in Invitations : CodeOK(v)'
  BY <1>1, <1>2, CodesKept
<1>5. ASSUME NEW q \in Requests PROVE RequestOK(q)'
  BY <1>1, RequestKept DEF Named
<1> QED BY <1>1, <1>2, <1>3, <1>4, <1>5, Statement

LEMMA RevokeRoleStep ==
    ASSUME PeopleInv, NEW x \in Roles, RevokeRole(x)
    PROVE  PeopleInv'
<1> USE DEF PeopleInv
<1>1. /\ role' \in [Roles -> RoleRows]
      /\ \A y \in Roles : role'[y].state = "live" => role'[y] = role[y]
      /\ UNCHANGED <<contact, invitation, req, links>>
  BY DEF RevokeRole, TypeOK, RoleRows
<1>2. contact' \in [Contacts -> ContactRows] /\ invitation' \in [Invitations -> InvitationRows]
  BY <1>1 DEF TypeOK
<1>3. RolesOK'
  BY <1>1 DEF RolesOK
<1>4. \A v \in Invitations : CodeOK(v)'
  BY <1>1, <1>2, CodesKept
<1>5. ASSUME NEW q \in Requests PROVE RequestOK(q)'
  BY <1>1, RequestKept DEF Named
<1> QED BY <1>1, <1>2, <1>3, <1>4, <1>5, Statement

\* Withdrawing the live codes of a contact, none of them being spent.
LEMMA WithdrawsCodes ==
    ASSUME PeopleInv, NEW c, \A v \in LiveCodes(c) : Unheld(v), invitation' = Revoked(c),
           UNCHANGED <<contact, role, links>>
    PROVE  /\ invitation' \in [Invitations -> InvitationRows]
           /\ \A v \in Invitations : CodeOK(v)'
           /\ \A q \in Requests : req'[q] = req[q] => RequestOK(q)'
<1> USE DEF PeopleInv
<1>1. ASSUME NEW v \in Invitations
      PROVE  /\ invitation'[v] \in InvitationRows
             /\ invitation'[v].contact = invitation[v].contact
             /\ \/ invitation'[v] = invitation[v]
                \/ Unheld(v) /\ invitation[v].state = "live" /\ invitation'[v].state = "revoked"
  <2>1. invitation'[v] = IF v \in LiveCodes(c) THEN [invitation[v] EXCEPT !.state = "revoked"]
                         ELSE invitation[v]
    BY DEF Revoked
  <2>2. invitation[v] \in InvitationRows
    BY DEF TypeOK
  <2> QED BY <2>1, <2>2 DEF InvitationRows, LiveCodes
<1>2. invitation' = [v \in Invitations |-> invitation'[v]]
  BY DEF Revoked
<1>3. invitation' \in [Invitations -> InvitationRows]
  BY <1>1, <1>2
<1>4. \A v \in Invitations : CodeOK(v)'
  BY <1>1, <1>3, CodesKept
<1>5. ASSUME NEW q \in Requests, req'[q] = req[q] PROVE RequestOK(q)'
  <2>1. \A v \in Invitations : v \in req[q].held => invitation'[v] = invitation[v]
    BY <1>1 DEF Unheld
  <2> QED BY <1>1, <1>5, <2>1, RequestKept DEF Named
<1> QED BY <1>3, <1>4, <1>5

LEMMA RevokeInvitationStep ==
    ASSUME PeopleInv, NEW c \in Contacts, RevokeInvitation(c)
    PROVE  PeopleInv'
<1>1. /\ \A v \in LiveCodes(c) : Unheld(v)
      /\ UNCHANGED <<contact, role, req, links>> /\ invitation' = Revoked(c)
  BY DEF RevokeInvitation
<1>2. contact' \in [Contacts -> ContactRows] /\ role' \in [Roles -> RoleRows] /\ RolesOK'
  BY <1>1 DEF PeopleInv, TypeOK, RolesOK
<1> QED BY <1>1, <1>2, WithdrawsCodes, Statement

LEMMA RetireCodeStep ==
    ASSUME PeopleInv, NEW r \in Requests, RetireCode(r)
    PROVE  PeopleInv'
<1> USE DEF PeopleInv
<1> DEFINE to == [req[r] EXCEPT !.op = "retired"]
<1>0. PICK c \in Contacts : c = req[r].contact
  BY DEF RequestOK, RetireCode, At
<1>1. /\ \A v \in LiveCodes(c) : Unheld(v)
      /\ invitation' = Revoked(c) /\ UNCHANGED <<contact, role, links>>
      /\ req' = [req EXCEPT ![r] = to]
  BY <1>0 DEF RetireCode
<1>2. req[r] \in RequestStates /\ req[r].op = "invite" /\ RequestOK(r)
  BY DEF RetireCode, At, TypeOK
<1>3. to \in RequestStates /\ to.op = "retired" /\ to.contact = c /\ to.held = {}
  BY <1>0, <1>2 DEF RequestStates, Ops, RequestOK
<1> HIDE DEF to
<1>4. /\ req' \in [Requests -> RequestStates] /\ req'[r] = to
      /\ \A q \in Requests \ {r} : req'[q] = req[q]
  BY <1>1, <1>3 DEF TypeOK
<1>5. /\ invitation' \in [Invitations -> InvitationRows]
      /\ \A v \in Invitations : CodeOK(v)'
      /\ \A q \in Requests : req'[q] = req[q] => RequestOK(q)'
  BY <1>1, WithdrawsCodes
<1>6. RequestOK(r)'
  BY <1>3, <1>4 DEF RequestOK
<1>7. TypeOK' /\ RolesOK'
  BY <1>1, <1>4, <1>5 DEF TypeOK, RolesOK
<1>8. Exclusive'
  BY <1>3, <1>4 DEF Exclusive
<1> QED BY <1>4, <1>5, <1>6, <1>7, <1>8

LEMMA LapseStep ==
    ASSUME PeopleInv, NEW v \in Invitations, Lapse(v)
    PROVE  PeopleInv'
<1> USE DEF PeopleInv
<1>1. /\ invitation' \in [Invitations -> InvitationRows]
      /\ UNCHANGED <<contact, role, req, links>>
      /\ \A w \in Invitations :
            /\ invitation'[w].state = invitation[w].state
            /\ invitation'[w].contact = invitation[w].contact
            /\ invitation'[w] = invitation[w] \/ invitation[w].state = "live"
  BY DEF Lapse, TypeOK, InvitationRows
<1>2. contact' \in [Contacts -> ContactRows] /\ role' \in [Roles -> RoleRows] /\ RolesOK'
  BY <1>1 DEF TypeOK, RolesOK
<1>3. \A w \in Invitations : CodeOK(w)'
  BY <1>1, CodesKept
<1>4. ASSUME NEW q \in Requests PROVE RequestOK(q)'
  BY <1>1, RequestKept DEF Named
<1> QED BY <1>1, <1>2, <1>3, <1>4, Statement

LEMMA GrantRoleStep ==
    ASSUME PeopleInv, NEW r \in Requests, NEW x \in Roles, GrantRole(r, x)
    PROVE  PeopleInv'
<1> USE DEF PeopleInv
<1>0. PICK c \in Contacts : c = req[r].contact /\ req[r].held = {c} /\ contact[c].state = "live"
  BY DEF RequestOK, GrantRole, At
<1>1. /\ role' = [role EXCEPT ![x] = [state |-> "live", contact |-> c]]
      /\ Finish(r) /\ UNCHANGED <<contact, invitation, links>>
  BY <1>0 DEF GrantRole
<1>2. /\ role' \in [Roles -> RoleRows] /\ role'[x] = [state |-> "live", contact |-> c]
      /\ \A y \in Roles \ {x} : role'[y] = role[y]
  BY <1>1 DEF TypeOK, RoleRows
<1>3. contact' \in [Contacts -> ContactRows] /\ invitation' \in [Invitations -> InvitationRows]
      /\ links' \subseteq Contacts \X Invitations \X Users
  BY <1>1 DEF TypeOK
<1>4. RolesOK'
  BY <1>0, <1>1, <1>2 DEF RolesOK
<1>5. \A v \in Invitations : CodeOK(v)'
  BY <1>1, <1>3, CodesKept
<1>6. ASSUME NEW q \in Requests \ {r}, req'[q] = req[q] PROVE RequestOK(q)'
  <2>1. c \notin req[q].held
    BY <1>0 DEF Exclusive
  <2>2. ASSUME NEW d \in Contacts, d # c, Named(d)' PROVE Named(d)
    BY <1>2, <2>2 DEF Named
  <2> QED BY <1>1, <1>6, <2>1, <2>2, RequestKept
<1> QED BY <1>1, <1>2, <1>3, <1>4, <1>5, <1>6, Commits

LEMMA DeleteContactStep ==
    ASSUME PeopleInv, NEW r \in Requests, DeleteContact(r)
    PROVE  PeopleInv'
<1> USE DEF PeopleInv
<1>0. PICK c \in Contacts : c = req[r].contact /\ req[r].held = {c} /\ ~Named(c)
  BY DEF RequestOK, DeleteContact, At
<1>1. /\ contact' = [contact EXCEPT ![c].state = "deleted"]
      /\ Finish(r) /\ UNCHANGED <<role, invitation, links>>
  BY <1>0 DEF DeleteContact
<1>2. /\ contact' \in [Contacts -> ContactRows]
      /\ \A d \in Contacts \ {c} : contact'[d] = contact[d]
  BY <1>1 DEF TypeOK, ContactRows
<1>3. role' \in [Roles -> RoleRows] /\ invitation' \in [Invitations -> InvitationRows]
      /\ links' \subseteq Contacts \X Invitations \X Users
  BY <1>1 DEF TypeOK
<1>4. RolesOK'
  BY <1>0, <1>1, <1>2 DEF RolesOK, Named
<1>5. \A v \in Invitations : CodeOK(v)'
  BY <1>1, <1>3, CodesKept
<1>6. ASSUME NEW q \in Requests \ {r}, req'[q] = req[q] PROVE RequestOK(q)'
  <2>1. c \notin req[q].held
    BY <1>0 DEF Exclusive
  <2>2. \A d \in Contacts : Named(d)' => Named(d)
    BY <1>1 DEF Named
  <2> QED BY <1>1, <1>2, <1>6, <2>1, <2>2, RequestKept
<1> QED BY <1>1, <1>2, <1>3, <1>4, <1>5, <1>6, Commits

LEMMA InsertCodeStep ==
    ASSUME PeopleInv, NEW r \in Requests, NEW v \in Invitations, InsertCode(r, v)
    PROVE  PeopleInv'
<1> USE DEF PeopleInv
<1>0. PICK c \in Contacts : c = req[r].contact
  BY DEF RequestOK, InsertCode, At
<1> DEFINE row == [NoInvitation EXCEPT !.state = "live", !.contact = c]
<1>1. /\ \/ invitation' = invitation
         \/ invitation[v] = NoInvitation /\ invitation' = [invitation EXCEPT ![v] = row]
      /\ Finish(r) /\ UNCHANGED <<contact, role, links>>
  BY <1>0 DEF InsertCode
<1>2. row \in InvitationRows /\ row.state = "live" /\ row.contact = c /\ NoInvitation.state = "absent"
  BY DEF NoInvitation, InvitationRows
<1> HIDE DEF row
<1>3. /\ invitation' \in [Invitations -> InvitationRows]
      /\ \A w \in Invitations :
            \/ invitation'[w] = invitation[w]
            \/ /\ invitation[w].state = "absent" /\ invitation'[w].state = "live"
               /\ invitation'[w].contact \in Contacts
  BY <1>1, <1>2 DEF TypeOK
<1>4. contact' \in [Contacts -> ContactRows] /\ role' \in [Roles -> RoleRows] /\ RolesOK'
      /\ links' \subseteq Contacts \X Invitations \X Users
  BY <1>1 DEF TypeOK, RolesOK
<1>5. \A w \in Invitations : CodeOK(w)'
  BY <1>1, <1>3, CodesKept
<1>6. ASSUME NEW q \in Requests \ {r}, req'[q] = req[q] PROVE RequestOK(q)'
  BY <1>1, <1>3, <1>6, RequestKept DEF Named
<1> QED BY <1>1, <1>3, <1>4, <1>5, <1>6, Commits

\* Spending a code and linking its contact happen together or not at all.
LEMMA LinkStep ==
    ASSUME PeopleInv, NEW r \in Requests, Link(r)
    PROVE  PeopleInv'
<1> USE DEF PeopleInv
<1>0. PICK c \in Contacts, v \in Invitations, u \in Users :
          /\ c = req[r].contact /\ v = req[r].code /\ u = req[r].user
          /\ req[r].held = {v} /\ invitation[v].state = "live" /\ invitation[v].contact = c
  BY DEF RequestOK, Link, At, CodeOK
<1>1. Finish(r) /\ UNCHANGED role
  BY DEF Link
<1>2. role' \in [Roles -> RoleRows]
  BY <1>1 DEF TypeOK
<1>3. CASE ~Linkable(c)
  <2>1. UNCHANGED <<contact, role, invitation, links>>
    BY <1>0, <1>3 DEF Link, SpentWithLink
  <2> QED BY <1>1, <2>1, BackToIdle
<1>4. CASE Linkable(c)
  <2>1. /\ contact' = [contact EXCEPT ![c].linked = u]
        /\ links' = links \cup {<<c, v, u>>}
        /\ invitation' = [invitation EXCEPT ![v].state = "redeemed", ![v].by = u]
    BY <1>0, <1>4 DEF Link, SpentWithLink, SpentAnyway
  <2>2. /\ contact' \in [Contacts -> ContactRows]
        /\ \A d \in Contacts : contact'[d].state = contact[d].state
    BY <2>1 DEF TypeOK, ContactRows
  <2> DEFINE row == [invitation[v] EXCEPT !.state = "redeemed", !.by = u]
  <2>3. invitation' = [invitation EXCEPT ![v] = row]
    BY <2>1 DEF TypeOK
  <2>4. /\ row \in InvitationRows /\ row.state = "redeemed" /\ row.by = u
        /\ row.contact = invitation[v].contact
    BY DEF TypeOK, InvitationRows
  <2> HIDE DEF row
  <2>5. /\ invitation' \in [Invitations -> InvitationRows] /\ invitation'[v] = row
        /\ \A w \in Invitations \ {v} : invitation'[w] = invitation[w]
    BY <2>3, <2>4 DEF TypeOK
  <2>6. links' \subseteq Contacts \X Invitations \X Users
    BY <2>1 DEF TypeOK
  <2>7. RolesOK'
    BY <1>1, <2>2 DEF RolesOK
  <2>8. \A l \in links : l[2] # v
    BY <1>0 DEF CodeOK
  <2>9. ASSUME NEW w \in Invitations PROVE CodeOK(w)'
    <3>1. CodeOK(w)
      OBVIOUS
    <3>2. CASE w = v
      <4>1. /\ invitation'[w].state = "redeemed" /\ invitation'[w].contact = c
            /\ invitation'[w].by = u
        BY <1>0, <2>4, <2>5, <3>2
      <4>2. <<c, v, u>>[1] = c /\ <<c, v, u>>[2] = v /\ <<c, v, u>>[3] = u
        OBVIOUS
      <4>3. \A l \in links' : l[2] = v => l = <<c, v, u>>
        BY <2>1, <2>8
      <4>4. <<c, v, u>> \in links'
        BY <2>1
      <4> QED BY <3>2, <4>1, <4>2, <4>3, <4>4 DEF CodeOK
    <3>3. CASE w # v
      <4>1. invitation'[w] = invitation[w]
        BY <2>5, <3>3
      <4>2. \A l : l[2] = w => (l \in links' <=> l \in links)
        BY <2>1, <3>3
      <4> QED BY <3>1, <4>1, <4>2 DEF CodeOK
    <3> QED BY <3>2, <3>3
  <2>10. ASSUME NEW q \in Requests \ {r}, req'[q] = req[q] PROVE RequestOK(q)'
    <3>1. v \notin req[q].held
      BY <1>0 DEF Exclusive
    <3>2. \A d \in Contacts : Named(d)' => Named(d)
      BY <1>1 DEF Named
    <3>3. \A w \in Invitations : invitation[w].state # "absent" =>
             /\ invitation'[w].state # "absent" /\ invitation'[w].contact = invitation[w].contact
             /\ w # v => invitation'[w] = invitation[w]
      BY <2>4, <2>5
    <3> QED BY <2>2, <2>10, <3>1, <3>2, <3>3, RequestKept
  <2> QED BY <1>1, <1>2, <2>2, <2>5, <2>6, <2>7, <2>9, <2>10, Commits
<1> QED BY <1>3, <1>4

-----------------------------------------------------------------------------
(* Every step, and the theorems.                                           *)

LEMMA NextPeopleInv == PeopleInv /\ [Next]_vars => PeopleInv'
<1> SUFFICES ASSUME PeopleInv, [Next]_vars PROVE PeopleInv'
  OBVIOUS
<1>1. ASSUME NEW c \in Contacts, CreateContact(c) \/ RevokeInvitation(c) \/ Unlink(c)
      PROVE  PeopleInv'
  BY <1>1, CreateContactStep, RevokeInvitationStep, UnlinkStep
<1>2. ASSUME NEW x \in Roles, RevokeRole(x) PROVE PeopleInv'
  BY <1>2, RevokeRoleStep
<1>3. ASSUME NEW v \in Invitations, Lapse(v) PROVE PeopleInv'
  BY <1>3, LapseStep
<1>4. ASSUME NEW r \in Requests,
             \/ \E op \in {"grant", "delete"}, c \in Contacts : LockContact(r, op, c)
             \/ \E x \in Roles : GrantRole(r, x)
             \/ CheckRoles(r) \/ DeleteContact(r)
      PROVE  PeopleInv'
  BY <1>4, LockContactStep, GrantRoleStep, CheckRolesStep, DeleteContactStep
<1>5. ASSUME NEW r \in Requests,
             \/ \E c \in Contacts : Invite(r, c)
             \/ RetireCode(r)
             \/ \E v \in Invitations : InsertCode(r, v)
             \/ \E v \in Invitations, u \in Users : Present(r, v, u)
      PROVE  PeopleInv'
  BY <1>5, InviteStep, RetireCodeStep, InsertCodeStep, PresentStep
<1>6. ASSUME NEW r \in Requests, Spend(r) \/ Link(r) \/ Fails(r) PROVE PeopleInv'
  BY <1>6, SpendStep, LinkStep, BackToIdle DEF Fails
<1>7. CASE UNCHANGED vars
  BY <1>7 DEF vars, PeopleInv, TypeOK, RolesOK, CodeOK, RequestOK, Named, Exclusive
<1> QED BY <1>1, <1>2, <1>3, <1>4, <1>5, <1>6, <1>7 DEF Next

LEMMA AlwaysPeopleInv == Spec => []PeopleInv
BY InitPeopleInv, NextPeopleInv, PTL DEF Spec

\* Every variable stays in its domain.
THEOREM TypeCorrect == Spec => []TypeOK
BY AlwaysPeopleInv, PTL DEF PeopleInv

\* No live designation loses its contact, whichever grant a deletion races
\* (insertForLockedContact, softDelete).
THEOREM RolesHaveContactsHolds == Spec => []RolesHaveContacts
<1>1. PeopleInv => RolesHaveContacts
  BY DEF PeopleInv, RolesOK, RolesHaveContacts
<1> QED BY <1>1, AlwaysPeopleInv, PTL

\* A code is spent just if it made its link, and makes one at most (redeem).
THEOREM SpentMeansLinkedHolds == Spec => []SpentMeansLinked
<1>1. ASSUME PeopleInv PROVE SpentMeansLinked
  <2>1. ASSUME NEW v \in Invitations PROVE Cardinality({l \in links : l[2] = v}) <= 1
    <3> DEFINE S == {l \in links : l[2] = v}
    <3>1. CodeOK(v) /\ links \subseteq Contacts \X Invitations \X Users
      BY <1>1 DEF PeopleInv, TypeOK
    <3>2. \A l \in S : l = <<invitation[v].contact, v, invitation[v].by>>
      BY <3>1 DEF CodeOK
    <3>3. S = {} \/ S = {<<invitation[v].contact, v, invitation[v].by>>}
      BY <3>2
    <3> HIDE DEF S
    <3>4. Cardinality({}) = 0 /\ \A l : Cardinality({l}) = 1
      BY FS_EmptySet, FS_Singleton
    <3>5. Cardinality(S) \in {0, 1}
      BY <3>3, <3>4
    <3>6. Cardinality(S) <= 1
      BY <3>5
    <3> QED BY <3>6 DEF S
  <2> QED BY <1>1, <2>1 DEF PeopleInv, CodeOK, SpentMeansLinked
<1> QED BY <1>1, AlwaysPeopleInv, PTL

\* A contact's link only goes to nobody, or from nobody to whoever spent a code that
\* was live until that step (unlink, redeem).
THEOREM LinksDoNotMoveHolds == Spec => LinksDoNotMove
<1>1. ASSUME PeopleInv, [Next]_vars, NEW c \in Contacts, contact'[c].linked # contact[c].linked
      PROVE  \/ contact'[c].linked = Nobody
             \/ /\ contact[c].linked = Nobody
                /\ \E v \in LiveCodes(c) :
                      invitation'[v].state = "redeemed" /\ invitation'[v].by = contact'[c].linked
  <2> USE <1>1 DEF PeopleInv
  <2>1. contact \in [Contacts -> ContactRows] /\ invitation \in [Invitations -> InvitationRows]
    BY DEF TypeOK
  <2>2. ASSUME NEW d \in Contacts, CreateContact(d) PROVE FALSE
    BY <2>1, <2>2 DEF CreateContact, ContactRows
  <2>3. ASSUME NEW r \in Requests, DeleteContact(r) PROVE FALSE
    BY <2>1, <2>3 DEF DeleteContact, ContactRows
  <2>4. ASSUME NEW d \in Contacts, Unlink(d) PROVE contact'[c].linked = Nobody
    BY <2>1, <2>4 DEF Unlink, ContactRows
  <2>5. ASSUME NEW r \in Requests, Link(r)
        PROVE  /\ contact[c].linked = Nobody
               /\ \E v \in LiveCodes(c) :
                     invitation'[v].state = "redeemed" /\ invitation'[v].by = contact'[c].linked
    <3>1. PICK v \in Invitations, u \in Users :
              /\ v = req[r].code /\ u = req[r].user
              /\ invitation[v].state = "live" /\ invitation[v].contact = req[r].contact
      BY <2>5 DEF RequestOK, Link, At
    <3>2. /\ Linkable(req[r].contact) /\ contact' = [contact EXCEPT ![req[r].contact].linked = u]
          /\ invitation' = [invitation EXCEPT ![v].state = "redeemed", ![v].by = u]
      BY <2>5, <3>1 DEF Link, SpentWithLink, SpentAnyway
    <3>3. c = req[r].contact /\ contact'[c].linked = u /\ contact[c].linked = Nobody
      BY <2>1, <3>2 DEF ContactRows, Linkable
    <3>4. invitation'[v].state = "redeemed" /\ invitation'[v].by = u
      BY <2>1, <3>2 DEF InvitationRows
    <3> QED BY <3>1, <3>3, <3>4 DEF LiveCodes
  <2>6. \/ \E d \in Contacts : CreateContact(d) \/ Unlink(d)
        \/ \E r \in Requests : DeleteContact(r) \/ Link(r)
    BY DEF Next, vars, RevokeInvitation, RevokeRole, Lapse, LockContact, GrantRole, CheckRoles,
           Invite, RetireCode, InsertCode, Present, Spend, Fails
  <2> QED BY <2>2, <2>3, <2>4, <2>5, <2>6
<1>2. PeopleInv /\ [Next]_vars =>
          [\A c \in Contacts : contact'[c].linked # contact[c].linked =>
              \/ contact'[c].linked = Nobody
              \/ /\ contact[c].linked = Nobody
                 /\ \E v \in LiveCodes(c) :
                       invitation'[v].state = "redeemed" /\ invitation'[v].by = contact'[c].linked]_vars
  BY <1>1
<1> QED BY <1>2, AlwaysPeopleInv, PTL DEF Spec, LinksDoNotMove
=============================================================================
