----------------------------- MODULE VaultKeyset -----------------------------
(***************************************************************************)
(* The keyset of one vault owner and the sessions that open the vault:     *)
(* enrolment, the two halves of an unlock (an SRP handshake that is used   *)
(* once), a password change, a reset, and locking.                         *)
(*                                                                         *)
(* What replaces the keyset is one transaction that locks its row, but     *)
(* whatever a request checked before it (the guard's live session, the     *)
(* proof) is not looked at again.  An unlock is three statements of its    *)
(* own: it claims the handshake, reads the keyset, creates the session.    *)
(*                                                                         *)
(* Abstracted: a password is the number of the keyset payload that carries *)
(* it, a master key the number of the payload that first wrapped it.  A    *)
(* proof holds when both ends used the password in force.  Clocks are left *)
(* out: a handshake or a session expires when it likes.                    *)
(***************************************************************************)
EXTENDS Integers, FiniteSets

CONSTANTS
    Handshakes,     \* ids of vault_srp_handshakes rows
    Sessions,       \* ids of vault_sessions rows
    Requests,       \* bound: keyset requests in flight at the same time
    MaxKeysets,     \* bound: keyset payloads clients make up
    Nobody          \* stands for no row

ASSUME KeysetAssumption == MaxKeysets \in Nat /\ Nobody \notin Handshakes \cup Sessions

VARIABLES
    keyset,         \* vault_keysets: the password of the verifier, the wrapped master key
    handshake,      \* vault_srp_handshakes
    session,        \* vault_sessions
    req,            \* the keyset request each slot is serving
    chosen,         \* how many payloads clients made up so far
    resets,         \* history: how many resets committed
    destroyed       \* history: the master keys they replaced

history == <<resets, destroyed>>
keysetVars == <<keyset, handshake, session, req, chosen, history>>

NoKeyset == [password |-> 0, master |-> 0]

\* since: the password in force when the row was inserted, or that the session has
\* set itself; not what its unlock has proved, which may be older.
NoSession ==
    [status |-> "absent", master |-> 0, since |-> 0]

\* The slot serves no request.
Unused == [op |-> "none", id |-> Nobody, password |-> 0, master |-> 0]

InitKeyset ==
    /\ keyset = NoKeyset
    /\ handshake = [h \in Handshakes |-> [status |-> "absent", password |-> 0]]
    /\ session = [s \in Sessions |-> NoSession]
    /\ req = [r \in Requests |-> Unused]
    /\ chosen = 0
    /\ resets = 0
    /\ destroyed = {}

Open(s) == session[s].status = "live"

Ended(s) == [NoSession EXCEPT !.status = "ended"]

-----------------------------------------------------------------------------
(* Keyset payloads.  A client makes up a password; on enrolment and reset  *)
(* a master key as well.  A password change wraps the key of its session,  *)
(* which the guard finds open before the handler runs.                     *)

Arrive(r, op, id, master) ==
    /\ req[r] = Unused
    /\ chosen < MaxKeysets
    /\ chosen' = chosen + 1
    /\ req' = [req EXCEPT ![r] =
                 [op |-> op, id |-> id, password |-> chosen',
                  master |-> IF id = Nobody THEN chosen' ELSE master]]
    /\ UNCHANGED <<keyset, handshake, session, history>>

ArriveFresh(r, op) == Arrive(r, op, Nobody, 0)

ArriveReplace(r, s) == Open(s) /\ Arrive(r, "replace", s, session[s].master)

Payload(r) == [password |-> req[r].password, master |-> req[r].master]

Served(r) == req' = [req EXCEPT ![r] = Unused]

CreateKeyset(r) ==
    /\ req[r].op = "create"
    /\ keyset' = IF keyset = NoKeyset THEN Payload(r) ELSE keyset
    /\ Served(r)
    /\ UNCHANGED <<handshake, session, chosen, history>>

\* The session that is kept made the new password.
RevokeAllExceptNull(except) ==
    [s \in Sessions |->
        IF ~Open(s) \/ except = Nobody THEN session[s]
        ELSE IF s = except THEN [session[s] EXCEPT !.since = keyset'.password]
        ELSE Ended(s)]

RevokeAllExcept(except) ==
    [s \in Sessions |->
        IF ~Open(s) THEN session[s]
        ELSE IF s = except THEN [session[s] EXCEPT !.since = keyset'.password]
        ELSE Ended(s)]

\* Refused without a keyset.
NotEnrolled(r) ==
    /\ req[r].op \in {"replace", "reset"}
    /\ keyset = NoKeyset
    /\ Served(r)
    /\ UNCHANGED <<keyset, handshake, session, chosen, history>>

ReplaceKeyset(r) ==
    /\ req[r].op = "replace"
    /\ keyset # NoKeyset
    /\ keyset' = Payload(r)
    /\ session' = RevokeAllExcept(req[r].id)
    /\ Served(r)
    /\ UNCHANGED <<handshake, chosen, history>>

Reset(r) ==
    /\ req[r].op = "reset"
    /\ keyset # NoKeyset
    /\ keyset' = Payload(r)
    /\ session' = RevokeAllExcept(Nobody)
    /\ resets' = resets + 1
    /\ destroyed' = destroyed \cup {keyset.master}
    /\ Served(r)
    /\ UNCHANGED <<handshake, chosen>>

-----------------------------------------------------------------------------
(* Unlocking.                                                              *)

\* The challenge is made with the verifier in force.
StartUnlock(h) ==
    /\ handshake[h].status = "absent"
    /\ keyset # NoKeyset
    /\ handshake' = [handshake EXCEPT ![h] = [status |-> "open", password |-> keyset.password]]
    /\ UNCHANGED <<keyset, session, req, chosen, history>>

Claimable(h) == handshake[h].status = "open"

\* Consumed by the attempt, whatever comes of it.
Claim(r, h) ==
    /\ req[r] = Unused
    /\ Claimable(h)
    /\ handshake' = [handshake EXCEPT ![h].status = "over"]
    /\ req' = [req EXCEPT ![r] =
                 [op |-> "claimed", id |-> h, password |-> handshake[h].password, master |-> 0]]
    /\ UNCHANGED <<keyset, session, chosen, history>>

\* Both ends agree when the client knows the password the challenge was made
\* with and it is still the one in force.
Verify(r) ==
    /\ req[r].op = "claimed"
    /\ \/ /\ req[r].password = keyset.password
          /\ req' = [req EXCEPT ![r].op = "verified", ![r].master = keyset.master]
       \/ Served(r)
    /\ UNCHANGED <<keyset, handshake, session, chosen, history>>

CreateSession(r, s) ==
    /\ req[r].op = "verified"
    /\ session[s] = NoSession
    /\ session' = [session EXCEPT ![s] =
                     [status |-> "live", master |-> req[r].master,
                      since |-> keyset.password]]
    /\ Served(r)
    /\ UNCHANGED <<keyset, handshake, chosen, history>>

\* Locked by its client or expired.
EndSession(s) ==
    /\ Open(s)
    /\ session' = [session EXCEPT ![s] = Ended(s)]
    /\ UNCHANGED <<keyset, handshake, req, chosen, history>>

ExpireHandshake(h) ==
    /\ Claimable(h)
    /\ handshake' = [handshake EXCEPT ![h].status = "over"]
    /\ UNCHANGED <<keyset, session, req, chosen, history>>

\* Everything but Reset, which VaultItems extends to the items.
KeysetStep ==
    \/ \E r \in Requests :
        \/ \E op \in {"create", "reset"} : ArriveFresh(r, op)
        \/ \E s \in Sessions : ArriveReplace(r, s) \/ CreateSession(r, s)
        \/ CreateKeyset(r) \/ NotEnrolled(r) \/ ReplaceKeyset(r) \/ Verify(r)
        \/ \E h \in Handshakes : Claim(r, h)
    \/ \E h \in Handshakes : StartUnlock(h) \/ ExpireHandshake(h)
    \/ \E s \in Sessions : EndSession(s)

KeysetSpec == InitKeyset /\ [][KeysetStep \/ \E r \in Requests : Reset(r)]_keysetVars

-----------------------------------------------------------------------------
(* Properties.                                                             *)

KeysetTypeOK ==
    /\ keyset \in [password : 0 .. MaxKeysets, master : 0 .. MaxKeysets]
    /\ handshake \in [Handshakes -> [status : {"absent", "open", "over"},
                                     password : 0 .. MaxKeysets]]
    /\ session \in [Sessions -> [status : {"absent", "live", "ended"},
                                 master : 0 .. MaxKeysets, since : 0 .. MaxKeysets]]
    /\ req \in [Requests -> [op : {"none", "create", "replace", "reset", "claimed", "verified"},
                             id : Handshakes \cup Sessions \cup {Nobody},
                             password : 0 .. MaxKeysets, master : 0 .. MaxKeysets]]
    /\ chosen \in 0 .. MaxKeysets
    /\ resets \in Nat
    /\ destroyed \subseteq 1 .. MaxKeysets

\* No session that existed when the keyset was last replaced or reset is open, but
\* for the one that replaced it.  This does not speak of the session an unlock
\* creates afterwards: finishUnlock inserts it without looking at the keyset again,
\* so that one may rest on a proof of the password before.
SiblingsEnd == \A s \in Sessions : Open(s) => session[s].since = keyset.password

\* What the comment of reset says (vault.service.ts:748-751): it destroys every
\* wrapping of the old master key.
ResetDestroysKey == keyset.master \notin destroyed
=============================================================================
