------------------------------- MODULE Account -------------------------------
(***************************************************************************)
(* The credentials of one account in the identity service: its password,   *)
(* the sessions signed in with it, the refresh tokens they rotate, and the *)
(* single-use codes that open a session elsewhere (a handoff to the vault  *)
(* origin, a paired browser extension) or replace a forgotten password.    *)
(*                                                                         *)
(* Almost every handler reads, computes, and then writes with another      *)
(* statement; only a password change and a reset hold a transaction.  A    *)
(* request is here what such a handler has read and not yet acted upon.    *)
(*                                                                         *)
(* Abstracted: time (a session that lapses is ended), second factors and   *)
(* rate bounds (refusals), access tokens (they live and die with their     *)
(* session), notifications and the ledger.  A password is the number of    *)
(* passwords there have been.                                              *)
(***************************************************************************)
EXTENDS Integers, Sequences

CONSTANTS
    Sessions,       \* ids of sessions rows
    Codes,          \* ids of rows of the three code tables
    Handlers,       \* bound: requests in flight at the same time
    Null,           \* stands for a NULL session or code
    MaxTokens,      \* bound: refresh tokens ever issued
    MaxPasswords    \* bound: passwords the account ever has

ASSUME AccountAssumption ==
    /\ Null \notin Sessions \cup Codes
    /\ MaxTokens \in Nat
    /\ MaxPasswords \in Nat \ {0}

VARIABLES
    userStatus,     \* users.status: "active" stands for deceased_pending too
    password,       \* users.password_hash
    session,        \* sessions
    token,          \* history: the session each refresh token was issued to
    code,           \* auth_handoffs, extension_pairings, password_resets
    used,           \* history: how often each code opened a session or set a password
    request         \* what each request in flight has read

credentialVars == <<userStatus, password, session, token, code, used, request>>

NoSession ==
    [state |-> "absent", audience |-> "account", refresh |-> 0, prev |-> 0,
     proof |-> 0, since |-> 0]

NoCode == [state |-> "absent", kind |-> "handoff", proof |-> 0]

NoRequest == [op |-> "none", session |-> Null, code |-> Null,
              kind |-> "handoff", token |-> 0, proof |-> 0]

AccountInit ==
    /\ userStatus = "active"
    /\ password = 1
    /\ session = [s \in Sessions |-> NoSession]
    /\ token = <<>>
    /\ code = [c \in Codes |-> NoCode]
    /\ used = [c \in Codes |-> 0]
    /\ request = [r \in Handlers |-> NoRequest]

Live(s) == session[s].state = "live"

\* The lookups join users with an allowlist of statuses.
Usable(s) == Live(s) /\ userStatus = "active"

\* Only a session of the account audience is admitted to these routes.
Admitted(s) == Usable(s) /\ session[s].audience = "account"

Ended(row) == IF row.state = "live" THEN [row EXCEPT !.state = "ended"] ELSE row

Begin(r, req) == request[r] = NoRequest /\ request' = [request EXCEPT ![r] = req]

Finish(r) == request' = [request EXCEPT ![r] = NoRequest]

-----------------------------------------------------------------------------
(* New sessions.                                                           *)

IssuedTo(s) == Append(token, s)

\* proof: the newest password whoever holds the session has shown, or whoever
\* minted its code had.
NewSession(audience, proof) ==
    [state |-> "live", audience |-> audience,
     refresh |-> IF audience = "vault" THEN 0 ELSE Len(token) + 1, prev |-> 0,
     proof |-> proof, since |-> password]

CreateSession(s, audience, proof) ==
    /\ session[s] = NoSession
    /\ Len(token) < MaxTokens
    /\ session' = [session EXCEPT ![s] = NewSession(audience, proof)]
    /\ token' = IF session'[s].refresh = 0 THEN token ELSE IssuedTo(s)

\* login: the row is read and its password verified ...
Login(r) ==
    /\ userStatus = "active"
    /\ Begin(r, [NoRequest EXCEPT !.op = "login", !.proof = password])
    /\ UNCHANGED <<userStatus, password, session, token, code, used>>

\* ... and the session inserted.
LoginInserts(r, s) ==
    /\ request[r].op = "login"
    /\ CreateSession(s, "account", request[r].proof)
    /\ Finish(r)
    /\ UNCHANGED <<userStatus, password, code, used>>

-----------------------------------------------------------------------------
(* Refresh.                                                                *)

Current(s, t) == Usable(s) /\ session[s].refresh = t

\* A client presents any token it was ever given; the first lookup is by the
\* current hash.
Refresh(r, t) ==
    /\ LET found == {s \in Sessions : Current(s, t)} IN
          \/ \E s \in found :
                Begin(r, [NoRequest EXCEPT !.op = "rotate", !.session = s, !.token = t])
          \/ /\ found = {}
             /\ Begin(r, [NoRequest EXCEPT !.op = "previous", !.token = t])
    /\ UNCHANGED <<userStatus, password, session, token, code, used>>

\* The second lookup asks neither for the account's status nor for expiry.
LookUpPrevious(r) ==
    /\ request[r].op = "previous"
    /\ LET found == {s \in Sessions : Live(s) /\ session[s].prev = request[r].token} IN
          \/ \E s \in found :
                request' = [request EXCEPT ![r] =
                              [NoRequest EXCEPT !.op = "revoke", !.session = s]]
          \/ found = {} /\ Finish(r)
    /\ UNCHANGED <<userStatus, password, session, token, code, used>>

RotatedRevives(s, t) ==
    [session EXCEPT ![s].refresh = Len(token) + 1, ![s].prev = t, ![s].state = "live"]

\* UPDATE sessions by id alone: nothing the lookup saw is asked again.
Rotated(s, t) == [session EXCEPT ![s].refresh = Len(token) + 1, ![s].prev = t]

Rotate(r) ==
    /\ request[r].op = "rotate"
    /\ Len(token) < MaxTokens
    /\ session' = Rotated(request[r].session, request[r].token)
    /\ token' = IssuedTo(request[r].session)
    /\ Finish(r)
    /\ UNCHANGED <<userStatus, password, code, used>>

RevokeReused(r) ==
    /\ request[r].op = "revoke"
    /\ session' = [session EXCEPT ![request[r].session] = Ended(@)]
    /\ Finish(r)
    /\ UNCHANGED <<userStatus, password, token, code, used>>

\* logout, the devices list, expiry.
EndSession(s) ==
    /\ Live(s)
    /\ session' = [session EXCEPT ![s] = Ended(@)]
    /\ UNCHANGED <<userStatus, password, token, code, used, request>>

-----------------------------------------------------------------------------
(* Passwords.                                                              *)

\* The allowlist of updatePasswordHash, once inside the transaction.
PasswordWritable == userStatus = "active" /\ password < MaxPasswords

\* revokeAllForUserExcept: the changer has shown both passwords.
RevokedExcept(own) ==
    [s \in Sessions |->
        IF s = own THEN [session[s] EXCEPT !.proof = password + 1, !.since = password + 1]
        ELSE Ended(session[s])]

\* changePassword: the current password is verified against the row as read ...
ChangePassword(r, s) ==
    /\ Admitted(s)
    /\ Begin(r, [NoRequest EXCEPT !.op = "change", !.session = s])
    /\ UNCHANGED <<userStatus, password, session, token, code, used>>

\* ... and replaced, whatever it is by then.
PasswordChanged(r) ==
    /\ request[r].op = "change"
    /\ PasswordWritable
    /\ password' = password + 1
    /\ session' = RevokedExcept(request[r].session)
    /\ Finish(r)
    /\ UNCHANGED <<userStatus, token, code, used>>

-----------------------------------------------------------------------------
(* Single-use codes.  One that was claimed or redeemed is spent, one that   *)
(* was superseded or withdrawn retired.  One past its expiry is lapsed: it  *)
(* still stands, for no index and no retirement looks at the clock.         *)

Standing(c) == code[c].state \in {"live", "lapsed"}

LiveCodes(kind) == {c \in Codes : Standing(c) /\ code[c].kind = kind}

Retired(kind) ==
    [c \in Codes |-> IF c \in LiveCodes(kind) THEN [code[c] EXCEPT !.state = "retired"]
                     ELSE code[c]]

\* A session mints a code for another surface; retiring the outstanding one and
\* inserting are two statements.
Mint(r, kind, s) ==
    /\ kind \in {"handoff", "pairing"}
    /\ Admitted(s)
    /\ Begin(r, [NoRequest EXCEPT !.op = "mint", !.kind = kind, !.proof = session[s].proof])
    /\ code' = Retired(kind)
    /\ UNCHANGED <<userStatus, password, session, token, used>>

\* requestReset, which anybody may ask for.
RequestReset(r) ==
    /\ userStatus = "active"
    /\ Begin(r, [NoRequest EXCEPT !.op = "mint", !.kind = "reset"])
    /\ code' = Retired("reset")
    /\ UNCHANGED <<userStatus, password, session, token, used>>

\* The unique index refuses a second standing code of the account.
CodeInserted(r, c) ==
    /\ request[r].op = "mint"
    /\ code[c] = NoCode
    /\ code' = IF LiveCodes(request[r].kind) # {} THEN code
               ELSE [code EXCEPT ![c] = [NoCode EXCEPT !.state = "live",
                                                       !.kind = request[r].kind,
                                                       !.proof = request[r].proof]]
    /\ Finish(r)
    /\ UNCHANGED <<userStatus, password, session, token, used>>

CodeLapses(c) ==
    /\ code[c].state = "live"
    /\ code' = [code EXCEPT ![c].state = "lapsed"]
    /\ UNCHANGED <<userStatus, password, session, token, used, request>>

\* A reset code that could not be mailed: whichever stands by then is withdrawn.
RevokeUndelivered ==
    /\ LiveCodes("reset") # {}
    /\ code' = Retired("reset")
    /\ UNCHANGED <<userStatus, password, session, token, used, request>>

Spendable(c) == code[c].state = "live"

\* claim: one UPDATE burns the code ...
Redeem(r, c) ==
    /\ code[c].kind \in {"handoff", "pairing"}
    /\ Spendable(c)
    /\ Begin(r, [NoRequest EXCEPT !.op = "redeem", !.code = c])
    /\ code' = [code EXCEPT ![c].state = "spent"]
    /\ UNCHANGED <<userStatus, password, session, token, used>>

\* ... and the session it is for is inserted afterwards.
RedeemInserts(r, s) ==
    LET c == request[r].code IN
    /\ request[r].op = "redeem"
    /\ CreateSession(s, IF code[c].kind = "handoff" THEN "vault" ELSE "extension",
                     code[c].proof)
    /\ used' = [used EXCEPT ![c] = @ + 1]
    /\ Finish(r)
    /\ UNCHANGED <<userStatus, password, code>>

\* completeReset finds its code live ...
Reset(r, c) ==
    /\ code[c].kind = "reset"
    /\ Spendable(c)
    /\ Begin(r, [NoRequest EXCEPT !.op = "reset", !.code = c])
    /\ UNCHANGED <<userStatus, password, session, token, code, used>>

MarkRedeemedById(c) == code' = [code EXCEPT ![c].state = "spent"]

\* The spend restates what the look established, by the clock the look read.
MarkRedeemed(c) == Standing(c) /\ code' = [code EXCEPT ![c].state = "spent"]

\* ... and redeems it in the transaction that writes the password and revokes
\* every session.
ResetCompleted(r) ==
    /\ request[r].op = "reset"
    /\ MarkRedeemed(request[r].code)
    /\ used' = [used EXCEPT ![request[r].code] = @ + 1]
    /\ PasswordWritable
    /\ password' = password + 1
    /\ session' = RevokedExcept(Null)
    /\ Finish(r)
    /\ UNCHANGED <<userStatus, token>>

\* A handler is refused further on, fails or crashes.
Fails(r) ==
    /\ request[r] # NoRequest
    /\ Finish(r)
    /\ UNCHANGED <<userStatus, password, session, token, code, used>>

-----------------------------------------------------------------------------
(* The terminal lock: the status moves, then the sessions are revoked.     *)

Settle ==
    /\ userStatus = "active"
    /\ userStatus' = "settlement"
    /\ UNCHANGED <<password, session, token, code, used, request>>

RevokeAllSettled ==
    /\ userStatus = "settlement"
    /\ \E s \in Sessions : Live(s)
    /\ session' = [s \in Sessions |-> Ended(session[s])]
    /\ UNCHANGED <<userStatus, password, token, code, used, request>>

-----------------------------------------------------------------------------
RequestStep(r) ==
    \/ Login(r) \/ RequestReset(r)
    \/ \E t \in 1 .. Len(token) : Refresh(r, t)
    \/ \E s \in Sessions :
          \/ LoginInserts(r, s) \/ RedeemInserts(r, s) \/ ChangePassword(r, s)
          \/ \E kind \in {"handoff", "pairing"} : Mint(r, kind, s)
    \/ \E c \in Codes : CodeInserted(r, c) \/ Redeem(r, c) \/ Reset(r, c)
    \/ LookUpPrevious(r) \/ Rotate(r) \/ RevokeReused(r)
    \/ PasswordChanged(r) \/ ResetCompleted(r) \/ Fails(r)

AccountNext ==
    \/ \E r \in Handlers : RequestStep(r)
    \/ \E s \in Sessions : EndSession(s)
    \/ \E c \in Codes : CodeLapses(c)
    \/ RevokeUndelivered
    \/ Settle \/ RevokeAllSettled

AccountSpec == AccountInit /\ [][AccountNext]_credentialVars

-----------------------------------------------------------------------------
(* Properties.                                                             *)

TokenIds == 0 .. MaxTokens
Passwords == 0 .. MaxPasswords
CodeStates == {"absent", "live", "lapsed", "spent", "retired"}
Kinds == {"handoff", "pairing", "reset"}
Ops == {"none", "login", "rotate", "previous", "revoke", "change", "mint", "redeem", "reset"}

SessionRows ==
    [state : {"absent", "live", "ended"}, audience : {"account", "extension"},
     refresh : TokenIds, prev : TokenIds, proof : Passwords, since : Passwords]
    \cup
    [state : {"live", "ended"}, audience : {"vault"},
     refresh : {0}, prev : {0}, proof : Passwords, since : Passwords]

\* Every variable stays in its domain; a session of the vault origin never has a
\* refresh token.
AccountTypeOK ==
    /\ userStatus \in {"active", "settlement"}
    /\ password \in 1 .. MaxPasswords
    /\ session \in [Sessions -> SessionRows]
    /\ token \in Seq(Sessions) /\ Len(token) <= MaxTokens
    /\ code \in [Codes -> [state : CodeStates, kind : Kinds, proof : Passwords]]
    /\ used \in [Codes -> Nat]
    /\ request \in [Handlers -> [op : Ops, session : Sessions \cup {Null},
                                 code : Codes \cup {Null}, kind : Kinds,
                                 token : TokenIds, proof : Passwords]]

\* A session that existed when the password was last changed or reset is over,
\* unless it made the change: no rotation, login or redemption that was in flight
\* brings it back.
PasswordChangeEnds == \A s \in Sessions : Live(s) => session[s].since = password

\* A code works once: whenever one opens its session or sets its password it has
\* done neither before, and it was not superseded by a newer code, or withdrawn, after
\* the request that uses it had found it good.
CodesWorkOnce ==
    [][\A c \in Codes :
          used'[c] # used[c] =>
              used[c] = 0 /\ code[c].state # "retired"]_credentialVars

-----------------------------------------------------------------------------
(* A claim of the source that the code does not keep.                      *)

\* changePassword: "a hash without the revocation leaves every credential minted
\* under the old password live, which is the whole point of the change".
OldCredentialsDie == \A s \in Sessions : Live(s) => session[s].proof = password
=============================================================================
