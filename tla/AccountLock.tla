---------------------------- MODULE AccountLock ----------------------------
(***************************************************************************)
(* What the settlement saga promises to identity, without operators, time, *)
(* calls or failures: users.status as the cases of one decedent may move   *)
(* it.  An account is locked and restored freely, is settled only for a    *)
(* case that has been reviewed, and then for good; a case is verified only *)
(* after the account is settled.                                           *)
(***************************************************************************)
CONSTANTS Cases, Nobody

VARIABLES
    status,         \* users.status
    phase,          \* of each case: not filed, open, verified or ended
    reviewed,       \* cases an operator has decided on
    settledFor      \* the case the account was settled for

vars == <<status, phase, reviewed, settledFor>>

Init ==
    /\ status = "active"
    /\ phase = [c \in Cases |-> "none"]
    /\ reviewed = {}
    /\ settledFor = Nobody

\* One case at a time.
File(c) ==
    /\ phase[c] = "none"
    /\ \A d \in Cases : phase[d] \notin {"open", "verified"}
    /\ phase' = [phase EXCEPT ![c] = "open"]
    /\ UNCHANGED <<status, reviewed, settledFor>>

Review(c) ==
    /\ phase[c] = "open"
    /\ reviewed' = reviewed \cup {c}
    /\ phase' \in {phase, [phase EXCEPT ![c] = "ended"]}
    /\ UNCHANGED <<status, settledFor>>

Verify(c) ==
    /\ phase[c] = "open"
    /\ c \in reviewed
    /\ status = "settlement"
    /\ phase' = [phase EXCEPT ![c] = "verified"]
    /\ UNCHANGED <<status, reviewed, settledFor>>

End(c) ==
    /\ phase[c] \in {"open", "verified"}
    /\ phase' = [phase EXCEPT ![c] = "ended"]
    /\ UNCHANGED <<status, reviewed, settledFor>>

Lock ==
    /\ status = "active"
    /\ status' = "deceased_pending"
    /\ UNCHANGED <<phase, reviewed, settledFor>>

Unlock ==
    /\ status = "deceased_pending"
    /\ status' = "active"
    /\ UNCHANGED <<phase, reviewed, settledFor>>

\* Whether or not the case is still open: the request may have been delayed.
Settle(c) ==
    /\ status = "deceased_pending"
    /\ c \in reviewed
    /\ status' = "settlement"
    /\ settledFor' = c
    /\ UNCHANGED <<phase, reviewed>>

Next ==
    \/ \E c \in Cases : File(c) \/ Review(c) \/ Verify(c) \/ End(c) \/ Settle(c)
    \/ Lock \/ Unlock

Spec == Init /\ [][Next]_vars
=============================================================================
