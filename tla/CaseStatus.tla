----------------------------- MODULE CaseStatus -----------------------------
(***************************************************************************)
(* The statuses of a settlement case (settlement_cases.status), shared by  *)
(* the saga that verifies a death (Settlement) and the administration of   *)
(* the verified estate (Administration).                                   *)
(***************************************************************************)

\* NON_TERMINAL before verification.
Open == {"reported", "verifying", "waiting_period"}

\* ADMINISTRABLE_STATUSES.
Administered == {"verified", "active", "distributing"}

Terminal == {"closed", "rejected_fraud"}

\* The moves administration makes with advanceStatus: the first approved stage
\* activates a verified case, the first recorded distribution starts the paying
\* out, and closing is possible from every administered status.
Advances(from, to) ==
    \/ from = "verified" /\ to = "active"
    \/ from \in {"verified", "active"} /\ to = "distributing"
    \/ from \in Administered /\ to = "closed"
=============================================================================
