--------------------------- MODULE IdentityProofs ---------------------------
(* What holds of Erasure and of Account for every value of their constants: *)
(* any number of requests, of sweeps running at once, of calls in flight, of *)
(* crashes, of sessions, codes and handlers.                                 *)
EXTENDS Erasure, Account, FiniteSetTheorems, TLAPS

-----------------------------------------------------------------------------
(* The inductive invariant.                                                *)

Rows == [status : {"absent", "pending", "executing", "cancelled"}, due : BOOLEAN, done : BOOLEAN]
Sweeps == [step : Steps, row : Requests \cup {Nobody}, worked : SUBSET Requests]

\* TypeOK without the cardinality of Outstanding, which OneOutstanding stands for.
Domains ==
    /\ status \in {"active", "deceased_pending", "settlement", "closed"}
    /\ signedIn \in BOOLEAN
    /\ staged \in BOOLEAN
    /\ dek \in {"live", "destroyed"}
    /\ minted \in BOOLEAN
    /\ row \in [Requests -> Rows]
    /\ sweep \in [Drivers -> Sweeps]
    /\ call \in [Callers -> {"none", "request", "cancel", "encrypt", "stage"}]
    /\ overlapped \subseteq Requests
    /\ closedFor \in Requests \cup {Nobody}
    /\ crashes \in 0 .. MaxCrashes

OneOutstanding == \A p, q \in Outstanding : p = q

\* A sweep past the close works on a closed account, and marks its part done after
\* the key is gone; it holds a row exactly between its claims.
SweepOK(s) ==
    /\ s.row = Nobody <=> s.step \in {"idle", "again"}
    /\ s.step \in {"revoke", "unlink", "destroy", "mark"} => status = "closed"
    /\ s.step = "mark" => dek = "destroyed"

\* A claimed row is executing, and only one sweep holds it, or else it was recorded
\* as overlapped.
ClaimsOK ==
    /\ \A d \in Drivers :
          sweep[d].row \in Requests =>
              row[sweep[d].row].status = "executing" \/ sweep[d].row \in overlapped
    /\ \A d, e \in Drivers :
          d # e /\ sweep[d].row = sweep[e].row /\ sweep[d].row \in Requests =>
              sweep[d].row \in overlapped

\* The row an account was closed for stays executing: a sweep that could still hand
\* that claim back must have held it together with the one that closed.
ClosedForOK ==
    closedFor \in Requests =>
        /\ status = "closed"
        /\ \/ closedFor \in overlapped
           \/ /\ row[closedFor].status = "executing"
              /\ \A d \in Drivers :
                    sweep[d].row = closedFor => sweep[d].step \notin {"close", "release"}

ErasureInv ==
    /\ Domains
    /\ OneOutstanding
    /\ \A d \in Drivers : SweepOK(sweep[d])
    /\ ClaimsOK
    /\ ClosedForOK
    /\ NeverShredOpen
    /\ DoneMeansErased

-----------------------------------------------------------------------------
LEMMA InitErasureInv == Init => ErasureInv
<1> SUFFICES ASSUME Init PROVE ErasureInv
  OBVIOUS
<1>1. Domains
  <2>1. NoRow \in Rows /\ Idle \in Sweeps
    BY DEF NoRow, Rows, Idle, Sweeps, Steps
  <2>2. crashes \in 0 .. MaxCrashes
    BY ErasureAssumption DEF Init
  <2> QED BY <2>1, <2>2 DEF Init, Domains
<1>2. /\ \A q \in Requests : row[q] = NoRow
      /\ \A d \in Drivers : sweep[d] = Idle
      /\ closedFor = Nobody /\ dek = "live"
  BY DEF Init
<1>3. OneOutstanding /\ DoneMeansErased /\ NeverShredOpen
  BY <1>2 DEF OneOutstanding, Outstanding, NoRow, DoneMeansErased, NeverShredOpen
<1>4. (\A d \in Drivers : SweepOK(sweep[d])) /\ ClaimsOK /\ ClosedForOK
  BY <1>2, ErasureAssumption DEF SweepOK, ClaimsOK, ClosedForOK, Idle
<1> QED BY <1>1, <1>3, <1>4 DEF ErasureInv

\* An account leaves no lasting state: closed and destroyed are for good.
LEMMA Lasting ==
    ASSUME Domains, [Next]_vars
    PROVE  /\ status = "closed" => status' = "closed"
           /\ dek = "destroyed" => dek' = "destroyed"
<1> USE DEF Permitted
<1>1. CASE UNCHANGED vars
  BY <1>1 DEF vars
<1>2. ASSUME NEW d \in Drivers, SweepStep(d) \/ Crash(d)
      PROVE  /\ status = "closed" => status' = "closed"
             /\ dek = "destroyed" => dek' = "destroyed"
  BY <1>2 DEF SweepStep, Claim, NothingToClaim, ReadUser, CloseAndUnlinkEmail, ReleaseClaim,
              RevokeSessions, UnlinkAllForErasure, DestroyDek, MarkDomainDone, Crash,
              accountVars
<1>3. ASSUME NEW u \in Callers, CallStep(u)
      PROVE  UNCHANGED <<status, dek>>
  BY <1>3 DEF CallStep, Admit, Request, Cancel, Encrypt, Stage, accountVars
<1>4. ASSUME NEW to, StatusMoves(to)
      PROVE  status # "closed" /\ UNCHANGED dek
  BY <1>4 DEF StatusMoves
<1>5. ASSUME NEW q \in Requests, FallsDue(q)
      PROVE  UNCHANGED <<status, dek>>
  BY <1>5 DEF FallsDue, accountVars
<1> QED BY <1>1, <1>2, <1>3, <1>4, <1>5 DEF Next

LEMMA SweepDomains ==
    ASSUME Domains, NEW d \in Drivers, SweepOK(sweep[d]), SweepStep(d) \/ Crash(d)
    PROVE  Domains'
<1> USE DEF Domains, accountVars
<1>1. sweep[d] \in Sweeps /\ Idle \in Sweeps
  BY DEF Idle, Sweeps, Steps
<1>2. ASSUME NEW s \in Steps, To(d, s)
      PROVE  sweep' \in [Drivers -> Sweeps]
  BY <1>1, <1>2 DEF To, Sweeps
<1>3. ASSUME Leave(d)
      PROVE  sweep' \in [Drivers -> Sweeps]
  BY <1>1, <1>3 DEF Leave, Steps, Sweeps
<1>4. ASSUME NEW q \in Requests, Claim(d, q)
      PROVE  Domains'
  <2>1. [row EXCEPT ![q].status = "executing"] \in [Requests -> Rows]
    BY DEF Rows
  <2>2. [step |-> "read", row |-> q, worked |-> sweep[d].worked \cup {q}] \in Sweeps
    BY <1>1 DEF Sweeps, Steps
  <2> QED BY <1>1, <1>4, <2>1, <2>2 DEF Claim
<1>5. CASE NothingToClaim(d) \/ Crash(d)
  BY <1>1, <1>5, ErasureAssumption DEF NothingToClaim, Crash
<1>6. CASE ReadUser(d)
  <2>1. FirstStep \in Steps
    BY DEF FirstStep, Steps
  <2> QED BY <1>2, <1>6, <2>1 DEF ReadUser
<1>7. CASE CloseAndUnlinkEmail(d)
  <2>1. AfterClose \in Steps
    BY DEF AfterClose, Steps
  <2>2. sweep[d].row \in Requests \cup {Nobody}
    BY <1>1 DEF Sweeps
  <2> QED BY <1>2, <1>7, <2>1, <2>2 DEF CloseAndUnlinkEmail
<1>8. CASE ReleaseClaim(d) \/ MarkDomainDone(d)
  <2>1. ASSUME NEW x
        PROVE  /\ [row EXCEPT ![x].status = "pending"] \in [Requests -> Rows]
               /\ [row EXCEPT ![x].done = TRUE] \in [Requests -> Rows]
    BY DEF Rows
  <2>2. row' \in [Requests -> Rows]
    BY <1>8, <2>1 DEF ReleaseClaim, MarkDomainDone
  <2> QED BY <1>3, <1>8, <2>2 DEF ReleaseClaim, MarkDomainDone
<1>9. CASE RevokeSessions(d) \/ UnlinkAllForErasure(d) \/ DestroyDek(d)
  <2>1. {"unlink", "destroy", "mark"} \subseteq Steps
    BY DEF Steps
  <2> QED BY <1>2, <1>9, <2>1 DEF RevokeSessions, UnlinkAllForErasure, DestroyDek
<1> QED BY <1>4, <1>5, <1>6, <1>7, <1>8, <1>9 DEF SweepStep

LEMMA NextDomains ==
    ASSUME Domains, \A d \in Drivers : SweepOK(sweep[d]), [Next]_vars
    PROVE  Domains'
<1>1. CASE UNCHANGED vars
  BY <1>1 DEF vars, Domains
<1>2. ASSUME NEW d \in Drivers, SweepStep(d) \/ Crash(d)
      PROVE  Domains'
  BY <1>2, SweepDomains
<1>3. ASSUME NEW u \in Callers, CallStep(u)
      PROVE  Domains'
  <2>1. call' \in [Callers -> {"none", "request", "cancel", "encrypt", "stage"}]
    BY <1>3 DEF CallStep, Admit, Request, Cancel, Encrypt, Stage, Answer, Domains
  <2>2. row' \in [Requests -> Rows]
    BY <1>3 DEF CallStep, Admit, Request, Cancel, Encrypt, Stage, Domains, Rows
  <2> QED BY <1>3, <2>1, <2>2 DEF CallStep, Admit, Request, Cancel, Encrypt, Stage,
                                  accountVars, Domains
<1>4. ASSUME NEW to \in {"active", "deceased_pending", "settlement"}, StatusMoves(to)
      PROVE  Domains'
  BY <1>4 DEF StatusMoves, Domains
<1>5. ASSUME NEW q \in Requests, FallsDue(q)
      PROVE  Domains'
  BY <1>5 DEF FallsDue, accountVars, Domains, Rows
<1> QED BY <1>1, <1>2, <1>3, <1>4, <1>5 DEF Next

\* Steps that leave sweeps, account and executing rows alone.
LEMMA RowsOfOthers ==
    ASSUME ErasureInv, Domains', OneOutstanding',
           UNCHANGED <<sweep, status, dek, closedFor, overlapped>>,
           \A q \in Requests : /\ row[q].status = "executing" => row'[q].status = "executing"
                               /\ row'[q].done => row[q].done
    PROVE  ErasureInv'
<1> USE DEF ErasureInv
<1>1. \A d \in Drivers : SweepOK(sweep[d])'
  BY DEF SweepOK
<1>2. ClaimsOK'
  BY DEF ClaimsOK
<1>3. ClosedForOK'
  BY DEF ClosedForOK
<1>4. NeverShredOpen' /\ DoneMeansErased'
  BY DEF NeverShredOpen, DoneMeansErased
<1> QED BY <1>1, <1>2, <1>3, <1>4

LEMMA CallInv ==
    ASSUME ErasureInv, Domains', NEW u \in Callers, CallStep(u)
    PROVE  ErasureInv'
<1> USE DEF ErasureInv
<1>0. row \in [Requests -> Rows] /\ row' \in [Requests -> Rows]
  BY DEF Domains
<1>1. CASE UNCHANGED <<row, sweep, status, dek, closedFor, overlapped>>
  <2>1. OneOutstanding'
    BY <1>1 DEF OneOutstanding, Outstanding
  <2> QED BY <1>1, <2>1, RowsOfOthers
<1>2. ASSUME NEW q \in Requests, Request(u, q)
      PROVE  ErasureInv'
  <2>1. CASE MayInsert
    <3>1. /\ row[q].status = "absent" /\ Outstanding = {}
          /\ row' = [row EXCEPT ![q].status = "pending"]
          /\ UNCHANGED <<sweep, status, dek, closedFor, overlapped>>
      BY <1>2, <2>1 DEF Request, NoRow, MayInsert, accountVars
    <3>2. \A p \in Requests \ {q} : row'[p] = row[p]
      BY <3>1, <1>0
    <3>3. row'[q].done = row[q].done
      BY <3>1, <1>0 DEF Rows
    <3>4. OneOutstanding'
      BY <3>1, <3>2 DEF OneOutstanding, Outstanding
    <3> QED BY <3>1, <3>2, <3>3, <3>4, RowsOfOthers
  <2>2. CASE ~MayInsert
    BY <1>1, <1>2, <2>2 DEF Request, accountVars
  <2> QED BY <2>1, <2>2
<1>3. CASE Cancel(u)
  <2>1. /\ \A q \in Requests :
             \/ row'[q] = row[q]
             \/ /\ row[q].status = "pending"
                /\ row'[q].status = "cancelled" /\ row'[q].done = row[q].done
        /\ UNCHANGED <<sweep, status, dek, closedFor, overlapped>>
    <3>1. UNCHANGED <<sweep, status, dek, closedFor, overlapped>>
      BY <1>3 DEF Cancel, accountVars
    <3>2. ASSUME NEW q \in Requests
          PROVE  row'[q] = IF q \in Cancellable
                           THEN [row[q] EXCEPT !.status = "cancelled"] ELSE row[q]
      BY <1>3 DEF Cancel
    <3>3. \A q \in Requests : row[q] \in Rows
      BY <1>0
    <3> QED BY <3>1, <3>2, <3>3 DEF Cancellable, Rows
  <2>2. OneOutstanding'
    BY <2>1 DEF OneOutstanding, Outstanding
  <2>3. \A q \in Requests : /\ row[q].status = "executing" => row'[q].status = "executing"
                            /\ row'[q].done => row[q].done
    BY <2>1
  <2> QED BY <2>1, <2>2, <2>3, RowsOfOthers
<1>4. CASE Encrypt(u) \/ Stage(u) \/ \E op \in {"request", "cancel", "encrypt"} : Admit(u, op)
  BY <1>1, <1>4 DEF Encrypt, Stage, Admit, accountVars
<1> QED BY <1>2, <1>3, <1>4 DEF CallStep

LEMMA FallsDueInv ==
    ASSUME ErasureInv, Domains', NEW q \in Requests, FallsDue(q)
    PROVE  ErasureInv'
<1> USE DEF ErasureInv
<1>1. /\ \A p \in Requests : row'[p].status = row[p].status /\ row'[p].done = row[p].done
      /\ UNCHANGED <<sweep, status, dek, closedFor, overlapped>>
  BY DEF FallsDue, Domains, Rows, accountVars
<1>2. OneOutstanding'
  BY <1>1 DEF OneOutstanding, Outstanding
<1>3. \A p \in Requests : /\ row[p].status = "executing" => row'[p].status = "executing"
                          /\ row'[p].done => row[p].done
  BY <1>1
<1> QED BY <1>1, <1>2, <1>3, RowsOfOthers

\* A death report or a settlement finds the account open.
LEMMA StatusMovesInv ==
    ASSUME ErasureInv, Domains', NEW to \in {"active", "deceased_pending", "settlement"},
           StatusMoves(to)
    PROVE  ErasureInv'
<1> USE DEF ErasureInv
<1>1. /\ status # "closed" /\ status' # "closed"
      /\ UNCHANGED <<row, sweep, dek, closedFor, overlapped>>
  BY DEF StatusMoves
<1>2. OneOutstanding'
  BY <1>1 DEF OneOutstanding, Outstanding
<1>3. \A d \in Drivers : SweepOK(sweep[d])'
  BY <1>1 DEF SweepOK
<1>4. ClaimsOK' /\ ClosedForOK' /\ NeverShredOpen' /\ DoneMeansErased'
  BY <1>1 DEF ClaimsOK, ClosedForOK, NeverShredOpen, DoneMeansErased
<1> QED BY <1>2, <1>3, <1>4

\* A sweep moves on: the row it held stays or is left.
LEMMA OneSweepMoves ==
    ASSUME ErasureInv, Domains', NEW d \in Drivers, [Next]_vars,
           \A e \in Drivers \ {d} : sweep'[e] = sweep[e],
           SweepOK(sweep[d])',
           sweep'[d].row \in {sweep[d].row, Nobody}
    PROVE  /\ \A e \in Drivers : SweepOK(sweep[e])'
           /\ UNCHANGED <<row, overlapped>> => OneOutstanding' /\ ClaimsOK'
           /\ UNCHANGED <<row, closedFor, overlapped>> /\ status' = status
                 /\ sweep'[d].step \notin {"close", "release"} => ClosedForOK'
<1> USE DEF ErasureInv
<1>1. \A e \in Drivers : SweepOK(sweep[e])'
  BY Lasting DEF SweepOK
<1>2. ASSUME UNCHANGED <<row, overlapped>>
      PROVE  OneOutstanding' /\ ClaimsOK'
  BY <1>2, ErasureAssumption DEF OneOutstanding, Outstanding, ClaimsOK
<1>3. ASSUME UNCHANGED <<row, closedFor, overlapped, status>>,
             sweep'[d].step \notin {"close", "release"}
      PROVE  ClosedForOK'
  BY <1>3, ErasureAssumption DEF ClosedForOK
<1> QED BY <1>1, <1>2, <1>3

LEMMA ClaimInv ==
    ASSUME ErasureInv, Domains', NEW d \in Drivers, NEW q \in Requests, Claim(d, q)
    PROVE  ErasureInv'
<1> USE DEF ErasureInv
<1>0. /\ row \in [Requests -> Rows] /\ sweep \in [Drivers -> Sweeps]
      /\ UNCHANGED <<status, dek, closedFor>>
      /\ q \in Outstanding
      /\ sweep[d].row = Nobody
  BY DEF Domains, Claim, accountVars, Claimable, Outstanding, SweepOK
<1>1. /\ row'[q].status = "executing" /\ row'[q].done = row[q].done
      /\ \A p \in Requests \ {q} : row'[p] = row[p]
      /\ row[q].status \in {"pending", "executing"}
  BY <1>0 DEF Claim, Rows, Outstanding
<1>2. OneOutstanding' /\ NeverShredOpen' /\ DoneMeansErased'
  BY <1>0, <1>1 DEF OneOutstanding, Outstanding, NeverShredOpen, DoneMeansErased
<1>3. \A e \in Drivers \ {d} : sweep'[e] = sweep[e]
  BY <1>0 DEF Claim
<1>4. overlapped \subseteq overlapped'
  BY DEF Claim
<1>5. CASE sweep'[d] = Idle
  <2>1. \A e \in Drivers : SweepOK(sweep[e])'
    BY <1>0, <1>3, <1>5 DEF SweepOK, Idle
  <2>2. ClaimsOK'
    BY <1>1, <1>3, <1>4, <1>5, ErasureAssumption DEF ClaimsOK, Idle
  <2>3. ClosedForOK'
    BY <1>0, <1>1, <1>3, <1>4, <1>5 DEF ClosedForOK, Idle
  <2> QED BY <1>2, <2>1, <2>2, <2>3
<1>6. CASE /\ sweep'[d].step = "read" /\ sweep'[d].row = q
           /\ overlapped' = IF Holders(q) # {} THEN overlapped \cup {q} ELSE overlapped
  <2>1. \A e \in Drivers : SweepOK(sweep[e])'
    BY <1>0, <1>3, <1>6, ErasureAssumption DEF SweepOK
  <2>2. ASSUME NEW e \in Drivers \ {d}, sweep[e].row = q
        PROVE  q \in overlapped'
    BY <1>6, <2>2 DEF Holders
  <2>3. ClaimsOK'
    BY <1>0, <1>1, <1>3, <1>4, <1>6, <2>2 DEF ClaimsOK
  <2>4. ClosedForOK'
    BY <1>0, <1>1, <1>3, <1>4, <1>6 DEF ClosedForOK
  <2> QED BY <1>2, <2>1, <2>3, <2>4
<1> QED BY <1>0, <1>5, <1>6 DEF Claim

LEMMA CloseInv ==
    ASSUME ErasureInv, Domains', [Next]_vars, NEW d \in Drivers, CloseAndUnlinkEmail(d)
    PROVE  ErasureInv'
<1> USE DEF ErasureInv
<1> DEFINE q == sweep[d].row
<1>0. /\ sweep \in [Drivers -> Sweeps] /\ q \in Requests
      /\ UNCHANGED <<row, dek, overlapped>>
      /\ sweep'[d].step = AfterClose /\ sweep'[d].row = q
      /\ \A e \in Drivers \ {d} : sweep'[e] = sweep[e]
  <2>1. sweep[d] \in Sweeps /\ sweep[d].step = "close"
    BY DEF Domains, CloseAndUnlinkEmail, At
  <2>2. q \in Requests
    BY <2>1 DEF SweepOK, Sweeps
  <2> QED BY <2>1, <2>2 DEF Domains, CloseAndUnlinkEmail, To, Sweeps
<1>1. CASE Permitted
  <2>1. status' = "closed" /\ closedFor' = q /\ sweep'[d].step = "revoke" /\ status # "closed"
    BY <1>0, <1>1 DEF CloseAndUnlinkEmail, AfterClose, Permitted
  <2>2. SweepOK(sweep[d])'
    BY <1>0, <2>1, ErasureAssumption DEF SweepOK
  <2>3. ClosedForOK'
    BY <1>0, <2>1 DEF ClosedForOK, ClaimsOK
  <2> QED BY <1>0, <2>1, <2>2, <2>3, OneSweepMoves DEF NeverShredOpen, DoneMeansErased
<1>2. CASE ~Permitted
  <2>1. UNCHANGED <<status, closedFor>> /\ sweep'[d].step = "release"
    BY <1>0, <1>2 DEF CloseAndUnlinkEmail, AfterClose
  <2>2. SweepOK(sweep[d])'
    BY <1>0, <2>1, ErasureAssumption DEF SweepOK
  <2>3. ClosedForOK'
    BY <1>0, <2>1 DEF ClosedForOK, CloseAndUnlinkEmail, At
  <2> QED BY <1>0, <2>1, <2>2, <2>3, OneSweepMoves DEF NeverShredOpen, DoneMeansErased
<1> QED BY <1>1, <1>2

LEMMA ReleaseInv ==
    ASSUME ErasureInv, Domains', [Next]_vars, NEW d \in Drivers, ReleaseClaim(d)
    PROVE  ErasureInv'
<1> USE DEF ErasureInv
<1> DEFINE q == sweep[d].row
<1>0. /\ sweep \in [Drivers -> Sweeps] /\ q \in Requests
      /\ UNCHANGED <<status, dek, closedFor, overlapped>>
      /\ sweep[d].step = "release"
      /\ sweep'[d].step = "again" /\ sweep'[d].row = Nobody
      /\ \A e \in Drivers \ {d} : sweep'[e] = sweep[e]
  <2>1. sweep[d] \in Sweeps /\ sweep[d].step = "release"
    BY DEF Domains, ReleaseClaim, At
  <2>2. q \in Requests
    BY <2>1 DEF SweepOK, Sweeps
  <2> QED BY <2>1, <2>2 DEF Domains, ReleaseClaim, Leave, Sweeps, accountVars
<1>1. SweepOK(sweep[d])'
  BY <1>0 DEF SweepOK
<1>2. CASE UNCHANGED row
  BY <1>0, <1>1, <1>2, OneSweepMoves DEF NeverShredOpen, DoneMeansErased
<1>3. CASE row[q].status = "executing" /\ row' = [row EXCEPT ![q].status = "pending"]
  <2>1. /\ row'[q].status = "pending" /\ row'[q].done = row[q].done
        /\ \A p \in Requests \ {q} : row'[p] = row[p]
    BY <1>0, <1>3 DEF Domains, Rows
  <2>2. OneOutstanding'
    BY <1>3, <2>1 DEF OneOutstanding, Outstanding
  <2>3. ClaimsOK'
    BY <1>0, <2>1, ErasureAssumption DEF ClaimsOK
  <2>4. ClosedForOK'
    BY <1>0, <2>1 DEF ClosedForOK
  <2> QED BY <1>0, <1>1, <2>1, <2>2, <2>3, <2>4, OneSweepMoves
          DEF NeverShredOpen, DoneMeansErased
<1> QED BY <1>2, <1>3 DEF ReleaseClaim

LEMMA MarkInv ==
    ASSUME ErasureInv, Domains', [Next]_vars, NEW d \in Drivers, MarkDomainDone(d)
    PROVE  ErasureInv'
<1> USE DEF ErasureInv
<1> DEFINE q == sweep[d].row
<1>0. /\ sweep \in [Drivers -> Sweeps] /\ q \in Requests
      /\ UNCHANGED <<status, dek, closedFor, overlapped>>
      /\ sweep[d].step = "mark"
      /\ sweep'[d].step = "again" /\ sweep'[d].row = Nobody
      /\ \A e \in Drivers \ {d} : sweep'[e] = sweep[e]
  <2>1. sweep[d] \in Sweeps /\ sweep[d].step = "mark"
    BY DEF Domains, MarkDomainDone, At
  <2>2. q \in Requests
    BY <2>1 DEF SweepOK, Sweeps
  <2> QED BY <2>1, <2>2 DEF Domains, MarkDomainDone, Leave, Sweeps, accountVars
<1>1. SweepOK(sweep[d])' /\ status = "closed" /\ dek = "destroyed"
  BY <1>0 DEF SweepOK
<1>2. \A p \in Requests : row'[p].status = row[p].status
  BY DEF MarkDomainDone, Domains, Rows
<1>3. OneOutstanding' /\ ClaimsOK' /\ ClosedForOK' /\ NeverShredOpen' /\ DoneMeansErased'
  BY <1>0, <1>1, <1>2, ErasureAssumption
  DEF OneOutstanding, Outstanding, ClaimsOK, ClosedForOK, NeverShredOpen, DoneMeansErased
<1> QED BY <1>0, <1>1, <1>3, OneSweepMoves

LEMMA QuietSweepInv ==
    ASSUME ErasureInv, Domains', [Next]_vars, NEW d \in Drivers,
           \/ NothingToClaim(d) \/ ReadUser(d) \/ RevokeSessions(d)
           \/ UnlinkAllForErasure(d) \/ DestroyDek(d) \/ Crash(d)
    PROVE  ErasureInv'
<1> USE DEF ErasureInv
<1>0. /\ sweep \in [Drivers -> Sweeps] /\ sweep[d] \in Sweeps
      /\ UNCHANGED <<status, closedFor, row, overlapped>>
  BY DEF Domains, NothingToClaim, ReadUser, RevokeSessions, UnlinkAllForErasure, DestroyDek,
         Crash, accountVars
<1>1. /\ \A e \in Drivers \ {d} : sweep'[e] = sweep[e]
      /\ \/ sweep'[d] = Idle
         \/ /\ sweep'[d].row = sweep[d].row /\ sweep[d].step \notin {"idle", "again"}
            /\ \/ sweep'[d].step = FirstStep /\ UNCHANGED dek
               \/ sweep'[d].step \in {"unlink", "destroy"} /\ status = "closed"
               \/ sweep'[d].step = "mark" /\ status = "closed" /\ dek' = "destroyed"
  <2>1. CASE NothingToClaim(d) \/ Crash(d)
    BY <1>0, <2>1 DEF NothingToClaim, Crash
  <2>2. ASSUME NEW s, To(d, s)
        PROVE  /\ \A e \in Drivers \ {d} : sweep'[e] = sweep[e]
               /\ sweep'[d].row = sweep[d].row /\ sweep'[d].step = s
    BY <1>0, <2>2 DEF To, Sweeps
  <2>3. CASE ReadUser(d)
    BY <2>2, <2>3 DEF ReadUser, At, accountVars
  <2>4. CASE RevokeSessions(d) \/ UnlinkAllForErasure(d) \/ DestroyDek(d)
    BY <2>2, <2>4 DEF RevokeSessions, UnlinkAllForErasure, DestroyDek, At, SweepOK
  <2> QED BY <2>1, <2>3, <2>4
<1>2. SweepOK(sweep[d])'
  BY <1>0, <1>1 DEF SweepOK, Idle, FirstStep
<1>3. ClosedForOK'
  <2>1. CASE status = "closed"
    BY <1>0, <1>1, <2>1, <1>2, ErasureAssumption, OneSweepMoves DEF FirstStep, Idle
  <2>2. CASE status # "closed"
    BY <1>0, <2>2 DEF ClosedForOK
  <2> QED BY <2>1, <2>2
<1>4. NeverShredOpen' /\ DoneMeansErased'
  <2>1. dek' = dek \/ (dek' = "destroyed" /\ status = "closed")
    BY DEF NothingToClaim, ReadUser, RevokeSessions, UnlinkAllForErasure, DestroyDek, Crash,
           accountVars, At, SweepOK
  <2> QED BY <1>0, <2>1 DEF NeverShredOpen, DoneMeansErased
<1> QED BY <1>0, <1>1, <1>2, <1>3, <1>4, OneSweepMoves DEF Idle

LEMMA NextErasureInv == ErasureInv /\ [Next]_vars => ErasureInv'
<1> SUFFICES ASSUME ErasureInv, [Next]_vars PROVE ErasureInv'
  OBVIOUS
<1>0. Domains'
  BY NextDomains DEF ErasureInv
<1>1. CASE UNCHANGED vars
  <2>1. UNCHANGED <<row, sweep, status, dek, closedFor, overlapped>>
    BY <1>1 DEF vars
  <2>2. OneOutstanding'
    BY <2>1 DEF ErasureInv, OneOutstanding, Outstanding
  <2> QED BY <1>0, <2>1, <2>2, RowsOfOthers
<1>2. ASSUME NEW d \in Drivers, SweepStep(d) \/ Crash(d)
      PROVE  ErasureInv'
  BY <1>0, <1>2, ClaimInv, CloseInv, ReleaseInv, MarkInv, QuietSweepInv DEF SweepStep
<1>3. ASSUME NEW u \in Callers, CallStep(u)
      PROVE  ErasureInv'
  BY <1>0, <1>3, CallInv
<1>4. ASSUME NEW to \in {"active", "deceased_pending", "settlement"}, StatusMoves(to)
      PROVE  ErasureInv'
  BY <1>0, <1>4, StatusMovesInv
<1>5. ASSUME NEW q \in Requests, FallsDue(q)
      PROVE  ErasureInv'
  BY <1>0, <1>5, FallsDueInv
<1> QED BY <1>1, <1>2, <1>3, <1>4, <1>5 DEF Next

LEMMA ErasureInvAlways == Spec => []ErasureInv
BY InitErasureInv, NextErasureInv, PTL DEF Spec

-----------------------------------------------------------------------------
(* The theorems.                                                           *)

\* Every variable stays in its domain, and the account never has two requests
\* outstanding (ux_erasure_requests_outstanding is never hit).
THEOREM TypeCorrect == Spec => []TypeOK
<1>1. ErasureInv => TypeOK
  <2> SUFFICES ASSUME ErasureInv PROVE TypeOK
    OBVIOUS
  <2>1. Cardinality(Outstanding) <= 1
    <3>1. CASE Outstanding = {}
      BY <3>1, FS_EmptySet
    <3>2. CASE Outstanding # {}
      <4>1. PICK q \in Outstanding : Outstanding = {q}
        BY <3>2 DEF ErasureInv, OneOutstanding
      <4>2. Cardinality({q}) = 1
        BY FS_Singleton, Zenon
      <4>3. Cardinality(Outstanding) = 1
        BY <4>1, <4>2, Zenon
      <4> QED BY <4>3
    <3> QED BY <3>1, <3>2
  <2> QED BY <2>1 DEF ErasureInv, Domains, Rows, Sweeps, TypeOK
<1> QED BY <1>1, ErasureInvAlways, PTL

\* Whatever sweeps overlap or die, identity's part counts as done only for a closed
\* account without its data key.
THEOREM DoneIsErased == Spec => []DoneMeansErased
<1>1. ErasureInv => DoneMeansErased
  BY DEF ErasureInv
<1> QED BY <1>1, ErasureInvAlways, PTL

\* The data key of an account that is not closed is never destroyed: the status a
\* sweep has read before cannot mislead it past the compare-and-set of the close.
THEOREM OpenIsNeverShredded == Spec => []NeverShredOpen
<1>1. ErasureInv => NeverShredOpen
  BY DEF ErasureInv
<1> QED BY <1>1, ErasureInvAlways, PTL

\* A withdrawn request closes the account only if two sweeps held it at once.
THEOREM WithdrawnSpared == Spec => []WithdrawnIsSpared
<1>1. ErasureInv => WithdrawnIsSpared
  BY DEF ErasureInv, ClosedForOK, WithdrawnIsSpared
<1> QED BY <1>1, ErasureInvAlways, PTL
-----------------------------------------------------------------------------
(* The credentials of one account: module Account.                           *)

Surfaces == {"account", "extension", "vault"}

SessionRow ==
    [state : {"absent", "live", "ended"}, audience : Surfaces,
     refresh : Nat, prev : Nat, proof : Nat, since : Nat]

CodeRow == [state : CodeStates, kind : Kinds, proof : Nat]

InFlight ==
    [op : {"none", "login", "rotate", "previous", "revoke", "change", "mint", "redeem", "reset"},
     session : Sessions \cup {Null}, code : Codes \cup {Null},
     kind : Kinds, token : Nat, proof : Nat]

\* Account's domains without its bounds, which nothing below needs.
AccountDomains ==
    /\ password \in Nat
    /\ session \in [Sessions -> SessionRow]
    /\ token \in Seq(Sessions)
    /\ code \in [Codes -> CodeRow]
    /\ request \in [Handlers -> InFlight]

\* What acts by a session's id alone has read such a session, and a redemption or a
\* reset such a code.
ReadsOK(q) ==
    /\ q.op \in {"rotate", "revoke", "change"} => q.session \in Sessions
    /\ q.op \in {"redeem", "reset"} => q.code \in Codes

AccountInv ==
    /\ AccountDomains
    /\ \A r \in Handlers : ReadsOK(request[r])
    /\ PasswordChangeEnds

\* Nothing is issued and nobody is signed in at first.
LEMMA InitAccountInv == AccountInit => AccountInv
<1> SUFFICES ASSUME AccountInit PROVE AccountInv
  OBVIOUS
<1>1. NoSession \in SessionRow /\ NoSession.state = "absent"
  BY DEF NoSession, SessionRow, Surfaces
<1>2. NoRequest \in InFlight /\ NoRequest.op = "none"
  BY DEF NoRequest, InFlight, Kinds
<1>3. NoCode \in CodeRow
  BY DEF NoCode, CodeRow, CodeStates, Kinds
<1>4. AccountDomains
  BY <1>1, <1>2, <1>3 DEF AccountInit, AccountDomains
<1>5. PasswordChangeEnds
  BY <1>1 DEF AccountInit, PasswordChangeEnds, Live
<1>6. \A r \in Handlers : ReadsOK(request[r])
  BY <1>2 DEF AccountInit, ReadsOK
<1> QED BY <1>4, <1>5, <1>6 DEF AccountInv

\* A request that begins or ends as ReadsOK asks leaves the requests in order.
LEMMA RequestMoves ==
    ASSUME AccountInv, NEW r \in Handlers, NEW q \in InFlight, ReadsOK(q),
           request' = [request EXCEPT ![r] = q]
    PROVE  /\ request' \in [Handlers -> InFlight]
           /\ \A x \in Handlers : ReadsOK(request'[x])
<1>1. request \in [Handlers -> InFlight]
  BY DEF AccountInv, AccountDomains
<1>2. \A x \in Handlers : request'[x] = IF x = r THEN q ELSE request[x]
  BY <1>1
<1>3. \A x \in Handlers : ReadsOK(request[x])
  BY DEF AccountInv
<1> QED BY <1>1, <1>2, <1>3

LEMMA Finishes ==
    ASSUME AccountInv, NEW r \in Handlers, Finish(r)
    PROVE  /\ request' \in [Handlers -> InFlight]
           /\ \A x \in Handlers : ReadsOK(request'[x])
<1>1. NoRequest \in InFlight /\ ReadsOK(NoRequest)
  BY DEF NoRequest, InFlight, Kinds, ReadsOK
<1> QED BY <1>1, RequestMoves DEF Finish

\* A session is ended, or not, and keeps everything else.
LEMMA EndedRow ==
    ASSUME NEW x \in SessionRow
    PROVE  /\ Ended(x) \in SessionRow
           /\ Ended(x).state # "live"
BY DEF Ended, SessionRow

\* The invariant survives every step that leaves no session alive whose password has
\* been replaced.
LEMMA SessionsMove ==
    ASSUME password' \in Nat, session' \in [Sessions -> SessionRow],
           token' \in Seq(Sessions), code' \in [Codes -> CodeRow],
           request' \in [Handlers -> InFlight],
           \A r \in Handlers : ReadsOK(request'[r]),
           \A s \in Sessions : session'[s].state = "live" => session'[s].since = password'
    PROVE  AccountInv'
BY DEF AccountInv, AccountDomains, PasswordChangeEnds, Live

\* A step that reads and writes codes only.
LEMMA QuietMoves ==
    ASSUME AccountInv, UNCHANGED <<password, session, token>>,
           code' \in [Codes -> CodeRow],
           request' \in [Handlers -> InFlight],
           \A r \in Handlers : ReadsOK(request'[r])
    PROVE  AccountInv'
<1>1. \A s \in Sessions : session[s].state = "live" => session[s].since = password
  BY DEF AccountInv, PasswordChangeEnds, Live
<1>2. password' \in Nat /\ session' \in [Sessions -> SessionRow] /\ token' \in Seq(Sessions)
  BY DEF AccountInv, AccountDomains
<1> QED BY <1>1, <1>2, SessionsMove

\* A session is created with the password of the moment, after however long.
LEMMA SessionCreated ==
    ASSUME AccountInv, NEW s \in Sessions, NEW audience \in Surfaces, NEW proof \in Nat,
           CreateSession(s, audience, proof),
           password' = password, code' = code,
           request' \in [Handlers -> InFlight],
           \A r \in Handlers : ReadsOK(request'[r])
    PROVE  AccountInv'
<1> DEFINE new == NewSession(audience, proof)
<1>1. /\ password \in Nat /\ Len(token) \in Nat /\ token \in Seq(Sessions)
      /\ session \in [Sessions -> SessionRow] /\ code \in [Codes -> CodeRow]
  BY DEF AccountInv, AccountDomains
<1>2. new \in SessionRow /\ new.since = password
  <2> DEFINE refresh == IF audience = "vault" THEN 0 ELSE Len(token) + 1
  <2>1. refresh \in Nat
    BY <1>1
  <2>2. new = [state |-> "live", audience |-> audience, refresh |-> refresh, prev |-> 0,
               proof |-> proof, since |-> password]
    BY DEF NewSession
  <2> QED BY <1>1, <2>1, <2>2 DEF SessionRow
<1>3. /\ session' \in [Sessions -> SessionRow]
      /\ session'[s] = new
      /\ \A x \in Sessions : x # s => session'[x] = session[x]
  BY <1>1, <1>2 DEF CreateSession
<1>4. \A x \in Sessions : session'[x].state = "live" => session'[x].since = password'
  BY <1>2, <1>3 DEF AccountInv, PasswordChangeEnds, Live
<1>5. token' \in Seq(Sessions)
  BY <1>1 DEF CreateSession, IssuedTo
<1> QED BY <1>1, <1>3, <1>4, <1>5, SessionsMove

\* A handler writes the new password and ends every session but its own, if any.
LEMMA Revoked ==
    ASSUME AccountInv, NEW own \in Sessions \cup {Null},
           password' = password + 1, session' = RevokedExcept(own),
           token' = token, code' \in [Codes -> CodeRow],
           request' \in [Handlers -> InFlight],
           \A r \in Handlers : ReadsOK(request'[r])
    PROVE  AccountInv'
<1>1. session \in [Sessions -> SessionRow] /\ password' \in Nat /\ token' \in Seq(Sessions)
  BY DEF AccountInv, AccountDomains
<1>2. ASSUME NEW s \in Sessions
      PROVE  /\ session'[s] \in SessionRow
             /\ session'[s].state = "live" => session'[s].since = password'
  <2>1. session[s] \in SessionRow
    BY <1>1
  <2>2. CASE s = own
    <3>1. session'[s] = [session[s] EXCEPT !.proof = password', !.since = password']
      BY <2>2 DEF RevokedExcept
    <3> QED BY <1>1, <2>1, <3>1 DEF SessionRow
  <2>3. CASE s # own
    <3>1. session'[s] = Ended(session[s])
      BY <2>3 DEF RevokedExcept
    <3> QED BY <2>1, <3>1, EndedRow
  <2> QED BY <2>2, <2>3
<1>3. session' \in [Sessions -> SessionRow]
  BY <1>2 DEF RevokedExcept
<1> QED BY <1>1, <1>2, <1>3, SessionsMove

\* The statements of a request that change neither session, token nor password.
LEMMA ReadingInv ==
    ASSUME AccountInv, NEW r \in Handlers,
           \/ Login(r) \/ RequestReset(r) \/ LookUpPrevious(r) \/ Fails(r)
           \/ \E t \in 1 .. Len(token) : Refresh(r, t)
           \/ \E s \in Sessions :
                 \/ ChangePassword(r, s)
                 \/ \E kind \in {"handoff", "pairing"} : Mint(r, kind, s)
           \/ \E c \in Codes : CodeInserted(r, c) \/ Redeem(r, c) \/ Reset(r, c)
    PROVE  AccountInv'
<1>0. /\ password \in Nat
      /\ session \in [Sessions -> SessionRow]
      /\ token \in Seq(Sessions)
      /\ code \in [Codes -> CodeRow]
      /\ request \in [Handlers -> InFlight]
  BY DEF AccountInv, AccountDomains
<1>1. /\ NoRequest \in InFlight
      /\ NoRequest.op = "none"
  BY DEF NoRequest, InFlight, Kinds
<1>2. \A kind : Retired(kind) \in [Codes -> CodeRow]
  BY <1>0 DEF Retired, CodeRow, CodeStates
<1>3. UNCHANGED <<password, session, token>>
  BY DEF Login, RequestReset, LookUpPrevious, Fails, Refresh,
         ChangePassword, Mint, CodeInserted, Redeem, Reset
<1>4. CASE Login(r)
  <2> DEFINE q == [NoRequest EXCEPT !.op = "login", !.proof = password]
  <2>1. q \in InFlight /\ ReadsOK(q)
    BY <1>0, <1>1 DEF InFlight, ReadsOK
  <2>2. request' = [request EXCEPT ![r] = q] /\ code' = code
    BY <1>4 DEF Login, Begin
  <2> QED BY <1>0, <1>3, <2>1, <2>2, RequestMoves, QuietMoves
<1>5. CASE RequestReset(r)
  <2> DEFINE q == [NoRequest EXCEPT !.op = "mint", !.kind = "reset"]
  <2>1. q \in InFlight /\ ReadsOK(q)
    BY <1>0, <1>1 DEF InFlight, ReadsOK, Kinds
  <2>2. request' = [request EXCEPT ![r] = q] /\ code' = Retired("reset")
    BY <1>5 DEF RequestReset, Begin
  <2> QED BY <1>2, <1>3, <2>1, <2>2, RequestMoves, QuietMoves
<1>6. CASE LookUpPrevious(r)
  <2>1. code' = code
    BY <1>6 DEF LookUpPrevious
  <2>2. CASE Finish(r)
    BY <1>0, <1>3, <2>1, <2>2, Finishes, QuietMoves
  <2>3. CASE \E s \in Sessions :
                request' = [request EXCEPT ![r] =
                              [NoRequest EXCEPT !.op = "revoke", !.session = s]]
    <3>1. PICK s \in Sessions :
              request' = [request EXCEPT ![r] =
                            [NoRequest EXCEPT !.op = "revoke", !.session = s]]
      BY <2>3
    <3> DEFINE q == [NoRequest EXCEPT !.op = "revoke", !.session = s]
    <3>2. q \in InFlight /\ ReadsOK(q)
      BY <1>1 DEF InFlight, ReadsOK
    <3> QED BY <1>0, <1>3, <2>1, <3>1, <3>2, RequestMoves, QuietMoves
  <2> QED BY <1>6, <2>2, <2>3 DEF LookUpPrevious
<1>7. CASE Fails(r)
  <2>1. code' = code /\ Finish(r)
    BY <1>7 DEF Fails
  <2> QED BY <1>0, <1>3, <2>1, Finishes, QuietMoves
<1>8. CASE \E t \in 1 .. Len(token) : Refresh(r, t)
  <2>1. PICK t \in 1 .. Len(token) : Refresh(r, t)
    BY <1>8
  <2>2. t \in Nat
    BY <1>0
  <2>0. code' = code
    BY <2>1 DEF Refresh
  <2>3. CASE \E s \in Sessions :
                Begin(r, [NoRequest EXCEPT !.op = "rotate", !.session = s, !.token = t])
    <3>1. PICK s \in Sessions :
              Begin(r, [NoRequest EXCEPT !.op = "rotate", !.session = s, !.token = t])
      BY <2>3
    <3> DEFINE q == [NoRequest EXCEPT !.op = "rotate", !.session = s, !.token = t]
    <3>2. q \in InFlight /\ ReadsOK(q)
      BY <1>1, <2>2 DEF InFlight, ReadsOK
    <3>3. request' = [request EXCEPT ![r] = q]
      BY <3>1 DEF Begin
    <3> QED BY <1>0, <1>3, <2>0, <3>2, <3>3, RequestMoves, QuietMoves
  <2>4. CASE Begin(r, [NoRequest EXCEPT !.op = "previous", !.token = t])
    <3> DEFINE q == [NoRequest EXCEPT !.op = "previous", !.token = t]
    <3>1. q \in InFlight /\ ReadsOK(q)
      BY <1>1, <2>2 DEF InFlight, ReadsOK
    <3>2. request' = [request EXCEPT ![r] = q]
      BY <2>4 DEF Begin
    <3> QED BY <1>0, <1>3, <2>0, <3>1, <3>2, RequestMoves, QuietMoves
  <2> QED BY <2>1, <2>3, <2>4 DEF Refresh
<1>9. CASE \E s \in Sessions : ChangePassword(r, s)
  <2>1. PICK s \in Sessions : ChangePassword(r, s)
    BY <1>9
  <2> DEFINE q == [NoRequest EXCEPT !.op = "change", !.session = s]
  <2>2. q \in InFlight /\ ReadsOK(q)
    BY <1>1 DEF InFlight, ReadsOK
  <2>3. request' = [request EXCEPT ![r] = q] /\ code' = code
    BY <2>1 DEF ChangePassword, Begin
  <2> QED BY <1>0, <1>3, <2>2, <2>3, RequestMoves, QuietMoves
<1>10. CASE \E s \in Sessions, kind \in {"handoff", "pairing"} : Mint(r, kind, s)
  <2>1. PICK s \in Sessions, kind \in {"handoff", "pairing"} : Mint(r, kind, s)
    BY <1>10
  <2> DEFINE q == [NoRequest EXCEPT !.op = "mint", !.kind = kind,
                                        !.proof = session[s].proof]
  <2>2. session[s].proof \in Nat
    BY <1>0 DEF SessionRow
  <2>3. q \in InFlight /\ ReadsOK(q)
    BY <1>1, <2>2 DEF InFlight, ReadsOK, Kinds
  <2>4. request' = [request EXCEPT ![r] = q] /\ code' = Retired(kind)
    BY <2>1 DEF Mint, Begin
  <2> QED BY <1>2, <1>3, <2>3, <2>4, RequestMoves, QuietMoves
<1>11. CASE \E c \in Codes : CodeInserted(r, c)
  <2>1. PICK c \in Codes : CodeInserted(r, c)
    BY <1>11
  <2> DEFINE inserted == [NoCode EXCEPT !.state = "live", !.kind = request[r].kind,
                                            !.proof = request[r].proof]
  <2>2. inserted \in CodeRow
    BY <1>0 DEF NoCode, CodeRow, CodeStates, InFlight, Kinds
  <2>3. code' \in {code, [code EXCEPT ![c] = inserted]}
    BY <2>1 DEF CodeInserted
  <2>4. code' \in [Codes -> CodeRow]
    BY <1>0, <2>2, <2>3
  <2> QED BY <1>3, <2>1, <2>4, Finishes, QuietMoves DEF CodeInserted
<1>12. CASE \E c \in Codes : Redeem(r, c)
  <2>1. PICK c \in Codes : Redeem(r, c)
    BY <1>12
  <2> DEFINE q == [NoRequest EXCEPT !.op = "redeem", !.code = c]
  <2>2. q \in InFlight /\ ReadsOK(q)
    BY <1>1 DEF InFlight, ReadsOK
  <2>3. request' = [request EXCEPT ![r] = q] /\ code' = [code EXCEPT ![c].state = "spent"]
    BY <2>1 DEF Redeem, Begin
  <2>4. code' \in [Codes -> CodeRow]
    BY <1>0, <2>3 DEF CodeRow, CodeStates
  <2> QED BY <1>3, <2>2, <2>3, <2>4, RequestMoves, QuietMoves
<1>13. CASE \E c \in Codes : Reset(r, c)
  <2>1. PICK c \in Codes : Reset(r, c)
    BY <1>13
  <2> DEFINE q == [NoRequest EXCEPT !.op = "reset", !.code = c]
  <2>2. q \in InFlight /\ ReadsOK(q)
    BY <1>1 DEF InFlight, ReadsOK
  <2>3. request' = [request EXCEPT ![r] = q] /\ code' = code
    BY <2>1 DEF Reset, Begin
  <2> QED BY <1>0, <1>3, <2>2, <2>3, RequestMoves, QuietMoves
<1> QED BY <1>4, <1>5, <1>6, <1>7, <1>8, <1>9, <1>10, <1>11, <1>12, <1>13

\* The statements that issue a token, end sessions or replace the password.
LEMMA WritingInv ==
    ASSUME AccountInv, NEW r \in Handlers,
           \/ \E s \in Sessions : LoginInserts(r, s) \/ RedeemInserts(r, s)
           \/ Rotate(r) \/ RevokeReused(r)
           \/ PasswordChanged(r) \/ ResetCompleted(r)
    PROVE  AccountInv'
<1>0. /\ password \in Nat
      /\ session \in [Sessions -> SessionRow]
      /\ token \in Seq(Sessions)
      /\ code \in [Codes -> CodeRow]
      /\ request \in [Handlers -> InFlight]
      /\ request[r] \in InFlight
      /\ ReadsOK(request[r])
  BY DEF AccountInv, AccountDomains
<1>1. /\ request' \in [Handlers -> InFlight]
      /\ \A x \in Handlers : ReadsOK(request'[x])
  <2>1. Finish(r)
    BY DEF LoginInserts, RedeemInserts, Rotate, RevokeReused,
           PasswordChanged, ResetCompleted
  <2> QED BY <2>1, Finishes
<1>2. CASE \E s \in Sessions : LoginInserts(r, s)
  <2>1. PICK s \in Sessions : LoginInserts(r, s)
    BY <1>2
  <2>2. CreateSession(s, "account", request[r].proof) /\ UNCHANGED <<password, code>>
    BY <2>1 DEF LoginInserts
  <2>3. request[r].proof \in Nat /\ "account" \in Surfaces
    BY <1>0 DEF InFlight, Surfaces
  <2> QED BY <1>1, <2>2, <2>3, SessionCreated
<1>3. CASE \E s \in Sessions : RedeemInserts(r, s)
  <2>1. PICK s \in Sessions : RedeemInserts(r, s)
    BY <1>3
  <2> DEFINE c == request[r].code
             audience == IF code[c].kind = "handoff" THEN "vault" ELSE "extension"
  <2>2. c \in Codes
    BY <1>0, <2>1 DEF RedeemInserts, ReadsOK
  <2>3. code[c].proof \in Nat /\ audience \in Surfaces
    BY <1>0, <2>2 DEF CodeRow, Surfaces
  <2>4. CreateSession(s, audience, code[c].proof) /\ UNCHANGED <<password, code>>
    BY <2>1 DEF RedeemInserts
  <2> HIDE DEF audience
  <2> QED BY <1>1, <2>3, <2>4, SessionCreated
<1>4. CASE Rotate(r)
  <2> DEFINE s == request[r].session
  <2>1. s \in Sessions /\ request[r].token \in Nat
    BY <1>0, <1>4 DEF Rotate, ReadsOK, InFlight
  <2>2. /\ session' = [session EXCEPT ![s].refresh = Len(token) + 1, ![s].prev = request[r].token]
        /\ token' = Append(token, s)
        /\ UNCHANGED <<password, code>>
    BY <1>4 DEF Rotate, Rotated, IssuedTo
  <2>3. Len(token) + 1 \in Nat
    BY <1>0
  <2>4. /\ session' \in [Sessions -> SessionRow]
        /\ session'[s].state = session[s].state
        /\ session'[s].since = session[s].since
        /\ \A x \in Sessions : x # s => session'[x] = session[x]
    <3>1. session[s] \in SessionRow
      BY <1>0, <2>1
    <3> DEFINE rotated == [session[s] EXCEPT !.refresh = Len(token) + 1,
                                             !.prev = request[r].token]
    <3>2. /\ rotated \in SessionRow
          /\ rotated.state = session[s].state
          /\ rotated.since = session[s].since
      BY <2>1, <2>3, <3>1 DEF SessionRow
    <3>3. session' = [session EXCEPT ![s] = rotated]
      BY <1>0, <2>1, <2>2
    <3> HIDE DEF rotated
    <3> QED BY <1>0, <2>1, <3>2, <3>3
  <2>5. \A x \in Sessions : session'[x].state = "live" => session'[x].since = password'
    BY <2>1, <2>2, <2>4 DEF AccountInv, PasswordChangeEnds, Live
  <2>6. token' \in Seq(Sessions)
    BY <1>0, <2>1, <2>2
  <2> HIDE DEF s
  <2> QED BY <1>0, <1>1, <2>2, <2>4, <2>5, <2>6, SessionsMove
<1>5. CASE RevokeReused(r)
  <2> DEFINE s == request[r].session
  <2>1. s \in Sessions /\ session[s] \in SessionRow
    BY <1>0, <1>5 DEF RevokeReused, ReadsOK
  <2>2. /\ session' = [session EXCEPT ![s] = Ended(session[s])]
        /\ UNCHANGED <<password, token, code>>
    BY <1>5 DEF RevokeReused
  <2>3. /\ session' \in [Sessions -> SessionRow]
        /\ \A x \in Sessions : session'[x].state = "live" => session'[x] = session[x]
    BY <1>0, <2>1, <2>2, EndedRow
  <2>4. \A x \in Sessions : session'[x].state = "live" => session'[x].since = password'
    BY <2>2, <2>3 DEF AccountInv, PasswordChangeEnds, Live
  <2> QED BY <1>0, <1>1, <2>2, <2>3, <2>4, SessionsMove
<1>6. CASE PasswordChanged(r)
  <2>1. request[r].session \in Sessions
    BY <1>0, <1>6 DEF PasswordChanged, ReadsOK
  <2> QED BY <1>0, <1>1, <1>6, <2>1, Revoked DEF PasswordChanged
<1>7. CASE ResetCompleted(r)
  <2>1. code' \in [Codes -> CodeRow]
    BY <1>0, <1>7 DEF ResetCompleted, MarkRedeemed, CodeRow, CodeStates
  <2> QED BY <1>1, <1>7, <2>1, Revoked DEF ResetCompleted
<1> QED BY <1>2, <1>3, <1>4, <1>5, <1>6, <1>7

\* What ends sessions or codes, or moves the account, outside a request.
LEMMA EndingInv ==
    ASSUME AccountInv,
           \/ \E s \in Sessions : EndSession(s)
           \/ \E c \in Codes : CodeLapses(c)
           \/ RevokeUndelivered
           \/ Settle \/ RevokeAllSettled
           \/ UNCHANGED credentialVars
    PROVE  AccountInv'
<1>0. /\ session \in [Sessions -> SessionRow]
      /\ code \in [Codes -> CodeRow]
      /\ request \in [Handlers -> InFlight]
      /\ \A r \in Handlers : ReadsOK(request[r])
      /\ password \in Nat /\ token \in Seq(Sessions)
  BY DEF AccountInv, AccountDomains
<1>1. request' = request /\ token' = token /\ password' = password
  BY DEF EndSession, CodeLapses, RevokeUndelivered, Settle, RevokeAllSettled, credentialVars
<1>2. CASE \E s \in Sessions : EndSession(s)
  <2>1. PICK s \in Sessions : EndSession(s)
    BY <1>2
  <2>2. session' = [session EXCEPT ![s] = Ended(session[s])] /\ code' = code
    BY <2>1 DEF EndSession
  <2>3. /\ session' \in [Sessions -> SessionRow]
        /\ \A x \in Sessions : session'[x].state = "live" => session'[x] = session[x]
    BY <1>0, <2>2, EndedRow
  <2>4. \A x \in Sessions : session'[x].state = "live" => session'[x].since = password'
    BY <1>1, <2>3 DEF AccountInv, PasswordChangeEnds, Live
  <2> QED BY <1>0, <1>1, <2>2, <2>3, <2>4, SessionsMove
<1>3. CASE \E c \in Codes : CodeLapses(c)
  <2>1. code' \in [Codes -> CodeRow] /\ session' = session
    BY <1>0, <1>3 DEF CodeLapses, CodeRow, CodeStates
  <2> QED BY <1>0, <1>1, <2>1, QuietMoves
<1>6. CASE RevokeUndelivered
  <2>1. code' \in [Codes -> CodeRow] /\ session' = session
    BY <1>0, <1>6 DEF RevokeUndelivered, Retired, CodeRow, CodeStates
  <2> QED BY <1>0, <1>1, <2>1, QuietMoves
<1>4. CASE Settle \/ UNCHANGED credentialVars
  <2>1. code' = code /\ session' = session
    BY <1>4 DEF Settle, credentialVars
  <2> QED BY <1>0, <1>1, <2>1, QuietMoves
<1>5. CASE RevokeAllSettled
  <2>1. session' = [x \in Sessions |-> Ended(session[x])] /\ code' = code
    BY <1>5 DEF RevokeAllSettled
  <2>2. /\ session' \in [Sessions -> SessionRow]
        /\ \A x \in Sessions : session'[x].state # "live"
    BY <1>0, <2>1, EndedRow
  <2> QED BY <1>0, <1>1, <2>1, <2>2, SessionsMove
<1> QED BY <1>2, <1>3, <1>4, <1>5, <1>6

LEMMA AccountInvAlways == AccountSpec => []AccountInv
<1>1. ASSUME AccountInv, [AccountNext]_credentialVars
      PROVE  AccountInv'
  <2>1. CASE \E r \in Handlers : RequestStep(r)
    <3>1. PICK r \in Handlers : RequestStep(r)
      BY <2>1
    <3> QED BY <1>1, <3>1, ReadingInv, WritingInv DEF RequestStep
  <2>2. CASE UNCHANGED credentialVars
    BY <1>1, <2>2, EndingInv
  <2>3. CASE \/ \E s \in Sessions : EndSession(s)
             \/ \E c \in Codes : CodeLapses(c)
             \/ RevokeUndelivered
             \/ Settle \/ RevokeAllSettled
    BY <1>1, <2>3, EndingInv
  <2> QED BY <1>1, <2>1, <2>2, <2>3 DEF AccountNext
<1> QED BY <1>1, InitAccountInv, PTL DEF AccountSpec

\* However many logins, rotations, redemptions and changes are in flight, no session
\* that existed when the password was replaced is alive afterwards, but the changer's.
THEOREM PasswordChangeHolds == AccountSpec => []PasswordChangeEnds
<1>1. AccountInv => PasswordChangeEnds
  BY DEF AccountInv
<1> QED BY <1>1, AccountInvAlways, PTL

-----------------------------------------------------------------------------
(* Single-use codes.                                                         *)

Redeems(r) == request[r].op = "redeem"

\* Only a spent code has been used, and one whose redemption is still in flight has
\* not been: no other redemption holds it.
CodesInv ==
    /\ used \in [Codes -> Nat]
    /\ \A c \in Codes : code[c].state # "spent" => used[c] = 0
    /\ \A r \in Handlers :
          Redeems(r) => code[request[r].code].state = "spent" /\ used[request[r].code] = 0
    /\ \A r, x \in Handlers :
          Redeems(r) /\ Redeems(x) /\ request[r].code = request[x].code => r = x

LEMMA InitCodesInv == AccountInit => CodesInv
BY DEF AccountInit, CodesInv, Redeems, NoRequest

\* A step that spends no code, and begins no redemption.
LEMMA CodesKept ==
    ASSUME AccountInv, CodesInv, used' = used,
           \A c \in Codes : code'[c].state = "spent" <=> code[c].state = "spent",
           \A r \in Handlers : request'[r] = request[r] \/ request'[r].op # "redeem"
    PROVE  CodesInv'
<1>1. \A r \in Handlers : Redeems(r) => request[r].code \in Codes
  BY DEF AccountInv, ReadsOK, Redeems
<1>2. \A r \in Handlers : Redeems(r)' => Redeems(r) /\ request'[r] = request[r]
  BY DEF Redeems
<1> QED BY <1>1, <1>2 DEF CodesInv

LEMMA CodesFinish ==
    ASSUME AccountInv, NEW r \in Handlers, Finish(r)
    PROVE  \A x \in Handlers :
              request'[x] = IF x = r THEN NoRequest ELSE request[x]
BY DEF AccountInv, AccountDomains, Finish

LEMMA CodesBegin ==
    ASSUME AccountInv, NEW r \in Handlers, NEW q, request' = [request EXCEPT ![r] = q],
           q.op # "redeem"
    PROVE  \A x \in Handlers : request'[x] = request[x] \/ request'[x].op # "redeem"
BY DEF AccountInv, AccountDomains

\* No statement but a claim, an insertion after it and a completed reset touches what
\* the invariant speaks of: retiring and inserting move codes that are not spent.
LEMMA CodesUntouched ==
    ASSUME AccountInv, CodesInv, AccountNext,
           ~ \E r \in Handlers :
                \/ \E c \in Codes : Redeem(r, c)
                \/ \E s \in Sessions : RedeemInserts(r, s)
                \/ ResetCompleted(r)
    PROVE  used' = used /\ CodesInv'
<1>0. /\ code \in [Codes -> CodeRow] /\ request \in [Handlers -> InFlight]
      /\ NoRequest.op = "none"
  BY DEF AccountInv, AccountDomains, NoRequest
<1>1. ASSUME code' = code
      PROVE  \A c \in Codes : code'[c].state = "spent" <=> code[c].state = "spent"
  BY <1>1
<1>2. ASSUME NEW kind, code' = Retired(kind)
      PROVE  \A c \in Codes : code'[c].state = "spent" <=> code[c].state = "spent"
  BY <1>0, <1>2 DEF Retired, LiveCodes, Standing, CodeRow
<1>3. ASSUME request' = request PROVE \A r \in Handlers : request'[r] = request[r]
  BY <1>3
<1>4. CASE \/ \E s \in Sessions : EndSession(s)
           \/ Settle \/ RevokeAllSettled
  BY <1>1, <1>3, <1>4, CodesKept DEF EndSession, Settle, RevokeAllSettled
<1>5. ASSUME NEW c \in Codes, CodeLapses(c) PROVE used' = used /\ CodesInv'
  <2>1. \A k \in Codes : code'[k].state = "spent" <=> code[k].state = "spent"
    BY <1>0, <1>5 DEF CodeLapses, CodeRow, CodeStates
  <2> QED BY <1>3, <1>5, <2>1, CodesKept DEF CodeLapses
<1>7. CASE RevokeUndelivered
  BY <1>2, <1>3, <1>7, CodesKept DEF RevokeUndelivered
<1>6. ASSUME NEW r \in Handlers, RequestStep(r),
             ~ \E c \in Codes : Redeem(r, c), ~ \E s \in Sessions : RedeemInserts(r, s),
             ~ ResetCompleted(r)
      PROVE  used' = used /\ CodesInv'
  <2>1. ASSUME Finish(r)
        PROVE  \A x \in Handlers : request'[x] = request[x] \/ request'[x].op # "redeem"
    BY <1>0, <2>1, CodesFinish
  <2>2. ASSUME NEW q, Begin(r, q), q.op # "redeem"
        PROVE  \A x \in Handlers : request'[x] = request[x] \/ request'[x].op # "redeem"
    BY <2>2, CodesBegin DEF Begin
  <2>3. CASE \/ \E s \in Sessions : LoginInserts(r, s)
             \/ Rotate(r) \/ RevokeReused(r) \/ PasswordChanged(r) \/ Fails(r)
    BY <1>1, <2>1, <2>3, CodesKept
       DEF LoginInserts, Rotate, RevokeReused, PasswordChanged, Fails
  <2>4. CASE Login(r)
    <3>1. [NoRequest EXCEPT !.op = "login", !.proof = password].op # "redeem"
      BY DEF NoRequest
    <3> QED BY <1>1, <2>2, <2>4, <3>1, CodesKept DEF Login
  <2>5. CASE RequestReset(r)
    <3>1. [NoRequest EXCEPT !.op = "mint", !.kind = "reset"].op # "redeem"
      BY DEF NoRequest
    <3> QED BY <1>2, <2>2, <2>5, <3>1, CodesKept DEF RequestReset
  <2>6. ASSUME NEW t \in 1 .. Len(token), Refresh(r, t) PROVE used' = used /\ CodesInv'
    <3>1. \A s \in Sessions :
             [NoRequest EXCEPT !.op = "rotate", !.session = s, !.token = t].op # "redeem"
      BY DEF NoRequest
    <3>2. [NoRequest EXCEPT !.op = "previous", !.token = t].op # "redeem"
      BY DEF NoRequest
    <3> QED BY <1>1, <2>2, <2>6, <3>1, <3>2, CodesKept DEF Refresh
  <2>7. CASE LookUpPrevious(r)
    <3>1. \A s \in Sessions : [NoRequest EXCEPT !.op = "revoke", !.session = s].op # "redeem"
      BY DEF NoRequest
    <3>2. \A x \in Handlers : request'[x] = request[x] \/ request'[x].op # "redeem"
      BY <2>1, <2>7, <3>1, CodesBegin DEF LookUpPrevious
    <3> QED BY <1>1, <2>7, <3>2, CodesKept DEF LookUpPrevious
  <2>8. ASSUME NEW s \in Sessions, ChangePassword(r, s) PROVE used' = used /\ CodesInv'
    <3>1. [NoRequest EXCEPT !.op = "change", !.session = s].op # "redeem"
      BY DEF NoRequest
    <3> QED BY <1>1, <2>2, <2>8, <3>1, CodesKept DEF ChangePassword
  <2>9. ASSUME NEW s \in Sessions, NEW kind \in {"handoff", "pairing"}, Mint(r, kind, s)
        PROVE  used' = used /\ CodesInv'
    <3>1. [NoRequest EXCEPT !.op = "mint", !.kind = kind,
                            !.proof = session[s].proof].op # "redeem"
      BY DEF NoRequest
    <3> QED BY <1>2, <2>2, <2>9, <3>1, CodesKept DEF Mint
  <2>10. ASSUME NEW c \in Codes, CodeInserted(r, c) PROVE used' = used /\ CodesInv'
    <3>1. \A k \in Codes : code'[k].state = "spent" <=> code[k].state = "spent"
      BY <1>0, <2>10 DEF CodeInserted, NoCode
    <3> QED BY <2>1, <2>10, <3>1, CodesKept DEF CodeInserted
  <2>11. ASSUME NEW c \in Codes, Reset(r, c) PROVE used' = used /\ CodesInv'
    <3>1. [NoRequest EXCEPT !.op = "reset", !.code = c].op # "redeem"
      BY DEF NoRequest
    <3> QED BY <1>1, <2>2, <2>11, <3>1, CodesKept DEF Reset
  <2> QED BY <1>6, <2>3, <2>4, <2>5, <2>6, <2>7, <2>8, <2>9, <2>10, <2>11 DEF RequestStep
<1> QED BY <1>4, <1>5, <1>6, <1>7 DEF AccountNext

\* A claim finds the code live, so neither used nor claimed before.
LEMMA ClaimsOnce ==
    ASSUME AccountInv, CodesInv, NEW r \in Handlers, NEW c \in Codes, Redeem(r, c)
    PROVE  used' = used /\ CodesInv'
<1> DEFINE q == [NoRequest EXCEPT !.op = "redeem", !.code = c]
<1>0. code \in [Codes -> CodeRow] /\ request \in [Handlers -> InFlight]
  BY DEF AccountInv, AccountDomains
<1>1. /\ code[c].state = "live" /\ used' = used /\ used[c] = 0
      /\ code' = [code EXCEPT ![c].state = "spent"]
  BY DEF Redeem, Spendable, CodesInv
<1>2. q.op = "redeem" /\ q.code = c
  BY DEF NoRequest
<1>3. \A x \in Handlers : request'[x] = IF x = r THEN q ELSE request[x]
  BY <1>0 DEF Redeem, Begin
<1> HIDE DEF q
<1>4. code'[c].state = "spent" /\ \A k \in Codes : k # c => code'[k] = code[k]
  BY <1>0, <1>1 DEF CodeRow
<1>5. \A x \in Handlers : Redeems(x) => request[x].code \in Codes \ {c}
  BY <1>1 DEF CodesInv, AccountInv, ReadsOK, Redeems
<1> QED BY <1>1, <1>2, <1>3, <1>4, <1>5 DEF CodesInv, Redeems

\* The session of a redemption is inserted once, whatever happened since the claim.
LEMMA InsertsOnce ==
    ASSUME AccountInv, CodesInv, NEW r \in Handlers, NEW s \in Sessions, RedeemInserts(r, s)
    PROVE  /\ \A k \in Codes :
                 used'[k] # used[k] => used[k] = 0 /\ code[k].state # "retired"
           /\ CodesInv'
<1> DEFINE c == request[r].code
<1>1. /\ Redeems(r) /\ c \in Codes /\ code[c].state = "spent" /\ used[c] = 0
      /\ code' = code /\ used' = [used EXCEPT ![c] = @ + 1]
  BY DEF RedeemInserts, Redeems, CodesInv, AccountInv, ReadsOK
<1>2. \A x \in Handlers : request'[x] = IF x = r THEN NoRequest ELSE request[x]
  BY CodesFinish DEF RedeemInserts
<1>3. \A x \in Handlers : x # r /\ Redeems(x) => request[x].code \in Codes \ {c}
  BY <1>1 DEF CodesInv, AccountInv, ReadsOK, Redeems
<1>4. \A x \in Handlers : Redeems(x)' => x # r /\ Redeems(x) /\ request'[x] = request[x]
  BY <1>2 DEF Redeems, NoRequest
<1>5. used \in [Codes -> Nat]
  BY DEF CodesInv
<1> HIDE DEF c
<1>6. /\ used' \in [Codes -> Nat]
      /\ \A k \in Codes : k # c => used'[k] = used[k]
  BY <1>1, <1>5
<1> QED BY <1>1, <1>3, <1>4, <1>6 DEF CodesInv

\* A reset is completed with a code that still stands in its own transaction.
LEMMA ResetsOnce ==
    ASSUME AccountInv, CodesInv, NEW r \in Handlers, ResetCompleted(r)
    PROVE  /\ \A k \in Codes :
                 used'[k] # used[k] => used[k] = 0 /\ code[k].state # "retired"
           /\ CodesInv'
<1> DEFINE c == request[r].code
<1>0. code \in [Codes -> CodeRow] /\ used \in [Codes -> Nat]
  BY DEF AccountInv, AccountDomains, CodesInv
<1>1. /\ c \in Codes /\ code[c].state \in {"live", "lapsed"} /\ used[c] = 0
      /\ code' = [code EXCEPT ![c].state = "spent"] /\ used' = [used EXCEPT ![c] = @ + 1]
  BY DEF ResetCompleted, MarkRedeemed, Standing, CodesInv, AccountInv, ReadsOK
<1>2. \A x \in Handlers : request'[x] = IF x = r THEN NoRequest ELSE request[x]
  BY CodesFinish DEF ResetCompleted
<1>3. \A x \in Handlers : Redeems(x) => request[x].code \in Codes \ {c}
  BY <1>1 DEF CodesInv, AccountInv, ReadsOK, Redeems
<1>4. \A x \in Handlers : Redeems(x)' => Redeems(x) /\ request'[x] = request[x]
  BY <1>2 DEF Redeems, NoRequest
<1> HIDE DEF c
<1>5. /\ used' \in [Codes -> Nat]
      /\ code'[c].state = "spent"
      /\ \A k \in Codes : k # c => used'[k] = used[k] /\ code'[k] = code[k]
  BY <1>0, <1>1 DEF CodeRow
<1> QED BY <1>1, <1>3, <1>4, <1>5 DEF CodesInv

LEMMA CodesStep ==
    ASSUME AccountInv, CodesInv, [AccountNext]_credentialVars
    PROVE  /\ CodesInv'
           /\ \A c \in Codes :
                 used'[c] # used[c] => used[c] = 0 /\ code[c].state # "retired"
<1>1. CASE UNCHANGED credentialVars
  BY <1>1, CodesKept DEF credentialVars
<1>2. CASE AccountNext
  <2>1. CASE \E r \in Handlers :
                \/ \E c \in Codes : Redeem(r, c)
                \/ \E s \in Sessions : RedeemInserts(r, s)
                \/ ResetCompleted(r)
    BY <2>1, ClaimsOnce, InsertsOnce, ResetsOnce
  <2> QED BY <1>2, <2>1, CodesUntouched
<1> QED BY <1>1, <1>2

LEMMA CodesInvAlways == AccountSpec => []CodesInv
BY InitCodesInv, AccountInvAlways, CodesStep, PTL DEF AccountSpec

\* However many redemptions, resets and new requests for a code are in flight, no code
\* opens a second session or sets a second password, and none does anything after it
\* was superseded or withdrawn, though a reset looks at its code in another statement
\* than the one that spends it.
THEOREM CodesWorkOnceHolds == AccountSpec => CodesWorkOnce
<1>1. AccountInv /\ CodesInv /\ [AccountNext]_credentialVars =>
         [\A c \in Codes :
             used'[c] # used[c] =>
                 used[c] = 0 /\ code[c].state # "retired"]_credentialVars
  BY CodesStep
<1> QED BY <1>1, AccountInvAlways, CodesInvAlways, PTL DEF AccountSpec, CodesWorkOnce

-----------------------------------------------------------------------------
(* The domains of Account, with its bounds.                                  *)

CodeRows == [state : CodeStates, kind : Kinds, proof : Passwords]

RequestRows ==
    [op : Ops, session : Sessions \cup {Null}, code : Codes \cup {Null}, kind : Kinds,
     token : TokenIds, proof : Passwords]

\* A rotation has found the session of a token, which is none of the vault's.
Rotates(q) ==
    q.op = "rotate" => /\ q.session \in Sessions
                       /\ session[q.session].state # "absent"
                       /\ session[q.session].audience # "vault"

\* AccountTypeOK but for the history of the codes.
AccountBounded ==
    /\ userStatus \in {"active", "settlement"}
    /\ password \in 1 .. MaxPasswords
    /\ session \in [Sessions -> SessionRows]
    /\ token \in Seq(Sessions) /\ Len(token) <= MaxTokens
    /\ code \in [Codes -> CodeRows]
    /\ request \in [Handlers -> RequestRows]

AccountTyped == AccountBounded /\ \A r \in Handlers : Rotates(request[r])

LEMMA NoRequestTyped == NoRequest \in RequestRows /\ NoRequest.op = "none"
<1>1. 0 \in TokenIds /\ 0 \in Passwords
  BY AccountAssumption DEF TokenIds, Passwords
<1> QED BY <1>1 DEF NoRequest, RequestRows, Ops, Kinds

LEMMA InitAccountTyped == AccountInit => AccountTyped
<1> SUFFICES ASSUME AccountInit PROVE AccountTyped
  OBVIOUS
<1>1. 0 \in TokenIds /\ 0 \in Passwords /\ 1 \in 1 .. MaxPasswords /\ 0 <= MaxTokens
  BY AccountAssumption DEF TokenIds, Passwords
<1>2. NoSession \in SessionRows
  BY <1>1 DEF NoSession, SessionRows
<1>3. NoCode \in CodeRows
  BY <1>1 DEF NoCode, CodeRows, CodeStates, Kinds
<1>4. Len(token) = 0 /\ token \in Seq(Sessions)
  BY DEF AccountInit
<1>5. AccountBounded
  BY <1>1, <1>2, <1>3, <1>4, NoRequestTyped
     DEF AccountInit, AccountBounded, CodeRows, RequestRows
<1>6. \A r \in Handlers : Rotates(request[r])
  BY NoRequestTyped DEF AccountInit, Rotates
<1> QED BY <1>5, <1>6 DEF AccountTyped

\* A session keeps its audience for good, so a rotation that found it still has it.
LEMMA TypedMoves ==
    ASSUME AccountTyped,
           userStatus' \in {"active", "settlement"},
           password' \in 1 .. MaxPasswords,
           token' \in Seq(Sessions), Len(token') <= MaxTokens,
           code' \in [Codes -> CodeRows],
           session' \in [Sessions -> SessionRows],
           \A s \in Sessions :
              session[s].state # "absent" =>
                  session'[s].state # "absent" /\ session'[s].audience = session[s].audience,
           request' \in [Handlers -> RequestRows],
           \A r \in Handlers : request'[r] = request[r] \/ Rotates(request'[r])
    PROVE  AccountTyped'
<1>1. AccountBounded'
  BY DEF AccountBounded, CodeRows, RequestRows
<1>2. ASSUME NEW r \in Handlers, request'[r].op = "rotate"
      PROVE  /\ request'[r].session \in Sessions
             /\ session'[request'[r].session].state # "absent"
             /\ session'[request'[r].session].audience # "vault"
  <2>1. Rotates(request'[r])
    BY DEF AccountTyped
  <2> QED BY <1>2, <2>1 DEF Rotates
<1>3. (\A r \in Handlers : Rotates(request[r]))'
  BY <1>2 DEF Rotates
<1> QED BY <1>1, <1>3 DEF AccountTyped

\* A request begins, goes on or ends, and at most codes are written.
LEMMA RequestTyped ==
    ASSUME AccountTyped, NEW r \in Handlers, NEW q \in RequestRows, Rotates(q),
           request' = [request EXCEPT ![r] = q],
           UNCHANGED <<userStatus, password, session, token>>,
           code' \in [Codes -> CodeRows]
    PROVE  AccountTyped'
<1>1. /\ userStatus \in {"active", "settlement"} /\ password \in 1 .. MaxPasswords
      /\ token \in Seq(Sessions) /\ Len(token) <= MaxTokens
      /\ session \in [Sessions -> SessionRows]
      /\ request \in [Handlers -> RequestRows]
  BY DEF AccountTyped, AccountBounded, RequestRows
<1>2. /\ request' \in [Handlers -> RequestRows]
      /\ \A x \in Handlers : request'[x] = request[x] \/ Rotates(request'[x])
  BY <1>1
<1> QED BY <1>1, <1>2, TypedMoves

\* A request that finishes with a write.
LEMMA WriteTyped ==
    ASSUME AccountTyped, NEW r \in Handlers, Finish(r),
           userStatus' = userStatus, password' \in 1 .. MaxPasswords,
           token' \in Seq(Sessions), Len(token') <= MaxTokens,
           code' \in [Codes -> CodeRows],
           session' \in [Sessions -> SessionRows],
           \A s \in Sessions :
              session[s].state # "absent" =>
                  session'[s].state # "absent" /\ session'[s].audience = session[s].audience
    PROVE  AccountTyped'
<1>1. userStatus \in {"active", "settlement"} /\ request \in [Handlers -> RequestRows]
  BY DEF AccountTyped, AccountBounded, RequestRows
<1>2. Rotates(NoRequest)
  BY NoRequestTyped DEF Rotates
<1>3. /\ request' \in [Handlers -> RequestRows]
      /\ \A x \in Handlers : request'[x] = request[x] \/ Rotates(request'[x])
  BY <1>1, <1>2, NoRequestTyped DEF Finish
<1> QED BY <1>1, <1>3, TypedMoves

LEMMA EndedTyped ==
    ASSUME NEW x \in SessionRows
    PROVE  /\ Ended(x) \in SessionRows
           /\ x.state # "absent" => Ended(x).state # "absent"
           /\ Ended(x).audience = x.audience
BY DEF Ended, SessionRows

\* The statements of a request that write codes at most.
LEMMA ReadingTyped ==
    ASSUME AccountTyped, NEW r \in Handlers,
           \/ Login(r) \/ RequestReset(r) \/ LookUpPrevious(r) \/ Fails(r)
           \/ \E t \in 1 .. Len(token) : Refresh(r, t)
           \/ \E s \in Sessions :
                 \/ ChangePassword(r, s)
                 \/ \E kind \in {"handoff", "pairing"} : Mint(r, kind, s)
           \/ \E c \in Codes : CodeInserted(r, c) \/ Redeem(r, c) \/ Reset(r, c)
    PROVE  AccountTyped'
<1>0. /\ password \in 1 .. MaxPasswords
      /\ session \in [Sessions -> SessionRows]
      /\ token \in Seq(Sessions) /\ Len(token) <= MaxTokens
      /\ code \in [Codes -> CodeRows]
      /\ request \in [Handlers -> RequestRows]
  BY DEF AccountTyped, AccountBounded, RequestRows, CodeRows
<1>1. NoRequest \in RequestRows /\ NoRequest.op = "none"
  BY NoRequestTyped
<1>2. \A kind : Retired(kind) \in [Codes -> CodeRows]
  BY <1>0 DEF Retired, CodeRows, CodeStates
<1>3. UNCHANGED <<userStatus, password, session, token>>
  BY DEF Login, RequestReset, LookUpPrevious, Fails, Refresh,
         ChangePassword, Mint, CodeInserted, Redeem, Reset
<1>4. password \in Passwords
  BY <1>0, AccountAssumption DEF Passwords
<1>5. CASE Login(r)
  <2> DEFINE q == [NoRequest EXCEPT !.op = "login", !.proof = password]
  <2>1. q \in RequestRows /\ Rotates(q)
    BY <1>1, <1>4 DEF RequestRows, Ops, Rotates
  <2>2. request' = [request EXCEPT ![r] = q] /\ code' = code
    BY <1>5 DEF Login, Begin
  <2> QED BY <1>0, <1>3, <2>1, <2>2, RequestTyped
<1>6. CASE RequestReset(r)
  <2> DEFINE q == [NoRequest EXCEPT !.op = "mint", !.kind = "reset"]
  <2>1. q \in RequestRows /\ Rotates(q)
    BY <1>1 DEF RequestRows, Ops, Kinds, Rotates
  <2>2. request' = [request EXCEPT ![r] = q] /\ code' = Retired("reset")
    BY <1>6 DEF RequestReset, Begin
  <2> QED BY <1>2, <1>3, <2>1, <2>2, RequestTyped
<1>7. ASSUME Finish(r), code' \in [Codes -> CodeRows]
      PROVE  AccountTyped'
  <2>1. Rotates(NoRequest)
    BY <1>1 DEF Rotates
  <2> QED BY <1>1, <1>3, <1>7, <2>1, RequestTyped DEF Finish
<1>8. CASE LookUpPrevious(r)
  <2>1. code' = code
    BY <1>8 DEF LookUpPrevious
  <2>2. CASE Finish(r)
    BY <1>0, <1>7, <2>1, <2>2
  <2>3. ASSUME NEW s \in Sessions,
               request' = [request EXCEPT ![r] =
                             [NoRequest EXCEPT !.op = "revoke", !.session = s]]
        PROVE  AccountTyped'
    <3> DEFINE q == [NoRequest EXCEPT !.op = "revoke", !.session = s]
    <3>1. q \in RequestRows /\ Rotates(q)
      BY <1>1 DEF RequestRows, Ops, Rotates
    <3> QED BY <1>0, <1>3, <2>1, <2>3, <3>1, RequestTyped
  <2> QED BY <1>8, <2>2, <2>3 DEF LookUpPrevious
<1>9. CASE Fails(r)
  BY <1>0, <1>7, <1>9 DEF Fails
<1>10. ASSUME NEW t \in 1 .. Len(token), Refresh(r, t) PROVE AccountTyped'
  <2>1. code' = code
    BY <1>10 DEF Refresh
  <2>2. t \in TokenIds /\ t # 0
    BY <1>0, AccountAssumption DEF TokenIds
  <2>3. ASSUME NEW s \in Sessions, Current(s, t),
               Begin(r, [NoRequest EXCEPT !.op = "rotate", !.session = s, !.token = t])
        PROVE  AccountTyped'
    <3> DEFINE q == [NoRequest EXCEPT !.op = "rotate", !.session = s, !.token = t]
    <3>1. session[s] \in SessionRows /\ session[s].state = "live" /\ session[s].refresh = t
      BY <1>0, <2>3 DEF Current, Usable, Live
    <3>2. session[s].state # "absent" /\ session[s].audience # "vault"
      BY <2>2, <3>1 DEF SessionRows
    <3>3. q \in RequestRows
      BY <1>1, <2>2 DEF RequestRows, Ops
    <3>4. q.session = s
      BY <1>1 DEF RequestRows
    <3>5. Rotates(q)
      BY <3>2, <3>4 DEF Rotates
    <3>6. request' = [request EXCEPT ![r] = q]
      BY <2>3 DEF Begin
    <3> QED BY <1>0, <1>3, <2>1, <3>3, <3>5, <3>6, RequestTyped
  <2>4. CASE Begin(r, [NoRequest EXCEPT !.op = "previous", !.token = t])
    <3> DEFINE q == [NoRequest EXCEPT !.op = "previous", !.token = t]
    <3>1. q \in RequestRows /\ Rotates(q)
      BY <1>1, <2>2 DEF RequestRows, Ops, Rotates
    <3>2. request' = [request EXCEPT ![r] = q]
      BY <2>4 DEF Begin
    <3> QED BY <1>0, <1>3, <2>1, <3>1, <3>2, RequestTyped
  <2> QED BY <1>10, <2>3, <2>4 DEF Refresh
<1>11. ASSUME NEW s \in Sessions, ChangePassword(r, s) PROVE AccountTyped'
  <2> DEFINE q == [NoRequest EXCEPT !.op = "change", !.session = s]
  <2>1. q \in RequestRows /\ Rotates(q)
    BY <1>1 DEF RequestRows, Ops, Rotates
  <2>2. request' = [request EXCEPT ![r] = q] /\ code' = code
    BY <1>11 DEF ChangePassword, Begin
  <2> QED BY <1>0, <1>3, <2>1, <2>2, RequestTyped
<1>12. ASSUME NEW s \in Sessions, NEW kind \in {"handoff", "pairing"}, Mint(r, kind, s)
       PROVE  AccountTyped'
  <2> DEFINE q == [NoRequest EXCEPT !.op = "mint", !.kind = kind,
                                    !.proof = session[s].proof]
  <2>1. session[s].proof \in Passwords
    BY <1>0 DEF SessionRows
  <2>2. q \in RequestRows /\ Rotates(q)
    BY <1>1, <2>1 DEF RequestRows, Ops, Kinds, Rotates
  <2>3. request' = [request EXCEPT ![r] = q] /\ code' = Retired(kind)
    BY <1>12 DEF Mint, Begin
  <2> QED BY <1>2, <1>3, <2>2, <2>3, RequestTyped
<1>13. ASSUME NEW c \in Codes, CodeInserted(r, c) PROVE AccountTyped'
  <2> DEFINE inserted == [NoCode EXCEPT !.state = "live", !.kind = request[r].kind,
                                        !.proof = request[r].proof]
  <2>1. inserted \in CodeRows
    BY <1>0 DEF NoCode, CodeRows, CodeStates, RequestRows, Kinds
  <2>2. code' \in {code, [code EXCEPT ![c] = inserted]}
    BY <1>13 DEF CodeInserted
  <2>3. code' \in [Codes -> CodeRows]
    BY <1>0, <2>1, <2>2
  <2> QED BY <1>7, <1>13, <2>3 DEF CodeInserted
<1>14. ASSUME NEW c \in Codes, Redeem(r, c) PROVE AccountTyped'
  <2> DEFINE q == [NoRequest EXCEPT !.op = "redeem", !.code = c]
  <2>1. q \in RequestRows /\ Rotates(q)
    BY <1>1 DEF RequestRows, Ops, Rotates
  <2>2. request' = [request EXCEPT ![r] = q] /\ code' = [code EXCEPT ![c].state = "spent"]
    BY <1>14 DEF Redeem, Begin
  <2>3. code' \in [Codes -> CodeRows]
    BY <1>0, <2>2 DEF CodeRows, CodeStates
  <2> QED BY <1>3, <2>1, <2>2, <2>3, RequestTyped
<1>15. ASSUME NEW c \in Codes, Reset(r, c) PROVE AccountTyped'
  <2> DEFINE q == [NoRequest EXCEPT !.op = "reset", !.code = c]
  <2>1. q \in RequestRows /\ Rotates(q)
    BY <1>1 DEF RequestRows, Ops, Rotates
  <2>2. request' = [request EXCEPT ![r] = q] /\ code' = code
    BY <1>15 DEF Reset, Begin
  <2> QED BY <1>0, <1>3, <2>1, <2>2, RequestTyped
<1> QED BY <1>5, <1>6, <1>8, <1>9, <1>10, <1>11, <1>12, <1>13, <1>14, <1>15

\* A session is created with a token if it may be refreshed, and without one if not.
LEMMA CreatedTyped ==
    ASSUME AccountTyped, NEW r \in Handlers, Finish(r), NEW s \in Sessions,
           NEW audience \in Surfaces, NEW proof \in Passwords,
           CreateSession(s, audience, proof),
           UNCHANGED <<userStatus, password, code>>
    PROVE  AccountTyped'
<1> DEFINE new == NewSession(audience, proof)
<1>0. /\ password \in 1 .. MaxPasswords /\ password \in Passwords
      /\ session \in [Sessions -> SessionRows]
      /\ token \in Seq(Sessions) /\ Len(token) \in Nat /\ Len(token) <= MaxTokens
      /\ code \in [Codes -> CodeRows]
  BY AccountAssumption DEF AccountTyped, AccountBounded, CodeRows, Passwords
<1>1. Len(token) < MaxTokens /\ session' = [session EXCEPT ![s] = new]
  BY DEF CreateSession
<1>2. Len(token) + 1 \in TokenIds /\ 0 \in TokenIds
  BY <1>0, <1>1, AccountAssumption DEF TokenIds
<1>3. new \in SessionRows
  BY <1>0, <1>2 DEF NewSession, SessionRows, Surfaces
<1>4. session' \in [Sessions -> SessionRows]
  BY <1>0, <1>1, <1>3
<1>5. session[s].state = "absent"
  BY DEF CreateSession, NoSession
<1>6. \A x \in Sessions :
         session[x].state # "absent" =>
             session'[x].state # "absent" /\ session'[x].audience = session[x].audience
  BY <1>0, <1>1, <1>5
<1>7. token' \in Seq(Sessions) /\ Len(token') <= MaxTokens
  <2>1. token' = token \/ token' = Append(token, s)
    BY DEF CreateSession, IssuedTo
  <2> QED BY <1>0, <1>1, <2>1, AccountAssumption
<1> QED BY <1>0, <1>4, <1>6, <1>7, WriteTyped

LEMMA RevokedTyped ==
    ASSUME AccountTyped, PasswordWritable, NEW own \in Sessions \cup {Null}
    PROVE  /\ password + 1 \in 1 .. MaxPasswords
           /\ RevokedExcept(own) \in [Sessions -> SessionRows]
           /\ \A s \in Sessions :
                 session[s].state # "absent" =>
                     /\ RevokedExcept(own)[s].state # "absent"
                     /\ RevokedExcept(own)[s].audience = session[s].audience
<1>0. password \in 1 .. MaxPasswords /\ session \in [Sessions -> SessionRows]
  BY DEF AccountTyped, AccountBounded
<1>1. password + 1 \in 1 .. MaxPasswords /\ password + 1 \in Passwords
  BY <1>0, AccountAssumption DEF PasswordWritable, Passwords
<1>2. ASSUME NEW s \in Sessions
      PROVE  /\ RevokedExcept(own)[s] \in SessionRows
             /\ session[s].state # "absent" => RevokedExcept(own)[s].state # "absent"
             /\ RevokedExcept(own)[s].audience = session[s].audience
  <2>1. session[s] \in SessionRows
    BY <1>0
  <2>2. CASE s = own
    <3>1. RevokedExcept(own)[s] =
              [session[s] EXCEPT !.proof = password + 1, !.since = password + 1]
      BY <2>2 DEF RevokedExcept
    <3> QED BY <1>1, <2>1, <3>1 DEF SessionRows
  <2>3. CASE s # own
    <3>1. RevokedExcept(own)[s] = Ended(session[s])
      BY <2>3 DEF RevokedExcept
    <3> QED BY <2>1, <3>1, EndedTyped
  <2> QED BY <2>2, <2>3
<1>3. RevokedExcept(own) \in [Sessions -> SessionRows]
  BY <1>2 DEF RevokedExcept
<1> QED BY <1>1, <1>2, <1>3

\* The statements that issue a token, end sessions or replace the password.
LEMMA WritingTyped ==
    ASSUME AccountTyped, AccountInv, NEW r \in Handlers,
           \/ \E s \in Sessions : LoginInserts(r, s) \/ RedeemInserts(r, s)
           \/ Rotate(r) \/ RevokeReused(r)
           \/ PasswordChanged(r) \/ ResetCompleted(r)
    PROVE  AccountTyped'
<1>0. /\ password \in 1 .. MaxPasswords
      /\ session \in [Sessions -> SessionRows]
      /\ token \in Seq(Sessions) /\ Len(token) \in Nat /\ Len(token) <= MaxTokens
      /\ code \in [Codes -> CodeRows]
      /\ request[r] \in RequestRows /\ ReadsOK(request[r]) /\ Rotates(request[r])
  BY DEF AccountTyped, AccountBounded, RequestRows, CodeRows, AccountInv
<1>1. Finish(r)
  BY DEF LoginInserts, RedeemInserts, Rotate, RevokeReused, PasswordChanged, ResetCompleted
<1>2. ASSUME NEW s \in Sessions, LoginInserts(r, s) PROVE AccountTyped'
  <2>1. request[r].proof \in Passwords /\ "account" \in Surfaces
    BY <1>0 DEF RequestRows, Surfaces
  <2> QED BY <1>1, <1>2, <2>1, CreatedTyped DEF LoginInserts
<1>3. ASSUME NEW s \in Sessions, RedeemInserts(r, s) PROVE AccountTyped'
  <2> DEFINE c == request[r].code
             audience == IF code[c].kind = "handoff" THEN "vault" ELSE "extension"
  <2>1. c \in Codes
    BY <1>0, <1>3 DEF RedeemInserts, ReadsOK
  <2>2. code[c].proof \in Passwords /\ audience \in Surfaces
    BY <1>0, <2>1 DEF CodeRows, Surfaces
  <2>3. CreateSession(s, audience, code[c].proof) /\ UNCHANGED <<userStatus, password, code>>
    BY <1>3 DEF RedeemInserts
  <2> HIDE DEF audience
  <2> QED BY <1>1, <2>2, <2>3, CreatedTyped
<1>4. CASE Rotate(r)
  <2> DEFINE s == request[r].session
             rotated == [session[s] EXCEPT !.refresh = Len(token) + 1,
                                           !.prev = request[r].token]
  <2>1. /\ s \in Sessions /\ session[s] \in SessionRows
        /\ session[s].state # "absent" /\ session[s].audience # "vault"
    BY <1>0, <1>4 DEF Rotate, Rotates
  <2>2. Len(token) + 1 \in TokenIds /\ request[r].token \in TokenIds
    BY <1>0, <1>4, AccountAssumption DEF Rotate, TokenIds, RequestRows
  <2>3. /\ rotated \in SessionRows
        /\ rotated.state # "absent" /\ rotated.audience = session[s].audience
    BY <2>1, <2>2 DEF SessionRows
  <2>4. session' = [session EXCEPT ![s] = rotated] /\ token' = Append(token, s)
    BY <1>0, <1>4, <2>1 DEF Rotate, Rotated, IssuedTo
  <2>5. UNCHANGED <<userStatus, password, code>> /\ Len(token) < MaxTokens
    BY <1>4 DEF Rotate
  <2> HIDE DEF s, rotated
  <2>6. /\ session' \in [Sessions -> SessionRows]
        /\ \A x \in Sessions :
              session[x].state # "absent" =>
                  session'[x].state # "absent" /\ session'[x].audience = session[x].audience
    BY <1>0, <2>1, <2>3, <2>4
  <2>7. token' \in Seq(Sessions) /\ Len(token') <= MaxTokens
    BY <1>0, <2>1, <2>4, <2>5, AccountAssumption
  <2> QED BY <1>0, <1>1, <2>5, <2>6, <2>7, WriteTyped
<1>5. CASE RevokeReused(r)
  <2> DEFINE s == request[r].session
  <2>1. s \in Sessions /\ session[s] \in SessionRows
    BY <1>0, <1>5 DEF RevokeReused, ReadsOK
  <2>2. /\ session' = [session EXCEPT ![s] = Ended(session[s])]
        /\ UNCHANGED <<userStatus, password, token, code>>
    BY <1>5 DEF RevokeReused
  <2>3. /\ session' \in [Sessions -> SessionRows]
        /\ \A x \in Sessions :
              session[x].state # "absent" =>
                  session'[x].state # "absent" /\ session'[x].audience = session[x].audience
    BY <1>0, <2>1, <2>2, EndedTyped
  <2> QED BY <1>0, <1>1, <2>2, <2>3, WriteTyped
<1>6. CASE PasswordChanged(r)
  <2> DEFINE s == request[r].session
  <2>1. s \in Sessions
    BY <1>0, <1>6 DEF PasswordChanged, ReadsOK
  <2>2. /\ PasswordWritable /\ password' = password + 1
        /\ session' = RevokedExcept(s) /\ UNCHANGED <<userStatus, token, code>>
    BY <1>6 DEF PasswordChanged
  <2> QED BY <1>0, <1>1, <2>1, <2>2, RevokedTyped, WriteTyped
<1>7. CASE ResetCompleted(r)
  <2>1. /\ PasswordWritable /\ password' = password + 1
        /\ session' = RevokedExcept(Null) /\ UNCHANGED <<userStatus, token>>
        /\ code' = [code EXCEPT ![request[r].code].state = "spent"]
    BY <1>7 DEF ResetCompleted, MarkRedeemed
  <2>2. code' \in [Codes -> CodeRows]
    BY <1>0, <2>1 DEF CodeRows, CodeStates
  <2> QED BY <1>0, <1>1, <2>1, <2>2, RevokedTyped, WriteTyped
<1> QED BY <1>2, <1>3, <1>4, <1>5, <1>6, <1>7

\* What ends sessions or codes, or moves the account, outside a request.
LEMMA EndingTyped ==
    ASSUME AccountTyped,
           \/ \E s \in Sessions : EndSession(s)
           \/ \E c \in Codes : CodeLapses(c)
           \/ RevokeUndelivered
           \/ Settle \/ RevokeAllSettled
           \/ UNCHANGED credentialVars
    PROVE  AccountTyped'
<1>0. /\ userStatus \in {"active", "settlement"} /\ password \in 1 .. MaxPasswords
      /\ session \in [Sessions -> SessionRows]
      /\ token \in Seq(Sessions) /\ Len(token) <= MaxTokens
      /\ code \in [Codes -> CodeRows]
      /\ request \in [Handlers -> RequestRows]
  BY DEF AccountTyped, AccountBounded, RequestRows, CodeRows
<1>1. /\ UNCHANGED <<request, token, password>>
      /\ userStatus' \in {"active", "settlement"}
  BY <1>0 DEF EndSession, CodeLapses, RevokeUndelivered, Settle, RevokeAllSettled, credentialVars
<1>2. code' \in [Codes -> CodeRows]
  <2>1. ASSUME NEW c \in Codes, CodeLapses(c) PROVE code' \in [Codes -> CodeRows]
    BY <1>0, <2>1 DEF CodeLapses, CodeRows, CodeStates
  <2>2. CASE RevokeUndelivered
    BY <1>0, <2>2 DEF RevokeUndelivered, Retired, CodeRows, CodeStates
  <2> QED BY <1>0, <2>1, <2>2 DEF EndSession, Settle, RevokeAllSettled, credentialVars
<1>3. \/ session' = session
      \/ \E s \in Sessions : session' = [session EXCEPT ![s] = Ended(session[s])]
      \/ session' = [s \in Sessions |-> Ended(session[s])]
  BY DEF EndSession, CodeLapses, RevokeUndelivered, Settle, RevokeAllSettled, credentialVars
<1>4. /\ session' \in [Sessions -> SessionRows]
      /\ \A x \in Sessions :
            session[x].state # "absent" =>
                session'[x].state # "absent" /\ session'[x].audience = session[x].audience
  BY <1>0, <1>3, EndedTyped
<1> QED BY <1>0, <1>1, <1>2, <1>4, TypedMoves

\* Every variable stays in its domain; in particular no login, rotation or redemption
\* ever leaves a session of the vault origin with a refresh token (create, rotate).
THEOREM AccountTypeCorrect == AccountSpec => []AccountTypeOK
<1>1. ASSUME AccountTyped, AccountInv, [AccountNext]_credentialVars
      PROVE  AccountTyped'
  <2>1. CASE \E r \in Handlers : RequestStep(r)
    <3>1. PICK r \in Handlers : RequestStep(r)
      BY <2>1
    <3> QED BY <1>1, <3>1, ReadingTyped, WritingTyped DEF RequestStep
  <2>2. CASE ~ \E r \in Handlers : RequestStep(r)
    BY <1>1, <2>2, EndingTyped DEF AccountNext
  <2> QED BY <2>1, <2>2
<1>2. AccountTyped /\ CodesInv => AccountTypeOK
  BY DEF AccountTyped, AccountBounded, CodesInv, AccountTypeOK, CodeRows, RequestRows
<1> QED BY <1>1, <1>2, InitAccountTyped, AccountInvAlways, CodesInvAlways, PTL DEF AccountSpec
=============================================================================
