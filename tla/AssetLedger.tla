----------------------------- MODULE AssetLedger -----------------------------
(***************************************************************************)
(* The assets service for one owner: commands append to a ledger and write *)
(* the projection of the asset in one transaction; the client may name its *)
(* command with an id and send it again; a rebuild replays the ledger and  *)
(* rewrites projections that differ from it.                               *)
(*                                                                         *)
(* A command locks the row of its asset; a create has no row to lock, and  *)
(* two with one id meet at the unique index only.  A read for If-Match     *)
(* takes the version and the row in two snapshots, and a rebuild takes the *)
(* ledger, the rows and the designations in three.                         *)
(*                                                                         *)
(* Abstracted: the fields of an asset are one value and the designations   *)
(* of one kind; a designation takes one of Full equal shares; the version  *)
(* of an asset is the number of its events.                                *)
(***************************************************************************)
EXTENDS Integers, Sequences, FiniteSets

CONSTANTS
    Assets,         \* ids a create may draw
    Ids,            \* event ids the owner's client uses
    Values,         \* contents of an asset's fields
    Contacts,       \* contacts that may be designated
    Attempts,       \* requests the service works on at a time
    None,           \* stands for what is not there
    Full,           \* designations that make up the whole of an asset
    MaxDivergences  \* bound: times a projection is lost or set back

ASSUME AssetAssumption ==
    /\ None \notin Values \cup Contacts \cup Assets \cup Ids
    /\ Full \in Nat
    /\ MaxDivergences \in Nat

VARIABLES
    ledger,         \* asset_events of each asset, oldest first
    view,           \* assets_view and asset_beneficiaries
    command,        \* the command each id was first used for
    attempt,        \* what each request is at
    rebuild,        \* a run of the rebuild
    suspect,        \* assets set back, or repaired from a ledger that had moved on
    divergences

ledgerVars == <<ledger, view, command, attempt, rebuild, suspect, divergences>>

Commands ==
    [kind : {"create", "set"}, arg : Values]
        \cup [kind : {"designate", "remove"}, arg : Contacts]
        \cup [kind : {"retire"}, arg : {None}]

ASSUME NoneAssumption == None \notin Nat \cup Commands

\* The row of an asset nobody has created, and the outcome of a replay that fails.
Missing == [status |-> "absent", value |-> None, bens |-> {}]
Broken == [status |-> "broken", value |-> None, bens |-> {}]

NoAttempt ==
    [step |-> "free", id |-> None, asset |-> None, token |-> None, saw |-> None,
     version |-> 0]

NoRebuild == [step |-> "idle", base |-> [a \in Assets |-> 0], differs |-> {}]

LedgerInit ==
    /\ ledger = [a \in Assets |-> <<>>]
    /\ view = [a \in Assets |-> Missing]
    /\ command = [id \in Ids |-> None]
    /\ attempt = [r \in Attempts |-> NoAttempt]
    /\ rebuild = NoRebuild
    /\ suspect = {}
    /\ divergences = 0

-----------------------------------------------------------------------------
(* The reducer.                                                            *)

Lawful(state, e) ==
    /\ state.status = IF e.kind = "create" THEN "absent" ELSE "live"
    /\ e.kind = "remove" => e.arg \in state.bens

Applied(state, e) ==
    CASE e.kind = "create" -> [Missing EXCEPT !.status = "live", !.value = e.arg]
      [] e.kind = "set" -> [state EXCEPT !.value = e.arg]
      [] e.kind = "designate" -> [state EXCEPT !.bens = @ \cup {e.arg}]
      [] e.kind = "remove" -> [state EXCEPT !.bens = @ \ {e.arg}]
      [] e.kind = "retire" -> [state EXCEPT !.status = "retired"]

Reduced(state, e) == IF Lawful(state, e) THEN Applied(state, e) ELSE Broken

Fold(events) ==
    LET after[n \in 0 .. Len(events)] ==
            IF n = 0 THEN Missing ELSE Reduced(after[n - 1], events[n])
    IN  after[Len(events)]

-----------------------------------------------------------------------------
(* Reads for If-Match.                                                     *)

\* A read of an asset nobody has created is answered 404 and nothing follows.
ReadVersion(r, a) ==
    /\ attempt[r] = NoAttempt
    /\ ledger[a] # <<>>
    /\ attempt' = [attempt EXCEPT ![r].step = "versioned", ![r].asset = a,
                                     ![r].token = Len(ledger[a])]
    /\ UNCHANGED <<ledger, view, command, rebuild, suspect, divergences>>

\* The row second, so that the version is never newer than what it describes.
ReadRow(r) ==
    /\ attempt[r].step = "versioned"
    /\ view[attempt[r].asset] # Missing
    /\ attempt' = [attempt EXCEPT ![r].step = "read",
                                     ![r].saw = IF attempt[r].asset \in suspect THEN None
                                                ELSE view[attempt[r].asset]]
    /\ UNCHANGED <<ledger, view, command, rebuild, suspect, divergences>>

-----------------------------------------------------------------------------
(* runCommand.                                                             *)

Recorded(id) ==
    UNION {{a} \X {k \in DOMAIN ledger[a] : ledger[a][k].id = id} : a \in Assets}

Command(r) == command[attempt[r].id]
Creates(r) == Command(r).kind = "create"

Acked(r, id, a, version) ==
    [attempt EXCEPT ![r] = [NoAttempt EXCEPT !.step = "acked", !.id = id, !.asset = a,
                                             !.version = version]]

Refused(r, id, a) ==
    [attempt EXCEPT ![r] = [NoAttempt EXCEPT !.step = "refused", !.id = id, !.asset = a]]

\* A retry gets the acknowledgement of the original, unless it is about another
\* asset.
AckFor(r, id, a, creates) ==
    LET original == CHOOSE e \in Recorded(id) : TRUE
    IN  IF creates \/ original[1] = a
        THEN Acked(r, id, original[1], original[2])
        ELSE Refused(r, id, a)

\* The asset of a command: the one read, any, or for a create one never used.
Addressed(r, c, a) ==
    IF c.kind = "create"
    THEN /\ attempt[r] = NoAttempt
         /\ ledger[a] = <<>>
         /\ \A q \in Attempts : attempt[q].asset # a
    ELSE IF attempt[r].step = "read" THEN a = attempt[r].asset ELSE attempt[r] = NoAttempt

\* The first look for the event id is outside the transaction.
Ask(r, id, c, a) ==
    /\ Addressed(r, c, a)
    /\ command[id] \in {None, c}
    /\ command' = [command EXCEPT ![id] = c]
    /\ attempt' = IF Recorded(id) # {}
                  THEN AckFor(r, id, a, c.kind = "create")
                  ELSE [attempt EXCEPT ![r].step = "sent", ![r].id = id, ![r].asset = a]
    /\ UNCHANGED <<ledger, view, rebuild, suspect, divergences>>

RowFree(a) ==
    \A q \in Attempts :
        attempt[q].step = "locked" /\ attempt[q].asset = a
            => command[attempt[q].id].kind = "create"

RestatedNever(r) == FALSE

\* The same look, now behind the row lock.
Restated(r) == Recorded(attempt[r].id) # {}

PreconditionWithoutRow(r) == view[attempt[r].asset].status = "live" \/ Creates(r)

PreconditionAnyVersion(r) ==
    LET row == view[attempt[r].asset]
    IN  \/ Creates(r)
        \/ /\ row.status = "live"
           /\ Command(r).kind = "remove" => Command(r).arg \in row.bens
           /\ Command(r).kind = "designate" =>
                 Cardinality(row.bens \ {Command(r).arg}) < Full

\* The asset is live, its version is the one named, the designation is there, or
\* leaves the total within the whole.
Precondition(r) ==
    LET row == view[attempt[r].asset]
    IN  \/ Creates(r)
        \/ /\ row.status = "live"
           /\ attempt[r].token \in {None, Len(ledger[attempt[r].asset])}
           /\ Command(r).kind = "remove" => Command(r).arg \in row.bens
           /\ Command(r).kind = "designate" =>
                 Cardinality(row.bens \ {Command(r).arg}) < Full

LockRow(r) ==
    /\ attempt[r].step = "sent"
    /\ Creates(r) \/ RowFree(attempt[r].asset)
    /\ attempt' = IF Restated(r) THEN AckFor(r, attempt[r].id, attempt[r].asset, Creates(r))
                  ELSE IF Precondition(r) THEN [attempt EXCEPT ![r].step = "locked"]
                  ELSE Refused(r, attempt[r].id, attempt[r].asset)
    /\ UNCHANGED <<ledger, view, command, rebuild, suspect, divergences>>

\* ux_asset_events_user_event_id.
Unique(r) == Recorded(attempt[r].id) = {}

\* append and upsertFromState, in one transaction.
Commits(r) ==
    /\ attempt[r].step = "locked"
    /\ Unique(r)
    /\ LET e == [id |-> attempt[r].id, kind |-> Command(r).kind, arg |-> Command(r).arg]
       IN  /\ ledger' = [ledger EXCEPT ![attempt[r].asset] = Append(@, e)]
           /\ view' = [view EXCEPT ![attempt[r].asset] = Applied(@, e)]
    /\ UNCHANGED <<command, rebuild, suspect, divergences>>

CommitCommand(r) ==
    /\ Commits(r)
    /\ attempt' = Acked(r, attempt[r].id, attempt[r].asset, Len(ledger'[attempt[r].asset]))

\* Another request with the id committed first: replayAck.
LosesRace(r) ==
    /\ attempt[r].step = "locked"
    /\ ~Unique(r)
    /\ attempt' = AckFor(r, attempt[r].id, attempt[r].asset, Creates(r))
    /\ UNCHANGED <<ledger, view, command, rebuild, suspect, divergences>>

\* The client has its answer, or a crash leaves it without one.
Ends(r) ==
    /\ attempt[r] # NoAttempt
    /\ attempt' = [attempt EXCEPT ![r] = NoAttempt]
    /\ \/ Commits(r)
       \/ UNCHANGED <<ledger, view, command, rebuild, suspect, divergences>>

-----------------------------------------------------------------------------
(* rebuild.                                                                *)

\* The database is restored to a state in which the projection is older.
Diverge(a) ==
    /\ divergences < MaxDivergences
    /\ divergences' = divergences + 1
    /\ RowFree(a)
    /\ \E k \in 0 .. Len(ledger[a]) - 1 :
          view' = [view EXCEPT ![a] = Fold(SubSeq(ledger[a], 1, k))]
    /\ suspect' = suspect \cup {a}
    /\ UNCHANGED <<ledger, command, attempt, rebuild>>

Expected(a) == Fold(SubSeq(ledger[a], 1, rebuild.base[a]))

\* A replay that fails ends the run before anything is compared.
ReplayAll ==
    /\ rebuild.step = "idle"
    /\ \A a \in Assets : Fold(ledger[a]) # Broken
    /\ rebuild' = [NoRebuild EXCEPT !.step = "replayed",
                                    !.base = [a \in Assets |-> Len(ledger[a])]]
    /\ UNCHANGED <<ledger, view, command, attempt, suspect, divergences>>

Fields(row) == [row EXCEPT !.bens = {}]

DiffViews ==
    /\ rebuild.step = "replayed"
    /\ rebuild' = [rebuild EXCEPT !.step = "views",
          !.differs = {a \in Assets : rebuild.base[a] > 0
                                          /\ Fields(view[a]) # Fields(Expected(a))}]
    /\ UNCHANGED <<ledger, view, command, attempt, suspect, divergences>>

DiffBeneficiaries ==
    /\ rebuild.step = "views"
    /\ rebuild' = [rebuild EXCEPT !.step = "compared",
          !.differs = @ \cup {a \in Assets : rebuild.base[a] > 0
                                                 /\ view[a].bens # Expected(a).bens}]
    /\ UNCHANGED <<ledger, view, command, attempt, suspect, divergences>>

Overtaken == {a \in rebuild.differs : rebuild.base[a] # Len(ledger[a])}

\* The share-sum trigger refuses to write designations beyond the whole.
Repair ==
    /\ rebuild.step = "compared"
    /\ rebuild.differs # {}
    /\ \A a \in rebuild.differs : Cardinality(Expected(a).bens) <= Full
    /\ \A a \in rebuild.differs : RowFree(a)
    /\ view' = [a \in Assets |-> IF a \in rebuild.differs THEN Expected(a) ELSE view[a]]
    /\ suspect' = (suspect \ rebuild.differs) \cup Overtaken
    /\ rebuild' = NoRebuild
    /\ UNCHANGED <<ledger, command, attempt, divergences>>

\* It only reports, or is interrupted.
StopRebuild ==
    /\ rebuild.step # "idle"
    /\ rebuild' = NoRebuild
    /\ UNCHANGED <<ledger, view, command, attempt, suspect, divergences>>

-----------------------------------------------------------------------------
LedgerNext ==
    \/ \E r \in Attempts :
          \/ \E a \in Assets : ReadVersion(r, a)
          \/ ReadRow(r)
          \/ \E id \in Ids, c \in Commands, a \in Assets : Ask(r, id, c, a)
          \/ LockRow(r) \/ CommitCommand(r) \/ LosesRace(r) \/ Ends(r)
    \/ \E a \in Assets : Diverge(a)
    \/ ReplayAll \/ DiffViews \/ DiffBeneficiaries \/ Repair \/ StopRebuild

LedgerSpec == LedgerInit /\ [][LedgerNext]_ledgerVars

-----------------------------------------------------------------------------
(* Properties.                                                             *)

Events == {[id |-> id, kind |-> c.kind, arg |-> c.arg] : id \in Ids, c \in Commands}

Rows == [status : {"absent", "live", "retired", "broken"}, value : Values \cup {None},
         bens : SUBSET Contacts]

AttemptStates ==
    [step : {"free", "versioned", "read", "sent", "locked", "acked", "refused"},
     id : Ids \cup {None}, asset : Assets \cup {None}, token : Nat \cup {None},
     saw : Rows \cup {None}, version : Nat]

\* Every variable stays in its domain.
LedgerTypeOK ==
    /\ ledger \in [Assets -> Seq(Events)]
    /\ view \in [Assets -> Rows]
    /\ command \in [Ids -> Commands \cup {None}]
    /\ attempt \in [Attempts -> AttemptStates]
    /\ rebuild \in [step : {"idle", "replayed", "views", "compared"},
                    base : [Assets -> Nat], differs : SUBSET Assets]
    /\ suspect \subseteq Assets
    /\ divergences \in 0 .. MaxDivergences

\* The projection of an asset is the replay of its ledger, also after a
\* divergence has been repaired, unless a command overtook the repair.
ProjectionIsFold == \A a \in Assets \ suspect : view[a] = Fold(ledger[a])

\* ProjectionError: validation prevents an unlawful sequence, while the row it is
\* made against is neither set back nor repaired from a ledger that had moved on.
LawfulUnlessSuspect == \A a \in Assets \ suspect : Fold(ledger[a]) # Broken

Answered(r, answer) == attempt[r].step # answer /\ attempt'[r].step = answer

\* A command is acknowledged with the event it recorded, and one that is in the
\* ledger is never reported as impossible to whoever sends it again.
AnswersTrue ==
    [][\A r \in Attempts :
          /\ Answered(r, "acked") =>
                ledger'[attempt'[r].asset][attempt'[r].version].id = attempt'[r].id
          /\ Answered(r, "refused") =>
                \A e \in Recorded(attempt'[r].id) : e[1] # attempt'[r].asset]_ledgerVars

\* A command sent with If-Match is applied to the state its client saw.
NoLostUpdate ==
    [][\A r \in Attempts :
          /\ attempt[r].step = "locked"
          /\ attempt[r].saw # None
          /\ attempt[r].asset \notin suspect
          /\ ledger'[attempt[r].asset] # ledger[attempt[r].asset]
          => view[attempt[r].asset] = attempt[r].saw]_ledgerVars

-----------------------------------------------------------------------------
(* A claim of the source that the code does not keep.                      *)

\* ProjectionError: an unlawful sequence "During command handling ... is prevented
\* by validation".
LedgerReplays == \A a \in Assets : Fold(ledger[a]) # Broken
=============================================================================
