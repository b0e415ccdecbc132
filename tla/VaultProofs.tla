----------------------------- MODULE VaultProofs -----------------------------
(* What holds of VaultItems, and of the VaultKeyset it extends, for every    *)
(* value of their constants: any number of sessions, handshakes, items,      *)
(* clients that write and requests in flight.                                *)
EXTENDS VaultItems, TLAPS

-----------------------------------------------------------------------------
(* The inductive invariant.                                                *)

Payloads == 0 .. MaxKeysets

Keysets == [password : Payloads, master : Payloads]
SessionRows == [status : {"absent", "live", "ended"}, master : Payloads, since : Payloads]
HandshakeRows == [status : {"absent", "open", "over"}, password : Payloads]
KeysetRequests ==
    [op : {"none", "create", "replace", "reset", "claimed", "verified"},
     id : Handshakes \cup Sessions \cup {Nobody}, password : Payloads, master : Payloads]
Writes ==
    [op : Ops \cup {"none"}, id : Items \cup {Nobody}, seen : Rows, key : Payloads, target : Nat]

\* A keyset, once there, has a password and a master key; whatever may become or
\* open one has them too; no open session was inserted under an older one.
KeysetOK ==
    /\ keyset # NoKeyset => keyset.password > 0 /\ keyset.master > 0
    /\ \A h \in Handshakes : handshake[h].status = "open" => handshake[h].password > 0
    /\ \A s \in Sessions :
          Open(s) => keyset # NoKeyset /\ session[s].master > 0
                     /\ session[s].since = keyset.password
    /\ \A r \in Requests :
          /\ req[r].op \in {"create", "replace", "reset"} =>
                req[r].password > 0 /\ req[r].master > 0
          /\ req[r].op = "claimed" => req[r].password > 0
          /\ req[r].op = "verified" => req[r].master > 0 /\ keyset # NoKeyset

\* What an item, its images and the contents it had say of each other.
ItemOK(i) ==
    /\ item[i].status = "absent" => item[i] = NoItem
    /\ item[i] = NoItem => versions[i] = <<>> /\ stored[i] = {}
    /\ item[i] # NoItem => item[i].revision > 0 /\ Len(versions[i]) = item[i].revision - 1
    /\ item[i].version = item[i].blob.sealed
    /\ \A k \in 1 .. Len(versions[i]) : versions[i][k].version = versions[i][k].blob.sealed
    /\ \A blob \in stored[i] :
          \/ item[i].blob = blob
          \/ \E k \in 1 .. Len(versions[i]) : versions[i][k].live /\ versions[i][k].blob = blob
    /\ item[i].status \in {"live", "user_delete"} =>
          /\ item[i].blob.era = resets
          /\ \A k \in 1 .. Len(versions[i]) : versions[i][k].blob.era = resets

\* A revision stands for one row: a client that saw the revision in force saw the row.
SeenOK(w) ==
    /\ write[w] # NoWrite => write[w].op # "none"
    /\ write[w].op # "none" => write[w].id \in Items
    /\ write[w].op \in {"update", "restore"} =>
          /\ write[w].seen.revision <= item[write[w].id].revision
          /\ write[w].seen.revision = item[write[w].id].revision =>
                write[w].seen.blob = item[write[w].id].blob
                /\ write[w].seen.version = item[write[w].id].version
    /\ write[w].op = "create" => write[w].seen = NoItem

VaultInv ==
    /\ TypeOK
    /\ KeysetOK
    /\ \A i \in Items : ItemOK(i)
    /\ \A w \in Writers : SeenOK(w)

-----------------------------------------------------------------------------
LEMMA InitVaultInv == Init => VaultInv
<1> SUFFICES ASSUME Init PROVE VaultInv
  OBVIOUS
<1>0. NoBlob \in Blobs /\ NoItem \in Rows
  BY KeysetAssumption DEF NoBlob, Blobs, NoItem, Rows
<1>1. KeysetTypeOK
  <2>1. NoKeyset \in Keysets /\ NoSession \in SessionRows /\ Unused \in KeysetRequests
        /\ [status |-> "absent", password |-> 0] \in HandshakeRows
    BY KeysetAssumption
       DEF NoKeyset, Keysets, NoSession, SessionRows, Unused, KeysetRequests, HandshakeRows, Payloads
  <2>2. /\ keyset \in Keysets
        /\ handshake \in [Handshakes -> HandshakeRows]
        /\ session \in [Sessions -> SessionRows]
        /\ req \in [Requests -> KeysetRequests]
    BY <2>1 DEF Init, InitKeyset
  <2>3. chosen \in 0 .. MaxKeysets /\ resets \in Nat /\ destroyed \subseteq 1 .. MaxKeysets
    BY KeysetAssumption DEF Init, InitKeyset
  <2> QED BY <2>2, <2>3 DEF KeysetTypeOK, Keysets, HandshakeRows, SessionRows, KeysetRequests, Payloads
<1>2. KeysetOK
  BY DEF Init, InitKeyset, KeysetOK, Open, NoSession, Unused
<1>3. TypeOK
  <2>1. item \in [Items -> Rows] /\ versions \in [Items -> Seq(Images)]
        /\ stored \in [Items -> SUBSET Blobs]
    BY <1>0 DEF Init
  <2>2. NoWrite \in Writes
    BY <1>0, KeysetAssumption DEF NoWrite, Writes, Payloads
  <2>3. write \in [Writers -> Writes]
    BY <2>2 DEF Init
  <2>4. \A i \in Items : item[i] = NoItem
    BY DEF Init
  <2> QED BY <1>1, <2>1, <2>3, <2>4 DEF TypeOK, Writes, Payloads
<1>4. ASSUME NEW i \in Items PROVE ItemOK(i)
  BY DEF Init, ItemOK, NoItem, NoBlob
<1>5. ASSUME NEW w \in Writers PROVE SeenOK(w)
  BY DEF Init, SeenOK, NoWrite
<1> QED BY <1>2, <1>3, <1>4, <1>5 DEF VaultInv

-----------------------------------------------------------------------------
(* The keyset.                                                             *)

LEMMA KeysetDomains ==
    KeysetTypeOK <=>
        /\ keyset \in Keysets
        /\ handshake \in [Handshakes -> HandshakeRows]
        /\ session \in [Sessions -> SessionRows]
        /\ req \in [Requests -> KeysetRequests]
        /\ chosen \in 0 .. MaxKeysets
        /\ resets \in Nat
        /\ destroyed \subseteq 1 .. MaxKeysets
BY DEF KeysetTypeOK, Keysets, HandshakeRows, SessionRows, KeysetRequests, Payloads

LEMMA ArriveKept ==
    ASSUME KeysetTypeOK, KeysetOK, NEW r \in Requests,
           \/ ArriveFresh(r, "create") \/ ArriveFresh(r, "reset")
           \/ \E s \in Sessions : ArriveReplace(r, s)
    PROVE  KeysetTypeOK' /\ KeysetOK'
<1>1. PICK op \in {"create", "reset", "replace"}, id \in Sessions \cup {Nobody}, master \in Payloads :
          /\ Arrive(r, op, id, master)
          /\ id # Nobody => master > 0
  <2>1. CASE ArriveFresh(r, "create") \/ ArriveFresh(r, "reset")
    BY <2>1, KeysetAssumption DEF ArriveFresh, Payloads
  <2>2. ASSUME NEW s \in Sessions, ArriveReplace(r, s)
        PROVE  session[s].master \in Payloads /\ session[s].master > 0
    BY <2>2, KeysetDomains DEF ArriveReplace, SessionRows, KeysetOK
  <2> QED BY <2>1, <2>2 DEF ArriveReplace
<1> DEFINE to == [op |-> op, id |-> id, password |-> chosen + 1,
                  master |-> IF id = Nobody THEN chosen + 1 ELSE master]
<1>2. /\ chosen \in Nat /\ chosen + 1 \in Payloads /\ chosen' = chosen + 1
      /\ req' = [req EXCEPT ![r] = to]
      /\ UNCHANGED <<keyset, handshake, session, resets, destroyed>>
  BY <1>1, KeysetAssumption, KeysetDomains DEF Arrive, history, Payloads
<1>3. to \in KeysetRequests /\ to.password > 0 /\ to.master > 0
      /\ to.op \in {"create", "reset", "replace"}
  BY <1>1, <1>2 DEF KeysetRequests, Payloads
<1> HIDE DEF to
<1>4. KeysetTypeOK'
  <2>1. req' \in [Requests -> KeysetRequests]
    BY <1>2, <1>3, KeysetDomains
  <2> QED BY <1>2, <2>1, KeysetDomains DEF KeysetTypeOK, KeysetRequests, Payloads
<1>5. KeysetOK'
  <2>1. \A q \in Requests : req'[q] = IF q = r THEN to ELSE req[q]
    BY <1>2, KeysetDomains
  <2> QED BY <1>2, <1>3, <2>1 DEF KeysetOK, Open
<1> QED BY <1>4, <1>5

\* A request is over.
LEMMA ServedKept ==
    ASSUME KeysetTypeOK, NEW r \in Requests, Served(r)
    PROVE  /\ req' \in [Requests -> KeysetRequests]
           /\ \A q \in Requests : req'[q] = IF q = r THEN Unused ELSE req[q]
<1>1. Unused \in KeysetRequests
  BY KeysetAssumption DEF Unused, KeysetRequests, Payloads
<1> QED BY <1>1, KeysetDomains DEF Served

\* What ends every session but one leaves open at most that one, stamped with the
\* password it has set.
LEMMA RevokeKept ==
    ASSUME KeysetTypeOK, KeysetOK, keyset' \in Keysets, NEW except,
           session' = RevokeAllExcept(except)
    PROVE  /\ session' \in [Sessions -> SessionRows]
           /\ \A s \in Sessions :
                 Open(s)' => Open(s) /\ session'[s].master = session[s].master
                             /\ session'[s].since = keyset'.password
<1>1. keyset'.password \in Payloads
  BY DEF Keysets
<1>2. ASSUME NEW s \in Sessions
      PROVE  /\ session[s] \in SessionRows
             /\ Ended(s) \in SessionRows /\ Ended(s).status = "ended"
             /\ [session[s] EXCEPT !.since = keyset'.password] \in SessionRows
             /\ [session[s] EXCEPT !.since = keyset'.password].since = keyset'.password
             /\ [session[s] EXCEPT !.since = keyset'.password].master = session[s].master
  <2>1. session[s] \in SessionRows
    BY KeysetDomains
  <2> QED BY <1>1, <2>1, KeysetAssumption DEF Ended, NoSession, SessionRows, Payloads
<1>3. ASSUME NEW s \in Sessions
      PROVE  session'[s] = IF ~Open(s) THEN session[s]
                           ELSE IF s = except THEN [session[s] EXCEPT !.since = keyset'.password]
                           ELSE Ended(s)
  BY DEF RevokeAllExcept
<1>4. session' \in [Sessions -> SessionRows]
  BY <1>2 DEF RevokeAllExcept
<1> QED BY <1>2, <1>3, <1>4 DEF Open

\* A payload takes the place of the keyset, or becomes the first one.
LEMMA PayloadKept ==
    ASSUME KeysetTypeOK, KeysetOK, NEW r \in Requests,
           req[r].op \in {"create", "replace", "reset"}
    PROVE  Payload(r) \in Keysets /\ Payload(r).password > 0 /\ Payload(r).master > 0
<1>1. req[r] \in KeysetRequests
  BY KeysetDomains
<1> QED BY <1>1 DEF Payload, Keysets, KeysetOK, KeysetRequests

LEMMA ReplacedKept ==
    ASSUME KeysetTypeOK, KeysetOK, NEW r \in Requests, NEW except,
           req[r].op \in {"replace", "reset"}, keyset # NoKeyset,
           keyset' = Payload(r), session' = RevokeAllExcept(except), Served(r),
           UNCHANGED <<handshake, chosen>>, resets' \in Nat,
           destroyed' \subseteq destroyed \cup {keyset.master}
    PROVE  KeysetTypeOK' /\ KeysetOK'
<1>1. keyset' \in Keysets /\ keyset'.password > 0 /\ keyset'.master > 0 /\ keyset' # NoKeyset
  BY PayloadKept DEF NoKeyset
<1>2. destroyed' \subseteq 1 .. MaxKeysets
  <2>1. keyset.master \in 1 .. MaxKeysets
    BY KeysetDomains, KeysetAssumption DEF KeysetOK, Keysets, Payloads
  <2> QED BY <2>1, KeysetDomains
<1>3. KeysetTypeOK'
  <2>1. session' \in [Sessions -> SessionRows] /\ req' \in [Requests -> KeysetRequests]
    BY <1>1, RevokeKept, ServedKept
  <2> QED BY <1>1, <1>2, <2>1 DEF KeysetTypeOK, KeysetRequests, SessionRows, Keysets, Payloads
<1>4. KeysetOK'
  <2>1. \A s \in Sessions :
            Open(s)' => session'[s].master > 0 /\ session'[s].since = keyset'.password
    BY <1>1, RevokeKept DEF KeysetOK
  <2>2. \A q \in Requests : req'[q] = IF q = r THEN Unused ELSE req[q]
    BY ServedKept
  <2> QED BY <1>1, <2>1, <2>2 DEF KeysetOK, Unused
<1> QED BY <1>3, <1>4

LEMMA UnlockKept ==
    ASSUME KeysetTypeOK, KeysetOK, NEW r \in Requests,
           \/ Verify(r)
           \/ \E h \in Handshakes : Claim(r, h)
           \/ \E s \in Sessions : CreateSession(r, s)
    PROVE  KeysetTypeOK' /\ KeysetOK'
<1>0. req[r] \in KeysetRequests /\ keyset \in Keysets
  BY KeysetDomains
<1>1. ASSUME NEW h \in Handshakes, Claim(r, h) PROVE KeysetTypeOK' /\ KeysetOK'
  <2> DEFINE to == [op |-> "claimed", id |-> h, password |-> handshake[h].password, master |-> 0]
             over == [handshake[h] EXCEPT !.status = "over"]
  <2>1. handshake[h] \in HandshakeRows /\ handshake[h].password > 0
    BY <1>1, KeysetDomains DEF Claim, Claimable, KeysetOK
  <2>2. to \in KeysetRequests /\ over \in HandshakeRows
    BY <2>1, KeysetAssumption DEF KeysetRequests, HandshakeRows, Payloads
  <2>3. handshake' = [handshake EXCEPT ![h] = over] /\ req' = [req EXCEPT ![r] = to]
        /\ UNCHANGED <<keyset, session, chosen, resets, destroyed>>
    BY <1>1 DEF Claim, history
  <2>4. to.op = "claimed" /\ to.password > 0 /\ over.status = "over"
    BY <2>1 DEF HandshakeRows
  <2> HIDE DEF to, over
  <2>5. /\ handshake' \in [Handshakes -> HandshakeRows] /\ req' \in [Requests -> KeysetRequests]
        /\ \A q \in Requests : req'[q] = IF q = r THEN to ELSE req[q]
        /\ \A g \in Handshakes : handshake'[g] = IF g = h THEN over ELSE handshake[g]
    BY <2>2, <2>3, KeysetDomains
  <2>6. KeysetTypeOK'
    BY <2>3, <2>5, KeysetDomains
       DEF KeysetTypeOK, Keysets, HandshakeRows, SessionRows, KeysetRequests, Payloads
  <2>7. KeysetOK'
    BY <2>3, <2>4, <2>5 DEF KeysetOK, Open
  <2> QED BY <2>6, <2>7
<1>2. CASE Verify(r)
  <2>1. UNCHANGED <<keyset, handshake, session, chosen, resets, destroyed>> /\ req[r].op = "claimed"
    BY <1>2 DEF Verify, history
  <2>2. CASE Served(r)
    <3>1. KeysetTypeOK'
      BY <2>1, <2>2, ServedKept, KeysetDomains
         DEF KeysetTypeOK, Keysets, HandshakeRows, SessionRows, KeysetRequests, Payloads
    <3>2. KeysetOK'
      BY <2>1, <2>2, ServedKept DEF KeysetOK, Open, Unused
    <3> QED BY <3>1, <3>2
  <2>3. CASE /\ req[r].password = keyset.password
             /\ req' = [req EXCEPT ![r].op = "verified", ![r].master = keyset.master]
    <3> DEFINE to == [req[r] EXCEPT !.op = "verified", !.master = keyset.master]
    <3>1. keyset # NoKeyset /\ keyset.master > 0
      BY <2>1, <2>3 DEF KeysetOK, NoKeyset
    <3>2. to \in KeysetRequests /\ to.op = "verified" /\ to.master > 0
      BY <1>0, <3>1 DEF KeysetRequests, Keysets
    <3>3. req' = [req EXCEPT ![r] = to]
      BY <2>3
    <3> HIDE DEF to
    <3>4. /\ req' \in [Requests -> KeysetRequests]
          /\ \A q \in Requests : req'[q] = IF q = r THEN to ELSE req[q]
      BY <3>2, <3>3, KeysetDomains
    <3>5. KeysetTypeOK'
      BY <2>1, <3>4, KeysetDomains
         DEF KeysetTypeOK, Keysets, HandshakeRows, SessionRows, KeysetRequests, Payloads
    <3>6. KeysetOK'
      BY <2>1, <3>1, <3>2, <3>4 DEF KeysetOK, Open
    <3> QED BY <3>5, <3>6
  <2> QED BY <1>2, <2>2, <2>3 DEF Verify
<1>3. ASSUME NEW s \in Sessions, CreateSession(r, s) PROVE KeysetTypeOK' /\ KeysetOK'
  <2> DEFINE to == [status |-> "live", master |-> req[r].master, since |-> keyset.password]
  <2>1. /\ UNCHANGED <<keyset, handshake, chosen, resets, destroyed>> /\ Served(r)
        /\ session' = [session EXCEPT ![s] = to]
        /\ req[r].master > 0 /\ keyset # NoKeyset
    BY <1>3 DEF CreateSession, history, KeysetOK
  <2>2. to \in SessionRows /\ to.master > 0 /\ to.since = keyset.password
    BY <1>0, <2>1 DEF SessionRows, KeysetRequests, Keysets
  <2> HIDE DEF to
  <2>3. /\ session' \in [Sessions -> SessionRows]
        /\ \A x \in Sessions : session'[x] = IF x = s THEN to ELSE session[x]
    BY <2>1, <2>2, KeysetDomains
  <2>4. KeysetTypeOK'
    BY <2>1, <2>3, ServedKept, KeysetDomains
       DEF KeysetTypeOK, Keysets, HandshakeRows, SessionRows, KeysetRequests, Payloads
  <2>5. KeysetOK'
    BY <2>1, <2>2, <2>3, ServedKept DEF KeysetOK, Open, Unused
  <2> QED BY <2>4, <2>5
<1> QED BY <1>1, <1>2, <1>3

LEMMA HandshakeKept ==
    ASSUME KeysetTypeOK, KeysetOK, NEW h \in Handshakes, StartUnlock(h) \/ ExpireHandshake(h)
    PROVE  KeysetTypeOK' /\ KeysetOK'
<1>1. PICK to \in HandshakeRows :
          /\ handshake' = [handshake EXCEPT ![h] = to]
          /\ to.status = "open" => to.password > 0
  <2>1. handshake[h] \in HandshakeRows /\ keyset \in Keysets
    BY KeysetDomains
  <2>2. CASE StartUnlock(h)
    <3>1. [status |-> "open", password |-> keyset.password] \in HandshakeRows /\ keyset.password > 0
      BY <2>1, <2>2 DEF StartUnlock, HandshakeRows, Keysets, KeysetOK
    <3> QED BY <2>2, <3>1 DEF StartUnlock
  <2>3. CASE ExpireHandshake(h)
    <3>1. [handshake[h] EXCEPT !.status = "over"] \in HandshakeRows
          /\ [handshake[h] EXCEPT !.status = "over"].status = "over"
      BY <2>1 DEF HandshakeRows
    <3> QED BY <2>3, <3>1 DEF ExpireHandshake
  <2> QED BY <2>2, <2>3
<1>2. UNCHANGED <<keyset, session, req, chosen, resets, destroyed>>
  BY DEF StartUnlock, ExpireHandshake, history
<1>3. /\ handshake' \in [Handshakes -> HandshakeRows]
      /\ \A g \in Handshakes : handshake'[g] = IF g = h THEN to ELSE handshake[g]
  BY <1>1, KeysetDomains
<1>4. KeysetTypeOK'
  BY <1>2, <1>3, KeysetDomains
     DEF KeysetTypeOK, Keysets, HandshakeRows, SessionRows, KeysetRequests, Payloads
<1>5. KeysetOK'
  BY <1>1, <1>2, <1>3 DEF KeysetOK, Open
<1> QED BY <1>4, <1>5

LEMMA EndSessionKept ==
    ASSUME KeysetTypeOK, KeysetOK, NEW s \in Sessions, EndSession(s)
    PROVE  KeysetTypeOK' /\ KeysetOK'
<1>1. session' = [session EXCEPT ![s] = Ended(s)]
      /\ UNCHANGED <<keyset, handshake, req, chosen, resets, destroyed>>
  BY DEF EndSession, history
<1>2. Ended(s) \in SessionRows /\ Ended(s).status = "ended"
  BY KeysetAssumption DEF Ended, NoSession, SessionRows, Payloads
<1>3. /\ session' \in [Sessions -> SessionRows]
      /\ \A x \in Sessions : session'[x] = IF x = s THEN Ended(s) ELSE session[x]
  BY <1>1, <1>2, KeysetDomains
<1>4. KeysetTypeOK'
  BY <1>1, <1>3, KeysetDomains
     DEF KeysetTypeOK, Keysets, HandshakeRows, SessionRows, KeysetRequests, Payloads
<1>5. KeysetOK'
  BY <1>1, <1>2, <1>3 DEF KeysetOK, Open
<1> QED BY <1>4, <1>5

LEMMA KeysetStepKept ==
    ASSUME KeysetTypeOK, KeysetOK, KeysetStep
    PROVE  KeysetTypeOK' /\ KeysetOK' /\ resets' = resets
<1>1. resets' = resets
  BY DEF KeysetStep, ArriveFresh, ArriveReplace, Arrive, CreateSession, CreateKeyset, NotEnrolled,
         ReplaceKeyset, Verify, Claim, StartUnlock, ExpireHandshake, EndSession, history
<1>2. ASSUME NEW r \in Requests, CreateKeyset(r) PROVE KeysetTypeOK' /\ KeysetOK'
  <2>1. UNCHANGED <<handshake, session, chosen, resets, destroyed>> /\ Served(r)
        /\ req[r].op = "create" /\ keyset' = IF keyset = NoKeyset THEN Payload(r) ELSE keyset
    BY <1>2 DEF CreateKeyset, history
  <2>2. keyset' \in Keysets /\ keyset'.password > 0 /\ keyset'.master > 0 /\ keyset' # NoKeyset
    BY <2>1, PayloadKept, KeysetDomains DEF KeysetOK, NoKeyset
  <2>3. KeysetTypeOK'
    BY <2>1, <2>2, ServedKept, KeysetDomains
       DEF KeysetTypeOK, Keysets, HandshakeRows, SessionRows, KeysetRequests, Payloads
  <2>4. KeysetOK'
    BY <2>1, <2>2, ServedKept DEF KeysetOK, Open, Unused
  <2> QED BY <2>3, <2>4
<1>3. ASSUME NEW r \in Requests, NotEnrolled(r) PROVE KeysetTypeOK' /\ KeysetOK'
  <2>1. UNCHANGED <<keyset, handshake, session, chosen, resets, destroyed>> /\ Served(r)
    BY <1>3 DEF NotEnrolled, history
  <2>2. KeysetTypeOK'
    BY <2>1, ServedKept, KeysetDomains
       DEF KeysetTypeOK, Keysets, HandshakeRows, SessionRows, KeysetRequests, Payloads
  <2>3. KeysetOK'
    BY <2>1, ServedKept DEF KeysetOK, Open, Unused
  <2> QED BY <2>2, <2>3
<1>4. ASSUME NEW r \in Requests, ReplaceKeyset(r) PROVE KeysetTypeOK' /\ KeysetOK'
  <2>1. req[r].op \in {"replace", "reset"} /\ keyset # NoKeyset /\ keyset' = Payload(r)
        /\ session' = RevokeAllExcept(req[r].id) /\ Served(r)
        /\ UNCHANGED <<handshake, chosen>> /\ resets' \in Nat
        /\ destroyed' \subseteq destroyed \cup {keyset.master}
    BY <1>4, KeysetDomains DEF ReplaceKeyset, history
  <2> QED BY <2>1, ReplacedKept
<1> QED BY <1>1, <1>2, <1>3, <1>4, ArriveKept, UnlockKept, HandshakeKept, EndSessionKept
        DEF KeysetStep

LEMMA ResetKept ==
    ASSUME KeysetTypeOK, KeysetOK, NEW r \in Requests, Reset(r)
    PROVE  KeysetTypeOK' /\ KeysetOK' /\ resets' = resets + 1
<1>1. req[r].op \in {"replace", "reset"} /\ keyset # NoKeyset /\ keyset' = Payload(r)
      /\ session' = RevokeAllExcept(Nobody) /\ Served(r)
      /\ UNCHANGED <<handshake, chosen>> /\ resets' \in Nat
      /\ destroyed' \subseteq destroyed \cup {keyset.master}
      /\ resets' = resets + 1
  BY KeysetDomains DEF Reset
<1> QED BY <1>1, ReplacedKept

-----------------------------------------------------------------------------
(* One item.                                                               *)

\* The content a client sends is sealed for the version after the one it saw.
LEMMA SealedTyped ==
    ASSUME VaultInv, NEW w \in Writers, write[w].op # "none"
    PROVE  /\ Sealed(w) \in Blobs
           /\ Sealed(w).sealed = write[w].seen.version + 1
           /\ Sealed(w).era = resets
<1>1. write[w] \in Writes /\ write[w].id \in Items
  BY DEF VaultInv, TypeOK, Writes, Payloads, SeenOK
<1>2. item[write[w].id] \in Rows /\ write[w].seen \in Rows /\ write[w].key \in Payloads
  BY <1>1 DEF VaultInv, TypeOK, Writes
<1>3. resets \in Nat
  BY DEF VaultInv, TypeOK, KeysetTypeOK
<1> QED BY <1>2, <1>3 DEF Sealed, Blobs, Rows, Payloads

LEMMA CaptureTyped ==
    ASSUME VaultInv, NEW i \in Items, NEW row
    PROVE  /\ Capture(i, row) \in Images
           /\ Capture(i, row).live = Live(i)
           /\ Capture(i, row).version = item[i].version
           /\ Capture(i, row).blob = item[i].blob
<1>1. item[i] \in Rows
  BY DEF VaultInv, TypeOK
<1> QED BY <1>1 DEF Capture, Live, Images, Rows

\* The row is as it was.
LEMMA SameItem ==
    ASSUME NEW i \in Items, ItemOK(i), resets' = resets,
           item'[i] = item[i], versions'[i] = versions[i],
           stored'[i] \subseteq stored[i] \cup {item[i].blob},
           item[i] = NoItem => stored'[i] = {}
    PROVE  ItemOK(i)'
BY DEF ItemOK

\* The row is inserted.
LEMMA CreatedItem ==
    ASSUME VaultInv, NEW i \in Items, item[i] = NoItem, resets' = resets, NEW b \in Blobs,
           item'[i] = [status |-> "live", revision |-> 1, version |-> 1, blob |-> b],
           versions'[i] = versions[i], stored'[i] \subseteq {b},
           b.sealed = 1, b.era = resets
    PROVE  ItemOK(i)'
<1>1. versions[i] = <<>>
  BY DEF VaultInv, ItemOK
<1>2. item'[i] # NoItem /\ item'[i].status = "live" /\ item'[i].version = 1 /\ item'[i].blob = b
      /\ item'[i].revision = 1
  BY DEF NoItem
<1>3. Len(versions'[i]) = 0
  BY <1>1
<1> QED BY <1>2, <1>3 DEF ItemOK

\* The row is overwritten, and its image kept.
LEMMA UpdatedItem ==
    ASSUME VaultInv, NEW i \in Items, item[i] # NoItem, NEW row \in Rows, NEW r,
           item'[i] = Bumped(i, row), versions'[i] = Append(versions[i], Capture(i, r)),
           stored'[i] \subseteq stored[i] \cup {row.blob},
           row.status # "absent", row.version = row.blob.sealed,
           row.blob = item[i].blob \/ Live(i),
           row.status \in {"live", "user_delete"} =>
              /\ item[i].status \in {"live", "user_delete"}
              /\ row.blob.era = resets /\ resets' = resets
    PROVE  ItemOK(i)'
<1>0. ItemOK(i) /\ item[i] \in Rows /\ versions[i] \in Seq(Images)
  BY DEF VaultInv, TypeOK
<1>1. /\ item'[i].status = row.status /\ item'[i].blob = row.blob
      /\ item'[i].version = row.version /\ item'[i].revision = item[i].revision + 1
  BY DEF Bumped, Rows
<1>2. Capture(i, r) \in Images
      /\ Capture(i, r).live = Live(i) /\ Capture(i, r).version = item[i].version
      /\ Capture(i, r).blob = item[i].blob
  BY CaptureTyped
<1> DEFINE n == Len(versions[i])
<1>3. /\ n \in Nat /\ Len(versions'[i]) = n + 1
      /\ \A k \in 1 .. n : versions'[i][k] = versions[i][k]
      /\ versions'[i][n + 1] = Capture(i, r)
  BY <1>0, <1>2
<1>4. \A k \in 1 .. Len(versions'[i]) : k \in 1 .. n \/ k = n + 1
  BY <1>3
<1>5. n + 1 \in 1 .. Len(versions'[i]) /\ \A k \in 1 .. n : k \in 1 .. Len(versions'[i])
  BY <1>3
<1> HIDE DEF n
<1>6. item'[i] # NoItem /\ item'[i].status # "absent"
  BY <1>1 DEF NoItem
<1>7. item'[i].revision > 0 /\ Len(versions'[i]) = item'[i].revision - 1
  <2>1. item[i].revision \in Nat
    BY <1>0 DEF Rows
  <2>2. item[i].revision > 0 /\ n = item[i].revision - 1
    BY <1>0 DEF ItemOK, n
  <2> QED BY <1>1, <1>3, <2>1, <2>2
<1>8. \A k \in 1 .. Len(versions'[i]) : versions'[i][k].version = versions'[i][k].blob.sealed
  BY <1>0, <1>2, <1>3, <1>4 DEF ItemOK, n
<1>9. ASSUME NEW blob \in stored'[i]
      PROVE  \/ item'[i].blob = blob
             \/ \E k \in 1 .. Len(versions'[i]) : versions'[i][k].live /\ versions'[i][k].blob = blob
  <2>1. CASE blob = row.blob
    BY <1>1, <2>1
  <2>2. CASE blob = item[i].blob /\ blob # row.blob
    BY <1>2, <1>3, <1>5, <2>2
  <2>3. CASE \E k \in 1 .. n : versions[i][k].live /\ versions[i][k].blob = blob
    BY <1>3, <1>5, <2>3
  <2>4. blob \in stored[i] \/ blob = row.blob
    BY <1>9
  <2>5. blob \in stored[i] =>
            \/ item[i].blob = blob
            \/ \E k \in 1 .. n : versions[i][k].live /\ versions[i][k].blob = blob
    BY <1>0 DEF ItemOK, n
  <2> QED BY <2>1, <2>2, <2>3, <2>4, <2>5
<1>10. item'[i].status \in {"live", "user_delete"} =>
          /\ item'[i].blob.era = resets'
          /\ \A k \in 1 .. Len(versions'[i]) : versions'[i][k].blob.era = resets'
  BY <1>0, <1>1, <1>2, <1>3, <1>4 DEF ItemOK, n
<1> QED BY <1>1, <1>6, <1>7, <1>8, <1>9, <1>10 DEF ItemOK

\* The next row and its image stay in their domains.
LEMMA UpdateTyped ==
    ASSUME VaultInv, NEW i \in Items, NEW row \in Rows, NEW r
    PROVE  /\ Bumped(i, row) \in Rows
           /\ Append(versions[i], Capture(i, r)) \in Seq(Images)
<1>1. item[i] \in Rows /\ versions[i] \in Seq(Images)
  BY DEF VaultInv, TypeOK
<1> QED BY <1>1, CaptureTyped DEF Bumped, Rows

\* Other clients still know which row they saw: a row that changes has a revision
\* nobody saw before.
LEMMA SeenKept ==
    ASSUME VaultInv, NEW w \in Writers, write'[w] = write[w],
           \A i \in Items : item'[i] = item[i] \/ item'[i].revision = item[i].revision + 1
    PROVE  SeenOK(w)'
<1>1. SeenOK(w) /\ write[w] \in Writes
  BY DEF VaultInv, TypeOK, Writes, Payloads
<1>2. CASE write[w].op \in {"update", "restore"}
  <2>1. write[w].id \in Items /\ item[write[w].id] \in Rows /\ write[w].seen \in Rows
    BY <1>1, <1>2 DEF SeenOK, VaultInv, TypeOK, Writes
  <2>2. item[write[w].id].revision \in Nat /\ write[w].seen.revision \in Nat
    BY <2>1 DEF Rows
  <2> QED BY <1>1, <1>2, <2>1, <2>2 DEF SeenOK
<1>3. CASE write[w].op \notin {"update", "restore"}
  BY <1>1, <1>3 DEF SeenOK
<1> QED BY <1>2, <1>3

-----------------------------------------------------------------------------
(* Requests about items.                                                   *)

LEMMA SendStep ==
    ASSUME VaultInv, NEW w \in Writers, NEW op \in Ops, NEW i \in Items, NEW s \in Sessions,
           NEW target \in 0 .. MaxRevision, Send(w, op, i, s, target)
    PROVE  VaultInv'
<1> USE DEF VaultInv
<1> DEFINE to == [op |-> op, id |-> i, target |-> target,
                  seen |-> IF op \in {"update", "restore"} THEN item[i] ELSE NoItem,
                  key |-> IF op \in {"create", "update"} THEN session[s].master ELSE 0]
<1>1. write' = [write EXCEPT ![w] = to] /\ UNCHANGED <<keysetVars, item, versions, stored>>
  BY DEF Send
<1>2. to \in Writes
  <2>1. item[i] \in Rows /\ NoItem \in Rows
    BY KeysetAssumption DEF TypeOK, NoItem, NoBlob, Rows, Blobs
  <2>2. session[s].master \in Payloads /\ 0 \in Payloads
    BY KeysetAssumption, KeysetDomains DEF TypeOK, SessionRows, Payloads
  <2>3. target \in Nat
    BY ItemsAssumption
  <2> QED BY <2>1, <2>2, <2>3 DEF Writes
<1>3. UNCHANGED <<keyset, handshake, session, req, chosen, resets, destroyed>>
  BY <1>1 DEF keysetVars, history
<1>4. /\ write' \in [Writers -> Writes]
      /\ \A x \in Writers : write'[x] = IF x = w THEN to ELSE write[x]
  BY <1>1, <1>2 DEF TypeOK, Writes, Payloads
<1>5. TypeOK'
  BY <1>1, <1>3, <1>4, KeysetDomains DEF TypeOK, KeysetTypeOK, Writes, Payloads
<1>6. KeysetOK'
  BY <1>3 DEF KeysetOK, Open
<1>7. \A j \in Items : ItemOK(j)'
  BY <1>1, <1>3 DEF ItemOK
<1>8. SeenOK(w)'
  <2>1. item[i].revision \in Nat
    BY DEF TypeOK, Rows
  <2> QED BY <1>1, <1>4, <2>1 DEF SeenOK, Ops
<1>9. \A x \in Writers \ {w} : SeenOK(x)'
  BY <1>1, <1>4, SeenKept
<1> QED BY <1>5, <1>6, <1>7, <1>8, <1>9

\* A request that is served touches one item.
LEMMA OneItemServed ==
    ASSUME VaultInv, NEW w \in Writers, NEW i \in Items, Serve(w),
           item' \in [Items -> Rows], versions' \in [Items -> Seq(Images)],
           \A j \in Items \ {i} : item'[j] = item[j] /\ versions'[j] = versions[j],
           item'[i] = item[i] \/ item'[i].revision = item[i].revision + 1,
           ItemOK(i)'
    PROVE  VaultInv'
<1> USE DEF VaultInv
<1>1. UNCHANGED <<keyset, handshake, session, req, chosen, resets, destroyed>>
      /\ write' = [write EXCEPT ![w] = NoWrite]
  BY DEF Serve, keysetVars, history
<1>2. NoWrite \in Writes /\ write \in [Writers -> Writes]
  BY KeysetAssumption DEF NoWrite, Writes, Payloads, NoItem, NoBlob, Rows, Blobs, TypeOK
<1>3. /\ write' \in [Writers -> Writes]
      /\ \A x \in Writers : write'[x] = IF x = w THEN NoWrite ELSE write[x]
  BY <1>1, <1>2
<1>4. ASSUME NEW j \in Items
      PROVE  stored'[j] = IF item'[j] = NoItem THEN {} ELSE stored[j] \cup {item'[j].blob}
  BY DEF Serve
<1>5. stored' \in [Items -> SUBSET Blobs]
  <2>1. \A j \in Items : item'[j].blob \in Blobs /\ stored[j] \subseteq Blobs
    BY DEF Rows, TypeOK
  <2> QED BY <2>1 DEF Serve
<1>6. ASSUME NEW j \in Items PROVE ItemOK(j)'
  <2>1. CASE j = i
    BY <2>1
  <2>2. CASE j # i
    BY <1>1, <1>4, <2>2, SameItem
  <2> QED BY <2>1, <2>2
<1>7. TypeOK'
  <2>1. \A j \in Items : item'[j] # NoItem => Len(versions'[j]) = item'[j].revision - 1
    BY <1>6 DEF ItemOK
  <2>2. KeysetTypeOK'
    BY <1>1 DEF TypeOK, KeysetTypeOK
  <2> QED BY <1>3, <1>5, <2>1, <2>2 DEF TypeOK, Writes, Payloads
<1>8. KeysetOK'
  BY <1>1 DEF KeysetOK, Open
<1>9. ASSUME NEW x \in Writers PROVE SeenOK(x)'
  <2>1. CASE x = w
    BY <1>3, <2>1 DEF SeenOK, NoWrite
  <2>2. CASE x # w
    BY <1>3, <2>2, SeenKept
  <2> QED BY <2>1, <2>2
<1> QED BY <1>6, <1>7, <1>8, <1>9

\* What a client saw of a row it updates or restores is the row.
LEMMA SeenIsRow ==
    ASSUME VaultInv, NEW w \in Writers, write[w].op \in {"update", "restore"}, Matches(w)
    PROVE  /\ write[w].seen.blob = item[write[w].id].blob
           /\ write[w].seen.version = item[write[w].id].version
BY DEF VaultInv, SeenOK, Matches

LEMMA ServeUpdate ==
    ASSUME VaultInv, NEW w \in Writers, Serve(w), NEW i \in Items, i = write[w].id,
           item[i] # NoItem, NEW row \in Rows, Update(i, row),
           row.status # "absent", row.version = row.blob.sealed,
           row.blob = item[i].blob \/ Live(i),
           row.status \in {"live", "user_delete"} =>
              item[i].status \in {"live", "user_delete"} /\ row.blob.era = resets
    PROVE  VaultInv'
<1>1. item \in [Items -> Rows] /\ versions \in [Items -> Seq(Images)]
  BY DEF VaultInv, TypeOK
<1>2. item' = [item EXCEPT ![i] = Bumped(i, row)]
      /\ versions' = [versions EXCEPT ![i] = Append(versions[i], Capture(i, row))]
  BY DEF Update
<1>3. item' \in [Items -> Rows] /\ versions' \in [Items -> Seq(Images)]
  BY <1>1, <1>2, UpdateTyped
<1>4. item'[i] = Bumped(i, row) /\ versions'[i] = Append(versions[i], Capture(i, row))
      /\ \A j \in Items \ {i} : item'[j] = item[j] /\ versions'[j] = versions[j]
  BY <1>1, <1>2
<1>5. item'[i].revision = item[i].revision + 1 /\ item'[i].blob = row.blob
  BY <1>4 DEF Bumped, Rows
<1>6. stored'[i] \subseteq stored[i] \cup {row.blob} /\ resets' = resets
  BY <1>5 DEF Serve, keysetVars, history
<1>7. ItemOK(i)'
  BY <1>4, <1>6, UpdatedItem
<1> QED BY <1>3, <1>4, <1>5, <1>7, OneItemServed

LEMMA ServeStep ==
    ASSUME VaultInv, NEW w \in Writers, Serve(w)
    PROVE  VaultInv'
<1>0. /\ write[w] \in Writes /\ SeenOK(w) /\ resets' = resets
      /\ item \in [Items -> Rows] /\ versions \in [Items -> Seq(Images)]
  BY DEF VaultInv, TypeOK, Writes, Payloads, Serve, keysetVars, history
<1>1. write[w].op # "none" /\ write[w].id \in Items
  <2>1. CASE Allowed(w)
    BY <1>0, <2>1 DEF Allowed, SeenOK
  <2>2. CASE ~Allowed(w)
    BY <1>0, <2>2 DEF Serve, Refused, SeenOK
  <2> QED BY <2>1, <2>2
<1> PICK i \in Items : i = write[w].id
  BY <1>1
<1>2. ItemOK(i) /\ item[i] \in Rows
  BY <1>0, <1>1 DEF VaultInv
<1>3. CASE Refused(w)
  <2>1. item' = item /\ versions' = versions
    BY <1>3 DEF Refused
  <2>2. ItemOK(i)'
    <3>1. stored'[i] = IF item'[i] = NoItem THEN {} ELSE stored[i] \cup {item'[i].blob}
      BY <1>1 DEF Serve
    <3> QED BY <1>0, <1>1, <1>2, <2>1, <3>1, SameItem
  <2> QED BY <1>0, <1>1, <2>1, <2>2, OneItemServed
<1>4. CASE Allowed(w) /\ CreateItem(w)
  <2> DEFINE row == [status |-> "live", revision |-> 1, version |-> 1, blob |-> Sealed(w)]
  <2>1. item[i] = NoItem /\ write[w].seen = NoItem
        /\ item' = [item EXCEPT ![i] = row] /\ versions' = versions
    BY <1>0, <1>4 DEF CreateItem, Allowed, SeenOK
  <2>2. Sealed(w) \in Blobs /\ Sealed(w).sealed = 1 /\ Sealed(w).era = resets
    BY <1>1, <2>1, SealedTyped DEF NoItem
  <2>3. row \in Rows /\ row # NoItem /\ row.revision = item[i].revision + 1
    BY <2>1, <2>2 DEF Rows, NoItem
  <2>4. item' \in [Items -> Rows] /\ item'[i] = row
        /\ \A j \in Items \ {i} : item'[j] = item[j]
    BY <1>0, <1>1, <2>1, <2>3
  <2>5. stored'[i] \subseteq {Sealed(w)}
    <3>1. stored[i] = {}
      BY <1>2, <2>1 DEF ItemOK
    <3>2. stored'[i] = IF item'[i] = NoItem THEN {} ELSE stored[i] \cup {item'[i].blob}
      BY <1>1 DEF Serve
    <3> QED BY <2>4, <3>1, <3>2
  <2>6. ItemOK(i)'
    <3> QED BY <1>0, <1>1, <2>1, <2>2, <2>4, <2>5, CreatedItem
  <2> HIDE DEF row
  <2> QED BY <1>0, <1>1, <2>1, <2>3, <2>4, <2>6, OneItemServed
<1>5. CASE Allowed(w) /\ UpdateItem(w)
  <2> DEFINE row == [item[i] EXCEPT !.blob = Sealed(w), !.version = item[i].version + 1]
  <2>1. Matches(w) /\ write[w].op = "update" /\ Update(i, row)
    BY <1>5 DEF UpdateItem, Allowed
  <2>2. Live(i) /\ write[w].seen.version = item[i].version
    BY <2>1, SeenIsRow DEF Matches
  <2>3. Sealed(w) \in Blobs /\ Sealed(w).sealed = item[i].version + 1 /\ Sealed(w).era = resets
    BY <1>1, <2>2, SealedTyped
  <2>4. row \in Rows /\ row.blob = Sealed(w) /\ row.version = item[i].version + 1
        /\ row.status = item[i].status
    <3>1. item[i].version + 1 \in Nat
      BY <1>2 DEF Rows
    <3>2. PICK v \in Nat : v = item[i].version + 1
      BY <3>1
    <3>3. row = [item[i] EXCEPT !.blob = Sealed(w), !.version = v]
      BY <3>2
    <3> HIDE DEF row
    <3> QED BY <1>2, <2>3, <3>2, <3>3 DEF Rows
  <2>5. item[i] # NoItem /\ item[i].status = "live"
    BY <2>2 DEF Live, NoItem
  <2> HIDE DEF row
  <2> QED BY <1>1, <2>1, <2>2, <2>3, <2>4, <2>5, ServeUpdate
<1>6. CASE Allowed(w) /\ RestoreItemVersion(w)
  <2> DEFINE k == write[w].target
             row == Restored(i, versions[i][k])
  <2>1. Matches(w) /\ Named(i, k) /\ Update(i, row)
    BY <1>6 DEF RestoreItemVersion, Allowed
  <2>2. Live(i) /\ item[i] # NoItem /\ item[i].status = "live"
    BY <2>1 DEF Matches, Live, NoItem
  <2>3. k \in 1 .. Len(versions[i]) /\ versions[i][k] \in Images
    BY <1>0, <1>1, <2>1 DEF Named
  <2>4. versions[i][k].version = versions[i][k].blob.sealed /\ versions[i][k].blob.era = resets
    BY <1>2, <2>2, <2>3 DEF ItemOK
  <2>5. row \in Rows /\ row.blob = versions[i][k].blob /\ row.version = versions[i][k].version
        /\ row.status = item[i].status
    BY <1>2, <2>3 DEF Restored, Rows, Images
  <2> HIDE DEF row, k
  <2> QED BY <1>1, <2>1, <2>2, <2>4, <2>5, ServeUpdate
<1>7. CASE Allowed(w) /\ (DeleteItem(w) \/ UndeleteItem(w))
  <2>1. PICK to \in {"live", "user_delete"} : Update(i, [item[i] EXCEPT !.status = to])
    BY <1>7 DEF DeleteItem, UndeleteItem
  <2>2. item[i].status \in {"live", "user_delete"} /\ item[i] # NoItem
    BY <1>7 DEF Allowed, DeleteItem, UndeleteItem, Live, Restorable, NoItem
  <2> DEFINE row == [item[i] EXCEPT !.status = to]
  <2>3. row \in Rows /\ row.blob = item[i].blob /\ row.version = item[i].version /\ row.status = to
    BY <1>2 DEF Rows
  <2>4. item[i].version = item[i].blob.sealed /\ item[i].blob.era = resets
    BY <1>2, <2>2 DEF ItemOK
  <2>5. Update(i, row)
    BY <2>1
  <2> HIDE DEF row
  <2> QED BY <1>1, <2>2, <2>3, <2>4, <2>5, ServeUpdate
<1> QED BY <1>3, <1>4, <1>5, <1>6, <1>7 DEF Serve, Changes

LEMMA ResetStep ==
    ASSUME VaultInv, NEW r \in Requests, ResetVault(r)
    PROVE  VaultInv'
<1> USE DEF VaultInv
<1>1. /\ item \in [Items -> Rows] /\ versions \in [Items -> Seq(Images)]
      /\ stored \in [Items -> SUBSET Blobs] /\ write \in [Writers -> Writes]
  BY DEF TypeOK, Writes, Payloads
<1>2. UNCHANGED <<write, stored>> /\ Reset(r)
  BY DEF ResetVault
<1>3. KeysetTypeOK' /\ KeysetOK'
  BY <1>2, ResetKept DEF TypeOK
<1> DEFINE row(i) == [item[i] EXCEPT !.status = "vault_reset"]
<1>4. ASSUME NEW i \in Items
      PROVE  /\ row(i) \in Rows /\ row(i).status = "vault_reset"
             /\ row(i).blob = item[i].blob /\ row(i).version = item[i].version
             /\ Bumped(i, row(i)).revision = item[i].revision + 1
  BY <1>1 DEF Rows, Bumped
<1>5. ASSUME NEW i \in Items
      PROVE  /\ item'[i] = IF i \in Doomed THEN Bumped(i, row(i)) ELSE item[i]
             /\ versions'[i] = IF i \in Doomed THEN Append(versions[i], Capture(i, item'[i]))
                               ELSE versions[i]
  BY DEF ResetVault
<1>6. item' \in [Items -> Rows] /\ versions' \in [Items -> Seq(Images)]
  <2>1. ASSUME NEW i \in Items PROVE item'[i] \in Rows /\ versions'[i] \in Seq(Images)
    <3>1. PICK x : x = item'[i]
      OBVIOUS
    <3>2. Bumped(i, row(i)) \in Rows /\ Append(versions[i], Capture(i, x)) \in Seq(Images)
      BY <1>4, UpdateTyped
    <3>3. item[i] \in Rows /\ versions[i] \in Seq(Images)
      BY <1>1
    <3> QED BY <1>5, <3>1, <3>2, <3>3
  <2> QED BY <2>1 DEF ResetVault
<1>7. ASSUME NEW i \in Items PROVE ItemOK(i)'
  <2>1. CASE i \in Doomed
    <3>1. item[i] # NoItem /\ item[i].version = item[i].blob.sealed
      BY <2>1 DEF Doomed, NoItem, ItemOK
    <3>2. stored'[i] \subseteq stored[i] \cup {row(i).blob}
      BY <1>2
    <3>3. PICK x : x = item'[i]
      OBVIOUS
    <3>4. item'[i] = Bumped(i, row(i)) /\ versions'[i] = Append(versions[i], Capture(i, x))
      BY <1>5, <2>1, <3>3
    <3> HIDE DEF row
    <3> QED BY <1>4, <3>1, <3>2, <3>4, UpdatedItem
  <2>2. CASE i \notin Doomed
    <3>1. item[i].status \in {"absent", "vault_reset"}
      BY <2>2 DEF Doomed
    <3>2. item'[i] = item[i] /\ versions'[i] = versions[i] /\ stored'[i] = stored[i]
      BY <1>2, <1>5, <2>2
    <3> QED BY <3>1, <3>2 DEF ItemOK
  <2> QED BY <2>1, <2>2
<1>8. TypeOK'
  <2>1. \A i \in Items : item'[i] # NoItem => Len(versions'[i]) = item'[i].revision - 1
    BY <1>7 DEF ItemOK
  <2> QED BY <1>1, <1>2, <1>3, <1>6, <2>1 DEF TypeOK, Writes, Payloads
<1>9. \A i \in Items : item'[i] = item[i] \/ item'[i].revision = item[i].revision + 1
  BY <1>4, <1>5
<1>10. ASSUME NEW w \in Writers PROVE SeenOK(w)'
  BY <1>2, <1>9, SeenKept
<1> QED BY <1>3, <1>7, <1>8, <1>10

LEMMA KeysetOnlyStep ==
    ASSUME VaultInv, KeysetStep, UNCHANGED itemVars
    PROVE  VaultInv'
<1>1. KeysetTypeOK' /\ KeysetOK' /\ resets' = resets
  BY KeysetStepKept DEF VaultInv, TypeOK
<1>2. UNCHANGED <<item, versions, stored, write>>
  BY DEF itemVars
<1>3. TypeOK'
  BY <1>1, <1>2 DEF VaultInv, TypeOK
<1>4. \A i \in Items : ItemOK(i)'
  BY <1>1, <1>2 DEF VaultInv, ItemOK
<1>5. \A w \in Writers : SeenOK(w)'
  BY <1>2 DEF VaultInv, SeenOK
<1> QED BY <1>1, <1>3, <1>4, <1>5 DEF VaultInv

-----------------------------------------------------------------------------
LEMMA NextVaultInv == VaultInv /\ [Next]_vars => VaultInv'
<1> SUFFICES ASSUME VaultInv, [Next]_vars PROVE VaultInv'
  OBVIOUS
<1>1. CASE UNCHANGED vars
  BY <1>1 DEF vars, keysetVars, history, itemVars, VaultInv, TypeOK, KeysetTypeOK, KeysetOK, Open,
              ItemOK, SeenOK
<1> QED BY <1>1, KeysetOnlyStep, ResetStep, SendStep, ServeStep DEF Next

LEMMA AlwaysVaultInv == Spec => []VaultInv
BY InitVaultInv, NextVaultInv, PTL DEF Spec

\* Every variable stays in its domain, and an item has an image for every revision
\* but the one in force.
THEOREM TypeCorrect == Spec => []TypeOK
<1>1. VaultInv => TypeOK
  BY DEF VaultInv
<1> QED BY <1>1, AlwaysVaultInv, PTL

\* Every session that existed when the keyset was replaced or reset is over for good,
\* but for the one that replaced it: any number of replacements, resets and unlocks
\* in flight brings none back, and one created late goes with the next change.
THEOREM SiblingsEndHolds == Spec => []SiblingsEnd
<1>1. VaultInv => SiblingsEnd
  BY DEF VaultInv, KeysetOK, SiblingsEnd
<1> QED BY <1>1, AlwaysVaultInv, PTL

\* A content and the version it is sealed for stay together in the row and in every
\* image of it, also when an image is restored.
THEOREM VersionTravelsHolds == Spec => []VersionTravels
<1>1. VaultInv => VersionTravels
  BY DEF VaultInv, ItemOK, VersionTravels
<1> QED BY <1>1, AlwaysVaultInv, PTL

\* No content is ever beyond reach: it is in the row or in an image that can be named.
THEOREM NothingLostHolds == Spec => []NothingLost
<1>1. VaultInv => NothingLost
  BY DEF VaultInv, ItemOK, NothingLost
<1> QED BY <1>1, AlwaysVaultInv, PTL

\* After a reset nothing stored before it is live again.
THEOREM ResetRetiresAllHolds == Spec => []ResetRetiresAll
<1>1. VaultInv => ResetRetiresAll
  BY DEF VaultInv, ItemOK, ResetRetiresAll, Live
<1> QED BY <1>1, AlwaysVaultInv, PTL

\* What NoLostUpdate says of one step.
LEMMA StepLosesNothing ==
    ASSUME VaultInv, [Next]_vars
    PROVE  \A i \in Items :
              item'[i].blob # item[i].blob =>
                 \E w \in Writers : write[w].id = i /\ write'[w] = NoWrite
                                    /\ write[w].seen.blob = item[i].blob
<1> SUFFICES ASSUME NEW i \in Items, item'[i].blob # item[i].blob
             PROVE  \E w \in Writers : write[w].id = i /\ write'[w] = NoWrite
                                       /\ write[w].seen.blob = item[i].blob
  OBVIOUS
<1>0. /\ item \in [Items -> Rows] /\ write \in [Writers -> Writes]
  BY DEF VaultInv, TypeOK, Writes, Payloads
<1>1. ASSUME NEW r \in Requests, ResetVault(r) PROVE item'[i].blob = item[i].blob
  <2>1. item[i] \in Rows
    BY <1>0
  <2> QED BY <1>1, <2>1 DEF ResetVault, Bumped, Rows
<1>2. CASE UNCHANGED item
  BY <1>2
<1>3. ASSUME NEW w \in Writers, Serve(w)
      PROVE  write[w].id = i /\ write'[w] = NoWrite /\ write[w].seen.blob = item[i].blob
  <2>1. write'[w] = NoWrite
    BY <1>0, <1>3 DEF Serve
  <2>2. Allowed(w) /\ Changes(w)
    BY <1>3, <1>2 DEF Serve, Refused
  <2>3. write[w].op \in Ops /\ write[w].id = i /\ item[i] \in Rows
    BY <1>0, <2>2 DEF Changes, CreateItem, UpdateItem, RestoreItemVersion, DeleteItem,
                      UndeleteItem, Update, Ops
  <2>4. CASE CreateItem(w)
    BY <2>1, <2>2, <2>3, <2>4 DEF CreateItem, Allowed, VaultInv, SeenOK
  <2>5. CASE UpdateItem(w) \/ RestoreItemVersion(w)
    <3>1. write[w].op \in {"update", "restore"} /\ Matches(w)
      BY <2>2, <2>5 DEF UpdateItem, RestoreItemVersion, Allowed
    <3> QED BY <2>3, <3>1, SeenIsRow, <2>1
  <2>6. CASE DeleteItem(w) \/ UndeleteItem(w)
    <3>1. item'[i].blob = item[i].blob
      <4>1. \E row \in Rows : row.blob = item[i].blob /\ item'[i] = Bumped(i, row)
        BY <1>0, <2>3, <2>6, SMTT(30) DEF DeleteItem, UndeleteItem, Update, Rows
      <4> QED BY <2>3, <4>1 DEF Bumped, Rows
    <3> QED BY <3>1
  <2> QED BY <2>1, <2>2, <2>3, <2>4, <2>5, <2>6 DEF Changes
<1> QED BY <1>1, <1>2, <1>3 DEF Next, Send, itemVars, vars

\* An update or a restore overwrites the content its client saw, and nothing else
\* overwrites one.
THEOREM NoLostUpdateHolds == Spec => NoLostUpdate
BY AlwaysVaultInv, StepLosesNothing, PTL DEF Spec, NoLostUpdate
=============================================================================
