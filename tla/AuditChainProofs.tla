-------------------------- MODULE AuditChainProofs --------------------------
(* What holds of AuditChain for every value of its constants: any number of  *)
(* events, partitions, consumers, copies of a message, failures, and any size *)
(* of the verifier's batches.                                                *)
EXTENDS AuditChain, SequenceTheorems, WellFoundedInduction, TLAPS

-----------------------------------------------------------------------------
(* The inductive invariant.                                                *)

Row == [seq : Nat, event : Events \cup {None}, prev : Hashes, hash : Hashes]
HeadRow == [seq : Nat, hash : Hashes]
Consumer == [at : [Partitions -> Nat], part : Partitions \cup {None},
             step : {"idle", "locked", "inserted"}, prev : HeadRow]
Verifier == [step : {"idle", "reading", "head", "ok", "bad"}, seq : Nat,
             hash : Hashes, since : BOOLEAN]

Domains ==
    /\ topic \in [Partitions -> Seq(Events)]
    /\ offset \in [Partitions -> Nat]
    /\ consumer \in [Ingestors -> Consumer]
    /\ rows \in Seq(Row)
    /\ head \in HeadRow
    /\ nextSeq \in Nat \ {0}
    /\ corrupt \in BOOLEAN
    /\ verifier \in Verifier
    /\ faults \in 0 .. MaxFaults

WithinTopic(at) == \A p \in Partitions : at[p] <= Len(topic[p])

\* The message in hand is well formed and next in its partition; the head as read
\* is still the head; a spent sequence number is above every other.
HolderOK(i) ==
    Holding(i) =>
        /\ consumer[i].part \in Partitions
        /\ consumer[i].at[consumer[i].part] < Len(topic[consumer[i].part])
        /\ consumer[i].prev = head
        /\ Message(i) \notin Malformed
        /\ consumer[i].step = "inserted" =>
              /\ ~Stored(Message(i))
              /\ nextSeq > 1
              /\ \A k \in 1 .. Len(rows) : rows[k].seq < nextSeq - 1

ConsumersOK ==
    /\ WithinTopic(offset)
    /\ \A i \in Ingestors : WithinTopic(consumer[i].at) /\ HolderOK(i)
    /\ \A i, j \in Ingestors : Holding(i) /\ Holding(j) => i = j

\* Positions up to at are in the chain, or hold a malformed message.
Chained(at) ==
    \A p \in Partitions : \A k \in 1 .. at[p] : topic[p][k] \in Malformed \/ Stored(topic[p][k])

HandledIsChained ==
    ~corrupt => Chained(offset) /\ \A i \in Ingestors : Chained(consumer[i].at)

SeqsRise ==
    /\ \A k \in 1 .. Len(rows) : 0 < rows[k].seq /\ rows[k].seq < nextSeq
    /\ \A j, k \in 1 .. Len(rows) : j < k => rows[j].seq < rows[k].seq

\* A hash tells the length of the chain it ends: this is what a verifier sees of a
\* row that is gone.
Intact ==
    /\ \A k \in 1 .. Len(rows) : rows[k].event \in Events /\ Len(rows[k].hash) = k
    /\ Len(head.hash) = Len(rows)

\* Row t was altered, its hash was not.
Altered(t) ==
    /\ t \in 1 .. Len(rows)
    /\ rows[t].hash # Append(rows[t].prev, rows[t].event)

\* A row that followed the first g is gone: those appended since, and the head,
\* hash a chain that is one longer.
Lost(g) ==
    /\ g \in 0 .. Len(rows)
    /\ \A k \in 1 .. g : Len(rows[k].hash) = k
    /\ \A k \in g + 1 .. Len(rows) : Len(rows[k].prev) = k /\ Len(rows[k].hash) = k + 1
    /\ Len(head.hash) = Len(rows) + 1

RowsOK ==
    /\ SeqsRise
    /\ OncePerEvent
    /\ ~corrupt => Intact
    /\ ChainUnbroken
    /\ corrupt => (\E t \in Nat : Altered(t)) \/ (\E g \in Nat : Lost(g))

\* The verifier has read the first n rows.
ReadUpTo(n) ==
    /\ n \in 0 .. Len(rows)
    /\ n = 0 => verifier.seq = 0 /\ verifier.hash = <<>>
    /\ n > 0 => verifier.seq = rows[n].seq /\ verifier.hash = rows[n].hash

\* A verifier started after the damage has not come past it; one that is about to
\* read the head has met no altered row, so that rows were lost.
BeforeDamage(n) ==
    \/ verifier.step = "reading" /\ \E t \in Nat : Altered(t) /\ n < t
    \/ \E g \in Nat : Lost(g) /\ n <= g

VerifierOK ==
    /\ verifier.since => corrupt
    /\ verifier.since /\ verifier.step \in {"reading", "head"} =>
          \E n \in Nat : ReadUpTo(n) /\ BeforeDamage(n)
    /\ CorruptionFound

AuditInv ==
    Domains /\ ConsumersOK /\ HandledIsChained /\ RowsOK /\ VerifierOK

-----------------------------------------------------------------------------
(* Sequences.                                                              *)

LEMMA AppendFacts ==
    ASSUME NEW S, NEW s \in Seq(S), NEW x \in S
    PROVE  /\ Append(s, x) \in Seq(S)
           /\ Len(Append(s, x)) = Len(s) + 1
           /\ \A k \in 1 .. Len(s) : Append(s, x)[k] = s[k]
           /\ Append(s, x)[Len(s) + 1] = x
           /\ Last(Append(s, x)) = x
           /\ Append(s, x) # <<>>
BY DEF Last

LEMMA FrontFacts ==
    ASSUME NEW S, NEW s \in Seq(S), s # <<>>
    PROVE  /\ Front(s) \in Seq(S)
           /\ Len(Front(s)) = Len(s) - 1
           /\ \A k \in 1 .. Len(s) - 1 : Front(s)[k] = s[k]
<1>1. Len(s) = 1 \/ Len(s) > 1
  <2>1. Len(s) # 0
    BY EmptySeq
  <2>2. \A n \in Nat : n # 0 => n = 1 \/ n > 1
    OBVIOUS
  <2>3. Len(s) \in Nat
    BY LenProperties
  <2> QED BY <2>1, <2>2, <2>3
<1>2. Front(s) = SubSeq(s, 1, Len(s) - 1)
  BY DEF Front
<1>3. CASE Len(s) = 1
  <2>1. Front(s) = <<>>
    BY <1>2, <1>3
  <2> QED BY <1>3, <2>1
<1>4. CASE Len(s) > 1
  BY <1>2, <1>4
<1> QED BY <1>1, <1>3, <1>4

-----------------------------------------------------------------------------
LEMMA InitAuditInv == Init => AuditInv
<1> SUFFICES ASSUME Init PROVE AuditInv
  OBVIOUS
<1>0. Genesis \in HeadRow
  BY DEF Genesis, HeadRow, Hashes
<1>1. Domains
  <2>1. Restarted(offset) \in Consumer
    BY <1>0 DEF Init, Restarted, Consumer
  <2>2. NotRunning \in Verifier
    BY DEF NotRunning, Verifier, Hashes
  <2>3. faults \in 0 .. MaxFaults
    BY AuditAssumption DEF Init
  <2>4. topic \in [Partitions -> Seq(Events)] /\ rows \in Seq(Row)
    BY DEF Init
  <2>5. offset \in [Partitions -> Nat] /\ nextSeq \in Nat \ {0}
    BY DEF Init
  <2>7. corrupt \in BOOLEAN
    BY DEF Init
  <2>6. consumer \in [Ingestors -> Consumer] /\ head \in HeadRow /\ verifier \in Verifier
    BY <1>0, <2>1, <2>2 DEF Init
  <2> QED BY <2>3, <2>4, <2>5, <2>6, <2>7 DEF Domains
<1>2. ConsumersOK
  BY DEF Init, ConsumersOK, WithinTopic, HolderOK, Holding, Restarted
<1>3. HandledIsChained
  BY DEF Init, HandledIsChained, Chained, Restarted
<1>4. RowsOK
  BY DEF Init, RowsOK, SeqsRise, OncePerEvent, Intact, ChainUnbroken, Linked, Genesis
<1>5. VerifierOK
  BY DEF Init, VerifierOK, NotRunning, CorruptionFound
<1> QED BY <1>1, <1>2, <1>3, <1>4, <1>5 DEF AuditInv

-----------------------------------------------------------------------------
(* What the steps leave alone.                                             *)

\* The invariants of the rows read only the store, and those of the verifier only
\* the store and the verifier.
LEMMA StoreKept ==
    ASSUME RowsOK, UNCHANGED <<storeVars, corrupt>>
    PROVE  RowsOK'
<1>1. rows' = rows /\ head' = head /\ nextSeq' = nextSeq /\ corrupt' = corrupt
  BY DEF storeVars
<1>2. SeqsRise' = SeqsRise /\ OncePerEvent' = OncePerEvent /\ Intact' = Intact
  BY <1>1 DEF SeqsRise, OncePerEvent, Intact
<1>3. ChainUnbroken' = ChainUnbroken
  BY <1>1 DEF ChainUnbroken, Linked
<1>4. (\E t \in Nat : Altered(t))' = (\E t \in Nat : Altered(t))
  BY <1>1 DEF Altered
<1>5. (\E g \in Nat : Lost(g))' = (\E g \in Nat : Lost(g))
  BY <1>1 DEF Lost
<1> QED BY <1>1, <1>2, <1>3, <1>4, <1>5 DEF RowsOK

LEMMA VerifierKept ==
    ASSUME VerifierOK, UNCHANGED <<rows, head, corrupt, verifier>>
    PROVE  VerifierOK'
<1>1. ASSUME NEW n \in Nat
      PROVE  ReadUpTo(n)' = ReadUpTo(n) /\ BeforeDamage(n)' = BeforeDamage(n)
  BY DEF ReadUpTo, BeforeDamage, Altered, Lost
<1> QED BY <1>1 DEF VerifierOK, CorruptionFound

LEMMA RowTyped ==
    ASSUME Domains, NEW k \in 1 .. Len(rows)
    PROVE  rows[k] \in Row
<1>1. rows \in Seq(Row)
  BY DEF Domains
<1> QED BY <1>1

LEMMA StoredKept ==
    ASSUME rows' = rows
    PROVE  \A e : Stored(e)' = Stored(e)
BY DEF Stored

LEMMA MessageTyped ==
    ASSUME Domains, ConsumersOK, NEW i \in Ingestors, Holding(i)
    PROVE  Message(i) \in Events
<1>1. /\ consumer[i].part \in Partitions
      /\ consumer[i].at[consumer[i].part] < Len(topic[consumer[i].part])
  BY DEF ConsumersOK, HolderOK
<1>2. consumer[i].at[consumer[i].part] \in Nat /\ topic[consumer[i].part] \in Seq(Events)
  BY <1>1 DEF Domains, Consumer
<1> QED BY <1>1, <1>2 DEF Message, Following

\* A consumer that moves past a message has its next state in the domain.
LEMMA HandledTyped ==
    ASSUME Domains, NEW i \in Ingestors, NEW p \in Partitions
    PROVE  /\ Handled(i, p) \in [Ingestors -> Consumer]
           /\ Handled(i, p)[i].step = "idle"
           /\ Handled(i, p)[i].at = [consumer[i].at EXCEPT ![p] = consumer[i].at[p] + 1]
           /\ \A j \in Ingestors \ {i} : Handled(i, p)[j] = consumer[j]
<1>1. consumer[i] \in Consumer
  BY DEF Domains
<1>2. [consumer[i].at EXCEPT ![p] = consumer[i].at[p] + 1] \in [Partitions -> Nat]
  BY <1>1 DEF Consumer
<1>3. Restarted([consumer[i].at EXCEPT ![p] = consumer[i].at[p] + 1]) \in Consumer
  BY <1>2 DEF Restarted, Consumer, Genesis, HeadRow, Hashes
<1> QED BY <1>3 DEF Handled, Restarted, Domains

-----------------------------------------------------------------------------
(* The topic and the consumers.                                            *)

LEMMA EmitStep ==
    ASSUME AuditInv, NEW e \in Events, NEW p \in Partitions, Emit(e, p)
    PROVE  AuditInv'
<1> USE DEF AuditInv
<1>1. UNCHANGED <<offset, consumer, rows, head, nextSeq, storeVars, corrupt, verifier, faults>>
  BY DEF Emit, storeVars
<1>2. ASSUME NEW q \in Partitions
      PROVE  /\ topic'[q] \in Seq(Events)
             /\ Len(topic'[q]) >= Len(topic[q])
             /\ \A k \in 1 .. Len(topic[q]) : topic'[q][k] = topic[q][k]
  <2>1. topic[q] \in Seq(Events) /\ topic[p] \in Seq(Events)
    BY DEF Domains
  <2>2. topic'[q] = IF q = p THEN Append(topic[p], e) ELSE topic[q]
    BY DEF Emit, Domains
  <2>3. Append(topic[p], e) \in Seq(Events) /\ Len(Append(topic[p], e)) >= Len(topic[p])
    BY <2>1
  <2>4. \A k \in 1 .. Len(topic[p]) : Append(topic[p], e)[k] = topic[p][k]
    BY <2>1
  <2>5. Len(topic[q]) \in Nat
    BY <2>1
  <2> QED BY <2>1, <2>2, <2>3, <2>4, <2>5
<1>3. Domains'
  <2>1. topic' \in [Partitions -> Seq(Events)]
    BY <1>2 DEF Emit, Domains
  <2> QED BY <1>1, <2>1 DEF Domains
<1>4. ASSUME NEW at \in [Partitions -> Nat], WithinTopic(at)
      PROVE  WithinTopic(at)' /\ (Chained(at) => Chained(at)')
  <2>1. ASSUME NEW q \in Partitions PROVE at[q] <= Len(topic'[q])
    <3>1. at[q] \in Nat /\ Len(topic[q]) \in Nat /\ Len(topic'[q]) \in Nat
      BY <1>2 DEF Domains
    <3> QED BY <1>2, <1>4, <3>1 DEF WithinTopic
  <2>2. ASSUME NEW q \in Partitions, NEW k \in 1 .. at[q] PROVE topic'[q][k] = topic[q][k]
    <3>1. at[q] \in Nat /\ Len(topic[q]) \in Nat /\ at[q] <= Len(topic[q])
      BY <1>4 DEF Domains, WithinTopic
    <3> QED BY <1>2, <3>1
  <2>3. \A x : Stored(x)' = Stored(x)
    BY <1>1, StoredKept
  <2> QED BY <2>1, <2>2, <2>3 DEF WithinTopic, Chained
<1>5. \A i \in Ingestors : consumer[i].at \in [Partitions -> Nat]
  BY DEF Domains, Consumer
<1>6. ASSUME NEW i \in Ingestors, Holding(i)
      PROVE  /\ Message(i)' = Message(i)
             /\ consumer[i].at[consumer[i].part] < Len(topic'[consumer[i].part])
  <2>1. /\ consumer[i].part \in Partitions
        /\ consumer[i].at[consumer[i].part] < Len(topic[consumer[i].part])
    BY <1>6 DEF ConsumersOK, HolderOK
  <2>2. /\ consumer[i].at[consumer[i].part] \in Nat
        /\ Len(topic[consumer[i].part]) \in Nat /\ Len(topic'[consumer[i].part]) \in Nat
    BY <1>2, <1>5, <2>1 DEF Domains
  <2>3. consumer[i].at[consumer[i].part] + 1 \in 1 .. Len(topic[consumer[i].part])
    BY <2>1, <2>2
  <2>4. /\ Message(i) = topic[consumer[i].part][consumer[i].at[consumer[i].part] + 1]
        /\ Message(i)' = topic'[consumer[i].part][consumer[i].at[consumer[i].part] + 1]
    BY <1>1 DEF Message, Following
  <2>5. /\ Len(topic'[consumer[i].part]) >= Len(topic[consumer[i].part])
        /\ \A k \in 1 .. Len(topic[consumer[i].part]) :
              topic'[consumer[i].part][k] = topic[consumer[i].part][k]
    BY <1>2, <2>1
  <2>6. Message(i)' = Message(i)
    BY <2>3, <2>4, <2>5
  <2>7. consumer[i].at[consumer[i].part] < Len(topic'[consumer[i].part])
    BY <2>1, <2>2, <2>5
  <2> QED BY <2>6, <2>7
<1>7. ASSUME NEW i \in Ingestors PROVE HolderOK(i)' /\ Holding(i)' = Holding(i)
  BY <1>1, <1>6 DEF HolderOK, Holding, Stored, ConsumersOK
<1>8. ConsumersOK'
  <2>1. WithinTopic(offset)'
    BY <1>1, <1>4 DEF ConsumersOK, Domains, WithinTopic
  <2>2. ASSUME NEW i \in Ingestors PROVE WithinTopic(consumer[i].at)'
    BY <1>1, <1>4, <1>5 DEF ConsumersOK, WithinTopic
  <2> QED BY <1>7, <2>1, <2>2 DEF ConsumersOK
<1>9. HandledIsChained'
  <2>1. Chained(offset) => Chained(offset)'
    BY <1>1, <1>4 DEF ConsumersOK, Domains, Chained
  <2>2. ASSUME NEW i \in Ingestors, Chained(consumer[i].at) PROVE Chained(consumer[i].at)'
    BY <1>1, <1>4, <1>5, <2>2 DEF ConsumersOK, Chained
  <2> QED BY <1>1, <2>1, <2>2 DEF HandledIsChained
<1>10. RowsOK' /\ VerifierOK'
  BY <1>1, StoreKept, VerifierKept
<1> QED BY <1>3, <1>8, <1>9, <1>10

LEMMA CommitOffsetStep ==
    ASSUME AuditInv, NEW i \in Ingestors, NEW p \in Partitions, CommitOffset(i, p)
    PROVE  AuditInv'
<1> USE DEF AuditInv
<1>1. UNCHANGED <<topic, consumer, rows, head, nextSeq, storeVars, corrupt, verifier, faults>>
  BY DEF CommitOffset, storeVars
<1>2. consumer[i].at \in [Partitions -> Nat] /\ WithinTopic(consumer[i].at)
  BY DEF Domains, Consumer, ConsumersOK
<1>3. /\ offset' \in [Partitions -> Nat]
      /\ \A q \in Partitions : offset'[q] = IF q = p THEN consumer[i].at[p] ELSE offset[q]
  BY <1>2 DEF CommitOffset, Domains
<1>4. Domains'
  BY <1>1, <1>3 DEF Domains
<1>5. ConsumersOK'
  <2>1. WithinTopic(offset)'
    BY <1>1, <1>2, <1>3 DEF WithinTopic, ConsumersOK
  <2>2. ASSUME NEW j \in Ingestors
        PROVE  /\ WithinTopic(consumer[j].at)' = WithinTopic(consumer[j].at)
               /\ HolderOK(j)' = HolderOK(j) /\ Holding(j)' = Holding(j)
    BY <1>1 DEF WithinTopic, HolderOK, Holding, Stored, Message, Following
  <2> QED BY <2>1, <2>2 DEF ConsumersOK
<1>6. HandledIsChained'
  <2>1. ~corrupt => Chained(offset)'
    BY <1>1, <1>3 DEF HandledIsChained, Chained, Stored
  <2>2. ASSUME NEW j \in Ingestors
        PROVE  Chained(consumer[j].at)' = Chained(consumer[j].at)
    BY <1>1 DEF Chained, Stored
  <2> QED BY <1>1, <2>1, <2>2 DEF HandledIsChained
<1>7. RowsOK' /\ VerifierOK'
  BY <1>1, StoreKept, VerifierKept
<1> QED BY <1>4, <1>5, <1>6, <1>7

\* Consumer i ends up idle, having chained what it moved past, and no other is
\* disturbed.
LEMMA BecomesIdle ==
    ASSUME AuditInv, NEW i \in Ingestors, Domains',
           UNCHANGED topicVars, corrupt' = corrupt,
           consumer'[i].step = "idle",
           \A j \in Ingestors \ {i} : consumer'[j] = consumer[j],
           WithinTopic(consumer'[i].at),
           \A e : Stored(e) => Stored(e)',
           ~corrupt => Chained(consumer[i].at)' ,
           UNCHANGED storeVars \/ \A j \in Ingestors \ {i} : ~Holding(j)
    PROVE  ConsumersOK' /\ HandledIsChained'
<1> USE DEF AuditInv
<1>1. topic' = topic /\ offset' = offset
  BY DEF topicVars
<1>2. ~Holding(i)' /\ \A j \in Ingestors \ {i} : Holding(j)' = Holding(j)
  BY DEF Holding
<1>3. ConsumersOK'
  <2>1. WithinTopic(offset)' /\ WithinTopic(consumer[i].at)'
    BY <1>1 DEF WithinTopic, ConsumersOK
  <2>2. ASSUME NEW j \in Ingestors \ {i} PROVE WithinTopic(consumer[j].at)'
    BY <1>1 DEF WithinTopic, ConsumersOK
  <2>3. HolderOK(i)'
    BY <1>2 DEF HolderOK, Holding
  <2>4. ASSUME NEW j \in Ingestors \ {i} PROVE HolderOK(j)'
    <3>1. CASE UNCHANGED storeVars
      <4>1. HolderOK(j)' = HolderOK(j)
        BY <1>1, <3>1 DEF HolderOK, Holding, Message, Following, Stored, storeVars
      <4> QED BY <4>1 DEF ConsumersOK
    <3>2. CASE \A l \in Ingestors \ {i} : ~Holding(l)
      BY <3>2, <1>2 DEF HolderOK, Holding
    <3> QED BY <3>1, <3>2
  <2>5. \A j, l \in Ingestors : Holding(j)' /\ Holding(l)' => j = l
    BY <1>2 DEF ConsumersOK
  <2> QED BY <2>1, <2>2, <2>3, <2>4, <2>5 DEF ConsumersOK
<1>4. HandledIsChained'
  <2>1. ~corrupt => Chained(offset)'
    BY <1>1 DEF HandledIsChained, Chained
  <2>2. ASSUME NEW j \in Ingestors \ {i}, ~corrupt PROVE Chained(consumer[j].at)'
    BY <1>1, <2>2 DEF HandledIsChained, Chained
  <2> QED BY <2>1, <2>2 DEF HandledIsChained
<1> QED BY <1>3, <1>4

LEMMA RestartStep ==
    ASSUME AuditInv, NEW i \in Ingestors, Restart(i)
    PROVE  AuditInv'
<1> USE DEF AuditInv
<1>1. UNCHANGED <<topic, offset, rows, head, nextSeq, topicVars, storeVars, corrupt, verifier>>
  BY DEF Restart, storeVars, topicVars
<1>2. Restarted(offset) \in Consumer /\ Restarted(offset).step = "idle" /\ Restarted(offset).at = offset
  BY DEF Restarted, Consumer, Genesis, HeadRow, Hashes, Domains
<1>3. /\ consumer' \in [Ingestors -> Consumer]
      /\ consumer'[i] = Restarted(offset)
      /\ \A j \in Ingestors \ {i} : consumer'[j] = consumer[j]
  BY <1>2 DEF Restart, Domains
<1>4. Domains'
  <2>1. faults' \in 0 .. MaxFaults
    BY AuditAssumption DEF Restart, Domains
  <2> QED BY <1>1, <1>3, <2>1 DEF Domains
<1>5. ConsumersOK' /\ HandledIsChained'
  <2>1. consumer'[i].step = "idle" /\ WithinTopic(consumer'[i].at)
    BY <1>2, <1>3 DEF ConsumersOK
  <2>2. \A e : Stored(e) => Stored(e)'
    BY <1>1, StoredKept
  <2>3. ~corrupt => Chained(consumer[i].at)'
    BY <1>1, <1>2, <1>3 DEF HandledIsChained, Chained, Stored
  <2> QED BY <1>1, <1>3, <1>4, <2>1, <2>2, <2>3, BecomesIdle
<1>6. RowsOK' /\ VerifierOK'
  BY <1>1, StoreKept, VerifierKept
<1> QED BY <1>4, <1>5, <1>6

\* A consumer that gives up starts over where it was.
LEMMA GivesUp ==
    ASSUME AuditInv, NEW i \in Ingestors, consumer' = AfterError(i)
    PROVE  /\ consumer' \in [Ingestors -> Consumer]
           /\ consumer'[i].step = "idle"
           /\ consumer'[i].at = consumer[i].at
           /\ \A j \in Ingestors \ {i} : consumer'[j] = consumer[j]
<1>1. consumer[i] \in Consumer
  BY DEF Domains, AuditInv
<1>2. Restarted(consumer[i].at) \in Consumer
  BY <1>1 DEF Restarted, Consumer, Genesis, HeadRow, Hashes
<1> QED BY <1>2 DEF AfterError, Restarted, Domains, AuditInv

LEMMA FailsUnstoredStep ==
    ASSUME AuditInv, NEW i \in Ingestors, consumer' = AfterError(i),
           faults' \in 0 .. MaxFaults, UNCHANGED <<topicVars, storeVars, corrupt, verifier>>
    PROVE  AuditInv'
<1> USE DEF AuditInv
<1>1. UNCHANGED <<topic, offset, rows, head, nextSeq>>
  BY DEF storeVars, topicVars
<1>2. Domains'
  BY <1>1, GivesUp DEF Domains
<1>3. ConsumersOK' /\ HandledIsChained'
  <2>1. WithinTopic(consumer'[i].at)
    BY GivesUp DEF ConsumersOK
  <2>2. \A e : Stored(e) => Stored(e)'
    BY <1>1, StoredKept
  <2>3. ~corrupt => Chained(consumer[i].at)'
    BY <1>1, GivesUp DEF HandledIsChained, Chained, Stored
  <2> QED BY <1>2, <2>1, <2>2, <2>3, BecomesIdle, GivesUp
<1>4. RowsOK' /\ VerifierOK'
  BY <1>1, StoreKept, VerifierKept
<1> QED BY <1>2, <1>3, <1>4

\* Moving past one more position that is malformed or in the chain.
LEMMA MovesOn ==
    ASSUME AuditInv, NEW i \in Ingestors, NEW p \in Partitions, NEW m,
           consumer' = Handled(i, p), topic' = topic,
           consumer[i].at[p] < Len(topic[p]),
           m = Following(i, p),
           \A e : Stored(e) => Stored(e)',
           m \in Malformed \/ Stored(m)'
    PROVE  /\ WithinTopic(consumer'[i].at)
           /\ ~corrupt => Chained(consumer[i].at)'
<1> USE DEF AuditInv
<1>1. consumer[i].at \in [Partitions -> Nat]
  BY DEF Domains, Consumer
<1>2. consumer'[i].at = [consumer[i].at EXCEPT ![p] = consumer[i].at[p] + 1]
  BY HandledTyped
<1>3. \A q \in Partitions : Len(topic[q]) \in Nat /\ consumer[i].at[q] <= Len(topic[q])
  BY DEF Domains, ConsumersOK, WithinTopic
<1>4. WithinTopic(consumer'[i].at)
  BY <1>1, <1>2, <1>3 DEF WithinTopic
<1>5. ASSUME ~corrupt, NEW q \in Partitions, NEW k \in 1 .. consumer'[i].at[q]
      PROVE  topic'[q][k] \in Malformed \/ Stored(topic[q][k])'
  <2>1. CASE k \in 1 .. consumer[i].at[q]
    BY <1>5, <2>1 DEF HandledIsChained, Chained
  <2>2. CASE k \notin 1 .. consumer[i].at[q]
    <3>1. q = p /\ k = consumer[i].at[p] + 1
      BY <1>1, <1>2, <2>2
    <3>2. topic'[q][k] = m
      BY <3>1 DEF Following
    <3> QED BY <3>2
  <2> QED BY <2>1, <2>2
<1> QED BY <1>4, <1>5 DEF Chained

LEMMA RejectStep ==
    ASSUME AuditInv, NEW i \in Ingestors, NEW p \in Partitions, Reject(i, p)
    PROVE  AuditInv'
<1> USE DEF AuditInv
<1>1. UNCHANGED <<topic, offset, rows, head, nextSeq, topicVars, storeVars, corrupt, verifier, faults>>
  BY DEF Reject, storeVars, topicVars
<1>2. consumer' = Handled(i, p) /\ Domains'
  BY <1>1, HandledTyped DEF Reject, Domains
<1>3. \A e : Stored(e) => Stored(e)'
  BY <1>1, StoredKept
<1>4. WithinTopic(consumer'[i].at) /\ (~corrupt => Chained(consumer[i].at)')
  BY <1>1, <1>2, <1>3, MovesOn DEF Reject, Sent, Rejects, Following
<1>5. consumer'[i].step = "idle" /\ \A j \in Ingestors \ {i} : consumer'[j] = consumer[j]
  <2>1. /\ Handled(i, p)[i].step = "idle"
        /\ \A j \in Ingestors \ {i} : Handled(i, p)[j] = consumer[j]
    BY HandledTyped
  <2>2. consumer' = Handled(i, p)
    BY <1>2
  <2> HIDE DEF AuditInv
  <2> QED BY <2>1, <2>2
<1>6. ConsumersOK' /\ HandledIsChained'
  BY <1>1, <1>2, <1>3, <1>4, <1>5, BecomesIdle
<1>7. RowsOK' /\ VerifierOK'
  BY <1>1, StoreKept, VerifierKept
<1> QED BY <1>2, <1>6, <1>7

LEMMA DuplicateStep ==
    ASSUME AuditInv, NEW i \in Ingestors, Duplicate(i)
    PROVE  AuditInv'
<1> USE DEF AuditInv
<1>1. UNCHANGED <<topic, offset, rows, head, nextSeq, topicVars, storeVars, corrupt, verifier, faults>>
  BY DEF Duplicate, storeVars, topicVars
<1> DEFINE p == consumer[i].part
<1>2. p \in Partitions /\ consumer[i].at[p] < Len(topic[p])
  BY DEF Duplicate, ConsumersOK, HolderOK, Holding
<1>3. consumer' = Handled(i, p) /\ Domains'
  BY <1>1, <1>2, HandledTyped DEF Duplicate, Domains
<1>4. \A e : Stored(e) => Stored(e)'
  BY <1>1, StoredKept
<1>5. WithinTopic(consumer'[i].at) /\ (~corrupt => Chained(consumer[i].at)')
  <2>1. PICK m : m = Following(i, p)
    OBVIOUS
  <2>2. Stored(m)'
    BY <1>4, <2>1 DEF Duplicate, Message
  <2> HIDE DEF p
  <2> QED BY <1>1, <1>2, <1>3, <1>4, <2>1, <2>2, MovesOn
<1>6. consumer'[i].step = "idle" /\ \A j \in Ingestors \ {i} : consumer'[j] = consumer[j]
  <2>1. /\ Handled(i, p)[i].step = "idle"
        /\ \A j \in Ingestors \ {i} : Handled(i, p)[j] = consumer[j]
    BY <1>2, HandledTyped
  <2>2. consumer' = Handled(i, p)
    BY <1>3
  <2> HIDE DEF AuditInv
  <2> QED BY <2>1, <2>2
<1>7. ConsumersOK' /\ HandledIsChained'
  BY <1>1, <1>3, <1>4, <1>5, <1>6, BecomesIdle
<1>8. RowsOK' /\ VerifierOK'
  BY <1>1, StoreKept, VerifierKept
<1> QED BY <1>3, <1>7, <1>8

LEMMA LockHeadStep ==
    ASSUME AuditInv, NEW i \in Ingestors, NEW p \in Partitions, LockHead(i, p)
    PROVE  AuditInv'
<1> USE DEF AuditInv
<1>1. UNCHANGED <<topic, offset, rows, head, nextSeq, topicVars, storeVars, corrupt, verifier, faults>>
  BY DEF LockHead, storeVars, topicVars
<1>2. consumer[i] \in Consumer /\ head \in HeadRow
  BY DEF Domains
<1>3. /\ consumer' \in [Ingestors -> Consumer]
      /\ consumer'[i] = [at |-> consumer[i].at, part |-> p, step |-> "locked", prev |-> head]
      /\ \A j \in Ingestors \ {i} : consumer'[j] = consumer[j]
  BY <1>2 DEF LockHead, Domains, Consumer
<1>4. Domains'
  BY <1>1, <1>3 DEF Domains
<1>5. \A j \in Ingestors : consumer'[j].at = consumer[j].at
  BY <1>3
<1>6. \A j \in Ingestors \ {i} : ~Holding(j)'
  BY <1>3 DEF LockHead, HeadFree, Holding
<1>7. HolderOK(i)'
  <2>1. Message(i)' \notin Malformed
    BY <1>1, <1>3 DEF LockHead, Message, Following
  <2>2. consumer[i].at[p] < Len(topic[p])
    BY DEF LockHead, Sent
  <2> QED BY <1>1, <1>3, <2>1, <2>2 DEF HolderOK
<1>8. ConsumersOK'
  <2>1. \A j \in Ingestors : WithinTopic(consumer[j].at)'
    BY <1>1, <1>5 DEF ConsumersOK, WithinTopic
  <2>2. WithinTopic(offset)'
    BY <1>1 DEF ConsumersOK, WithinTopic
  <2>3. \A j \in Ingestors : HolderOK(j)'
    BY <1>6, <1>7 DEF HolderOK
  <2> QED BY <1>6, <2>1, <2>2, <2>3 DEF ConsumersOK
<1>9. HandledIsChained'
  <2>1. Chained(offset)' = Chained(offset)
    BY <1>1 DEF Chained, Stored
  <2>2. ASSUME NEW j \in Ingestors, ~corrupt PROVE Chained(consumer[j].at)'
    BY <1>1, <1>5, <2>2 DEF Chained, Stored, HandledIsChained
  <2> QED BY <1>1, <2>1, <2>2 DEF HandledIsChained
<1>10. RowsOK' /\ VerifierOK'
  BY <1>1, StoreKept, VerifierKept
<1> QED BY <1>4, <1>8, <1>9, <1>10

LEMMA InsertEventStep ==
    ASSUME AuditInv, NEW i \in Ingestors, InsertEvent(i)
    PROVE  AuditInv'
<1> USE DEF AuditInv
<1>1. UNCHANGED <<topic, offset, rows, head, corrupt, verifier, faults>> /\ nextSeq' = nextSeq + 1
  BY DEF InsertEvent, topicVars
<1>2. consumer[i] \in Consumer /\ Holding(i)
  BY DEF Domains, InsertEvent, Holding
<1>3. /\ consumer' \in [Ingestors -> Consumer]
      /\ consumer'[i] = [consumer[i] EXCEPT !.step = "inserted"]
      /\ \A j \in Ingestors \ {i} : consumer'[j] = consumer[j]
  BY <1>2 DEF InsertEvent, Domains, Consumer
<1>4. Domains'
  BY <1>1, <1>3 DEF Domains
<1>5. \A j \in Ingestors : /\ consumer'[j].at = consumer[j].at
                           /\ consumer'[j].part = consumer[j].part
                           /\ consumer'[j].prev = consumer[j].prev
  BY <1>2, <1>3 DEF Consumer
<1>6. \A j \in Ingestors \ {i} : ~Holding(j)'
  BY <1>2, <1>3 DEF ConsumersOK, Holding
<1>7. HolderOK(i)'
  <2>1. Message(i)' = Message(i)
    BY <1>1, <1>5 DEF Message, Following
  <2>2. ~Stored(Message(i)) /\ ~Stored(Message(i))'
    BY <1>1, <2>1 DEF InsertEvent, Stored
  <2>3. nextSeq' > 1 /\ \A k \in 1 .. Len(rows') : rows'[k].seq < nextSeq' - 1
    <3>1. \A k \in 1 .. Len(rows) : rows[k].seq < nextSeq /\ rows[k].seq \in Nat
      BY RowTyped DEF RowsOK, SeqsRise, Row
    <3> QED BY <1>1, <3>1 DEF Domains
  <2>4. /\ consumer[i].part \in Partitions
        /\ consumer[i].at[consumer[i].part] < Len(topic[consumer[i].part])
        /\ consumer[i].prev = head
        /\ Message(i) \notin Malformed
    BY <1>2 DEF ConsumersOK, HolderOK
  <2> QED BY <1>1, <1>5, <2>1, <2>2, <2>3, <2>4 DEF HolderOK
<1>8. ConsumersOK'
  <2>1. \A j \in Ingestors : WithinTopic(consumer[j].at)'
    BY <1>1, <1>5 DEF ConsumersOK, WithinTopic
  <2>2. WithinTopic(offset)'
    BY <1>1 DEF ConsumersOK, WithinTopic
  <2>3. \A j \in Ingestors : HolderOK(j)'
    BY <1>6, <1>7 DEF HolderOK
  <2> QED BY <1>6, <2>1, <2>2, <2>3 DEF ConsumersOK
<1>9. HandledIsChained'
  <2>1. Chained(offset)' = Chained(offset)
    BY <1>1 DEF Chained, Stored
  <2>2. ASSUME NEW j \in Ingestors, ~corrupt PROVE Chained(consumer[j].at)'
    BY <1>1, <1>5, <2>2 DEF Chained, Stored, HandledIsChained
  <2> QED BY <1>1, <2>1, <2>2 DEF HandledIsChained
<1>10. RowsOK'
  <2>1. SeqsRise'
    <3>1. \A k \in 1 .. Len(rows) : rows[k].seq < nextSeq /\ rows[k].seq \in Nat
      BY RowTyped DEF RowsOK, SeqsRise, Row
    <3> QED BY <1>1, <3>1 DEF Domains, RowsOK, SeqsRise
  <2>2. OncePerEvent' = OncePerEvent /\ Intact' = Intact /\ ChainUnbroken' = ChainUnbroken
    BY <1>1 DEF OncePerEvent, Intact, ChainUnbroken, Linked
  <2>3. (\E t \in Nat : Altered(t))' = (\E t \in Nat : Altered(t))
    BY <1>1 DEF Altered
  <2>4. (\E g \in Nat : Lost(g))' = (\E g \in Nat : Lost(g))
    BY <1>1 DEF Lost
  <2> QED BY <1>1, <2>1, <2>2, <2>3, <2>4 DEF RowsOK
<1>11. VerifierOK'
  BY <1>1, VerifierKept
<1> QED BY <1>4, <1>8, <1>9, <1>10, <1>11

-----------------------------------------------------------------------------
(* A row is stored.                                                        *)

LEMMA RowStored ==
    ASSUME AuditInv, NEW i \in Ingestors, Commits(i)
    PROVE  \E m \in Events \ Malformed :
              /\ m = Message(i) /\ m = Following(i, consumer[i].part)
              /\ ~Stored(m)
              /\ nextSeq > 1 /\ \A k \in 1 .. Len(rows) : rows[k].seq < nextSeq - 1
              /\ rows' \in Seq(Row) /\ Len(rows') = Len(rows) + 1
              /\ \A k \in 1 .. Len(rows) : rows'[k] = rows[k]
              /\ rows'[Len(rows) + 1] = [seq |-> nextSeq - 1, event |-> m, prev |-> head.hash,
                                         hash |-> Append(head.hash, m)]
              /\ rows' # <<>> /\ Last(rows') = rows'[Len(rows) + 1]
              /\ head' = [seq |-> nextSeq - 1, hash |-> Append(head.hash, m)]
              /\ UNCHANGED <<topic, offset, nextSeq, corrupt, verifier>>
<1> USE DEF AuditInv
<1>1. Holding(i) /\ consumer[i].step = "inserted"
  BY DEF Commits, Holding
<1>2. PICK m : m = Message(i)
  OBVIOUS
<1>3. m \in Events
  BY <1>1, <1>2, MessageTyped
<1>4. /\ m \notin Malformed /\ ~Stored(m)
      /\ consumer[i].prev = head
      /\ nextSeq > 1 /\ \A k \in 1 .. Len(rows) : rows[k].seq < nextSeq - 1
  BY <1>1, <1>2 DEF ConsumersOK, HolderOK
<1> DEFINE r == [seq |-> nextSeq - 1, event |-> m, prev |-> head.hash, hash |-> Append(head.hash, m)]
<1>5. NewRow(i) = r
  BY <1>2, <1>4 DEF NewRow
<1>6. r \in Row
  <2>1. head.hash \in Hashes /\ nextSeq - 1 \in Nat
    BY DEF Domains, HeadRow
  <2>2. Append(head.hash, m) \in Hashes
    BY <1>3, <2>1, AppendFacts DEF Hashes
  <2> QED BY <1>3, <2>1, <2>2 DEF Row
<1>7. rows \in Seq(Row) /\ rows' = Append(rows, r)
  BY <1>5 DEF Commits, Domains
<1>8. head' = [seq |-> nextSeq - 1, hash |-> Append(head.hash, m)]
  BY <1>5 DEF Commits
<1>9. UNCHANGED <<topic, offset, nextSeq, corrupt, verifier>>
  BY DEF Commits, topicVars
<1> HIDE DEF r
<1>10. /\ rows' \in Seq(Row) /\ Len(rows') = Len(rows) + 1
       /\ \A k \in 1 .. Len(rows) : rows'[k] = rows[k]
       /\ rows'[Len(rows) + 1] = r
       /\ rows' # <<>> /\ Last(rows') = r
  BY <1>6, <1>7, AppendFacts
<1>11. m = Following(i, consumer[i].part)
  BY <1>2 DEF Message
<1> QED BY <1>2, <1>3, <1>4, <1>8, <1>9, <1>10, <1>11 DEF r

\* The damage stays, and what the verifier had read stays read.
LEMMA DamageStays ==
    ASSUME AuditInv, NEW i \in Ingestors, Commits(i)
    PROVE  /\ \A t \in Nat : Altered(t) => Altered(t)'
           /\ \A g \in Nat : Lost(g) => Lost(g)'
           /\ \A n \in Nat : ReadUpTo(n) => ReadUpTo(n)'
           /\ \A e : Stored(e) => Stored(e)'
<1> USE DEF AuditInv
<1>1. PICK m \in Events \ Malformed :
          /\ Len(rows') = Len(rows) + 1
          /\ \A k \in 1 .. Len(rows) : rows'[k] = rows[k]
          /\ rows'[Len(rows) + 1] = [seq |-> nextSeq - 1, event |-> m, prev |-> head.hash,
                                     hash |-> Append(head.hash, m)]
          /\ head' = [seq |-> nextSeq - 1, hash |-> Append(head.hash, m)]
          /\ verifier' = verifier
  BY RowStored
<1>2. Len(rows) \in Nat
  BY DEF Domains
<1>3. \A t \in Nat : Altered(t) => Altered(t)'
  BY <1>1, <1>2 DEF Altered
<1>4. ASSUME NEW g \in Nat, Lost(g) PROVE Lost(g)'
  <2>1. head.hash \in Hashes /\ Len(head.hash) = Len(rows) + 1
    BY <1>4 DEF Domains, HeadRow, Lost
  <2>2. Len(Append(head.hash, m)) = Len(rows) + 2
    BY <1>2, <2>1 DEF Hashes
  <2>3. \A k \in 1 .. g : Len(rows'[k].hash) = k
    BY <1>1, <1>2, <1>4 DEF Lost
  <2>4. ASSUME NEW k \in g + 1 .. Len(rows')
        PROVE  Len(rows'[k].prev) = k /\ Len(rows'[k].hash) = k + 1
    <3>1. CASE k <= Len(rows)
      BY <1>1, <1>2, <1>4, <3>1 DEF Lost
    <3>2. CASE k = Len(rows) + 1
      BY <1>1, <1>2, <2>1, <2>2, <3>2
    <3> QED BY <1>1, <1>2, <3>1, <3>2
  <2> QED BY <1>1, <1>2, <1>4, <2>2, <2>3, <2>4 DEF Lost
<1>5. \A n \in Nat : ReadUpTo(n) => ReadUpTo(n)'
  BY <1>1, <1>2 DEF ReadUpTo
<1>6. \A e : Stored(e) => Stored(e)'
  BY <1>1, <1>2 DEF Stored
<1> QED BY <1>3, <1>4, <1>5, <1>6

LEMMA StoredRowsOK ==
    ASSUME AuditInv, NEW i \in Ingestors, Commits(i)
    PROVE  RowsOK'
<1> USE DEF AuditInv
<1>1. PICK m \in Events \ Malformed :
          /\ ~Stored(m)
          /\ nextSeq > 1 /\ \A k \in 1 .. Len(rows) : rows[k].seq < nextSeq - 1
          /\ rows' \in Seq(Row) /\ Len(rows') = Len(rows) + 1
          /\ \A k \in 1 .. Len(rows) : rows'[k] = rows[k]
          /\ rows'[Len(rows) + 1] = [seq |-> nextSeq - 1, event |-> m, prev |-> head.hash,
                                     hash |-> Append(head.hash, m)]
          /\ rows' # <<>> /\ Last(rows') = rows'[Len(rows) + 1]
          /\ head' = [seq |-> nextSeq - 1, hash |-> Append(head.hash, m)]
          /\ nextSeq' = nextSeq /\ corrupt' = corrupt
  BY RowStored
<1>2. Len(rows) \in Nat /\ nextSeq \in Nat
  BY DEF Domains
<1>3. SeqsRise'
  <2>1. ASSUME NEW k \in 1 .. Len(rows') PROVE 0 < rows'[k].seq /\ rows'[k].seq < nextSeq
    <3>1. CASE k <= Len(rows)
      BY <1>1, <1>2, <3>1 DEF RowsOK, SeqsRise
    <3>2. CASE k = Len(rows) + 1
      BY <1>1, <1>2, <3>2
    <3> QED BY <1>1, <1>2, <3>1, <3>2
  <2>2. ASSUME NEW j \in 1 .. Len(rows'), NEW k \in 1 .. Len(rows'), j < k
        PROVE  rows'[j].seq < rows'[k].seq
    <3>1. CASE k <= Len(rows)
      <4>1. j \in 1 .. Len(rows) /\ k \in 1 .. Len(rows)
        BY <1>1, <1>2, <2>2, <3>1
      <4>2. rows[j].seq < rows[k].seq
        BY <2>2, <4>1 DEF RowsOK, SeqsRise
      <4>3. rows'[j] = rows[j] /\ rows'[k] = rows[k]
        BY <1>1, <4>1
      <4> QED BY <4>2, <4>3
    <3>2. CASE k = Len(rows) + 1
      <4>1. j \in 1 .. Len(rows)
        BY <1>1, <1>2, <2>2, <3>2
      <4>2. rows'[j].seq < nextSeq - 1
        BY <1>1, <4>1
      <4>3. rows'[k].seq = nextSeq - 1
        BY <1>1, <3>2
      <4> QED BY <4>2, <4>3
    <3> QED BY <1>1, <1>2, <3>1, <3>2
  <2> QED BY <1>1, <2>1, <2>2 DEF SeqsRise
<1>4. OncePerEvent'
  <2> SUFFICES ASSUME NEW j \in 1 .. Len(rows'), NEW k \in 1 .. Len(rows'),
                      rows'[j].event = rows'[k].event, rows'[j].event # None
               PROVE  j = k
    BY DEF OncePerEvent
  <2>1. \A l \in 1 .. Len(rows) : rows[l].event # m
    BY <1>1 DEF Stored
  <2>2. rows'[Len(rows) + 1].event = m
    BY <1>1
  <2>5. \A l \in 1 .. Len(rows) : rows'[l].event = rows[l].event /\ rows'[l].event # m
    BY <1>1, <2>1
  <2>3. CASE j \in 1 .. Len(rows) /\ k \in 1 .. Len(rows)
    <3>1. rows[j].event = rows[k].event /\ rows[j].event # None
      BY <2>3, <2>5
    <3> QED BY <2>3, <3>1 DEF RowsOK, OncePerEvent
  <2>4. CASE j = Len(rows) + 1 \/ k = Len(rows) + 1
    <3>1. \A l \in 1 .. Len(rows') : l \in 1 .. Len(rows) \/ l = Len(rows) + 1
      BY <1>1, <1>2
    <3>2. rows'[j].event = m /\ rows'[k].event = m
      BY <2>2, <2>4
    <3> QED BY <2>5, <3>1, <3>2
  <2> QED BY <1>1, <1>2, <2>3, <2>4
<1>5. (~corrupt => Intact)'
  <2> SUFFICES ASSUME ~corrupt PROVE Intact'
    BY <1>1
  <2>1. head.hash \in Hashes /\ Len(head.hash) = Len(rows)
    BY DEF Domains, HeadRow, RowsOK, Intact
  <2>2. Len(Append(head.hash, m)) = Len(rows) + 1
    BY <2>1 DEF Hashes
  <2>3. ASSUME NEW k \in 1 .. Len(rows') PROVE rows'[k].event \in Events /\ Len(rows'[k].hash) = k
    <3>1. CASE k <= Len(rows)
      BY <1>1, <1>2, <3>1 DEF RowsOK, Intact
    <3>2. CASE k = Len(rows) + 1
      BY <1>1, <1>2, <2>2, <3>2
    <3> QED BY <1>1, <1>2, <3>1, <3>2
  <2> QED BY <1>1, <2>2, <2>3 DEF Intact
<1>6. ChainUnbroken'
  <2> SUFFICES ASSUME ~corrupt
               PROVE  /\ Linked(rows', Genesis.hash)
                      /\ \A k \in 2 .. Len(rows') : rows'[k - 1].seq < rows'[k].seq
                      /\ head' = [seq |-> Last(rows').seq, hash |-> Last(rows').hash]
    BY <1>1 DEF ChainUnbroken
  <2>1. head.hash = IF Len(rows) = 0 THEN Genesis.hash ELSE rows[Len(rows)].hash
    <3>1. rows = <<>> <=> Len(rows) = 0
      BY EmptySeq DEF Domains
    <3> QED BY <3>1 DEF RowsOK, ChainUnbroken, Last
  <2>2. ASSUME NEW k \in 1 .. Len(rows')
        PROVE  /\ rows'[k].prev = IF k = 1 THEN Genesis.hash ELSE rows'[k - 1].hash
               /\ rows'[k].hash = Append(rows'[k].prev, rows'[k].event)
    <3>1. CASE k <= Len(rows)
      <4>1. /\ rows[k].prev = IF k = 1 THEN Genesis.hash ELSE rows[k - 1].hash
            /\ rows[k].hash = Append(rows[k].prev, rows[k].event)
        BY <1>2, <3>1 DEF RowsOK, ChainUnbroken, Linked
      <4>2. rows'[k] = rows[k] /\ (k # 1 => rows'[k - 1] = rows[k - 1])
        BY <1>1, <1>2, <3>1
      <4> QED BY <4>1, <4>2
    <3>2. CASE k = Len(rows) + 1
      <4>1. k # 1 => rows'[k - 1] = rows[Len(rows)]
        BY <1>1, <1>2, <3>2
      <4>2. k = 1 <=> Len(rows) = 0
        BY <1>2, <3>2
      <4>3. rows'[k].prev = head.hash /\ rows'[k].event = m /\ rows'[k].hash = Append(head.hash, m)
        BY <1>1, <3>2
      <4> QED BY <2>1, <4>1, <4>2, <4>3
    <3> QED BY <1>1, <1>2, <3>1, <3>2
  <2>3. \A k \in 2 .. Len(rows') : rows'[k - 1].seq < rows'[k].seq
    <3>1. \A k \in 2 .. Len(rows') : k \in 1 .. Len(rows') /\ k - 1 \in 1 .. Len(rows') /\ k - 1 < k
      BY <1>1, <1>2
    <3> QED BY <1>3, <3>1 DEF SeqsRise
  <2>4. Last(rows').seq = nextSeq - 1 /\ Last(rows').hash = Append(head.hash, m)
    BY <1>1
  <2> QED BY <1>1, <2>2, <2>3, <2>4 DEF Linked
<1>7. (corrupt => (\E t \in Nat : Altered(t)) \/ (\E g \in Nat : Lost(g)))'
  BY <1>1, DamageStays DEF RowsOK
<1> QED BY <1>3, <1>4, <1>5, <1>6, <1>7 DEF RowsOK

LEMMA StoredVerifierOK ==
    ASSUME AuditInv, NEW i \in Ingestors, Commits(i)
    PROVE  VerifierOK'
<1>1. verifier' = verifier /\ corrupt' = corrupt
  BY DEF Commits
<1>2. ASSUME NEW n \in Nat PROVE ReadUpTo(n) /\ BeforeDamage(n) => (ReadUpTo(n) /\ BeforeDamage(n))'
  BY <1>1, DamageStays DEF BeforeDamage
<1> QED BY <1>1, <1>2 DEF VerifierOK, AuditInv, CorruptionFound

LEMMA StoresStep ==
    ASSUME AuditInv, NEW i \in Ingestors, Commits(i), faults' \in 0 .. MaxFaults,
           consumer' = Handled(i, consumer[i].part) \/ consumer' = AfterError(i)
    PROVE  AuditInv'
<1> USE DEF AuditInv
<1> DEFINE p == consumer[i].part
<1>1. PICK m \in Events \ Malformed :
          /\ m = Following(i, p)
          /\ rows' \in Seq(Row) /\ Len(rows') = Len(rows) + 1
          /\ rows'[Len(rows) + 1] = [seq |-> nextSeq - 1, event |-> m, prev |-> head.hash,
                                     hash |-> Append(head.hash, m)]
          /\ nextSeq > 1
          /\ head' = [seq |-> nextSeq - 1, hash |-> Append(head.hash, m)]
          /\ UNCHANGED <<topic, offset, nextSeq, corrupt, verifier>>
  BY RowStored
<1>2. Holding(i) /\ p \in Partitions /\ consumer[i].at[p] < Len(topic[p])
  BY DEF Commits, Holding, ConsumersOK, HolderOK
<1>3. /\ consumer' \in [Ingestors -> Consumer]
      /\ consumer'[i].step = "idle"
      /\ \A j \in Ingestors \ {i} : consumer'[j] = consumer[j]
  <2> HIDE DEF p
  <2>1. CASE consumer' = Handled(i, p)
    <3>1. /\ Handled(i, p) \in [Ingestors -> Consumer]
          /\ Handled(i, p)[i].step = "idle"
          /\ \A j \in Ingestors \ {i} : Handled(i, p)[j] = consumer[j]
      BY <1>2, HandledTyped
    <3> HIDE DEF AuditInv
    <3> QED BY <2>1, <3>1
  <2>2. CASE consumer' = AfterError(i)
    BY <2>2, GivesUp
  <2> QED BY <2>1, <2>2 DEF p
<1>4. Domains'
  <2>1. head.hash \in Hashes /\ nextSeq - 1 \in Nat
    BY <1>1 DEF Domains, HeadRow
  <2>2. Append(head.hash, m) \in Hashes
    BY <2>1, AppendFacts DEF Hashes
  <2>3. head' \in HeadRow
    BY <1>1, <2>1, <2>2 DEF HeadRow
  <2> QED BY <1>1, <1>3, <2>3 DEF Domains
<1>5. \A e : Stored(e) => Stored(e)'
  BY DamageStays
<1>6. Stored(m)'
  BY <1>1 DEF Stored, Domains
<1>7. WithinTopic(consumer'[i].at) /\ (~corrupt => Chained(consumer[i].at)')
  <2> HIDE DEF p
  <2>1. CASE consumer' = Handled(i, p)
    BY <1>1, <1>2, <1>5, <1>6, <2>1, MovesOn
  <2>2. CASE consumer' = AfterError(i)
    <3>1. consumer'[i].at = consumer[i].at
      BY <2>2, GivesUp
    <3>2. WithinTopic(consumer'[i].at)
      BY <3>1 DEF ConsumersOK
    <3> QED BY <1>1, <1>5, <3>1, <3>2 DEF HandledIsChained, Chained
  <2> QED BY <2>1, <2>2 DEF p
<1>8. ConsumersOK' /\ HandledIsChained'
  <2>1. UNCHANGED topicVars /\ corrupt' = corrupt
    BY <1>1 DEF topicVars
  <2>2. \A j \in Ingestors \ {i} : ~Holding(j)
    BY <1>2 DEF ConsumersOK
  <2> QED BY <1>3, <1>4, <1>5, <1>7, <2>1, <2>2, BecomesIdle
<1> QED BY <1>4, <1>8, StoredRowsOK, StoredVerifierOK

LEMMA FailsStep ==
    ASSUME AuditInv, NEW i \in Ingestors, Fails(i)
    PROVE  AuditInv'
<1>1. consumer' = AfterError(i)
  BY DEF Fails
<1>2. faults' \in 0 .. MaxFaults
  BY AuditAssumption DEF Fails, AuditInv, Domains
<1> QED BY <1>1, <1>2, StoresStep, FailsUnstoredStep DEF Fails

LEMMA CommitStep ==
    ASSUME AuditInv, NEW i \in Ingestors, Commit(i)
    PROVE  AuditInv'
<1>1. faults' \in 0 .. MaxFaults /\ consumer' = Handled(i, consumer[i].part)
  BY DEF Commit, AuditInv, Domains
<1> QED BY <1>1, StoresStep DEF Commit

-----------------------------------------------------------------------------
(* Damage.                                                                 *)

\* A row altered or the last one lost: what is left, and the trace of it.
LEMMA Damage ==
    ASSUME AuditInv, Corrupt
    PROVE  /\ rows' \in Seq(Row) /\ Len(rows') <= Len(rows)
           /\ \A k \in 1 .. Len(rows') : /\ rows'[k].seq = rows[k].seq
                                         /\ rows'[k].event \in {rows[k].event, None}
           /\ (\E t \in Nat : Altered(t)') \/ (\E g \in Nat : Lost(g)')
<1> USE DEF AuditInv
<1>1. rows \in Seq(Row) /\ Len(rows) \in Nat /\ rows # <<>>
  BY DEF Domains, Corrupt
<1>2. Intact /\ ChainUnbroken /\ head' = head /\ ~corrupt
  BY DEF Corrupt, RowsOK
<1>3. ASSUME NEW t \in 1 .. Len(rows), rows' = [rows EXCEPT ![t].event = None]
      PROVE  /\ rows' \in Seq(Row) /\ Len(rows') = Len(rows)
             /\ \A k \in 1 .. Len(rows') : /\ rows'[k].seq = rows[k].seq
                                           /\ rows'[k].event \in {rows[k].event, None}
             /\ Altered(t)'
  <2>1. rows[t] \in Row /\ rows[t].event \in Events /\ rows[t].prev \in Hashes
    BY <1>2, RowTyped DEF Intact, Row
  <2> DEFINE r == [rows[t] EXCEPT !.event = None]
  <2>2. r \in Row /\ r.seq = rows[t].seq /\ r.event = None
        /\ r.hash = rows[t].hash /\ r.prev = rows[t].prev
    BY <2>1 DEF Row
  <2>3. rows' = [rows EXCEPT ![t] = r]
    BY <1>3
  <2> HIDE DEF r
  <2>4. /\ rows' \in Seq(Row) /\ Len(rows') = Len(rows) /\ rows'[t] = r
        /\ \A k \in 1 .. Len(rows) : k # t => rows'[k] = rows[k]
    BY <1>1, <2>2, <2>3, ExceptSeq
  <2>5. rows[t].hash = Append(rows[t].prev, rows[t].event)
    BY <1>2 DEF ChainUnbroken, Linked
  <2>6. Append(rows[t].prev, rows[t].event) # Append(rows[t].prev, None)
    <3>1. rows[t].prev \in Seq(Events \cup {None}) /\ rows[t].event # None
      BY <2>1, AuditAssumption DEF Hashes
    <3>2. rows[t].event \in Events \cup {None} /\ None \in Events \cup {None}
      BY <2>1
    <3> QED BY <3>1, <3>2, AppendInjective
  <2>7. rows'[t].hash # Append(rows'[t].prev, rows'[t].event)
    BY <2>2, <2>4, <2>5, <2>6
  <2> QED BY <1>1, <2>2, <2>4, <2>7 DEF Altered
<1>4. ASSUME rows' = Front(rows)
      PROVE  /\ rows' \in Seq(Row) /\ Len(rows') <= Len(rows)
             /\ \A k \in 1 .. Len(rows') : rows'[k] = rows[k]
             /\ Len(rows') \in Nat /\ Lost(Len(rows))'
  <2>1. /\ rows' \in Seq(Row) /\ Len(rows') = Len(rows) - 1
        /\ \A k \in 1 .. Len(rows) - 1 : rows'[k] = rows[k]
    BY <1>1, <1>4, FrontFacts
  <2>2. Len(rows') \in Nat
    BY <2>1
  <2>3. Lost(Len(rows))'
    BY <1>1, <1>2, <2>1, <2>2 DEF Lost, Intact
  <2> QED BY <1>1, <2>1, <2>2, <2>3
<1>5. CASE \E t \in 1 .. Len(rows) : rows' = [rows EXCEPT ![t].event = None]
  <2>1. PICK t \in 1 .. Len(rows) : rows' = [rows EXCEPT ![t].event = None]
    BY <1>5
  <2>2. t \in Nat
    BY <1>1
  <2>3. /\ rows' \in Seq(Row) /\ Len(rows') = Len(rows)
        /\ \A k \in 1 .. Len(rows') : /\ rows'[k].seq = rows[k].seq
                                      /\ rows'[k].event \in {rows[k].event, None}
        /\ Altered(t)'
    BY <1>3, <2>1
  <2>4. Len(rows') <= Len(rows)
    BY <1>1, <2>3
  <2> QED BY <2>2, <2>3, <2>4
<1>6. CASE rows' = Front(rows)
  <2>1. \E g \in Nat : Lost(g)'
    BY <1>4, <1>6 DEF Lost
  <2> QED BY <1>4, <1>6, <2>1
<1> QED BY <1>5, <1>6 DEF Corrupt

LEMMA CorruptStep ==
    ASSUME AuditInv, Corrupt
    PROVE  AuditInv'
<1> USE DEF AuditInv
<1>1. UNCHANGED <<topic, offset, consumer, head, nextSeq, verifier, faults>>
      /\ ~corrupt /\ corrupt' = TRUE
  BY DEF Corrupt, topicVars
<1>2. /\ rows' \in Seq(Row) /\ Len(rows') \in Nat /\ Len(rows) \in Nat /\ Len(rows') <= Len(rows)
      /\ \A k \in 1 .. Len(rows') : /\ rows'[k].seq = rows[k].seq
                                    /\ rows'[k].event \in {rows[k].event, None}
  BY Damage DEF Domains
<1>3. Domains'
  BY <1>1, <1>2 DEF Domains
<1>4. \A k \in 1 .. Len(rows') : k \in 1 .. Len(rows)
  BY <1>2
<1>5. ConsumersOK'
  <2>1. ASSUME NEW i \in Ingestors PROVE HolderOK(i)'
    <3> SUFFICES ASSUME Holding(i) PROVE HolderOK(i)'
      BY <1>1 DEF HolderOK, Holding
    <3>1. Message(i)' = Message(i) /\ Message(i) \in Events
      BY <1>1, MessageTyped DEF Message, Following
    <3>2. ~Stored(Message(i)) => ~Stored(Message(i))'
      <4>1. Message(i) # None
        BY <3>1, AuditAssumption
      <4> QED BY <1>2, <1>4, <3>1, <4>1 DEF Stored
    <3>3. HolderOK(i)
      BY DEF ConsumersOK
    <3> QED BY <1>1, <1>2, <1>4, <3>1, <3>2, <3>3 DEF HolderOK, Holding
  <2>2. WithinTopic(offset)' /\ \A i \in Ingestors : WithinTopic(consumer[i].at)'
    BY <1>1 DEF WithinTopic, ConsumersOK
  <2> QED BY <1>1, <2>1, <2>2 DEF ConsumersOK, Holding
<1>6. HandledIsChained'
  BY <1>1 DEF HandledIsChained
<1>7. RowsOK'
  <2>1. SeqsRise'
    BY <1>1, <1>2, <1>4 DEF RowsOK, SeqsRise
  <2>2. OncePerEvent'
    BY <1>2, <1>4 DEF RowsOK, OncePerEvent
  <2>3. (~corrupt => Intact)' /\ ChainUnbroken'
    BY <1>1 DEF ChainUnbroken
  <2>4. (corrupt => (\E t \in Nat : Altered(t)) \/ (\E g \in Nat : Lost(g)))'
    BY Damage
  <2> QED BY <2>1, <2>2, <2>3, <2>4 DEF RowsOK
<1>8. VerifierOK'
  BY <1>1 DEF VerifierOK, CorruptionFound
<1> QED BY <1>3, <1>5, <1>6, <1>7, <1>8

-----------------------------------------------------------------------------
(* The verifier.                                                           *)

\* Every non-empty set of natural numbers has the smallest element Min stands for.
LEMMA MinFacts ==
    ASSUME NEW T \in SUBSET Nat, T # {}
    PROVE  Min(T) \in T /\ \A y \in T : Min(T) <= y
<1>1. \E x \in T : \A y \in T : ~(<<y, x>> \in OpToRel(<, Nat))
  BY NatLessThanWellFounded, WFMin
<1>2. \E x \in T : \A y \in T : x <= y
  <2>1. PICK x \in T : \A y \in T : ~(<<y, x>> \in OpToRel(<, Nat))
    BY <1>1
  <2>2. ASSUME NEW y \in T PROVE x <= y
    <3>1. <<y, x>> \in Nat \X Nat /\ ~(<<y, x>> \in OpToRel(<, Nat))
      BY <2>1
    <3>2. ~(y < x)
      BY <3>1 DEF OpToRel
    <3>3. x \in Int /\ y \in Int
      OBVIOUS
    <3> QED BY <3>2, <3>3
  <2> QED BY <2>2
<1> QED BY <1>2 DEF Min

\* A batch is a stretch of the rows that starts with the first unread one.
LEMMA NextBatchFacts ==
    ASSUME Domains, Unread # {}
    PROVE  \E f, l \in 1 .. Len(rows) :
              /\ f = Min(Unread) /\ f \in Unread /\ \A k \in Unread : f <= k
              /\ f <= l
              /\ NextBatch \in Seq(Row) /\ NextBatch # <<>>
              /\ Len(NextBatch) = l - f + 1
              /\ \A k \in 1 .. l - f + 1 : NextBatch[k] = rows[f + k - 1]
              /\ Last(NextBatch) = rows[l]
<1>1. Len(rows) \in Nat /\ rows \in Seq(Row) /\ Batch \in Nat \ {0}
  BY AuditAssumption DEF Domains
<1>2. Unread \in SUBSET Nat /\ Unread \subseteq 1 .. Len(rows)
  BY <1>1 DEF Unread
<1> DEFINE f == Min(Unread)
           l == IF f + Batch > Len(rows) THEN Len(rows) ELSE f + Batch - 1
<1>3. f \in Unread /\ f \in 1 .. Len(rows) /\ \A k \in Unread : f <= k
  BY <1>2, MinFacts
<1>4. l \in 1 .. Len(rows) /\ f <= l
  BY <1>1, <1>3
<1>5. NextBatch = SubSeq(rows, f, l)
  BY DEF NextBatch
<1> HIDE DEF f, l
<1>6. /\ NextBatch \in Seq(Row)
      /\ Len(NextBatch) = l - f + 1
      /\ \A k \in 1 .. l - f + 1 : NextBatch[k] = rows[f + k - 1]
  BY <1>1, <1>3, <1>4, <1>5, SubSeqProperties
<1>7. NextBatch # <<>> /\ Last(NextBatch) = rows[l]
  <2>1. Len(NextBatch) \in Nat /\ Len(NextBatch) > 0
    BY <1>3, <1>4, <1>6
  <2>2. NextBatch # <<>>
    BY <2>1, EmptySeq
  <2>3. NextBatch[Len(NextBatch)] = rows[l]
    BY <1>3, <1>4, <1>6
  <2> QED BY <2>2, <2>3 DEF Last
<1> QED BY <1>3, <1>4, <1>6, <1>7 DEF f

LEMMA FoundTyped ==
    ASSUME verifier \in Verifier, NEW r \in {"ok", "bad"}
    PROVE  Found(r) \in Verifier
<1>1. verifier.since \in BOOLEAN
  BY DEF Verifier
<1>2. NotRunning \in Verifier
  BY DEF NotRunning, Verifier, Hashes
<1>3. \A x \in Verifier, b \in BOOLEAN : [x EXCEPT !.step = r, !.since = b] \in Verifier
  BY DEF Verifier
<1> QED BY <1>1, <1>2, <1>3 DEF Found

LEMMA Untouched ==
    ASSUME AuditInv, UNCHANGED <<topicVars, consumer, storeVars, corrupt, faults>>,
           verifier' \in Verifier
    PROVE  Domains' /\ ConsumersOK' /\ HandledIsChained' /\ RowsOK'
<1> USE DEF AuditInv
<1>1. UNCHANGED <<topic, offset, consumer, rows, head, nextSeq, corrupt, faults>>
  BY DEF topicVars, storeVars
<1>2. Domains'
  BY <1>1 DEF Domains
<1>3. ConsumersOK'
  BY <1>1 DEF ConsumersOK, WithinTopic, HolderOK, Holding, Stored, Message, Following
<1>4. HandledIsChained'
  BY <1>1 DEF HandledIsChained, Chained, Stored
<1> QED BY <1>2, <1>3, <1>4, StoreKept

LEMMA StartVerifyStep ==
    ASSUME AuditInv, StartVerify
    PROVE  AuditInv'
<1> USE DEF AuditInv
<1>1. verifier' = [step |-> "reading", seq |-> 0, hash |-> <<>>, since |-> corrupt]
  BY DEF StartVerify, NotRunning
<1>2. UNCHANGED <<rows, head, corrupt>>
  BY DEF StartVerify, storeVars
<1>3. verifier' \in Verifier
  BY <1>1 DEF Verifier, Hashes, Domains
<1>4. VerifierOK'
  <2>1. ASSUME corrupt PROVE \E n \in Nat : (ReadUpTo(n) /\ BeforeDamage(n))'
    <3>1. ReadUpTo(0)'
      BY <1>1, <1>2 DEF ReadUpTo, Domains
    <3>2. BeforeDamage(0)'
      <4>1. (\E t \in Nat : Altered(t)) \/ (\E g \in Nat : Lost(g))
        BY <2>1 DEF RowsOK
      <4>2. \A t \in Nat : Altered(t) => Altered(t)' /\ 0 < t
        BY <1>2 DEF Altered
      <4>3. \A g \in Nat : Lost(g) => Lost(g)' /\ 0 <= g
        BY <1>2 DEF Lost
      <4>4. verifier'.step = "reading"
        BY <1>1
      <4> QED BY <4>1, <4>2, <4>3, <4>4 DEF BeforeDamage
    <3> QED BY <3>1, <3>2
  <2>2. verifier'.since = corrupt /\ verifier'.step = "reading" /\ corrupt' = corrupt
    BY <1>1, <1>2
  <2> QED BY <2>1, <2>2 DEF VerifierOK, CorruptionFound
<1> QED BY <1>3, <1>4, Untouched DEF StartVerify

LEMMA ReadHeadStep ==
    ASSUME AuditInv, ReadHead
    PROVE  AuditInv'
<1> USE DEF AuditInv
<1>1. verifier \in Verifier /\ verifier.step = "head"
  BY DEF Domains, ReadHead
<1>2. /\ verifier'.step \in {"ok", "bad"} /\ verifier'.since = verifier.since
      /\ verifier'.step = "ok" => HeadMatches
      /\ verifier' \in Verifier
  <2>1. PICK r \in {"ok", "bad"} : (r = "ok" <=> HeadMatches) /\ verifier' = Found(r)
    BY DEF ReadHead
  <2>2. Found(r).step = r /\ Found(r).since = verifier.since
    BY DEF Found, NotRunning
  <2>3. Found(r) \in Verifier
    BY <1>1, FoundTyped
  <2> QED BY <2>1, <2>2, <2>3
<1>3. corrupt' = corrupt
  BY DEF ReadHead
<1>4. ASSUME verifier.since PROVE ~HeadMatches
  <2>1. PICK n \in Nat : ReadUpTo(n) /\ BeforeDamage(n)
    BY <1>1, <1>4 DEF VerifierOK
  <2>2. PICK g \in Nat : Lost(g) /\ n <= g
    BY <1>1, <2>1 DEF BeforeDamage
  <2>3. Len(verifier.hash) = n
    <3>1. CASE n = 0
      BY <2>1, <3>1 DEF ReadUpTo
    <3>2. CASE n > 0
      BY <2>1, <2>2, <3>2 DEF ReadUpTo, Lost
    <3> QED BY <3>1, <3>2
  <2>4. Len(head.hash) = Len(rows) + 1 /\ n <= Len(rows) /\ Len(rows) \in Nat
    BY <2>1, <2>2 DEF ReadUpTo, Lost, Domains
  <2> QED BY <2>3, <2>4 DEF HeadMatches
<1>5. VerifierOK'
  BY <1>2, <1>3, <1>4 DEF VerifierOK, CorruptionFound
<1> QED BY <1>2, <1>5, Untouched DEF ReadHead

\* What is unread after n rows are the rows that follow.
LEMMA UnreadAfter ==
    ASSUME AuditInv, NEW n \in Nat, ReadUpTo(n)
    PROVE  Unread = n + 1 .. Len(rows)
<1>1. Len(rows) \in Nat /\ n \in 0 .. Len(rows)
  BY DEF AuditInv, Domains, ReadUpTo
<1>2. ASSUME NEW k \in 1 .. Len(rows) PROVE rows[k].seq > verifier.seq <=> k > n
  <2>1. rows[k].seq \in Nat /\ rows[k].seq > 0
    BY RowTyped DEF AuditInv, Row, RowsOK, SeqsRise
  <2>2. CASE n = 0
    BY <2>1, <2>2 DEF ReadUpTo
  <2>3. CASE n > 0
    <3>1. n \in 1 .. Len(rows) /\ verifier.seq = rows[n].seq
      BY <1>1, <2>3 DEF ReadUpTo
    <3>2. rows[n].seq \in Nat
      BY <3>1, RowTyped DEF AuditInv, Row
    <3>3. /\ k < n => rows[k].seq < rows[n].seq
          /\ n < k => rows[n].seq < rows[k].seq
      BY <3>1 DEF AuditInv, RowsOK, SeqsRise
    <3>4. k < n \/ k = n \/ n < k
      BY <1>1
    <3> QED BY <2>1, <3>1, <3>2, <3>3, <3>4
  <2> QED BY <1>1, <2>2, <2>3
<1>3. Unread = {k \in 1 .. Len(rows) : k > n}
  BY <1>2 DEF Unread
<1> QED BY <1>1, <1>3

\* A verifier that has not come past the damage does not come past it in one batch:
\* an altered row does not have the hash of its content, and the row after the gap
\* names a hash that is longer than the one before it.
LEMMA StopsAtDamage ==
    ASSUME AuditInv, NEW n \in Nat, ReadUpTo(n), BeforeDamage(n),
           verifier.step = "reading", NextBatch # <<>>, Linked(NextBatch, verifier.hash)
    PROVE  \E l \in 1 .. Len(rows) :
              /\ Last(NextBatch) = rows[l]
              /\ (\E t \in Nat : Altered(t) /\ l < t) \/ (\E g \in Nat : Lost(g) /\ l <= g)
<1> USE DEF AuditInv
<1>1. Len(rows) \in Nat /\ n \in 0 .. Len(rows)
  BY DEF Domains, ReadUpTo
<1>2. Unread = n + 1 .. Len(rows) /\ Unread # {}
  BY UnreadAfter DEF NextBatch
<1>3. PICK f, l \in 1 .. Len(rows) :
          /\ f \in Unread /\ \A k \in Unread : f <= k
          /\ f <= l
          /\ Len(NextBatch) = l - f + 1
          /\ \A k \in 1 .. l - f + 1 : NextBatch[k] = rows[f + k - 1]
          /\ Last(NextBatch) = rows[l]
  BY <1>2, NextBatchFacts
<1>4. f = n + 1
  BY <1>1, <1>2, <1>3
<1>5. ASSUME NEW k \in n + 1 .. l
      PROVE  /\ rows[k].hash = Append(rows[k].prev, rows[k].event)
             /\ rows[k].prev = IF k = n + 1 THEN verifier.hash ELSE rows[k - 1].hash
  <2> DEFINE b == k - n
  <2>1. b \in 1 .. Len(NextBatch) /\ b \in 1 .. l - f + 1 /\ f + b - 1 = k
    BY <1>1, <1>3, <1>4
  <2>2. NextBatch[b] = rows[k]
    BY <1>3, <2>1
  <2>3. b # 1 => b - 1 \in 1 .. l - f + 1 /\ f + (b - 1) - 1 = k - 1
    BY <1>1, <1>3, <1>4, <2>1
  <2>4. b # 1 => NextBatch[b - 1] = rows[k - 1]
    BY <1>3, <2>3
  <2>5. b = 1 <=> k = n + 1
    BY <1>1
  <2>6. /\ NextBatch[b].prev = IF b = 1 THEN verifier.hash ELSE NextBatch[b - 1].hash
        /\ NextBatch[b].hash = Append(NextBatch[b].prev, NextBatch[b].event)
    BY <2>1 DEF Linked
  <2> HIDE DEF b
  <2> QED BY <2>2, <2>4, <2>5, <2>6
<1>6. ASSUME NEW t \in Nat, Altered(t), n < t PROVE l < t
  <2>1. t <= l => t \in n + 1 .. l
    BY <1>1, <1>3, <1>6
  <2> QED BY <1>1, <1>3, <1>5, <1>6, <2>1 DEF Altered
<1>7. ASSUME NEW g \in Nat, Lost(g), n <= g PROVE l <= g
  <2> SUFFICES ASSUME g < l PROVE FALSE
    BY <1>3
  <2>1. g + 1 \in n + 1 .. l /\ g + 1 \in g + 1 .. Len(rows) /\ (g > n => g \in 1 .. g)
    BY <1>1, <1>3, <1>7
  <2>2. Len(rows[g + 1].prev) = g + 1
    BY <1>7, <2>1 DEF Lost
  <2>3. CASE g = n
    <3>1. rows[g + 1].prev = verifier.hash
      BY <1>5, <2>1, <2>3
    <3>2. CASE n = 0
      <4>1. rows[g + 1].prev = <<>>
        BY <3>1, <3>2 DEF ReadUpTo
      <4>2. Len(<<>>) = 0
        OBVIOUS
      <4>3. g + 1 = 1
        BY <2>3, <3>2
      <4> QED BY <2>2, <4>1, <4>2, <4>3
    <3>3. CASE n > 0
      <4>1. Len(rows[n].hash) = n
        BY <1>7, <2>3, <3>3 DEF Lost
      <4>2. verifier.hash = rows[n].hash
        BY <3>3 DEF ReadUpTo
      <4> QED BY <2>2, <2>3, <3>1, <4>1, <4>2
    <3> QED BY <3>2, <3>3
  <2>4. CASE g > n
    <3>1. rows[g + 1].prev = rows[g].hash
      <4>1. g + 1 # n + 1 /\ (g + 1) - 1 = g
        BY <2>4
      <4> QED BY <1>5, <2>1, <4>1
    <3>2. Len(rows[g].hash) = g
      BY <1>7, <2>1, <2>4 DEF Lost
    <3> QED BY <2>2, <3>1, <3>2
  <2> QED BY <1>7, <2>3, <2>4
<1> QED BY <1>3, <1>6, <1>7 DEF BeforeDamage

LEMMA ReadBatchStep ==
    ASSUME AuditInv, ReadBatch
    PROVE  AuditInv'
<1> USE DEF AuditInv
<1>1. verifier \in Verifier /\ verifier.step = "reading"
  BY DEF Domains, ReadBatch
<1>2. UNCHANGED <<rows, head, corrupt>>
  BY DEF ReadBatch, storeVars
<1>3. \A n : BeforeDamage(n)' <=>
          \/ verifier'.step = "reading" /\ \E t \in Nat : Altered(t) /\ n < t
          \/ \E g \in Nat : Lost(g) /\ n <= g
  BY <1>2 DEF BeforeDamage, Altered, Lost
<1>4. CASE NextBatch = <<>>
  <2>1. verifier' = [verifier EXCEPT !.step = "head"]
    BY <1>4 DEF ReadBatch
  <2>2. verifier' \in Verifier
    BY <1>1, <2>1 DEF Verifier
  <2>3. /\ verifier'.step = "head" /\ verifier'.since = verifier.since
        /\ verifier'.seq = verifier.seq /\ verifier'.hash = verifier.hash
    BY <1>1, <2>1 DEF Verifier
  <2>4. ASSUME verifier.since PROVE \E n \in Nat : (ReadUpTo(n) /\ BeforeDamage(n))'
    <3>1. PICK n \in Nat : ReadUpTo(n) /\ BeforeDamage(n)
      BY <1>1, <2>4 DEF VerifierOK
    <3>2. n = Len(rows)
      <4>1. Unread = n + 1 .. Len(rows)
        BY <3>1, UnreadAfter
      <4>2. Unread = {}
        <5>1. Unread # {} => NextBatch # <<>>
          BY NextBatchFacts
        <5> QED BY <1>4, <5>1
      <4> QED BY <3>1, <4>1, <4>2 DEF ReadUpTo
    <3>3. ~\E t \in Nat : Altered(t) /\ n < t
      BY <3>2 DEF Altered, Domains
    <3>4. \E g \in Nat : Lost(g) /\ n <= g
      BY <3>1, <3>3 DEF BeforeDamage
    <3>5. ReadUpTo(n)'
      BY <1>2, <2>3, <3>1 DEF ReadUpTo
    <3> QED BY <1>3, <3>4, <3>5
  <2>5. VerifierOK'
    BY <1>2, <2>3, <2>4 DEF VerifierOK, CorruptionFound
  <2> QED BY <2>2, <2>5, Untouched DEF ReadBatch
<1>5. CASE NextBatch # <<>> /\ Linked(NextBatch, verifier.hash)
  <2>1. verifier' = [verifier EXCEPT !.seq = Last(NextBatch).seq, !.hash = Last(NextBatch).hash]
    BY <1>5 DEF ReadBatch
  <2>2. Last(NextBatch) \in Row
    <3>1. Unread # {}
      BY <1>5 DEF NextBatch
    <3>2. \E l \in 1 .. Len(rows) : Last(NextBatch) = rows[l]
      BY <3>1, NextBatchFacts
    <3> QED BY <3>2, RowTyped
  <2>3. /\ verifier'.step = "reading" /\ verifier'.since = verifier.since
        /\ verifier'.seq = Last(NextBatch).seq /\ verifier'.hash = Last(NextBatch).hash
    BY <1>1, <2>1 DEF Verifier
  <2>4. verifier' \in Verifier
    BY <1>1, <2>1, <2>2 DEF Verifier, Row
  <2>5. ASSUME verifier.since PROVE \E n \in Nat : (ReadUpTo(n) /\ BeforeDamage(n))'
    <3>1. PICK n \in Nat : ReadUpTo(n) /\ BeforeDamage(n)
      BY <1>1, <2>5 DEF VerifierOK
    <3>2. PICK l \in 1 .. Len(rows) :
              /\ Last(NextBatch) = rows[l]
              /\ (\E t \in Nat : Altered(t) /\ l < t) \/ (\E g \in Nat : Lost(g) /\ l <= g)
      BY <1>1, <1>5, <3>1, StopsAtDamage
    <3>3. l \in Nat /\ l > 0 /\ l \in 0 .. Len(rows)
      BY DEF Domains
    <3>4. ReadUpTo(l)'
      BY <1>2, <2>3, <3>2, <3>3 DEF ReadUpTo
    <3>5. BeforeDamage(l)'
      BY <1>3, <2>3, <3>2
    <3> QED BY <3>3, <3>4, <3>5
  <2>6. VerifierOK'
    BY <1>2, <2>3, <2>5 DEF VerifierOK, CorruptionFound
  <2> QED BY <2>4, <2>6, Untouched DEF ReadBatch
<1>6. CASE NextBatch # <<>> /\ ~Linked(NextBatch, verifier.hash)
  <2>1. verifier' = Found("bad")
    BY <1>6 DEF ReadBatch
  <2>2. verifier' \in Verifier
    BY <1>1, <2>1, FoundTyped
  <2>3. verifier'.step = "bad" /\ verifier'.since = verifier.since
    BY <2>1 DEF Found, NotRunning
  <2>4. VerifierOK'
    BY <1>2, <2>3 DEF VerifierOK, CorruptionFound
  <2> QED BY <2>2, <2>4, Untouched DEF ReadBatch
<1> QED BY <1>4, <1>5, <1>6

-----------------------------------------------------------------------------
LEMMA NextAuditInv == AuditInv /\ [Next]_vars => AuditInv'
<1> SUFFICES ASSUME AuditInv, [Next]_vars PROVE AuditInv'
  OBVIOUS
<1>1. CASE UNCHANGED vars
  <2>1. UNCHANGED <<topicVars, consumer, storeVars, corrupt, verifier, faults>>
        /\ verifier \in Verifier
    BY <1>1 DEF vars, AuditInv, Domains
  <2>2. VerifierOK'
    BY <2>1, VerifierKept DEF AuditInv, storeVars
  <2> QED BY <2>1, <2>2, Untouched DEF AuditInv
<1>2. ASSUME NEW e \in Events, NEW p \in Partitions, Emit(e, p) PROVE AuditInv'
  BY <1>2, EmitStep
<1>3. ASSUME NEW i \in Ingestors, Ingest(i) PROVE AuditInv'
  BY <1>3, RejectStep, LockHeadStep, DuplicateStep, InsertEventStep, CommitStep DEF Ingest
<1>4. ASSUME NEW i \in Ingestors, Restart(i) \/ Fails(i) PROVE AuditInv'
  BY <1>4, RestartStep, FailsStep
<1>5. ASSUME NEW i \in Ingestors, NEW p \in Partitions, CommitOffset(i, p) PROVE AuditInv'
  BY <1>5, CommitOffsetStep
<1>6. CASE Corrupt \/ StartVerify \/ ReadBatch \/ ReadHead
  BY <1>6, CorruptStep, StartVerifyStep, ReadBatchStep, ReadHeadStep
<1> QED BY <1>1, <1>2, <1>3, <1>4, <1>5, <1>6 DEF Next

LEMMA AlwaysAuditInv == Spec => []AuditInv
BY InitAuditInv, NextAuditInv, PTL DEF Spec

\* Every variable stays in its domain, and no offset runs ahead of its partition.
THEOREM TypeCorrect == Spec => []TypeOK
<1>1. AuditInv => TypeOK
  <2> SUFFICES ASSUME AuditInv PROVE TypeOK
    OBVIOUS
  <2> USE DEF AuditInv
  <2>1. ASSUME NEW i \in Ingestors
        PROVE  /\ consumer[i].part \in Partitions \cup {None}
               /\ consumer[i].step \in {"idle", "locked", "inserted"}
               /\ consumer[i].prev \in [seq : Nat, hash : Hashes]
               /\ \A p \in Partitions : consumer[i].at[p] \in 0 .. Len(topic[p])
    <3>1. consumer[i] \in Consumer /\ WithinTopic(consumer[i].at)
      BY DEF Domains, ConsumersOK
    <3>2. \A p \in Partitions : consumer[i].at[p] \in Nat /\ Len(topic[p]) \in Nat
      BY <3>1 DEF Consumer, Domains
    <3> QED BY <3>1, <3>2 DEF Consumer, HeadRow, WithinTopic
  <2>2. ASSUME NEW k \in 1 .. Len(rows)
        PROVE  rows[k] \in [seq : 1 .. nextSeq - 1, event : Events \cup {None},
                            prev : Hashes, hash : Hashes]
    <3>1. rows[k] \in Row /\ 0 < rows[k].seq /\ rows[k].seq < nextSeq /\ nextSeq \in Nat
      BY RowTyped DEF RowsOK, SeqsRise, Domains
    <3>2. rows[k].seq \in 1 .. nextSeq - 1
      BY <3>1 DEF Row
    <3> QED BY <3>1, <3>2 DEF Row
  <2> QED BY <2>1, <2>2 DEF TypeOK, Domains, HeadRow, Verifier
<1> QED BY <1>1, AlwaysAuditInv, PTL

\* Until a stored row is changed or lost the rows are one chain from the genesis hash
\* to the head: appends under the head's lock never fork it, whoever crashes and
\* whichever COMMIT goes unheard.
THEOREM ChainUnbrokenHolds == Spec => []ChainUnbroken
<1>1. AuditInv => ChainUnbroken
  BY DEF AuditInv, RowsOK
<1> QED BY <1>1, AlwaysAuditInv, PTL

\* An event is chained at most once, however often it is delivered.
THEOREM OncePerEventHolds == Spec => []OncePerEvent
<1>1. AuditInv => OncePerEvent
  BY DEF AuditInv, RowsOK
<1> QED BY <1>1, AlwaysAuditInv, PTL

\* A committed offset leaves no well-formed message before it unchained.
THEOREM NothingSkippedHolds == Spec => []NothingSkipped
<1>1. AuditInv => NothingSkipped
  BY DEF AuditInv, HandledIsChained, Chained, Stored, NothingSkipped
<1> QED BY <1>1, AlwaysAuditInv, PTL

\* No run of the verifier that starts after the damage finds the chain intact, for
\* any size of its batches and whatever is appended while it reads.
THEOREM CorruptionFoundHolds == Spec => []CorruptionFound
<1>1. AuditInv => CorruptionFound
  BY DEF AuditInv, VerifierOK
<1> QED BY <1>1, AlwaysAuditInv, PTL
=============================================================================
