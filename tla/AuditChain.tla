----------------------------- MODULE AuditChain -----------------------------
(***************************************************************************)
(* The audit trail: every service sends its events to a topic, the audit   *)
(* service appends each to a table whose rows are chained by hashes, and a *)
(* verifier recomputes the chain from its first row.                       *)
(*                                                                         *)
(* The topic delivers at least once: a message whose offset was not        *)
(* committed is delivered again after a crash, and to another consumer     *)
(* while the first still works on it.  An append is one transaction under  *)
(* the lock of the single head row, and its COMMIT may succeed unseen.     *)
(* The verifier reads batch after batch, and the head last, each in a      *)
(* snapshot of its own.                                                    *)
(*                                                                         *)
(* Abstracted: an event is its id; the hash of a row is the sequence of    *)
(* everything hashed into it, which is what a hash without collisions      *)
(* stands for; the sequence column, of which only the order matters, is    *)
(* kept with its gaps.                                                     *)
(***************************************************************************)
EXTENDS Integers, Sequences, SequencesExt

CONSTANTS
    Events,         \* ids of events the services emit
    Malformed,      \* those of them the ingestor's schema rejects
    Partitions,     \* partitions of the topic
    Ingestors,      \* consumers of the group
    None,           \* stands for no event, partition or consumer
    Batch,          \* rows the verifier reads at a time
    MaxCopies,      \* bound: times a producer sends the same event
    MaxFaults       \* bound: failures of an append or of a consumer

ASSUME AuditAssumption ==
    /\ Malformed \subseteq Events
    /\ None \notin Events \cup Partitions \cup Ingestors
    /\ Batch \in Nat \ {0}
    /\ MaxCopies \in Nat
    /\ MaxFaults \in Nat

VARIABLES
    topic,          \* per partition the messages in it
    offset,         \* per partition the committed offset of the consumer group
    consumer,       \* where each consumer is, and the message it works on
    rows,           \* audit_events, in the order of seq
    head,           \* audit_chain_head
    nextSeq,        \* the identity column's next value
    corrupt,        \* a stored row was changed or lost since it was appended
    verifier,       \* a run of the verifier
    faults

topicVars == <<topic, offset>>
storeVars == <<rows, head, nextSeq>>
vars == <<topicVars, consumer, storeVars, corrupt, verifier, faults>>

Genesis == [seq |-> 0, hash |-> <<>>]

\* at: per partition the last offset handled; part: the partition of the message
\* the consumer holds the head row for; prev: the head as read under that lock.
Restarted(at) == [at |-> at, part |-> None, step |-> "idle", prev |-> Genesis]

NotRunning == [step |-> "idle", seq |-> 0, hash |-> <<>>, since |-> FALSE]

Init ==
    /\ topic = [p \in Partitions |-> <<>>]
    /\ offset = [p \in Partitions |-> 0]
    /\ consumer = [i \in Ingestors |-> Restarted(offset)]
    /\ rows = <<>>
    /\ head = Genesis
    /\ nextSeq = 1
    /\ corrupt = FALSE
    /\ verifier = NotRunning
    /\ faults = 0

-----------------------------------------------------------------------------
(* The topic.                                                              *)

\* An emitter sends an event, again if it did not hear that it was stored; its
\* key, and so its partition, stays the same.
Emit(e, p) ==
    /\ Len(SelectSeq(topic[p], LAMBDA x : x = e)) < MaxCopies
    /\ \A other \in Partitions \ {p} : ~Contains(topic[other], e)
    /\ topic' = [topic EXCEPT ![p] = Append(@, e)]
    /\ UNCHANGED <<offset, consumer, storeVars, corrupt, verifier, faults>>

Holding(i) == consumer[i].step # "idle"

\* A consumer dies, or loses its partitions and gets some again: it starts after
\* the committed offsets.
Restart(i) ==
    /\ consumer[i] # Restarted(offset)
    /\ faults < MaxFaults
    /\ faults' = faults + 1
    /\ consumer' = [consumer EXCEPT ![i] = Restarted(offset)]
    /\ UNCHANGED <<topicVars, storeVars, corrupt, verifier>>

CommitOffset(i, p) ==
    /\ offset[p] < consumer[i].at[p]
    /\ offset' = [offset EXCEPT ![p] = consumer[i].at[p]]
    /\ UNCHANGED <<topic, consumer, storeVars, corrupt, verifier, faults>>

-----------------------------------------------------------------------------
(* ingest.                                                                 *)

\* The consumer is sent the next message of a partition.
Sent(i, p) == ~Holding(i) /\ consumer[i].at[p] < Len(topic[p])

Following(i, p) == topic[p][consumer[i].at[p] + 1]

\* The message in hand.
Message(i) == Following(i, consumer[i].part)

Handled(i, p) == [consumer EXCEPT ![i] = Restarted([consumer[i].at EXCEPT ![p] = @ + 1])]

RejectsNothing(e) == FALSE

Rejects(e) == e \in Malformed

Reject(i, p) ==
    /\ Sent(i, p)
    /\ Rejects(Following(i, p))
    /\ consumer' = Handled(i, p)
    /\ UNCHANGED <<topicVars, storeVars, corrupt, verifier, faults>>

HeadFreeAlways == TRUE

\* SELECT ... FOR UPDATE of the head row waits for whoever holds it.
HeadFree == \A i \in Ingestors : ~Holding(i)

LockHead(i, p) ==
    /\ Sent(i, p)
    /\ Following(i, p) \notin Malformed
    /\ HeadFree
    /\ consumer' = [consumer EXCEPT ![i].part = p, ![i].step = "locked", ![i].prev = head]
    /\ UNCHANGED <<topicVars, storeVars, corrupt, verifier, faults>>

StoredLast(e) == rows # <<>> /\ Last(rows).event = e

Stored(e) == \E k \in 1 .. Len(rows) : rows[k].event = e

Duplicate(i) ==
    /\ consumer[i].step = "locked"
    /\ Stored(Message(i))
    /\ consumer' = Handled(i, consumer[i].part)
    /\ UNCHANGED <<topicVars, storeVars, corrupt, verifier, faults>>

\* INSERT: the sequence value is spent even if the transaction is not committed.
InsertEvent(i) ==
    /\ consumer[i].step = "locked"
    /\ ~Stored(Message(i))
    /\ nextSeq' = nextSeq + 1
    /\ consumer' = [consumer EXCEPT ![i].step = "inserted"]
    /\ UNCHANGED <<topicVars, rows, head, corrupt, verifier, faults>>

NewRow(i) ==
    [seq |-> nextSeq - 1, event |-> Message(i), prev |-> consumer[i].prev.hash,
     hash |-> Append(consumer[i].prev.hash, Message(i))]

Commits(i) ==
    /\ consumer[i].step = "inserted"
    /\ rows' = Append(rows, NewRow(i))
    /\ head' = [seq |-> NewRow(i).seq, hash |-> NewRow(i).hash]
    /\ UNCHANGED <<topicVars, nextSeq, corrupt, verifier>>

Commit(i) ==
    /\ Commits(i)
    /\ consumer' = Handled(i, consumer[i].part)
    /\ UNCHANGED faults

AfterErrorMovesOn(i) == Handled(i, consumer[i].part)

\* The error is thrown on: the same message is delivered again.
AfterError(i) == [consumer EXCEPT ![i] = Restarted(consumer[i].at)]

\* Any statement fails, or a COMMIT takes effect and its answer is lost.
Fails(i) ==
    /\ Holding(i)
    /\ faults < MaxFaults
    /\ faults' = faults + 1
    /\ consumer' = AfterError(i)
    /\ \/ Commits(i)
       \/ UNCHANGED <<topicVars, storeVars, corrupt, verifier>>

-----------------------------------------------------------------------------
(* verify.                                                                 *)

\* A stored row is altered or rows at the end are lost, past the grants that
\* make the table append-only.
Corrupt ==
    /\ rows # <<>>
    /\ ~corrupt
    /\ corrupt' = TRUE
    /\ \/ \E k \in 1 .. Len(rows) : rows' = [rows EXCEPT ![k].event = None]
       \/ rows' = Front(rows)
    /\ UNCHANGED <<topicVars, consumer, head, nextSeq, verifier, faults>>

\* One run, from any state; a later run is another start.
StartVerify ==
    /\ verifier.step = "idle"
    /\ verifier' = [NotRunning EXCEPT !.step = "reading", !.since = corrupt]
    /\ UNCHANGED <<topicVars, consumer, storeVars, corrupt, faults>>

\* Positions of the rows after the last one read.
Unread == {k \in 1 .. Len(rows) : rows[k].seq > verifier.seq}

NextBatch ==
    LET first == Min(Unread)
    IN  IF Unread = {} THEN <<>>
        ELSE SubSeq(rows, first, IF first + Batch > Len(rows) THEN Len(rows)
                                 ELSE first + Batch - 1)

\* Each row names the hash of the one before it, and its own is recomputed from
\* its content.
Linked(batch, running) ==
    \A k \in 1 .. Len(batch) :
        /\ batch[k].prev = IF k = 1 THEN running ELSE batch[k - 1].hash
        /\ batch[k].hash = Append(batch[k].prev, batch[k].event)

Found(result) == [NotRunning EXCEPT !.step = result, !.since = verifier.since]

ReadBatch ==
    /\ verifier.step = "reading"
    /\ verifier' =
          IF NextBatch = <<>> THEN [verifier EXCEPT !.step = "head"]
          ELSE IF Linked(NextBatch, verifier.hash)
          THEN [verifier EXCEPT !.seq = Last(NextBatch).seq, !.hash = Last(NextBatch).hash]
          ELSE Found("bad")
    /\ UNCHANGED <<topicVars, consumer, storeVars, corrupt, faults>>

HeadNotBehind == verifier.seq <= head.seq

HeadMatches == head = [seq |-> verifier.seq, hash |-> verifier.hash]

ReadHead ==
    /\ verifier.step = "head"
    /\ verifier' = Found(IF HeadMatches THEN "ok" ELSE "bad")
    /\ UNCHANGED <<topicVars, consumer, storeVars, corrupt, faults>>

-----------------------------------------------------------------------------
Ingest(i) ==
    \/ \E p \in Partitions : Reject(i, p) \/ LockHead(i, p)
    \/ Duplicate(i) \/ InsertEvent(i) \/ Commit(i)

Next ==
    \/ \E e \in Events, p \in Partitions : Emit(e, p)
    \/ \E i \in Ingestors :
          \/ Ingest(i) \/ Restart(i) \/ Fails(i)
          \/ \E p \in Partitions : CommitOffset(i, p)
    \/ Corrupt \/ StartVerify \/ ReadBatch \/ ReadHead

\* A consumer keeps working on what it was sent, and one that crashed is
\* restarted; the bounds leave finitely many messages to wait behind for the head.
Fairness == \A i \in Ingestors : WF_vars(Ingest(i))

Spec == Init /\ [][Next]_vars /\ Fairness

-----------------------------------------------------------------------------
(* Properties.                                                             *)

Hashes == Seq(Events \cup {None})

\* Every variable stays in its domain; nobody has handled a message that is not
\* in the topic.
TypeOK ==
    /\ topic \in [Partitions -> Seq(Events)]
    /\ offset \in [Partitions -> Nat]
    /\ \A i \in Ingestors :
          /\ consumer[i].part \in Partitions \cup {None}
          /\ consumer[i].step \in {"idle", "locked", "inserted"}
          /\ consumer[i].prev \in [seq : Nat, hash : Hashes]
          /\ \A p \in Partitions : consumer[i].at[p] \in 0 .. Len(topic[p])
    /\ \A k \in 1 .. Len(rows) :
          rows[k] \in [seq : 1 .. nextSeq - 1, event : Events \cup {None},
                       prev : Hashes, hash : Hashes]
    /\ head \in [seq : Nat, hash : Hashes]
    /\ corrupt \in BOOLEAN
    /\ verifier \in [step : {"idle", "reading", "head", "ok", "bad"}, seq : Nat,
                     hash : Hashes, since : BOOLEAN]
    /\ faults \in 0 .. MaxFaults

\* As stored by the ingestors, the rows are one chain from the genesis hash to the
\* head, with rising sequence numbers: it never forks, whoever appends and
\* whatever fails.
ChainUnbroken ==
    ~corrupt =>
        /\ Linked(rows, Genesis.hash)
        /\ \A k \in 2 .. Len(rows) : rows[k - 1].seq < rows[k].seq
        /\ head = IF rows = <<>> THEN Genesis
                  ELSE [seq |-> Last(rows).seq, hash |-> Last(rows).hash]

\* An event delivered again, also after a COMMIT nobody heard of, is not chained
\* a second time.
OncePerEvent ==
    \A j, k \in 1 .. Len(rows) :
        rows[j].event = rows[k].event /\ rows[j].event # None => j = k

\* A message the group has moved past is in the chain, unless it was malformed.
NothingSkipped ==
    ~corrupt =>
        \A p \in Partitions : \A k \in 1 .. offset[p] :
            topic[p][k] \in Malformed \/ \E j \in 1 .. Len(rows) : rows[j].event = topic[p][k]

\* A verifier started after a stored row was changed or lost does not find the
\* chain intact, whatever is appended meanwhile.
CorruptionFound == ~(verifier.step = "ok" /\ verifier.since)

\* Every well-formed event that reached the topic is chained in the end; one that
\* is malformed does not hold up the others.
EventuallyChained ==
    \A e \in Events \ Malformed :
        (\E p \in Partitions : Contains(topic[p], e)) ~> (Stored(e) \/ corrupt)

-----------------------------------------------------------------------------
(* A claim of the source that the code does not keep.                      *)

\* verify-cli: "Exit code 0 = chain intact, 1 = tampering/corruption detected".
SoundChainVerifies == verifier.step = "bad" => corrupt
=============================================================================
