---------------------------- MODULE MessageStore ----------------------------
(***************************************************************************)
(* A message table keyed by (id, sequence) and a table of positions        *)
(* derived from it, both in one SQLite database behind one connection.     *)
(* savedMessages and savedPositions are what is committed; messages and    *)
(* positions are what the connection sees inside its open transaction.     *)
(* The actions are those of ingest_stream, which is the same code for      *)
(* fills (pipeline/ingest.py) and for deals (pipeline/commodity_ingest.py).*)
(***************************************************************************)
EXTENDS Integers, Sequences, FiniteSets, SqlNull

CONSTANTS
  Messages,   \* the messages a producer may send
  Streams,    \* the lists of messages one ingest_stream call may be given
  Required    \* the columns declared NOT NULL

ASSUME StreamsAssumption == Streams \subseteq Seq(Messages)

VARIABLES
  savedMessages, savedPositions,
  messages, positions,
  pc,         \* which function is running, "idle" between calls
  stream, i,  \* the list being ingested and the enumerate() index into it
  accepted, duplicates

tables == <<savedMessages, savedPositions, messages, positions>>
batch == <<stream, i, accepted, duplicates>>

Row == [msg : Messages, received_at : Nat]

Payloads(rows) == {r.msg : r \in rows}

SameKey(m, n) == m.id = n.id /\ m.sequence = n.sequence

Storable(m) == \A c \in Required : m[c] # NoValue

\* Faulty: no primary key.
RejectedIfIncomplete(m) == ~Storable(m)

\* Faulty: the key is the id alone.
RejectedById(m) == (\E r \in messages : r.msg.id = m.id) \/ ~Storable(m)

\* Faulty: the key is the sequence number alone.
RejectedBySequence(m) ==
  (\E r \in messages : r.msg.sequence = m.sequence) \/ ~Storable(m)

\* What makes sqlite3 raise IntegrityError: the key is taken, or a NOT NULL
\* column would be left empty.
Rejected(m) == (\E r \in messages : SameKey(r.msg, m)) \/ ~Storable(m)

EndBatch == stream' = << >> /\ i' = 0 /\ accepted' = 0 /\ duplicates' = 0

StoreInit ==
  /\ savedMessages = {} /\ savedPositions = {}
  /\ messages = {} /\ positions = {}
  /\ pc = "idle"
  /\ stream = << >> /\ i = 0 /\ accepted = 0 /\ duplicates = 0

\* db.connect(":memory:"): the schema's tables, empty.
ConnectInMemory ==
  /\ pc = "idle"
  /\ savedMessages' = {} /\ savedPositions' = {}
  /\ messages' = {} /\ positions' = {}
  /\ UNCHANGED <<pc, batch>>

BeginStream(list) ==
  /\ pc = "idle"
  /\ pc' = "ingest"
  /\ stream' = list
  /\ i' = 0 /\ accepted' = 0 /\ duplicates' = 0
  /\ UNCHANGED tables

\* One turn of the loop whose INSERT succeeds: received_at is the index of
\* the message in this call's list.
AcceptMessage ==
  /\ pc = "ingest" /\ i < Len(stream)
  /\ ~Rejected(stream[i + 1])
  /\ messages' = messages \cup {[msg |-> stream[i + 1], received_at |-> i]}
  /\ accepted' = accepted + 1
  /\ i' = i + 1
  /\ UNCHANGED <<savedMessages, savedPositions, positions, pc, stream, duplicates>>

\* Faulty: a duplicate is counted as accepted.
CountDuplicateAccepted ==
  /\ pc = "ingest" /\ i < Len(stream)
  /\ Rejected(stream[i + 1])
  /\ accepted' = accepted + 1
  /\ i' = i + 1
  /\ UNCHANGED <<tables, pc, stream, duplicates>>

\* Faulty: INSERT OR REPLACE.
ReplaceMessage ==
  /\ pc = "ingest" /\ i < Len(stream)
  /\ Rejected(stream[i + 1])
  /\ messages' = {r \in messages : ~SameKey(r.msg, stream[i + 1])}
                 \cup {r \in {[msg |-> stream[i + 1], received_at |-> i]} : Storable(r.msg)}
  /\ duplicates' = duplicates + 1
  /\ i' = i + 1
  /\ UNCHANGED <<savedMessages, savedPositions, positions, pc, stream, accepted>>

\* One turn of the loop that ends in `except sqlite3.IntegrityError`.
RejectMessage ==
  /\ pc = "ingest" /\ i < Len(stream)
  /\ Rejected(stream[i + 1])
  /\ duplicates' = duplicates + 1
  /\ i' = i + 1
  /\ UNCHANGED <<tables, pc, stream, accepted>>

Commit == savedMessages' = messages /\ savedPositions' = positions

CommitStream ==
  /\ pc = "ingest" /\ i = Len(stream)
  /\ Commit
  /\ pc' = "idle"
  /\ EndBatch
  /\ UNCHANGED <<messages, positions>>

\* Faulty: the open transaction survives.
RestartUncommitted ==
  /\ pc # "idle"
  /\ pc' = "idle"
  /\ EndBatch
  /\ UNCHANGED tables

\* The process dies (or an exception no caller catches ends it) with the
\* transaction open; the next one connects to the same database file and
\* sees what was committed.
Restart ==
  /\ pc # "idle"
  /\ messages' = savedMessages /\ positions' = savedPositions
  /\ pc' = "idle"
  /\ EndBatch
  /\ UNCHANGED <<savedMessages, savedPositions>>
=============================================================================
