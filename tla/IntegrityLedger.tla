--------------------------- MODULE IntegrityLedger --------------------------
(***************************************************************************)
(* The hash chain of audit events, evidence files and breach decisions:    *)
(* handlers append to it inside their own transactions, verification runs  *)
(* walk it, and rows of other tables are locked around it.                 *)
(*                                                                         *)
(* A record hash covers the record and the hash before it, so it is        *)
(* modelled as the sequence of all items hashed so far; items stand for    *)
(* record type, id and content hash.  PostgreSQL locks are held from their *)
(* statement to the end of the transaction.                                *)
(***************************************************************************)
EXTENDS Naturals, Sequences, FiniteSets

CONSTANTS
    Txns,     \* request transactions
    Item,     \* contents that can be recorded
    Rows,     \* rows of other tables that handlers lock
    Plans,    \* orders in which a transaction takes its locks
    Scope,    \* the incident an item belongs to
    Scopes,   \* scopes a verification is asked for, "global" among them
    MaxDamage \* records lost or protected contents altered behind the ledger

VARIABLES
    records,  \* committed ledger records
    head,     \* the committed head row
    txn,      \* open transactions: locks held and still wanted, uncommitted rows
    altered,  \* items whose protected content no longer is what was hashed
    lost,     \* number of records that disappeared
    stamp,    \* verification_status of the newest record of an item
    run,      \* the newest verification run
    alerts    \* integrity alerts, by failure fingerprint

vars == <<records, head, txn, altered, lost, stamp, run, alerts>>

Ledger == "ledger"
Locks == Rows \cup {Ledger}
Hash == Seq(Item)
GENESIS_HASH == <<>>
Record == [seq : Nat \ {0}, item : Item, prev : Hash, hash : Hash]
HeadRow == [seq : Nat, hash : Hash]
Stamp == {"not_yet_verified", "verified", "verification_failed"}
Closed == [plan |-> <<>>, held |-> {}, mine |-> {}, head |-> [seq |-> 0, hash |-> <<>>],
           open |-> FALSE]

ASSUME LedgerIsNoRow == Ledger \notin Rows
ASSUME PlansAreLocks == Plans \subseteq Seq(Locks) /\ Scope \in [Item -> Scopes]

\* Rows, transactions and runs have the shape of models/integrity_ledger.py.
TypeOK ==
    /\ records \subseteq Record
    /\ head \in HeadRow
    /\ txn \in [Txns -> [plan : Seq(Locks), held : SUBSET Locks, mine : SUBSET Record,
                         head : HeadRow, open : BOOLEAN]]
    /\ altered \subseteq Item
    /\ lost \in Nat
    /\ stamp \in [Item -> Stamp]
    /\ run \in [valid : BOOLEAN, scope : Scopes \cup {"none"}, head : Nat]
    /\ alerts \subseteq [head : Nat, mismatches : Nat, missing : Nat, links : Nat]

\* Migration 015 inserts the head row.
Init ==
    /\ records = {}
    /\ head = [seq |-> 0, hash |-> GENESIS_HASH]
    /\ txn = [t \in Txns |-> Closed]
    /\ altered = {} /\ lost = 0
    /\ stamp = [i \in Item |-> "not_yet_verified"]
    /\ run = [valid |-> TRUE, scope |-> "none", head |-> 0]
    /\ alerts = {}

-----------------------------------------------------------------------------
(* Transactions and their locks *)

\* Fault: the advisory lock and the FOR UPDATE on the head are left out.
FreeRowsOnly(t, l) == l = Ledger \/ \A u \in Txns \ {t} : l \notin txn[u].held

Free(t, l) == \A u \in Txns \ {t} : l \notin txn[u].held

Begin(t, plan) ==
    /\ ~ txn[t].open
    /\ txn' = [txn EXCEPT ![t] = [Closed EXCEPT !.plan = plan, !.open = TRUE]]
    /\ UNCHANGED <<records, head, altered, lost, stamp, run, alerts>>

\* The lock its next statement takes; with the ledger's, the head row is read.  A
\* transaction that has the ledger reads its own head row.
Lock(t) ==
    /\ txn[t].plan # <<>>
    /\ Free(t, Head(txn[t].plan))
    /\ LET l == Head(txn[t].plan)
           first == l = Ledger /\ l \notin txn[t].held
       IN  txn' = [txn EXCEPT ![t].plan = Tail(@),
                              ![t].held = @ \cup {l},
                              ![t].head = IF first THEN head ELSE @]
    /\ UNCHANGED <<records, head, altered, lost, stamp, run, alerts>>

\* Fault: the record is chained to the committed head, not to the transaction's own.
AppendToCommitted(t, i) ==
    LET r == [seq |-> head.seq + 1, item |-> i, prev |-> head.hash,
              hash |-> Append(head.hash, i)]
    IN  /\ txn[t].open /\ Ledger \in txn[t].held
        /\ \A q \in records \cup txn[t].mine : q.item # i
        /\ txn' = [txn EXCEPT ![t].mine = @ \cup {r},
                              ![t].head = [seq |-> r.seq, hash |-> r.hash]]
        /\ UNCHANGED <<records, head, altered, lost, stamp, run, alerts>>

\* append_record; a content already recorded is answered with its record.
AppendRecord(t, i) ==
    LET r == [seq |-> txn[t].head.seq + 1, item |-> i, prev |-> txn[t].head.hash,
              hash |-> Append(txn[t].head.hash, i)]
    IN  /\ txn[t].open /\ Ledger \in txn[t].held
        /\ \A q \in records \cup txn[t].mine : q.item # i
        /\ txn' = [txn EXCEPT ![t].mine = @ \cup {r},
                              ![t].head = [seq |-> r.seq, hash |-> r.hash]]
        /\ UNCHANGED <<records, head, altered, lost, stamp, run, alerts>>

\* Fault: the ledger's lock belongs to the pooled connection, not to the transaction.
CommitKeepingLock(t) ==
    /\ txn[t].open /\ txn[t].plan = <<>>
    /\ records' = records \cup txn[t].mine
    /\ head' = IF txn[t].mine = {} THEN head ELSE txn[t].head
    /\ txn' = [txn EXCEPT ![t] = [Closed EXCEPT !.held = txn[t].held \cap {Ledger}]]
    /\ UNCHANGED <<altered, lost, stamp, run, alerts>>

Commit(t) ==
    /\ txn[t].open /\ txn[t].plan = <<>>
    /\ records' = records \cup txn[t].mine
    /\ head' = IF txn[t].mine = {} THEN head ELSE txn[t].head
    /\ stamp' = [i \in Item |-> IF \E r \in txn[t].mine : r.item = i
                                THEN "not_yet_verified" ELSE stamp[i]]
    /\ txn' = [txn EXCEPT ![t] = Closed]
    /\ UNCHANGED <<altered, lost, run, alerts>>

\* An error, a dropped connection or the death of the process rolls it back.
Abort(t) ==
    /\ txn[t].open
    /\ txn' = [txn EXCEPT ![t] = Closed]
    /\ UNCHANGED <<records, head, altered, lost, stamp, run, alerts>>

\* Two transactions wait for each other: the database aborts one (external).
Waits(t, u) == txn[t].plan # <<>> /\ Head(txn[t].plan) \in txn[u].held
DeadlockAbort(t) ==
    /\ \E u \in Txns \ {t} : Waits(t, u) /\ Waits(u, t)
    /\ Abort(t)

-----------------------------------------------------------------------------
(* Verification *)

\* The record before r in the order of the sequence numbers, as its hash.
HashBefore(r) ==
    LET before == {q \in records : q.seq < r.seq}
    IN  IF before = {} THEN GENESIS_HASH
        ELSE (CHOOSE q \in before : \A p \in before : p.seq <= q.seq).hash

LastSeq == IF records = {} THEN 0
           ELSE (CHOOSE q \in records : \A p \in records : p.seq <= q.seq).seq
LastHash == IF records = {} THEN GENESIS_HASH
            ELSE (CHOOSE q \in records : \A p \in records : p.seq <= q.seq).hash

\* verify_chain over every record, against the head.
Mismatches == Cardinality({r \in records : r.item \in altered})
Missing == head.seq - Cardinality(records)
InvalidLinks ==
    Cardinality({r \in records : r.prev # HashBefore(r) \/ r.hash # Append(r.prev, r.item)})
        + (IF LastSeq > head.seq THEN 1 ELSE 0) + (IF LastHash # head.hash THEN 1 ELSE 0)
\* Fault: the chain is not compared with the head.
ChainValidNoHead ==
    Mismatches = 0 /\ \A r \in records : r.prev = HashBefore(r)
ChainValid == Mismatches = 0 /\ Missing = 0 /\ InvalidLinks = 0
Failure == [head |-> head.seq, mismatches |-> Mismatches, missing |-> Missing,
            links |-> InvalidLinks]

\* verify_ledger, under the ledger's lock; exports ask for it and stop when it fails.
Verify(t, scope) ==
    /\ Ledger \in txn[t].held /\ txn[t].plan = <<>> /\ txn[t].mine = {}
    /\ run' = [valid |-> ChainValid, scope |-> scope, head |-> head.seq]
    /\ stamp' = [i \in Item |->
                    IF /\ \E r \in records : r.item = i
                       /\ scope \in {"global", Scope[i]}
                    THEN IF ChainValid THEN "verified" ELSE "verification_failed"
                    ELSE stamp[i]]
    /\ alerts' = IF ChainValid THEN alerts ELSE alerts \cup {Failure}
    /\ txn' = [txn EXCEPT ![t] = Closed]
    /\ UNCHANGED <<records, head, altered, lost>>

-----------------------------------------------------------------------------
(* Damage behind the ledger: what verification is there to find *)

Damage == lost + Cardinality(altered)

LoseRecord(r) ==
    /\ Damage < MaxDamage
    /\ records' = records \ {r}
    /\ lost' = lost + 1
    /\ UNCHANGED <<head, txn, altered, stamp, run, alerts>>

AlterContent(i) ==
    /\ Damage < MaxDamage
    /\ i \notin altered
    /\ \E r \in records : r.item = i
    /\ altered' = altered \cup {i}
    /\ UNCHANGED <<records, head, txn, lost, stamp, run, alerts>>

-----------------------------------------------------------------------------
Proceed(t) == Lock(t) \/ Commit(t)

Next ==
    \/ \E t \in Txns :
          \/ \E plan \in Plans : Begin(t, plan)
          \/ Lock(t) \/ Commit(t) \/ Abort(t) \/ DeadlockAbort(t)
          \/ \E i \in Item : AppendRecord(t, i)
          \/ \E scope \in Scopes : Verify(t, scope)
    \/ \E r \in records : LoseRecord(r)
    \/ \E i \in Item : AlterContent(i)

\* A handler runs its statements to the commit, and the database breaks deadlocks.
Fairness == \A t \in Txns : SF_vars(Proceed(t)) /\ WF_vars(DeadlockAbort(t))

Spec == Init /\ [][Next]_vars /\ Fairness

-----------------------------------------------------------------------------
(* Safety *)

\* Every record tells the whole history before it: record n was hashed over exactly the
\* first n items of the head's history, whichever transactions wrote them and whatever
\* was rolled back or lost in between.
ChainIsHistory ==
    /\ Len(head.hash) = head.seq
    /\ \A r \in records :
          /\ r.seq <= head.seq
          /\ r.hash = SubSeq(head.hash, 1, r.seq)
          /\ r.prev = SubSeq(head.hash, 1, r.seq - 1)
          /\ r.item = head.hash[r.seq]

\* Two requests never take the same sequence number or record the same content twice,
\* committed or about to be: the unique constraints are never what stops a request.
NumberedOnce ==
    LET all == records \cup UNION {txn[t].mine : t \in Txns}
    IN  \A q, r \in all : q.seq = r.seq \/ q.item = r.item => q = r

\* A verification tells the truth, and an export happens exactly over an intact ledger:
\* nothing appended later, rolled back or appended again ever hides a lost record or an
\* altered content, and without damage no interleaving of appends raises an alarm.
VerdictIsTrue ==
    [][ (\E t \in Txns, scope \in Scopes : Verify(t, scope)) =>
            (run'.valid <=> lost = 0 /\ altered = {}) ]_vars

\* The committed head is an append-only log of what was recorded.
Log == INSTANCE AppendOnlyLog WITH log <- head.hash
LogSpec == Log!Spec

\* Every request ends: one that holds a row and waits for the ledger and one that holds
\* the ledger and waits for the row do not wait for each other for ever, and the lock is
\* free again after every commit, rollback and verification.
RequestsEnd == \A t \in Txns : txn[t].open ~> ~ txn[t].open
=============================================================================
