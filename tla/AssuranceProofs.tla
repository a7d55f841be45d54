--------------------------- MODULE AssuranceProofs --------------------------
(***************************************************************************)
(* Theorems on the ledger, on the response to a breach and on the          *)
(* counterfactual studies of a cause.                                      *)
(*                                                                         *)
(* The ledger is one chain for any number of transactions, items, rows and *)
(* lock orders: records tell the history before them, nobody takes a       *)
(* number twice, a verification sees every loss and raises no false alarm, *)
(* and the committed head is an append-only log.  The argument: at most    *)
(* one transaction holds the ledger, only that one has uncommitted         *)
(* records, and its own head extends the committed one by exactly those    *)
(* records.                                                                *)
(*                                                                         *)
(* The decisions on a breach are one line of versions, an alert counts     *)
(* every evaluation and only reopening ends its being closed, for any      *)
(* number of requests.  The argument: what a request read under a lock is  *)
(* still so when it writes, because whoever could change it waits.         *)
(*                                                                         *)
(* The minimal evidence of a study is enough, for any rules and files: the *)
(* cause led before the search, and no turn of the search ends that.       *)
(***************************************************************************)
EXTENDS Assurance, FiniteSetTheorems, SequenceTheorems, WellFoundedInduction, TLAPS

-----------------------------------------------------------------------------
(* Histories and their beginnings *)

\* The first n items of a history.
First(h, n) == SubSeq(h, 1, n)

\* The beginning of a history is a history of that length with the same items.
LEMMA FirstProperties ==
    ASSUME NEW h \in Hash, NEW n \in 0 .. Len(h)
    PROVE  /\ First(h, n) \in Hash
           /\ Len(First(h, n)) = n
           /\ \A i \in 1 .. n : First(h, n)[i] = h[i]
<1>1. Len(h) \in Nat /\ \A i \in 1 .. n : h[i] \in Item
    BY LenProperties, ElementOfSeq DEF Hash
<1>2. n \in Int /\ n \in Nat
    BY <1>1
<1>3. /\ SubSeq(h, 1, n) \in Seq(Item)
      /\ Len(SubSeq(h, 1, n)) = IF 1 <= n THEN n - 1 + 1 ELSE 0
      /\ \A i \in 1 .. n - 1 + 1 : SubSeq(h, 1, n)[i] = h[1 + i - 1]
    BY <1>1, <1>2, SubSeqProperties
<1>. QED
    BY <1>2, <1>3 DEF First, Hash

\* A beginning of a beginning is a beginning.
LEMMA FirstOfFirst ==
    ASSUME NEW h \in Hash, NEW n \in 0 .. Len(h), NEW m \in 0 .. n
    PROVE  First(First(h, n), m) = First(h, m)
<1>1. Len(h) \in Nat
    BY LenProperties DEF Hash
<1>2. m \in 0 .. Len(h)
    BY <1>1
<1>3. m \in 0 .. Len(First(h, n)) /\ First(h, n) \in Hash
    BY FirstProperties
<1>4. \A i \in 1 .. m : First(First(h, n), m)[i] = First(h, m)[i]
    BY <1>1, <1>2, <1>3, FirstProperties
<1>5. Len(First(First(h, n), m)) = m /\ Len(First(h, m)) = m
    BY <1>2, <1>3, FirstProperties
<1>6. First(First(h, n), m) \in Seq(Item) /\ First(h, m) \in Seq(Item)
    BY <1>2, <1>3, FirstProperties DEF Hash
<1>. QED
    BY <1>4, <1>5, <1>6, SeqEqual

\* All of a history is its own beginning; nothing is the beginning of every history.
LEMMA FirstEnds ==
    ASSUME NEW h \in Hash
    PROVE  First(h, Len(h)) = h /\ First(h, 0) = GENESIS_HASH
BY SubSeqFull, SubSeqEmpty DEF First, Hash, GENESIS_HASH

\* Appending an item leaves every beginning as it was.
LEMMA FirstOfAppend ==
    ASSUME NEW h \in Hash, NEW i \in Item, NEW n \in 0 .. Len(h)
    PROVE  First(Append(h, i), n) = First(h, n)
<1>1. /\ Append(h, i) \in Hash /\ Len(h) \in Nat
      /\ Len(Append(h, i)) = Len(h) + 1
      /\ \A k \in 1 .. Len(h) : Append(h, i)[k] = h[k]
    BY AppendProperties, LenProperties DEF Hash
<1>2. n \in 0 .. Len(Append(h, i))
    BY <1>1
<1>3. \A k \in 1 .. n : First(Append(h, i), n)[k] = First(h, n)[k]
    <2>1. \A k \in 1 .. n : First(Append(h, i), n)[k] = Append(h, i)[k]
        BY <1>1, <1>2, FirstProperties
    <2>2. \A k \in 1 .. n : First(h, n)[k] = h[k]
        BY FirstProperties
    <2>. QED
        BY <1>1, <2>1, <2>2
<1>4. Len(First(Append(h, i), n)) = n /\ Len(First(h, n)) = n
    BY <1>1, <1>2, FirstProperties
<1>5. First(Append(h, i), n) \in Seq(Item) /\ First(h, n) \in Seq(Item)
    BY <1>1, <1>2, FirstProperties DEF Hash
<1>. QED
    BY <1>3, <1>4, <1>5, SeqEqual

\* A beginning is the one before it and the next item: how a record is hashed.
LEMMA FirstNext ==
    ASSUME NEW h \in Hash, NEW n \in 1 .. Len(h)
    PROVE  First(h, n) = Append(First(h, n - 1), h[n])
<1>1. Len(h) \in Nat /\ h[n] \in Item
    BY LenProperties, ElementOfSeq DEF Hash
<1>2. n - 1 \in 0 .. Len(h) /\ n \in 0 .. Len(h) /\ n \in Nat /\ n - 1 \in Nat
    BY <1>1
<1>3. First(h, n - 1) \in Hash /\ Len(First(h, n - 1)) = n - 1
    BY <1>2, FirstProperties
<1>. DEFINE a == Append(First(h, n - 1), h[n])
<1>4. /\ a \in Seq(Item) /\ Len(a) = n
      /\ \A k \in 1 .. n - 1 : a[k] = First(h, n - 1)[k]
      /\ a[n] = h[n]
    BY <1>1, <1>2, <1>3, AppendProperties DEF Hash
<1>5. First(h, n) \in Seq(Item) /\ Len(First(h, n)) = n
    BY <1>2, FirstProperties DEF Hash
<1>6. \A k \in 1 .. n : a[k] = First(h, n)[k]
    BY <1>2, <1>4, FirstProperties, SMTT(30)
<1>. QED
    BY <1>4, <1>5, <1>6, SeqEqual

-----------------------------------------------------------------------------
(* The inductive invariant *)

Holds(t) == Ledger \in txn[t].held

\* Fields of a record that lies in a head's history.
Sealed(r, h) ==
    /\ r.seq <= h.seq
    /\ r.hash = First(h.hash, r.seq)
    /\ r.prev = First(h.hash, r.seq - 1)
    /\ r.item = h.hash[r.seq]

\* A head that counts its history.
Counted(h) == h \in HeadRow /\ Len(h.hash) = h.seq

\* The part of the types the argument needs.
Shapes ==
    /\ records \subseteq Record
    /\ head \in HeadRow
    /\ txn \in [Txns -> [plan : Seq(Locks), held : SUBSET Locks, mine : SUBSET Record,
                         head : HeadRow, open : BOOLEAN]]
    /\ altered \subseteq Item
    /\ lost \in Nat
    /\ stamp \in [Item -> Stamp]
    /\ run \in [valid : BOOLEAN, scope : Scopes \cup {"none"}, head : Nat]

\* One transaction at a time has the ledger, and no other has records to commit.
OneWriter ==
    /\ \A t, u \in Txns : Holds(t) /\ Holds(u) => t = u
    /\ \A t \in Txns : txn[t].mine # {} => Holds(t)

\* The committed records lie in the committed history.
Committed == Counted(head) /\ \A r \in records : Sealed(r, head)

\* What the ledger's holder added lies in its own history, after the committed one,
\* every number once and no item a second time.
Session(mine, mh) ==
    /\ Counted(mh) /\ head.seq <= mh.seq
    /\ First(mh.hash, head.seq) = head.hash
    /\ \A r \in mine : Sealed(r, mh) /\ head.seq < r.seq
    /\ \A n \in head.seq + 1 .. mh.seq : \E r \in mine : r.seq = n
    /\ \A q, r \in mine : q.item = r.item => q = r
    /\ \A q \in records, r \in mine : q.item # r.item
    /\ IsFiniteSet(mine) /\ Cardinality(mine) = mh.seq - head.seq
Sessions == \A t \in Txns : Holds(t) => Session(txn[t].mine, txn[t].head)

\* Nothing is missing but what was lost, and alterations are of recorded items or of
\* items whose record was lost with them.
Accounted ==
    /\ \A q, r \in records : q.item = r.item => q = r
    /\ IsFiniteSet(records) /\ Cardinality(records) + lost = head.seq
    /\ lost = 0 => \A n \in 1 .. head.seq : \E r \in records : r.seq = n
    /\ altered # {} => lost > 0 \/ \E r \in records : r.item \in altered

LedgerInv == Shapes /\ OneWriter /\ Committed /\ Sessions /\ Accounted

\* What lies in a history lies in every history that extends it.
LEMMA SealedFurther ==
    ASSUME NEW h, NEW g, NEW r \in Record, Counted(h), Counted(g), h.seq <= g.seq,
           First(g.hash, h.seq) = h.hash, Sealed(r, h)
    PROVE  Sealed(r, g)
<1>1. /\ h.hash \in Hash /\ g.hash \in Hash /\ h.seq \in Nat /\ g.seq \in Nat
      /\ Len(h.hash) = h.seq /\ Len(g.hash) = g.seq /\ r.seq \in Nat \ {0} /\ r.seq <= h.seq
    BY DEF Counted, HeadRow, Record, Sealed
<1>2. h.seq \in 0 .. Len(g.hash) /\ r.seq \in 0 .. h.seq /\ r.seq - 1 \in 0 .. h.seq
    BY <1>1
<1>3. First(g.hash, r.seq) = First(h.hash, r.seq)
    BY <1>1, <1>2, FirstOfFirst
<1>4. First(g.hash, r.seq - 1) = First(h.hash, r.seq - 1)
    BY <1>1, <1>2, FirstOfFirst
<1>5. g.hash[r.seq] = h.hash[r.seq]
    <2>1. \A i \in 1 .. h.seq : First(g.hash, h.seq)[i] = g.hash[i]
        BY <1>1, <1>2, FirstProperties
    <2>. QED
        BY <1>1, <2>1
<1>. QED
    BY <1>1, <1>3, <1>4, <1>5 DEF Sealed

\* Two records of one history with the same number are the same record.
LEMMA SealedOnce ==
    ASSUME NEW h, NEW q \in Record, NEW r \in Record, Sealed(q, h), Sealed(r, h),
           q.seq = r.seq
    PROVE  q = r
BY DEF Sealed, Record

\* The migration's empty ledger.
LEMMA LedgerInit == Init => LedgerInv
<1>. SUFFICES ASSUME Init PROVE LedgerInv
    OBVIOUS
<1>. USE DEF Init
<1>1. <<>> \in Hash /\ Len(<<>>) = 0
    BY EmptySeq DEF Hash
<1>2. Closed \in [plan : Seq(Locks), held : SUBSET Locks, mine : SUBSET Record,
                  head : HeadRow, open : BOOLEAN]
    BY <1>1, EmptySeq DEF Closed, HeadRow
<1>3. Shapes
    BY <1>1, <1>2 DEF Shapes, HeadRow, GENESIS_HASH, Stamp
<1>4. OneWriter /\ Sessions
    BY DEF OneWriter, Sessions, Holds, Closed
<1>5. Committed
    BY <1>1 DEF Committed, Counted, HeadRow, GENESIS_HASH
<1>6. Accounted
    BY FS_EmptySet DEF Accounted
<1>. QED
    BY <1>3, <1>4, <1>5, <1>6 DEF LedgerInv

\* A transaction that begins, or ends without a commit, has nothing and nobody notices.
LEMMA EndStep ==
    ASSUME LedgerInv, NEW t \in Txns, NEW c,
           c \in [plan : Seq(Locks), held : SUBSET Locks, mine : SUBSET Record,
                  head : HeadRow, open : BOOLEAN],
           c.held = {}, c.mine = {},
           txn' = [txn EXCEPT ![t] = c], UNCHANGED <<records, head, altered, lost>>,
           stamp' \in [Item -> Stamp],
           run' \in [valid : BOOLEAN, scope : Scopes \cup {"none"}, head : Nat]
    PROVE  LedgerInv'
<1>. USE DEF LedgerInv
<1>1. Shapes'
    BY DEF Shapes
<1>2. \A u \in Txns : Holds(u)' => u # t /\ Holds(u) /\ txn'[u] = txn[u]
    BY DEF Holds, Shapes
<1>3. OneWriter'
    <2>1. \A u \in Txns : txn'[u].mine # {} => u # t /\ txn'[u] = txn[u]
        BY DEF Shapes
    <2>. QED
        BY <1>2, <2>1 DEF OneWriter, Holds
<1>4. Committed' /\ Accounted'
    BY DEF Committed, Counted, Sealed, Accounted
<1>5. Sessions'
    BY <1>2 DEF Sessions, Session, Sealed, Counted
<1>. QED
    BY <1>1, <1>3, <1>4, <1>5

\* Taking the ledger's lock opens a session at the committed head.
LEMMA LockStep ==
    ASSUME LedgerInv, NEW t \in Txns, Lock(t)
    PROVE  LedgerInv'
<1>. USE DEF LedgerInv
<1>. DEFINE l == Head(txn[t].plan)
            first == l = Ledger /\ l \notin txn[t].held
            c == [txn[t] EXCEPT !.plan = Tail(@), !.held = @ \cup {l},
                                !.head = IF first THEN head ELSE @]
<1>1. /\ txn[t].plan # <<>> /\ Free(t, l) /\ txn' = [txn EXCEPT ![t] = c]
      /\ UNCHANGED <<records, head, altered, lost, stamp, run, alerts>>
    BY DEF Lock, Shapes
<1>2. /\ c \in [plan : Seq(Locks), held : SUBSET Locks, mine : SUBSET Record,
                 head : HeadRow, open : BOOLEAN]
      /\ c.held = txn[t].held \cup {l} /\ c.mine = txn[t].mine
      /\ c.head = IF first THEN head ELSE txn[t].head
    <2>1. txn[t] \in [plan : Seq(Locks), held : SUBSET Locks, mine : SUBSET Record,
                      head : HeadRow, open : BOOLEAN] /\ head \in HeadRow
        BY DEF Shapes
    <2>2. Tail(txn[t].plan) \in Seq(Locks) /\ l \in Locks
        BY <1>1, <2>1, HeadTailProperties
    <2>. HIDE DEF l
    <2>3. (IF first THEN head ELSE txn[t].head) \in HeadRow
        BY <2>1
    <2>. QED
        BY <2>1, <2>2, <2>3
<1>. HIDE DEF c
<1>3. Shapes' /\ txn'[t] = c /\ \A u \in Txns \ {t} : txn'[u] = txn[u]
    BY <1>1, <1>2 DEF Shapes
<1>4. Committed' /\ Accounted'
    BY <1>1 DEF Committed, Counted, Sealed, Accounted
<1>5. /\ Holds(t)' <=> Holds(t) \/ first
      /\ \A u \in Txns \ {t} : Holds(u)' <=> Holds(u)
      /\ first => \A u \in Txns : ~ Holds(u)
    BY <1>1, <1>2, <1>3 DEF Holds, Free
<1>6. OneWriter'
    <2>1. \A u \in Txns : txn'[u].mine = txn[u].mine
        BY <1>2, <1>3
    <2>. QED
        BY <1>5, <2>1 DEF OneWriter
<1>7. Sessions'
    <2>1. ASSUME NEW u \in Txns, Holds(u), ~ (u = t /\ first)
          PROVE  Session(txn[u].mine, txn[u].head)'
        <3>1. txn'[u].mine = txn[u].mine /\ txn'[u].head = txn[u].head
            BY <1>2, <1>3, <2>1
        <3>. QED
            BY <1>1, <2>1, <3>1 DEF Sessions, Session, Sealed, Counted
    <2>2. ASSUME first PROVE Session({}, head)
        <3>1. /\ head.hash \in Hash /\ head.seq \in Nat /\ Len(head.hash) = head.seq
            BY DEF Committed, Counted, HeadRow
        <3>2. First(head.hash, head.seq) = head.hash
            BY <3>1, FirstEnds
        <3>. QED
            BY <3>1, <3>2, FS_EmptySet DEF Session, Committed
    <2>3. ASSUME first PROVE Session(txn[t].mine, txn[t].head)'
        <3>1. txn[t].mine = {}
            BY <1>5, <2>3 DEF OneWriter
        <3>2. txn'[t].mine = {} /\ txn'[t].head = head
            BY <1>2, <1>3, <2>3, <3>1
        <3>. QED
            BY <1>1, <2>2, <2>3, <3>2 DEF Session, Sealed, Counted
    <2>. QED
        BY <1>5, <2>1, <2>3 DEF Sessions
<1>. QED
    BY <1>3, <1>4, <1>6, <1>7

-----------------------------------------------------------------------------
(* The holder's own history grows *)

\* Record r of item i comes right after the head mh and makes g the head.
Follows(r, g, mh, i) ==
    /\ r \in Record /\ g \in HeadRow
    /\ r.seq = mh.seq + 1 /\ r.item = i /\ r.prev = mh.hash /\ r.hash = Append(mh.hash, i)
    /\ g.seq = mh.seq + 1 /\ g.hash = Append(mh.hash, i)

Unrecorded(i, mine) == \A q \in records \cup mine : q.item # i

\* A record appended to the holder's head extends its session by one number.
LEMMA AppendSession ==
    ASSUME Shapes, Committed, NEW mine \in SUBSET Record, NEW mh \in HeadRow,
           Session(mine, mh), NEW i \in Item, NEW r, NEW g,
           Follows(r, g, mh, i), Unrecorded(i, mine)
    PROVE  Session(mine \cup {r}, g)
<1>. USE DEF Follows, Unrecorded
<1>1. /\ mh.hash \in Hash /\ mh.seq \in Nat /\ Len(mh.hash) = mh.seq
      /\ head.seq \in Nat /\ head.seq <= mh.seq
    BY DEF Session, Counted, HeadRow, Committed
<1>2. /\ g.hash \in Hash /\ Len(g.hash) = g.seq /\ g.seq = mh.seq + 1 /\ g.hash[g.seq] = i
      /\ g.hash = Append(mh.hash, i)
    BY <1>1, AppendProperties DEF Hash
<1>4. Counted(g)
    BY <1>2 DEF Counted
<1>5. \A n \in 0 .. mh.seq : First(g.hash, n) = First(mh.hash, n)
    BY <1>1, <1>2, FirstOfAppend
<1>6. First(g.hash, mh.seq) = mh.hash
    BY <1>1, <1>5, FirstEnds
<1>7. First(g.hash, head.seq) = head.hash
    BY <1>1, <1>5 DEF Session
<1>8. Sealed(r, g)
    <2>1. First(g.hash, g.seq) = g.hash
        BY <1>2, FirstEnds
    <2>2. r.seq = g.seq /\ r.seq - 1 = mh.seq /\ r.hash = g.hash /\ r.prev = mh.hash /\ r.item = i
        BY <1>1
    <2>. QED
        BY <1>1, <1>2, <1>6, <2>1, <2>2 DEF Sealed
<1>9. \A q \in mine : Sealed(q, g) /\ head.seq < q.seq
    <2>1. ASSUME NEW q \in mine PROVE Sealed(q, g) /\ head.seq < q.seq
        <3>1. Sealed(q, mh) /\ head.seq < q.seq /\ q \in Record /\ Counted(mh)
            BY DEF Session
        <3>2. mh.seq <= g.seq
            BY <1>1, <1>2
        <3>. QED
            BY <1>4, <1>6, <3>1, <3>2, SealedFurther
    <2>. QED
        BY <2>1
<1>10. \A q \in mine : q.seq # r.seq
    BY <1>1 DEF Session, Sealed, Record
<1>11. IsFiniteSet(mine \cup {r}) /\ Cardinality(mine \cup {r}) = g.seq - head.seq
    <2>1. IsFiniteSet(mine) /\ Cardinality(mine) = mh.seq - head.seq /\ r \notin mine
        BY <1>10 DEF Session
    <2>2. IsFiniteSet(mine \cup {r}) /\ Cardinality(mine \cup {r}) = Cardinality(mine) + 1
        BY <2>1, FS_AddElement
    <2>. QED
        BY <1>1, <1>2, <2>1, <2>2
<1>12. \A n \in head.seq + 1 .. g.seq : \E q \in mine \cup {r} : q.seq = n
    <2>1. \A n \in head.seq + 1 .. mh.seq : \E q \in mine : q.seq = n
        BY DEF Session
    <2>2. \A n \in head.seq + 1 .. g.seq : n \in head.seq + 1 .. mh.seq \/ n = r.seq
        BY <1>1, <1>2
    <2>. QED
        BY <2>1, <2>2
<1>13. /\ \A q, p \in mine \cup {r} : q.item = p.item => q = p
       /\ \A q \in records, p \in mine \cup {r} : q.item # p.item
    <2>1. /\ \A q, p \in mine : q.item = p.item => q = p
          /\ \A q \in records, p \in mine : q.item # p.item
        BY DEF Session
    <2>. QED
        BY <2>1
<1>14. head.seq <= g.seq /\ head.seq < r.seq
    BY <1>1, <1>2
<1>15. \A q \in mine \cup {r} : Sealed(q, g) /\ head.seq < q.seq
    BY <1>8, <1>9, <1>14
<1>. QED
    BY <1>4, <1>7, <1>11, <1>12, <1>13, <1>14, <1>15 DEF Session

\* append_record leaves the committed ledger alone.
LEMMA AppendStep ==
    ASSUME LedgerInv, NEW t \in Txns, NEW i \in Item, AppendRecord(t, i)
    PROVE  LedgerInv'
<1>. USE DEF LedgerInv
<1>. DEFINE m == txn[t].head
            r == [seq |-> m.seq + 1, item |-> i, prev |-> m.hash, hash |-> Append(m.hash, i)]
            g == [seq |-> r.seq, hash |-> r.hash]
<1>1. /\ Holds(t) /\ UNCHANGED <<records, head, altered, lost, stamp, run, alerts>>
      /\ \A q \in records \cup txn[t].mine : q.item # i
      /\ txn' = [txn EXCEPT ![t].mine = @ \cup {r}, ![t].head = g]
    BY DEF AppendRecord, Holds
<1>2. txn[t].mine \in SUBSET Record /\ m \in HeadRow /\ Session(txn[t].mine, m)
    BY <1>1 DEF Shapes, Sessions
<1>3. r \in Record /\ g \in HeadRow /\ Session(txn[t].mine \cup {r}, g)
    <2>1. m.seq + 1 \in Nat \ {0} /\ m.hash \in Hash /\ Append(m.hash, i) \in Hash
        BY <1>2, AppendProperties DEF HeadRow, Hash
    <2>2. /\ r \in Record /\ g \in HeadRow
          /\ Follows(r, g, m, i)
        BY <2>1 DEF Record, HeadRow, Follows
    <2>3. Shapes /\ Committed /\ Unrecorded(i, txn[t].mine)
        BY <1>1 DEF Unrecorded
    <2>. HIDE DEF r, g, m, LedgerInv
    <2>. QED
        BY <1>2, <2>2, <2>3, AppendSession
<1>. HIDE DEF r, g, m
<1>4. /\ Shapes' /\ txn'[t].mine = txn[t].mine \cup {r} /\ txn'[t].head = g
      /\ \A u \in Txns : txn'[u].held = txn[u].held
      /\ \A u \in Txns \ {t} : txn'[u] = txn[u]
    BY <1>1, <1>3, ZenonT(60) DEF Shapes
<1>5. OneWriter'
    BY <1>1, <1>4 DEF OneWriter, Holds
<1>6. Committed' /\ Accounted'
    BY <1>1 DEF Committed, Counted, Sealed, Accounted
<1>7. Sessions'
    <2>1. Session(txn[t].mine, txn[t].head)'
        <3>1. records' = records /\ head' = head
            BY <1>1
        <3>. QED
            BY <1>3, <1>4, <3>1 DEF Session, Sealed, Counted
    <2>2. \A u \in Txns : Holds(u)' => u = t
        BY <1>1, <1>4 DEF Holds, OneWriter
    <2>. QED
        BY <2>1, <2>2 DEF Sessions
<1>. QED
    BY <1>4, <1>5, <1>6, <1>7

\* A commit makes the holder's history everybody's.
LEMMA CommitStep ==
    ASSUME LedgerInv, NEW t \in Txns, Commit(t)
    PROVE  LedgerInv'
<1>. USE DEF LedgerInv
<1>. DEFINE mine == txn[t].mine
            m == txn[t].head
<1>1. /\ txn' = [txn EXCEPT ![t] = Closed] /\ records' = records \cup mine
      /\ head' = IF mine = {} THEN head ELSE m
      /\ UNCHANGED <<altered, lost, run>>
    BY DEF Commit
<1>2. stamp' \in [Item -> Stamp]
    BY DEF Commit, Shapes, Stamp
<1>3. /\ Closed \in [plan : Seq(Locks), held : SUBSET Locks, mine : SUBSET Record,
                      head : HeadRow, open : BOOLEAN]
      /\ Closed.held = {} /\ Closed.mine = {}
    <2>1. <<>> \in Seq(Locks) /\ <<>> \in Hash
        BY EmptySeq DEF Hash
    <2>. QED
        BY <2>1 DEF Closed, HeadRow
<1>4. CASE mine = {}
    <2>1. UNCHANGED <<records, head, altered, lost>>
        BY <1>1, <1>4
    <2>2. run' \in [valid : BOOLEAN, scope : Scopes \cup {"none"}, head : Nat]
        BY <1>1 DEF Shapes
    <2>. QED
        BY <1>1, <1>2, <1>3, <2>1, <2>2, EndStep
<1>5. CASE mine # {}
    <2>1. /\ Holds(t) /\ Session(mine, m) /\ m \in HeadRow /\ mine \in SUBSET Record
          /\ head' = m
        BY <1>1, <1>5 DEF OneWriter, Sessions, Shapes
    <2>2. /\ Counted(m) /\ Counted(head) /\ head.seq <= m.seq /\ head.seq \in Nat /\ m.seq \in Nat
          /\ First(m.hash, head.seq) = head.hash
        BY <2>1 DEF Session, Committed, Counted, HeadRow
    <2>3. Shapes'
        BY <1>1, <1>2, <1>3, <2>1 DEF Shapes
    <2>4. \A u \in Txns : txn'[u].mine = {} /\ ~ Holds(u)'
        <3>1. \A u \in Txns \ {t} : txn'[u] = txn[u] /\ ~ Holds(u)
            BY <1>1, <2>1 DEF OneWriter, Shapes
        <3>2. txn'[t] = Closed
            BY <1>1 DEF Shapes
        <3>. QED
            BY <1>3, <3>1, <3>2 DEF OneWriter, Holds
    <2>5. OneWriter' /\ Sessions'
        BY <2>4 DEF OneWriter, Sessions
    <2>6. \A r \in records : Sealed(r, m)
        BY <2>2, SealedFurther DEF Committed, Shapes
    <2>7. Committed'
        <3>1. \A r \in records' : Sealed(r, m)
            BY <1>1, <2>1, <2>6 DEF Session
        <3>. QED
            BY <2>1, <2>2, <3>1 DEF Committed, Counted, Sealed
    <2>8. \A q, r \in records' : q.item = r.item => q = r
        BY <1>1, <2>1 DEF Session, Accounted
    <2>9. IsFiniteSet(records') /\ Cardinality(records') + lost' = m.seq
        <3>1. records \cap mine = {}
            BY <2>1 DEF Session
        <3>2. /\ IsFiniteSet(records) /\ Cardinality(records) + lost = head.seq
              /\ IsFiniteSet(mine) /\ Cardinality(mine) = m.seq - head.seq /\ lost \in Nat
            BY <2>1 DEF Accounted, Session, Shapes
        <3>3. /\ IsFiniteSet(records \cup mine)
              /\ Cardinality(records \cup mine)
                    = Cardinality(records) + Cardinality(mine) - Cardinality(records \cap mine)
            BY <3>2, FS_Union
        <3>4. Cardinality(records) \in Nat /\ Cardinality(records \cap mine) = 0
            BY <3>1, <3>2, FS_CardinalityType, FS_EmptySet
        <3>. QED
            BY <1>1, <2>2, <3>2, <3>3, <3>4
    <2>10. lost' = 0 => \A n \in 1 .. m.seq : \E r \in records' : r.seq = n
        BY <1>1, <2>1, <2>2 DEF Session, Accounted
    <2>11. altered' # {} => lost' > 0 \/ \E r \in records' : r.item \in altered'
        BY <1>1 DEF Accounted
    <2>12. Accounted'
        BY <2>1, <2>8, <2>9, <2>10, <2>11 DEF Accounted
    <2>. QED
        BY <2>3, <2>5, <2>7, <2>12
<1>. QED
    BY <1>4, <1>5

-----------------------------------------------------------------------------
(* Verification *)

\* What verification counts are numbers, and nothing is missing but what was lost.
LEMMA CountsAreNumbers ==
    ASSUME LedgerInv
    PROVE  Mismatches \in Nat /\ Missing = lost /\ InvalidLinks \in Nat
<1>. USE DEF LedgerInv
<1>1. IsFiniteSet(records) /\ Cardinality(records) + lost = head.seq /\ lost \in Nat
    BY DEF Accounted, Shapes
<1>2. Cardinality(records) \in Nat
    BY <1>1, FS_CardinalityType
<1>3. Missing = lost
    BY <1>1, <1>2 DEF Missing
<1>4. Mismatches \in Nat
    <2>1. {r \in records : r.item \in altered} \in SUBSET records
        OBVIOUS
    <2>2. IsFiniteSet({r \in records : r.item \in altered})
        BY <1>1, <2>1, FS_Subset
    <2>. QED
        BY <2>2, FS_CardinalityType DEF Mismatches
<1>5. InvalidLinks \in Nat
    <2>. DEFINE bad == {r \in records : r.prev # HashBefore(r) \/ r.hash # Append(r.prev, r.item)}
    <2>1. bad \in SUBSET records
        OBVIOUS
    <2>2. Cardinality(bad) \in Nat
        BY <1>1, <2>1, FS_Subset, FS_CardinalityType
    <2>3. InvalidLinks = Cardinality(bad) + (IF LastSeq > head.seq THEN 1 ELSE 0)
                            + (IF LastHash # head.hash THEN 1 ELSE 0)
        BY DEF InvalidLinks
    <2>. HIDE DEF bad
    <2>. QED
        BY <2>2, <2>3
<1>. QED
    BY <1>3, <1>4, <1>5

\* With nothing lost, the record before the n-th is the one that verification takes.
LEMMA CompleteChain ==
    ASSUME LedgerInv, lost = 0, NEW n \in Nat, n <= head.seq,
           NEW before \in SUBSET records,
           \A q \in records : q \in before <=> q.seq <= n
    PROVE  IF n = 0 THEN before = {}
           ELSE /\ before # {}
                /\ (CHOOSE q \in before : \A p \in before : p.seq <= q.seq).seq = n
                /\ (CHOOSE q \in before : \A p \in before : p.seq <= q.seq).hash
                     = First(head.hash, n)
<1>. USE DEF LedgerInv
<1>1. head.seq \in Nat /\ \A q \in records : q.seq \in Nat \ {0} /\ Sealed(q, head)
    BY DEF Shapes, HeadRow, Record, Committed
<1>2. CASE n = 0
    BY <1>1, <1>2
<1>3. CASE n # 0
    <2>1. n \in 1 .. head.seq
        BY <1>1, <1>3
    <2>2. PICK q \in records : q.seq = n
        BY <2>1 DEF Accounted
    <2>3. q \in before /\ \A p \in before : p.seq <= q.seq
        BY <2>2
    <2>4. \A r \in before : (\A p \in before : p.seq <= r.seq) => r.seq = n
        BY <1>1, <2>2, <2>3
    <2>. DEFINE c == CHOOSE r \in before : \A p \in before : p.seq <= r.seq
    <2>5. c \in before /\ \A p \in before : p.seq <= c.seq
        BY <2>3
    <2>. HIDE DEF c
    <2>6. c.seq = n /\ c.hash = First(head.hash, n)
        BY <1>1, <2>4, <2>5 DEF Sealed
    <2>. USE DEF c
    <2>. QED
        BY <1>3, <2>3, <2>6
<1>. QED
    BY <1>2, <1>3

\* With nothing lost every link holds: no interleaving of appends raises an alarm.
LEMMA LinksHold ==
    ASSUME LedgerInv, lost = 0
    PROVE  InvalidLinks = 0
<1>. USE DEF LedgerInv
<1>1. /\ head.seq \in Nat /\ head.hash \in Hash /\ Len(head.hash) = head.seq
      /\ \A q \in records : q.seq \in Nat \ {0} /\ Sealed(q, head)
    BY DEF Shapes, HeadRow, Record, Committed, Counted
<1>2. ASSUME NEW r \in records PROVE r.prev = HashBefore(r)
    <2>. DEFINE before == {q \in records : q.seq < r.seq}
    <2>1. r.seq - 1 \in Nat /\ r.seq - 1 <= head.seq /\ r.seq \in Nat
        BY <1>1 DEF Sealed
    <2>2. before \in SUBSET records /\ \A q \in records : q \in before <=> q.seq <= r.seq - 1
        BY <1>1, <2>1
    <2>3. HashBefore(r) = IF before = {} THEN GENESIS_HASH
                          ELSE (CHOOSE q \in before : \A p \in before : p.seq <= q.seq).hash
        BY DEF HashBefore
    <2>4. r.prev = First(head.hash, r.seq - 1)
        BY <1>1 DEF Sealed
    <2>. HIDE DEF before, LedgerInv
    <2>5. CASE r.seq - 1 = 0
        BY <1>1, <2>1, <2>2, <2>3, <2>4, <2>5, CompleteChain, FirstEnds
    <2>6. CASE r.seq - 1 # 0
        BY <2>1, <2>2, <2>3, <2>4, <2>6, CompleteChain
    <2>. QED
        BY <2>5, <2>6
<1>3. ASSUME NEW r \in records PROVE r.hash = Append(r.prev, r.item)
    <2>1. r.seq \in 1 .. Len(head.hash)
        BY <1>1 DEF Sealed
    <2>2. First(head.hash, r.seq) = Append(First(head.hash, r.seq - 1), head.hash[r.seq])
        BY <1>1, <2>1, FirstNext
    <2>. QED
        BY <1>1, <2>2 DEF Sealed
<1>4. Cardinality({r \in records : r.prev # HashBefore(r) \/ r.hash # Append(r.prev, r.item)}) = 0
    <2>1. {r \in records : r.prev # HashBefore(r) \/ r.hash # Append(r.prev, r.item)} = {}
        BY <1>2, <1>3
    <2>. QED
        BY <2>1, FS_EmptySet
<1>5. LastSeq = head.seq /\ LastHash = head.hash
    <2>1. records \in SUBSET records /\ \A q \in records : q \in records <=> q.seq <= head.seq
        BY <1>1 DEF Sealed
    <2>2. First(head.hash, head.seq) = head.hash /\ First(head.hash, 0) = GENESIS_HASH
        BY <1>1, FirstEnds
    <2>. HIDE DEF LedgerInv
    <2>3. CASE head.seq = 0
        BY <1>1, <2>1, <2>2, <2>3, CompleteChain DEF LastSeq, LastHash
    <2>4. CASE head.seq # 0
        <3>1. /\ records # {}
              /\ (CHOOSE q \in records : \A p \in records : p.seq <= q.seq).seq = head.seq
              /\ (CHOOSE q \in records : \A p \in records : p.seq <= q.seq).hash
                   = First(head.hash, head.seq)
            BY <1>1, <2>1, <2>4, CompleteChain
        <3>. QED
            BY <2>2, <3>1 DEF LastSeq, LastHash
    <2>. QED
        BY <2>3, <2>4
<1>. QED
    BY <1>1, <1>4, <1>5 DEF InvalidLinks

\* verify_chain answers valid exactly when nothing was lost and nothing altered.
LEMMA ValidIsIntact ==
    ASSUME LedgerInv
    PROVE  ChainValid <=> lost = 0 /\ altered = {}
<1>. USE DEF LedgerInv
<1>1. IsFiniteSet(records)
    BY DEF Accounted
<1>2. IsFiniteSet({r \in records : r.item \in altered})
    <2>1. {r \in records : r.item \in altered} \in SUBSET records
        OBVIOUS
    <2>. QED
        BY <1>1, <2>1, FS_Subset
<1>3. Mismatches = 0 <=> \A r \in records : r.item \notin altered
    BY <1>2, FS_EmptySet DEF Mismatches
<1>4. lost \in Nat
    BY DEF Shapes
<1>5. ASSUME ChainValid PROVE lost = 0 /\ altered = {}
    BY <1>3, <1>4, <1>5, CountsAreNumbers DEF ChainValid, Accounted
<1>6. ASSUME lost = 0, altered = {} PROVE ChainValid
    BY <1>3, <1>6, CountsAreNumbers, LinksHold DEF ChainValid
<1>. QED
    BY <1>5, <1>6

-----------------------------------------------------------------------------
(* The other steps *)

\* A transaction that is over holds no lock and no row.
LEMMA ClosedIsEmpty ==
    /\ Closed \in [plan : Seq(Locks), held : SUBSET Locks, mine : SUBSET Record,
                    head : HeadRow, open : BOOLEAN]
    /\ Closed.held = {} /\ Closed.mine = {}
<1>1. <<>> \in Seq(Locks) /\ <<>> \in Hash
    BY EmptySeq DEF Hash
<1>. QED
    BY <1>1 DEF Closed, HeadRow

\* A request begins without locks and without records.
LEMMA BeginStep ==
    ASSUME LedgerInv, NEW t \in Txns, NEW plan \in Plans, Begin(t, plan)
    PROVE  LedgerInv'
<1>. DEFINE c == [Closed EXCEPT !.plan = plan, !.open = TRUE]
<1>1. txn' = [txn EXCEPT ![t] = c] /\ UNCHANGED <<records, head, altered, lost, stamp, run>>
    BY DEF Begin
<1>2. /\ c \in [plan : Seq(Locks), held : SUBSET Locks, mine : SUBSET Record,
                 head : HeadRow, open : BOOLEAN]
      /\ c.held = {} /\ c.mine = {}
    BY ClosedIsEmpty, PlansAreLocks
<1>3. /\ stamp' \in [Item -> Stamp]
      /\ run' \in [valid : BOOLEAN, scope : Scopes \cup {"none"}, head : Nat]
    BY <1>1 DEF LedgerInv, Shapes
<1>. HIDE DEF c
<1>. QED
    BY <1>1, <1>2, <1>3, EndStep

\* A rollback drops what was not committed.
LEMMA AbortStep ==
    ASSUME LedgerInv, NEW t \in Txns, Abort(t)
    PROVE  LedgerInv'
<1>1. txn' = [txn EXCEPT ![t] = Closed] /\ UNCHANGED <<records, head, altered, lost, stamp, run>>
    BY DEF Abort
<1>2. /\ stamp' \in [Item -> Stamp]
      /\ run' \in [valid : BOOLEAN, scope : Scopes \cup {"none"}, head : Nat]
    BY <1>1 DEF LedgerInv, Shapes
<1>. QED
    BY <1>1, <1>2, ClosedIsEmpty, EndStep

\* A verification leaves the chain alone.
LEMMA VerifyStep ==
    ASSUME LedgerInv, NEW t \in Txns, NEW scope \in Scopes, Verify(t, scope)
    PROVE  LedgerInv'
<1>1. txn' = [txn EXCEPT ![t] = Closed] /\ UNCHANGED <<records, head, altered, lost>>
    BY DEF Verify
<1>2. stamp' \in [Item -> Stamp]
    <2>1. "verified" \in Stamp /\ "verification_failed" \in Stamp /\ stamp \in [Item -> Stamp]
        BY DEF LedgerInv, Shapes, Stamp
    <2>. QED
        BY <2>1 DEF Verify
<1>3. run' \in [valid : BOOLEAN, scope : Scopes \cup {"none"}, head : Nat]
    <2>1. ChainValid \in BOOLEAN /\ head.seq \in Nat
        BY DEF ChainValid, LedgerInv, Shapes, HeadRow
    <2>. QED
        BY <2>1 DEF Verify
<1>. QED
    BY <1>1, <1>2, <1>3, ClosedIsEmpty, EndStep

\* A record that disappears is counted as lost.
LEMMA LoseStep ==
    ASSUME LedgerInv, NEW r \in records, LoseRecord(r)
    PROVE  LedgerInv'
<1>. USE DEF LedgerInv
<1>1. /\ records' = records \ {r} /\ lost' = lost + 1
      /\ UNCHANGED <<head, txn, altered, stamp, run, alerts>>
    BY DEF LoseRecord
<1>2. Shapes' /\ OneWriter' /\ Committed' /\ Sessions'
    BY <1>1 DEF Shapes, OneWriter, Holds, Committed, Counted, Sealed, Sessions, Session
<1>3. IsFiniteSet(records') /\ Cardinality(records') + lost' = head.seq
    <2>1. IsFiniteSet(records) /\ Cardinality(records) + lost = head.seq /\ lost \in Nat
        BY DEF Accounted, Shapes
    <2>2. IsFiniteSet(records \ {r}) /\ Cardinality(records \ {r}) = Cardinality(records) - 1
        BY <2>1, FS_RemoveElement
    <2>3. Cardinality(records) \in Nat
        BY <2>1, FS_CardinalityType
    <2>. QED
        BY <1>1, <2>1, <2>2, <2>3
<1>4. lost' > 0
    BY <1>1 DEF Shapes
<1>5. Accounted'
    BY <1>1, <1>3, <1>4 DEF Accounted
<1>. QED
    BY <1>2, <1>5

\* An item is altered while its record is there.
LEMMA AlterStep ==
    ASSUME LedgerInv, NEW i \in Item, AlterContent(i)
    PROVE  LedgerInv'
<1>. USE DEF LedgerInv
<1>1. /\ altered' = altered \cup {i} /\ \E r \in records : r.item = i
      /\ UNCHANGED <<records, head, txn, lost, stamp, run, alerts>>
    BY DEF AlterContent
<1>2. Shapes' /\ OneWriter' /\ Committed' /\ Sessions'
    BY <1>1 DEF Shapes, OneWriter, Holds, Committed, Counted, Sealed, Sessions, Session
<1>3. Accounted'
    BY <1>1 DEF Accounted
<1>. QED
    BY <1>2, <1>3

\* No step breaks the invariant.
LEMMA LedgerStep == LedgerInv /\ [Next]_vars => LedgerInv'
<1>. SUFFICES ASSUME LedgerInv, [Next]_vars PROVE LedgerInv'
    OBVIOUS
<1>1. ASSUME NEW t \in Txns, NEW plan \in Plans, Begin(t, plan) PROVE LedgerInv'
    BY <1>1, BeginStep
<1>2. ASSUME NEW t \in Txns, Lock(t) PROVE LedgerInv'
    BY <1>2, LockStep
<1>3. ASSUME NEW t \in Txns, Commit(t) PROVE LedgerInv'
    BY <1>3, CommitStep
<1>4. ASSUME NEW t \in Txns, Abort(t) \/ DeadlockAbort(t) PROVE LedgerInv'
    BY <1>4, AbortStep DEF DeadlockAbort
<1>5. ASSUME NEW t \in Txns, NEW i \in Item, AppendRecord(t, i) PROVE LedgerInv'
    BY <1>5, AppendStep
<1>6. ASSUME NEW t \in Txns, NEW scope \in Scopes, Verify(t, scope) PROVE LedgerInv'
    BY <1>6, VerifyStep
<1>7. ASSUME NEW r \in records, LoseRecord(r) PROVE LedgerInv'
    BY <1>7, LoseStep
<1>8. ASSUME NEW i \in Item, AlterContent(i) PROVE LedgerInv'
    BY <1>8, AlterStep
<1>9. CASE UNCHANGED vars
    BY <1>9 DEF vars, LedgerInv, Shapes, OneWriter, Holds, Committed, Counted, Sealed,
                Sessions, Session, Accounted
<1>. QED
    BY <1>1, <1>2, <1>3, <1>4, <1>5, <1>6, <1>7, <1>8, <1>9 DEF Next

\* Every reachable state of the ledger satisfies the invariant.
LEMMA LedgerAlways == Spec => []LedgerInv
BY LedgerInit, LedgerStep, PTL DEF Spec

-----------------------------------------------------------------------------
(* What the ledger promises *)

\* Rows, transactions, runs and alerts keep the shape of the tables.
THEOREM LedgerTypes == Spec => []TypeOK
<1>1. Init => TypeOK
    <2>1. ASSUME Init PROVE Shapes
        BY <2>1, LedgerInit DEF LedgerInv
    <2>. QED
        BY <2>1 DEF Init, TypeOK, Shapes
<1>2. LedgerInv /\ LedgerInv' /\ TypeOK /\ [Next]_vars => TypeOK'
    <2>. SUFFICES ASSUME LedgerInv, LedgerInv', TypeOK, [Next]_vars PROVE TypeOK'
        OBVIOUS
    <2>. DEFINE Alert == [head : Nat, mismatches : Nat, missing : Nat, links : Nat]
    <2>1. Failure \in Alert
        <3>1. lost \in Nat /\ head.seq \in Nat
            BY SMTT(30) DEF LedgerInv, Shapes, HeadRow
        <3>. QED
            BY <3>1, CountsAreNumbers DEF Failure
    <2>2. alerts' \subseteq alerts \cup {Failure}
        BY DEF Next, vars, Begin, Lock, Commit, Abort, DeadlockAbort, AppendRecord, Verify,
               LoseRecord, AlterContent
    <2>3. alerts' \subseteq Alert
        BY <2>1, <2>2 DEF TypeOK
    <2>. QED
        BY <2>3 DEF LedgerInv, Shapes, TypeOK
<1>. QED
    BY <1>1, <1>2, LedgerAlways, PTL DEF Spec

\* Every committed record was hashed over exactly the history before it, for any number of
\* transactions that append, roll back and lose records.
THEOREM ChainTellsHistory == Spec => []ChainIsHistory
<1>1. LedgerInv => ChainIsHistory
    BY DEF LedgerInv, Committed, Counted, Sealed, First, ChainIsHistory
<1>. QED
    BY <1>1, LedgerAlways, PTL

\* No number and no content is used twice, counting what is not yet committed.
THEOREM NumbersAreUnique == Spec => []NumberedOnce
<1>1. LedgerInv => NumberedOnce
    <2>. SUFFICES ASSUME LedgerInv PROVE NumberedOnce
        OBVIOUS
    <2>. USE DEF LedgerInv
    <2>1. \A r \in records : r \in Record /\ r.seq <= head.seq /\ Sealed(r, head)
        BY DEF Shapes, Committed, Sealed
    <2>2. \A t \in Txns : \A r \in txn[t].mine :
             /\ r \in Record /\ Holds(t) /\ Session(txn[t].mine, txn[t].head)
             /\ head.seq < r.seq /\ Sealed(r, txn[t].head)
        BY DEF Shapes, OneWriter, Sessions, Session
    <2>3. head.seq \in Nat /\ \A r \in Record : r.seq \in Nat
        BY DEF Shapes, HeadRow, Record
    <2>4. ASSUME NEW q \in records, NEW r \in records, q.seq = r.seq \/ q.item = r.item
          PROVE  q = r
        <3>1. CASE q.seq = r.seq
            BY <2>1, <3>1, SealedOnce
        <3>2. CASE q.item = r.item
            BY <3>2 DEF Accounted
        <3>. QED
            BY <2>4, <3>1, <3>2
    <2>5. ASSUME NEW t \in Txns, NEW q \in txn[t].mine, NEW u \in Txns, NEW r \in txn[u].mine,
                 q.seq = r.seq \/ q.item = r.item
          PROVE  q = r
        <3>1. t = u
            BY <2>2 DEF OneWriter
        <3>2. CASE q.seq = r.seq
            BY <2>2, <3>1, <3>2, SealedOnce
        <3>3. CASE q.item = r.item
            BY <2>2, <3>1, <3>3 DEF Session
        <3>. QED
            BY <2>5, <3>2, <3>3
    <2>6. ASSUME NEW q \in records, NEW t \in Txns, NEW r \in txn[t].mine
          PROVE  q.seq # r.seq /\ q.item # r.item
        <3>1. q.seq # r.seq
            BY <2>1, <2>2, <2>3
        <3>2. q.item # r.item
            BY <2>2 DEF Session
        <3>. QED
            BY <3>1, <3>2
    <2>. QED
        BY <2>4, <2>5, <2>6 DEF NumberedOnce
<1>. QED
    BY <1>1, LedgerAlways, PTL

\* A verification answers valid exactly when no record was lost and no content altered.
THEOREM VerificationIsTrue == Spec => VerdictIsTrue
<1>. DEFINE Verifies == \E t \in Txns, scope \in Scopes : Verify(t, scope)
            True == Verifies => (run'.valid <=> lost = 0 /\ altered = {})
<1>1. LedgerInv /\ [Next]_vars => [True]_vars
    <2>1. ASSUME LedgerInv, NEW t \in Txns, NEW scope \in Scopes, Verify(t, scope)
          PROVE  run'.valid <=> lost = 0 /\ altered = {}
        <3>1. run'.valid = ChainValid
            BY <2>1 DEF Verify
        <3>. QED
            BY <2>1, <3>1, ValidIsIntact
    <2>. QED
        BY <2>1
<1>2. Spec => [][True]_vars
    BY <1>1, LedgerAlways, PTL DEF Spec
<1>. QED
    BY <1>2 DEF VerdictIsTrue

\* The committed head is a log to which entries are only ever added.
THEOREM LedgerImplementsLog == Spec => LogSpec
<1>1. Init => Log!Init
    BY DEF Init, Log!Init, GENESIS_HASH
<1>2. LedgerInv /\ LedgerInv' /\ [Next]_vars => [Log!Add]_(head.hash)
    <2>. SUFFICES ASSUME LedgerInv, LedgerInv', [Next]_vars, head' # head PROVE Log!Add
        BY SMTT(30)
    <2>1. PICK t \in Txns : Commit(t)
        BY DEF Next, vars, Begin, Lock, Abort, DeadlockAbort, AppendRecord, Verify,
               LoseRecord, AlterContent
    <2>2. txn[t].mine # {} /\ head' = txn[t].head
        BY <2>1 DEF Commit
    <2>3. Session(txn[t].mine, head')
        BY <2>2 DEF LedgerInv, OneWriter, Sessions
    <2>4. /\ head'.hash \in Seq(Item) /\ Len(head'.hash) = head'.seq
          /\ Len(head.hash) = head.seq /\ head.seq <= head'.seq
          /\ First(head'.hash, head.seq) = head.hash
        BY <2>3 DEF Session, Counted, HeadRow, Hash, LedgerInv, Committed
    <2>. QED
        BY <2>4 DEF Log!Add, First
<1>3. Spec => Log!Init /\ [][Log!Add]_(head.hash)
    BY <1>1, <1>2, LedgerAlways, PTL DEF Spec
<1>. QED
    BY <1>3 DEF LogSpec, Log!Spec

-----------------------------------------------------------------------------
(* Breach response: the invariant *)

\* Raising an alert takes its row as it is, one request at a time; an alert is there
\* from the first evaluation on.
AlertHeld ==
    /\ alert \in Breach!Alert /\ evaluations \in Nat
    /\ worker = [w \in Workers |-> worker[w]]
    /\ alert.count = evaluations
    /\ alert.status = "none" => evaluations = 0
    /\ \A w \in Workers : worker[w].op = "raise" =>
          worker[w].row = alert /\ worker[w].by.op \in {"assess", "approve", "decide"}
    /\ \A v, w \in Workers : worker[v].op = "raise" /\ worker[w].op = "raise" => v = w

\* The decisions are one line with one end, whose version is the largest.
Line ==
    /\ decision \in [Breach!Decisions -> Breach!Decision]
    /\ \A d \in Breach!Decisions :
          /\ decision[d].status = "superseded" <=> decision[d].next # 0
          /\ decision[d].next # 0 =>
                decision[decision[d].next].version = decision[d].version + 1
          /\ Breach!Exists(d) <=> decision[d].version # 0
          /\ Breach!Exists(d) => \E e \in Breach!Current : decision[d].version <= decision[e].version
    /\ \A d, e \in Breach!Decisions :
          Breach!Exists(d) /\ decision[d].version = decision[e].version => d = e
    /\ \A d, e \in Breach!Current : d = e

\* What a request that is about to write a decision read still holds: whoever approves or
\* supersedes a decision is the only one, and so is who creates or supersedes.
Writes == {"create", "supersede"}
HeldDecisions ==
    /\ \A w \in Workers : Breach!Op(w) = "decide" =>
          /\ Breach!Target(w) \in Breach!Decisions
          /\ decision[Breach!Target(w)].status = "reviewed"
    /\ \A w \in Workers : Breach!Op(w) = "create" =>
          /\ Breach!Request(w).new \in Breach!Decisions /\ Breach!Request(w).version = 1
          /\ \A d \in Breach!Decisions : ~ Breach!Exists(d)
    /\ \A w \in Workers : Breach!Op(w) = "supersede" =>
          /\ Breach!Target(w) \in Breach!Decisions /\ Breach!Request(w).new \in Breach!Decisions
          /\ decision[Breach!Target(w)].status = "approved"
          /\ decision[Breach!Target(w)].next = 0
          /\ ~ Breach!Exists(Breach!Request(w).new)
          /\ Breach!Request(w).version = decision[Breach!Target(w)].version + 1
    /\ \A v, w \in Workers : Breach!Op(v) \in Writes /\ Breach!Op(w) \in Writes => v = w
    /\ \A v, w \in Workers :
          /\ Breach!Op(v) \in {"decide", "supersede"} /\ Breach!Op(w) \in {"decide", "supersede"}
          /\ Breach!Target(v) = Breach!Target(w)
          => v = w

BreachInv == AlertHeld /\ Line /\ HeldDecisions

\* What the constants are.
BreachInputs == MaxDecision \in Nat /\ Suppressions \subseteq {"timed", "forever"}

-----------------------------------------------------------------------------
(* Breach response: the requests *)

\* A request that has to do with no decision and does not raise the alert.
LEMMA BeginsElse ==
    ASSUME NEW w \in Workers,
           \/ \E v \in Breach!Versions :
                 Breach!Assess(w, v) \/ Breach!Review(w, v) \/ Breach!Approve(w, v)
           \/ \E a \in Actions :
                 Breach!Authorise(w, a) \/ \E ok \in BOOLEAN : Breach!Execute(w, a, ok)
           \/ Breach!CountIncomplete(w)
    PROVE  /\ \E r : /\ worker' = [worker EXCEPT ![w] = r]
                     /\ r.op \notin {"raise", "create", "supersede", "decide"}
           /\ UNCHANGED <<alert, evaluations, decision>>
<1> DEFINE Goal == \E r : /\ worker' = [worker EXCEPT ![w] = r]
                          /\ r.op \notin {"raise", "create", "supersede", "decide"}
<1>1. ASSUME NEW r, worker' = [worker EXCEPT ![w] = r],
             r.op \notin {"raise", "create", "supersede", "decide"}
      PROVE  Goal
    BY <1>1, Zenon
<1>2. ASSUME NEW v \in Breach!Versions, Breach!Assess(w, v) PROVE Goal
    <2> DEFINE r == [op |-> "assess", on |-> v, verified |-> confirmed,
                  seen |-> IF assessment[v] = "none" THEN "draft" ELSE assessment[v],
                  new |-> assessment[v] = "none"]
    <2>1. worker' = [worker EXCEPT ![w] = r] /\ r.op = "assess"
        BY <1>2, Zenon DEF Breach!Assess, Breach!Begins
    <2> HIDE DEF r
    <2>. QED
        BY <1>1, <2>1
<1>3. ASSUME NEW v \in Breach!Versions, Breach!Review(w, v) PROVE Goal
    <2> DEFINE r == [op |-> "review", on |-> v, seen |-> assessment[v]]
    <2>1. worker' = [worker EXCEPT ![w] = r] /\ r.op = "review"
        BY <1>3, Zenon DEF Breach!Review, Breach!Begins
    <2> HIDE DEF r
    <2>. QED
        BY <1>1, <2>1
<1>4. ASSUME NEW v \in Breach!Versions, Breach!Approve(w, v) PROVE Goal
    <2> DEFINE r == [op |-> "approve", on |-> v, seen |-> "approved", verified |-> confirmed]
    <2>1. worker' = [worker EXCEPT ![w] = r] /\ r.op = "approve"
        BY <1>4, Zenon DEF Breach!Approve, Breach!Begins
    <2> HIDE DEF r
    <2>. QED
        BY <1>1, <2>1
<1>5. ASSUME NEW a \in Actions, Breach!Authorise(w, a) PROVE Goal
    <2> DEFINE r == [op |-> "authorise", on |-> a]
    <2>1. worker' = [worker EXCEPT ![w] = r] /\ r.op = "authorise"
        BY <1>5, Zenon DEF Breach!Authorise, Breach!Begins
    <2> HIDE DEF r
    <2>. QED
        BY <1>1, <2>1
<1>6. ASSUME NEW a \in Actions, NEW ok \in BOOLEAN, Breach!Execute(w, a, ok) PROVE Goal
    <2> DEFINE r == [op |-> "execute", on |-> a, ok |-> ok]
    <2>1. worker' = [worker EXCEPT ![w] = r] /\ r.op = "execute"
        BY <1>6, Zenon DEF Breach!Execute, Breach!Begins
    <2> HIDE DEF r
    <2>. QED
        BY <1>1, <2>1
<1>7. ASSUME Breach!CountIncomplete(w) PROVE Goal
    <2> DEFINE r == [op |-> "counted", on |-> worker[w].on, ok |-> worker[w].ok,
           done |-> \A a \in Actions : action[a] \in {"none", "executed"}]
    <2>1. worker' = [worker EXCEPT ![w] = r] /\ r.op = "counted"
        BY <1>7, Zenon DEF Breach!CountIncomplete
    <2> HIDE DEF r
    <2>. QED
        BY <1>1, <2>1
<1>8. UNCHANGED <<alert, evaluations, decision>>
    BY DEF Breach!Assess, Breach!Review, Breach!Approve, Breach!Authorise, Breach!Execute,
           Breach!CountIncomplete
<1>. QED
    BY <1>2, <1>3, <1>4, <1>5, <1>6, <1>7, <1>8

\* A request that is about to write a decision.
LEMMA BeginsWrite ==
    ASSUME NEW w \in Workers, NEW d \in Breach!Decisions,
           \/ Breach!Create(w, d)
           \/ \E e \in Breach!Decisions : Breach!Supersede(w, d, e)
           \/ \E v \in Breach!Versions : Breach!Decide(w, d, v)
    PROVE  /\ \E r : /\ worker' = [worker EXCEPT ![w] = r] /\ r.on = d
                     /\ \/ /\ r.op = "create" /\ r.new = d /\ r.version = Breach!NextVersion
                           /\ Breach!IncidentFree /\ Breach!Current = {} /\ Breach!New(d)
                        \/ /\ r.op = "supersede" /\ r.new \in Breach!Decisions
                           /\ r.version = decision[d].version + 1 /\ Breach!New(r.new)
                           /\ Breach!DecisionFree(d) /\ Breach!IncidentFree
                           /\ decision[d].status = "approved" /\ decision[d].next = 0
                        \/ /\ r.op = "decide" /\ decision[d].status = "reviewed"
                           /\ Breach!DecisionFree(d)
           /\ UNCHANGED <<alert, evaluations, decision>>
<1> DEFINE Goal(r) ==
               /\ worker' = [worker EXCEPT ![w] = r] /\ r.on = d
               /\ \/ /\ r.op = "create" /\ r.new = d /\ r.version = Breach!NextVersion
                     /\ Breach!IncidentFree /\ Breach!Current = {} /\ Breach!New(d)
                  \/ /\ r.op = "supersede" /\ r.new \in Breach!Decisions
                     /\ r.version = decision[d].version + 1 /\ Breach!New(r.new)
                     /\ Breach!DecisionFree(d) /\ Breach!IncidentFree
                     /\ decision[d].status = "approved" /\ decision[d].next = 0
                  \/ /\ r.op = "decide" /\ decision[d].status = "reviewed"
                     /\ Breach!DecisionFree(d)
<1>1. ASSUME Breach!Create(w, d) PROVE \E r : Goal(r)
    <2> DEFINE r == [op |-> "create", on |-> d, new |-> d, version |-> Breach!NextVersion]
    <2>1. worker' = [worker EXCEPT ![w] = r]
        BY <1>1, Zenon DEF Breach!Create, Breach!Begins
    <2>2. Breach!IncidentFree /\ Breach!Current = {} /\ Breach!New(d)
        BY <1>1, Zenon DEF Breach!Create
    <2>3. r.op = "create" /\ r.on = d /\ r.new = d /\ r.version = Breach!NextVersion
        BY Zenon
    <2> HIDE DEF r
    <2>. QED
        BY <2>1, <2>2, <2>3, Zenon
<1>2. ASSUME NEW e \in Breach!Decisions, Breach!Supersede(w, d, e) PROVE \E r : Goal(r)
    <2> DEFINE r == [op |-> "supersede", on |-> d, new |-> e,
                  version |-> decision[d].version + 1]
    <2>1. worker' = [worker EXCEPT ![w] = r]
        BY <1>2, Zenon DEF Breach!Supersede, Breach!Begins
    <2>2. /\ Breach!DecisionFree(d) /\ Breach!IncidentFree /\ Breach!New(e)
          /\ decision[d].status = "approved" /\ decision[d].next = 0
        BY <1>2, Zenon DEF Breach!Supersede
    <2>3. r.op = "supersede" /\ r.on = d /\ r.new = e /\ r.version = decision[d].version + 1
        BY Zenon
    <2> HIDE DEF r
    <2>. QED
        BY <2>1, <2>2, <2>3, Zenon
<1>3. ASSUME NEW v \in Breach!Versions, Breach!Decide(w, d, v) PROVE \E r : Goal(r)
    <2> DEFINE r == [op |-> "decide", on |-> d, seen |-> assessment[v], verified |-> confirmed]
    <2>1. worker' = [worker EXCEPT ![w] = r]
        BY <1>3, Zenon DEF Breach!Decide, Breach!Begins
    <2>2. Breach!DecisionFree(d) /\ decision[d].status = "reviewed"
        BY <1>3, Zenon DEF Breach!Decide
    <2>3. r.op = "decide" /\ r.on = d
        BY Zenon
    <2> HIDE DEF r
    <2>. QED
        BY <2>1, <2>2, <2>3, Zenon
<1>4. UNCHANGED <<alert, evaluations, decision>>
    BY DEF Breach!Create, Breach!Supersede, Breach!Decide
<1>. QED
    BY <1>1, <1>2, <1>3, <1>4, Zenon

-----------------------------------------------------------------------------
(* Breach response: the alert *)

\* Nothing is assessed, raised or decided at the start.
LEMMA BreachInit ==
    ASSUME BreachInputs, Breach!Init
    PROVE  BreachInv
<1>1. AlertHeld
    BY DEF Breach!Init, AlertHeld, Breach!Alert, Breach!Idle, Breach!Live, Breach!Terminal
<1>2. Line
    BY DEF Breach!Init, Line, Breach!Decision, Breach!Decisions, Breach!Exists, Breach!Current,
           Breach!ReviewStatus, BreachInputs
<1>3. HeldDecisions
    BY DEF Breach!Init, HeldDecisions, Breach!Op, Breach!Request, Breach!Idle, Writes
<1>. QED
    BY <1>1, <1>2, <1>3 DEF BreachInv

\* A request that does not raise the alert, and leaves it as it is.
LEMMA AlertRests ==
    ASSUME AlertHeld, UNCHANGED <<alert, evaluations>>, NEW w \in Workers, NEW r,
           worker' = [worker EXCEPT ![w] = r], r.op # "raise"
    PROVE  AlertHeld'
<1>1. \A v \in Workers : worker'[v] = IF v = w THEN r ELSE worker[v]
    BY DEF AlertHeld
<1>2. worker' = [v \in Workers |-> worker'[v]]
    BY <1>1 DEF AlertHeld
<1>. QED
    BY <1>1, <1>2 DEF AlertHeld

\* The alert is taken by who raises it.
LEMMA RaiseHolds ==
    ASSUME AlertHeld, NEW w \in Workers, Breach!Raise(w)
    PROVE  AlertHeld'
<1>1. PICK r : /\ worker' = [worker EXCEPT ![w] = r]
               /\ r = [op |-> "raise", row |-> alert, by |-> worker[w]]
    BY DEF Breach!Raise
<1>2. \A v \in Workers : worker'[v] = IF v = w THEN r ELSE worker[v]
    BY <1>1 DEF AlertHeld
<1>3. worker' = [v \in Workers |-> worker'[v]]
    BY <1>1 DEF AlertHeld
<1>4. /\ UNCHANGED <<alert, evaluations>> /\ worker[w].op \in {"assess", "approve", "decide"}
      /\ \A v \in Workers : worker[v].op # "raise"
    BY DEF Breach!Raise
<1>5. r.op = "raise" /\ r.row = alert /\ r.by = worker[w]
    BY <1>1
<1>. QED
    BY <1>2, <1>3, <1>4, <1>5 DEF AlertHeld

\* An evaluation counts itself.
LEMMA EvaluationCounts ==
    ASSUME AlertHeld, NEW w \in Workers, NEW critical \in BOOLEAN,
           worker[w].op = "raise", Breach!Evaluate(w, critical), Breach!Ends(w)
    PROVE  /\ AlertHeld'
           /\ alert.status \in Breach!Terminal => alert'.status = alert.status
<1>1. PICK status \in {"suspected", "verified"} :
          alert' = Breach!Refreshed(alert, status, critical)
    BY DEF Breach!Evaluate, AlertHeld
<1>2. PICK n \in Nat : n = evaluations /\ evaluations' = n + 1 /\ alert.count = n
    BY DEF Breach!Evaluate, AlertHeld
<1>3. /\ alert' \in Breach!Alert /\ alert'.count = n + 1 /\ alert'.status # "none"
      /\ alert.status \in Breach!Terminal => alert'.status = alert.status
    <2>1. alert \in Breach!Alert
        BY DEF AlertHeld
    <2>2. n + 1 \in Nat
        BY <1>2
    <2>3. CASE alert.status = "none"
        <3>1. n = 0
            BY <1>2, <2>3 DEF AlertHeld
        <3>2. alert' = [status |-> status, critical |-> critical, muted |-> "no", count |-> 1,
                        reopened |-> 0]
            BY <1>1, <2>3 DEF Breach!Refreshed
        <3>. QED
            BY <2>3, <3>1, <3>2 DEF Breach!Alert, Breach!Live, Breach!Terminal
    <2>4. CASE alert.status # "none"
        <3> DEFINE grave == IF alert.status \in Breach!Terminal THEN alert.critical ELSE critical
                   now == IF alert.status \in {"suspected", "verified"} THEN status
                          ELSE alert.status
        <3>1. /\ alert' = [alert EXCEPT !.count = n + 1, !.critical = grave, !.status = now]
              /\ grave \in BOOLEAN
            <4>1. alert' = [alert EXCEPT !.count = alert.count + 1,
                         !.critical = IF alert.status \in Breach!Terminal THEN alert.critical
                                      ELSE critical,
                         !.status = IF alert.status \in {"suspected", "verified"} THEN status
                                    ELSE alert.status]
                BY <1>1, <2>1, <2>4 DEF Breach!Refreshed, Breach!Alert
            <4>2. alert.count = n /\ alert.critical \in BOOLEAN
                BY <1>2, <2>1 DEF Breach!Alert
            <4>. QED
                BY <4>1, <4>2
        <3>4. /\ now = status \/ now = alert.status
              /\ alert.status \in Breach!Terminal => now = alert.status
            BY DEF Breach!Terminal
        <3> HIDE DEF grave, now
        <3>2. now \in Breach!Live \cup Breach!Terminal
            BY <2>1, <2>4, <3>4 DEF Breach!Alert, Breach!Live
        <3>3. /\ alert' \in Breach!Alert /\ alert'.count = n + 1 /\ alert'.status = now
            BY <2>1, <2>2, <3>1, <3>2 DEF Breach!Alert
        <3>. QED
            BY <3>2, <3>3, <3>4 DEF Breach!Live, Breach!Terminal
    <2>. QED
        BY <2>3, <2>4
<1>4. \A v \in Workers : worker'[v].op # "raise"
    BY DEF Breach!Ends, Breach!Idle, AlertHeld
<1>5. worker' = [v \in Workers |-> worker'[v]]
    BY DEF Breach!Ends, AlertHeld
<1>. QED
    BY <1>2, <1>3, <1>4, <1>5 DEF AlertHeld

\* What a person does to an alert neither counts nor makes one, and only reopening ends
\* its being closed.
LEMMA OperationKeeps ==
    ASSUME AlertHeld, BreachInputs,
           \/ Breach!Acknowledge \/ Breach!Reopen \/ Breach!Unsuppress
           \/ \E how \in Breach!Terminal : Breach!Resolve(how)
           \/ \E how \in Suppressions : Breach!Suppress(how)
    PROVE  /\ AlertHeld'
           /\ alert.status \in Breach!Terminal /\ alert'.status \notin Breach!Terminal =>
                 alert'.reopened = alert.reopened + 1 /\ alert'.muted = "no"
<1>1. alert \in Breach!Alert /\ alert.reopened + 1 \in Nat
    BY SMTT(30) DEF AlertHeld, Breach!Alert
<1>2. PICK status, muted, reopened :
          /\ alert' = [alert EXCEPT !.status = status, !.muted = muted, !.reopened = reopened]
          /\ alert.status # "none" => status \in Breach!Live \cup Breach!Terminal
          /\ muted \in {"no", "timed", "forever"} /\ reopened \in Nat
          /\ alert.status = "none" => status = "none"
          /\ alert.status \in Breach!Terminal /\ status \notin Breach!Terminal =>
                reopened = alert.reopened + 1 /\ muted = "no"
    <2>6. /\ alert.status \in Breach!Live => alert.status \notin Breach!Terminal /\ alert.status # "none"
          /\ alert.muted \in {"no", "timed", "forever"} /\ alert.reopened \in Nat
        BY <1>1 DEF Breach!Alert, Breach!Live, Breach!Terminal
    <2>1. CASE Breach!Acknowledge
        <3>1. alert.status \in Breach!Live /\ alert' = [alert EXCEPT !.status = "acknowledged"]
            BY <2>1 DEF Breach!Acknowledge, Breach!Operates
        <3>2. alert' = [alert EXCEPT !.status = "acknowledged", !.muted = alert.muted,
                                     !.reopened = alert.reopened]
            BY <1>1, <3>1 DEF Breach!Alert
        <3>3. "acknowledged" \in Breach!Live
            BY DEF Breach!Live
        <3>. QED
            BY <2>6, <3>1, <3>2, <3>3
    <2>2. CASE Breach!Reopen
        <3>1. /\ alert.status \in Breach!Terminal
              /\ alert' = [alert EXCEPT !.status = "suspected", !.muted = "no",
                                        !.reopened = alert.reopened + 1]
            BY <1>1, <2>2 DEF Breach!Reopen, Breach!Operates, Breach!Alert
        <3>. QED
            BY <1>1, <3>1 DEF Breach!Live, Breach!Terminal
    <2>3. CASE Breach!Unsuppress
        <3>1. alert' = [alert EXCEPT !.muted = "no"]
            BY <2>3 DEF Breach!Unsuppress, Breach!Operates
        <3>2. alert' = [alert EXCEPT !.status = alert.status, !.muted = "no",
                                     !.reopened = alert.reopened]
            BY <1>1, <3>1 DEF Breach!Alert
        <3>. QED
            BY <1>1, <3>2 DEF Breach!Alert
    <2>4. ASSUME NEW how \in Breach!Terminal, Breach!Resolve(how)
          PROVE  /\ alert.status \in Breach!Live
                 /\ alert' = [alert EXCEPT !.status = how, !.muted = alert.muted,
                                           !.reopened = alert.reopened]
        <3>1. alert.status \in Breach!Live /\ alert' = [alert EXCEPT !.status = how]
            BY <2>4 DEF Breach!Resolve, Breach!Operates
        <3>. QED
            BY <1>1, <3>1 DEF Breach!Alert
    <2>5. ASSUME NEW how \in Suppressions, Breach!Suppress(how)
          PROVE  /\ alert.status \in Breach!Live /\ how \in {"timed", "forever"}
                 /\ alert' = [alert EXCEPT !.status = alert.status, !.muted = how,
                                           !.reopened = alert.reopened]
        <3>1. alert.status \in Breach!Live /\ alert' = [alert EXCEPT !.muted = how]
            BY <2>5 DEF Breach!Suppress, Breach!Operates
        <3>. QED
            BY <1>1, <3>1 DEF Breach!Alert, BreachInputs
    <2>7. CASE \E how \in Breach!Terminal : Breach!Resolve(how)
        BY <2>4, <2>6, <2>7
    <2>8. CASE \E how \in Suppressions : Breach!Suppress(how)
        BY <2>5, <2>6, <2>8
    <2>. QED
        BY <2>1, <2>2, <2>3, <2>7, <2>8
<1>3. /\ alert' \in Breach!Alert /\ alert'.count = alert.count /\ alert'.status = status
      /\ alert'.muted = muted /\ alert'.reopened = reopened
    BY <1>1, <1>2 DEF Breach!Alert
<1>4. UNCHANGED <<worker, evaluations>> /\ \A w \in Workers : worker[w].op # "raise"
    BY DEF Breach!Acknowledge, Breach!Reopen, Breach!Unsuppress, Breach!Resolve, Breach!Suppress,
           Breach!Operates, Breach!AlertFree
<1>5. status = "none" => evaluations = 0
    BY <1>1, <1>2 DEF AlertHeld, Breach!Alert, Breach!Live, Breach!Terminal
<1>. QED
    BY <1>2, <1>3, <1>4, <1>5 DEF AlertHeld

\* Containment is entered in an alert that is live and that nobody raises.
LEMMA ContainmentKeeps ==
    ASSUME AlertHeld, NEW w \in Workers, Breach!ExecuteCommits(w)
    PROVE  /\ AlertHeld'
           /\ alert.status \in Breach!Terminal => alert'.status = alert.status
<1>1. /\ worker' = [worker EXCEPT ![w] = Breach!Idle] /\ evaluations' = evaluations
      /\ worker[w].op = "counted"
    BY DEF Breach!ExecuteCommits, Breach!Ends
<1>2. CASE alert' = alert
    <2>1. Breach!Idle.op # "raise"
        BY DEF Breach!Idle
    <2>. QED
        BY <1>1, <1>2, <2>1, AlertRests
<1>3. CASE alert' # alert
    <2>1. /\ alert.status \in Breach!Live /\ alert' = [alert EXCEPT !.status = "contained"]
          /\ \A v \in Workers : worker[v].op # "raise"
        BY <1>3 DEF Breach!ExecuteCommits, Breach!Contained, Breach!AlertFree
    <2>2. /\ alert' \in Breach!Alert /\ alert'.count = alert.count /\ alert'.status = "contained"
        BY <2>1 DEF AlertHeld, Breach!Alert, Breach!Live
    <2>3. worker' = [v \in Workers |-> worker'[v]] /\ \A v \in Workers : worker'[v].op # "raise"
        BY <1>1, <2>1 DEF AlertHeld, Breach!Idle
    <2>4. alert.status \notin Breach!Terminal
        BY <2>1 DEF Breach!Live, Breach!Terminal
    <2>. QED
        BY <1>1, <2>2, <2>3, <2>4 DEF AlertHeld
<1>. QED
    BY <1>2, <1>3

\* One step of the alert.
LEMMA AlertStep ==
    ASSUME AlertHeld, BreachInputs, [Breach!Next]_Breach!vars
    PROVE  /\ AlertHeld'
           /\ alert.status \in Breach!Terminal /\ alert'.status \notin Breach!Terminal =>
                 alert'.reopened = alert.reopened + 1 /\ alert'.muted = "no"
<1>1. ASSUME NEW w \in Workers,
             \/ \E v \in Breach!Versions :
                   Breach!Assess(w, v) \/ Breach!Review(w, v) \/ Breach!Approve(w, v)
             \/ \E d \in Breach!Decisions :
                   \/ Breach!Create(w, d) \/ \E e \in Breach!Decisions : Breach!Supersede(w, d, e)
                   \/ \E v \in Breach!Versions : Breach!Decide(w, d, v)
             \/ \E a \in Actions :
                   Breach!Authorise(w, a) \/ \E ok \in BOOLEAN : Breach!Execute(w, a, ok)
             \/ Breach!CountIncomplete(w)
      PROVE  AlertHeld' /\ alert' = alert
    <2>1. /\ \E r : worker' = [worker EXCEPT ![w] = r] /\ r.op # "raise"
          /\ UNCHANGED <<alert, evaluations>>
        BY <1>1, BeginsElse, BeginsWrite
    <2>. QED
        BY <2>1, AlertRests
<1>2. ASSUME NEW w \in Workers, UNCHANGED <<alert, evaluations>>, Breach!Ends(w)
      PROVE  AlertHeld'
    <2>1. Breach!Idle.op # "raise"
        BY DEF Breach!Idle
    <2>. QED
        BY <1>2, <2>1, AlertRests DEF Breach!Ends
<1>3. ASSUME NEW w \in Workers,
             \/ \E verdict \in Breach!Verdicts : Breach!ReviewCommits(w, verdict)
             \/ Breach!CreateCommits(w) \/ Breach!SupersedeCommits(w)
             \/ Breach!AuthoriseCommits(w) \/ Breach!Fails(w)
      PROVE  AlertHeld' /\ alert' = alert
    <2>1. UNCHANGED <<alert, evaluations>> /\ Breach!Ends(w)
        BY <1>3 DEF Breach!ReviewCommits, Breach!CreateCommits, Breach!SupersedeCommits,
                    Breach!AuthoriseCommits, Breach!Fails
    <2>. QED
        BY <1>2, <2>1
<1>4. ASSUME NEW w \in Workers, NEW critical \in BOOLEAN,
             \/ Breach!AssessCommits(w, critical) \/ Breach!ApproveCommits(w, critical)
             \/ Breach!DecideCommits(w, critical)
      PROVE  AlertHeld' /\ (alert.status \in Breach!Terminal => alert'.status = alert.status)
    <2>1. Breach!Ends(w)
        BY <1>4 DEF Breach!AssessCommits, Breach!ApproveCommits, Breach!DecideCommits
    <2>2. \/ worker[w].op = "raise" /\ Breach!Evaluate(w, critical)
          \/ UNCHANGED <<alert, evaluations>>
        BY <1>4 DEF Breach!AssessCommits, Breach!ApproveCommits, Breach!DecideCommits,
                    Breach!Raises
    <2>. QED
        BY <1>2, <2>1, <2>2, EvaluationCounts
<1>5. ASSUME NEW w \in Workers, Breach!Raise(w)
      PROVE  AlertHeld' /\ alert' = alert
    BY <1>5, RaiseHolds DEF Breach!Raise
<1>6. CASE \/ \E d \in Breach!Decisions, verdict \in Breach!Verdicts :
                 Breach!ReviewDecision(d, verdict)
           \/ Breach!Confirm \/ UNCHANGED Breach!vars
    <2>1. UNCHANGED <<alert, evaluations, worker>>
        BY <1>6 DEF Breach!ReviewDecision, Breach!Confirm, Breach!vars
    <2>. QED
        BY <2>1 DEF AlertHeld
<1>. QED
    BY <1>1, <1>3, <1>4, <1>5, <1>6, OperationKeeps, ContainmentKeeps DEF Breach!Next

-----------------------------------------------------------------------------
(* Breach response: the decisions *)

\* Whoever goes on asking for the same finds its decision as it read it.
LEMMA HeldKeeps ==
    ASSUME HeldDecisions,
           \A v \in Workers :
              \/ Breach!Op(v)' \notin {"create", "supersede", "decide"}
              \/ /\ Breach!Request(v)' = Breach!Request(v)
                 /\ \/ decision' = decision
                    \/ Breach!Op(v) \notin {"create", "supersede", "decide"}
                    \/ /\ Breach!Op(v) = "decide"
                       /\ decision'[Breach!Target(v)] = decision[Breach!Target(v)]
                    \/ /\ Breach!Op(v) = "supersede"
                       /\ decision'[Breach!Target(v)] = decision[Breach!Target(v)]
                       /\ decision'[Breach!Request(v).new] = decision[Breach!Request(v).new]
    PROVE  HeldDecisions'
<1>1. ASSUME NEW v \in Workers, Breach!Op(v)' \in {"create", "supersede", "decide"}
      PROVE  /\ Breach!Request(v)' = Breach!Request(v) /\ Breach!Op(v)' = Breach!Op(v)
             /\ Breach!Target(v)' = Breach!Target(v)
    BY <1>1 DEF Breach!Op, Breach!Target
<1>2. ASSUME NEW w \in Workers, Breach!Op(w)' = "decide"
      PROVE  /\ Breach!Target(w)' \in Breach!Decisions
             /\ decision'[Breach!Target(w)'].status = "reviewed"
    <2>1. Breach!Op(w) = "decide" /\ Breach!Target(w)' = Breach!Target(w)
        BY <1>1, <1>2
    <2>2. decision'[Breach!Target(w)] = decision[Breach!Target(w)]
        BY <1>2, <2>1
    <2>. QED
        BY <2>1, <2>2 DEF HeldDecisions
<1>3. ASSUME NEW w \in Workers, Breach!Op(w)' = "create"
      PROVE  /\ Breach!Request(w)'.new \in Breach!Decisions /\ Breach!Request(w)'.version = 1
             /\ decision' = decision
             /\ \A d \in Breach!Decisions : ~ Breach!Exists(d)
    <2>1. Breach!Op(w) = "create" /\ Breach!Request(w)' = Breach!Request(w) /\ decision' = decision
        BY <1>1, <1>3
    <2>. QED
        BY <2>1 DEF HeldDecisions
<1>4. ASSUME NEW w \in Workers, Breach!Op(w)' = "supersede"
      PROVE  /\ Breach!Target(w)' \in Breach!Decisions
             /\ Breach!Request(w)'.new \in Breach!Decisions
             /\ decision'[Breach!Target(w)'].status = "approved"
             /\ decision'[Breach!Target(w)'].next = 0
             /\ ~ Breach!Exists(Breach!Request(w).new)'
             /\ Breach!Request(w)' = Breach!Request(w)
             /\ Breach!Request(w)'.version = decision'[Breach!Target(w)'].version + 1
    <2>1. /\ Breach!Op(w) = "supersede" /\ Breach!Target(w)' = Breach!Target(w)
          /\ Breach!Request(w)' = Breach!Request(w)
        BY <1>1, <1>4
    <2>2. /\ decision'[Breach!Target(w)] = decision[Breach!Target(w)]
          /\ decision'[Breach!Request(w).new] = decision[Breach!Request(w).new]
        BY <1>4, <2>1
    <2>3. /\ Breach!Target(w) \in Breach!Decisions /\ Breach!Request(w).new \in Breach!Decisions
          /\ decision[Breach!Target(w)].status = "approved"
          /\ decision[Breach!Target(w)].next = 0
          /\ ~ Breach!Exists(Breach!Request(w).new)
          /\ Breach!Request(w).version = decision[Breach!Target(w)].version + 1
        BY <2>1 DEF HeldDecisions
    <2>4. decision'[Breach!Request(w)'.new].status = "none"
        BY <2>1, <2>2, <2>3 DEF Breach!Exists
    <2>. QED
        BY <2>1, <2>2, <2>3, <2>4 DEF Breach!Exists
<1>5. \A v, w \in Workers :
          Breach!Op(v)' \in Writes /\ Breach!Op(w)' \in Writes => v = w
    BY <1>1 DEF HeldDecisions, Writes
<1>6. \A v, w \in Workers :
          /\ Breach!Op(v)' \in {"decide", "supersede"} /\ Breach!Op(w)' \in {"decide", "supersede"}
          /\ Breach!Target(v)' = Breach!Target(w)'
          => v = w
    BY <1>1 DEF HeldDecisions
<1>. QED
    <2>1. \A w \in Workers : Breach!Op(w)' = "create" =>
              \A d \in Breach!Decisions : decision'[d].status = "none"
        BY <1>3 DEF Breach!Exists
    <2>2. \A w \in Workers : Breach!Op(w)' = "supersede" =>
              decision'[Breach!Request(w)'.new].status = "none"
        BY <1>4 DEF Breach!Exists
    <2>. QED
        BY <1>2, <1>3, <1>4, <1>5, <1>6, <2>1, <2>2
        DEF HeldDecisions, Writes, Breach!Exists, Breach!Decisions

\* A request that begins, goes on or ends: what the others ask for stays.
LEMMA OthersAsk ==
    ASSUME AlertHeld, NEW w \in Workers, NEW r, worker' = [worker EXCEPT ![w] = r],
           r.op # "raise"
    PROVE  /\ Breach!Request(w)' = r /\ Breach!Op(w)' = r.op /\ Breach!Target(w)' = r.on
           /\ \A v \in Workers \ {w} :
                 /\ Breach!Request(v)' = Breach!Request(v) /\ Breach!Op(v)' = Breach!Op(v)
                 /\ Breach!Target(v)' = Breach!Target(v)
<1>1. \A v \in Workers : worker'[v] = IF v = w THEN r ELSE worker[v]
    BY DEF AlertHeld
<1>. QED
    BY <1>1 DEF Breach!Request, Breach!Op, Breach!Target

\* A request that has no decision to write, while the decisions rest.
LEMMA DecisionsRest ==
    ASSUME AlertHeld, Line, HeldDecisions, UNCHANGED decision,
           NEW w \in Workers, NEW r, worker' = [worker EXCEPT ![w] = r],
           r.op \notin {"raise", "create", "supersede", "decide"}
    PROVE  Line' /\ HeldDecisions'
<1>1. Line'
    BY DEF Line, Breach!Exists, Breach!Current
<1>2. \A v \in Workers : \/ Breach!Op(v)' \notin {"create", "supersede", "decide"}
                         \/ Breach!Request(v)' = Breach!Request(v)
    BY OthersAsk
<1>. QED
    BY <1>1, <1>2, HeldKeeps

\* Raising an alert goes on with the same request.
LEMMA RaiseAsks ==
    ASSUME AlertHeld, Line, HeldDecisions, NEW w \in Workers, Breach!Raise(w)
    PROVE  Line' /\ HeldDecisions'
<1>1. decision' = decision /\ worker[w].op # "raise"
    BY DEF Breach!Raise
<1>2. Line'
    BY <1>1 DEF Line, Breach!Exists, Breach!Current
<1>3. PICK r : /\ worker' = [worker EXCEPT ![w] = r]
               /\ r = [op |-> "raise", row |-> alert, by |-> worker[w]]
    BY DEF Breach!Raise
<1>4. \A v \in Workers : worker'[v] = IF v = w THEN r ELSE worker[v]
    BY <1>3 DEF AlertHeld
<1>5. r.op = "raise" /\ r.by = worker[w]
    BY <1>3
<1>6. \A v \in Workers : Breach!Request(v)' = Breach!Request(v)
    BY <1>1, <1>4, <1>5 DEF Breach!Request
<1>. QED
    BY <1>1, <1>2, <1>6, HeldKeeps

\* Without a decision at the end of the line there is none at all.
LEMMA NoneWithoutEnd ==
    ASSUME Line, Breach!Current = {}
    PROVE  \A d \in Breach!Decisions : ~ Breach!Exists(d)
BY DEF Line

\* The functions of the instance are those of the library.
LEMMA SameCardinality ==
    \A S : Breach!Cardinality(S) = Cardinality(S)
BY DEF Breach!Cardinality, Cardinality, Breach!IsFiniteSet, IsFiniteSet

\* A request that is about to write a decision.
LEMMA WriteBegins ==
    ASSUME AlertHeld, Line, HeldDecisions, NEW w \in Workers, NEW d \in Breach!Decisions,
           \/ Breach!Create(w, d)
           \/ \E e \in Breach!Decisions : Breach!Supersede(w, d, e)
           \/ \E v \in Breach!Versions : Breach!Decide(w, d, v)
    PROVE  Line' /\ HeldDecisions'
<1>1. PICK r : /\ worker' = [worker EXCEPT ![w] = r] /\ r.on = d
               /\ \/ /\ r.op = "create" /\ r.new = d /\ r.version = Breach!NextVersion
                     /\ Breach!IncidentFree /\ Breach!Current = {} /\ Breach!New(d)
                  \/ /\ r.op = "supersede" /\ r.new \in Breach!Decisions
                     /\ r.version = decision[d].version + 1 /\ Breach!New(r.new)
                     /\ Breach!DecisionFree(d) /\ Breach!IncidentFree
                     /\ decision[d].status = "approved" /\ decision[d].next = 0
                  \/ /\ r.op = "decide" /\ decision[d].status = "reviewed"
                     /\ Breach!DecisionFree(d)
    BY BeginsWrite
<1>2. decision' = decision
    BY BeginsWrite
<1>3. Line'
    BY <1>2 DEF Line, Breach!Exists, Breach!Current
<1>4. /\ Breach!Request(w)' = r /\ Breach!Op(w)' = r.op /\ Breach!Target(w)' = d
      /\ \A v \in Workers \ {w} :
            /\ Breach!Request(v)' = Breach!Request(v) /\ Breach!Op(v)' = Breach!Op(v)
            /\ Breach!Target(v)' = Breach!Target(v)
    BY <1>1, OthersAsk
<1>5. r.op \in Writes => \A v \in Workers : Breach!Op(v) \notin Writes
    BY <1>1 DEF Breach!IncidentFree, Writes
<1>6. r.op \in {"decide", "supersede"} => \A v \in Workers :
          Breach!Op(v) \in {"decide", "supersede"} => Breach!Target(v) # d
    BY <1>1 DEF Breach!DecisionFree
<1>7. r.op = "create" => /\ r.new \in Breach!Decisions /\ r.version = 1
                         /\ \A e \in Breach!Decisions : ~ Breach!Exists(e)
    <2>1. SUFFICES ASSUME r.op = "create" PROVE r.version = 1 /\ r.new \in Breach!Decisions
                                              /\ \A e \in Breach!Decisions : ~ Breach!Exists(e)
        OBVIOUS
    <2>2. r.new = d /\ r.version = Breach!NextVersion /\ Breach!Current = {}
        BY <1>1, <2>1
    <2>3. \A e \in Breach!Decisions : ~ Breach!Exists(e)
        BY <2>2, NoneWithoutEnd
    <2>4. {e \in Breach!Decisions : Breach!Exists(e)} = {}
        BY <2>3
    <2>5. Breach!NextVersion = 1
        BY <2>4, SameCardinality, FS_EmptySet DEF Breach!NextVersion
    <2>. QED
        BY <2>2, <2>3, <2>5
<1>8. r.op = "supersede" => ~ Breach!Exists(r.new)
    BY <1>1 DEF Breach!New, Breach!Unused
<1>9. \A v, u \in Workers : Breach!Op(v)' \in Writes /\ Breach!Op(u)' \in Writes => v = u
    BY <1>4, <1>5 DEF HeldDecisions
<1>10. \A v, u \in Workers :
          /\ Breach!Op(v)' \in {"decide", "supersede"} /\ Breach!Op(u)' \in {"decide", "supersede"}
          /\ Breach!Target(v)' = Breach!Target(u)'
          => v = u
    BY <1>4, <1>6 DEF HeldDecisions
<1>11. \A v \in Workers : Breach!Op(v)' = "decide" =>
          /\ Breach!Target(v)' \in Breach!Decisions
          /\ decision[Breach!Target(v)'].status = "reviewed"
    BY <1>1, <1>4 DEF HeldDecisions
<1>12. \A v \in Workers : Breach!Op(v)' = "create" =>
          /\ Breach!Request(v)'.new \in Breach!Decisions /\ Breach!Request(v)'.version = 1
          /\ \A e \in Breach!Decisions : decision[e].status = "none"
    BY <1>4, <1>7 DEF HeldDecisions, Breach!Exists
<1>13. \A v \in Workers : Breach!Op(v)' = "supersede" =>
          /\ Breach!Target(v)' \in Breach!Decisions /\ Breach!Request(v)'.new \in Breach!Decisions
          /\ decision[Breach!Target(v)'].status = "approved"
          /\ decision[Breach!Target(v)'].next = 0
          /\ decision[Breach!Request(v)'.new].status = "none"
          /\ Breach!Request(v)'.version = decision[Breach!Target(v)'].version + 1
    BY <1>1, <1>4, <1>8 DEF HeldDecisions, Breach!Exists
<1>14. HeldDecisions'
    BY <1>2, <1>9, <1>10, <1>11, <1>12, <1>13 DEF HeldDecisions, Writes, Breach!Exists, Breach!Decisions
<1>. QED
    BY <1>3, <1>14

\* A decision that is reviewed or approved stays where it is in the line.
LEMMA StatusMoves ==
    ASSUME Line, NEW d \in Breach!Decisions,
           decision[d].status \in {"draft", "changes_required", "reviewed"},
           NEW verdict \in {"reviewed", "changes_required", "approved"},
           decision' = [decision EXCEPT ![d].status = verdict]
    PROVE  /\ Line'
           /\ \A e \in Breach!Decisions \ {d} : decision'[e] = decision[e]
<1>1. decision \in [Breach!Decisions -> Breach!Decision]
    BY DEF Line
<1>2. decision'[d] = [decision[d] EXCEPT !.status = verdict]
    BY <1>1
<1>3. /\ decision'[d].status = verdict /\ decision'[d].next = decision[d].next
      /\ decision'[d].version = decision[d].version /\ decision'[d] \in Breach!Decision
    BY <1>1, <1>2 DEF Breach!Decision, Breach!ReviewStatus
<1>4. \A e \in Breach!Decisions \ {d} : decision'[e] = decision[e]
    BY <1>1
<1>5. decision' \in [Breach!Decisions -> Breach!Decision]
    BY <1>1, <1>3, <1>4
<1>6. \A e \in Breach!Decisions :
          /\ decision'[e].next = decision[e].next /\ decision'[e].version = decision[e].version
          /\ decision'[e].status = "superseded" <=> decision[e].status = "superseded"
          /\ Breach!Exists(e)' <=> Breach!Exists(e)
    BY <1>3, <1>4 DEF Breach!Exists
<1>7. Breach!Current' = Breach!Current
    BY <1>6 DEF Breach!Current, Breach!Exists, Breach!Decisions
<1>8. \A e \in Breach!Decisions : decision[e].next # 0 => decision[e].next \in Breach!Decisions
    BY <1>1 DEF Breach!Decision, Breach!Decisions
<1>9. Breach!Current \subseteq Breach!Decisions
    BY DEF Breach!Current
<1>10. \A e \in Breach!Decisions :
          /\ decision'[e].status = "superseded" <=> decision'[e].next # 0
          /\ decision'[e].next # 0 =>
                decision'[decision'[e].next].version = decision'[e].version + 1
          /\ decision'[e].status # "none" <=> decision'[e].version # 0
          /\ decision'[e].status # "none" =>
                \E c \in Breach!Current : decision'[e].version <= decision'[c].version
    BY <1>6, <1>8, <1>9 DEF Line, Breach!Exists
<1>11. /\ \A e, c \in Breach!Decisions :
              decision'[e].status # "none" /\ decision'[e].version = decision'[c].version => e = c
       /\ \A e, c \in Breach!Current : e = c
    BY <1>6 DEF Line, Breach!Exists
<1>12. Line'
    BY <1>5, <1>7, <1>10, <1>11 DEF Line, Breach!Exists, Breach!Decisions, Breach!Decision
<1>. QED
    BY <1>4, <1>12

\* A review, under the lock of its row.
LEMMA ReviewKeeps ==
    ASSUME AlertHeld, Line, HeldDecisions, NEW d \in Breach!Decisions,
           NEW verdict \in Breach!Verdicts, Breach!ReviewDecision(d, verdict)
    PROVE  Line' /\ HeldDecisions'
<1>1. /\ decision[d].status \in {"draft", "changes_required"}
      /\ decision' = [decision EXCEPT ![d].status = verdict]
      /\ Breach!DecisionFree(d) /\ worker' = worker
    BY DEF Breach!ReviewDecision
<1>2. /\ Line'
      /\ \A e \in Breach!Decisions \ {d} : decision'[e] = decision[e]
    BY <1>1, StatusMoves DEF Breach!Verdicts
<1>3. \A v \in Workers : Breach!Request(v)' = Breach!Request(v)
    BY <1>1 DEF Breach!Request
<1>4. Breach!Exists(d)
    BY <1>1 DEF Breach!Exists
<1>5. \A v \in Workers :
          /\ Breach!Op(v) # "create"
          /\ Breach!Op(v) = "decide" => decision'[Breach!Target(v)] = decision[Breach!Target(v)]
          /\ Breach!Op(v) = "supersede" =>
                /\ decision'[Breach!Target(v)] = decision[Breach!Target(v)]
                /\ decision'[Breach!Request(v).new] = decision[Breach!Request(v).new]
    BY <1>1, <1>2, <1>4 DEF HeldDecisions, Breach!DecisionFree
<1>. QED
    BY <1>2, <1>3, <1>5, HeldKeeps

\* An approval, by the one request that holds its row.
LEMMA DecisionApproved ==
    ASSUME AlertHeld, Line, HeldDecisions, NEW w \in Workers, NEW critical \in BOOLEAN,
           Breach!DecideCommits(w, critical)
    PROVE  Line' /\ HeldDecisions'
<1> DEFINE d == Breach!Target(w)
<1>1. Breach!Op(w) = "decide" /\ decision' = [decision EXCEPT ![d].status = "approved"]
    BY DEF Breach!DecideCommits, Breach!Raises, Breach!Op, Breach!Target, Breach!Request
<1>2. d \in Breach!Decisions /\ decision[d].status = "reviewed"
    BY <1>1 DEF HeldDecisions
<1>3. worker' = [worker EXCEPT ![w] = Breach!Idle]
    BY DEF Breach!DecideCommits, Breach!Ends
<1>4. Breach!Idle.op = "idle"
    BY DEF Breach!Idle
<1> HIDE DEF d
<1>5. /\ Line'
      /\ \A e \in Breach!Decisions \ {d} : decision'[e] = decision[e]
    BY <1>1, <1>2, StatusMoves
<1>6. /\ Breach!Op(w)' = "idle"
      /\ \A v \in Workers \ {w} : Breach!Request(v)' = Breach!Request(v)
    BY <1>3, <1>4, OthersAsk
<1>7. \A v \in Workers \ {w} :
          /\ Breach!Op(v) # "create"
          /\ Breach!Op(v) = "decide" => decision'[Breach!Target(v)] = decision[Breach!Target(v)]
          /\ Breach!Op(v) = "supersede" =>
                /\ decision'[Breach!Target(v)] = decision[Breach!Target(v)]
                /\ decision'[Breach!Request(v).new] = decision[Breach!Request(v).new]
    BY <1>1, <1>2, <1>5 DEF HeldDecisions, Breach!Exists, d
<1>. QED
    BY <1>5, <1>6, <1>7, HeldKeeps

\* The first decision of the incident.
LEMMA DecisionCreated ==
    ASSUME AlertHeld, Line, HeldDecisions, BreachInputs, NEW w \in Workers,
           Breach!CreateCommits(w)
    PROVE  Line' /\ HeldDecisions'
<1>1. /\ worker[w].op = "create" /\ worker' = [worker EXCEPT ![w] = Breach!Idle]
      /\ decision' = [decision EXCEPT ![worker[w].new] =
                         [status |-> "draft", version |-> worker[w].version, next |-> 0]]
    BY DEF Breach!CreateCommits, Breach!Ends
<1>2. Breach!Op(w) = "create" /\ Breach!Request(w) = worker[w]
    BY <1>1 DEF Breach!Op, Breach!Request
<1>3. /\ worker[w].new \in Breach!Decisions /\ worker[w].version = 1
      /\ \A e \in Breach!Decisions : ~ Breach!Exists(e)
    BY <1>2 DEF HeldDecisions
<1>4. PICK d \in Breach!Decisions : d = worker[w].new
    BY <1>3
<1>5. decision \in [Breach!Decisions -> Breach!Decision]
    BY DEF Line
<1>6. /\ decision'[d] = [status |-> "draft", version |-> 1, next |-> 0]
      /\ \A e \in Breach!Decisions \ {d} : decision'[e] = decision[e]
      /\ decision' = [e \in Breach!Decisions |-> decision'[e]]
    BY <1>1, <1>3, <1>4, <1>5
<1>7. /\ decision'[d].status = "draft" /\ decision'[d].version = 1 /\ decision'[d].next = 0
      /\ decision'[d] \in Breach!Decision
    BY <1>6 DEF Breach!Decision, Breach!ReviewStatus, BreachInputs
<1>8. \A e \in Breach!Decisions \ {d} :
          decision'[e].status = "none" /\ decision'[e].version = 0 /\ decision'[e].next = 0
    BY <1>3, <1>6 DEF Line, Breach!Exists
<1>9. decision' \in [Breach!Decisions -> Breach!Decision]
    BY <1>5, <1>6, <1>7
<1>10. Breach!Current' = {d}
    BY <1>7, <1>8 DEF Breach!Current, Breach!Exists, Breach!Decisions
<1>11. Line'
    BY <1>7, <1>8, <1>9, <1>10
    DEF Line, Breach!Exists, Breach!Decisions, Breach!Decision
<1>12. Breach!Idle.op = "idle"
    BY DEF Breach!Idle
<1>13. /\ Breach!Op(w)' = "idle"
       /\ \A v \in Workers \ {w} : Breach!Request(v)' = Breach!Request(v)
    BY <1>1, <1>12, OthersAsk
<1>14. \A v \in Workers \ {w} : Breach!Op(v) \notin {"create", "supersede", "decide"}
    BY <1>2, <1>3 DEF HeldDecisions, Writes, Breach!Exists
<1>. QED
    BY <1>11, <1>13, <1>14, HeldKeeps

\* The next one, after the end of the line.
LEMMA DecisionSuperseded ==
    ASSUME AlertHeld, Line, HeldDecisions, BreachInputs, NEW w \in Workers,
           Breach!SupersedeCommits(w)
    PROVE  Line' /\ HeldDecisions'
<1>1. /\ worker[w].op = "supersede" /\ worker' = [worker EXCEPT ![w] = Breach!Idle]
      /\ decision' = [decision EXCEPT
             ![worker[w].on].status = "superseded", ![worker[w].on].next = worker[w].new,
             ![worker[w].new] = [status |-> "draft", version |-> worker[w].version, next |-> 0]]
    BY DEF Breach!SupersedeCommits, Breach!Ends
<1>2. Breach!Op(w) = "supersede" /\ Breach!Request(w) = worker[w] /\ Breach!Target(w) = worker[w].on
    BY <1>1 DEF Breach!Op, Breach!Request, Breach!Target
<1>3. /\ worker[w].on \in Breach!Decisions /\ worker[w].new \in Breach!Decisions
      /\ decision[worker[w].on].status = "approved" /\ decision[worker[w].on].next = 0
      /\ ~ Breach!Exists(worker[w].new)
      /\ worker[w].version = decision[worker[w].on].version + 1
    BY <1>2 DEF HeldDecisions
<1>4. PICK d \in Breach!Decisions, e \in Breach!Decisions, n \in Nat :
          d = worker[w].on /\ e = worker[w].new /\ n = decision[d].version
    BY <1>3 DEF Line, Breach!Decision
<1>5. /\ d # e /\ worker[w].version = n + 1 /\ n + 1 \in Nat
      /\ decision[d].status = "approved" /\ decision[d].next = 0 /\ decision[d].version = n
      /\ decision[e].status = "none"
    BY <1>3, <1>4 DEF Breach!Exists
<1>6. decision \in [Breach!Decisions -> Breach!Decision]
    BY DEF Line
<1>7. decision' = [decision EXCEPT ![d].status = "superseded", ![d].next = e,
                       ![e] = [status |-> "draft", version |-> n + 1, next |-> 0]]
    BY <1>1, <1>4, <1>5
<1>8. /\ decision'[d] = [decision[d] EXCEPT !.status = "superseded", !.next = e]
      /\ decision'[e] = [status |-> "draft", version |-> n + 1, next |-> 0]
      /\ \A c \in Breach!Decisions \ {d, e} : decision'[c] = decision[c]
      /\ decision' = [c \in Breach!Decisions |-> decision'[c]]
    BY <1>5, <1>6, <1>7
<1>9. /\ decision'[d].status = "superseded" /\ decision'[d].next = e /\ decision'[d].version = n
      /\ decision'[d] \in Breach!Decision
    <2>1. e # 0 /\ e \in 0..MaxDecision
        BY DEF Breach!Decisions, BreachInputs
    <2>. QED
        BY <1>5, <1>6, <1>8, <2>1 DEF Breach!Decision, Breach!ReviewStatus
<1>10. /\ decision'[e].status = "draft" /\ decision'[e].next = 0 /\ decision'[e].version = n + 1
       /\ decision'[e] \in Breach!Decision
    BY <1>5, <1>8 DEF Breach!Decision, Breach!ReviewStatus, BreachInputs
<1>11. decision' \in [Breach!Decisions -> Breach!Decision]
    BY <1>6, <1>8, <1>9, <1>10
<1>12. \A c \in Breach!Current : c = d
    BY <1>5 DEF Line, Breach!Current, Breach!Exists
<1>13. \A c \in Breach!Decisions \ {d} : decision[c].status # "none" => decision[c].next # 0
    BY <1>12 DEF Breach!Current, Breach!Exists
<1>14. \A c \in Breach!Decisions :
          decision[c].status # "none" => decision[c].version \in Nat /\ decision[c].version <= n
    BY <1>4, <1>6, <1>12 DEF Line, Breach!Exists, Breach!Decision
<1>15. Breach!Current' = {e}
    <2>1. \A c \in Breach!Decisions :
              decision'[c].status # "none" /\ decision'[c].next = 0 <=> c = e
        <3>1. e # 0
            BY DEF Breach!Decisions
        <3>2. ~ (decision'[d].status # "none" /\ decision'[d].next = 0)
            BY <1>9, <3>1
        <3>3. decision'[e].status # "none" /\ decision'[e].next = 0
            BY <1>10
        <3>4. \A c \in Breach!Decisions \ {d, e} :
                  ~ (decision'[c].status # "none" /\ decision'[c].next = 0)
            BY <1>8, <1>13
        <3>. QED
            BY <1>5, <3>2, <3>3, <3>4
    <2>. QED
        BY <2>1 DEF Breach!Current, Breach!Exists, Breach!Decisions
<1>16. Line'
    <2>1. ASSUME NEW c \in Breach!Decisions \ {d, e}
          PROVE  /\ decision'[c] = decision[c] /\ decision[c] \in Breach!Decision
                 /\ decision[c].status = "superseded" <=> decision[c].next # 0
                 /\ decision[c].next # 0 => decision[c].next \in Breach!Decisions
                 /\ decision[c].status # "none" =>
                       /\ decision[c].next # 0 /\ decision[c].version \in Nat
                       /\ decision[c].version < n
                 /\ decision[c].status # "none" <=> decision[c].version # 0
        <3>1. /\ decision[c].status = "superseded" <=> decision[c].next # 0
              /\ decision[c].status # "none" <=> decision[c].version # 0
            BY DEF Line, Breach!Exists
        <3>2. decision[c].status # "none" => decision[c].version # n
            BY <1>4, <1>5 DEF Line, Breach!Exists
        <3>3. decision[c].next # 0 => decision[c].next \in Breach!Decisions
            BY <1>6 DEF Breach!Decision, Breach!Decisions
        <3>4. decision[c].status # "none" => decision[c].version \in Nat /\ decision[c].version < n
            BY <1>4, <1>14, <3>2
        <3>. QED
            BY <1>6, <1>8, <1>13, <3>1, <3>3, <3>4
    <2>2. ASSUME NEW c \in Breach!Decisions \ {d, e}, decision[c].next # 0
          PROVE  decision'[decision'[c].next].version = decision'[c].version + 1
        <3>1. decision[decision[c].next].version = decision[c].version + 1
            BY <2>2 DEF Line
        <3>2. PICK f \in Breach!Decisions : f = decision[c].next
            BY <2>1, <2>2
        <3>3. decision[c].status # "none" /\ decision[c].version \in Nat
            BY <2>1, <2>2, <1>6 DEF Breach!Decision
        <3>4. decision[e].version = 0
            BY <1>5 DEF Line, Breach!Exists
        <3>5. f # e
            BY <3>1, <3>2, <3>3, <3>4
        <3>6. decision'[f].version = decision[f].version
            BY <1>5, <1>8, <1>9, <3>5
        <3>. QED
            BY <2>1, <3>1, <3>2, <3>6
    <2>3. \A c \in Breach!Decisions :
              /\ decision'[c].status = "superseded" <=> decision'[c].next # 0
              /\ decision'[c].next # 0 =>
                    decision'[decision'[c].next].version = decision'[c].version + 1
        <3>1. e # 0
            BY DEF Breach!Decisions
        <3>. QED
            BY <1>5, <1>9, <1>10, <2>1, <2>2, <3>1
    <2>4. n # 0 /\ n + 1 # 0 /\ n < n + 1 /\ n <= n + 1
        BY <1>4, <1>5 DEF Line, Breach!Exists
    <2>5. \A c \in Breach!Decisions :
              /\ decision'[c].status # "none" <=> decision'[c].version # 0
              /\ decision'[c].status # "none" => decision'[c].version <= n + 1
        BY <1>4, <1>5, <1>9, <1>10, <2>1, <2>4
    <2>6. \A c, f \in Breach!Decisions :
              decision'[c].status # "none" /\ decision'[c].version = decision'[f].version => c = f
        <3>1. ASSUME NEW c \in Breach!Decisions \ {d, e}, NEW f \in Breach!Decisions \ {d, e},
                     decision'[c].status # "none", decision'[c].version = decision'[f].version
              PROVE  c = f
            BY <2>1, <3>1 DEF Line, Breach!Exists
        <3>2. ASSUME NEW c \in Breach!Decisions \ {d, e}
              PROVE  decision'[c].version # n /\ decision'[c].version # n + 1
            BY <1>4, <2>1, <2>4
        <3>. QED
            BY <1>4, <1>9, <1>10, <2>4, <3>1, <3>2
    <2>. QED
        BY <1>10, <1>11, <1>15, <2>3, <2>5, <2>6
        DEF Line, Breach!Exists, Breach!Decisions, Breach!Decision
<1>17. Breach!Idle.op = "idle"
    BY DEF Breach!Idle
<1>18. /\ Breach!Op(w)' = "idle"
       /\ \A v \in Workers \ {w} : Breach!Request(v)' = Breach!Request(v)
    BY <1>1, <1>17, OthersAsk
<1>19. \A v \in Workers \ {w} :
          /\ Breach!Op(v) \notin {"create", "supersede"}
          /\ Breach!Op(v) = "decide" => decision'[Breach!Target(v)] = decision[Breach!Target(v)]
    BY <1>2, <1>4, <1>5, <1>8 DEF HeldDecisions, Writes
<1>. QED
    BY <1>16, <1>18, <1>19, HeldKeeps

\* One step of the decisions.
LEMMA DecisionStep ==
    ASSUME AlertHeld, Line, HeldDecisions, BreachInputs, [Breach!Next]_Breach!vars
    PROVE  Line' /\ HeldDecisions'
<1>1. ASSUME NEW w \in Workers,
             \/ \E v \in Breach!Versions :
                   Breach!Assess(w, v) \/ Breach!Review(w, v) \/ Breach!Approve(w, v)
             \/ \E a \in Actions :
                   Breach!Authorise(w, a) \/ \E ok \in BOOLEAN : Breach!Execute(w, a, ok)
             \/ Breach!CountIncomplete(w)
      PROVE  Line' /\ HeldDecisions'
    BY <1>1, BeginsElse, DecisionsRest
<1>2. ASSUME NEW w \in Workers,
             \E d \in Breach!Decisions :
                   \/ Breach!Create(w, d) \/ \E e \in Breach!Decisions : Breach!Supersede(w, d, e)
                   \/ \E v \in Breach!Versions : Breach!Decide(w, d, v)
      PROVE  Line' /\ HeldDecisions'
    BY <1>2, WriteBegins
<1>3. ASSUME NEW w \in Workers,
             \/ \E verdict \in Breach!Verdicts : Breach!ReviewCommits(w, verdict)
             \/ Breach!AuthoriseCommits(w) \/ Breach!ExecuteCommits(w) \/ Breach!Fails(w)
             \/ \E critical \in BOOLEAN :
                   Breach!AssessCommits(w, critical) \/ Breach!ApproveCommits(w, critical)
      PROVE  Line' /\ HeldDecisions'
    <2>1. UNCHANGED decision /\ Breach!Ends(w)
        BY <1>3 DEF Breach!ReviewCommits, Breach!AuthoriseCommits, Breach!ExecuteCommits,
                    Breach!Fails, Breach!AssessCommits, Breach!ApproveCommits
    <2>2. Breach!Idle.op = "idle"
        BY DEF Breach!Idle
    <2>. QED
        BY <2>1, <2>2, DecisionsRest DEF Breach!Ends
<1>4. CASE \/ Breach!Acknowledge \/ Breach!Reopen \/ Breach!Unsuppress
           \/ \E how \in Breach!Terminal : Breach!Resolve(how)
           \/ \E how \in Suppressions : Breach!Suppress(how)
           \/ Breach!Confirm \/ UNCHANGED Breach!vars
    <2>1. UNCHANGED <<decision, worker>>
        BY <1>4 DEF Breach!Acknowledge, Breach!Reopen, Breach!Unsuppress, Breach!Resolve,
                    Breach!Suppress, Breach!Operates, Breach!Confirm, Breach!vars
    <2>2. Line'
        BY <2>1 DEF Line, Breach!Exists, Breach!Current
    <2>3. \A v \in Workers : Breach!Request(v)' = Breach!Request(v)
        BY <2>1 DEF Breach!Request
    <2>. QED
        BY <2>1, <2>2, <2>3, HeldKeeps
<1>. QED
    BY <1>1, <1>2, <1>3, <1>4, RaiseAsks, ReviewKeeps, DecisionApproved, DecisionCreated,
       DecisionSuperseded DEF Breach!Next

\* The line of decisions is one chain, and the alert has counted every evaluation.
LEMMA RecordsOfInvariant ==
    ASSUME BreachInv
    PROVE  Breach!BreachRecordsTrue
<1>1. Breach!Cardinality(Breach!Current) <= 1
    <2>1. CASE Breach!Current = {}
        BY <2>1, SameCardinality, FS_EmptySet
    <2>2. CASE Breach!Current # {}
        <3>1. PICK d \in Breach!Current : Breach!Current = {d}
            BY <2>2 DEF BreachInv, Line, Breach!Current
        <3>2. Cardinality({d}) = 1
            BY FS_Singleton
        <3>3. Breach!Cardinality(Breach!Current) = 1
            BY <3>1, <3>2, SameCardinality
        <3>. QED
            BY <3>3
    <2>. QED
        BY <2>1, <2>2
<1>2. \A d \in Breach!Decisions :
          /\ decision[d].status = "superseded" <=> decision[d].next # 0
          /\ decision[d].next # 0 =>
                decision[decision[d].next].version = decision[d].version + 1
          /\ \A e \in Breach!Decisions :
                Breach!Exists(d) /\ decision[d].version = decision[e].version => d = e
    BY DEF BreachInv, Line
<1>3. alert.count = evaluations
    BY DEF BreachInv, AlertHeld
<1>. QED
    BY <1>1, <1>2, <1>3, Zenon
    DEF Breach!BreachRecordsTrue, Breach!OneDecisionChain, Breach!EveryOccurrenceCounted

\* The decisions on the incident are one line of versions with one end, whatever creations,
\* supersessions, reviews and approvals run together, and an alert's occurrences are the
\* evaluations that were committed: for any number of requests, records and evaluations
\* (breach_decision_workflow_service.py, privacy_breach_alert_service.py).
THEOREM BreachRecords ==
    ASSUME BreachInputs
    PROVE  Breach!Spec => []BreachRecordsTrue
<1>1. Breach!Init => BreachInv
    BY BreachInit
<1>2. BreachInv /\ [Breach!Next]_Breach!vars => BreachInv'
    BY AlertStep, DecisionStep DEF BreachInv
<1>3. BreachInv => BreachRecordsTrue
    BY RecordsOfInvariant DEF BreachRecordsTrue
<1>. QED
    BY <1>1, <1>2, <1>3, PTL DEF Breach!Spec

\* Only reopening ends an alert's being closed, and it also ends its being muted: no
\* evaluation, approval or late containment brings it back.
THEOREM ClosedStays ==
    ASSUME BreachInputs
    PROVE  Breach!Spec => ClosedUntilReopened
<1>1. Breach!Init => BreachInv
    BY BreachInit
<1>2. BreachInv /\ [Breach!Next]_Breach!vars => BreachInv'
    BY AlertStep, DecisionStep DEF BreachInv
<1>3. BreachInv /\ [Breach!Next]_Breach!vars =>
          [ alert.status \in Breach!Terminal /\ alert'.status \notin Breach!Terminal =>
                alert'.reopened = alert.reopened + 1 /\ alert'.muted = "no" ]_Breach!vars
    BY AlertStep DEF BreachInv
<1>. QED
    BY <1>1, <1>2, <1>3, PTL DEF Breach!Spec, ClosedUntilReopened, Breach!ClosedUntilReopened

-----------------------------------------------------------------------------
(* Counterfactual studies *)

\* Files are numbered, and a signal asks for one of the things the scoring knows.
CaseConstants ==
    /\ IsFiniteSet(Files) /\ Files \subseteq Nat
    /\ \A c \in Causes : \A s \in Rule[c].signals :
          s.kind \in {"has", "lacks", "count", "near", "release"}

\* What a study says was searched for holds on the evidence it was made on.
StudiesEnough ==
    \A s \in studies : s.searched =>
        Counterfactual!RankOf([parsed   |-> s.on.parsed \ (s.tested \ s.minimal),
                               detected |-> s.on.detected \ (s.tested \ s.minimal)], s.cause) = 1

CaseInv == parsed \subseteq Files /\ detected \subseteq Files /\ StudiesEnough

\* Numbers have a least.
LEMMA LeastNumber ==
    ASSUME NEW T \in SUBSET Nat, T # {}
    PROVE  \E x \in T : \A y \in T : x <= y
<1>1. PICK R : R = OpToRel(<, Nat)
    OBVIOUS
<1>2. IsWellFoundedOn(R, Nat)
    BY <1>1, NatLessThanWellFounded
<1>3. PICK x \in T : \A y \in T : ~ (<<y, x>> \in R)
    BY <1>2, WFMin
<1>4. \A y \in T : ~ (y < x)
    BY <1>1, <1>3 DEF OpToRel
<1>. QED
    BY <1>4

\* The model counts with the standard library's operator.
LEMMA SameSizes ==
    \A S : Counterfactual!Cardinality(S) = Cardinality(S)
BY DEF Counterfactual!Cardinality, Cardinality, Counterfactual!IsFiniteSet, IsFiniteSet

\* What is taken for the least of some files is one of them.
LEMMA LeastFile ==
    ASSUME NEW T \in SUBSET Nat, T # {}
    PROVE  Counterfactual!Min(T) \in T
BY LeastNumber DEF Counterfactual!Min

\* f makes N choices in V, each from the one before.
Choices(N, V, first, step, f) ==
    /\ f \in [0..N -> V] /\ f[0] = first
    /\ \A n \in 1..N : f[n] = step[n][f[n - 1]]

\* A sequence of choices, each made from the one before, exists: by the least length
\* without one.
LEMMA ChoicesExist ==
    ASSUME NEW N \in Nat, NEW V, NEW first \in V, NEW step \in [1..N -> [V -> V]]
    PROVE  \E f : Choices(N, V, first, step, f)
<1>. DEFINE Upto(M, f) == /\ f \in [0..M -> V] /\ f[0] = first
                          /\ \A n \in 1..M : f[n] = step[n][f[n - 1]]
            without == {M \in 0..N : ~ \E f : Upto(M, f)}
<1>1. CASE without # {}
    <2>1. PICK M \in without : \A L \in without : M <= L
        <3>1. without \in SUBSET Nat
            OBVIOUS
        <3>. HIDE DEF without
        <3>. QED
            BY <1>1, <3>1, LeastNumber
    <2>2. M # 0
        <3>1. Upto(0, [n \in 0..0 |-> first])
            OBVIOUS
        <3>. QED
            BY <2>1, <3>1, ZenonT(60)
    <2>3. M - 1 \in 0..N /\ M \in 1..N
        BY <2>1, <2>2
    <2>. PICK K \in 0..N : K = M - 1 /\ M = K + 1
        BY <2>3
    <2>4. PICK f : Upto(K, f)
        <3>1. ~ (M <= K)
            BY <2>3
        <3>2. K \notin without
            BY <2>1, <3>1
        <3>. QED
            BY <3>2
    <2>5. PICK h : h = [n \in 0..M |-> IF n = M THEN step[M][f[K]] ELSE f[n]]
        OBVIOUS
    <2>6. Upto(M, h)
        <3>1. f[K] \in V /\ step[M][f[K]] \in V
            BY <2>3, <2>4
        <3>2. h \in [0..M -> V] /\ h[0] = first
            BY <2>3, <2>4, <2>5, <3>1
        <3>3. \A n \in 1..M : h[n] = step[n][h[n - 1]]
            BY <2>3, <2>4, <2>5
        <3>. QED
            BY <3>2, <3>3
    <2>. QED
        BY <2>1, <2>6
<1>2. CASE without = {}
    <2>1. \E f : Upto(N, f)
        BY <1>2, SMTT(30)
    <2>. QED
        BY <2>1 DEF Choices
<1>. QED
    BY <1>1, <1>2

\* Leaving out what the greedy search left out keeps the cause first, if it was: by the
\* first turn after which it is not.
LEMMA GreedyKeepsFirst ==
    ASSUME NEW c, NEW loss, IsFiniteSet(DOMAIN loss), Counterfactual!StillFirst(c, {})
    PROVE  Counterfactual!StillFirst(c, DOMAIN loss \ Counterfactual!Greedy(c, loss))
<1>. DEFINE D == DOMAIN loss
            less(a, b) == \/ loss[a].points < loss[b].points
                          \/ loss[a].points = loss[b].points /\ a < b
            turn(n) == {e \in D : Counterfactual!Cardinality({d \in D : less(d, e)}) = n - 1}
            keep(n, E) == IF Counterfactual!StillFirst(c, E \cup turn(n)) THEN E \cup turn(n) ELSE E
            N == Counterfactual!Cardinality(D)
            Rec(f) == f = [n \in 0..N |-> IF n = 0 THEN {} ELSE keep(n, f[n - 1])]
            out == CHOOSE f : Rec(f)
<1>1. N \in Nat
    BY FS_CardinalityType, SameSizes
<1>2. Counterfactual!Greedy(c, loss) = D \ out[N]
    BY Zenon DEF Counterfactual!Greedy
<1>3. \A n, E : E \in SUBSET D => keep(n, E) \in SUBSET D
    OBVIOUS
<1>4. \A n, E : Counterfactual!StillFirst(c, E) => Counterfactual!StillFirst(c, keep(n, E))
    OBVIOUS
<1>. HIDE DEF turn, keep, N, D
<1>5. Rec(out)
    <2>. PICK V : V = SUBSET D
        OBVIOUS
    <2>. PICK empty \in V : empty = {}
        OBVIOUS
    <2>. PICK step : step = [n \in 1..N |-> [E \in V |-> keep(n, E)]]
        OBVIOUS
    <2>1. step \in [1..N -> [V -> V]]
        BY <1>3
    <2>2. PICK f \in [0..N -> V] :
              f[0] = empty /\ \A n \in 1..N : f[n] = step[n][f[n - 1]]
        <3>1. \E f : Choices(N, V, empty, step, f)
            BY <1>1, <2>1, ChoicesExist
        <3>. QED
            BY <3>1 DEF Choices
    <2>3. Rec(f)
        <3>1. ASSUME NEW n \in 0..N, n # 0
              PROVE  step[n][f[n - 1]] = keep(n, f[n - 1])
            <4>1. n \in 1..N /\ n - 1 \in 0..N
                BY <1>1, <3>1
            <4>2. f[n - 1] \in V
                BY <4>1
            <4>. QED
                BY <4>1, <4>2
        <3>2. \A n \in 0..N : f[n] = IF n = 0 THEN {} ELSE keep(n, f[n - 1])
            <4>1. \A n \in 0..N : n # 0 => n \in 1..N
                BY <1>1
            <4>. QED
                BY <2>2, <3>1, <4>1
        <3>. QED
            BY <3>2
    <2>. HIDE DEF Rec
    <2>. QED
        BY <2>3
<1>6. out[N] \in SUBSET D /\ Counterfactual!StillFirst(c, out[N])
    <2>. PICK o : o = out
        OBVIOUS
    <2>1. \A n \in 0..N : o[n] = IF n = 0 THEN {} ELSE keep(n, o[n - 1])
        <3>1. Rec(o)
            BY <1>5
        <3>. QED
            BY <3>1
    <2>. DEFINE Fine(n) == o[n] \in SUBSET D /\ Counterfactual!StillFirst(c, o[n])
                bad == {n \in 0..N : ~ Fine(n)}
    <2>2. CASE bad # {}
        <3>1. PICK n \in bad : \A m \in bad : n <= m
            <4>1. bad \in SUBSET Nat
                OBVIOUS
            <4>. HIDE DEF bad
            <4>. QED
                BY <2>2, <4>1, LeastNumber
        <3>2. n # 0
            <4>1. o[0] = {}
                BY <1>1, <2>1
            <4>2. Fine(0)
                BY <4>1
            <4>. QED
                BY <3>1, <4>2
        <3>3. n - 1 \in 0..N /\ ~ (n <= n - 1)
            BY <1>1, <3>1, <3>2
        <3>4. Fine(n - 1)
            BY <3>1, <3>3
        <3>5. o[n] = keep(n, o[n - 1])
            BY <2>1, <3>1, <3>2
        <3>6. Fine(n)
            BY <1>3, <1>4, <3>4, <3>5
        <3>. QED
            BY <3>1, <3>6
    <2>3. CASE bad = {}
        <3>1. N \in 0..N
            BY <1>1
        <3>2. Fine(N)
            BY <2>3, <3>1
        <3>. QED
            BY <3>2
    <2>. QED
        BY <2>2, <2>3
<1>7. D \ (D \ out[N]) = out[N]
    BY <1>6
<1>. QED
    BY <1>2, <1>6, <1>7 DEF D

\* What stands behind a signal is among the files that were read.
LEMMA BackingIsRead ==
    ASSUME NEW ctx, ctx.parsed \subseteq Nat, NEW s,
           s.kind \in {"has", "lacks", "count", "near", "release"}
    PROVE  Counterfactual!Backing(ctx, s) \subseteq ctx.parsed \cup ctx.detected
<1>1. Counterfactual!Carrying(ctx, s.of) \subseteq ctx.parsed
    BY DEF Counterfactual!Carrying
<1>2. CASE s.kind = "has"
    BY <1>1, <1>2 DEF Counterfactual!Backing
<1>3. CASE s.kind = "lacks"
    BY <1>3 DEF Counterfactual!Backing
<1>4. CASE s.kind = "count"
    BY <1>4 DEF Counterfactual!Backing
<1>5. CASE s.kind = "near"
    BY <1>1, <1>5 DEF Counterfactual!Backing
<1>6. CASE s.kind = "release"
    <2>1. PICK early : early = {e \in Counterfactual!Carrying(ctx, s.of) :
                                    TimeOf[e] <= Counterfactual!First(ctx)}
        OBVIOUS
    <2>2. Counterfactual!Backing(ctx, s) = IF early = {} THEN {} ELSE {Counterfactual!Min(early)}
        BY <1>6, <2>1 DEF Counterfactual!Backing
    <2>3. early \in SUBSET Nat /\ early \subseteq ctx.parsed
        BY <1>1, <2>1
    <2>4. early # {} => Counterfactual!Min(early) \in early
        BY <2>3, LeastFile
    <2>. QED
        BY <2>2, <2>3, <2>4
<1>. QED
    BY <1>2, <1>3, <1>4, <1>5, <1>6

\* The files a study tests are files of the incident, and finitely many.
LEMMA TestedAreFiles ==
    ASSUME CaseConstants, parsed \subseteq Files, detected \subseteq Files, NEW c \in Causes
    PROVE  IsFiniteSet(Counterfactual!Tested(Counterfactual!Reading, c))
<1>0. PICK ctx : ctx = Counterfactual!Reading
    OBVIOUS
<1>1. ctx = Counterfactual!Reading /\ ctx.parsed = parsed /\ ctx.detected = detected
    BY <1>0 DEF Counterfactual!Reading, Counterfactual!Without
<1>2. \A s \in Counterfactual!InRole(ctx, c, "supports") :
          Counterfactual!Backing(ctx, s) \subseteq Files
    <2>1. ASSUME NEW s \in Rule[c].signals PROVE Counterfactual!Backing(ctx, s) \subseteq Files
        <3>1. s.kind \in {"has", "lacks", "count", "near", "release"}
            BY DEF CaseConstants
        <3>2. ctx.parsed \subseteq Nat
            BY <1>1 DEF CaseConstants
        <3>3. Counterfactual!Backing(ctx, s) \subseteq ctx.parsed \cup ctx.detected
            BY <3>1, <3>2, BackingIsRead
        <3>. QED
            BY <1>1, <3>3
    <2>. QED
        BY <2>1 DEF Counterfactual!InRole, Counterfactual!Counting
<1>3. \A b \in Counterfactual!Boosts(ctx, c) : Counterfactual!BoostFile(ctx, b) \in Files
    <2>1. ASSUME NEW b \in Counterfactual!Boosts(ctx, c)
          PROVE  Counterfactual!BoostFile(ctx, b) \in Files
        <3>1. PICK carry : carry = {e \in ctx.detected : FindingMarks[e] \cap b.of # {}}
            OBVIOUS
        <3>2. carry # {} /\ carry \in SUBSET Nat /\ carry \subseteq Files
            BY <1>1, <3>1 DEF Counterfactual!Boosts, CaseConstants
        <3>3. Counterfactual!BoostFile(ctx, b) = Counterfactual!Min(carry)
            BY <3>1 DEF Counterfactual!BoostFile
        <3>. QED
            BY <3>2, <3>3, LeastFile
    <2>. QED
        BY <2>1
<1>4. Counterfactual!Tested(ctx, c) \in SUBSET Files
    <2>1. ASSUME NEW e \in Counterfactual!Tested(ctx, c) PROVE e \in Files
        <3>. DEFINE backing == {Counterfactual!Backing(ctx, s) :
                                   s \in Counterfactual!InRole(ctx, c, "supports")}
                    boosting == {Counterfactual!BoostFile(ctx, b) :
                                   b \in Counterfactual!Boosts(ctx, c)}
        <3>0. e \in (UNION backing) \cup boosting
            <4>1. Counterfactual!Tested(ctx, c)
                      = {x \in (UNION backing) \cup boosting : TypeOf[x] \notin Counterfactual!Retest}
                          \ Counterfactual!Contradicting(ctx, c)
                BY DEF Counterfactual!Tested
            <4>. HIDE DEF backing, boosting
            <4>. QED
                BY <4>1
        <3>1. \/ \E s \in Counterfactual!InRole(ctx, c, "supports") :
                     e \in Counterfactual!Backing(ctx, s)
              \/ \E b \in Counterfactual!Boosts(ctx, c) : e = Counterfactual!BoostFile(ctx, b)
            BY <3>0
        <3>. QED
            BY <1>2, <1>3, <3>1
    <2>. QED
        BY <2>1
<1>. QED
    BY <1>1, <1>4, FS_Subset DEF CaseConstants

\* A study that is stored found a minimal set that is enough.
LEMMA StudyIsEnough ==
    ASSUME CaseConstants, CaseInv, NEW c \in Causes, NEW limit,
           Counterfactual!RunAnalysis(c, limit)
    PROVE  CaseInv'
<1>. PICK tested : tested = Counterfactual!Tested(Counterfactual!Reading, c)
                                \cap Counterfactual!Considered(Counterfactual!Reading, c, limit)
    OBVIOUS
<1>. PICK loss : loss = Counterfactual!Lost(c, tested)
    OBVIOUS
<1>1. PICK s : /\ s.cause = c /\ s.tested = tested /\ s.on = Counterfactual!Reading
               /\ s.searched = Counterfactual!Searched(c, tested)
               /\ s.minimal = IF s.searched THEN Counterfactual!Greedy(c, loss) ELSE {}
               /\ studies' = studies \cup {s}
    <2>1. PICK print : studies' = studies \cup
              {Counterfactual!Study(print, c, loss, Counterfactual!Searched(c, tested))}
        BY DEF Counterfactual!RunAnalysis, Counterfactual!Keep
    <2>2. PICK searched, on, stability, minimal :
              /\ searched = Counterfactual!Searched(c, tested) /\ on = Counterfactual!Reading
              /\ stability = Counterfactual!Stability(loss)
              /\ minimal = IF searched THEN Counterfactual!Greedy(c, loss) ELSE {}
        OBVIOUS
    <2>3. PICK s : s = [ print |-> print, cause |-> c, tested |-> tested, on |-> on,
                         stability |-> stability, searched |-> searched, minimal |-> minimal ]
        OBVIOUS
    <2>4. DOMAIN loss = tested
        BY DEF Counterfactual!Lost
    <2>5. s = Counterfactual!Study(print, c, loss, Counterfactual!Searched(c, tested))
        BY <2>2, <2>3, <2>4 DEF Counterfactual!Study
    <2>6. /\ s.cause = c /\ s.tested = tested /\ s.on = on /\ s.searched = searched
          /\ s.minimal = minimal
        BY <2>3
    <2>. QED
        BY <2>1, <2>2, <2>5, <2>6
<1>2. UNCHANGED <<parsed, detected>>
    BY DEF Counterfactual!RunAnalysis
<1>3. s.searched => Counterfactual!RankOf([parsed   |-> s.on.parsed \ (s.tested \ s.minimal),
                                           detected |-> s.on.detected \ (s.tested \ s.minimal)],
                                          s.cause) = 1
    <2>. SUFFICES ASSUME s.searched
                  PROVE  Counterfactual!RankOf([parsed   |-> s.on.parsed \ (s.tested \ s.minimal),
                                                detected |-> s.on.detected \ (s.tested \ s.minimal)],
                                               s.cause) = 1
        OBVIOUS
    <2>1. DOMAIN loss = tested /\ IsFiniteSet(tested)
        <3>1. IsFiniteSet(Counterfactual!Tested(Counterfactual!Reading, c))
            BY TestedAreFiles DEF CaseInv
        <3>2. tested \in SUBSET Counterfactual!Tested(Counterfactual!Reading, c)
            OBVIOUS
        <3>. QED
            BY <3>1, <3>2, FS_Subset DEF Counterfactual!Lost
    <2>2. Counterfactual!StillFirst(c, {})
        BY <1>1 DEF Counterfactual!Searched, Counterfactual!StillFirst, Counterfactual!Reading
    <2>3. Counterfactual!StillFirst(c, tested \ s.minimal)
        BY <1>1, <2>1, <2>2, GreedyKeepsFirst
    <2>4. s.on.parsed = parsed /\ s.on.detected = detected
        BY <1>1 DEF Counterfactual!Reading, Counterfactual!Without
    <2>5. Counterfactual!RankOf([parsed   |-> parsed \ (tested \ s.minimal),
                                 detected |-> detected \ (tested \ s.minimal)], c) = 1
        BY <2>3 DEF Counterfactual!StillFirst, Counterfactual!Without
    <2>. QED
        BY <1>1, <2>4, <2>5
<1>. QED
    BY <1>1, <1>2, <1>3 DEF CaseInv, StudiesEnough

\* Every step keeps the invariant.
LEMMA CaseStep ==
    ASSUME CaseConstants, CaseInv, [Counterfactual!Next]_Counterfactual!vars
    PROVE  CaseInv'
<1>1. ASSUME NEW e \in Files, \/ Counterfactual!Link(e) \/ Counterfactual!ParseEvidence(e)
                              \/ Counterfactual!DetectEvidence(e)
      PROVE  CaseInv'
    <2>1. studies' = studies /\ parsed' \subseteq Files /\ detected' \subseteq Files
        BY <1>1 DEF Counterfactual!Link, Counterfactual!ParseEvidence,
                    Counterfactual!DetectEvidence, CaseInv
    <2>. QED
        BY <2>1 DEF CaseInv, StudiesEnough
<1>2. CASE Counterfactual!Analyse \/ UNCHANGED Counterfactual!vars
    <2>1. UNCHANGED <<parsed, detected, studies>>
        BY <1>2 DEF Counterfactual!Analyse, Counterfactual!vars
    <2>. QED
        BY <2>1 DEF CaseInv, StudiesEnough
<1>. QED
    BY <1>1, <1>2, StudyIsEnough DEF Counterfactual!Next

\* For any rules, files and penalties: the evidence that a counterfactual study calls the
\* minimal set is enough.  On the evidence the study was made on, leaving out every other
\* supporting file keeps the cause first, although the search tries the files one by one and
\* scores move with each (counterfactual_analysis_service, run_analysis).
THEOREM MinimalSetsAreEnough ==
    ASSUME CaseConstants
    PROVE  Counterfactual!Spec => []MinimalSetIsEnough
<1>. SUFFICES ASSUME CaseConstants PROVE Counterfactual!Spec => []MinimalSetIsEnough
    OBVIOUS
<1>1. Counterfactual!Init => CaseInv
    BY DEF Counterfactual!Init, CaseInv, StudiesEnough
<1>2. CaseInv /\ [Counterfactual!Next]_Counterfactual!vars => CaseInv'
    BY CaseStep
<1>3. CaseInv => MinimalSetIsEnough
    BY DEF CaseInv, StudiesEnough, MinimalSetIsEnough, Counterfactual!MinimalSetIsEnough
<1>. QED
    BY <1>1, <1>2, <1>3, PTL DEF Counterfactual!Spec
=============================================================================
