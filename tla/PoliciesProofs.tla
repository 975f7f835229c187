---------------------------- MODULE PoliciesProofs ----------------------------
(****************************************************************************)
(* Policies, for any number of upserts of any versions and rule lists.      *)
(*                                                                          *)
(* The argument.  Rows are never deleted and their keys are unique, so each *)
(* belongs to one committed upsert for good (Ownership).  The snapshot of   *)
(* an UPDATE is taken at one moment, of whole upserts: those it saw.  Every *)
(* row of theirs that is still active is held in the end, and no row of any *)
(* other (Scans), so that a commit deactivates whole upserts and brings in  *)
(* a whole one, although it took the rows one by one.                       *)
(****************************************************************************)
EXTENDS Policies, TLAPS

Rows == (Versions \union {0}) \X STRING
Payload == [version : Versions \union {0}, rules : Seq(STRING)]
Tx == [at : {"idle", "update", "insert", "committed", "failed"},
       scan : SUBSET Rows, held : SUBSET Rows, added : SUBSET Rows, todo : Seq(STRING)]

TodoKeys(u) == {Key(u, tx[u].todo[i]) : i \in DOMAIN tx[u].todo}

PoliciesTyped ==
    /\ rows \subseteq Rows
    /\ active \subseteq rows
    /\ payload \in [Upserts -> Payload]
    /\ tx \in [Upserts -> Tx]
    /\ saw \in [Upserts -> SUBSET Upserts]
    /\ last \in Upserts \union {None}

\* A row is the committed upsert's that inserted it, and no other's.
Ownership ==
    /\ rows = UNION {Keys(u) : u \in Committed}
    /\ \A u, w \in Committed : u # w => Keys(u) \intersect Keys(w) = {}

\* What an open transaction has and has still to do.
Transaction(u) ==
    /\ ~Open(u) => tx[u].held = {} /\ tx[u].added = {}
    /\ Open(u) => Keys(u) = tx[u].added \union TodoKeys(u)
    /\ tx[u].at = "insert" => tx[u].scan = {}
    /\ tx[u].scan \subseteq rows
    /\ tx[u].added \intersect rows = {}
    /\ tx[u].held \subseteq active

\* Nobody holds or inserts what somebody else does.
Exclusion ==
    \A u, w \in Upserts : u # w =>
      /\ tx[u].held \intersect tx[w].held = {}
      /\ tx[u].added \intersect tx[w].added = {}

\* The scan is about the upserts that its snapshot saw, and about all of their rows.
Scans(u) ==
    /\ saw[u] \subseteq Committed
    /\ Open(u) =>
         /\ \A w \in saw[u] : Keys(w) \intersect active \subseteq tx[u].scan \union tx[u].held
         /\ \A w \in Committed \ saw[u] :
              Keys(w) \intersect (tx[u].scan \union tx[u].held) = {}
    /\ tx[u].at = "committed" => \A w \in saw[u] : Keys(w) \intersect active = {}

Whole == \A u \in Committed : Keys(u) \subseteq active \/ Keys(u) \intersect active = {}

PoliciesInv ==
    /\ PoliciesTyped
    /\ Ownership
    /\ \A u \in Upserts : Transaction(u) /\ Scans(u)
    /\ Exclusion
    /\ Whole
    /\ LatestInForce
    /\ last # None => last \in Committed

\* What is left of a payload is its first rule and the rest.
LEMMA HeadAndTail ==
  ASSUME NEW list \in Seq(STRING), list # <<>>
  PROVE  /\ Head(list) \in STRING
         /\ Tail(list) \in Seq(STRING)
         /\ \A i \in DOMAIN list : list[i] = Head(list)
                                     \/ \E j \in DOMAIN Tail(list) : list[i] = Tail(list)[j]
         /\ 1 \in DOMAIN list /\ list[1] = Head(list)
         /\ \A j \in DOMAIN Tail(list) : j + 1 \in DOMAIN list /\ Tail(list)[j] = list[j + 1]
<1>1. Len(list) \in Nat /\ Len(list) >= 1 /\ DOMAIN list = 1..Len(list)
  OBVIOUS
<1>2. Tail(list) \in Seq(STRING) /\ Len(Tail(list)) = Len(list) - 1
      /\ \A j \in 1..(Len(list) - 1) : Tail(list)[j] = list[j + 1]
  BY <1>1
<1>3. DOMAIN Tail(list) = 1..(Len(list) - 1)
  BY <1>1, <1>2
<1>4. ASSUME NEW i \in DOMAIN list, i # 1
      PROVE  \E j \in DOMAIN Tail(list) : list[i] = Tail(list)[j]
  <2>1. i - 1 \in DOMAIN Tail(list) /\ list[i] = Tail(list)[i - 1]
    BY <1>1, <1>2, <1>3, <1>4
  <2>2. QED
    BY <2>1
<1>5. QED
  BY <1>1, <1>2, <1>3, <1>4

\* The keys of an upsert do not change once it has begun.
LEMMA KeysSteady ==
  ASSUME NEW u \in Upserts, payload'[u] = payload[u]
  PROVE  Keys(u)' = Keys(u) /\ \A rule : Key(u, rule)' = Key(u, rule)
BY DEF Keys, Key

LEMMA KeysTyped ==
  ASSUME PoliciesTyped, NEW u \in Upserts
  PROVE  Keys(u) \subseteq Rows /\ TodoKeys(u) \subseteq Rows
BY DEF PoliciesTyped, Payload, Tx, Rows, Keys, TodoKeys, Key

\* A transaction that has ended keeps nothing.
LEMMA EndedType ==
  ASSUME NEW at \in {"committed", "failed"}
  PROVE  /\ Ended(at) \in Tx /\ Ended(at).at = at
         /\ Ended(at).scan = {} /\ Ended(at).held = {} /\ Ended(at).added = {}
<1>1. InitTx \in Tx /\ InitTx.scan = {} /\ InitTx.held = {} /\ InitTx.added = {}
  BY DEF InitTx, Tx
<1>2. QED
  BY <1>1 DEF Ended, Tx

LEMMA PoliciesInitially == Init => PoliciesInv
<1> SUFFICES ASSUME Init PROVE PoliciesInv
  OBVIOUS
<1>1. \A u \in Upserts : tx[u] = InitTx
  BY DEF Init
<1>2. Committed = {}
  BY <1>1 DEF Committed, InitTx
<1>3. PoliciesTyped
  <2>1. InitTx \in Tx
    BY DEF InitTx, Tx
  <2>2. QED
    BY <2>1 DEF Init, PoliciesTyped, Payload
<1>4. Ownership /\ Whole /\ LatestInForce /\ (last # None => last \in Committed)
  BY <1>2 DEF Init, Ownership, Whole, LatestInForce
<1>5. Exclusion
  BY <1>1 DEF Exclusion, InitTx
<1>6. \A u \in Upserts : Transaction(u) /\ Scans(u)
  BY <1>1 DEF Init, Transaction, Scans, Open, InitTx
<1>7. QED
  BY <1>3, <1>4, <1>5, <1>6 DEF PoliciesInv

\* A snapshot is of every upsert in force, whole, and nothing of it is held yet.
LEMMA BeginUpdateKeepsInv ==
  ASSUME PoliciesInv, NEW u \in Upserts, BeginUpdate(u)
  PROVE  PoliciesInv'
<1> USE DEF PoliciesInv
<1>0. /\ saw' = [saw EXCEPT ![u] = Committed]
      /\ UNCHANGED <<rows, active, last>>
      /\ tx[u].at = "idle"
  BY DEF BeginUpdate
<1>1. PICK version \in Versions, rules \in RuleLists :
        /\ payload' = [payload EXCEPT ![u] = [version |-> version, rules |-> rules]]
        /\ tx' = [tx EXCEPT ![u] = [InitTx EXCEPT !.at = "update", !.scan = active, !.todo = rules]]
  BY DEF BeginUpdate, Snapshot
<1>2. rules \in Seq(STRING)
  BY PoliciesAssumption
<1>3. /\ tx'[u] = [at |-> "update", scan |-> active, held |-> {}, added |-> {}, todo |-> rules]
      /\ payload'[u] = [version |-> version, rules |-> rules]
  BY <1>1 DEF InitTx, PoliciesTyped, PoliciesInv
<1>4. \A w \in Upserts \ {u} : tx'[w] = tx[w] /\ payload'[w] = payload[w]
  BY <1>1 DEF PoliciesTyped
<1>5. Committed' = Committed /\ u \notin Committed
  BY <1>0, <1>3, <1>4 DEF Committed
<1>6. \A w \in Committed : Keys(w)' = Keys(w)
  BY <1>4, <1>5, KeysSteady DEF Committed
<1>7. PoliciesTyped'
  <2>1. tx'[u] \in Tx
    BY <1>2, <1>3 DEF PoliciesTyped, Tx
  <2>2. payload'[u] \in Payload
    BY <1>2, <1>3 DEF Payload
  <2>3. tx' \in [Upserts -> Tx] /\ payload' \in [Upserts -> Payload]
    BY <1>1, <1>3, <2>1, <2>2 DEF PoliciesTyped
  <2>4. QED
    BY <1>0, <2>3 DEF PoliciesTyped, Committed
<1>8. Ownership' /\ Whole' /\ LatestInForce' /\ (last # None => last \in Committed)'
  BY <1>0, <1>5, <1>6 DEF Ownership, Whole, LatestInForce
<1>9. Exclusion'
  BY <1>3, <1>4 DEF Exclusion
<1>10. ASSUME NEW w \in Upserts PROVE Transaction(w)'
  <2>1. CASE w = u
    <3>1. Keys(u)' = TodoKeys(u)'
      BY <1>3 DEF Keys, TodoKeys, Key
    <3>2. QED
      BY <1>0, <1>3, <2>1, <3>1 DEF Transaction, Open, PoliciesTyped
  <2>2. CASE w # u
    <3>1. Keys(w)' = Keys(w) /\ TodoKeys(w)' = TodoKeys(w)
      BY <1>4, <2>2, KeysSteady DEF TodoKeys
    <3>2. QED
      BY <1>0, <1>4, <2>2, <3>1 DEF Transaction, Open
  <2>3. QED
    BY <2>1, <2>2
<1>11. ASSUME NEW w \in Upserts PROVE Scans(w)'
  <2>1. CASE w = u
    <3>1. saw'[u] = Committed
      BY <1>0 DEF PoliciesTyped
    <3>2. QED
      BY <1>0, <1>3, <1>5, <2>1, <3>1 DEF Scans, Open
  <2>2. CASE w # u
    <3>1. saw'[w] = saw[w]
      BY <1>0, <2>2 DEF PoliciesTyped
    <3>2. QED
      BY <1>0, <1>4, <1>5, <1>6, <2>2, <3>1 DEF Scans, Open
  <2>3. QED
    BY <2>1, <2>2
<1>12. QED
  BY <1>7, <1>8, <1>9, <1>10, <1>11

\* Where only u's transaction changes, and neither begins nor commits.
LEMMA OthersSteady ==
  ASSUME PoliciesInv, NEW u \in Upserts, NEW t \in Tx,
         tx' = [tx EXCEPT ![u] = t], t.at # "committed", tx[u].at # "committed",
         UNCHANGED <<rows, active, payload, saw, last>>,
         t.held \subseteq active,
         \A w \in Upserts \ {u} : t.held \intersect tx[w].held = {} /\ t.added \intersect tx[w].added = {},
         Transaction(u)', Scans(u)'
  PROVE  PoliciesInv'
<1> USE DEF PoliciesInv
<1>1. tx'[u] = t /\ \A w \in Upserts \ {u} : tx'[w] = tx[w]
  BY DEF PoliciesTyped
<1>2. Committed' = Committed
  BY <1>1 DEF Committed
<1>3. \A w \in Upserts : Keys(w)' = Keys(w)
  BY KeysSteady
<1>4. PoliciesTyped'
  BY DEF PoliciesTyped
<1>5. Ownership' /\ Whole' /\ LatestInForce' /\ (last # None => last \in Committed)'
  BY <1>2, <1>3 DEF Ownership, Whole, LatestInForce, Keys, Key
<1>6. Exclusion'
  BY <1>1 DEF Exclusion
<1>7. ASSUME NEW w \in Upserts \ {u} PROVE Transaction(w)' /\ Scans(w)'
  <2>1. TodoKeys(w)' = TodoKeys(w)
    BY <1>1, <1>7 DEF TodoKeys, Key
  <2>2. Transaction(w)'
    BY <1>1, <1>3, <1>7, <2>1 DEF Transaction, Open
  <2>3. Scans(w)'
    BY <1>1, <1>2, <1>3, <1>7 DEF Scans, Open, Committed
  <2>4. QED
    BY <2>2, <2>3
<1>8. QED
  BY <1>4, <1>5, <1>6, <1>7

\* The scan passes a row by only when nobody will find it active again.
LEMMA UpdateRowKeepsInv ==
  ASSUME PoliciesInv, NEW u \in Upserts, UpdateRow(u)
  PROVE  PoliciesInv'
<1>1. tx[u].at = "update" /\ UNCHANGED <<rows, active, payload, saw, last>>
  BY DEF UpdateRow
<1>2. PICK k \in tx[u].scan :
        /\ LockedBy(k, u) = {}
        /\ tx' = [tx EXCEPT ![u].scan = @ \ {k},
                            ![u].held = IF k \in active THEN @ \union {k} ELSE @]
  BY DEF UpdateRow
<1> DEFINE held == tx[u].held \union ({k} \intersect active)
           t == [tx[u] EXCEPT !.scan = @ \ {k}, !.held = held]
<1>3. tx[u] \in Tx /\ k \in Rows
  BY DEF PoliciesInv, PoliciesTyped, Tx
<1>4. tx' = [tx EXCEPT ![u] = t]
  BY <1>2, <1>3 DEF PoliciesInv, PoliciesTyped, Tx
<1>5. /\ t \in Tx
      /\ t.at = "update" /\ t.scan = tx[u].scan \ {k} /\ t.held = held
      /\ t.added = tx[u].added /\ t.todo = tx[u].todo
  BY <1>1, <1>3 DEF Tx
<1>6. tx'[u] = t
  BY <1>4 DEF PoliciesInv, PoliciesTyped
<1> HIDE DEF t
<1>7. t.held \subseteq active
  BY <1>5 DEF PoliciesInv, Transaction
<1>8. ASSUME NEW w \in Upserts \ {u}
      PROVE  t.held \intersect tx[w].held = {} /\ t.added \intersect tx[w].added = {}
  <2>1. k \notin tx[w].held
    BY <1>2 DEF LockedBy
  <2>2. QED
    BY <1>5, <2>1 DEF PoliciesInv, Exclusion
<1>9. Transaction(u)'
  <2>1. Keys(u)' = Keys(u) /\ TodoKeys(u)' = TodoKeys(u)
    BY <1>1, <1>5, <1>6 DEF Keys, TodoKeys, Key
  <2>2. QED
    BY <1>1, <1>5, <1>6, <1>7, <2>1 DEF PoliciesInv, Transaction, Open
<1>10. Scans(u)'
  <2>1. Committed' = Committed
    BY <1>1, <1>4, <1>5, <1>6 DEF Committed, PoliciesInv, PoliciesTyped
  <2>2. \A w \in Upserts : Keys(w)' = Keys(w)
    BY <1>1, KeysSteady
  <2>3. Scans(u)
    BY DEF PoliciesInv
  <2>4. saw[u] \subseteq Upserts /\ Committed \subseteq Upserts
    BY DEF PoliciesInv, PoliciesTyped, Committed
  <2>5. ASSUME NEW w \in saw[u]
        PROVE  Keys(w) \intersect active \subseteq t.scan \union t.held
    BY <1>1, <1>5, <2>3 DEF Scans, Open
  <2>6. ASSUME NEW w \in Committed \ saw[u]
        PROVE  Keys(w) \intersect (t.scan \union t.held) = {}
    BY <1>1, <1>2, <1>5, <2>3 DEF Scans, Open
  <2>7. QED
    BY <1>1, <1>5, <1>6, <2>1, <2>2, <2>3, <2>4, <2>5, <2>6 DEF Scans
<1>11. QED
  BY <1>1, <1>4, <1>5, <1>7, <1>8, <1>9, <1>10, OthersSteady

LEMMA EndUpdateKeepsInv ==
  ASSUME PoliciesInv, NEW u \in Upserts, EndUpdate(u)
  PROVE  PoliciesInv'
<1>1. /\ tx[u].at = "update" /\ tx[u].scan = {}
      /\ tx' = [tx EXCEPT ![u].at = "insert"]
      /\ UNCHANGED <<rows, active, payload, saw, last>>
  BY DEF EndUpdate
<1> DEFINE t == [tx[u] EXCEPT !.at = "insert"]
<1>2. tx[u] \in Tx
  BY DEF PoliciesInv, PoliciesTyped
<1>3. tx' = [tx EXCEPT ![u] = t] /\ tx'[u] = t
  BY <1>1, <1>2 DEF PoliciesInv, PoliciesTyped, Tx
<1>4. /\ t \in Tx
      /\ t.at = "insert" /\ t.scan = {} /\ t.held = tx[u].held
      /\ t.added = tx[u].added /\ t.todo = tx[u].todo
  BY <1>1, <1>2 DEF Tx
<1> HIDE DEF t
<1>5. Keys(u)' = Keys(u) /\ TodoKeys(u)' = TodoKeys(u) /\ Committed' = Committed
  BY <1>1, <1>3, <1>4 DEF Keys, TodoKeys, Key, Committed, PoliciesInv, PoliciesTyped
<1>6. \A w \in Upserts : Keys(w)' = Keys(w)
  BY <1>1, KeysSteady
<1>7. Transaction(u)' /\ Scans(u)'
  BY <1>1, <1>3, <1>4, <1>5, <1>6 DEF PoliciesInv, PoliciesTyped, Transaction, Scans, Open, Committed
<1>8. t.held \subseteq active
  BY <1>4 DEF PoliciesInv, Transaction
<1>9. \A w \in Upserts \ {u} :
        t.held \intersect tx[w].held = {} /\ t.added \intersect tx[w].added = {}
  BY <1>4 DEF PoliciesInv, Exclusion
<1>10. QED
  BY <1>1, <1>3, <1>4, <1>7, <1>8, <1>9, OthersSteady

\* Nothing stays of a transaction that fails.
LEMMA FailureKeepsInv ==
  ASSUME PoliciesInv, NEW u \in Upserts, Open(u),
         tx' = [tx EXCEPT ![u] = Ended("failed")],
         UNCHANGED <<rows, active, payload, saw, last>>
  PROVE  PoliciesInv'
<1> DEFINE t == Ended("failed")
<1>1. /\ t \in Tx
      /\ t.at = "failed" /\ t.scan = {} /\ t.held = {} /\ t.added = {}
  BY EndedType
<1>2. tx'[u] = t
  BY DEF PoliciesInv, PoliciesTyped
<1> HIDE DEF t
<1>3. Committed' = Committed
  BY <1>1, <1>2 DEF Committed, Open, PoliciesInv, PoliciesTyped, t
<1>4. Transaction(u)' /\ Scans(u)'
  BY <1>1, <1>2, <1>3 DEF PoliciesInv, Transaction, Scans, Open
<1>5. QED
  BY <1>1, <1>4, OthersSteady DEF Open, t

\* A row that is inserted is nobody's yet, and nobody else is inserting it.
LEMMA InsertRowKeepsInv ==
  ASSUME PoliciesInv, NEW u \in Upserts, InsertRow(u)
  PROVE  PoliciesInv'
<1> DEFINE k == NextKey(u)
           t == [tx[u] EXCEPT !.added = @ \union {k}, !.todo = Tail(@)]
<1>1. /\ tx[u].at = "insert" /\ tx[u].todo # <<>>
      /\ InsertedBy(k, u) = {}
      /\ UNCHANGED <<rows, active, payload, saw, last>>
  BY DEF InsertRow
<1>2. tx[u] \in Tx /\ tx[u].todo \in Seq(STRING)
  BY DEF PoliciesInv, PoliciesTyped, Tx
<1>3. CASE k \in rows \union tx[u].added
  BY <1>1, <1>3, FailureKeepsInv DEF InsertRow, Open
<1>4. CASE k \notin rows \union tx[u].added
  <2>1. tx' = [tx EXCEPT ![u] = t]
    <3>1. tx' = [tx EXCEPT ![u] = IF k \in rows \union tx[u].added THEN Ended("failed") ELSE t]
      BY DEF InsertRow, PoliciesInv, PoliciesTyped
    <3>2. QED
      BY <1>4, <3>1
  <2>2. tx'[u] = t
    BY <2>1 DEF PoliciesInv, PoliciesTyped
  <2>3. k \in Rows
    BY <1>1, <1>2, HeadAndTail
       DEF NextKey, Key, Rows, PoliciesInv, PoliciesTyped, Payload
  <2>4. Tail(tx[u].todo) \in Seq(STRING)
    BY <1>1, <1>2, HeadAndTail
  <2>5. /\ t \in Tx
        /\ t.at = "insert" /\ t.scan = tx[u].scan /\ t.held = tx[u].held
        /\ t.added = tx[u].added \union {k} /\ t.todo = Tail(tx[u].todo)
    <3> HIDE DEF k
    <3>1. QED
      BY <1>1, <1>2, <2>3, <2>4 DEF Tx
  <2> HIDE DEF t
  <2>6. t.held \subseteq active /\ t.added \intersect rows = {}
    BY <1>4, <2>5 DEF PoliciesInv, Transaction
  <2>7. ASSUME NEW w \in Upserts \ {u}
        PROVE  t.held \intersect tx[w].held = {} /\ t.added \intersect tx[w].added = {}
    <3>1. k \notin tx[w].added
      BY <1>1 DEF InsertedBy
    <3>2. QED
      BY <2>5, <3>1 DEF PoliciesInv, Exclusion
  <2>8. Keys(u)' = t.added \union TodoKeys(u)'
    <3>1. Keys(u)' = tx[u].added \union TodoKeys(u)
      BY <1>1 DEF PoliciesInv, Transaction, Open, Keys, Key
    <3>2. TodoKeys(u) = {k} \union TodoKeys(u)'
      <4>1. TodoKeys(u)' = {Key(u, Tail(tx[u].todo)[i]) : i \in DOMAIN Tail(tx[u].todo)}
        BY <1>1, <2>2, <2>5 DEF TodoKeys, Key
      <4> DEFINE list == tx[u].todo
      <4>2. ASSUME NEW i \in DOMAIN list
            PROVE  Key(u, list[i]) = k \/ Key(u, list[i]) \in TodoKeys(u)'
        <5>1. list[i] = Head(list) \/ \E j \in DOMAIN Tail(list) : list[i] = Tail(list)[j]
          BY <1>1, <1>2, HeadAndTail
        <5>2. QED
          BY <4>1, <5>1 DEF NextKey
      <4>3. k \in TodoKeys(u)
        <5>1. 1 \in DOMAIN list /\ list[1] = Head(list)
          BY <1>1, <1>2, HeadAndTail
        <5>2. QED
          BY <5>1 DEF TodoKeys, NextKey
      <4>4. ASSUME NEW j \in DOMAIN Tail(list) PROVE Key(u, Tail(list)[j]) \in TodoKeys(u)
        <5>1. j + 1 \in DOMAIN list /\ Tail(list)[j] = list[j + 1]
          BY <1>1, <1>2, HeadAndTail
        <5>2. QED
          BY <5>1 DEF TodoKeys
      <4>5. TodoKeys(u) = {Key(u, list[i]) : i \in DOMAIN list}
        BY DEF TodoKeys
      <4> HIDE DEF k, list
      <4>6. QED
        BY <4>1, <4>2, <4>3, <4>4, <4>5 DEF list
    <3>3. QED
      BY <2>5, <3>1, <3>2
  <2>9. Transaction(u)'
    BY <1>1, <2>2, <2>5, <2>6, <2>8 DEF Transaction, Open, PoliciesInv
  <2>10. Committed' = Committed /\ \A w \in Upserts : Keys(w)' = Keys(w)
    BY <1>1, <2>1, <2>2, <2>5, KeysSteady DEF Committed, PoliciesInv, PoliciesTyped
  <2>11. Scans(u)'
    BY <1>1, <2>2, <2>5, <2>10 DEF PoliciesInv, PoliciesTyped, Scans, Open, Committed
  <2>12. QED
    BY <1>1, <2>1, <2>5, <2>6, <2>7, <2>9, <2>11, OthersSteady
<1>5. QED
  BY <1>3, <1>4

\* A commit takes whole upserts out of force, those it saw, and brings one in.
LEMMA CommitKeepsInv ==
  ASSUME PoliciesInv, NEW u \in Upserts, Commit(u)
  PROVE  PoliciesInv'
<1>1. /\ tx[u].at = "insert" /\ tx[u].todo = <<>>
      /\ rows' = rows \union tx[u].added
      /\ active' = (active \ tx[u].held) \union tx[u].added
      /\ tx' = [tx EXCEPT ![u] = Ended("committed")]
      /\ last' = u
      /\ UNCHANGED <<payload, saw>>
  BY DEF Commit
<1>2. /\ tx'[u] \in Tx
      /\ tx'[u].at = "committed" /\ tx'[u].scan = {} /\ tx'[u].held = {} /\ tx'[u].added = {}
  BY <1>1, EndedType DEF PoliciesInv, PoliciesTyped
<1>3. \A w \in Upserts \ {u} : tx'[w] = tx[w]
  BY <1>1 DEF PoliciesInv, PoliciesTyped
<1>4. Committed' = Committed \union {u} /\ u \notin Committed /\ Committed \subseteq Upserts
  BY <1>1, <1>2, <1>3 DEF Committed
<1>5. \A w \in Upserts : Keys(w)' = Keys(w)
  BY <1>1, KeysSteady
<1>6. Keys(u) = tx[u].added
  <2>1. TodoKeys(u) = {}
    BY <1>1 DEF TodoKeys
  <2>2. QED
    BY <1>1, <2>1 DEF PoliciesInv, Transaction, Open
<1>7. \A w \in Committed : Keys(w) \subseteq rows /\ Keys(w) \intersect Keys(u) = {}
  BY <1>6 DEF PoliciesInv, Ownership, Transaction
<1>8. \A w \in saw[u] : w \in Committed /\ Keys(w) \intersect active' = {}
  <2>1. \A w \in saw[u] : w \in Committed /\ Keys(w) \intersect active \subseteq tx[u].held
    BY <1>1 DEF PoliciesInv, Scans, Transaction, Open
  <2>2. QED
    BY <1>1, <1>6, <1>7, <2>1
<1>9. \A w \in Committed \ saw[u] : Keys(w) \intersect active' = Keys(w) \intersect active
  <2>1. \A w \in Committed \ saw[u] : Keys(w) \intersect tx[u].held = {}
    BY <1>1 DEF PoliciesInv, Scans, Open
  <2>2. QED
    BY <1>1, <1>6, <1>7, <2>1
<1>10. Keys(u) \subseteq active'
  BY <1>1, <1>6
<1>11. PoliciesTyped'
  <2>1. tx' \in [Upserts -> Tx]
    BY <1>1, <1>2 DEF PoliciesInv, PoliciesTyped
  <2>2. rows' \subseteq Rows /\ active' \subseteq rows'
    BY <1>1 DEF PoliciesInv, PoliciesTyped, Tx
  <2>3. QED
    BY <1>1, <2>1, <2>2 DEF PoliciesInv, PoliciesTyped
<1>12. Ownership'
  <2>1. rows' = UNION {Keys(w)' : w \in Committed'}
    BY <1>1, <1>4, <1>5, <1>6 DEF PoliciesInv, Ownership
  <2>2. QED
    BY <1>4, <1>5, <1>7, <2>1 DEF PoliciesInv, Ownership
<1>13. Exclusion'
  BY <1>2, <1>3 DEF PoliciesInv, Exclusion
<1>14. Whole'
  BY <1>4, <1>5, <1>8, <1>9, <1>10 DEF PoliciesInv, Whole
<1>15. LatestInForce' /\ (last # None => last \in Committed)'
  BY <1>1, <1>4, <1>5, <1>10 DEF LatestInForce
<1>16. ASSUME NEW w \in Upserts PROVE Transaction(w)'
  <2>1. CASE w = u
    BY <1>2, <2>1 DEF Transaction, Open
  <2>2. CASE w # u
    <3>1. Keys(w)' = Keys(w) /\ TodoKeys(w)' = TodoKeys(w)
      BY <1>1, <1>3, <1>5, <2>2 DEF TodoKeys, Key
    <3>2. tx[w].added \intersect tx[u].added = {} /\ tx[w].held \intersect tx[u].held = {}
      BY <2>2 DEF PoliciesInv, Exclusion
    <3>3. QED
      BY <1>1, <1>3, <2>2, <3>1, <3>2 DEF PoliciesInv, Transaction, Open
  <2>3. QED
    BY <2>1, <2>2
<1>17. ASSUME NEW w \in Upserts PROVE Scans(w)'
  <2>1. saw'[w] = saw[w] /\ saw[w] \subseteq Committed
    BY <1>1 DEF PoliciesInv, Scans
  <2>2. CASE w = u
    BY <1>2, <1>4, <1>5, <1>8, <2>1, <2>2 DEF Scans, Open
  <2>3. CASE w # u
    <3>1. ASSUME NEW v \in saw[w] PROVE Keys(v) \intersect active' \subseteq active
      BY <1>1, <1>6, <1>7, <2>1, <3>1
    <3>2. Open(w) => Keys(u) \intersect (tx[w].scan \union tx[w].held) = {}
      <4>1. Open(w) => tx[w].scan \union tx[w].held \subseteq rows
        BY DEF PoliciesInv, PoliciesTyped, Transaction
      <4>2. QED
        BY <1>6, <4>1 DEF PoliciesInv, Transaction
    <3>3. QED
      BY <1>3, <1>4, <1>5, <2>1, <2>3, <3>1, <3>2 DEF PoliciesInv, Scans, Open
  <2>4. QED
    BY <2>2, <2>3
<1>18. QED
  BY <1>11, <1>12, <1>13, <1>14, <1>15, <1>16, <1>17 DEF PoliciesInv

\* Nothing an upsert does, alone or among others, leaves the invariant.
THEOREM PoliciesInvariance == Spec => []PoliciesInv
<1>1. PoliciesInv /\ [Next]_policyVars => PoliciesInv'
  <2> SUFFICES ASSUME PoliciesInv, [Next]_policyVars PROVE PoliciesInv'
    OBVIOUS
  <2>1. ASSUME NEW u \in Upserts, Step(u) PROVE PoliciesInv'
    <3>1. CASE Rollback(u)
      BY <3>1, FailureKeepsInv DEF Rollback
    <3>2. QED
      BY <2>1, <3>1, BeginUpdateKeepsInv, UpdateRowKeepsInv, EndUpdateKeepsInv,
         InsertRowKeepsInv, CommitKeepsInv DEF Step
  <2>2. CASE UNCHANGED policyVars
    <3>1. /\ UNCHANGED <<rows, active, payload, tx, saw, last>>
          /\ Committed' = Committed
          /\ \A u \in Upserts : Keys(u)' = Keys(u) /\ TodoKeys(u)' = TodoKeys(u)
                                  /\ Open(u)' = Open(u)
      BY <2>2 DEF policyVars, Committed, Keys, TodoKeys, Key, Open
    <3>2. PoliciesTyped' /\ Exclusion' /\ (last # None => last \in Committed)'
      BY <3>1 DEF PoliciesInv, PoliciesTyped, Exclusion
    <3>3. Ownership' /\ Whole'
      BY <3>1 DEF PoliciesInv, Ownership, Whole, Committed
    <3>4. LatestInForce'
      BY <3>1 DEF PoliciesInv, LatestInForce, Keys, Key
    <3>5. ASSUME NEW u \in Upserts PROVE Transaction(u)' /\ Scans(u)'
      BY <3>1 DEF PoliciesInv, PoliciesTyped, Transaction, Scans, Committed
    <3>6. QED
      BY <3>2, <3>3, <3>4, <3>5 DEF PoliciesInv
  <2>3. QED
    BY <2>1, <2>2 DEF Next
<1>2. QED
  BY <1>1, PoliciesInitially, PTL DEF Spec

\* The rules of an upsert (POST /policies/upsert) come into force and leave it
\* together, and no other upsert has one of them.
THEOREM PayloadsStayWhole == Spec => []WholePayloads
<1>1. PoliciesInv => WholePayloads
  BY DEF PoliciesInv, Whole, Ownership, WholePayloads, InForce
<1>2. QED
  BY <1>1, PoliciesInvariance, PTL

\* Whoever commits last is in force, with all the rules of its payload.
THEOREM LatestStaysInForce == Spec => []LatestInForce
<1>1. PoliciesInv => LatestInForce
  BY DEF PoliciesInv
<1>2. QED
  BY <1>1, PoliciesInvariance, PTL

\* An upsert that begins after another has committed replaces it.
THEOREM LaterReplaces == Spec => []TogetherOnlyIfConcurrent
<1>1. PoliciesInv => TogetherOnlyIfConcurrent
  <2> SUFFICES ASSUME PoliciesInv, NEW u \in InForce, NEW w \in InForce, u \in saw[w]
               PROVE  FALSE
    BY DEF TogetherOnlyIfConcurrent
  <2>1. tx[w].at = "committed" /\ w \in Upserts
    BY DEF InForce, Committed
  <2>2. Keys(u) \intersect active = {}
    BY <2>1 DEF PoliciesInv, Scans
  <2>3. QED
    BY <2>2 DEF InForce
<1>2. QED
  BY <1>1, PoliciesInvariance, PTL

=============================================================================
