----------------------- MODULE TenantMigration_proofs -----------------------
(***************************************************************************)
(* Proofs about TenantMigration: for every set of rows, batch size, number *)
(* of tenants and of downgrades, the backfill gives every row the owner it *)
(* should have, and from 002 on the service's role is confined.            *)
(*                                                                         *)
(* Neither property is inductive.  OwnersAreRight speaks of the committed  *)
(* rows and ledger only, and says nothing of a transaction that is about   *)
(* to commit; MigrationInv therefore says the same of what the backfill's  *)
(* transaction sees, and of the rows it gives an owner to.                 *)
(* ServiceIsConfined needs to know, before 002 runs, that a ledger with an *)
(* entry in it was committed together with the columns of its tables.      *)
(***************************************************************************)
EXTENDS TenantMigration, FiniteSetTheorems, TLAPS

-----------------------------------------------------------------------------
(* The inductive invariant.                                                 *)

RowType == [table : ScannedTables, tenant : Owners \cup {Null},
            parent : RowIds \cup {Null}, code : Codes \cup {Null}]

EntryType == [status : {"pending", "running", "completed"}, cursor : RowIds \cup {0}]

LedgerOK(led) ==
    /\ DOMAIN led \subseteq ScannedTables
    /\ \A t \in DOMAIN led : led[t] \in EntryType

(* A parent is a row of knowledge_bases, and those are roots.               *)
RowsOK ==
    /\ DOMAIN rows \subseteq RowIds
    /\ \A i \in DOMAIN rows : rows[i] \in RowType
    /\ \A i \in DOMAIN rows : rows[i].parent # Null =>
          /\ rows[i].parent \in DOMAIN rows
          /\ rows[rows[i].parent].parent = Null
    /\ \A i \in DOMAIN rows : rows[i].table = "knowledge_bases" => rows[i].parent = Null

BackfillOK ==
    /\ DOMAIN bf = {"pc", "at", "led", "given", "column", "ran"}
    /\ bf.pc \in {"idle", "table", "batch"} /\ bf.at \in Nat
    /\ bf.pc # "idle" => bf.at # 0
    /\ bf.pc = "idle" => bf.column = {} /\ ~bf.ran /\ DOMAIN bf.given = {}
                         /\ DOMAIN bf.led = {}
    /\ bf.pc # "idle" => /\ revision \in {1, 2} /\ ~enforcing
                         /\ AddedByBackfill \subseteq schema.column \cup bf.column
    /\ bf.pc = "batch" => bf.at \in 1 .. 3 /\ Scanned[bf.at] \in DOMAIN bf.led
    /\ revision >= 2 => bf.column = {}
    /\ LedgerOK(bf.led)

(* The transaction gives owners to rows that have none, and only to those.  *)
GivenOK ==
    /\ DOMAIN bf.given \subseteq DOMAIN rows
    /\ \A i \in DOMAIN bf.given : bf.given[i] \in Owners /\ rows[i].tenant = Null

(* The cursor and the owners, with the owner of a row as a parameter: the   *)
(* committed one, or the one the backfill's transaction sees.               *)
Covered(i, led, owner) ==
    rows[i].table \in DOMAIN led /\ i <= led[rows[i].table].cursor
        => owner # Null \/ i \in behind

CursorsOK == \A i \in DOMAIN rows :
    Covered(i, ledger, rows[i].tenant) /\ Covered(i, bf.led, Seen(i))

(* A child has its parent's owner.  Only a child of a parent that has none  *)
(* may differ, and it then belongs to the legacy tenant, as the parent will *)
(* when a backfill reaches it.                                              *)
Inherits(owner, parentOwner) ==
    owner # Null => \/ parentOwner = owner
                    \/ parentOwner = Null /\ owner = Legacy

ChildrenOK == \A i \in DOMAIN rows : rows[i].parent # Null =>
    /\ Inherits(rows[i].tenant, rows[rows[i].parent].tenant)
    /\ Inherits(Seen(i), Seen(rows[i].parent))

SchemaFields == {"tables", "column", "required", "enabled", "forced", "policy",
                 "granted", "perTenant"}

(* Before 002: a ledger entry was committed with the columns it needs.      *)
SchemaOK ==
    /\ DOMAIN schema = SchemaFields
    /\ revision >= 1 => {"knowledge_bases", "knowledge_documents"} \subseteq schema.column
    /\ DOMAIN ledger # {} => revision # 0 /\ AddedByBackfill \subseteq schema.column
    /\ revision >= 2 => AddedByBackfill \subseteq schema.column
    /\ enforcing => revision = 1 /\ ScannedTables \subseteq DOMAIN ledger

MigrationInv ==
    /\ revision \in 0 .. 5 /\ LedgerOK(ledger)
    /\ RowsOK /\ BackfillOK /\ GivenOK
    /\ CursorsOK /\ ChildrenOK
    /\ SchemaOK /\ ServiceIsConfined

-----------------------------------------------------------------------------
(* Facts about the operators.                                               *)

(* A finite set of integers that is not empty has a largest element: take   *)
(* an element with the fewest elements above it.                            *)
LEMMA MaxIsLargest ==
    ASSUME NEW S, IsFiniteSet(S), S # {}, S \subseteq Int
    PROVE  Max(S) \in S /\ \A y \in S : y <= Max(S)
<1> DEFINE Above(x) == {j \in S : j > x}
<1> DEFINE T == {Above(x) : x \in S}
<1>1. T \subseteq FiniteSubsetsOf(S) /\ T # {}
  <2>1. \A x \in S : Above(x) \in SUBSET S
    OBVIOUS
  <2>2. FiniteSubsetsOf(S) = SUBSET S
    BY FS_FiniteSubsetsOfFinite
  <2> HIDE DEF Above
  <2>3. PICK x \in S : TRUE
    OBVIOUS
  <2>4. Above(x) \in T
    OBVIOUS
  <2>5. T \subseteq SUBSET S
    BY <2>1
  <2> QED  BY <2>2, <2>4, <2>5
<1>2. IsWellFoundedOn(StrictSubsetOrdering(S), FiniteSubsetsOf(S))
  BY FS_StrictSubsetOrderingWellFounded
<1>3. PICK U \in T : \A V \in T : ~(<<V, U>> \in StrictSubsetOrdering(S))
  <2> HIDE DEF T
  <2> QED  BY <1>1, <1>2, WFMin
<1>4. PICK x \in S : U = Above(x)
  BY <1>3
<1>5. \A y \in S : x >= y
  <2> SUFFICES ASSUME NEW y \in S, ~(x >= y)
               PROVE  FALSE
    OBVIOUS
  <2>1. x \in Int /\ y \in Int /\ y > x
    OBVIOUS
  <2>2. Above(y) \subseteq Above(x) /\ y \in Above(x) /\ y \notin Above(y)
    <3>1. \A j \in S : j > y => j > x
      BY <2>1
    <3>2. ~(y > y)
      BY <2>1
    <3> QED  BY <3>1, <3>2, <2>1
  <2>3. Above(y) \in T /\ Above(y) \in SUBSET S /\ Above(x) \in SUBSET S
    OBVIOUS
  <2>4. <<Above(y), Above(x)>> \in StrictSubsetOrdering(S)
    <3> HIDE DEF Above
    <3> QED  BY <2>2, <2>3 DEF StrictSubsetOrdering
  <2> QED  BY <1>3, <1>4, <2>3, <2>4
<1>6. Max(S) \in S /\ \A y \in S : Max(S) >= y
  BY <1>5 DEF Max
<1> QED  BY <1>6

LEMMA KeysAreNumbers == \A n \in RowIds \cup {0} : n \in Int /\ (n \in RowIds => n > 0)
BY MigrationAssumption

LEMMA MaxOfTwo ==
    ASSUME NEW a \in Int, NEW b \in Int
    PROVE  Max({a, b}) \in Int /\ a <= Max({a, b}) /\ b <= Max({a, b})
BY DEF Max

(* The scanned tables by name.                                              *)
LEMMA ScannedIs ==
    /\ ScannedTables = {"knowledge_bases", "eval_cases", "knowledge_documents"}
    /\ Len(Scanned) = 3
    /\ \A n \in 1 .. 3 : Scanned[n] \in ScannedTables
<1>1. DOMAIN Scanned = 1 .. 3 /\ Scanned[1] = "knowledge_bases"
      /\ Scanned[2] = "eval_cases" /\ Scanned[3] = "knowledge_documents" /\ Len(Scanned) = 3
  BY DEF Scanned
<1>2. ScannedTables = {Scanned[n] : n \in 1 .. 3}
  BY <1>1 DEF ScannedTables, Range
<1>3. \A n \in 1 .. 3 : n = 1 \/ n = 2 \/ n = 3
  OBVIOUS
<1> QED  BY <1>1, <1>2, <1>3

(* A table without an entry stands at cursor 0, below every key.            *)
LEMMA StateOfType ==
    ASSUME NEW led, LedgerOK(led), NEW t
    PROVE  StateOf(led, t) \in EntryType
BY DEF StateOf, LedgerOK, EntryType, Unstarted

(* The cursor that an insertion is compared with is past both ledgers'.     *)
LEMMA CursorCovers ==
    ASSUME LedgerOK(ledger), LedgerOK(bf.led), NEW t
    PROVE  /\ t \in DOMAIN ledger => ledger[t].cursor <= Cursor(t)
           /\ t \in DOMAIN bf.led => bf.led[t].cursor <= Cursor(t)
           /\ Cursor(t) \in Int
<1> DEFINE a == StateOf(ledger, t).cursor
<1> DEFINE b == StateOf(bf.led, t).cursor
<1>1. a \in Int /\ b \in Int
  <2>1. StateOf(ledger, t) \in EntryType /\ StateOf(bf.led, t) \in EntryType
    BY StateOfType
  <2> QED  BY <2>1, KeysAreNumbers DEF EntryType
<1>2. Cursor(t) \in Int /\ a <= Cursor(t) /\ b <= Cursor(t)
  <2> HIDE DEF a, b
  <2>1. Max({a, b}) \in Int /\ a <= Max({a, b}) /\ b <= Max({a, b})
    BY <1>1, MaxOfTwo
  <2> QED  BY <2>1 DEF Cursor, a, b
<1> QED  BY <1>2 DEF StateOf

(* A batch is an initial part of what is pending: a row between the cursor  *)
(* and the last row of the batch is in the batch.                           *)
LEMMA BatchHasNoHole ==
    ASSUME RowsOK, LedgerOK(bf.led), NEW t, t \in DOMAIN bf.led, Batch(t) # {}
    PROVE  /\ Max(Batch(t)) \in Batch(t)
           /\ \A i \in Of(t) : i > bf.led[t].cursor /\ i <= Max(Batch(t)) => i \in Batch(t)
<1> DEFINE c == bf.led[t].cursor
<1> DEFINE pending == {i \in Of(t) : i > c}
<1> DEFINE upto(i) == {j \in pending : j <= i}
<1>1. pending \subseteq RowIds /\ IsFiniteSet(pending) /\ pending \subseteq Int
  <2>1. pending \in SUBSET RowIds
    BY DEF Of, RowsOK
  <2>2. RowIds \subseteq Int /\ IsFiniteSet(RowIds)
    BY MigrationAssumption
  <2> HIDE DEF pending
  <2> QED  BY <2>1, <2>2, FS_Subset
<1>2. Batch(t) = {i \in pending : Cardinality(upto(i)) <= BatchSize}
  BY DEF Batch
<1>3. Max(Batch(t)) \in Batch(t) /\ \A y \in Batch(t) : y <= Max(Batch(t))
  <2>1. Batch(t) \in SUBSET pending
    BY <1>2
  <2>2. IsFiniteSet(Batch(t)) /\ Batch(t) \subseteq Int
    <3> HIDE DEF pending
    <3> QED  BY <2>1, <1>1, FS_Subset
  <2> QED  BY <2>2, MaxIsLargest
<1>4. ASSUME NEW i \in Of(t), i > c, i <= Max(Batch(t))
      PROVE  i \in Batch(t)
  <2> DEFINE m == Max(Batch(t))
  <2>1. i \in pending /\ m \in pending /\ Cardinality(upto(m)) <= BatchSize
    <3> HIDE DEF upto
    <3> QED  BY <1>2, <1>3, <1>4
  <2>2. i \in Int /\ m \in Int
    BY <2>1, <1>1
  <2>3. upto(i) \in SUBSET upto(m)
    <3>1. \A j \in pending : j \in Int
      BY <1>1
    <3> HIDE DEF pending, c, m
    <3> QED  BY <3>1, <2>2, <1>4 DEF m
  <2>4. IsFiniteSet(upto(m))
    <3>1. upto(m) \in SUBSET pending
      OBVIOUS
    <3> HIDE DEF pending, upto
    <3> QED  BY <3>1, <1>1, FS_Subset
  <2>5. Cardinality(upto(i)) <= Cardinality(upto(m)) /\ IsFiniteSet(upto(i))
    <3> HIDE DEF upto
    <3> QED  BY <2>3, <2>4, FS_Subset
  <2>6. Cardinality(upto(i)) \in Int /\ Cardinality(upto(m)) \in Int /\ BatchSize \in Int
    <3> HIDE DEF upto
    <3> QED  BY <2>4, <2>5, FS_CardinalityType, MigrationAssumption
  <2>7. Cardinality(upto(i)) <= BatchSize
    <3> DEFINE x == Cardinality(upto(i))
    <3> DEFINE y == Cardinality(upto(m))
    <3> SUFFICES x <= BatchSize
      OBVIOUS
    <3>1. x \in Int /\ y \in Int /\ x <= y /\ y <= BatchSize /\ BatchSize \in Int
      BY <2>1, <2>5, <2>6
    <3> HIDE DEF x, y
    <3> QED  BY <3>1
  <2> HIDE DEF upto, pending
  <2> QED  BY <1>2, <2>1, <2>7
<1> QED  BY <1>3, <1>4

-----------------------------------------------------------------------------
(* Initial states.                                                          *)

LEMMA MigrationInitInv == MigrationInit => MigrationInv
<1> SUFFICES ASSUME MigrationInit PROVE MigrationInv
  OBVIOUS
<1> USE DEF MigrationInit
<1>1. DOMAIN rows = {} /\ DOMAIN ledger = {}
  OBVIOUS
<1>2. bf.pc = "idle" /\ bf.at = 0 /\ DOMAIN bf.led = {} /\ DOMAIN bf.given = {}
      /\ bf.column = {} /\ ~bf.ran
      /\ DOMAIN bf = {"pc", "at", "led", "given", "column", "ran"}
  BY DEF Resting
<1>3. RowsOK /\ GivenOK /\ CursorsOK /\ ChildrenOK
  BY <1>1, <1>2 DEF RowsOK, GivenOK, CursorsOK, ChildrenOK
<1>4. LedgerOK(ledger) /\ BackfillOK
  BY <1>1, <1>2 DEF BackfillOK, LedgerOK
<1>5. SchemaOK
  BY <1>1 DEF SchemaOK, Empty, SchemaFields
<1> QED  BY <1>3, <1>4, <1>5 DEF MigrationInv, ServiceIsConfined

-----------------------------------------------------------------------------
(* One lemma per action, or per group of actions that move the same state.  *)

(* An insertion: the new row is not in any transaction of the backfill, it  *)
(* counts as inserted behind a cursor that is past its key, and it has its  *)
(* parent's owner or none.                                                  *)
LEMMA InsertKeeps ==
    ASSUME MigrationInv, NEW i \in RowIds, NEW t \in ScannedTables,
           NEW o \in Tenants \cup {Null} \cup Owners, NEW p \in RowIds \cup {Null},
           NEW c \in Codes \cup {Null}, Insert(i, t, o, p, c),
           t = "knowledge_bases" => p = Null,
           p # Null => p \in DOMAIN rows /\ rows[p].parent = Null
                       /\ o \in {Null, rows[p].tenant}
    PROVE  MigrationInv'
<1> USE DEF MigrationInv
<1>1. /\ DOMAIN rows' = DOMAIN rows \cup {i} /\ i \notin DOMAIN rows
      /\ \A j \in DOMAIN rows : rows'[j] = rows[j]
      /\ rows'[i] = [table |-> t, tenant |-> o, parent |-> p, code |-> c]
      /\ UNCHANGED <<revision, schema, role, ledger, bf, enforcing, downgrades>>
      /\ i <= Cursor(t) => i \in behind'
      /\ behind \subseteq behind'
  BY DEF Insert
<1>2. rows'[i] \in RowType /\ rows'[i].table = t /\ rows'[i].tenant = o /\ rows'[i].parent = p
  BY <1>1 DEF RowType, Owners
<1>3. RowsOK'
  BY <1>1, <1>2 DEF RowsOK
<1>4. BackfillOK' /\ LedgerOK(ledger)' /\ revision' \in 0 .. 5
  BY <1>1 DEF BackfillOK, LedgerOK
<1>5. GivenOK' /\ i \notin DOMAIN bf.given
  BY <1>1 DEF GivenOK
<1>6. Seen(i)' = o /\ \A j \in DOMAIN rows : Seen(j)' = Seen(j)
  BY <1>1, <1>2, <1>5 DEF Seen
<1>7. CursorsOK'
  <2>1. ASSUME NEW j \in DOMAIN rows
        PROVE  Covered(j, ledger, rows[j].tenant)' /\ Covered(j, bf.led, Seen(j))'
    BY <1>1, <1>6 DEF CursorsOK, Covered
  <2>2. /\ t \in DOMAIN ledger => ledger[t].cursor <= Cursor(t) /\ ledger[t].cursor \in Int
        /\ t \in DOMAIN bf.led => bf.led[t].cursor <= Cursor(t) /\ bf.led[t].cursor \in Int
        /\ Cursor(t) \in Int
    <3>1. LedgerOK(ledger) /\ LedgerOK(bf.led)
      BY DEF BackfillOK
    <3> QED  BY <3>1, KeysAreNumbers, CursorCovers DEF LedgerOK, EntryType
  <2>3. i \in Int
    BY KeysAreNumbers
  <2>4. (t \in DOMAIN ledger /\ i <= ledger[t].cursor) \/ (t \in DOMAIN bf.led /\ i <= bf.led[t].cursor)
        => i \in behind'
    BY <2>2, <2>3, <1>1
  <2>5. Covered(i, ledger, rows[i].tenant)' /\ Covered(i, bf.led, Seen(i))'
    BY <2>4, <1>1, <1>2 DEF Covered
  <2> QED  BY <2>1, <2>5, <1>1 DEF CursorsOK
<1>8. ChildrenOK'
  <2>1. ASSUME NEW j \in DOMAIN rows, rows[j].parent # Null
        PROVE  (/\ Inherits(rows[j].tenant, rows[rows[j].parent].tenant)
                /\ Inherits(Seen(j), Seen(rows[j].parent)))'
    <3>1. rows[j].parent \in DOMAIN rows
      BY <2>1 DEF RowsOK
    <3> QED  BY <3>1, <2>1, <1>1, <1>6 DEF ChildrenOK, Inherits
  <2>2. ASSUME p # Null
        PROVE  Inherits(o, rows'[p].tenant) /\ Inherits(o, Seen(p)')
    <3>1. rows'[p] = rows[p] /\ Seen(p)' = Seen(p)
      BY <2>2, <1>1, <1>6
    <3>2. rows[p].tenant # Null => Seen(p) = rows[p].tenant
      BY <2>2 DEF Seen, GivenOK
    <3> QED  BY <3>1, <3>2, <2>2 DEF Inherits
  <2> QED  BY <2>1, <2>2, <1>1, <1>2, <1>6 DEF ChildrenOK, Inherits
<1>9. SchemaOK'
  BY <1>1 DEF SchemaOK
<1>10. ServiceIsConfined'
  <2> SUFFICES ASSUME revision >= 2 PROVE o # Null
    BY <1>1, <1>2 DEF ServiceIsConfined, Unowned
  <2>1. t \in schema.column
    BY ScannedIs DEF SchemaOK, AddedByBackfill
  <2>2. t \in schema.required
    BY <2>1, ScannedIs DEF ServiceIsConfined
  <2> QED  BY <2>2 DEF Insert
<1> QED  BY <1>3, <1>4, <1>5, <1>7, <1>8, <1>9, <1>10

LEMMA InsertsKeep ==
    ASSUME MigrationInv, InsertRoot \/ InsertCase \/ InsertDocument
    PROVE  MigrationInv'
<1>1. CASE InsertRoot
  BY <1>1, InsertKeeps, ScannedIs DEF InsertRoot
<1>2. CASE InsertCase
  BY <1>2, InsertKeeps, ScannedIs DEF InsertCase
<1>3. CASE InsertDocument
  <2>1. PICK i \in RowIds, p \in Of("knowledge_bases") : \E o \in {Null, rows[p].tenant} :
             Insert(i, "knowledge_documents", o, p, Null)
    BY <1>3 DEF InsertDocument
  <2>2. PICK o \in {Null, rows[p].tenant} : Insert(i, "knowledge_documents", o, p, Null)
    BY <2>1
  <2>3. p \in DOMAIN rows /\ p \in RowIds /\ rows[p] \in RowType
    BY DEF Of, MigrationInv, RowsOK
  <2>4. o \in Tenants \cup {Null} \cup Owners
    BY <2>3 DEF RowType
  <2>5. rows[p].parent = Null
    BY DEF Of, MigrationInv, RowsOK
  <2> QED  BY <2>2, <2>3, <2>4, <2>5, InsertKeeps, ScannedIs
<1> QED  BY <1>1, <1>2, <1>3

-----------------------------------------------------------------------------
(* The backfill.                                                            *)

(* What a step of the backfill's transaction leaves to show: it changes     *)
(* nothing but bf, so the committed state is what it was.                   *)
LEMMA TransactionKeeps ==
    ASSUME MigrationInv, BackfillOK', GivenOK',
           UNCHANGED <<revision, schema, role, rows, ledger, enforcing, behind, downgrades>>,
           \A i \in DOMAIN rows : Covered(i, bf.led, Seen(i))',
           \A i \in DOMAIN rows : rows[i].parent # Null =>
               Inherits(Seen(i)', Seen(rows[i].parent)')
    PROVE  MigrationInv'
<1> USE DEF MigrationInv
<1>1. RowsOK' /\ LedgerOK(ledger)' /\ SchemaOK' /\ ServiceIsConfined' /\ revision' \in 0 .. 5
  BY DEF RowsOK, LedgerOK, SchemaOK, ServiceIsConfined, Unowned
<1>2. CursorsOK'
  BY DEF CursorsOK, Covered
<1>3. ChildrenOK'
  BY DEF ChildrenOK, Inherits
<1> QED  BY <1>1, <1>2, <1>3

LEMMA StartBackfillKeeps == ASSUME MigrationInv, StartBackfill PROVE MigrationInv'
<1> USE DEF MigrationInv
<1>1. /\ bf'.pc = "table" /\ bf'.at = 1 /\ bf'.led = ledger /\ DOMAIN bf'.given = {}
      /\ bf'.column = AddedByBackfill \ schema.column
      /\ DOMAIN bf' = {"pc", "at", "led", "given", "column", "ran"}
      /\ revision \in {1, 2} /\ ~enforcing
      /\ UNCHANGED <<revision, schema, role, rows, ledger, enforcing, behind, downgrades>>
  BY DEF StartBackfill
<1>2. BackfillOK'
  BY <1>1 DEF BackfillOK, LedgerOK, SchemaOK
<1>3. GivenOK'
  BY <1>1 DEF GivenOK
<1>4. \A i \in DOMAIN rows : Seen(i)' = rows[i].tenant
  BY <1>1 DEF Seen
<1>5. \A i \in DOMAIN rows : Covered(i, bf.led, Seen(i))'
  BY <1>1, <1>4 DEF CursorsOK, Covered
<1>6. \A i \in DOMAIN rows : rows[i].parent # Null =>
          Inherits(Seen(i)', Seen(rows[i].parent)')
  <2>1. \A i \in DOMAIN rows : rows[i].parent # Null => rows[i].parent \in DOMAIN rows
    BY DEF RowsOK
  <2> QED  BY <2>1, <1>1, <1>4 DEF ChildrenOK
<1> QED  BY <1>1, <1>2, <1>3, <1>5, <1>6, TransactionKeeps

(* Opening a table adds an entry at cursor 0 at most, which covers no row.  *)
LEMMA OpenTableKeeps == ASSUME MigrationInv, OpenTable PROVE MigrationInv'
<1> USE DEF MigrationInv
<1> DEFINE t == Scanned[bf.at]
<1> DEFINE state == StateOf(bf.led, t)
<1>1. /\ bf.pc = "table" /\ bf.at \in 1 .. 3 /\ t \in ScannedTables
      /\ UNCHANGED <<revision, schema, role, rows, ledger, enforcing, behind, downgrades>>
  BY ScannedIs DEF OpenTable, BackfillOK
<1>2. LedgerOK(bf.led) /\ state \in EntryType
  BY StateOfType DEF BackfillOK
<1>3. bf'.given = bf.given /\ bf'.column = bf.column
  <2> HIDE DEF t, state
  <2> QED  BY DEF OpenTable, BackfillOK, t, state
<1>4. \/ bf'.pc = "table" /\ bf'.at = bf.at + 1 /\ bf'.led = bf.led
      \/ /\ bf'.pc = "batch" /\ bf'.at = bf.at
         /\ DOMAIN bf'.led = DOMAIN bf.led \cup {t}
         /\ \A u \in DOMAIN bf'.led : bf'.led[u] = IF u = t THEN state ELSE bf.led[u]
  BY DEF OpenTable, BackfillOK
<1>5. DOMAIN bf' = DOMAIN bf
  BY DEF OpenTable
<1>6. LedgerOK(bf'.led)
  BY <1>1, <1>2, <1>4 DEF LedgerOK
<1>7. BackfillOK'
  <2>1. bf'.pc # "idle" /\ bf'.at \in Nat /\ bf'.at # 0
        /\ (bf'.pc = "batch" => bf'.at \in 1 .. 3 /\ Scanned[bf'.at] \in DOMAIN bf'.led)
        /\ bf'.pc \in {"idle", "table", "batch"}
    BY <1>1, <1>4
  <2>2. LedgerOK(bf.led)'
    BY <1>6 DEF LedgerOK
  <2> QED  BY <2>1, <2>2, <1>1, <1>3, <1>5 DEF BackfillOK
<1>8. GivenOK' /\ \A i \in DOMAIN rows : Seen(i)' = Seen(i)
  BY <1>1, <1>3 DEF GivenOK, Seen
<1>9. ASSUME NEW i \in DOMAIN rows
      PROVE  Covered(i, bf.led, Seen(i))'
  <2> DEFINE u == rows[i].table
  <2>1. i \in RowIds /\ i \in Int /\ i > 0 /\ rows'[i] = rows[i] /\ behind' = behind
    BY <1>1, KeysAreNumbers DEF RowsOK
  <2>2. u \in DOMAIN bf'.led /\ i <= bf'.led[u].cursor
          => u \in DOMAIN bf.led /\ bf'.led[u] = bf.led[u]
    BY <1>4, <2>1 DEF StateOf, Unstarted
  <2>3. Covered(i, bf.led, Seen(i))
    BY DEF CursorsOK
  <2> QED  BY <2>1, <2>2, <2>3, <1>8 DEF Covered
<1>10. \A i \in DOMAIN rows : rows[i].parent # Null =>
           Inherits(Seen(i)', Seen(rows[i].parent)')
  <2>1. \A i \in DOMAIN rows : rows[i].parent # Null => rows[i].parent \in DOMAIN rows
    BY DEF RowsOK
  <2> QED  BY <2>1, <1>1, <1>8 DEF ChildrenOK
<1> QED  BY <1>1, <1>7, <1>8, <1>9, <1>10, TransactionKeeps

(* The commit: the transaction's view becomes the committed state.          *)
LEMMA CommitKeeps == ASSUME MigrationInv, CommitBackfill, bf.pc # "idle" PROVE MigrationInv'
<1> USE DEF MigrationInv
<1>1. /\ DOMAIN rows' = DOMAIN rows
      /\ \A i \in DOMAIN rows : rows'[i] = [rows[i] EXCEPT !.tenant = Seen(i)]
      /\ ledger' = bf.led /\ bf' = Resting
      /\ schema' = [schema EXCEPT !.column = @ \cup bf.column]
      /\ UNCHANGED <<revision, role, enforcing, behind, downgrades>>
  BY DEF CommitBackfill
<1>2. \A i \in DOMAIN rows : Seen(i) \in Owners \cup {Null}
  BY DEF Seen, GivenOK, RowsOK, RowType
<1>3. \A i \in DOMAIN rows :
        /\ rows'[i] \in RowType /\ rows'[i].tenant = Seen(i) /\ rows'[i].table = rows[i].table
        /\ rows'[i].parent = rows[i].parent
  BY <1>1, <1>2 DEF RowsOK, RowType
<1>4. RowsOK'
  BY <1>1, <1>3 DEF RowsOK
<1>5. bf'.pc = "idle" /\ bf'.at = 0 /\ DOMAIN bf'.led = {} /\ DOMAIN bf'.given = {}
      /\ bf'.column = {} /\ ~bf'.ran
      /\ DOMAIN bf' = {"pc", "at", "led", "given", "column", "ran"}
  BY <1>1 DEF Resting
<1>6. BackfillOK' /\ GivenOK' /\ LedgerOK(ledger)' /\ revision' \in 0 .. 5
  BY <1>1, <1>5 DEF BackfillOK, GivenOK, LedgerOK
<1>7. \A i \in DOMAIN rows : Seen(i)' = Seen(i) /\ rows'[i].tenant = Seen(i)
  BY <1>3, <1>5 DEF Seen
<1>8. CursorsOK'
  BY <1>1, <1>3, <1>5, <1>7 DEF CursorsOK, Covered
<1>9. ChildrenOK'
  BY <1>1, <1>3, <1>4, <1>7 DEF ChildrenOK, Inherits, RowsOK
<1>10. DOMAIN schema' = DOMAIN schema /\ schema'.column = schema.column \cup bf.column
       /\ \A f \in SchemaFields \ {"column"} : schema'[f] = schema[f]
  BY <1>1 DEF SchemaOK, SchemaFields
<1>11. SchemaOK'
  BY <1>1, <1>10 DEF SchemaOK, BackfillOK
<1>12. ServiceIsConfined'
  <2> SUFFICES ASSUME revision >= 2 PROVE ServiceIsConfined'
    BY <1>1 DEF ServiceIsConfined
  <2>1. schema'.column = schema.column
    BY <1>10 DEF BackfillOK
  <2>2. schema'.granted = schema.granted /\ schema'.tables = schema.tables
        /\ schema'.enabled = schema.enabled /\ schema'.forced = schema.forced
        /\ schema'.policy = schema.policy /\ schema'.required = schema.required
    BY <1>10 DEF SchemaFields
  <2>3. Unowned' = {}
    BY <1>1, <1>7 DEF ServiceIsConfined, Unowned, Seen, GivenOK, Owners
  <2> QED  BY <2>1, <2>2, <2>3, <1>1 DEF ServiceIsConfined
<1> QED  BY <1>4, <1>6, <1>8, <1>9, <1>11, <1>12

(* A batch.  Every row the cursor passes is in the batch and has an owner   *)
(* afterwards.  A root gets the legacy tenant, so the child that had to     *)
(* go without a parent's owner agrees with it; a child gets its parent's.   *)
LEMMA RunBatchKeeps == ASSUME MigrationInv, RunBatch PROVE MigrationInv'
<1> USE DEF MigrationInv
<1> DEFINE t == Scanned[bf.at]
<1> DEFINE ids == Batch(t)
<1>1. /\ bf.pc = "batch" /\ bf.at \in 1 .. 3 /\ t \in DOMAIN bf.led /\ t \in ScannedTables
      /\ UNCHANGED <<revision, schema, role, rows, ledger, enforcing, behind, downgrades>>
  BY ScannedIs DEF RunBatch, BackfillOK
<1>2. LedgerOK(bf.led) /\ bf.led[t] \in EntryType
  BY <1>1 DEF BackfillOK, LedgerOK
<1>3. CASE ids = {}
  <2>1. /\ bf'.given = bf.given /\ bf'.column = bf.column /\ DOMAIN bf' = DOMAIN bf
        /\ bf'.pc = "table" /\ bf'.at = bf.at + 1
        /\ DOMAIN bf'.led = DOMAIN bf.led
        /\ \A u \in DOMAIN bf.led : bf'.led[u].cursor = bf.led[u].cursor
        /\ \A u \in DOMAIN bf.led : bf'.led[u] \in EntryType
    <3>1. bf' = [bf EXCEPT !.led[t].status = "completed", !.pc = "table",
                           !.at = @ + 1, !.ran = TRUE]
      BY <1>3 DEF RunBatch
    <3>2. bf'.led = [bf.led EXCEPT ![t].status = "completed"]
      BY <3>1 DEF BackfillOK
    <3>3. \A u \in DOMAIN bf.led : bf'.led[u] =
             IF u = t THEN [bf.led[u] EXCEPT !.status = "completed"] ELSE bf.led[u]
      BY <3>2
    <3>4. \A u \in DOMAIN bf.led : bf.led[u] \in EntryType
      BY <1>2 DEF LedgerOK
    <3> HIDE DEF t
    <3>5. \A u \in DOMAIN bf.led :
             bf'.led[u] \in EntryType /\ bf'.led[u].cursor = bf.led[u].cursor
      BY <3>3, <3>4 DEF EntryType
    <3> QED  BY <3>1, <3>2, <3>5 DEF BackfillOK
  <2>2. LedgerOK(bf.led)'
    BY <2>1, <1>2 DEF LedgerOK
  <2>3. BackfillOK'
    <3>1. bf'.at \in Nat /\ bf'.at # 0
      BY <2>1, <1>1
    <3> QED  BY <3>1, <2>1, <2>2, <1>1 DEF BackfillOK
  <2>4. GivenOK' /\ \A i \in DOMAIN rows : Seen(i)' = Seen(i)
    BY <2>1, <1>1 DEF GivenOK, Seen
  <2>5. \A i \in DOMAIN rows : Covered(i, bf.led, Seen(i))'
    BY <2>1, <2>4, <1>1 DEF CursorsOK, Covered
  <2>6. \A i \in DOMAIN rows : rows[i].parent # Null =>
            Inherits(Seen(i)', Seen(rows[i].parent)')
    <3>1. \A i \in DOMAIN rows : rows[i].parent # Null => rows[i].parent \in DOMAIN rows
      BY DEF RowsOK
    <3> QED  BY <3>1, <2>4, <1>1 DEF ChildrenOK
  <2> QED  BY <1>1, <2>3, <2>4, <2>5, <2>6, TransactionKeeps
<1>4. CASE ids # {}
  <2> DEFINE upd == Updated(ids)
  <2>0. ids \subseteq Of(t) /\ Of(t) \subseteq DOMAIN rows
    BY DEF Batch, Of
  <2>1. bf' = [bf EXCEPT !.ran = TRUE,
                !.given = [i \in DOMAIN @ \cup upd |->
                              IF i \in upd THEN Resolved(i) ELSE @[i]],
                !.led[t] = [status |-> "running", cursor |-> Max(ids)]]
    BY <1>4 DEF RunBatch, NextCursor
  <2>2. /\ bf'.column = bf.column /\ DOMAIN bf' = DOMAIN bf
        /\ bf'.pc = bf.pc /\ bf'.at = bf.at
        /\ bf'.led = [bf.led EXCEPT ![t] = [status |-> "running", cursor |-> Max(ids)]]
    <3> HIDE DEF t, ids, upd
    <3> QED  BY <2>1 DEF BackfillOK
  <2>3. /\ DOMAIN bf'.given = DOMAIN bf.given \cup upd
        /\ \A i \in DOMAIN bf.given \cup upd :
              bf'.given[i] = IF i \in upd THEN Resolved(i) ELSE bf.given[i]
    <3> HIDE DEF t, ids, upd
    <3> QED  BY <2>1 DEF BackfillOK
  <2>4. upd \subseteq DOMAIN rows /\ \A i \in upd : Seen(i) = Null /\ i \notin DOMAIN bf.given
                                                    /\ rows[i].tenant = Null
    <3>1. upd \subseteq ids /\ \A i \in upd : Seen(i) = Null
      BY DEF Updated
    <3>2. \A o \in Owners : o # Null
      BY MigrationAssumption DEF Owners, Legacy
    <3> HIDE DEF upd, ids
    <3> QED  BY <3>1, <3>2, <2>0 DEF Seen, GivenOK
  <2>5. \A i \in upd : Resolved(i) \in Owners
    <3>1. \A i \in DOMAIN rows : Seen(i) \in Owners \cup {Null}
      BY DEF Seen, GivenOK, RowsOK, RowType
    <3>2. \A i \in DOMAIN rows : rows[i].parent # Null => rows[i].parent \in DOMAIN rows
      BY DEF RowsOK
    <3> HIDE DEF upd
    <3> QED  BY <3>1, <3>2, <2>4 DEF Resolved, Owners
  <2>6. GivenOK'
    <3> HIDE DEF upd, ids, t
    <3> QED  BY <2>3, <2>4, <2>5, <1>1 DEF GivenOK
  <2>7. \A i \in DOMAIN rows : Seen(i)' = IF i \in upd THEN Resolved(i) ELSE Seen(i)
    <3> HIDE DEF upd, ids, t
    <3> QED  BY <2>3, <1>1 DEF Seen
  <2>8. Max(ids) \in RowIds /\ Max(ids) \in ids
    <3>1. Max(ids) \in ids
      BY <1>1, <1>2, <1>4, BatchHasNoHole
    <3> QED  BY <3>1, <2>0 DEF RowsOK
  <2>9. LedgerOK(bf.led)' /\ DOMAIN bf'.led = DOMAIN bf.led
        /\ \A u \in DOMAIN bf.led \ {t} : bf'.led[u] = bf.led[u]
    <3>1. [status |-> "running", cursor |-> Max(ids)] \in EntryType
      BY <2>8 DEF EntryType
    <3> HIDE DEF ids, t
    <3> QED  BY <3>1, <2>2, <1>1, <1>2 DEF LedgerOK
  <2>10. bf'.led[t].cursor = Max(ids)
    <3> HIDE DEF ids, t
    <3> QED  BY <2>2, <1>1
  <2>11. BackfillOK'
    <3> HIDE DEF ids
    <3> QED  BY <2>2, <2>9, <1>1 DEF BackfillOK
  <2>12. ASSUME NEW i \in DOMAIN rows
         PROVE  Covered(i, bf.led, Seen(i))'
    <3>1. Seen(i) # Null => Seen(i)' # Null
      BY <2>4, <2>7
    <3>2. CASE rows[i].table # t
      <4>1. Covered(i, bf.led, Seen(i))
        BY DEF CursorsOK
      <4> HIDE DEF t, upd, ids
      <4> QED  BY <4>1, <3>1, <3>2, <2>9, <1>1 DEF Covered
    <3>3. CASE rows[i].table = t /\ i <= bf.led[t].cursor
      <4>1. Covered(i, bf.led, Seen(i))
        BY DEF CursorsOK
      <4>2. Seen(i)' # Null \/ i \in behind'
        <5> HIDE DEF t, upd, ids
        <5> QED  BY <4>1, <3>1, <3>3, <1>1 DEF Covered
      <4> QED  BY <4>2 DEF Covered
    <3>4. CASE rows[i].table = t /\ ~(i <= bf.led[t].cursor) /\ i <= Max(ids)
      <4>1. i \in Of(t) /\ i \in Int /\ bf.led[t].cursor \in Int
        <5>1. i \in RowIds /\ bf.led[t].cursor \in RowIds \cup {0}
          <6> HIDE DEF t
          <6> QED  BY <1>2 DEF RowsOK, EntryType
        <5> QED  BY <5>1, <3>4, KeysAreNumbers DEF Of
      <4>2. i > bf.led[t].cursor
        BY <4>1, <3>4
      <4>3. i \in ids
        BY <4>1, <4>2, <3>4, <1>1, <1>2, <1>4, BatchHasNoHole
      <4>4. Seen(i) = Null => i \in upd
        BY <4>3 DEF Updated
      <4>5. \A o \in Owners : o # Null
        BY MigrationAssumption DEF Owners, Legacy
      <4>6. Seen(i)' # Null
        <5> HIDE DEF t, upd, ids
        <5> QED  BY <4>4, <4>5, <2>5, <2>7
      <4> QED  BY <4>6 DEF Covered
    <3>5. CASE rows[i].table = t /\ ~(i <= Max(ids))
      <4> HIDE DEF t, ids
      <4> QED  BY <3>5, <2>10, <1>1 DEF Covered
    <3> QED  BY <3>2, <3>3, <3>4, <3>5
  <2>13. ASSUME NEW i \in DOMAIN rows, rows[i].parent # Null
         PROVE  Inherits(Seen(i)', Seen(rows[i].parent)')
    <3> DEFINE p == rows[i].parent
    <3>1. p \in DOMAIN rows /\ rows[p].parent = Null /\ rows'[i].parent = p
      BY <2>13, <1>1 DEF RowsOK
    <3>2. Inherits(Seen(i), Seen(p))
      BY <2>13 DEF ChildrenOK
    <3>3. Resolved(p) = Legacy
      BY <3>1 DEF Resolved
    <3>4. Resolved(i) = IF Seen(p) # Null THEN Seen(p) ELSE Legacy
      BY <2>13 DEF Resolved
    <3>5. \A j \in upd : Seen(j) = Null
      BY <2>4
    <3> HIDE DEF upd, ids, t
    <3> SUFFICES \A q : q = p => Inherits(Seen(i)', Seen(q)')
      BY <3>1
    <3> TAKE q
    <3> HAVE q = p
    <3>6. Seen(q)' = IF p \in upd THEN Legacy ELSE Seen(p)
      BY <2>7, <3>1, <3>3
    <3>7. Seen(i)' = IF i \in upd THEN Resolved(i) ELSE Seen(i)
      BY <2>7
    <3> QED  BY <3>2, <3>4, <3>5, <3>6, <3>7 DEF Inherits
  <2> QED  BY <1>1, <2>11, <2>6, <2>12, <2>13, TransactionKeeps
<1> QED  BY <1>3, <1>4

(* The end of a backfill, one way or the other.  A run that is rolled back  *)
(* leaves the committed state as it was.                                    *)
LEMMA RollbackKeeps ==
    ASSUME MigrationInv, bf' = Resting,
           UNCHANGED <<revision, schema, role, rows, ledger, enforcing, behind, downgrades>>
    PROVE  MigrationInv'
<1> USE DEF MigrationInv
<1>1. bf'.pc = "idle" /\ bf'.at = 0 /\ DOMAIN bf'.led = {} /\ DOMAIN bf'.given = {}
      /\ bf'.column = {} /\ ~bf'.ran
      /\ DOMAIN bf' = {"pc", "at", "led", "given", "column", "ran"}
  BY DEF Resting
<1>2. BackfillOK' /\ GivenOK'
  BY <1>1 DEF BackfillOK, LedgerOK, GivenOK
<1>3. \A i \in DOMAIN rows : Seen(i)' = rows[i].tenant
  BY <1>1 DEF Seen
<1>4. \A i \in DOMAIN rows : Covered(i, bf.led, Seen(i))'
  BY <1>1 DEF Covered
<1>5. \A i \in DOMAIN rows : rows[i].parent # Null =>
          Inherits(Seen(i)', Seen(rows[i].parent)')
  <2>1. \A i \in DOMAIN rows : rows[i].parent # Null => rows[i].parent \in DOMAIN rows
    BY DEF RowsOK
  <2> QED  BY <2>1, <1>3 DEF ChildrenOK
<1> QED  BY <1>2, <1>4, <1>5, TransactionKeeps

LEMMA BackfillEndKeeps ==
    ASSUME MigrationInv, StopEarly \/ VerifyBackfill \/ CrashBackfill
    PROVE  MigrationInv'
<1>1. CASE StopEarly
  BY <1>1, CommitKeeps DEF StopEarly, MigrationInv, BackfillOK
<1>2. CASE VerifyBackfill
  BY <1>2, CommitKeeps, RollbackKeeps DEF VerifyBackfill
<1>3. CASE CrashBackfill
  BY <1>3, RollbackKeeps DEF CrashBackfill, LedgerAfterCrash
<1> QED  BY <1>1, <1>2, <1>3

-----------------------------------------------------------------------------
(* The revisions.                                                           *)

(* What a revision that leaves the rows alone has to show.                  *)
LEMMA RevisionKeeps ==
    ASSUME MigrationInv, bf.pc = "idle", UNCHANGED <<rows, ledger, bf, behind>>,
           revision' \in 0 .. 5, SchemaOK', ServiceIsConfined'
    PROVE  MigrationInv'
<1> USE DEF MigrationInv
<1>1. RowsOK' /\ GivenOK' /\ LedgerOK(ledger)'
  BY DEF RowsOK, GivenOK, LedgerOK
<1>2. BackfillOK'
  BY DEF BackfillOK, LedgerOK
<1>3. CursorsOK' /\ ChildrenOK'
  BY DEF CursorsOK, ChildrenOK, Covered, Inherits, Seen
<1> QED  BY <1>1, <1>2, <1>3

LEMMA ExpandKeeps == ASSUME MigrationInv, Expand PROVE MigrationInv'
<1> USE DEF MigrationInv
<1>1. revision = 0 /\ revision' = 1 /\ UNCHANGED <<role, rows, ledger, bf, enforcing, behind>>
  BY DEF Expand
<1>2. bf.pc = "idle" /\ ~enforcing
  BY <1>1 DEF BackfillOK, SchemaOK
<1>3. DOMAIN schema' = SchemaFields /\ schema'.column = ExpandScoped \cup {"eval_runs"}
  BY DEF Expand, SchemaOK, SchemaFields
<1>4. DOMAIN ledger = {}
  BY <1>1 DEF SchemaOK
<1>5. SchemaOK'
  BY <1>1, <1>2, <1>3, <1>4 DEF SchemaOK, ExpandScoped
<1> QED  BY <1>1, <1>2, <1>5, RevisionKeeps DEF ServiceIsConfined

LEMMA EnforceKeeps ==
    ASSUME MigrationInv, CheckEnforce \/ ApplyEnforce \/ RestrictRole
    PROVE  MigrationInv'
<1> USE DEF MigrationInv
<1>1. CASE CheckEnforce
  <2>1. revision = 1 /\ bf.pc = "idle" /\ enforcing' /\ UNCHANGED <<revision, schema, role, rows, ledger, bf, behind>>
    BY <1>1 DEF CheckEnforce
  <2>2. ScannedTables \subseteq DOMAIN ledger
    BY <1>1 DEF CheckEnforce, Reconciled
  <2>3. SchemaOK' /\ ServiceIsConfined'
    BY <2>1, <2>2 DEF SchemaOK, ServiceIsConfined
  <2> QED  BY <2>1, <2>3, RevisionKeeps
<1>2. CASE ApplyEnforce
  <2>1. enforcing /\ revision = 1 /\ ~enforcing' /\ UNCHANGED <<rows, ledger, bf, behind>>
    BY <1>2 DEF ApplyEnforce, SchemaOK
  <2>2. bf.pc = "idle"
    BY <2>1 DEF BackfillOK
  <2>3. CASE Unowned = {} /\ role # "bypass"
    <3>1. revision' = 2 /\ role' = "restricted"
      BY <1>2, <2>3 DEF ApplyEnforce
    <3>2. /\ DOMAIN schema' = DOMAIN schema
          /\ schema'.column = schema.column /\ schema'.tables = schema.tables
          /\ schema'.granted = schema.tables
          /\ schema'.required = schema.required \cup schema.column
          /\ schema'.enabled = schema.enabled \cup schema.column
          /\ schema'.forced = schema.forced \cup schema.column
          /\ schema'.policy = schema.policy \cup schema.column
      BY <1>2, <2>3 DEF ApplyEnforce, ForceIsolation, SchemaOK, SchemaFields
    <3>3. SchemaOK'
      <4>1. DOMAIN ledger # {}
        BY <2>1, ScannedIs DEF SchemaOK
      <4> QED  BY <4>1, <2>1, <3>1, <3>2 DEF SchemaOK
    <3>4. ServiceIsConfined'
      BY <2>1, <2>3, <3>1, <3>2 DEF ServiceIsConfined, Unowned
    <3> QED  BY <2>1, <2>2, <3>1, <3>3, <3>4, RevisionKeeps
  <2>4. CASE ~(Unowned = {} /\ role # "bypass")
    <3>1. UNCHANGED <<revision, schema, role>>
      BY <1>2, <2>4 DEF ApplyEnforce
    <3>2. SchemaOK' /\ ServiceIsConfined'
      BY <2>1, <3>1 DEF SchemaOK, ServiceIsConfined
    <3> QED  BY <2>1, <2>2, <3>1, <3>2, RevisionKeeps
  <2> QED  BY <2>3, <2>4
<1>3. CASE RestrictRole
  <2>1. revision = 1 /\ UNCHANGED <<revision, schema, rows, ledger, bf, enforcing, behind>>
    BY <1>3 DEF RestrictRole
  <2>2. RowsOK' /\ GivenOK' /\ LedgerOK(ledger)' /\ BackfillOK' /\ CursorsOK' /\ ChildrenOK'
    BY <2>1 DEF RowsOK, GivenOK, LedgerOK, BackfillOK, CursorsOK, ChildrenOK, Covered,
                Inherits, Seen
  <2>3. SchemaOK' /\ ServiceIsConfined'
    BY <2>1 DEF SchemaOK, ServiceIsConfined
  <2> QED  BY <2>1, <2>2, <2>3
<1> QED  BY <1>1, <1>2, <1>3

(* The tables of the later stages are none of those the backfill works on.  *)
LEMMA LaterTables ==
    ASSUME NEW n \in 3 .. 5
    PROVE  /\ NewTables(n) \cap {"knowledge_bases", "knowledge_documents"} = {}
           /\ NewTables(n) \cap AddedByBackfill = {}
           /\ Isolated(n) \subseteq NewTables(n)
           /\ Isolated(n) \ {"quota_policies"} = Strict(n)
<1>1. n = 3 \/ n = 4 \/ n = 5
  OBVIOUS
<1>2. Isolated(n) \subseteq NewTables(n) /\ Isolated(n) \ {"quota_policies"} = Strict(n)
  BY DEF Isolated, Strict
<1>3. CASE n = 3
  BY <1>3, <1>2 DEF NewTables, JobTables, QuotaTables, AddedByBackfill
<1>4. CASE n = 4
  BY <1>4, <1>2 DEF NewTables, MaterialTables, VectorTables, AddedByBackfill
<1>5. CASE n = 5
  BY <1>5, <1>2 DEF NewTables, WorkspaceTables, AddedByBackfill
<1> QED  BY <1>1, <1>3, <1>4, <1>5

LEMMA AddStageKeeps ==
    ASSUME MigrationInv, NEW n \in 3 .. 5, AddStage(n)
    PROVE  MigrationInv'
<1> USE DEF MigrationInv
<1>1. revision = n - 1 /\ revision' = n /\ bf.pc = "idle" /\ revision >= 2
      /\ UNCHANGED <<role, rows, ledger, bf, enforcing, behind>>
  BY DEF AddStage
<1>2. role = "restricted"
  BY <1>1 DEF ServiceIsConfined
<1>3. /\ DOMAIN schema' = DOMAIN schema
      /\ schema'.column = schema.column \cup Isolated(n)
      /\ schema'.tables = schema.tables \cup NewTables(n)
      /\ schema'.granted = schema.granted \cup NewTables(n)
      /\ schema'.required = schema.required \cup Strict(n)
      /\ schema'.enabled = schema.enabled \cup Isolated(n)
      /\ schema'.forced = schema.forced \cup Isolated(n)
      /\ schema'.policy = schema.policy \cup Isolated(n)
  BY <1>2 DEF AddStage, ForceIsolation, SchemaOK, SchemaFields
<1>4. SchemaOK'
  BY <1>1, <1>3 DEF SchemaOK
<1>5. ServiceIsConfined'
  BY <1>1, <1>3, LaterTables DEF ServiceIsConfined, Unowned
<1> QED  BY <1>1, <1>4, <1>5, RevisionKeeps

LEMMA DowngradeKeeps ==
    ASSUME MigrationInv, DropStage \/ Relax \/ Contract
    PROVE  MigrationInv'
<1> USE DEF MigrationInv
<1>1. CASE DropStage
  <2>1. revision \in 3 .. 5 /\ revision' = revision - 1 /\ bf.pc = "idle" /\ revision >= 2
        /\ UNCHANGED <<role, rows, ledger, bf, enforcing, behind>>
    BY <1>1 DEF DropStage
  <2>2. PICK gone : gone = NewTables(revision)
    OBVIOUS
  <2>3. /\ gone \cap {"knowledge_bases", "knowledge_documents"} = {}
        /\ gone \cap AddedByBackfill = {}
    BY <2>1, <2>2, LaterTables
  <2>4. /\ DOMAIN schema' = DOMAIN schema
        /\ schema'.column = schema.column \ gone /\ schema'.tables = schema.tables \ gone
        /\ schema'.granted = schema.granted \ gone /\ schema'.required = schema.required \ gone
        /\ schema'.enabled = schema.enabled \ gone /\ schema'.forced = schema.forced \ gone
        /\ schema'.policy = schema.policy \ gone
    BY <1>1, <2>2 DEF DropStage, Without, SchemaOK, SchemaFields
  <2>5. SchemaOK'
    BY <2>1, <2>3, <2>4 DEF SchemaOK
  <2>6. ServiceIsConfined'
    BY <2>1, <2>4 DEF ServiceIsConfined, Unowned
  <2> QED  BY <2>1, <2>5, <2>6, RevisionKeeps
<1>2. CASE Relax
  <2>1. revision = 2 /\ revision' = 1 /\ bf.pc = "idle"
        /\ UNCHANGED <<role, rows, ledger, bf, enforcing, behind>>
    BY <1>2 DEF Relax
  <2>2. DOMAIN schema' = DOMAIN schema /\ schema'.column = schema.column
    BY <1>2 DEF Relax, SchemaOK, SchemaFields
  <2>3. SchemaOK' /\ ServiceIsConfined'
    BY <2>1, <2>2 DEF SchemaOK, ServiceIsConfined
  <2> QED  BY <2>1, <2>3, RevisionKeeps
<1>3. CASE Contract
  <2>1. revision' = 0 /\ schema' = Empty /\ DOMAIN rows' = {} /\ bf.pc = "idle" /\ ~enforcing
        /\ UNCHANGED <<role, ledger, bf, enforcing, behind>>
    BY <1>3 DEF Contract
  <2>2. DOMAIN ledger = {}
    BY <1>3 DEF Contract, SchemaOK, AddedByBackfill
  <2>3. DOMAIN bf'.given = {} /\ DOMAIN bf'.led = {}
    BY <2>1 DEF BackfillOK
  <2>4. RowsOK' /\ GivenOK' /\ CursorsOK' /\ ChildrenOK'
    BY <2>1, <2>3 DEF RowsOK, GivenOK, CursorsOK, ChildrenOK
  <2>5. BackfillOK' /\ LedgerOK(ledger)'
    BY <2>1 DEF BackfillOK, LedgerOK
  <2>6. SchemaOK' /\ ServiceIsConfined'
    BY <2>1, <2>2 DEF SchemaOK, Empty, SchemaFields, ServiceIsConfined
  <2> QED  BY <2>1, <2>4, <2>5, <2>6
<1> QED  BY <1>1, <1>2, <1>3

LEMMA MigrationNextInv == MigrationInv /\ [MigrationNext]_vars => MigrationInv'
<1> SUFFICES ASSUME MigrationInv, [MigrationNext]_vars PROVE MigrationInv'
  OBVIOUS
<1>1. CASE InsertRoot \/ InsertCase \/ InsertDocument
  BY <1>1, InsertsKeep
<1>2. CASE StartBackfill
  BY <1>2, StartBackfillKeeps
<1>3. CASE OpenTable
  BY <1>3, OpenTableKeeps
<1>4. CASE RunBatch
  BY <1>4, RunBatchKeeps
<1>5. CASE StopEarly \/ VerifyBackfill \/ CrashBackfill
  BY <1>5, BackfillEndKeeps
<1>6. CASE Expand
  BY <1>6, ExpandKeeps
<1>7. CASE CheckEnforce \/ ApplyEnforce \/ RestrictRole
  BY <1>7, EnforceKeeps
<1>8. CASE Stage4 \/ Stage5 \/ Stage6
  BY <1>8, AddStageKeeps DEF Stage4, Stage5, Stage6
<1>9. CASE DropStage \/ Relax \/ Contract
  BY <1>9, DowngradeKeeps
<1>10. CASE UNCHANGED vars
  BY <1>10 DEF vars, MigrationInv, LedgerOK, RowsOK, BackfillOK, GivenOK, CursorsOK,
               ChildrenOK, SchemaOK, ServiceIsConfined, Unowned, Covered, Inherits, Seen
<1> QED
  BY <1>1, <1>2, <1>3, <1>4, <1>5, <1>6, <1>7, <1>8, <1>9, <1>10
  DEF MigrationNext, BackfillStep

-----------------------------------------------------------------------------
(* The theorems.                                                            *)

(* The revision, the rows and the ledger have the types the tables declare, *)
(* for every number of rows, tenants and downgrades.                        *)
THEOREM MigrationTypeCorrect == MigrationSpec => []MigrationTypeOK
<1>1. MigrationInv => MigrationTypeOK
  BY DEF MigrationInv, RowsOK, LedgerOK, RowType, EntryType, MigrationTypeOK
<1> QED  BY <1>1, MigrationInitInv, MigrationNextInv, PTL DEF MigrationSpec

(* The backfill's cursor never skips a row that was there when it passed,   *)
(* and a child never belongs to another tenant than its parent, however     *)
(* insertions, stops, crashes and re-runs interleave with the scan          *)
(* (backfill_legacy_tenant.py).                                             *)
THEOREM OwnersStayRight == MigrationSpec => []OwnersAreRight
<1>1. MigrationInv => OwnersAreRight
  BY DEF MigrationInv, OwnersAreRight, CursorsOK, Covered, ChildrenOK, Inherits
<1> QED  BY <1>1, MigrationInitInv, MigrationNextInv, PTL DEF MigrationSpec

(* From revision 002 on no row is without an owner, every table with an     *)
(* owner has row security enabled and forced, and the service's role cannot *)
(* bypass it; rows inserted while 002 runs, later revisions and downgrades  *)
(* keep it so (002_enterprise_enforce.py).                              *)
THEOREM ServiceStaysConfined == MigrationSpec => []ServiceIsConfined
<1>1. MigrationInv => ServiceIsConfined
  BY DEF MigrationInv
<1> QED  BY <1>1, MigrationInitInv, MigrationNextInv, PTL DEF MigrationSpec
=============================================================================
