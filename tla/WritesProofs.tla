---------------------------- MODULE WritesProofs ----------------------------
(***************************************************************************)
(* Proofs about the workloads that write, for any keys, any HASH, any      *)
(* number of repetitions and sessions: whatever a session that was cut     *)
(* short leaves, the next one's setup is not refused and restores the      *)
(* tables; a session that went through leaves nothing, and the same rows   *)
(* on both engines; warm runs of UPDATE, DELETE and MERGE change nothing;  *)
(* and o_orderkey stays a key.                                             *)
(***************************************************************************)
EXTENDS Writes, FiniteSetTheorems, FunctionTheorems, WellFoundedInduction, TLAPS

-----------------------------------------------------------------------------
(***************************************************************************)
(* Bags                                                                    *)
(***************************************************************************)

(* A bag of finitely many rows, of each one copy or more.                  *)
FiniteBag(b) == IsABag(b) /\ IsFiniteSet(DOMAIN b)

(* What a function makes of finitely many elements are finitely many.      *)
LEMMA FiniteImage ==
  ASSUME NEW A, IsFiniteSet(A), NEW f
  PROVE  IsFiniteSet({f[x] : x \in A})
  <1> DEFINE g == [x \in A |-> f[x]]
             B == {f[x] : x \in A}
  <1>1. g \in [A -> B] /\ \A y \in B : \E x \in A : g[x] = y
    OBVIOUS
  <1> HIDE DEF g, B
  <1>2. g \in Surjection(A, B)
    BY <1>1, Fun_IsSurj
  <1>3. IsFiniteSet(B)
    BY <1>2, FS_Surjection
  <1> QED
    BY <1>3 DEF B

(* There are finitely many copies in it, each one of a row.                *)
LEMMA CopiesAre ==
  ASSUME NEW b, FiniteBag(b)
  PROVE  /\ IsFiniteSet(Copies(b))
         /\ \A c \in Copies(b) : c[1] \in DOMAIN b /\ c[2] \in 1 .. b[c[1]] /\ c = <<c[1], c[2]>>
         /\ \A r \in DOMAIN b : \A i \in 1 .. b[r] : <<r, i>> \in Copies(b)
  <1>1. \A r \in DOMAIN b : b[r] \in Nat
    BY DEF FiniteBag, IsABag
  <1> DEFINE Parts == {{r} \X (1 .. b[r]) : r \in DOMAIN b}
  <1>2. IsFiniteSet(Parts)
    <2> DEFINE f == [r \in DOMAIN b |-> {r} \X (1 .. b[r])]
    <2>1. Parts = {f[r] : r \in DOMAIN b}
      OBVIOUS
    <2> HIDE DEF Parts, f
    <2> QED
      BY <2>1, FiniteImage DEF FiniteBag
  <1>3. \A T \in Parts : IsFiniteSet(T)
    <2> SUFFICES ASSUME NEW r \in DOMAIN b PROVE IsFiniteSet({r} \X (1 .. b[r]))
      OBVIOUS
    <2>1. IsFiniteSet({r})
      BY FS_Singleton
    <2>2. b[r] \in Int /\ 1 \in Int
      BY <1>1
    <2>3. IsFiniteSet(1 .. b[r])
      BY <2>2, FS_Interval
    <2> QED
      BY <2>1, <2>3, FS_Product
  <1>4. Copies(b) = UNION Parts
    BY DEF Copies, BagToSet
  <1>5. IsFiniteSet(UNION Parts)
    BY <1>2, <1>3, FS_UNION
  <1> QED
    BY <1>4, <1>5

(* What a change makes of it is such a bag again.                          *)
LEMMA ChangedIs ==
  ASSUME NEW b, FiniteBag(b), NEW f
  PROVE  FiniteBag(Changed(b, f)) /\ DOMAIN Changed(b, f) = {f[r] : r \in DOMAIN b}
  <1> DEFINE Of(row) == {c \in Copies(b) : f[c[1]] = row}
  <1>1. Changed(b, f) = [row \in {f[r] : r \in DOMAIN b} |-> Cardinality(Of(row))]
    BY DEF Changed, BagToSet
  <1>2. ASSUME NEW r \in DOMAIN b PROVE Cardinality(Of(f[r])) \in {n \in Nat : n > 0}
    <2>1. IsFiniteSet(Of(f[r]))
      BY CopiesAre, FS_Subset
    <2>2. b[r] \in Nat /\ b[r] > 0
      BY DEF FiniteBag, IsABag
    <2>3. <<r, 1>> \in Of(f[r])
      BY <2>2, CopiesAre
    <2> HIDE DEF Of
    <2> QED
      BY <2>1, <2>3, FS_EmptySet, FS_CardinalityType
  <1> HIDE DEF Of
  <1>3. IsFiniteSet({f[r] : r \in DOMAIN b})
    BY FiniteImage DEF FiniteBag
  <1> QED
    BY <1>1, <1>2, <1>3 DEF FiniteBag, IsABag

(* Where no two rows become the same, every row keeps its single copy.     *)
LEMMA ChangedApart ==
  ASSUME NEW b, FiniteBag(b), \A r \in DOMAIN b : b[r] = 1,
         NEW f, \A r, s \in DOMAIN b : f[r] = f[s] => r = s
  PROVE  \A row \in DOMAIN Changed(b, f) : Changed(b, f)[row] = 1
  <1> DEFINE Of(row) == {c \in Copies(b) : f[c[1]] = row}
  <1>1. Changed(b, f) = [row \in {f[r] : r \in DOMAIN b} |-> Cardinality(Of(row))]
    BY DEF Changed, BagToSet
  <1>2. ASSUME NEW r \in DOMAIN b PROVE Cardinality(Of(f[r])) = 1
    <2>1. <<r, 1>> \in Of(f[r])
      BY CopiesAre
    <2>2. ASSUME NEW c \in Of(f[r]) PROVE c = <<r, 1>>
      <3>1. c \in Copies(b) /\ f[c[1]] = f[r]
        OBVIOUS
      <3>2. c[1] \in DOMAIN b /\ c[2] \in 1 .. b[c[1]] /\ c = <<c[1], c[2]>>
        BY <3>1, CopiesAre
      <3> QED
        BY <3>1, <3>2
    <2> HIDE DEF Of
    <2>3. Of(f[r]) = {<<r, 1>>}
      BY <2>1, <2>2
    <2> QED
      BY <2>3, FS_Singleton
  <1> HIDE DEF Of
  <1> QED
    BY <1>1, <1>2

(* Two bags together, and a part of one.                                   *)
LEMMA TogetherIs ==
  ASSUME NEW a, NEW b, FiniteBag(a), FiniteBag(b)
  PROVE  /\ FiniteBag(a (+) b)
         /\ DOMAIN (a (+) b) = DOMAIN a \union DOMAIN b
         /\ \A r \in DOMAIN a \ DOMAIN b : (a (+) b)[r] = a[r]
         /\ \A r \in DOMAIN b \ DOMAIN a : (a (+) b)[r] = b[r]
  <1>1. IsFiniteSet(DOMAIN a \union DOMAIN b)
    BY FS_Union DEF FiniteBag
  <1>2. \A r \in DOMAIN a : a[r] \in Nat /\ a[r] > 0
    BY DEF FiniteBag, IsABag
  <1>3. \A r \in DOMAIN b : b[r] \in Nat /\ b[r] > 0
    BY DEF FiniteBag, IsABag
  <1>4. DOMAIN (a (+) b) = DOMAIN a \union DOMAIN b
    BY DEF (+)
  <1>5. \A r \in DOMAIN a \union DOMAIN b :
           (a (+) b)[r] = (IF r \in DOMAIN a THEN a[r] ELSE 0) + (IF r \in DOMAIN b THEN b[r] ELSE 0)
    BY DEF (+)
  <1>6. a (+) b = [r \in DOMAIN a \union DOMAIN b |-> (a (+) b)[r]]
    BY DEF (+)
  <1>7. \A r \in DOMAIN a \union DOMAIN b : (a (+) b)[r] \in {n \in Nat : n > 0}
    BY <1>2, <1>3, <1>5
  <1> QED
    BY <1>1, <1>2, <1>3, <1>4, <1>5, <1>6, <1>7 DEF FiniteBag, IsABag

(* The part of a bag that consists of some of its rows.                    *)
LEMMA WhereIs ==
  ASSUME NEW b, FiniteBag(b), NEW rows \in SUBSET DOMAIN b
  PROVE  /\ FiniteBag(Where(b, rows)) /\ DOMAIN Where(b, rows) = rows
         /\ \A r \in rows : Where(b, rows)[r] = b[r]
  <1>1. IsFiniteSet(rows)
    BY FS_Subset DEF FiniteBag
  <1> QED
    BY <1>1 DEF FiniteBag, IsABag, Where

(* A bag made of a set has one copy of each of its elements.               *)
LEMMA SetToBagIs ==
  ASSUME NEW rows, IsFiniteSet(rows)
  PROVE  /\ FiniteBag(SetToBag(rows)) /\ DOMAIN SetToBag(rows) = rows
         /\ \A r \in rows : SetToBag(rows)[r] = 1
  BY DEF FiniteBag, IsABag, SetToBag

(* Nothing and a bag together are that bag.                                *)
LEMMA NothingMore ==
  ASSUME NEW b, FiniteBag(b)
  PROVE  EmptyBag (+) b = b
  <1>1. b = [r \in DOMAIN b |-> b[r]] /\ \A r \in DOMAIN b : b[r] \in Nat
    BY DEF FiniteBag, IsABag
  <1>2. DOMAIN EmptyBag = {}
    BY DEF EmptyBag, SetToBag
  <1>3. EmptyBag (+) b = [r \in DOMAIN b |-> b[r]]
    BY <1>1, <1>2 DEF (+)
  <1> QED
    BY <1>1, <1>3

-----------------------------------------------------------------------------
(***************************************************************************)
(* What a statement does                                                   *)
(***************************************************************************)

(* The zones of the scripts.                                               *)
Zones == {"", "bench", "bench_ext", "bench_w", "write_zone"}

(* A database is a set of zones and named tables, each in one of them.     *)
Database(d) ==
  /\ d = [zones |-> d.zones, tables |-> d.tables]
  /\ d.zones \subseteq Zones
  /\ "" \in d.zones
  /\ \A n \in DOMAIN d.tables : n[1] \in d.zones /\ FiniteBag(d.tables[n])

(* The tables that are read, and the change of one of them.                *)
Read(d, s)  == IF s.from = <<>> THEN Source(s.name) ELSE d.tables[s.from]
Writing(s)  == s.op \notin {"nothing", "zone", "drop", "drop it"}

(* What the source holds is a bag.                                         *)
LEMMA SourceIs ==
  ASSUME NEW n
  PROVE  /\ FiniteBag(Source(n)) /\ \A r \in DOMAIN Source(n) : Source(n)[r] = 1
         /\ DOMAIN Source(n) = {[key |-> k, val |-> IF n[2] \in {"orders", "stg_orders"} THEN "O" ELSE 0] : k \in Keys}
  <1> DEFINE f == [k \in Keys |-> [key |-> k, val |-> IF n[2] \in {"orders", "stg_orders"} THEN "O" ELSE 0]]
             rows == {f[k] : k \in Keys}
  <1>1. IsFiniteSet(rows)
    BY FiniteImage, WritesAssumption DEF WritesAssumption
  <1>2. Source(n) = SetToBag(rows)
    BY DEF Source
  <1>3. rows = {[key |-> k, val |-> IF n[2] \in {"orders", "stg_orders"} THEN "O" ELSE 0] : k \in Keys}
    OBVIOUS
  <1> HIDE DEF rows, f
  <1> QED
    BY <1>1, <1>2, <1>3, SetToBagIs

(* The keys of a bag are finitely many.                                    *)
LEMMA KeysAre ==
  ASSUME NEW b, FiniteBag(b)
  PROVE  IsFiniteSet(BagKeys(b))
  <1> DEFINE f == [r \in DOMAIN b |-> r.key]
  <1>1. BagKeys(b) = {f[r] : r \in DOMAIN b}
    BY DEF BagKeys, BagToSet
  <1> HIDE DEF f
  <1> QED
    BY <1>1, FiniteImage DEF FiniteBag

(* Both feeds have one copy of each of finitely many rows.                 *)
LEMMA CrudFeedIs ==
  ASSUME NEW b, FiniteBag(b)
  PROVE  /\ FiniteBag(CrudFeed(b)) /\ \A r \in DOMAIN CrudFeed(b) : CrudFeed(b)[r] = 1
         /\ DOMAIN CrudFeed(b) =
              {[key |-> k + MaxKey(b) + FeedOffset, val |-> "F", op |-> "I"] :
                  k \in {l \in BagKeys(b) : In(l, 500, 0)}} \union
              {[key |-> k, val |-> "X", op |-> "U"] : k \in {l \in BagKeys(b) : In(l, 100, 7)}}
  <1> DEFINE new == {l \in BagKeys(b) : In(l, 500, 0)}
             old == {l \in BagKeys(b) : In(l, 100, 7)}
             f == [k \in new |-> [key |-> k + MaxKey(b) + FeedOffset, val |-> "F", op |-> "I"]]
             g == [k \in old |-> [key |-> k, val |-> "X", op |-> "U"]]
             rows == {f[k] : k \in new} \union {g[k] : k \in old}
  <1>1. IsFiniteSet(new) /\ IsFiniteSet(old)
    BY KeysAre, FS_Subset
  <1>2. rows = {[key |-> k + MaxKey(b) + FeedOffset, val |-> "F", op |-> "I"] : k \in new} \union
               {[key |-> k, val |-> "X", op |-> "U"] : k \in old}
    OBVIOUS
  <1>3. CrudFeed(b) = SetToBag(rows)
    BY DEF CrudFeed
  <1> HIDE DEF new, old, f, g
  <1>4. IsFiniteSet({f[k] : k \in new}) /\ IsFiniteSet({g[k] : k \in old})
    BY <1>1, FiniteImage
  <1>5. IsFiniteSet(rows)
    BY <1>4, FS_Union
  <1> HIDE DEF rows
  <1>6. FiniteBag(CrudFeed(b)) /\ DOMAIN CrudFeed(b) = rows /\ \A r \in rows : CrudFeed(b)[r] = 1
    BY <1>3, <1>5, SetToBagIs
  <1> QED
    BY <1>2, <1>6 DEF new, old

(* So is the feed of merge_cdc.py.                                         *)
LEMMA CdcFeedIs ==
  ASSUME NEW b, FiniteBag(b)
  PROVE  FiniteBag(CdcFeed(b))
  <1> DEFINE some == {q \in DOMAIN b : Below(q.key, 100, 2)}
             f == [r \in some |-> [key |-> r.key, val |-> r.val + 1,
                                   op |-> IF Below(r.key, 100, 1) THEN "U" ELSE "D"]]
             rows == {f[r] : r \in some}
  <1>1. IsFiniteSet(some)
    BY FS_Subset DEF FiniteBag
  <1>2. CdcFeed(b) = SetToBag(rows)
    BY DEF CdcFeed, BagToSet
  <1> HIDE DEF some, f
  <1>3. IsFiniteSet(rows)
    BY <1>1, FiniteImage
  <1> HIDE DEF rows
  <1> QED
    BY <1>2, <1>3, SetToBagIs

(* So are the changes of a table.                                          *)
LEMMA ChangesAre ==
  ASSUME NEW b, FiniteBag(b), NEW feed, FiniteBag(feed), NEW pct
  PROVE  /\ FiniteBag(CrudInsert(b)) /\ FiniteBag(CrudUpdate(b)) /\ FiniteBag(CrudDelete(b))
         /\ FiniteBag(CrudMerge(b, feed)) /\ FiniteBag(CdcMerge(b, feed))
         /\ FiniteBag(UpdatePct(b, pct)) /\ FiniteBag(DeletePct(b, pct))
  <1>1. \A rows \in SUBSET DOMAIN b : \A f : FiniteBag(Changed(Where(b, rows), f))
    BY WhereIs, ChangedIs
  <1>2. \A rows \in SUBSET DOMAIN feed : \A f : FiniteBag(Changed(Where(feed, rows), f))
    BY WhereIs, ChangedIs
  <1>3. FiniteBag(CrudInsert(b))
    <2> DEFINE chosen == {r \in BagToSet(b) : In(r.key, 30, 0)}
               f == [r \in chosen |-> [key |-> r.key + MaxKey(b) + InsertOffset, val |-> "N"]]
    <2>1. CrudInsert(b) = b (+) Changed(Where(b, chosen), f)
      BY DEF CrudInsert
    <2>2. chosen \in SUBSET DOMAIN b
      BY DEF BagToSet
    <2> HIDE DEF chosen, f
    <2>3. FiniteBag(Changed(Where(b, chosen), f))
      BY <1>1, <2>2
    <2> QED
      BY <2>1, <2>3, TogetherIs
  <1>4. FiniteBag(CrudUpdate(b)) /\ FiniteBag(UpdatePct(b, pct)) /\ FiniteBag(Updated(b, feed))
    BY ChangedIs DEF CrudUpdate, UpdatePct, Updated
  <1>5. FiniteBag(CrudDelete(b)) /\ FiniteBag(DeletePct(b, pct))
    BY WhereIs DEF CrudDelete, DeletePct, BagToSet
  <1>6. FiniteBag(CrudMerge(b, feed))
    <2> DEFINE rows == {s \in BagToSet(feed) : s.op = "I" /\ s.key \notin BagKeys(b)}
    <2>1. CrudMerge(b, feed) = Updated(b, feed) (+) Inserted(feed, rows)
      BY DEF CrudMerge
    <2>2. rows \in SUBSET DOMAIN feed
      BY DEF BagToSet
    <2> HIDE DEF rows
    <2>3. FiniteBag(Inserted(feed, rows))
      BY <1>2, <2>2 DEF Inserted
    <2> QED
      BY <1>4, <2>1, <2>3, TogetherIs
  <1>7. FiniteBag(CdcMerge(b, feed))
    BY <1>4, WhereIs DEF CdcMerge, BagToSet
  <1> QED
    BY <1>3, <1>4, <1>5, <1>6, <1>7

(* The content of the table a statement writes, by its operation.          *)
LEMMA ContentIs ==
  ASSUME NEW d, NEW s
  PROVE  LET old == d.tables[s.name]
         IN  /\ s.op = "create" => Content(d, s) = EmptyBag
             /\ s.op \in {"mount", "ctas", "replace"} => Content(d, s) = Read(d, s)
             /\ s.op = "crud feed" => Content(d, s) = CrudFeed(Read(d, s))
             /\ s.op = "cdc feed" => Content(d, s) = CdcFeed(Read(d, s))
             /\ s.op = "append" => Content(d, s) = old (+) Read(d, s)
             /\ s.op = "insert" => Content(d, s) = CrudInsert(old)
             /\ s.op = "update" => Content(d, s) = CrudUpdate(old)
             /\ s.op = "delete" => Content(d, s) = CrudDelete(old)
             /\ s.op = "merge" => Content(d, s) = CrudMerge(old, Read(d, s))
             /\ s.op = "cdc merge" => Content(d, s) = CdcMerge(old, Read(d, s))
             /\ s.op = "update %" => Content(d, s) = UpdatePct(old, s.arg)
             /\ s.op = "delete %" => Content(d, s) = DeletePct(old, s.arg)
             /\ s.op \in {"optimize", "select"} => Content(d, s) = old
  BY DEF Content, Read

(* The operations of the scripts.                                          *)
Ops == {"nothing", "zone", "drop", "drop it", "create", "mount", "ctas", "replace",
        "crud feed", "cdc feed", "append", "insert", "update", "delete", "merge",
        "cdc merge", "update %", "delete %", "optimize", "select"}

(* When a statement is legal.                                              *)
LEMMA LegalIs ==
  ASSUME NEW d, NEW s
  PROVE  LET T == DOMAIN d.tables
             sourced == s.from # <<>> => s.from \in T
         IN  /\ s.op \in {"zone", "drop", "nothing"} => Legal(d, s)
             /\ s.op \in {"create", "mount"} => (Legal(d, s) <=> s.name[1] \in d.zones /\ s.name \notin T)
             /\ s.op = "ctas" => (Legal(d, s) <=> s.name[1] \in d.zones /\ s.name \notin T /\ sourced)
             /\ s.op \in {"replace", "crud feed", "cdc feed"} =>
                  (Legal(d, s) <=> s.name[1] \in d.zones /\ sourced)
             /\ s.op \in {"drop it", "append", "insert", "update", "delete", "merge", "cdc merge",
                          "update %", "delete %", "optimize", "select"} =>
                  (Legal(d, s) <=> s.name \in T /\ sourced)
  BY DEF Legal

(* A statement of the scripts names a zone and is one of the operations.   *)
Proper(s) == s.op \in Ops /\ s.name[1] \in Zones /\ (s.op = "mount" => s.from = <<>>)

(* A statement that is legal writes a bag.                                 *)
LEMMA ContentIsABag ==
  ASSUME NEW d, Database(d), NEW s, Proper(s), Writing(s), Legal(d, s)
  PROVE  FiniteBag(Content(d, s)) /\ s.name[1] \in d.zones
  <1>1. \A n \in DOMAIN d.tables : FiniteBag(d.tables[n]) /\ n[1] \in d.zones
    BY DEF Database
  <1>2. CASE s.op = "create"
    <2>1. FiniteBag(EmptyBag)
      BY SetToBagIs, FS_EmptySet DEF EmptyBag
    <2> QED
      BY <1>2, <2>1, ContentIs, LegalIs
  <1> DEFINE sourced == s.from # <<>> => s.from \in DOMAIN d.tables
  <1>3. ASSUME sourced PROVE FiniteBag(Read(d, s))
    BY <1>1, <1>3, SourceIs DEF Read
  <1>4. s.op = "mount" => FiniteBag(Read(d, s))
    BY SourceIs DEF Read, Proper
  <1>5. CASE s.op \in {"ctas", "replace", "crud feed", "cdc feed"}
    <2>1. s.name[1] \in d.zones /\ sourced
      BY <1>5, LegalIs
    <2>2. FiniteBag(Read(d, s))
      BY <2>1, <1>3
    <2>3. FiniteBag(CrudFeed(Read(d, s))) /\ FiniteBag(CdcFeed(Read(d, s)))
      BY <2>2, CrudFeedIs, CdcFeedIs
    <2> QED
      BY <1>5, <2>1, <2>2, <2>3, ContentIs
  <1>6. CASE s.op \in {"append", "insert", "update", "delete", "merge", "cdc merge",
                       "update %", "delete %", "optimize", "select"}
    <2>1. s.name \in DOMAIN d.tables /\ sourced
      BY <1>6, LegalIs
    <2>2. FiniteBag(d.tables[s.name]) /\ FiniteBag(Read(d, s)) /\ s.name[1] \in d.zones
      BY <1>1, <1>3, <2>1
    <2> DEFINE old == d.tables[s.name]
               src == Read(d, s)
    <2>3. FiniteBag(old (+) src)
      BY <2>2, TogetherIs
    <2>4. /\ FiniteBag(CrudInsert(old)) /\ FiniteBag(CrudUpdate(old)) /\ FiniteBag(CrudDelete(old))
          /\ FiniteBag(CrudMerge(old, src)) /\ FiniteBag(CdcMerge(old, src))
          /\ FiniteBag(UpdatePct(old, s.arg)) /\ FiniteBag(DeletePct(old, s.arg))
      BY <2>2, ChangesAre
    <2> HIDE DEF old, src
    <2> QED
      BY <1>6, <2>2, <2>3, <2>4, ContentIs DEF old, src
  <1>7. CASE s.op = "mount"
    BY <1>4, <1>7, ContentIs, LegalIs
  <1> QED
    BY <1>2, <1>5, <1>6, <1>7 DEF Ops, Writing, Proper

(* What a statement does to the database, by its operation.                *)
LEMMA EffectIs ==
  ASSUME NEW d, d = [zones |-> d.zones, tables |-> d.tables], NEW s
  PROVE  LET new == Effect(d, s)
         IN  /\ new = [zones |-> new.zones, tables |-> new.tables]
             /\ s.op = "nothing" => new = d
             /\ s.op = "zone" => new.zones = d.zones \union {s.name[1]} /\ new.tables = d.tables
             /\ s.op \in {"drop", "drop it"} =>
                  /\ new.zones = d.zones /\ DOMAIN new.tables = DOMAIN d.tables \ {s.name}
                  /\ \A n \in DOMAIN new.tables : new.tables[n] = d.tables[n]
             /\ Writing(s) =>
                  /\ new.zones = d.zones /\ DOMAIN new.tables = DOMAIN d.tables \union {s.name}
                  /\ new.tables[s.name] = Content(d, s)
                  /\ \A n \in DOMAIN d.tables \ {s.name} : new.tables[n] = d.tables[n]
  <1>1. CASE s.op = "nothing"
    BY <1>1 DEF Effect, Writing
  <1>2. CASE s.op = "zone"
    BY <1>2 DEF Effect, Writing
  <1>3. CASE s.op \in {"drop", "drop it"}
    BY <1>3 DEF Effect, Writing
  <1>4. CASE Writing(s)
    <2>1. Effect(d, s) = [d EXCEPT !.tables = [n \in DOMAIN d.tables \union {s.name} |->
                                   IF n = s.name THEN Content(d, s) ELSE d.tables[n]]]
      BY <1>4 DEF Effect, Writing
    <2>2. Effect(d, s) = [zones |-> d.zones, tables |-> [n \in DOMAIN d.tables \union {s.name} |->
                                   IF n = s.name THEN Content(d, s) ELSE d.tables[n]]]
      BY <2>1
    <2>3. PICK new : new = Effect(d, s)
      OBVIOUS
    <2>4. /\ new.zones = d.zones /\ DOMAIN new.tables = DOMAIN d.tables \union {s.name}
          /\ new.tables[s.name] = Content(d, s)
          /\ \A n \in DOMAIN d.tables \ {s.name} : new.tables[n] = d.tables[n]
          /\ new = [zones |-> new.zones, tables |-> new.tables]
      BY <2>2, <2>3
    <2> QED
      BY <1>4, <2>3, <2>4 DEF Writing
  <1> QED
    BY <1>1, <1>2, <1>3, <1>4 DEF Writing

(* It remains a database.                                                  *)
LEMMA DatabaseStays ==
  ASSUME NEW d, Database(d), NEW s, Proper(s), Legal(d, s)
  PROVE  Database(Effect(d, s)) /\ d.zones \subseteq Effect(d, s).zones
  <1> DEFINE new == Effect(d, s)
  <1>1. d = [zones |-> d.zones, tables |-> d.tables]
    BY DEF Database
  <1>2. new = [zones |-> new.zones, tables |-> new.tables]
    BY <1>1, EffectIs
  <1>3. CASE s.op = "nothing"
    <2>1. new = d
      BY <1>1, <1>3, EffectIs
    <2> QED
      BY <2>1
  <1>4. CASE s.op = "zone"
    <2>1. new.zones = d.zones \union {s.name[1]} /\ new.tables = d.tables
      BY <1>1, <1>4, EffectIs
    <2> HIDE DEF new
    <2> QED
      BY <1>2, <2>1 DEF Database, Proper, new
  <1>5. CASE s.op \in {"drop", "drop it"}
    <2>1. /\ new.zones = d.zones /\ DOMAIN new.tables = DOMAIN d.tables \ {s.name}
          /\ \A n \in DOMAIN new.tables : new.tables[n] = d.tables[n]
      BY <1>1, <1>5, EffectIs
    <2> HIDE DEF new
    <2> QED
      BY <1>2, <2>1 DEF Database, new
  <1>6. CASE Writing(s)
    <2>1. /\ new.zones = d.zones /\ DOMAIN new.tables = DOMAIN d.tables \union {s.name}
          /\ new.tables[s.name] = Content(d, s)
          /\ \A n \in DOMAIN d.tables \ {s.name} : new.tables[n] = d.tables[n]
      BY <1>1, <1>6, EffectIs
    <2>2. FiniteBag(Content(d, s)) /\ s.name[1] \in d.zones
      BY <1>6, ContentIsABag
    <2> HIDE DEF new
    <2> QED
      BY <1>2, <2>1, <2>2 DEF Database, new
  <1> QED
    BY <1>3, <1>4, <1>5, <1>6 DEF Writing

-----------------------------------------------------------------------------
(***************************************************************************)
(* The scripts, statement by statement                                     *)
(***************************************************************************)

(* A load, on either engine.                                               *)
LEMMA LoadIs ==
  ASSUME NEW t
  PROVE  LET D == Load("df", t)
             T == Name("df", t)
         IN  /\ Len(D) = 8 /\ D[1] = BenchZone /\ D[2] = ExtZone
             /\ D[3] = S("drop", T) /\ D[4] = S("create", T) /\ D[5] = S("drop", Stg(t))
             /\ D[6] = S("mount", Stg(t)) /\ D[7] = From("append", T, Stg(t))
             /\ D[8] = S("drop it", Stg(t))
             /\ Len(Load("spark", t)) = 1 /\ Load("spark", t)[1] = S("replace", Name("spark", t))
  BY DEF Load

(* The other steps of several statements.                                  *)
LEMMA StepsAre ==
  /\ Len(Feed("df")) = 2 /\ Feed("df")[1] = S("drop", Name("df", "cdc_feed"))
  /\ Feed("df")[2] = From("crud feed", Name("df", "cdc_feed"), Name("df", "orders"))
  /\ Len(Feed("spark")) = 1
  /\ Feed("spark")[1] = From("crud feed", Name("spark", "cdc_feed"), Name("spark", "orders"))
  /\ Len(Mount("df")) = 3 /\ Mount("df")[1] = S("zone", View("df"))
  /\ Mount("df")[2] = S("drop", View("df")) /\ Mount("df")[3] = S("mount", View("df"))
  /\ Len(Mount("spark")) = 1 /\ Mount("spark")[1] = S("replace", View("spark"))
  /\ Len(WriteSynth("df")) = 2 /\ WriteSynth("df")[1] = S("drop", Synth("df"))
  /\ WriteSynth("df")[2] = S("ctas", Synth("df"))
  /\ Len(WriteSynth("spark")) = 1 /\ WriteSynth("spark")[1] = S("replace", Synth("spark"))
  BY DEF Feed, Mount, WriteSynth

(* The export of csv_to_delta.                                             *)
LEMMA CtasIs ==
  LET D == CtasFromParquet("df")
      P == CtasFromParquet("spark")
  IN  /\ Len(D) = 6 /\ D[1] = S("zone", CsvSrc) /\ D[2] = S("zone", Out("df"))
      /\ D[3] = S("drop", CsvSrc) /\ D[4] = S("mount", CsvSrc)
      /\ D[5] = S("drop", Out("df")) /\ D[6] = From("ctas", Out("df"), CsvSrc)
      /\ Len(P) = 1 /\ P[1] = S("replace", Out("spark"))
  BY DEF CtasFromParquet

(* The setup steps.                                                        *)
LEMMA SetupIs ==
  ASSUME NEW e \in Engines
  PROVE  /\ Len(Setup(e, "crud")) = 2 /\ Setup(e, "crud")[1] = Load(e, "orders")
         /\ Setup(e, "crud")[2] = Feed(e)
         /\ Len(Setup(e, "merge_cdc")) = 2 /\ Setup(e, "merge_cdc")[1] = Load(e, "lineitem")
         /\ Len(Setup(e, "merge_cdc")[2]) = 1
         /\ Setup(e, "merge_cdc")[2][1] = From("cdc feed", Plain("cdc_changes"), Line)
         /\ Len(Setup(e, "update_delete")) = 1 /\ Setup(e, "update_delete")[1] = Load(e, "lineitem")
         /\ Len(Setup(e, "optimize")) = 9 /\ Setup(e, "optimize")[1] = Load(e, "lineitem")
         /\ \A n \in 2 .. 9 : Len(Setup(e, "optimize")[n]) = 1 /\ Setup(e, "optimize")[n][1] = S("append", Line)
         /\ Len(Setup(e, "synthetic")) = 1 /\ Len(Setup(e, "synthetic")[1]) = 1
         /\ Setup(e, "synthetic")[1][1] = S(IF e = "df" THEN "zone" ELSE "nothing", Synth(e))
         /\ Len(Setup(e, "parquet_view")) = 1 /\ Setup(e, "parquet_view")[1] = Mount(e)
         /\ Len(Setup(e, "csv_to_delta")) = 0 /\ Setup(e, "csv_to_delta") = <<>>
  <1>1. /\ Len(Setup(e, "optimize")) = 9 /\ Setup(e, "optimize")[1] = Load(e, "lineitem")
        /\ \A n \in 2 .. 9 : Setup(e, "optimize")[n] = <<S("append", Line)>>
    BY DEF Setup
  <1>2. \A n \in 2 .. 9 : Len(Setup(e, "optimize")[n]) = 1 /\ Setup(e, "optimize")[n][1] = S("append", Line)
    <2>1. Len(<<S("append", Line)>>) = 1 /\ <<S("append", Line)>>[1] = S("append", Line)
      OBVIOUS
    <2> HIDE DEF S
    <2> QED
      BY <1>1, <2>1
  <1>3. /\ Len(Setup(e, "crud")) = 2 /\ Setup(e, "crud")[1] = Load(e, "orders")
        /\ Setup(e, "crud")[2] = Feed(e)
    BY DEF Setup
  <1>4. /\ Len(Setup(e, "merge_cdc")) = 2 /\ Setup(e, "merge_cdc")[1] = Load(e, "lineitem")
        /\ Len(Setup(e, "merge_cdc")[2]) = 1
        /\ Setup(e, "merge_cdc")[2][1] = From("cdc feed", Plain("cdc_changes"), Line)
    BY DEF Setup
  <1>5. Len(Setup(e, "update_delete")) = 1 /\ Setup(e, "update_delete")[1] = Load(e, "lineitem")
    BY DEF Setup
  <1>6. /\ Len(Setup(e, "synthetic")) = 1 /\ Len(Setup(e, "synthetic")[1]) = 1
        /\ Setup(e, "synthetic")[1][1] = S(IF e = "df" THEN "zone" ELSE "nothing", Synth(e))
    BY DEF Setup
  <1>7. /\ Len(Setup(e, "parquet_view")) = 1 /\ Setup(e, "parquet_view")[1] = Mount(e)
        /\ Len(Setup(e, "csv_to_delta")) = 0 /\ Setup(e, "csv_to_delta") = <<>>
    BY DEF Setup
  <1> QED
    BY <1>1, <1>2, <1>3, <1>4, <1>5, <1>6, <1>7

(* The measured steps.                                                     *)
LEMMA MeasuredIs ==
  ASSUME NEW e \in Engines
  PROVE  LET M(w) == Measured(e, w)
         IN  /\ Len(M("crud")) = 4 /\ \A k \in 1 .. 4 : Len(M("crud")[k]) = 1
             /\ M("crud")[1][1] = S("insert", Name(e, "orders"))
             /\ M("crud")[2][1] = S("update", Name(e, "orders"))
             /\ M("crud")[3][1] = S("delete", Name(e, "orders"))
             /\ M("crud")[4][1] = From("merge", Name(e, "orders"), Name(e, "cdc_feed"))
             /\ Len(M("merge_cdc")) = 1 /\ Len(M("merge_cdc")[1]) = 1
             /\ M("merge_cdc")[1][1] = From("cdc merge", Line, Plain("cdc_changes"))
             /\ Len(M("update_delete")) = 5
             /\ \A k \in 1 .. 5 : Len(M("update_delete")[k]) = 1
             /\ \A k \in 1 .. 3 : \E pct : M("update_delete")[k][1] = Dml("update %", Line, pct)
             /\ \A k \in 4 .. 5 : \E pct : M("update_delete")[k][1] = Dml("delete %", Line, pct)
             /\ Len(M("optimize")) = 1 /\ Len(M("optimize")[1]) = 1
             /\ M("optimize")[1][1] = S("optimize", Line)
             /\ Len(M("synthetic")) = 1 /\ M("synthetic")[1] = WriteSynth(e)
             /\ Len(M("parquet_view")) = 1 /\ Len(M("parquet_view")[1]) = 1
             /\ M("parquet_view")[1][1] = S("select", View(e))
             /\ Len(M("csv_to_delta")) = 1 /\ M("csv_to_delta")[1] = CtasFromParquet(e)
  <1> DEFINE M(w) == Measured(e, w)
  <1>1. /\ Len(M("crud")) = 4 /\ Len(M("crud")[1]) = 1 /\ Len(M("crud")[2]) = 1
        /\ Len(M("crud")[3]) = 1 /\ Len(M("crud")[4]) = 1
        /\ M("crud")[1][1] = S("insert", Name(e, "orders"))
        /\ M("crud")[2][1] = S("update", Name(e, "orders"))
        /\ M("crud")[3][1] = S("delete", Name(e, "orders"))
        /\ M("crud")[4][1] = From("merge", Name(e, "orders"), Name(e, "cdc_feed"))
    BY DEF Measured
  <1>2. /\ Len(M("merge_cdc")) = 1 /\ Len(M("merge_cdc")[1]) = 1
        /\ M("merge_cdc")[1][1] = From("cdc merge", Line, Plain("cdc_changes"))
    BY DEF Measured
  <1>3. /\ Len(M("update_delete")) = 5
        /\ Len(M("update_delete")[1]) = 1 /\ Len(M("update_delete")[2]) = 1
        /\ Len(M("update_delete")[3]) = 1 /\ Len(M("update_delete")[4]) = 1
        /\ Len(M("update_delete")[5]) = 1
        /\ M("update_delete")[1][1] = Dml("update %", Line, 1)
        /\ M("update_delete")[2][1] = Dml("update %", Line, 10)
        /\ M("update_delete")[3][1] = Dml("update %", Line, 50)
        /\ M("update_delete")[4][1] = Dml("delete %", Line, 1)
        /\ M("update_delete")[5][1] = Dml("delete %", Line, 10)
    BY DEF Measured, UpdateStep, DeleteStep
  <1>4. /\ Len(M("optimize")) = 1 /\ Len(M("optimize")[1]) = 1
        /\ M("optimize")[1][1] = S("optimize", Line)
        /\ Len(M("synthetic")) = 1 /\ M("synthetic")[1] = WriteSynth(e)
    BY DEF Measured
  <1>5. /\ Len(M("parquet_view")) = 1 /\ Len(M("parquet_view")[1]) = 1
        /\ M("parquet_view")[1][1] = S("select", View(e))
        /\ Len(M("csv_to_delta")) = 1 /\ M("csv_to_delta")[1] = CtasFromParquet(e)
    BY DEF Measured
  <1> HIDE DEF M
  <1>6. /\ \A k \in 1 .. 4 : Len(M("crud")[k]) = 1
        /\ \A k \in 1 .. 5 : Len(M("update_delete")[k]) = 1
    <2>1. 1 .. 4 = {1, 2, 3, 4} /\ 1 .. 5 = {1, 2, 3, 4, 5}
      OBVIOUS
    <2> QED
      BY <1>1, <1>3, <2>1
  <1>7. /\ \A k \in 1 .. 3 : \E pct : M("update_delete")[k][1] = Dml("update %", Line, pct)
        /\ \A k \in 4 .. 5 : \E pct : M("update_delete")[k][1] = Dml("delete %", Line, pct)
    <2>1. 1 .. 3 = {1, 2, 3} /\ 4 .. 5 = {4, 5}
      OBVIOUS
    <2> QED
      BY <1>3, <2>1
  <1> QED
    BY <1>1, <1>2, <1>3, <1>4, <1>5, <1>6, <1>7 DEF M

(* The cleanup steps: names dropped, one after the other.                  *)
LEMMA CleanUpIs ==
  ASSUME NEW e \in Engines
  PROVE  LET C(w) == CleanUp(e, w)
         IN  /\ Len(C("crud")) = 2 /\ Len(C("crud")[1]) = 1 /\ Len(C("crud")[2]) = 1
             /\ C("crud")[1][1] = S("drop", Name(e, "cdc_feed"))
             /\ C("crud")[2][1] = S("drop", Name(e, "orders"))
             /\ Len(C("merge_cdc")) = 2 /\ Len(C("merge_cdc")[1]) = 1 /\ Len(C("merge_cdc")[2]) = 1
             /\ C("merge_cdc")[1][1] = S("drop", Plain("cdc_changes"))
             /\ C("merge_cdc")[2][1] = S("drop", Name(e, "lineitem"))
             /\ \A w \in {"update_delete", "optimize"} :
                  Len(C(w)) = 1 /\ Len(C(w)[1]) = 1 /\ C(w)[1][1] = S("drop", Name(e, "lineitem"))
             /\ Len(C("synthetic")) = 1 /\ Len(C("synthetic")[1]) = 1
             /\ C("synthetic")[1][1] = S("drop", Synth(e))
             /\ Len(C("parquet_view")) = 1 /\ Len(C("parquet_view")[1]) = 1
             /\ C("parquet_view")[1][1] = S("drop", View(e))
             /\ Len(C("csv_to_delta")) = 1
             /\ e = "df" => /\ Len(C("csv_to_delta")[1]) = 2
                            /\ C("csv_to_delta")[1][1] = S("drop", Out(e))
                            /\ C("csv_to_delta")[1][2] = S("drop", CsvSrc)
             /\ e = "spark" => Len(C("csv_to_delta")[1]) = 1 /\ C("csv_to_delta")[1][1] = S("drop", Out(e))
  <1> DEFINE C(w) == CleanUp(e, w)
  <1>1. /\ Len(C("crud")) = 2 /\ Len(C("crud")[1]) = 1 /\ Len(C("crud")[2]) = 1
        /\ C("crud")[1][1] = S("drop", Name(e, "cdc_feed"))
        /\ C("crud")[2][1] = S("drop", Name(e, "orders"))
    BY DEF CleanUp
  <1>2. /\ Len(C("merge_cdc")) = 2 /\ Len(C("merge_cdc")[1]) = 1 /\ Len(C("merge_cdc")[2]) = 1
        /\ C("merge_cdc")[1][1] = S("drop", Plain("cdc_changes"))
        /\ C("merge_cdc")[2][1] = S("drop", Name(e, "lineitem"))
    BY DEF CleanUp
  <1>3. /\ Len(C("update_delete")) = 1 /\ Len(C("update_delete")[1]) = 1
        /\ C("update_delete")[1][1] = S("drop", Name(e, "lineitem"))
        /\ Len(C("optimize")) = 1 /\ Len(C("optimize")[1]) = 1
        /\ C("optimize")[1][1] = S("drop", Name(e, "lineitem"))
    BY DEF CleanUp
  <1>4. /\ Len(C("synthetic")) = 1 /\ Len(C("synthetic")[1]) = 1
        /\ C("synthetic")[1][1] = S("drop", Synth(e))
        /\ Len(C("parquet_view")) = 1 /\ Len(C("parquet_view")[1]) = 1
        /\ C("parquet_view")[1][1] = S("drop", View(e))
    BY DEF CleanUp
  <1>5. /\ Len(C("csv_to_delta")) = 1
        /\ e = "df" => /\ Len(C("csv_to_delta")[1]) = 2
                       /\ C("csv_to_delta")[1][1] = S("drop", Out(e))
                       /\ C("csv_to_delta")[1][2] = S("drop", CsvSrc)
        /\ e = "spark" => Len(C("csv_to_delta")[1]) = 1 /\ C("csv_to_delta")[1][1] = S("drop", Out(e))
    <2>1. CASE e = "df"
      BY <2>1 DEF CleanUp
    <2>2. CASE e = "spark"
      BY <2>2 DEF CleanUp
    <2> QED
      BY <2>1, <2>2 DEF Engines
  <1> HIDE DEF C
  <1> QED
    BY <1>1, <1>2, <1>3, <1>4, <1>5 DEF C

(* What every statement respects: DeltaForge makes no table of a name that *)
(* is not qualified, staging tables are mounted only, and the orders and   *)
(* their feed are written by the statements of crud.py alone.              *)
Sound(e, s) ==
  /\ Proper(s)
  /\ e = "df" /\ Writing(s) /\ s.name[1] = "" =>
       \/ s.op \in {"append", "cdc merge", "update %", "delete %", "optimize"}
       \/ s.op = "cdc feed" /\ s.from = Line
  /\ Writing(s) => s.name[2] # ""
  /\ Writing(s) /\ s.name \in {Stg("orders"), Stg("lineitem")} => s.op = "mount"

(* A statement that writes no table.                                       *)
LEMMA NoWriteSound ==
  ASSUME NEW e, NEW name, name[1] \in Zones, NEW op \in {"nothing", "zone", "drop", "drop it"}
  PROVE  Sound(e, S(op, name))
  BY DEF Sound, Proper, Writing, Ops, S

(* The names of the scripts, and their zones.                              *)
LEMMA NamesAre ==
  /\ \A e \in Engines : \A t : Name(e, t)[1] \in Zones /\ Plain(t)[1] \in Zones
  /\ \A t : Stg(t)[1] \in Zones
  /\ \A e \in Engines : View(e)[1] \in Zones /\ Out(e)[1] \in Zones /\ Synth(e)[1] \in Zones
  /\ CsvSrc[1] \in Zones /\ Line[1] \in Zones
  BY DEF Name, Plain, Stg, View, Out, Synth, CsvSrc, Line, Zones

(* The staging tables.                                                     *)
LEMMA StgIs ==
  /\ Stg("orders")[1] = "bench_ext" /\ Stg("orders")[2] = "stg_orders"
  /\ Stg("lineitem")[1] = "bench_ext" /\ Stg("lineitem")[2] = "stg_lineitem"
  BY DEF Stg

(* Those that write one.                                                   *)
LEMMA LoadSound ==
  ASSUME NEW t \in {"orders", "lineitem"}
  PROVE  /\ Sound("df", S("create", Name("df", t))) /\ Sound("df", S("mount", Stg(t)))
         /\ Sound("df", From("append", Name("df", t), Stg(t)))
         /\ Sound("spark", S("replace", Name("spark", t)))
  <1>1. Sound("df", S("create", Name("df", t)))
    BY DEF Sound, Proper, Writing, Ops, Zones, S, Name, Stg
  <1>2. Sound("df", S("mount", Stg(t)))
    <2>1. Stg(t) \in {Stg("orders"), Stg("lineitem")} /\ Stg(t)[1] = "bench_ext" /\ Stg(t)[2] # ""
      BY StgIs
    <2> QED
      BY <2>1 DEF Sound, Proper, Writing, Ops, Zones, S
  <1>3. Sound("spark", S("replace", Name("spark", t)))
    BY DEF Sound, Proper, Writing, Ops, Zones, S, Name, Stg
  <1>4. Sound("df", From("append", Name("df", t), Stg(t)))
    BY DEF Sound, Proper, Writing, Ops, Zones, From, Name, Stg
  <1> QED
    BY <1>1, <1>2, <1>3, <1>4

(* The statements of crud.py.                                              *)
LEMMA CrudSound ==
  ASSUME NEW e \in Engines
  PROVE  /\ Sound(e, From("crud feed", Name(e, "cdc_feed"), Name(e, "orders")))
         /\ \A op \in {"insert", "update", "delete"} : Sound(e, S(op, Name(e, "orders")))
         /\ Sound(e, From("merge", Name(e, "orders"), Name(e, "cdc_feed")))
  <1>1. Sound(e, From("crud feed", Name(e, "cdc_feed"), Name(e, "orders")))
    BY DEF Sound, Proper, Writing, Ops, Zones, From, Name, Stg, Engines
  <1>2. \A op \in {"insert", "update", "delete"} : Sound(e, S(op, Name(e, "orders")))
    BY DEF Sound, Proper, Writing, Ops, Zones, S, Name, Stg, Engines
  <1>3. Sound(e, From("merge", Name(e, "orders"), Name(e, "cdc_feed")))
    BY DEF Sound, Proper, Writing, Ops, Zones, From, Name, Stg, Engines
  <1> QED
    BY <1>1, <1>2, <1>3

(* The statements on lineitem.                                             *)
LEMMA LineSound ==
  ASSUME NEW e \in Engines
  PROVE  /\ Sound(e, From("cdc feed", Plain("cdc_changes"), Line))
         /\ Sound(e, From("cdc merge", Line, Plain("cdc_changes")))
         /\ Sound(e, S("append", Line)) /\ Sound(e, S("optimize", Line))
         /\ \A pct : Sound(e, Dml("update %", Line, pct)) /\ Sound(e, Dml("delete %", Line, pct))
  <1>1. Sound(e, From("cdc feed", Plain("cdc_changes"), Line))
    BY DEF Sound, Proper, Writing, Ops, Zones, From, Name, Stg, Engines, Line, Plain
  <1>2. Sound(e, From("cdc merge", Line, Plain("cdc_changes")))
    BY DEF Sound, Proper, Writing, Ops, Zones, From, Name, Stg, Engines, Line, Plain
  <1>3. Sound(e, S("append", Line)) /\ Sound(e, S("optimize", Line))
    BY DEF Sound, Proper, Writing, Ops, Zones, S, Name, Stg, Engines, Line, Plain
  <1>4. \A pct : Sound(e, Dml("update %", Line, pct)) /\ Sound(e, Dml("delete %", Line, pct))
    BY DEF Sound, Proper, Writing, Ops, Zones, Dml, Name, Stg, Engines, Line, Plain
  <1> QED
    BY <1>1, <1>2, <1>3, <1>4

(* The statements of the views, of synth_fact and of the export.           *)
LEMMA OthersSound ==
  /\ Sound("df", S("mount", View("df"))) /\ Sound("spark", S("replace", View("spark")))
  /\ \A e \in Engines : Sound(e, S("select", View(e)))
  /\ Sound("df", S("ctas", Synth("df"))) /\ Sound("spark", S("replace", Synth("spark")))
  /\ Sound("df", S("mount", CsvSrc)) /\ Sound("df", From("ctas", Out("df"), CsvSrc))
  /\ Sound("spark", S("replace", Out("spark")))
  <1>1. /\ Sound("df", S("mount", View("df"))) /\ Sound("spark", S("replace", View("spark")))
        /\ \A e \in Engines : Sound(e, S("select", View(e)))
    BY DEF Sound, Proper, Writing, Ops, Zones, S, Name, Stg, Engines, View, Plain
  <1>2. Sound("df", S("ctas", Synth("df"))) /\ Sound("spark", S("replace", Synth("spark")))
    BY DEF Sound, Proper, Writing, Ops, Zones, S, Name, Stg, Synth, Plain
  <1>3. Sound("df", S("mount", CsvSrc)) /\ Sound("df", From("ctas", Out("df"), CsvSrc))
    BY DEF Sound, Proper, Writing, Ops, Zones, S, From, Name, Stg, CsvSrc, Out
  <1>4. Sound("spark", S("replace", Out("spark")))
    BY DEF Sound, Proper, Writing, Ops, Zones, S, Name, Stg, Out, Plain
  <1> QED
    BY <1>1, <1>2, <1>3, <1>4

(* The workloads are those of the scripts.                                 *)
LEMMA WorkloadsAre ==
  Workloads \subseteq {"crud", "merge_cdc", "update_delete", "optimize", "synthetic",
                       "parquet_view", "csv_to_delta"}
  BY WritesAssumption DEF WritesAssumption

(* A step, and the steps of a phase, of which every statement is sound.    *)
AllSound(e, script) == \A n \in 1 .. Len(script) : Sound(e, script[n])
StepsSound(e, steps) == \A k \in 1 .. Len(steps) : AllSound(e, steps[k])

(* A script of one sound statement is sound.                               *)
LEMMA OneSound ==
  ASSUME NEW e, NEW script, Len(script) = 1, Sound(e, script[1])
  PROVE  AllSound(e, script)
  BY DEF AllSound

(* A phase of one sound step is sound.                                     *)
LEMMA OneStepSound ==
  ASSUME NEW e, NEW steps, Len(steps) = 1, AllSound(e, steps[1])
  PROVE  StepsSound(e, steps)
  BY DEF StepsSound

(* The load of a table is.                                                 *)
LEMMA LoadAllSound ==
  ASSUME NEW e \in Engines, NEW t \in {"orders", "lineitem"}
  PROVE  AllSound(e, Load(e, t))
  <1>1. AllSound("spark", Load("spark", t))
    <2>1. Len(Load("spark", t)) = 1 /\ Load("spark", t)[1] = S("replace", Name("spark", t))
      BY LoadIs
    <2> QED
      BY <2>1, LoadSound, OneSound
  <1> DEFINE D == Load("df", t)
             T == Name("df", t)
  <1>2. AllSound("df", D)
    <2>1. /\ D[1] = BenchZone /\ D[2] = ExtZone
          /\ D[3] = S("drop", T) /\ D[4] = S("create", T) /\ D[5] = S("drop", Stg(t))
          /\ D[6] = S("mount", Stg(t)) /\ D[7] = From("append", T, Stg(t))
          /\ D[8] = S("drop it", Stg(t)) /\ Len(D) = 8
      BY LoadIs
    <2>2. Sound("df", BenchZone) /\ Sound("df", ExtZone)
      <3>1. <<"bench", "">>[1] \in Zones /\ <<"bench_ext", "">>[1] \in Zones
        BY DEF Zones
      <3> QED
        BY <3>1, NoWriteSound DEF BenchZone, ExtZone
    <2>3. T[1] \in Zones /\ Stg(t)[1] \in Zones
      BY NamesAre DEF Engines
    <2>4. /\ Sound("df", S("drop", T)) /\ Sound("df", S("drop", Stg(t)))
          /\ Sound("df", S("drop it", Stg(t)))
      BY <2>3, NoWriteSound
    <2>5. /\ Sound("df", S("create", T)) /\ Sound("df", S("mount", Stg(t)))
          /\ Sound("df", From("append", T, Stg(t)))
      BY LoadSound
    <2> HIDE DEF D, T
    <2>6. 1 .. 8 = {1, 2, 3, 4, 5, 6, 7, 8}
      OBVIOUS
    <2> QED
      BY ONLY <2>1, <2>2, <2>4, <2>5, <2>6 DEF AllSound
  <1> QED
    BY <1>1, <1>2 DEF Engines

(* The other steps of several statements.                                  *)
LEMMA StepsAllSound ==
  ASSUME NEW e \in Engines
  PROVE  /\ AllSound(e, Feed(e)) /\ AllSound(e, Mount(e)) /\ AllSound(e, WriteSynth(e))
         /\ AllSound(e, CtasFromParquet(e))
  <1>1. /\ Name(e, "cdc_feed")[1] \in Zones /\ View(e)[1] \in Zones /\ Out(e)[1] \in Zones
        /\ Synth(e)[1] \in Zones /\ CsvSrc[1] \in Zones
    BY NamesAre
  <1>2. /\ Sound(e, S("drop", Name(e, "cdc_feed"))) /\ Sound(e, S("zone", View(e)))
        /\ Sound(e, S("drop", View(e))) /\ Sound(e, S("drop", Synth(e)))
        /\ Sound(e, S("zone", CsvSrc)) /\ Sound(e, S("zone", Out(e)))
        /\ Sound(e, S("drop", CsvSrc)) /\ Sound(e, S("drop", Out(e)))
    BY <1>1, NoWriteSound
  <1>3. Sound(e, From("crud feed", Name(e, "cdc_feed"), Name(e, "orders")))
    BY CrudSound
  <1>4. 1 .. 2 = {1, 2} /\ 1 .. 3 = {1, 2, 3} /\ 1 .. 6 = {1, 2, 3, 4, 5, 6}
    OBVIOUS
  <1>5. CASE e = "df"
    <2>1. AllSound(e, Feed(e)) /\ AllSound(e, Mount(e)) /\ AllSound(e, WriteSynth(e))
      BY <1>2, <1>3, <1>4, <1>5, StepsAre, OthersSound DEF AllSound
    <2>2. AllSound(e, CtasFromParquet(e))
      BY <1>2, <1>4, <1>5, CtasIs, OthersSound DEF AllSound
    <2> QED
      BY <2>1, <2>2
  <1>6. CASE e = "spark"
    BY <1>3, <1>6, StepsAre, CtasIs, OthersSound, OneSound
  <1> QED
    BY <1>5, <1>6 DEF Engines

(* The workloads that load a table, and the table.                         *)
Loading == {"crud", "merge_cdc", "update_delete", "optimize"}
Of(w) == IF w = "crud" THEN "orders" ELSE "lineitem"

(* Every statement of a setup is sound.                                    *)
LEMMA SetupSound ==
  ASSUME NEW e \in Engines, NEW w \in Workloads
  PROVE  StepsSound(e, Setup(e, w))
  <1>1. 1 .. 2 = {1, 2} /\ 1 .. 9 = {1} \union 2 .. 9 /\ 1 .. 0 = {} /\ 1 .. 1 = {1}
    OBVIOUS
  <1>2. \A x \in Loading : AllSound(e, Load(e, Of(x)))
    <2>1. \A x \in Loading : Of(x) \in {"orders", "lineitem"}
      BY DEF Of
    <2> QED
      BY <2>1, LoadAllSound DEF Engines
  <1>3. {"crud", "merge_cdc", "update_delete", "optimize"} = Loading
        /\ Of("crud") = "orders" /\ Of("merge_cdc") = "lineitem"
        /\ Of("update_delete") = "lineitem" /\ Of("optimize") = "lineitem"
    BY DEF Loading, Of
  <1>4. StepsSound(e, Setup(e, "crud"))
    BY <1>3, <1>1, <1>2, StepsAllSound, SetupIs DEF StepsSound
  <1>5. StepsSound(e, Setup(e, "merge_cdc"))
    <2>1. AllSound(e, Setup(e, "merge_cdc")[2])
      BY SetupIs, LineSound, OneSound
    <2> QED
      BY <1>3, <1>1, <1>2, <2>1, SetupIs DEF StepsSound
  <1>6. StepsSound(e, Setup(e, "update_delete"))
    BY <1>3, <1>1, <1>2, SetupIs DEF StepsSound
  <1>7. StepsSound(e, Setup(e, "optimize"))
    <2>1. \A n \in 2 .. 9 : AllSound(e, Setup(e, "optimize")[n])
      BY SetupIs, LineSound, OneSound
    <2> QED
      BY <1>3, <1>1, <1>2, <2>1, SetupIs DEF StepsSound
  <1>8. StepsSound(e, Setup(e, "synthetic"))
    <2>1. \A op \in {"zone", "nothing"} : Sound(e, S(op, Synth(e)))
      BY NoWriteSound, NamesAre
    <2>2. AllSound(e, Setup(e, "synthetic")[1])
      BY <2>1, SetupIs, OneSound
    <2> QED
      BY <1>1, <2>2, SetupIs DEF StepsSound
  <1>9. StepsSound(e, Setup(e, "parquet_view"))
    <2>1. Len(Setup(e, "parquet_view")) = 1 /\ AllSound(e, Setup(e, "parquet_view")[1])
      BY SetupIs, StepsAllSound
    <2> QED
      BY <1>1, <2>1 DEF StepsSound
  <1>10. StepsSound(e, Setup(e, "csv_to_delta"))
    <2>1. Len(Setup(e, "csv_to_delta")) = 0
      BY SetupIs
    <2> QED
      BY <1>1, <2>1 DEF StepsSound
  <1> QED
    BY <1>4, <1>5, <1>6, <1>7, <1>8, <1>9, <1>10, WorkloadsAre

(* Every measured statement is sound.                                      *)
LEMMA MeasuredSound ==
  ASSUME NEW e \in Engines, NEW w \in Workloads
  PROVE  StepsSound(e, Measured(e, w))
  <1>1. 1 .. 4 = {1, 2, 3, 4} /\ 1 .. 5 = 1 .. 3 \union 4 .. 5
    OBVIOUS
  <1>2. StepsSound(e, Measured(e, "crud"))
    <2> DEFINE M == Measured(e, "crud")
    <2>1. /\ Len(M) = 4 /\ \A k \in 1 .. 4 : Len(M[k]) = 1
          /\ Sound(e, M[1][1]) /\ Sound(e, M[2][1]) /\ Sound(e, M[3][1]) /\ Sound(e, M[4][1])
      BY MeasuredIs, CrudSound
    <2> HIDE DEF M
    <2>2. \A k \in 1 .. 4 : AllSound(e, M[k])
      BY <1>1, <2>1, OneSound
    <2> QED
      BY <2>1, <2>2 DEF StepsSound, M
  <1>3. StepsSound(e, Measured(e, "merge_cdc"))
    <2>1. /\ Len(Measured(e, "merge_cdc")) = 1 /\ Len(Measured(e, "merge_cdc")[1]) = 1
          /\ Sound(e, Measured(e, "merge_cdc")[1][1])
      BY MeasuredIs, LineSound
    <2>2. AllSound(e, Measured(e, "merge_cdc")[1])
      BY <2>1, OneSound
    <2> QED
      BY <2>1, <2>2, OneStepSound
  <1>4. StepsSound(e, Measured(e, "update_delete"))
    <2> DEFINE M == Measured(e, "update_delete")
    <2>1. /\ Len(M) = 5 /\ \A k \in 1 .. 5 : Len(M[k]) = 1
          /\ \A k \in 1 .. 3 : \E pct : M[k][1] = Dml("update %", Line, pct)
          /\ \A k \in 4 .. 5 : \E pct : M[k][1] = Dml("delete %", Line, pct)
      BY MeasuredIs
    <2> HIDE DEF M
    <2>2. \A k \in 1 .. 5 : Sound(e, M[k][1])
      BY <1>1, <2>1, LineSound
    <2>3. \A k \in 1 .. 5 : AllSound(e, M[k])
      BY <2>1, <2>2, OneSound
    <2> QED
      BY <2>1, <2>3 DEF StepsSound, M
  <1>5. StepsSound(e, Measured(e, "optimize"))
    <2>1. /\ Len(Measured(e, "optimize")) = 1 /\ Len(Measured(e, "optimize")[1]) = 1
          /\ Sound(e, Measured(e, "optimize")[1][1])
      BY MeasuredIs, LineSound
    <2>2. AllSound(e, Measured(e, "optimize")[1])
      BY <2>1, OneSound
    <2> QED
      BY <2>1, <2>2, OneStepSound
  <1>6. StepsSound(e, Measured(e, "synthetic"))
    BY MeasuredIs, StepsAllSound, OneStepSound
  <1>7. StepsSound(e, Measured(e, "parquet_view"))
    <2>1. /\ Len(Measured(e, "parquet_view")) = 1 /\ Len(Measured(e, "parquet_view")[1]) = 1
          /\ Sound(e, Measured(e, "parquet_view")[1][1])
      BY MeasuredIs, OthersSound
    <2>2. AllSound(e, Measured(e, "parquet_view")[1])
      BY <2>1, OneSound
    <2> QED
      BY <2>1, <2>2, OneStepSound
  <1>8. StepsSound(e, Measured(e, "csv_to_delta"))
    BY MeasuredIs, StepsAllSound, OneStepSound
  <1> QED
    BY <1>2, <1>3, <1>4, <1>5, <1>6, <1>7, <1>8, WorkloadsAre

(* The cleanup drops, and nothing else.                                    *)
LEMMA CleanUpSound ==
  ASSUME NEW e \in Engines, NEW w \in Workloads
  PROVE  /\ StepsSound(e, CleanUp(e, w))
         /\ \A k \in 1 .. Len(CleanUp(e, w)) : \A n \in 1 .. Len(CleanUp(e, w)[k]) :
              CleanUp(e, w)[k][n].op = "drop"
  <1> DEFINE Drops(x) == \A n \in 1 .. Len(x) : \E name : name[1] \in Zones /\ x[n] = S("drop", name)
  <1>1. ASSUME NEW steps, \A k \in 1 .. Len(steps) : Drops(steps[k])
        PROVE  /\ StepsSound(e, steps)
               /\ \A k \in 1 .. Len(steps) : \A n \in 1 .. Len(steps[k]) : steps[k][n].op = "drop"
    <2>1. \A name : name[1] \in Zones => Sound(e, S("drop", name)) /\ S("drop", name).op = "drop"
      BY NoWriteSound DEF S
    <2> QED
      BY <1>1, <2>1 DEF StepsSound, AllSound
  <1>2. ASSUME NEW x, NEW name, Len(x) = 1, name[1] \in Zones, x[1] = S("drop", name)
        PROVE  Drops(x)
    BY <1>2
  <1>3. 1 .. 2 = {1, 2} /\ 1 .. 1 = {1}
    OBVIOUS
  <1>4. /\ Name(e, "orders")[1] \in Zones /\ Name(e, "cdc_feed")[1] \in Zones
        /\ Name(e, "lineitem")[1] \in Zones /\ Plain("cdc_changes")[1] \in Zones
        /\ Synth(e)[1] \in Zones /\ View(e)[1] \in Zones /\ Out(e)[1] \in Zones /\ CsvSrc[1] \in Zones
    BY NamesAre
  <1> HIDE DEF Drops
  <1>5. CASE w = "crud"
    <2>1. Len(CleanUp(e, "crud")) = 2 /\ Drops(CleanUp(e, "crud")[1]) /\ Drops(CleanUp(e, "crud")[2])
      BY <1>2, <1>4, CleanUpIs
    <2> QED
      BY <1>1, <1>3, <1>5, <2>1
  <1>6. CASE w = "merge_cdc"
    <2>1. /\ Len(CleanUp(e, "merge_cdc")) = 2
          /\ Drops(CleanUp(e, "merge_cdc")[1]) /\ Drops(CleanUp(e, "merge_cdc")[2])
      BY <1>2, <1>4, CleanUpIs
    <2> QED
      BY <1>1, <1>3, <1>6, <2>1
  <1>7. CASE w \in {"update_delete", "optimize"}
    <2>1. Len(CleanUp(e, w)) = 1 /\ Drops(CleanUp(e, w)[1])
      BY <1>2, <1>4, <1>7, CleanUpIs
    <2> QED
      BY <1>1, <1>3, <2>1
  <1>8. CASE w = "synthetic"
    <2>1. Len(CleanUp(e, "synthetic")) = 1 /\ Drops(CleanUp(e, "synthetic")[1])
      BY <1>2, <1>4, CleanUpIs
    <2> QED
      BY <1>1, <1>3, <1>8, <2>1
  <1>9. CASE w = "parquet_view"
    <2>1. Len(CleanUp(e, "parquet_view")) = 1 /\ Drops(CleanUp(e, "parquet_view")[1])
      BY <1>2, <1>4, CleanUpIs
    <2> QED
      BY <1>1, <1>3, <1>9, <2>1
  <1>10. CASE w = "csv_to_delta"
    <2> DEFINE C == CleanUp(e, "csv_to_delta")[1]
    <2>1. Len(CleanUp(e, "csv_to_delta")) = 1
      BY CleanUpIs
    <2>2. CASE e = "spark"
      <3>1. Len(C) = 1 /\ C[1] = S("drop", Out(e))
        BY <2>2, CleanUpIs
      <3> HIDE DEF C
      <3>2. Drops(C)
        BY <1>2, <1>4, <3>1
      <3> QED
        BY <1>1, <1>3, <1>10, <2>1, <3>2 DEF C
    <2>3. CASE e = "df"
      <3>1. Len(C) = 2 /\ C[1] = S("drop", Out(e)) /\ C[2] = S("drop", CsvSrc)
        BY <2>3, CleanUpIs
      <3> HIDE DEF C
      <3>2. Drops(C)
        BY <1>3, <1>4, <3>1 DEF Drops
      <3> QED
        BY <1>1, <1>3, <1>10, <2>1, <3>2 DEF C
    <2> QED
      BY <2>2, <2>3 DEF Engines
  <1> QED
    BY <1>5, <1>6, <1>7, <1>8, <1>9, <1>10, WorkloadsAre

-----------------------------------------------------------------------------
(***************************************************************************)
(* Keys                                                                    *)
(***************************************************************************)

(* A table of which key is a key, and a feed that has one change of a kind *)
(* for a key at most.                                                      *)
Keyed(b) ==
  /\ FiniteBag(b)
  /\ \A r \in DOMAIN b : r = [key |-> r.key, val |-> r.val] /\ r.key \in Nat /\ b[r] = 1
  /\ \A r, s \in DOMAIN b : r.key = s.key => r = s
Fed(feed) ==
  /\ FiniteBag(feed)
  /\ \A s \in DOMAIN feed : s.key \in Nat /\ feed[s] = 1
  /\ \A s, t \in DOMAIN feed : s.key = t.key => s = t

(* A set of natural numbers has a least element: the way to prove without  *)
(* an induction rule what holds of finitely many keys.                     *)
LEMMA Least ==
  ASSUME NEW A, A \subseteq Nat, A # {}
  PROVE  \E x \in A : \A y \in A : x <= y
  <1> DEFINE R == OpToRel(<, Nat)
  <1>1. IsWellFoundedOn(R, Nat)
    BY NatLessThanWellFounded
  <1>2. \A x, y \in Nat : <<x, y>> \in R <=> x < y
    BY DEF OpToRel
  <1> HIDE DEF R
  <1>3. PICK x \in A : \A y \in A : <<y, x>> \notin R
    BY <1>1, WFMin
  <1>4. \A y \in A : ~(y < x)
    BY <1>2, <1>3
  <1> QED
    BY <1>4

(* MAX(key): of finitely many keys the one with the fewest above it.       *)
LEMMA MaxKeyIs ==
  ASSUME NEW b, FiniteBag(b), BagKeys(b) \subseteq Nat, BagKeys(b) # {}
  PROVE  MaxKey(b) \in BagKeys(b) /\ \A l \in BagKeys(b) : l <= MaxKey(b)
  <1> DEFINE K == BagKeys(b)
             Over(k) == {l \in K : l > k}
             A == {Cardinality(Over(k)) : k \in K}
  <1>1. IsFiniteSet(K)
    BY KeysAre
  <1>2. \A k \in K : IsFiniteSet(Over(k)) /\ Cardinality(Over(k)) \in Nat
    BY <1>1, FS_Subset, FS_CardinalityType
  <1>3. PICK m \in K : \A k \in K : Cardinality(Over(m)) <= Cardinality(Over(k))
    <2>1. A \subseteq Nat /\ A # {}
      BY <1>2
    <2>2. PICK x \in A : \A y \in A : x <= y
      BY <2>1, Least
    <2> QED
      BY <2>2
  <1>4. ASSUME NEW l \in K, ~(l <= m) PROVE FALSE
    <2>1. Over(l) \in SUBSET Over(m) /\ l \in Over(m) /\ l \notin Over(l)
      BY <1>4
    <2>2. Cardinality(Over(l)) <= Cardinality(Over(m))
      BY <1>2, <2>1, FS_Subset
    <2>3. Cardinality(Over(l)) = Cardinality(Over(m))
      <3>1. Cardinality(Over(m)) <= Cardinality(Over(l))
        BY <1>3
      <3>2. Cardinality(Over(m)) \in Nat /\ Cardinality(Over(l)) \in Nat
        BY <1>2
      <3> QED
        BY ONLY <2>2, <3>1, <3>2
    <2>4. Over(l) = Over(m)
      BY <1>2, <2>1, <2>3, FS_Subset
    <2> QED
      BY <2>1, <2>4
  <1>5. \E k \in K : \A l \in K : l <= k
    BY <1>4
  <1> QED
    BY <1>5 DEF MaxKey

(* The source and the empty table are keyed.                               *)
LEMMA SourceKeyed ==
  ASSUME NEW n
  PROVE  Keyed(Source(n)) /\ Keyed(EmptyBag)
  <1>1. Keyed(EmptyBag)
    <2>1. FiniteBag(EmptyBag) /\ DOMAIN EmptyBag = {}
      BY SetToBagIs, FS_EmptySet DEF EmptyBag
    <2> QED
      BY <2>1 DEF Keyed
  <1>2. PICK v : v = IF n[2] \in {"orders", "stg_orders"} THEN "O" ELSE 0
    OBVIOUS
  <1>3. /\ FiniteBag(Source(n)) /\ \A r \in DOMAIN Source(n) : Source(n)[r] = 1
        /\ DOMAIN Source(n) = {[key |-> k, val |-> v] : k \in Keys}
    BY <1>2, SourceIs
  <1>4. Keys \subseteq Nat
    BY WritesAssumption DEF WritesAssumption
  <1> QED
    BY <1>1, <1>3, <1>4 DEF Keyed

(* So is what a change makes of a keyed table that leaves the keys, and a  *)
(* part of it.                                                             *)
LEMMA ChangedKeyed ==
  ASSUME NEW b, Keyed(b), NEW f,
         \A r \in DOMAIN b : f[r] = [key |-> f[r].key, val |-> f[r].val] /\ f[r].key \in Nat,
         \A r, s \in DOMAIN b : f[r].key = f[s].key => r = s
  PROVE  Keyed(Changed(b, f))
  <1>1. FiniteBag(Changed(b, f)) /\ DOMAIN Changed(b, f) = {f[r] : r \in DOMAIN b}
    <2>1. FiniteBag(b)
      BY DEF Keyed
    <2> QED
      BY ONLY <2>1, ChangedIs
  <1>2. \A r, s \in DOMAIN b : f[r] = f[s] => r = s
    OBVIOUS
  <1>3. FiniteBag(b) /\ \A r \in DOMAIN b : b[r] = 1
    BY DEF Keyed
  <1>4. \A row \in DOMAIN Changed(b, f) : Changed(b, f)[row] = 1
    BY <1>2, <1>3, ChangedApart
  <1>5. /\ \A row \in DOMAIN Changed(b, f) : row = [key |-> row.key, val |-> row.val] /\ row.key \in Nat
        /\ \A r, s \in DOMAIN Changed(b, f) : r.key = s.key => r = s
    BY <1>1
  <1> QED
    BY ONLY <1>1, <1>4, <1>5 DEF Keyed

(* In a part of such a table key is a key.                                 *)
LEMMA WhereKeyed ==
  ASSUME NEW b, Keyed(b), NEW rows \in SUBSET DOMAIN b
  PROVE  Keyed(Where(b, rows)) /\ DOMAIN Where(b, rows) = rows
  BY WhereIs DEF Keyed

(* Two keyed tables without a common key are one together.                 *)
LEMMA TogetherKeyed ==
  ASSUME NEW a, NEW b, Keyed(a), Keyed(b), \A r \in DOMAIN a, s \in DOMAIN b : r.key # s.key
  PROVE  Keyed(a (+) b)
  <1>1. /\ FiniteBag(a (+) b) /\ DOMAIN (a (+) b) = DOMAIN a \union DOMAIN b
        /\ \A r \in DOMAIN a \ DOMAIN b : (a (+) b)[r] = a[r]
        /\ \A r \in DOMAIN b \ DOMAIN a : (a (+) b)[r] = b[r]
    <2>1. FiniteBag(a) /\ FiniteBag(b)
      BY DEF Keyed
    <2> QED
      BY ONLY <2>1, TogetherIs
  <1>2. \A r \in DOMAIN a : r \notin DOMAIN b
    OBVIOUS
  <1>3. \A r \in DOMAIN a \union DOMAIN b : r = [key |-> r.key, val |-> r.val] /\ r.key \in Nat
    BY DEF Keyed
  <1>4. \A r \in DOMAIN a \union DOMAIN b : (a (+) b)[r] = 1
    BY <1>1, <1>2 DEF Keyed
  <1>5. \A r, s \in DOMAIN a \union DOMAIN b : r.key = s.key => r = s
    BY DEF Keyed
  <1> HIDE DEF (+)
  <1> QED
    BY <1>1, <1>3, <1>4, <1>5 DEF Keyed

(* The statements of crud.py keep o_orderkey a key: INSERT re-keys above   *)
(* the greatest, UPDATE leaves the keys, MERGE inserts what is not there.  *)
LEMMA InsertKeyed ==
  ASSUME NEW b, Keyed(b)
  PROVE  Keyed(CrudInsert(b))
  <1> DEFINE chosen == {r \in BagToSet(b) : In(r.key, 30, 0)}
             f == [r \in chosen |-> [key |-> r.key + MaxKey(b) + InsertOffset, val |-> "N"]]
             new == Changed(Where(b, chosen), f)
  <1>1. CrudInsert(b) = b (+) new
    BY DEF CrudInsert
  <1>2. chosen \in SUBSET DOMAIN b
    BY DEF BagToSet
  <1>3. \A r \in chosen : r.key \in Nat /\ f[r] = [key |-> r.key + MaxKey(b) + InsertOffset, val |-> "N"]
    BY <1>2 DEF Keyed
  <1>4. \A r, s \in chosen : r.key = s.key => r = s
    BY <1>2 DEF Keyed
  <1> HIDE DEF chosen, f
  <1>5. Keyed(Where(b, chosen)) /\ DOMAIN Where(b, chosen) = chosen
    BY <1>2, WhereKeyed
  <1>6. ASSUME NEW r0 \in chosen
        PROVE  MaxKey(b) \in Nat /\ \A r \in DOMAIN b : r.key <= MaxKey(b)
    <2>1. \A r \in DOMAIN b : r.key \in BagKeys(b)
      BY DEF BagKeys, BagToSet
    <2>2. FiniteBag(b) /\ BagKeys(b) \subseteq Nat
      BY DEF BagKeys, BagToSet, Keyed
    <2>3. BagKeys(b) # {}
      BY <1>2, <1>6, <2>1
    <2> QED
      BY <2>1, <2>2, <2>3, MaxKeyIs
  <1>7. InsertOffset \in Nat /\ InsertOffset > 0
    BY WritesAssumption DEF WritesAssumption
  <1>8. ASSUME NEW r \in chosen
        PROVE  /\ f[r] = [key |-> f[r].key, val |-> f[r].val] /\ f[r].key \in Nat
               /\ f[r].key = r.key + MaxKey(b) + InsertOffset
               /\ \A s \in DOMAIN b : s.key # f[r].key
    <2>1. MaxKey(b) \in Nat /\ \A s \in DOMAIN b : s.key <= MaxKey(b) /\ s.key \in Nat
      BY <1>6, <1>8 DEF Keyed
    <2>2. r.key \in Nat
      BY <1>3
    <2>3. f[r].key = r.key + MaxKey(b) + InsertOffset /\ f[r] = [key |-> f[r].key, val |-> f[r].val]
      <3>1. PICK k : k = r.key + MaxKey(b) + InsertOffset
        OBVIOUS
      <3>2. f[r] = [key |-> k, val |-> "N"]
        BY <1>3, <3>1
      <3>3. f[r].key = k /\ f[r].val = "N"
        BY <3>2
      <3> QED
        BY <3>1, <3>2, <3>3
    <2>4. r.key + MaxKey(b) + InsertOffset \in Nat /\ r.key + MaxKey(b) + InsertOffset > MaxKey(b)
      BY <1>7, <2>1, <2>2
    <2> QED
      BY <2>1, <2>3, <2>4
  <1>9. \A r, s \in chosen : f[r].key = f[s].key => r = s
    <2> SUFFICES ASSUME NEW r \in chosen, NEW s \in chosen, f[r].key = f[s].key
                 PROVE  r = s
      OBVIOUS
    <2>1. MaxKey(b) \in Nat /\ r.key \in Nat /\ s.key \in Nat
      BY <1>3, <1>6
    <2>2. r.key + MaxKey(b) + InsertOffset = s.key + MaxKey(b) + InsertOffset
      BY <1>8
    <2>3. r.key = s.key
      BY ONLY <1>7, <2>1, <2>2
    <2> QED
      BY <1>4, <2>3
  <1>10. Keyed(new) /\ DOMAIN new = {f[r] : r \in chosen}
    <2>1. \A r \in chosen : f[r] = [key |-> f[r].key, val |-> f[r].val] /\ f[r].key \in Nat
      BY <1>8
    <2>2. PICK part : part = Where(b, chosen)
      OBVIOUS
    <2>3. Keyed(part) /\ DOMAIN part = chosen
      BY <1>5, <2>2
    <2>4. /\ \A r \in DOMAIN part : f[r] = [key |-> f[r].key, val |-> f[r].val] /\ f[r].key \in Nat
          /\ \A r, s \in DOMAIN part : f[r].key = f[s].key => r = s
      BY ONLY <1>9, <2>1, <2>3
    <2>5. Keyed(Changed(part, f))
      BY ONLY <2>3, <2>4, ChangedKeyed
    <2>6. FiniteBag(part)
      BY <2>3 DEF Keyed
    <2>7. DOMAIN Changed(part, f) = {f[r] : r \in DOMAIN part}
      BY ONLY <2>6, ChangedIs
    <2> QED
      BY <2>2, <2>3, <2>5, <2>7
  <1>11. \A r \in DOMAIN b, s \in DOMAIN new : r.key # s.key
    BY <1>8, <1>10
  <1> HIDE DEF new
  <1> QED
    BY <1>1, <1>10, <1>11, TogetherKeyed

(* UPDATE and DELETE of crud.py keep the keys.                             *)
LEMMA UpdateKeyed ==
  ASSUME NEW b, Keyed(b)
  PROVE  Keyed(CrudUpdate(b)) /\ Keyed(CrudDelete(b))
  <1> DEFINE f == [r \in BagToSet(b) |-> IF In(r.key, 100, 3) THEN [r EXCEPT !.val = "P"] ELSE r]
  <1>1. CrudUpdate(b) = Changed(b, f)
    BY DEF CrudUpdate
  <1>2. \A r \in DOMAIN b : f[r] = [key |-> f[r].key, val |-> f[r].val] /\ f[r].key = r.key /\ r.key \in Nat
    <2> SUFFICES ASSUME NEW r \in DOMAIN b
                 PROVE  f[r] = [key |-> f[r].key, val |-> f[r].val] /\ f[r].key = r.key /\ r.key \in Nat
      OBVIOUS
    <2>1. r = [key |-> r.key, val |-> r.val] /\ r.key \in Nat
      BY DEF Keyed
    <2>2. f[r] = IF In(r.key, 100, 3) THEN [r EXCEPT !.val = "P"] ELSE r
      BY DEF BagToSet
    <2>3. [r EXCEPT !.val = "P"] = [key |-> r.key, val |-> "P"]
      BY <2>1
    <2> QED
      BY <2>1, <2>2, <2>3
  <1> HIDE DEF f
  <1>3. \A r, s \in DOMAIN b : f[r].key = f[s].key => r = s
    BY <1>2 DEF Keyed
  <1>4. Keyed(Changed(b, f))
    BY <1>2, <1>3, ChangedKeyed
  <1> DEFINE rows == {r \in BagToSet(b) : ~In(r.key, 100, 17)}
  <1>5. CrudDelete(b) = Where(b, rows) /\ rows \in SUBSET DOMAIN b
    BY DEF CrudDelete, BagToSet
  <1> HIDE DEF rows
  <1>6. Keyed(Where(b, rows))
    BY <1>5, WhereKeyed
  <1> QED
    BY <1>1, <1>4, <1>5, <1>6

(* So does WHEN MATCHED of a MERGE.                                        *)
LEMMA UpdatedKeyed ==
  ASSUME NEW b, Keyed(b), NEW feed
  PROVE  Keyed(Updated(b, feed)) /\ \A r \in DOMAIN Updated(b, feed) : r.key \in BagKeys(b)
  <1> DEFINE g(r) == (CHOOSE s \in FeedRow(feed, r.key, "U") : TRUE).val
             f == [r \in BagToSet(b) |-> IF FeedRow(feed, r.key, "U") = {} THEN r ELSE [r EXCEPT !.val = g(r)]]
  <1>1. Updated(b, feed) = Changed(b, f)
    BY DEF Updated
  <1> HIDE DEF g
  <1>2. \A r \in DOMAIN b : f[r] = [key |-> f[r].key, val |-> f[r].val] /\ f[r].key = r.key /\ r.key \in Nat
    <2> SUFFICES ASSUME NEW r \in DOMAIN b
                 PROVE  f[r] = [key |-> f[r].key, val |-> f[r].val] /\ f[r].key = r.key /\ r.key \in Nat
      OBVIOUS
    <2>1. r = [key |-> r.key, val |-> r.val] /\ r.key \in Nat
      BY DEF Keyed
    <2>2. f[r] = IF FeedRow(feed, r.key, "U") = {} THEN r ELSE [r EXCEPT !.val = g(r)]
      BY DEF BagToSet
    <2>3. [r EXCEPT !.val = g(r)] = [key |-> r.key, val |-> g(r)]
      BY <2>1
    <2> QED
      BY <2>1, <2>2, <2>3
  <1> HIDE DEF f
  <1>3. \A r, s \in DOMAIN b : f[r].key = f[s].key => r = s
    BY <1>2 DEF Keyed
  <1>4. Keyed(Changed(b, f)) /\ DOMAIN Changed(b, f) = {f[r] : r \in DOMAIN b}
    <2>1. \A r \in DOMAIN b : f[r] = [key |-> f[r].key, val |-> f[r].val] /\ f[r].key \in Nat
      BY <1>2
    <2>2. Keyed(b) /\ FiniteBag(b)
      BY DEF Keyed
    <2>3. Keyed(Changed(b, f))
      BY ONLY <1>3, <2>1, <2>2, ChangedKeyed
    <2>4. DOMAIN Changed(b, f) = {f[r] : r \in DOMAIN b}
      BY ONLY <2>2, ChangedIs
    <2> QED
      BY <2>3, <2>4
  <1>5. \A r \in DOMAIN b : f[r].key \in BagKeys(b)
    BY <1>2 DEF BagKeys, BagToSet
  <1>6. PICK u : u = Changed(b, f)
    OBVIOUS
  <1>7. Keyed(u) /\ \A r \in DOMAIN u : r.key \in BagKeys(b)
    BY ONLY <1>4, <1>5, <1>6
  <1> QED
    BY <1>1, <1>6, <1>7

(* And so does the whole MERGE of crud.py.                                 *)
LEMMA MergeKeyed ==
  ASSUME NEW b, Keyed(b), NEW feed, Fed(feed)
  PROVE  Keyed(CrudMerge(b, feed))
  <1> DEFINE rows == {s \in BagToSet(feed) : s.op = "I" /\ s.key \notin BagKeys(b)}
             f == [s \in rows |-> [key |-> s.key, val |-> s.val]]
             new == Changed(Where(feed, rows), f)
  <1>1. CrudMerge(b, feed) = Updated(b, feed) (+) new
    BY DEF CrudMerge, Inserted
  <1>2. rows \in SUBSET DOMAIN feed
    BY DEF BagToSet
  <1>3. \A s \in rows : s.key \in Nat /\ s.key \notin BagKeys(b) /\ f[s] = [key |-> s.key, val |-> s.val]
    BY <1>2 DEF Fed
  <1>4. \A s, t \in rows : s.key = t.key => s = t
    BY <1>2 DEF Fed
  <1>5. FiniteBag(feed) /\ \A s \in DOMAIN feed : feed[s] = 1
    BY DEF Fed
  <1> HIDE DEF rows, f
  <1>6. /\ FiniteBag(Where(feed, rows)) /\ DOMAIN Where(feed, rows) = rows
        /\ \A s \in rows : Where(feed, rows)[s] = 1
    BY <1>2, <1>5, WhereIs
  <1>7. PICK part : part = Where(feed, rows)
    OBVIOUS
  <1>8. FiniteBag(part) /\ DOMAIN part = rows /\ \A s \in DOMAIN part : part[s] = 1
    BY <1>6, <1>7
  <1>9. FiniteBag(new) /\ DOMAIN new = {f[s] : s \in rows}
    <2>1. FiniteBag(Changed(part, f)) /\ DOMAIN Changed(part, f) = {f[s] : s \in DOMAIN part}
      BY ONLY <1>8, ChangedIs
    <2> QED
      BY <1>7, <1>8, <2>1
  <1>10. \A row \in DOMAIN new : new[row] = 1
    <2>1. ASSUME NEW s \in rows, NEW t \in rows, f[s] = f[t] PROVE s = t
      <3>1. f[s] = [key |-> s.key, val |-> s.val] /\ f[t] = [key |-> t.key, val |-> t.val]
        BY <1>3
      <3>2. s.key = t.key
        <4>1. PICK x, y : x = f[s] /\ y = f[t]
          OBVIOUS
        <4>2. x.key = s.key /\ y.key = t.key
          BY <3>1, <4>1
        <4> QED
          BY <2>1, <4>1, <4>2
      <3> QED
        BY <1>4, <3>2
    <2>2. \A s, t \in DOMAIN part : f[s] = f[t] => s = t
      BY <1>8, <2>1
    <2>3. \A row \in DOMAIN Changed(part, f) : Changed(part, f)[row] = 1
      BY ONLY <1>8, <2>2, ChangedApart
    <2> QED
      BY <1>7, <2>3
  <1> HIDE DEF new
  <1>11. \A row \in DOMAIN new : \E s \in rows : row = [key |-> s.key, val |-> s.val] /\ row = f[s]
    BY <1>3, <1>9
  <1>12. Keyed(new)
    <2>1. \A row \in DOMAIN new : row = [key |-> row.key, val |-> row.val] /\ row.key \in Nat
      BY <1>3, <1>11
    <2>2. \A row, other \in DOMAIN new : row.key = other.key => row = other
      BY <1>4, <1>11
    <2> QED
      BY <1>9, <1>10, <2>1, <2>2 DEF Keyed
  <1>13. \A r \in DOMAIN Updated(b, feed), s \in DOMAIN new : r.key # s.key
    BY <1>3, <1>11, UpdatedKeyed
  <1> QED
    BY <1>1, <1>12, <1>13, UpdatedKeyed, TogetherKeyed

(* The feed of crud.py has one insert of a key above all and one update of *)
(* a key that is there.                                                    *)
LEMMA CrudFeedFed ==
  ASSUME NEW b, Keyed(b)
  PROVE  Fed(CrudFeed(b))
  <1> DEFINE new == {l \in BagKeys(b) : In(l, 500, 0)}
             old == {l \in BagKeys(b) : In(l, 100, 7)}
  <1>1. /\ FiniteBag(CrudFeed(b)) /\ \A r \in DOMAIN CrudFeed(b) : CrudFeed(b)[r] = 1
        /\ DOMAIN CrudFeed(b) = {[key |-> k + MaxKey(b) + FeedOffset, val |-> "F", op |-> "I"] : k \in new} \union
                                {[key |-> k, val |-> "X", op |-> "U"] : k \in old}
    BY CrudFeedIs DEF Keyed
  <1>2. FeedOffset \in Nat
    BY WritesAssumption DEF WritesAssumption
  <1>3. BagKeys(b) \subseteq Nat /\ FiniteBag(b)
    BY DEF BagKeys, BagToSet, Keyed
  <1>4. ASSUME NEW k \in new
        PROVE  k \in Nat /\ MaxKey(b) \in Nat /\ \A l \in old : l \in Nat /\ l <= MaxKey(b)
    BY <1>3, MaxKeyIs
  <1>5. old \subseteq Nat
    BY <1>3
  <1> HIDE DEF new, old
  <1>6. \A r \in DOMAIN CrudFeed(b) :
           \/ \E k \in new : r.key = k + MaxKey(b) + FeedOffset /\ r.op = "I" /\ r = [key |-> r.key, val |-> "F", op |-> "I"]
           \/ r.key \in old /\ r.op = "U" /\ r = [key |-> r.key, val |-> "X", op |-> "U"]
    BY <1>1
  <1>7. \A r \in DOMAIN CrudFeed(b) : r.key \in Nat
    <2> SUFFICES ASSUME NEW r \in DOMAIN CrudFeed(b) PROVE r.key \in Nat
      OBVIOUS
    <2>1. CASE r.key \in old
      BY <1>5, <2>1
    <2>2. ASSUME NEW k \in new, r.key = k + MaxKey(b) + FeedOffset PROVE r.key \in Nat
      <3>1. k \in Nat /\ MaxKey(b) \in Nat
        BY <1>4
      <3> QED
        BY <1>2, <2>2, <3>1
    <2> QED
      BY <1>6, <2>1, <2>2
  <1>8. ASSUME NEW r \in DOMAIN CrudFeed(b), NEW s \in DOMAIN CrudFeed(b), r.key = s.key
        PROVE  r = s
    <2>1. ASSUME NEW k \in new, NEW l \in old, k + MaxKey(b) + FeedOffset = l PROVE FALSE
      <3>1. k \in Nat /\ MaxKey(b) \in Nat /\ l \in Nat /\ l <= MaxKey(b)
        BY <1>4
      <3>2. FeedOffset \in Nat /\ FeedOffset > 0
        BY WritesAssumption DEF WritesAssumption
      <3> QED
        BY ONLY <2>1, <3>1, <3>2
    <2> QED
      BY <1>6, <1>8, <2>1
  <1> QED
    BY <1>1, <1>7, <1>8 DEF Fed

-----------------------------------------------------------------------------
(***************************************************************************)
(* What holds of an engine's database whatever statements were executed    *)
(***************************************************************************)

(* DeltaForge has no table of a name that is not qualified; a staging      *)
(* table holds the source.                                                 *)
Good(e, d) ==
  /\ Database(d)
  /\ \A n \in DOMAIN d.tables : n[2] # "" /\ (e = "df" => n[1] # "")
  /\ \A t \in {"orders", "lineitem"} : Stg(t) \in DOMAIN d.tables => d.tables[Stg(t)] = Source(Stg(t))

(* A name is not the absence of one.                                       *)
LEMMA NamesNotEmpty ==
  ASSUME NEW e, NEW t
  PROVE  Name(e, t) # <<>>
  <1>1. CASE e = "df"
    BY <1>1 DEF Name
  <1>2. CASE e # "df"
    BY <1>2 DEF Name
  <1> QED
    BY <1>1, <1>2

(* A statement that writes no table leaves it so.                          *)
LEMMA GoodShrinks ==
  ASSUME NEW e, NEW d, Good(e, d), NEW new, Database(new),
         DOMAIN new.tables \subseteq DOMAIN d.tables,
         \A n \in DOMAIN new.tables : new.tables[n] = d.tables[n]
  PROVE  Good(e, new)
  BY DEF Good

(* A sound statement that is legal does.                                   *)
LEMMA GoodStays ==
  ASSUME NEW e \in Engines, NEW d, Good(e, d), NEW s, Sound(e, s), Legal(d, s)
  PROVE  Good(e, Effect(d, s))
  <1>1. Database(d) /\ Proper(s)
    BY DEF Good, Sound
  <1>2. d = [zones |-> d.zones, tables |-> d.tables]
    BY <1>1 DEF Database
  <1>3. PICK new : new = Effect(d, s)
    OBVIOUS
  <1>4. Database(new)
    BY <1>1, <1>3, DatabaseStays
  <1>5. CASE ~Writing(s)
    <2>1. /\ DOMAIN new.tables \subseteq DOMAIN d.tables
          /\ \A n \in DOMAIN new.tables : new.tables[n] = d.tables[n]
      <3>1. CASE s.op = "nothing"
        <4>1. new = d
          BY <1>2, <1>3, <3>1, EffectIs
        <4> QED
          BY <4>1
      <3>2. CASE s.op = "zone"
        <4>1. new.tables = d.tables
          BY <1>2, <1>3, <3>2, EffectIs
        <4> QED
          BY <4>1
      <3>3. CASE s.op \in {"drop", "drop it"}
        <4>1. /\ DOMAIN new.tables = DOMAIN d.tables \ {s.name}
              /\ \A n \in DOMAIN new.tables : new.tables[n] = d.tables[n]
          <5>1. /\ DOMAIN Effect(d, s).tables = DOMAIN d.tables \ {s.name}
                /\ \A n \in DOMAIN Effect(d, s).tables : Effect(d, s).tables[n] = d.tables[n]
            BY <1>2, <3>3, EffectIs
          <5> QED
            BY <1>3, <5>1
        <4> QED
          BY <4>1
      <3> QED
        BY <1>5, <3>1, <3>2, <3>3 DEF Writing
    <2> QED
      BY <1>3, <1>4, <2>1, GoodShrinks
  <1>6. CASE Writing(s)
    <2>1. /\ DOMAIN new.tables = DOMAIN d.tables \union {s.name}
          /\ new.tables[s.name] = Content(d, s)
          /\ \A n \in DOMAIN d.tables \ {s.name} : new.tables[n] = d.tables[n]
      BY <1>2, <1>3, <1>6, EffectIs
    <2>2. s.name[2] # "" /\ (e = "df" => s.name[1] # "")
      <3>1. s.name[2] # ""
        BY <1>6 DEF Sound
      <3>2. ASSUME e = "df", s.name[1] = "" PROVE FALSE
        <4>1. \/ s.op \in {"append", "cdc merge", "update %", "delete %", "optimize"}
              \/ s.op = "cdc feed" /\ s.from = Line
          BY <1>6, <3>2 DEF Sound
        <4>2. Line # <<>> /\ Line[1] = ""
          BY DEF Line, Plain
        <4>3. s.name \in DOMAIN d.tables \/ Line \in DOMAIN d.tables
          BY <4>1, <4>2, LegalIs
        <4> QED
          BY <3>2, <4>2, <4>3 DEF Good
      <3> QED
        BY <3>1, <3>2
    <2>3. ASSUME NEW t \in {"orders", "lineitem"}, s.name = Stg(t)
          PROVE  Content(d, s) = Source(Stg(t))
      <3>1. s.op = "mount" /\ s.from = <<>>
        BY <1>1, <1>6, <2>3 DEF Sound, Proper
      <3> QED
        BY <2>3, <3>1, ContentIs DEF Read
    <2>6. \A n \in DOMAIN new.tables : n = s.name \/ (n \in DOMAIN d.tables /\ new.tables[n] = d.tables[n])
      BY <2>1
    <2>7. Good(e, new)
      BY <1>4, <2>1, <2>2, <2>3, <2>6 DEF Good
    <2> QED
      BY <1>3, <2>7
  <1> QED
    BY <1>5, <1>6

(* The INSERT of a load, between CREATE and DROP.                          *)
LEMMA LoadInsert ==
  ASSUME NEW t \in {"orders", "lineitem"}, NEW d, Good("df", d),
         Name("df", t) \in DOMAIN d.tables, d.tables[Name("df", t)] = EmptyBag,
         Stg(t) \in DOMAIN d.tables
  PROVE  LET s == From("append", Name("df", t), Stg(t))
             new == Effect(d, s)
         IN  /\ Legal(d, s) /\ Good("df", new)
             /\ new.zones = d.zones /\ DOMAIN new.tables = DOMAIN d.tables
             /\ new.tables[Name("df", t)] = Source(Name("df", t))
  <1> DEFINE T == Name("df", t)
  <1>1. PICK s : s = From("append", T, Stg(t))
    OBVIOUS
  <1>2. s.op = "append" /\ s.name = T /\ s.from = Stg(t) /\ Stg(t) # <<>>
    BY <1>1 DEF From, Stg
  <1>3. Legal(d, s)
    BY <1>2, LegalIs
  <1>4. Source(Stg(t)) = Source(T)
    BY DEF Source, Stg, Name
  <1>5. Content(d, s) = Source(T)
    <2>1. Content(d, s) = d.tables[T] (+) Read(d, s)
      BY <1>2, ContentIs
    <2>2. Read(d, s) = Source(T)
      BY <1>2, <1>4 DEF Read, Good
    <2>3. FiniteBag(Source(T))
      BY SourceIs
    <2> QED
      BY <2>1, <2>2, <2>3, NothingMore
  <1>6. PICK new : new = Effect(d, s)
    OBVIOUS
  <1>7. d = [zones |-> d.zones, tables |-> d.tables] /\ Database(d)
    BY DEF Database, Good
  <1>8. Writing(s) /\ Proper(s)
    <2>1. T[1] \in Zones
      BY NamesAre DEF Engines
    <2> QED
      BY <1>2, <2>1 DEF Writing, Proper, Ops
  <1>9. /\ new.zones = d.zones /\ DOMAIN new.tables = DOMAIN d.tables
        /\ new.tables[T] = Source(T)
        /\ \A n \in DOMAIN d.tables \ {T} : new.tables[n] = d.tables[n]
    <2>1. /\ new.zones = d.zones /\ DOMAIN new.tables = DOMAIN d.tables \union {s.name}
          /\ new.tables[s.name] = Content(d, s)
          /\ \A n \in DOMAIN d.tables \ {s.name} : new.tables[n] = d.tables[n]
      BY <1>6, <1>7, <1>8, EffectIs
    <2> QED
      BY <1>2, <1>5, <2>1
  <1>10. Database(new)
    BY <1>3, <1>6, <1>7, <1>8, DatabaseStays
  <1>11. T # Stg("orders") /\ T # Stg("lineitem")
    <2>1. T[1] = "bench" /\ T[2] = t
      BY DEF Name
    <2> QED
      BY <2>1, StgIs
  <1> HIDE DEF T
  <1>12. \A n \in DOMAIN d.tables : n = T \/ new.tables[n] = d.tables[n]
    BY <1>9
  <1>13. Good("df", new)
    BY <1>9, <1>10, <1>11, <1>12 DEF Good
  <1> QED
    BY <1>1, <1>3, <1>6, <1>9, <1>13 DEF T

-----------------------------------------------------------------------------
(***************************************************************************)
(* The way of a workload through its phases                                *)
(***************************************************************************)

(* What holds of the database before statement n of step k of the setup.   *)
LoadingAt(t, n, d) ==
  /\ n > 1 => "bench" \in d.zones
  /\ n > 2 => "bench_ext" \in d.zones
  /\ n = 4 => Name("df", t) \notin DOMAIN d.tables
  /\ n \in 5 .. 7 => Name("df", t) \in DOMAIN d.tables /\ d.tables[Name("df", t)] = EmptyBag
  /\ n = 6 => Stg(t) \notin DOMAIN d.tables
  /\ n \in 7 .. 8 => Stg(t) \in DOMAIN d.tables
  /\ n = 8 => Name("df", t) \in DOMAIN d.tables /\ d.tables[Name("df", t)] = Source(Name("df", t))
LoadedAt(e, w, d) ==
  /\ Name(e, Of(w)) \in DOMAIN d.tables
  /\ w # "optimize" => d.tables[Name(e, Of(w))] = Source(Name(e, Of(w)))
  /\ e = "df" => Stg(Of(w)) \notin DOMAIN d.tables /\ "bench" \in d.zones
ViewAt(n, d) ==
  /\ n > 1 => "bench_ext" \in d.zones
  /\ n = 3 => View("df") \notin DOMAIN d.tables
Before(e, w, k, n, d) ==
  /\ w \in Loading /\ k = 1 /\ e = "df" => LoadingAt(Of(w), n, d)
  /\ w \in Loading /\ k > 1 => LoadedAt(e, w, d)
  /\ w = "parquet_view" /\ e = "df" => ViewAt(n, d)

(* Before the first measured step, and from then on.                       *)
Restored(e, w, d) ==
  w \in Loaded =>
    /\ Target(e, w) \in DOMAIN d.tables
    /\ d.tables[Target(e, w)] = Source(Target(e, w))
    /\ w = "crud" => /\ Name(e, "cdc_feed") \in DOMAIN d.tables
                     /\ d.tables[Name(e, "cdc_feed")] = CrudFeed(Source(Target(e, w)))
    /\ w = "merge_cdc" => /\ e = "spark" /\ Plain("cdc_changes") \in DOMAIN d.tables
                          /\ d.tables[Plain("cdc_changes")] = CdcFeed(Source(Target(e, w)))
Later(e, w, d) == w \in Loading /\ e = "df" => Stg(Of(w)) \notin DOMAIN d.tables

(* Before statement n of step k of the cleanup, if all were executed.      *)
Dropped(e, w, k, n, d) ==
  \A i \in 1 .. Len(CleanUp(e, w)) : \A j \in 1 .. Len(CleanUp(e, w)[i]) :
    i < k \/ (i = k /\ j < n) => CleanUp(e, w)[i][j].name \notin DOMAIN d.tables

-----------------------------------------------------------------------------
(***************************************************************************)
(* The inductive invariant                                                 *)
(***************************************************************************)

(* Both databases are good, whatever statements were executed.             *)
DbInv ==
  /\ db = [e \in Engines |-> db[e]]
  /\ \A e \in Engines : Good(e, db[e])

(* While a workload runs, there is a statement at its place.               *)
StepsOf(e, w, p) ==
  IF p = "setup" THEN Setup(e, w) ELSE IF p = "measure" THEN Measured(e, w) ELSE CleanUp(e, w)
Place(e, w, p, k, n) == k \in 1 .. Len(StepsOf(e, w, p)) /\ n \in 1 .. Len(StepsOf(e, w, p)[k])
PlaceInv ==
  /\ eng \in Engines /\ wl \in Workloads
  /\ phase \in {"idle", "setup", "measure", "cleanup"}
  /\ phase # "idle" => Place(eng, wl, phase, step, stmt) /\ outcome = "none"
  /\ rep \in 1 .. Runs[wl]

(* What is in flight was a statement of a script; who was disturbed is not *)
(* clean; the other variables.                                             *)
KindsInv ==
  /\ outcome \in {"none", "done", "skipped", "killed"}
  /\ sessions \in 0 .. MaxSessions
  /\ inflight \subseteq Sent
  /\ clean \in BOOLEAN /\ disturbed \in BOOLEAN
  /\ disturbed => ~clean
  /\ \A x \in DOMAIN final : x[1] \in Engines /\ x[2] \in Workloads

(* What the setup has done up to its present statement, and what it has    *)
(* done when the first measured statement is next.                         *)
SetupInv == phase = "setup" /\ ~disturbed => Before(eng, wl, step, stmt, db[eng])
StartInv ==
  phase = "measure" /\ step = 1 /\ rep = 1 /\ stmt = 1 /\ ~disturbed =>
    Restored(eng, wl, db[eng])

(* No staging table after the setup; what the cleanup has dropped so far.  *)
LaterInv == phase \in {"measure", "cleanup"} /\ ~disturbed => Later(eng, wl, db[eng])
CleanInv == phase = "cleanup" /\ clean => Dropped(eng, wl, step, stmt, db[eng])

IInv ==
  /\ DbInv /\ PlaceInv /\ KindsInv /\ SetupInv /\ StartInv /\ LaterInv /\ CleanInv
  /\ LeavesNothing

-----------------------------------------------------------------------------
(***************************************************************************)
(* The setup, from one statement to the next                               *)
(***************************************************************************)

(* What CREATE ZONE leaves.                                                *)
LEMMA ZoneDoes ==
  ASSUME NEW d, Database(d), NEW s, s.op = "zone"
  PROVE  /\ Legal(d, s)
         /\ Effect(d, s).zones = d.zones \union {s.name[1]} /\ Effect(d, s).tables = d.tables
  <1>1. d = [zones |-> d.zones, tables |-> d.tables]
    BY DEF Database
  <1>2. Legal(d, s)
    BY LegalIs
  <1>3. Effect(d, s).zones = d.zones \union {s.name[1]} /\ Effect(d, s).tables = d.tables
    BY <1>1, EffectIs
  <1> QED
    BY <1>2, <1>3

(* A statement that drops a table.                                         *)
Dropping(s) == s.op \in {"drop", "drop it"}

(* What it leaves.                                                         *)
LEMMA DropDoes ==
  ASSUME NEW d, Database(d), NEW s, Dropping(s)
  PROVE  /\ Effect(d, s).zones = d.zones
         /\ DOMAIN Effect(d, s).tables = DOMAIN d.tables \ {s.name}
         /\ \A n \in DOMAIN d.tables \ {s.name} : Effect(d, s).tables[n] = d.tables[n]
  <1>1. d = [zones |-> d.zones, tables |-> d.tables]
    BY DEF Database
  <1>2. /\ Effect(d, s).zones = d.zones
        /\ DOMAIN Effect(d, s).tables = DOMAIN d.tables \ {s.name}
        /\ \A n \in DOMAIN Effect(d, s).tables : Effect(d, s).tables[n] = d.tables[n]
    BY <1>1, EffectIs DEF Dropping
  <1> QED
    BY <1>2

(* A statement that writes a table.                                        *)
LEMMA WriteDoes ==
  ASSUME NEW d, Database(d), NEW s, Writing(s)
  PROVE  /\ Effect(d, s).zones = d.zones
         /\ DOMAIN Effect(d, s).tables = DOMAIN d.tables \union {s.name}
         /\ Effect(d, s).tables[s.name] = Content(d, s)
         /\ \A n \in DOMAIN d.tables \ {s.name} : Effect(d, s).tables[n] = d.tables[n]
  <1>1. d = [zones |-> d.zones, tables |-> d.tables]
    BY DEF Database
  <1> QED
    BY <1>1, EffectIs

(* Both zones of a load are there.                                         *)
Zoned(d) == "bench" \in d.zones /\ "bench_ext" \in d.zones

(* The positions of a load of DeltaForge, one by one.                      *)
LEMMA LoadingAtIs ==
  ASSUME NEW t, NEW d, NEW T, T = Name("df", t), NEW G, G = Stg(t)
  PROVE  /\ LoadingAt(t, 1, d)
         /\ LoadingAt(t, 2, d) <=> "bench" \in d.zones
         /\ LoadingAt(t, 3, d) <=> Zoned(d)
         /\ LoadingAt(t, 4, d) <=> Zoned(d) /\ T \notin DOMAIN d.tables
         /\ LoadingAt(t, 5, d) <=> Zoned(d) /\ T \in DOMAIN d.tables /\ d.tables[T] = EmptyBag
         /\ LoadingAt(t, 6, d) <=>
              Zoned(d) /\ T \in DOMAIN d.tables /\ d.tables[T] = EmptyBag /\ G \notin DOMAIN d.tables
         /\ LoadingAt(t, 7, d) <=>
              Zoned(d) /\ T \in DOMAIN d.tables /\ d.tables[T] = EmptyBag /\ G \in DOMAIN d.tables
         /\ LoadingAt(t, 8, d) <=>
              Zoned(d) /\ T \in DOMAIN d.tables /\ d.tables[T] = Source(T) /\ G \in DOMAIN d.tables
  <1>1. /\ LoadingAt(t, 1, d)
        /\ LoadingAt(t, 2, d) <=> "bench" \in d.zones
        /\ LoadingAt(t, 3, d) <=> Zoned(d)
        /\ LoadingAt(t, 4, d) <=> Zoned(d) /\ T \notin DOMAIN d.tables
    BY DEF LoadingAt, Zoned
  <1>2. LoadingAt(t, 5, d) <=> Zoned(d) /\ T \in DOMAIN d.tables /\ d.tables[T] = EmptyBag
    BY DEF LoadingAt, Zoned
  <1>3. LoadingAt(t, 6, d) <=> Zoned(d) /\ T \in DOMAIN d.tables /\ d.tables[T] = EmptyBag /\ G \notin DOMAIN d.tables
    BY DEF LoadingAt, Zoned
  <1>4. LoadingAt(t, 7, d) <=> Zoned(d) /\ T \in DOMAIN d.tables /\ d.tables[T] = EmptyBag /\ G \in DOMAIN d.tables
    BY DEF LoadingAt, Zoned
  <1>5. LoadingAt(t, 8, d) <=> Zoned(d) /\ T \in DOMAIN d.tables /\ d.tables[T] = Source(T) /\ G \in DOMAIN d.tables
    BY DEF LoadingAt, Zoned
  <1> QED
    BY <1>1, <1>2, <1>3, <1>4, <1>5

(* The fields of a statement.                                              *)
LEMMA FieldsAre ==
  ASSUME NEW op, NEW name
  PROVE  S(op, name).op = op /\ S(op, name).name = name /\ S(op, name).from = <<>>
  BY DEF S

(* A load of DeltaForge from one statement to the next: each of them is    *)
(* legal, whatever an earlier session left.                                *)
LoadStep(t, n, new) ==
  /\ n < 8 => LoadingAt(t, n + 1, new)
  /\ n = 8 => /\ Name("df", t) \in DOMAIN new.tables
              /\ new.tables[Name("df", t)] = Source(Name("df", t))
              /\ Stg(t) \notin DOMAIN new.tables /\ "bench" \in new.zones

(* Every statement of a load of DeltaForge is legal and leads on.          *)
LEMMA LoadingNext ==
  ASSUME NEW t \in {"orders", "lineitem"}, NEW n \in 1 .. 8, NEW d, Good("df", d), LoadingAt(t, n, d)
  PROVE  LET s == Load("df", t)[n]
         IN  Legal(d, s) /\ Good("df", Effect(d, s)) /\ LoadStep(t, n, Effect(d, s))
  <1> DEFINE T == Name("df", t)
             G == Stg(t)
  <1>1. PICK s : s = Load("df", t)[n]
    OBVIOUS
  <1>2. PICK new : new = Effect(d, s)
    OBVIOUS
  <1>3. T[1] = "bench" /\ G[1] = "bench_ext" /\ T # G
    <2>1. T[1] = "bench"
      BY DEF Name
    <2>2. G[1] = "bench_ext"
      BY StgIs
    <2> QED
      BY <2>1, <2>2
  <1>4. Database(d)
    BY DEF Good
  <1>5. ASSUME n # 7, Legal(d, s) PROVE Good("df", new)
    <2>1. Sound("df", s) /\ "df" \in Engines
      <3>1. Len(Load("df", t)) = 8
        BY LoadIs
      <3> QED
        BY <1>1, <3>1, LoadAllSound DEF Engines, AllSound
    <2> QED
      BY <1>2, <1>5, <2>1, GoodStays
  <1> HIDE DEF T, G
  <1> SUFFICES Legal(d, s) /\ Good("df", new) /\ LoadStep(t, n, new)
    BY <1>1, <1>2
  <1>6. CASE n = 1
    <2>1. s.op = "zone" /\ s.name[1] = "bench"
      <3>1. s = S("zone", <<"bench", "">>)
        BY <1>1, <1>6, LoadIs DEF BenchZone, T
      <3>2. s.op = "zone" /\ s.name = <<"bench", "">>
        BY <3>1, FieldsAre
      <3>3. <<"bench", "">>[1] = "bench"
        OBVIOUS
      <3> QED
        BY <3>2, <3>3
    <2>2. Legal(d, s) /\ new.zones = d.zones \union {"bench"} /\ new.tables = d.tables
      BY <1>2, <1>4, <2>1, ZoneDoes
    <2>3. LoadingAt(t, 2, new)
      BY <1>3, <2>2, LoadingAtIs DEF T, G, Zoned
    <2> QED
      BY <1>5, <1>6, <2>2, <2>3 DEF LoadStep
  <1>7. CASE n = 2
    <2>1. "bench" \in d.zones
      BY <1>7, LoadingAtIs DEF T, G, Zoned
    <2>2. s.op = "zone" /\ s.name[1] = "bench_ext"
      <3>1. s = S("zone", <<"bench_ext", "">>)
        BY <1>1, <1>7, LoadIs DEF ExtZone, T
      <3>2. s.op = "zone" /\ s.name = <<"bench_ext", "">>
        BY <3>1, FieldsAre
      <3>3. <<"bench_ext", "">>[1] = "bench_ext"
        OBVIOUS
      <3> QED
        BY <3>2, <3>3
    <2>3. Legal(d, s) /\ new.zones = d.zones \union {"bench_ext"} /\ new.tables = d.tables
      BY <1>2, <1>4, <2>2, ZoneDoes
    <2>4. LoadingAt(t, 3, new)
      BY <1>3, <2>1, <2>3, LoadingAtIs DEF T, G, Zoned
    <2> QED
      BY <1>5, <1>7, <2>3, <2>4 DEF LoadStep
  <1>8. CASE n = 3
    <2>1. "bench" \in d.zones /\ "bench_ext" \in d.zones
      BY <1>8, LoadingAtIs DEF T, G, Zoned
    <2>2. s.op = "drop" /\ s.name = T /\ s.from = <<>>
      <3>1. s = S("drop", T)
        BY <1>1, <1>8, LoadIs DEF T, G
      <3> QED
        BY <3>1, FieldsAre
    <2>3. /\ Legal(d, s) /\ new.zones = d.zones /\ DOMAIN new.tables = DOMAIN d.tables \ {T}
          /\ \A m \in DOMAIN d.tables \ {T} : new.tables[m] = d.tables[m]
      <3>1. Legal(d, s)
        BY <2>1, <2>2, LegalIs
      <3>2. Dropping(s)
        BY <2>2 DEF Dropping
      <3>3. /\ new.zones = d.zones /\ DOMAIN new.tables = DOMAIN d.tables \ {s.name}
            /\ \A m \in DOMAIN d.tables \ {s.name} : new.tables[m] = d.tables[m]
        BY ONLY <1>2, <1>4, <3>2, DropDoes
      <3> QED
        BY <2>2, <3>1, <3>3
    <2>4. LoadingAt(t, 4, new)
      BY <1>3, <2>1, <2>3, LoadingAtIs DEF T, G, Zoned
    <2> QED
      BY <1>5, <1>8, <2>3, <2>4 DEF LoadStep
  <1>9. CASE n = 4
    <2>1. "bench" \in d.zones /\ "bench_ext" \in d.zones /\ T \notin DOMAIN d.tables
      BY <1>9, LoadingAtIs DEF T, G, Zoned
    <2>2. s.op = "create" /\ s.name = T /\ s.from = <<>>
      <3>1. s = S("create", T)
        BY <1>1, <1>9, LoadIs DEF T, G
      <3> QED
        BY <3>1, FieldsAre
    <2>3. Legal(d, s) /\ Writing(s) /\ Content(d, s) = EmptyBag
      BY <1>3, <2>1, <2>2, LegalIs, ContentIs DEF Writing
    <2>4. /\ Legal(d, s) /\ new.zones = d.zones /\ DOMAIN new.tables = DOMAIN d.tables \union {T}
          /\ new.tables[T] = EmptyBag
          /\ \A m \in DOMAIN d.tables \ {T} : new.tables[m] = d.tables[m]
      BY <1>2, <1>4, <2>2, <2>3, WriteDoes
    <2>5. LoadingAt(t, 5, new)
      BY <1>3, <2>1, <2>4, LoadingAtIs DEF T, G, Zoned
    <2> QED
      BY <1>5, <1>9, <2>4, <2>5 DEF LoadStep
  <1>10. CASE n = 5
    <2>1. "bench" \in d.zones /\ "bench_ext" \in d.zones /\ T \in DOMAIN d.tables /\ d.tables[T] = EmptyBag
      BY <1>10, LoadingAtIs DEF T, G, Zoned
    <2>2. s.op = "drop" /\ s.name = G /\ s.from = <<>>
      <3>1. s = S("drop", G)
        BY <1>1, <1>10, LoadIs DEF T, G
      <3> QED
        BY <3>1, FieldsAre
    <2>3. /\ Legal(d, s) /\ new.zones = d.zones /\ DOMAIN new.tables = DOMAIN d.tables \ {G}
          /\ \A m \in DOMAIN d.tables \ {G} : new.tables[m] = d.tables[m]
      <3>1. Legal(d, s)
        BY <2>1, <2>2, LegalIs
      <3>2. Dropping(s)
        BY <2>2 DEF Dropping
      <3>3. /\ new.zones = d.zones /\ DOMAIN new.tables = DOMAIN d.tables \ {s.name}
            /\ \A m \in DOMAIN d.tables \ {s.name} : new.tables[m] = d.tables[m]
        BY ONLY <1>2, <1>4, <3>2, DropDoes
      <3> QED
        BY <2>2, <3>1, <3>3
    <2>4. LoadingAt(t, 6, new)
      BY <1>3, <2>1, <2>3, LoadingAtIs DEF T, G, Zoned
    <2> QED
      BY <1>5, <1>10, <2>3, <2>4 DEF LoadStep
  <1>11. CASE n = 6
    <2>1. "bench" \in d.zones /\ "bench_ext" \in d.zones /\ T \in DOMAIN d.tables /\ d.tables[T] = EmptyBag /\ G \notin DOMAIN d.tables
      BY <1>11, LoadingAtIs DEF T, G, Zoned
    <2>2. s.op = "mount" /\ s.name = G /\ s.from = <<>>
      <3>1. s = S("mount", G)
        BY <1>1, <1>11, LoadIs DEF T, G
      <3> QED
        BY <3>1, FieldsAre
    <2>3. Legal(d, s) /\ Writing(s)
      BY <1>3, <2>1, <2>2, LegalIs DEF Writing
    <2>4. /\ Legal(d, s) /\ new.zones = d.zones /\ DOMAIN new.tables = DOMAIN d.tables \union {G}
          /\ new.tables[G] = Content(d, s)
          /\ \A m \in DOMAIN d.tables \ {G} : new.tables[m] = d.tables[m]
      BY <1>2, <1>4, <2>2, <2>3, WriteDoes
    <2>5. LoadingAt(t, 7, new)
      BY <1>3, <2>1, <2>4, LoadingAtIs DEF T, G, Zoned
    <2> QED
      BY <1>5, <1>11, <2>4, <2>5 DEF LoadStep
  <1>12. CASE n = 7
    <2>1. "bench" \in d.zones /\ "bench_ext" \in d.zones /\ T \in DOMAIN d.tables /\ d.tables[T] = EmptyBag /\ G \in DOMAIN d.tables
      BY <1>12, LoadingAtIs DEF T, G, Zoned
    <2>2. s = From("append", T, G)
      BY <1>1, <1>12, LoadIs DEF T, G
    <2>3. /\ Legal(d, s) /\ Good("df", new)
          /\ new.zones = d.zones /\ DOMAIN new.tables = DOMAIN d.tables
          /\ new.tables[T] = Source(T)
      BY <1>2, <2>1, <2>2, LoadInsert DEF T, G
    <2>4. LoadingAt(t, 8, new)
      BY <2>1, <2>3, LoadingAtIs DEF T, G, Zoned
    <2> QED
      BY <1>12, <2>3, <2>4 DEF LoadStep
  <1>13. CASE n = 8
    <2>1. "bench" \in d.zones /\ "bench_ext" \in d.zones /\ T \in DOMAIN d.tables
          /\ d.tables[T] = Source(T) /\ G \in DOMAIN d.tables
      BY <1>13, LoadingAtIs DEF T, G, Zoned
    <2>2. s.op = "drop it" /\ s.name = G /\ s.from = <<>>
      <3>1. s = S("drop it", G)
        BY <1>1, <1>13, LoadIs DEF T, G
      <3> QED
        BY <3>1, FieldsAre
    <2>3. /\ Legal(d, s) /\ new.zones = d.zones /\ DOMAIN new.tables = DOMAIN d.tables \ {G}
          /\ \A m \in DOMAIN d.tables \ {G} : new.tables[m] = d.tables[m]
      <3>1. Legal(d, s)
        BY <2>1, <2>2, LegalIs
      <3>2. Dropping(s)
        BY <2>2 DEF Dropping
      <3>3. /\ new.zones = d.zones /\ DOMAIN new.tables = DOMAIN d.tables \ {s.name}
            /\ \A m \in DOMAIN d.tables \ {s.name} : new.tables[m] = d.tables[m]
        BY ONLY <1>2, <1>4, <3>2, DropDoes
      <3> QED
        BY <2>2, <3>1, <3>3
    <2>4. T \in DOMAIN new.tables /\ new.tables[T] = Source(T) /\ G \notin DOMAIN new.tables
      BY <1>3, <2>1, <2>3
    <2> QED
      BY <1>5, <1>13, <2>1, <2>3, <2>4 DEF LoadStep, T, G
  <1>14. n \in {1, 2, 3, 4, 5, 6, 7, 8}
    OBVIOUS
  <1> QED
    BY <1>6, <1>7, <1>8, <1>9, <1>10, <1>11, <1>12, <1>13, <1>14

(* The load of either engine, from one statement to the next.              *)
LEMMA LoadNext ==
  ASSUME NEW e \in Engines, NEW w \in Loading, NEW n \in 1 .. Len(Load(e, Of(w))),
         NEW d, Good(e, d), e = "df" => LoadingAt(Of(w), n, d)
  PROVE  LET s == Load(e, Of(w))[n]
         IN  /\ Legal(d, s) /\ Good(e, Effect(d, s))
             /\ e = "df" /\ n < 8 => LoadingAt(Of(w), n + 1, Effect(d, s))
             /\ n = Len(Load(e, Of(w))) => LoadedAt(e, w, Effect(d, s))
  <1>1. Of(w) \in {"orders", "lineitem"}
    BY DEF Of
  <1>2. PICK t \in {"orders", "lineitem"} : t = Of(w)
    BY <1>1
  <1>3. CASE e = "df"
    <2>1. Len(Load("df", t)) = 8
      BY LoadIs
    <2>2. n \in 1 .. 8 /\ LoadingAt(t, n, d) /\ Good("df", d)
      BY <1>2, <1>3, <2>1
    <2>3. PICK s : s = Load("df", t)[n]
      OBVIOUS
    <2>4. Legal(d, s) /\ Good("df", Effect(d, s)) /\ LoadStep(t, n, Effect(d, s))
      BY <2>2, <2>3, LoadingNext
    <2>5. n < 8 => LoadingAt(t, n + 1, Effect(d, s))
      BY <2>4 DEF LoadStep
    <2>6. n = 8 => LoadedAt("df", w, Effect(d, s))
      BY <1>2, <2>4 DEF LoadStep, LoadedAt
    <2> QED
      BY <1>2, <1>3, <2>1, <2>3, <2>4, <2>5, <2>6
  <1>4. CASE e = "spark"
    <2>1. Len(Load("spark", t)) = 1 /\ Load("spark", t)[1] = S("replace", Name("spark", t))
      BY LoadIs
    <2>2. n = 1
      <3>1. Len(Load(e, Of(w))) = 1
        BY <1>2, <1>4, <2>1
      <3> QED
        BY <3>1
    <2>3. PICK s : s = S("replace", Name("spark", t))
      OBVIOUS
    <2>4. s.op = "replace" /\ s.name = Name("spark", t) /\ s.from = <<>>
      BY <2>3, FieldsAre
    <2>5. Name("spark", t)[1] = "" /\ "spark" \in Engines
      BY DEF Name, Engines
    <2>6. Database(d) /\ "" \in d.zones
      BY DEF Good, Database
    <2>7. Legal(d, s)
      BY <2>4, <2>5, <2>6, LegalIs
    <2>8. Sound("spark", s)
      BY <2>3, LoadSound
    <2>9. Good("spark", Effect(d, s))
      BY <1>4, <2>5, <2>7, <2>8, GoodStays
    <2>10. Name("spark", t) \in DOMAIN Effect(d, s).tables
           /\ Effect(d, s).tables[Name("spark", t)] = Source(Name("spark", t))
      <3>1. Writing(s)
        BY <2>4 DEF Writing
      <3>2. Content(d, s) = Source(s.name)
        BY <2>4, ContentIs DEF Read
      <3>3. s.name \in DOMAIN Effect(d, s).tables /\ Effect(d, s).tables[s.name] = Content(d, s)
        BY <2>6, <3>1, WriteDoes
      <3> QED
        BY <2>4, <3>2, <3>3
    <2>11. LoadedAt("spark", w, Effect(d, s))
      BY <1>2, <2>10 DEF LoadedAt
    <2> QED
      BY <1>2, <1>4, <2>1, <2>2, <2>3, <2>7, <2>9, <2>11
  <1> QED
    BY <1>3, <1>4 DEF Engines

(* From one statement of the setup to the next, or to the first measured   *)
(* one.                                                                    *)
SetupStep(e, w, k, n, new) ==
  /\ n < Len(Setup(e, w)[k]) => Before(e, w, k, n + 1, new)
  /\ n = Len(Setup(e, w)[k]) /\ k < Len(Setup(e, w)) => Before(e, w, k + 1, 1, new)
  /\ n = Len(Setup(e, w)[k]) /\ k = Len(Setup(e, w)) => Restored(e, w, new) /\ Later(e, w, new)

(* A setup that begins with a load.                                        *)
LEMMA FirstStepNext ==
  ASSUME NEW e \in Engines, NEW w \in Loading, Setup(e, w)[1] = Load(e, Of(w)),
         1 # Len(Setup(e, w)) \/ w = "update_delete",
         NEW n \in 1 .. Len(Setup(e, w)[1]), NEW d, Good(e, d), Before(e, w, 1, n, d)
  PROVE  LET s == Setup(e, w)[1][n]
         IN  /\ Legal(d, s) /\ Good(e, Effect(d, s))
             /\ SetupStep(e, w, 1, n, Effect(d, s))
  <1>1. e = "df" => LoadingAt(Of(w), n, d)
    BY DEF Before
  <1>2. n \in 1 .. Len(Load(e, Of(w)))
    OBVIOUS
  <1>3. PICK s : s = Load(e, Of(w))[n]
    OBVIOUS
  <1>4. /\ Legal(d, s) /\ Good(e, Effect(d, s))
        /\ e = "df" /\ n < 8 => LoadingAt(Of(w), n + 1, Effect(d, s))
        /\ n = Len(Load(e, Of(w))) => LoadedAt(e, w, Effect(d, s))
    BY <1>1, <1>2, <1>3, LoadNext
  <1>5. Len(Load("df", Of(w))) = 8 /\ Len(Load("spark", Of(w))) = 1
    BY LoadIs
  <1>6. PICK new : new = Effect(d, s)
    OBVIOUS
  <1>7. w # "parquet_view"
    BY DEF Loading
  <1>8. ASSUME n < Len(Setup(e, w)[1]) PROVE Before(e, w, 1, n + 1, new)
    <2>1. CASE e = "df"
      <3>1. n < 8
        BY <1>5, <1>8, <2>1
      <3>2. LoadingAt(Of(w), n + 1, new)
        BY <1>4, <1>6, <2>1, <3>1
      <3> QED
        BY <1>7, <3>2 DEF Before
    <2>2. CASE e = "spark"
      BY <1>7, <2>2 DEF Before
    <2> QED
      BY <2>1, <2>2 DEF Engines
  <1>9. ASSUME n = Len(Setup(e, w)[1]) PROVE LoadedAt(e, w, new)
    BY <1>4, <1>6, <1>9
  <1>10. ASSUME n = Len(Setup(e, w)[1]) PROVE Before(e, w, 2, 1, new)
    BY <1>7, <1>9, <1>10 DEF Before
  <1>11. ASSUME n = Len(Setup(e, w)[1]), w = "update_delete" PROVE Restored(e, w, new) /\ Later(e, w, new)
    BY <1>9, <1>11 DEF LoadedAt, Restored, Later, Target, Of
  <1>12. SetupStep(e, w, 1, n, new)
    <2>1. w # "update_delete" => 1 # Len(Setup(e, w))
      OBVIOUS
    <2> QED
      BY <1>8, <1>10, <1>11, <2>1 DEF SetupStep
  <1> QED
    BY <1>3, <1>4, <1>6, <1>12

(* The second step of crud.py: the feed.                                   *)
LEMMA FeedNext ==
  ASSUME NEW e \in Engines, NEW n \in 1 .. Len(Feed(e)), NEW d, Good(e, d), LoadedAt(e, "crud", d)
  PROVE  LET s == Feed(e)[n]
         IN  /\ Legal(d, s)
             /\ LoadedAt(e, "crud", Effect(d, s))
             /\ n = Len(Feed(e)) => Restored(e, "crud", Effect(d, s))
  <1> DEFINE T == Name(e, "orders")
             F == Name(e, "cdc_feed")
             G == Stg("orders")
  <1>1. T # F /\ F # G /\ T # <<>> /\ F[1] = T[1] /\ (e = "spark" => F[1] = "") /\ (e = "df" => F[1] = "bench")
    <2>1. T[2] = "orders" /\ F[2] = "cdc_feed" /\ G[2] = "stg_orders"
      <3>1. CASE e = "df"
        BY <3>1, StgIs DEF Name
      <3>2. CASE e = "spark"
        BY <3>2, StgIs DEF Name
      <3> QED
        BY <3>1, <3>2 DEF Engines
    <2>2. (e = "spark" => F[1] = "" /\ T[1] = "") /\ (e = "df" => F[1] = "bench" /\ T[1] = "bench")
      BY DEF Name
    <2> QED
      BY <2>1, <2>2, NamesNotEmpty DEF Engines
  <1>2. Database(d) /\ "" \in d.zones
    BY DEF Good, Database
  <1>3. /\ T \in DOMAIN d.tables /\ d.tables[T] = Source(T)
        /\ e = "df" => G \notin DOMAIN d.tables /\ "bench" \in d.zones
    BY DEF LoadedAt, Of
  <1>4. \A new : LoadedAt(e, "crud", new) <=>
          /\ T \in DOMAIN new.tables /\ new.tables[T] = Source(T)
          /\ e = "df" => G \notin DOMAIN new.tables /\ "bench" \in new.zones
    BY DEF LoadedAt, Of
  <1>5. \A new : /\ T \in DOMAIN new.tables /\ new.tables[T] = Source(T)
                  /\ F \in DOMAIN new.tables /\ new.tables[F] = CrudFeed(Source(T))
                => Restored(e, "crud", new)
    BY DEF Restored, Target
  <1>6. Source(T) = Source(T)
    OBVIOUS
  <1> HIDE DEF T, F, G
  <1>7. PICK s : s = Feed(e)[n]
    OBVIOUS
  <1>8. \/ e = "df" /\ n = 1 /\ s = S("drop", F) /\ n # Len(Feed(e))
        \/ s = From("crud feed", F, T)
    <2>1. CASE e = "df"
      <3>1. Len(Feed(e)) = 2 /\ Feed(e)[1] = S("drop", F) /\ Feed(e)[2] = From("crud feed", F, T)
        BY <2>1, StepsAre DEF F, T
      <3>2. n = 1 \/ n = 2
        <4>1. Len(Feed(e)) = 2
          BY <3>1
        <4>2. n \in 1 .. 2
          BY <4>1
        <4> QED
          BY <4>2
      <3> QED
        BY <1>7, <2>1, <3>1, <3>2
    <2>2. CASE e = "spark"
      <3>1. Len(Feed(e)) = 1 /\ Feed(e)[1] = From("crud feed", F, T)
        BY <2>2, StepsAre DEF F, T
      <3>2. n = 1
        <4>1. Len(Feed(e)) = 1
          BY <3>1
        <4>2. n \in 1 .. 1
          BY <4>1
        <4> QED
          BY <4>2
      <3> QED
        BY <1>7, <3>1, <3>2
    <2> QED
      BY <2>1, <2>2 DEF Engines
  <1>9. PICK new : new = Effect(d, s)
    OBVIOUS
  <1>10. CASE e = "df" /\ n = 1 /\ s = S("drop", F) /\ n # Len(Feed(e))
    <2>1. s.op = "drop" /\ s.name = F
      BY <1>10, FieldsAre
    <2>2. Legal(d, s) /\ Dropping(s)
      BY <2>1, LegalIs DEF Dropping
    <2>3. /\ Effect(d, s).zones = d.zones
          /\ DOMAIN Effect(d, s).tables = DOMAIN d.tables \ {s.name}
          /\ \A m \in DOMAIN d.tables \ {s.name} : Effect(d, s).tables[m] = d.tables[m]
      BY <1>2, <2>2, DropDoes
    <2>4. LoadedAt(e, "crud", new)
      BY <1>1, <1>3, <1>4, <1>9, <2>1, <2>3
    <2> QED
      BY <1>7, <1>9, <1>10, <2>2, <2>4
  <1>11. CASE s = From("crud feed", F, T)
    <2>1. s.op = "crud feed" /\ s.name = F /\ s.from = T
      BY <1>11 DEF From
    <2>2. F[1] \in d.zones
      BY <1>1, <1>2, <1>3 DEF Engines
    <2>3. Legal(d, s) /\ Writing(s)
      BY <1>3, <2>1, <2>2, LegalIs DEF Writing
    <2>4. /\ Effect(d, s).zones = d.zones
          /\ DOMAIN Effect(d, s).tables = DOMAIN d.tables \union {s.name}
          /\ Effect(d, s).tables[s.name] = Content(d, s)
          /\ \A m \in DOMAIN d.tables \ {s.name} : Effect(d, s).tables[m] = d.tables[m]
      BY <1>2, <2>3, WriteDoes
    <2>5. Content(d, s) = CrudFeed(Source(T))
      <3>1. Read(d, s) = Source(T)
        BY <1>1, <1>3, <2>1 DEF Read
      <3> QED
        BY <2>1, <3>1, ContentIs
    <2>6. /\ new.tables[T] = Source(T) /\ new.tables[F] = CrudFeed(Source(T))
          /\ T \in DOMAIN new.tables /\ F \in DOMAIN new.tables
      BY <1>1, <1>3, <1>9, <2>1, <2>4, <2>5
    <2>7. LoadedAt(e, "crud", new)
      BY <1>1, <1>3, <1>4, <1>9, <2>1, <2>4, <2>6
    <2>8. Restored(e, "crud", new)
      BY <1>5, <2>6
    <2> QED
      BY <1>7, <1>9, <2>3, <2>7, <2>8
  <1> QED
    BY <1>8, <1>10, <1>11

(* The second step of merge_cdc.py, which DeltaForge refuses.              *)
LEMMA CdcNext ==
  ASSUME NEW e \in Engines, NEW d, Good(e, d), LoadedAt(e, "merge_cdc", d)
  PROVE  LET s == From("cdc feed", Plain("cdc_changes"), Line)
         IN  /\ e = "spark" => Legal(d, s)
             /\ Legal(d, s) => Restored(e, "merge_cdc", Effect(d, s)) /\ e = "spark"
  <1>1. Line # <<>> /\ Line[1] = "" /\ Line[2] = "lineitem"
        /\ Plain("cdc_changes")[1] = "" /\ Plain("cdc_changes")[2] = "cdc_changes"
    BY DEF Line, Plain
  <1>2. PICK s : s = From("cdc feed", Plain("cdc_changes"), Line)
    OBVIOUS
  <1>3. s.op = "cdc feed" /\ s.name = Plain("cdc_changes") /\ s.from = Line
    BY <1>2 DEF From
  <1>4. Database(d) /\ "" \in d.zones
    BY DEF Good, Database
  <1>5. ASSUME Legal(d, s) PROVE e = "spark"
    <2>1. Line \in DOMAIN d.tables
      BY <1>1, <1>3, <1>5, LegalIs
    <2> QED
      BY <1>1, <2>1 DEF Good, Engines
  <1>6. ASSUME e = "spark"
        PROVE  Legal(d, s) /\ Restored(e, "merge_cdc", Effect(d, s))
    <2>1. Target(e, "merge_cdc") = Line /\ Name(e, Of("merge_cdc")) = Line
      BY <1>6 DEF Target, Of, Name, Line, Plain
    <2>2. Line \in DOMAIN d.tables /\ d.tables[Line] = Source(Line)
      BY <2>1 DEF LoadedAt
    <2>3. Legal(d, s) /\ Writing(s)
      BY <1>1, <1>3, <1>4, <2>2, LegalIs DEF Writing
    <2>4. /\ Effect(d, s).tables[s.name] = Content(d, s)
          /\ DOMAIN Effect(d, s).tables = DOMAIN d.tables \union {s.name}
          /\ \A m \in DOMAIN d.tables \ {s.name} : Effect(d, s).tables[m] = d.tables[m]
      BY <1>4, <2>3, WriteDoes
    <2>5. Content(d, s) = CdcFeed(Source(Line))
      <3>1. Read(d, s) = Source(Line)
        BY <1>1, <1>3, <2>2 DEF Read
      <3> QED
        BY <1>3, <3>1, ContentIs
    <2>6. Line # Plain("cdc_changes")
      BY <1>1
    <2>7. /\ Effect(d, s).tables[Line] = Source(Line)
          /\ Effect(d, s).tables[Plain("cdc_changes")] = CdcFeed(Source(Line))
          /\ {Line, Plain("cdc_changes")} \subseteq DOMAIN Effect(d, s).tables
      BY <1>3, <2>2, <2>4, <2>5, <2>6
    <2>8. Restored(e, "merge_cdc", Effect(d, s))
      BY <1>6, <2>1, <2>7 DEF Restored
    <2> QED
      BY <2>3, <2>8
  <1> QED
    BY <1>2, <1>5, <1>6 DEF Engines

(* The appends of optimize.py, which DeltaForge refuses too.               *)
LEMMA AppendNext ==
  ASSUME NEW e \in Engines, NEW d, Good(e, d), LoadedAt(e, "optimize", d)
  PROVE  LET s == S("append", Line)
         IN  /\ e = "spark" => Legal(d, s)
             /\ Legal(d, s) => LoadedAt(e, "optimize", Effect(d, s)) /\ e = "spark"
  <1>1. PICK s : s = S("append", Line)
    OBVIOUS
  <1>2. s.op = "append" /\ s.name = Line /\ s.from = <<>>
    BY <1>1, FieldsAre
  <1>3. Database(d) /\ Line[1] = ""
    BY DEF Good, Line, Plain
  <1>4. ASSUME Legal(d, s) PROVE e = "spark"
    <2>1. Line \in DOMAIN d.tables
      BY <1>2, <1>4, LegalIs
    <2> QED
      BY <1>3, <2>1 DEF Good, Engines
  <1>5. ASSUME e = "spark"
        PROVE  Legal(d, s) /\ LoadedAt(e, "optimize", Effect(d, s))
    <2>1. Name(e, Of("optimize")) = Line
      BY <1>5 DEF Of, Name, Line, Plain
    <2>2. Line \in DOMAIN d.tables
      BY <2>1 DEF LoadedAt
    <2>3. Legal(d, s) /\ Writing(s)
      BY <1>2, <2>2, LegalIs DEF Writing
    <2>4. DOMAIN Effect(d, s).tables = DOMAIN d.tables \union {s.name}
      BY <1>3, <2>3, WriteDoes
    <2> QED
      BY <1>5, <2>1, <2>2, <2>3, <2>4 DEF LoadedAt
  <1> QED
    BY <1>1, <1>4, <1>5 DEF Engines

(* The views over the Parquet files.                                       *)
LEMMA MountNext ==
  ASSUME NEW e \in Engines, NEW n \in 1 .. Len(Mount(e)), NEW d, Good(e, d), e = "df" => ViewAt(n, d)
  PROVE  LET s == Mount(e)[n]
         IN  /\ Legal(d, s)
             /\ e = "df" /\ n < Len(Mount(e)) => ViewAt(n + 1, Effect(d, s))
  <1>1. Database(d) /\ "" \in d.zones
    BY DEF Good, Database
  <1>2. PICK s : s = Mount(e)[n]
    OBVIOUS
  <1>3. CASE e = "spark"
    <2>1. Len(Mount(e)) = 1 /\ Mount(e)[1] = S("replace", View("spark"))
      BY <1>3, StepsAre
    <2>2. n = 1
      BY <2>1
    <2>3. s.op = "replace" /\ s.name = View("spark") /\ s.from = <<>>
      BY <1>2, <2>1, <2>2, FieldsAre
    <2>4. View("spark")[1] = ""
      BY DEF View, Plain
    <2> QED
      BY <1>1, <1>2, <1>3, <2>3, <2>4, LegalIs
  <1>4. CASE e = "df"
    <2> DEFINE V == View("df")
    <2>1. /\ Len(Mount(e)) = 3 /\ Mount(e)[1] = S("zone", V) /\ Mount(e)[2] = S("drop", V)
          /\ Mount(e)[3] = S("mount", V)
      BY <1>4, StepsAre
    <2>2. V[1] = "bench_ext"
      BY DEF View
    <2>3. ViewAt(n, d) /\ n \in {1, 2, 3}
      <3>1. Len(Mount(e)) = 3
        BY <2>1
      <3>2. n \in 1 .. 3
        BY <3>1
      <3> QED
        BY <1>4, <3>2
    <2>4. \A m \in {1, 2, 3} : \A new :
            ViewAt(m, new) <=> (m > 1 => "bench_ext" \in new.zones) /\ (m = 3 => V \notin DOMAIN new.tables)
      BY DEF ViewAt
    <2> HIDE DEF V
    <2>5. CASE n = 1
      <3>1. s.op = "zone" /\ s.name = V
        BY <1>2, <2>1, <2>5, FieldsAre
      <3>2. Legal(d, s) /\ "bench_ext" \in Effect(d, s).zones
        BY <1>1, <2>2, <3>1, ZoneDoes
      <3>3. ViewAt(2, Effect(d, s))
        BY <3>2, <2>4
      <3> QED
        BY <1>2, <2>5, <3>2, <3>3
    <2>6. CASE n = 2
      <3>1. s.op = "drop" /\ s.name = V
        BY <1>2, <2>1, <2>6, FieldsAre
      <3>2. Legal(d, s) /\ Dropping(s)
        BY <3>1, LegalIs DEF Dropping
      <3>3. Effect(d, s).zones = d.zones /\ DOMAIN Effect(d, s).tables = DOMAIN d.tables \ {s.name}
        BY <1>1, <3>2, DropDoes
      <3>4. ViewAt(3, Effect(d, s))
        BY <2>3, <2>4, <2>6, <3>1, <3>3
      <3> QED
        BY <1>2, <2>6, <3>2, <3>4
    <2>7. CASE n = 3
      <3>1. s.op = "mount" /\ s.name = V /\ s.from = <<>>
        BY <1>2, <2>1, <2>7, FieldsAre
      <3>2. V[1] \in d.zones /\ V \notin DOMAIN d.tables
        BY <2>2, <2>3, <2>4, <2>7
      <3>3. Legal(d, s)
        BY <3>1, <3>2, LegalIs
      <3> QED
        BY <1>2, <2>1, <2>7, <3>3
    <2> QED
      BY <2>3, <2>5, <2>6, <2>7
  <1> QED
    BY <1>3, <1>4 DEF Engines

(* Every statement of a setup keeps the database good.                     *)
LEMMA SetupGood ==
  ASSUME NEW e \in Engines, NEW w \in Workloads, NEW k \in 1 .. Len(Setup(e, w)),
         NEW n \in 1 .. Len(Setup(e, w)[k]), NEW d, Good(e, d), Legal(d, Setup(e, w)[k][n])
  PROVE  Good(e, Effect(d, Setup(e, w)[k][n]))
  <1>1. Sound(e, Setup(e, w)[k][n])
    BY SetupSound DEF StepsSound, AllSound
  <1> QED
    BY <1>1, GoodStays

(* The rest of the setup, workload by workload.                            *)
LEMMA LaterStepNext ==
  ASSUME NEW e \in Engines, NEW w \in Loading, NEW k \in 2 .. Len(Setup(e, w)),
         NEW n \in 1 .. Len(Setup(e, w)[k]), NEW d, Good(e, d), LoadedAt(e, w, d)
  PROVE  LET s == Setup(e, w)[k][n]
         IN  /\ Legal(d, s) \/ (e = "df" /\ w \in Unqualified)
             /\ Legal(d, s) => SetupStep(e, w, k, n, Effect(d, s))
  <1>1. w \in {"crud", "merge_cdc", "update_delete", "optimize"} /\ w # "parquet_view"
    BY DEF Loading
  <1>2. PICK s : s = Setup(e, w)[k][n]
    OBVIOUS
  <1>3. PICK new : new = Effect(d, s)
    OBVIOUS
  <1>4. \A i : LoadedAt(e, w, new) => Before(e, w, k, i, new) /\ Before(e, w, k + 1, i, new)
    BY <1>1 DEF Before
  <1>5. LoadedAt(e, w, new) => Later(e, w, new)
    BY DEF LoadedAt, Later
  <1>6. e = "spark" => Later(e, w, new)
    BY DEF Later
  <1>7. CASE w = "crud"
    <2>1. Len(Setup(e, "crud")) = 2 /\ Setup(e, "crud")[2] = Feed(e)
      BY SetupIs
    <2>2. k = 2
      <3>1. Len(Setup(e, w)) = 2
        BY <1>7, <2>1
      <3> QED
        BY <3>1
    <2>3. n \in 1 .. Len(Feed(e)) /\ s = Feed(e)[n]
      BY <1>2, <1>7, <2>1, <2>2
    <2>4. /\ Legal(d, s) /\ LoadedAt(e, "crud", new)
          /\ n = Len(Feed(e)) => Restored(e, "crud", new)
      BY <1>3, <1>7, <2>3, FeedNext
    <2>5. SetupStep(e, w, k, n, new)
      BY <1>4, <1>5, <1>7, <2>1, <2>2, <2>4 DEF SetupStep
    <2> QED
      BY <1>2, <1>3, <2>4, <2>5
  <1>8. CASE w = "merge_cdc"
    <2>1. Len(Setup(e, "merge_cdc")) = 2 /\ Len(Setup(e, "merge_cdc")[2]) = 1
          /\ Setup(e, "merge_cdc")[2][1] = From("cdc feed", Plain("cdc_changes"), Line)
      BY SetupIs
    <2>2. k = 2
      <3>1. Len(Setup(e, w)) = 2
        BY <1>8, <2>1
      <3> QED
        BY <3>1
    <2>3. n = 1
      <3>1. Len(Setup(e, w)[k]) = 1
        BY <1>8, <2>1, <2>2
      <3> QED
        BY <3>1
    <2>4. s = From("cdc feed", Plain("cdc_changes"), Line)
      BY <1>2, <1>8, <2>1, <2>2, <2>3
    <2>5. /\ e = "spark" => Legal(d, s)
          /\ Legal(d, s) => Restored(e, "merge_cdc", new) /\ e = "spark"
      BY <1>3, <1>8, <2>4, CdcNext
    <2>6. Legal(d, s) => SetupStep(e, w, k, n, new)
      <3>1. Len(Setup(e, w)) = 2 /\ Len(Setup(e, w)[2]) = 1
        BY <1>8, <2>1
      <3>2. Legal(d, s) => Restored(e, w, new) /\ Later(e, w, new)
        BY <1>6, <1>8, <2>5
      <3> QED
        BY <2>2, <2>3, <3>1, <3>2 DEF SetupStep
    <2>7. w \in Unqualified
      BY <1>8 DEF Unqualified
    <2> QED
      BY <1>2, <1>3, <2>5, <2>6, <2>7 DEF Engines
  <1>9. CASE w = "update_delete"
    <2>1. Len(Setup(e, w)) = 1
      BY <1>9, SetupIs
    <2> QED
      BY <2>1
  <1>10. CASE w = "optimize"
    <2>1. Len(Setup(e, "optimize")) = 9
      BY SetupIs
    <2>2. k \in 2 .. 9
      <3>1. Len(Setup(e, w)) = 9
        BY <1>10, <2>1
      <3> QED
        BY <3>1
    <2>3. Len(Setup(e, "optimize")[k]) = 1 /\ Setup(e, "optimize")[k][1] = S("append", Line)
      BY <2>2, SetupIs
    <2>4. n = 1
      <3>1. Len(Setup(e, w)[k]) = 1
        BY <1>10, <2>3
      <3> QED
        BY <3>1
    <2>5. s = S("append", Line)
      BY <1>2, <1>10, <2>3, <2>4
    <2>6. /\ e = "spark" => Legal(d, s)
          /\ Legal(d, s) => LoadedAt(e, "optimize", new) /\ e = "spark"
      BY <1>3, <1>10, <2>5, AppendNext
    <2>7. Restored(e, w, new)
      BY <1>10 DEF Restored, Loaded
    <2>8. Legal(d, s) => SetupStep(e, w, k, n, new)
      BY <1>4, <1>6, <1>10, <2>1, <2>2, <2>3, <2>4, <2>6, <2>7 DEF SetupStep
    <2>9. w \in Unqualified
      BY <1>10 DEF Unqualified
    <2> QED
      BY <1>2, <1>3, <2>6, <2>8, <2>9 DEF Engines
  <1> QED
    BY <1>1, <1>7, <1>8, <1>9, <1>10

(* Every statement of a setup is legal, but for those of DeltaForge on     *)
(* names it does not find, and leads on.                                   *)
LEMMA SetupNext ==
  ASSUME NEW e \in Engines, NEW w \in Workloads, NEW k \in 1 .. Len(Setup(e, w)),
         NEW n \in 1 .. Len(Setup(e, w)[k]), NEW d, Good(e, d), Before(e, w, k, n, d)
  PROVE  LET s == Setup(e, w)[k][n]
         IN  /\ Legal(d, s) \/ (e = "df" /\ w \in Unqualified)
             /\ Legal(d, s) => Good(e, Effect(d, s)) /\ SetupStep(e, w, k, n, Effect(d, s))
  <1>1. PICK s : s = Setup(e, w)[k][n]
    OBVIOUS
  <1>2. PICK new : new = Effect(d, s)
    OBVIOUS
  <1>3. Legal(d, s) => Good(e, new)
    BY <1>1, <1>2, SetupGood
  <1>4. CASE w \in Loading
    <2>1. CASE k = 1
      <3>1. Setup(e, w)[1] = Load(e, Of(w)) /\ (1 # Len(Setup(e, w)) \/ w = "update_delete")
        <4>1. w = "crud" => Len(Setup(e, w)) = 2 /\ Setup(e, w)[1] = Load(e, "orders")
          BY SetupIs
        <4>2. w = "merge_cdc" => Len(Setup(e, w)) = 2 /\ Setup(e, w)[1] = Load(e, "lineitem")
          BY SetupIs
        <4>3. w = "update_delete" => Setup(e, w)[1] = Load(e, "lineitem")
          BY SetupIs
        <4>4. w = "optimize" => Len(Setup(e, w)) = 9 /\ Setup(e, w)[1] = Load(e, "lineitem")
          BY SetupIs
        <4> QED
          BY <1>4, <4>1, <4>2, <4>3, <4>4 DEF Loading, Of
      <3>2. n \in 1 .. Len(Setup(e, w)[1]) /\ Before(e, w, 1, n, d) /\ s = Setup(e, w)[1][n]
        BY <1>1, <2>1
      <3>3. Legal(d, s) /\ SetupStep(e, w, 1, n, new)
        BY <1>2, <1>4, <3>1, <3>2, FirstStepNext
      <3> QED
        BY <1>1, <1>2, <1>3, <2>1, <3>3
    <2>2. CASE k # 1
      <3>1. k \in 2 .. Len(Setup(e, w)) /\ LoadedAt(e, w, d)
        BY <1>4, <2>2 DEF Before
      <3>2. /\ Legal(d, s) \/ (e = "df" /\ w \in Unqualified)
            /\ Legal(d, s) => SetupStep(e, w, k, n, new)
        BY <1>1, <1>2, <1>4, <3>1, LaterStepNext
      <3> QED
        BY <1>1, <1>2, <1>3, <3>2
    <2> QED
      BY <2>1, <2>2
  <1>5. CASE w \notin Loading
    <2>1. Restored(e, w, new) /\ Later(e, w, new)
      BY <1>5 DEF Restored, Loaded, Later, Loading
    <2>2. w \in {"synthetic", "parquet_view", "csv_to_delta"}
      BY <1>5, WorkloadsAre DEF Loading
    <2>3. CASE w = "synthetic"
      <3>1. Len(Setup(e, "synthetic")) = 1 /\ Len(Setup(e, "synthetic")[1]) = 1
            /\ Setup(e, "synthetic")[1][1] = S(IF e = "df" THEN "zone" ELSE "nothing", Synth(e))
        BY SetupIs
      <3>2. k = 1
        <4>1. Len(Setup(e, w)) = 1
          BY <2>3, <3>1
        <4> QED
          BY <4>1
      <3>3. n = 1
        <4>1. Len(Setup(e, w)[k]) = 1
          BY <2>3, <3>1, <3>2
        <4> QED
          BY <4>1
      <3>4. s.op \in {"zone", "nothing"}
        BY <1>1, <2>3, <3>1, <3>2, <3>3, FieldsAre
      <3>5. Legal(d, s)
        BY <3>4, LegalIs
      <3>6. SetupStep(e, w, k, n, new)
        BY <2>1, <2>3, <3>1, <3>2, <3>3 DEF SetupStep
      <3> QED
        BY <1>1, <1>2, <1>3, <3>5, <3>6
    <2>4. CASE w = "parquet_view"
      <3>1. Len(Setup(e, "parquet_view")) = 1 /\ Setup(e, "parquet_view")[1] = Mount(e)
        BY SetupIs
      <3>2. k = 1
        <4>1. Len(Setup(e, w)) = 1
          BY <2>4, <3>1
        <4> QED
          BY <4>1
      <3>3. n \in 1 .. Len(Mount(e)) /\ s = Mount(e)[n]
        BY <1>1, <2>4, <3>1, <3>2
      <3>4. e = "df" => ViewAt(n, d)
        BY <2>4 DEF Before
      <3>5. Legal(d, s) /\ (e = "df" /\ n < Len(Mount(e)) => ViewAt(n + 1, new))
        BY <1>2, <3>3, <3>4, MountNext
      <3>6. n < Len(Mount(e)) => Before(e, w, 1, n + 1, new)
        BY <1>5, <3>5 DEF Before
      <3>7. SetupStep(e, w, k, n, new)
        <4>1. Len(Setup(e, w)) = 1 /\ Setup(e, w)[1] = Mount(e)
          BY <2>4, <3>1
        <4>2. n < Len(Setup(e, w)[k]) => Before(e, w, k, n + 1, new)
          BY <3>2, <3>6, <4>1
        <4> QED
          BY <2>1, <3>2, <4>1, <4>2 DEF SetupStep
      <3> QED
        BY <1>1, <1>2, <1>3, <3>5, <3>7
    <2>5. CASE w = "csv_to_delta"
      <3>1. Len(Setup(e, w)) = 0
        BY <2>5, SetupIs
      <3> QED
        BY <3>1
    <2> QED
      BY <2>2, <2>3, <2>4, <2>5
  <1> QED
    BY <1>4, <1>5

(* Steps of one statement or more.                                         *)
Shape(steps) ==
  /\ Len(steps) \in Nat
  /\ \A k \in 1 .. Len(steps) : Len(steps[k]) \in Nat \ {0}

(* How many statements the steps of several statements have.               *)
LEMMA StepLengths ==
  ASSUME NEW e \in Engines
  PROVE  /\ \A t : Len(Load(e, t)) \in Nat \ {0}
         /\ Len(Feed(e)) \in Nat \ {0} /\ Len(Mount(e)) \in Nat \ {0}
         /\ Len(WriteSynth(e)) \in Nat \ {0} /\ Len(CtasFromParquet(e)) \in Nat \ {0}
  <1>1. CASE e = "df"
    <2>1. \A t : Len(Load(e, t)) = 8
      BY <1>1, LoadIs
    <2>2. Len(Feed(e)) = 2 /\ Len(Mount(e)) = 3 /\ Len(WriteSynth(e)) = 2 /\ Len(CtasFromParquet(e)) = 6
      BY <1>1, StepsAre, CtasIs
    <2> QED
      BY <2>1, <2>2
  <1>2. CASE e = "spark"
    <2>1. \A t : Len(Load(e, t)) = 1
      BY <1>2, LoadIs
    <2>2. Len(Feed(e)) = 1 /\ Len(Mount(e)) = 1 /\ Len(WriteSynth(e)) = 1 /\ Len(CtasFromParquet(e)) = 1
      BY <1>2, StepsAre, CtasIs
    <2> QED
      BY <2>1, <2>2
  <1> QED
    BY <1>1, <1>2 DEF Engines

(* Only csv_to_delta has no setup.                                         *)
LEMMA SetupShape ==
  ASSUME NEW e \in Engines, NEW w \in Workloads
  PROVE  /\ Shape(Setup(e, w))
         /\ Setup(e, w) # <<>> => Len(Setup(e, w)) # 0
         /\ Setup(e, w) = <<>> => w \notin Loading
  <1>1. 1 .. 2 = {1, 2} /\ 1 .. 9 = {1} \union 2 .. 9 /\ 1 .. 0 = {} /\ 1 .. 1 = {1}
    OBVIOUS
  <1>2. CASE w = "crud"
    <2>1. /\ Len(Setup(e, w)) = 2 /\ Setup(e, w)[1] = Load(e, "orders")
          /\ Setup(e, w)[2] = Feed(e)
      BY <1>2, SetupIs
    <2>2. Setup(e, w) # <<>>
      BY <2>1
    <2>3. \A k \in 1 .. 2 : Len(Setup(e, w)[k]) \in Nat \ {0}
      <3>1. Len(Setup(e, w)[1]) \in Nat \ {0}
        BY <2>1, StepLengths
      <3>2. ASSUME NEW k \in 1 .. 2, k # 1 PROVE Len(Setup(e, w)[k]) \in Nat \ {0}
        <4>1. k = 2
          BY <3>2
        <4> QED
          BY <2>1, <4>1, StepLengths
      <3> QED
        BY <3>1, <3>2
    <2> QED
      BY <2>1, <2>2, <2>3 DEF Shape
  <1>3. CASE w = "merge_cdc"
    <2>1. /\ Len(Setup(e, w)) = 2 /\ Setup(e, w)[1] = Load(e, "lineitem")
          /\ Len(Setup(e, w)[2]) = 1
      BY <1>3, SetupIs
    <2>2. Setup(e, w) # <<>>
      BY <2>1
    <2>3. \A k \in 1 .. 2 : Len(Setup(e, w)[k]) \in Nat \ {0}
      <3>1. Len(Setup(e, w)[1]) \in Nat \ {0}
        BY <2>1, StepLengths
      <3>2. ASSUME NEW k \in 1 .. 2, k # 1 PROVE Len(Setup(e, w)[k]) \in Nat \ {0}
        <4>1. k = 2
          BY <3>2
        <4> QED
          BY <2>1, <4>1, StepLengths
      <3> QED
        BY <3>1, <3>2
    <2> QED
      BY <2>1, <2>2, <2>3 DEF Shape
  <1>4. CASE w = "update_delete"
    <2>1. Len(Setup(e, w)) = 1 /\ Setup(e, w)[1] = Load(e, "lineitem")
      BY <1>4, SetupIs
    <2>2. Setup(e, w) # <<>>
      BY <2>1
    <2> QED
      BY <1>1, <2>1, <2>2, StepLengths DEF Shape
  <1>5. CASE w = "optimize"
    <2>1. /\ Len(Setup(e, w)) = 9 /\ Setup(e, w)[1] = Load(e, "lineitem")
          /\ \A n \in 2 .. 9 : Len(Setup(e, w)[n]) = 1
      BY <1>5, SetupIs
    <2>2. Setup(e, w) # <<>>
      BY <2>1
    <2>3. \A k \in 1 .. 9 : Len(Setup(e, w)[k]) \in Nat \ {0}
      <3>1. Len(Setup(e, w)[1]) \in Nat \ {0}
        BY <2>1, StepLengths
      <3>2. ASSUME NEW k \in 1 .. 9, k # 1 PROVE Len(Setup(e, w)[k]) \in Nat \ {0}
        <4>1. k \in 2 .. 9
          BY <3>2
        <4>2. Len(Setup(e, w)[k]) = 1
          BY <2>1, <4>1
        <4> QED
          BY <4>2
      <3> QED
        BY <3>1, <3>2
    <2> QED
      BY <2>1, <2>2, <2>3 DEF Shape
  <1>6. CASE w = "synthetic"
    <2>1. Len(Setup(e, w)) = 1 /\ Len(Setup(e, w)[1]) = 1
      BY <1>6, SetupIs
    <2>2. Setup(e, w) # <<>>
      BY <2>1
    <2> QED
      BY <1>1, <1>6, <2>1, <2>2 DEF Shape, Loading
  <1>7. CASE w = "parquet_view"
    <2>1. Len(Setup(e, w)) = 1 /\ Setup(e, w)[1] = Mount(e)
      BY <1>7, SetupIs
    <2>2. Setup(e, w) # <<>>
      BY <2>1
    <2> QED
      BY <1>1, <1>7, <2>1, <2>2, StepLengths DEF Shape, Loading
  <1>8. CASE w = "csv_to_delta"
    <2>1. Len(Setup(e, w)) = 0 /\ Setup(e, w) = <<>>
      BY <1>8, SetupIs
    <2> QED
      BY <1>1, <1>8, <2>1 DEF Shape, Loading
  <1> QED
    BY <1>2, <1>3, <1>4, <1>5, <1>6, <1>7, <1>8, WorkloadsAre

(* A statement that mounts no file.                                        *)
NoMount(s) == s.op # "mount"

(* Every workload measures something; those that load measure single       *)
(* statements, of which none mounts a view.                                *)
LEMMA MeasuredShape ==
  ASSUME NEW e \in Engines, NEW w \in Workloads
  PROVE  /\ Shape(Measured(e, w)) /\ Len(Measured(e, w)) # 0
         /\ w \in Loading =>
              \A k \in 1 .. Len(Measured(e, w)) :
                Len(Measured(e, w)[k]) = 1 /\ NoMount(Measured(e, w)[k][1])
  <1> DEFINE M == Measured(e, w)
  <1>1. 1 .. 1 = {1} /\ 1 .. 4 = {1, 2, 3, 4} /\ 1 .. 5 = 1 .. 3 \union 4 .. 5
    OBVIOUS
  <1>2. /\ \A n : /\ NoMount(S("insert", n)) /\ NoMount(S("update", n)) /\ NoMount(S("delete", n))
                   /\ NoMount(S("optimize", n))
        /\ \A n, f : NoMount(From("merge", n, f)) /\ NoMount(From("cdc merge", n, f))
        /\ \A n, p : NoMount(Dml("update %", n, p)) /\ NoMount(Dml("delete %", n, p))
    BY DEF S, From, Dml, NoMount
  <1>3. CASE w = "crud"
    <2>1. Len(M) = 4 /\ \A k \in 1 .. 4 : Len(M[k]) = 1
      BY <1>3, MeasuredIs
    <2>2. NoMount(M[1][1]) /\ NoMount(M[2][1]) /\ NoMount(M[3][1]) /\ NoMount(M[4][1])
      <3>1. /\ M[1][1] = S("insert", Name(e, "orders")) /\ M[2][1] = S("update", Name(e, "orders"))
            /\ M[3][1] = S("delete", Name(e, "orders"))
            /\ M[4][1] = From("merge", Name(e, "orders"), Name(e, "cdc_feed"))
        BY <1>3, MeasuredIs
      <3> HIDE DEF M
      <3> QED
        BY ONLY <1>2, <3>1
    <2> HIDE DEF M
    <2> QED
      BY <1>1, <2>1, <2>2 DEF Shape, M
  <1>4. CASE w \in {"merge_cdc", "optimize"}
    <2>1. Len(M) = 1 /\ Len(M[1]) = 1
      BY <1>4, MeasuredIs
    <2>2. NoMount(M[1][1])
      <3>1. \/ M[1][1] = From("cdc merge", Line, Plain("cdc_changes"))
            \/ M[1][1] = S("optimize", Line)
        BY <1>4, MeasuredIs
      <3> HIDE DEF M
      <3> QED
        BY ONLY <1>2, <3>1
    <2> HIDE DEF M
    <2> QED
      BY <1>1, <2>1, <2>2 DEF Shape, M
  <1>5. CASE w = "update_delete"
    <2>1. Len(M) = 5 /\ \A k \in 1 .. 5 : Len(M[k]) = 1
      BY <1>5, MeasuredIs
    <2>2. \A k \in 1 .. 3 : \E pct : M[k][1] = Dml("update %", Line, pct)
      BY <1>5, MeasuredIs
    <2>3. \A k \in 4 .. 5 : \E pct : M[k][1] = Dml("delete %", Line, pct)
      BY <1>5, MeasuredIs
    <2> HIDE DEF M
    <2>4. \A k \in 1 .. 5 : NoMount(M[k][1])
      <3>1. ASSUME NEW k \in 1 .. 3 PROVE NoMount(M[k][1])
        <4>1. PICK pct : M[k][1] = Dml("update %", Line, pct)
          BY <2>2
        <4> QED
          BY ONLY <1>2, <4>1
      <3>2. ASSUME NEW k \in 4 .. 5 PROVE NoMount(M[k][1])
        <4>1. PICK pct : M[k][1] = Dml("delete %", Line, pct)
          BY <2>3
        <4> QED
          BY ONLY <1>2, <4>1
      <3> QED
        BY <1>1, <3>1, <3>2
    <2> QED
      BY <2>1, <2>4 DEF Shape, M
  <1>6. CASE w = "parquet_view"
    <2>1. Len(M) = 1 /\ Len(M[1]) = 1
      BY <1>6, MeasuredIs
    <2> QED
      BY <1>1, <1>6, <2>1 DEF Shape, Loading
  <1>7. CASE w = "synthetic"
    <2>1. Len(M) = 1 /\ M[1] = WriteSynth(e)
      BY <1>7, MeasuredIs
    <2> QED
      BY <1>1, <1>7, <2>1, StepLengths DEF Shape, Loading
  <1>8. CASE w = "csv_to_delta"
    <2>1. Len(M) = 1 /\ M[1] = CtasFromParquet(e)
      BY <1>8, MeasuredIs
    <2> QED
      BY <1>1, <1>8, <2>1, StepLengths DEF Shape, Loading
  <1> QED
    BY <1>3, <1>4, <1>5, <1>6, <1>7, <1>8, WorkloadsAre

(* Every workload cleans up.                                               *)
LEMMA CleanUpShape ==
  ASSUME NEW e \in Engines, NEW w \in Workloads
  PROVE  Shape(CleanUp(e, w)) /\ Len(CleanUp(e, w)) # 0
  <1> DEFINE C == CleanUp(e, w)
  <1>1. 1 .. 1 = {1} /\ 1 .. 2 = {1, 2}
    OBVIOUS
  <1>2. CASE w \in {"crud", "merge_cdc"}
    <2>1. Len(C) = 2 /\ Len(C[1]) = 1 /\ Len(C[2]) = 1
      BY <1>2, CleanUpIs
    <2> HIDE DEF C
    <2> QED
      BY <1>1, <2>1 DEF Shape, C
  <1>3. CASE w \in {"update_delete", "optimize", "synthetic", "parquet_view"}
    <2>1. Len(C) = 1 /\ Len(C[1]) = 1
      BY <1>3, CleanUpIs
    <2> HIDE DEF C
    <2> QED
      BY <1>1, <2>1 DEF Shape, C
  <1>4. CASE w = "csv_to_delta"
    <2>1. Len(C) = 1 /\ Len(C[1]) \in {1, 2}
      BY <1>4, CleanUpIs DEF Engines
    <2> HIDE DEF C
    <2> QED
      BY <1>1, <2>1 DEF Shape, C
  <1> QED
    BY <1>2, <1>3, <1>4, WorkloadsAre

-----------------------------------------------------------------------------
(***************************************************************************)
(* The names a workload uses, and what becomes of them                     *)
(***************************************************************************)

(* A name that the cleanup drops.                                          *)
Cleaned(e, w, m) ==
  \E k \in 1 .. Len(CleanUp(e, w)) : \E n \in 1 .. Len(CleanUp(e, w)[k]) : CleanUp(e, w)[k][n].name = m

(* A name that no table has once a workload is over: that of a zone, one   *)
(* that DeltaForge refuses, one that the load itself drops, one that the   *)
(* cleanup drops.                                                          *)
Gone(e, w, m) ==
  \/ m[2] = ""
  \/ e = "df" /\ m[1] = ""
  \/ e = "df" /\ w \in Loading /\ m = Stg(Of(w))
  \/ Cleaned(e, w, m)

(* What the cleanup drops.                                                 *)
LEMMA CleanedAre ==
  ASSUME NEW e \in Engines
  PROVE  /\ Cleaned(e, "crud", Name(e, "orders")) /\ Cleaned(e, "crud", Name(e, "cdc_feed"))
         /\ Cleaned(e, "merge_cdc", Name(e, "lineitem")) /\ Cleaned(e, "merge_cdc", Plain("cdc_changes"))
         /\ \A w \in {"update_delete", "optimize"} : Cleaned(e, w, Name(e, "lineitem"))
         /\ Cleaned(e, "synthetic", Synth(e)) /\ Cleaned(e, "parquet_view", View(e))
         /\ Cleaned(e, "csv_to_delta", Out(e))
         /\ e = "df" => Cleaned(e, "csv_to_delta", CsvSrc)
  <1>1. ASSUME NEW w, NEW k \in 1 .. Len(CleanUp(e, w)), NEW n \in 1 .. Len(CleanUp(e, w)[k]),
               NEW m, CleanUp(e, w)[k][n] = S("drop", m)
        PROVE  Cleaned(e, w, m)
    BY <1>1, FieldsAre DEF Cleaned
  <1>2. Cleaned(e, "crud", Name(e, "orders")) /\ Cleaned(e, "crud", Name(e, "cdc_feed"))
    BY <1>1, CleanUpIs
  <1>3. Cleaned(e, "merge_cdc", Name(e, "lineitem")) /\ Cleaned(e, "merge_cdc", Plain("cdc_changes"))
    BY <1>1, CleanUpIs
  <1>4. \A w \in {"update_delete", "optimize"} : Cleaned(e, w, Name(e, "lineitem"))
    BY <1>1, CleanUpIs
  <1>5. Cleaned(e, "synthetic", Synth(e)) /\ Cleaned(e, "parquet_view", View(e))
    BY <1>1, CleanUpIs
  <1>6. Cleaned(e, "csv_to_delta", Out(e)) /\ (e = "df" => Cleaned(e, "csv_to_delta", CsvSrc))
    <2>1. CASE e = "df"
      <3>1. Len(CleanUp(e, "csv_to_delta")) = 1 /\ Len(CleanUp(e, "csv_to_delta")[1]) = 2
            /\ CleanUp(e, "csv_to_delta")[1][1] = S("drop", Out(e))
            /\ CleanUp(e, "csv_to_delta")[1][2] = S("drop", CsvSrc)
        BY <2>1, CleanUpIs
      <3> QED
        BY <1>1, <3>1
    <2>2. CASE e = "spark"
      <3>1. Len(CleanUp(e, "csv_to_delta")) = 1 /\ Len(CleanUp(e, "csv_to_delta")[1]) = 1
            /\ CleanUp(e, "csv_to_delta")[1][1] = S("drop", Out(e))
        BY <2>2, CleanUpIs
      <3> QED
        BY <1>1, <2>2, <3>1
    <2> QED
      BY <2>1, <2>2 DEF Engines
  <1> QED
    BY <1>2, <1>3, <1>4, <1>5, <1>6

(* A statement that names such a table or zone.                            *)
Passing(e, w, s) == Gone(e, w, s.name)
AllPassing(e, w, script) == \A n \in 1 .. Len(script) : Passing(e, w, script[n])

(* What names such a table or zone is such a statement.                    *)
LEMMA StatementPasses ==
  ASSUME NEW e, NEW w, NEW m, Gone(e, w, m)
  PROVE  /\ \A op : Passing(e, w, S(op, m))
         /\ \A op, f : Passing(e, w, From(op, m, f))
         /\ \A op, pct : Passing(e, w, Dml(op, m, pct))
  BY DEF Passing, S, From, Dml

(* The names of a load.                                                    *)
LEMMA LoadNames ==
  ASSUME NEW e \in Engines, NEW w \in Loading, Cleaned(e, w, Name(e, Of(w))),
         NEW n \in 1 .. Len(Load(e, Of(w)))
  PROVE  Passing(e, w, Load(e, Of(w))[n])
  <1>1. CASE e = "df"
    <2> DEFINE D == Load(e, Of(w))
               T == Name(e, Of(w))
               G == Stg(Of(w))
    <2>1. /\ Len(D) = 8 /\ D[1] = BenchZone /\ D[2] = ExtZone
          /\ D[3] = S("drop", T) /\ D[4] = S("create", T) /\ D[5] = S("drop", G)
          /\ D[6] = S("mount", G) /\ D[7] = From("append", T, G) /\ D[8] = S("drop it", G)
      BY <1>1, LoadIs
    <2>2. BenchZone.name[2] = "" /\ ExtZone.name[2] = ""
      BY DEF BenchZone, ExtZone, S
    <2>3. Gone(e, w, T) /\ Gone(e, w, G) /\ Gone(e, w, BenchZone.name) /\ Gone(e, w, ExtZone.name)
      BY <1>1, <2>2 DEF Gone
    <2> HIDE DEF D, T, G
    <2>4. n \in {1, 2, 3, 4, 5, 6, 7, 8}
      <3>1. Len(D) = 8
        BY <2>1
      <3>2. n \in 1 .. 8
        BY <3>1 DEF D
      <3> QED
        BY <3>2
    <2>5. \A k \in {1, 2, 3, 4, 5, 6, 7, 8} : Passing(e, w, D[k])
      <3>1. /\ Passing(e, w, BenchZone) /\ Passing(e, w, ExtZone)
            /\ Passing(e, w, S("drop", T)) /\ Passing(e, w, S("create", T)) /\ Passing(e, w, S("drop", G))
            /\ Passing(e, w, S("mount", G)) /\ Passing(e, w, From("append", T, G))
            /\ Passing(e, w, S("drop it", G))
        BY <2>3, StatementPasses DEF Passing
      <3> QED
        BY ONLY <2>1, <3>1
    <2> QED
      BY <2>4, <2>5 DEF D
  <1>2. CASE e = "spark"
    <2>1. Len(Load(e, Of(w))) = 1 /\ Load(e, Of(w))[1] = S("replace", Name(e, Of(w)))
      BY <1>2, LoadIs
    <2>2. n = 1
      <3>1. Len(Load(e, Of(w))) = 1
        BY <2>1
      <3>2. n \in 1 .. 1
        BY <3>1
      <3> QED
        BY <3>2
    <2>3. Gone(e, w, Name(e, Of(w)))
      BY DEF Gone
    <2> QED
      BY <2>1, <2>2, <2>3, StatementPasses
  <1> QED
    BY <1>1, <1>2 DEF Engines

(* The other steps of several statements.                                  *)
LEMMA StepNames ==
  ASSUME NEW e \in Engines
  PROVE  /\ AllPassing(e, "crud", Feed(e)) /\ AllPassing(e, "parquet_view", Mount(e))
         /\ AllPassing(e, "synthetic", WriteSynth(e)) /\ AllPassing(e, "csv_to_delta", CtasFromParquet(e))
  <1>1. 1 .. 1 = {1} /\ 1 .. 2 = {1, 2} /\ 1 .. 3 = {1, 2, 3} /\ 1 .. 6 = {1, 2, 3, 4, 5, 6}
    OBVIOUS
  <1>2. /\ Gone(e, "crud", Name(e, "cdc_feed")) /\ Gone(e, "parquet_view", View(e))
        /\ Gone(e, "synthetic", Synth(e)) /\ Gone(e, "csv_to_delta", Out(e))
        /\ e = "df" => Gone(e, "csv_to_delta", CsvSrc)
    BY CleanedAre DEF Gone
  <1>3. CASE e = "df"
    <2>1. AllPassing(e, "crud", Feed(e))
      <3>1. /\ Len(Feed(e)) = 2 /\ Feed(e)[1] = S("drop", Name(e, "cdc_feed"))
            /\ Feed(e)[2] = From("crud feed", Name(e, "cdc_feed"), Name(e, "orders"))
        BY <1>3, StepsAre
      <3>2. /\ Passing(e, "crud", S("drop", Name(e, "cdc_feed")))
            /\ Passing(e, "crud", From("crud feed", Name(e, "cdc_feed"), Name(e, "orders")))
        <4>1. Gone(e, "crud", Name(e, "cdc_feed"))
          BY <1>2
        <4> QED
          BY ONLY <4>1, StatementPasses
      <3> QED
        BY <1>1, <3>1, <3>2 DEF AllPassing
    <2>2. AllPassing(e, "parquet_view", Mount(e))
      <3>1. /\ Len(Mount(e)) = 3 /\ Mount(e)[1] = S("zone", View(e))
            /\ Mount(e)[2] = S("drop", View(e)) /\ Mount(e)[3] = S("mount", View(e))
        BY <1>3, StepsAre
      <3> QED
        BY <1>1, <1>2, <3>1, StatementPasses DEF AllPassing
    <2>3. AllPassing(e, "synthetic", WriteSynth(e))
      <3>1. /\ Len(WriteSynth(e)) = 2 /\ WriteSynth(e)[1] = S("drop", Synth(e))
            /\ WriteSynth(e)[2] = S("ctas", Synth(e))
        BY <1>3, StepsAre
      <3> QED
        BY <1>1, <1>2, <3>1, StatementPasses DEF AllPassing
    <2>4. AllPassing(e, "csv_to_delta", CtasFromParquet(e))
      BY <1>1, <1>2, <1>3, CtasIs, StatementPasses DEF AllPassing
    <2> QED
      BY <2>1, <2>2, <2>3, <2>4
  <1>4. CASE e = "spark"
    <2>1. AllPassing(e, "crud", Feed(e))
      <3>1. /\ Len(Feed(e)) = 1
            /\ Feed(e)[1] = From("crud feed", Name(e, "cdc_feed"), Name(e, "orders"))
        BY <1>4, StepsAre
      <3>2. /\ Passing(e, "crud", S("drop", Name(e, "cdc_feed")))
            /\ Passing(e, "crud", From("crud feed", Name(e, "cdc_feed"), Name(e, "orders")))
        <4>1. Gone(e, "crud", Name(e, "cdc_feed"))
          BY <1>2
        <4> QED
          BY ONLY <4>1, StatementPasses
      <3> QED
        BY <1>1, <3>1, <3>2 DEF AllPassing
    <2>2. AllPassing(e, "parquet_view", Mount(e))
      <3>1. Len(Mount(e)) = 1 /\ Mount(e)[1] = S("replace", View(e))
        BY <1>4, StepsAre
      <3> QED
        BY <1>1, <1>2, <3>1, StatementPasses DEF AllPassing
    <2>3. AllPassing(e, "synthetic", WriteSynth(e))
      <3>1. Len(WriteSynth(e)) = 1 /\ WriteSynth(e)[1] = S("replace", Synth(e))
        BY <1>4, StepsAre
      <3> QED
        BY <1>1, <1>2, <3>1, StatementPasses DEF AllPassing
    <2>4. AllPassing(e, "csv_to_delta", CtasFromParquet(e))
      BY <1>1, <1>2, <1>4, CtasIs, StatementPasses DEF AllPassing
    <2> QED
      BY <2>1, <2>2, <2>3, <2>4
  <1> QED
    BY <1>3, <1>4 DEF Engines

(* The setup.                                                              *)
LEMMA SetupNames ==
  ASSUME NEW e \in Engines, NEW w \in Workloads
  PROVE  \A k \in 1 .. Len(Setup(e, w)) : AllPassing(e, w, Setup(e, w)[k])
  <1>1. 1 .. 1 = {1} /\ 1 .. 2 = {1, 2} /\ 1 .. 0 = {}
    OBVIOUS
  <1>2. ASSUME NEW x \in Loading, Cleaned(e, x, Name(e, Of(x)))
        PROVE  AllPassing(e, x, Load(e, Of(x)))
    BY <1>2, LoadNames DEF AllPassing
  <1>3. \A x, script : Len(script) = 1 /\ Passing(e, x, script[1]) => AllPassing(e, x, script)
    BY <1>1 DEF AllPassing
  <1>4. CASE w = "crud"
    <2>1. AllPassing(e, "crud", Load(e, "orders"))
      <3>1. "crud" \in Loading /\ Of("crud") = "orders"
        BY DEF Loading, Of
      <3> QED
        BY <1>2, <3>1, CleanedAre
    <2>2. /\ Len(Setup(e, w)) = 2 /\ Setup(e, w)[1] = Load(e, "orders")
          /\ Setup(e, w)[2] = Feed(e)
      BY <1>4, SetupIs
    <2> QED
      BY <1>1, <1>4, <2>1, <2>2, StepNames
  <1>5. ASSUME w \in {"merge_cdc", "update_delete", "optimize"}
        PROVE  AllPassing(e, w, Load(e, "lineitem"))
    <2>1. w \in Loading /\ Of(w) = "lineitem"
      BY <1>5 DEF Loading, Of
    <2>2. Cleaned(e, w, Name(e, "lineitem"))
      BY <1>5, CleanedAre
    <2> QED
      BY <1>2, <2>1, <2>2
  <1>6. CASE w = "merge_cdc"
    <2>1. /\ Len(Setup(e, w)) = 2 /\ Setup(e, w)[1] = Load(e, "lineitem")
          /\ Len(Setup(e, w)[2]) = 1
          /\ Setup(e, w)[2][1] = From("cdc feed", Plain("cdc_changes"), Line)
      BY <1>6, SetupIs
    <2>2. Gone(e, w, Plain("cdc_changes"))
      BY <1>6, CleanedAre DEF Gone
    <2>3. AllPassing(e, w, Setup(e, w)[2])
      <3>1. Passing(e, w, Setup(e, w)[2][1])
        BY <2>1, <2>2, StatementPasses
      <3> QED
        BY <1>3, <2>1, <3>1
    <2> QED
      BY <1>1, <1>5, <1>6, <2>1, <2>3
  <1>7. CASE w = "update_delete"
    <2>1. Len(Setup(e, w)) = 1 /\ Setup(e, w)[1] = Load(e, "lineitem")
      BY <1>7, SetupIs
    <2> QED
      BY <1>1, <1>5, <1>7, <2>1
  <1>8. CASE w = "optimize"
    <2>1. /\ Len(Setup(e, w)) = 9 /\ Setup(e, w)[1] = Load(e, "lineitem")
          /\ \A n \in 2 .. 9 : Len(Setup(e, w)[n]) = 1 /\ Setup(e, w)[n][1] = S("append", Line)
      BY <1>8, SetupIs
    <2>2. Gone(e, w, Line)
      <3>1. e = "spark" => Line = Name(e, "lineitem")
        BY DEF Line, Plain, Name
      <3>2. Line[1] = ""
        BY DEF Line, Plain
      <3> QED
        BY <1>8, <3>1, <3>2, CleanedAre DEF Gone, Engines
    <2>3. ASSUME NEW k \in 2 .. 9 PROVE AllPassing(e, w, Setup(e, w)[k])
      <3>1. Len(Setup(e, w)[k]) = 1 /\ Setup(e, w)[k][1] = S("append", Line)
        BY <2>1
      <3> QED
        BY <1>3, <2>2, <3>1, StatementPasses
    <2>4. 1 .. 9 = {1} \union 2 .. 9
      OBVIOUS
    <2> QED
      BY <1>5, <1>8, <2>1, <2>3, <2>4
  <1>9. CASE w = "synthetic"
    <2>1. Len(Setup(e, w)) = 1 /\ Len(Setup(e, w)[1]) = 1
          /\ Setup(e, w)[1][1] = S(IF e = "df" THEN "zone" ELSE "nothing", Synth(e))
      BY <1>9, SetupIs
    <2>2. Gone(e, w, Synth(e))
      BY <1>9, CleanedAre DEF Gone
    <2>3. AllPassing(e, w, Setup(e, w)[1])
      BY <1>3, <2>1, <2>2, StatementPasses
    <2> QED
      BY <1>1, <2>1, <2>3
  <1>10. CASE w = "parquet_view"
    <2>1. Len(Setup(e, w)) = 1 /\ Setup(e, w)[1] = Mount(e)
      BY <1>10, SetupIs
    <2> QED
      BY <1>1, <1>10, <2>1, StepNames
  <1>11. CASE w = "csv_to_delta"
    <2>1. Len(Setup(e, w)) = 0
      BY <1>11, SetupIs
    <2> QED
      BY <1>1, <2>1
  <1> QED
    BY <1>4, <1>6, <1>7, <1>8, <1>9, <1>10, <1>11, WorkloadsAre

(* The measured steps.                                                     *)
LEMMA MeasuredNames ==
  ASSUME NEW e \in Engines, NEW w \in Workloads
  PROVE  \A k \in 1 .. Len(Measured(e, w)) : AllPassing(e, w, Measured(e, w)[k])
  <1> DEFINE M == Measured(e, w)
  <1>1. 1 .. 1 = {1} /\ 1 .. 4 = {1, 2, 3, 4} /\ 1 .. 5 = 1 .. 3 \union 4 .. 5
    OBVIOUS
  <1>2. \A script : Len(script) = 1 /\ Passing(e, w, script[1]) => AllPassing(e, w, script)
    BY <1>1 DEF AllPassing
  <1>3. ASSUME w \in {"merge_cdc", "update_delete", "optimize"} PROVE Gone(e, w, Line)
    <2>1. e = "spark" => Line = Name(e, "lineitem")
      BY DEF Line, Plain, Name
    <2>2. Line[1] = ""
      BY DEF Line, Plain
    <2> QED
      BY <1>3, <2>1, <2>2, CleanedAre DEF Gone, Engines
  <1>4. CASE w = "crud"
    <2>1. Len(M) = 4 /\ \A k \in 1 .. 4 : Len(M[k]) = 1
      BY <1>4, MeasuredIs
    <2>2. Gone(e, w, Name(e, "orders"))
      BY <1>4, CleanedAre DEF Gone
    <2>3. /\ M[1][1] = S("insert", Name(e, "orders")) /\ M[2][1] = S("update", Name(e, "orders"))
          /\ M[3][1] = S("delete", Name(e, "orders"))
          /\ M[4][1] = From("merge", Name(e, "orders"), Name(e, "cdc_feed"))
      BY <1>4, MeasuredIs
    <2> HIDE DEF M
    <2>4. Passing(e, w, M[1][1]) /\ Passing(e, w, M[2][1]) /\ Passing(e, w, M[3][1]) /\ Passing(e, w, M[4][1])
      BY ONLY <2>2, <2>3, StatementPasses
    <2> QED
      BY <1>1, <1>2, <2>1, <2>4 DEF M
  <1>5. CASE w \in {"merge_cdc", "optimize"}
    <2>1. Len(M) = 1 /\ Len(M[1]) = 1
      BY <1>5, MeasuredIs
    <2>2. M[1][1] = From("cdc merge", Line, Plain("cdc_changes")) \/ M[1][1] = S("optimize", Line)
      BY <1>5, MeasuredIs
    <2>3. Gone(e, w, Line)
      BY <1>3, <1>5
    <2> HIDE DEF M
    <2>4. Passing(e, w, M[1][1])
      BY ONLY <2>2, <2>3, StatementPasses
    <2> QED
      BY <1>1, <1>2, <2>1, <2>4 DEF M
  <1>6. CASE w = "update_delete"
    <2>1. Len(M) = 5 /\ \A k \in 1 .. 5 : Len(M[k]) = 1
      BY <1>6, MeasuredIs
    <2>2. \A k \in 1 .. 3 : \E pct : M[k][1] = Dml("update %", Line, pct)
      BY <1>6, MeasuredIs
    <2>3. \A k \in 4 .. 5 : \E pct : M[k][1] = Dml("delete %", Line, pct)
      BY <1>6, MeasuredIs
    <2>4. Gone(e, w, Line)
      BY <1>3, <1>6
    <2> HIDE DEF M
    <2>5. ASSUME NEW k \in 1 .. 5 PROVE Passing(e, w, M[k][1])
      <3>1. \E op, pct : M[k][1] = Dml(op, Line, pct)
        BY <1>1, <2>2, <2>3
      <3>2. PICK op, pct : M[k][1] = Dml(op, Line, pct)
        BY <3>1
      <3> QED
        BY ONLY <2>4, <3>2, StatementPasses
    <2> QED
      BY <1>2, <2>1, <2>5 DEF M
  <1>7. CASE w = "synthetic"
    <2>1. Len(M) = 1 /\ M[1] = WriteSynth(e)
      BY <1>7, MeasuredIs
    <2> QED
      BY <1>1, <1>7, <2>1, StepNames
  <1>8. CASE w = "parquet_view"
    <2>1. Len(M) = 1 /\ Len(M[1]) = 1 /\ M[1][1] = S("select", View(e))
      BY <1>8, MeasuredIs
    <2>2. Gone(e, w, View(e))
      BY <1>8, CleanedAre DEF Gone
    <2> HIDE DEF M
    <2>3. Passing(e, w, M[1][1])
      BY <2>1, <2>2, StatementPasses
    <2> QED
      BY <1>1, <1>2, <2>1, <2>3 DEF M
  <1>9. CASE w = "csv_to_delta"
    <2>1. Len(M) = 1 /\ M[1] = CtasFromParquet(e)
      BY <1>9, MeasuredIs
    <2> QED
      BY <1>1, <1>9, <2>1, StepNames
  <1> QED
    BY <1>4, <1>5, <1>6, <1>7, <1>8, <1>9, WorkloadsAre

(* Every name a workload uses is gone once its cleanup dropped them all.   *)
LEMMA NothingUsed ==
  ASSUME NEW e \in Engines, NEW w \in Workloads, NEW d, Good(e, d), Later(e, w, d),
         \A m : Cleaned(e, w, m) => m \notin DOMAIN d.tables
  PROVE  UsedBy(e, w) \cap DOMAIN d.tables = {}
  <1>1. \A steps : (\A k \in 1 .. Len(steps) : AllPassing(e, w, steps[k])) =>
          \A m \in NamesIn(steps) : Gone(e, w, m)
    BY DEF NamesIn, AllPassing, Passing
  <1>2. \A m \in UsedBy(e, w) : Gone(e, w, m)
    BY <1>1, SetupNames, MeasuredNames DEF UsedBy
  <1>3. ASSUME NEW m, Gone(e, w, m) PROVE m \notin DOMAIN d.tables
    BY <1>3 DEF Gone, Good, Later
  <1> QED
    BY <1>2, <1>3

(* A cleanup from one statement to the next.                               *)
LEMMA DropNext ==
  ASSUME NEW e \in Engines, NEW w \in Workloads, NEW k \in 1 .. Len(CleanUp(e, w)),
         NEW n \in 1 .. Len(CleanUp(e, w)[k]), NEW d, Good(e, d), Dropped(e, w, k, n, d)
  PROVE  LET s == CleanUp(e, w)[k][n]
             new == Effect(d, s)
         IN  /\ Legal(d, s)
             /\ n < Len(CleanUp(e, w)[k]) => Dropped(e, w, k, n + 1, new)
             /\ n = Len(CleanUp(e, w)[k]) => Dropped(e, w, k + 1, 1, new)
             /\ n = Len(CleanUp(e, w)[k]) /\ k = Len(CleanUp(e, w)) =>
                  \A m : Cleaned(e, w, m) => m \notin DOMAIN new.tables
  <1> DEFINE C == CleanUp(e, w)
  <1>1. PICK s : s = C[k][n]
    OBVIOUS
  <1>2. PICK new : new = Effect(d, s)
    OBVIOUS
  <1>3. s.op = "drop"
    BY <1>1, CleanUpSound
  <1>4. Legal(d, s) /\ Dropping(s) /\ Database(d)
    BY <1>3, LegalIs DEF Dropping, Good
  <1>5. DOMAIN new.tables = DOMAIN d.tables \ {s.name}
    BY <1>2, <1>4, DropDoes
  <1>6. /\ Len(C) \in Nat /\ \A i \in 1 .. Len(C) : Len(C[i]) \in Nat
    BY CleanUpShape DEF Shape
  <1>7. \A i \in 1 .. Len(C) : \A j \in 1 .. Len(C[i]) :
          i < k \/ (i = k /\ j < n) => C[i][j].name \notin DOMAIN d.tables
    BY DEF Dropped
  <1> HIDE DEF C
  <1>8. k \in 1 .. Len(C) /\ n \in 1 .. Len(C[k])
    BY DEF C
  <1>9. ASSUME NEW i \in 1 .. Len(C), NEW j \in 1 .. Len(C[i]), i < k \/ (i = k /\ j <= n)
         PROVE  C[i][j].name \notin DOMAIN new.tables
    <2>1. i < k \/ (i = k /\ j < n) \/ (i = k /\ j = n)
      BY <1>6, <1>8, <1>9
    <2> QED
      BY <1>1, <1>5, <1>7, <2>1
  <1>10. Dropped(e, w, k, n + 1, new)
    <2>1. ASSUME NEW i \in 1 .. Len(C), NEW j \in 1 .. Len(C[i]), i < k \/ (i = k /\ j < n + 1)
          PROVE  C[i][j].name \notin DOMAIN new.tables
      <3>1. i < k \/ (i = k /\ j <= n)
        BY <1>6, <1>8, <2>1
      <3> QED
        BY <1>9, <3>1
    <2> QED
      BY <2>1 DEF Dropped, C
  <1>11. ASSUME n = Len(C[k])
         PROVE  \A i \in 1 .. Len(C) : \A j \in 1 .. Len(C[i]) : i <= k => C[i][j].name \notin DOMAIN new.tables
    <2> SUFFICES ASSUME NEW i \in 1 .. Len(C), NEW j \in 1 .. Len(C[i]), i <= k
                 PROVE  C[i][j].name \notin DOMAIN new.tables
      OBVIOUS
    <2>1. i < k \/ (i = k /\ j <= n)
      BY <1>6, <1>8, <1>11
    <2> QED
      BY <1>9, <2>1
  <1>12. ASSUME n = Len(C[k]) PROVE Dropped(e, w, k + 1, 1, new)
    <2>1. ASSUME NEW i \in 1 .. Len(C), NEW j \in 1 .. Len(C[i]), i < k + 1 \/ (i = k + 1 /\ j < 1)
          PROVE  C[i][j].name \notin DOMAIN new.tables
      <3>1. i <= k
        BY <1>6, <1>8, <2>1
      <3> QED
        BY <1>11, <1>12, <3>1
    <2> QED
      BY <2>1 DEF Dropped, C
  <1>13. ASSUME n = Len(C[k]), k = Len(C) PROVE \A m : Cleaned(e, w, m) => m \notin DOMAIN new.tables
    <2> SUFFICES ASSUME NEW m, Cleaned(e, w, m) PROVE m \notin DOMAIN new.tables
      OBVIOUS
    <2>1. PICK i \in 1 .. Len(C) : \E j \in 1 .. Len(C[i]) : C[i][j].name = m
      BY DEF Cleaned, C
    <2>2. PICK j \in 1 .. Len(C[i]) : C[i][j].name = m
      BY <2>1
    <2>3. i <= k
      BY <1>6, <1>13
    <2> QED
      BY <1>11, <1>13, <2>2, <2>3
  <1> QED
    BY <1>1, <1>2, <1>4, <1>10, <1>12, <1>13 DEF C

(* A sound statement that mounts nothing leaves no staging table.          *)
LEMMA LaterStays ==
  ASSUME NEW e, NEW w, NEW d, Database(d), Later(e, w, d), NEW s, Sound(e, s),
         w \in Loading => NoMount(s)
  PROVE  Later(e, w, Effect(d, s))
  <1> SUFFICES ASSUME w \in Loading, e = "df" PROVE Stg(Of(w)) \notin DOMAIN Effect(d, s).tables
    BY DEF Later
  <1>1. Stg(Of(w)) \notin DOMAIN d.tables /\ Stg(Of(w)) \in {Stg("orders"), Stg("lineitem")} /\ s.op # "mount"
    BY DEF Later, Of, NoMount
  <1>2. d = [zones |-> d.zones, tables |-> d.tables]
    BY DEF Database
  <1>3. CASE Writing(s)
    <2>1. s.name # Stg(Of(w))
      BY <1>1, <1>3 DEF Sound
    <2>2. DOMAIN Effect(d, s).tables = DOMAIN d.tables \union {s.name}
      BY <1>3, WriteDoes
    <2> QED
      BY <1>1, <2>1, <2>2
  <1>4. CASE s.op \in {"drop", "drop it"}
    <2>1. DOMAIN Effect(d, s).tables = DOMAIN d.tables \ {s.name}
      <3>1. Dropping(s)
        BY <1>4 DEF Dropping
      <3> QED
        BY <3>1, DropDoes
    <2> QED
      BY <1>1, <2>1
  <1>5. CASE s.op = "zone"
    <2>1. Effect(d, s).tables = d.tables
      BY <1>5, ZoneDoes
    <2> QED
      BY <1>1, <2>1
  <1>6. CASE s.op = "nothing"
    <2>1. Effect(d, s) = d
      BY <1>2, <1>6, EffectIs
    <2> QED
      BY <1>1, <2>1
  <1> QED
    BY <1>3, <1>4, <1>5, <1>6 DEF Writing

-----------------------------------------------------------------------------
(***************************************************************************)
(* The steps of the specification                                          *)
(***************************************************************************)

(* The place of a statement, and what the statement is.                    *)
LEMMA StatementIs ==
  ASSUME PlaceInv, phase # "idle"
  PROVE  /\ Steps(phase) = StepsOf(eng, wl, phase)
         /\ step \in 1 .. Len(StepsOf(eng, wl, phase))
         /\ Script = StepsOf(eng, wl, phase)[step] /\ stmt \in 1 .. Len(Script)
         /\ Statement = StepsOf(eng, wl, phase)[step][stmt]
         /\ phase = "setup" => StepsOf(eng, wl, phase) = Setup(eng, wl)
         /\ phase = "measure" => StepsOf(eng, wl, phase) = Measured(eng, wl)
         /\ phase = "cleanup" => StepsOf(eng, wl, phase) = CleanUp(eng, wl)
         /\ phase \in {"setup", "measure", "cleanup"}
  <1>1. phase \in {"setup", "measure", "cleanup"} /\ Place(eng, wl, phase, step, stmt)
    BY DEF PlaceInv
  <1>2. Steps(phase) = StepsOf(eng, wl, phase)
    <2>1. CASE phase = "setup"
      BY <2>1 DEF Steps, StepsOf
    <2>2. CASE phase = "measure"
      BY <2>2 DEF Steps, StepsOf
    <2>3. CASE phase = "cleanup"
      BY <2>3 DEF Steps, StepsOf
    <2> QED
      BY <1>1, <2>1, <2>2, <2>3
  <1>3. /\ phase = "setup" => StepsOf(eng, wl, phase) = Setup(eng, wl)
        /\ phase = "measure" => StepsOf(eng, wl, phase) = Measured(eng, wl)
        /\ phase = "cleanup" => StepsOf(eng, wl, phase) = CleanUp(eng, wl)
    BY DEF StepsOf
  <1> QED
    BY <1>1, <1>2, <1>3 DEF Script, Statement, Place

(* The steps of a phase; only a setup may have none.                       *)
LEMMA PhaseShape ==
  ASSUME NEW e \in Engines, NEW w \in Workloads, NEW p \in {"setup", "measure", "cleanup"}
  PROVE  /\ Len(StepsOf(e, w, p)) \in Nat
         /\ \A k \in 1 .. Len(StepsOf(e, w, p)) :
              Len(StepsOf(e, w, p)[k]) \in Nat \ {0} /\ Place(e, w, p, k, 1)
         /\ p # "setup" => Place(e, w, p, 1, 1)
  <1>1. Shape(StepsOf(e, w, p)) /\ (p # "setup" => Len(StepsOf(e, w, p)) # 0)
    <2>1. CASE p = "setup"
      BY <2>1, SetupShape DEF StepsOf
    <2>2. CASE p = "measure"
      BY <2>2, MeasuredShape DEF StepsOf
    <2>3. CASE p = "cleanup"
      BY <2>3, CleanUpShape DEF StepsOf
    <2> QED
      BY <2>1, <2>2, <2>3
  <1> QED
    BY <1>1 DEF Shape, Place

(* Where the end of a step leads.                                          *)
LEMMA StepOverLeads ==
  ASSUME PlaceInv, phase # "idle", StepOver, eng' = eng, wl' = wl
  PROVE  /\ phase' \in {"idle", "setup", "measure", "cleanup"}
         /\ phase' # "idle" => Place(eng', wl', phase', step', stmt')
         /\ rep' \in 1 .. Runs[wl'] /\ stmt' = 1
         /\ phase = "setup" =>
              \/ step < Len(Setup(eng, wl)) /\ phase' = "setup" /\ step' = step + 1
              \/ step = Len(Setup(eng, wl)) /\ phase' = "measure"
         /\ phase = "measure" =>
              \/ phase' = "measure" /\ ~(step' = 1 /\ rep' = 1)
              \/ phase' = "cleanup" /\ step' = 1
         /\ phase = "cleanup" =>
              \/ step < Len(CleanUp(eng, wl)) /\ phase' = "cleanup" /\ step' = step + 1
              \/ step = Len(CleanUp(eng, wl)) /\ phase' = "idle"
  <1> DEFINE L == Len(StepsOf(eng, wl, phase))
  <1>1. /\ phase \in {"setup", "measure", "cleanup"} /\ step \in 1 .. L
        /\ Len(Steps(phase)) = L
        /\ eng \in Engines /\ wl \in Workloads /\ rep \in 1 .. Runs[wl]
    BY StatementIs DEF PlaceInv
  <1>2. /\ phase = "setup" => L = Len(Setup(eng, wl))
        /\ phase = "cleanup" => L = Len(CleanUp(eng, wl))
    BY DEF StepsOf
  <1>3. Runs[wl] \in Nat \ {0}
    BY <1>1, WritesAssumption DEF WritesAssumption
  <1>4. L \in Nat /\ \A k \in 1 .. L : Place(eng, wl, phase, k, 1)
    BY <1>1, PhaseShape
  <1>5. Place(eng, wl, "measure", 1, 1) /\ Place(eng, wl, "cleanup", 1, 1)
    BY <1>1, PhaseShape
  <1> HIDE DEF L
  <1>6. CASE phase = "measure" /\ rep < Runs[wl]
    <2>1. phase' = "measure" /\ step' = step /\ rep' = rep + 1 /\ stmt' = 1
      BY <1>6 DEF StepOver, Goto
    <2>2. Place(eng', wl', phase', step', stmt')
      BY <1>1, <1>4, <1>6, <2>1
    <2>3. rep' \in 1 .. Runs[wl'] /\ rep' # 1
      BY <1>1, <1>3, <1>6, <2>1
    <2> QED
      BY <1>6, <2>1, <2>2, <2>3
  <1>7. CASE ~(phase = "measure" /\ rep < Runs[wl]) /\ step < L
    <2>1. phase' = phase /\ step' = step + 1 /\ rep' = 1 /\ stmt' = 1
      BY <1>1, <1>7 DEF StepOver, Goto
    <2>2. step + 1 \in 1 .. L /\ step' # 1
      BY <1>1, <1>4, <1>7, <2>1
    <2>3. Place(eng', wl', phase', step', stmt')
      BY <1>4, <2>1, <2>2
    <2>4. rep' \in 1 .. Runs[wl']
      BY <1>3, <2>1
    <2> QED
      BY <1>1, <1>2, <1>7, <2>1, <2>2, <2>3, <2>4
  <1>8. CASE ~(phase = "measure" /\ rep < Runs[wl]) /\ ~(step < L)
    <2>1. phase' = PhaseAfter[phase] /\ step' = 1 /\ rep' = 1 /\ stmt' = 1
      BY <1>1, <1>8 DEF StepOver, Goto
    <2>2. step = L
      BY <1>1, <1>4, <1>8
    <2>3. /\ phase = "setup" => phase' = "measure"
          /\ phase = "measure" => phase' = "cleanup"
          /\ phase = "cleanup" => phase' = "idle"
      BY <2>1 DEF PhaseAfter
    <2>4. rep' \in 1 .. Runs[wl']
      BY <1>3, <2>1
    <2> QED
      BY <1>1, <1>2, <1>5, <2>1, <2>2, <2>3, <2>4
  <1> QED
    BY <1>6, <1>7, <1>8

(* Before the first statement of a setup nothing is asked of the database. *)
LEMMA BeforeFirst ==
  ASSUME NEW e, NEW w, NEW d
  PROVE  Before(e, w, 1, 1, d)
  <1>1. \A t : LoadingAt(t, 1, d)
    BY LoadingAtIs
  <1>2. ViewAt(1, d)
    BY DEF ViewAt
  <1> QED
    BY <1>1, <1>2 DEF Before

(* The statement at hand is sound.                                         *)
LEMMA StatementSound ==
  ASSUME PlaceInv, phase # "idle"
  PROVE  Sound(eng, Statement) /\ (phase # "setup" /\ wl \in Loading => NoMount(Statement))
  <1>1. eng \in Engines /\ wl \in Workloads
    BY DEF PlaceInv
  <1>2. CASE phase = "setup"
    <2>1. /\ step \in 1 .. Len(Setup(eng, wl)) /\ stmt \in 1 .. Len(Setup(eng, wl)[step])
          /\ Statement = Setup(eng, wl)[step][stmt]
      BY <1>2, StatementIs
    <2> QED
      BY <1>1, <1>2, <2>1, SetupSound DEF StepsSound, AllSound
  <1>3. CASE phase = "measure"
    <2>1. /\ step \in 1 .. Len(Measured(eng, wl)) /\ stmt \in 1 .. Len(Measured(eng, wl)[step])
          /\ Statement = Measured(eng, wl)[step][stmt]
      BY <1>3, StatementIs
    <2>2. Sound(eng, Statement)
      BY <1>1, <2>1, MeasuredSound DEF StepsSound, AllSound
    <2>3. ASSUME wl \in Loading PROVE NoMount(Statement)
      <3>1. Len(Measured(eng, wl)[step]) = 1 /\ NoMount(Measured(eng, wl)[step][1])
        BY <1>1, <2>1, <2>3, MeasuredShape
      <3>2. stmt \in 1 .. 1
        BY <2>1, <3>1
      <3> QED
        BY <2>1, <3>1, <3>2
    <2> QED
      BY <2>2, <2>3
  <1>4. CASE phase = "cleanup"
    <2>1. /\ step \in 1 .. Len(CleanUp(eng, wl)) /\ stmt \in 1 .. Len(CleanUp(eng, wl)[step])
          /\ Statement = CleanUp(eng, wl)[step][stmt]
      BY <1>4, StatementIs
    <2>2. Sound(eng, Statement)
      BY <1>1, <2>1, CleanUpSound DEF StepsSound, AllSound
    <2>3. NoMount(Statement)
      BY <1>1, <2>1, CleanUpSound DEF NoMount
    <2> QED
      BY <2>2, <2>3
  <1> QED
    BY <1>2, <1>3, <1>4 DEF PlaceInv

(* What an executed statement leaves, in every phase.                      *)
LEMMA StatementKeeps ==
  ASSUME IInv, phase # "idle", Legal(db[eng], Statement)
  PROVE  /\ Good(eng, Effect(db[eng], Statement))
         /\ phase # "setup" /\ ~disturbed => Later(eng, wl, Effect(db[eng], Statement))
  <1>1. /\ eng \in Engines /\ wl \in Workloads /\ Good(eng, db[eng])
        /\ PlaceInv /\ LaterInv
    BY DEF IInv, PlaceInv, DbInv
  <1>2. Sound(eng, Statement) /\ (phase # "setup" /\ wl \in Loading => NoMount(Statement))
    BY <1>1, StatementSound
  <1>3. Good(eng, Effect(db[eng], Statement))
    BY <1>1, <1>2, GoodStays
  <1>4. ASSUME phase # "setup", ~disturbed PROVE Later(eng, wl, Effect(db[eng], Statement))
    <2>1. Database(db[eng]) /\ Later(eng, wl, db[eng])
      BY <1>1, <1>4 DEF LaterInv, Good, PlaceInv
    <2> QED
      BY <1>2, <1>4, <2>1, LaterStays
  <1> QED
    BY <1>3, <1>4

(* What DeltaForge is sent is what the scripts hold, all of it sound.      *)
LEMMA SentIs ==
  /\ \A s \in Sent : Sound("df", s)
  /\ PlaceInv /\ phase # "idle" /\ eng = "df" => Statement \in Sent
  <1>1. ASSUME NEW s \in Sent PROVE Sound("df", s)
    <2>1. PICK steps \in {Setup("df", w) : w \in Workloads} \cup
                        {Measured("df", w) : w \in Workloads} \cup
                        {CleanUp("df", w) : w \in Workloads} :
            \E k \in 1 .. Len(steps) : \E n \in 1 .. Len(steps[k]) : s = steps[k][n]
      BY <1>1 DEF Sent
    <2>2. "df" \in Engines
      BY DEF Engines
    <2>3. StepsSound("df", steps)
      BY <2>1, <2>2, SetupSound, MeasuredSound, CleanUpSound
    <2> QED
      BY <2>1, <2>3 DEF StepsSound, AllSound
  <1>2. ASSUME PlaceInv, phase # "idle", eng = "df" PROVE Statement \in Sent
    <2>1. wl \in Workloads
      BY <1>2 DEF PlaceInv
    <2>2. PICK steps : steps = StepsOf(eng, wl, phase)
      OBVIOUS
    <2>3. steps \in {Setup("df", w) : w \in Workloads} \cup
                    {Measured("df", w) : w \in Workloads} \cup
                    {CleanUp("df", w) : w \in Workloads}
      BY <1>2, <2>1, <2>2, StatementIs
    <2>4. step \in 1 .. Len(steps) /\ stmt \in 1 .. Len(steps[step]) /\ Statement = steps[step][stmt]
      BY <1>2, <2>2, StatementIs
    <2> QED
      BY <2>3, <2>4 DEF Sent
  <1> QED
    BY <1>1, <1>2

(* A statement that is abandoned was the one at hand.                      *)
LEMMA AbandonKeeps ==
  ASSUME IInv, phase # "idle", Abandon
  PROVE  inflight' \subseteq Sent
  <1>1. PlaceInv /\ inflight \subseteq Sent
    BY DEF IInv, KindsInv
  <1>2. inflight' = inflight \/ (eng = "df" /\ inflight' = inflight \cup {Statement})
    BY DEF Abandon
  <1> QED
    BY <1>1, <1>2, SentIs

(* Init establishes the invariant.                                         *)
LEMMA InitKeeps ==
  ASSUME Init
  PROVE  IInv
  <1>1. DbInv
    <2> DEFINE d == [zones |-> {""}, tables |-> <<>>]
    <2>1. Database(d)
      <3>1. DOMAIN d.tables = {} /\ d.zones = {""} /\ d = [zones |-> d.zones, tables |-> d.tables]
        OBVIOUS
      <3> HIDE DEF d
      <3> QED
        BY <3>1 DEF Database, Zones
    <2>2. DOMAIN d.tables = {}
      OBVIOUS
    <2>3. db = [e \in Engines |-> d]
      BY DEF Init
    <2> HIDE DEF d
    <2>4. \A e \in Engines : Good(e, d)
      BY <2>1, <2>2 DEF Good
    <2> QED
      BY <2>3, <2>4 DEF DbInv
  <1>2. PlaceInv
    <2>1. eng = "df" /\ wl \in Workloads /\ phase = "idle" /\ rep = 1
      BY DEF Init
    <2>2. Runs[wl] \in Nat \ {0}
      BY <2>1, WritesAssumption DEF WritesAssumption
    <2>3. rep \in 1 .. Runs[wl]
      BY <2>1, <2>2
    <2> QED
      BY <2>1, <2>3 DEF PlaceInv, Engines
  <1>3. KindsInv
    <2>1. /\ outcome = "none" /\ sessions = 0 /\ clean = TRUE /\ DOMAIN final = {}
          /\ inflight = {} /\ disturbed = FALSE
      <3>1. /\ outcome = "none" /\ sessions = 0 /\ clean = TRUE /\ final = <<>>
            /\ inflight = {} /\ disturbed = FALSE
        BY DEF Init
      <3>2. DOMAIN <<>> = {}
        OBVIOUS
      <3> QED
        BY <3>1, <3>2
    <2>2. MaxSessions \in Nat
      BY WritesAssumption DEF WritesAssumption
    <2>3. sessions \in 0 .. MaxSessions
      BY <2>1, <2>2
    <2> QED
      BY <2>1, <2>3 DEF KindsInv
  <1>4. SetupInv /\ StartInv /\ LaterInv /\ CleanInv /\ LeavesNothing
    BY DEF Init, SetupInv, StartInv, LaterInv, CleanInv, LeavesNothing
  <1> QED
    BY <1>1, <1>2, <1>3, <1>4 DEF IInv

(* The beginning of a workload.                                            *)
LEMMA BeginKeeps ==
  ASSUME IInv, NEW e \in Engines, NEW w \in Workloads, Begin(e, w)
  PROVE  IInv'
  <1>1. DbInv'
    BY DEF IInv, DbInv, Begin
  <1>2. /\ eng' = e /\ wl' = w /\ outcome' = "none" /\ step' = 1 /\ stmt' = 1 /\ rep' = 1
        /\ phase' = (IF Setup(e, w) = <<>> THEN "measure" ELSE "setup")
    BY DEF Begin, Goto
  <1>3. PlaceInv'
    <2>1. Place(e, w, phase', 1, 1)
      <3>1. CASE Setup(e, w) = <<>>
        BY <1>2, <3>1, PhaseShape
      <3>2. CASE Setup(e, w) # <<>>
        <4>1. Len(Setup(e, w)) # 0 /\ StepsOf(e, w, "setup") = Setup(e, w)
          BY <3>2, SetupShape DEF StepsOf
        <4>2. Len(StepsOf(e, w, "setup")) \in Nat \ {0}
          BY <4>1, PhaseShape
        <4>3. Place(e, w, "setup", 1, 1)
          BY <4>2, PhaseShape
        <4> QED
          BY <1>2, <3>2, <4>3
      <3> QED
        BY <3>1, <3>2
    <2>2. Runs[w] \in Nat \ {0}
      BY WritesAssumption DEF WritesAssumption
    <2>3. phase' \in {"setup", "measure"}
      BY <1>2
    <2> QED
      BY <1>2, <2>1, <2>2, <2>3 DEF PlaceInv
  <1>4. KindsInv'
    <2>1. /\ inflight' = inflight /\ clean' = TRUE /\ disturbed' = FALSE /\ final' = final
          /\ outcome' = "none" /\ sessions' = sessions + 1 /\ sessions < MaxSessions
      BY DEF Begin
    <2>2. KindsInv /\ MaxSessions \in Nat
      BY WritesAssumption DEF IInv, WritesAssumption
    <2>3. sessions' \in 0 .. MaxSessions
      BY <2>1, <2>2 DEF KindsInv
    <2> QED
      BY <2>1, <2>2, <2>3 DEF KindsInv
  <1>5. SetupInv'
    BY <1>2, BeforeFirst DEF SetupInv
  <1>6. StartInv' /\ LaterInv'
    <2>1. phase' = "measure" => w \notin Loading
      BY <1>2, SetupShape
    <2>2. phase' # "cleanup"
      BY <1>2
    <2> QED
      BY <1>2, <2>1, <2>2 DEF StartInv, LaterInv, Restored, Later, Loaded, Loading
  <1>7. CleanInv' /\ LeavesNothing'
    BY <1>2 DEF CleanInv, LeavesNothing
  <1> QED
    BY <1>1, <1>3, <1>4, <1>5, <1>6, <1>7 DEF IInv

(* The end of the child.                                                   *)
LEMMA KillKeeps ==
  ASSUME IInv, Kill
  PROVE  IInv'
  <1>1. /\ eng' = eng /\ wl' = wl /\ db' = db /\ outcome' = "killed" /\ phase' = "idle" /\ rep' = 1
        /\ sessions' = sessions /\ clean' = clean /\ disturbed' = disturbed /\ final' = final
    BY DEF Kill, Goto
  <1>2. DbInv' /\ KindsInv'
    <2>1. inflight' \subseteq Sent
      BY AbandonKeeps DEF Kill
    <2> QED
      BY <1>1, <2>1 DEF IInv, DbInv, KindsInv
  <1>3. PlaceInv'
    <2>1. eng \in Engines /\ wl \in Workloads
      BY DEF IInv, PlaceInv
    <2>2. Runs[wl] \in Nat \ {0}
      BY <2>1, WritesAssumption DEF WritesAssumption
    <2> QED
      BY <1>1, <2>1, <2>2 DEF PlaceInv
  <1>4. SetupInv' /\ StartInv' /\ LaterInv' /\ CleanInv' /\ LeavesNothing'
    BY <1>1 DEF SetupInv, StartInv, LaterInv, CleanInv, LeavesNothing
  <1> QED
    BY <1>2, <1>3, <1>4 DEF IInv

(* Nothing.                                                                *)
LEMMA StutterKeeps ==
  ASSUME IInv, UNCHANGED vars
  PROVE  IInv'
  BY DEF IInv, DbInv, PlaceInv, KindsInv, SetupInv, StartInv, LaterInv, CleanInv,
         LeavesNothing, vars, place

(* How a workload ends: with the last statement of its cleanup.            *)
LEMMA OutcomeIs ==
  ASSUME PlaceInv, phase # "idle", StepOver, eng' = eng, wl' = wl,
         outcome' = IF Finishing THEN "done" ELSE outcome
  PROVE  /\ outcome' \in {"none", "done"}
         /\ phase' # "idle" => outcome' = "none"
         /\ outcome' = "done" => phase = "cleanup" /\ step = Len(CleanUp(eng, wl))
  <1>1. outcome = "none"
    BY DEF PlaceInv
  <1>2. Finishing <=> phase = "cleanup" /\ step = Len(CleanUp(eng, wl))
    BY DEF Finishing, Steps
  <1>3. phase = "cleanup" =>
              \/ step < Len(CleanUp(eng, wl)) /\ phase' = "cleanup" /\ step' = step + 1
              \/ step = Len(CleanUp(eng, wl)) /\ phase' = "idle"
    BY StepOverLeads
  <1>4. phase = "cleanup" => step \in 1 .. Len(CleanUp(eng, wl))
    BY StatementIs
  <1>5. Len(CleanUp(eng, wl)) \in Nat
    BY CleanUpShape DEF PlaceInv, Shape
  <1> QED
    BY <1>1, <1>2, <1>3, <1>4, <1>5

(* The database after a statement was executed.                            *)
LEMMA DbKept ==
  ASSUME IInv, NEW d, Good(eng, d), db' = [db EXCEPT ![eng] = d]
  PROVE  DbInv' /\ db'[eng] = d
  <1>1. eng \in Engines /\ DbInv
    BY DEF IInv, PlaceInv
  <1>2. db'[eng] = d /\ \A e \in Engines \ {eng} : db'[e] = db[e]
    BY <1>1 DEF DbInv
  <1>3. db' = [e \in Engines |-> db'[e]]
    BY <1>1 DEF DbInv
  <1>4. \A e \in Engines : Good(e, db'[e])
    <2>1. \A e \in Engines : Good(e, db[e])
      BY <1>1 DEF DbInv
    <2> QED
      BY <1>2, <2>1
  <1> QED
    BY <1>2, <1>3, <1>4 DEF DbInv

(* The statement that a setup or a cleanup executes.                       *)
LEMMA SetupExecutes ==
  ASSUME IInv, phase = "setup", ~disturbed
  PROVE  /\ step \in 1 .. Len(Setup(eng, wl)) /\ stmt \in 1 .. Len(Setup(eng, wl)[step])
         /\ Script = Setup(eng, wl)[step]
         /\ Legal(db[eng], Statement) \/ (eng = "df" /\ wl \in Unqualified)
         /\ Legal(db[eng], Statement) => SetupStep(eng, wl, step, stmt, Effect(db[eng], Statement))
  <1>1. eng \in Engines /\ wl \in Workloads /\ Good(eng, db[eng]) /\ PlaceInv /\ Before(eng, wl, step, stmt, db[eng])
    BY DEF IInv, PlaceInv, DbInv, SetupInv
  <1>2. /\ step \in 1 .. Len(Setup(eng, wl)) /\ stmt \in 1 .. Len(Setup(eng, wl)[step])
        /\ Statement = Setup(eng, wl)[step][stmt] /\ Script = Setup(eng, wl)[step]
    BY <1>1, StatementIs
  <1> QED
    BY <1>1, <1>2, SetupNext

(* And in the cleanup, where every statement is legal.                     *)
LEMMA CleanUpExecutes ==
  ASSUME IInv, phase = "cleanup"
  PROVE  /\ step \in 1 .. Len(CleanUp(eng, wl)) /\ stmt \in 1 .. Len(CleanUp(eng, wl)[step])
         /\ Script = CleanUp(eng, wl)[step]
         /\ Legal(db[eng], Statement)
         /\ clean => LET new == Effect(db[eng], Statement) IN
              /\ stmt < Len(CleanUp(eng, wl)[step]) => Dropped(eng, wl, step, stmt + 1, new)
              /\ stmt = Len(CleanUp(eng, wl)[step]) => Dropped(eng, wl, step + 1, 1, new)
              /\ stmt = Len(CleanUp(eng, wl)[step]) /\ step = Len(CleanUp(eng, wl)) =>
                   \A m : Cleaned(eng, wl, m) => m \notin DOMAIN new.tables
  <1>1. /\ eng \in Engines /\ wl \in Workloads /\ Good(eng, db[eng]) /\ PlaceInv
        /\ clean => Dropped(eng, wl, step, stmt, db[eng])
    BY DEF IInv, PlaceInv, DbInv, CleanInv
  <1>2. /\ step \in 1 .. Len(CleanUp(eng, wl)) /\ stmt \in 1 .. Len(CleanUp(eng, wl)[step])
        /\ Statement = CleanUp(eng, wl)[step][stmt] /\ Script = CleanUp(eng, wl)[step]
    BY <1>1, StatementIs
  <1>3. Legal(db[eng], Statement)
    <2>1. Statement.op = "drop"
      BY <1>1, <1>2, CleanUpSound
    <2> QED
      BY <2>1, LegalIs
  <1>4. PICK d, s : d = db[eng] /\ s = CleanUp(eng, wl)[step][stmt]
    OBVIOUS
  <1>5. clean => LET new == Effect(d, s) IN
              /\ stmt < Len(CleanUp(eng, wl)[step]) => Dropped(eng, wl, step, stmt + 1, new)
              /\ stmt = Len(CleanUp(eng, wl)[step]) => Dropped(eng, wl, step + 1, 1, new)
              /\ stmt = Len(CleanUp(eng, wl)[step]) /\ step = Len(CleanUp(eng, wl)) =>
                   \A m : Cleaned(eng, wl, m) => m \notin DOMAIN new.tables
    BY <1>1, <1>2, <1>4, DropNext
  <1> QED
    BY <1>2, <1>3, <1>4, <1>5

(* The statement is executed, and is not the last of its step.             *)
LEMMA ExecuteOneKeeps ==
  ASSUME IInv, Execute, stmt < Len(Script)
  PROVE  IInv'
  <1>1. /\ phase # "idle" /\ Legal(db[eng], Statement) /\ eng' = eng /\ wl' = wl
        /\ sessions' = sessions /\ clean' = clean /\ phase' = phase /\ step' = step /\ rep' = rep
        /\ inflight' = inflight /\ disturbed' = disturbed
        /\ final' = final /\ outcome' = outcome /\ stmt' = stmt + 1
        /\ db' = [db EXCEPT ![eng] = Effect(db[eng], Statement)]
    BY DEF Execute
  <1>2. PICK new : new = Effect(db[eng], Statement)
    OBVIOUS
  <1>3. Good(eng, new) /\ (phase # "setup" /\ ~disturbed => Later(eng, wl, new))
    BY <1>1, <1>2, StatementKeeps
  <1>4. DbInv' /\ db'[eng] = new
    BY <1>1, <1>2, <1>3, DbKept
  <1>5. PlaceInv /\ KindsInv
    BY DEF IInv
  <1>6. /\ eng \in Engines /\ wl \in Workloads /\ outcome = "none" /\ stmt \in 1 .. Len(Script)
        /\ Script = StepsOf(eng, wl, phase)[step] /\ step \in 1 .. Len(StepsOf(eng, wl, phase))
        /\ phase \in {"setup", "measure", "cleanup"}
    BY <1>1, <1>5, StatementIs DEF PlaceInv
  <1>7. Len(Script) \in Nat
    BY <1>6, PhaseShape
  <1>8. stmt + 1 \in 1 .. Len(Script) /\ stmt' # 1
    BY <1>1, <1>6, <1>7
  <1>9. PlaceInv'
    <2>1. Place(eng', wl', phase', step', stmt')
      BY <1>1, <1>6, <1>8 DEF Place
    <2> QED
      BY <1>1, <1>5, <1>6, <2>1 DEF PlaceInv
  <1>10. KindsInv'
    BY <1>1, <1>5 DEF KindsInv
  <1>11. SetupInv'
    <2> SUFFICES ASSUME phase = "setup", ~disturbed PROVE Before(eng, wl, step, stmt + 1, new)
      BY <1>1, <1>4 DEF SetupInv
    <2> QED
      BY <1>1, <1>2, SetupExecutes DEF SetupStep
  <1>12. StartInv' /\ LaterInv'
    BY <1>1, <1>3, <1>4, <1>8 DEF StartInv, LaterInv
  <1>13. CleanInv'
    <2> SUFFICES ASSUME phase = "cleanup", clean PROVE Dropped(eng, wl, step, stmt + 1, new)
      BY <1>1, <1>4 DEF CleanInv
    <2> QED
      BY <1>1, <1>2, CleanUpExecutes
  <1>14. LeavesNothing'
    BY <1>1, <1>6 DEF LeavesNothing
  <1> QED
    BY <1>4, <1>9, <1>10, <1>11, <1>12, <1>13, <1>14 DEF IInv

(* The statement is executed, and is the last of its step.                 *)
LEMMA ExecuteLastKeeps ==
  ASSUME IInv, Execute, ~(stmt < Len(Script))
  PROVE  IInv'
  <1>1. /\ phase # "idle" /\ Legal(db[eng], Statement) /\ eng' = eng /\ wl' = wl
        /\ sessions' = sessions /\ clean' = clean /\ StepOver
        /\ inflight' = inflight /\ disturbed' = disturbed
        /\ outcome' = IF Finishing THEN "done" ELSE outcome
        /\ db' = [db EXCEPT ![eng] = Effect(db[eng], Statement)]
    BY DEF Execute
  <1>2. PICK new : new = Effect(db[eng], Statement)
    OBVIOUS
  <1>3. Good(eng, new) /\ (phase # "setup" /\ ~disturbed => Later(eng, wl, new))
    BY <1>1, <1>2, StatementKeeps
  <1>4. DbInv' /\ db'[eng] = new
    BY <1>1, <1>2, <1>3, DbKept
  <1>5. PlaceInv /\ KindsInv
    BY DEF IInv
  <1>6. /\ eng \in Engines /\ wl \in Workloads /\ stmt \in 1 .. Len(Script)
        /\ Script = StepsOf(eng, wl, phase)[step] /\ step \in 1 .. Len(StepsOf(eng, wl, phase))
        /\ phase \in {"setup", "measure", "cleanup"}
    BY <1>1, <1>5, StatementIs DEF PlaceInv
  <1>7. Len(Script) \in Nat
    BY <1>6, PhaseShape
  <1>8. stmt = Len(Script)
    BY <1>6, <1>7
  <1>9. /\ phase' \in {"idle", "setup", "measure", "cleanup"}
        /\ phase' # "idle" => Place(eng', wl', phase', step', stmt')
        /\ rep' \in 1 .. Runs[wl'] /\ stmt' = 1
        /\ phase = "setup" =>
             \/ step < Len(Setup(eng, wl)) /\ phase' = "setup" /\ step' = step + 1
             \/ step = Len(Setup(eng, wl)) /\ phase' = "measure"
        /\ phase = "measure" =>
             \/ phase' = "measure" /\ ~(step' = 1 /\ rep' = 1)
             \/ phase' = "cleanup" /\ step' = 1
        /\ phase = "cleanup" =>
             \/ step < Len(CleanUp(eng, wl)) /\ phase' = "cleanup" /\ step' = step + 1
             \/ step = Len(CleanUp(eng, wl)) /\ phase' = "idle"
    BY <1>1, <1>5, StepOverLeads
  <1>10. /\ outcome' \in {"none", "done"}
         /\ phase' # "idle" => outcome' = "none"
         /\ outcome' = "done" => phase = "cleanup" /\ step = Len(CleanUp(eng, wl))
    BY <1>1, <1>5, OutcomeIs
  <1>11. PlaceInv'
    BY <1>1, <1>6, <1>9, <1>10 DEF PlaceInv
  <1>12. KindsInv'
    <2>1. \A x \in DOMAIN final' : x[1] \in Engines /\ x[2] \in Workloads
      <3>1. <<eng, wl>>[1] = eng /\ <<eng, wl>>[2] = wl
        OBVIOUS
      <3>2. \A x \in DOMAIN final' : x \in DOMAIN final \/ x = <<eng, wl>>
        BY DEF Execute
      <3> QED
        BY <1>5, <1>6, <3>1, <3>2 DEF KindsInv
    <2> QED
      BY <1>1, <1>5, <1>10, <2>1 DEF KindsInv
  <1>13. ASSUME phase = "setup", ~disturbed
         PROVE  /\ step < Len(Setup(eng, wl)) => Before(eng, wl, step + 1, 1, new)
                /\ step = Len(Setup(eng, wl)) => Restored(eng, wl, new) /\ Later(eng, wl, new)
    <2>1. SetupStep(eng, wl, step, stmt, new) /\ Script = Setup(eng, wl)[step]
      BY <1>1, <1>2, <1>13, SetupExecutes
    <2> QED
      BY <1>8, <2>1 DEF SetupStep
  <1>14. SetupInv'
    BY <1>1, <1>4, <1>6, <1>9, <1>13 DEF SetupInv
  <1>15. StartInv'
    BY <1>1, <1>4, <1>6, <1>9, <1>13 DEF StartInv
  <1>16. LaterInv'
    BY <1>1, <1>3, <1>4, <1>6, <1>9, <1>13 DEF LaterInv
  <1>17. ASSUME phase = "cleanup", clean
         PROVE  /\ Dropped(eng, wl, step + 1, 1, new)
                /\ step = Len(CleanUp(eng, wl)) => \A m : Cleaned(eng, wl, m) => m \notin DOMAIN new.tables
    BY <1>2, <1>8, <1>17, CleanUpExecutes
  <1>18. CleanInv'
    <2>1. CASE phase = "measure"
      <3>1. Dropped(eng, wl, 1, 1, new)
        <4>1. \A i \in 1 .. Len(CleanUp(eng, wl)) : \A j \in 1 .. Len(CleanUp(eng, wl)[i]) :
                ~(i < 1) /\ ~(j < 1)
          BY <1>6, CleanUpShape DEF Shape
        <4> QED
          BY <4>1 DEF Dropped
      <3> QED
        BY <1>1, <1>4, <1>9, <2>1, <3>1 DEF CleanInv
    <2>2. CASE phase = "cleanup"
      BY <1>1, <1>4, <1>9, <1>17, <2>2 DEF CleanInv
    <2>3. CASE phase = "setup"
      BY <1>9, <2>3 DEF CleanInv
    <2> QED
      BY <1>6, <2>1, <2>2, <2>3
  <1>19. LeavesNothing'
    <2> SUFFICES ASSUME outcome' = "done", clean
                 PROVE  UsedBy(eng, wl) \cap DOMAIN new.tables = {}
      BY <1>1, <1>4 DEF LeavesNothing
    <2>1. phase = "cleanup" /\ step = Len(CleanUp(eng, wl))
      BY <1>10
    <2>2. \A m : Cleaned(eng, wl, m) => m \notin DOMAIN new.tables
      BY <1>17, <2>1
    <2>3. ~disturbed
      BY <1>5 DEF KindsInv
    <2> QED
      BY <1>3, <1>6, <2>1, <2>2, <2>3, NothingUsed
  <1> QED
    BY <1>4, <1>11, <1>12, <1>14, <1>15, <1>16, <1>18, <1>19 DEF IInv

(* The statement fails.                                                    *)
LEMMA FailsKeeps ==
  ASSUME IInv, StatementFails
  PROVE  IInv'
  <1>1. /\ phase # "idle" /\ eng' = eng /\ wl' = wl /\ sessions' = sessions /\ final' = final
        /\ clean' = (clean /\ ~Legal(db[eng], Statement)) /\ disturbed' = disturbed
    BY DEF StatementFails
  <1>2. PlaceInv /\ KindsInv /\ DbInv /\ LaterInv
    BY DEF IInv
  <1>3. /\ eng \in Engines /\ wl \in Workloads /\ phase \in {"setup", "measure", "cleanup"}
        /\ outcome = "none"
    BY <1>1, <1>2, StatementIs DEF PlaceInv
  <1>4. DbInv' /\ Good(eng, db'[eng]) /\ (phase # "setup" /\ ~disturbed => Later(eng, wl, db'[eng]))
    <2>1. CASE db' = db
      BY <1>2, <1>3, <2>1 DEF DbInv, LaterInv
    <2>2. CASE /\ Legal(db[eng], Statement)
               /\ db' = [db EXCEPT ![eng] = Effect(db[eng], Statement)]
      <3>1. PICK new : new = Effect(db[eng], Statement)
        OBVIOUS
      <3>2. Good(eng, new) /\ (phase # "setup" /\ ~disturbed => Later(eng, wl, new))
        BY <1>1, <2>2, <3>1, StatementKeeps
      <3>3. DbInv' /\ db'[eng] = new
        BY <2>2, <3>1, <3>2, DbKept
      <3> QED
        BY <3>2, <3>3
    <2> QED
      BY <2>1, <2>2 DEF StatementFails
  <1>5. clean' \in BOOLEAN /\ (disturbed => ~clean') /\ inflight' \subseteq Sent
    <2>1. inflight' = inflight \/ Abandon
      BY DEF StatementFails
    <2> QED
      BY <1>1, <1>2, <2>1, AbandonKeeps DEF KindsInv
  <1>6. CASE phase = "setup"
    <2>1. phase' = "idle" /\ rep' = 1 /\ outcome' = "skipped"
      BY <1>6 DEF StatementFails, Goto
    <2>2. Runs[wl] \in Nat \ {0}
      BY <1>3, WritesAssumption DEF WritesAssumption
    <2>3. PlaceInv'
      BY <1>1, <1>3, <2>1, <2>2 DEF PlaceInv
    <2>4. KindsInv'
      BY <1>1, <1>2, <1>5, <2>1 DEF KindsInv
    <2>5. SetupInv' /\ StartInv' /\ LaterInv' /\ CleanInv' /\ LeavesNothing'
      BY <2>1 DEF SetupInv, StartInv, LaterInv, CleanInv, LeavesNothing
    <2> QED
      BY <1>4, <2>3, <2>4, <2>5 DEF IInv
  <1>7. CASE phase # "setup"
    <2>1. StepOver /\ outcome' = IF Finishing THEN "done" ELSE outcome
      BY <1>7 DEF StatementFails
    <2>2. /\ phase' \in {"idle", "setup", "measure", "cleanup"}
          /\ phase' # "idle" => Place(eng', wl', phase', step', stmt')
          /\ rep' \in 1 .. Runs[wl'] /\ stmt' = 1
          /\ phase = "measure" =>
               \/ phase' = "measure" /\ ~(step' = 1 /\ rep' = 1)
               \/ phase' = "cleanup" /\ step' = 1
          /\ phase = "cleanup" =>
               \/ step < Len(CleanUp(eng, wl)) /\ phase' = "cleanup" /\ step' = step + 1
               \/ step = Len(CleanUp(eng, wl)) /\ phase' = "idle"
      BY <1>1, <1>2, <2>1, StepOverLeads
    <2>3. /\ outcome' \in {"none", "done"}
          /\ phase' # "idle" => outcome' = "none"
          /\ outcome' = "done" => phase = "cleanup" /\ step = Len(CleanUp(eng, wl))
      BY <1>1, <1>2, <2>1, OutcomeIs
    <2>4. PlaceInv'
      BY <1>1, <1>3, <2>2, <2>3 DEF PlaceInv
    <2>5. KindsInv'
      BY <1>1, <1>2, <1>5, <2>3 DEF KindsInv
    <2>6. SetupInv' /\ StartInv'
      BY <1>3, <1>7, <2>2, <2>3 DEF SetupInv, StartInv
    <2>7. LaterInv'
      BY <1>1, <1>4, <1>7 DEF LaterInv
    <2>8. phase = "cleanup" => ~clean'
      BY <1>1, CleanUpExecutes
    <2>9. CleanInv'
      <3>1. CASE phase = "measure"
        <4>1. Dropped(eng, wl, 1, 1, db'[eng])
          <5>1. \A i \in 1 .. Len(CleanUp(eng, wl)) : \A j \in 1 .. Len(CleanUp(eng, wl)[i]) :
                  ~(i < 1) /\ ~(j < 1)
            BY <1>3, CleanUpShape DEF Shape
          <5> QED
            BY <5>1 DEF Dropped
        <4> QED
          BY <1>1, <2>2, <3>1, <4>1 DEF CleanInv
      <3>2. CASE phase = "cleanup"
        BY <2>8, <3>2 DEF CleanInv
      <3> QED
        BY <1>3, <1>7, <3>1, <3>2
    <2>10. LeavesNothing'
      BY <2>3, <2>8 DEF LeavesNothing
    <2> QED
      BY <1>4, <2>4, <2>5, <2>6, <2>7, <2>9, <2>10 DEF IInv
  <1> QED
    BY <1>6, <1>7

(* The statement fails and nobody sees it.                                 *)
LEMMA UnseenKeeps ==
  ASSUME IInv, FailsUnseen
  PROVE  IInv'
  <1>1. /\ phase # "idle" /\ eng' = eng /\ wl' = wl /\ sessions' = sessions /\ final' = final
        /\ db' = db /\ inflight' = inflight /\ clean' = FALSE /\ disturbed' = TRUE
    BY DEF FailsUnseen
  <1>2. PlaceInv /\ KindsInv /\ DbInv
    BY DEF IInv
  <1>3. DbInv'
    BY <1>1, <1>2 DEF DbInv
  <1>4. SetupInv' /\ StartInv' /\ LaterInv' /\ CleanInv' /\ LeavesNothing'
    BY <1>1 DEF SetupInv, StartInv, LaterInv, CleanInv, LeavesNothing
  <1>5. CASE stmt < Len(Script)
    <2>1. stmt' = stmt + 1 /\ phase' = phase /\ step' = step /\ rep' = rep /\ outcome' = outcome
      BY <1>5 DEF FailsUnseen
    <2>2. /\ stmt \in 1 .. Len(Script) /\ Script = StepsOf(eng, wl, phase)[step]
          /\ step \in 1 .. Len(StepsOf(eng, wl, phase)) /\ phase \in {"setup", "measure", "cleanup"}
          /\ eng \in Engines /\ wl \in Workloads
      BY <1>1, <1>2, StatementIs DEF PlaceInv
    <2>3. Len(Script) \in Nat
      BY <2>2, PhaseShape
    <2>4. stmt + 1 \in 1 .. Len(Script)
      BY <1>5, <2>2, <2>3
    <2>5. Place(eng', wl', phase', step', stmt')
      BY <1>1, <2>1, <2>2, <2>4 DEF Place
    <2>6. PlaceInv' /\ KindsInv'
      BY <1>1, <1>2, <2>1, <2>5 DEF PlaceInv, KindsInv
    <2> QED
      BY <1>3, <1>4, <2>6 DEF IInv
  <1>6. CASE ~(stmt < Len(Script))
    <2>1. StepOver /\ outcome' = IF Finishing THEN "done" ELSE outcome
      BY <1>6 DEF FailsUnseen
    <2>2. /\ phase' \in {"idle", "setup", "measure", "cleanup"}
          /\ phase' # "idle" => Place(eng', wl', phase', step', stmt')
          /\ rep' \in 1 .. Runs[wl']
      BY <1>1, <1>2, <2>1, StepOverLeads
    <2>3. outcome' \in {"none", "done"} /\ (phase' # "idle" => outcome' = "none")
      BY <1>1, <1>2, <2>1, OutcomeIs
    <2>4. PlaceInv' /\ KindsInv'
      BY <1>1, <1>2, <2>2, <2>3 DEF PlaceInv, KindsInv
    <2> QED
      BY <1>3, <1>4, <2>4 DEF IInv
  <1> QED
    BY <1>5, <1>6

(* A statement in flight is executed or refused.                           *)
LEMMA LandKeeps ==
  ASSUME IInv, Land
  PROVE  IInv'
  <1>1. PICK s \in inflight :
          /\ inflight' = inflight \ {s}
          /\ IF Legal(db["df"], s)
             THEN /\ db' = [db EXCEPT !["df"] = Effect(db["df"], s)]
                  /\ clean' = (clean /\ eng # "df")
                  /\ disturbed' = (disturbed \/ eng = "df")
             ELSE UNCHANGED <<db, clean, disturbed>>
          /\ UNCHANGED <<place, outcome, sessions, final>>
    BY DEF Land
  <1>2. DbInv /\ PlaceInv /\ KindsInv /\ "df" \in Engines /\ Sound("df", s)
    BY <1>1, SentIs DEF IInv, KindsInv, Engines
  <1>3. /\ eng' = eng /\ wl' = wl /\ phase' = phase /\ step' = step /\ rep' = rep /\ stmt' = stmt
        /\ outcome' = outcome /\ sessions' = sessions /\ final' = final
    BY <1>1 DEF place
  <1>4. DbInv'
    <2>1. CASE Legal(db["df"], s)
      <3>1. PICK new : new = Effect(db["df"], s)
        OBVIOUS
      <3>2. Good("df", new)
        BY <1>2, <2>1, <3>1, GoodStays DEF DbInv
      <3>3. db' = [db EXCEPT !["df"] = new]
        BY <1>1, <2>1, <3>1
      <3>4. db'["df"] = new /\ \A e \in Engines \ {"df"} : db'[e] = db[e]
        BY <1>2, <3>3 DEF DbInv
      <3>5. db' = [e \in Engines |-> db'[e]]
        BY <1>2, <3>3 DEF DbInv
      <3>6. \A e \in Engines : Good(e, db[e])
        BY <1>2 DEF DbInv
      <3>7. \A e \in Engines : Good(e, db'[e])
        BY <3>2, <3>4, <3>6
      <3> QED
        BY <3>5, <3>7 DEF DbInv
    <2>2. CASE ~Legal(db["df"], s)
      BY <1>1, <1>2, <2>2 DEF DbInv
    <2> QED
      BY <2>1, <2>2
  <1>5. PlaceInv'
    BY <1>2, <1>3 DEF PlaceInv
  <1>6. KindsInv'
    BY <1>1, <1>2, <1>3 DEF KindsInv
  <1>7. CASE eng = "df" /\ Legal(db["df"], s)
    <2>1. disturbed' /\ ~clean'
      BY <1>1, <1>7
    <2>2. SetupInv' /\ StartInv' /\ LaterInv' /\ CleanInv' /\ LeavesNothing'
      BY <2>1 DEF SetupInv, StartInv, LaterInv, CleanInv, LeavesNothing
    <2> QED
      BY <1>4, <1>5, <1>6, <2>2 DEF IInv
  <1>8. CASE ~(eng = "df" /\ Legal(db["df"], s))
    <2>1. clean' = clean /\ disturbed' = disturbed
      BY <1>1, <1>2, <1>8 DEF KindsInv
    <2>2. db'[eng] = db[eng]
      BY <1>1, <1>2, <1>8 DEF DbInv, PlaceInv
    <2>3. SetupInv /\ StartInv /\ LaterInv /\ CleanInv /\ LeavesNothing
      BY DEF IInv
    <2>4. SetupInv' /\ StartInv' /\ LaterInv' /\ CleanInv' /\ LeavesNothing'
      BY <1>3, <2>1, <2>2, <2>3 DEF SetupInv, StartInv, LaterInv, CleanInv, LeavesNothing
    <2> QED
      BY <1>4, <1>5, <1>6, <2>4 DEF IInv
  <1> QED
    BY <1>7, <1>8

-----------------------------------------------------------------------------
(***************************************************************************)
(* Executed once and once more                                             *)
(***************************************************************************)

(* A change that leaves every row leaves the bag.                          *)
LEMMA ChangedSame ==
  ASSUME NEW b, FiniteBag(b), NEW f, \A r \in DOMAIN b : f[r] = r
  PROVE  Changed(b, f) = b
  <1> DEFINE CopiesTo(row) == {c \in Copies(b) : f[c[1]] = row}
  <1>1. Changed(b, f) = [row \in {f[r] : r \in DOMAIN b} |-> Cardinality(CopiesTo(row))]
    BY DEF Changed, BagToSet
  <1>2. {f[r] : r \in DOMAIN b} = DOMAIN b
    OBVIOUS
  <1>3. ASSUME NEW r \in DOMAIN b PROVE Cardinality(CopiesTo(r)) = b[r]
    <2>1. CopiesTo(r) = {r} \X (1 .. b[r])
      <3>1. ASSUME NEW c \in CopiesTo(r) PROVE c \in {r} \X (1 .. b[r])
        <4>1. c \in Copies(b) /\ f[c[1]] = r
          OBVIOUS
        <4>2. c[1] \in DOMAIN b /\ c[2] \in 1 .. b[c[1]] /\ c = <<c[1], c[2]>>
          BY <4>1, CopiesAre
        <4>3. c[1] = r
          BY <4>1, <4>2
        <4> QED
          BY <4>2, <4>3
      <3>2. ASSUME NEW i \in 1 .. b[r] PROVE <<r, i>> \in CopiesTo(r)
        <4>1. <<r, i>> \in Copies(b)
          BY CopiesAre
        <4>2. <<r, i>>[1] = r
          OBVIOUS
        <4> QED
          BY <4>1, <4>2
      <3> HIDE DEF CopiesTo
      <3> QED
        BY <3>1, <3>2
    <2> HIDE DEF CopiesTo
    <2>2. b[r] \in Nat
      BY DEF FiniteBag, IsABag
    <2>3. IsFiniteSet(1 .. b[r]) /\ Cardinality(1 .. b[r]) = b[r]
      <3>1. 1 \in Int /\ b[r] \in Int
        BY <2>2
      <3>2. Cardinality(1 .. b[r]) = IF 1 > b[r] THEN 0 ELSE b[r] - 1 + 1
        BY <3>1, FS_Interval
      <3>3. IsFiniteSet(1 .. b[r])
        BY <3>1, FS_Interval
      <3> QED
        BY ONLY <2>2, <3>2, <3>3
    <2>4. IsFiniteSet({r}) /\ Cardinality({r}) = 1
      BY FS_Singleton
    <2>5. Cardinality({r} \X (1 .. b[r])) = Cardinality({r}) * Cardinality(1 .. b[r])
      BY <2>3, <2>4, FS_Product
    <2> QED
      BY ONLY <2>1, <2>2, <2>3, <2>4, <2>5
  <1>4. b = [row \in DOMAIN b |-> b[row]]
    BY DEF FiniteBag, IsABag
  <1> HIDE DEF CopiesTo
  <1> QED
    BY <1>1, <1>2, <1>3, <1>4

(* A bag and nothing more are that bag.                                    *)
LEMMA MoreNothing ==
  ASSUME NEW b, FiniteBag(b), NEW a, DOMAIN a = {}
  PROVE  b (+) a = b
  <1>1. b = [r \in DOMAIN b |-> b[r]] /\ \A r \in DOMAIN b : b[r] \in Nat
    BY DEF FiniteBag, IsABag
  <1>2. b (+) a = [r \in DOMAIN b |-> b[r]]
    BY <1>1 DEF (+)
  <1> QED
    BY <1>1, <1>2

(* The part that has all rows is the bag.                                  *)
LEMMA WhereAll ==
  ASSUME NEW b, FiniteBag(b)
  PROVE  Where(b, DOMAIN b) = b
  BY DEF Where, FiniteBag, IsABag

(* Rows of a key and a value.                                              *)
Rows(b) == FiniteBag(b) /\ \A r \in DOMAIN b : r = [key |-> r.key, val |-> r.val]

(* The row that an UPDATE or WHEN MATCHED makes of one.                    *)
LEMMA ValueSet ==
  ASSUME NEW r, r = [key |-> r.key, val |-> r.val], NEW v
  PROVE  /\ [r EXCEPT !.val = v] = [key |-> r.key, val |-> v]
         /\ r.val = v => [r EXCEPT !.val = v] = r
  <1>1. PICK k, u : k = r.key /\ u = r.val
    OBVIOUS
  <1>2. r = [key |-> k, val |-> u]
    BY <1>1
  <1>3. [r EXCEPT !.val = v] = [key |-> k, val |-> v]
    BY <1>2
  <1> QED
    BY <1>1, <1>2, <1>3

(* WHEN MATCHED leaves rows of a key and a value, with the value of the    *)
(* feed.                                                                   *)
Taken(b, feed) ==
  \A r \in DOMAIN b :
    FeedRow(feed, r.key, "U") # {} => r.val = (CHOOSE s \in FeedRow(feed, r.key, "U") : TRUE).val
LEMMA UpdatedRows ==
  ASSUME NEW b, Rows(b), NEW feed
  PROVE  /\ Rows(Updated(b, feed)) /\ Taken(Updated(b, feed), feed)
         /\ BagKeys(Updated(b, feed)) = BagKeys(b)
         /\ Taken(b, feed) => Updated(b, feed) = b
  <1> DEFINE g(r) == (CHOOSE s \in FeedRow(feed, r.key, "U") : TRUE).val
             f == [r \in BagToSet(b) |-> IF FeedRow(feed, r.key, "U") = {} THEN r ELSE [r EXCEPT !.val = g(r)]]
  <1>1. Updated(b, feed) = Changed(b, f)
    BY DEF Updated
  <1>2. FiniteBag(b) /\ \A r \in DOMAIN b : r = [key |-> r.key, val |-> r.val]
    BY DEF Rows
  <1>3. ASSUME NEW r \in DOMAIN b
        PROVE  /\ f[r] = [key |-> f[r].key, val |-> f[r].val] /\ f[r].key = r.key
               /\ FeedRow(feed, r.key, "U") # {} => f[r].val = g(r)
               /\ FeedRow(feed, r.key, "U") # {} /\ r.val = g(r) => f[r] = r
               /\ FeedRow(feed, r.key, "U") = {} => f[r] = r
    <2>1. f[r] = IF FeedRow(feed, r.key, "U") = {} THEN r ELSE [r EXCEPT !.val = g(r)]
      BY DEF BagToSet
    <2>2. r = [key |-> r.key, val |-> r.val]
      BY <1>2
    <2>3. /\ [r EXCEPT !.val = g(r)] = [key |-> r.key, val |-> g(r)]
          /\ r.val = g(r) => [r EXCEPT !.val = g(r)] = r
      BY <2>2, ValueSet
    <2>4. PICK y : y = f[r]
      OBVIOUS
    <2> HIDE DEF f, g
    <2>5. CASE FeedRow(feed, r.key, "U") = {}
      BY <2>1, <2>2, <2>5
    <2>6. CASE FeedRow(feed, r.key, "U") # {}
      <3>1. y = [key |-> r.key, val |-> g(r)]
        BY <2>1, <2>3, <2>4, <2>6
      <3>2. y.key = r.key /\ y.val = g(r)
        BY <3>1
      <3> QED
        BY <2>1, <2>3, <2>4, <2>6, <3>1, <3>2
    <2> QED
      BY <2>5, <2>6
  <1> HIDE DEF f, g
  <1>4. FiniteBag(Changed(b, f)) /\ DOMAIN Changed(b, f) = {f[r] : r \in DOMAIN b}
    BY <1>2, ChangedIs
  <1>5. PICK u : u = Changed(b, f)
    OBVIOUS
  <1>6. \A y \in DOMAIN u : \E r \in DOMAIN b : y = f[r]
    BY <1>4, <1>5
  <1>7. Rows(u)
    <2>1. \A y \in DOMAIN u : y = [key |-> y.key, val |-> y.val]
      BY <1>3, <1>6
    <2> QED
      BY <1>4, <1>5, <2>1 DEF Rows
  <1>8. Taken(u, feed)
    <2> SUFFICES ASSUME NEW y \in DOMAIN u, FeedRow(feed, y.key, "U") # {}
                 PROVE  y.val = (CHOOSE s \in FeedRow(feed, y.key, "U") : TRUE).val
      BY DEF Taken
    <2>1. PICK r \in DOMAIN b : y = f[r]
      BY <1>6
    <2>2. y.key = r.key
      BY <1>3, <2>1
    <2>3. y.val = g(r)
      BY <1>3, <2>1, <2>2
    <2> QED
      BY <2>2, <2>3 DEF g
  <1>9. BagKeys(u) = BagKeys(b)
    <2>1. BagKeys(u) = {y.key : y \in DOMAIN u} /\ BagKeys(b) = {r.key : r \in DOMAIN b}
      BY DEF BagKeys, BagToSet
    <2>2. \A y \in DOMAIN u : y.key \in BagKeys(b)
      <3> SUFFICES ASSUME NEW y \in DOMAIN u PROVE y.key \in BagKeys(b)
        OBVIOUS
      <3>1. PICK r \in DOMAIN b : y = f[r]
        BY <1>6
      <3>2. y.key = r.key
        BY <1>3, <3>1
      <3> QED
        BY <2>1, <3>2
    <2>3. \A r \in DOMAIN b : r.key \in BagKeys(u)
      <3> SUFFICES ASSUME NEW r \in DOMAIN b PROVE r.key \in BagKeys(u)
        OBVIOUS
      <3>1. f[r] \in DOMAIN u /\ f[r].key = r.key
        BY <1>3, <1>4, <1>5
      <3> QED
        BY <2>1, <3>1
    <2> QED
      BY <2>1, <2>2, <2>3
  <1>10. ASSUME Taken(b, feed) PROVE Changed(b, f) = b
    <2>1. \A r \in DOMAIN b : FeedRow(feed, r.key, "U") # {} => r.val = g(r)
      BY <1>10 DEF Taken, g
    <2>2. \A r \in DOMAIN b : f[r] = r
      BY <1>3, <2>1
    <2> QED
      BY <1>2, <2>2, ChangedSame
  <1> QED
    BY <1>1, <1>5, <1>7, <1>8, <1>9, <1>10

(* An UPDATE of crud.py that has been executed changes nothing more.       *)
LEMMA UpdateTwice ==
  ASSUME NEW b, Rows(b)
  PROVE  CrudUpdate(CrudUpdate(b)) = CrudUpdate(b)
  <1> DEFINE f(c) == [r \in BagToSet(c) |-> IF In(r.key, 100, 3) THEN [r EXCEPT !.val = "P"] ELSE r]
  <1>1. \A c : CrudUpdate(c) = Changed(c, f(c))
    BY DEF CrudUpdate
  <1>2. FiniteBag(b) /\ \A r \in DOMAIN b : r = [key |-> r.key, val |-> r.val]
    BY DEF Rows
  <1>3. ASSUME NEW c, NEW r \in DOMAIN c, r = [key |-> r.key, val |-> r.val]
        PROVE  /\ f(c)[r] = [key |-> f(c)[r].key, val |-> f(c)[r].val]
               /\ In(f(c)[r].key, 100, 3) => f(c)[r].val = "P"
               /\ (In(r.key, 100, 3) => r.val = "P") => f(c)[r] = r
    <2>1. f(c)[r] = IF In(r.key, 100, 3) THEN [r EXCEPT !.val = "P"] ELSE r
      BY DEF BagToSet
    <2>2. /\ [r EXCEPT !.val = "P"] = [key |-> r.key, val |-> "P"]
          /\ r.val = "P" => [r EXCEPT !.val = "P"] = r
      BY <1>3, ValueSet
    <2>3. PICK y : y = f(c)[r]
      OBVIOUS
    <2> HIDE DEF f
    <2>4. CASE In(r.key, 100, 3)
      <3>1. y = [key |-> r.key, val |-> "P"]
        BY <2>1, <2>2, <2>3, <2>4
      <3>2. y.key = r.key /\ y.val = "P"
        BY <3>1
      <3> QED
        BY <2>1, <2>2, <2>3, <2>4, <3>1, <3>2
    <2>5. CASE ~In(r.key, 100, 3)
      BY <1>3, <2>1, <2>5
    <2> QED
      BY <2>4, <2>5
  <1> HIDE DEF f
  <1>4. PICK u : u = CrudUpdate(b)
    OBVIOUS
  <1>5. FiniteBag(u) /\ DOMAIN u = {f(b)[r] : r \in DOMAIN b}
    BY <1>1, <1>2, <1>4, ChangedIs
  <1>6. \A y \in DOMAIN u : y = [key |-> y.key, val |-> y.val] /\ (In(y.key, 100, 3) => y.val = "P")
    <2> SUFFICES ASSUME NEW y \in DOMAIN u
                 PROVE  y = [key |-> y.key, val |-> y.val] /\ (In(y.key, 100, 3) => y.val = "P")
      OBVIOUS
    <2>1. PICK r \in DOMAIN b : y = f(b)[r]
      BY <1>5
    <2> QED
      BY <1>2, <1>3, <2>1
  <1>7. \A y \in DOMAIN u : f(u)[y] = y
    BY <1>3, <1>6
  <1>8. Changed(u, f(u)) = u
    BY <1>5, <1>7, ChangedSame
  <1> QED
    BY <1>1, <1>4, <1>8

(* Nor does a DELETE.                                                      *)
LEMMA DeleteTwice ==
  ASSUME NEW b, FiniteBag(b)
  PROVE  CrudDelete(CrudDelete(b)) = CrudDelete(b)
  <1> DEFINE rows(c) == {r \in BagToSet(c) : ~In(r.key, 100, 17)}
  <1>1. \A c : CrudDelete(c) = Where(c, rows(c))
    BY DEF CrudDelete
  <1>2. PICK u : u = CrudDelete(b)
    OBVIOUS
  <1>3. rows(b) \in SUBSET DOMAIN b
    BY DEF BagToSet
  <1>4. FiniteBag(u) /\ DOMAIN u = rows(b)
    BY <1>1, <1>2, <1>3, WhereIs
  <1>5. rows(u) = DOMAIN u
    BY <1>4 DEF BagToSet
  <1>6. Where(u, DOMAIN u) = u
    BY <1>4, WhereAll
  <1> HIDE DEF rows
  <1> QED
    BY <1>1, <1>2, <1>5, <1>6

(* Nor does the MERGE of crud.py: what was not matched now is, and a key   *)
(* that is inserted is not one that is updated.                            *)
LEMMA MergeTwice ==
  ASSUME NEW b, Rows(b), NEW feed, Fed(feed)
  PROVE  CrudMerge(CrudMerge(b, feed), feed) = CrudMerge(b, feed)
  <1> DEFINE rows(c) == {s \in BagToSet(feed) : s.op = "I" /\ s.key \notin BagKeys(c)}
             f == [s \in rows(b) |-> [key |-> s.key, val |-> s.val]]
             new == Changed(Where(feed, rows(b)), f)
             u == Updated(b, feed)
             c == u (+) new
  <1>1. CrudMerge(b, feed) = c
    BY DEF CrudMerge, Inserted
  <1>2. CrudMerge(c, feed) = Updated(c, feed) (+) Inserted(feed, rows(c))
    BY DEF CrudMerge
  <1>3. /\ rows(b) \in SUBSET DOMAIN feed /\ rows(c) \in SUBSET DOMAIN feed
        /\ \A s \in rows(b) : s.op = "I" /\ f[s] = [key |-> s.key, val |-> s.val]
        /\ \A s \in rows(c) : s.op = "I" /\ s.key \notin BagKeys(c)
        /\ \A s \in DOMAIN feed : s.op = "I" => s.key \in BagKeys(b) \/ s \in rows(b)
    BY DEF BagToSet
  <1>4. FiniteBag(feed) /\ \A s, t \in DOMAIN feed : s.key = t.key => s = t
    BY DEF Fed
  <1>5. Rows(u) /\ Taken(u, feed) /\ BagKeys(u) = BagKeys(b)
    BY UpdatedRows
  <1> HIDE DEF rows, f
  <1>6. FiniteBag(Where(feed, rows(b))) /\ DOMAIN Where(feed, rows(b)) = rows(b)
    BY <1>3, <1>4, WhereIs
  <1>7. FiniteBag(new) /\ DOMAIN new = {f[s] : s \in rows(b)}
    <2>1. PICK part : part = Where(feed, rows(b))
      OBVIOUS
    <2>2. FiniteBag(Changed(part, f)) /\ DOMAIN Changed(part, f) = {f[s] : s \in DOMAIN part}
      BY ONLY <1>6, <2>1, ChangedIs
    <2> QED
      BY <1>6, <2>1, <2>2
  <1> HIDE DEF new, u
  <1>8. FiniteBag(u) /\ FiniteBag(c) /\ DOMAIN c = DOMAIN u \union DOMAIN new
    <2>1. FiniteBag(u)
      BY <1>5 DEF Rows
    <2> QED
      BY <1>7, <2>1, TogetherIs
  <1> HIDE DEF c
  <1>9. ASSUME NEW y \in DOMAIN new
        PROVE  /\ y = [key |-> y.key, val |-> y.val]
               /\ FeedRow(feed, y.key, "U") = {}
    <2>1. PICK s \in rows(b) : y = f[s]
      BY <1>7
    <2>2. y = [key |-> s.key, val |-> s.val] /\ s.op = "I" /\ s \in DOMAIN feed
      BY <1>3, <2>1
    <2>3. y.key = s.key /\ y.val = s.val
      BY <2>2
    <2>4. ASSUME NEW t \in FeedRow(feed, y.key, "U") PROVE FALSE
      <3>1. t \in DOMAIN feed /\ t.key = y.key /\ t.op = "U"
        BY DEF FeedRow, BagToSet
      <3>2. t = s
        BY <1>4, <2>2, <2>3, <3>1
      <3> QED
        BY <2>2, <3>1, <3>2
    <2> QED
      BY <2>2, <2>3, <2>4
  <1>10. Rows(c)
    BY <1>5, <1>8, <1>9 DEF Rows
  <1>11. Taken(c, feed)
    <2> SUFFICES ASSUME NEW y \in DOMAIN c, FeedRow(feed, y.key, "U") # {}
                 PROVE  y.val = (CHOOSE s \in FeedRow(feed, y.key, "U") : TRUE).val
      BY DEF Taken
    <2>1. y \in DOMAIN u
      BY <1>8, <1>9
    <2> QED
      BY <1>5, <2>1 DEF Taken
  <1>12. Updated(c, feed) = c
    BY <1>10, <1>11, UpdatedRows
  <1>13. rows(c) = {}
    <2> SUFFICES ASSUME NEW s \in rows(c) PROVE FALSE
      OBVIOUS
    <2>1. s \in DOMAIN feed /\ s.op = "I" /\ s.key \notin BagKeys(c)
      BY <1>3
    <2>2. BagKeys(c) = {r.key : r \in DOMAIN c} /\ BagKeys(u) = {r.key : r \in DOMAIN u}
      BY DEF BagKeys, BagToSet
    <2>3. CASE s.key \in BagKeys(b)
      <3>1. PICK r \in DOMAIN u : r.key = s.key
        BY <1>5, <2>2, <2>3
      <3> QED
        BY <1>8, <2>1, <2>2, <3>1
    <2>4. CASE s \in rows(b)
      <3>1. f[s] \in DOMAIN c
        BY <1>7, <1>8, <2>4
      <3>2. PICK y : y = f[s]
        OBVIOUS
      <3>3. y = [key |-> s.key, val |-> s.val]
        BY <1>3, <2>4, <3>2
      <3>4. y.key = s.key
        BY <3>3
      <3> QED
        BY <2>1, <2>2, <3>1, <3>2, <3>4
    <2> QED
      BY <1>3, <2>1, <2>3, <2>4
  <1>14. DOMAIN Inserted(feed, {}) = {}
    <2> DEFINE h == [s \in {} |-> [key |-> s.key, val |-> s.val]]
    <2>1. Inserted(feed, {}) = Changed(Where(feed, {}), h)
      BY DEF Inserted
    <2>2. FiniteBag(Where(feed, {})) /\ DOMAIN Where(feed, {}) = {}
      BY <1>4, WhereIs
    <2> HIDE DEF h
    <2>3. DOMAIN Changed(Where(feed, {}), h) = {h[s] : s \in DOMAIN Where(feed, {})}
      BY <2>2, ChangedIs
    <2> QED
      BY <2>1, <2>2, <2>3
  <1>15. c (+) Inserted(feed, {}) = c
    BY <1>8, <1>14, MoreNothing
  <1> QED
    BY <1>1, <1>2, <1>12, <1>13, <1>15

(* Nor the MERGE of merge_cdc.py.                                          *)
LEMMA CdcTwice ==
  ASSUME NEW b, Rows(b), NEW feed
  PROVE  Rows(CdcMerge(b, feed)) /\ CdcMerge(CdcMerge(b, feed), feed) = CdcMerge(b, feed)
  <1> DEFINE rows(c) == {r \in BagToSet(c) : FeedRow(feed, r.key, "D") = {}}
             u == Updated(b, feed)
  <1>1. \A c : CdcMerge(c, feed) = Where(Updated(c, feed), rows(Updated(c, feed)))
    BY DEF CdcMerge
  <1>2. Rows(u) /\ Taken(u, feed)
    BY UpdatedRows
  <1>3. PICK c : c = CdcMerge(b, feed)
    OBVIOUS
  <1>4. rows(u) \in SUBSET DOMAIN u
    BY DEF BagToSet
  <1>5. FiniteBag(c) /\ DOMAIN c = rows(u)
    <2>1. FiniteBag(u)
      BY <1>2 DEF Rows
    <2> HIDE DEF rows, u
    <2>2. FiniteBag(Where(u, rows(u))) /\ DOMAIN Where(u, rows(u)) = rows(u)
      BY <1>4, <2>1, WhereIs
    <2> QED
      BY <1>1, <1>3, <2>2 DEF u
  <1>6. Rows(c) /\ Taken(c, feed)
    BY <1>2, <1>4, <1>5 DEF Rows, Taken
  <1>7. Updated(c, feed) = c
    BY <1>6, UpdatedRows
  <1>8. rows(c) = DOMAIN c
    BY <1>5 DEF BagToSet
  <1>9. Where(c, DOMAIN c) = c
    BY <1>5, WhereAll
  <1> HIDE DEF rows, u
  <1> QED
    BY <1>1, <1>3, <1>6, <1>7, <1>8, <1>9

-----------------------------------------------------------------------------
(***************************************************************************)
(* What the measured steps make                                            *)
(***************************************************************************)

(* What the source holds for both engines; the feed made of it; what a     *)
(* measured step makes of its table.                                       *)
Start(w) == Source(<<"", Of(w)>>)
FeedOf(w) == IF w = "crud" THEN CrudFeed(Start(w)) ELSE CdcFeed(Start(w))
MeasuredTo(w, k, b) ==
  IF w = "crud"
  THEN IF k = 1 THEN CrudInsert(b) ELSE IF k = 2 THEN CrudUpdate(b)
       ELSE IF k = 3 THEN CrudDelete(b) ELSE CrudMerge(b, FeedOf(w))
  ELSE IF w = "merge_cdc" THEN CdcMerge(b, FeedOf(w))
  ELSE IF k \in 1 .. 3 THEN UpdatePct(b, Measured("spark", w)[k][1].arg)
       ELSE DeletePct(b, Measured("spark", w)[k][1].arg)

(* The tables that the measured steps need.                                *)
Ready(e, w, d) ==
  w \in Loaded =>
    /\ Target(e, w) \in DOMAIN d.tables
    /\ w = "crud" => /\ Keyed(d.tables[Target(e, w)])
                     /\ Name(e, "cdc_feed") \in DOMAIN d.tables
                     /\ d.tables[Name(e, "cdc_feed")] = FeedOf(w)
    /\ w = "merge_cdc" => /\ e = "spark" /\ Rows(d.tables[Target(e, w)])
                          /\ Plain("cdc_changes") \in DOMAIN d.tables
                          /\ d.tables[Plain("cdc_changes")] = FeedOf(w)
\* What DeltaForge refuses, for its target is not of that name.
Refused(e, w) == e = "df" /\ w = "update_delete"

(* A keyed bag has rows of a key and a value; so has the source.           *)
LEMMA KeyedRows == \A b : Keyed(b) => Rows(b)
  BY DEF Keyed, Rows

(* The source is the same wherever it is loaded.                           *)
LEMMA SourceOf ==
  ASSUME NEW e \in Engines, NEW w \in Loaded
  PROVE  Source(Target(e, w)) = Start(w)
  <1>1. \A m, n : m[2] = n[2] => Source(m) = Source(n)
    <2> SUFFICES ASSUME NEW m, NEW n, m[2] = n[2] PROVE Source(m) = Source(n)
      OBVIOUS
    <2>1. PICK v : v = IF m[2] \in {"orders", "stg_orders"} THEN "O" ELSE 0
      OBVIOUS
    <2>2. v = IF n[2] \in {"orders", "stg_orders"} THEN "O" ELSE 0
      BY <2>1
    <2>3. Source(m) = SetToBag({[key |-> k, val |-> v] : k \in Keys})
      BY <2>1 DEF Source
    <2>4. Source(n) = SetToBag({[key |-> k, val |-> v] : k \in Keys})
      BY <2>2 DEF Source
    <2> QED
      BY <2>3, <2>4
  <1>2. Target(e, w)[2] = Of(w)
    <2>1. Target(e, w) = Name(e, Of(w))
      BY DEF Target, Of
    <2>2. \A t : <<"bench", t>>[2] = t /\ <<"", t>>[2] = t
      OBVIOUS
    <2> QED
      BY <2>1, <2>2 DEF Name
  <1>3. <<"", Of(w)>>[2] = Of(w)
    OBVIOUS
  <1> QED
    BY <1>1, <1>2, <1>3 DEF Start

(* A setup that went through makes them.                                   *)
LEMMA RestoredReady ==
  ASSUME NEW e \in Engines, NEW w, NEW d, Restored(e, w, d)
  PROVE  Ready(e, w, d) /\ (w \in Loaded => d.tables[Target(e, w)] = Start(w))
  <1> SUFFICES ASSUME w \in Loaded
               PROVE  Ready(e, w, d) /\ d.tables[Target(e, w)] = Start(w)
    BY DEF Ready
  <1>1. Source(Target(e, w)) = Start(w)
    BY SourceOf
  <1>2. Keyed(Start(w)) /\ Rows(Start(w))
    BY SourceKeyed, KeyedRows DEF Start
  <1> QED
    BY <1>1, <1>2 DEF Restored, Ready, FeedOf

(* A measured statement of these workloads, one for a step.                *)
MeasuredAs(e, w, k, s) ==
  /\ w = "crud" =>
       /\ k \in 1 .. 4 /\ s.name = Target(e, w)
       /\ k = 1 => s.op = "insert" /\ s.from = <<>>
       /\ k = 2 => s.op = "update" /\ s.from = <<>>
       /\ k = 3 => s.op = "delete" /\ s.from = <<>>
       /\ k = 4 => s.op = "merge" /\ s.from = Name(e, "cdc_feed")
  /\ w = "merge_cdc" =>
       k = 1 /\ s.op = "cdc merge" /\ s.name = Line /\ s.from = Plain("cdc_changes")
  /\ w = "update_delete" =>
       /\ k \in 1 .. 5 /\ s.name = Line /\ s.from = <<>>
       /\ k \in 1 .. 3 => s.op = "update %"
       /\ k \notin 1 .. 3 => s.op = "delete %"
LEMMA MeasuredOne ==
  ASSUME NEW e \in Engines, NEW w \in Loaded, NEW k \in 1 .. Len(Measured(e, w))
  PROVE  /\ Len(Measured(e, w)) \in Nat /\ Len(Measured(e, w)[k]) = 1
         /\ Len(Measured(e, w)) = Len(Measured("spark", w))
         /\ MeasuredAs(e, w, k, Measured(e, w)[k][1])
  <1>1. \A n : S("insert", n).op = "insert" /\ S("update", n).op = "update" /\ S("delete", n).op = "delete"
    BY DEF S
  <1>2. \A op, n : S(op, n).name = n /\ S(op, n).from = <<>>
    BY DEF S
  <1>3. \A op, n, f : From(op, n, f).op = op /\ From(op, n, f).name = n /\ From(op, n, f).from = f
    BY DEF From
  <1>4. "spark" \in Engines
    BY DEF Engines
  <1>5. CASE w = "crud"
    <2>1. Len(Measured(e, w)) = 4 /\ Len(Measured("spark", w)) = 4 /\ \A i \in 1 .. 4 : Len(Measured(e, w)[i]) = 1
      BY <1>4, <1>5, MeasuredIs
    <2>2. /\ Measured(e, w)[1][1] = S("insert", Name(e, "orders"))
          /\ Measured(e, w)[2][1] = S("update", Name(e, "orders"))
          /\ Measured(e, w)[3][1] = S("delete", Name(e, "orders"))
          /\ Measured(e, w)[4][1] = From("merge", Name(e, "orders"), Name(e, "cdc_feed"))
      BY <1>5, MeasuredIs
    <2>3. k \in 1 .. 4
      BY <2>1
    <2>4. Target(e, w) = Name(e, "orders")
      BY <1>5 DEF Target
    <2>5. k = 1 \/ k = 2 \/ k = 3 \/ k = 4
      BY <2>3
    <2>6. 4 \in Nat
      OBVIOUS
    <2>7. PICK s : s = Measured(e, w)[k][1]
      OBVIOUS
    <2>8. s.name = Target(e, w) /\ (k = 1 => s.op = "insert" /\ s.from = <<>>)
          /\ (k = 2 => s.op = "update" /\ s.from = <<>>) /\ (k = 3 => s.op = "delete" /\ s.from = <<>>)
          /\ (k = 4 => s.op = "merge" /\ s.from = Name(e, "cdc_feed"))
      <3>1. CASE k = 1
        BY <1>1, <1>2, <2>2, <2>4, <2>7, <3>1
      <3>2. CASE k = 2
        BY <1>1, <1>2, <2>2, <2>4, <2>7, <3>2
      <3>3. CASE k = 3
        BY <1>1, <1>2, <2>2, <2>4, <2>7, <3>3
      <3>4. CASE k = 4
        BY <1>3, <2>2, <2>4, <2>7, <3>4
      <3> QED
        BY <2>5, <3>1, <3>2, <3>3, <3>4
    <2> QED
      BY <1>5, <2>1, <2>3, <2>6, <2>7, <2>8 DEF MeasuredAs
  <1>6. CASE w = "merge_cdc"
    <2>1. Len(Measured(e, w)) = 1 /\ Len(Measured("spark", w)) = 1 /\ Len(Measured(e, w)[1]) = 1
          /\ Measured(e, w)[1][1] = From("cdc merge", Line, Plain("cdc_changes"))
      BY <1>4, <1>6, MeasuredIs
    <2>2. k \in 1 .. 1 /\ 1 \in Nat
      BY <2>1
    <2>3. k = 1
      BY <2>2
    <2>4. PICK s : s = Measured(e, w)[k][1]
      OBVIOUS
    <2>5. s.op = "cdc merge" /\ s.name = Line /\ s.from = Plain("cdc_changes")
      <3>1. s = From("cdc merge", Line, Plain("cdc_changes"))
        BY <2>1, <2>3, <2>4
      <3> QED
        BY ONLY <3>1 DEF From
    <2> QED
      BY <1>6, <2>1, <2>2, <2>3, <2>4, <2>5 DEF MeasuredAs
  <1>7. CASE w = "update_delete"
    <2>1. Len(Measured(e, w)) = 5 /\ Len(Measured("spark", w)) = 5 /\ \A i \in 1 .. 5 : Len(Measured(e, w)[i]) = 1
      BY <1>4, <1>7, MeasuredIs
    <2>2. /\ \A i \in 1 .. 3 : \E pct : Measured(e, w)[i][1] = Dml("update %", Line, pct)
          /\ \A i \in 4 .. 5 : \E pct : Measured(e, w)[i][1] = Dml("delete %", Line, pct)
      BY <1>7, MeasuredIs
    <2>3. k \in 1 .. 5 /\ 5 \in Nat
      BY <2>1
    <2>4. PICK s : s = Measured(e, w)[k][1]
      OBVIOUS
    <2>5. CASE k \in 1 .. 3
      <3>1. PICK pct : s = Dml("update %", Line, pct)
        BY <2>2, <2>4, <2>5
      <3>2. s.op = "update %" /\ s.name = Line /\ s.from = <<>>
        BY ONLY <3>1 DEF Dml
      <3> QED
        BY <1>7, <2>1, <2>3, <2>4, <2>5, <3>2 DEF MeasuredAs
    <2>6. CASE k \notin 1 .. 3
      <3>1. k \in 4 .. 5
        BY <2>3, <2>6
      <3>2. PICK pct : s = Dml("delete %", Line, pct)
        BY <2>2, <2>4, <3>1
      <3>3. s.op = "delete %" /\ s.name = Line /\ s.from = <<>>
        BY ONLY <3>2 DEF Dml
      <3> QED
        BY <1>7, <2>1, <2>3, <2>4, <2>6, <3>3 DEF MeasuredAs
    <2> QED
      BY <2>5, <2>6
  <1> QED
    BY <1>5, <1>6, <1>7 DEF Loaded

(* What it does: it finds its tables, and changes the one that is measured. *)
LEMMA MeasuredDoes ==
  ASSUME NEW e \in Engines, NEW w \in Loaded, NEW k \in 1 .. Len(Measured(e, w)),
         NEW d, Good(e, d), Ready(e, w, d)
  PROVE  LET s == Measured(e, w)[k][1]
             new == Effect(d, s)
             T == Target(e, w)
         IN  /\ Legal(d, s) <=> ~Refused(e, w)
             /\ Legal(d, s) => /\ s.name = T /\ Writing(s) /\ T \in DOMAIN d.tables
                               /\ Content(d, s) = MeasuredTo(w, k, d.tables[T])
                               /\ new.tables[T] = MeasuredTo(w, k, d.tables[T])
                               /\ Ready(e, w, new)
  <1>1. PICK s : s = Measured(e, w)[k][1]
    OBVIOUS
  <1>2. PICK T : T = Target(e, w)
    OBVIOUS
  <1>3. PICK b : b = d.tables[T]
    OBVIOUS
  <1>4. Database(d)
    BY DEF Good
  <1>5. T \in DOMAIN d.tables
    BY <1>2 DEF Ready
  <1>6. Line[1] = "" /\ Line # <<>> /\ Plain("cdc_changes") # <<>> /\ Plain("cdc_changes") # Line
    <2>1. Line = <<"", "lineitem">> /\ Plain("cdc_changes") = <<"", "cdc_changes">>
      BY DEF Line, Plain
    <2>2. /\ <<"", "lineitem">>[1] = "" /\ <<"", "lineitem">>[2] = "lineitem"
          /\ <<"", "cdc_changes">>[2] = "cdc_changes"
          /\ <<"", "lineitem">> # <<>> /\ <<"", "cdc_changes">> # <<>>
      OBVIOUS
    <2>3. <<"", "cdc_changes">> # <<"", "lineitem">>
      BY ONLY <2>2
    <2> QED
      BY <2>1, <2>2, <2>3
  <1>7. e = "spark" /\ w # "crud" => T = Line
    BY <1>2 DEF Target, Name, Line, Plain
  <1>8. e = "df" => Line \notin DOMAIN d.tables
    BY <1>6 DEF Good
  <1>9. MeasuredAs(e, w, k, s)
    BY <1>1, MeasuredOne
  <1>10. /\ Legal(d, s) <=> ~Refused(e, w)
         /\ Legal(d, s) => s.name = T /\ Writing(s) /\ Content(d, s) = MeasuredTo(w, k, b)
    <2>1. CASE w = "crud"
      <3>1. /\ k \in 1 .. 4 /\ s.name = T
            /\ k = 1 => s.op = "insert" /\ s.from = <<>>
            /\ k = 2 => s.op = "update" /\ s.from = <<>>
            /\ k = 3 => s.op = "delete" /\ s.from = <<>>
            /\ k = 4 => s.op = "merge" /\ s.from = Name(e, "cdc_feed")
        BY <1>9, <1>2, <2>1 DEF MeasuredAs
      <3>2. ~Refused(e, w)
        BY <2>1 DEF Refused
      <3>3. Name(e, "cdc_feed") # <<>>
        BY NamesNotEmpty
      <3>4. Name(e, "cdc_feed") \in DOMAIN d.tables /\ d.tables[Name(e, "cdc_feed")] = FeedOf(w)
        BY <2>1 DEF Ready
      <3>5. k = 1 \/ k = 2 \/ k = 3 \/ k = 4
        BY <3>1
      <3>6. CASE k = 1
        <4>1. Legal(d, s) /\ Content(d, s) = CrudInsert(b)
          BY <1>3, <1>5, <3>1, <3>6, LegalIs, ContentIs
        <4> QED
          BY <2>1, <3>1, <3>2, <3>6, <4>1 DEF MeasuredTo, Writing
      <3>7. CASE k = 2
        <4>1. Legal(d, s) /\ Content(d, s) = CrudUpdate(b)
          BY <1>3, <1>5, <3>1, <3>7, LegalIs, ContentIs
        <4> QED
          BY <2>1, <3>1, <3>2, <3>7, <4>1 DEF MeasuredTo, Writing
      <3>8. CASE k = 3
        <4>1. Legal(d, s) /\ Content(d, s) = CrudDelete(b)
          BY <1>3, <1>5, <3>1, <3>8, LegalIs, ContentIs
        <4> QED
          BY <2>1, <3>1, <3>2, <3>8, <4>1 DEF MeasuredTo, Writing
      <3>9. CASE k = 4
        <4>1. Read(d, s) = FeedOf(w)
          BY <3>1, <3>3, <3>4, <3>9 DEF Read
        <4>2. Legal(d, s) /\ Content(d, s) = CrudMerge(b, Read(d, s))
          BY <1>3, <1>5, <3>1, <3>4, <3>9, LegalIs, ContentIs
        <4> QED
          BY <2>1, <3>1, <3>2, <3>9, <4>1, <4>2 DEF MeasuredTo, Writing
      <3> QED
        BY <3>5, <3>6, <3>7, <3>8, <3>9
    <2>2. CASE w = "merge_cdc"
      <3>1. k = 1 /\ s.op = "cdc merge" /\ s.name = Line /\ s.from = Plain("cdc_changes")
        BY <1>9, <2>2 DEF MeasuredAs
      <3>2. e = "spark" /\ s.from \in DOMAIN d.tables /\ d.tables[s.from] = FeedOf(w)
        BY <2>2, <3>1 DEF Ready
      <3>3. T = Line
        BY <1>7, <2>2, <3>2
      <3>4. Read(d, s) = FeedOf(w)
        BY <1>6, <3>1, <3>2 DEF Read
      <3>5. Legal(d, s) /\ Content(d, s) = CdcMerge(b, Read(d, s))
        BY <1>3, <1>5, <3>1, <3>2, <3>3, LegalIs, ContentIs
      <3> QED
        BY <2>2, <3>1, <3>3, <3>4, <3>5 DEF MeasuredTo, Writing, Refused
    <2>3. CASE w = "update_delete"
      <3>1. /\ s.name = Line /\ s.from = <<>>
            /\ k \in 1 .. 3 => s.op = "update %"
            /\ k \notin 1 .. 3 => s.op = "delete %"
        BY <1>9, <2>3 DEF MeasuredAs
      <3>2. Legal(d, s) <=> Line \in DOMAIN d.tables
        BY <3>1, LegalIs
      <3>3. CASE e = "df"
        BY <1>8, <2>3, <3>2, <3>3 DEF Refused
      <3>4. CASE e = "spark"
        <4>1. T = Line /\ ~Refused(e, w)
          BY <1>7, <2>3, <3>4 DEF Refused
        <4>2. s = Measured("spark", w)[k][1]
          BY <1>1, <3>4
        <4>3. CASE k \in 1 .. 3
          <5>1. Content(d, s) = UpdatePct(b, s.arg)
            BY <1>3, <3>1, <4>1, <4>3, ContentIs
          <5>2. MeasuredTo(w, k, b) = UpdatePct(b, Measured("spark", w)[k][1].arg)
            BY <2>3, <4>3 DEF MeasuredTo
          <5> QED
            BY <1>5, <3>1, <3>2, <4>1, <4>2, <4>3, <5>1, <5>2 DEF Writing
        <4>4. CASE k \notin 1 .. 3
          <5>1. Content(d, s) = DeletePct(b, s.arg)
            BY <1>3, <3>1, <4>1, <4>4, ContentIs
          <5>2. MeasuredTo(w, k, b) = DeletePct(b, Measured("spark", w)[k][1].arg)
            BY <2>3, <4>4 DEF MeasuredTo
          <5> QED
            BY <1>5, <3>1, <3>2, <4>1, <4>2, <4>4, <5>1, <5>2 DEF Writing
        <4> QED
          BY <4>3, <4>4
      <3> QED
        BY <3>3, <3>4 DEF Engines
    <2> QED
      BY <2>1, <2>2, <2>3 DEF Loaded
  <1>11. PICK new : new = Effect(d, s)
    OBVIOUS
  <1>12. ASSUME Legal(d, s)
         PROVE  new.tables[T] = MeasuredTo(w, k, b) /\ Ready(e, w, new)
    <2>1. s.name = T /\ Writing(s) /\ Content(d, s) = MeasuredTo(w, k, b)
      BY <1>10, <1>12
    <2>2. /\ DOMAIN new.tables = DOMAIN d.tables \union {s.name}
          /\ new.tables[s.name] = Content(d, s)
          /\ \A m \in DOMAIN d.tables \ {s.name} : new.tables[m] = d.tables[m]
      BY <1>4, <1>11, <1>12, <2>1, WriteDoes
    <2>3. new.tables[T] = MeasuredTo(w, k, b) /\ T \in DOMAIN new.tables
      BY <2>1, <2>2
    <2>4. ASSUME w = "crud"
          PROVE  /\ Keyed(new.tables[T])
                 /\ Name(e, "cdc_feed") \in DOMAIN new.tables
                 /\ new.tables[Name(e, "cdc_feed")] = FeedOf(w)
      <3>1. T # Name(e, "cdc_feed")
        <4>1. T = Name(e, "orders")
          BY <1>2, <2>4 DEF Target
        <4> QED
          BY <4>1 DEF Name
      <3>2. /\ Name(e, "cdc_feed") \in DOMAIN d.tables /\ d.tables[Name(e, "cdc_feed")] = FeedOf(w)
            /\ Keyed(b)
        BY <1>2, <1>3, <2>4 DEF Ready
      <3>3. Keyed(MeasuredTo(w, k, b))
        <4>1. Keyed(CrudInsert(b)) /\ Keyed(CrudUpdate(b)) /\ Keyed(CrudDelete(b))
          BY <3>2, InsertKeyed, UpdateKeyed
        <4>2. Fed(FeedOf(w))
          BY <2>4, SourceKeyed, CrudFeedFed DEF FeedOf, Start
        <4>3. Keyed(CrudMerge(b, FeedOf(w)))
          BY <3>2, <4>2, MergeKeyed
        <4> QED
          BY <2>4, <4>1, <4>3 DEF MeasuredTo
      <3> QED
        BY <2>1, <2>2, <2>3, <3>1, <3>2, <3>3
    <2>5. ASSUME w = "merge_cdc"
          PROVE  /\ e = "spark" /\ Rows(new.tables[T])
                 /\ Plain("cdc_changes") \in DOMAIN new.tables
                 /\ new.tables[Plain("cdc_changes")] = FeedOf(w)
      <3>1. /\ e = "spark" /\ Rows(b)
            /\ Plain("cdc_changes") \in DOMAIN d.tables
            /\ d.tables[Plain("cdc_changes")] = FeedOf(w)
        BY <1>2, <1>3, <2>5 DEF Ready
      <3>2. T # Plain("cdc_changes")
        BY <1>6, <1>7, <2>5, <3>1
      <3>3. Rows(CdcMerge(b, FeedOf(w)))
        BY <3>1, CdcTwice
      <3>4. MeasuredTo(w, k, b) = CdcMerge(b, FeedOf(w))
        BY <2>5 DEF MeasuredTo
      <3> QED
        BY <2>1, <2>2, <2>3, <3>1, <3>2, <3>3, <3>4
    <2> QED
      BY <1>2, <2>3, <2>4, <2>5 DEF Ready
  <1> QED
    BY <1>1, <1>2, <1>3, <1>5, <1>10, <1>11, <1>12

(* A repetition of the steps that are idempotent changes nothing.          *)
Idempotent(w, k) == w = "merge_cdc" \/ (w = "crud" /\ k > 1)
LEMMA TwiceIsOnce ==
  ASSUME NEW w, NEW k \in 1 .. 4, Idempotent(w, k), NEW b, Rows(b)
  PROVE  MeasuredTo(w, k, MeasuredTo(w, k, b)) = MeasuredTo(w, k, b)
  <1>1. FiniteBag(b)
    BY DEF Rows
  <1>2. CASE w = "crud"
    <2>1. Fed(FeedOf(w))
      BY <1>2, SourceKeyed, CrudFeedFed DEF FeedOf, Start
    <2>2. CASE k = 2
      BY <1>2, <2>2, UpdateTwice DEF MeasuredTo
    <2>3. CASE k = 3
      BY <1>1, <1>2, <2>3, DeleteTwice DEF MeasuredTo
    <2>4. CASE k = 4
      BY <1>2, <2>1, <2>4, MergeTwice DEF MeasuredTo
    <2>5. k = 2 \/ k = 3 \/ k = 4
      BY <1>2 DEF Idempotent
    <2> QED
      BY <2>2, <2>3, <2>4, <2>5
  <1>3. CASE w = "merge_cdc"
    BY <1>3, CdcTwice DEF MeasuredTo
  <1> QED
    BY <1>2, <1>3 DEF Idempotent

(* A statement that leaves the content of its table leaves the database.   *)
LEMMA EffectSame ==
  ASSUME NEW d, d = [zones |-> d.zones, tables |-> d.tables],
         d.tables = [n \in DOMAIN d.tables |-> d.tables[n]],
         NEW s, Writing(s), s.name \in DOMAIN d.tables, Content(d, s) = d.tables[s.name]
  PROVE  Effect(d, s) = d
  <1>1. Effect(d, s) = [d EXCEPT !.tables = [n \in DOMAIN d.tables \union {s.name} |->
                                 IF n = s.name THEN Content(d, s) ELSE d.tables[n]]]
    BY DEF Effect, Writing
  <1>2. [n \in DOMAIN d.tables \union {s.name} |-> IF n = s.name THEN Content(d, s) ELSE d.tables[n]]
          = d.tables
    <2>1. DOMAIN d.tables \union {s.name} = DOMAIN d.tables
      OBVIOUS
    <2>2. [n \in DOMAIN d.tables |-> IF n = s.name THEN Content(d, s) ELSE d.tables[n]]
            = [n \in DOMAIN d.tables |-> d.tables[n]]
      OBVIOUS
    <2> QED
      BY <2>1, <2>2
  <1>3. Effect(d, s) = [d EXCEPT !.tables = d.tables]
    BY <1>1, <1>2
  <1> QED
    BY <1>3

(* The tables of a database stay a function.                               *)
LEMMA TablesStay ==
  ASSUME NEW d, d = [zones |-> d.zones, tables |-> d.tables],
         d.tables = [n \in DOMAIN d.tables |-> d.tables[n]], NEW s
  PROVE  LET new == Effect(d, s) IN new.tables = [n \in DOMAIN new.tables |-> new.tables[n]]
  <1>1. PICK new : new = Effect(d, s)
    OBVIOUS
  <1>2. CASE s.op = "nothing"
    <2>1. new = d
      BY <1>1, <1>2, EffectIs
    <2> QED
      BY <1>1, <2>1
  <1>3. CASE s.op = "zone"
    <2>1. new.tables = d.tables
      BY <1>1, <1>3, EffectIs
    <2> QED
      BY <1>1, <2>1
  <1>4. CASE s.op \in {"drop", "drop it"}
    <2>1. Effect(d, s) = [d EXCEPT !.tables = [n \in DOMAIN d.tables \ {s.name} |-> d.tables[n]]]
      BY <1>4 DEF Effect
    <2>2. new.tables = [n \in DOMAIN d.tables \ {s.name} |-> d.tables[n]]
      BY <1>1, <2>1
    <2> QED
      BY <1>1, <2>2
  <1>5. CASE Writing(s)
    <2>1. Effect(d, s) = [d EXCEPT !.tables = [n \in DOMAIN d.tables \union {s.name} |->
                                   IF n = s.name THEN Content(d, s) ELSE d.tables[n]]]
      BY <1>5 DEF Effect, Writing
    <2>2. new.tables = [n \in DOMAIN d.tables \union {s.name} |->
                          IF n = s.name THEN Content(d, s) ELSE d.tables[n]]
      BY <1>1, <2>1
    <2> QED
      BY <1>1, <2>2
  <1> QED
    BY <1>2, <1>3, <1>4, <1>5 DEF Writing

(* The tables that the repetitions of the measured steps make, one from    *)
(* the other: p[<<j, i>>] is the one that repetition i of step j finds.    *)
Path(w, k, r, p) ==
  /\ p[<<1, 1>>] = Start(w)
  /\ \A j \in 1 .. k : \A i \in 1 .. Runs[w] :
       j < k \/ i <= r =>
         /\ i > 1 => p[<<j, i>>] = MeasuredTo(w, j, p[<<j, i - 1>>])
         /\ i = 1 /\ j > 1 => p[<<j, i>>] = MeasuredTo(w, j - 1, p[<<j - 1, Runs[w]>>])
Reached(w, k, r, b) == \E p : Path(w, k, r, p) /\ b = p[<<k, r>>]

(* The first repetition finds what was loaded.                             *)
LEMMA ReachedFirst ==
  ASSUME NEW w \in Workloads
  PROVE  Reached(w, 1, 1, Start(w))
  <1> DEFINE p == [x \in {<<1, 1>>} |-> Start(w)]
  <1>1. p[<<1, 1>>] = Start(w)
    OBVIOUS
  <1> HIDE DEF p
  <1>2. Runs[w] \in Nat \ {0}
    BY WritesAssumption DEF WritesAssumption
  <1>3. \A j \in 1 .. 1 : \A i \in 1 .. Runs[w] : j < 1 \/ i <= 1 => ~(i > 1) /\ ~(i = 1 /\ j > 1)
    BY <1>2
  <1>4. Path(w, 1, 1, p)
    BY <1>1, <1>3 DEF Path
  <1> QED
    BY <1>1, <1>4 DEF Reached

(* The next one finds what a repetition makes.                             *)
LEMMA ReachedNext ==
  ASSUME NEW w \in Workloads, NEW k \in Nat \ {0}, NEW r \in 1 .. Runs[w], NEW b, Reached(w, k, r, b)
  PROVE  /\ r < Runs[w] => Reached(w, k, r + 1, MeasuredTo(w, k, b))
         /\ r = Runs[w] => Reached(w, k + 1, 1, MeasuredTo(w, k, b))
  <1>1. Runs[w] \in Nat \ {0}
    BY WritesAssumption DEF WritesAssumption
  <1>2. PICK p : Path(w, k, r, p) /\ b = p[<<k, r>>]
    BY DEF Reached
  <1>3. PICK new : new = MeasuredTo(w, k, b)
    OBVIOUS
  <1>4. p[<<1, 1>>] = Start(w)
    BY <1>2 DEF Path
  <1>5. ASSUME NEW j \in 1 .. k, NEW i \in 1 .. Runs[w], j < k \/ i <= r
        PROVE  /\ i > 1 => p[<<j, i>>] = MeasuredTo(w, j, p[<<j, i - 1>>])
               /\ i = 1 /\ j > 1 => p[<<j, i>>] = MeasuredTo(w, j - 1, p[<<j - 1, Runs[w]>>])
    BY <1>2, <1>5 DEF Path
  <1>6. \A a, c, d, e : <<a, c>> = <<d, e>> <=> a = d /\ c = e
    OBVIOUS
  <1>7. ASSUME r < Runs[w] PROVE Reached(w, k, r + 1, new)
    <2> DEFINE q == [x \in Nat \X Nat |-> IF x = <<k, r + 1>> THEN new ELSE p[x]]
    <2>1. \A j, i \in Nat : q[<<j, i>>] = IF j = k /\ i = r + 1 THEN new ELSE p[<<j, i>>]
      BY <1>6
    <2> HIDE DEF q
    <2>2. q[<<1, 1>>] = Start(w)
      BY <1>4, <2>1
    <2>3. q[<<k, r + 1>>] = new
      BY <2>1
    <2>4. ASSUME NEW j \in 1 .. k, NEW i \in 1 .. Runs[w], j < k \/ i <= r + 1
          PROVE  /\ i > 1 => q[<<j, i>>] = MeasuredTo(w, j, q[<<j, i - 1>>])
                 /\ i = 1 /\ j > 1 => q[<<j, i>>] = MeasuredTo(w, j - 1, q[<<j - 1, Runs[w]>>])
      <3>1. j \in Nat /\ i \in Nat /\ i - 1 \in Int /\ j - 1 \in Int
        OBVIOUS
      <3>2. CASE j = k /\ i = r + 1
        <4>1. i > 1 /\ i - 1 = r /\ r \in Nat /\ k \in Nat
          BY <3>2
        <4>2. q[<<k, r>>] = b
          BY <1>2, <2>1, <4>1
        <4> QED
          BY <1>3, <2>3, <3>2, <4>1, <4>2
      <3>3. CASE ~(j = k /\ i = r + 1)
        <4>1. j < k \/ i <= r
          BY <2>4, <3>3
        <4>2. q[<<j, i>>] = p[<<j, i>>]
          BY <2>1, <3>1, <3>3
        <4>3. i > 1 => q[<<j, i - 1>>] = p[<<j, i - 1>>]
          <5> SUFFICES ASSUME i > 1 PROVE q[<<j, i - 1>>] = p[<<j, i - 1>>]
            OBVIOUS
          <5>1. i - 1 \in Nat /\ ~(j = k /\ i - 1 = r + 1)
            BY <4>1
          <5> QED
            BY <2>1, <3>1, <5>1
        <4>4. j > 1 => q[<<j - 1, Runs[w]>>] = p[<<j - 1, Runs[w]>>]
          <5> SUFFICES ASSUME j > 1 PROVE q[<<j - 1, Runs[w]>>] = p[<<j - 1, Runs[w]>>]
            OBVIOUS
          <5>1. j - 1 \in Nat /\ j - 1 # k /\ Runs[w] \in Nat
            BY <1>1
          <5> QED
            BY <2>1, <5>1
        <4>5. /\ i > 1 => p[<<j, i>>] = MeasuredTo(w, j, p[<<j, i - 1>>])
              /\ i = 1 /\ j > 1 => p[<<j, i>>] = MeasuredTo(w, j - 1, p[<<j - 1, Runs[w]>>])
          BY <1>5, <4>1
        <4> QED
          BY <4>2, <4>3, <4>4, <4>5
      <3> QED
        BY <3>2, <3>3
    <2>5. Path(w, k, r + 1, q)
      BY <2>2, <2>4 DEF Path
    <2> QED
      BY <2>3, <2>5 DEF Reached
  <1>8. ASSUME r = Runs[w] PROVE Reached(w, k + 1, 1, new)
    <2> DEFINE q == [x \in Nat \X Nat |-> IF x = <<k + 1, 1>> THEN new ELSE p[x]]
    <2>1. \A j, i \in Nat : q[<<j, i>>] = IF j = k + 1 /\ i = 1 THEN new ELSE p[<<j, i>>]
      BY <1>6
    <2> HIDE DEF q
    <2>2. q[<<1, 1>>] = Start(w)
      <3>1. ~(1 = k + 1)
        OBVIOUS
      <3> QED
        BY <1>4, <2>1, <3>1
    <2>3. q[<<k + 1, 1>>] = new
      BY <2>1
    <2>4. ASSUME NEW j \in 1 .. k + 1, NEW i \in 1 .. Runs[w], j < k + 1 \/ i <= 1
          PROVE  /\ i > 1 => q[<<j, i>>] = MeasuredTo(w, j, q[<<j, i - 1>>])
                 /\ i = 1 /\ j > 1 => q[<<j, i>>] = MeasuredTo(w, j - 1, q[<<j - 1, Runs[w]>>])
      <3>1. j \in Nat /\ i \in Nat /\ i - 1 \in Int /\ j - 1 \in Int
        OBVIOUS
      <3>2. CASE j = k + 1
        <4>1. i = 1 /\ j - 1 = k /\ k \in Nat /\ j - 1 # k + 1 /\ Runs[w] \in Nat
          BY <1>1, <2>4, <3>2
        <4>2. q[<<k, Runs[w]>>] = b
          BY <1>2, <1>8, <2>1, <4>1
        <4> QED
          BY <1>3, <2>3, <3>2, <4>1, <4>2
      <3>3. CASE j # k + 1
        <4>1. j \in 1 .. k /\ (j < k \/ i <= r)
          BY <1>8, <2>4, <3>3
        <4>2. q[<<j, i>>] = p[<<j, i>>]
          BY <2>1, <3>1, <3>3
        <4>3. i > 1 => q[<<j, i - 1>>] = p[<<j, i - 1>>]
          <5> SUFFICES ASSUME i > 1 PROVE q[<<j, i - 1>>] = p[<<j, i - 1>>]
            OBVIOUS
          <5>1. i - 1 \in Nat
            OBVIOUS
          <5> QED
            BY <2>1, <3>1, <3>3, <5>1
        <4>4. j > 1 => q[<<j - 1, Runs[w]>>] = p[<<j - 1, Runs[w]>>]
          <5> SUFFICES ASSUME j > 1 PROVE q[<<j - 1, Runs[w]>>] = p[<<j - 1, Runs[w]>>]
            OBVIOUS
          <5>1. j - 1 \in Nat /\ j - 1 # k + 1 /\ Runs[w] \in Nat
            BY <1>1, <4>1
          <5> QED
            BY <2>1, <5>1
        <4>5. /\ i > 1 => p[<<j, i>>] = MeasuredTo(w, j, p[<<j, i - 1>>])
              /\ i = 1 /\ j > 1 => p[<<j, i>>] = MeasuredTo(w, j - 1, p[<<j - 1, Runs[w]>>])
          BY <1>5, <4>1
        <4> QED
          BY <4>2, <4>3, <4>4, <4>5
      <3> QED
        BY <3>2, <3>3
    <2>5. Path(w, k + 1, 1, q)
      BY <2>2, <2>4 DEF Path
    <2> QED
      BY <2>3, <2>5 DEF Reached
  <1> QED
    BY <1>3, <1>7, <1>8

(* There is one such table: of two paths that part, the first place where  *)
(* they do has one before it where they do not.                            *)
LEMMA ReachedOnce ==
  ASSUME NEW w \in Workloads, NEW k \in Nat \ {0}, NEW r \in 1 .. Runs[w],
         NEW b, Reached(w, k, r, b), NEW c, Reached(w, k, r, c)
  PROVE  b = c
  <1>1. Runs[w] \in Nat \ {0}
    BY WritesAssumption DEF WritesAssumption
  <1>2. PICK p : Path(w, k, r, p) /\ b = p[<<k, r>>]
    BY DEF Reached
  <1>3. PICK q : Path(w, k, r, q) /\ c = q[<<k, r>>]
    BY DEF Reached
  <1> DEFINE Apart(j) == {i \in 1 .. Runs[w] : (j < k \/ i <= r) /\ p[<<j, i>>] # q[<<j, i>>]}
             A == {j \in 1 .. k : Apart(j) # {}}
  <1>4. A = {}
    <2> SUFFICES ASSUME A # {} PROVE FALSE
      OBVIOUS
    <2>1. A \subseteq Nat
      OBVIOUS
    <2>2. PICK j \in A : \A m \in A : j <= m
      <3> HIDE DEF A
      <3> QED
        BY <2>1, Least
    <2>3. j \in 1 .. k /\ Apart(j) # {} /\ Apart(j) \subseteq Nat
      BY <2>2
    <2>4. PICK i \in Apart(j) : \A m \in Apart(j) : i <= m
      <3> HIDE DEF Apart
      <3> QED
        BY <2>3, Least
    <2>5. i \in 1 .. Runs[w] /\ (j < k \/ i <= r) /\ p[<<j, i>>] # q[<<j, i>>]
      BY <2>4
    <2>6. /\ i > 1 => p[<<j, i>>] = MeasuredTo(w, j, p[<<j, i - 1>>])
          /\ i = 1 /\ j > 1 => p[<<j, i>>] = MeasuredTo(w, j - 1, p[<<j - 1, Runs[w]>>])
          /\ p[<<1, 1>>] = Start(w)
      BY <1>2, <2>3, <2>5 DEF Path
    <2>7. /\ i > 1 => q[<<j, i>>] = MeasuredTo(w, j, q[<<j, i - 1>>])
          /\ i = 1 /\ j > 1 => q[<<j, i>>] = MeasuredTo(w, j - 1, q[<<j - 1, Runs[w]>>])
          /\ q[<<1, 1>>] = Start(w)
      BY <1>3, <2>3, <2>5 DEF Path
    <2>8. CASE i > 1
      <3>1. i - 1 \in 1 .. Runs[w] /\ (j < k \/ i - 1 <= r) /\ ~(i <= i - 1)
        BY <1>1, <2>5, <2>8
      <3>2. i - 1 \notin Apart(j)
        <4> HIDE DEF Apart
        <4> QED
          BY <2>4, <3>1
      <3>3. p[<<j, i - 1>>] = q[<<j, i - 1>>]
        BY <3>1, <3>2
      <3> QED
        BY <2>5, <2>6, <2>7, <2>8, <3>3
    <2>9. CASE i = 1 /\ j > 1
      <3>1. j - 1 \in 1 .. k /\ j - 1 < k /\ ~(j <= j - 1) /\ Runs[w] \in 1 .. Runs[w]
        BY <1>1, <2>3, <2>9
      <3>2. j - 1 \notin A
        <4> HIDE DEF A
        <4> QED
          BY <2>2, <3>1
      <3>3. Apart(j - 1) = {}
        <4> HIDE DEF Apart
        <4> QED
          BY <3>1, <3>2
      <3>4. p[<<j - 1, Runs[w]>>] = q[<<j - 1, Runs[w]>>]
        BY <3>1, <3>3
      <3> QED
        BY <2>5, <2>6, <2>7, <2>9, <3>4
    <2>10. CASE i = 1 /\ j = 1
      BY <2>5, <2>6, <2>7, <2>10
    <2>11. i > 1 \/ (i = 1 /\ j > 1) \/ (i = 1 /\ j = 1)
      BY <1>1, <2>3, <2>5
    <2> QED
      BY <2>8, <2>9, <2>10, <2>11
  <1>5. k \in 1 .. k /\ r <= r
    BY <1>1
  <1>6. Apart(k) = {}
    <2> HIDE DEF Apart
    <2> QED
      BY <1>4, <1>5
  <1>7. r \notin Apart(k)
    BY <1>6
  <1>8. p[<<k, r>>] = q[<<k, r>>]
    BY <1>5, <1>7
  <1> QED
    BY <1>2, <1>3, <1>8

-----------------------------------------------------------------------------
(***************************************************************************)
(* The measured steps: a second inductive invariant, on top of the first   *)
(***************************************************************************)

(* The tables of every database are a function.                            *)
TablesInv ==
  \A e \in Engines : db[e].tables = [n \in DOMAIN db[e].tables |-> db[e].tables[n]]

(* While it measures, a workload has the tables that it needs, and if all  *)
(* its statements were executed the one that is measured is the one that   *)
(* the repetitions so far make.                                            *)
At(e, w, k, r, d) ==
  /\ Reached(w, k, r, d.tables[Target(e, w)])
  /\ r > 1 /\ Idempotent(w, k) => MeasuredTo(w, k, d.tables[Target(e, w)]) = d.tables[Target(e, w)]
MeasureInv ==
  phase = "measure" /\ wl \in Loaded /\ ~disturbed =>
    /\ Ready(eng, wl, db[eng])
    /\ clean /\ ~Refused(eng, wl) => At(eng, wl, step, rep, db[eng])

(* Its orders keep their key to the end.                                   *)
OrdersKeyed(e, d) == Name(e, "orders") \in DOMAIN d.tables => Keyed(d.tables[Name(e, "orders")])
KeysInv ==
  phase = "cleanup" /\ wl = "crud" /\ ~disturbed => OrdersKeyed(eng, db[eng])

(* What was recorded of it is the one that they all make.                  *)
FinalInv ==
  \A x \in DOMAIN final :
    x[2] \in Loaded =>
      Reached(x[2], Len(Measured("spark", x[2])) + 1, 1, final[x][Target(x[1], x[2])])

JInv == TablesInv /\ MeasureInv /\ KeysInv /\ FinalInv

(* The measured statement at hand.                                         *)
LEMMA MeasureExecutes ==
  ASSUME IInv, MeasureInv, phase = "measure", wl \in Loaded, ~disturbed
  PROVE  LET d   == db[eng]
             T   == Target(eng, wl)
             new == Effect(d, Statement)
         IN  /\ eng \in Engines /\ wl \in Workloads /\ Good(eng, d)
             /\ step \in 1 .. Len(Measured(eng, wl)) /\ rep \in 1 .. Runs[wl]
             /\ Len(Measured(eng, wl)) \in Nat /\ Len(Measured(eng, wl)) = Len(Measured("spark", wl))
             /\ Idempotent(wl, step) => step \in 1 .. 4 /\ Rows(d.tables[T])
             /\ Len(Script) = 1 /\ stmt = 1 /\ Ready(eng, wl, d)
             /\ Legal(d, Statement) <=> ~Refused(eng, wl)
             /\ Legal(d, Statement) => /\ Statement.name = T /\ Writing(Statement)
                                       /\ T \in DOMAIN d.tables
                                       /\ Content(d, Statement) = MeasuredTo(wl, step, d.tables[T])
                                       /\ new.tables[T] = MeasuredTo(wl, step, d.tables[T])
                                       /\ Ready(eng, wl, new)
  <1>1. /\ eng \in Engines /\ wl \in Workloads /\ Good(eng, db[eng]) /\ rep \in 1 .. Runs[wl]
        /\ PlaceInv
    BY DEF IInv, PlaceInv, DbInv
  <1>2. /\ step \in 1 .. Len(Measured(eng, wl)) /\ Script = Measured(eng, wl)[step]
        /\ stmt \in 1 .. Len(Script) /\ Statement = Measured(eng, wl)[step][stmt]
    BY <1>1, StatementIs
  <1>3. Ready(eng, wl, db[eng])
    BY DEF MeasureInv
  <1>4. /\ Len(Measured(eng, wl)) \in Nat /\ Len(Measured(eng, wl)[step]) = 1
        /\ Len(Measured(eng, wl)) = Len(Measured("spark", wl))
        /\ MeasuredAs(eng, wl, step, Measured(eng, wl)[step][1])
    BY <1>1, <1>2, MeasuredOne
  <1>5. Len(Script) = 1 /\ stmt = 1
    <2>1. Len(Script) = 1
      BY <1>2, <1>4
    <2>2. stmt \in 1 .. 1
      BY <1>2, <2>1
    <2> QED
      BY <2>1, <2>2
  <1>6. PICK d, s, T, k : d = db[eng] /\ s = Statement /\ T = Target(eng, wl) /\ k = step
    OBVIOUS
  <1>7. s = Measured(eng, wl)[k][1] /\ k \in 1 .. Len(Measured(eng, wl))
    BY <1>2, <1>5, <1>6
  <1>8. /\ Legal(d, s) <=> ~Refused(eng, wl)
        /\ Legal(d, s) => /\ s.name = T /\ Writing(s) /\ T \in DOMAIN d.tables
                          /\ Content(d, s) = MeasuredTo(wl, k, d.tables[T])
                          /\ Effect(d, s).tables[T] = MeasuredTo(wl, k, d.tables[T])
                          /\ Ready(eng, wl, Effect(d, s))
    BY <1>1, <1>3, <1>6, <1>7, MeasuredDoes
  <1>9. Idempotent(wl, step) => step \in 1 .. 4 /\ Rows(db[eng].tables[Target(eng, wl)])
    <2>1. CASE wl = "crud"
      <3>1. step \in 1 .. 4
        BY <1>4, <2>1 DEF MeasuredAs
      <3>2. Target(eng, wl) = Name(eng, "orders") /\ Target(eng, wl) \in DOMAIN db[eng].tables
        BY <1>3, <2>1 DEF Target, Ready
      <3>3. Rows(db[eng].tables[Target(eng, wl)])
        BY <1>3, <2>1, KeyedRows DEF Ready
      <3> QED
        BY <3>1, <3>3
    <2>2. CASE wl = "merge_cdc"
      <3>1. step = 1
        BY <1>4, <2>2 DEF MeasuredAs
      <3>2. Rows(db[eng].tables[Target(eng, wl)])
        BY <1>3, <2>2 DEF Ready
      <3> QED
        BY <3>1, <3>2
    <2> QED
      BY <2>1, <2>2 DEF Idempotent
  <1> QED
    BY <1>1, <1>2, <1>3, <1>4, <1>5, <1>6, <1>8, <1>9

(* Where it leads.                                                         *)
LEMMA MeasureLeads ==
  ASSUME IInv, phase = "measure", wl \in Loaded, StepOver
  PROVE  LET L == Len(Measured(eng, wl))
         IN  /\ \/ rep < Runs[wl] /\ phase' = "measure" /\ step' = step /\ rep' = rep + 1
                \/ rep = Runs[wl] /\ step < L /\ phase' = "measure" /\ step' = step + 1 /\ rep' = 1
                \/ rep = Runs[wl] /\ step = L /\ phase' = "cleanup"
             /\ Measuring <=> rep = Runs[wl] /\ step = L
  <1>1. /\ eng \in Engines /\ wl \in Workloads
        /\ step \in 1 .. Len(Measured(eng, wl)) /\ rep \in 1 .. Runs[wl]
        /\ Len(Measured(eng, wl)) \in Nat
    <2>1. PlaceInv /\ eng \in Engines /\ wl \in Workloads /\ rep \in 1 .. Runs[wl]
      BY DEF IInv, PlaceInv
    <2>2. step \in 1 .. Len(Measured(eng, wl))
      BY <2>1, StatementIs
    <2> QED
      BY <2>1, <2>2, MeasuredOne
  <1>2. Steps(phase) = Measured(eng, wl) /\ Steps("measure") = Measured(eng, wl)
    BY DEF Steps
  <1>3. Runs[wl] \in Nat \ {0}
    BY <1>1, WritesAssumption DEF WritesAssumption
  <1>4. CASE rep < Runs[wl]
    BY <1>1, <1>2, <1>3, <1>4 DEF StepOver, Goto, Measuring
  <1>5. CASE ~(rep < Runs[wl])
    <2>1. rep = Runs[wl]
      BY <1>1, <1>3, <1>5
    <2>2. CASE step < Len(Measured(eng, wl))
      BY <1>1, <1>2, <1>5, <2>1, <2>2 DEF StepOver, Goto, Measuring
    <2>3. CASE ~(step < Len(Measured(eng, wl)))
      <3>1. step = Len(Measured(eng, wl))
        BY <1>1, <2>3
      <3>2. phase' = PhaseAfter["measure"]
        BY <1>2, <1>5, <2>3 DEF StepOver, Goto
      <3> QED
        BY <1>2, <2>1, <3>1, <3>2 DEF PhaseAfter, Measuring
    <2> QED
      BY <2>2, <2>3
  <1> QED
    BY <1>4, <1>5

(* Where measuring begins: after the setup, and for these workloads only   *)
(* there.                                                                  *)
LEMMA MeasureBegins ==
  ASSUME IInv, IInv', [Next]_vars, phase # "measure", phase' = "measure", wl' \in Loaded, ~disturbed'
  PROVE  MeasureInv'
  <1>1. phase = "setup" /\ Execute /\ StepOver
    <2>1. ASSUME NEW e \in Engines, NEW w \in Workloads, Begin(e, w) PROVE FALSE
      <3>1. wl' = w /\ phase' = (IF Setup(e, w) = <<>> THEN "measure" ELSE "setup")
        BY <2>1 DEF Begin, Goto
      <3>2. Setup(e, w) = <<>> /\ w \in Loading
        BY <3>1 DEF Loaded, Loading
      <3> QED
        BY <3>2, SetupShape
    <2>2. ASSUME phase # "idle", StepOver, eng' = eng, wl' = wl PROVE phase = "setup"
      <3>1. PlaceInv
        BY DEF IInv
      <3>2. phase = "cleanup" => phase' \in {"cleanup", "idle"}
        BY <2>2, <3>1, StepOverLeads
      <3> QED
        BY <2>2, <3>1, <3>2 DEF PlaceInv
    <2>3. CASE Execute
      <3>1. phase # "idle" /\ eng' = eng /\ wl' = wl /\ StepOver
        BY <2>3 DEF Execute
      <3> QED
        BY <2>2, <2>3, <3>1
    <2>4. CASE StatementFails
      <3>1. phase # "idle" /\ eng' = eng /\ wl' = wl
        BY <2>4 DEF StatementFails
      <3>2. CASE phase = "setup"
        BY <2>4, <3>2 DEF StatementFails, Goto
      <3>3. CASE phase # "setup"
        BY <2>2, <2>4, <3>1, <3>3 DEF StatementFails
      <3> QED
        BY <3>2, <3>3
    <2>5. CASE Kill
      BY <2>5 DEF Kill, Goto
    <2>6. CASE FailsUnseen
      BY <2>6 DEF FailsUnseen
    <2>7. CASE Land \/ UNCHANGED vars
      BY <2>7 DEF Land, vars, place
    <2> QED
      BY <2>1, <2>3, <2>4, <2>5, <2>6, <2>7 DEF Next
  <1>2. step' = 1 /\ rep' = 1 /\ stmt' = 1
    <2>1. PhaseAfter["setup"] = "measure"
      BY DEF PhaseAfter
    <2> QED
      BY <1>1, <2>1 DEF StepOver, Goto
  <1>3. Restored(eng', wl', db'[eng']) /\ eng' \in Engines /\ wl' \in Workloads
    BY <1>2 DEF IInv, StartInv, PlaceInv
  <1>4. PICK e, w, d : e = eng' /\ w = wl' /\ d = db'[eng']
    OBVIOUS
  <1>5. Ready(e, w, d) /\ d.tables[Target(e, w)] = Start(w)
    BY <1>3, <1>4, RestoredReady
  <1>6. Reached(w, 1, 1, Start(w))
    BY <1>3, <1>4, ReachedFirst
  <1>7. At(e, w, 1, 1, d)
    BY <1>5, <1>6 DEF At
  <1> QED
    BY <1>2, <1>4, <1>5, <1>7 DEF MeasureInv

(* The invariant holds in the beginning.                                   *)
LEMMA MeasureInit ==
  ASSUME Init
  PROVE  JInv
  <1>1. TablesInv
    <2>1. <<>> = [n \in DOMAIN <<>> |-> <<>>[n]]
      OBVIOUS
    <2>2. db = [e \in Engines |-> [zones |-> {""}, tables |-> <<>>]]
      BY DEF Init
    <2>3. \A e \in Engines : db[e].tables = <<>>
      BY <2>2
    <2> QED
      BY <2>1, <2>3 DEF TablesInv
  <1>2. MeasureInv /\ KeysInv /\ FinalInv
    <2>1. phase = "idle" /\ final = <<>>
      BY DEF Init
    <2>2. DOMAIN <<>> = {}
      OBVIOUS
    <2> QED
      BY <2>1, <2>2 DEF MeasureInv, KeysInv, FinalInv
  <1> QED
    BY <1>1, <1>2 DEF JInv

(* Every step leaves functions.                                            *)
LEMMA TablesKeep ==
  ASSUME IInv, TablesInv, [Next]_vars
  PROVE  TablesInv'
  <1>1. \/ db' = db
        \/ \E e \in Engines : \E s : db' = [db EXCEPT ![e] = Effect(db[e], s)]
    BY DEF Next, Begin, Execute, StatementFails, FailsUnseen, Land, Kill, vars, place, IInv,
           PlaceInv, Engines
  <1>2. CASE db' = db
    BY <1>2 DEF TablesInv
  <1>3. ASSUME NEW e \in Engines, NEW s, db' = [db EXCEPT ![e] = Effect(db[e], s)]
        PROVE  TablesInv'
    <2>1. db = [f \in Engines |-> db[f]] /\ Good(e, db[e])
      BY DEF IInv, DbInv
    <2>2. db'[e] = Effect(db[e], s) /\ \A f \in Engines \ {e} : db'[f] = db[f]
      BY <1>3, <2>1
    <2>3. PICK d, new : d = db[e] /\ new = db'[e]
      OBVIOUS
    <2>4. d = [zones |-> d.zones, tables |-> d.tables]
      BY <2>1, <2>3 DEF Good, Database
    <2>5. d.tables = [n \in DOMAIN d.tables |-> d.tables[n]]
      BY <2>3 DEF TablesInv
    <2>6. new = Effect(d, s)
      BY <2>2, <2>3
    <2>7. new.tables = [n \in DOMAIN new.tables |-> new.tables[n]]
      BY ONLY <2>4, <2>5, <2>6, TablesStay
    <2>8. \A f \in Engines \ {e} : db'[f].tables = [n \in DOMAIN db'[f].tables |-> db'[f].tables[n]]
      BY <2>2 DEF TablesInv
    <2> QED
      BY <2>3, <2>7, <2>8 DEF TablesInv
  <1> QED
    BY <1>1, <1>2, <1>3

(* A measured statement is executed: its step is over, and the tables are  *)
(* those of the next repetition, of the next step or of the end.           *)
LEMMA MeasuredKeeps ==
  ASSUME IInv, IInv', MeasureInv, FinalInv, Execute, phase = "measure", wl \in Loaded, ~disturbed
  PROVE  MeasureInv' /\ FinalInv'
  <1>1. /\ Legal(db[eng], Statement) /\ eng' = eng /\ wl' = wl /\ clean' = clean
        /\ db' = [db EXCEPT ![eng] = Effect(db[eng], Statement)]
    BY DEF Execute
  <1>2. PICK e, w, k, r, d, T, new, L :
          /\ e = eng /\ w = wl /\ k = step /\ r = rep /\ d = db[eng] /\ T = Target(eng, wl)
          /\ new = Effect(db[eng], Statement) /\ L = Len(Measured(eng, wl))
    OBVIOUS
  <1>3. /\ e \in Engines /\ w \in Workloads /\ w \in Loaded /\ k \in 1 .. L /\ r \in 1 .. Runs[w]
        /\ L \in Nat /\ L = Len(Measured("spark", w)) /\ Len(Script) = 1 /\ stmt = 1
        /\ Idempotent(w, k) => k \in 1 .. 4 /\ Rows(d.tables[T])
    BY <1>2, MeasureExecutes
  <1>4. /\ ~Refused(e, w) /\ new.tables[T] = MeasuredTo(w, k, d.tables[T]) /\ Ready(e, w, new)
    BY <1>1, <1>2, MeasureExecutes
  <1>5. db'[eng] = new
    BY <1>1, <1>2, <1>3 DEF IInv, DbInv
  <1>6. /\ StepOver
        /\ final' = IF Measuring /\ clean
                    THEN [x \in DOMAIN final \cup {<<eng, wl>>} |->
                            IF x = <<eng, wl>> THEN db'[eng].tables ELSE final[x]]
                    ELSE final
    <2>1. ~(stmt < Len(Script))
      BY <1>3
    <2> QED
      BY <2>1 DEF Execute
  <1>7. /\ \/ r < Runs[w] /\ phase' = "measure" /\ step' = k /\ rep' = r + 1
           \/ r = Runs[w] /\ k < L /\ phase' = "measure" /\ step' = k + 1 /\ rep' = 1
           \/ r = Runs[w] /\ k = L /\ phase' = "cleanup"
        /\ Measuring <=> r = Runs[w] /\ k = L
    BY <1>2, <1>6, MeasureLeads
  <1>8. clean => Reached(w, k, r, d.tables[T])
    BY <1>2, <1>4 DEF MeasureInv, At
  <1>9. /\ clean /\ r < Runs[w] => Reached(w, k, r + 1, new.tables[T])
        /\ clean /\ r = Runs[w] => Reached(w, k + 1, 1, new.tables[T])
    <2>1. k \in Nat \ {0}
      BY <1>3
    <2> QED
      BY <1>3, <1>4, <1>8, <2>1, ReachedNext
  <1>10. Idempotent(w, k) => MeasuredTo(w, k, new.tables[T]) = new.tables[T]
    BY <1>3, <1>4, TwiceIsOnce
  <1>11. MeasureInv'
    <2> SUFFICES ASSUME phase' = "measure"
                 PROVE  Ready(e, w, new) /\ (clean => At(e, w, step', rep', new))
      BY <1>1, <1>2, <1>5 DEF MeasureInv
    <2>1. CASE r < Runs[w] /\ step' = k /\ rep' = r + 1
      BY <1>2, <1>4, <1>9, <1>10, <2>1 DEF At
    <2>2. CASE r = Runs[w] /\ step' = k + 1 /\ rep' = 1
      BY <1>2, <1>4, <1>9, <2>2 DEF At
    <2> QED
      BY <1>7, <2>1, <2>2
  <1>12. FinalInv'
    <2>1. CASE Measuring /\ clean
      <3>1. PICK y : y = <<eng, wl>>
        OBVIOUS
      <3>2. y[1] = e /\ y[2] = w
        BY <1>2, <3>1
      <3>3. final' = [x \in DOMAIN final \cup {y} |-> IF x = y THEN new.tables ELSE final[x]]
        BY <1>5, <1>6, <2>1, <3>1
      <3>4. Reached(w, L + 1, 1, new.tables[T])
        BY <1>7, <1>9, <2>1
      <3>5. ASSUME NEW x \in DOMAIN final', x[2] \in Loaded
            PROVE  Reached(x[2], Len(Measured("spark", x[2])) + 1, 1, final'[x][Target(x[1], x[2])])
        <4>1. CASE x = y
          <5>1. final'[x] = new.tables
            BY <3>3, <4>1
          <5> QED
            BY <1>2, <1>3, <3>2, <3>4, <4>1, <5>1
        <4>2. CASE x # y
          <5>1. x \in DOMAIN final /\ final'[x] = final[x]
            BY <3>3, <4>2
          <5> QED
            BY <3>5, <5>1 DEF FinalInv
        <4> QED
          BY <4>1, <4>2
      <3> QED
        BY <3>5 DEF FinalInv
    <2>2. CASE ~(Measuring /\ clean)
      BY <1>6, <2>2 DEF FinalInv
    <2> QED
      BY <2>1, <2>2
  <1> QED
    BY <1>11, <1>12

(* A measured statement fails: one that was legal leaves the workload not  *)
(* clean, and one that was not is refused.                                 *)
LEMMA FailedKeeps ==
  ASSUME IInv, IInv', MeasureInv, StatementFails, phase = "measure", wl \in Loaded, ~disturbed
  PROVE  MeasureInv'
  <1>1. /\ eng' = eng /\ wl' = wl /\ clean' = (clean /\ ~Legal(db[eng], Statement)) /\ StepOver
        /\ \/ db' = db
           \/ /\ Legal(db[eng], Statement)
              /\ db' = [db EXCEPT ![eng] = Effect(db[eng], Statement)]
    BY DEF StatementFails
  <1>2. /\ eng \in Engines /\ Ready(eng, wl, db[eng])
        /\ Legal(db[eng], Statement) <=> ~Refused(eng, wl)
        /\ Legal(db[eng], Statement) => Ready(eng, wl, Effect(db[eng], Statement))
    BY MeasureExecutes
  <1>3. Ready(eng, wl, db'[eng])
    <2>1. CASE db' = db
      BY <1>2, <2>1
    <2>2. CASE /\ Legal(db[eng], Statement)
               /\ db' = [db EXCEPT ![eng] = Effect(db[eng], Statement)]
      <3>1. db'[eng] = Effect(db[eng], Statement)
        BY <1>2, <2>2 DEF IInv, DbInv
      <3> QED
        BY <1>2, <2>2, <3>1
    <2> QED
      BY <1>1, <2>1, <2>2
  <1>4. clean' => Refused(eng, wl)
    BY <1>1, <1>2
  <1> QED
    BY <1>1, <1>3, <1>4 DEF MeasureInv

(* A statement of DeltaForge that is executed late leaves the database of  *)
(* the workload at hand as it was, or disturbs it.                         *)
LEMMA LandApart ==
  ASSUME IInv, Land, ~disturbed'
  PROVE  /\ db'[eng] = db[eng] /\ eng' = eng /\ wl' = wl /\ phase' = phase /\ step' = step
         /\ rep' = rep /\ stmt' = stmt /\ clean' = clean /\ disturbed' = disturbed /\ final' = final
  <1>1. PICK s \in inflight :
          /\ IF Legal(db["df"], s)
             THEN /\ db' = [db EXCEPT !["df"] = Effect(db["df"], s)]
                  /\ clean' = (clean /\ eng # "df")
                  /\ disturbed' = (disturbed \/ eng = "df")
             ELSE UNCHANGED <<db, clean, disturbed>>
          /\ UNCHANGED <<place, outcome, sessions, final>>
    BY DEF Land
  <1>2. DbInv /\ KindsInv /\ eng \in Engines
    BY DEF IInv, PlaceInv
  <1>3. db'[eng] = db[eng] /\ clean' = clean /\ disturbed' = disturbed
    <2>1. CASE Legal(db["df"], s)
      <3>1. eng # "df" /\ ~disturbed
        BY <1>1, <2>1
      <3> QED
        BY <1>1, <1>2, <2>1, <3>1 DEF DbInv, KindsInv
    <2>2. CASE ~Legal(db["df"], s)
      BY <1>1, <2>2
    <2> QED
      BY <2>1, <2>2
  <1> QED
    BY <1>1, <1>3 DEF place

(* A statement leaves the orders their key, measured or of the cleanup,    *)
(* executed or not.                                                        *)
LEMMA OrdersKept ==
  ASSUME IInv, JInv, phase \in {"measure", "cleanup"}, wl = "crud", ~disturbed
  PROVE  /\ OrdersKeyed(eng, db[eng])
         /\ Legal(db[eng], Statement) => OrdersKeyed(eng, Effect(db[eng], Statement))
  <1>1. PlaceInv /\ eng \in Engines /\ wl \in Workloads /\ Good(eng, db[eng])
    BY DEF IInv, PlaceInv, DbInv
  <1>2. CASE phase = "measure"
    <2>1. Ready(eng, wl, db[eng]) /\ (Legal(db[eng], Statement) => Ready(eng, wl, Effect(db[eng], Statement)))
      BY <1>2, MeasureExecutes DEF JInv, Loaded
    <2>2. Target(eng, wl) = Name(eng, "orders") /\ wl \in Loaded
      BY DEF Target, Loaded
    <2>3. ASSUME NEW d, Ready(eng, wl, d) PROVE OrdersKeyed(eng, d)
      BY <2>2, <2>3 DEF Ready, OrdersKeyed
    <2> QED
      BY <2>1, <2>3
  <1>3. CASE phase = "cleanup"
    <2>1. OrdersKeyed(eng, db[eng])
      BY <1>3 DEF JInv, KeysInv
    <2>2. Dropping(Statement)
      <3>1. /\ step \in 1 .. Len(CleanUp(eng, wl)) /\ stmt \in 1 .. Len(CleanUp(eng, wl)[step])
            /\ Statement = CleanUp(eng, wl)[step][stmt]
        BY <1>1, <1>3, StatementIs
      <3> QED
        BY <1>1, <3>1, CleanUpSound DEF Dropping
    <2>3. PICK d, s, new : d = db[eng] /\ s = Statement /\ new = Effect(d, s)
      OBVIOUS
    <2>4. /\ DOMAIN new.tables = DOMAIN d.tables \ {s.name}
          /\ \A n \in DOMAIN d.tables \ {s.name} : new.tables[n] = d.tables[n]
      <3>1. Database(d) /\ Dropping(s)
        BY <1>1, <2>2, <2>3 DEF Good
      <3> QED
        BY <2>3, <3>1, DropDoes
    <2>5. OrdersKeyed(eng, new)
      BY <2>1, <2>3, <2>4 DEF OrdersKeyed
    <2> QED
      BY <2>1, <2>3, <2>5
  <1> QED
    BY <1>2, <1>3

(* And they keep it through the cleanup.                                   *)
LEMMA KeysKeep ==
  ASSUME IInv, JInv, [Next]_vars
  PROVE  KeysInv'
  <1> SUFFICES ASSUME phase' = "cleanup", wl' = "crud", ~disturbed'
               PROVE  OrdersKeyed(eng', db'[eng'])
    BY DEF KeysInv
  <1>1. PlaceInv /\ DbInv
    BY DEF IInv
  <1>2. ASSUME phase # "idle", phase # "setup", eng' = eng, wl' = wl, disturbed' = disturbed,
               \/ db' = db
               \/ /\ Legal(db[eng], Statement)
                  /\ db' = [db EXCEPT ![eng] = Effect(db[eng], Statement)]
        PROVE  OrdersKeyed(eng', db'[eng'])
    <2>1. phase \in {"measure", "cleanup"} /\ eng \in Engines
      BY <1>1, <1>2 DEF PlaceInv
    <2>2. /\ OrdersKeyed(eng, db[eng])
          /\ Legal(db[eng], Statement) => OrdersKeyed(eng, Effect(db[eng], Statement))
      BY <1>2, <2>1, OrdersKept
    <2>3. db'[eng] = db[eng] \/ (Legal(db[eng], Statement) /\ db'[eng] = Effect(db[eng], Statement))
      BY <1>1, <1>2, <2>1 DEF DbInv
    <2>4. OrdersKeyed(eng, db'[eng])
      BY <2>2, <2>3
    <2> QED
      BY <1>2, <2>4
  <1>3. ASSUME phase # "idle", eng' = eng, wl' = wl, StepOver PROVE phase # "setup"
    BY <1>1, <1>3, StepOverLeads
  <1>4. ASSUME NEW e \in Engines, NEW w \in Workloads, Begin(e, w) PROVE FALSE
    BY <1>4 DEF Begin, Goto
  <1>5. CASE Execute
    <2>1. /\ phase # "idle" /\ eng' = eng /\ wl' = wl /\ disturbed' = disturbed
          /\ Legal(db[eng], Statement) /\ db' = [db EXCEPT ![eng] = Effect(db[eng], Statement)]
          /\ phase' = phase \/ StepOver
      BY <1>5 DEF Execute
    <2>2. phase # "setup"
      BY <1>3, <2>1
    <2> QED
      BY <1>2, <2>1, <2>2
  <1>6. CASE StatementFails
    <2>1. /\ phase # "idle" /\ eng' = eng /\ wl' = wl /\ disturbed' = disturbed
          /\ \/ db' = db
             \/ /\ Legal(db[eng], Statement)
                /\ db' = [db EXCEPT ![eng] = Effect(db[eng], Statement)]
      BY <1>6 DEF StatementFails
    <2>2. phase # "setup"
      BY <1>6 DEF StatementFails, Goto
    <2> QED
      BY <1>2, <2>1, <2>2
  <1>7. CASE Land
    <2>1. /\ db'[eng] = db[eng] /\ eng' = eng /\ wl' = wl /\ phase' = phase /\ disturbed' = disturbed
      BY <1>7, LandApart
    <2>2. OrdersKeyed(eng, db[eng])
      BY <2>1 DEF JInv, KeysInv
    <2> QED
      BY <2>1, <2>2
  <1>8. CASE FailsUnseen
    BY <1>8 DEF FailsUnseen
  <1>9. CASE Kill
    BY <1>9 DEF Kill, Goto
  <1>10. CASE UNCHANGED vars
    BY <1>10 DEF vars, place, JInv, KeysInv
  <1> QED
    BY <1>4, <1>5, <1>6, <1>7, <1>8, <1>9, <1>10 DEF Next

(* Every step keeps it.                                                    *)
LEMMA MeasureKeeps ==
  ASSUME IInv, IInv', JInv, [Next]_vars
  PROVE  JInv'
  <1>1. TablesInv /\ MeasureInv /\ FinalInv
    BY DEF JInv
  <1>2. TablesInv' /\ KeysInv'
    BY <1>1, TablesKeep, KeysKeep
  <1>3. CASE phase = "measure" /\ wl \in Loaded /\ ~disturbed
    <2>1. ASSUME NEW e \in Engines, NEW w \in Workloads, Begin(e, w) PROVE FALSE
      BY <1>3, <2>1 DEF Begin
    <2>2. CASE Execute
      BY <1>1, <1>2, <1>3, <2>2, MeasuredKeeps DEF JInv
    <2>3. CASE StatementFails
      <3>1. final' = final
        BY <2>3 DEF StatementFails
      <3>2. MeasureInv'
        BY <1>1, <1>3, <2>3, FailedKeeps
      <3> QED
        BY <1>1, <1>2, <3>1, <3>2 DEF JInv, FinalInv
    <2>4. CASE Kill
      BY <1>1, <1>2, <2>4 DEF Kill, Goto, JInv, MeasureInv, FinalInv
    <2>5. CASE FailsUnseen
      BY <1>1, <1>2, <2>5 DEF FailsUnseen, JInv, MeasureInv, FinalInv
    <2>6. CASE Land
      <3>1. final' = final
        BY <2>6 DEF Land
      <3>2. MeasureInv'
        <4>1. CASE disturbed'
          BY <4>1 DEF MeasureInv
        <4>2. CASE ~disturbed'
          BY <1>1, <2>6, <4>2, LandApart DEF MeasureInv
        <4> QED
          BY <4>1, <4>2
      <3> QED
        BY <1>1, <1>2, <3>1, <3>2 DEF JInv, FinalInv
    <2>7. CASE UNCHANGED vars
      BY <1>1, <1>2, <2>7 DEF vars, place, JInv, MeasureInv, FinalInv
    <2> QED
      BY <2>1, <2>2, <2>3, <2>4, <2>5, <2>6, <2>7 DEF Next
  <1>4. CASE ~(phase = "measure" /\ wl \in Loaded /\ ~disturbed)
    <2>1. FinalInv'
      <3>1. final' = final \/ (Execute /\ Measuring /\ clean)
        BY DEF Next, Begin, Execute, StatementFails, FailsUnseen, Land, Kill, vars
      <3>2. CASE final' = final
        BY <1>1, <3>2 DEF FinalInv
      <3>3. CASE Execute /\ Measuring /\ clean
        <4>1. PICK y : y = <<eng, wl>>
          OBVIOUS
        <4>2. y[2] \notin Loaded
          <5>1. ~disturbed
            BY <3>3 DEF IInv, KindsInv
          <5> QED
            BY <1>4, <3>3, <4>1, <5>1 DEF Measuring
        <4>3. \A x \in DOMAIN final' : x # y => x \in DOMAIN final /\ final'[x] = final[x]
          BY <3>3, <4>1 DEF Execute
        <4>4. ASSUME NEW x \in DOMAIN final', x[2] \in Loaded
              PROVE  Reached(x[2], Len(Measured("spark", x[2])) + 1, 1, final'[x][Target(x[1], x[2])])
          <5>1. x \in DOMAIN final /\ final'[x] = final[x]
            BY <4>2, <4>3, <4>4
          <5> QED
            BY <1>1, <4>4, <5>1 DEF FinalInv
        <4> QED
          BY <4>4 DEF FinalInv
      <3> QED
        BY <3>1, <3>2, <3>3
    <2>2. MeasureInv'
      <3> SUFFICES ASSUME phase' = "measure", wl' \in Loaded, ~disturbed' PROVE MeasureInv'
        BY DEF MeasureInv
      <3>1. CASE phase # "measure"
        BY <3>1, MeasureBegins
      <3>2. CASE phase = "measure"
        <4>1. wl' = wl /\ ~disturbed
          <5>1. CASE Land
            BY <5>1, LandApart
          <5>2. ASSUME NEW e \in Engines, NEW w \in Workloads, Begin(e, w) PROVE FALSE
            BY <3>2, <5>2 DEF Begin
          <5> QED
            BY <5>1, <5>2 DEF Next, Execute, StatementFails, FailsUnseen, Kill, vars, place
        <4> QED
          BY <1>4, <3>2, <4>1
      <3> QED
        BY <3>1, <3>2
    <2> QED
      BY <1>2, <2>1, <2>2 DEF JInv
  <1> QED
    BY <1>3, <1>4

-----------------------------------------------------------------------------
(***************************************************************************)
(* The theorems                                                            *)
(***************************************************************************)

(* The invariant is inductive, and holds.                                  *)
THEOREM Invariant == Spec => []IInv
  <1>1. Init => IInv
    BY InitKeeps
  <1>2. IInv /\ [Next]_vars => IInv'
    <2> SUFFICES ASSUME IInv, [Next]_vars PROVE IInv'
      OBVIOUS
    <2>1. ASSUME NEW e \in Engines, NEW w \in Workloads, Begin(e, w) PROVE IInv'
      BY <2>1, BeginKeeps
    <2>2. CASE Execute
      BY <2>2, ExecuteOneKeeps, ExecuteLastKeeps
    <2>3. CASE StatementFails
      BY <2>3, FailsKeeps
    <2>4. CASE Kill
      BY <2>4, KillKeeps
    <2>5. CASE FailsUnseen
      BY <2>5, UnseenKeeps
    <2>6. CASE Land
      BY <2>6, LandKeeps
    <2>7. CASE UNCHANGED vars
      BY <2>7, StutterKeeps
    <2> QED
      BY <2>1, <2>2, <2>3, <2>4, <2>5, <2>6, <2>7 DEF Next
  <1> QED
    BY <1>1, <1>2, PTL DEF Spec

(* The state has its kinds: of every table its zone is there, and the      *)
(* statement at hand is one of the script at hand, whatever failed before. *)
THEOREM TypeCorrect == Spec => []TypeOK
  <1>1. IInv => TypeOK
    <2> SUFFICES ASSUME IInv PROVE TypeOK
      OBVIOUS
    <2>1. DbInv /\ PlaceInv /\ KindsInv
      BY DEF IInv
    <2>2. ASSUME NEW e \in Engines
          PROVE  /\ db[e].zones \subseteq {"", "bench", "bench_ext", "bench_w", "write_zone"}
                 /\ \A n \in DOMAIN db[e].tables : n[1] \in db[e].zones /\ IsABag(db[e].tables[n])
      BY <2>1 DEF DbInv, Good, Database, Zones, FiniteBag
    <2>3. phase # "idle" => step \in 1 .. Len(Steps(phase)) /\ stmt \in 1 .. Len(Script)
      BY <2>1, StatementIs
    <2> QED
      BY <2>1, <2>2, <2>3 DEF PlaceInv, KindsInv, TypeOK
  <1> QED
    BY <1>1, Invariant, PTL

(* The tables of the first measured step are the source's, whatever was    *)
(* left, unless a failure of this very setup went unseen or a late         *)
(* statement was executed in it: _fixtures.py:146-164, crud.py:85-150.     *)
THEOREM Restores == Spec => []SetupRestores
  <1>1. IInv => SetupRestores
    <2> SUFFICES ASSUME IInv, phase = "measure", step = 1, rep = 1, wl \in Loaded, ~disturbed
                 PROVE  LET T == db[eng].tables
                            t == Target(eng, wl)
                        IN /\ T[t] = Source(t)
                           /\ wl = "crud" => T[Name(eng, "cdc_feed")] = CrudFeed(Source(t))
                           /\ wl = "merge_cdc" => T[Plain("cdc_changes")] = CdcFeed(Source(t))
      BY DEF SetupRestores
    <2>1. /\ eng \in Engines /\ wl \in Workloads /\ wl \in Loading
          /\ step \in 1 .. Len(Measured(eng, wl)) /\ stmt \in 1 .. Len(Measured(eng, wl)[step])
      BY StatementIs DEF IInv, PlaceInv, Loaded, Loading
    <2>2. stmt = 1
      <3>1. Len(Measured(eng, wl)[step]) = 1
        BY <2>1, MeasuredShape
      <3>2. stmt \in 1 .. 1
        BY <2>1, <3>1
      <3> QED
        BY <3>2
    <2>3. Restored(eng, wl, db[eng])
      BY <2>2 DEF IInv, StartInv
    <2> QED
      BY <2>3 DEF Restored
  <1> QED
    BY <1>1, Invariant, PTL

(* No setup is refused for what an earlier session left.                   *)
THEOREM NotRefused == Spec => []SetupNotRefused
  <1>1. IInv => SetupNotRefused
    BY SetupExecutes DEF SetupNotRefused
  <1> QED
    BY <1>1, Invariant, PTL

(* A workload that ends with every statement executed leaves no table.     *)
THEOREM NothingLeft == Spec => []LeavesNothing
  <1>1. IInv => LeavesNothing
    BY DEF IInv
  <1> QED
    BY <1>1, Invariant, PTL

(* The measured tables are those that the repetitions make.                *)
THEOREM MeasureInvariant == Spec => []JInv
  <1>1. Init => JInv
    BY MeasureInit
  <1>2. IInv /\ IInv' /\ JInv /\ [Next]_vars => JInv'
    BY MeasureKeeps
  <1> QED
    BY <1>1, <1>2, Invariant, PTL DEF Spec

(* While crud.py runs o_orderkey stays a key, however often its statements *)
(* run and whichever of them fail (crud.py:157).                           *)
THEOREM KeysStayUnique == Spec => []KeysUnique
  <1>1. IInv /\ JInv => KeysUnique
    <2> SUFFICES ASSUME IInv, JInv, wl = "crud", phase \in {"measure", "cleanup"}, ~disturbed,
                        Name(eng, "orders") \in DOMAIN db[eng].tables
                 PROVE  \A r, s \in DOMAIN db[eng].tables[Name(eng, "orders")] :
                          r.key = s.key => r = s /\ db[eng].tables[Name(eng, "orders")][r] = 1
      BY DEF KeysUnique, BagToSet
    <2>1. phase = "measure" => Ready(eng, wl, db[eng])
      BY DEF JInv, MeasureInv, Loaded
    <2>2. phase = "cleanup" => OrdersKeyed(eng, db[eng])
      BY DEF JInv, KeysInv
    <2>3. Keyed(db[eng].tables[Name(eng, "orders")])
      BY <2>1, <2>2 DEF Ready, OrdersKeyed, Target, Loaded
    <2> QED
      BY <2>3 DEF Keyed
  <1> QED
    BY <1>1, Invariant, MeasureInvariant, PTL

(* A workload whose statements were all executed leaves the same rows on   *)
(* both engines and in every session (crud.py:4-5): there is one table     *)
(* that its repetitions make.                                              *)
THEOREM SameEverywhere == Spec => []Reproducible
  <1>1. IInv /\ JInv => Reproducible
    <2> SUFFICES ASSUME IInv, JInv, NEW x \in DOMAIN final, NEW y \in DOMAIN final,
                        x[2] = y[2], x[2] \in Loaded
                 PROVE  final[x][Target(x[1], x[2])] = final[y][Target(y[1], y[2])]
      BY DEF Reproducible
    <2>1. PICK w, L, b, c : /\ w = x[2] /\ L = Len(Measured("spark", w))
                            /\ b = final[x][Target(x[1], x[2])] /\ c = final[y][Target(y[1], y[2])]
      OBVIOUS
    <2>2. Reached(w, L + 1, 1, b) /\ Reached(w, L + 1, 1, c)
      BY <2>1 DEF JInv, FinalInv
    <2>3. w \in Workloads /\ x[1] \in Engines
      BY <2>1 DEF IInv, KindsInv
    <2>4. L \in Nat /\ Runs[w] \in Nat \ {0}
      <3>1. "spark" \in Engines
        BY DEF Engines
      <3> QED
        BY <2>1, <2>3, <3>1, MeasuredShape, WritesAssumption DEF Shape, WritesAssumption
    <2>5. L + 1 \in Nat \ {0} /\ 1 \in 1 .. Runs[w]
      BY <2>4
    <2> QED
      BY <2>1, <2>2, <2>3, <2>5, ReachedOnce
  <1> QED
    BY <1>1, Invariant, MeasureInvariant, PTL

(* The later executions of an UPDATE, a DELETE or a MERGE of crud.py and   *)
(* merge_cdc.py change nothing, against what merge_cdc.py:87-89 expects of *)
(* its warm runs.                                                          *)
THEOREM WarmRunsChangeNothing == Spec => RepeatsChangeNothing
  <1>1. ASSUME IInv, JInv, Next, phase = "measure", rep > 1, clean, clean',
               wl = "merge_cdc" \/ (wl = "crud" /\ step > 1), phase' # "idle"
        PROVE  db'[eng] = db[eng]
    <2>1. /\ wl \in Loaded /\ Idempotent(wl, step) /\ ~Refused(eng, wl) /\ MeasureInv /\ TablesInv
          /\ ~disturbed
      BY <1>1 DEF Loaded, Idempotent, Refused, JInv, IInv, KindsInv
    <2>2. CASE Execute
      <3>1. PICK d, s, T, k : d = db[eng] /\ s = Statement /\ T = Target(eng, wl) /\ k = step
        OBVIOUS
      <3>2. eng \in Engines /\ Good(eng, d) /\ (Legal(d, s) <=> ~Refused(eng, wl))
        BY <1>1, <2>1, <3>1, MeasureExecutes
      <3>3. Legal(d, s) => /\ s.name = T /\ Writing(s) /\ T \in DOMAIN d.tables
                           /\ Content(d, s) = MeasuredTo(wl, k, d.tables[T])
        BY <1>1, <2>1, <3>1, MeasureExecutes
      <3>4. MeasuredTo(wl, k, d.tables[T]) = d.tables[T]
        BY <1>1, <2>1, <3>1 DEF MeasureInv, At
      <3>5. d = [zones |-> d.zones, tables |-> d.tables]
        BY <3>2 DEF Good, Database
      <3>6. d.tables = [n \in DOMAIN d.tables |-> d.tables[n]]
        BY <2>1, <3>1, <3>2 DEF TablesInv
      <3>7. Writing(s) /\ s.name \in DOMAIN d.tables /\ Content(d, s) = d.tables[s.name]
        BY <2>1, <3>2, <3>3, <3>4
      <3>8. Effect(d, s) = d
        BY ONLY <3>5, <3>6, <3>7, EffectSame
      <3>9. db' = [db EXCEPT ![eng] = Effect(db[eng], Statement)] /\ db = [e \in Engines |-> db[e]]
        BY <1>1, <2>2 DEF Execute, IInv, DbInv
      <3> QED
        BY <3>1, <3>2, <3>8, <3>9
    <2>3. CASE StatementFails
      <3>1. ~Legal(db[eng], Statement)
        BY <1>1, <2>3 DEF StatementFails
      <3> QED
        BY <2>3, <3>1 DEF StatementFails
    <2>4. CASE Kill
      BY <2>4 DEF Kill
    <2>5. ASSUME NEW e \in Engines, NEW w \in Workloads, Begin(e, w) PROVE FALSE
      BY <1>1, <2>5 DEF Begin
    <2>6. CASE FailsUnseen
      BY <2>6 DEF FailsUnseen
    <2>7. CASE Land
      <3>1. PICK s \in inflight :
              IF Legal(db["df"], s)
              THEN db' = [db EXCEPT !["df"] = Effect(db["df"], s)] /\ clean' = (clean /\ eng # "df")
              ELSE UNCHANGED <<db, clean, disturbed>>
        BY <2>7 DEF Land
      <3>2. eng \in Engines /\ db = [e \in Engines |-> db[e]]
        BY <1>1 DEF IInv, PlaceInv, DbInv
      <3>3. CASE Legal(db["df"], s)
        BY <1>1, <3>1, <3>2, <3>3
      <3>4. CASE ~Legal(db["df"], s)
        BY <3>1, <3>4
      <3> QED
        BY <3>3, <3>4
    <2> QED
      BY <1>1, <2>2, <2>3, <2>4, <2>5, <2>6, <2>7 DEF Next
  <1>2. IInv /\ JInv /\ [Next]_vars =>
          [phase = "measure" /\ rep > 1 /\ clean /\ clean'
           /\ (wl = "merge_cdc" \/ (wl = "crud" /\ step > 1)) /\ phase' # "idle"
           => db'[eng] = db[eng]]_vars
    BY <1>1
  <1> QED
    BY <1>2, Invariant, MeasureInvariant, PTL DEF Spec, RepeatsChangeNothing

=============================================================================
