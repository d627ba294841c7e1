---------------------------- MODULE MemTable_proofs ---------------------------
(***************************************************************************)
(* Lemmas about the operations on one table: they keep it well formed, and *)
(* they keep every index in agreement with the items when the index key    *)
(* covers the table key.  Before them, induction in the form that these    *)
(* and other proofs use it: about sets of numbers and of sequences.        *)
(***************************************************************************)
EXTENDS MemTable, Integers, WellFoundedInduction, TLAPS

NatLess == {ss \in Nat \X Nat : ss[1] < ss[2]}

LEMMA NatLessWellFounded == IsWellFoundedOn(NatLess, Nat)
BY NatLessThanWellFounded DEF OpToRel, NatLess

(* A set of natural numbers has a smallest element.                        *)
LEMMA SmallestOf ==
  ASSUME NEW T, T \subseteq Nat, T # {}
  PROVE  \E n \in T : \A m \in T : n <= m
<1>1. PICK n \in T : \A m \in T : ~(<<m, n>> \in NatLess)
  BY NatLessWellFounded, WFMin
<1>2. ASSUME NEW m \in T
      PROVE  n <= m
  <2>1. m \in Nat /\ n \in Nat
    OBVIOUS
  <2>2. m < n => <<m, n>> \in NatLess
    BY <2>1 DEF NatLess
  <2>3. ~(m < n)
    BY <1>1, <2>2
  <2> QED BY <2>1, <2>3
<1> QED BY <1>2

(* A set that has zero and the successors of its numbers has them all.     *)
LEMMA SetInduction ==
  ASSUME NEW T, 0 \in T, \A n \in Nat : n \in T => n + 1 \in T
  PROVE  Nat \subseteq T
<1> SUFFICES ASSUME Nat \ T # {}
             PROVE  FALSE
  OBVIOUS
<1>1. PICK n \in Nat \ T : \A m \in Nat \ T : n <= m
  BY SmallestOf
<1>2. n # 0 /\ n - 1 \in Nat /\ n - 1 < n /\ (n - 1) + 1 = n
  BY <1>1
<1>3. n - 1 \in T
  BY <1>1, <1>2
<1> QED BY <1>1, <1>2, <1>3

(* A set that has the empty sequence, and every sequence whose tail it     *)
(* has, has all sequences.                                                 *)
LEMMA SequenceInduction ==
  ASSUME NEW S, NEW T, <<>> \in T,
         \A s \in Seq(S) : s # <<>> /\ Tail(s) \in T => s \in T
  PROVE  Seq(S) \subseteq T
<1> DEFINE N == {n \in Nat : \A s \in Seq(S) : Len(s) = n => s \in T}
<1>1. 0 \in N
  OBVIOUS
<1>2. ASSUME NEW n \in N
      PROVE  n + 1 \in N
  <2> SUFFICES ASSUME NEW s \in Seq(S), Len(s) = n + 1
               PROVE  s \in T
    OBVIOUS
  <2>1. s # <<>> /\ Tail(s) \in Seq(S) /\ Len(Tail(s)) = n
    OBVIOUS
  <2> QED BY <2>1
<1> HIDE DEF N
<1>3. Nat \subseteq N
  BY <1>1, <1>2, SetInduction
<1> QED BY <1>3 DEF N

-------------------------------------------------------------------------------
(* The empty tuple is no key: NoKey can be told from every key.            *)
LEMMA NoKeyIsNoKey == NoKey \notin Key
BY DEF NoKey, Key

(* What extractKey returns is a key or says that there is none.            *)
LEMMA KeyOfType ==
  ASSUME NEW def \in KeyDef, NEW item \in Item
  PROVE  KeyOf(def, item) \in Key \cup {NoKey}
<1>1. CASE HasKeyAttr(item, def.hash) /\ (def.range # NoRange => HasKeyAttr(item, def.range))
  BY <1>1 DEF KeyOf, HasKeyAttr, Key
<1>2. CASE ~(HasKeyAttr(item, def.hash) /\ (def.range # NoRange => HasKeyAttr(item, def.range)))
  BY <1>2 DEF KeyOf
<1> QED BY <1>1, <1>2

(* A map without entries is a map.                                         *)
LEMMA EmptyMapIsMap == IsMap(EmptyMap)
BY DEF IsMap, EmptyMap

(* An item with no attributes is an item.                                  *)
LEMMA NoItemIsItem == NoItem \in Item
BY DEF NoItem, Item

(* storeItem and deleteItem keep a map from keys to items.                 *)
LEMMA WithIsMap ==
  ASSUME NEW m, IsMap(m), NEW k \in Key, NEW item \in Item
  PROVE  IsMap(With(m, k, item))
BY DEF IsMap, With

(* Removing an entry leaves a map.                                         *)
LEMMA WithoutIsMap ==
  ASSUME NEW m, IsMap(m), NEW k
  PROVE  IsMap(Without(m, k))
BY DEF IsMap, Without

(* updateGSIs keeps an index a map from keys to items.                     *)
LEMMA UpdateGSIIsMap ==
  ASSUME NEW gsi, IsMap(gsi), NEW def \in KeyDef, NEW old, NEW new \in Item
  PROVE  IsMap(UpdateGSI(gsi, def, old, new))
<1>1. IsMap(Without(gsi, KeyOf(def, old)))
  BY WithoutIsMap
<1>2. KeyOf(def, new) \in Key \cup {NoKey}
  BY KeyOfType
<1>3. CASE KeyOf(def, new) = NoKey
  BY <1>1, <1>3 DEF UpdateGSI
<1>4. CASE KeyOf(def, new) # NoKey
  BY <1>1, <1>2, <1>4, WithIsMap DEF UpdateGSI
<1> QED BY <1>3, <1>4

(* A new table is well formed, and stores and deletes keep it so.          *)
LEMMA NewTableIsTable == IsTable(NewTable)
BY EmptyMapIsMap DEF IsTable, NewTable

(* storeItem with its updateGSIs leaves a table.                           *)
LEMMA StoreIsTable ==
  ASSUME NEW schema \in Schema, NEW t, IsTable(t), NEW k \in Key, NEW item \in Item
  PROVE  IsTable(Store(schema, t, k, item))
<1> DEFINE gsis == UpdateGSIs(t.gsis, schema.gsis, Lookup(t.items, k), item)
<1>1. IsMap(With(t.items, k, item))
  BY WithIsMap DEF IsTable
<1>2. \A g \in Index : IsMap(gsis[g])
  BY UpdateGSIIsMap DEF IsTable, UpdateGSIs, Schema
<1>3. DOMAIN gsis = Index /\ gsis = [g \in Index |-> gsis[g]]
  BY DEF UpdateGSIs
<1> QED BY <1>1, <1>2, <1>3 DEF IsTable, Store

(* deleteItem with its updateGSIs leaves a table.                          *)
LEMMA DeleteIsTable ==
  ASSUME NEW schema \in Schema, NEW t, IsTable(t), NEW k \in Key
  PROVE  IsTable(Delete(schema, t, k))
<1> DEFINE gsis == UpdateGSIs(t.gsis, schema.gsis, Lookup(t.items, k), NoItem)
<1>1. IsMap(Without(t.items, k))
  BY WithoutIsMap DEF IsTable
<1>2. \A g \in Index : IsMap(gsis[g])
  BY UpdateGSIIsMap, NoItemIsItem DEF IsTable, UpdateGSIs, Schema
<1>3. DOMAIN gsis = Index /\ gsis = [g \in Index |-> gsis[g]]
  BY DEF UpdateGSIs
<1> QED BY <1>1, <1>2, <1>3 DEF IsTable, Delete

-------------------------------------------------------------------------------
(* An operation that is not refused leaves a well-formed table.            *)
UpdateIsSound(op) ==
  op.kind = "update" => \A item \in Item : EvalUpdate(op.upd, item) \in Item \cup {Err}

(* What an accepted update stores is an item.                              *)
LEMMA UpdatedIsItem ==
  ASSUME NEW schema \in Schema, NEW t, IsTable(t), NEW op, op.item \in Item,
         op.kind = "update", UpdateIsSound(op), Verdict(schema, t, op) = "ok"
  PROVE  Updated(t, KeyOf(schema.key, op.item), op) \in Item
<1> DEFINE k == KeyOf(schema.key, op.item)
           before == IF k \in DOMAIN t.items THEN t.items[k] ELSE op.item
<1>1. before \in Item
  BY DEF IsTable, IsMap
<1>2. EvalUpdate(op.upd, before) \in Item \cup {Err}
  BY <1>1 DEF UpdateIsSound
<1>3. Updated(t, k, op) # Err
  BY DEF Verdict
<1> QED BY <1>2, <1>3 DEF Updated

(* Apply keeps a table well formed.                                        *)
LEMMA ApplyIsTable ==
  ASSUME NEW schema \in Schema, NEW t, IsTable(t), NEW op, op.item \in Item,
         UpdateIsSound(op), Verdict(schema, t, op) = "ok"
  PROVE  IsTable(Apply(schema, t, op))
<1> DEFINE k == KeyOf(schema.key, op.item)
<1>1. op.kind # "check" => k \in Key
  BY KeyOfType DEF Verdict, Schema
<1>2. CASE op.kind = "put"
  BY <1>1, <1>2, StoreIsTable DEF Apply
<1>3. CASE op.kind = "delete"
  BY <1>1, <1>3, DeleteIsTable DEF Apply
<1>4. CASE op.kind = "update"
  BY <1>1, <1>4, StoreIsTable, UpdatedIsItem DEF Apply
<1>5. CASE op.kind \notin {"put", "delete", "update"}
  BY <1>5 DEF Apply
<1> QED BY <1>2, <1>3, <1>4, <1>5

-------------------------------------------------------------------------------
(* Two items that share a key of a covering index share their table key.   *)
LEMMA CoveringKeyIsFiner ==
  ASSUME NEW key \in KeyDef, NEW def \in KeyDef, Covers(def, key),
         NEW i \in Item, NEW j \in Item,
         KeyOf(def, i) # NoKey, KeyOf(def, i) = KeyOf(def, j)
  PROVE  KeyOf(key, i) = KeyOf(key, j)
<1>1. /\ HasKeyAttr(i, def.hash) /\ HasKeyAttr(j, def.hash)
      /\ i[def.hash] = j[def.hash]
  BY DEF KeyOf, NoKey
<1>2. def.range # NoRange => /\ HasKeyAttr(i, def.range) /\ HasKeyAttr(j, def.range)
                             /\ i[def.range] = j[def.range]
  BY DEF KeyOf, NoKey
<1>3. \A a \in {key.hash, key.range} \ {NoRange} :
        HasKeyAttr(i, a) /\ HasKeyAttr(j, a) /\ i[a] = j[a]
  BY <1>1, <1>2 DEF Covers
<1>4. key.hash # NoRange
  BY ValueAssumption DEF KeyDef
<1> QED BY <1>3, <1>4 DEF KeyOf

(* The empty item is in no index.                                          *)
LEMMA NoItemHasNoKey ==
  ASSUME NEW def \in KeyDef
  PROVE  KeyOf(def, NoItem) = NoKey
BY DEF KeyOf, NoItem, HasKeyAttr

(* No other item of the table has the index key of an item with key k.     *)
LEMMA OthersDiffer ==
  ASSUME NEW key \in KeyDef, NEW def \in KeyDef, Covers(def, key),
         NEW items, IsMap(items), UnderTheirKeys(key, items),
         NEW x \in DOMAIN items, KeyOf(def, items[x]) # NoKey,
         NEW item \in Item, KeyOf(key, item) # x
  PROVE  KeyOf(def, items[x]) # KeyOf(def, item)
BY CoveringKeyIsFiner DEF IsMap, UnderTheirKeys

(* updateGSIs after storeItem keeps a covering index in agreement.         *)
LEMMA StoreKeepsIndex ==
  ASSUME NEW key \in KeyDef, NEW def \in KeyDef, Covers(def, key),
         NEW items, IsMap(items), UnderTheirKeys(key, items),
         NEW gsi, IsMap(gsi), IndexAgrees(def, items, gsi),
         NEW item \in Item, KeyOf(key, item) # NoKey
  PROVE  LET k == KeyOf(key, item)
         IN  IndexAgrees(def, With(items, k, item),
                         UpdateGSI(gsi, def, Lookup(items, k), item))
<1> DEFINE k    == KeyOf(key, item)
           old  == Lookup(items, k)
           gone == KeyOf(def, old)
           come == KeyOf(def, item)
           new  == With(items, k, item)
           upd  == UpdateGSI(gsi, def, old, item)
<1>1. /\ DOMAIN new = DOMAIN items \cup {k} /\ new[k] = item
      /\ \A x \in DOMAIN items \ {k} : new[x] = items[x]
  BY DEF With
<1>2. ASSUME NEW x \in DOMAIN items \ {k}, KeyOf(def, items[x]) # NoKey
      PROVE  KeyOf(def, items[x]) # come /\ KeyOf(def, items[x]) # gone
  <2>1. KeyOf(def, items[x]) # come
    BY <1>2, OthersDiffer
  <2>2. CASE k \in DOMAIN items
    <3>1. old \in Item /\ KeyOf(key, old) = k
      BY <2>2 DEF Lookup, IsMap, UnderTheirKeys
    <3> QED BY <2>1, <3>1, <1>2, OthersDiffer
  <2>3. CASE k \notin DOMAIN items
    BY <2>1, <2>3, <1>2, NoItemHasNoKey DEF Lookup
  <2> QED BY <2>2, <2>3
<1>3. /\ DOMAIN upd = (DOMAIN gsi \ {gone}) \cup ({come} \ {NoKey})
      /\ come # NoKey => upd[come] = item
      /\ \A y \in DOMAIN gsi \ {gone, come} : upd[y] = gsi[y]
  BY NoKeyIsNoKey DEF UpdateGSI, With, Without, IsMap
<1>4. \A x \in DOMAIN items \ {k} : KeyOf(def, items[x]) # NoKey =>
        KeyOf(def, items[x]) \in DOMAIN upd /\ upd[KeyOf(def, items[x])] = items[x]
  BY <1>2, <1>3 DEF IndexAgrees
<1>5. DOMAIN upd \subseteq {KeyOf(def, new[x]) : x \in DOMAIN new} \ {NoKey}
  <2> SUFFICES ASSUME NEW y \in DOMAIN upd
               PROVE  y # NoKey /\ \E x \in DOMAIN new : y = KeyOf(def, new[x])
    OBVIOUS
  <2>1. CASE y = come /\ come # NoKey
    BY <2>1, <1>1
  <2>2. CASE y \in DOMAIN gsi \ {gone}
    <3>1. PICK x \in DOMAIN items : y = KeyOf(def, items[x])
      BY <2>2 DEF IndexAgrees
    <3>2. x # k
      BY <2>2, <3>1 DEF Lookup
    <3> QED BY <2>2, <3>1, <3>2, <1>1 DEF IndexAgrees
  <2> QED BY <2>1, <2>2, <1>3
<1>6. {KeyOf(def, new[x]) : x \in DOMAIN new} \ {NoKey} \subseteq DOMAIN upd
  BY <1>1, <1>3, <1>4
<1>7. \A x \in DOMAIN new : KeyOf(def, new[x]) # NoKey => upd[KeyOf(def, new[x])] = new[x]
  BY <1>1, <1>3, <1>4
<1> QED BY <1>5, <1>6, <1>7 DEF IndexAgrees

(* updateGSIs after deleteItem keeps a covering index in agreement.        *)
LEMMA DeleteKeepsIndex ==
  ASSUME NEW key \in KeyDef, NEW def \in KeyDef, Covers(def, key),
         NEW items, IsMap(items), UnderTheirKeys(key, items),
         NEW gsi, IsMap(gsi), IndexAgrees(def, items, gsi), NEW k \in Key
  PROVE  IndexAgrees(def, Without(items, k),
                     UpdateGSI(gsi, def, Lookup(items, k), NoItem))
<1> DEFINE old  == Lookup(items, k)
           gone == KeyOf(def, old)
           new  == Without(items, k)
           upd  == UpdateGSI(gsi, def, old, NoItem)
<1>1. DOMAIN new = DOMAIN items \ {k} /\ \A x \in DOMAIN new : new[x] = items[x]
  BY DEF Without
<1>2. DOMAIN upd = DOMAIN gsi \ {gone} /\ \A y \in DOMAIN upd : upd[y] = gsi[y]
  BY NoItemHasNoKey DEF UpdateGSI, Without
<1>3. ASSUME NEW x \in DOMAIN new, KeyOf(def, items[x]) # NoKey
      PROVE  KeyOf(def, items[x]) # gone
  <2>1. CASE k \in DOMAIN items
    <3>1. old \in Item /\ KeyOf(key, old) = k
      BY <2>1 DEF Lookup, IsMap, UnderTheirKeys
    <3> QED BY <3>1, <1>1, <1>3, OthersDiffer
  <2>2. CASE k \notin DOMAIN items
    BY <2>2, <1>3, NoItemHasNoKey DEF Lookup
  <2> QED BY <2>1, <2>2
<1>4. ASSUME NEW y \in DOMAIN upd
      PROVE  y # NoKey /\ \E x \in DOMAIN new : y = KeyOf(def, new[x])
  <2>1. PICK x \in DOMAIN items : y = KeyOf(def, items[x])
    BY <1>2, <1>4 DEF IndexAgrees
  <2>2. x # k
    BY <2>1, <1>2 DEF Lookup
  <2> QED BY <2>1, <2>2, <1>1, <1>2 DEF IndexAgrees
<1>5. \A x \in DOMAIN new : KeyOf(def, new[x]) # NoKey =>
        KeyOf(def, new[x]) \in DOMAIN upd /\ upd[KeyOf(def, new[x])] = new[x]
  BY <1>1, <1>2, <1>3 DEF IndexAgrees
<1> QED BY <1>4, <1>5 DEF IndexAgrees

-------------------------------------------------------------------------------
(* A table whose items are under their keys and whose indexes agree.       *)
Consistent(schema, t) ==
  /\ UnderTheirKeys(schema.key, t.items)
  /\ \A g \in Index : IndexAgrees(schema.gsis[g], t.items, t.gsis[g])

CoveredBy(schema) == \A g \in Index : Covers(schema.gsis[g], schema.key)

KeepsKeys(op, key) ==
  op.kind = "update" =>
    \A item \in Item :
      EvalUpdate(op.upd, item) = Err \/ KeyOf(key, EvalUpdate(op.upd, item)) = KeyOf(key, item)

(* A new table is consistent.                                              *)
LEMMA NewTableIsConsistent ==
  ASSUME NEW schema
  PROVE  Consistent(schema, NewTable)
BY DEF Consistent, UnderTheirKeys, IndexAgrees, NewTable, EmptyMap

(* storeItem with updateGSIs keeps a table consistent.                     *)
LEMMA StoreIsConsistent ==
  ASSUME NEW schema \in Schema, CoveredBy(schema), NEW t, IsTable(t), Consistent(schema, t),
         NEW item \in Item, KeyOf(schema.key, item) # NoKey
  PROVE  Consistent(schema, Store(schema, t, KeyOf(schema.key, item), item))
<1> DEFINE k == KeyOf(schema.key, item)
<1>1. UnderTheirKeys(schema.key, With(t.items, k, item))
  BY DEF Consistent, UnderTheirKeys, With
<1>2. ASSUME NEW g \in Index
      PROVE  IndexAgrees(schema.gsis[g], With(t.items, k, item),
                         UpdateGSI(t.gsis[g], schema.gsis[g], Lookup(t.items, k), item))
  <2>1. schema.key \in KeyDef /\ schema.gsis[g] \in KeyDef
    BY DEF Schema
  <2>2. /\ IsMap(t.items) /\ UnderTheirKeys(schema.key, t.items)
        /\ IsMap(t.gsis[g]) /\ IndexAgrees(schema.gsis[g], t.items, t.gsis[g])
        /\ Covers(schema.gsis[g], schema.key)
    BY DEF Consistent, CoveredBy, IsTable
  <2> QED BY <2>1, <2>2, StoreKeepsIndex
<1> QED BY <1>1, <1>2 DEF Consistent, Store, UpdateGSIs

(* deleteItem with updateGSIs keeps a table consistent.                    *)
LEMMA DeleteIsConsistent ==
  ASSUME NEW schema \in Schema, CoveredBy(schema), NEW t, IsTable(t), Consistent(schema, t),
         NEW k \in Key
  PROVE  Consistent(schema, Delete(schema, t, k))
<1>1. UnderTheirKeys(schema.key, Without(t.items, k))
  BY DEF Consistent, UnderTheirKeys, Without
<1>2. ASSUME NEW g \in Index
      PROVE  IndexAgrees(schema.gsis[g], Without(t.items, k),
                         UpdateGSI(t.gsis[g], schema.gsis[g], Lookup(t.items, k), NoItem))
  <2>1. schema.key \in KeyDef /\ schema.gsis[g] \in KeyDef
    BY DEF Schema
  <2>2. /\ IsMap(t.items) /\ UnderTheirKeys(schema.key, t.items)
        /\ IsMap(t.gsis[g]) /\ IndexAgrees(schema.gsis[g], t.items, t.gsis[g])
        /\ Covers(schema.gsis[g], schema.key)
    BY DEF Consistent, CoveredBy, IsTable
  <2> QED BY <2>1, <2>2, DeleteKeepsIndex
<1> QED BY <1>1, <1>2 DEF Consistent, Delete, UpdateGSIs

(* What an update stores has the key it is stored under.                   *)
LEMMA UpdatedKeepsKey ==
  ASSUME NEW schema \in Schema, NEW t, IsTable(t), Consistent(schema, t),
         NEW op, op.item \in Item, op.kind = "update", KeepsKeys(op, schema.key),
         Verdict(schema, t, op) = "ok"
  PROVE  LET k == KeyOf(schema.key, op.item)
         IN  KeyOf(schema.key, Updated(t, k, op)) = k
<1> DEFINE k      == KeyOf(schema.key, op.item)
           before == IF k \in DOMAIN t.items THEN t.items[k] ELSE op.item
<1>1. before \in Item /\ KeyOf(schema.key, before) = k
  BY DEF IsTable, IsMap, Consistent, UnderTheirKeys
<1>2. EvalUpdate(op.upd, before) # Err
  BY DEF Verdict, Updated
<1>3. KeyOf(schema.key, EvalUpdate(op.upd, before)) = k
  BY <1>1, <1>2 DEF KeepsKeys
<1> QED BY <1>3 DEF Updated

(* An operation that is not refused keeps a table consistent.              *)
LEMMA ApplyIsConsistent ==
  ASSUME NEW schema \in Schema, CoveredBy(schema), NEW t, IsTable(t), Consistent(schema, t),
         NEW op, op.item \in Item, UpdateIsSound(op), KeepsKeys(op, schema.key),
         Verdict(schema, t, op) = "ok"
  PROVE  Consistent(schema, Apply(schema, t, op))
<1> DEFINE k == KeyOf(schema.key, op.item)
<1>1. op.kind # "check" => k \in Key /\ k # NoKey
  BY KeyOfType DEF Verdict, Schema
<1>2. CASE op.kind = "put"
  BY <1>1, <1>2, StoreIsConsistent DEF Apply
<1>3. CASE op.kind = "delete"
  BY <1>1, <1>3, DeleteIsConsistent DEF Apply
<1>4. CASE op.kind = "update"
  <2>1. Updated(t, k, op) \in Item /\ KeyOf(schema.key, Updated(t, k, op)) = k
    BY <1>4, UpdatedIsItem, UpdatedKeepsKey
  <2>2. Apply(schema, t, op) = Store(schema, t, k, Updated(t, k, op))
    BY <1>4 DEF Apply
  <2> QED BY <1>1, <1>4, <2>1, <2>2, StoreIsConsistent
<1>5. CASE op.kind \notin {"put", "delete", "update"}
  BY <1>5 DEF Apply
<1> QED BY <1>2, <1>3, <1>4, <1>5

===============================================================================
