------------------------------- MODULE MemTable -------------------------------
(***************************************************************************)
(* The storage of one table of the in-memory backend: tableData and        *)
(* gsiData of memdb/memdb.go.                                              *)
(*                                                                         *)
(* An item is a partial function from attribute names to values; the nil   *)
(* item of the code and the empty one are the same here, because every     *)
(* place that tells them apart first replaces nil by an empty map, or      *)
(* looks for a key attribute that neither has.  The two-level maps hash -> *)
(* range -> item are one map from the pair of keys: the inner map is       *)
(* removed as soon as it is empty.  Everything stored or returned is       *)
(* copied, so items are values.                                            *)
(*                                                                         *)
(* What a condition or an update expression computes is a parameter; the   *)
(* module Expr defines it.                                                 *)
(***************************************************************************)
EXTENDS Sequences, Naturals

CONSTANTS
  Attr,                 \* attribute names
  Value,                \* attribute values
  KeyValue,             \* the values of type S, N or B, which may be keys
  Index,                \* names of the global secondary indexes of a table
  NoRange,              \* "no range key" in a schema, and "_" in a key
  NoCond,               \* the empty condition expression
  Err,                  \* what an update that fails evaluates to
  EvalCondition(_, _),  \* "true", "false" or "error", for a condition and an item
  EvalUpdate(_, _)      \* an item or Err, for an update expression and an item

(* A value that may be a key is a value; the sentinels are none of them.    *)
ASSUME ValueAssumption ==
  /\ KeyValue \subseteq Value
  /\ NoRange \notin KeyValue
  /\ NoRange \notin Attr

-------------------------------------------------------------------------------
(* Items, keys and maps from keys to items.                                *)

Item == UNION {[D -> Value] : D \in SUBSET Attr}

NoItem == [a \in {} |-> NoRange]

Key == KeyValue \X (KeyValue \cup {NoRange})

NoKey == <<>>

KeyDef == [hash : Attr, range : Attr \cup {NoRange}]

Schema == [key : KeyDef, gsis : [Index -> KeyDef]]

HasKeyAttr(item, a) == a \in DOMAIN item /\ item[a] \in KeyValue

(* extractKey and extractKeyFromDef: a missing attribute, or one whose     *)
(* type cannot be a key, gives no key.                                     *)
KeyOf(def, item) ==
  IF HasKeyAttr(item, def.hash) /\ (def.range # NoRange => HasKeyAttr(item, def.range))
  THEN <<item[def.hash], IF def.range = NoRange THEN NoRange ELSE item[def.range]>>
  ELSE NoKey

IsMap(m) ==
  /\ m = [k \in DOMAIN m |-> m[k]]
  /\ DOMAIN m \subseteq Key
  /\ \A k \in DOMAIN m : m[k] \in Item

Lookup(m, k) == IF k \in DOMAIN m THEN m[k] ELSE NoItem

With(m, k, item) == [x \in DOMAIN m \cup {k} |-> IF x = k THEN item ELSE m[x]]

Without(m, k) == [x \in DOMAIN m \ {k} |-> m[x]]

-------------------------------------------------------------------------------
(* A table: its items, and a copy of each item in every index whose key    *)
(* attributes it has.                                                      *)

IsTable(t) ==
  /\ t = [items |-> t.items, gsis |-> t.gsis]
  /\ IsMap(t.items)
  /\ DOMAIN t.gsis = Index
  /\ t.gsis = [g \in Index |-> t.gsis[g]]
  /\ \A g \in Index : IsMap(t.gsis[g])

EmptyMap == [k \in {} |-> NoItem]

NewTable == [items |-> EmptyMap, gsis |-> [g \in Index |-> EmptyMap]]

(* A faulty UpdateGSI: the old item's entry stays.                         *)
UpdateGSIKeepsOld(gsi, def, old, new) ==
  IF KeyOf(def, new) = NoKey THEN gsi ELSE With(gsi, KeyOf(def, new), new)

(* One index of updateGSIs: the old item's entry goes, whoever put it      *)
(* there, and the new item's entry comes, whatever was there.              *)
UpdateGSI(gsi, def, old, new) ==
  LET removed == Without(gsi, KeyOf(def, old))
  IN  IF KeyOf(def, new) = NoKey THEN removed
      ELSE With(removed, KeyOf(def, new), new)

UpdateGSIs(gsis, defs, old, new) ==
  [g \in Index |-> UpdateGSI(gsis[g], defs[g], old, new)]

(* storeItem and deleteItem, each with the updateGSIs that follows it.     *)
Store(schema, t, k, item) ==
  [items |-> With(t.items, k, item),
   gsis  |-> UpdateGSIs(t.gsis, schema.gsis, Lookup(t.items, k), item)]

Delete(schema, t, k) ==
  [items |-> Without(t.items, k),
   gsis  |-> UpdateGSIs(t.gsis, schema.gsis, Lookup(t.items, k), NoItem)]

(* What a table and an index of it should be to each other: items are      *)
(* stored under their own keys, and the index holds a copy of exactly the  *)
(* items that have its key attributes.                                     *)
UnderTheirKeys(key, items) == \A k \in DOMAIN items : KeyOf(key, items[k]) = k

IndexAgrees(def, items, gsi) ==
  /\ DOMAIN gsi = {KeyOf(def, items[k]) : k \in DOMAIN items} \ {NoKey}
  /\ \A k \in DOMAIN items :
       KeyOf(def, items[k]) # NoKey => gsi[KeyOf(def, items[k])] = items[k]

(* An index whose key attributes include those of its table.               *)
Covers(def, key) == {key.hash, key.range} \ {NoRange} \subseteq {def.hash, def.range}

-------------------------------------------------------------------------------
(* One write operation.  "item" is the item of a Put and the key of any    *)
(* other operation; both are maps the key is extracted from.               *)

IsOp(op, Tables) ==
  /\ op.kind \in {"put", "delete", "update", "check", "get"}
  /\ op.table \in Tables
  /\ op.item \in Item

(* The condition of an operation against the table's current item: "true", *)
(* "false", "error" if it cannot be evaluated, "invalid" without a key.    *)
Check(schema, t, op) ==
  LET k == KeyOf(schema.key, op.item)
  IN  IF op.cond = NoCond THEN "true"
      ELSE IF k = NoKey THEN "invalid"
      ELSE EvalCondition(op.cond, Lookup(t.items, k))

(* The item an update leaves: the expression applied to the existing item, *)
(* or to the key when there is none.                                       *)
Updated(t, k, op) ==
  EvalUpdate(op.upd, IF k \in DOMAIN t.items THEN t.items[k] ELSE op.item)

(* A faulty Verdict: an update expression that fails is not noticed.       *)
VerdictIgnoresErr(schema, t, op) ==
  IF op.kind # "check" /\ KeyOf(schema.key, op.item) = NoKey THEN "invalid" ELSE "ok"

(* Why the write of an operation is refused once its condition holds:      *)
(* "invalid" without a key, "error" if the update fails, else "ok".        *)
Verdict(schema, t, op) ==
  LET k == KeyOf(schema.key, op.item)
  IN  IF op.kind = "check" THEN "ok"
      ELSE IF k = NoKey THEN "invalid"
      ELSE IF op.kind = "update" /\ Updated(t, k, op) = Err THEN "error"
      ELSE "ok"

(* The table after the write of an operation whose verdict is "ok".        *)
Apply(schema, t, op) ==
  LET k == KeyOf(schema.key, op.item)
  IN  CASE op.kind = "put"    -> Store(schema, t, k, op.item)
        [] op.kind = "delete" -> Delete(schema, t, k)
        [] op.kind = "update" -> Store(schema, t, k, Updated(t, k, op))
        [] OTHER              -> t

===============================================================================
