------------------------------- MODULE MemPages -------------------------------
(***************************************************************************)
(* One page of a Query or a Scan of the in-memory backend, as a function   *)
(* of the table and the request.  Both run under the table's read lock, so *)
(* they see one state of it.                                               *)
(*                                                                         *)
(* A request is a record of                                                *)
(*   index    the name of an index, or NoIndex for the table itself;       *)
(*   parts    the parts of the key condition, which AND separates (Query); *)
(*   forward  FALSE to read the partition backwards (Query);               *)
(*   filter   a condition on the items, or NoCond;                         *)
(*   limit    how many items to evaluate, 0 for all;                       *)
(*   start    the key to continue after, or NoItem.                        *)
(* A page is a record of its items and of the key to continue after, which *)
(* is NoItem on the last page; Err if the request is refused.  Projections *)
(* shape the items of an answer only, and are left out.                    *)
(***************************************************************************)
EXTENDS MemTable, Values

CONSTANT NoIndex

(* A part of a key condition: BETWEEN has two values.                      *)
Part(op, attr, value, value2) ==
  [op |-> op, attr |-> attr, value |-> value, value2 |-> value2]

KeyAttrs(def) == {def.hash, def.range} \ {NoRange}

-------------------------------------------------------------------------------
(* The maps are read in the order of their key strings.                    *)

RangeString(r) == IF r = NoRange THEN <<3>> ELSE KeyString(r)

KeyLess(k, l) ==
  \/ SeqLess(KeyString(k[1]), KeyString(l[1]))
  \/ k[1] = l[1] /\ SeqLess(RangeString(k[2]), RangeString(l[2]))

Source(schema, t, index) ==
  IF index = NoIndex THEN [def |-> schema.key, items |-> t.items]
  ELSE [def |-> schema.gsis[index], items |-> t.gsis[index]]

(* parseKeyCondition: the value of the hash key, and the condition on the  *)
(* range key if there is one.  Which attribute begins_with and BETWEEN are *)
(* about is not looked at.                                                 *)
IsHashPart(def, p) == p.op = "=" /\ p.attr = def.hash

IsSortPart(def, p) ==
  \/ p.op \in {"begins_with", "BETWEEN"}
  \/ ~IsHashPart(def, p) /\ p.attr = def.range

ParseKeyCondition(def, parts) ==
  LET hash == SelectSeq(parts, LAMBDA p : IsHashPart(def, p))
      sort == SelectSeq(parts, LAMBDA p : IsSortPart(def, p))
  IN  IF hash = <<>> \/ Len(hash) + Len(sort) # Len(parts) THEN Err
      ELSE [hash |-> Last(hash).value, sort |-> sort]

Satisfies(v, p) ==
  LET low  == CompareKeyValues(v, p.value)
      high == CompareKeyValues(v, p.value2)
  IN  CASE p.op = "="       -> KeyString(v) = KeyString(p.value)
        [] p.op = "<"       -> low < 0
        [] p.op = "<="      -> low <= 0
        [] p.op = ">"       -> low > 0
        [] p.op = ">="      -> low >= 0
        [] p.op = "BETWEEN" -> low >= 0 /\ high <= 0
        [] p.op = "begins_with" ->
             /\ TypeOf(v) = TypeOf(p.value) /\ TypeOf(v) \in {"S", "B"}
             /\ IsPrefix(Payload(p.value), Payload(v))
        [] OTHER            -> FALSE

(* matchesSortKeyCondition, for no condition or one.                       *)
MatchesSort(def, sort, item) ==
  \/ def.range = NoRange
  \/ \A i \in DOMAIN sort :
       sort[i].attr \in DOMAIN item /\ Satisfies(item[sort[i].attr], sort[i])

-------------------------------------------------------------------------------
(* buildLastEvaluatedKey                                                   *)
LastEvaluatedKey(def, item) == [a \in KeyAttrs(def) \cap DOMAIN item |-> item[a]]

(* An order is a set of pairs.  What comes before x in S; the first n of   *)
(* S; the last; and S as a sequence: written out, and not by the sequence  *)
(* operators of the community modules, whose meaning the provers lack.     *)
Preceding(S, order, x) == {y \in S : <<y, x>> \in order}

FirstOf(S, order, n) == {x \in S : Cardinality(Preceding(S, order, x)) < n}

LastOf(S, order) == CHOOSE x \in S : \A y \in S : <<x, y>> \notin order

InOrderOf(S, order) ==
  [i \in 1..Cardinality(S) |->
     CHOOSE x \in S : Cardinality(Preceding(S, order, x)) = i - 1]

(* The order of a Query or Scan.                                           *)
KeyOrder(keys, forward) ==
  {kl \in keys \X keys : IF forward THEN KeyLess(kl[1], kl[2]) ELSE KeyLess(kl[2], kl[1])}

(* A faulty KeysAfter: the start key is not skipped.                       *)
KeysFrom(keys, order, place) ==
  {k \in keys : \A p \in place : p = k \/ <<p, k>> \in order}

(* A faulty KeysAfter: it begins one key too late.                         *)
KeysBeyond(keys, order, place) ==
  {k \in keys : \E l \in keys : <<l, k>> \in order /\ \A p \in place : <<p, l>> \in order}

(* The keys after the place of the start key, which is at most one of      *)
(* them; all of them if it is none.                                        *)
KeysAfter(keys, order, place) ==
  {k \in keys : \A p \in place : <<p, k>> \in order}

(* What a filter says of an item.                                          *)
Filtered(filter, x) == IF filter = NoCond THEN "true" ELSE EvalCondition(filter, x)

(* The page of the candidates: the limit counts the items that the filter  *)
(* sees, and the filter must be able to judge each of them.                *)
PageOf(candidates, order, items, def, req) ==
  LET more      == req.limit > 0 /\ Cardinality(candidates) > req.limit
      evaluated == IF more THEN FirstOf(candidates, order, req.limit) ELSE candidates
      kept      == InOrderOf({k \in evaluated : Filtered(req.filter, items[k]) = "true"}, order)
  IN  IF \E k \in evaluated : Filtered(req.filter, items[k]) = "error" THEN Err
      ELSE [items |-> [i \in DOMAIN kept |-> items[kept[i]]],
            last  |-> IF more THEN LastEvaluatedKey(def, items[LastOf(evaluated, order)]) ELSE NoItem]

(* Query: one partition, forwards or backwards.  The start key is looked   *)
(* up by its range key alone, and the key to continue after is that of the *)
(* table, also when an index is queried.                                   *)
QueryPage(schema, t, req) ==
  LET src      == Source(schema, t, req.index)
      cond     == ParseKeyCondition(src.def, req.parts)
      keys     == {k \in DOMAIN src.items : k[1] = cond.hash}
      order    == KeyOrder(keys, req.forward)
      range    == IF src.def.range \in DOMAIN req.start THEN req.start[src.def.range] ELSE NoRange
      place    == {k \in keys : req.start # NoItem /\ k[2] = range}
      matching == {k \in KeysAfter(keys, order, place) : MatchesSort(src.def, cond.sort, src.items[k])}
  IN  IF req.index \notin Index \cup {NoIndex} \/ cond = Err THEN Err
      ELSE PageOf(matching, order, src.items, schema.key, req)

(* Scan: everything, by hash key and then range key.  Here the key to      *)
(* continue after is that of the index.                                    *)
ScanPage(schema, t, req) ==
  LET src   == Source(schema, t, req.index)
      keys  == DOMAIN src.items
      order == KeyOrder(keys, TRUE)
      place == {k \in keys : k = KeyOf(src.def, req.start)}
  IN  IF req.index \notin Index \cup {NoIndex} THEN Err
      ELSE PageOf(KeysAfter(keys, order, place), order, src.items, src.def, req)

===============================================================================
