------------------------------- MODULE MCPaging -------------------------------
(***************************************************************************)
(* A table with a hash key "pk" and a numeric range key "sk", and three    *)
(* indexes: "byv" has a range key that is not of the table, "bysk" has the *)
(* table's range key, "bypk" has no range key.  Range keys 9, 10 and 11    *)
(* are in another order as strings.                                        *)
(***************************************************************************)
EXTENDS Paging

S(c) == <<"S", <<c>>>>
N(n) == <<"N", n>>

MCAttr     == {"pk", "sk", "v", "odd"}
MCKeyValue == {S(1), S(2)} \cup {N(n) : n \in {1, 2, 9, 10, 11}}
MCIndex    == {"byv", "bysk", "bypk"}

KeyOn(h, r) == [hash |-> h, range |-> r]
MCSchema    == [key |-> KeyOn("pk", "sk"),
                gsis |-> [g \in MCIndex |-> CASE g = "byv"  -> KeyOn("pk", "v")
                                              [] g = "bysk" -> KeyOn("v", "sk")
                                              [] g = "bypk" -> KeyOn("v", NoRange)]]

MCKeyType == [a \in {"pk", "sk", "v"} |-> IF a = "pk" THEN "S" ELSE "N"]

(* Filters: an attribute exists, or a condition that cannot be evaluated   *)
(* where the attribute is missing.                                         *)
MCEvalCondition(cond, item) ==
  IF cond[2] \in DOMAIN item THEN "true"
  ELSE IF cond[1] = "exists" THEN "false" ELSE "error"

MCEvalUpdate(upd, item) == item

MCDecodes(item) == "odd" \notin DOMAIN item

X(pk, sk)     == [a \in {"pk", "sk"} |-> IF a = "pk" THEN S(pk) ELSE N(sk)]
XV(pk, sk, v) == With(X(pk, sk), "v", N(v))
Odd(x)        == With(x, "odd", N(1))

TableOf(items) ==
  LET key(x) == KeyOf(MCSchema.key, x)
      from(def) == {x \in items : KeyOf(def, x) # NoKey}
      holds(def) == [k \in {KeyOf(def, x) : x \in from(def)} |-> CHOOSE x \in items : KeyOf(def, x) = k]
  IN  [items |-> holds(MCSchema.key), gsis |-> [g \in MCIndex |-> holds(MCSchema.gsis[g])]]

MCTables == {TableOf({XV(1, 9, 1), XV(1, 10, 1), XV(1, 11, 2)}),
             TableOf({X(1, 9), Odd(XV(1, 10, 2)), XV(1, 11, 1), XV(2, 9, 1)})}

(* A range key of another type, which the in-memory backend does not mind. *)
Strange == [a \in {"pk", "sk"} |-> S(1)]

MCPuts == {XV(1, 9, 1), X(1, 10), XV(1, 10, 2), XV(2, 10, 1), Strange}

Eq(attr, v) == Part("=", attr, v, v)

Base   == {<<Eq("pk", S(1))>>}
Sorts  == {<<Eq("pk", S(1)), Part("BETWEEN", "sk", N(9), N(10))>>,
           <<Eq("pk", S(1)), Part(">", "sk", N(9), N(9))>>,
           <<Eq("sk", N(9)), Eq("pk", S(1))>>,
           <<Eq("sk", N(9))>>}

CallOf(api, index, parts, forward, filter, lim) ==
  [api |-> api, index |-> index, parts |-> parts, forward |-> forward,
   filter |-> filter, limit |-> lim]

Queries == {"Query", "QueryCollection", "QueryIter", "CollectionIter"}
Filters == {NoCond, <<"exists", "v">>}

MCCalls ==
  {CallOf(a, NoIndex, p, fwd, f, n) : a \in Queries, p \in Base, fwd \in BOOLEAN, f \in Filters, n \in 0..2} \cup
  {CallOf(a, NoIndex, p, TRUE, NoCond, n) : a \in {"Query", "QueryIter"}, p \in Sorts, n \in {1}} \cup
  {CallOf(a, "byv", p, TRUE, f, n) : a \in Queries, p \in Base, f \in {NoCond, <<"exists", "odd">>}, n \in {0, 1}} \cup
  {CallOf(a, g, <<Eq("v", N(1))>>, TRUE, NoCond, n) : a \in {"Query", "QueryIter"}, g \in {"bysk", "bypk"}, n \in {1, 2}} \cup
  {CallOf(a, g, <<>>, TRUE, f, n) : a \in {"Scan", "ScanIter"}, g \in {NoIndex, "byv", "bysk"}, f \in Filters, n \in 0..2} \cup
  {CallOf("Query", NoIndex, <<Eq("pk", S(1))>>, TRUE, <<"compare", "v">>, 1), CallOf("Scan", "none", <<>>, TRUE, NoCond, 0)}

===============================================================================
