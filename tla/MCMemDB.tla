-------------------------------- MODULE MCMemDB -------------------------------
(***************************************************************************)
(* Small instances of MemDB: two hash-only tables of one key each, items   *)
(* with one attribute "v" beside the key, and requests of every kind.      *)
(***************************************************************************)
EXTENDS MemDBAtomic

CONSTANTS t1, t2   \* the tables
CONSTANTS c1, c2, c3, c4

MCAttr     == {"pk", "v"}
S(x)       == <<"S", x>>
MCKeyValue == {S("k")}
MCValue    == {S("k"), S("a"), S("b"), <<"BOOL", TRUE>>}

NoGSI     == {}
KeySchema == [key |-> [hash |-> "pk", range |-> NoRange], gsis |-> [g \in {} |-> NoRange]]
MCSchema  == [t \in {t1, t2} |-> KeySchema]

(* Conditions and updates of these requests: an attribute that must exist, *)
(* must not exist or must have a value, one that cannot be evaluated, a    *)
(* SET, and an ADD to an attribute that is no set or number.               *)
MCEvalCondition(cond, item) ==
  CASE cond[1] = "exists" -> IF cond[2] \in DOMAIN item THEN "true" ELSE "false"
    [] cond[1] = "absent" -> IF cond[2] \in DOMAIN item THEN "false" ELSE "true"
    [] cond[1] = "equals" -> IF cond[2] \in DOMAIN item /\ item[cond[2]] = cond[3]
                             THEN "true" ELSE "false"
    [] cond[1] = "broken" -> "error"

MCEvalUpdate(upd, item) ==
  CASE upd[1] = "set" -> With(item, upd[2], upd[3])
    [] upd[1] = "add" -> IF upd[2] \in DOMAIN item THEN Err ELSE With(item, upd[2], upd[3])

PkOnly    == [a \in {"pk"} |-> S("k")]
Holding(x) == [a \in {"pk", "v"} |-> IF a = "pk" THEN S("k") ELSE S(x)]
Keyless   == [a \in {"v"} |-> S("a")]

OpOf(kind, t, item, cond, upd) ==
  [kind |-> kind, table |-> t, item |-> item, cond |-> cond, upd |-> upd]

Get(t)       == OpOf("get", t, PkOnly, NoCond, <<>>)
GetBad(t)    == OpOf("get", t, Keyless, NoCond, <<>>)
Put(t, x)    == OpOf("put", t, Holding(x), NoCond, <<>>)
PutNew(t, x) == OpOf("put", t, Holding(x), <<"absent", "pk">>, <<>>)
Del(t)       == OpOf("delete", t, PkOnly, NoCond, <<>>)
Set(t, x)    == OpOf("update", t, PkOnly, <<"exists", "pk">>, <<"set", "v", S(x)>>)
Add(t, x)    == OpOf("update", t, PkOnly, NoCond, <<"add", "v", S(x)>>)
Expect(t, x) == OpOf("check", t, PkOnly, <<"equals", "v", S(x)>>, <<>>)
Broken(t)    == OpOf("check", t, PkOnly, <<"broken">>, <<>>)
PutBad(t)    == OpOf("put", t, Keyless, NoCond, <<>>)

MCOp ==
  UNION {{Get(t), GetBad(t), Put(t, "a"), Put(t, "b"), PutNew(t, "a"), PutNew(t, "b"), Del(t), Set(t, "a"), Set(t, "b"),
          Add(t, "a"), Expect(t, "a"), Broken(t), PutBad(t)} : t \in {t1, t2}}

Req(type, ops) == [type |-> type, ops |-> ops]
Both(op1, op2) == [t \in {t1, t2} |-> IF t = t1 THEN op1 ELSE op2]

(* Every kind of request, the tables always in the order t1, t2.           *)
OrderedRequests ==
  { Req("write", <<Put(t1, "a")>>),
    Req("write", <<Set(t2, "b")>>),
    Req("get", <<Get(t2)>>),
    Req("txwrite", <<PutNew(t1, "b"), Expect(t2, "a"), Del(t2)>>),
    Req("txwrite", <<Expect(t1, "a"), Set(t1, "b"), Put(t2, "a")>>),
    Req("txget", <<Get(t1), Get(t2)>>),
    Req("batchwrite", Both(<<Del(t1)>>, <<Put(t2, "b")>>)),
    Req("batchget", Both(<<Get(t1)>>, <<Get(t2)>>)) }

(* Requests that are refused, at each point where one can be.              *)
RefusedRequests ==
  { Req("write", <<Put(t1, "a")>>),
    Req("write", <<PutBad(t1)>>),
    Req("write", <<Add(t1, "a")>>),
    Req("write", <<PutNew(t1, "b")>>),
    Req("txwrite", <<PutNew(t1, "a"), Broken(t2)>>),
    Req("txwrite", <<PutBad(t1), Put(t2, "a")>>),
    Req("txwrite", <<Add(t1, "a"), Del(t1), PutNew(t2, "b")>>),
    Req("txwrite", <<Put(t1, "a"), Put(t1, "b"), Put(t2, "a"), Put(t2, "b")>>),
    Req("txget", <<Get(t1), GetBad(t2)>>),
    Req("batchwrite", Both(<<Put(t1, "b"), PutBad(t1)>>, <<Del(t2)>>)),
    Req("batchget", Both(<<Get(t1), GetBad(t1)>>, <<Get(t2)>>)),
    Req("batchwrite", Both(<<Put(t1, "a"), Del(t1)>>, <<Put(t2, "a"), Del(t2)>>)) }

AllRequests == OrderedRequests \cup RefusedRequests

(* A transaction whose second write may be refused when its turn comes.    *)
PartialRequests ==
  { Req("write", <<Put(t2, "b")>>),
    Req("txwrite", <<Put(t1, "a"), Add(t2, "a")>>),
    Req("txget", <<Get(t1), Get(t2)>>) }

(* Readers and writers of both tables, in one order, and a batch that      *)
(* stops at a bad key after its first write.                               *)
LockRequests ==
  { Req("batchwrite", [t \in {t1} |-> <<Put(t, "a"), PutBad(t)>>]),
    Req("txget", <<Get(t1), Get(t2), Get(t1)>>),
    Req("txwrite", <<Put(t1, "a"), Put(t2, "a")>>) }

(* Snapshots of the tables in both orders, and a writer of each table.     *)
CrossedReads ==
  { Req("write", <<Del(t1)>>),
    Req("write", <<Del(t2)>>),
    Req("txget", <<Get(t1), Get(t2)>>),
    Req("txget", <<Get(t2), Get(t1)>>) }

AnyClient == Permutations(Clients)

===============================================================================
