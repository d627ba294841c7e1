----------------------------- MODULE MCMemDBIndex -----------------------------
(***************************************************************************)
(* One table with secondary indexes on an attribute "v" that items may     *)
(* have, lack or hold with a type that is no key.  Index "byvk" also has   *)
(* the table's key in its key; index "byv" does not, so that several items *)
(* can have the same index key.                                            *)
(***************************************************************************)
EXTENDS MemDB

CONSTANTS t1, c1, c2

S(x)       == <<"S", x>>
True       == <<"BOOL", TRUE>>
MCAttr     == {"pk", "v"}
MCKeyValue == {S("k1"), S("k2"), S("a"), S("b")}
MCValue    == MCKeyValue \cup {True}

KeyOnPk      == [hash |-> "pk", range |-> NoRange]
Covering     == {"byvk"}
Ambiguous    == {"byv"}
MCSchema     == [t \in {t1} |-> [key |-> KeyOnPk,
                  gsis |-> [g \in Index |-> [hash |-> "v",
                             range |-> IF g = "byvk" THEN "pk" ELSE NoRange]]]]

MCEvalCondition(cond, item) ==
  IF cond \in DOMAIN item THEN "true" ELSE "false"

MCEvalUpdate(upd, item) ==
  CASE upd[1] = "set"    -> With(item, upd[2], upd[3])
    [] upd[1] = "remove" -> Without(item, upd[2])
    [] upd[1] = "add"    -> IF upd[2] \in DOMAIN item THEN Err ELSE With(item, upd[2], upd[3])

OpOf(kind, item, cond, upd) ==
  [kind |-> kind, table |-> t1, item |-> item, cond |-> cond, upd |-> upd]

Pk(k)      == [a \in {"pk"} |-> S(k)]
Item2(k, x) == [a \in {"pk", "v"} |-> IF a = "pk" THEN S(k) ELSE x]

Puts    == {OpOf("put", Pk(k), NoCond, <<>>) : k \in {"k1", "k2"}} \cup
           {OpOf("put", Item2(k, x), NoCond, <<>>) :
              k \in {"k1", "k2"}, x \in {S("a"), S("b"), True}}
Deletes == {OpOf("delete", Pk(k), NoCond, <<>>) : k \in {"k1", "k2"}}
Updates == {OpOf("update", Pk(k), cond, upd) :
              k \in {"k1", "k2"}, cond \in {NoCond, "v"},
              upd \in {<<"set", "v", S("a")>>, <<"remove", "v">>, <<"add", "v", S("b")>>}}
Gets    == {OpOf("get", Pk(k), NoCond, <<>>) : k \in {"k1", "k2"}}
MCOp    == Puts \cup Deletes \cup Updates \cup Gets

Single == {[type |-> "write", ops |-> <<op>>] : op \in MCOp \ Gets}
Pairs  == {[type |-> "txwrite", ops |-> <<op1, op2>>] : op1 \in Updates, op2 \in Puts \cup Deletes}
Batch  == {[type |-> "batchwrite", ops |-> [t \in {t1} |-> <<op1, op2>>]] : op1, op2 \in Puts \cup Deletes}
Reads  == {[type |-> "batchget", ops |-> [t \in {t1} |-> <<op>>]] : op \in Gets} \cup
          {[type |-> "txget", ops |-> <<op, op>>] : op \in Gets}

IndexRequests == Single \cup Pairs \cup Batch \cup Reads

PutRequests == {[type |-> "write", ops |-> <<op>>] : op \in Puts \cup Deletes}

(* The conditions the theorem about GSIAgrees assumes hold of the covering *)
(* index and not of the other.                                             *)
ASSUME UpdatesKeepKeys /\ (IndexesCoverKeys <=> Index = Covering)

===============================================================================
