----------------------------- MODULE MemRequests ------------------------------
(***************************************************************************)
(* The requests a caller makes of the in-memory backend, and the limits on *)
(* their size: GetItem, PutItem, DeleteItem and UpdateItem ("get" and      *)
(* "write", of one operation), the two transactions and the two batches.   *)
(***************************************************************************)
EXTENDS MemTable, FiniteSetsExt

CONSTANTS
  Tables,         \* names of tables
  SchemaOf,       \* the schema each table is created with
  Op,             \* item operations that requests are made of
  Request,        \* requests a client may make
  MaxTx,          \* operations in a transaction: 100 in the code
  MaxBatchWrite,  \* operations in a BatchWriteItem: 25
  MaxBatchGet     \* keys in a BatchGetItem: 100

Types == {"get", "write", "txget", "txwrite", "batchget", "batchwrite"}

(* The operations each type of request is made of.                         *)
Kinds ==
  [ get |-> {"get"}, txget |-> {"get"}, batchget |-> {"get"},
    write |-> {"put", "delete", "update"},
    txwrite |-> {"put", "delete", "update", "check"},
    batchwrite |-> {"put", "delete"} ]

IsBatch(r) == r.type \in {"batchget", "batchwrite"}

(* The tables a batch goes through one by one.                             *)
BatchTables(r) == IF IsBatch(r) THEN DOMAIN r.ops ELSE {}

IsWrite(r) == r.type \in {"write", "txwrite", "batchwrite"}

(* A batch names a sequence of operations for each of its tables, every    *)
(* other request is one sequence of operations.                            *)
IsRequest(r) ==
  /\ r.type \in Types
  /\ IF IsBatch(r)
     THEN /\ DOMAIN r.ops \subseteq Tables
          /\ \A t \in DOMAIN r.ops :
               r.ops[t] \in Seq({op \in Op : op.table = t /\ op.kind \in Kinds[r.type]}) \ {<<>>}
     ELSE r.ops \in Seq({op \in Op : op.kind \in Kinds[r.type]}) \ {<<>>}
  /\ r.type \in {"get", "write"} => Len(r.ops) = 1

ASSUME RequestAssumption ==
  /\ SchemaOf \in [Tables -> Schema]
  /\ \A op \in Op : IsOp(op, Tables)
  /\ \A r \in Request : IsRequest(r)

(* An update that does not fail leaves an item.                            *)
ASSUME UpdateAssumption ==
  /\ \A D \in SUBSET Attr : Err \notin [D -> Value]
  /\ \A op \in Op : op.kind = "update" =>
       \A item \in Item : EvalUpdate(op.upd, item) \in Item \cup {Err}

Size(r) ==
  IF IsBatch(r) THEN MapThenSumSet(LAMBDA t : Len(r.ops[t]), DOMAIN r.ops)
  ELSE Len(r.ops)

TooMany(r) ==
  \/ r.type \in {"txget", "txwrite"} /\ Size(r) > MaxTx
  \/ r.type = "batchwrite" /\ Size(r) > MaxBatchWrite
  \/ r.type = "batchget" /\ Size(r) > MaxBatchGet

(* What a call returns: a status, and the items read or, for a cancelled   *)
(* transaction, which conditions failed.                                   *)
Answer(status, detail) == [status |-> status, detail |-> detail]

NoReply == Answer("none", <<>>)

===============================================================================
