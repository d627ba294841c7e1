----------------------------- MODULE MemDBAtomic ------------------------------
(***************************************************************************)
(* The backend with its locks implements AtomicStore.  A call takes effect *)
(* when its body starts to read or to write: what it will read and write   *)
(* is then decided, because it holds all its locks.                        *)
(***************************************************************************)
EXTENDS MemDB, AtomicOps

(* Where the client in its body will be at the end.                        *)
Body(c) == Executed(req[c].type, db, out[c], work[c])

InBody(c) == pc[c] \in {"read", "apply"}

(* The data of each table, and the outcome of each call, as they then are. *)
DataOf(t) ==
  IF \E c \in Clients : pc[c] = "apply" /\ Needs(c, t)
  THEN Body(CHOOSE c \in Clients : pc[c] = "apply" /\ Needs(c, t)).db[t]
  ELSE db[t]

Outcome(c) ==
  IF Body(c).verdict = "ok" /\ later[c] # {} THEN NoReply ELSE Result(Body(c))

ReplyOf(c) == IF InBody(c) THEN Outcome(c) ELSE reply[c]

PcOf(c) ==
  IF pc[c] = "idle" THEN "idle"
  ELSE IF ReplyOf(c) # NoReply THEN "done"
  ELSE "called"

LaterOf(c) ==
  IF PcOf(c) # "called" \/ ~IsBatch(req[c]) THEN {}
  ELSE later[c] \cup {t \in Tables : pc[c] = "lock" /\ Needs(c, t)}

OutOf(c) ==
  IF PcOf(c) # "called" THEN <<>>
  ELSE IF InBody(c) THEN Body(c).items
  ELSE out[c]

EffectiveDB    == [t \in Tables |-> DataOf(t)]
EffectivePc    == [c \in Clients |-> PcOf(c)]
EffectiveLater == [c \in Clients |-> LaterOf(c)]
EffectiveOut   == [c \in Clients |-> OutOf(c)]
EffectiveReply == [c \in Clients |-> ReplyOf(c)]

Atomic ==
  INSTANCE AtomicStore WITH
    db <- EffectiveDB, pc <- EffectivePc, later <- EffectiveLater,
    out <- EffectiveOut, reply <- EffectiveReply

(* Every behaviour of the backend is one of the atomic store: transactions *)
(* write all or nothing and read one snapshot, and no caller ever sees a   *)
(* table of a transaction without the others.                              *)
IsAtomic == Atomic!Spec

(* In its second pass a transaction cannot be refused any more, unless its *)
(* first operation is: every other write has its key, and updates items    *)
(* without an error.  What becomes of other transactions shows the run on  *)
(* PartialRequests.                                                        *)
NeverRefused(op) ==
  op.kind # "check" =>
    /\ KeyIn(op) # NoKey
    /\ op.kind = "update" => \A item \in Item : EvalUpdate(op.upd, item) # Err

LaterWritesSucceed ==
  \A r \in Request : r.type = "txwrite" =>
    \A i \in DOMAIN r.ops : i > 1 => NeverRefused(r.ops[i])

===============================================================================
