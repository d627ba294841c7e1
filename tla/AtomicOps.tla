------------------------------ MODULE AtomicOps -------------------------------
(***************************************************************************)
(* What a whole sequence of item operations reads, checks and writes when  *)
(* nothing happens in between.  The state is a function from tables to     *)
(* their data.                                                             *)
(***************************************************************************)
EXTENDS MemRequests, SequencesExt

KeyIn(op) == KeyOf(SchemaOf[op.table].key, op.item)

(* How far the operations of a request of some type have come: the state   *)
(* and the items they leave, and "ok" or why one of them was refused.      *)
Progress(type, state, items, verdict) ==
  [type |-> type, db |-> state, items |-> items, verdict |-> verdict]

(* A batch leaves out the items it does not find.                          *)
ReadOne(p, op) ==
  LET items == p.db[op.table].items
  IN  IF KeyIn(op) = NoKey THEN Progress(p.type, p.db, p.items, "invalid")
      ELSE IF p.type = "batchget" /\ KeyIn(op) \notin DOMAIN items THEN p
      ELSE Progress(p.type, p.db, Append(p.items, Lookup(items, KeyIn(op))), "ok")

WriteOne(p, op) ==
  LET schema  == SchemaOf[op.table]
      verdict == Verdict(schema, p.db[op.table], op)
  IN  IF verdict # "ok" THEN Progress(p.type, p.db, p.items, verdict)
      ELSE Progress(p.type, [p.db EXCEPT ![op.table] = Apply(schema, @, op)], p.items, "ok")

(* One operation more: the first that is refused ends it.                  *)
DoOne(p, op) ==
  IF p.verdict # "ok" THEN p
  ELSE IF IsWrite(p) THEN WriteOne(p, op)
  ELSE ReadOne(p, op)

DoAll(p, ops) ==
  LET after[n \in 0..Len(ops)] == IF n = 0 THEN p ELSE DoOne(after[n - 1], ops[n])
  IN  after[Len(ops)]

(* All operations of a request of some type, from a state.                 *)
Executed(type, state, items, ops) == DoAll(Progress(type, state, items, "ok"), ops)

(* What a call that does these operations last returns.                    *)
Result(p) == Answer(p.verdict, IF p.verdict = "ok" THEN p.items ELSE <<>>)

(* The conditions of all operations, on one state.                         *)
Conditions(state, r) ==
  LET ops        == r.ops
      verdict(i) == IF r.type = "write" /\ KeyIn(ops[i]) = NoKey THEN "invalid"
                    ELSE Check(SchemaOf[ops[i].table], state[ops[i].table], ops[i])
      broken     == {i \in DOMAIN ops : verdict(i) \in {"invalid", "error"}}
      failed     == [i \in DOMAIN ops |-> verdict(i) = "false"]
  IN  IF broken # {} THEN Answer(verdict(Min(broken)), <<>>)
      ELSE IF \A i \in DOMAIN ops : ~failed[i] THEN Answer("ok", <<>>)
      ELSE IF r.type = "write" THEN Answer("condition failed", <<>>)
      ELSE Answer("cancelled", failed)

===============================================================================
