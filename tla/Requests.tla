------------------------------- MODULE Requests -------------------------------
(***************************************************************************)
(* A caller of the library's writes, from the options it passes to what    *)
(* the in-memory backend makes of the request: put.go, delete.go,          *)
(* update.go, the WriteTx builder of transaction.go, and the expressions   *)
(* between them.                                                           *)
(*                                                                         *)
(* The caller describes an operation by options: conditions, which it      *)
(* means as syntax trees and writes as texts, and clauses of an update.    *)
(* "draft" keeps both what the library has built so far and what was said. *)
(* How a tree is written is a parameter, as is what the backend makes of   *)
(* an expression; the module WrittenRequests defines the first and         *)
(* MemExpressions the second.                                              *)
(***************************************************************************)
EXTENDS AtomicOps, Expressions

CONSTANTS
  Starts,      \* the data of the backend at first
  Items,       \* items that are put
  Keys,        \* keys of other operations
  Condition,   \* syntax trees of conditions
  Text(_),     \* how a caller writes a condition
  Values(_),   \* the values it gives with the text
  ClauseSet,   \* clauses of updates
  RawUpdates,  \* updates a caller of the backend writes itself: nodes with values of their own
  RawCondition(_),  \* how such a caller writes a condition
  RawUpdate(_),     \* and an update
  MaxCalls,    \* calls made
  MaxOptions   \* options of all calls together

(* Texts are sequences of words and signs, with values to go with them.    *)
ASSUME CallerAssumption ==
  /\ \A ast \in Condition : IsText(Text(ast)) /\ Values(ast) \in Seq(ToSet(Values(ast)))
  /\ Tables # {}
  /\ MaxTx \in Nat /\ MaxCalls \in Nat /\ MaxOptions \in Nat

VARIABLES
  db,       \* the backend's tables
  pc,       \* "idle", "single" call or "tx" builder
  draft,    \* the operation being described, or NoDraft
  ops,      \* the operations of the builder
  said,     \* what the caller said of each of them
  err,      \* the builder's error: "none", "invalid" or "error"
  calls,    \* calls made so far
  options,  \* options passed so far
  last      \* the call answered last: what was said, the data before, the answer

vars == <<db, pc, draft, ops, said, err, calls, options, last>>

-------------------------------------------------------------------------------
(* What the library builds.                                                *)

NoDraft == <<>>

(* A condition beside the ones there are.                                  *)
WithCondition(old, new) == IF old = NoCond THEN new ELSE MergeConditions(old, new)

(* The request of an operation.  An update carries one map of names and    *)
(* one of values for its clauses and its condition.                        *)
BuildUpdateRequest(d) ==
  LET none   == [expression |-> <<>>, names |-> {}, values |-> NoValues]
      cond   == IF d.cond = NoCond THEN none ELSE d.cond
      names  == UpdateNames(d.clauses) \cup cond.names
      values == Overlay(UpdateValues(d.clauses), cond.values)
      with(expression) == [expression |-> expression, names |-> names, values |-> values]
  IN  [kind |-> "update", table |-> d.table, item |-> d.item,
       cond |-> IF d.cond = NoCond THEN NoCond ELSE with(d.cond.expression),
       upd  |-> with(UpdateTokens(d.clauses))]

Request0(d) == [kind |-> d.kind, table |-> d.table, item |-> d.item, cond |-> d.cond, upd |-> NoCond]

BuildRequest(d) == IF d.kind = "update" THEN BuildUpdateRequest(d) ELSE Request0(d)

(* What the backend makes of the operations of one call, all at once: the  *)
(* writes only happen if all conditions hold.                              *)
Concluded(state, checked, written) ==
  IF checked.status # "ok" THEN [db |-> state, answer |-> checked]
  ELSE [db |-> written.db, answer |-> Answer(written.verdict, <<>>)]

Performed(state, r) ==
  IF TooMany(r) THEN [db |-> state, answer |-> Answer("invalid", <<>>)]
  ELSE Concluded(state, Conditions(state, r), Executed(r.type, state, <<>>, r.ops))

-------------------------------------------------------------------------------
NothingSaid == [said |-> <<>>, before |-> [t \in Tables |-> NewTable], answer |-> NoReply]

Init ==
  /\ db \in Starts
  /\ pc = "idle" /\ draft = NoDraft
  /\ ops = <<>> /\ said = <<>> /\ err = "none"
  /\ calls = 0 /\ options = 0
  /\ last = NothingSaid

Draft(kind, item) ==
  [kind |-> kind, table |-> CHOOSE t \in Tables : TRUE, item |-> item,
   cond |-> NoCond, conds |-> <<>>, clauses |-> <<>>, nodes |-> <<>>]

(* What is remembered of an operation, to say what it should do.           *)
Said(d) == [kind |-> d.kind, table |-> d.table, item |-> d.item,
            conds |-> d.conds, clauses |-> d.clauses, nodes |-> d.nodes]

(* A call is answered.                                                     *)
Answered(what, outcome) ==
  /\ db' = outcome.db
  /\ last' = [said |-> what, before |-> db, answer |-> outcome.answer]
  /\ calls' = calls + 1

Refused(status) == [db |-> db, answer |-> Answer(status, <<>>)]

Idle == pc # "single" /\ draft = NoDraft /\ calls < MaxCalls

NoBuilder == ops' = <<>> /\ said' = <<>> /\ err' = "none"

(* Put, Update or Delete of a table, and a new WriteTx.                    *)
Call(kind, item) ==
  /\ Idle /\ pc' = "single"
  /\ draft' = Draft(kind, item)
  /\ NoBuilder
  /\ last' = NothingSaid
  /\ UNCHANGED <<db, calls, options>>

WriteTx ==
  /\ Idle /\ pc' = "tx"
  /\ NoBuilder
  /\ last' = NothingSaid
  /\ UNCHANGED <<db, draft, calls, options>>

(* Put, Update or Delete of a WriteTx; an earlier error makes it return.   *)
Describe(kind, item) ==
  /\ pc = "tx" /\ draft = NoDraft /\ err = "none"
  /\ Len(ops) <= MaxTx /\ calls < MaxCalls
  /\ draft' = Draft(kind, item)
  /\ last' = NothingSaid
  /\ UNCHANGED <<db, pc, ops, said, err, calls, options>>

-------------------------------------------------------------------------------
(* Options, applied one after the other.                                   *)

MayPass(kinds) == draft # NoDraft /\ draft.kind \in kinds /\ options < MaxOptions

(* Set, Add, Remove and Delete.                                            *)
PassClause(c) ==
  /\ MayPass({"update"})
  /\ draft' = [draft EXCEPT !.clauses = Append(@, c)]
  /\ options' = options + 1
  /\ UNCHANGED <<db, pc, ops, said, err, calls, last>>

PassBuilt(ast, cond) ==
  /\ draft' = [draft EXCEPT !.cond = WithCondition(@, cond), !.conds = Append(@, ast)]
  /\ options' = options + 1
  /\ UNCHANGED <<db, pc, ops, said, err, calls, last>>

IfNotExists(a) ==
  /\ MayPass({"put"})
  /\ PassBuilt(<<"fn", "attribute_not_exists", <<<<"path", a>>>>>>, BuildAttrNotExists(a))

(* The values of a text, or all but the last.                              *)
Given(ast, enough) == IF enough THEN Values(ast) ELSE Front(Values(ast))

MayGive(ast, enough) == enough \/ Values(ast) # <<>>

(* PutCondition, IfCondition and DeleteCondition.                          *)
PassCondition(ast) ==
  LET cond == BuildCondition(Text(ast), Given(ast, TRUE))
  IN  /\ MayPass({"put", "update", "delete"})
      /\ cond # BadText
      /\ PassBuilt(ast, cond)

(* The options panic on a wrong number of values, and the call is over.    *)
PassWrongCondition(ast) ==
  /\ MayPass({"put", "update", "delete"}) /\ MayGive(ast, FALSE)
  /\ BuildCondition(Text(ast), Given(ast, FALSE)) = BadText
  /\ pc' = "idle" /\ draft' = NoDraft
  /\ NoBuilder
  /\ Answered(<<>>, Refused("panic"))
  /\ options' = options + 1

-------------------------------------------------------------------------------
(* The end of a description.                                               *)

(* A faulty NoClauses: an update without clauses is sent like any other.   *)
NoClausesIgnored(d) == FALSE

NoClauses(d) == d.kind = "update" /\ d.clauses = <<>>

Send ==
  LET r == [type |-> "write", ops |-> <<BuildRequest(draft)>>]
  IN  /\ pc = "single"
      /\ pc' = "idle" /\ draft' = NoDraft
      /\ Answered(<<Said(draft)>>, IF NoClauses(draft) THEN Refused("invalid") ELSE Performed(db, r))
      /\ UNCHANGED <<ops, said, err, options>>

AddToTx ==
  /\ pc = "tx" /\ draft # NoDraft
  /\ draft' = NoDraft
  /\ IF NoClauses(draft) THEN err' = "invalid" /\ UNCHANGED <<ops, said>>
     ELSE /\ ops' = Append(ops, BuildRequest(draft))
          /\ said' = Append(said, Said(draft))
          /\ UNCHANGED err
  /\ UNCHANGED <<db, pc, calls, options, last>>

(* Check of a WriteTx.                                                     *)
AddCheck(key, ast, enough) ==
  LET cond == BuildCondition(Text(ast), Given(ast, enough))
      d    == [Draft("check", key) EXCEPT !.cond = cond, !.conds = <<ast>>]
  IN  /\ pc = "tx" /\ draft = NoDraft /\ err = "none"
      /\ Len(ops) <= MaxTx /\ calls < MaxCalls /\ options < MaxOptions
      /\ MayGive(ast, enough)
      /\ IF cond = BadText THEN err' = "error" /\ UNCHANGED <<ops, said>>
         ELSE /\ ops' = Append(ops, BuildRequest(d))
              /\ said' = Append(said, Said(d))
              /\ UNCHANGED err
      /\ options' = options + 1
      /\ last' = NothingSaid
      /\ UNCHANGED <<db, pc, draft, calls>>

(* A faulty RunOutcome: the builder's error is not looked at.              *)
RunAnyway(built, e) ==
  IF built = <<>> \/ Len(built) > MaxTx THEN Refused("invalid")
  ELSE Performed(db, [type |-> "txwrite", ops |-> built])

RunOutcome(built, e) ==
  IF e # "none" THEN Refused(e)
  ELSE IF built = <<>> \/ Len(built) > MaxTx THEN Refused("invalid")
  ELSE Performed(db, [type |-> "txwrite", ops |-> built])

(* The builder may be used again afterwards.                               *)
Run ==
  /\ pc = "tx" /\ draft = NoDraft /\ calls < MaxCalls
  /\ Answered(said, RunOutcome(ops, err))
  /\ UNCHANGED <<pc, draft, ops, said, err, options>>

-------------------------------------------------------------------------------
(* Requests made of the backend without the library's options.             *)

DeleteItem(key, ast) ==
  LET d == [Draft("delete", key) EXCEPT !.cond = RawCondition(ast), !.conds = <<ast>>]
  IN  /\ Idle /\ options < MaxOptions
      /\ Answered(<<Said(d)>>, Performed(db, [type |-> "write", ops |-> <<BuildRequest(d)>>]))
      /\ pc' = "idle" /\ NoBuilder
      /\ options' = options + 1
      /\ UNCHANGED draft

UpdateItem(key, nodes) ==
  LET d  == [Draft("update", key) EXCEPT !.nodes = nodes]
      op == [kind |-> "update", table |-> d.table, item |-> key, cond |-> NoCond, upd |-> RawUpdate(nodes)]
  IN  /\ Idle /\ options < MaxOptions
      /\ Answered(<<Said(d)>>, Performed(db, [type |-> "write", ops |-> <<op>>]))
      /\ pc' = "idle" /\ NoBuilder
      /\ options' = options + 1
      /\ UNCHANGED draft

Next ==
  \/ \E item \in Items : Call("put", item) \/ Describe("put", item)
  \/ \E kind \in {"update", "delete"}, key \in Keys : Call(kind, key) \/ Describe(kind, key)
  \/ WriteTx
  \/ \E c \in ClauseSet : PassClause(c)
  \/ \E item \in Items : \E a \in DOMAIN item : IfNotExists(<<a>>)
  \/ \E ast \in Condition : PassCondition(ast) \/ PassWrongCondition(ast)
  \/ Send \/ AddToTx
  \/ \E key \in Keys, ast \in Condition, enough \in BOOLEAN : AddCheck(key, ast, enough)
  \/ Run
  \/ \E key \in Keys, ast \in Condition : DeleteItem(key, ast)
  \/ \E key \in Keys, nodes \in RawUpdates : UpdateItem(key, nodes)

Spec == Init /\ [][Next]_vars

-------------------------------------------------------------------------------
(* The builder's operations are those that were described, in their order, *)
(* and none of them is an update without clauses.                          *)
IsBuilt(op, d) ==
  /\ op.kind = d.kind /\ op.table = d.table /\ op.item = d.item
  /\ op.kind \in {"put", "update", "delete", "check"} /\ op.table \in Tables
  /\ op.kind = "update" => d.clauses # <<>>

(* An operation that is being described.                                   *)
IsDraft(d) ==
  /\ d = [kind |-> d.kind, table |-> d.table, item |-> d.item, cond |-> d.cond,
          conds |-> d.conds, clauses |-> d.clauses, nodes |-> <<>>]
  /\ d.kind \in {"put", "update", "delete"} /\ d.table \in Tables
  /\ d.item \in IF d.kind = "put" THEN Items ELSE Keys
  /\ d.clauses \in Seq(ClauseSet)
  /\ d.kind # "update" => d.clauses = <<>>

(* Calls and builders keep their shapes, and what a builder sends is what  *)
(* was said to it.                                                         *)
TypeOK ==
  /\ pc \in {"idle", "single", "tx"}
  /\ draft # NoDraft => IsDraft(draft)
  /\ pc = "single" => draft # NoDraft
  /\ pc = "idle" => draft = NoDraft
  /\ Len(ops) = Len(said) /\ Len(ops) <= MaxTx + 1
  /\ \A i \in DOMAIN ops : IsBuilt(ops[i], said[i])
  /\ err \in {"none", "invalid", "error"}
  /\ calls \in 0..MaxCalls /\ options \in 0..MaxOptions

(* What the first n operations of the builder leave of the data there was  *)
(* before the last call.                                                   *)
AfterFirst(n) == Executed("txwrite", last.before, <<>>, SubSeq(ops, 1, n)).db

(* A call that does not succeed changes nothing, and neither does a        *)
(* builder with an error of its own.  The exception is a transaction whose *)
(* conditions all hold, in which the write of an operation is refused      *)
(* when its turn comes, for its update fails or it has no key: exactly the *)
(* operations before that one are carried out then.                        *)
RefusedChangesNothing ==
  last.answer.status \notin {"none", "ok"} /\ db # last.before =>
    /\ err = "none" /\ Len(last.said) = Len(ops)
    /\ Conditions(last.before, [type |-> "txwrite", ops |-> ops]).status = "ok"
    /\ \E n \in 1..(Len(ops) - 1) :
         LET op == ops[n + 1]
         IN  /\ db = AfterFirst(n)
             /\ Verdict(SchemaOf[op.table], db[op.table], op) = last.answer.status

(* The expressions of an operation can be read: whatever options came      *)
(* together in it, each of their aliases has its name, each of their       *)
(* placeholders a value.                                                   *)
OpResolves(op) ==
  /\ op.cond # NoCond => IsResolved(op.cond)
  /\ op.kind = "update" => IsResolved(op.upd)

(* The backend can read every request that the library builds, whatever    *)
(* options were passed in whatever order; so no call fails on a            *)
(* placeholder that mergeConditions or buildUpdateRequest lost.            *)
PlaceholdersResolve ==
  /\ draft # NoDraft => OpResolves(BuildRequest(draft))
  /\ \A i \in DOMAIN ops : OpResolves(ops[i])

===============================================================================
