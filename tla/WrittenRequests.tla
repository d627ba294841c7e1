---------------------------- MODULE WrittenRequests ---------------------------
(***************************************************************************)
(* Requests with its conditions written out: what a caller writes for a    *)
(* syntax tree, and what it may then expect of its calls.                  *)
(***************************************************************************)
EXTENDS Requests, ExprBuilder

-------------------------------------------------------------------------------
(* How a caller writes a condition: with as few parentheses as it needs.   *)

Binding(ast) ==
  CASE ast[1] = "or" -> 1 [] ast[1] = "and" -> 2 [] ast[1] = "not" -> 3 [] OTHER -> 4

RECURSIVE ConditionText(_)
ConditionText(ast) ==
  LET part(a, least) == IF Binding(a) < least THEN InParens(ConditionText(a)) ELSE ConditionText(a)
  IN  CASE ast[1] = "or"   -> part(ast[2], 1) \o <<Word(<<"OR">>)>> \o part(ast[3], 2)
        [] ast[1] = "and"  -> part(ast[2], 2) \o <<Word(<<"AND">>)>> \o part(ast[3], 3)
        [] ast[1] = "not"  -> <<Word(<<"NOT">>)>> \o part(ast[2], 3)
        [] ast[1] = "cmp"  -> ConditionText(ast[3]) \o <<Sym(ast[2])>> \o ConditionText(ast[4])
        [] ast[1] = "fn"   -> <<Word(<<ast[2]>>)>>
                              \o InParens(Joined([i \in DOMAIN ast[3] |-> ConditionText(ast[3][i])], Sym(",")))
        [] ast[1] = "in"   -> ConditionText(ast[2]) \o <<Word(<<"IN">>)>>
                              \o InParens(Joined([i \in DOMAIN ast[3] |-> <<Sym("?")>>], Sym(",")))
        [] ast[1] = "between" -> ConditionText(ast[2]) \o <<Word(<<"BETWEEN">>), Sym("?"), Word(<<"AND">>), Sym("?")>>
        [] ast[1] = "path" -> <<Word(ast[2])>>
        [] ast[1] = "val"  -> <<Sym("?")>>

IsRange(ast) == ast[1] \in {"in", "between"}

ConditionValues(ast) == IF IsRange(ast) THEN ast[3] ELSE NodeValues(ast)

(* A range as comparisons.                                                 *)
Tree(ast) ==
  LET cmp(op, i) == <<"cmp", op, ast[2], <<"val", ast[3][i]>>>>
  IN  CASE ast[1] = "in" -> FoldLeft(LAMBDA t, i : <<"or", t, cmp("=", i)>>, cmp("=", 1),
                                     [i \in 1..(Len(ast[3]) - 1) |-> i + 1])
        [] ast[1] = "between" -> <<"and", cmp(">=", 1), cmp("<=", 2)>>
        [] OTHER -> ast

(* How a caller of the backend writes the value of a SET.                  *)
RECURSIVE ValueText(_)
ValueText(v) ==
  CASE v[1] = "val"  -> <<Sym("?")>>
    [] v[1] = "path" -> <<Name(v[2])>>
    [] v[1] \in {"+", "-"} -> ValueText(v[2]) \o <<Sym(v[1])>> \o ValueText(v[3])
    [] v[1] = "if_not_exists" ->
         <<Word(<<v[1]>>)>> \o InParens(<<Name(v[2]), Sym(",")>> \o ValueText(v[3]))
    [] v[1] = "list_append" ->
         <<Word(<<v[1]>>)>> \o InParens(ValueText(v[2]) \o <<Sym(",")>> \o ValueText(v[3]))

RECURSIVE ValuesIn(_)
ValuesIn(v) ==
  CASE v[1] = "val"  -> <<v[2]>>
    [] v[1] = "path" -> <<>>
    [] v[1] = "if_not_exists" -> ValuesIn(v[3])
    [] OTHER -> ValuesIn(v[2]) \o ValuesIn(v[3])

UpdateText(nodes) ==
  LET text == <<Word(<<"SET">>)>>
              \o Joined([i \in DOMAIN nodes |-> <<Name(nodes[i].path), Sym("=")>> \o ValueText(nodes[i].value)], Sym(","))
  IN  [expression |-> Numbered(text), names |-> NamesIn(text),
       values |-> ValuesFrom(FlattenSeq([i \in DOMAIN nodes |-> ValuesIn(nodes[i].value)]))]

(* An expression written by hand: every attribute behind an alias.         *)
Aliased(ast) ==
  LET text == ConditionText(ast)
      plain(i) == IsAttribute(text, i) /\ text[i] # Word(<<"BETWEEN">>) /\ text[i] # Word(<<"IN">>)
      ts == [i \in DOMAIN text |-> IF plain(i) THEN Name(text[i][2]) ELSE text[i]]
  IN  [expression |-> Numbered(ts), names |-> NamesIn(ts), values |-> ValuesFrom(ConditionValues(ast))]

-------------------------------------------------------------------------------
(* What a caller may expect of what it said.                               *)

ItemAt(state, d) == Lookup(state[d.table].items, KeyIn(d))

(* The conditions one after the other: the first that is not true decides. *)
Decided(d, state) ==
  FoldLeft(LAMBDA acc, ast : IF acc = "true" THEN Eval(Tree(ast), ItemAt(state, d)) ELSE acc,
           "true", d.conds)

(* Parts of one request that give different values to one placeholder.     *)
ClauseValues(d) == [i \in 1..Cardinality(Valued(d.clauses)) |-> UpdateValues(d.clauses)[i - 1]]

Clash(d) ==
  LET parts == Append([i \in DOMAIN d.conds |-> Values(d.conds[i])], ClauseValues(d))
  IN  \E i, j \in DOMAIN parts : \E n \in DOMAIN parts[i] \cap DOMAIN parts[j] :
        parts[i][n] # parts[j][n]

(* A set is a sequence in some order.                                      *)
Plain(v) == IF TypeOf(v) \in {"SS", "NS"} THEN <<TypeOf(v), ToSet(Payload(v))>> ELSE v

PlainItem(item) == [a \in DOMAIN item |-> Plain(item[a])]

(* A sum that float64 holds exactly, or Error.                              *)
Exactly(n) == IF n \in -(2 ^ MantissaBits)..(2 ^ MantissaBits) THEN <<"N", n>> ELSE Error

IsPair(type, v, w) == Error \notin {v, w} /\ TypeOf(v) = type /\ TypeOf(w) = type

(* What the right-hand side of a SET stands for on a plain item, or Error  *)
(* if it has no meaning on it: DynamoDB's rule, not memdb's definition.    *)
RECURSIVE RightHandSide(_, _)
RightHandSide(v, item) ==
  LET there(path) == Len(path) = 1 /\ Head(path) \in DOMAIN item
      left  == RightHandSide(v[2], item)
      right == RightHandSide(v[3], item)
  IN  CASE v[1] = "val"  -> Plain(v[2])
        [] v[1] = "path" -> IF there(v[2]) THEN item[Head(v[2])] ELSE Error
        [] v[1] = "if_not_exists" -> IF there(v[2]) THEN item[Head(v[2])] ELSE right
        [] v[1] \in {"+", "-"} ->
             IF ~IsPair("N", left, right) THEN Error
             ELSE Exactly(Payload(left) + (IF v[1] = "+" THEN 1 ELSE -1) * Payload(right))
        [] v[1] = "list_append" ->
             IF IsPair("L", left, right) THEN <<"L", Payload(left) \o Payload(right)>> ELSE Error

RECURSIVE Reads(_)
Reads(v) ==
  CASE v[1] = "val"  -> {}
    [] v[1] = "path" -> {v[2]}
    [] v[1] = "if_not_exists" -> {v[2]} \cup Reads(v[3])
    [] v[1] \in {"+", "-", "list_append"} -> Reads(v[2]) \cup Reads(v[3])

(* A SET reads what one before it in the same update assigns.              *)
ReadsAssigned(nodes) ==
  \E i, j \in DOMAIN nodes : i < j /\ nodes[i].path \in Reads(nodes[j].value)

(* An item with one more clause of an update of "start": the clause says   *)
(* what becomes of its attribute as "start" has it.  Error if the clause   *)
(* has no meaning, for a type that does not fit or an inexact number.      *)
Effect(start, item, c) ==
  LET a   == Head(c.attr)
      old == IF a \in DOMAIN start THEN start[a] ELSE NoValue
      v   == Plain(c.val)
      fits == TypeOf(old) = TypeOf(v)
      put(x) == [b \in DOMAIN item \cup {a} |-> IF b = a THEN x ELSE item[b]]
      isSet  == TypeOf(v) \in {"SS", "NS"}
  IN  CASE Len(c.attr) > 1 \/ c.val = Error -> Error
        [] c.action = "SET"    -> put(v)
        [] c.action = "REMOVE" -> [b \in DOMAIN item \ {a} |-> item[b]]
        [] c.action = "ADD" /\ old = NoValue -> put(v)
        [] c.action = "ADD" /\ old # NoValue /\ fits /\ TypeOf(v) = "N" ->
             IF Exactly(Payload(old) + Payload(v)) = Error THEN Error
             ELSE put(Exactly(Payload(old) + Payload(v)))
        [] c.action = "ADD" /\ old # NoValue /\ fits /\ isSet ->
             put(<<TypeOf(v), Payload(old) \cup Payload(v)>>)
        [] c.action = "DELETE" /\ old = NoValue -> item
        [] c.action = "DELETE" /\ old # NoValue /\ fits /\ isSet ->
             put(<<TypeOf(v), Payload(old) \ Payload(v)>>)
        [] OTHER -> Error

Distinct(clauses) == \A i, j \in DOMAIN clauses : i # j => clauses[i].attr # clauses[j].attr

(* The plain item an update should leave, or Error if that is not clear.   *)
Meant(d, old) ==
  LET start   == IF old = NoItem THEN PlainItem(d.item) ELSE old
      set(node) == Clause("SET", node.path, RightHandSide(node.value, start))
      clauses == d.clauses \o [i \in DOMAIN d.nodes |-> set(d.nodes[i])]
      step(item, c) == IF item = Error THEN Error ELSE Effect(start, item, c)
  IN  IF Clash(d) \/ ReadsAssigned(d.nodes) \/ ~Distinct(clauses) THEN Error
      ELSE FoldLeft(step, start, clauses)

PlainItems(state, t) == [k \in DOMAIN state[t].items |-> PlainItem(state[t].items[k])]

(* The items of all tables after a sequence of operations, or Error.       *)
Intended(what, state) ==
  LET step(acc, d) ==
        LET k    == KeyIn(d)
            new  == IF d.kind = "put" THEN PlainItem(d.item) ELSE Meant(d, Lookup(acc[d.table], k))
        IN  CASE d.kind = "check"  -> acc
              [] d.kind = "delete" -> [acc EXCEPT ![d.table] = Without(@, k)]
              [] OTHER -> [acc EXCEPT ![d.table] = With(@, k, new)]
  IN  FoldLeft(step, [t \in Tables |-> PlainItems(state, t)], what)

IsClear(items) == \A t \in Tables : \A k \in DOMAIN items[t] : items[t][k] # Error

-------------------------------------------------------------------------------
(* A value as DynamoDB has them: elements of a set occur once.             *)
RECURSIVE IsValue(_)
IsValue(v) ==
  LET p == Payload(v)
      isString(s) == s \in Seq(Nat)
      each(test(_)) == p = [i \in 1..Len(p) |-> p[i]] /\ \A i \in DOMAIN p : test(p[i])
  IN  CASE TypeOf(v) \in {"S", "B"} -> isString(p)
        [] TypeOf(v) = "N"    -> p \in Int
        [] TypeOf(v) = "BOOL" -> p \in BOOLEAN
        [] TypeOf(v) = "NULL" -> TRUE
        [] TypeOf(v) = "SS"   -> IsInjective(p) /\ each(isString)
        [] TypeOf(v) = "NS"   -> IsInjective(p) /\ each(LAMBDA n : n \in Int)
        [] TypeOf(v) = "L"    -> each(IsValue)
        [] TypeOf(v) = "M"    -> \A a \in DOMAIN p : IsValue(p[a])
        [] OTHER              -> FALSE

(* Items are stored under their own keys with attributes of the table's    *)
(* names and values of known types, in which nothing is left of a failed   *)
(* evaluation.                                                             *)
ItemsAreSound ==
  \A t \in Tables :
    LET items == db[t].items
    IN  /\ UnderTheirKeys(SchemaOf[t].key, items)
        /\ \A k \in DOMAIN items : \A a \in DOMAIN items[k] : a \in Attr /\ IsValue(items[k][a])

(* A call is carried out only if every condition the caller gave is true   *)
(* of the item before it, with NOT before AND before OR and each condition *)
(* taken whole; it fails on its conditions only if one of them is false,   *)
(* and the reasons of a cancelled transaction name just those operations.  *)
(* Calls are left out in which two conditions, or a condition and a        *)
(* clause, give one placeholder different values.                          *)
ConditionsDecide ==
  LET verdict(i) == Decided(last.said[i], last.before)
      answer == last.answer
  IN  (\A i \in DOMAIN last.said : ~Clash(last.said[i])) =>
        /\ answer.status = "ok" => \A i \in DOMAIN last.said : verdict(i) = "true"
        /\ answer.status = "condition failed" => verdict(1) = "false"
        /\ answer.status = "cancelled" =>
             /\ \E i \in DOMAIN last.said : verdict(i) = "false"
             /\ \A i \in DOMAIN last.said : answer.detail[i] = (verdict(i) = "false")

(* A call that succeeds leaves exactly the items the caller described:     *)
(* each clause of an update, and each right-hand side in it, is applied to *)
(* the item as it was before the update, in whatever order the clauses     *)
(* are written; numbers are summed exactly as far as float64 holds them,   *)
(* and operations of a transaction follow each other.  Left out are        *)
(* clauses on one attribute or on nested paths, on values of another type, *)
(* and shared placeholders; and updates in which a right-hand side reads   *)
(* what an earlier SET assigns, for there memdb takes the assigned value   *)
(* and DynamoDB the one before the update.                                 *)
ChangesAreMeant ==
  last.answer.status = "ok" =>
    LET items == Intended(last.said, last.before)
    IN  IsClear(items) => \A t \in Tables : PlainItems(db, t) = items[t]

(* The two packages that read and write expressions agree: a text means in *)
(* internal/expr what the library's request for it means to memdb, as does *)
(* the expression internal/expr writes for it; clauses that internal/expr  *)
(* applies leave the same item in memdb, and memdb refuses no others.      *)
PackagesAgree ==
  draft # NoDraft =>
    LET item   == ItemAt(db, draft)
        nested(ts) == \E i \in DOMAIN ts : Kind(ts[i]) = "word" /\ Len(ts[i][2]) > 1
        here   == EvalUpdateNodes([i \in DOMAIN draft.clauses |-> BuildNode(draft.clauses[i])], item)
        there  == MemEvalUpdate(BuildUpdateRequest([draft EXCEPT !.cond = NoCond]).upd, item)
    IN  /\ \A i \in DOMAIN draft.conds :
             LET ast  == draft.conds[i]
                 text == Text(ast)
                 tree == ParseCondition(text, Values(ast))
                 mem(e) == MemEvalCondition(e, item)
             IN  IF IsRange(ast) THEN tree = NoParse
                 ELSE ~nested(text) =>
                        /\ Eval(tree, item) = mem(BuildCondition(text, Values(ast)))
                        /\ Eval(tree, item) = mem(ToDynamo(tree))
        /\ Distinct(draft.clauses) /\ (\A i \in DOMAIN draft.clauses : Len(draft.clauses[i].attr) = 1) =>
             here = there \/ (here = Error /\ there # Error)

(* What the guide shows of a conditional update, and the comment on Set    *)
(* says of every update: an attribute that was set has the value it was    *)
(* set to.  The code breaks this when the condition's placeholders collide *)
(* with those of the clauses.                                              *)
SetAssigns ==
  last.answer.status = "ok" =>
    \A i \in DOMAIN last.said :
      LET d == last.said[i]
      IN  Len(last.said) = 1 /\ Distinct(d.clauses) =>
            \A j \in DOMAIN d.clauses :
              d.clauses[j].action = "SET" =>
                ResolvePath(d.clauses[j].attr, ItemAt(db, d)) = d.clauses[j].val

===============================================================================
