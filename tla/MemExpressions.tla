---------------------------- MODULE MemExpressions ----------------------------
(***************************************************************************)
(* How the in-memory backend reads the expressions of a request            *)
(* (memdb/expression.go): a descent over the tokens, with the names and    *)
(* the values of the request, to the syntax trees of Expr.                 *)
(*                                                                         *)
(* An expression e is a record of tokens, names and values.  A parser is   *)
(* given the tokens that remain and yields what it has read and what       *)
(* remains after it, or NoParse.                                           *)
(***************************************************************************)
EXTENDS Expressions, Expr

CONSTANT NoParse

End == <<"end", 0>>

Peek(ts) == IF ts = <<>> THEN End ELSE Head(ts)

Parsed(node, rest) == [node |-> node, rest |-> rest]

(* The expression is written as a text and cut into tokens again: an alias *)
(* ends at the first dot of its name, and the rest becomes a word.  Other  *)
(* dots are dropped.                                                       *)
Retokenized(expression) ==
  FlattenSeq([i \in DOMAIN expression |->
    LET tok == expression[i]
    IN  IF tok = Sym(".") THEN <<>>
        ELSE IF Kind(tok) = "name" /\ Len(tok[2]) > 1
        THEN <<Name(<<Head(tok[2])>>), Word(Tail(tok[2]))>> ELSE <<tok>>])

-------------------------------------------------------------------------------
(* Conditions.                                                             *)

FunctionNames ==
  {"attribute_exists", "attribute_not_exists", "begins_with", "contains", "size", "attribute_type"}

(* A function and its arguments.                                           *)
CallOf(name, args) ==
  IF args = NoParse THEN NoParse ELSE Parsed(<<"fn", name, args.node>>, args.rest)

RECURSIVE ParsePrimary(_, _), ParseArgs(_, _, _), MoreArgs(_, _, _)

ParsePrimary(e, ts) ==
  LET tok    == Peek(ts)
      called == Peek(Tail(ts)) = Sym("(")
  IN  CASE Kind(tok) = "value" ->
             IF tok[2] \in DOMAIN e.values THEN Parsed(<<"val", e.values[tok[2]]>>, Tail(ts)) ELSE NoParse
        [] Kind(tok) = "name" /\ tok[2] \notin e.names -> NoParse
        [] \/ Kind(tok) = "name" /\ tok[2] \in e.names
           \/ Kind(tok) = "word" ->
             IF called /\ (Kind(tok) = "name" \/ Head(tok[2]) \in FunctionNames)
             THEN CallOf(Head(tok[2]), ParseArgs(e, Tail(Tail(ts)), <<>>))
             ELSE Parsed(<<"path", tok[2]>>, Tail(ts))
        [] OTHER -> NoParse

(* The arguments up to the closing parenthesis, with commas in between.    *)
ParseArgs(e, ts, args) ==
  IF Peek(ts) = Sym(")") THEN Parsed(args, Tail(ts))
  ELSE IF args = <<>> THEN MoreArgs(e, ParsePrimary(e, ts), args)
  ELSE IF Peek(ts) # Sym(",") THEN NoParse
  ELSE MoreArgs(e, ParsePrimary(e, Tail(ts)), args)

MoreArgs(e, arg, args) ==
  IF arg = NoParse THEN NoParse ELSE ParseArgs(e, arg.rest, Append(args, arg.node))

ComparisonSigns == {"=", "<>", "<", "<=", ">", ">="}

(* Two operands with a sign or a connective between them.                  *)
Joint(head, left, right) ==
  IF right = NoParse THEN NoParse ELSE Parsed(head \o <<left.node, right.node>>, right.rest)

(* x BETWEEN low AND high                                                  *)
UpTo(x, low, high) ==
  IF high = NoParse THEN NoParse
  ELSE Parsed(<<"and", <<"cmp", ">=", x, low.node>>, <<"cmp", "<=", x, high.node>>>>, high.rest)

Between(e, x, low) ==
  IF low = NoParse THEN NoParse
  ELSE IF Peek(low.rest) # Word(<<"AND">>) THEN NoParse
  ELSE UpTo(x, low, ParsePrimary(e, Tail(low.rest)))

(* x IN (a, b, ...): a chain of comparisons; false of an empty list.       *)
In(x, args) ==
  LET same(v) == <<"cmp", "=", x, v>>
      empty   == <<"cmp", "<>", <<"val", <<"S", <<>>>>>>, <<"val", <<"S", <<>>>>>>>>
  IN  IF args = NoParse THEN NoParse
      ELSE IF args.node = <<>> THEN Parsed(empty, args.rest)
      ELSE Parsed(FoldLeft(LAMBDA node, v : <<"or", node, same(v)>>,
                           same(Head(args.node)), Tail(args.node)), args.rest)

(* What follows the left operand; nothing has to.                          *)
Comparison(e, left) ==
  LET sign == Peek(left.rest)
      rest == Tail(left.rest)
  IN  IF left = NoParse THEN NoParse
      ELSE IF sign = Word(<<"BETWEEN">>) THEN Between(e, left.node, ParsePrimary(e, rest))
      ELSE IF sign = Word(<<"IN">>)
           THEN IF Peek(rest) # Sym("(") THEN NoParse
                ELSE In(left.node, ParseArgs(e, Tail(rest), <<>>))
      ELSE IF Kind(sign) = "sym" /\ sign[2] \in ComparisonSigns
           THEN Joint(<<"cmp", sign[2]>>, left, ParsePrimary(e, rest))
      ELSE left

Closed(inner) ==
  IF inner = NoParse THEN NoParse
  ELSE IF Peek(inner.rest) # Sym(")") THEN NoParse
  ELSE Parsed(inner.node, Tail(inner.rest))

Negated(operand) ==
  IF operand = NoParse THEN NoParse ELSE Parsed(<<"not", operand.node>>, operand.rest)

RECURSIVE ParseOr(_, _), OrRest(_, _), ParseAnd(_, _), AndRest(_, _), ParseNot(_, _), ParseComparison(_, _)

ParseComparison(e, ts) ==
  IF Peek(ts) = Sym("(") THEN Closed(ParseOr(e, Tail(ts))) ELSE Comparison(e, ParsePrimary(e, ts))

ParseNot(e, ts) ==
  IF Peek(ts) = Word(<<"NOT">>) THEN Negated(ParseNot(e, Tail(ts))) ELSE ParseComparison(e, ts)

AndRest(e, left) ==
  IF left = NoParse THEN NoParse
  ELSE IF Peek(left.rest) # Word(<<"AND">>) THEN left
  ELSE AndRest(e, Joint(<<"and">>, left, ParseNot(e, Tail(left.rest))))

ParseAnd(e, ts) == AndRest(e, ParseNot(e, ts))

OrRest(e, left) ==
  IF left = NoParse THEN NoParse
  ELSE IF Peek(left.rest) # Word(<<"OR">>) THEN left
  ELSE OrRest(e, Joint(<<"or">>, left, ParseAnd(e, Tail(left.rest))))

ParseOr(e, ts) == OrRest(e, ParseAnd(e, ts))

(* The whole expression must be read.                                      *)
Whole(all) ==
  IF all = NoParse THEN NoParse ELSE IF all.rest # <<>> THEN NoParse ELSE all.node

ParseExpression(e) == Whole(ParseOr(e, Retokenized(e.expression)))

EvalTree(tree, item) == IF tree = NoParse THEN "error" ELSE Eval(tree, item)

(* evalCondition: "true", "false" or "error".                              *)
MemEvalCondition(e, item) == EvalTree(ParseExpression(e), item)

-------------------------------------------------------------------------------
(* Updates.  Values are <<"val", v>>, <<"path", parts>>, <<"+", l, r>>,    *)
(* <<"-", l, r>>, <<"if_not_exists", parts, v>>, <<"list_append", l, r>>.  *)

Actions == {"SET", "ADD", "REMOVE", "DELETE"}

IsAction(tok) == Kind(tok) = "word" /\ tok[2] \in {<<a>> : a \in Actions}

AtSectionEnd(ts) == Peek(ts) = End \/ IsAction(Peek(ts))

(* A faulty PathOf: aliases are not resolved.                              *)
PathOfUnresolved(e, tok) == IF Kind(tok) = "name" THEN <<"#" \o Head(tok[2])>> ELSE <<tok[2]>>

(* A name that is not known, like any other token, stands for itself.      *)
PathOf(e, tok) ==
  CASE Kind(tok) = "name"  -> IF tok[2] \in e.names THEN tok[2] ELSE <<"#" \o Head(tok[2])>>
    [] Kind(tok) = "word"  -> tok[2]
    [] Kind(tok) = "sym"   -> <<tok[2]>>
    [] Kind(tok) = "value" -> <<":v">>

ValueOf(e, tok) ==
  CASE Kind(tok) = "value" -> IF tok[2] \in DOMAIN e.values THEN <<"val", e.values[tok[2]]>> ELSE NoParse
    [] Kind(tok) = "name"  -> IF tok[2] \in e.names THEN <<"path", tok[2]>> ELSE NoParse
    [] OTHER               -> <<"path", PathOf(e, tok)>>

SkipComma(ts) == IF Peek(ts) = Sym(",") THEN Tail(ts) ELSE ts

RECURSIVE ParseSetValue(_, _), SetFunction(_, _, _), ParseSetFunction(_, _, _), ParseSetAtom(_, _)

FunctionEnd(name, first, second) ==
  IF second = NoParse THEN NoParse
  ELSE IF Peek(second.rest) # Sym(")") THEN NoParse
  ELSE Parsed(<<name, first.node, second.node>>, Tail(second.rest))

SetFunction(e, name, first) ==
  IF first = NoParse THEN NoParse
  ELSE IF Peek(first.rest) # Sym(",") THEN NoParse
  ELSE FunctionEnd(name, first, ParseSetValue(e, Tail(first.rest)))

ParseSetFunction(e, name, ts) ==
  IF ts = <<>> THEN NoParse
  ELSE CASE name = "if_not_exists" -> SetFunction(e, name, Parsed(PathOf(e, Head(ts)), Tail(ts)))
         [] name = "list_append"   -> SetFunction(e, name, ParseSetValue(e, ts))
         [] OTHER                  -> NoParse

ParseSetAtom(e, ts) ==
  LET tok  == Peek(ts)
      rest == Tail(ts)
      name == IF Kind(tok) = "name" THEN PathOf(e, tok) ELSE tok[2]
  IN  IF Kind(tok) \notin {"value", "name", "word"} THEN NoParse
      ELSE IF Kind(tok) # "value" /\ Peek(rest) = Sym("(") THEN ParseSetFunction(e, Head(name), Tail(rest))
      ELSE IF ValueOf(e, tok) = NoParse THEN NoParse
      ELSE Parsed(ValueOf(e, tok), rest)

(* What follows the first atom: another with + or - in between, or nothing.*)
Arithmetic(e, left) ==
  LET sign == Peek(left.rest)
  IN  IF left = NoParse THEN NoParse
      ELSE IF sign \notin {Sym("+"), Sym("-")} THEN left
      ELSE Joint(<<sign[2]>>, left, ParseSetAtom(e, Tail(left.rest)))

ParseSetValue(e, ts) == Arithmetic(e, ParseSetAtom(e, ts))

(* The value of a clause; that of a REMOVE is never looked at.             *)
ClauseValue(e, action, ts) ==
  CASE action = "REMOVE" -> Parsed(NoValue, ts)
    [] action = "SET" -> IF Peek(ts) = Sym("=") THEN ParseSetValue(e, Tail(ts)) ELSE NoParse
    [] action \in {"ADD", "DELETE"} ->
         IF AtSectionEnd(ts) \/ ValueOf(e, Peek(ts)) = NoParse THEN NoParse
         ELSE Parsed(ValueOf(e, Peek(ts)), Tail(ts))

ClauseOf(action, path, value) ==
  IF value = NoParse THEN NoParse
  ELSE Parsed([action |-> action, path |-> path, value |-> value.node], SkipComma(value.rest))

(* The clauses of all sections; "action" is that of the current section.   *)
RECURSIVE ParseUpdate(_, _, _, _), MoreClauses(_, _, _, _)

ParseUpdate(e, action, ts, ops) ==
  IF ts = <<>> THEN ops
  ELSE IF IsAction(Head(ts)) THEN ParseUpdate(e, Head(Head(ts)[2]), Tail(ts), ops)
  ELSE IF action = "none" THEN NoParse
  ELSE MoreClauses(e, action, ClauseOf(action, PathOf(e, Head(ts)), ClauseValue(e, action, Tail(ts))), ops)

MoreClauses(e, action, clause, ops) ==
  IF clause = NoParse THEN NoParse
  ELSE ParseUpdate(e, action, clause.rest, Append(ops, clause.node))

Required(v) == IF v = NoValue THEN Error ELSE v

BothAre(type, left, right) ==
  /\ left # Error /\ right # Error
  /\ TypeOf(left) = type /\ TypeOf(right) = type

RECURSIVE ResolveValue(_, _)
ResolveValue(value, item) ==
  LET left  == ResolveValue(value[2], item)
      right == ResolveValue(value[3], item)
  IN  CASE value[1] = "val"  -> value[2]
        [] value[1] = "path" -> Required(ResolvePath(value[2], item))
        [] value[1] = "if_not_exists" ->
             IF ResolvePath(value[2], item) = NoValue THEN right ELSE ResolvePath(value[2], item)
        [] value[1] = "+" -> IF ~BothAre("N", left, right) THEN Error
                           ELSE <<"N", AddNumbers(Payload(left), Payload(right))>>
        [] value[1] = "-" -> IF ~BothAre("N", left, right) THEN Error
                           ELSE <<"N", SubtractNumbers(Payload(left), Payload(right))>>
        [] value[1] = "list_append" -> IF ~BothAre("L", left, right) THEN Error
                                     ELSE <<"L", Payload(left) \o Payload(right)>>

(* setNestedPath of this package: nothing where something is in the way.   *)
Unless(new, item) == IF new = Error THEN item ELSE new

SetOrLeave(path, item, v) == Unless(SetPath(path, item, v), item)

SetChecked(path, item, v) == IF v = Error THEN Error ELSE SetOrLeave(path, item, v)

(* A faulty ApplyOp: an ADD to an existing attribute replaces it.          *)
ApplyOpReplacing(item, op) ==
  IF op.action = "REMOVE" THEN RemovePath(op.path, item)
  ELSE SetChecked(op.path, item, ResolveValue(op.value, item))

(* ADD and DELETE.  A DELETE of another type does nothing.                 *)
AddOrDelete(item, op, old, v) ==
  CASE v = Error -> Error
    [] v # Error /\ op.action = "ADD" -> SetChecked(op.path, item, Added(old, v))
    [] v # Error /\ op.action = "DELETE" ->
         IF old = NoValue THEN item ELSE IF Deleted(old, v) = Error THEN item
         ELSE SetOrLeave(op.path, item, Deleted(old, v))

(* One step of evalUpdateNodes.                                            *)
ApplyOp(item, op) ==
  CASE op.action = "REMOVE" -> RemovePath(op.path, item)
    [] op.action = "SET"    -> SetChecked(op.path, item, ResolveValue(op.value, item))
    [] op.action \in {"ADD", "DELETE"} ->
         AddOrDelete(item, op, ResolvePath(op.path, item), ResolveValue(op.value, item))

(* parseUpdateExpression and evalUpdateNodes: the new item or Error.       *)
ApplyAll(ops, item) ==
  IF ops = NoParse THEN Error
  ELSE FoldLeft(LAMBDA acc, op : IF acc = Error THEN Error ELSE ApplyOp(acc, op), item, ops)

MemEvalUpdate(e, item) == ApplyAll(ParseUpdate(e, "none", Retokenized(e.expression), <<>>), item)

===============================================================================
