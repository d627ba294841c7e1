--------------------------------- MODULE Expr ---------------------------------
(***************************************************************************)
(* What conditions and updates mean: the evaluators of internal/expr on    *)
(* syntax trees.  A node is a tuple:                                       *)
(*   <<"cmp", op, l, r>>   <<"and", l, r>>  <<"or", l, r>>  <<"not", n>>   *)
(*   <<"fn", name, args>>  <<"path", parts>>  <<"val", v>>                 *)
(* and an update node is a record of its action, path and value.           *)
(*                                                                         *)
(* Values are those of the module Values, and further: BOOL with a         *)
(* Boolean, NULL, L with a sequence of values, M with an item, SS and NS   *)
(* with sequences of payloads in which none occurs twice.  BS is left out. *)
(***************************************************************************)
EXTENDS Values

CONSTANTS
  NoValue,       \* a path that leads nowhere
  Error,         \* an evaluation that fails
  MantissaBits   \* numbers are computed with as float64: 53

-------------------------------------------------------------------------------
(* Paths into an item; recursive because maps contain maps.                *)

EmptyItem == [a \in {} |-> NoValue]

Put(item, a, v) == [x \in DOMAIN item \cup {a} |-> IF x = a THEN v ELSE item[x]]

Drop(item, a) == [x \in DOMAIN item \ {a} |-> item[x]]

RECURSIVE ResolvePath(_, _)
ResolvePath(parts, item) ==
  IF parts = <<>> \/ Head(parts) \notin DOMAIN item THEN NoValue
  ELSE LET v == item[Head(parts)]
       IN  IF Len(parts) = 1 THEN v
           ELSE IF TypeOf(v) # "M" THEN NoValue
           ELSE ResolvePath(Tail(parts), Payload(v))

(* Error where the path leads through something that is no map.            *)
RECURSIVE SetPath(_, _, _)
SetPath(parts, item, v) ==
  LET a     == Head(parts)
      below == IF a \notin DOMAIN item THEN SetPath(Tail(parts), EmptyItem, v)
               ELSE IF TypeOf(item[a]) = "M" THEN SetPath(Tail(parts), Payload(item[a]), v)
               ELSE Error
  IN  IF Len(parts) = 1 THEN Put(item, a, v)
      ELSE IF below = Error THEN Error
      ELSE Put(item, a, <<"M", below>>)

RECURSIVE RemovePath(_, _)
RemovePath(parts, item) ==
  LET a == Head(parts)
  IN  IF Len(parts) = 1 THEN Drop(item, a)
      ELSE IF a \notin DOMAIN item \/ TypeOf(item[a]) # "M" THEN item
      ELSE Put(item, a, <<"M", RemovePath(Tail(parts), Payload(item[a]))>>)

-------------------------------------------------------------------------------
(* Numbers.  Float64 rounds an integer to MantissaBits significant bits,   *)
(* to the nearest one and on a tie to the even one.                        *)

RECURSIVE Ulp(_)
Ulp(n) == IF n < 2 ^ MantissaBits THEN 1 ELSE 2 * Ulp(n \div 2)

RoundNat(n) ==
  LET u    == Ulp(n)
      down == (n \div u) * u
      rest == n - down
  IN  IF 2 * rest < u \/ (2 * rest = u /\ (n \div u) % 2 = 0) THEN down ELSE down + u

Float(n) == IF n < 0 THEN -RoundNat(-n) ELSE RoundNat(n)

AddNumbers(m, n) == Float(Float(m) + Float(n))

SubtractNumbers(m, n) == Float(Float(m) - Float(n))

-------------------------------------------------------------------------------
(* Sets, held as sequences.                                                *)

AddToSet(existing, add) ==
  existing \o SelectSeq(add, LAMBDA x : ~Contains(existing, x))

RemoveFromSet(existing, remove) ==
  SelectSeq(existing, LAMBDA x : ~Contains(remove, x))

-------------------------------------------------------------------------------
(* Conditions: "true", "false" or "error".                                 *)

Bool(b) == IF b THEN "true" ELSE "false"

(* compareValues, of two values of one type: -1, 0 or 1, or Error.         *)
CompareValues(v, w) ==
  LET less(b, c) == ~b /\ c
  IN  CASE TypeOf(v) = "N" -> CompareKeyValues(<<"N", Float(Payload(v))>>, <<"N", Float(Payload(w))>>)
        [] TypeOf(v) \in {"S", "B"} -> CompareKeyValues(v, w)
        [] TypeOf(v) = "BOOL" -> IF Payload(v) = Payload(w) THEN 0
                                 ELSE IF less(Payload(v), Payload(w)) THEN -1 ELSE 1
        [] OTHER -> Error

Compared(op, cmp) ==
  CASE op = "="  -> cmp = 0
    [] op = "<>" -> cmp # 0
    [] op = "<"  -> cmp < 0
    [] op = "<=" -> cmp <= 0
    [] op = ">"  -> cmp > 0
    [] op = ">=" -> cmp >= 0

SizeOf(v) ==
  CASE TypeOf(v) \in {"S", "B", "L", "SS", "NS"} -> Len(Payload(v))
    [] TypeOf(v) = "M" -> Cardinality(DOMAIN Payload(v))
    [] OTHER           -> Error

(* A node as an operand: a value, NoValue if it is missing, or Error.      *)
RECURSIVE ResolveNode(_, _)
ResolveNode(node, item) ==
  CASE node[1] = "path" -> ResolvePath(node[2], item)
    [] node[1] = "val"  -> node[2]
    [] node[1] = "fn" /\ node[2] = "size" /\ Len(node[3]) = 1 ->
         LET v == ResolveNode(node[3][1], item)
         IN  IF v = Error THEN Error
             ELSE IF v = NoValue THEN <<"N", 0>>
             ELSE IF SizeOf(v) = Error THEN Error
             ELSE <<"N", SizeOf(v)>>
    [] OTHER -> Error

(* Does v contain w?  Missing and mismatched operands give "false".        *)
ContainsValue(v, w) ==
  CASE TypeOf(v) = "S"  -> TypeOf(w) = "S" /\ \E i \in 0..Len(Payload(v)) :
                             IsPrefix(Payload(w), SubSeq(Payload(v), i + 1, Len(Payload(v))))
    [] TypeOf(v) = "L"  -> \E i \in DOMAIN Payload(v) :
                             TypeOf(Payload(v)[i]) = TypeOf(w) /\ CompareValues(Payload(v)[i], w) = 0
    [] TypeOf(v) = "SS" -> TypeOf(w) = "S" /\ Contains(Payload(v), Payload(w))
    [] TypeOf(v) = "NS" -> TypeOf(w) = "N" /\ Contains(Payload(v), Payload(w))
    [] OTHER            -> FALSE

EvalCompare(op, v, w) ==
  IF v = Error \/ w = Error THEN "error"
  ELSE IF v = NoValue \/ w = NoValue THEN "false"
  ELSE IF TypeOf(v) # TypeOf(w) THEN "false"
  ELSE IF CompareValues(v, w) = Error THEN "error"
  ELSE Bool(Compared(op, CompareValues(v, w)))

EvalFunc(name, args, item) ==
  LET arg(i) == ResolveNode(args[i], item)
      exists == arg(1) # NoValue
  IN  CASE name \in {"attribute_exists", "attribute_not_exists"} ->
             IF Len(args) # 1 THEN "error"
             ELSE IF args[1][1] # "path" THEN "error"
             ELSE Bool(exists = (name = "attribute_exists"))
        [] name \in {"begins_with", "contains"} ->
             IF Len(args) # 2 THEN "error"
             ELSE IF arg(1) = Error \/ arg(2) = Error THEN "error"
             ELSE IF arg(1) = NoValue \/ arg(2) = NoValue THEN "false"
             ELSE IF name = "contains" THEN Bool(ContainsValue(arg(1), arg(2)))
             ELSE Bool(/\ TypeOf(arg(1)) = "S" /\ TypeOf(arg(2)) = "S"
                       /\ IsPrefix(Payload(arg(2)), Payload(arg(1))))
        [] name = "size" ->
             LET n == ResolveNode(<<"fn", "size", args>>, item)
             IN  IF n = Error THEN "error" ELSE Bool(Payload(n) > 0)
        [] OTHER -> "error"

RECURSIVE Eval(_, _)
Eval(node, item) ==
  CASE node[1] = "cmp" ->
         EvalCompare(node[2], ResolveNode(node[3], item), ResolveNode(node[4], item))
    [] node[1] = "and" ->
         LET left == Eval(node[2], item)
         IN  IF left = "true" THEN Eval(node[3], item) ELSE left
    [] node[1] = "or" ->
         LET left == Eval(node[2], item)
         IN  IF left = "false" THEN Eval(node[3], item) ELSE left
    [] node[1] = "not" ->
         LET left == Eval(node[2], item)
         IN  IF left = "error" THEN "error" ELSE Bool(left = "false")
    [] node[1] = "fn" -> EvalFunc(node[2], node[3], item)
    [] OTHER -> "error"

-------------------------------------------------------------------------------
(* Updates: the new item or Error.                                         *)

(* ADD and DELETE of a value v to the present value w: what to store.      *)
Added(w, v) ==
  CASE w = NoValue -> v
    [] w # NoValue /\ TypeOf(w) = TypeOf(v) /\ TypeOf(w) = "N" -> <<"N", AddNumbers(Payload(w), Payload(v))>>
    [] w # NoValue /\ TypeOf(w) = TypeOf(v) /\ TypeOf(w) \in {"SS", "NS"} ->
         <<TypeOf(w), AddToSet(Payload(w), Payload(v))>>
    [] OTHER -> Error

Deleted(w, v) ==
  IF TypeOf(w) = TypeOf(v) /\ TypeOf(w) \in {"SS", "NS"}
  THEN <<TypeOf(w), RemoveFromSet(Payload(w), Payload(v))>>
  ELSE Error

ApplyNode(item, node) ==
  LET v   == ResolveNode(node.value, item)
      old == ResolvePath(node.path, item)
  IN  CASE node.action = "REMOVE" -> RemovePath(node.path, item)
        [] node.action # "REMOVE" /\ v \in {Error, NoValue} -> Error
        [] node.action = "SET" -> SetPath(node.path, item, v)
        [] node.action = "ADD" ->
             IF Added(old, v) = Error THEN Error ELSE SetPath(node.path, item, Added(old, v))
        [] node.action = "DELETE" ->
             IF old = NoValue THEN item
             ELSE IF Deleted(old, v) = Error THEN Error
             ELSE SetPath(node.path, item, Deleted(old, v))

(* EvalUpdate of internal/expr: node after node, each on what the one      *)
(* before it left.                                                         *)
EvalUpdateNodes(nodes, item) ==
  FoldLeft(LAMBDA acc, node : IF acc = Error THEN Error ELSE ApplyNode(acc, node), item, nodes)

===============================================================================
