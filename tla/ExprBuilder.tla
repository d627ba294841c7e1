----------------------------- MODULE ExprBuilder ------------------------------
(***************************************************************************)
(* The other reader and writer of expressions, internal/expr: it parses a  *)
(* text with "?" placeholders (builder.go) and writes syntax trees as      *)
(* expressions of a request (translate.go).                                *)
(*                                                                         *)
(* Its parser is one of its own: a simpler grammar than the in-memory      *)
(* backend's, read at a place that is given by the tokens and the          *)
(* arguments that remain.                                                  *)
(***************************************************************************)
EXTENDS MemExpressions

(* The numbers of the placeholders, from left to right.                    *)
Numbered(text) ==
  [i \in DOMAIN text |->
     IF i \in Questions(text) THEN Hole(Cardinality({j \in Questions(text) : j < i})) ELSE text[i]]

NamesIn(text) == {text[i][2] : i \in {j \in DOMAIN text : Kind(text[j]) = "name"}}

ValuesFrom(vals) == [n \in 0..(Len(vals) - 1) |-> vals[n + 1]]

-------------------------------------------------------------------------------
(* Reading.  A reader yields a node and the place after it, or NoParse.    *)

Here(place) == Peek(place.tokens)

Past(place) == [place EXCEPT !.tokens = Tail(@)]

Then(result, next(_)) == IF result = NoParse THEN NoParse ELSE next(result)

(* Each "?" takes the next argument.                                       *)
ReadValue(place) ==
  IF place.args = <<>> THEN NoParse
  ELSE Parsed(<<"val", Head(place.args)>>, [Past(place) EXCEPT !.args = Tail(@)])

RECURSIVE ReadPrimary(_), ReadArgs(_, _)

(* A word or an alias before a parenthesis is a function, whatever it is.  *)
ReadPrimary(place) ==
  LET tok   == Here(place)
      after == Past(place)
  IN  CASE tok = Sym("?") -> ReadValue(place)
        [] Kind(tok) \in {"word", "name"} ->
             IF Here(after) # Sym("(") THEN Parsed(<<"path", tok[2]>>, after)
             ELSE Then(ReadArgs(Past(after), <<>>),
                       LAMBDA r : Parsed(<<"fn", Head(tok[2]), r.node>>, r.rest))
        [] OTHER -> NoParse

ReadArgs(place, args) ==
  LET comma == args # <<>>
  IN  CASE Here(place) = Sym(")") -> Parsed(args, Past(place))
        [] Here(place) # Sym(")") /\ comma /\ Here(place) # Sym(",") -> NoParse
        [] OTHER -> Then(ReadPrimary(IF comma THEN Past(place) ELSE place),
                         LAMBDA r : ReadArgs(r.rest, Append(args, r.node)))

(* A sign and a second operand may follow the first.                       *)
ReadCompared(left) ==
  LET sign == Here(left.rest)
  IN  IF Kind(sign) # "sym" \/ sign[2] \notin {"=", "<>", "<", "<=", ">", ">="} THEN left
      ELSE Then(ReadPrimary(Past(left.rest)),
                LAMBDA r : Parsed(<<"cmp", sign[2], left.node, r.node>>, r.rest))

RECURSIVE ReadOr(_), OrTail(_), ReadAnd(_), AndTail(_), ReadNot(_)

ReadComparison(place) ==
  IF Here(place) # Sym("(") THEN Then(ReadPrimary(place), ReadCompared)
  ELSE Then(ReadOr(Past(place)),
            LAMBDA r : IF Here(r.rest) = Sym(")") THEN Parsed(r.node, Past(r.rest)) ELSE NoParse)

(* A faulty ReadNot: NOT is taken to bind less than AND.                   *)
ReadNotWide(place) ==
  IF Here(place) # Word(<<"NOT">>) THEN ReadComparison(place)
  ELSE Then(ReadAnd(Past(place)), LAMBDA r : Parsed(<<"not", r.node>>, r.rest))

ReadNot(place) ==
  IF Here(place) # Word(<<"NOT">>) THEN ReadComparison(place)
  ELSE Then(ReadNot(Past(place)), LAMBDA r : Parsed(<<"not", r.node>>, r.rest))

AndTail(left) ==
  IF Here(left.rest) # Word(<<"AND">>) THEN left
  ELSE Then(ReadNot(Past(left.rest)), LAMBDA r : AndTail(Parsed(<<"and", left.node, r.node>>, r.rest)))

ReadAnd(place) == Then(ReadNot(place), LAMBDA r : AndTail(r))

OrTail(left) ==
  IF Here(left.rest) # Word(<<"OR">>) THEN left
  ELSE Then(ReadAnd(Past(left.rest)), LAMBDA r : OrTail(Parsed(<<"or", left.node, r.node>>, r.rest)))

ReadOr(place) == Then(ReadAnd(place), LAMBDA r : OrTail(r))

(* The syntax tree of a text, or NoParse; all tokens and arguments must be *)
(* used.                                                                   *)
ParseCondition(text, vals) ==
  Then(ReadOr([tokens |-> text, args |-> vals]),
       LAMBDA r : IF r.rest = [tokens |-> <<>>, args |-> <<>>] THEN r.node ELSE NoParse)

-------------------------------------------------------------------------------
(* Trees as expressions.  Every part of a path gets an alias of its own.   *)

Joined(seqs, sep) ==
  FlattenSeq([i \in DOMAIN seqs |-> IF i = 1 THEN seqs[i] ELSE <<sep>> \o seqs[i]])

InParens(ts) == <<Sym("(")>> \o ts \o <<Sym(")")>>

TranslatePath(parts) == Joined([i \in DOMAIN parts |-> <<Name(<<parts[i]>>)>>], Sym("."))

Grouped(ts) == InParens(ts)

RECURSIVE TranslateNode(_)
TranslateNode(node) ==
  CASE node[1] = "cmp"  -> TranslateNode(node[3]) \o <<Sym(node[2])>> \o TranslateNode(node[4])
    [] node[1] = "not"  -> <<Word(<<"NOT">>)>> \o Grouped(TranslateNode(node[2]))
    [] node[1] = "and"  -> Grouped(TranslateNode(node[2])) \o <<Word(<<"AND">>)>> \o Grouped(TranslateNode(node[3]))
    [] node[1] = "or"   -> Grouped(TranslateNode(node[2])) \o <<Word(<<"OR">>)>> \o Grouped(TranslateNode(node[3]))
    [] node[1] = "fn"   -> <<Word(<<node[2]>>)>>
                           \o InParens(Joined([i \in DOMAIN node[3] |-> TranslateNode(node[3][i])], Sym(",")))
    [] node[1] = "path" -> TranslatePath(node[2])
    [] node[1] = "val"  -> <<Sym("?")>>

RECURSIVE NodeValues(_)
NodeValues(node) ==
  CASE node[1] = "cmp" -> NodeValues(node[3]) \o NodeValues(node[4])
    [] node[1] = "not" -> NodeValues(node[2])
    [] node[1] \in {"and", "or"} -> NodeValues(node[2]) \o NodeValues(node[3])
    [] node[1] = "fn"  -> FlattenSeq([i \in DOMAIN node[3] |-> NodeValues(node[3][i])])
    [] node[1] = "path" -> <<>>
    [] node[1] = "val"  -> <<node[2]>>

ToDynamo(node) ==
  LET ts == TranslateNode(node)
  IN  [expression |-> Numbered(ts), names |-> NamesIn(ts), values |-> ValuesFrom(NodeValues(node))]

(* BuildSet, BuildAdd, BuildRemove and BuildDelete.                        *)
BuildNode(clause) ==
  [action |-> clause.action, path |-> clause.attr, value |-> <<"val", clause.val>>]

===============================================================================
