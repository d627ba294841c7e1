----------------------------- MODULE Expressions ------------------------------
(***************************************************************************)
(* How the library turns what a caller writes into the expressions of a    *)
(* request (condition.go, update.go): attribute names become aliases, and  *)
(* values become placeholders ":v0", ":v1", ...                            *)
(*                                                                         *)
(* A text is a sequence of tokens.  A token is a pair of its kind and      *)
(*   "word"   the parts of a word, which dots separate;                    *)
(*   "sym"    an operator, a parenthesis, a comma or "?";                  *)
(*   "name"   the parts of the name behind a "#";                          *)
(*   "value"  the number n of a placeholder ":vn".                         *)
(* Keywords are written in capitals and function names in small letters.   *)
(* The alias of a name is the name with "#" before it, so that the map of  *)
(* a request from aliases to names is a set of names here.                 *)
(***************************************************************************)
EXTENDS Naturals, FiniteSets, Sequences, SequencesExt

CONSTANT BadText    \* what building a condition from a wrong text gives

Word(parts) == <<"word", parts>>
Sym(s)      == <<"sym", s>>
Name(parts) == <<"name", parts>>
Hole(n)     == <<"value", n>>

Kind(tok) == tok[1]

NoValues == [n \in {} |-> 0]

-------------------------------------------------------------------------------
(* Conditions: an expression, the names and the values of its aliases and  *)
(* placeholders.                                                           *)

Questions(text) == {i \in DOMAIN text : text[i] = Sym("?")}

IsConnective(tok) == tok \in {Word(<<"AND">>), Word(<<"OR">>), Word(<<"NOT">>)}

(* A word before a parenthesis is taken for a function.                    *)
IsCall(text, i) ==
  Kind(text[i]) = "word" /\ i < Len(text) /\ text[i + 1] = Sym("(")

IsAttribute(text, i) ==
  Kind(text[i]) = "word" /\ ~IsConnective(text[i]) /\ ~IsCall(text, i)

Translated(text, i) ==
  IF i \in Questions(text) THEN Hole(Cardinality({j \in Questions(text) : j < i}))
  ELSE IF IsAttribute(text, i) THEN Name(text[i][2])
  ELSE text[i]

(* buildCondition: each "?" stands for one of the values, in order.        *)
BuildCondition(text, vals) ==
  IF Cardinality(Questions(text)) # Len(vals) THEN BadText
  ELSE [expression |-> [i \in DOMAIN text |-> Translated(text, i)],
        names  |-> {text[i][2] : i \in {j \in DOMAIN text : IsAttribute(text, j)}},
        values |-> [n \in 0..(Len(vals) - 1) |-> vals[n + 1]]]

BuildAttrNotExists(attr) ==
  [expression |-> <<Word(<<"attribute_not_exists">>), Sym("("), Name(attr), Sym(")")>>,
   names |-> {attr}, values |-> NoValues]

(* A faulty Overlay: the second map takes the place of the first.          *)
OverlayReplaces(f, g) == g

(* The second map's entries replace those of the first.                    *)
Overlay(f, g) == [n \in DOMAIN f \cup DOMAIN g |-> IF n \in DOMAIN g THEN g[n] ELSE f[n]]

(* A faulty MergeConditions: the expressions are not put in parentheses.   *)
MergeFlat(a, b) ==
  [expression |-> a.expression \o <<Word(<<"AND">>)>> \o b.expression,
   names |-> a.names \cup b.names, values |-> Overlay(a.values, b.values)]

MergeConditions(a, b) ==
  [expression |-> <<Sym("(")>> \o a.expression \o <<Sym(")"), Word(<<"AND">>), Sym("(")>>
                    \o b.expression \o <<Sym(")")>>,
   names  |-> a.names \cup b.names,
   values |-> Overlay(a.values, b.values)]

-------------------------------------------------------------------------------
(* Updates: clauses of an action, an attribute and a value.                *)

Clause(action, attr, val) == [action |-> action, attr |-> attr, val |-> val]

Valued(clauses) == {i \in DOMAIN clauses : clauses[i].action # "REMOVE"}

(* The clauses with values are numbered in the order they were given ...   *)
HoleOf(clauses, i) == Cardinality({j \in Valued(clauses) : j < i})

ClauseTokens(clauses, i) ==
  LET c == clauses[i]
  IN  CASE c.action = "REMOVE" -> <<Name(c.attr)>>
        [] c.action = "SET"    -> <<Name(c.attr), Sym("="), Hole(HoleOf(clauses, i))>>
        [] OTHER               -> <<Name(c.attr), Hole(HoleOf(clauses, i))>>

(* ... and grouped by their actions, in the order the actions come up.     *)
IsFirst(clauses, i) == \A j \in 1..(i - 1) : clauses[j].action # clauses[i].action

Section(clauses, action) ==
  LET comma(i) == IF IsFirst(clauses, i) THEN <<>> ELSE <<Sym(",")>>
      part(i)  == IF clauses[i].action = action THEN comma(i) \o ClauseTokens(clauses, i) ELSE <<>>
  IN  <<Word(<<action>>)>> \o FlattenSeq([i \in DOMAIN clauses |-> part(i)])

UpdateTokens(clauses) ==
  FlattenSeq([i \in DOMAIN clauses |->
    IF IsFirst(clauses, i) THEN Section(clauses, clauses[i].action) ELSE <<>>])

UpdateNames(clauses) == {clauses[i].attr : i \in DOMAIN clauses}

UpdateValues(clauses) ==
  [n \in 0..(Cardinality(Valued(clauses)) - 1) |->
     clauses[CHOOSE i \in Valued(clauses) : HoleOf(clauses, i) = n].val]

-------------------------------------------------------------------------------
(* What can be read back.                                                  *)

(* What a caller writes contains no aliases and no placeholders but "?".   *)
IsText(text) ==
  /\ text \in Seq(ToSet(text))
  /\ \A i \in DOMAIN text : Kind(text[i]) \in {"word", "sym"}

(* A token is resolved by the maps of names and values beside it.          *)
Resolves(tok, names, values) ==
  /\ Kind(tok) = "name"  => tok[2] \in names
  /\ Kind(tok) = "value" => tok[2] \in DOMAIN values

(* An expression that the backend can read: every alias has its name,      *)
(* every placeholder its value.                                            *)
IsResolved(c) ==
  /\ c.expression \in Seq(ToSet(c.expression))
  /\ \A i \in DOMAIN c.expression : Resolves(c.expression[i], c.names, c.values)

===============================================================================
