------------------------------ MODULE MCRequests ------------------------------
(***************************************************************************)
(* One table with hash key "pk" and no index.  Its item has a status "s", a *)
(* counter "n", a set "t", a map "m" with an entry "c", and an attribute    *)
(* "c" of its own.  Numbers are held exactly up to 2^MantissaBits = 4.      *)
(***************************************************************************)
EXTENDS WrittenRequests

CONSTANT t1

N(n)  == <<"N", n>>
S(c)  == <<"S", <<c>>>>
SS(q) == <<"SS", [i \in DOMAIN q |-> <<q[i]>>]>>

P == S(1)
R == S(2)
Map == <<"M", [a \in {"c"} |-> N(1)]>>

MCAttr     == {"pk", "s", "n", "t", "m", "c"}
MCKeyValue == {S(1), S(2)}   \* those of keys; no other value is looked up
MCIndex    == {}
MCSchema   == [t \in {t1} |-> [key |-> [hash |-> "pk", range |-> NoRange], gsis |-> [g \in MCIndex |-> NoRange]]]

Full == [a \in MCAttr |-> CASE a = "pk" -> S(1) [] a = "s" -> P [] a = "n" -> N(2)
                            [] a = "t" -> SS(<<1>>) [] a = "m" -> Map [] a = "c" -> N(2)]
KeyItem(k) == [a \in {"pk"} |-> S(k)]
New        == [a \in {"pk", "s"} |-> IF a = "s" THEN R ELSE S(1)]

Holding(items) == [t \in {t1} |-> [NewTable EXCEPT !.items = [k \in {<<x["pk"], NoRange>> : x \in items} |->
                                                               CHOOSE x \in items : x["pk"] = k[1]]]]
MCStarts == {Holding({Full}), Holding({})}
NoKeyItem == [a \in {"s"} |-> R]   \* one that lacks its key
MCItems  == {New, NoKeyItem}
MCKeys   == {KeyItem(1)}

Path(a)      == <<"path", <<a>>>>
Val(v)       == <<"val", v>>
Cmp(op, a, v) == <<"cmp", op, Path(a), Val(v)>>
Fn(f, args)  == <<"fn", f, args>>
IsP == Cmp("=", "s", P)
IsR == Cmp("=", "s", R)

Mixed  == {<<"or", IsP, <<"and", Cmp("<", "n", N(3)), IsR>>>>,
           <<"and", <<"not", <<"or", Cmp(">=", "n", N(3)), IsR>>>>,
                    <<"or", IsP, Fn("attribute_exists", <<Path("m")>>)>>>>}
Calls  == {<<"and", Fn("contains", <<Path("t"), Val(P)>>), <<"cmp", ">", Fn("size", <<Path("t")>>), Val(N(1))>>>>,
           Fn("begins_with", <<Path("s")>>)}
Ranges == {<<"in", Path("s"), <<R, P>>>>, <<"between", Path("n"), <<N(1), N(2)>>>>}
Nested == {<<"cmp", "=", <<"path", <<"m", "c">>>>, Val(N(1))>>}

MCCondition == {IsP} \cup Mixed \cup Calls \cup Ranges \cup Nested

MCClauses == {Clause("SET", <<"s">>, R), Clause("ADD", <<"n">>, N(2)),
              Clause("ADD", <<"t">>, SS(<<2>>)), Clause("DELETE", <<"t">>, SS(<<1>>)),
              Clause("DELETE", <<"n">>, SS(<<1>>)), Clause("ADD", <<"s">>, N(1)),
              Clause("REMOVE", <<"c">>, NoValue), Clause("REMOVE", <<"m", "c">>, NoValue),
              Clause("SET", <<"m", "c">>, P)}

Node(a, v) == [action |-> "SET", path |-> <<a>>, value |-> v]
L(q) == Val(<<"L", q>>)

Minus(v, w) == <<"-", v, w>>
Increment   == <<"+", <<"if_not_exists", <<"n">>, Val(N(1))>>, Val(N(1))>>
Append2     == <<"list_append", L(<<P>>), L(<<R>>)>>

(* "c" reads "n" before "n" is set, and afterwards.                        *)
MCRawUpdates == {<<Node("n", Minus(Path("n"), Val(N(1))))>>,
                 <<Node("c", Path("n")), Node("n", Increment)>>,
                 <<Node("n", Increment), Node("c", Path("n"))>>,
                 <<Node("t", Append2)>>}

(* The guide's example.                                                    *)
GuideCondition == {IsP}
GuideClauses   == {Clause("SET", <<"s">>, S(3))}
GuideStarts    == {Holding({Full})}
NoUpdates      == {}

===============================================================================
