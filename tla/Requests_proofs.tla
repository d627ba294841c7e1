---------------------------- MODULE Requests_proofs ----------------------------
(***************************************************************************)
(* What holds of the requests that the library builds, for every way to    *)
(* write conditions, every evaluator behind the backend and any calls: the *)
(* names and placeholders of expressions, the builder's operations, and    *)
(* what a call that is refused leaves.                                     *)
(***************************************************************************)
EXTENDS Requests, AtomicOps_proofs, FiniteSetTheorems

-------------------------------------------------------------------------------
(* Sequences of tokens that can be read.                                   *)

Reads(ts, names, values) ==
  /\ \E S : ts \in Seq(S)
  /\ \A i \in DOMAIN ts : Resolves(ts[i], names, values)

(* A sequence is one of its own elements.                                  *)
LEMMA OwnElements ==
  ASSUME NEW S, NEW s \in Seq(S)
  PROVE  s \in Seq(ToSet(s))
BY DEF ToSet

LEMMA ReadsIsResolved ==
  ASSUME NEW c
  PROVE  IsResolved(c) <=> Reads(c.expression, c.names, c.values)
BY OwnElements DEF IsResolved, Reads

(* More names and values do no harm.                                       *)
LEMMA ReadsWithMore ==
  ASSUME NEW ts, NEW names, NEW values, Reads(ts, names, values),
         NEW more, NEW others, names \subseteq more, DOMAIN values \subseteq DOMAIN others
  PROVE  Reads(ts, more, others)
BY DEF Reads, Resolves

(* The placeholders are numbered below the number of question marks.       *)
LEMMA QuestionsAreCounted ==
  ASSUME NEW text, IsText(text), NEW i \in Questions(text)
  PROVE  /\ Cardinality({j \in Questions(text) : j < i}) \in Nat
         /\ Cardinality({j \in Questions(text) : j < i}) < Cardinality(Questions(text))
<1> DEFINE before == {j \in Questions(text) : j < i}
<1>1. Len(text) \in Nat /\ DOMAIN text = 1..Len(text)
  BY DEF IsText
<1>2. IsFiniteSet(Questions(text))
  <2>1. IsFiniteSet(1..Len(text))
    BY <1>1, FS_Interval
  <2> QED BY <1>1, <2>1, FS_Subset DEF Questions
<1>3. before \subseteq Questions(text) /\ i \notin before /\ before # Questions(text)
  BY <1>1 DEF Questions
<1>4. IsFiniteSet(before)
  BY <1>2, <1>3, FS_Subset
<1>5. Cardinality(before) \in Nat /\ Cardinality(Questions(text)) \in Nat
  BY <1>2, <1>4, FS_CardinalityType
<1>6. Cardinality(before) <= Cardinality(Questions(text))
  BY <1>2, <1>3, FS_Subset
<1>7. Cardinality(before) # Cardinality(Questions(text))
  BY <1>2, <1>3, FS_Subset
<1> QED BY <1>5, <1>6, <1>7

(* buildCondition: whatever is accepted can be read again, with a value    *)
(* for each placeholder and a name for each alias.                         *)
THEOREM BuiltConditionsResolve ==
  ASSUME NEW text, IsText(text), NEW T, NEW vals \in Seq(T),
         BuildCondition(text, vals) # BadText
  PROVE  IsResolved(BuildCondition(text, vals))
<1> DEFINE c == BuildCondition(text, vals)
<1>1. /\ Cardinality(Questions(text)) = Len(vals)
      /\ c.expression = [i \in DOMAIN text |-> Translated(text, i)]
      /\ c.names = {text[i][2] : i \in {j \in DOMAIN text : IsAttribute(text, j)}}
      /\ DOMAIN c.values = 0..(Len(vals) - 1)
  BY DEF BuildCondition
<1> HIDE DEF c
<1>2. ASSUME NEW i \in DOMAIN text
      PROVE  Resolves(Translated(text, i), c.names, c.values)
  <2>1. CASE i \in Questions(text)
    <3>1. Translated(text, i) = <<"value", Cardinality({j \in Questions(text) : j < i})>>
      BY <2>1 DEF Translated, Hole
    <3>2. Cardinality({j \in Questions(text) : j < i}) \in 0..(Len(vals) - 1)
      BY <1>1, <2>1, QuestionsAreCounted
    <3> QED BY <1>1, <3>1, <3>2 DEF Resolves, Kind
  <2>2. CASE i \notin Questions(text) /\ IsAttribute(text, i)
    <3>1. Translated(text, i) = <<"name", text[i][2]>>
      BY <2>2 DEF Translated, Name
    <3>2. text[i][2] \in c.names
      BY <1>1, <2>2
    <3> QED BY <3>1, <3>2 DEF Resolves, Kind
  <2>3. CASE i \notin Questions(text) /\ ~IsAttribute(text, i)
    BY <2>3 DEF Translated, Resolves, IsText
  <2> QED BY <2>1, <2>2, <2>3
<1>3. Len(text) \in Nat /\ DOMAIN text = 1..Len(text)
  BY DEF IsText
<1>4. c.expression \in Seq({Translated(text, i) : i \in DOMAIN text})
  BY <1>1, <1>3
<1>5. Reads(c.expression, c.names, c.values)
  BY <1>1, <1>2, <1>4 DEF Reads
<1> QED BY <1>5, ReadsIsResolved DEF c

(* The tokens of two sequences in a row are theirs.                        *)
LEMMA TokensOfBoth ==
  ASSUME NEW S, NEW s \in Seq(S), NEW t \in Seq(S), NEW i \in DOMAIN (s \o t)
  PROVE  \/ \E j \in DOMAIN s : (s \o t)[i] = s[j]
         \/ \E j \in DOMAIN t : (s \o t)[i] = t[j]
<1>1. CASE i <= Len(s)
  BY <1>1
<1>2. CASE i > Len(s)
  BY <1>2
<1> QED BY <1>1, <1>2

(* If the tokens of two sequences can be read, so can those of both in a   *)
(* row.                                                                    *)
LEMMA BothInARow ==
  ASSUME NEW s, NEW t, NEW names, NEW values, Reads(s, names, values), Reads(t, names, values)
  PROVE  Reads(s \o t, names, values)
<1>1. PICK S : s \in Seq(S)
  BY DEF Reads
<1>2. PICK T : t \in Seq(T)
  BY DEF Reads
<1> DEFINE U == S \cup T
<1>3. s \in Seq(U) /\ t \in Seq(U) /\ s \o t \in Seq(U)
  BY <1>1, <1>2
<1> HIDE DEF U
<1>4. ASSUME NEW i \in DOMAIN (s \o t)
      PROVE  Resolves((s \o t)[i], names, values)
  <2>1. CASE \E j \in DOMAIN s : (s \o t)[i] = s[j]
    BY <2>1 DEF Reads
  <2>2. CASE \E j \in DOMAIN t : (s \o t)[i] = t[j]
    BY <2>2 DEF Reads
  <2> QED BY <1>3, <2>1, <2>2, TokensOfBoth
<1> QED BY <1>3, <1>4 DEF Reads

(* A single word or sign can be read.                                      *)
LEMMA OneToken ==
  ASSUME NEW tok, NEW names, NEW values, Resolves(tok, names, values)
  PROVE  Reads(<<tok>>, names, values)
<1>1. <<tok>> \in Seq({tok}) /\ \A i \in DOMAIN <<tok>> : <<tok>>[i] = tok
  OBVIOUS
<1> DEFINE ts == <<tok>>
<1> HIDE DEF ts
<1> QED BY <1>1 DEF Reads, ts

LEMMA SignsResolve ==
  ASSUME NEW x, NEW names, NEW values
  PROVE  Resolves(Sym(x), names, values) /\ Resolves(Word(x), names, values)
BY DEF Resolves, Kind, Sym, Word

(* mergeConditions: if both conditions can be read, so can the two         *)
(* together.                                                               *)
THEOREM MergedConditionsResolve ==
  ASSUME NEW a, NEW b, IsResolved(a), IsResolved(b)
  PROVE  IsResolved(MergeConditions(a, b))
<1> DEFINE names == a.names \cup b.names
           values == Overlay(a.values, b.values)
           open == <<Sym("(")>>
           and == <<Sym(")"), Word(<<"AND">>), Sym("(")>>
           close == <<Sym(")")>>
           good(s) == Reads(s, names, values)
<1>1. DOMAIN values = DOMAIN a.values \cup DOMAIN b.values
  BY DEF Overlay
<1>2. good(a.expression) /\ good(b.expression)
  BY <1>1, ReadsIsResolved, ReadsWithMore
<1>3. good(open) /\ good(and) /\ good(close)
  <2>1. and = (<<Sym(")")>> \o <<Word(<<"AND">>)>>) \o <<Sym("(")>>
    OBVIOUS
  <2>2. good(open) /\ good(<<Word(<<"AND">>)>>) /\ good(close)
    BY OneToken, SignsResolve
  <2> HIDE DEF names, values, and
  <2> QED BY <2>1, <2>2, BothInARow
<1>4. ASSUME NEW s, NEW t, good(s), good(t)
      PROVE  good(s \o t)
  BY <1>4, BothInARow
<1>5. /\ MergeConditions(a, b).names = names
      /\ MergeConditions(a, b).values = values
      /\ MergeConditions(a, b).expression
           = (((open \o a.expression) \o and) \o b.expression) \o close
  BY DEF MergeConditions
<1> HIDE DEF good, open, and, close, names, values
<1>6. good((((open \o a.expression) \o and) \o b.expression) \o close)
  BY <1>2, <1>3, <1>4
<1> QED BY <1>5, <1>6, ReadsIsResolved DEF good

-------------------------------------------------------------------------------
(* mergeConditions and buildUpdateRequest put one map of values over       *)
(* another.  Nothing is lost if no placeholder is in both ...              *)
THEOREM OverlayKeepsDisjoint ==
  ASSUME NEW f, NEW g, DOMAIN f \cap DOMAIN g = {}
  PROVE  /\ \A n \in DOMAIN f : Overlay(f, g)[n] = f[n]
         /\ \A n \in DOMAIN g : Overlay(f, g)[n] = g[n]
BY DEF Overlay

(* ... but a condition with a value has the placeholder ":v0", like any    *)
(* other condition and like the clauses of an update that have values: of  *)
(* the two first values only that of the condition merged last is kept.    *)
THEOREM FirstValueIsLost ==
  ASSUME NEW text, NEW T, NEW vals \in Seq(T), vals # <<>>,
         BuildCondition(text, vals) # BadText,
         NEW values, 0 \in DOMAIN values
  PROVE  Overlay(values, BuildCondition(text, vals).values)[0] = vals[1]
<1>1. BuildCondition(text, vals).values = [n \in 0..(Len(vals) - 1) |-> vals[n + 1]]
  BY DEF BuildCondition
<1>2. 0 \in 0..(Len(vals) - 1)
  OBVIOUS
<1> QED BY <1>1, <1>2 DEF Overlay

-------------------------------------------------------------------------------
(* The expressions of an update.                                           *)

(* The recursive function in FlattenSeq exists.                            *)
LEMMA FlattenSteps ==
  ASSUME NEW S, NEW seqs \in Seq(S), Len(seqs) # 0
  PROVE  \E f : /\ f[1] = seqs[1]
                /\ \A n \in 2..Len(seqs) : f[n] = f[n - 1] \o seqs[n]
                /\ FlattenSeq(seqs) = f[Len(seqs)]
<1> DEFINE Steps(f, m) == f = [i \in 1..m |-> IF i = 1 THEN seqs[i] ELSE f[i - 1] \o seqs[i]]
           T == {m \in Nat : \E f : Steps(f, m)}
<1>1. 0 \in T
  <2> DEFINE f == [n \in 1..0 |-> <<>>]
  <2>1. Steps(f, 0)
    OBVIOUS
  <2> HIDE DEF Steps
  <2> QED BY <2>1
<1>2. ASSUME NEW m \in Nat, m \in T
      PROVE  m + 1 \in T
  <2>1. PICK f : Steps(f, m)
    BY <1>2
  <2> DEFINE g == [n \in 1..(m + 1) |->
                     IF n # m + 1 THEN f[n] ELSE IF n = 1 THEN seqs[n] ELSE f[m] \o seqs[n]]
  <2>2. ASSUME NEW n \in 1..(m + 1)
        PROVE  g[n] = IF n = 1 THEN seqs[n] ELSE g[n - 1] \o seqs[n]
    <3>1. CASE n = m + 1 /\ n = 1
      BY <3>1
    <3>2. CASE n = m + 1 /\ n # 1
      <4>1. n - 1 = m /\ n - 1 \in 1..(m + 1) /\ n - 1 # m + 1
        BY <3>2
      <4> QED BY <3>2, <4>1
    <3>3. CASE n # m + 1 /\ n = 1
      BY <2>1, <3>3
    <3>4. CASE n # m + 1 /\ n # 1
      <4>1. n \in 1..m /\ n - 1 \in 1..(m + 1) /\ n - 1 # m + 1
        BY <3>4
      <4>2. f[n] = f[n - 1] \o seqs[n]
        BY <2>1, <3>4, <4>1
      <4> QED BY <3>4, <4>1, <4>2
    <3> QED BY <3>1, <3>2, <3>3, <3>4
  <2>3. Steps(g, m + 1)
    <3>1. g = [n \in 1..(m + 1) |-> g[n]]
      OBVIOUS
    <3> HIDE DEF g
    <3> QED BY <2>2, <3>1
  <2> HIDE DEF Steps
  <2> QED BY <2>3
<1>3. Len(seqs) \in T
  <2> HIDE DEF T
  <2> QED BY <1>1, <1>2, SetInduction
<1> DEFINE flat == CHOOSE f : Steps(f, Len(seqs))
<1>4. Steps(flat, Len(seqs))
  <2> HIDE DEF Steps
  <2> QED BY <1>3
<1>5. FlattenSeq(seqs) = flat[Len(seqs)]
  BY DEF FlattenSeq
<1>6. \A n \in 1..Len(seqs) : flat[n] = IF n = 1 THEN seqs[n] ELSE flat[n - 1] \o seqs[n]
  <2> HIDE DEF flat
  <2> QED BY <1>4
<1>7. /\ flat[1] = seqs[1]
      /\ \A n \in 2..Len(seqs) : flat[n] = flat[n - 1] \o seqs[n]
  <2> HIDE DEF flat
  <2>1. 1 \in 1..Len(seqs)
    OBVIOUS
  <2>2. flat[1] = seqs[1]
    BY <1>6, <2>1
  <2>3. ASSUME NEW n \in 2..Len(seqs)
        PROVE  flat[n] = flat[n - 1] \o seqs[n]
    <3>1. n \in 1..Len(seqs) /\ n # 1
      OBVIOUS
    <3> QED BY <1>6, <3>1
  <2> QED BY <2>2, <2>3
<1> QED BY <1>5, <1>7

(* Sequences that can be read can be read in a row.                        *)
LEMMA AllInARow ==
  ASSUME NEW S, NEW seqs \in Seq(S), NEW names, NEW values,
         \A i \in DOMAIN seqs : Reads(seqs[i], names, values)
  PROVE  Reads(FlattenSeq(seqs), names, values)
<1>1. CASE Len(seqs) = 0
  <2>1. FlattenSeq(seqs) = seqs /\ DOMAIN seqs = {}
    BY <1>1 DEF FlattenSeq
  <2> QED BY <2>1 DEF Reads
<1>2. CASE Len(seqs) # 0
  <2>1. PICK f : /\ f[1] = seqs[1]
                 /\ \A n \in 2..Len(seqs) : f[n] = f[n - 1] \o seqs[n]
                 /\ FlattenSeq(seqs) = f[Len(seqs)]
    BY <1>2, FlattenSteps
  <2> DEFINE T == {n \in Nat : n + 1 <= Len(seqs) => Reads(f[n + 1], names, values)}
  <2>2. Len(seqs) \in Nat /\ DOMAIN seqs = 1..Len(seqs) /\ Len(seqs) - 1 \in Nat
    BY <1>2
  <2>3. 0 \in T
    BY <2>1, <2>2
  <2>4. ASSUME NEW n \in Nat, n \in T
        PROVE  n + 1 \in T
    <3> SUFFICES ASSUME n + 2 <= Len(seqs)
                 PROVE  Reads(f[n + 2], names, values)
      OBVIOUS
    <3>1. Reads(f[n + 1], names, values)
      BY <2>2, <2>4
    <3>2. n + 2 \in 2..Len(seqs) /\ (n + 2) - 1 = n + 1 /\ n + 2 \in DOMAIN seqs
      BY <2>2
    <3>3. f[n + 2] = f[n + 1] \o seqs[n + 2]
      BY <2>1, <3>2
    <3> QED BY <3>1, <3>2, <3>3, BothInARow
  <2>5. Len(seqs) - 1 \in T
    <3> HIDE DEF T
    <3> QED BY <2>2, <2>3, <2>4, SetInduction
  <2> QED BY <2>1, <2>2, <2>5
<1> QED BY <1>1, <1>2

(* The placeholders of clauses are numbered below the number of values.    *)
LEMMA HolesAreCounted ==
  ASSUME NEW T, NEW clauses \in Seq(T), NEW i \in Valued(clauses)
  PROVE  HoleOf(clauses, i) \in 0..(Cardinality(Valued(clauses)) - 1)
<1> DEFINE before == {j \in Valued(clauses) : j < i}
<1>1. Len(clauses) \in Nat /\ DOMAIN clauses = 1..Len(clauses)
  OBVIOUS
<1>2. IsFiniteSet(Valued(clauses))
  <2>1. IsFiniteSet(1..Len(clauses))
    BY <1>1, FS_Interval
  <2> QED BY <1>1, <2>1, FS_Subset DEF Valued
<1>3. before \subseteq Valued(clauses) /\ i \notin before /\ before # Valued(clauses)
  BY <1>1 DEF Valued
<1>4. IsFiniteSet(before)
  BY <1>2, <1>3, FS_Subset
<1>5. Cardinality(before) \in Nat /\ Cardinality(Valued(clauses)) \in Nat
  BY <1>2, <1>4, FS_CardinalityType
<1>6. /\ Cardinality(before) <= Cardinality(Valued(clauses))
      /\ Cardinality(before) # Cardinality(Valued(clauses))
  BY <1>2, <1>3, FS_Subset
<1> QED BY <1>5, <1>6 DEF HoleOf

LEMMA ClauseReads ==
  ASSUME NEW T, NEW clauses \in Seq(T), NEW i \in DOMAIN clauses
  PROVE  Reads(ClauseTokens(clauses, i), UpdateNames(clauses), UpdateValues(clauses))
<1> DEFINE names == UpdateNames(clauses)
           values == UpdateValues(clauses)
           name == Name(clauses[i].attr)
           hole == Hole(HoleOf(clauses, i))
<1>1. Reads(<<name>>, names, values)
  <2>1. Resolves(name, names, values)
    BY DEF Resolves, Kind, Name, UpdateNames
  <2> QED BY <2>1, OneToken
<1>2. CASE clauses[i].action = "REMOVE"
  BY <1>1, <1>2 DEF ClauseTokens
<1>3. CASE clauses[i].action # "REMOVE"
  <2>1. i \in Valued(clauses)
    BY <1>3 DEF Valued
  <2>2. HoleOf(clauses, i) \in DOMAIN values
    BY <2>1, HolesAreCounted DEF UpdateValues
  <2>3. Resolves(hole, names, values)
    BY <2>2 DEF Resolves, Kind, Hole
  <2>4. Reads(<<hole>>, names, values) /\ Reads(<<Sym("=")>>, names, values)
    BY <2>3, OneToken, SignsResolve
  <2>5. ClauseTokens(clauses, i) \in {<<name, Sym("="), hole>>, <<name, hole>>}
    BY <1>3 DEF ClauseTokens
  <2>6. /\ <<name, Sym("="), hole>> = (<<name>> \o <<Sym("=")>>) \o <<hole>>
        /\ <<name, hole>> = <<name>> \o <<hole>>
    OBVIOUS
  <2> HIDE DEF name, hole, names, values
  <2>7. Reads((<<name>> \o <<Sym("=")>>) \o <<hole>>, names, values)
        /\ Reads(<<name>> \o <<hole>>, names, values)
    BY <1>1, <2>4, BothInARow
  <2> QED BY <2>5, <2>6, <2>7 DEF names, values
<1> QED BY <1>2, <1>3

LEMMA NothingReads ==
  ASSUME NEW names, NEW values
  PROVE  Reads(<<>>, names, values)
<1>1. <<>> \in Seq({}) /\ DOMAIN <<>> = {}
  OBVIOUS
<1> QED BY <1>1 DEF Reads

LEMMA SectionReads ==
  ASSUME NEW T, NEW clauses \in Seq(T), NEW action
  PROVE  Reads(Section(clauses, action), UpdateNames(clauses), UpdateValues(clauses))
<1> DEFINE names == UpdateNames(clauses)
           values == UpdateValues(clauses)
           comma(i) == IF IsFirst(clauses, i) THEN <<>> ELSE <<Sym(",")>>
           part(i) == IF clauses[i].action = action THEN comma(i) \o ClauseTokens(clauses, i) ELSE <<>>
           parts == [i \in DOMAIN clauses |-> part(i)]
<1>1. Len(clauses) \in Nat /\ DOMAIN clauses = 1..Len(clauses)
  OBVIOUS
<1>2. ASSUME NEW i \in DOMAIN clauses
      PROVE  Reads(part(i), names, values)
  <2>1. Reads(comma(i), names, values)
    BY NothingReads, OneToken, SignsResolve
  <2>2. Reads(ClauseTokens(clauses, i), names, values)
    BY ClauseReads
  <2> HIDE DEF comma, names, values
  <2> QED BY <2>1, <2>2, BothInARow, NothingReads
<1>3. parts \in Seq({part(i) : i \in DOMAIN clauses})
  <2> HIDE DEF part
  <2> QED BY <1>1
<1>4. \A i \in DOMAIN parts : Reads(parts[i], names, values)
  <2> HIDE DEF part, names, values
  <2> QED BY <1>2
<1>5. Section(clauses, action) = <<Word(<<action>>)>> \o FlattenSeq(parts)
  BY DEF Section
<1>6. Reads(<<Word(<<action>>)>>, names, values)
  BY OneToken, SignsResolve
<1> HIDE DEF parts, names, values
<1>7. Reads(FlattenSeq(parts), names, values)
  BY <1>3, <1>4, AllInARow
<1> QED BY <1>5, <1>6, <1>7, BothInARow DEF names, values

(* The clauses of an update find their names and values.                   *)
LEMMA ClausesResolve ==
  ASSUME NEW T, NEW clauses \in Seq(T)
  PROVE  Reads(UpdateTokens(clauses), UpdateNames(clauses), UpdateValues(clauses))
<1> DEFINE part(i) == IF IsFirst(clauses, i) THEN Section(clauses, clauses[i].action) ELSE <<>>
           parts == [i \in DOMAIN clauses |-> part(i)]
<1>1. Len(clauses) \in Nat /\ DOMAIN clauses = 1..Len(clauses)
  OBVIOUS
<1>2. ASSUME NEW i \in DOMAIN clauses
      PROVE  Reads(part(i), UpdateNames(clauses), UpdateValues(clauses))
  BY SectionReads, NothingReads
<1>3. parts \in Seq({part(i) : i \in DOMAIN clauses})
  <2> HIDE DEF part
  <2> QED BY <1>1
<1>4. \A i \in DOMAIN parts : Reads(parts[i], UpdateNames(clauses), UpdateValues(clauses))
  <2> HIDE DEF part
  <2> QED BY <1>2
<1>5. UpdateTokens(clauses) = FlattenSeq(parts)
  BY DEF UpdateTokens
<1> HIDE DEF parts
<1> QED BY <1>3, <1>4, <1>5, AllInARow

(* buildUpdateRequest: the clauses of an update and its condition can be   *)
(* read with the one map of names and the one map of values they share.    *)
THEOREM UpdateRequestsResolve ==
  ASSUME NEW T, NEW d, d.clauses \in Seq(T), d.cond # NoCond => IsResolved(d.cond)
  PROVE  OpResolves(BuildUpdateRequest(d))
<1> DEFINE none == [expression |-> <<>>, names |-> {}, values |-> NoValues]
           cond == IF d.cond = NoCond THEN none ELSE d.cond
           names == UpdateNames(d.clauses) \cup cond.names
           values == Overlay(UpdateValues(d.clauses), cond.values)
           with(expression) == [expression |-> expression, names |-> names, values |-> values]
           op == BuildUpdateRequest(d)
<1>1. /\ op.cond = IF d.cond = NoCond THEN NoCond ELSE with(d.cond.expression)
      /\ op.upd = with(UpdateTokens(d.clauses))
  BY DEF BuildUpdateRequest
<1>2. /\ UpdateNames(d.clauses) \subseteq names /\ cond.names \subseteq names
      /\ DOMAIN UpdateValues(d.clauses) \subseteq DOMAIN values
      /\ DOMAIN cond.values \subseteq DOMAIN values
  BY DEF Overlay
<1>3. IsResolved(with(UpdateTokens(d.clauses)))
  <2>1. Reads(UpdateTokens(d.clauses), UpdateNames(d.clauses), UpdateValues(d.clauses))
    BY ClausesResolve
  <2> HIDE DEF names, values
  <2>2. Reads(UpdateTokens(d.clauses), names, values)
    BY <1>2, <2>1, ReadsWithMore
  <2> QED BY <2>2, ReadsIsResolved
<1>4. d.cond # NoCond => IsResolved(with(d.cond.expression))
  <2> HAVE d.cond # NoCond
  <2>1. cond = d.cond /\ Reads(d.cond.expression, cond.names, cond.values)
    BY ReadsIsResolved
  <2> HIDE DEF names, values, cond
  <2>2. Reads(d.cond.expression, names, values)
    BY <1>2, <2>1, ReadsWithMore
  <2> QED BY <2>2, ReadsIsResolved
<1> HIDE DEF op, with
<1>5. OpResolves(op)
  BY <1>1, <1>3, <1>4 DEF OpResolves
<1> QED BY <1>5 DEF op

-------------------------------------------------------------------------------
(* Calls and builders.                                                     *)

(* While an operation is being described a call may still be made, there   *)
(* is room for the operation, and no answer is being looked at.            *)
Open ==
  draft # NoDraft =>
    /\ calls < MaxCalls /\ last = NothingSaid
    /\ pc = "tx" => Len(ops) <= MaxTx

BuilderTypes == ops \in Seq(ToSet(ops)) /\ said \in Seq(ToSet(said))

ReqInv == TypeOK /\ Open /\ BuilderTypes

LEMMA OneMore ==
  ASSUME NEW s, s \in Seq(ToSet(s)), NEW x
  PROVE  /\ Append(s, x) \in Seq(ToSet(Append(s, x)))
         /\ Len(Append(s, x)) = Len(s) + 1 /\ Len(s) \in Nat
         /\ DOMAIN s = 1..Len(s) /\ DOMAIN Append(s, x) = 1..(Len(s) + 1)
         /\ \A i \in DOMAIN s : Append(s, x)[i] = s[i]
         /\ Append(s, x)[Len(s) + 1] = x
<1> DEFINE S == ToSet(s) \cup {x}
<1>1. s \in Seq(S) /\ x \in S
  OBVIOUS
<1>2. Append(s, x) \in Seq(S)
  BY <1>1
<1>3. Append(s, x) \in Seq(ToSet(Append(s, x)))
  <2> HIDE DEF S
  <2> QED BY <1>2, OwnElements
<1> QED BY <1>3

LEMMA EmptyBuilder == <<>> \in Seq(ToSet(<<>>)) /\ DOMAIN <<>> = {} /\ Len(<<>>) = 0
BY DEF ToSet

DraftOf(k, t, i, q, qs, cs) ==
  [kind |-> k, table |-> t, item |-> i, cond |-> q, conds |-> qs, clauses |-> cs, nodes |-> <<>>]

LEMMA FieldsOfDraft ==
  ASSUME NEW k \in {"put", "update", "delete"}, NEW t \in Tables,
         NEW i \in IF k = "put" THEN Items ELSE Keys, NEW q, NEW qs,
         NEW cs \in Seq(ClauseSet), k # "update" => cs = <<>>
  PROVE  /\ IsDraft(DraftOf(k, t, i, q, qs, cs))
         /\ DraftOf(k, t, i, q, qs, cs) # NoDraft
         /\ DraftOf(k, t, i, q, qs, cs).cond = q
<1> DEFINE e == DraftOf(k, t, i, q, qs, cs)
<1>1. e.kind = k /\ e.table = t /\ e.item = i /\ e.cond = q /\ e.conds = qs /\ e.clauses = cs
  BY DEF DraftOf
<1>2. "kind" \in DOMAIN e /\ DOMAIN <<>> = {}
  BY DEF DraftOf
<1>3. e = [kind |-> k, table |-> t, item |-> i, cond |-> q, conds |-> qs, clauses |-> cs, nodes |-> <<>>]
  BY DEF DraftOf
<1> HIDE DEF e
<1>4. IsDraft(e) /\ e # NoDraft /\ e.cond = q
  BY <1>1, <1>2, <1>3 DEF IsDraft, NoDraft
<1> QED BY <1>4 DEF e

(* A new description.                                                      *)
LEMMA DraftIsDraft ==
  ASSUME NEW kind \in {"put", "update", "delete"}, NEW item \in IF kind = "put" THEN Items ELSE Keys
  PROVE  IsDraft(Draft(kind, item)) /\ Draft(kind, item) # NoDraft /\ Draft(kind, item).cond = NoCond
<1> DEFINE t == CHOOSE u \in Tables : TRUE
<1>1. t \in Tables
  BY CallerAssumption
<1> DEFINE none == <<>>
<1>2. Draft(kind, item) = DraftOf(kind, t, item, NoCond, none, none)
  BY DEF Draft, DraftOf
<1>3. none \in Seq(ClauseSet) /\ (kind # "update" => none = <<>>)
  OBVIOUS
<1> HIDE DEF t, none
<1> QED BY <1>1, <1>2, <1>3, FieldsOfDraft

(* Every option leaves a description.                                      *)
LEMMA ConditionKeepsDraft ==
  ASSUME NEW ast, NEW cond, IsDraft(draft), PassBuilt(ast, cond)
  PROVE  IsDraft(draft') /\ draft' # NoDraft /\ draft'.cond = WithCondition(draft.cond, cond)
<1>1. PICK k, t, i, q, qs, cs :
        draft = [kind |-> k, table |-> t, item |-> i, cond |-> q, conds |-> qs, clauses |-> cs, nodes |-> <<>>]
  BY DEF IsDraft
<1>2. k = draft.kind /\ t = draft.table /\ i = draft.item /\ cs = draft.clauses
  BY <1>1
<1>3. /\ k \in {"put", "update", "delete"} /\ t \in Tables /\ i \in IF k = "put" THEN Items ELSE Keys
      /\ cs \in Seq(ClauseSet) /\ (k # "update" => cs = <<>>)
  BY <1>2 DEF IsDraft
<1> DEFINE new == WithCondition(draft.cond, cond)
           conds == Append(draft.conds, ast)
           f == [draft EXCEPT !.cond = new]
<1>4. draft' = [f EXCEPT !.conds = conds]
  BY DEF PassBuilt
<1> HIDE DEF new, conds
<1>5. f = [kind |-> k, table |-> t, item |-> i, cond |-> new, conds |-> qs, clauses |-> cs, nodes |-> <<>>]
  BY <1>1
<1> HIDE DEF f
<1>6. draft' = DraftOf(k, t, i, new, conds, cs)
  BY <1>4, <1>5 DEF DraftOf
<1>7. IsDraft(draft') /\ draft' # NoDraft /\ draft'.cond = new
  BY <1>3, <1>6, FieldsOfDraft
<1> QED BY <1>7 DEF new

LEMMA ClauseKeepsDraft ==
  ASSUME NEW c \in ClauseSet, IsDraft(draft), PassClause(c)
  PROVE  IsDraft(draft') /\ draft' # NoDraft /\ draft'.cond = draft.cond
<1>1. PICK k, t, i, q, qs, cs :
        draft = [kind |-> k, table |-> t, item |-> i, cond |-> q, conds |-> qs, clauses |-> cs, nodes |-> <<>>]
  BY DEF IsDraft
<1>2. k = draft.kind /\ t = draft.table /\ i = draft.item /\ q = draft.cond /\ cs = draft.clauses
  BY <1>1
<1> DEFINE clauses == Append(cs, c)
<1>3. /\ k \in {"put", "update", "delete"} /\ t \in Tables /\ i \in IF k = "put" THEN Items ELSE Keys
      /\ clauses \in Seq(ClauseSet)
  BY <1>2 DEF IsDraft
<1>4. k = "update" /\ draft' = [draft EXCEPT !.clauses = Append(@, c)]
  BY <1>2 DEF PassClause, MayPass
<1>5. draft' = DraftOf(k, t, i, q, qs, clauses)
  BY <1>1, <1>4 DEF DraftOf
<1> HIDE DEF clauses
<1>6. k # "update" => clauses = <<>>
  BY <1>4
<1> DEFINE d == DraftOf(k, t, i, q, qs, clauses)
<1>7. IsDraft(d) /\ d # NoDraft /\ d.cond = q
  BY <1>3, <1>6, FieldsOfDraft
<1>8. draft' = d
  BY <1>5
<1> HIDE DEF d
<1> QED BY <1>2, <1>7, <1>8

(* What is sent is what was said.                                          *)
LEMMA RequestIsBuilt ==
  ASSUME NEW d, d.kind \in {"put", "update", "delete", "check"}, d.table \in Tables, ~NoClauses(d)
  PROVE  IsBuilt(BuildRequest(d), Said(d))
<1>1. /\ Said(d).kind = d.kind /\ Said(d).table = d.table /\ Said(d).item = d.item
      /\ Said(d).clauses = d.clauses
  BY DEF Said
<1>2. /\ BuildRequest(d).kind = d.kind /\ BuildRequest(d).table = d.table
      /\ BuildRequest(d).item = d.item
  BY DEF BuildRequest, Request0, BuildUpdateRequest
<1> QED BY <1>1, <1>2 DEF IsBuilt, NoClauses

(* No builder yet, or none any more.                                       *)
LEMMA NewBuilder ==
  ASSUME NoBuilder
  PROVE  /\ BuilderTypes' /\ Len(ops') = 0 /\ Len(said') = 0 /\ DOMAIN ops' = {} /\ err' = "none"
BY EmptyBuilder DEF NoBuilder, BuilderTypes

(* One operation more in the builder.                                      *)
LEMMA BuilderGrows ==
  ASSUME TypeOK, BuilderTypes, Len(ops) <= MaxTx, NEW d,
         d.kind \in {"put", "update", "delete", "check"}, d.table \in Tables, ~NoClauses(d),
         ops' = Append(ops, BuildRequest(d)), said' = Append(said, Said(d))
  PROVE  /\ BuilderTypes' /\ Len(ops') = Len(said') /\ Len(ops') <= MaxTx + 1
         /\ \A i \in DOMAIN ops' : IsBuilt(ops'[i], said'[i])
<1>1. IsBuilt(BuildRequest(d), Said(d))
  BY RequestIsBuilt
<1>2. MaxTx \in Nat
  BY CallerAssumption
<1> DEFINE op == BuildRequest(d)
           what == Said(d)
<1> HIDE DEF op, what
<1>3. /\ ops' \in Seq(ToSet(ops')) /\ Len(ops') = Len(ops) + 1 /\ Len(ops) \in Nat
      /\ DOMAIN ops = 1..Len(ops) /\ DOMAIN ops' = 1..(Len(ops) + 1)
      /\ \A i \in DOMAIN ops : ops'[i] = ops[i]
      /\ ops'[Len(ops) + 1] = op
  BY OneMore DEF BuilderTypes, op
<1>4. /\ said' \in Seq(ToSet(said')) /\ Len(said') = Len(said) + 1 /\ Len(said) = Len(ops)
      /\ DOMAIN said = 1..Len(said)
      /\ \A i \in DOMAIN said : said'[i] = said[i]
      /\ said'[Len(said) + 1] = what
  BY OneMore DEF BuilderTypes, TypeOK, what
<1>5. ASSUME NEW i \in DOMAIN ops'
      PROVE  IsBuilt(ops'[i], said'[i])
  <2>1. CASE i = Len(ops) + 1
    BY <1>1, <1>3, <1>4, <2>1 DEF op, what
  <2>2. CASE i # Len(ops) + 1
    <3>1. i \in DOMAIN ops /\ i \in DOMAIN said
      BY <1>3, <1>4, <2>2
    <3> QED BY <1>3, <1>4, <3>1 DEF TypeOK
  <2> QED BY <2>1, <2>2
<1> QED BY <1>2, <1>3, <1>4, <1>5 DEF BuilderTypes

LEMMA InitTypes == Init => ReqInv
<1> SUFFICES ASSUME Init
             PROVE  ReqInv
  OBVIOUS
<1>1. BuilderTypes /\ Len(ops) = 0 /\ Len(said) = 0 /\ DOMAIN ops = {}
  BY EmptyBuilder DEF Init, BuilderTypes
<1> QED BY <1>1, CallerAssumption DEF Init, ReqInv, TypeOK, Open

LEMMA NextTypes == ReqInv /\ [Next]_vars => ReqInv'
<1> SUFFICES ASSUME ReqInv, [Next]_vars
             PROVE  ReqInv'
  OBVIOUS
<1> USE DEF ReqInv
<1>0. MaxTx \in Nat /\ MaxCalls \in Nat /\ MaxOptions \in Nat
  BY CallerAssumption
<1>1. ASSUME NEW kind \in {"put", "update", "delete"},
             NEW item \in IF kind = "put" THEN Items ELSE Keys, Call(kind, item)
      PROVE  ReqInv'
  <2>1. IsDraft(draft') /\ draft' # NoDraft
    BY <1>1, DraftIsDraft DEF Call
  <2>2. BuilderTypes' /\ Len(ops') = 0 /\ Len(said') = 0 /\ DOMAIN ops' = {} /\ err' = "none"
    BY <1>1, NewBuilder DEF Call
  <2>3. TypeOK'
    BY <1>0, <1>1, <2>1, <2>2 DEF Call, TypeOK
  <2>4. Open'
    BY <1>0, <1>1, <2>2 DEF Call, Idle, Open
  <2> QED BY <2>2, <2>3, <2>4
<1>2. ASSUME NEW kind \in {"put", "update", "delete"},
             NEW item \in IF kind = "put" THEN Items ELSE Keys, Describe(kind, item)
      PROVE  ReqInv'
  <2>1. IsDraft(draft') /\ draft' # NoDraft
    BY <1>2, DraftIsDraft DEF Describe
  <2> QED BY <1>2, <2>1 DEF Describe, TypeOK, Open, BuilderTypes
<1>3. CASE WriteTx
  <2>1. BuilderTypes' /\ Len(ops') = 0 /\ Len(said') = 0 /\ DOMAIN ops' = {} /\ err' = "none"
    BY <1>3, NewBuilder DEF WriteTx
  <2>2. TypeOK'
    BY <1>0, <1>3, <2>1 DEF WriteTx, Idle, TypeOK
  <2>3. Open'
    BY <1>3 DEF WriteTx, Idle, Open
  <2> QED BY <2>1, <2>2, <2>3
<1>4. ASSUME NEW c \in ClauseSet, PassClause(c)
      PROVE  ReqInv'
  <2>1. IsDraft(draft) /\ draft.kind = "update" /\ options + 1 \in 0..MaxOptions
    BY <1>0, <1>4 DEF PassClause, MayPass, TypeOK
  <2>2. IsDraft(draft') /\ draft' # NoDraft
    BY <1>4, <2>1, ClauseKeepsDraft
  <2> QED BY <1>4, <2>1, <2>2 DEF PassClause, MayPass, TypeOK, Open, BuilderTypes
<1>5. ASSUME NEW ast, NEW cond, draft # NoDraft, options < MaxOptions, PassBuilt(ast, cond)
      PROVE  ReqInv'
  <2>1. IsDraft(draft) /\ options + 1 \in 0..MaxOptions
    BY <1>0, <1>5 DEF TypeOK
  <2>2. IsDraft(draft') /\ draft' # NoDraft
    BY <1>5, <2>1, ConditionKeepsDraft
  <2> QED BY <1>5, <2>1, <2>2 DEF PassBuilt, TypeOK, Open, BuilderTypes
<1>6. ASSUME NEW ast, PassWrongCondition(ast)
      PROVE  ReqInv'
  <2>1. BuilderTypes' /\ Len(ops') = 0 /\ Len(said') = 0 /\ DOMAIN ops' = {} /\ err' = "none"
    BY <1>6, NewBuilder DEF PassWrongCondition
  <2>2. draft # NoDraft /\ options < MaxOptions /\ calls < MaxCalls /\ calls' = calls + 1
    BY <1>6 DEF PassWrongCondition, MayPass, Open, Answered
  <2>3. TypeOK'
    BY <1>0, <1>6, <2>1, <2>2 DEF PassWrongCondition, TypeOK
  <2>4. Open'
    BY <1>6 DEF PassWrongCondition, Open
  <2> QED BY <2>1, <2>3, <2>4
<1>7. CASE Send
  <2>1. draft # NoDraft /\ calls < MaxCalls /\ calls' = calls + 1
    BY <1>7 DEF Send, TypeOK, Open, Answered
  <2> QED BY <1>0, <1>7, <2>1 DEF Send, TypeOK, Open, BuilderTypes
<1>8. CASE AddToTx
  <2>1. IsDraft(draft) /\ Len(ops) <= MaxTx
    BY <1>8 DEF AddToTx, TypeOK, Open
  <2>2. CASE NoClauses(draft)
    BY <1>8, <2>2 DEF AddToTx, TypeOK, Open, BuilderTypes
  <2>3. CASE ~NoClauses(draft)
    <3>1. /\ BuilderTypes' /\ Len(ops') = Len(said') /\ Len(ops') <= MaxTx + 1
          /\ \A i \in DOMAIN ops' : IsBuilt(ops'[i], said'[i])
      BY <1>8, <2>1, <2>3, BuilderGrows DEF AddToTx, IsDraft
    <3> QED BY <1>8, <2>3, <3>1 DEF AddToTx, TypeOK, Open
  <2> QED BY <2>2, <2>3
<1>9. ASSUME NEW key \in Keys, NEW ast \in Condition, NEW enough \in BOOLEAN, AddCheck(key, ast, enough)
      PROVE  ReqInv'
  <2> DEFINE cond == BuildCondition(Text(ast), Given(ast, enough))
             d == [Draft("check", key) EXCEPT !.cond = cond, !.conds = <<ast>>]
  <2>1. Len(ops) <= MaxTx /\ options + 1 \in 0..MaxOptions
    BY <1>0, <1>9 DEF AddCheck, TypeOK
  <2>2. CASE cond = BadText
    BY <1>9, <2>1, <2>2 DEF AddCheck, TypeOK, Open, BuilderTypes
  <2>3. CASE cond # BadText
    <3>1. ops' = Append(ops, BuildRequest(d)) /\ said' = Append(said, Said(d)) /\ UNCHANGED err
      BY <1>9, <2>3 DEF AddCheck
    <3>2. d.kind = "check" /\ d.table \in Tables
      BY CallerAssumption DEF Draft
    <3>3. ~NoClauses(d)
      BY <3>2 DEF NoClauses
    <3> HIDE DEF d
    <3>4. /\ BuilderTypes' /\ Len(ops') = Len(said') /\ Len(ops') <= MaxTx + 1
          /\ \A i \in DOMAIN ops' : IsBuilt(ops'[i], said'[i])
      BY <2>1, <3>1, <3>2, <3>3, BuilderGrows
    <3> QED BY <1>9, <2>1, <3>1, <3>4 DEF AddCheck, TypeOK, Open
  <2> QED BY <2>2, <2>3
<1>10. CASE Run
  <2>1. calls' = calls + 1 /\ calls < MaxCalls
    BY <1>10 DEF Run, Answered
  <2> QED BY <1>0, <1>10, <2>1 DEF Run, TypeOK, Open, BuilderTypes
<1>11. ASSUME Idle, options < MaxOptions, calls' = calls + 1, pc' = "idle", NoBuilder,
              options' = options + 1, UNCHANGED draft
       PROVE  ReqInv'
  <2>1. BuilderTypes' /\ Len(ops') = 0 /\ Len(said') = 0 /\ DOMAIN ops' = {} /\ err' = "none"
    BY <1>11, NewBuilder
  <2>2. TypeOK'
    BY <1>0, <1>11, <2>1 DEF Idle, TypeOK
  <2>3. Open'
    BY <1>11 DEF Idle, Open
  <2> QED BY <2>1, <2>2, <2>3
<1>12. CASE UNCHANGED vars
  BY <1>12 DEF vars, TypeOK, Open, BuilderTypes
<1>13. ASSUME NEW item \in Items, NEW a \in DOMAIN item, IfNotExists(<<a>>)
       PROVE  ReqInv'
  BY <1>5, <1>13 DEF IfNotExists, MayPass
<1>14. ASSUME NEW ast \in Condition, PassCondition(ast)
       PROVE  ReqInv'
  BY <1>5, <1>14 DEF PassCondition, MayPass
<1>15. ASSUME NEW key \in Keys, NEW ast \in Condition, DeleteItem(key, ast)
       PROVE  ReqInv'
  BY <1>11, <1>15 DEF DeleteItem, Answered
<1>16. ASSUME NEW key \in Keys, NEW nodes \in RawUpdates, UpdateItem(key, nodes)
       PROVE  ReqInv'
  BY <1>11, <1>16 DEF UpdateItem, Answered
<1> HIDE DEF ReqInv
<1>17. CASE \E item \in Items : Call("put", item) \/ Describe("put", item)
  <2>1. PICK item \in Items : Call("put", item) \/ Describe("put", item)
    BY <1>17
  <2>2. Call("put", item) => ReqInv'
    BY <1>1
  <2>3. Describe("put", item) => ReqInv'
    BY <1>2
  <2> QED BY <2>1, <2>2, <2>3
<1>18. CASE \E kind \in {"update", "delete"}, key \in Keys : Call(kind, key) \/ Describe(kind, key)
  <2>1. PICK kind \in {"update", "delete"}, key \in Keys : Call(kind, key) \/ Describe(kind, key)
    BY <1>18
  <2>2. Call(kind, key) => ReqInv'
    BY <1>1
  <2>3. Describe(kind, key) => ReqInv'
    BY <1>2
  <2> QED BY <2>1, <2>2, <2>3
<1> QED BY <1>3, <1>4, <1>6, <1>7, <1>8, <1>9, <1>10, <1>12, <1>13, <1>14, <1>15, <1>16, <1>17, <1>18
        DEF Next

(* Calls, builders and the operations in them keep their shapes, and a     *)
(* builder's operations are those that were described, in their order.     *)
THEOREM RequestsTypeOK == Spec => []TypeOK
<1>1. ReqInv => TypeOK
  BY DEF ReqInv
<1> QED BY <1>1, InitTypes, NextTypes, PTL DEF Spec

-------------------------------------------------------------------------------
(* What a call that is refused leaves.                                     *)

(* One operation by itself either succeeds or changes nothing.             *)
LEMMA OneRefused ==
  ASSUME NEW state, NEW op,
         Performed(state, [type |-> "write", ops |-> <<op>>]).answer.status # "ok"
  PROVE  Performed(state, [type |-> "write", ops |-> <<op>>]).db = state
<1> DEFINE r == [type |-> "write", ops |-> <<op>>]
           p == Progress("write", state, <<>>, "ok")
           q == DoAll(p, <<op>>)
           checked == Conditions(state, r)
<1>1. Performed(state, r) = IF TooMany(r) THEN [db |-> state, answer |-> Answer("invalid", <<>>)]
                            ELSE Concluded(state, checked, q)
  BY DEF Performed, Executed
<1>2. q = DoOne(p, op)
  <2>1. <<op>> \in Seq({op}) /\ <<op>> # <<>> /\ Head(<<op>>) = op /\ Tail(<<op>>) = <<>>
    OBVIOUS
  <2> HIDE DEF p
  <2>2. DoAll(p, <<op>>) = DoAll(DoOne(p, Head(<<op>>)), Tail(<<op>>))
    BY <2>1, DoAllNext
  <2> QED BY <2>1, <2>2, DoAllEmpty
<1>3. q.verdict # "ok" => q.db = state
  <2>1. p.verdict = "ok" /\ IsWrite(p) /\ p.db = state
    BY DEF Progress, IsWrite
  <2> HIDE DEF p
  <2> QED BY <1>2, <2>1, RefusedWriteKeeps
<1>4. Performed(state, r).answer.status # "ok"
  OBVIOUS
<1> HIDE DEF r, q, checked
<1> QED BY <1>1, <1>3, <1>4 DEF Concluded, Answer, r

(* Several operations: those before the one that is refused are carried    *)
(* out, if all their conditions held.                                      *)
LEMMA ManyRefused ==
  ASSUME NEW state, NEW S, NEW built \in Seq(S),
         Performed(state, [type |-> "txwrite", ops |-> built]).answer.status # "ok",
         Performed(state, [type |-> "txwrite", ops |-> built]).db # state
  PROVE  /\ Conditions(state, [type |-> "txwrite", ops |-> built]).status = "ok"
         /\ \E n \in 1..(Len(built) - 1) :
              LET op   == built[n + 1]
                  done == Performed(state, [type |-> "txwrite", ops |-> built])
              IN  /\ done.db = Executed("txwrite", state, <<>>, SubSeq(built, 1, n)).db
                  /\ Verdict(SchemaOf[op.table], done.db[op.table], op) = done.answer.status
<1> DEFINE r == [type |-> "txwrite", ops |-> built]
           p == Progress("txwrite", state, <<>>, "ok")
           q == DoAll(p, built)
           checked == Conditions(state, r)
           done == Performed(state, r)
<1>1. done = IF TooMany(r) THEN [db |-> state, answer |-> Answer("invalid", <<>>)]
             ELSE Concluded(state, checked, q)
  BY DEF Performed, Executed
<1>2. done.answer.status # "ok" /\ done.db # state
  OBVIOUS
<1>3. checked.status = "ok" /\ done.db = q.db /\ done.answer.status = q.verdict
  <2> HIDE DEF r, q, checked, done
  <2> QED BY <1>1, <1>2 DEF Concluded, Answer
<1>4. p.verdict = "ok" /\ p.type = "txwrite" /\ p.db = state
  BY DEF Progress
<1>5. PICK n \in 0..(Len(built) - 1) :
        /\ DoAll(p, SubSeq(built, 1, n)).verdict = "ok"
        /\ DoAll(p, built) = DoOne(DoAll(p, SubSeq(built, 1, n)), built[n + 1])
  <2> HIDE DEF p, r, done
  <2> QED BY <1>2, <1>3, <1>4, DoAllStops
<1> DEFINE first == SubSeq(built, 1, n)
           before == DoAll(p, first)
           op == built[n + 1]
<1>6. first \in Seq(S) /\ Len(first) = n
  OBVIOUS
<1>7. IsWrite(before)
  <2> HIDE DEF p, first
  <2>1. before.type = "txwrite"
    BY <1>4, <1>6, DoAllType
  <2> QED BY <2>1 DEF IsWrite
<1>8. q.db = before.db /\ q.verdict = Verdict(SchemaOf[op.table], before.db[op.table], op)
  <2>1. q = DoOne(before, op) /\ before.verdict = "ok"
    BY <1>5
  <2>2. q.verdict # "ok"
    BY <1>2, <1>3
  <2> HIDE DEF q, before, op
  <2> QED BY <1>7, <2>1, <2>2, RefusedWriteKeeps
<1>9. n # 0
  <2> SUFFICES ASSUME n = 0
               PROVE  FALSE
    OBVIOUS
  <2>1. first = <<>>
    BY <1>6
  <2>2. before = p
    <3> HIDE DEF p, first
    <3> QED BY <2>1, DoAllEmpty
  <2> HIDE DEF p, q, r, done, before
  <2> QED BY <1>2, <1>3, <1>4, <1>8, <2>2
<1>10. n \in 1..(Len(built) - 1)
  BY <1>9
<1>11. before = Executed("txwrite", state, <<>>, first)
  BY DEF Executed
<1>12. /\ done.db = Executed("txwrite", state, <<>>, first).db
       /\ Verdict(SchemaOf[op.table], done.db[op.table], op) = done.answer.status
  <2> HIDE DEF p, q, r, done, before, op, first
  <2> QED BY <1>3, <1>8, <1>11
<1> HIDE DEF done, p, q
<1> QED BY <1>3, <1>10, <1>12 DEF done, r

(* A call by itself that is refused.                                       *)
LEMMA OneAnswered ==
  ASSUME NEW what, NEW outcome, Answered(what, outcome),
         outcome.answer.status # "ok" => outcome.db = db
  PROVE  RefusedChangesNothing'
<1>1. last'.answer = outcome.answer /\ last'.before = db /\ db' = outcome.db
  BY DEF Answered
<1> QED BY <1>1 DEF RefusedChangesNothing

LEMMA NextRefused == ReqInv /\ RefusedChangesNothing /\ [Next]_vars => RefusedChangesNothing'
<1> SUFFICES ASSUME ReqInv, RefusedChangesNothing, [Next]_vars
             PROVE  RefusedChangesNothing'
  OBVIOUS
<1>1. ASSUME last' = NothingSaid
      PROVE  RefusedChangesNothing'
  <2>1. last'.answer.status = "none"
    BY <1>1 DEF NothingSaid, NoReply, Answer
  <2> QED BY <2>1 DEF RefusedChangesNothing
<1>2. ASSUME draft # NoDraft, UNCHANGED last
      PROVE  RefusedChangesNothing'
  <2>1. last' = NothingSaid
    BY <1>2 DEF ReqInv, Open
  <2> QED BY <1>1, <2>1
<1>3. ASSUME NEW kind, NEW item, Call(kind, item)
      PROVE  RefusedChangesNothing'
  BY <1>1, <1>3 DEF Call
<1>4. ASSUME NEW kind, NEW item, Describe(kind, item)
      PROVE  RefusedChangesNothing'
  BY <1>1, <1>4 DEF Describe
<1>5. CASE WriteTx
  BY <1>1, <1>5 DEF WriteTx
<1>6. ASSUME NEW c, PassClause(c)
      PROVE  RefusedChangesNothing'
  BY <1>2, <1>6 DEF PassClause, MayPass
<1>7. ASSUME NEW a, IfNotExists(a)
      PROVE  RefusedChangesNothing'
  BY <1>2, <1>7 DEF IfNotExists, MayPass, PassBuilt
<1>8. ASSUME NEW ast, PassCondition(ast)
      PROVE  RefusedChangesNothing'
  BY <1>2, <1>8 DEF PassCondition, MayPass, PassBuilt
<1>9. ASSUME NEW ast, PassWrongCondition(ast)
      PROVE  RefusedChangesNothing'
  <2>1. Answered(<<>>, Refused("panic")) /\ Refused("panic").db = db
    BY <1>9 DEF PassWrongCondition, Refused
  <2> QED BY <2>1, OneAnswered
<1>10. CASE Send
  <2> DEFINE op == BuildRequest(draft)
             outcome == IF NoClauses(draft) THEN Refused("invalid")
                        ELSE Performed(db, [type |-> "write", ops |-> <<op>>])
  <2>1. Answered(<<Said(draft)>>, outcome)
    BY <1>10 DEF Send
  <2>2. outcome.answer.status # "ok" => outcome.db = db
    <3> HIDE DEF op
    <3>1. Refused("invalid").db = db
      BY DEF Refused
    <3> QED BY <3>1, OneRefused
  <2> HIDE DEF outcome
  <2> QED BY <2>1, <2>2, OneAnswered
<1>11. CASE AddToTx
  BY <1>2, <1>11 DEF AddToTx
<1>12. ASSUME NEW key, NEW ast, NEW enough, AddCheck(key, ast, enough)
       PROVE  RefusedChangesNothing'
  BY <1>1, <1>12 DEF AddCheck
<1>13. CASE Run
  <2>1. /\ last'.said = said /\ last'.before = db /\ last'.answer = RunOutcome(ops, err).answer
        /\ db' = RunOutcome(ops, err).db /\ ops' = ops /\ err' = err /\ said' = said
    BY <1>13 DEF Run, Answered
  <2> SUFFICES ASSUME last'.answer.status # "ok", db' # db
               PROVE  RefusedChangesNothing'
    BY <2>1 DEF RefusedChangesNothing
  <2> DEFINE done == Performed(db, [type |-> "txwrite", ops |-> ops])
  <2>2. RunOutcome(ops, err) = done /\ err = "none"
    <3>1. \A status : Refused(status).db = db
      BY DEF Refused
    <3> HIDE DEF done
    <3>2. RunOutcome(ops, err).db # db
      BY <2>1
    <3> QED BY <3>1, <3>2 DEF RunOutcome, done
  <2>3. Len(said) = Len(ops) /\ ops \in Seq(ToSet(ops))
    BY DEF ReqInv, TypeOK, BuilderTypes
  <2>4. db' = done.db /\ last'.answer.status = done.answer.status /\ done.answer.status # "ok" /\ done.db # db
    BY <2>1, <2>2
  <2>5. /\ Conditions(db, [type |-> "txwrite", ops |-> ops]).status = "ok"
        /\ \E n \in 1..(Len(ops) - 1) :
             LET op == ops[n + 1]
             IN  /\ done.db = Executed("txwrite", db, <<>>, SubSeq(ops, 1, n)).db
                 /\ Verdict(SchemaOf[op.table], done.db[op.table], op) = done.answer.status
    BY <2>3, <2>4, ManyRefused
  <2> HIDE DEF done
  <2> QED BY <2>1, <2>2, <2>3, <2>4, <2>5 DEF RefusedChangesNothing, AfterFirst
<1>14. ASSUME NEW key, NEW ast, DeleteItem(key, ast)
       PROVE  RefusedChangesNothing'
  <2> DEFINE d == [Draft("delete", key) EXCEPT !.cond = RawCondition(ast), !.conds = <<ast>>]
             op == BuildRequest(d)
             outcome == Performed(db, [type |-> "write", ops |-> <<op>>])
  <2>1. Answered(<<Said(d)>>, outcome)
    BY <1>14 DEF DeleteItem
  <2> HIDE DEF d, op
  <2>2. outcome.answer.status # "ok" => outcome.db = db
    BY OneRefused
  <2> HIDE DEF outcome
  <2> QED BY <2>1, <2>2, OneAnswered
<1>15. ASSUME NEW key, NEW nodes, UpdateItem(key, nodes)
       PROVE  RefusedChangesNothing'
  <2> DEFINE d == [Draft("update", key) EXCEPT !.nodes = nodes]
             op == [kind |-> "update", table |-> d.table, item |-> key, cond |-> NoCond, upd |-> RawUpdate(nodes)]
             outcome == Performed(db, [type |-> "write", ops |-> <<op>>])
  <2>1. Answered(<<Said(d)>>, outcome)
    BY <1>15 DEF UpdateItem
  <2> HIDE DEF d, op
  <2>2. outcome.answer.status # "ok" => outcome.db = db
    BY OneRefused
  <2> HIDE DEF outcome
  <2> QED BY <2>1, <2>2, OneAnswered
<1>16. CASE UNCHANGED vars
  BY <1>16 DEF vars, RefusedChangesNothing, AfterFirst
<1> QED BY <1>3, <1>4, <1>5, <1>6, <1>7, <1>8, <1>9, <1>10, <1>11, <1>12, <1>13, <1>14, <1>15, <1>16
        DEF Next

(* A call that is refused leaves the data as it was, whatever the backend  *)
(* makes of expressions: only in a transaction whose conditions all hold   *)
(* may an operation be refused after others, and just those are then       *)
(* carried out.                                                            *)
THEOREM RefusedIsSafe == Spec => []RefusedChangesNothing
<1>1. Init => RefusedChangesNothing
  <2>1. NothingSaid.answer.status = "none"
    BY DEF NothingSaid, NoReply, Answer
  <2> QED BY <2>1 DEF Init, RefusedChangesNothing
<1> QED BY <1>1, InitTypes, NextTypes, NextRefused, PTL DEF Spec

-------------------------------------------------------------------------------
(* No placeholder is lost between the options and the request.             *)

(* The condition of a description can be read before it is complete.       *)
DraftResolves(d) == d.cond # NoCond => IsResolved(d.cond)

ResolveInv ==
  /\ draft # NoDraft => DraftResolves(draft)
  /\ \A i \in DOMAIN ops : OpResolves(ops[i])

LEMMA DraftToRequest ==
  ASSUME NEW d, DraftResolves(d), d.kind = "update" => d.clauses \in Seq(ClauseSet)
  PROVE  OpResolves(BuildRequest(d))
<1>1. CASE d.kind = "update"
  <2>1. OpResolves(BuildUpdateRequest(d))
    BY <1>1, UpdateRequestsResolve DEF DraftResolves
  <2> QED BY <1>1, <2>1 DEF BuildRequest
<1>2. CASE d.kind # "update"
  <2>1. Request0(d).kind = d.kind /\ Request0(d).cond = d.cond
    BY DEF Request0
  <2> QED BY <1>2, <2>1 DEF BuildRequest, OpResolves, DraftResolves
<1> QED BY <1>1, <1>2

LEMMA AttrNotExistsResolves == \A a : IsResolved(BuildAttrNotExists(a))
<1> SUFFICES ASSUME NEW a
             PROVE  IsResolved(BuildAttrNotExists(a))
  OBVIOUS
<1> DEFINE fn == Word(<<"attribute_not_exists">>)
           open == Sym("(")
           name == Name(a)
           close == Sym(")")
           c == BuildAttrNotExists(a)
           good(s) == Reads(s, c.names, c.values)
<1>1. c.expression = <<fn, open, name, close>> /\ c.names = {a}
  BY DEF BuildAttrNotExists
<1>2. good(<<fn>>) /\ good(<<open>>) /\ good(<<close>>)
  <2> HIDE DEF c
  <2> QED BY OneToken, SignsResolve
<1>3. good(<<name>>)
  <2>1. Resolves(name, c.names, c.values)
    BY <1>1 DEF Resolves, Kind, Name
  <2> HIDE DEF c, name
  <2> QED BY <2>1, OneToken
<1>4. <<fn, open, name, close>> = ((<<fn>> \o <<open>>) \o <<name>>) \o <<close>>
  OBVIOUS
<1>5. ASSUME NEW s, NEW t, good(s), good(t)
      PROVE  good(s \o t)
  BY <1>5, BothInARow
<1> HIDE DEF c, good, fn, open, name, close
<1>6. good(((<<fn>> \o <<open>>) \o <<name>>) \o <<close>>)
  BY <1>2, <1>3, <1>5
<1>7. IsResolved(c)
  BY <1>1, <1>4, <1>6, ReadsIsResolved DEF good
<1> QED BY <1>7 DEF c

(* Whatever values come with a text, what is accepted can be read.         *)
LEMMA GivenResolves ==
  ASSUME NEW ast \in Condition, NEW enough \in BOOLEAN, MayGive(ast, enough),
         BuildCondition(Text(ast), Given(ast, enough)) # BadText
  PROVE  IsResolved(BuildCondition(Text(ast), Given(ast, enough)))
<1> DEFINE vals == Given(ast, enough)
           T == ToSet(Values(ast))
<1>1. IsText(Text(ast)) /\ Values(ast) \in Seq(T)
  BY CallerAssumption
<1>2. vals \in Seq(T)
  <2>1. CASE enough
    BY <1>1, <2>1 DEF Given
  <2>2. CASE ~enough
    <3>1. Values(ast) # <<>> /\ vals = SubSeq(Values(ast), 1, Len(Values(ast)) - 1)
      BY <2>2 DEF MayGive, Given, Front
    <3> HIDE DEF vals, T
    <3> QED BY <1>1, <3>1
  <2> QED BY <2>1, <2>2
<1> HIDE DEF vals, T
<1>3. BuildCondition(Text(ast), vals) # BadText
  BY DEF vals
<1>4. IsResolved(BuildCondition(Text(ast), vals))
  BY <1>1, <1>2, <1>3, BuiltConditionsResolve
<1> QED BY <1>4 DEF vals

(* One operation more that can be read.                                    *)
LEMMA MoreResolves ==
  ASSUME BuilderTypes, ResolveInv, NEW op, OpResolves(op), ops' = Append(ops, op)
  PROVE  \A i \in DOMAIN ops' : OpResolves(ops'[i])
<1>1. /\ Len(ops) \in Nat /\ DOMAIN ops = 1..Len(ops) /\ DOMAIN ops' = 1..(Len(ops) + 1)
      /\ \A i \in DOMAIN ops : ops'[i] = ops[i]
      /\ ops'[Len(ops) + 1] = op
  BY OneMore DEF BuilderTypes
<1>2. ASSUME NEW i \in DOMAIN ops'
      PROVE  OpResolves(ops'[i])
  <2>1. CASE i = Len(ops) + 1
    BY <1>1, <2>1
  <2>2. CASE i # Len(ops) + 1
    <3>1. i \in DOMAIN ops
      BY <1>1, <2>2
    <3> QED BY <1>1, <3>1 DEF ResolveInv
  <2> QED BY <2>1, <2>2
<1> QED BY <1>2

LEMMA NextResolves == ReqInv /\ ResolveInv /\ [Next]_vars => ResolveInv'
<1> SUFFICES ASSUME ReqInv, ResolveInv, [Next]_vars
             PROVE  ResolveInv'
  OBVIOUS
<1>1. ASSUME NoBuilder, draft' # NoDraft => DraftResolves(draft')
      PROVE  ResolveInv'
  BY <1>1, EmptyBuilder DEF NoBuilder, ResolveInv
<1>2. ASSUME UNCHANGED ops, draft' # NoDraft => DraftResolves(draft')
      PROVE  ResolveInv'
  BY <1>2 DEF ResolveInv
<1>3. ASSUME NEW kind \in {"put", "update", "delete"},
             NEW item \in IF kind = "put" THEN Items ELSE Keys, Call(kind, item)
      PROVE  ResolveInv'
  BY <1>1, <1>3, DraftIsDraft DEF Call, DraftResolves
<1>4. ASSUME NEW kind \in {"put", "update", "delete"},
             NEW item \in IF kind = "put" THEN Items ELSE Keys, Describe(kind, item)
      PROVE  ResolveInv'
  BY <1>2, <1>4, DraftIsDraft DEF Describe, DraftResolves
<1>5. CASE WriteTx
  BY <1>1, <1>5 DEF WriteTx, Idle
<1>6. ASSUME NEW c \in ClauseSet, PassClause(c)
      PROVE  ResolveInv'
  <2>1. IsDraft(draft) /\ draft.kind = "update" /\ DraftResolves(draft)
    BY <1>6 DEF PassClause, MayPass, ReqInv, TypeOK, ResolveInv
  <2>2. draft'.cond = draft.cond
    BY <1>6, <2>1, ClauseKeepsDraft
  <2> QED BY <1>2, <1>6, <2>1, <2>2 DEF PassClause, DraftResolves
<1>7. ASSUME NEW ast, NEW cond, draft # NoDraft, IsResolved(cond), PassBuilt(ast, cond)
      PROVE  ResolveInv'
  <2> DEFINE new == WithCondition(draft.cond, cond)
  <2>1. IsDraft(draft) /\ DraftResolves(draft)
    BY <1>7 DEF ReqInv, TypeOK, ResolveInv
  <2>2. IsResolved(new)
    BY <1>7, <2>1, MergedConditionsResolve DEF WithCondition, DraftResolves
  <2>3. draft'.cond = new
    BY <1>7, <2>1, ConditionKeepsDraft
  <2> HIDE DEF new
  <2> QED BY <1>2, <1>7, <2>2, <2>3 DEF PassBuilt, DraftResolves
<1>8. ASSUME NEW a, IfNotExists(a)
      PROVE  ResolveInv'
  BY <1>7, <1>8, AttrNotExistsResolves DEF IfNotExists, MayPass
<1>9. ASSUME NEW ast \in Condition, PassCondition(ast)
      PROVE  ResolveInv'
  <2>1. MayGive(ast, TRUE)
    BY DEF MayGive
  <2>2. IsResolved(BuildCondition(Text(ast), Given(ast, TRUE)))
    BY <1>9, <2>1, GivenResolves DEF PassCondition
  <2> QED BY <1>7, <1>9, <2>2 DEF PassCondition, MayPass
<1>10. ASSUME NEW ast, PassWrongCondition(ast)
       PROVE  ResolveInv'
  BY <1>1, <1>10 DEF PassWrongCondition
<1>11. CASE Send
  BY <1>2, <1>11 DEF Send
<1>12. CASE AddToTx
  <2>1. draft' = NoDraft
    BY <1>12 DEF AddToTx
  <2>2. CASE NoClauses(draft)
    BY <1>2, <1>12, <2>1, <2>2 DEF AddToTx
  <2>3. CASE ~NoClauses(draft)
    <3>1. OpResolves(BuildRequest(draft))
      BY <1>12, DraftToRequest DEF AddToTx, ReqInv, TypeOK, IsDraft, ResolveInv
    <3>2. \A i \in DOMAIN ops' : OpResolves(ops'[i])
      BY <1>12, <2>3, <3>1, MoreResolves DEF AddToTx, ReqInv
    <3> QED BY <2>1, <3>2 DEF ResolveInv
  <2> QED BY <2>2, <2>3
<1>13. ASSUME NEW key \in Keys, NEW ast \in Condition, NEW enough \in BOOLEAN, AddCheck(key, ast, enough)
       PROVE  ResolveInv'
  <2> DEFINE cond == BuildCondition(Text(ast), Given(ast, enough))
             d == [Draft("check", key) EXCEPT !.cond = cond, !.conds = <<ast>>]
  <2>1. draft = NoDraft /\ draft' = NoDraft
    BY <1>13 DEF AddCheck
  <2>2. CASE cond = BadText
    BY <1>2, <1>13, <2>1, <2>2 DEF AddCheck
  <2>3. CASE cond # BadText
    <3>1. IsResolved(cond) /\ ops' = Append(ops, BuildRequest(d))
      BY <1>13, <2>3, GivenResolves DEF AddCheck
    <3> HIDE DEF cond
    <3>2. d.kind = "check" /\ d.cond = cond
      BY DEF Draft
    <3> HIDE DEF d
    <3>3. OpResolves(BuildRequest(d))
      BY <3>1, <3>2, DraftToRequest DEF DraftResolves
    <3>4. \A i \in DOMAIN ops' : OpResolves(ops'[i])
      BY <3>1, <3>3, MoreResolves DEF ReqInv
    <3> QED BY <2>1, <3>4 DEF ResolveInv
  <2> QED BY <2>2, <2>3
<1>14. CASE Run
  BY <1>2, <1>14 DEF Run, ResolveInv
<1>15. ASSUME NEW key, NEW ast, DeleteItem(key, ast)
       PROVE  ResolveInv'
  BY <1>1, <1>15 DEF DeleteItem, Idle
<1>16. ASSUME NEW key, NEW nodes, UpdateItem(key, nodes)
       PROVE  ResolveInv'
  BY <1>1, <1>16 DEF UpdateItem, Idle
<1>17. CASE UNCHANGED vars
  BY <1>17 DEF vars, ResolveInv
<1>18. CASE \E item \in Items : Call("put", item) \/ Describe("put", item)
  <2>1. PICK item \in Items : Call("put", item) \/ Describe("put", item)
    BY <1>18
  <2>2. Call("put", item) => ResolveInv'
    BY <1>3
  <2>3. Describe("put", item) => ResolveInv'
    BY <1>4
  <2> QED BY <2>1, <2>2, <2>3
<1>19. CASE \E kind \in {"update", "delete"}, key \in Keys : Call(kind, key) \/ Describe(kind, key)
  <2>1. PICK kind \in {"update", "delete"}, key \in Keys : Call(kind, key) \/ Describe(kind, key)
    BY <1>19
  <2>2. Call(kind, key) => ResolveInv'
    BY <1>3
  <2>3. Describe(kind, key) => ResolveInv'
    BY <1>4
  <2> QED BY <2>1, <2>2, <2>3
<1> QED BY <1>5, <1>6, <1>8, <1>9, <1>10, <1>11, <1>12, <1>13, <1>14, <1>15, <1>16, <1>17, <1>18, <1>19
        DEF Next

(* Whatever options a caller passes, and in whatever order, each alias in  *)
(* the expressions of its requests has its name and each placeholder a     *)
(* value; and so it stays while conditions and clauses are merged.         *)
THEOREM LibraryRequestsResolve == Spec => []PlaceholdersResolve
<1>1. Init => ResolveInv
  BY EmptyBuilder DEF Init, ResolveInv
<1>2. ReqInv /\ ResolveInv => PlaceholdersResolve
  BY DraftToRequest DEF ReqInv, TypeOK, IsDraft, ResolveInv, PlaceholdersResolve
<1> QED BY <1>1, <1>2, InitTypes, NextTypes, NextResolves, PTL DEF Spec

===============================================================================
