--------------------------- MODULE AtomicOps_proofs ---------------------------
(***************************************************************************)
(* Lemmas about what a sequence of item operations does, one after the     *)
(* other: which tables it can change and depends on, and where it stops.   *)
(***************************************************************************)
EXTENDS AtomicOps, MemTable_proofs

(* The recursive function in DoAll exists.                                 *)
LEMMA DoAllSteps ==
  ASSUME NEW S, NEW p, NEW s \in Seq(S)
  PROVE  \E f : /\ f[0] = p
                /\ \A n \in 1..Len(s) : f[n] = DoOne(f[n - 1], s[n])
                /\ DoAll(p, s) = f[Len(s)]
<1> DEFINE Steps(f, m) == f = [n \in 0..m |-> IF n = 0 THEN p ELSE DoOne(f[n - 1], s[n])]
           T == {m \in Nat : \E f : Steps(f, m)}
<1>1. 0 \in T
  <2> DEFINE f == [n \in 0..0 |-> p]
  <2>1. Steps(f, 0)
    OBVIOUS
  <2> HIDE DEF Steps
  <2> QED BY <2>1
<1>2. ASSUME NEW m \in Nat, m \in T
      PROVE  m + 1 \in T
  <2>1. PICK f : Steps(f, m)
    BY <1>2
  <2> DEFINE g == [n \in 0..(m + 1) |-> IF n = m + 1 THEN DoOne(f[m], s[m + 1]) ELSE f[n]]
  <2>2. ASSUME NEW n \in 0..(m + 1)
        PROVE  g[n] = IF n = 0 THEN p ELSE DoOne(g[n - 1], s[n])
    <3>1. CASE n = m + 1
      BY <3>1
    <3>2. CASE n # m + 1 /\ n # 0
      BY <2>1, <3>2
    <3>3. CASE n # m + 1 /\ n = 0
      BY <2>1, <3>3
    <3> QED BY <3>1, <3>2, <3>3
  <2>3. Steps(g, m + 1)
    <3>1. g = [n \in 0..(m + 1) |-> g[n]]
      OBVIOUS
    <3> HIDE DEF g
    <3> QED BY <2>2, <3>1
  <2> HIDE DEF Steps
  <2> QED BY <2>3
<1>3. Len(s) \in T
  <2> HIDE DEF T
  <2> QED BY <1>1, <1>2, SetInduction
<1> DEFINE after == CHOOSE f : Steps(f, Len(s))
<1>4. Steps(after, Len(s))
  <2> HIDE DEF Steps
  <2> QED BY <1>3
<1>5. DoAll(p, s) = after[Len(s)]
  BY DEF DoAll
<1>6. \A n \in 0..Len(s) : after[n] = IF n = 0 THEN p ELSE DoOne(after[n - 1], s[n])
  <2> HIDE DEF after
  <2> QED BY <1>4
<1>7. after[0] = p /\ \A n \in 1..Len(s) : after[n] = DoOne(after[n - 1], s[n])
  <2> HIDE DEF after
  <2> QED BY <1>6
<1> QED BY <1>5, <1>7

LEMMA DoAllEmpty ==
  ASSUME NEW p
  PROVE  DoAll(p, <<>>) = p
<1>1. ASSUME NEW s \in Seq({})
      PROVE  \E f : f[0] = p /\ DoAll(p, s) = f[Len(s)]
  BY DoAllSteps
<1>2. <<>> \in Seq({}) /\ Len(<<>>) = 0
  OBVIOUS
<1>3. PICK f : f[0] = p /\ DoAll(p, <<>>) = f[Len(<<>>)]
  BY <1>1, <1>2
<1> QED BY <1>2, <1>3

LEMMA DoAllNext ==
  ASSUME NEW S, NEW p, NEW s \in Seq(S), s # <<>>
  PROVE  DoAll(p, s) = DoAll(DoOne(p, Head(s)), Tail(s))
<1>1. /\ Tail(s) \in Seq(S) /\ Len(s) \in Nat /\ Len(Tail(s)) = Len(s) - 1 /\ Len(s) >= 1
      /\ Head(s) = s[1] /\ \A n \in 1..Len(Tail(s)) : Tail(s)[n] = s[n + 1]
  OBVIOUS
<1>2. PICK f : /\ f[0] = p
               /\ \A n \in 1..Len(s) : f[n] = DoOne(f[n - 1], s[n])
               /\ DoAll(p, s) = f[Len(s)]
  BY DoAllSteps
<1> DEFINE q == DoOne(p, Head(s))
<1>3. PICK g : /\ g[0] = q
               /\ \A n \in 1..Len(Tail(s)) : g[n] = DoOne(g[n - 1], Tail(s)[n])
               /\ DoAll(q, Tail(s)) = g[Len(Tail(s))]
  <2>1. ASSUME NEW r \in Seq(S), NEW o
        PROVE  \E g : /\ g[0] = o
                      /\ \A n \in 1..Len(r) : g[n] = DoOne(g[n - 1], r[n])
                      /\ DoAll(o, r) = g[Len(r)]
    BY DoAllSteps
  <2> HIDE DEF q
  <2> QED BY <1>1, <2>1
<1> DEFINE T == {n \in Nat : n <= Len(Tail(s)) => g[n] = f[n + 1]}
<1>4. 0 \in T
  <2>1. f[1] = DoOne(f[0], s[1])
    BY <1>1, <1>2
  <2> QED BY <1>1, <1>2, <1>3, <2>1
<1>5. ASSUME NEW n \in Nat, n \in T
      PROVE  n + 1 \in T
  <2> SUFFICES ASSUME n + 1 <= Len(Tail(s))
               PROVE  g[n + 1] = f[n + 2]
    OBVIOUS
  <2>1. g[n + 1] = DoOne(g[n], Tail(s)[n + 1])
    <3>1. n + 1 \in 1..Len(Tail(s)) /\ (n + 1) - 1 = n
      BY <1>1
    <3> QED BY <1>3, <3>1
  <2>2. f[n + 2] = DoOne(f[n + 1], s[n + 2])
    <3>1. n + 2 \in 1..Len(s) /\ (n + 2) - 1 = n + 1
      BY <1>1
    <3> QED BY <1>2, <3>1
  <2>3. Tail(s)[n + 1] = s[n + 2]
    BY <1>1
  <2>4. g[n] = f[n + 1]
    BY <1>1, <1>5
  <2> QED BY <2>1, <2>2, <2>3, <2>4
<1>6. Len(Tail(s)) \in T
  <2> HIDE DEF T
  <2> QED BY <1>1, <1>4, <1>5, SetInduction
<1>7. g[Len(Tail(s))] = f[Len(s)]
  BY <1>1, <1>6
<1> QED BY <1>2, <1>3, <1>7

(* An operation that is refused is the last.                               *)
LEMMA RefusedEnds ==
  ASSUME NEW S, NEW p, p.verdict # "ok", NEW s \in Seq(S)
  PROVE  DoAll(p, s) = p
<1> DEFINE T == {r \in Seq(S) : DoAll(p, r) = p}
<1>1. <<>> \in T
  BY DoAllEmpty
<1>2. ASSUME NEW r \in Seq(S), r # <<>>, Tail(r) \in T
      PROVE  r \in T
  <2>1. DoOne(p, Head(r)) = p
    BY DEF DoOne
  <2> QED BY <1>2, <2>1, DoAllNext
<1>3. Seq(S) \subseteq T
  <2> HIDE DEF T
  <2> QED BY <1>1, <1>2, SequenceInduction
<1> QED BY <1>3

IsProgress(p) ==
  /\ p = Progress(p.type, p.db, p.items, p.verdict)
  /\ p.db = [t \in Tables |-> p.db[t]]
  /\ p.verdict \in {"ok", "invalid", "error"}

(* The same as far as some tables go.                                      *)
Alike(p, q, D) ==
  /\ IsProgress(p) /\ IsProgress(q)
  /\ p.type = q.type /\ p.items = q.items /\ p.verdict = q.verdict
  /\ \A t \in D : p.db[t] = q.db[t]

(* A step changes no other table than that of its operation.               *)
LEMMA DoOneFrame ==
  ASSUME NEW p, IsProgress(p), NEW op, op.table \in Tables
  PROVE  /\ IsProgress(DoOne(p, op))
         /\ DoOne(p, op).type = p.type
         /\ \A t \in Tables \ {op.table} : DoOne(p, op).db[t] = p.db[t]
         /\ ~IsWrite(p) => DoOne(p, op).db = p.db
         /\ IsWrite(p) => DoOne(p, op).items = p.items
<1> USE DEF IsProgress, Progress
<1>1. CASE p.verdict # "ok"
  BY <1>1 DEF DoOne
<1>2. CASE p.verdict = "ok" /\ IsWrite(p)
  <2>1. DoOne(p, op) = WriteOne(p, op)
    BY <1>2 DEF DoOne
  <2> DEFINE v == Verdict(SchemaOf[op.table], p.db[op.table], op)
             a == Apply(SchemaOf[op.table], p.db[op.table], op)
  <2>2. DoOne(p, op) = IF v # "ok" THEN Progress(p.type, p.db, p.items, v)
                       ELSE Progress(p.type, [p.db EXCEPT ![op.table] = a], p.items, "ok")
    BY <2>1 DEF WriteOne
  <2>3. v \in {"ok", "invalid", "error"}
    BY DEF Verdict
  <2> HIDE DEF v, a
  <2> QED BY <1>2, <2>2, <2>3
<1>3. CASE p.verdict = "ok" /\ ~IsWrite(p)
  <2>1. DoOne(p, op) = ReadOne(p, op)
    BY <1>3 DEF DoOne
  <2> DEFINE item == Lookup(p.db[op.table].items, KeyIn(op))
  <2>2. \/ DoOne(p, op) = Progress(p.type, p.db, p.items, "invalid")
        \/ DoOne(p, op) = p
        \/ DoOne(p, op) = Progress(p.type, p.db, Append(p.items, item), "ok")
    BY <2>1 DEF ReadOne
  <2> HIDE DEF item
  <2>3. DoOne(p, op).type = p.type /\ DoOne(p, op).db = p.db
    BY <2>2
  <2>4. /\ DoOne(p, op) = Progress(p.type, p.db, DoOne(p, op).items, DoOne(p, op).verdict)
        /\ DoOne(p, op).verdict \in {"ok", "invalid", "error"}
    BY <2>2
  <2> QED BY <1>3, <2>3, <2>4
<1> QED BY <1>1, <1>2, <1>3

(* A step depends on no other table than that of its operation.            *)
LEMMA DoOneAlike ==
  ASSUME NEW D \in SUBSET Tables, NEW p, NEW q, Alike(p, q, D), NEW op, op.table \in D
  PROVE  Alike(DoOne(p, op), DoOne(q, op), D)
<1>1. IsProgress(DoOne(p, op)) /\ IsProgress(DoOne(q, op))
  BY DoOneFrame DEF Alike
<1>2. IsWrite(p) <=> IsWrite(q)
  BY DEF Alike, IsWrite
<1>3. p.db[op.table] = q.db[op.table]
  BY DEF Alike
<1>4. CASE p.verdict # "ok"
  BY <1>4 DEF DoOne, Alike
<1>5. CASE p.verdict = "ok" /\ IsWrite(p)
  <2>1. DoOne(p, op) = WriteOne(p, op) /\ DoOne(q, op) = WriteOne(q, op)
    BY <1>2, <1>5 DEF DoOne, Alike
  <2> DEFINE v == Verdict(SchemaOf[op.table], p.db[op.table], op)
             a == Apply(SchemaOf[op.table], p.db[op.table], op)
  <2>2. WriteOne(p, op) = IF v # "ok" THEN Progress(p.type, p.db, p.items, v)
                          ELSE Progress(p.type, [p.db EXCEPT ![op.table] = a], p.items, "ok")
    BY DEF WriteOne
  <2>3. WriteOne(q, op) = IF v # "ok" THEN Progress(q.type, q.db, q.items, v)
                          ELSE Progress(q.type, [q.db EXCEPT ![op.table] = a], q.items, "ok")
    BY <1>3 DEF WriteOne
  <2>4. /\ p.db = [t \in Tables |-> p.db[t]] /\ q.db = [t \in Tables |-> q.db[t]]
        /\ p.type = q.type /\ p.items = q.items /\ \A t \in D : p.db[t] = q.db[t]
    BY DEF Alike, IsProgress
  <2> HIDE DEF v, a
  <2>5. CASE v # "ok"
    BY <1>1, <2>1, <2>2, <2>3, <2>4, <2>5 DEF Alike, Progress
  <2>6. CASE v = "ok"
    <3>1. \A t \in D : [p.db EXCEPT ![op.table] = a][t] = [q.db EXCEPT ![op.table] = a][t]
      BY <2>4
    <3> QED BY <1>1, <2>1, <2>2, <2>3, <2>4, <2>6, <3>1 DEF Alike, Progress
  <2> QED BY <2>5, <2>6
<1>6. CASE p.verdict = "ok" /\ ~IsWrite(p)
  <2>1. DoOne(p, op) = ReadOne(p, op) /\ DoOne(q, op) = ReadOne(q, op)
    BY <1>2, <1>6 DEF DoOne, Alike
  <2> DEFINE k == KeyIn(op)
             missing == p.type = "batchget" /\ k \notin DOMAIN p.db[op.table].items
             item == Lookup(p.db[op.table].items, k)
  <2>2. ReadOne(p, op) = IF k = NoKey THEN Progress(p.type, p.db, p.items, "invalid")
                         ELSE IF missing THEN p
                         ELSE Progress(p.type, p.db, Append(p.items, item), "ok")
    BY DEF ReadOne
  <2>3. ReadOne(q, op) = IF k = NoKey THEN Progress(q.type, q.db, q.items, "invalid")
                         ELSE IF missing THEN q
                         ELSE Progress(q.type, q.db, Append(q.items, item), "ok")
    BY <1>3 DEF ReadOne, Alike
  <2> HIDE DEF k, missing, item
  <2>4. CASE k = NoKey
    BY <1>1, <2>1, <2>2, <2>3, <2>4 DEF Alike, Progress
  <2>5. CASE k # NoKey /\ missing
    BY <1>1, <2>1, <2>2, <2>3, <2>5 DEF Alike
  <2>6. CASE k # NoKey /\ ~missing
    <3>1. Append(p.items, item) = Append(q.items, item)
      BY DEF Alike
    <3> DEFINE items == Append(p.items, item)
    <3>2. /\ DoOne(p, op) = Progress(p.type, p.db, items, "ok")
          /\ DoOne(q, op) = Progress(q.type, q.db, items, "ok")
      BY <2>1, <2>2, <2>3, <2>6, <3>1
    <3> HIDE DEF items
    <3> QED BY <1>1, <3>2 DEF Alike, Progress
  <2> QED BY <2>4, <2>5, <2>6
<1> QED BY <1>4, <1>5, <1>6

OpsOn(D) == {op \in Op : op.table \in D}

LEMMA OpsOnTables ==
  ASSUME NEW D, NEW s \in Seq(Op), \A i \in DOMAIN s : s[i].table \in D
  PROVE  s \in Seq(OpsOn(D))
BY DEF OpsOn

(* Operations change no other tables than theirs, reads change none, and   *)
(* writes collect nothing.                                                 *)
LEMMA DoAllFrame ==
  ASSUME NEW D \in SUBSET Tables, NEW s \in Seq(OpsOn(D)), NEW p, IsProgress(p)
  PROVE  /\ IsProgress(DoAll(p, s))
         /\ DoAll(p, s).type = p.type
         /\ \A t \in Tables \ D : DoAll(p, s).db[t] = p.db[t]
         /\ ~IsWrite(p) => DoAll(p, s).db = p.db
         /\ IsWrite(p) => DoAll(p, s).items = p.items
<1> DEFINE Framed(o, r) == /\ IsProgress(r)
                           /\ r.type = o.type
                           /\ \A t \in Tables \ D : r.db[t] = o.db[t]
                           /\ ~IsWrite(o) => r.db = o.db
                           /\ IsWrite(o) => r.items = o.items
           T == {r \in Seq(OpsOn(D)) : \A o : IsProgress(o) => Framed(o, DoAll(o, r))}
<1>1. <<>> \in T
  BY DoAllEmpty
<1>2. ASSUME NEW r \in Seq(OpsOn(D)), r # <<>>, Tail(r) \in T
      PROVE  r \in T
  <2> SUFFICES ASSUME NEW o, IsProgress(o)
               PROVE  Framed(o, DoAll(o, r))
    OBVIOUS
  <2> DEFINE n == DoOne(o, Head(r))
  <2>1. Head(r) \in OpsOn(D) /\ Head(r).table \in Tables /\ Head(r).table \in D
    BY <1>2 DEF OpsOn
  <2>2. Framed(o, n)
    BY <2>1, DoOneFrame
  <2>3. Framed(n, DoAll(n, Tail(r)))
    <3> HIDE DEF n
    <3> QED BY <1>2, <2>2
  <2>4. DoAll(o, r) = DoAll(n, Tail(r))
    BY <1>2, DoAllNext
  <2>5. IsWrite(n) <=> IsWrite(o)
    BY <2>2 DEF IsWrite
  <2> HIDE DEF n
  <2> QED BY <2>2, <2>3, <2>4, <2>5
<1>3. Seq(OpsOn(D)) \subseteq T
  <2> HIDE DEF T
  <2> QED BY <1>1, <1>2, SequenceInduction
<1> QED BY <1>3

(* They depend on no other tables than theirs.                             *)
LEMMA DoAllAlike ==
  ASSUME NEW D \in SUBSET Tables, NEW s \in Seq(OpsOn(D)), NEW p, NEW q, Alike(p, q, D)
  PROVE  Alike(DoAll(p, s), DoAll(q, s), D)
<1> DEFINE T == {r \in Seq(OpsOn(D)) : \A o, u : Alike(o, u, D) => Alike(DoAll(o, r), DoAll(u, r), D)}
<1>1. <<>> \in T
  BY DoAllEmpty
<1>2. ASSUME NEW r \in Seq(OpsOn(D)), r # <<>>, Tail(r) \in T
      PROVE  r \in T
  <2> SUFFICES ASSUME NEW o, NEW u, Alike(o, u, D)
               PROVE  Alike(DoAll(o, r), DoAll(u, r), D)
    OBVIOUS
  <2>1. Head(r) \in OpsOn(D) /\ Head(r).table \in D
    BY <1>2 DEF OpsOn
  <2>2. Alike(DoOne(o, Head(r)), DoOne(u, Head(r)), D)
    BY <2>1, DoOneAlike
  <2>3. /\ DoAll(o, r) = DoAll(DoOne(o, Head(r)), Tail(r))
        /\ DoAll(u, r) = DoAll(DoOne(u, Head(r)), Tail(r))
    BY <1>2, DoAllNext
  <2> QED BY <1>2, <2>2, <2>3
<1>3. Seq(OpsOn(D)) \subseteq T
  <2> HIDE DEF T
  <2> QED BY <1>1, <1>2, SequenceInduction
<1> QED BY <1>3

(* A step keeps tables well formed.                                        *)
LEMMA DoOneKeepsTables ==
  ASSUME NEW p, IsProgress(p), IsWrite(p), \A t \in Tables : IsTable(p.db[t]), NEW op \in Op
  PROVE  /\ IsProgress(DoOne(p, op)) /\ IsWrite(DoOne(p, op))
         /\ \A t \in Tables : IsTable(DoOne(p, op).db[t])
<1> DEFINE table == p.db[op.table]
           schema == SchemaOf[op.table]
           new == Apply(schema, table, op)
           v == Verdict(schema, table, op)
<1>1. op.table \in Tables /\ op.item \in Item /\ schema \in Schema
  BY RequestAssumption DEF IsOp
<1>2. UpdateIsSound(op) /\ IsTable(table)
  BY <1>1, UpdateAssumption DEF UpdateIsSound
<1>3. v = "ok" => IsTable(new)
  BY <1>1, <1>2, ApplyIsTable
<1>4. /\ IsProgress(DoOne(p, op)) /\ DoOne(p, op).type = p.type
      /\ \A t \in Tables \ {op.table} : DoOne(p, op).db[t] = p.db[t]
  BY <1>1, DoOneFrame
<1>5. \/ DoOne(p, op).db = p.db
      \/ v = "ok" /\ DoOne(p, op) = Progress(p.type, [p.db EXCEPT ![op.table] = new], p.items, "ok")
  BY DEF DoOne, WriteOne, Progress
<1>6. IsTable(DoOne(p, op).db[op.table])
  <2> HIDE DEF v, new
  <2> QED BY <1>1, <1>2, <1>3, <1>5 DEF Progress, IsProgress
<1> QED BY <1>4, <1>6 DEF IsWrite

-------------------------------------------------------------------------------
(* Where a sequence of operations stops.                                   *)

(* The type of the request stays.                                          *)
LEMMA DoAllType ==
  ASSUME NEW S, NEW p, NEW s \in Seq(S)
  PROVE  DoAll(p, s).type = p.type
<1> DEFINE T == {r \in Seq(S) : \A o : DoAll(o, r).type = o.type}
<1>1. <<>> \in T
  BY DoAllEmpty
<1>2. ASSUME NEW r \in Seq(S), r # <<>>, Tail(r) \in T
      PROVE  r \in T
  <2> SUFFICES ASSUME NEW o
               PROVE  DoAll(o, r).type = o.type
    OBVIOUS
  <2> DEFINE n == DoOne(o, Head(r))
  <2>1. n.type = o.type
    BY DEF DoOne, WriteOne, ReadOne, Progress
  <2>2. DoAll(o, r) = DoAll(n, Tail(r))
    BY <1>2, DoAllNext
  <2> HIDE DEF n
  <2> QED BY <1>2, <2>1, <2>2
<1>3. Seq(S) \subseteq T
  <2> HIDE DEF T
  <2> QED BY <1>1, <1>2, SequenceInduction
<1> QED BY <1>3

(* A sequence without its last operations begins with the same operation.  *)
LEMMA FirstOfMore ==
  ASSUME NEW S, NEW s \in Seq(S), s # <<>>, NEW n \in 0..Len(Tail(s))
  PROVE  /\ SubSeq(s, 1, n + 1) \in Seq(S) /\ SubSeq(s, 1, n + 1) # <<>>
         /\ Head(SubSeq(s, 1, n + 1)) = Head(s)
         /\ Tail(SubSeq(s, 1, n + 1)) = SubSeq(Tail(s), 1, n)
<1> DEFINE a == SubSeq(s, 1, n + 1)
           b == SubSeq(Tail(s), 1, n)
<1>1. Len(s) \in Nat /\ Len(s) >= 1 /\ Tail(s) \in Seq(S) /\ Len(Tail(s)) = Len(s) - 1
  OBVIOUS
<1>2. a \in Seq(S) /\ Len(a) = n + 1 /\ \A i \in 1..(n + 1) : a[i] = s[i]
  BY <1>1
<1>3. b \in Seq(S) /\ Len(b) = n /\ \A i \in 1..n : b[i] = s[i + 1]
  BY <1>1
<1> HIDE DEF a, b
<1>4. a # <<>> /\ Head(a) = Head(s)
  BY <1>1, <1>2
<1>5. Tail(a) \in Seq(S) /\ Len(Tail(a)) = n /\ \A i \in 1..n : Tail(a)[i] = a[i + 1]
  BY <1>2, <1>4
<1>6. \A i \in 1..n : Tail(a)[i] = b[i]
  BY <1>2, <1>3, <1>5
<1>7. Tail(a) = b
  BY <1>3, <1>5, <1>6
<1> QED BY <1>2, <1>4, <1>7 DEF a, b

(* Operations that are not all carried out stop at one of them, which sees *)
(* what those before it left.                                              *)
LEMMA DoAllStops ==
  ASSUME NEW S, NEW s \in Seq(S), NEW p, p.verdict = "ok", DoAll(p, s).verdict # "ok"
  PROVE  \E n \in 0..(Len(s) - 1) :
           /\ DoAll(p, SubSeq(s, 1, n)).verdict = "ok"
           /\ DoAll(p, s) = DoOne(DoAll(p, SubSeq(s, 1, n)), s[n + 1])
<1> DEFINE Stops(o, r, n) == /\ DoAll(o, SubSeq(r, 1, n)).verdict = "ok"
                             /\ DoAll(o, r) = DoOne(DoAll(o, SubSeq(r, 1, n)), r[n + 1])
           Goes(o, r) == o.verdict = "ok" /\ DoAll(o, r).verdict # "ok"
           T == {r \in Seq(S) : \A o : Goes(o, r) => \E n \in 0..(Len(r) - 1) : Stops(o, r, n)}
<1>1. <<>> \in T
  BY DoAllEmpty
<1>2. ASSUME NEW r \in Seq(S), r # <<>>, Tail(r) \in T
      PROVE  r \in T
  <2> SUFFICES ASSUME NEW o, Goes(o, r)
               PROVE  \E n \in 0..(Len(r) - 1) : Stops(o, r, n)
    OBVIOUS
  <2> DEFINE q == DoOne(o, Head(r))
  <2>1. DoAll(o, r) = DoAll(q, Tail(r))
    BY <1>2, DoAllNext
  <2>2. /\ Len(r) \in Nat /\ Len(r) >= 1 /\ Head(r) = r[1]
        /\ Tail(r) \in Seq(S) /\ Len(Tail(r)) = Len(r) - 1
        /\ \A i \in 1..Len(Tail(r)) : Tail(r)[i] = r[i + 1]
    BY <1>2
  <2>3. CASE q.verdict # "ok"
    <3>1. SubSeq(r, 1, 0) = <<>>
      BY <2>2
    <3>2. DoAll(o, SubSeq(r, 1, 0)) = o
      BY <3>1, DoAllEmpty
    <3>3. DoAll(o, r) = q
      <4> HIDE DEF q
      <4> QED BY <2>1, <2>2, <2>3, RefusedEnds
    <3>4. Stops(o, r, 0)
      BY <2>2, <3>2, <3>3
    <3>5. 0 \in 0..(Len(r) - 1)
      BY <2>2
    <3> HIDE DEF Stops
    <3> QED BY <3>4, <3>5
  <2>4. CASE q.verdict = "ok"
    <3>1. Goes(q, Tail(r))
      <4> HIDE DEF q
      <4> QED BY <2>1, <2>4
    <3>2. PICK n \in 0..(Len(Tail(r)) - 1) : Stops(q, Tail(r), n)
      <4> HIDE DEF Stops, Goes, q
      <4> QED BY <1>2, <3>1
    <3>3. n \in 0..Len(Tail(r)) /\ n + 1 \in 0..(Len(r) - 1) /\ n + 1 \in 1..Len(Tail(r))
      BY <2>2, <3>2
    <3>4. DoAll(o, SubSeq(r, 1, n + 1)) = DoAll(q, SubSeq(Tail(r), 1, n))
      <4> DEFINE first == SubSeq(r, 1, n + 1)
      <4>1. first \in Seq(S) /\ first # <<>> /\ Head(first) = Head(r) /\ Tail(first) = SubSeq(Tail(r), 1, n)
        BY <1>2, <3>3, FirstOfMore
      <4> HIDE DEF first
      <4>2. DoAll(o, first) = DoAll(DoOne(o, Head(first)), Tail(first))
        BY <4>1, DoAllNext
      <4> QED BY <4>1, <4>2 DEF first
    <3>5. Tail(r)[n + 1] = r[(n + 1) + 1]
      BY <2>2, <3>3
    <3>6. Stops(o, r, n + 1)
      <4> HIDE DEF q
      <4> QED BY <2>1, <3>2, <3>4, <3>5
    <3> HIDE DEF Stops
    <3> QED BY <3>3, <3>6
  <2> QED BY <2>3, <2>4
<1>3. Seq(S) \subseteq T
  <2> HIDE DEF T
  <2> QED BY <1>1, <1>2, SequenceInduction
<1> QED BY <1>3

(* A write that is refused leaves the state it found.                      *)
LEMMA RefusedWriteKeeps ==
  ASSUME NEW p, p.verdict = "ok", IsWrite(p), NEW op, DoOne(p, op).verdict # "ok"
  PROVE  /\ DoOne(p, op).db = p.db
         /\ DoOne(p, op).verdict = Verdict(SchemaOf[op.table], p.db[op.table], op)
<1> DEFINE v == Verdict(SchemaOf[op.table], p.db[op.table], op)
           new == [p.db EXCEPT ![op.table] = Apply(SchemaOf[op.table], @, op)]
<1>1. DoOne(p, op) = IF v # "ok" THEN Progress(p.type, p.db, p.items, v)
                     ELSE Progress(p.type, new, p.items, "ok")
  BY DEF DoOne, WriteOne
<1> HIDE DEF v, new
<1>2. v # "ok"
  BY <1>1 DEF Progress
<1>3. DoOne(p, op).db = p.db /\ DoOne(p, op).verdict = v
  BY <1>1, <1>2 DEF Progress
<1> QED BY <1>3 DEF v

===============================================================================
