---------------------------- MODULE Paging_proofs -----------------------------
(***************************************************************************)
(* A call that reads page by page, proved for every table, call and filter *)
(* and whatever others write: it keeps its limit, its items come in order  *)
(* and none twice, nothing that stays is skipped, and the state has its    *)
(* type.  The limit needs nothing of the pages but that they are pages.    *)
(*                                                                         *)
(* For the rest, in this order: sets of pairs that are orders; the strings *)
(* of keys, whose order is one because different keys have different       *)
(* strings; the places of the entries, compared component by component;    *)
(* a page, which is a beginning of the candidates of its request; the      *)
(* candidates, which begin after the place of the start key; and the       *)
(* invariant of the call, step by step.                                    *)
(***************************************************************************)
EXTENDS Paging, MemTable_proofs, FunctionTheorems, FiniteSetTheorems, TLAPS

-------------------------------------------------------------------------------
(* What is collected is a sequence.                                        *)
Collected == \E S : results \in Seq(S)

(* A call that is not over has not reached its limit, so that something    *)
(* remains to be asked for.                                                *)
BelowLimit ==
  Collects /\ call.limit > 0 /\ Running => Len(results) < call.limit

LimitInv == call \in Calls /\ Collected /\ BelowLimit /\ LimitKept

-------------------------------------------------------------------------------
(* The length of what is collected is a number.                            *)
LEMMA CollectedLength == Collected => Len(results) \in Nat
BY DEF Collected

(* An item more is collected.                                              *)
LEMMA CollectedGrows ==
  ASSUME Collected, NEW x, results' = Append(results, x)
  PROVE  Collected' /\ Len(results') = Len(results) + 1
<1>1. PICK S : results \in Seq(S)
  BY DEF Collected
<1>2. results \in Seq(S \cup {x})
  BY <1>1
<1>3. results' \in Seq(S \cup {x}) /\ Len(results') = Len(results) + 1
  BY <1>2
<1> QED BY <1>3 DEF Collected

(* A call begins with nothing.                                             *)
LEMMA LimitInit == Init => LimitInv
<1> SUFFICES ASSUME Init
             PROVE  LimitInv
  OBVIOUS
<1>1. results \in Seq({}) /\ Len(results) = 0
  BY DEF Init
<1>2. call.limit \in Int
  BY PagingAssumption DEF Init
<1> QED BY <1>1, <1>2 DEF Init, LimitInv, Collected, BelowLimit, LimitKept

(* A step that collects nothing and does not revive the call is harmless.  *)
LEMMA NothingCollected ==
  ASSUME LimitInv, UNCHANGED <<call, results>>, Running' => Running
  PROVE  LimitInv'
BY DEF LimitInv, Collected, BelowLimit, LimitKept, Collects

(* An error throws away what was collected.                                *)
LEMMA ErrorInv ==
  ASSUME LimitInv, ReturnError, UNCHANGED call
  PROVE  LimitInv'
<1>1. ~Running'
  BY DEF ReturnError, Return, Running
<1>2. CASE Collects
  <2>1. results' \in Seq({}) /\ Len(results') = 0 /\ call.limit \in Int
    BY <1>2, PagingAssumption DEF ReturnError, LimitInv
  <2> QED BY <1>1, <2>1 DEF LimitInv, Collected, BelowLimit, LimitKept
<1>3. CASE ~Collects
  BY <1>1, <1>3, NothingCollected DEF ReturnError
<1> QED BY <1>2, <1>3

(* The item that reaches the limit ends the call.                          *)
LEMMA TakeInv ==
  ASSUME LimitInv, Take
  PROVE  LimitInv'
<1>1. /\ results' = Append(results, Head(page)) /\ UNCHANGED call /\ pc = "items"
      /\ Collects => ~LimitReached(Len(results')) \/ pc' = "limit"
  BY DEF Take, Return
<1>2. Collected' /\ Len(results') = Len(results) + 1 /\ Len(results) \in Nat
  BY <1>1, CollectedGrows, CollectedLength DEF LimitInv
<1>3. call.limit \in Int /\ call \in Calls
  BY PagingAssumption DEF LimitInv
<1>4. Collects' <=> Collects
  BY <1>1 DEF Collects
<1>5. LimitKept'
  BY <1>1, <1>2, <1>3, <1>4 DEF LimitInv, LimitKept, BelowLimit, Running
<1>6. BelowLimit'
  BY <1>1, <1>2, <1>3, <1>4 DEF BelowLimit, LimitReached, Running
<1> QED BY <1>1, <1>2, <1>3, <1>5, <1>6 DEF LimitInv

(* Every step keeps this.                                                  *)
LEMMA LimitStep ==
  ASSUME LimitInv, [Next]_vars
  PROVE  LimitInv'
<1>1. CASE UNCHANGED vars
  BY <1>1, NothingCollected DEF vars, Running
<1>2. CASE PutItem \/ DeleteItem
  BY <1>2, NothingCollected DEF PutItem, DeleteItem, Change, Running
<1>3. CASE FetchFails
  BY <1>3, ErrorInv DEF FetchFails
<1>4. CASE Fetch
  BY <1>4, NothingCollected DEF Fetch, Running
<1>5. CASE Take
  BY <1>5, TakeInv
<1>6. CASE Undecodable
  BY <1>6, NothingCollected, ErrorInv DEF Undecodable, Running
<1>7. CASE EndPage
  BY <1>7, NothingCollected DEF EndPage, Return, Running
<1> QED BY <1>1, <1>2, <1>3, <1>4, <1>5, <1>6, <1>7 DEF Next, Step

(* A call that collects never returns more items than its limit: "the      *)
(* maximum number of items to return across all pages", of query.go:116    *)
(* and scan.go:34.  The iterators do not keep it.                          *)
THEOREM LimitIsKept == Spec => []LimitKept
<1>1. LimitInv /\ [Next]_vars => LimitInv'
  BY LimitStep
<1>2. LimitInv => LimitKept
  BY DEF LimitInv
<1> QED BY LimitInit, <1>1, <1>2, PTL DEF Spec

-------------------------------------------------------------------------------
(* Orders, as sets of pairs.                                               *)

IsOrder(S, order) ==
  /\ \A x \in S : <<x, x>> \notin order
  /\ \A x, y, z \in S : <<x, y>> \in order /\ <<y, z>> \in order => <<x, z>> \in order
  /\ \A x, y \in S : x = y \/ <<x, y>> \in order \/ <<y, x>> \in order

(* An order of a set is one of each part of it.                            *)
LEMMA PartIsOrdered ==
  ASSUME NEW S, NEW order, IsOrder(S, order), NEW T, T \subseteq S
  PROVE  IsOrder(T, order)
BY DEF IsOrder

(* As many elements come before x as there are, less x itself, at most.    *)
LEMMA PositionRange ==
  ASSUME NEW S, IsFiniteSet(S), NEW order, IsOrder(S, order), NEW x \in S
  PROVE  Cardinality(Preceding(S, order, x)) \in 0..(Cardinality(S) - 1)
<1> DEFINE P == Preceding(S, order, x)
<1>1. P \subseteq S \ {x}
  BY DEF Preceding, IsOrder
<1>2. IsFiniteSet(S \ {x}) /\ Cardinality(S \ {x}) = Cardinality(S) - 1
  BY FS_RemoveElement
<1>3. IsFiniteSet(P) /\ Cardinality(P) <= Cardinality(S \ {x})
  <2> HIDE DEF P
  <2> QED BY <1>1, <1>2, FS_Subset
<1>4. Cardinality(P) \in Nat /\ Cardinality(S) \in Nat
  BY <1>3, FS_CardinalityType
<1> QED BY <1>2, <1>3, <1>4

(* More come before what comes later.                                      *)
LEMMA PositionGrows ==
  ASSUME NEW S, IsFiniteSet(S), NEW order, IsOrder(S, order),
         NEW x \in S, NEW y \in S, <<x, y>> \in order
  PROVE  Cardinality(Preceding(S, order, x)) < Cardinality(Preceding(S, order, y))
<1> DEFINE P == Preceding(S, order, x)
           Q == Preceding(S, order, y)
<1>1. P \subseteq Q /\ x \in Q /\ x \notin P /\ Q \subseteq S
  BY DEF Preceding, IsOrder
<1> HIDE DEF P, Q
<1>2. IsFiniteSet(Q)
  BY <1>1, FS_Subset
<1>3. IsFiniteSet(P) /\ Cardinality(P) <= Cardinality(Q) /\ Cardinality(P) # Cardinality(Q)
  BY <1>1, <1>2, FS_Subset
<1>4. Cardinality(P) \in Nat /\ Cardinality(Q) \in Nat
  BY <1>2, <1>3, FS_CardinalityType
<1>5. Cardinality(P) < Cardinality(Q)
  BY <1>3, <1>4
<1> QED BY <1>5 DEF P, Q

(* Every position is somebody's, and nobody shares it.                     *)
LEMMA PositionTaken ==
  ASSUME NEW S, IsFiniteSet(S), NEW order, IsOrder(S, order),
         NEW i \in 0..(Cardinality(S) - 1)
  PROVE  \E x \in S : Cardinality(Preceding(S, order, x)) = i
<1> DEFINE n == Cardinality(S)
           f == [x \in S |-> Cardinality(Preceding(S, order, x))]
<1>1. n \in Nat
  BY FS_CardinalityType
<1>2. f \in [S -> 0..(n - 1)]
  BY PositionRange
<1>3. \A x, y \in S : f[x] = f[y] => x = y
  <2> SUFFICES ASSUME NEW x \in S, NEW y \in S, x # y
               PROVE  f[x] # f[y]
    OBVIOUS
  <2>1. f[x] \in Int /\ f[y] \in Int
    BY <1>1, <1>2
  <2>2. <<x, y>> \in order \/ <<y, x>> \in order
    BY DEF IsOrder
  <2>3. f[x] < f[y] \/ f[y] < f[x]
    BY <2>2, PositionGrows
  <2> QED BY <2>1, <2>3
<1>4. IsFiniteSet(0..(n - 1)) /\ Cardinality(0..(n - 1)) = n
  <2>1. 0 \in Int /\ n - 1 \in Int
    BY <1>1
  <2>2. Cardinality(0..(n - 1)) = IF 0 > n - 1 THEN 0 ELSE (n - 1) - 0 + 1
    BY <2>1, FS_Interval
  <2> QED BY <1>1, <2>1, <2>2, FS_Interval
<1>5. i \in 0..(n - 1)
  OBVIOUS
<1>6. \A x \in S : f[x] = Cardinality(Preceding(S, order, x))
  OBVIOUS
<1> HIDE DEF n, f
<1>7. f \in Injection(S, 0..(n - 1))
  BY <1>2, <1>3 DEF Injection, IsInjective
<1>8. Cardinality(S) = Cardinality(0..(n - 1))
  BY <1>4 DEF n
<1>9. f \in Surjection(S, 0..(n - 1))
  BY <1>4, <1>7, <1>8, FS_Injection
<1>10. PICK x \in S : f[x] = i
  BY <1>5, <1>9 DEF Surjection
<1> QED BY <1>6, <1>10

(* A set in its order: all of its elements, each after those before it.    *)
LEMMA InOrderOfSet ==
  ASSUME NEW S, IsFiniteSet(S), NEW order, IsOrder(S, order)
  PROVE  LET s == InOrderOf(S, order)
         IN  /\ s \in Seq(S)
             /\ \A x \in S : \E i \in DOMAIN s : s[i] = x
             /\ \A i, j \in DOMAIN s : i < j => <<s[i], s[j]>> \in order
<1> DEFINE n == Cardinality(S)
           s == InOrderOf(S, order)
           at == [x \in S |-> Cardinality(Preceding(S, order, x))]
<1>1. n \in Nat
  BY FS_CardinalityType
<1>2. s = [i \in 1..n |-> CHOOSE x \in S : at[x] = i - 1]
  BY DEF InOrderOf
<1>3. \A i \in 1..n : \E x \in S : at[x] = i - 1
  <2> TAKE i \in 1..n
  <2>1. i - 1 \in 0..(n - 1)
    BY <1>1
  <2> QED BY <2>1, PositionTaken
<1>4. \A x \in S : at[x] \in 0..(n - 1)
  BY PositionRange
<1>5. \A x, y \in S : <<x, y>> \in order => at[x] < at[y]
  BY PositionGrows
<1>6. \A x, y \in S : x = y \/ <<x, y>> \in order \/ <<y, x>> \in order
  BY DEF IsOrder
<1> HIDE DEF n, s, at
<1>7. \A i \in 1..n : s[i] \in S /\ at[s[i]] = i - 1
  <2> TAKE i \in 1..n
  <2>1. s[i] = CHOOSE x \in S : at[x] = i - 1
    BY <1>2
  <2> QED BY <1>3, <2>1
<1>8. s \in Seq(S) /\ DOMAIN s = 1..n
  <2>1. DOMAIN s = 1..n /\ s \in [1..n -> S]
    BY <1>2, <1>7
  <2> QED BY <1>1, <2>1
<1>9. \A x, y \in S : at[x] = at[y] => x = y
  <2> SUFFICES ASSUME NEW x \in S, NEW y \in S, x # y
               PROVE  at[x] # at[y]
    OBVIOUS
  <2>1. at[x] \in Int /\ at[y] \in Int
    BY <1>1, <1>4
  <2>2. at[x] < at[y] \/ at[y] < at[x]
    BY <1>5, <1>6
  <2> QED BY <2>1, <2>2
<1>10. \A x \in S : \E i \in DOMAIN s : s[i] = x
  <2> TAKE x \in S
  <2>1. at[x] + 1 \in 1..n /\ at[x] \in Int
    BY <1>1, <1>4
  <2>2. s[at[x] + 1] = x
    BY <1>7, <1>9, <2>1
  <2> QED BY <1>8, <2>1, <2>2
<1>11. \A i, j \in DOMAIN s : i < j => <<s[i], s[j]>> \in order
  <2> SUFFICES ASSUME NEW i \in 1..n, NEW j \in 1..n, i < j
               PROVE  <<s[i], s[j]>> \in order
    BY <1>8
  <2>1. /\ s[i] \in S /\ at[s[i]] = i - 1
        /\ s[j] \in S /\ at[s[j]] = j - 1
    BY <1>7
  <2>2. s[i] # s[j] /\ ~(at[s[j]] < at[s[i]])
    BY <1>1, <2>1
  <2> QED BY <1>5, <1>6, <2>1, <2>2
<1> QED BY <1>8, <1>10, <1>11 DEF s

(* The first n: with an element come those before it.                      *)
LEMMA FirstOfSet ==
  ASSUME NEW S, IsFiniteSet(S), NEW order, IsOrder(S, order), NEW n \in Nat
  PROVE  LET T == FirstOf(S, order, n)
         IN  /\ T \subseteq S /\ IsFiniteSet(T)
             /\ \A x \in T, y \in S : <<y, x>> \in order => y \in T
             /\ n > 0 /\ S # {} => T # {}
             /\ n >= Cardinality(S) => T = S
<1> DEFINE T == FirstOf(S, order, n)
           at(x) == Cardinality(Preceding(S, order, x))
<1>1. T = {x \in S : at(x) < n}
  BY DEF FirstOf
<1>2. \A x \in S : at(x) \in 0..(Cardinality(S) - 1)
  BY PositionRange
<1>3. \A x, y \in S : <<x, y>> \in order => at(x) < at(y)
  BY PositionGrows
<1>4. Cardinality(S) \in Nat /\ (S # {} => Cardinality(S) # 0)
  BY FS_CardinalityType, FS_EmptySet
<1>5. S # {} => \E x \in S : at(x) = 0
  <2> HAVE S # {}
  <2>1. 0 \in 0..(Cardinality(S) - 1)
    BY <1>4
  <2> QED BY <2>1, PositionTaken
<1> HIDE DEF T, at
<1>6. T \subseteq S /\ IsFiniteSet(T)
  BY <1>1, FS_Subset
<1>7. ASSUME NEW x \in T, NEW y \in S, <<y, x>> \in order
      PROVE  y \in T
  BY <1>1, <1>2, <1>3, <1>4, <1>7
<1>8. n > 0 /\ S # {} => T # {}
  BY <1>1, <1>5
<1>9. n >= Cardinality(S) => T = S
  BY <1>1, <1>2, <1>4
<1> QED BY <1>6, <1>7, <1>8, <1>9 DEF T

(* The last one comes after all others.                                    *)
LEMMA LastOfSet ==
  ASSUME NEW S, IsFiniteSet(S), S # {}, NEW order, IsOrder(S, order)
  PROVE  /\ LastOf(S, order) \in S
         /\ \A y \in S : y = LastOf(S, order) \/ <<y, LastOf(S, order)>> \in order
<1> DEFINE at(x) == Cardinality(Preceding(S, order, x))
<1>1. Cardinality(S) \in Nat /\ Cardinality(S) # 0
  BY FS_CardinalityType, FS_EmptySet
<1>2. Cardinality(S) - 1 \in 0..(Cardinality(S) - 1)
  BY <1>1
<1>3. PICK x \in S : at(x) = Cardinality(S) - 1
  BY <1>2, PositionTaken
<1>4. \A y \in S : <<x, y>> \notin order
  <2> SUFFICES ASSUME NEW y \in S, <<x, y>> \in order
               PROVE  FALSE
    OBVIOUS
  <2>1. at(x) < at(y) /\ at(y) \in 0..(Cardinality(S) - 1)
    BY PositionGrows, PositionRange
  <2> QED BY <1>1, <1>3, <2>1
<1>5. /\ LastOf(S, order) \in S
      /\ \A y \in S : <<LastOf(S, order), y>> \notin order
  BY <1>4 DEF LastOf
<1> QED BY <1>5 DEF IsOrder

-------------------------------------------------------------------------------
(* The order of strings, and the strings of keys.                          *)

(* The place where the smaller of two strings differs from the other, or   *)
(* where it ends.                                                          *)
LessAt(s, t, i) ==
  /\ i <= Len(s) + 1
  /\ \A j \in 1..(i - 1) : s[j] = t[j]
  /\ i = Len(s) + 1 \/ s[i] < t[i]

(* A string is smaller exactly if there is such a place.                   *)
LEMMA SeqLessPlace ==
  ASSUME NEW s \in Seq(Int), NEW t \in Seq(Int)
  PROVE  SeqLess(s, t) <=> \E i \in 1..Len(t) : LessAt(s, t, i)
<1>1. Len(s) \in Nat /\ Len(t) \in Nat /\ DOMAIN s = 1..Len(s) /\ DOMAIN t = 1..Len(t)
  OBVIOUS
<1>2. IsPrefix(s, t) <=> Len(s) <= Len(t) /\ \A j \in 1..Len(s) : s[j] = t[j]
  <2>1. CASE Len(s) <= Len(t)
    <3>1. /\ SubSeq(s, 1, Len(s)) = [j \in 1..Len(s) |-> s[j]]
          /\ SubSeq(t, 1, Len(s)) = [j \in 1..Len(s) |-> t[j]]
      BY <1>1, <2>1
    <3> QED BY <2>1, <3>1 DEF IsPrefix
  <2>2. CASE ~(Len(s) <= Len(t))
    BY <2>2 DEF IsPrefix
  <2> QED BY <2>1, <2>2
<1>3. Len(s) = Len(t) /\ (\A j \in 1..Len(s) : s[j] = t[j]) => s = t
  OBVIOUS
<1>4. IsStrictPrefix(s, t) <=> Len(s) < Len(t) /\ \A j \in 1..Len(s) : s[j] = t[j]
  <2>1. IsStrictPrefix(s, t) <=> IsPrefix(s, t) /\ s # t
    BY DEF IsStrictPrefix
  <2>3. CASE Len(s) = Len(t)
    BY <1>2, <1>3, <2>1, <2>3
  <2>4. CASE Len(s) # Len(t)
    <3>1. s # t
      BY <2>4, Zenon
    <3>2. \A m, n \in Nat : m # n => (m <= n <=> m < n)
      OBVIOUS
    <3>3. Len(s) <= Len(t) <=> Len(s) < Len(t)
      BY <1>1, <2>4, <3>2, Zenon
    <3> QED BY <1>2, <2>1, <3>1, <3>3, Zenon
  <2> QED BY <2>3, <2>4
<1>5. IsStrictPrefix(s, t) => \E i \in 1..Len(t) : LessAt(s, t, i)
  <2> HAVE IsStrictPrefix(s, t)
  <2>1. Len(s) + 1 \in 1..Len(t) /\ LessAt(s, t, Len(s) + 1)
    BY <1>1, <1>4 DEF LessAt
  <2> QED BY <2>1
<1>6. ASSUME NEW i \in 1..Len(t), LessAt(s, t, i)
      PROVE  SeqLess(s, t)
  <2>1. CASE i = Len(s) + 1
    BY <1>1, <1>4, <1>6, <2>1 DEF LessAt, SeqLess
  <2>2. CASE i # Len(s) + 1
    <3>1. i \in DOMAIN s \cap DOMAIN t /\ s[i] < t[i] /\ \A j \in 1..(i - 1) : s[j] = t[j]
      BY <1>1, <1>6, <2>2 DEF LessAt
    <3> QED BY <3>1 DEF SeqLess
  <2> QED BY <2>1, <2>2
<1>7. ASSUME SeqLess(s, t), ~IsStrictPrefix(s, t)
      PROVE  \E i \in 1..Len(t) : LessAt(s, t, i)
  <2>1. PICK i \in DOMAIN s \cap DOMAIN t :
               s[i] < t[i] /\ \A j \in 1..(i - 1) : s[j] = t[j]
    BY <1>7 DEF SeqLess
  <2>2. i \in 1..Len(t) /\ LessAt(s, t, i)
    BY <1>1, <2>1 DEF LessAt
  <2> QED BY <2>2
<1> QED BY <1>5, <1>6, <1>7

(* Nothing comes before itself.                                            *)
LEMMA SeqLessIrreflexive ==
  ASSUME NEW s \in Seq(Int)
  PROVE  ~SeqLess(s, s)
<1> SUFFICES ASSUME NEW i \in 1..Len(s), LessAt(s, s, i)
             PROVE  FALSE
  BY SeqLessPlace
<1>1. Len(s) \in Nat /\ s[i] \in Int
  OBVIOUS
<1> QED BY <1>1 DEF LessAt

(* What comes before something comes before all that comes later.          *)
LEMMA SeqLessTransitive ==
  ASSUME NEW s \in Seq(Int), NEW t \in Seq(Int), NEW u \in Seq(Int),
         SeqLess(s, t), SeqLess(t, u)
  PROVE  SeqLess(s, u)
<1>1. PICK i \in 1..Len(t) : LessAt(s, t, i)
  BY SeqLessPlace
<1>2. PICK j \in 1..Len(u) : LessAt(t, u, j)
  BY SeqLessPlace
<1>3. /\ Len(s) \in Nat /\ Len(t) \in Nat /\ Len(u) \in Nat
      /\ \A k \in 1..Len(s) : s[k] \in Int
      /\ \A k \in 1..Len(t) : t[k] \in Int
      /\ \A k \in 1..Len(u) : u[k] \in Int
  OBVIOUS
<1>4. CASE i < j
  <2>1. i \in 1..Len(u) /\ t[i] = u[i]
    BY <1>2, <1>3, <1>4 DEF LessAt
  <2>2. LessAt(s, u, i)
    BY <1>1, <1>2, <1>3, <1>4, <2>1 DEF LessAt
  <2> QED BY <2>1, <2>2, SeqLessPlace
<1>5. CASE i = j
  <2>1. t[i] < u[i]
    BY <1>2, <1>3, <1>5 DEF LessAt
  <2>2. LessAt(s, u, i)
    <3>1. i = Len(s) + 1 \/ s[i] < u[i]
      <4>1. CASE i = Len(s) + 1
        BY <4>1
      <4>2. CASE i # Len(s) + 1
        <5>1. i \in 1..Len(s) /\ i \in 1..Len(u) /\ s[i] < t[i]
          BY <1>1, <1>3, <1>5, <4>2 DEF LessAt
        <5>2. s[i] \in Int /\ t[i] \in Int /\ u[i] \in Int
          BY <1>3, <5>1
        <5> QED BY <2>1, <5>1, <5>2
      <4> QED BY <4>1, <4>2
    <3> QED BY <1>1, <1>2, <1>3, <1>5, <3>1 DEF LessAt
  <2> QED BY <1>5, <2>2, SeqLessPlace
<1>6. CASE j < i
  <2>1. j \in 1..Len(s) /\ s[j] = t[j] /\ j # Len(t) + 1
    <3>1. j \in 1..(i - 1) /\ i <= Len(s) + 1 /\ i <= Len(t)
      BY <1>1, <1>3, <1>6 DEF LessAt
    <3>2. s[j] = t[j]
      BY <1>1, <3>1 DEF LessAt
    <3> QED BY <1>3, <3>1, <3>2
  <2>2. t[j] < u[j] /\ \A k \in 1..(j - 1) : s[k] = t[k] /\ t[k] = u[k]
    <3>1. \A k \in 1..(j - 1) : k \in 1..(i - 1)
      BY <1>3, <1>6
    <3> QED BY <1>1, <1>2, <2>1, <3>1 DEF LessAt
  <2>3. s[j] < u[j] /\ \A k \in 1..(j - 1) : s[k] = u[k]
    BY <2>1, <2>2
  <2>4. LessAt(s, u, j)
    BY <1>2, <1>3, <2>1, <2>3, SMTT(20) DEF LessAt
  <2> QED BY <2>4, SeqLessPlace
<1> QED BY <1>4, <1>5, <1>6

(* Of two different strings one comes before the other.                    *)
LEMMA SeqLessTotal ==
  ASSUME NEW s \in Seq(Int), NEW t \in Seq(Int), s # t
  PROVE  SeqLess(s, t) \/ SeqLess(t, s)
<1> DEFINE differ(i) == \/ i = Len(s) + 1 \/ i = Len(t) + 1
                        \/ i \in 1..Len(s) /\ i \in 1..Len(t) /\ s[i] # t[i]
           D == {i \in Nat \ {0} : differ(i)}
<1>1. Len(s) \in Nat /\ Len(t) \in Nat
  OBVIOUS
<1>2. D \subseteq Nat /\ Len(s) + 1 \in D
  BY <1>1
<1>3. PICK i \in D : \A k \in D : i <= k
  <2> HIDE DEF D
  <2> QED BY <1>2, SmallestOf
<1>4. i \in Nat \ {0} /\ i <= Len(s) + 1 /\ i <= Len(t) + 1
  BY <1>1, <1>3
<1>5. \A j \in 1..(i - 1) : s[j] = t[j]
  <2> SUFFICES ASSUME NEW j \in 1..(i - 1), s[j] # t[j]
               PROVE  FALSE
    OBVIOUS
  <2>1. j \in D /\ j < i
    BY <1>1, <1>4
  <2> QED BY <1>3, <1>4, <2>1
<1>6. CASE i = Len(s) + 1 /\ i = Len(t) + 1
  <2>1. Len(s) = Len(t) /\ \A j \in 1..Len(s) : s[j] = t[j]
    BY <1>1, <1>5, <1>6
  <2> QED BY <2>1
<1>7. CASE i = Len(s) + 1 /\ i # Len(t) + 1
  <2>1. i \in 1..Len(t)
    BY <1>1, <1>4, <1>7
  <2>2. LessAt(s, t, i)
    BY <1>5, <1>7 DEF LessAt
  <2> QED BY <2>1, <2>2, SeqLessPlace
<1>8. CASE i # Len(s) + 1 /\ i = Len(t) + 1
  <2>1. i \in 1..Len(s)
    BY <1>1, <1>4, <1>8
  <2>2. LessAt(t, s, i)
    BY <1>5, <1>8 DEF LessAt
  <2> QED BY <2>1, <2>2, SeqLessPlace
<1>9. CASE i # Len(s) + 1 /\ i # Len(t) + 1
  <2>1. i \in 1..Len(s) /\ i \in 1..Len(t) /\ s[i] # t[i]
    BY <1>3, <1>9
  <2>2. s[i] \in Int /\ t[i] \in Int
    BY <2>1
  <2>3. CASE s[i] < t[i]
    <3>1. LessAt(s, t, i)
      BY <1>1, <1>4, <1>5, <2>3 DEF LessAt
    <3> QED BY <2>1, <3>1, SeqLessPlace
  <2>4. CASE t[i] < s[i]
    <3>1. LessAt(t, s, i)
      BY <1>1, <1>4, <1>5, <2>4 DEF LessAt
    <3> QED BY <2>1, <3>1, SeqLessPlace
  <2> QED BY <2>1, <2>2, <2>3, <2>4
<1> QED BY <1>6, <1>7, <1>8, <1>9

(* A tenth of a number is smaller.                                         *)
LEMMA Tenth ==
  ASSUME NEW n \in Nat, n >= 10
  PROVE  n \div 10 \in Nat /\ n \div 10 < n
OBVIOUS

(* A number is told by its tenth and its last digit.                       *)
LEMMA TenthAndDigit ==
  ASSUME NEW m \in Nat, NEW n \in Nat, m \div 10 = n \div 10, m % 10 = n % 10
  PROVE  m = n
OBVIOUS

MoreDigits(front, n) == IF n < 10 THEN <<n>> ELSE front \o <<n % 10>>

(* The digits of the numbers up to m, as a function.                       *)
DigitsUpTo(g, m) == g = [n \in 0..m |-> MoreDigits(g[n \div 10], n)]

(* There is one such function for each m, and they agree.                  *)
LEMMA DigitsAgree ==
  ASSUME NEW l \in Nat, NEW g, DigitsUpTo(g, l), NEW m \in Nat, NEW h, DigitsUpTo(h, m)
  PROVE  \A n \in Nat : n <= l /\ n <= m => g[n] = h[n]
<1> DEFINE T == {j \in Nat : \A n \in 0..j : n <= l /\ n <= m => g[n] = h[n]}
<1>1. \A n \in Nat : /\ n <= l => g[n] = MoreDigits(g[n \div 10], n)
                     /\ n <= m => h[n] = MoreDigits(h[n \div 10], n)
  <2> TAKE n \in Nat
  <2>1. ASSUME n <= l
        PROVE  g[n] = MoreDigits(g[n \div 10], n)
    <3>1. n \in 0..l
      BY <2>1
    <3> QED BY <3>1, Zenon DEF DigitsUpTo
  <2>2. ASSUME n <= m
        PROVE  h[n] = MoreDigits(h[n \div 10], n)
    <3>1. n \in 0..m
      BY <2>2
    <3> QED BY <3>1, Zenon DEF DigitsUpTo
  <2> QED BY <2>1, <2>2
<1>2. 0 \in T
  <2>1. \A x : MoreDigits(x, 0) = <<0>>
    BY DEF MoreDigits
  <2>2. g[0] = <<0>> /\ h[0] = <<0>>
    BY <1>1, <2>1
  <2>3. \A n \in 0..0 : n = 0
    OBVIOUS
  <2> QED BY <2>2, <2>3
<1>3. ASSUME NEW j \in Nat, j \in T
      PROVE  j + 1 \in T
  <2> SUFFICES ASSUME NEW n \in 0..(j + 1), n <= l, n <= m
               PROVE  g[n] = h[n]
    OBVIOUS
  <2>1. CASE n <= j
    BY <1>3, <2>1
  <2>2. CASE n > j /\ n < 10
    <3>1. \A x : MoreDigits(x, n) = <<n>>
      BY <2>2 DEF MoreDigits
    <3> QED BY <1>1, <3>1
  <2>3. CASE n > j /\ n >= 10
    <3>1. n \in Nat /\ n \div 10 \in Nat /\ n \div 10 < n
      BY <2>3, Tenth
    <3>2. n \div 10 \in 0..j /\ n \div 10 <= l /\ n \div 10 <= m
      BY <3>1
    <3>3. g[n \div 10] = h[n \div 10]
      BY <1>3, <3>2
    <3> QED BY <1>1, <3>1, <3>3
  <2> QED BY <2>1, <2>2, <2>3
<1> HIDE DEF T
<1>4. Nat \subseteq T
  BY <1>2, <1>3, SetInduction
<1> QED BY <1>4 DEF T

(* There is a table of the digits up to any number.                        *)
LEMMA DigitsExist ==
  ASSUME NEW m \in Nat
  PROVE  \E g : DigitsUpTo(g, m)
<1> DEFINE T == {j \in Nat : \E g : DigitsUpTo(g, j)}
<1>1. 0 \in T
  <2> DEFINE g == [n \in 0..0 |-> <<0>>]
  <2>1. \A n \in 0..0 : MoreDigits(g[n \div 10], n) = <<0>>
    BY DEF MoreDigits
  <2>2. DigitsUpTo(g, 0)
    BY <2>1 DEF DigitsUpTo
  <2> QED BY <2>2
<1>2. ASSUME NEW j \in Nat, j \in T
      PROVE  j + 1 \in T
  <2>1. PICK g : DigitsUpTo(g, j)
    BY <1>2
  <2> DEFINE h == [n \in 0..(j + 1) |-> IF n <= j THEN g[n] ELSE MoreDigits(g[n \div 10], n)]
  <2>2. ASSUME NEW n \in 0..(j + 1)
        PROVE  h[n] = MoreDigits(h[n \div 10], n)
    <3>1. h[n] = MoreDigits(g[n \div 10], n)
      <4>1. CASE n <= j
        <5>1. n \in 0..j
          BY <4>1
        <5>2. g[n] = MoreDigits(g[n \div 10], n)
          BY <2>1, <5>1, Zenon DEF DigitsUpTo
        <5> QED BY <4>1, <5>2
      <4>2. CASE ~(n <= j)
        BY <4>2
      <4> QED BY <4>1, <4>2
    <3>2. CASE n < 10
      BY <3>1, <3>2 DEF MoreDigits
    <3>3. CASE n >= 10
      <4>1. n \div 10 \in 0..j
        BY <3>3, Tenth
      <4>2. h[n \div 10] = g[n \div 10]
        BY <4>1
      <4> QED BY <3>1, <4>2
    <3> QED BY <3>2, <3>3
  <2>3. DigitsUpTo(h, j + 1)
    <3>1. DOMAIN h = 0..(j + 1) /\ h = [n \in 0..(j + 1) |-> h[n]]
      OBVIOUS
    <3> HIDE DEF h
    <3> QED BY <2>2, <3>1, Zenon DEF DigitsUpTo
  <2> HIDE DEF h
  <2> QED BY <2>3
<1> HIDE DEF T
<1>3. Nat \subseteq T
  BY <1>1, <1>2, SetInduction
<1> QED BY <1>3 DEF T

(* The recursion by which NatDigits is defined holds of it.                *)
LEMMA NatDigitsDefined ==
  ASSUME NEW n \in Nat
  PROVE  NatDigits[n] = MoreDigits(NatDigits[n \div 10], n)
<1> DEFINE digits(m) == CHOOSE g : DigitsUpTo(g, m)
           f == [m \in Nat |-> digits(m)[m]]
<1>1. \A m \in Nat : DigitsUpTo(digits(m), m)
  BY DigitsExist
<1>2. \A m \in Nat : f[m] = MoreDigits(f[m \div 10], m)
  <2> TAKE m \in Nat
  <2>1. f[m] = MoreDigits(digits(m)[m \div 10], m)
    <3>1. m \in 0..m
      OBVIOUS
    <3>2. digits(m)[m] = MoreDigits(digits(m)[m \div 10], m)
      <4> HIDE DEF digits, f
      <4> QED BY <1>1, <3>1, Zenon DEF DigitsUpTo
    <3> QED BY <3>2
  <2>2. CASE m < 10
    <3> HIDE DEF f, digits
    <3> QED BY <2>1, <2>2 DEF MoreDigits
  <2>3. CASE m >= 10
    <3>1. m \div 10 \in Nat /\ m \div 10 < m
      BY <2>3, Tenth
    <3>2. f[m \div 10] = digits(m \div 10)[m \div 10]
      BY <3>1
    <3>3. digits(m \div 10)[m \div 10] = digits(m)[m \div 10]
      <4> HIDE DEF digits
      <4>1. m \div 10 <= m \div 10 /\ m \div 10 <= m
        BY <3>1
      <4>2. DigitsUpTo(digits(m \div 10), m \div 10) /\ DigitsUpTo(digits(m), m)
        BY <1>1, <3>1
      <4> QED BY <3>1, <4>1, <4>2, DigitsAgree
    <3> QED BY <2>1, <3>2, <3>3
  <2> QED BY <2>2, <2>3
<1>3. f = [m \in Nat |-> IF m < 10 THEN <<m>> ELSE f[m \div 10] \o <<m % 10>>]
  <2>1. f = [m \in Nat |-> f[m]]
    OBVIOUS
  <2> HIDE DEF f
  <2> QED BY <1>2, <2>1, Zenon DEF MoreDigits
<1> HIDE DEF f
<1>4. NatDigits = [m \in Nat |-> IF m < 10 THEN <<m>> ELSE NatDigits[m \div 10] \o <<m % 10>>]
  BY <1>3, Zenon DEF NatDigits
<1> QED BY <1>4, Zenon DEF MoreDigits

(* The two cases of the recursion.                                         *)
LEMMA NatDigitsShort ==
  ASSUME NEW n \in Nat, n < 10
  PROVE  NatDigits[n] = <<n>>
<1>1. \A x : MoreDigits(x, n) = <<n>>
  BY DEF MoreDigits
<1> QED BY <1>1, NatDigitsDefined

(* The digits of a longer number: those of a tenth of it, and the last.    *)
LEMMA NatDigitsLong ==
  ASSUME NEW n \in Nat, n >= 10
  PROVE  NatDigits[n] = NatDigits[n \div 10] \o <<n % 10>>
<1>1. ~(n < 10)
  OBVIOUS
<1>2. \A x : MoreDigits(x, n) = x \o <<n % 10>>
  BY <1>1, Zenon DEF MoreDigits
<1> QED BY <1>2, NatDigitsDefined, Zenon

(* Sequences are equal if their elements are.                              *)
LEMMA SameSequence ==
  ASSUME NEW s \in Seq(Nat), NEW t \in Seq(Nat), Len(s) = Len(t),
         \A i \in 1..Len(s) : s[i] = t[i]
  PROVE  s = t
OBVIOUS

(* What a sequence with one more element is made of.                       *)
LEMMA OneMore ==
  ASSUME NEW s \in Seq(Nat), NEW t \in Seq(Nat), NEW d \in Nat, NEW e \in Nat,
         s \o <<d>> = t \o <<e>>
  PROVE  s = t /\ d = e
<1>1. /\ Len(s \o <<d>>) = Len(s) + 1 /\ (s \o <<d>>)[Len(s) + 1] = d
      /\ \A i \in 1..Len(s) : (s \o <<d>>)[i] = s[i]
  OBVIOUS
<1>2. /\ Len(t \o <<e>>) = Len(t) + 1 /\ (t \o <<e>>)[Len(t) + 1] = e
      /\ \A i \in 1..Len(t) : (t \o <<e>>)[i] = t[i]
  OBVIOUS
<1>3. Len(s) \in Nat /\ Len(t) \in Nat
  OBVIOUS
<1>4. Len(s) = Len(t)
  <2>1. Len(s) + 1 = Len(t) + 1
    BY <1>1, <1>2, Zenon
  <2>2. \A m, n \in Nat : m + 1 = n + 1 => m = n
    OBVIOUS
  <2> QED BY <1>3, <2>1, <2>2, Zenon
<1>5. d = e
  BY <1>1, <1>2, <1>4, Zenon
<1>6. \A i \in 1..Len(s) : s[i] = t[i]
  BY <1>1, <1>2, <1>4, Zenon
<1>7. s = t
  BY <1>4, <1>6, SameSequence
<1> QED BY <1>5, <1>7

(* A number of several digits is none of one digit.                        *)
LEMMA OneMoreIsLonger ==
  ASSUME NEW s \in Seq(Nat), s # <<>>, NEW d \in Nat, NEW e \in Nat
  PROVE  s \o <<d>> # <<e>>
<1>1. Len(s \o <<d>>) = Len(s) + 1 /\ Len(<<e>>) = 1 /\ Len(s) # 0
  OBVIOUS
<1> QED BY <1>1

(* A number has digits, and no other number has the same.                  *)
LEMMA NatDigitsType ==
  ASSUME NEW n \in Nat
  PROVE  NatDigits[n] \in Seq(Nat) /\ NatDigits[n] # <<>>
<1> DEFINE T == {m \in Nat : \A k \in 0..m : NatDigits[k] \in Seq(Nat) /\ NatDigits[k] # <<>>}
<1>1. ASSUME NEW k \in Nat, k < 10
      PROVE  NatDigits[k] \in Seq(Nat) /\ NatDigits[k] # <<>>
  <2>1. NatDigits[k] = <<k>>
    BY <1>1, NatDigitsShort
  <2> QED BY <2>1
<1>2. 0 \in T
  <2>1. \A k \in 0..0 : k \in Nat /\ k < 10
    OBVIOUS
  <2> QED BY <1>1, <2>1
<1>3. ASSUME NEW m \in Nat, m \in T
      PROVE  m + 1 \in T
  <2> SUFFICES ASSUME NEW k \in 0..(m + 1), k >= 10
               PROVE  NatDigits[k] \in Seq(Nat) /\ NatDigits[k] # <<>>
    BY <1>1
  <2>1. k \in Nat /\ k \div 10 \in 0..m /\ k % 10 \in Nat
    BY Tenth
  <2>2. NatDigits[k \div 10] \in Seq(Nat)
    BY <1>3, <2>1
  <2>3. NatDigits[k] = NatDigits[k \div 10] \o <<k % 10>>
    BY <2>1, NatDigitsLong
  <2>4. \A s \in Seq(Nat), d \in Nat : s \o <<d>> \in Seq(Nat) /\ s \o <<d>> # <<>>
    OBVIOUS
  <2> QED BY <2>1, <2>2, <2>3, <2>4
<1> HIDE DEF T
<1>4. Nat \subseteq T
  BY <1>2, <1>3, SetInduction
<1>5. n \in 0..n
  OBVIOUS
<1> QED BY <1>4, <1>5 DEF T

(* No two numbers have the same digits.                                    *)
LEMMA NatDigitsDiffer ==
  ASSUME NEW m \in Nat, NEW n \in Nat, NatDigits[m] = NatDigits[n]
  PROVE  m = n
<1> DEFINE T == {i \in Nat : \A j \in 0..i, k \in 0..i : NatDigits[j] = NatDigits[k] => j = k}
<1>1. 0 \in T
  OBVIOUS
<1>2. ASSUME NEW i \in Nat, i \in T
      PROVE  i + 1 \in T
  <2> SUFFICES ASSUME NEW j \in 0..(i + 1), NEW k \in 0..(i + 1), NatDigits[j] = NatDigits[k]
               PROVE  j = k
    OBVIOUS
  <2>1. CASE j < 10 /\ k < 10
    <3>1. <<j>> = <<k>>
      BY <2>1, NatDigitsShort
    <3> QED BY <3>1
  <2>2. ASSUME NEW p \in Nat, NEW q \in Nat, p < 10, q >= 10, NatDigits[p] = NatDigits[q]
        PROVE  FALSE
    <3>1. q \div 10 \in Nat /\ q % 10 \in Nat
      BY <2>2
    <3>2. NatDigits[q \div 10] \in Seq(Nat) /\ NatDigits[q \div 10] # <<>>
      BY <3>1, NatDigitsType
    <3>3. NatDigits[p] = <<p>> /\ NatDigits[q] = NatDigits[q \div 10] \o <<q % 10>>
      BY <2>2, NatDigitsShort, NatDigitsLong
    <3>4. NatDigits[q \div 10] \o <<q % 10>> # <<p>>
      BY <3>1, <3>2, OneMoreIsLonger
    <3> QED BY <2>2, <3>3, <3>4, Zenon
  <2>3. CASE j >= 10 /\ k >= 10
    <3>1. /\ j \div 10 \in 0..i /\ j % 10 \in Nat
          /\ k \div 10 \in 0..i /\ k % 10 \in Nat
      BY <2>3, Tenth
    <3>2. NatDigits[j \div 10] \in Seq(Nat) /\ NatDigits[k \div 10] \in Seq(Nat)
      BY <3>1, NatDigitsType
    <3>3. NatDigits[j \div 10] \o <<j % 10>> = NatDigits[k \div 10] \o <<k % 10>>
      <4>1. /\ NatDigits[j] = NatDigits[j \div 10] \o <<j % 10>>
            /\ NatDigits[k] = NatDigits[k \div 10] \o <<k % 10>>
        <5>1. j \in Nat /\ j >= 10 /\ k \in Nat /\ k >= 10
          BY <2>3
        <5> QED BY <5>1, NatDigitsLong, Zenon
      <4> QED BY <4>1, Zenon
    <3>4. NatDigits[j \div 10] = NatDigits[k \div 10] /\ j % 10 = k % 10
      <4> DEFINE s == NatDigits[j \div 10]
                 t == NatDigits[k \div 10]
                 d == j % 10
                 e == k % 10
      <4>1. s \in Seq(Nat) /\ t \in Seq(Nat) /\ d \in Nat /\ e \in Nat /\ s \o <<d>> = t \o <<e>>
        BY <3>1, <3>2, <3>3
      <4> HIDE DEF s, t, d, e
      <4>2. s = t /\ d = e
        <5> DEFINE more(x, a) == x \o <<a>>
        <5>1. \A x, y \in Seq(Nat), a, b \in Nat : more(x, a) = more(y, b) => x = y /\ a = b
          BY OneMore
        <5>2. more(s, d) = more(t, e)
          BY <4>1
        <5> HIDE DEF more
        <5> QED BY <4>1, <5>1, <5>2
      <4> QED BY <4>2 DEF s, t, d, e
    <3>5. j \div 10 = k \div 10
      BY <1>2, <3>1, <3>4
    <3> QED BY <3>4, <3>5, TenthAndDigit
  <2> QED BY <2>1, <2>2, <2>3
<1> HIDE DEF T
<1>3. Nat \subseteq T
  BY <1>1, <1>2, SetInduction
<1>4. m + n \in T /\ m \in 0..(m + n) /\ n \in 0..(m + n)
  BY <1>3
<1> QED BY <1>4 DEF T

(* So it is with the numbers below zero, which begin with a minus sign.    *)
LEMMA DigitsDiffer ==
  ASSUME NEW m \in Int, NEW n \in Int
  PROVE  /\ Digits(m) \in Seq(Int)
         /\ Digits(m) = Digits(n) => m = n
<1> DEFINE abs(k) == IF k < 0 THEN -k ELSE k
           d(k)   == NatDigits[abs(k)]
<1>1. \A k \in Int : abs(k) \in Nat
  OBVIOUS
<1>2. \A k \in Int : d(k) \in Seq(Nat) /\ d(k) # <<>>
  BY <1>1, NatDigitsType
<1>3. \A k \in Int : Digits(k) = IF k < 0 THEN <<-1>> \o d(k) ELSE d(k)
  BY DEF Digits
<1>4. d(m) = d(n) => abs(m) = abs(n)
  BY <1>1, NatDigitsDiffer
<1>5. abs(m) = abs(n) /\ (m < 0 <=> n < 0) => m = n
  OBVIOUS
<1> HIDE DEF d, abs
<1>6. \A s, t \in Seq(Nat) :
        /\ s \in Seq(Int) /\ <<-1>> \o s \in Seq(Int)
        /\ t # <<>> => <<-1>> \o s # t
        /\ <<-1>> \o s = <<-1>> \o t => s = t
  <2> TAKE s, t \in Seq(Nat)
  <2>1. s \in Seq(Int) /\ <<-1>> \o s \in Seq(Int)
    OBVIOUS
  <2>2. t # <<>> => <<-1>> \o s # t
    <3>1. (<<-1>> \o s)[1] = -1
      OBVIOUS
    <3>2. t # <<>> => t[1] \in Nat
      OBVIOUS
    <3> QED BY <3>1, <3>2
  <2>3. ASSUME <<-1>> \o s = <<-1>> \o t
        PROVE  s = t
    <3>1. /\ Len(<<-1>> \o s) = Len(s) + 1 /\ \A i \in 1..Len(s) : (<<-1>> \o s)[i + 1] = s[i]
          /\ Len(<<-1>> \o t) = Len(t) + 1 /\ \A i \in 1..Len(t) : (<<-1>> \o t)[i + 1] = t[i]
      OBVIOUS
    <3>2. Len(s) = Len(t)
      BY <2>3, <3>1
    <3>3. \A i \in 1..Len(s) : s[i] = t[i]
      BY <2>3, <3>1, <3>2
    <3> QED BY <3>2, <3>3
  <2> QED BY <2>1, <2>2, <2>3
<1>7. Digits(m) \in Seq(Int)
  BY <1>2, <1>3, <1>6
<1>8. ASSUME Digits(m) = Digits(n)
      PROVE  m = n
  <2>1. (m < 0 <=> n < 0) /\ d(m) = d(n)
    BY <1>2, <1>3, <1>6, <1>8
  <2> QED BY <1>4, <1>5, <2>1
<1> QED BY <1>7, <1>8

(* A string with one more character in front.                              *)
LEMMA OneBefore ==
  ASSUME NEW c \in Int, NEW d \in Int, NEW s \in Seq(Int), NEW t \in Seq(Int)
  PROVE  /\ <<c>> \o s \in Seq(Int)
         /\ <<c>> \o s = <<d>> \o t => c = d /\ s = t
<1>1. <<c>> \o s \in Seq(Int)
  OBVIOUS
<1>2. ASSUME <<c>> \o s = <<d>> \o t
      PROVE  c = d /\ s = t
  <2>1. /\ (<<c>> \o s)[1] = c /\ Len(<<c>> \o s) = Len(s) + 1
        /\ \A i \in 1..Len(s) : (<<c>> \o s)[i + 1] = s[i]
    OBVIOUS
  <2>2. /\ (<<d>> \o t)[1] = d /\ Len(<<d>> \o t) = Len(t) + 1
        /\ \A i \in 1..Len(t) : (<<d>> \o t)[i + 1] = t[i]
    OBVIOUS
  <2>3. c = d /\ Len(s) + 1 = Len(t) + 1
    BY <1>2, <2>1, <2>2, Zenon
  <2>4. Len(s) = Len(t)
    <3>1. Len(s) \in Nat /\ Len(t) \in Nat /\ \A m, n \in Nat : m + 1 = n + 1 => m = n
      OBVIOUS
    <3> QED BY <2>3, <3>1, Zenon
  <2>5. \A i \in 1..Len(s) : s[i] = t[i]
    BY <1>2, <2>1, <2>2, <2>4, Zenon
  <2> QED BY <2>3, <2>4, <2>5
<1> QED BY <1>1, <1>2

(* What a key's string is made of: its type, and its payload or the digits *)
(* of it.                                                                  *)
Tag(v) == IF TypeOf(v) = "B" THEN 0 ELSE IF TypeOf(v) = "N" THEN 1 ELSE 2

Body(v) == IF TypeOf(v) = "N" THEN Digits(Payload(v)) ELSE Payload(v)

(* The string of a key begins with its type.                               *)
LEMMA KeyStringParts ==
  ASSUME NEW v \in KeyValue
  PROVE  /\ Tag(v) \in 0..2 /\ Body(v) \in Seq(Int)
         /\ KeyString(v) = <<Tag(v)>> \o Body(v)
<1>1. IsTypedKey(v)
  BY TableAssumption
<1>2. CASE TypeOf(v) = "N"
  <2>1. Payload(v) \in Int
    BY <1>1, <1>2 DEF IsTypedKey
  <2> QED BY <1>2, <2>1, DigitsDiffer DEF Tag, Body, KeyString
<1>3. CASE TypeOf(v) \in {"S", "B"}
  <2>1. Payload(v) \in Seq(Nat)
    BY <1>1, <1>3 DEF IsTypedKey
  <2>2. Payload(v) \in Seq(Int)
    BY <2>1
  <2> QED BY <1>3, <2>2 DEF Tag, Body, KeyString
<1> QED BY <1>1, <1>2, <1>3 DEF IsTypedKey

(* Different keys have different strings.                                  *)
LEMMA KeyStringsDiffer ==
  ASSUME NEW v \in KeyValue, NEW w \in KeyValue, KeyString(v) = KeyString(w)
  PROVE  v = w
<1>1. Tag(v) = Tag(w) /\ Body(v) = Body(w)
  <2> DEFINE more(c, s) == <<c>> \o s
  <2>1. \A c, d \in Int, s, t \in Seq(Int) : more(c, s) = more(d, t) => c = d /\ s = t
    BY OneBefore
  <2>2. more(Tag(v), Body(v)) = more(Tag(w), Body(w))
    BY KeyStringParts, Zenon
  <2>3. Tag(v) \in Int /\ Tag(w) \in Int /\ Body(v) \in Seq(Int) /\ Body(w) \in Seq(Int)
    <3>1. \A c \in 0..2 : c \in Int
      OBVIOUS
    <3> QED BY <3>1, KeyStringParts, Zenon
  <2> HIDE DEF more
  <2> QED BY <2>1, <2>2, <2>3
<1>2. /\ IsTypedKey(v) /\ IsTypedKey(w)
      /\ TypeOf(v) \in {"S", "N", "B"} /\ TypeOf(w) \in {"S", "N", "B"}
  BY TableAssumption DEF IsTypedKey
<1>3. TypeOf(v) = TypeOf(w)
  BY <1>1, <1>2 DEF Tag
<1>4. CASE TypeOf(v) = "N"
  <2>1. Payload(v) \in Int /\ Payload(w) \in Int /\ Digits(Payload(v)) = Digits(Payload(w))
    BY <1>1, <1>2, <1>3, <1>4 DEF IsTypedKey, Body
  <2>2. Payload(v) = Payload(w)
    BY <2>1, DigitsDiffer
  <2> QED BY <1>2, <1>3, <2>2, Zenon DEF IsTypedKey
<1>5. CASE TypeOf(v) # "N"
  <2>1. Payload(v) = Payload(w)
    BY <1>1, <1>3, <1>5 DEF Body
  <2> QED BY <1>2, <1>3, <2>1, Zenon DEF IsTypedKey
<1> QED BY <1>4, <1>5

KeyPart == KeyValue \cup {NoRange}

(* No two range keys have the same string, nor that of no range key.       *)
LEMMA RangeStringsDiffer ==
  ASSUME NEW v \in KeyPart, NEW w \in KeyPart
  PROVE  /\ RangeString(v) \in Seq(Int)
         /\ RangeString(v) = RangeString(w) => v = w
<1>1. ASSUME NEW u \in KeyValue
      PROVE  KeyString(u) \in Seq(Int) /\ KeyString(u) # <<3>>
  <2>1. /\ Tag(u) \in 0..2 /\ Body(u) \in Seq(Int)
        /\ KeyString(u) = <<Tag(u)>> \o Body(u)
    BY KeyStringParts
  <2>2. Tag(u) \in Int /\ Tag(u) # 3
    BY <2>1
  <2>3. KeyString(u) \in Seq(Int)
    BY <2>1, <2>2, OneBefore
  <2>4. (<<Tag(u)>> \o Body(u))[1] = Tag(u) /\ <<3>>[1] = 3
    BY <2>1, <2>2
  <2> QED BY <2>1, <2>2, <2>3, <2>4
<1>2. RangeString(NoRange) = <<3>> /\ \A u \in KeyValue : RangeString(u) = KeyString(u)
  BY ValueAssumption DEF RangeString
<1>3. <<3>> \in Seq(Int)
  OBVIOUS
<1>4. RangeString(v) \in Seq(Int)
  BY <1>1, <1>2, <1>3 DEF KeyPart
<1>5. ASSUME RangeString(v) = RangeString(w)
      PROVE  v = w
  BY <1>1, <1>2, <1>5, KeyStringsDiffer DEF KeyPart
<1> QED BY <1>4, <1>5

(* The order of the strings is one of the keys.                            *)
StringOrder == {vw \in KeyPart \X KeyPart : SeqLess(RangeString(vw[1]), RangeString(vw[2]))}

(* It is one: any two keys have different strings.                         *)
LEMMA StringsAreOrdered == IsOrder(KeyPart, StringOrder)
<1>1. \A v, w \in KeyPart : <<v, w>> \in StringOrder <=> SeqLess(RangeString(v), RangeString(w))
  BY DEF StringOrder
<1>2. \A v \in KeyPart : RangeString(v) \in Seq(Int)
  BY RangeStringsDiffer
<1>3. \A v, w \in KeyPart : v # w => RangeString(v) # RangeString(w)
  BY RangeStringsDiffer
<1>4. \A v \in KeyPart : <<v, v>> \notin StringOrder
  BY <1>1, <1>2, SeqLessIrreflexive
<1>5. ASSUME NEW u \in KeyPart, NEW v \in KeyPart, NEW w \in KeyPart,
             <<u, v>> \in StringOrder, <<v, w>> \in StringOrder
      PROVE  <<u, w>> \in StringOrder
  <2>1. SeqLess(RangeString(u), RangeString(v)) /\ SeqLess(RangeString(v), RangeString(w))
    BY <1>1, <1>5
  <2>2. SeqLess(RangeString(u), RangeString(w))
    BY <1>2, <2>1, SeqLessTransitive
  <2> QED BY <1>1, <2>2
<1>6. ASSUME NEW v \in KeyPart, NEW w \in KeyPart, v # w
      PROVE  <<v, w>> \in StringOrder \/ <<w, v>> \in StringOrder
  BY <1>1, <1>2, <1>3, <1>6, SeqLessTotal
<1> QED BY <1>4, <1>5, <1>6 DEF IsOrder

(* DynamoDB's order of the keys of one type.                               *)
ServiceOrder == {vw \in KeyValue \X KeyValue : CompareKeyValues(vw[1], vw[2]) < 0}

(* It is one too, of the keys of one type.                                 *)
LEMMA ServiceOrderFacts ==
  /\ \A v \in KeyValue : <<v, v>> \notin ServiceOrder
  /\ \A u, v, w \in KeyValue :
       <<u, v>> \in ServiceOrder /\ <<v, w>> \in ServiceOrder => <<u, w>> \in ServiceOrder
  /\ \A v, w \in KeyValue :
       TypeOf(v) = TypeOf(w) => v = w \/ <<v, w>> \in ServiceOrder \/ <<w, v>> \in ServiceOrder
<1> DEFINE less(v, w) == IF TypeOf(v) = "N" THEN Payload(v) < Payload(w)
                         ELSE SeqLess(Payload(v), Payload(w))
<1>1. \A v \in KeyValue :
        /\ v = <<TypeOf(v), Payload(v)>> /\ TypeOf(v) \in {"S", "N", "B"}
        /\ TypeOf(v) = "N" => Payload(v) \in Int
        /\ TypeOf(v) # "N" => Payload(v) \in Seq(Int)
  <2> TAKE v \in KeyValue
  <2>1. IsTypedKey(v)
    BY TableAssumption
  <2>2. \A p \in Seq(Nat) : p \in Seq(Int)
    OBVIOUS
  <2> QED BY <2>1, <2>2 DEF IsTypedKey
<1>2. \A v, w \in KeyValue : <<v, w>> \in ServiceOrder <=> TypeOf(v) = TypeOf(w) /\ less(v, w)
  <2> TAKE v, w \in KeyValue
  <2>1. <<v, w>> \in ServiceOrder <=> CompareKeyValues(v, w) < 0
    BY DEF ServiceOrder
  <2>2. CompareKeyValues(v, w) =
          IF TypeOf(v) # TypeOf(w) \/ TypeOf(v) \notin {"S", "N", "B"} THEN 0
          ELSE IF less(v, w) THEN -1 ELSE IF less(w, v) THEN 1 ELSE 0
    BY Zenon DEF CompareKeyValues
  <2> HIDE DEF less
  <2> QED BY <1>1, <2>1, <2>2
<1>3. \A v \in KeyValue : ~less(v, v)
  BY <1>1, SeqLessIrreflexive
<1>4. ASSUME NEW u \in KeyValue, NEW v \in KeyValue, NEW w \in KeyValue,
             TypeOf(u) = TypeOf(v), TypeOf(v) = TypeOf(w), less(u, v), less(v, w)
      PROVE  less(u, w)
  <2>1. CASE TypeOf(u) = "N"
    <3>1. Payload(u) \in Int /\ Payload(v) \in Int /\ Payload(w) \in Int
      BY <1>1, <1>4, <2>1, Zenon
    <3>2. Payload(u) < Payload(v) /\ Payload(v) < Payload(w)
      BY <1>4, <2>1, Zenon
    <3>3. Payload(u) < Payload(w)
      BY <3>1, <3>2
    <3> QED BY <2>1, <3>3
  <2>2. CASE TypeOf(u) # "N"
    <3>1. Payload(u) \in Seq(Int) /\ Payload(v) \in Seq(Int) /\ Payload(w) \in Seq(Int)
      BY <1>1, <1>4, <2>2
    <3>2. SeqLess(Payload(u), Payload(v)) /\ SeqLess(Payload(v), Payload(w))
      BY <1>4, <2>2
    <3> QED BY <2>2, <3>1, <3>2, SeqLessTransitive
  <2> QED BY <2>1, <2>2
<1>5. ASSUME NEW v \in KeyValue, NEW w \in KeyValue, TypeOf(v) = TypeOf(w), v # w
      PROVE  less(v, w) \/ less(w, v)
  <2>1. Payload(v) # Payload(w)
    BY <1>1, <1>5, Zenon
  <2>2. CASE TypeOf(v) = "N"
    <3>1. Payload(v) \in Int /\ Payload(w) \in Int
      BY <1>1, <1>5, <2>2, Zenon
    <3>2. Payload(v) < Payload(w) \/ Payload(w) < Payload(v)
      BY <2>1, <3>1
    <3> QED BY <1>5, <2>2, <3>2, Zenon
  <2>3. CASE TypeOf(v) # "N"
    <3>1. Payload(v) \in Seq(Int) /\ Payload(w) \in Seq(Int)
      BY <1>1, <1>5, <2>3
    <3> QED BY <1>5, <2>1, <2>3, <3>1, SeqLessTotal
  <2> QED BY <2>2, <2>3
<1> HIDE DEF less
<1>6. \A v \in KeyValue : <<v, v>> \notin ServiceOrder
  BY <1>2, <1>3
<1>7. \A u, v, w \in KeyValue :
        <<u, v>> \in ServiceOrder /\ <<v, w>> \in ServiceOrder => <<u, w>> \in ServiceOrder
  BY <1>2, <1>4
<1>8. \A v, w \in KeyValue :
        TypeOf(v) = TypeOf(w) => v = w \/ <<v, w>> \in ServiceOrder \/ <<w, v>> \in ServiceOrder
  BY <1>2, <1>5
<1> QED BY <1>6, <1>7, <1>8

(* Tuples are ordered by the first component in which they differ.         *)
Lex(order, n, k, l) ==
  \E i \in 1..n : <<k[i], l[i]>> \in order /\ \A j \in 1..(i - 1) : k[j] = l[j]

AreTuples(R, n, V, order) ==
  /\ \A v \in V : <<v, v>> \notin order
  /\ \A u, v, w \in V : <<u, v>> \in order /\ <<v, w>> \in order => <<u, w>> \in order
  /\ \A k \in R : \A i \in 1..n : k[i] \in V
  /\ \A k, l \in R : \A i \in 1..n :
       k[i] = l[i] \/ <<k[i], l[i]>> \in order \/ <<l[i], k[i]>> \in order
  /\ \A k, l \in R : (\A i \in 1..n : k[i] = l[i]) => k = l

(* That is an order of them, if the components are in one.                 *)
LEMMA LexIsOrder ==
  ASSUME NEW V, NEW order, NEW n \in Nat, NEW R, AreTuples(R, n, V, order)
  PROVE  IsOrder(R, {kl \in R \X R : Lex(order, n, kl[1], kl[2])})
<1> DEFINE lex == {kl \in R \X R : Lex(order, n, kl[1], kl[2])}
<1>1. \A k, l \in R : <<k, l>> \in lex <=> Lex(order, n, k, l)
  OBVIOUS
<1>2. \A k \in R : ~Lex(order, n, k, k)
  BY DEF Lex, AreTuples
<1>3. ASSUME NEW k \in R, NEW l \in R, NEW m \in R, Lex(order, n, k, l), Lex(order, n, l, m)
      PROVE  Lex(order, n, k, m)
  <2>1. PICK i \in 1..n : <<k[i], l[i]>> \in order /\ \A h \in 1..(i - 1) : k[h] = l[h]
    BY <1>3 DEF Lex
  <2>2. PICK j \in 1..n : <<l[j], m[j]>> \in order /\ \A h \in 1..(j - 1) : l[h] = m[h]
    BY <1>3 DEF Lex
  <2>3. CASE i < j
    <3>1. l[i] = m[i] /\ \A h \in 1..(i - 1) : k[h] = m[h]
      BY <2>1, <2>2, <2>3
    <3> QED BY <2>1, <3>1 DEF Lex
  <2>4. CASE i = j
    <3>1. <<k[i], m[i]>> \in order /\ \A h \in 1..(i - 1) : k[h] = m[h]
      BY <2>1, <2>2, <2>4 DEF AreTuples
    <3> QED BY <3>1 DEF Lex
  <2>5. CASE j < i
    <3>1. k[j] = l[j] /\ \A h \in 1..(j - 1) : k[h] = m[h]
      BY <2>1, <2>2, <2>5
    <3> QED BY <2>2, <3>1 DEF Lex
  <2> QED BY <2>3, <2>4, <2>5
<1>4. ASSUME NEW k \in R, NEW l \in R, k # l
      PROVE  Lex(order, n, k, l) \/ Lex(order, n, l, k)
  <2> DEFINE D == {i \in 1..n : k[i] # l[i]}
  <2>1. D \subseteq Nat /\ D # {}
    BY <1>4 DEF AreTuples
  <2>2. PICK i \in D : \A j \in D : i <= j
    <3> HIDE DEF D
    <3> QED BY <2>1, SmallestOf
  <2>3. \A j \in 1..(i - 1) : k[j] = l[j]
    BY <2>2
  <2>4. <<k[i], l[i]>> \in order \/ <<l[i], k[i]>> \in order
    BY DEF AreTuples
  <2> QED BY <2>3, <2>4 DEF Lex
<1> HIDE DEF lex
<1>5. IsOrder(R, lex)
  BY <1>1, <1>2, <1>3, <1>4 DEF IsOrder
<1> QED BY <1>5 DEF lex

-------------------------------------------------------------------------------
(* The order of a call.                                                    *)

(* Two-part keys in the order of their strings.                            *)
LEMMA KeysAreOrdered == IsOrder(Key, {kl \in Key \X Key : KeyLess(kl[1], kl[2])})
<1>1. \A k, l \in Key : KeyLess(k, l) <=> Lex(StringOrder, 2, k, l)
  <2> TAKE k, l \in Key
  <2>1. /\ k[1] \in KeyValue /\ k[2] \in KeyPart /\ l[1] \in KeyValue /\ l[2] \in KeyPart
        /\ k[1] \in KeyPart /\ l[1] \in KeyPart
    BY DEF Key, KeyPart
  <2>2. RangeString(k[1]) = KeyString(k[1]) /\ RangeString(l[1]) = KeyString(l[1])
    BY <2>1, ValueAssumption DEF RangeString
  <2>3. <<k[1], l[1]>> \in StringOrder <=> SeqLess(KeyString(k[1]), KeyString(l[1]))
    BY <2>1, <2>2 DEF StringOrder
  <2>4. <<k[2], l[2]>> \in StringOrder <=> SeqLess(RangeString(k[2]), RangeString(l[2]))
    BY <2>1 DEF StringOrder
  <2>5. Lex(StringOrder, 2, k, l) <=>
          <<k[1], l[1]>> \in StringOrder \/ (k[1] = l[1] /\ <<k[2], l[2]>> \in StringOrder)
    <3>1. 1..2 = {1, 2} /\ 1..(1 - 1) = {} /\ 1..(2 - 1) = {1}
      OBVIOUS
    <3> QED BY <3>1 DEF Lex
  <2> QED BY <2>3, <2>4, <2>5 DEF KeyLess
<1>2. /\ \A v \in KeyPart : <<v, v>> \notin StringOrder
      /\ \A u, v, w \in KeyPart :
           <<u, v>> \in StringOrder /\ <<v, w>> \in StringOrder => <<u, w>> \in StringOrder
      /\ \A v, w \in KeyPart : v = w \/ <<v, w>> \in StringOrder \/ <<w, v>> \in StringOrder
  BY StringsAreOrdered DEF IsOrder
<1>3. \A k \in Key : \A i \in 1..2 : k[i] \in KeyPart
  BY DEF Key, KeyPart
<1>4. \A k, l \in Key : (\A i \in 1..2 : k[i] = l[i]) => k = l
  BY DEF Key
<1> DEFINE lex == {kl \in Key \X Key : Lex(StringOrder, 2, kl[1], kl[2])}
<1>5. IsOrder(Key, lex)
  <2> HIDE DEF lex
  <2>1. \A k, l \in Key : \A i \in 1..2 :
          k[i] = l[i] \/ <<k[i], l[i]>> \in StringOrder \/ <<l[i], k[i]>> \in StringOrder
    BY <1>2, <1>3
  <2>2. AreTuples(Key, 2, KeyPart, StringOrder)
    BY <1>2, <1>3, <1>4, <2>1 DEF AreTuples
  <2>3. IsOrder(Key, {kl \in Key \X Key : Lex(StringOrder, 2, kl[1], kl[2])})
    BY <2>2, LexIsOrder
  <2> QED BY <2>3 DEF lex
<1>6. {kl \in Key \X Key : KeyLess(kl[1], kl[2])} = lex
  BY <1>1
<1> QED BY <1>5, <1>6

(* What a call reads has a key.                                            *)
LEMMA DefOfIndex ==
  ASSUME NEW index \in Index \cup {NoIndex}
  PROVE  ServiceDef(index) \in KeyDef
BY TableAssumption DEF ServiceDef, Schema

(* What the key of an item consists of.                                    *)
KeyPartOf(a, x) == IF a = NoRange THEN NoRange ELSE x[a]

(* An item with a key has the attributes, and they make up the key.        *)
LEMMA KeyOfParts ==
  ASSUME NEW def \in KeyDef, NEW x \in Item, KeyOf(def, x) # NoKey
  PROVE  /\ KeyOf(def, x) = <<KeyPartOf(def.hash, x), KeyPartOf(def.range, x)>>
         /\ KeyOf(def, x) \in Key
         /\ \A a \in KeyAttrs(def) : a \in Attr /\ a \in DOMAIN x /\ x[a] \in KeyValue
         /\ def.hash \in KeyAttrs(def) /\ (def.range # NoRange => def.range \in KeyAttrs(def))
<1>1. /\ def.hash \in Attr /\ def.range \in Attr \cup {NoRange} /\ def.hash # NoRange
  BY ValueAssumption DEF KeyDef
<1>2. HasKeyAttr(x, def.hash) /\ (def.range # NoRange => HasKeyAttr(x, def.range))
  BY DEF KeyOf
<1>3. KeyOf(def, x) = <<x[def.hash], IF def.range = NoRange THEN NoRange ELSE x[def.range]>>
  BY <1>2 DEF KeyOf
<1>4. KeyOf(def, x) = <<KeyPartOf(def.hash, x), KeyPartOf(def.range, x)>>
  BY <1>1, <1>3 DEF KeyPartOf
<1>5. KeyOf(def, x) \in Key
  BY <1>1, <1>2, <1>3 DEF HasKeyAttr, Key
<1>6. \A a \in KeyAttrs(def) : a \in Attr /\ a \in DOMAIN x /\ x[a] \in KeyValue
  BY <1>1, <1>2 DEF KeyAttrs, HasKeyAttr
<1> QED BY <1>1, <1>4, <1>5, <1>6 DEF KeyAttrs

(* The items that a call can come across, and the place of one in the      *)
(* order of the call.                                                      *)
Def == ServiceDef(call.index)

Entry ==
  {x \in Item : /\ call.index \in Index \cup {NoIndex}
                /\ KeyOf(Def, x) # NoKey /\ KeyOf(TableSchema.key, x) # NoKey
                /\ backend = "service" => Accepts(x)}

Rank(x) == IF backend = "memdb" THEN KeyOf(Def, x) ELSE ServiceKey(call.index, x)

(* Before, of places.                                                      *)
LEMMA ServiceRanks ==
  ASSUME backend = "service"
  PROVE  LET R == {ServiceKey(call.index, x) : x \in Entry}
         IN  /\ IsOrder(R, {kl \in R \X R : Lex(ServiceOrder, 4, kl[1], kl[2])})
             /\ \A x, y \in Entry :
                  ServiceLess(call.index, x, y) <=>
                  Lex(ServiceOrder, 4, ServiceKey(call.index, x), ServiceKey(call.index, y))
<1> DEFINE key  == TableSchema.key
           attr == <<Def.hash, Def.range, key.hash, key.range>>
           K(x) == ServiceKey(call.index, x)
           R    == {K(x) : x \in Entry}
<1>1. ASSUME NEW x \in Entry
      PROVE  /\ K(x) = <<KeyPartOf(attr[1], x), KeyPartOf(attr[2], x),
                         KeyPartOf(attr[3], x), KeyPartOf(attr[4], x)>>
             /\ \A i \in 1..4 : attr[i] # NoRange =>
                  x[attr[i]] \in KeyValue /\ TypeOf(x[attr[i]]) = KeyType[attr[i]]
  <2>1. /\ x \in Item /\ call.index \in Index \cup {NoIndex} /\ Def \in KeyDef /\ key \in KeyDef
        /\ KeyOf(Def, x) # NoKey /\ KeyOf(key, x) # NoKey /\ Accepts(x)
    BY DefOfIndex, TableAssumption DEF Entry, Def, Schema
  <2>2. /\ KeyOf(Def, x) = <<KeyPartOf(Def.hash, x), KeyPartOf(Def.range, x)>>
        /\ KeyOf(key, x) = <<KeyPartOf(key.hash, x), KeyPartOf(key.range, x)>>
    BY <2>1, KeyOfParts
  <2>3. K(x) = <<KeyPartOf(attr[1], x), KeyPartOf(attr[2], x),
                 KeyPartOf(attr[3], x), KeyPartOf(attr[4], x)>>
    <3>1. K(x) = <<KeyOf(Def, x)[1], KeyOf(Def, x)[2], KeyOf(key, x)[1], KeyOf(key, x)[2]>>
      BY Zenon DEF ServiceKey, Def
    <3> QED BY <2>2, <3>1
  <2>4. \A d \in {Def, key} : \A a \in KeyAttrs(d) :
          x[a] \in KeyValue /\ TypeOf(x[a]) = KeyType[a]
    <3> SUFFICES ASSUME NEW d \in {Def, key}, NEW a \in KeyAttrs(d)
                 PROVE  x[a] \in KeyValue /\ TypeOf(x[a]) = KeyType[a]
      OBVIOUS
    <3>1. PICK index \in Index \cup {NoIndex} : d = ServiceDef(index)
      <4>1. key = ServiceDef(NoIndex)
        BY DEF ServiceDef
      <4> QED BY <2>1, <4>1 DEF Def
    <3>2. a \in DOMAIN x
      BY <2>1, KeyOfParts
    <3>3. a \in KeyAttrs(ServiceDef(index)) \cap DOMAIN x
      BY <3>1, <3>2
    <3> QED BY <2>1, <3>3 DEF Accepts
  <2>5. \A i \in 1..4 : attr[i] # NoRange => \E d \in {Def, key} : attr[i] \in KeyAttrs(d)
    <3>1. \A d \in {Def, key} : /\ d.hash \in KeyAttrs(d)
                                /\ d.range # NoRange => d.range \in KeyAttrs(d)
      BY <2>1, KeyOfParts
    <3> QED BY <3>1
  <2> HIDE DEF attr, K
  <2> QED BY <2>3, <2>4, <2>5
<1>2. \A x \in Entry : \A i \in 1..4 : K(x)[i] = KeyPartOf(attr[i], x)
  <2> HIDE DEF K, attr
  <2> QED BY <1>1
<1>3. \A x \in Entry : \A i \in 1..4 :
        IF attr[i] = NoRange THEN K(x)[i] = NoRange
        ELSE K(x)[i] \in KeyValue /\ TypeOf(K(x)[i]) = KeyType[attr[i]]
  <2> HIDE DEF K, attr
  <2> QED BY <1>1, <1>2 DEF KeyPartOf
<1>4. \A x, y \in Entry :
        ServiceLess(call.index, x, y) <=> Lex(ServiceOrder, 4, K(x), K(y))
  <2> SUFFICES ASSUME NEW x \in Entry, NEW y \in Entry
               PROVE  ServiceLess(call.index, x, y) <=> Lex(ServiceOrder, 4, K(x), K(y))
    OBVIOUS
  <2>1. ServiceLess(call.index, x, y) <=>
          \E i \in 1..4 : /\ K(x)[i] # NoRange
                          /\ CompareKeyValues(K(x)[i], K(y)[i]) < 0
                          /\ \A j \in 1..(i - 1) : K(x)[j] = K(y)[j]
    BY Zenon DEF ServiceLess
  <2>2. ASSUME NEW i \in 1..4
        PROVE  K(x)[i] # NoRange /\ CompareKeyValues(K(x)[i], K(y)[i]) < 0 <=>
               <<K(x)[i], K(y)[i]>> \in ServiceOrder
    <3> HIDE DEF K, attr
    <3>1. CASE attr[i] = NoRange
      BY <1>3, <3>1, ValueAssumption DEF ServiceOrder
    <3>2. CASE attr[i] # NoRange
      BY <1>3, <3>2, ValueAssumption DEF ServiceOrder
    <3> QED BY <3>1, <3>2
  <2> HIDE DEF K
  <2> QED BY <2>1, <2>2 DEF Lex
<1>5. \A k \in R : \A i \in 1..4 : k[i] \in KeyPart
  <2> HIDE DEF K, attr
  <2> QED BY <1>3 DEF KeyPart
<1>6. \A k, l \in R : \A i \in 1..4 :
        k[i] = l[i] \/ <<k[i], l[i]>> \in ServiceOrder \/ <<l[i], k[i]>> \in ServiceOrder
  <2> HIDE DEF K, attr
  <2> SUFFICES ASSUME NEW x \in Entry, NEW y \in Entry, NEW i \in 1..4
               PROVE  \/ K(x)[i] = K(y)[i]
                      \/ <<K(x)[i], K(y)[i]>> \in ServiceOrder
                      \/ <<K(y)[i], K(x)[i]>> \in ServiceOrder
    OBVIOUS
  <2>1. CASE attr[i] = NoRange
    BY <1>3, <2>1
  <2>2. CASE attr[i] # NoRange
    BY <1>3, <2>2, ServiceOrderFacts
  <2> QED BY <2>1, <2>2
<1>7. \A k, l \in R : (\A i \in 1..4 : k[i] = l[i]) => k = l
  <2> SUFFICES ASSUME NEW x \in Entry, NEW y \in Entry, \A i \in 1..4 : K(x)[i] = K(y)[i]
               PROVE  K(x) = K(y)
    OBVIOUS
  <2>1. \A i \in 1..4 : KeyPartOf(attr[i], x) = KeyPartOf(attr[i], y)
    BY <1>2
  <2> HIDE DEF K, attr
  <2> QED BY <1>1, <2>1
<1>8. /\ \A v \in KeyPart : <<v, v>> \notin ServiceOrder
      /\ \A u, v, w \in KeyPart :
           <<u, v>> \in ServiceOrder /\ <<v, w>> \in ServiceOrder => <<u, w>> \in ServiceOrder
  <2>1. \A v, w : <<v, w>> \in ServiceOrder => v \in KeyValue /\ w \in KeyValue
    BY DEF ServiceOrder
  <2> QED BY <2>1, ServiceOrderFacts
<1>9. IsOrder(R, {kl \in R \X R : Lex(ServiceOrder, 4, kl[1], kl[2])})
  <2> HIDE DEF R
  <2>1. AreTuples(R, 4, KeyPart, ServiceOrder)
    BY <1>5, <1>6, <1>7, <1>8 DEF AreTuples
  <2> QED BY <2>1, LexIsOrder
<1> QED BY <1>4, <1>9

(* The places of the items are in an order, and Before is that order or    *)
(* its reverse.                                                            *)
LEMMA RanksAreOrdered ==
  ASSUME backend \in {"memdb", "service"}
  PROVE  \E R, order :
           /\ IsOrder(R, order)
           /\ \A x \in Entry : Rank(x) \in R
           /\ \A x, y \in Entry :
                Before(x, y) <=> IF call.forward THEN <<Rank(x), Rank(y)>> \in order
                                 ELSE <<Rank(y), Rank(x)>> \in order
<1>1. CASE backend = "memdb"
  <2> DEFINE order == {kl \in Key \X Key : KeyLess(kl[1], kl[2])}
  <2>1. \A x \in Entry : Rank(x) = KeyOf(Def, x) /\ KeyOf(Def, x) \in Key
    BY <1>1, DefOfIndex, KeyOfParts DEF Rank, Entry, Def
  <2>2. \A x, y : Before(x, y) <=> IF call.forward THEN KeyLess(KeyOf(Def, x), KeyOf(Def, y))
                                   ELSE KeyLess(KeyOf(Def, y), KeyOf(Def, x))
    BY <1>1, Zenon DEF Before, MemLess, Def
  <2>3. \A x, y \in Entry : <<Rank(x), Rank(y)>> \in order <=> KeyLess(KeyOf(Def, x), KeyOf(Def, y))
    BY <2>1
  <2>4. IsOrder(Key, order)
    BY KeysAreOrdered
  <2>5. \A x \in Entry : Rank(x) \in Key
    BY <2>1
  <2> HIDE DEF order
  <2>6. \A x, y \in Entry :
          Before(x, y) <=> IF call.forward THEN <<Rank(x), Rank(y)>> \in order
                           ELSE <<Rank(y), Rank(x)>> \in order
    BY <2>2, <2>3
  <2> QED BY <2>4, <2>5, <2>6
<1>2. CASE backend = "service"
  <2> DEFINE K(x)  == ServiceKey(call.index, x)
             R     == {K(x) : x \in Entry}
             order == {kl \in R \X R : Lex(ServiceOrder, 4, kl[1], kl[2])}
  <2>1. /\ IsOrder(R, order)
        /\ \A x, y \in Entry : ServiceLess(call.index, x, y) <=> Lex(ServiceOrder, 4, K(x), K(y))
    BY <1>2, ServiceRanks
  <2>2. \A x : Rank(x) = K(x)
    BY <1>2 DEF Rank
  <2>3. \A x, y : Before(x, y) <=> IF call.forward THEN ServiceLess(call.index, x, y)
                                   ELSE ServiceLess(call.index, y, x)
    BY <1>2, Zenon DEF Before
  <2> HIDE DEF K
  <2>4. \A x, y \in Entry : <<K(x), K(y)>> \in order <=> Lex(ServiceOrder, 4, K(x), K(y))
    OBVIOUS
  <2>5. \A x \in Entry : Rank(x) \in R
    BY <2>2
  <2> HIDE DEF R, order
  <2>6. \A x, y \in Entry :
          Before(x, y) <=> IF call.forward THEN <<Rank(x), Rank(y)>> \in order
                           ELSE <<Rank(y), Rank(x)>> \in order
    BY <2>1, <2>2, <2>3, <2>4
  <2> QED BY <2>1, <2>5, <2>6
<1> QED BY <1>1, <1>2

(* Before is an order of the items at different places.                    *)
LEMMA BeforeIsOrder ==
  ASSUME backend \in {"memdb", "service"}
  PROVE  /\ \A x \in Entry : ~Before(x, x)
         /\ \A x, y, z \in Entry : Before(x, y) /\ Before(y, z) => Before(x, z)
         /\ \A x, y \in Entry : Rank(x) = Rank(y) \/ Before(x, y) \/ Before(y, x)
<1>1. PICK R, order :
        /\ IsOrder(R, order)
        /\ \A x \in Entry : Rank(x) \in R
        /\ \A x, y \in Entry :
             Before(x, y) <=> IF call.forward THEN <<Rank(x), Rank(y)>> \in order
                              ELSE <<Rank(y), Rank(x)>> \in order
  BY RanksAreOrdered
<1>2. \A x \in Entry : ~Before(x, x)
  BY <1>1 DEF IsOrder
<1>3. ASSUME NEW x \in Entry, NEW y \in Entry, NEW z \in Entry, Before(x, y), Before(y, z)
      PROVE  Before(x, z)
  BY <1>1, <1>3 DEF IsOrder
<1>4. \A x, y \in Entry : Rank(x) = Rank(y) \/ Before(x, y) \/ Before(y, x)
  BY <1>1 DEF IsOrder
<1> QED BY <1>2, <1>3, <1>4

-------------------------------------------------------------------------------
(* The entries of a table.                                                 *)

(* The values of a function on a finite set are finitely many.             *)
LEMMA ValuesAreFinite ==
  ASSUME NEW f, IsFiniteSet(DOMAIN f)
  PROVE  IsFiniteSet({f[k] : k \in DOMAIN f})
<1> DEFINE T == {f[k] : k \in DOMAIN f}
           g == [k \in DOMAIN f |-> f[k]]
<1>1. g \in Surjection(DOMAIN f, T)
  BY DEF Surjection
<1> HIDE DEF g, T
<1>2. IsFiniteSet(T)
  BY <1>1, FS_Surjection
<1> QED BY <1>2 DEF T

(* What a call of the in-memory backend reads from.                        *)
LEMMA SourceFacts ==
  ASSUME NEW t, WellKept(t), NEW index \in Index \cup {NoIndex}
  PROVE  LET src == Source(TableSchema, t, index)
         IN  /\ src.def = ServiceDef(index)
             /\ IsMap(src.items) /\ IsFiniteSet(DOMAIN src.items)
             /\ UnderTheirKeys(src.def, src.items)
             /\ \A k \in DOMAIN src.items : KeyOf(TableSchema.key, src.items[k]) # NoKey
<1>1. CASE index = NoIndex
  <2>1. Source(TableSchema, t, index) = [def |-> TableSchema.key, items |-> t.items]
    BY <1>1 DEF Source
  <2>2. \A k \in DOMAIN t.items : KeyOf(TableSchema.key, t.items[k]) # NoKey
    BY NoKeyIsNoKey DEF WellKept, UnderTheirKeys, IsTable, IsMap
  <2> QED BY <1>1, <2>1, <2>2 DEF WellKept, IsTable, ServiceDef
<1>2. CASE index # NoIndex
  <2>1. Source(TableSchema, t, index) = [def |-> TableSchema.gsis[index], items |-> t.gsis[index]]
    BY <1>2 DEF Source
  <2>2. index \in Index
    BY <1>2
  <2> QED BY <1>2, <2>1, <2>2 DEF WellKept, IsTable, ServiceDef
<1> QED BY <1>1, <1>2

Kept ==
  /\ backend \in {"memdb", "service"} /\ WellKept(table)
  /\ backend = "service" => \A k \in DOMAIN table.items : Accepts(table.items[k])

(* The entries of a call are items with the keys they need, finitely many, *)
(* and no two are at the same place.                                       *)
LEMMA EntriesFacts ==
  ASSUME Kept
  PROVE  /\ Entries(table) \subseteq Entry /\ IsFiniteSet(Entries(table))
         /\ \A x, y \in Entries(table) : Rank(x) = Rank(y) => x = y
<1> DEFINE src == Source(TableSchema, table, call.index).items
           all == IF backend = "memdb" THEN {src[k] : k \in DOMAIN src}
                  ELSE ServiceItems(table, call.index)
<1>1. Entries(table) \subseteq all /\ (call.index \notin Index \cup {NoIndex} => Entries(table) = {})
  BY DEF Entries
<1>2. CASE call.index \notin Index \cup {NoIndex}
  BY <1>1, <1>2, FS_EmptySet
<1>3. ASSUME call.index \in Index \cup {NoIndex}, backend = "memdb"
      PROVE  /\ all \subseteq Entry /\ IsFiniteSet(all)
             /\ \A x, y \in all : Rank(x) = Rank(y) => x = y
  <2>1. /\ IsMap(src) /\ IsFiniteSet(DOMAIN src)
        /\ \A k \in DOMAIN src : KeyOf(Def, src[k]) = k /\ KeyOf(TableSchema.key, src[k]) # NoKey
    BY <1>3, SourceFacts DEF Kept, UnderTheirKeys, Def
  <2>2. all = {src[k] : k \in DOMAIN src}
    BY <1>3
  <2> HIDE DEF src
  <2>3. IsFiniteSet(all)
    BY <2>1, <2>2, ValuesAreFinite
  <2> HIDE DEF all
  <2>4. all \subseteq Entry
    <3> SUFFICES ASSUME NEW k \in DOMAIN src
                 PROVE  src[k] \in Entry
      BY <2>2
    <3>1. src[k] \in Item /\ k \in Key
      BY <2>1 DEF IsMap
    <3> QED BY <1>3, <2>1, <3>1, NoKeyIsNoKey DEF Entry
  <2>5. \A x \in all : x = src[Rank(x)]
    BY <1>3, <2>1, <2>2 DEF Rank
  <2> QED BY <2>3, <2>4, <2>5
<1>4. ASSUME call.index \in Index \cup {NoIndex}, backend = "service"
      PROVE  /\ all \subseteq Entry /\ IsFiniteSet(all)
             /\ \A x, y \in all : Rank(x) = Rank(y) => x = y
  <2> DEFINE items == table.items
             stored == {items[k] : k \in DOMAIN items}
  <2>1. /\ IsMap(items) /\ IsFiniteSet(DOMAIN items)
        /\ \A k \in DOMAIN items : KeyOf(TableSchema.key, items[k]) = k /\ Accepts(items[k])
    BY <1>4 DEF Kept, WellKept, IsTable, UnderTheirKeys
  <2>2. all = {x \in stored : KeyOf(Def, x) # NoKey}
    BY <1>4 DEF ServiceItems, Def
  <2>3. IsFiniteSet(stored)
    BY <2>1, ValuesAreFinite
  <2> HIDE DEF items, all
  <2>4. IsFiniteSet(all)
    BY <2>2, <2>3, FS_Subset
  <2>5. all \subseteq Entry
    <3> SUFFICES ASSUME NEW k \in DOMAIN items, KeyOf(Def, items[k]) # NoKey
                 PROVE  items[k] \in Entry
      BY <2>2
    <3>1. items[k] \in Item /\ k \in Key
      BY <2>1 DEF IsMap
    <3> QED BY <1>4, <2>1, <3>1, NoKeyIsNoKey DEF Entry
  <2>6. ASSUME NEW x \in all, NEW y \in all, Rank(x) = Rank(y)
        PROVE  x = y
    <3>1. PICK k \in DOMAIN items : x = items[k]
      BY <2>2
    <3>2. PICK l \in DOMAIN items : y = items[l]
      BY <2>2
    <3>3. KeyOf(TableSchema.key, x) = k /\ KeyOf(TableSchema.key, y) = l /\ k \in Key /\ l \in Key
      BY <2>1, <3>1, <3>2 DEF IsMap
    <3>4. ServiceKey(call.index, x) = ServiceKey(call.index, y)
      BY <1>4, <2>6 DEF Rank
    <3>5. k[1] = l[1] /\ k[2] = l[2]
      BY <3>3, <3>4 DEF ServiceKey
    <3>6. k = l
      BY <3>3, <3>5 DEF Key
    <3> QED BY <3>1, <3>2, <3>6
  <2> QED BY <2>4, <2>5, <2>6
<1>5. CASE call.index \in Index \cup {NoIndex}
  <2>1. /\ all \subseteq Entry /\ IsFiniteSet(all)
        /\ \A x, y \in all : Rank(x) = Rank(y) => x = y
    BY <1>3, <1>4, <1>5 DEF Kept
  <2> HIDE DEF all
  <2>2. IsFiniteSet(Entries(table))
    BY <1>1, <2>1, FS_Subset
  <2> QED BY <1>1, <2>1, <2>2
<1> QED BY <1>2, <1>5

-------------------------------------------------------------------------------
(* The pages.                                                              *)

(* A part E of S that was read, in order, up to some place; F is what is   *)
(* kept of it.                                                             *)
Begins(E, S, order) ==
  /\ E \subseteq S
  /\ \A x \in E, y \in S : <<y, x>> \in order => y \in E

(* F in order, and the last of E.                                          *)
LEMMA CutFacts ==
  ASSUME NEW S, IsFiniteSet(S), NEW order, IsOrder(S, order),
         NEW E, Begins(E, S, order), NEW F, F \subseteq E
  PROVE  LET s == InOrderOf(F, order)
             l == LastOf(E, order)
         IN  /\ s \in Seq(F)
             /\ \A x \in F : \E i \in DOMAIN s : s[i] = x
             /\ \A i, j \in DOMAIN s : i < j => <<s[i], s[j]>> \in order
             /\ E # {} => /\ l \in E
                          /\ \A x \in E : x = l \/ <<x, l>> \in order
                          /\ \A x \in S \ E : <<l, x>> \in order
<1>1. IsFiniteSet(E) /\ IsOrder(E, order)
  BY FS_Subset, PartIsOrdered DEF Begins
<1>2. IsFiniteSet(F) /\ IsOrder(F, order)
  BY <1>1, FS_Subset, PartIsOrdered
<1>3. LET s == InOrderOf(F, order)
      IN  /\ s \in Seq(F)
          /\ \A x \in F : \E i \in DOMAIN s : s[i] = x
          /\ \A i, j \in DOMAIN s : i < j => <<s[i], s[j]>> \in order
  BY <1>2, InOrderOfSet
<1>4. ASSUME E # {}
      PROVE  LET l == LastOf(E, order)
             IN  /\ l \in E
                 /\ \A x \in E : x = l \/ <<x, l>> \in order
                 /\ \A x \in S \ E : <<l, x>> \in order
  <2> DEFINE l == LastOf(E, order)
  <2>1. l \in E /\ \A x \in E : x = l \/ <<x, l>> \in order
    BY <1>1, <1>4, LastOfSet
  <2> HIDE DEF l
  <2>2. \A x \in S \ E : <<l, x>> \in order
    BY <2>1 DEF IsOrder, Begins
  <2> QED BY <2>1, <2>2 DEF l
<1> QED BY <1>3, <1>4

(* What is said of a page p of the candidates C of a request: it has those *)
(* of them that the filter lets through, in order, to its end or up to the *)
(* item from which its last key is made.                                   *)
LastKey(e) ==
  IF backend = "memdb" THEN LastEvaluatedKey(IF Scans THEN Def ELSE TableSchema.key, e)
  ELSE [a \in KeyAttrs(TableSchema.key) \cup KeyAttrs(Def) |-> e[a]]

IsPage(p, C) ==
  /\ p.items \in Seq(C)
  /\ \A i \in DOMAIN p.items : Filtered(call.filter, p.items[i]) = "true"
  /\ \A i, j \in DOMAIN p.items : i < j => Before(p.items[i], p.items[j])
  /\ \/ /\ p.last = NoItem
        /\ \A x \in C : Filtered(call.filter, x) = "true" =>
             \E i \in DOMAIN p.items : p.items[i] = x
     \/ \E e \in C :
          /\ p.last = LastKey(e)
          /\ \A i \in DOMAIN p.items : p.items[i] = e \/ Before(p.items[i], e)
          /\ \A x \in C : Filtered(call.filter, x) = "true" =>
               Before(e, x) \/ \E i \in DOMAIN p.items : p.items[i] = x

(* The same of a page p of the in-memory backend, of the keys K.           *)
IsPageOf(p, K, order, items, def, filter) ==
  \E s \in Seq(K) :
    /\ p.items = [i \in DOMAIN s |-> items[s[i]]]
    /\ \A i \in DOMAIN s : Filtered(filter, items[s[i]]) = "true"
    /\ \A i, j \in DOMAIN s : i < j => <<s[i], s[j]>> \in order
    /\ \/ /\ p.last = NoItem
          /\ \A k \in K : Filtered(filter, items[k]) = "true" => \E i \in DOMAIN s : s[i] = k
       \/ \E e \in K :
            /\ p.last = LastEvaluatedKey(def, items[e])
            /\ \A i \in DOMAIN s : s[i] = e \/ <<s[i], e>> \in order
            /\ \A k \in K : Filtered(filter, items[k]) = "true" =>
                 <<e, k>> \in order \/ \E i \in DOMAIN s : s[i] = k

(* What PageOf makes of the keys K.                                        *)
LEMMA PageOfKeys ==
  ASSUME NEW K, IsFiniteSet(K), NEW order, IsOrder(K, order), NEW items, NEW def,
         NEW req, req.limit \in Nat, PageOf(K, order, items, def, req) # Err
  PROVE  IsPageOf(PageOf(K, order, items, def, req), K, order, items, def, req.filter)
<1> DEFINE more == req.limit > 0 /\ Cardinality(K) > req.limit
           E    == IF more THEN FirstOf(K, order, req.limit) ELSE K
           passes(k) == Filtered(req.filter, items[k]) = "true"
           F    == {k \in E : passes(k)}
           s    == InOrderOf(F, order)
           l    == LastOf(E, order)
           p    == PageOf(K, order, items, def, req)
<1>1. p = [items |-> [i \in DOMAIN s |-> items[s[i]]],
           last  |-> IF more THEN LastEvaluatedKey(def, items[l]) ELSE NoItem]
  BY Zenon DEF PageOf
<1>2. Cardinality(K) \in Nat
  BY FS_CardinalityType
<1>3. E \subseteq K /\ Begins(E, K, order) /\ (more => E # {})
  <2>1. CASE more
    <3>1. K # {}
      BY <1>2, <2>1, FS_EmptySet
    <3>2. E = FirstOf(K, order, req.limit)
      BY <2>1
    <3> HIDE DEF E
    <3> QED BY <2>1, <3>1, <3>2, FirstOfSet DEF Begins
  <2>2. CASE ~more
    BY <2>2 DEF Begins
  <2> QED BY <2>1, <2>2
<1>4. F \subseteq E
  OBVIOUS
<1> HIDE DEF E
<1>5. \A k : k \in F <=> k \in E /\ passes(k)
  OBVIOUS
<1> HIDE DEF F
<1>6. /\ s \in Seq(F)
      /\ \A x \in F : \E i \in DOMAIN s : s[i] = x
      /\ \A i, j \in DOMAIN s : i < j => <<s[i], s[j]>> \in order
      /\ E # {} => /\ l \in E
                   /\ \A x \in E : x = l \/ <<x, l>> \in order
                   /\ \A x \in K \ E : <<l, x>> \in order
  BY <1>3, <1>4, CutFacts
<1> HIDE DEF s, l, p
<1>7. s \in Seq(K) /\ \A i \in DOMAIN s : s[i] \in F
  BY <1>3, <1>4, <1>6
<1>8. p.items = [i \in DOMAIN s |-> items[s[i]]]
  BY <1>1
<1> HIDE DEF passes
<1>9. \A i \in DOMAIN s : passes(s[i])
  BY <1>5, <1>7
<1>10. \/ /\ p.last = NoItem
          /\ \A k \in K : passes(k) => \E i \in DOMAIN s : s[i] = k
       \/ \E e \in K :
            /\ p.last = LastEvaluatedKey(def, items[e])
            /\ \A i \in DOMAIN s : s[i] = e \/ <<s[i], e>> \in order
            /\ \A k \in K : passes(k) =>
                 <<e, k>> \in order \/ \E i \in DOMAIN s : s[i] = k
  <2>1. CASE more
    <3>1. l \in K /\ p.last = LastEvaluatedKey(def, items[l])
      BY <1>1, <1>3, <1>6, <2>1
    <3>2. \A i \in DOMAIN s : s[i] = l \/ <<s[i], l>> \in order
      BY <1>3, <1>4, <1>6, <1>7, <2>1
    <3>3. \A k \in K : passes(k) => <<l, k>> \in order \/ \E i \in DOMAIN s : s[i] = k
      BY <1>3, <1>5, <1>6, <2>1
    <3> QED BY <3>1, <3>2, <3>3
  <2>2. CASE ~more
    <3>1. E = K
      BY <2>2 DEF E
    <3>2. p.last = NoItem
      BY <1>1, <2>2
    <3>3. \A k \in K : passes(k) => \E i \in DOMAIN s : s[i] = k
      BY <1>5, <1>6, <3>1
    <3> QED BY <3>2, <3>3
  <2> QED BY <2>1, <2>2
<1>11. /\ p.items = [i \in DOMAIN s |-> items[s[i]]]
       /\ \A i \in DOMAIN s : passes(s[i])
       /\ \A i, j \in DOMAIN s : i < j => <<s[i], s[j]>> \in order
  BY <1>6, <1>8, <1>9
<1> QED BY <1>7, <1>10, <1>11 DEF passes, p, IsPageOf

(* The keys that a request to the in-memory backend goes through, and the  *)
(* one of its start key.                                                   *)
MemItems == Source(TableSchema, table, call.index).items

MemCond == ParseKeyCondition(Def, call.parts)

MemKeys == IF Scans THEN DOMAIN MemItems ELSE {k \in DOMAIN MemItems : k[1] = MemCond.hash}

StartRange == IF Def.range \in DOMAIN start THEN start[Def.range] ELSE NoRange

MemPlace ==
  {k \in MemKeys : IF Scans THEN k = KeyOf(Def, start) ELSE start # NoItem /\ k[2] = StartRange}

(* The entries that a request is about.                                    *)
Candidates ==
  {x \in Entries(table) : IF backend = "memdb" THEN \A k \in MemPlace : Before(MemItems[k], x)
                          ELSE start = NoItem \/ Before(start, x)}

(* The request that is made of the in-memory backend, in these words.      *)
LEMMA MemPageOf ==
  ASSUME Kept, call \in Calls, MemPage # Err
  PROVE  LET order == KeyOrder(MemKeys, call.forward)
             after == KeysAfter(MemKeys, order, MemPlace)
             K     == IF Scans THEN after
                      ELSE {k \in after : MatchesSort(Def, MemCond.sort, MemItems[k])}
         IN  /\ call.index \in Index \cup {NoIndex}
             /\ ~Scans => MemCond # Err
             /\ \E req : /\ req.filter = call.filter /\ req.limit = limit
                         /\ MemPage = PageOf(K, order, MemItems,
                                             IF Scans THEN Def ELSE TableSchema.key, req)
<1> DEFINE req == [index |-> call.index, parts |-> call.parts, forward |-> call.forward,
                   filter |-> call.filter, limit |-> limit, start |-> start]
           order == KeyOrder(MemKeys, call.forward)
           after == KeysAfter(MemKeys, order, MemPlace)
<1>1. /\ req.index = call.index /\ req.parts = call.parts /\ req.forward = call.forward
      /\ req.filter = call.filter /\ req.limit = limit /\ req.start = start
  OBVIOUS
<1>2. MemPage = IF Scans THEN ScanPage(TableSchema, table, req) ELSE QueryPage(TableSchema, table, req)
  BY Zenon DEF MemPage
<1> HIDE DEF req
<1>3. call.index \in Index \cup {NoIndex}
  BY <1>1, <1>2, Zenon DEF ScanPage, QueryPage
<1>4. Source(TableSchema, table, call.index).def = Def
  BY <1>3, SourceFacts DEF Kept, Def
<1>5. CASE Scans
  <2>1. call.forward = TRUE
    BY <1>5, PagingAssumption DEF Scans
  <2>2. MemKeys = DOMAIN MemItems /\ MemPlace = {k \in DOMAIN MemItems : k = KeyOf(Def, start)}
    BY <1>5 DEF MemKeys, MemPlace
  <2>3. MemPage = PageOf(KeysAfter(DOMAIN MemItems, KeyOrder(DOMAIN MemItems, TRUE),
                                   {k \in DOMAIN MemItems : k = KeyOf(Def, start)}),
                         KeyOrder(DOMAIN MemItems, TRUE), MemItems, Def, req)
    BY <1>1, <1>2, <1>3, <1>4, <1>5, Zenon DEF ScanPage, MemItems
  <2>4. MemPage = PageOf(after, order, MemItems, Def, req)
    BY <2>1, <2>2, <2>3, Zenon
  <2> QED BY <1>1, <1>3, <1>5, <2>4
<1>6. CASE ~Scans
  <2> DEFINE K == {k \in after : MatchesSort(Def, MemCond.sort, MemItems[k])}
  <2>1. /\ MemKeys = {k \in DOMAIN MemItems : k[1] = MemCond.hash}
        /\ MemPlace = {k \in MemKeys : start # NoItem /\ k[2] = StartRange}
    BY <1>6 DEF MemKeys, MemPlace
  <2>2. /\ MemCond # Err
        /\ MemPage =
             LET sorted == KeyOrder({k \in DOMAIN MemItems : k[1] = MemCond.hash}, call.forward)
                 place  == {l \in {k \in DOMAIN MemItems : k[1] = MemCond.hash} :
                              start # NoItem /\ l[2] = StartRange}
             IN  PageOf({k \in KeysAfter({k \in DOMAIN MemItems : k[1] = MemCond.hash}, sorted, place) :
                           MatchesSort(Def, MemCond.sort, MemItems[k])},
                        sorted, MemItems, TableSchema.key, req)
    BY <1>1, <1>2, <1>3, <1>4, <1>6, Zenon DEF QueryPage, MemItems, MemCond, StartRange
  <2>3. MemPage = PageOf(K, order, MemItems, TableSchema.key, req)
    BY <2>1, <2>2, Zenon
  <2> QED BY <1>1, <1>3, <1>6, <2>2, <2>3
<1> QED BY <1>5, <1>6

(* The in-memory backend answers with a page of the candidates.            *)
LEMMA MemPageIsPage ==
  ASSUME Kept, backend = "memdb", call \in Calls, limit \in Nat, MemPage # Err
  PROVE  IsPage(MemPage, Candidates)
<1> DEFINE order == KeyOrder(MemKeys, call.forward)
           after == KeysAfter(MemKeys, order, MemPlace)
           K     == IF Scans THEN after
                    ELSE {k \in after : MatchesSort(Def, MemCond.sort, MemItems[k])}
           def   == IF Scans THEN Def ELSE TableSchema.key
<1>1. PICK req : /\ req.filter = call.filter /\ req.limit = limit
                 /\ MemPage = PageOf(K, order, MemItems, def, req)
  BY MemPageOf
<1>2. call.index \in Index \cup {NoIndex} /\ (~Scans => MemCond # Err)
  BY MemPageOf
<1>3. /\ IsMap(MemItems) /\ IsFiniteSet(DOMAIN MemItems)
      /\ \A k \in DOMAIN MemItems : KeyOf(Def, MemItems[k]) = k
  <2>1. Source(TableSchema, table, call.index).def = Def
    BY <1>2, SourceFacts DEF Kept, Def
  <2> QED BY <1>2, <2>1, SourceFacts DEF Kept, UnderTheirKeys, MemItems
<1>4. /\ MemKeys \subseteq DOMAIN MemItems /\ MemPlace \subseteq MemKeys /\ MemKeys \subseteq Key
  BY <1>3 DEF MemKeys, MemPlace, IsMap
<1>5. \A k, l \in MemKeys : <<k, l>> \in order <=> Before(MemItems[k], MemItems[l])
  <2> SUFFICES ASSUME NEW k \in MemKeys, NEW l \in MemKeys
               PROVE  <<k, l>> \in order <=> Before(MemItems[k], MemItems[l])
    OBVIOUS
  <2>1. <<k, l>> \in order <=> IF call.forward THEN KeyLess(k, l) ELSE KeyLess(l, k)
    BY DEF KeyOrder
  <2>2. KeyOf(Def, MemItems[k]) = k /\ KeyOf(Def, MemItems[l]) = l
    BY <1>3, <1>4
  <2>3. Before(MemItems[k], MemItems[l]) <=> IF call.forward THEN KeyLess(k, l) ELSE KeyLess(l, k)
    BY <2>2, Zenon DEF Before, MemLess, Def
  <2> QED BY <2>1, <2>3
<1>6. IsOrder(MemKeys, order)
  <2> DEFINE less == {kl \in Key \X Key : KeyLess(kl[1], kl[2])}
  <2>1. IsOrder(MemKeys, less)
    BY <1>4, KeysAreOrdered, PartIsOrdered
  <2>2. \A k, l \in MemKeys :
          <<k, l>> \in order <=> IF call.forward THEN <<k, l>> \in less ELSE <<l, k>> \in less
    BY <1>4 DEF KeyOrder
  <2> HIDE DEF order, less
  <2> QED BY <2>1, <2>2 DEF IsOrder
<1>7. after = {k \in MemKeys : \A p \in MemPlace : <<p, k>> \in order}
  BY DEF KeysAfter
<1> HIDE DEF order, after
<1>8. K \subseteq MemKeys
  BY <1>7
<1>9. Candidates = {MemItems[k] : k \in K}
  <2>1. Entries(table) =
          {x \in {MemItems[k] : k \in DOMAIN MemItems} :
             Scans \/ (x[Def.hash] = MemCond.hash /\ MatchesSort(Def, MemCond.sort, x))}
    <3>1. CASE Scans
      <4>1. Entries(table) = {MemItems[k] : k \in DOMAIN MemItems}
        BY <1>2, <3>1, Zenon DEF Entries, MemItems
      <4> QED BY <3>1, <4>1
    <3>2. CASE ~Scans
      <4>1. Entries(table) =
              {x \in {MemItems[k] : k \in DOMAIN MemItems} :
                 x[Def.hash] = MemCond.hash /\ MatchesSort(Def, MemCond.sort, x)}
        BY <1>2, <3>2, Zenon DEF Entries, MemItems, Def, MemCond
      <4> QED BY <3>2, <4>1
    <3> QED BY <3>1, <3>2
  <2>2. \A k \in DOMAIN MemItems : MemItems[k][Def.hash] = k[1]
    <3> SUFFICES ASSUME NEW k \in DOMAIN MemItems
                 PROVE  MemItems[k][Def.hash] = k[1]
      OBVIOUS
    <3>1. MemItems[k] \in Item /\ KeyOf(Def, MemItems[k]) = k /\ k # NoKey /\ Def \in KeyDef
      BY <1>2, <1>3, NoKeyIsNoKey, DefOfIndex DEF IsMap, Def
    <3> QED BY <3>1 DEF KeyOf
  <2>3. \A k \in DOMAIN MemItems : k \in MemKeys <=> Scans \/ MemItems[k][Def.hash] = MemCond.hash
    BY <2>2 DEF MemKeys
  <2>4. \A k \in DOMAIN MemItems :
          k \in K <=> MemItems[k] \in Candidates
    <3> SUFFICES ASSUME NEW k \in DOMAIN MemItems
                 PROVE  k \in K <=> MemItems[k] \in Candidates
      OBVIOUS
    <3>1. MemItems[k] \in Candidates <=>
            /\ MemItems[k] \in Entries(table)
            /\ \A p \in MemPlace : Before(MemItems[p], MemItems[k])
      BY DEF Candidates
    <3>2. MemItems[k] \in Entries(table) <=>
            Scans \/ (MemItems[k][Def.hash] = MemCond.hash /\ MatchesSort(Def, MemCond.sort, MemItems[k]))
      BY <2>1
    <3>3. k \in K <=> /\ k \in MemKeys /\ \A p \in MemPlace : <<p, k>> \in order
                      /\ Scans \/ MatchesSort(Def, MemCond.sort, MemItems[k])
      BY <1>7
    <3>4. k \in MemKeys => \A p \in MemPlace : <<p, k>> \in order <=> Before(MemItems[p], MemItems[k])
      BY <1>4, <1>5
    <3> HIDE DEF K
    <3> QED BY <2>3, <3>1, <3>2, <3>3, <3>4
  <2>5. Candidates \subseteq {MemItems[k] : k \in DOMAIN MemItems}
    BY <2>1 DEF Candidates
  <2>6. K \subseteq DOMAIN MemItems
    BY <1>4, <1>8
  <2> HIDE DEF K
  <2> QED BY <2>4, <2>5, <2>6
<1>10. IsFiniteSet(K) /\ IsOrder(K, order)
  <2> HIDE DEF K
  <2>1. K \subseteq DOMAIN MemItems
    BY <1>4, <1>8
  <2> QED BY <1>3, <1>6, <1>8, <2>1, FS_Subset, PartIsOrdered
<1> HIDE DEF K, def
<1>11. PICK s \in Seq(K) :
         /\ MemPage.items = [i \in DOMAIN s |-> MemItems[s[i]]]
         /\ \A i \in DOMAIN s : Filtered(call.filter, MemItems[s[i]]) = "true"
         /\ \A i, j \in DOMAIN s : i < j => <<s[i], s[j]>> \in order
         /\ \/ /\ MemPage.last = NoItem
               /\ \A k \in K : Filtered(call.filter, MemItems[k]) = "true" => \E i \in DOMAIN s : s[i] = k
            \/ \E e \in K :
                 /\ MemPage.last = LastEvaluatedKey(def, MemItems[e])
                 /\ \A i \in DOMAIN s : s[i] = e \/ <<s[i], e>> \in order
                 /\ \A k \in K : Filtered(call.filter, MemItems[k]) = "true" =>
                      <<e, k>> \in order \/ \E i \in DOMAIN s : s[i] = k
  <2>1. req.limit \in Nat /\ PageOf(K, order, MemItems, def, req) # Err
    BY <1>1
  <2>2. IsPageOf(PageOf(K, order, MemItems, def, req), K, order, MemItems, def, req.filter)
    BY <1>10, <2>1, PageOfKeys
  <2>3. IsPageOf(MemPage, K, order, MemItems, def, call.filter)
    BY <1>1, <2>2
  <2> QED BY <2>3 DEF IsPageOf
<1>12. /\ DOMAIN MemPage.items = DOMAIN s
       /\ \A i \in DOMAIN s : s[i] \in K /\ MemPage.items[i] = MemItems[s[i]]
  BY <1>11
<1>13. \A k, l \in K : <<k, l>> \in order <=> Before(MemItems[k], MemItems[l])
  BY <1>5, <1>8
<1>14. MemPage.items \in Seq(Candidates)
  <2>1. DOMAIN s = 1..Len(s) /\ Len(s) \in Nat
    OBVIOUS
  <2>2. \A i \in 1..Len(s) : MemItems[s[i]] \in Candidates
    BY <1>9, <1>12, <2>1
  <2>3. MemPage.items = [i \in 1..Len(s) |-> MemItems[s[i]]]
    BY <1>11, <2>1
  <2> QED BY <2>1, <2>2, <2>3
<1>15. \A i, j \in DOMAIN MemPage.items : i < j => Before(MemPage.items[i], MemPage.items[j])
  <2> SUFFICES ASSUME NEW i \in DOMAIN s, NEW j \in DOMAIN s, i < j
               PROVE  Before(MemItems[s[i]], MemItems[s[j]])
    <3>1. /\ DOMAIN MemPage.items = DOMAIN s
          /\ \A k \in DOMAIN s : MemPage.items[k] = MemItems[s[k]]
      BY <1>12, Zenon
    <3>2. TAKE i, j \in DOMAIN MemPage.items
    <3>3. HAVE i < j
    <3>4. i \in DOMAIN s /\ j \in DOMAIN s
      BY <3>1, Zenon
    <3>5. MemPage.items[i] = MemItems[s[i]] /\ MemPage.items[j] = MemItems[s[j]]
      BY <3>1, <3>4, Zenon
    <3> QED BY <3>3, <3>4, <3>5, Zenon
  <2>1. <<s[i], s[j]>> \in order /\ s[i] \in K /\ s[j] \in K
    BY <1>11, <1>12
  <2> QED BY <1>13, <2>1, Zenon
<1>16. \/ /\ MemPage.last = NoItem
          /\ \A x \in Candidates : Filtered(call.filter, x) = "true" =>
               \E i \in DOMAIN MemPage.items : MemPage.items[i] = x
       \/ \E e \in Candidates :
            /\ MemPage.last = LastKey(e)
            /\ \A i \in DOMAIN MemPage.items : MemPage.items[i] = e \/ Before(MemPage.items[i], e)
            /\ \A x \in Candidates : Filtered(call.filter, x) = "true" =>
                 Before(e, x) \/ \E i \in DOMAIN MemPage.items : MemPage.items[i] = x
  <2>1. CASE /\ MemPage.last = NoItem
             /\ \A k \in K : Filtered(call.filter, MemItems[k]) = "true" => \E i \in DOMAIN s : s[i] = k
    BY <1>9, <1>12, <2>1
  <2>2. ASSUME NEW e \in K,
               MemPage.last = LastEvaluatedKey(def, MemItems[e]),
               \A i \in DOMAIN s : s[i] = e \/ <<s[i], e>> \in order,
               \A k \in K : Filtered(call.filter, MemItems[k]) = "true" =>
                 <<e, k>> \in order \/ \E i \in DOMAIN s : s[i] = k
        PROVE  \E x \in Candidates :
                 /\ MemPage.last = LastKey(x)
                 /\ \A i \in DOMAIN MemPage.items : MemPage.items[i] = x \/ Before(MemPage.items[i], x)
                 /\ \A y \in Candidates : Filtered(call.filter, y) = "true" =>
                      Before(x, y) \/ \E i \in DOMAIN MemPage.items : MemPage.items[i] = y
    <3>1. MemItems[e] \in Candidates /\ MemPage.last = LastKey(MemItems[e])
      BY <1>9, <2>2 DEF LastKey, def
    <3>2. \A i \in DOMAIN MemPage.items :
            MemPage.items[i] = MemItems[e] \/ Before(MemPage.items[i], MemItems[e])
      BY <1>12, <1>13, <2>2
    <3>3. \A y \in Candidates : Filtered(call.filter, y) = "true" =>
            Before(MemItems[e], y) \/ \E i \in DOMAIN MemPage.items : MemPage.items[i] = y
      <4> SUFFICES ASSUME NEW k \in K, Filtered(call.filter, MemItems[k]) = "true"
                   PROVE  \/ Before(MemItems[e], MemItems[k])
                          \/ \E i \in DOMAIN MemPage.items : MemPage.items[i] = MemItems[k]
        BY <1>9
      <4>1. CASE <<e, k>> \in order
        BY <1>13, <2>2, <4>1, Zenon
      <4>2. CASE \E i \in DOMAIN s : s[i] = k
        BY <1>12, <4>2, Zenon
      <4> QED BY <2>2, <4>1, <4>2, Zenon
    <3> QED BY <3>1, <3>2, <3>3
  <2> QED BY <1>11, <2>1, <2>2
<1>17. \A i \in DOMAIN MemPage.items : Filtered(call.filter, MemPage.items[i]) = "true"
  BY <1>11, <1>12
<1> QED BY <1>14, <1>15, <1>16, <1>17 DEF IsPage

(* DynamoDB answers with a page of the candidates, wherever it stops.      *)
LEMMA ServicePageIsPage ==
  ASSUME Kept, backend = "service", NEW p \in ServicePages
  PROVE  IsPage(p, Candidates)
<1> DEFINE C      == Candidates
           order  == {xy \in C \X C : Before(xy[1], xy[2])}
           all    == Cardinality(C)
           lek(x) == [a \in KeyAttrs(TableSchema.key) \cup KeyAttrs(Def) |-> x[a]]
           E(n)   == FirstOf(C, order, n)
           F(n)   == {x \in E(n) : Filtered(call.filter, x) = "true"}
           cut(n) == [items |-> InOrderOf(F(n), order),
                      last  |-> IF n > 0 /\ (n < all \/ n = limit) THEN lek(LastOf(E(n), order))
                                ELSE NoItem]
<1>1. C = {x \in Entries(table) : start = NoItem \/ Before(start, x)}
  BY DEF Candidates
<1>2. PICK n \in 0..all : (n = 0 => all = 0) /\ p = cut(n)
  <2>1. \E n \in {n \in 0..all : (n = 0 => all = 0) /\ (limit > 0 => n <= limit)} : p = cut(n)
    <3>1. p \in {cut(n) : n \in {n \in 0..all : (n = 0 => all = 0) /\ (limit > 0 => n <= limit)}}
      BY <1>1, Zenon DEF ServicePages, Def
    <3> QED BY <3>1
  <2> QED BY <2>1
<1>3. lek(LastOf(E(n), order)) = LastKey(LastOf(E(n), order))
  BY DEF LastKey
<1>4. C \subseteq Entries(table)
  BY <1>1
<1>5. \A x, y \in C : <<x, y>> \in order <=> Before(x, y)
  OBVIOUS
<1> HIDE DEF C, order
<1>6. IsFiniteSet(C) /\ IsOrder(C, order)
  <2>1. C \subseteq Entry /\ \A x, y \in C : Rank(x) = Rank(y) => x = y
    BY <1>4, EntriesFacts
  <2>2. IsFiniteSet(C)
    BY <1>4, EntriesFacts, FS_Subset
  <2>3. IsOrder(C, order)
    BY <1>5, <2>1, BeforeIsOrder DEF IsOrder, Kept
  <2> QED BY <2>2, <2>3
<1>7. all \in Nat /\ n \in Nat
  BY <1>6, FS_CardinalityType
<1>8. /\ Begins(E(n), C, order)
      /\ n > 0 /\ C # {} => E(n) # {}
      /\ n >= all => E(n) = C
  BY <1>6, <1>7, FirstOfSet DEF Begins
<1>9. F(n) \subseteq E(n) /\ \A x : x \in F(n) <=> x \in E(n) /\ Filtered(call.filter, x) = "true"
  OBVIOUS
<1> DEFINE s == InOrderOf(F(n), order)
           l == LastOf(E(n), order)
<1>10. p.items = s /\ p.last = IF n > 0 /\ (n < all \/ n = limit) THEN LastKey(l) ELSE NoItem
  BY <1>2, <1>3
<1> HIDE DEF E, F
<1>11. /\ s \in Seq(F(n))
       /\ \A x \in F(n) : \E i \in DOMAIN s : s[i] = x
       /\ \A i, j \in DOMAIN s : i < j => <<s[i], s[j]>> \in order
       /\ E(n) # {} => /\ l \in E(n)
                       /\ \A x \in E(n) : x = l \/ <<x, l>> \in order
                       /\ \A x \in C \ E(n) : <<l, x>> \in order
  BY <1>6, <1>8, <1>9, CutFacts
<1> HIDE DEF s, l
<1>12. \A i \in DOMAIN s : s[i] \in F(n) /\ s[i] \in E(n) /\ s[i] \in C
  BY <1>8, <1>9, <1>11 DEF Begins
<1>13. s \in Seq(C)
  BY <1>11, <1>12
<1>14. \A i \in DOMAIN s : Filtered(call.filter, s[i]) = "true"
  BY <1>9, <1>12
<1>15. \A i, j \in DOMAIN s : i < j => Before(s[i], s[j])
  <2> SUFFICES ASSUME NEW i \in DOMAIN s, NEW j \in DOMAIN s, i < j
               PROVE  Before(s[i], s[j])
    OBVIOUS
  <2> QED BY <1>5, <1>11, <1>12
<1>16. \/ /\ p.last = NoItem
          /\ \A x \in C : Filtered(call.filter, x) = "true" => \E i \in DOMAIN s : s[i] = x
       \/ \E e \in C :
            /\ p.last = LastKey(e)
            /\ \A i \in DOMAIN s : s[i] = e \/ Before(s[i], e)
            /\ \A x \in C : Filtered(call.filter, x) = "true" =>
                 Before(e, x) \/ \E i \in DOMAIN s : s[i] = x
  <2>1. CASE n > 0 /\ (n < all \/ n = limit)
    <3>1. C # {}
      <4>1. all # 0
        BY <1>7, <2>1
      <4> QED BY <1>6, <4>1, FS_EmptySet
    <3>2. E(n) # {}
      BY <1>8, <2>1, <3>1
    <3>3. l \in C /\ l \in E(n) /\ p.last = LastKey(l)
      BY <1>8, <1>10, <1>11, <2>1, <3>2 DEF Begins
    <3>4. \A i \in DOMAIN s : s[i] = l \/ Before(s[i], l)
      <4> SUFFICES ASSUME NEW i \in DOMAIN s
                   PROVE  s[i] = l \/ Before(s[i], l)
        OBVIOUS
      <4> QED BY <1>5, <1>11, <1>12, <3>2, <3>3
    <3>5. \A x \in C : Filtered(call.filter, x) = "true" =>
            Before(l, x) \/ \E i \in DOMAIN s : s[i] = x
      BY <1>5, <1>9, <1>11, <3>2, <3>3
    <3> QED BY <3>3, <3>4, <3>5
  <2>2. CASE ~(n > 0 /\ (n < all \/ n = limit))
    <3>1. p.last = NoItem
      BY <1>10, <2>2
    <3>2. E(n) = C
      <4>1. n >= all
        BY <1>2, <1>7, <2>2
      <4> QED BY <1>8, <4>1
    <3>3. \A x \in C : Filtered(call.filter, x) = "true" => \E i \in DOMAIN s : s[i] = x
      BY <1>9, <1>11, <3>2
    <3> QED BY <3>1, <3>3
  <2> QED BY <2>1, <2>2
<1>17. IsPage(p, C)
  BY <1>10, <1>13, <1>14, <1>15, <1>16 DEF IsPage
<1> QED BY <1>17 DEF C

(* So does the backend, whichever it is.                                   *)
LEMMA PagesArePages ==
  ASSUME Kept, call \in Calls, limit \in Nat, NEW p \in Pages
  PROVE  IsPage(p, Candidates)
<1>1. CASE backend = "memdb"
  BY <1>1, MemPageIsPage DEF Pages
<1>2. CASE backend = "service"
  BY <1>2, ServicePageIsPage DEF Pages
<1> QED BY <1>1, <1>2 DEF Kept

-------------------------------------------------------------------------------
(* Where the next page begins.                                             *)

(* Before depends on the places only.                                      *)
LEMMA BeforeByRank ==
  ASSUME backend \in {"memdb", "service"},
         NEW x \in Entry, NEW y \in Entry, Rank(x) = Rank(y), NEW z \in Entry
  PROVE  Before(x, z) <=> Before(y, z)
<1>1. PICK R, order :
        /\ IsOrder(R, order)
        /\ \A u \in Entry : Rank(u) \in R
        /\ \A u, v \in Entry :
             Before(u, v) <=> IF call.forward THEN <<Rank(u), Rank(v)>> \in order
                              ELSE <<Rank(v), Rank(u)>> \in order
  BY RanksAreOrdered
<1> QED BY <1>1

(* A key to continue after is an item, and never the empty one.            *)
LEMMA LastKeyIsKey ==
  ASSUME backend \in {"memdb", "service"}, NEW e \in Entry
  PROVE  LastKey(e) \in Item /\ LastKey(e) # NoItem
<1>1. /\ e \in Item /\ Def \in KeyDef /\ TableSchema.key \in KeyDef
      /\ KeyOf(Def, e) # NoKey /\ KeyOf(TableSchema.key, e) # NoKey
  BY DefOfIndex, TableAssumption DEF Entry, Def, Schema
<1>2. /\ \A a \in KeyAttrs(Def) : a \in Attr /\ a \in DOMAIN e /\ e[a] \in Value
      /\ \A a \in KeyAttrs(TableSchema.key) : a \in Attr /\ a \in DOMAIN e /\ e[a] \in Value
      /\ Def.hash \in KeyAttrs(Def) /\ TableSchema.key.hash \in KeyAttrs(TableSchema.key)
  BY <1>1, KeyOfParts, ValueAssumption
<1>3. ASSUME NEW D \in SUBSET Attr, D # {}, \A a \in D : e[a] \in Value
      PROVE  [a \in D |-> e[a]] \in Item /\ [a \in D |-> e[a]] # NoItem
  <2>1. [a \in D |-> e[a]] \in [D -> Value]
    BY <1>3
  <2>2. DOMAIN [a \in D |-> e[a]] = D /\ DOMAIN NoItem = {}
    BY DEF NoItem
  <2> QED BY <1>3, <2>1, <2>2 DEF Item
<1>4. CASE backend = "memdb"
  <2> DEFINE def == IF Scans THEN Def ELSE TableSchema.key
             D   == KeyAttrs(def) \cap DOMAIN e
  <2>1. D \in SUBSET Attr /\ D # {} /\ \A a \in D : e[a] \in Value
    BY <1>2
  <2>2. LastKey(e) = [a \in D |-> e[a]]
    BY <1>4 DEF LastKey, LastEvaluatedKey
  <2> HIDE DEF D
  <2> QED BY <1>3, <2>1, <2>2
<1>5. CASE backend = "service"
  <2> DEFINE D == KeyAttrs(TableSchema.key) \cup KeyAttrs(Def)
  <2>1. D \in SUBSET Attr /\ D # {} /\ \A a \in D : e[a] \in Value
    BY <1>2
  <2>2. LastKey(e) = [a \in D |-> e[a]]
    BY <1>5 DEF LastKey
  <2> HIDE DEF D
  <2> QED BY <1>3, <2>1, <2>2
<1> QED BY <1>4, <1>5

(* The entries of the partition that is read.                              *)
Partition == {x \in Entry : ~Scans => x[Def.hash] = MemCond.hash}

(* A call finds nothing else.                                              *)
LEMMA EntriesInPartition ==
  ASSUME Kept
  PROVE  Entries(table) \subseteq Partition
<1>1. Entries(table) \subseteq Entry
  BY EntriesFacts
<1>2. ASSUME NEW x \in Entries(table), ~Scans
      PROVE  x[Def.hash] = MemCond.hash
  BY <1>2 DEF Entries, Def, MemCond
<1> QED BY <1>1, <1>2 DEF Partition

(* The in-memory backend finds the key of e, if it is there, unless it     *)
(* loses the place.                                                        *)
LEMMA MemPlaceIs ==
  ASSUME Kept, backend = "memdb", NEW e \in Partition, start = LastKey(e),
         NEW k \in MemKeys
  PROVE  IF LosesPlace THEN k \notin MemPlace ELSE k \in MemPlace <=> k = KeyOf(Def, e)
<1> DEFINE key == TableSchema.key
<1>1. /\ e \in Entry /\ e \in Item /\ Def \in KeyDef /\ key \in KeyDef
      /\ KeyOf(Def, e) # NoKey /\ KeyOf(key, e) # NoKey /\ call.index \in Index \cup {NoIndex}
  BY DefOfIndex, TableAssumption DEF Partition, Entry, Def, Schema
<1>2. start # NoItem
  BY <1>1, LastKeyIsKey DEF Kept
<1>3. /\ KeyOf(Def, e) = <<KeyPartOf(Def.hash, e), KeyPartOf(Def.range, e)>>
      /\ \A a \in KeyAttrs(Def) : a \in Attr /\ a \in DOMAIN e /\ e[a] \in KeyValue
      /\ Def.hash \in KeyAttrs(Def) /\ (Def.range # NoRange => Def.range \in KeyAttrs(Def))
      /\ \A a \in KeyAttrs(key) : a \in Attr /\ a \in DOMAIN e /\ e[a] \in KeyValue
  BY <1>1, KeyOfParts
<1>4. MemItems[k] \in Item /\ KeyOf(Def, MemItems[k]) = k /\ k \in Key
  <2>1. k \in DOMAIN MemItems
    BY DEF MemKeys
  <2>2. Source(TableSchema, table, call.index).def = Def
    BY <1>1, SourceFacts DEF Kept, Def
  <2> QED BY <1>1, <2>1, <2>2, SourceFacts DEF Kept, MemItems, UnderTheirKeys, IsMap
<1>5. CASE Scans
  <2>1. start = [a \in KeyAttrs(Def) |-> e[a]]
    <3>1. KeyAttrs(Def) \cap DOMAIN e = KeyAttrs(Def)
      BY <1>3
    <3>2. start = [a \in KeyAttrs(Def) \cap DOMAIN e |-> e[a]]
      BY <1>5 DEF LastKey, LastEvaluatedKey
    <3> QED BY <3>1, <3>2
  <2>2. KeyOf(Def, start) = KeyOf(Def, e)
    <3>1. \A a \in KeyAttrs(Def) : HasKeyAttr(start, a) /\ HasKeyAttr(e, a) /\ start[a] = e[a]
      BY <1>3, <2>1 DEF HasKeyAttr
    <3> QED BY <1>3, <3>1 DEF KeyOf
  <2>3. k \in MemPlace <=> k = KeyOf(Def, e)
    BY <1>5, <2>2 DEF MemPlace
  <2> QED BY <1>5, <2>3 DEF LosesPlace
<1>6. CASE ~Scans
  <2>1. start = [a \in KeyAttrs(key) |-> e[a]]
    <3>1. KeyAttrs(key) \cap DOMAIN e = KeyAttrs(key)
      BY <1>3
    <3>2. start = [a \in KeyAttrs(key) \cap DOMAIN e |-> e[a]]
      BY <1>6 DEF LastKey, LastEvaluatedKey
    <3> QED BY <3>1, <3>2
  <2>2. k \in MemPlace <=> k[2] = StartRange
    BY <1>2, <1>6 DEF MemPlace
  <2>3. k[1] = KeyOf(Def, e)[1]
    <3>1. k[1] = MemCond.hash
      BY <1>6 DEF MemKeys
    <3>2. e[Def.hash] = MemCond.hash
      BY <1>6 DEF Partition
    <3>3. KeyPartOf(Def.hash, e) = e[Def.hash]
      BY <1>3, ValueAssumption DEF KeyPartOf
    <3> QED BY <1>3, <3>1, <3>2, <3>3
  <2>4. k = KeyOf(Def, e) <=> k[2] = KeyPartOf(Def.range, e)
    BY <1>3, <1>4, <2>3 DEF Key
  <2>5. LosesPlace <=> Def.range \notin KeyAttrs(key) \cup {NoRange}
    <3>1. CASE call.index = NoIndex
      <4>1. Def = key /\ ~LosesPlace
        BY <3>1, TableAssumption DEF Def, ServiceDef, LosesPlace
      <4> QED BY <1>3, <4>1
    <3>2. CASE call.index # NoIndex
      BY <1>1, <1>6, <3>2 DEF LosesPlace, Def, ServiceDef
    <3> QED BY <3>1, <3>2
  <2>6. CASE LosesPlace
    <3>1. StartRange = NoRange
      BY <2>1, <2>5, <2>6 DEF StartRange
    <3>2. k[2] \in KeyValue
      BY <1>1, <1>4, <2>5, <2>6, NoKeyIsNoKey DEF KeyOf, HasKeyAttr
    <3> QED BY <2>2, <2>6, <3>1, <3>2, ValueAssumption
  <2>7. CASE ~LosesPlace
    <3>1. CASE Def.range = NoRange
      <4>1. StartRange = NoRange
        BY <1>3, <2>1, <3>1, ValueAssumption DEF StartRange
      <4> QED BY <2>2, <2>4, <2>7, <3>1, <4>1 DEF KeyPartOf
    <3>2. CASE Def.range # NoRange
      <4>1. Def.range \in KeyAttrs(key)
        BY <2>5, <2>7, <3>2
      <4>2. StartRange = e[Def.range]
        BY <2>1, <4>1 DEF StartRange
      <4> QED BY <2>2, <2>4, <2>7, <3>2, <4>2 DEF KeyPartOf
    <3> QED BY <3>1, <3>2
  <2> QED BY <2>6, <2>7
<1> QED BY <1>5, <1>6

(* The start key of a new call is nobody's.                                *)
LEMMA FirstCandidates ==
  ASSUME Kept, call.index \in Index \cup {NoIndex}, start = NoItem
  PROVE  Candidates = Entries(table)
<1>1. KeyOf(Def, start) = NoKey
  BY DefOfIndex, NoItemHasNoKey DEF Def
<1>2. \A k \in MemKeys : k \in Key
  BY SourceFacts DEF MemKeys, MemItems, Kept, IsMap
<1>3. MemPlace = {}
  BY <1>1, <1>2, NoKeyIsNoKey DEF MemPlace
<1> QED BY <1>3 DEF Candidates, Kept

(* DynamoDB goes by the key attributes, which the start key has.           *)
LEMMA StartKeyRank ==
  ASSUME backend = "service", NEW e \in Entry, start = LastKey(e), NEW x
  PROVE  Before(start, x) <=> Before(e, x)
<1>1. /\ e \in Item /\ Def \in KeyDef /\ TableSchema.key \in KeyDef
      /\ KeyOf(Def, e) # NoKey /\ KeyOf(TableSchema.key, e) # NoKey
  BY DefOfIndex, TableAssumption DEF Entry, Def, Schema
<1> DEFINE D == KeyAttrs(TableSchema.key) \cup KeyAttrs(Def)
<1>2. start = [a \in D |-> e[a]]
  BY DEF LastKey
<1>3. ASSUME NEW def \in KeyDef, KeyAttrs(def) \subseteq D, KeyOf(def, e) # NoKey
      PROVE  KeyOf(def, start) = KeyOf(def, e)
  <2>1. /\ \A a \in KeyAttrs(def) : a \in DOMAIN e
        /\ def.hash \in KeyAttrs(def) /\ (def.range # NoRange => def.range \in KeyAttrs(def))
    BY <1>1, <1>3, KeyOfParts
  <2>2. \A a \in KeyAttrs(def) : a \in DOMAIN start /\ start[a] = e[a]
    BY <1>2, <1>3
  <2>3. \A a \in KeyAttrs(def) : HasKeyAttr(start, a) <=> HasKeyAttr(e, a)
    BY <2>1, <2>2 DEF HasKeyAttr
  <2> QED BY <2>1, <2>2, <2>3 DEF KeyOf
<1>4. /\ KeyOf(Def, start) = KeyOf(Def, e)
      /\ KeyOf(TableSchema.key, start) = KeyOf(TableSchema.key, e)
  BY <1>1, <1>3
<1>5. ServiceKey(call.index, start) = ServiceKey(call.index, e)
  BY <1>4, Zenon DEF ServiceKey, Def
<1>6. /\ ServiceLess(call.index, start, x) <=> ServiceLess(call.index, e, x)
      /\ ServiceLess(call.index, x, start) <=> ServiceLess(call.index, x, e)
  BY <1>5, Zenon DEF ServiceLess
<1>7. \A u : Before(u, x) <=> IF call.forward THEN ServiceLess(call.index, u, x)
                              ELSE ServiceLess(call.index, x, u)
  BY Zenon DEF Before
<1> QED BY <1>6, <1>7

(* The keys and entries of the in-memory backend.                          *)
LEMMA MemEntry ==
  ASSUME Kept, backend = "memdb", call.index \in Index \cup {NoIndex}, NEW k \in MemKeys
  PROVE  MemItems[k] \in Entry /\ Rank(MemItems[k]) = k
<1>1. /\ MemItems[k] \in Item /\ KeyOf(Def, MemItems[k]) = k /\ k \in Key
      /\ KeyOf(TableSchema.key, MemItems[k]) # NoKey
  <2>1. k \in DOMAIN MemItems
    BY DEF MemKeys
  <2>2. Source(TableSchema, table, call.index).def = Def
    BY SourceFacts DEF Kept, Def
  <2> QED BY <2>1, <2>2, SourceFacts DEF Kept, MemItems, UnderTheirKeys, IsMap
<1> QED BY <1>1, NoKeyIsNoKey DEF Entry, Rank

(* What comes after the place e of the start key is a candidate.           *)
LEMMA LaterIsCandidate ==
  ASSUME Kept, NEW e \in Partition, start = LastKey(e), NEW x \in Entries(table),
         LosesPlace \/ Before(e, x)
  PROVE  x \in Candidates
<1>1. e \in Entry /\ x \in Entry /\ call.index \in Index \cup {NoIndex}
  BY EntriesFacts DEF Partition, Entry
<1>2. CASE backend = "memdb"
  <2> SUFFICES ASSUME NEW k \in MemPlace
               PROVE  Before(MemItems[k], x)
    BY <1>2 DEF Candidates
  <2>1. k \in MemKeys
    BY DEF MemPlace
  <2>2. ~LosesPlace /\ k = KeyOf(Def, e)
    BY <1>2, <2>1, MemPlaceIs
  <2>3. MemItems[k] \in Entry /\ Rank(MemItems[k]) = Rank(e)
    BY <1>1, <1>2, <2>1, <2>2, MemEntry DEF Rank
  <2> QED BY <1>1, <2>2, <2>3, BeforeByRank DEF Kept
<1>3. CASE backend = "service"
  <2>1. Before(start, x)
    BY <1>1, <1>3, StartKeyRank DEF LosesPlace
  <2> QED BY <1>3, <2>1 DEF Candidates
<1> QED BY <1>2, <1>3 DEF Kept

(* A candidate comes after the place of the start key, if that is found.   *)
LEMMA CandidateIsLater ==
  ASSUME Kept, NEW e \in Partition, start = LastKey(e), NEW x \in Candidates, ~LosesPlace,
         backend = "memdb" => KeyOf(Def, e) \in EntryKeys(table)
  PROVE  Before(e, x)
<1>1. e \in Entry /\ x \in Entries(table) /\ x \in Entry /\ call.index \in Index \cup {NoIndex}
  BY EntriesFacts DEF Partition, Entry, Candidates
<1>2. CASE backend = "memdb"
  <2> DEFINE k == KeyOf(Def, e)
  <2>1. PICK y \in Entries(table) : k = KeyOf(Def, y)
    BY <1>2 DEF EntryKeys, Def
  <2>2. PICK l \in DOMAIN MemItems : y = MemItems[l]
    BY <1>2 DEF Entries, MemItems
  <2>3. k \in MemKeys
    <3>1. KeyOf(Def, MemItems[l]) = l /\ l \in Key /\ MemItems[l] \in Item
      <4>1. Source(TableSchema, table, call.index).def = Def
        BY <1>1, SourceFacts DEF Kept, Def
      <4> QED BY <1>1, <4>1, SourceFacts DEF Kept, MemItems, UnderTheirKeys, IsMap
    <3>2. l = k /\ k # NoKey
      BY <2>1, <2>2, <3>1, NoKeyIsNoKey
    <3>3. ~Scans => k[1] = MemCond.hash
      <4>1. k = <<KeyPartOf(Def.hash, e), KeyPartOf(Def.range, e)>> /\ Def.hash # NoRange
        BY <1>1, DefOfIndex, KeyOfParts, ValueAssumption DEF Def, Entry, KeyDef
      <4> QED BY <4>1 DEF KeyPartOf, Partition
    <3> QED BY <3>2, <3>3 DEF MemKeys
  <2>4. k \in MemPlace
    BY <1>2, <2>3, MemPlaceIs
  <2>5. Before(MemItems[k], x)
    BY <1>2, <2>4 DEF Candidates
  <2>6. MemItems[k] \in Entry /\ Rank(MemItems[k]) = Rank(e)
    BY <1>1, <1>2, <2>3, MemEntry DEF Rank
  <2> QED BY <1>1, <2>5, <2>6, BeforeByRank DEF Kept
<1>3. CASE backend = "service"
  <2>1. start # NoItem
    BY <1>1, LastKeyIsKey DEF Kept
  <2>2. Before(start, x)
    BY <1>3, <2>1 DEF Candidates
  <2> QED BY <1>1, <1>3, <2>2, StartKeyRank
<1> QED BY <1>2, <1>3 DEF Kept

-------------------------------------------------------------------------------
(* The invariant.  What it speaks of: the order of the call, the keys to   *)
(* continue after, what the caller asked for, what has been returned, what *)
(* waits on the page, and whether the order can be promised.               *)
Order == {xy \in Entry \X Entry : Before(xy[1], xy[2])}

LastKeys == [e \in Entry |-> LastKey(e)]

Sought == {x \in Entry : Wanted(x)}

Found == {results[i] : i \in DOMAIN results}

OnPage == {page[j] : j \in DOMAIN page}

Sure == ~LosesPlace /\ (backend = "memdb" => ~removed)

Present == {e \in Entry : backend = "memdb" => KeyOf(Def, e) \in EntryKeys(table)}

EntriesNow == Entries(table)

(* The places up to which a call may have read: everything returned comes  *)
(* from before, and what should still be returned is on the page or comes  *)
(* after, unless the backend is going to begin anew.                       *)
Places ==
  {e \in Partition :
     /\ Sure => e \in Present /\ \A y \in Found : y = e \/ <<y, e>> \in Order
     /\ \A y \in OnPage : y = e \/ <<y, e>> \in Order
     /\ \A x \in stayed \ (Found \cup OnPage) : LosesPlace \/ <<e, x>> \in Order}

Sorted ==
  /\ results \in Seq(Entry) /\ page \in Seq(Entry)
  /\ Sure => \A i, j \in DOMAIN results : i < j => <<results[i], results[j]>> \in Order
  /\ \A i, j \in DOMAIN page : i < j => <<page[i], page[j]>> \in Order
  /\ Sure => \A x \in Found, y \in OnPage : <<x, y>> \in Order

NonePassed ==
  /\ stayed \subseteq EntriesNow \cap Sought
  /\ pc # "failed" => \A x \in stayed \ Found, y \in Found : <<x, y>> \notin Order
  /\ \A x \in stayed \ (Found \cup OnPage), y \in OnPage : <<x, y>> \notin Order
  /\ pc = "done" => stayed \subseteq Found

AtPlace ==
  /\ pc # "items" => page = <<>>
  /\ pc = "fetch" => \/ start = NoItem /\ results = <<>>
                     \/ \E e \in Places : start = LastKeys[e]
  /\ pc = "items" => \/ last = NoItem /\ stayed \subseteq Found \cup OnPage
                     \/ \E e \in Places : last = LastKeys[e]

Common == Kept /\ call \in Calls /\ limit \in Nat

PagesInv == Common /\ Sorted /\ NonePassed /\ AtPlace

(* These are the same as long as the call and the backend are.             *)
LEMMA SameCall ==
  ASSUME UNCHANGED <<backend, call>>
  PROVE  /\ Entry' = Entry /\ Order' = Order /\ LastKeys' = LastKeys
         /\ Sought' = Sought /\ Partition' = Partition /\ LosesPlace' = LosesPlace
<1>1. Def' = Def /\ Scans' = Scans /\ Polymorphic' = Polymorphic /\ MemCond' = MemCond
  BY DEF Def, Scans, Polymorphic, MemCond
<1>2. Entry' = Entry
  BY <1>1 DEF Entry
<1>3. \A x, y : Before(x, y)' = Before(x, y)
  BY DEF Before
<1>4. Order' = Order
  BY <1>2, <1>3 DEF Order
<1>5. LastKeys' = LastKeys
  BY <1>1, <1>2 DEF LastKeys, LastKey
<1>6. Sought' = Sought
  BY <1>1, <1>2 DEF Sought, Wanted
<1>7. Partition' = Partition
  BY <1>1, <1>2 DEF Partition
<1>8. LosesPlace' = LosesPlace
  BY <1>1 DEF LosesPlace
<1> QED BY <1>2, <1>4, <1>5, <1>6, <1>7, <1>8

(* Those about the table, as long as nobody writes to it.                  *)
LEMMA SameTable ==
  ASSUME UNCHANGED <<backend, call, table>>
  PROVE  /\ EntriesNow' = EntriesNow /\ Present' = Present /\ Kept' = Kept
<1>1. Def' = Def /\ Scans' = Scans /\ Entry' = Entry
  BY SameCall DEF Def, Scans
<1>2. EntriesNow' = EntriesNow
  BY <1>1 DEF EntriesNow, Entries
<1>3. Entries(table)' = Entries(table)
  BY <1>2 DEF EntriesNow
<1>4. EntryKeys(table)' = EntryKeys(table)
  BY <1>3 DEF EntryKeys
<1>5. Present' = Present
  BY <1>1, <1>4 DEF Present
<1>6. Kept' = Kept
  BY DEF Kept
<1> QED BY <1>2, <1>5, <1>6

(* The order of the entries.                                               *)
LEMMA OrderFacts ==
  ASSUME Kept
  PROVE  /\ \A x \in Entry : <<x, x>> \notin Order
         /\ \A x, y, z : <<x, y>> \in Order /\ <<y, z>> \in Order => <<x, z>> \in Order
         /\ \A x, y \in Entry : <<x, y>> \in Order <=> Before(x, y)
BY BeforeIsOrder DEF Order, Kept

(* An empty sequence has nothing.                                          *)
LEMMA NothingThere == (page = <<>> => OnPage = {}) /\ (results = <<>> => Found = {})
BY DEF OnPage, Found

(* What should still be returned is a candidate of the next page, and      *)
(* candidates come after what was returned.                                *)
LEMMA CandidateFacts ==
  ASSUME PagesInv, pc = "fetch"
  PROVE  /\ Candidates \subseteq Entries(table)
         /\ \A x \in stayed \ Found : x \in Candidates
         /\ Sure => \A y \in Found, x \in Candidates : <<y, x>> \in Order
<1>1. Kept /\ stayed \subseteq Entries(table) /\ OnPage = {}
  BY NothingThere DEF PagesInv, Common, NonePassed, AtPlace, EntriesNow
<1>2. Candidates \subseteq Entries(table)
  BY DEF Candidates
<1>3. CASE start = NoItem /\ results = <<>>
  <2>1. Found = {}
    BY <1>3, NothingThere
  <2>2. Entries(table) # {} => Candidates = Entries(table)
    <3>1. Entries(table) # {} => call.index \in Index \cup {NoIndex}
      BY DEF Entries
    <3> QED BY <1>1, <1>3, <3>1, FirstCandidates
  <2> QED BY <1>1, <1>2, <2>1, <2>2
<1>4. CASE ~(start = NoItem /\ results = <<>>)
  <2>1. PICK e \in Places : start = LastKeys[e]
    BY <1>4 DEF PagesInv, AtPlace
  <2>2. e \in Partition /\ e \in Entry /\ start = LastKey(e)
    BY <2>1 DEF Places, Partition, LastKeys
  <2>3. \A x \in stayed \ Found : x \in Candidates
    <3> SUFFICES ASSUME NEW x \in stayed \ Found
                 PROVE  x \in Candidates
      OBVIOUS
    <3>1. LosesPlace \/ <<e, x>> \in Order
      BY <1>1, <2>1 DEF Places
    <3>2. LosesPlace \/ Before(e, x)
      BY <3>1 DEF Order
    <3> QED BY <1>1, <2>2, <3>2, LaterIsCandidate
  <2>4. ASSUME Sure, NEW y \in Found, NEW x \in Candidates
        PROVE  <<y, x>> \in Order
    <3>1. e \in Present /\ (y = e \/ <<y, e>> \in Order)
      BY <2>1, <2>4 DEF Places
    <3>2. Before(e, x)
      <4>1. ~LosesPlace /\ (backend = "memdb" => KeyOf(Def, e) \in EntryKeys(table))
        BY <2>4, <3>1 DEF Sure, Present
      <4> QED BY <1>1, <2>2, <4>1, CandidateIsLater
    <3>3. x \in Entry
      BY <1>1, <1>2, EntriesFacts
    <3>4. <<e, x>> \in Order
      BY <1>1, <2>2, <3>2, <3>3, OrderFacts
    <3> QED BY <1>1, <3>1, <3>4, OrderFacts
  <2> QED BY <1>2, <2>3, <2>4
<1> QED BY <1>2, <1>3, <1>4

(* What a page adds.                                                       *)
LEMMA PageFacts ==
  ASSUME PagesInv, pc = "fetch", NEW p \in Pages
  PROVE  LET S == {p.items[j] : j \in DOMAIN p.items}
         IN  /\ p.items \in Seq(Entry)
             /\ \A i, j \in DOMAIN p.items : i < j => <<p.items[i], p.items[j]>> \in Order
             /\ Sure => \A x \in Found, y \in S : <<x, y>> \in Order
             /\ \A x \in stayed \ (Found \cup S), y \in S : <<x, y>> \notin Order
             /\ \/ p.last = NoItem /\ stayed \subseteq Found \cup S
                \/ \E e \in Partition :
                     /\ p.last = LastKeys[e]
                     /\ Sure => e \in Present /\ \A y \in Found : y = e \/ <<y, e>> \in Order
                     /\ \A y \in S : y = e \/ <<y, e>> \in Order
                     /\ \A x \in stayed \ (Found \cup S) : LosesPlace \/ <<e, x>> \in Order
<1> DEFINE s == p.items
           S == {s[j] : j \in DOMAIN s}
<1>1. Kept /\ call \in Calls /\ limit \in Nat /\ stayed \subseteq Entries(table) \cap Sought
  BY DEF PagesInv, Common, NonePassed, EntriesNow
<1>2. IsPage(p, Candidates)
  BY <1>1, PagesArePages
<1>3. Candidates \subseteq Entries(table) /\ Entries(table) \subseteq Entry /\ Entries(table) \subseteq Partition
  BY <1>1, CandidateFacts, EntriesFacts, EntriesInPartition
<1>4. s \in Seq(Candidates) /\ s \in Seq(Entry) /\ \A j \in DOMAIN s : s[j] \in Candidates /\ s[j] \in Entry
  BY <1>2, <1>3 DEF IsPage
<1>5. S \subseteq Candidates /\ S \subseteq Entry
  BY <1>4
<1>6. \A x \in S : \E j \in DOMAIN s : x = s[j]
  OBVIOUS
<1>7. \A j \in DOMAIN s : s[j] \in S
  OBVIOUS
<1>8. ASSUME NEW i \in DOMAIN s, NEW j \in DOMAIN s, i < j
      PROVE  <<s[i], s[j]>> \in Order
  <2>1. Before(s[i], s[j])
    BY <1>2, <1>8 DEF IsPage
  <2> QED BY <1>1, <1>4, <2>1, OrderFacts
<1>9. \A x \in stayed : Filtered(call.filter, x) = "true"
  BY <1>1 DEF Sought, Wanted
<1>10. Sure => \A x \in Found, y \in S : <<x, y>> \in Order
  BY <1>5, CandidateFacts
<1> HIDE DEF S
<1>11. CASE p.last = NoItem /\ \A x \in Candidates : Filtered(call.filter, x) = "true" =>
                                  \E j \in DOMAIN s : s[j] = x
  <2>1. stayed \subseteq Found \cup S
    BY <1>7, <1>9, <1>11, CandidateFacts
  <2> QED BY <1>4, <1>8, <1>10, <1>11, <2>1 DEF S
<1>12. ASSUME NEW e \in Candidates, p.last = LastKey(e),
              \A i \in DOMAIN s : s[i] = e \/ Before(s[i], e),
              \A x \in Candidates : Filtered(call.filter, x) = "true" =>
                Before(e, x) \/ \E j \in DOMAIN s : s[j] = x
       PROVE  /\ \A x \in stayed \ (Found \cup S), y \in S : <<x, y>> \notin Order
              /\ e \in Partition
              /\ p.last = LastKeys[e]
              /\ Sure => e \in Present /\ \A y \in Found : y = e \/ <<y, e>> \in Order
              /\ \A y \in S : y = e \/ <<y, e>> \in Order
              /\ \A x \in stayed \ (Found \cup S) : LosesPlace \/ <<e, x>> \in Order
  <2>1. e \in Entries(table) /\ e \in Entry /\ e \in Partition
    BY <1>3
  <2>2. p.last = LastKeys[e]
    BY <1>12, <2>1 DEF LastKeys
  <2>3. e \in Present
    BY <2>1 DEF Present, EntryKeys, Def
  <2>4. Sure => \A y \in Found : <<y, e>> \in Order
    BY CandidateFacts
  <2>5. \A y \in S : y = e \/ <<y, e>> \in Order
    BY <1>1, <1>4, <1>6, <1>12, <2>1, OrderFacts
  <2>6. \A x \in stayed \ (Found \cup S) : <<e, x>> \in Order
    <3> SUFFICES ASSUME NEW x \in stayed \ (Found \cup S)
                 PROVE  <<e, x>> \in Order
      OBVIOUS
    <3>1. x \in Candidates /\ x \in Entry
      BY <1>3, CandidateFacts
    <3>2. Before(e, x)
      BY <1>7, <1>9, <1>12, <3>1
    <3> QED BY <1>1, <2>1, <3>1, <3>2, OrderFacts
  <2>7. \A x \in stayed \ (Found \cup S), y \in S : <<x, y>> \notin Order
    BY <1>1, <1>5, <2>1, <2>5, <2>6, OrderFacts
  <2> QED BY <2>1, <2>2, <2>3, <2>4, <2>5, <2>6, <2>7
<1>13. CASE \E e \in Candidates :
              /\ p.last = LastKey(e)
              /\ \A i \in DOMAIN s : s[i] = e \/ Before(s[i], e)
              /\ \A x \in Candidates : Filtered(call.filter, x) = "true" =>
                   Before(e, x) \/ \E j \in DOMAIN s : s[j] = x
  <2>1. PICK e \in Candidates :
          /\ \A x \in stayed \ (Found \cup S), y \in S : <<x, y>> \notin Order
          /\ e \in Partition
          /\ p.last = LastKeys[e]
          /\ Sure => e \in Present /\ \A y \in Found : y = e \/ <<y, e>> \in Order
          /\ \A y \in S : y = e \/ <<y, e>> \in Order
          /\ \A x \in stayed \ (Found \cup S) : LosesPlace \/ <<e, x>> \in Order
    BY <1>12, <1>13
  <2> QED BY <1>4, <1>8, <1>10, <2>1 DEF S
<1> QED BY <1>2, <1>11, <1>13 DEF IsPage

(* A sorted sequence without its first element.                            *)
LEMMA FirstOff ==
  ASSUME NEW S, NEW s \in Seq(S), s # <<>>, NEW R,
         \A i, j \in DOMAIN s : i < j => <<s[i], s[j]>> \in R
  PROVE  LET t == Tail(s)
         IN  /\ Head(s) \in S /\ t \in Seq(S)
             /\ {s[i] : i \in DOMAIN s} = {Head(s)} \cup {t[i] : i \in DOMAIN t}
             /\ \A i, j \in DOMAIN t : i < j => <<t[i], t[j]>> \in R
             /\ \A i \in DOMAIN t : <<Head(s), t[i]>> \in R
<1> DEFINE t == Tail(s)
           n == Len(s)
<1>1. n \in Nat /\ n > 0 /\ DOMAIN s = 1..n /\ Head(s) = s[1] /\ 1 \in DOMAIN s
  OBVIOUS
<1>2. t \in Seq(S) /\ Len(t) = n - 1 /\ DOMAIN t = 1..(n - 1)
  BY <1>1
<1>3. \A i \in DOMAIN t : t[i] = s[i + 1] /\ i + 1 \in DOMAIN s /\ 1 < i + 1
  BY <1>1, <1>2
<1>4. \A i \in DOMAIN s : i = 1 \/ (i - 1 \in DOMAIN t /\ t[i - 1] = s[i])
  BY <1>1, <1>2, <1>3
<1>5. Head(s) \in S
  BY <1>1
<1> HIDE DEF t, n
<1>6. {s[i] : i \in DOMAIN s} = {Head(s)} \cup {t[i] : i \in DOMAIN t}
  BY <1>1, <1>3, <1>4
<1>7. \A i \in DOMAIN t : <<Head(s), t[i]>> \in R
  BY <1>1, <1>3
<1>8. ASSUME NEW i \in DOMAIN t, NEW j \in DOMAIN t, i < j
      PROVE  <<t[i], t[j]>> \in R
  <2>1. i + 1 < j + 1
    BY <1>1, <1>2, <1>8
  <2> QED BY <1>3, <2>1
<1> QED BY <1>2, <1>5, <1>6, <1>7, <1>8 DEF t

(* A sorted sequence with one element more.                                *)
LEMMA LastOn ==
  ASSUME NEW S, NEW s \in Seq(S), NEW x \in S
  PROVE  LET t == Append(s, x)
         IN  /\ t \in Seq(S)
             /\ {t[i] : i \in DOMAIN t} = {s[i] : i \in DOMAIN s} \cup {x}
             /\ \A R : /\ \A i, j \in DOMAIN s : i < j => <<s[i], s[j]>> \in R
                       /\ \A i \in DOMAIN s : <<s[i], x>> \in R
                       => \A i, j \in DOMAIN t : i < j => <<t[i], t[j]>> \in R
<1> DEFINE t == Append(s, x)
           n == Len(s)
<1>1. n \in Nat /\ DOMAIN s = 1..n
  OBVIOUS
<1>2. t \in Seq(S) /\ DOMAIN t = 1..(n + 1) /\ t[n + 1] = x
  BY <1>1
<1>3. \A i \in DOMAIN s : t[i] = s[i] /\ i \in DOMAIN t
  BY <1>1, <1>2
<1>4. \A i \in DOMAIN t : i = n + 1 \/ i \in DOMAIN s
  BY <1>1, <1>2
<1>5. n + 1 \in DOMAIN t
  BY <1>1, <1>2
<1>6. \A i, j \in DOMAIN t : i < j => i \in DOMAIN s
  BY <1>1, <1>2
<1> HIDE DEF t, n
<1>7. {t[i] : i \in DOMAIN t} = {s[i] : i \in DOMAIN s} \cup {x}
  BY <1>2, <1>3, <1>4, <1>5
<1>8. ASSUME NEW R, \A i, j \in DOMAIN s : i < j => <<s[i], s[j]>> \in R,
             \A i \in DOMAIN s : <<s[i], x>> \in R,
             NEW i \in DOMAIN t, NEW j \in DOMAIN t, i < j
      PROVE  <<t[i], t[j]>> \in R
  BY <1>2, <1>3, <1>4, <1>6, <1>8
<1> QED BY <1>2, <1>7, <1>8 DEF t

(* The world a step of the call finds is the one it leaves.                *)
LEMMA SameWorld ==
  ASSUME UNCHANGED <<backend, table, call, stayed, removed>>
  PROVE  /\ Entry' = Entry /\ Order' = Order /\ LastKeys' = LastKeys
         /\ Sought' = Sought /\ Partition' = Partition /\ LosesPlace' = LosesPlace
         /\ EntriesNow' = EntriesNow /\ Present' = Present /\ Kept' = Kept
         /\ Sure' = Sure /\ stayed' = stayed
<1>1. LosesPlace' = LosesPlace
  BY SameCall
<1>2. Sure' = Sure
  BY <1>1 DEF Sure
<1> QED BY <1>2, SameCall, SameTable

(* A call that is over.                                                    *)
LEMMA ReturnInv ==
  ASSUME PagesInv, UNCHANGED <<backend, table, call, stayed, removed>>,
         NEW how, how \notin {"fetch", "items"}, Return(how), results' \in Seq(Entry),
         Sure => \A i, j \in DOMAIN results' : i < j => <<results'[i], results'[j]>> \in Order,
         how # "failed" => \A x \in stayed \ Found', y \in Found' : <<x, y>> \notin Order,
         how = "done" => stayed \subseteq Found'
  PROVE  PagesInv'
<1>1. /\ Entry' = Entry /\ Order' = Order /\ EntriesNow' = EntriesNow /\ Sought' = Sought
      /\ Kept' = Kept /\ Sure' = Sure /\ stayed' = stayed
  BY SameWorld
<1>2. page' = <<>> /\ OnPage' = {} /\ pc' = how /\ limit' = 0
  BY DEF Return, OnPage
<1>3. Common'
  BY <1>1, <1>2 DEF PagesInv, Common
<1>4. Sorted'
  <2>1. page' \in Seq(Entry) /\ DOMAIN page' = {}
    BY <1>2
  <2> QED BY <1>1, <1>2, <2>1 DEF Sorted
<1>5. NonePassed'
  BY <1>1, <1>2 DEF PagesInv, NonePassed
<1>6. AtPlace'
  BY <1>2 DEF AtPlace
<1> QED BY <1>3, <1>4, <1>5, <1>6 DEF PagesInv

(* An error.                                                               *)
LEMMA ReturnErrorInv ==
  ASSUME PagesInv, UNCHANGED <<backend, table, call, stayed, removed>>, ReturnError
  PROVE  PagesInv'
<1>1. Return("failed") /\ (results' = <<>> \/ results' = results)
  BY DEF ReturnError
<1>2. /\ results' \in Seq(Entry)
      /\ Sure => \A i, j \in DOMAIN results' : i < j => <<results'[i], results'[j]>> \in Order
  <2>1. CASE results' = <<>>
    BY <2>1
  <2>2. CASE results' = results
    BY <2>2 DEF PagesInv, Sorted
  <2> QED BY <1>1, <2>1, <2>2
<1> QED BY <1>1, <1>2, ReturnInv

(* A page comes.                                                           *)
LEMMA FetchInv ==
  ASSUME PagesInv, Fetch
  PROVE  PagesInv'
<1>1. pc = "fetch" /\ UNCHANGED <<backend, table, call, stayed, removed, limit, results>>
  BY DEF Fetch
<1>2. PICK p \in Pages : pc' = "items" /\ page' = p.items /\ last' = p.last
  BY DEF Fetch
<1> DEFINE S == {p.items[j] : j \in DOMAIN p.items}
<1>3. /\ p.items \in Seq(Entry)
      /\ \A i, j \in DOMAIN p.items : i < j => <<p.items[i], p.items[j]>> \in Order
      /\ Sure => \A x \in Found, y \in S : <<x, y>> \in Order
      /\ \A x \in stayed \ (Found \cup S), y \in S : <<x, y>> \notin Order
  BY <1>1, PageFacts
<1>4. \/ p.last = NoItem /\ stayed \subseteq Found \cup S
      \/ \E e \in Partition :
           /\ p.last = LastKeys[e]
           /\ Sure => e \in Present /\ \A y \in Found : y = e \/ <<y, e>> \in Order
           /\ \A y \in S : y = e \/ <<y, e>> \in Order
           /\ \A x \in stayed \ (Found \cup S) : LosesPlace \/ <<e, x>> \in Order
  BY <1>1, PageFacts
<1>5. OnPage' = S /\ Found' = Found
  BY <1>1, <1>2 DEF OnPage, Found
<1> HIDE DEF S
<1>6. /\ Entry' = Entry /\ Order' = Order /\ LastKeys' = LastKeys
      /\ Sought' = Sought /\ Partition' = Partition /\ LosesPlace' = LosesPlace
      /\ EntriesNow' = EntriesNow /\ Present' = Present /\ Kept' = Kept
      /\ Sure' = Sure /\ stayed' = stayed
  BY <1>1, SameWorld
<1>7. Common'
  BY <1>1, <1>6 DEF PagesInv, Common
<1>8. Sorted'
  BY <1>1, <1>2, <1>3, <1>5, <1>6 DEF PagesInv, Sorted
<1>9. NonePassed'
  <2>1. \A x \in stayed \ Found, y \in Found : <<x, y>> \notin Order
    BY <1>1 DEF PagesInv, NonePassed
  <2> QED BY <1>1, <1>2, <1>3, <1>5, <1>6, <2>1 DEF PagesInv, NonePassed
<1>10. AtPlace'
  <2>1. CASE p.last = NoItem /\ stayed \subseteq Found \cup S
    BY <1>2, <1>5, <1>6, <2>1 DEF AtPlace
  <2>2. CASE \E e \in Partition :
               /\ p.last = LastKeys[e]
               /\ Sure => e \in Present /\ \A y \in Found : y = e \/ <<y, e>> \in Order
               /\ \A y \in S : y = e \/ <<y, e>> \in Order
               /\ \A x \in stayed \ (Found \cup S) : LosesPlace \/ <<e, x>> \in Order
    <3>1. PICK e \in Partition :
            /\ p.last = LastKeys[e]
            /\ Sure => e \in Present /\ \A y \in Found : y = e \/ <<y, e>> \in Order
            /\ \A y \in S : y = e \/ <<y, e>> \in Order
            /\ \A x \in stayed \ (Found \cup S) : LosesPlace \/ <<e, x>> \in Order
      BY <2>2
    <3>2. e \in Places'
      BY <1>5, <1>6, <3>1 DEF Places
    <3>3. last' = LastKeys'[e]
      BY <1>2, <1>6, <3>1
    <3> QED BY <1>2, <3>2, <3>3 DEF AtPlace
  <2> QED BY <1>4, <2>1, <2>2
<1> QED BY <1>7, <1>8, <1>9, <1>10 DEF PagesInv

(* An item of the page is taken.                                           *)
LEMMA TakePagesInv ==
  ASSUME PagesInv, Take
  PROVE  PagesInv'
<1> DEFINE h == Head(page)
           t == Tail(page)
           T == {t[i] : i \in DOMAIN t}
<1>1. /\ pc = "items" /\ page # <<>> /\ results' = Append(results, h)
      /\ UNCHANGED <<backend, table, call, stayed, removed>>
  BY DEF Take
<1>2. results \in Seq(Entry) /\ page \in Seq(Entry)
  BY DEF PagesInv, Sorted
<1>3. /\ h \in Entry /\ t \in Seq(Entry) /\ OnPage = {h} \cup T
      /\ \A i, j \in DOMAIN t : i < j => <<t[i], t[j]>> \in Order
      /\ \A i \in DOMAIN t : <<h, t[i]>> \in Order
  <2>1. \A i, j \in DOMAIN page : i < j => <<page[i], page[j]>> \in Order
    BY DEF PagesInv, Sorted
  <2>2. /\ h \in Entry /\ t \in Seq(Entry)
        /\ {page[j] : j \in DOMAIN page} = {h} \cup T
        /\ \A i, j \in DOMAIN t : i < j => <<t[i], t[j]>> \in Order
        /\ \A i \in DOMAIN t : <<h, t[i]>> \in Order
    BY <1>1, <1>2, <2>1, FirstOff
  <2> QED BY <2>2 DEF OnPage
<1>4. \A y \in T : <<h, y>> \in Order
  BY <1>3
<1> HIDE DEF h, T
<1>5. /\ results' \in Seq(Entry) /\ Found' = Found \cup {h}
      /\ \A R : /\ \A i, j \in DOMAIN results : i < j => <<results[i], results[j]>> \in R
                /\ \A i \in DOMAIN results : <<results[i], h>> \in R
                => \A i, j \in DOMAIN results' : i < j => <<results'[i], results'[j]>> \in R
  BY <1>1, <1>2, <1>3, LastOn DEF Found
<1>6. Sure => \A x \in Found, y \in OnPage : <<x, y>> \in Order
  BY DEF PagesInv, Sorted
<1>7. Sure => \A i, j \in DOMAIN results' : i < j => <<results'[i], results'[j]>> \in Order
  <2> SUFFICES ASSUME Sure
               PROVE  \A i, j \in DOMAIN results' : i < j => <<results'[i], results'[j]>> \in Order
    OBVIOUS
  <2>1. \A i \in DOMAIN results : <<results[i], h>> \in Order
    BY <1>3, <1>6 DEF Found
  <2>2. \A i, j \in DOMAIN results : i < j => <<results[i], results[j]>> \in Order
    BY DEF PagesInv, Sorted
  <2> QED BY <1>5, <2>1, <2>2
<1>8. Kept /\ stayed \subseteq Entry
  <2>1. Kept
    BY DEF PagesInv, Common
  <2> QED BY <2>1, EntriesFacts DEF PagesInv, NonePassed, EntriesNow
<1>9. \A x \in stayed \ Found', y \in Found' : <<x, y>> \notin Order
  <2> SUFFICES ASSUME NEW x \in stayed, x \notin Found, x # h, NEW y \in Found \cup {h}
               PROVE  <<x, y>> \notin Order
    BY <1>5
  <2>1. CASE y \in Found
    BY <1>1, <2>1 DEF PagesInv, NonePassed
  <2>2. CASE y = h /\ x \in T
    BY <1>3, <1>4, <1>8, <2>2, OrderFacts
  <2>3. CASE y = h /\ x \notin T
    BY <1>3, <2>3 DEF PagesInv, NonePassed
  <2> QED BY <2>1, <2>2, <2>3
<1>10. CASE \E how \in {"limit", "stopped"} : Return(how)
  BY <1>1, <1>5, <1>7, <1>9, <1>10, ReturnInv
<1>11. CASE page' = t /\ UNCHANGED <<pc, start, limit, last>>
  <2>1. /\ Entry' = Entry /\ Order' = Order /\ LastKeys' = LastKeys
        /\ Sought' = Sought /\ Partition' = Partition /\ LosesPlace' = LosesPlace
        /\ EntriesNow' = EntriesNow /\ Present' = Present /\ Kept' = Kept
        /\ Sure' = Sure /\ stayed' = stayed
    BY <1>1, SameWorld
  <2>2. OnPage' = T /\ Found' \cup OnPage' = Found \cup OnPage /\ OnPage' \subseteq OnPage
    BY <1>3, <1>5, <1>11 DEF OnPage, T
  <2>3. Common'
    BY <1>1, <1>11, <2>1 DEF PagesInv, Common
  <2>4. Sorted'
    <3>1. Sure => \A x \in Found', y \in OnPage' : <<x, y>> \in Order
      BY <1>3, <1>4, <1>5, <1>6, <2>2
    <3> QED BY <1>3, <1>5, <1>7, <1>11, <2>1, <3>1 DEF Sorted
  <2>5. NonePassed'
    <3>1. \A x \in stayed \ (Found' \cup OnPage'), y \in OnPage' : <<x, y>> \notin Order
      BY <2>2 DEF PagesInv, NonePassed
    <3>2. pc' = "items"
      BY <1>1, <1>11
    <3> QED BY <1>9, <2>1, <3>1, <3>2 DEF PagesInv, NonePassed
  <2>6. Places \subseteq Places'
    <3> SUFFICES ASSUME NEW e \in Places
                 PROVE  e \in Places'
      OBVIOUS
    <3>1. h = e \/ <<h, e>> \in Order
      BY <1>3 DEF Places
    <3> QED BY <1>5, <2>1, <2>2, <3>1 DEF Places
  <2>7. AtPlace'
    BY <1>1, <1>11, <2>1, <2>2, <2>6 DEF PagesInv, AtPlace
  <2> QED BY <2>3, <2>4, <2>5, <2>7 DEF PagesInv
<1>12. (\E how \in {"limit", "stopped"} : Return(how))
         \/ (page' = t /\ UNCHANGED <<pc, start, limit, last>>)
  BY DEF Take
<1> QED BY <1>10, <1>11, <1>12

(* An item that the call skips is nothing that it should return.           *)
LEMMA UndecodableInv ==
  ASSUME PagesInv, Undecodable
  PROVE  PagesInv'
<1> DEFINE h == Head(page)
           t == Tail(page)
           T == {t[i] : i \in DOMAIN t}
<1>1. /\ pc = "items" /\ page # <<>> /\ ~Decodes(h)
      /\ UNCHANGED <<backend, table, call, stayed, removed>>
      /\ \/ Polymorphic /\ page' = t /\ UNCHANGED <<pc, start, limit, last, results>>
         \/ ReturnError
  BY DEF Undecodable
<1>2. results \in Seq(Entry) /\ page \in Seq(Entry)
  BY DEF PagesInv, Sorted
<1>3. /\ t \in Seq(Entry) /\ OnPage = {h} \cup T
      /\ \A i, j \in DOMAIN t : i < j => <<t[i], t[j]>> \in Order
  <2>1. \A i, j \in DOMAIN page : i < j => <<page[i], page[j]>> \in Order
    BY DEF PagesInv, Sorted
  <2>2. /\ t \in Seq(Entry) /\ {page[j] : j \in DOMAIN page} = {h} \cup T
        /\ \A i, j \in DOMAIN t : i < j => <<t[i], t[j]>> \in Order
    BY <1>1, <1>2, <2>1, FirstOff
  <2> QED BY <2>2 DEF OnPage
<1> HIDE DEF h, T
<1>4. CASE Polymorphic /\ page' = t /\ UNCHANGED <<pc, start, limit, last, results>>
  <2>1. /\ Entry' = Entry /\ Order' = Order /\ LastKeys' = LastKeys
        /\ Sought' = Sought /\ Partition' = Partition /\ LosesPlace' = LosesPlace
        /\ EntriesNow' = EntriesNow /\ Present' = Present /\ Kept' = Kept
        /\ Sure' = Sure /\ stayed' = stayed
    BY <1>1, SameWorld
  <2>2. OnPage' = T /\ Found' = Found /\ OnPage' \subseteq OnPage
    BY <1>3, <1>4 DEF OnPage, Found, T
  <2>3. h \notin stayed
    BY <1>1, <1>4 DEF PagesInv, NonePassed, Sought, Wanted
  <2>4. stayed \ (Found' \cup OnPage') = stayed \ (Found \cup OnPage)
    BY <1>3, <2>2, <2>3
  <2>5. Common'
    BY <1>1, <1>4, <2>1 DEF PagesInv, Common
  <2>6. Sorted'
    <3>1. Sure => \A x \in Found', y \in OnPage' : <<x, y>> \in Order
      BY <2>2 DEF PagesInv, Sorted
    <3>2. Sure => \A i, j \in DOMAIN results' : i < j => <<results'[i], results'[j]>> \in Order
      BY <1>4 DEF PagesInv, Sorted
    <3>3. results' \in Seq(Entry)
      BY <1>2, <1>4
    <3> QED BY <1>3, <1>4, <2>1, <3>1, <3>2, <3>3 DEF Sorted
  <2>7. NonePassed'
    <3>1. \A x \in stayed \ (Found' \cup OnPage'), y \in OnPage' : <<x, y>> \notin Order
      BY <2>2, <2>4 DEF PagesInv, NonePassed
    <3> QED BY <1>1, <1>4, <2>1, <2>2, <3>1 DEF PagesInv, NonePassed
  <2>8. Places \subseteq Places'
    BY <2>1, <2>2, <2>4 DEF Places
  <2>9. stayed \subseteq Found \cup OnPage => stayed \subseteq Found' \cup OnPage'
    BY <2>4
  <2>10. AtPlace'
    BY <1>1, <1>4, <2>1, <2>8, <2>9 DEF PagesInv, AtPlace
  <2> QED BY <2>5, <2>6, <2>7, <2>10 DEF PagesInv
<1> QED BY <1>1, <1>4, ReturnErrorInv

(* The page is done.                                                       *)
LEMMA EndPageInv ==
  ASSUME PagesInv, LimitInv, EndPage
  PROVE  PagesInv'
<1>1. /\ pc = "items" /\ page = <<>> /\ OnPage = {}
      /\ UNCHANGED <<backend, table, call, stayed, removed, results>>
  BY NothingThere DEF EndPage
<1>2. Found' = Found /\ results \in Seq(Entry)
  BY <1>1 DEF Found, PagesInv, Sorted
<1>3. CASE last = NoItem
  <2>1. Return("done")
    BY <1>3 DEF EndPage
  <2>2. stayed \subseteq Found'
    <3>1. \A e \in Places : LastKeys[e] # NoItem
      BY LastKeyIsKey DEF Places, Partition, LastKeys, PagesInv, Common, Kept
    <3> QED BY <1>1, <1>2, <1>3, <3>1 DEF PagesInv, AtPlace
  <2>3. Sure => \A i, j \in DOMAIN results' : i < j => <<results'[i], results'[j]>> \in Order
    BY <1>1 DEF PagesInv, Sorted
  <2>4. results' \in Seq(Entry)
    BY <1>1, <1>2
  <2> QED BY <1>1, <2>1, <2>2, <2>3, <2>4, ReturnInv
<1>4. CASE last # NoItem
  <2>1. pc' = "fetch" /\ start' = last /\ limit' = NextLimit /\ UNCHANGED page
    BY <1>4 DEF EndPage
  <2>2. /\ Entry' = Entry /\ Order' = Order /\ LastKeys' = LastKeys
        /\ Sought' = Sought /\ Partition' = Partition /\ LosesPlace' = LosesPlace
        /\ EntriesNow' = EntriesNow /\ Present' = Present /\ Kept' = Kept
        /\ Sure' = Sure /\ stayed' = stayed
    BY <1>1, SameWorld
  <2>3. OnPage' = {}
    BY <1>1, <2>1 DEF OnPage
  <2>4. limit' \in Nat
    <3>1. limit \in Nat /\ call \in Calls
      BY DEF PagesInv, Common
    <3>2. ASSUME call.api \in {"Query", "Scan"}, call.limit > 0
          PROVE  call.limit - Len(results) \in Nat
      <4>1. Len(results) \in Nat /\ Len(results) < call.limit
        BY <1>1, <3>2, CollectedLength DEF LimitInv, BelowLimit, Running, Collects
      <4>2. call.limit \in Int
        BY <3>1, PagingAssumption
      <4> QED BY <4>1, <4>2
    <3> QED BY <2>1, <3>1, <3>2 DEF NextLimit
  <2>5. Common'
    BY <1>1, <2>2, <2>4 DEF PagesInv, Common
  <2>6. Sorted'
    BY <1>1, <1>2, <2>1, <2>2, <2>3 DEF PagesInv, Sorted
  <2>7. NonePassed'
    BY <1>1, <1>2, <2>1, <2>2, <2>3 DEF PagesInv, NonePassed
  <2>8. Places \subseteq Places'
    BY <1>1, <1>2, <2>2, <2>3 DEF Places
  <2>9. AtPlace'
    BY <1>1, <1>4, <2>1, <2>2, <2>8 DEF PagesInv, AtPlace
  <2> QED BY <2>5, <2>6, <2>7, <2>9 DEF PagesInv
<1> QED BY <1>3, <1>4

-------------------------------------------------------------------------------
(* The writes of others.                                                   *)

(* A map of items, each under its key, and with a key of the table.        *)
MapKept(def, m) ==
  /\ IsFiniteSet(DOMAIN m) /\ UnderTheirKeys(def, m)
  /\ \A k \in DOMAIN m : KeyOf(TableSchema.key, m[k]) # NoKey

(* An item more, under its key.                                            *)
LEMMA WithKept ==
  ASSUME NEW def, NEW m, MapKept(def, m), NEW x, KeyOf(TableSchema.key, x) # NoKey
  PROVE  MapKept(def, With(m, KeyOf(def, x), x))
<1> DEFINE k == KeyOf(def, x)
           w == With(m, k, x)
<1>1. DOMAIN w = DOMAIN m \cup {k} /\ w[k] = x /\ \A l \in DOMAIN m : l # k => w[l] = m[l]
  BY DEF With
<1>2. IsFiniteSet(DOMAIN m \cup {k})
  BY FS_AddElement DEF MapKept
<1> HIDE DEF w
<1>3. UnderTheirKeys(def, w) /\ \A l \in DOMAIN w : KeyOf(TableSchema.key, w[l]) # NoKey
  BY <1>1 DEF MapKept, UnderTheirKeys
<1> QED BY <1>1, <1>2, <1>3 DEF MapKept, w

(* An item less.                                                           *)
LEMMA WithoutKept ==
  ASSUME NEW def, NEW m, MapKept(def, m), NEW k
  PROVE  MapKept(def, Without(m, k))
<1> DEFINE w == Without(m, k)
<1>1. DOMAIN w = DOMAIN m \ {k} /\ \A l \in DOMAIN w : w[l] = m[l]
  BY DEF Without
<1>2. IsFiniteSet(DOMAIN m \ {k})
  BY FS_Subset DEF MapKept
<1> HIDE DEF w
<1>3. UnderTheirKeys(def, w) /\ \A l \in DOMAIN w : KeyOf(TableSchema.key, w[l]) # NoKey
  BY <1>1 DEF MapKept, UnderTheirKeys
<1> QED BY <1>1, <1>2, <1>3 DEF MapKept, w

(* updateGSIs keeps an index.                                              *)
LEMMA IndexKept ==
  ASSUME NEW def, NEW gsi, MapKept(def, gsi), NEW old,
         NEW new, KeyOf(def, new) = NoKey \/ KeyOf(TableSchema.key, new) # NoKey
  PROVE  MapKept(def, UpdateGSI(gsi, def, old, new))
BY WithKept, WithoutKept DEF UpdateGSI

(* A table in these words.                                                 *)
LEMMA TableKept ==
  ASSUME NEW t
  PROVE  WellKept(t) <=> /\ IsTable(t) /\ MapKept(TableSchema.key, t.items)
                         /\ \A g \in Index : MapKept(TableSchema.gsis[g], t.gsis[g])
BY NoKeyIsNoKey DEF WellKept, MapKept, UnderTheirKeys, IsTable, IsMap

(* storeItem with its updateGSIs keeps a table.                            *)
LEMMA StoreKept ==
  ASSUME NEW t, WellKept(t), NEW x \in Item, KeyOf(TableSchema.key, x) # NoKey
  PROVE  WellKept(Store(TableSchema, t, KeyOf(TableSchema.key, x), x))
<1> DEFINE k == KeyOf(TableSchema.key, x)
           s == Store(TableSchema, t, k, x)
<1>1. /\ IsTable(t) /\ MapKept(TableSchema.key, t.items)
      /\ \A g \in Index : MapKept(TableSchema.gsis[g], t.gsis[g])
  BY TableKept
<1>2. k \in Key
  BY TableAssumption, KeyOfType DEF Schema
<1>3. IsTable(s)
  BY <1>1, <1>2, StoreIsTable, TableAssumption
<1>4. /\ s.items = With(t.items, k, x)
      /\ \A g \in Index : s.gsis[g] = UpdateGSI(t.gsis[g], TableSchema.gsis[g], Lookup(t.items, k), x)
  BY DEF Store, UpdateGSIs
<1> HIDE DEF s
<1>5. MapKept(TableSchema.key, s.items)
  BY <1>1, <1>4, WithKept
<1>6. \A g \in Index : MapKept(TableSchema.gsis[g], s.gsis[g])
  BY <1>1, <1>4, IndexKept
<1>7. WellKept(s)
  BY <1>3, <1>5, <1>6, TableKept
<1> QED BY <1>7 DEF s

(* So does deleteItem with its updateGSIs.                                 *)
LEMMA DeleteKept ==
  ASSUME NEW t, WellKept(t), NEW k \in DOMAIN t.items
  PROVE  WellKept(Delete(TableSchema, t, k))
<1> DEFINE s == Delete(TableSchema, t, k)
<1>1. /\ IsTable(t) /\ MapKept(TableSchema.key, t.items)
      /\ \A g \in Index : MapKept(TableSchema.gsis[g], t.gsis[g])
  BY TableKept
<1>2. k \in Key
  BY <1>1 DEF IsTable, IsMap
<1>3. IsTable(s)
  BY <1>1, <1>2, DeleteIsTable, TableAssumption
<1>4. /\ s.items = Without(t.items, k)
      /\ \A g \in Index : s.gsis[g] = UpdateGSI(t.gsis[g], TableSchema.gsis[g], Lookup(t.items, k), NoItem)
  BY DEF Delete, UpdateGSIs
<1> HIDE DEF s
<1>5. MapKept(TableSchema.key, s.items)
  BY <1>1, <1>4, WithoutKept
<1>6. \A g \in Index : KeyOf(TableSchema.gsis[g], NoItem) = NoKey
  BY TableAssumption, NoItemHasNoKey DEF Schema
<1>7. \A g \in Index : MapKept(TableSchema.gsis[g], s.gsis[g])
  BY <1>1, <1>4, <1>6, IndexKept
<1>8. WellKept(s)
  BY <1>3, <1>5, <1>7, TableKept
<1> QED BY <1>8 DEF s

(* A write leaves a table, of items that are accepted.                     *)
LEMMA PutKept ==
  ASSUME Kept, NEW x \in Puts, backend = "service" => Accepts(x)
  PROVE  LET t == Store(TableSchema, table, KeyOf(TableSchema.key, x), x)
         IN  WellKept(t) /\ (backend = "service" => \A k \in DOMAIN t.items : Accepts(t.items[k]))
<1> DEFINE t == Store(TableSchema, table, KeyOf(TableSchema.key, x), x)
<1>1. WellKept(t)
  BY StoreKept, TableAssumption DEF Kept
<1>2. t.items = With(table.items, KeyOf(TableSchema.key, x), x)
  BY DEF Store
<1>3. \A k \in DOMAIN t.items : t.items[k] = x \/ (k \in DOMAIN table.items /\ t.items[k] = table.items[k])
  BY <1>2 DEF With
<1> HIDE DEF t
<1>4. backend = "service" => \A k \in DOMAIN t.items : Accepts(t.items[k])
  BY <1>3 DEF Kept
<1> QED BY <1>1, <1>4 DEF t

(* The same of a delete.                                                   *)
LEMMA RemoveKept ==
  ASSUME Kept, NEW l \in DOMAIN table.items
  PROVE  LET t == Delete(TableSchema, table, l)
         IN  WellKept(t) /\ (backend = "service" => \A k \in DOMAIN t.items : Accepts(t.items[k]))
<1> DEFINE t == Delete(TableSchema, table, l)
<1>1. WellKept(t)
  BY DeleteKept DEF Kept
<1>2. t.items = Without(table.items, l)
  BY DEF Delete
<1>3. \A k \in DOMAIN t.items : k \in DOMAIN table.items /\ t.items[k] = table.items[k]
  BY <1>2 DEF Without
<1> HIDE DEF t
<1>4. backend = "service" => \A k \in DOMAIN t.items : Accepts(t.items[k])
  BY <1>3 DEF Kept
<1> QED BY <1>1, <1>4 DEF t

(* A write of others: what stayed is still there, and so is the entry to   *)
(* continue after, unless one was removed.                                 *)
LEMMA ChangeInv ==
  ASSUME PagesInv, NEW t, Change(t), WellKept(t),
         backend = "service" => \A k \in DOMAIN t.items : Accepts(t.items[k])
  PROVE  PagesInv'
<1>1. /\ table' = t /\ stayed' = stayed \cap Entries(t)
      /\ removed' = (removed \/ ~(EntryKeys(table) \subseteq EntryKeys(t)))
      /\ UNCHANGED <<backend, call, pc, start, limit, page, last, results>>
  BY DEF Change
<1>2. /\ Entry' = Entry /\ Order' = Order /\ LastKeys' = LastKeys
      /\ Sought' = Sought /\ Partition' = Partition /\ LosesPlace' = LosesPlace
  BY <1>1, SameCall
<1>3. OnPage' = OnPage /\ Found' = Found
  BY <1>1 DEF OnPage, Found
<1>4. Sure' => Sure
  BY <1>1, <1>2 DEF Sure
<1>5. EntriesNow' = Entries(t)
  <2>1. Def' = Def /\ Scans' = Scans
    BY <1>1 DEF Def, Scans
  <2> QED BY <1>1, <2>1 DEF EntriesNow, Entries
<1>6. Sure' => Present \subseteq Present'
  <2> SUFFICES ASSUME Sure', NEW e \in Present, backend = "memdb"
               PROVE  KeyOf(Def, e) \in EntryKeys(table)'
    BY <1>1, <1>2 DEF Present, Def
  <2>1. EntryKeys(table) \subseteq EntryKeys(t)
    BY <1>1 DEF Sure
  <2>2. EntryKeys(table)' = EntryKeys(t)
    BY <1>1, <1>5 DEF EntryKeys, EntriesNow
  <2> QED BY <2>1, <2>2 DEF Present
<1>7. stayed' \subseteq stayed
  BY <1>1
<1>8. Common'
  BY <1>1 DEF PagesInv, Common, Kept
<1>9. Sorted'
  BY <1>1, <1>2, <1>3, <1>4 DEF PagesInv, Sorted
<1>10. NonePassed'
  BY <1>1, <1>2, <1>3, <1>5, <1>7 DEF PagesInv, NonePassed
<1>11. Places \subseteq Places'
  BY <1>2, <1>3, <1>4, <1>6, <1>7 DEF Places
<1>12. AtPlace'
  BY <1>1, <1>2, <1>3, <1>7, <1>11 DEF PagesInv, AtPlace
<1> QED BY <1>8, <1>9, <1>10, <1>12 DEF PagesInv

(* A call begins.                                                          *)
LEMMA PagesInit == Init => PagesInv
<1> SUFFICES ASSUME Init
             PROVE  PagesInv
  OBVIOUS
<1>1. /\ results = <<>> /\ page = <<>> /\ pc = "fetch" /\ start = NoItem /\ last = NoItem
      /\ call \in Calls /\ limit = (IF call.limit > 0 THEN call.limit ELSE 0)
      /\ stayed = {x \in Entries(table) : Wanted(x)}
  BY DEF Init
<1>2. Kept
  BY TableAssumption DEF Init, Kept
<1>3. Found = {} /\ OnPage = {}
  BY <1>1, NothingThere
<1>4. limit \in Nat
  BY <1>1, PagingAssumption
<1>5. stayed \subseteq EntriesNow \cap Sought
  BY <1>1, <1>2, EntriesFacts DEF EntriesNow, Sought
<1>6. Common
  BY <1>1, <1>2, <1>4 DEF Common
<1>7. Sorted
  BY <1>1, <1>3 DEF Sorted
<1>8. NonePassed
  BY <1>1, <1>3, <1>5 DEF NonePassed
<1>9. AtPlace
  BY <1>1 DEF AtPlace
<1> QED BY <1>6, <1>7, <1>8, <1>9 DEF PagesInv

-------------------------------------------------------------------------------
(* Every step keeps the invariant.                                         *)
LEMMA PagesStep ==
  ASSUME PagesInv, LimitInv, [Next]_vars
  PROVE  PagesInv'
<1>1. Kept
  BY DEF PagesInv, Common
<1>2. CASE UNCHANGED vars
  <2>1. /\ Entry' = Entry /\ Order' = Order /\ LastKeys' = LastKeys
        /\ Sought' = Sought /\ Partition' = Partition /\ LosesPlace' = LosesPlace
        /\ EntriesNow' = EntriesNow /\ Present' = Present /\ Kept' = Kept
        /\ Sure' = Sure /\ stayed' = stayed
    BY <1>2, SameWorld DEF vars
  <2>2. Found' = Found /\ OnPage' = OnPage
    BY <1>2 DEF vars, Found, OnPage
  <2>3. Places' = Places
    BY <2>1, <2>2 DEF Places
  <2>4. Common' /\ Sorted'
    BY <1>2, <2>1, <2>2 DEF vars, PagesInv, Common, Sorted
  <2>5. NonePassed' /\ AtPlace'
    BY <1>2, <2>1, <2>2, <2>3 DEF vars, PagesInv, NonePassed, AtPlace
  <2> QED BY <2>4, <2>5 DEF PagesInv
<1>3. CASE PutItem
  <2>1. PICK x \in Puts :
          /\ backend = "service" => Accepts(x)
          /\ Change(Store(TableSchema, table, KeyOf(TableSchema.key, x), x))
    BY <1>3 DEF PutItem
  <2> QED BY <1>1, <2>1, PutKept, ChangeInv
<1>4. CASE DeleteItem
  <2>1. PICK k \in DOMAIN table.items : Change(Delete(TableSchema, table, k))
    BY <1>4 DEF DeleteItem
  <2> QED BY <1>1, <2>1, RemoveKept, ChangeInv
<1>5. CASE FetchFails
  BY <1>5, ReturnErrorInv DEF FetchFails
<1>6. CASE Fetch
  BY <1>6, FetchInv
<1>7. CASE Take
  BY <1>7, TakePagesInv
<1>8. CASE Undecodable
  BY <1>8, UndecodableInv
<1>9. CASE EndPage
  BY <1>9, EndPageInv
<1> QED BY <1>2, <1>3, <1>4, <1>5, <1>6, <1>7, <1>8, <1>9 DEF Next, Step

(* The items come in the order of the key, none of them twice, over all    *)
(* the pages of a call and whatever is written in between: with DynamoDB   *)
(* always, with the in-memory backend as long as it finds the place where  *)
(* the last page ended (memdb.go:591).                                     *)
THEOREM ReadsInOrder == Spec => []InOrder
<1>1. PagesInv => InOrder
  <2> SUFFICES ASSUME PagesInv, Sure, NEW i \in DOMAIN results, NEW j \in DOMAIN results, i < j
               PROVE  Before(results[i], results[j])
    BY DEF InOrder, Sure
  <2>1. <<results[i], results[j]>> \in Order
    BY DEF PagesInv, Sorted
  <2> QED BY <2>1 DEF Order
<1>2. LimitInv /\ [Next]_vars => LimitInv'
  BY LimitStep
<1>3. PagesInv /\ LimitInv /\ [Next]_vars => PagesInv'
  BY PagesStep
<1> QED BY LimitInit, PagesInit, <1>1, <1>2, <1>3, PTL DEF Spec

(* An item that nobody touches during the call, and that the call asks     *)
(* for, is returned, wherever the pages end, also when the in-memory       *)
(* backend loses its place: it then begins anew rather than too late.      *)
THEOREM NothingIsSkipped == Spec => []NothingSkipped
<1>1. PagesInv => NothingSkipped
  <2> SUFFICES ASSUME PagesInv, pc # "failed", NEW x \in stayed, x \notin Found
               PROVE  pc # "done" /\ \A i \in DOMAIN results : ~Before(x, results[i])
    BY DEF NothingSkipped, Found
  <2>1. pc # "done"
    BY DEF PagesInv, NonePassed
  <2>2. ASSUME NEW i \in DOMAIN results, Before(x, results[i])
        PROVE  FALSE
    <3>1. results[i] \in Found /\ results[i] \in Entry
      BY DEF Found, PagesInv, Sorted
    <3>2. x \in Entry
      BY EntriesFacts DEF PagesInv, Common, NonePassed, EntriesNow
    <3>3. <<x, results[i]>> \in Order
      BY <2>2, <3>1, <3>2 DEF Order
    <3> QED BY <3>1, <3>3 DEF PagesInv, NonePassed
  <2> QED BY <2>1, <2>2
<1>2. LimitInv /\ [Next]_vars => LimitInv'
  BY LimitStep
<1>3. PagesInv /\ LimitInv /\ [Next]_vars => PagesInv'
  BY PagesStep
<1> QED BY LimitInit, PagesInit, <1>1, <1>2, <1>3, PTL DEF Spec

-------------------------------------------------------------------------------
(* What the other invariants do not say of the type of the state.          *)
RestInv ==
  /\ changes \in 0..MaxChanges
  /\ pc \in {"fetch", "items", "done", "limit", "stopped", "failed"}
  /\ start \in Item /\ last \in Item
  /\ limit \in 0..(IF call.limit > 0 THEN call.limit ELSE 0)
  /\ Running /\ call.limit > 0 => limit > 0
  /\ removed \in BOOLEAN

(* A call begins with the caller's limit.                                  *)
LEMMA RestInit == Init => RestInv
<1> SUFFICES ASSUME Init
             PROVE  RestInv
  OBVIOUS
<1>1. call.limit \in Int /\ MaxChanges \in Nat
  BY PagingAssumption DEF Init
<1>2. limit = (IF call.limit > 0 THEN call.limit ELSE 0)
  BY DEF Init
<1>3. limit \in 0..(IF call.limit > 0 THEN call.limit ELSE 0) /\ (call.limit > 0 => limit > 0)
  BY <1>1, <1>2
<1>4. changes \in 0..MaxChanges
  BY <1>1 DEF Init
<1>5. /\ pc \in {"fetch", "items", "done", "limit", "stopped", "failed"}
      /\ start \in Item /\ last \in Item /\ removed \in BOOLEAN
  BY NoItemIsItem DEF Init
<1> QED BY <1>3, <1>4, <1>5 DEF RestInv

(* A call that is over has no request to make.                             *)
LEMMA ReturnRest ==
  ASSUME RestInv, call \in Calls, UNCHANGED <<changes, call, removed>>,
         NEW how \in {"done", "limit", "stopped", "failed"}, Return(how)
  PROVE  RestInv'
<1>1. pc' = how /\ start' = NoItem /\ last' = NoItem /\ limit' = 0
  BY DEF Return
<1>2. call.limit \in Int
  BY PagingAssumption
<1>3. limit' \in 0..(IF call.limit > 0 THEN call.limit ELSE 0)
  BY <1>1, <1>2
<1> QED BY <1>1, <1>3, NoItemIsItem DEF RestInv, Running

(* A step that makes no request, moves no place and writes nothing.        *)
LEMMA QuietRest ==
  ASSUME RestInv, UNCHANGED <<changes, call, removed, pc, start, last, limit>>
  PROVE  RestInv'
BY DEF RestInv, Running

(* The next request asks for what remains.                                 *)
LEMMA NextLimitRange ==
  ASSUME RestInv, LimitInv, pc = "items"
  PROVE  /\ NextLimit \in 0..(IF call.limit > 0 THEN call.limit ELSE 0)
         /\ call.limit > 0 => NextLimit > 0
<1>1. call.limit \in Int
  BY PagingAssumption DEF LimitInv
<1>2. CASE call.api \in {"Query", "Scan"} /\ call.limit > 0
  <2>1. Len(results) \in Nat /\ Len(results) < call.limit
    BY <1>2, CollectedLength DEF LimitInv, BelowLimit, Running, Collects
  <2>2. NextLimit = call.limit - Len(results)
    BY <1>2 DEF NextLimit
  <2> QED BY <1>1, <1>2, <2>1, <2>2
<1>3. CASE ~(call.api \in {"Query", "Scan"} /\ call.limit > 0)
  <2>1. NextLimit = limit
    BY <1>3 DEF NextLimit
  <2> QED BY <2>1 DEF RestInv, Running
<1> QED BY <1>2, <1>3

(* Every step keeps this.                                                  *)
LEMMA RestStep ==
  ASSUME RestInv, PagesInv, LimitInv, [Next]_vars
  PROVE  RestInv'
<1>1. call \in Calls
  BY DEF LimitInv
<1>2. CASE UNCHANGED vars
  BY <1>2, QuietRest DEF vars
<1>3. CASE PutItem \/ DeleteItem
  <2>1. PICK t : Change(t)
    BY <1>3 DEF PutItem, DeleteItem
  <2>2. changes < MaxChanges /\ changes' = changes + 1 /\ removed' \in BOOLEAN
        /\ UNCHANGED <<call, pc, start, last, limit>>
    BY <2>1 DEF Change
  <2>3. changes' \in 0..MaxChanges
    BY <2>2, PagingAssumption DEF RestInv
  <2> QED BY <2>2, <2>3 DEF RestInv, Running
<1>4. CASE FetchFails
  BY <1>1, <1>4, ReturnRest DEF FetchFails, ReturnError
<1>5. CASE Fetch
  <2>1. PICK p \in Pages : pc' = "items" /\ last' = p.last
    BY <1>5 DEF Fetch
  <2>2. p.last \in Item
    <3>1. p.last = NoItem \/ \E e \in Partition : p.last = LastKeys[e]
      BY <1>5, PageFacts DEF Fetch
    <3>2. \A e \in Partition : LastKeys[e] \in Item
      BY LastKeyIsKey DEF Partition, LastKeys, PagesInv, Common, Kept
    <3> QED BY <3>1, <3>2, NoItemIsItem
  <2>3. pc = "fetch" /\ UNCHANGED <<changes, call, removed, start, limit>>
    BY <1>5 DEF Fetch
  <2> QED BY <2>1, <2>2, <2>3 DEF RestInv, Running
<1>6. CASE Take
  <2>1. UNCHANGED <<changes, call, removed>>
        /\ \/ \E how \in {"limit", "stopped"} : Return(how)
           \/ UNCHANGED <<pc, start, limit, last>>
    BY <1>6 DEF Take
  <2> QED BY <1>1, <2>1, ReturnRest, QuietRest
<1>7. CASE Undecodable
  <2>1. /\ UNCHANGED <<changes, call, removed>>
        /\ Return("failed") \/ UNCHANGED <<pc, start, limit, last>>
    BY <1>7 DEF Undecodable, ReturnError
  <2> QED BY <1>1, <2>1, ReturnRest, QuietRest
<1>8. CASE EndPage
  <2>1. pc = "items" /\ UNCHANGED <<changes, call, removed>>
    BY <1>8 DEF EndPage
  <2>2. CASE last = NoItem
    <3>1. Return("done")
      BY <1>8, <2>2 DEF EndPage
    <3> QED BY <1>1, <2>1, <3>1, ReturnRest
  <2>3. CASE last # NoItem
    <3>1. pc' = "fetch" /\ start' = last /\ last' = last /\ limit' = NextLimit
      BY <1>8, <2>3 DEF EndPage
    <3>2. /\ limit' \in 0..(IF call.limit > 0 THEN call.limit ELSE 0)
          /\ call.limit > 0 => limit' > 0
      BY <2>1, <3>1, NextLimitRange
    <3> QED BY <2>1, <3>1, <3>2 DEF RestInv, Running
  <2> QED BY <2>2, <2>3
<1> QED BY <1>2, <1>3, <1>4, <1>5, <1>6, <1>7, <1>8 DEF Next, Step

(* The state has its type: in particular, a call with a limit never sends  *)
(* a request without one (query.go:251), which would read everything.      *)
THEOREM PagingTypeOK == Spec => []TypeOK
<1>1. RestInv /\ PagesInv /\ LimitInv => TypeOK
  <2> SUFFICES ASSUME RestInv, PagesInv, LimitInv
               PROVE  TypeOK
    OBVIOUS
  <2>1. /\ backend \in {"memdb", "service"} /\ IsTable(table)
        /\ call \in Calls /\ call.api \in Apis
    BY PagingAssumption DEF PagesInv, Common, Kept, WellKept
  <2>2. Entry \subseteq Item
    BY DEF Entry
  <2>3. page \in Seq(Item) /\ results \in Seq(Item)
    BY <2>2 DEF PagesInv, Sorted
  <2>4. stayed \subseteq Item
    BY <2>2, EntriesFacts DEF PagesInv, Common, NonePassed, EntriesNow
  <2> QED BY <2>1, <2>3, <2>4 DEF TypeOK, RestInv
<1>2. LimitInv /\ [Next]_vars => LimitInv'
  BY LimitStep
<1>3. PagesInv /\ LimitInv /\ [Next]_vars => PagesInv'
  BY PagesStep
<1>4. RestInv /\ PagesInv /\ LimitInv /\ [Next]_vars => RestInv'
  BY RestStep
<1> QED BY LimitInit, PagesInit, RestInit, <1>1, <1>2, <1>3, <1>4, PTL DEF Spec

===============================================================================
