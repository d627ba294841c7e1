-------------------------- MODULE MemDBAtomic_proofs --------------------------
(***************************************************************************)
(* The backend with its locks implements AtomicStore, whatever the numbers *)
(* of clients, tables, keys and requests, if only the first operation of a *)
(* transaction can be refused when its turn to be written comes.           *)
(***************************************************************************)
EXTENDS MemDBAtomic, MemDB_proofs, AtomicOps_proofs

-------------------------------------------------------------------------------
(* Writes that are never refused are all carried out.                      *)
LEMMA AllCarriedOut ==
  ASSUME NEW s \in Seq({op \in Op : NeverRefused(op)}),
         NEW p, IsProgress(p), IsWrite(p), p.verdict = "ok",
         \A t \in Tables : IsTable(p.db[t])
  PROVE  DoAll(p, s).verdict = "ok"
<1> DEFINE S == {op \in Op : NeverRefused(op)}
           Ready(o) == IsProgress(o) /\ IsWrite(o) /\ o.verdict = "ok"
                         /\ \A t \in Tables : IsTable(o.db[t])
           T == {r \in Seq(S) : \A o : Ready(o) => DoAll(o, r).verdict = "ok"}
<1>1. <<>> \in T
  BY DoAllEmpty
<1>2. ASSUME NEW op \in S, NEW o, Ready(o)
      PROVE  Ready(DoOne(o, op))
  <2> DEFINE table == o.db[op.table]
             schema == SchemaOf[op.table]
             k == KeyOf(schema.key, op.item)
             old == IF k \in DOMAIN table.items THEN table.items[k] ELSE op.item
  <2>1. op \in Op /\ op.table \in Tables /\ op.item \in Item /\ NeverRefused(op)
    BY RequestAssumption DEF IsOp
  <2>2. old \in Item
    BY <1>2, <2>1 DEF IsTable, IsMap
  <2>3. op.kind # "check" => k # NoKey
    BY <2>1 DEF NeverRefused, KeyIn
  <2>4. op.kind = "update" => Updated(table, k, op) # Err
    BY <2>1, <2>2 DEF NeverRefused, Updated
  <2>5. Verdict(schema, table, op) = "ok"
    <3> HIDE DEF k, table, schema
    <3> QED BY <2>3, <2>4 DEF Verdict, k
  <2>6. DoOne(o, op).verdict = "ok"
    BY <1>2, <2>5 DEF DoOne, WriteOne, Progress
  <2> QED BY <1>2, <2>1, <2>6, DoOneKeepsTables
<1>3. ASSUME NEW r \in Seq(S), r # <<>>, Tail(r) \in T
      PROVE  r \in T
  <2> SUFFICES ASSUME NEW o, Ready(o)
               PROVE  DoAll(o, r).verdict = "ok"
    OBVIOUS
  <2>1. Head(r) \in S
    BY <1>3
  <2>2. Ready(DoOne(o, Head(r)))
    BY <1>2, <2>1
  <2>3. DoAll(o, r) = DoAll(DoOne(o, Head(r)), Tail(r))
    BY <1>3, DoAllNext
  <2> QED BY <1>3, <2>2, <2>3
<1>4. Seq(S) \subseteq T
  <2> HIDE DEF T, S
  <2> QED BY <1>1, <1>3, SequenceInduction
<1> QED BY <1>4

LEMMA SameExecuted ==
  ASSUME NEW type, NEW state, NEW items, NEW ops
  PROVE  Atomic!Executed(type, state, items, ops) = Executed(type, state, items, ops)
<1> USE DEF Atomic!NoKey, NoKey
<1>1. /\ \A def, item : Atomic!KeyOf(def, item) = KeyOf(def, item)
      /\ \A op : Atomic!KeyIn(op) = KeyIn(op)
  BY DEF Atomic!KeyIn, KeyIn, Atomic!KeyOf, KeyOf, Atomic!HasKeyAttr, HasKeyAttr
<1>2. ASSUME NEW schema, NEW table, NEW op
      PROVE  Atomic!Verdict(schema, table, op) = Verdict(schema, table, op)
  BY <1>1 DEF Atomic!Verdict, Verdict, Atomic!Updated, Updated
<1>3. ASSUME NEW schema, NEW table, NEW op
      PROVE  Atomic!Apply(schema, table, op) = Apply(schema, table, op)
  <2>1. \A gsi, def, old, new : Atomic!UpdateGSI(gsi, def, old, new) = UpdateGSI(gsi, def, old, new)
    <3>1. /\ \A m, k : Atomic!Without(m, k) = Without(m, k)
          /\ \A m, k, item : Atomic!With(m, k, item) = With(m, k, item)
      BY DEF Atomic!With, With, Atomic!Without, Without
    <3> QED BY <1>1, <3>1 DEF Atomic!UpdateGSI, UpdateGSI
  <2>2. \A gsis, defs, old, new :
          Atomic!UpdateGSIs(gsis, defs, old, new) = UpdateGSIs(gsis, defs, old, new)
    BY <2>1 DEF Atomic!UpdateGSIs, UpdateGSIs
  <2>3. \A k, item : Atomic!Store(schema, table, k, item) = Store(schema, table, k, item)
    BY <2>2 DEF Atomic!Store, Store, Atomic!With, With, Atomic!Lookup, Lookup, Atomic!NoItem, NoItem
  <2>4. \A k : Atomic!Delete(schema, table, k) = Delete(schema, table, k)
    BY <2>2 DEF Atomic!Delete, Delete, Atomic!Without, Without, Atomic!Lookup, Lookup,
      Atomic!NoItem, NoItem
  <2> QED BY <1>1, <2>3, <2>4 DEF Atomic!Apply, Apply, Atomic!Updated, Updated
<1>4. ASSUME NEW p, NEW op
      PROVE  Atomic!WriteOne(p, op) = WriteOne(p, op)
  BY <1>2, <1>3 DEF Atomic!WriteOne, WriteOne, Atomic!Progress, Progress
<1>5. ASSUME NEW p, NEW op
      PROVE  Atomic!ReadOne(p, op) = ReadOne(p, op)
  BY <1>1 DEF Atomic!ReadOne, ReadOne, Atomic!Progress, Progress, Atomic!Lookup, Lookup, Atomic!NoItem, NoItem
<1>6. ASSUME NEW p, NEW op
      PROVE  Atomic!DoOne(p, op) = DoOne(p, op)
  BY <1>4, <1>5 DEF Atomic!DoOne, DoOne, Atomic!IsWrite, IsWrite
<1>7. ASSUME NEW p
      PROVE  Atomic!DoAll(p, ops) = DoAll(p, ops)
  BY <1>6 DEF Atomic!DoAll, DoAll
<1> QED BY <1>7 DEF Atomic!Executed, Executed, Atomic!Progress, Progress

LEMMA SameRequests ==
  ASSUME NEW r
  PROVE  /\ Atomic!IsBatch(r) = IsBatch(r)
         /\ Atomic!IsWrite(r) = IsWrite(r)
         /\ Atomic!BatchTables(r) = BatchTables(r)
         /\ Atomic!TooMany(r) = TooMany(r)
BY DEF Atomic!IsBatch, IsBatch, Atomic!IsWrite, IsWrite, Atomic!BatchTables, BatchTables,
  Atomic!TooMany, TooMany, Atomic!Size, Size, Atomic!MapThenSumSet, MapThenSumSet,
  Atomic!MapThenFoldSet, MapThenFoldSet

LEMMA SameConditions ==
  ASSUME NEW state, NEW r
  PROVE Atomic!Conditions(state, r) = Conditions(state, r)
BY DEF Atomic!Conditions, Conditions, Atomic!Check, Check, Atomic!Answer, Answer, Atomic!KeyIn, KeyIn,
  Atomic!KeyOf, KeyOf, Atomic!HasKeyAttr, HasKeyAttr, Atomic!NoKey, NoKey, Atomic!Lookup, Lookup,
  Atomic!NoItem, NoItem, Atomic!Min, Min

LEMMA SameAnswers ==
  /\ Atomic!NoReply = NoReply /\ Atomic!NewTable = NewTable
  /\ \A status, detail : Atomic!Answer(status, detail) = Answer(status, detail)
  /\ \A p : Atomic!Result(p) = Result(p)
BY DEF Atomic!NoReply, NoReply, Atomic!Answer, Answer, Atomic!Result, Result,
  Atomic!NewTable, NewTable, Atomic!EmptyMap, EmptyMap, Atomic!NoItem, NoItem

-------------------------------------------------------------------------------
(* Bodies, and the tables they work on.                                    *)

Needed(c) == {t \in Tables : Needs(c, t)}

Begun(c) == Progress(req[c].type, db, out[c], "ok")

LEMMA WorkIsOnNeeded ==
  ASSUME TypeOK, NEW c \in Clients
  PROVE  work[c] \in Seq(OpsOn(Needed(c))) /\ IsProgress(Begun(c))
<1>1. work[c] \in Seq(Op) /\ \A i \in DOMAIN work[c] : work[c][i] \in Op
  BY DEF TypeOK
<1>2. \A i \in DOMAIN work[c] : work[c][i].table \in Needed(c)
  BY <1>1, RequestAssumption DEF Needed, Needs, IsOp
<1>3. IsProgress(Begun(c))
  BY DEF TypeOK, IsProgress, Begun, Progress
<1> QED BY <1>1, <1>2, <1>3, OpsOnTables

LEMMA BodyFrame ==
  ASSUME TypeOK, NEW c \in Clients
  PROVE  /\ IsProgress(Body(c))
         /\ \A t \in Tables : ~Needs(c, t) => Body(c).db[t] = db[t]
         /\ ~IsWrite(req[c]) => Body(c).db = db
         /\ IsWrite(req[c]) => Body(c).items = out[c]
<1>1. Body(c) = DoAll(Begun(c), work[c])
  BY DEF Body, Executed, Begun
<1>2. Begun(c).db = db /\ Begun(c).items = out[c] /\ (IsWrite(Begun(c)) <=> IsWrite(req[c]))
  BY DEF Begun, Progress, IsWrite
<1>3. Needed(c) \in SUBSET Tables
  BY DEF Needed
<1>4. work[c] \in Seq(OpsOn(Needed(c))) /\ IsProgress(Begun(c))
  BY WorkIsOnNeeded
<1>5. /\ IsProgress(Body(c))
      /\ \A t \in Tables \ Needed(c) : Body(c).db[t] = Begun(c).db[t]
      /\ ~IsWrite(Begun(c)) => Body(c).db = Begun(c).db
      /\ IsWrite(Begun(c)) => Body(c).items = Begun(c).items
  BY <1>1, <1>3, <1>4, DoAllFrame
<1> QED BY <1>2, <1>5 DEF Needed

(* Nobody else is writing a table that a client is inside.                 *)
LEMMA AppliesAlone ==
  ASSUME TypeOK, LockInv, NEW c \in Clients, NEW d \in Clients, NEW t \in Tables,
         Holds(c, t), pc[d] = "apply", Needs(d, t)
  PROVE  d = c
<1>1. IsWrite(req[d]) /\ Holds(d, t)
  BY DEF LockInv, BodiesHold, AllHeld, Needs
<1>2. writer[t] = d /\ active[t]
  BY <1>1 DEF Holds, LockInv, ReadersInPlace
<1> QED BY <1>2 DEF Holds, LockInv, WritersAlone

(* The data of a table, as far as one client decides it.                   *)
Own(c, t) == IF pc[c] = "apply" THEN Body(c).db[t] ELSE db[t]

OthersApply(c, t) == \E d \in Clients \ {c} : pc[d] = "apply" /\ Needs(d, t)

DataIsOwn ==
  \A t \in Tables, c \in Clients :
    /\ ~OthersApply(c, t) => DataOf(t) = Own(c, t)
    /\ pc[c] = "apply" /\ Needs(c, t) => DataOf(t) = Body(c).db[t]

LEMMA DataFound == TypeOK /\ LockInv => DataIsOwn
<1> SUFFICES ASSUME TypeOK, LockInv, NEW t \in Tables, NEW c \in Clients
             PROVE  /\ ~OthersApply(c, t) => DataOf(t) = Own(c, t)
                    /\ pc[c] = "apply" /\ Needs(c, t) => DataOf(t) = Body(c).db[t]
  BY DEF DataIsOwn
<1>1. ASSUME pc[c] = "apply", Needs(c, t)
      PROVE  DataOf(t) = Body(c).db[t]
  <2>1. Holds(c, t)
    BY <1>1 DEF LockInv, BodiesHold, AllHeld, Needs
  <2>2. \A d \in Clients : pc[d] = "apply" /\ Needs(d, t) => d = c
    BY <2>1, AppliesAlone
  <2>3. (CHOOSE d \in Clients : pc[d] = "apply" /\ Needs(d, t)) = c
    BY <1>1, <2>2
  <2> QED BY <1>1, <2>3 DEF DataOf
<1>2. ASSUME ~OthersApply(c, t), ~(pc[c] = "apply" /\ Needs(c, t))
      PROVE  DataOf(t) = Own(c, t)
  <2>1. DataOf(t) = db[t]
    BY <1>2 DEF DataOf, OthersApply
  <2>2. Own(c, t) = db[t]
    BY <1>2, BodyFrame DEF Own
  <2> QED BY <2>1, <2>2
<1> QED BY <1>1, <1>2 DEF Own

LEMMA DataFoundNext == TypeOK' /\ LockInv' => DataIsOwn'
BY DataFound, PTL

(* A call that does not move, and whose tables do not change, has the same *)
(* effect as before.                                                       *)
LEMMA EffectStays ==
  ASSUME TypeOK, TypeOK', NEW d \in Clients, UNCHANGED CallAt(d),
         InBody(d) => \A t \in Tables : Needs(d, t) => db'[t] = db[t]
  PROVE  /\ UNCHANGED <<PcOf(d), LaterOf(d), OutOf(d), ReplyOf(d)>>
         /\ InBody(d) => \A t \in Tables : Needs(d, t) => Body(d)'.db[t] = Body(d).db[t]
<1>1. /\ UNCHANGED <<pc[d], req[d], work[d], later[d], out[d], reply[d]>>
      /\ UNCHANGED InBody(d) /\ \A t : UNCHANGED Needs(d, t)
  BY DEF CallAt, InBody, Needs
<1>2. ASSUME InBody(d)
      PROVE  Alike(Body(d), Body(d)', Needed(d))
  <2> DEFINE b == Progress(req[d].type, db', out[d], "ok")
  <2>1. Body(d)' = DoAll(b, work[d])
    BY <1>1 DEF Body, Executed
  <2>2. Body(d) = DoAll(Begun(d), work[d])
    BY DEF Body, Executed, Begun
  <2>3. Alike(Begun(d), b, Needed(d))
    BY <1>2, WorkIsOnNeeded DEF TypeOK, Alike, IsProgress, Begun, Progress, Needed
  <2>4. Needed(d) \in SUBSET Tables
    BY DEF Needed
  <2> HIDE DEF b
  <2> QED BY <2>1, <2>2, <2>3, <2>4, WorkIsOnNeeded, DoAllAlike
<1>3. InBody(d) => Body(d)'.verdict = Body(d).verdict /\ Body(d)'.items = Body(d).items
  BY <1>2 DEF Alike
<1>4. UNCHANGED ReplyOf(d)
  BY <1>1, <1>3 DEF ReplyOf, Outcome, Result
<1>5. UNCHANGED PcOf(d)
  BY <1>1, <1>4 DEF PcOf
<1>6. UNCHANGED LaterOf(d)
  BY <1>1, <1>5 DEF LaterOf
<1>7. UNCHANGED OutOf(d)
  BY <1>1, <1>3, <1>5 DEF OutOf
<1> QED BY <1>2, <1>4, <1>5, <1>6, <1>7 DEF Alike, Needed

-------------------------------------------------------------------------------
(* What a step of one client changes in the effects of all calls.          *)
Moves(c) ==
  /\ TypeOK /\ LockInv /\ CallsInPlace
  /\ TypeOK' /\ LockInv' /\ CallsInPlace'
  /\ \/ Step(c)
     \/ \E r \in Request : Call(c, r)
     \/ \E t \in Tables : Lock(c, t)

LEMMA OthersKeepTheirTables ==
  ASSUME NEW c \in Clients, Moves(c), UNCHANGED db \/ Write(c),
         NEW d \in Clients \ {c}, InBody(d), NEW t \in Tables, Needs(d, t)
  PROVE  db'[t] = db[t]
<1>1. Holds(d, t)
  BY DEF Moves, LockInv, BodiesHold, AllHeld, Needs, InBody
<1>2. CASE UNCHANGED db
  BY <1>2
<1>3. CASE Write(c)
  <2> SUFFICES ASSUME db'[t] # db[t]
               PROVE  FALSE
    OBVIOUS
  <2>1. pc[c] = "apply" /\ Needs(c, t)
    BY <1>3 DEF Write, Moves, TypeOK, Needs
  <2> QED BY <1>1, <2>1, AppliesAlone DEF Moves
<1> QED BY <1>2, <1>3

LEMMA OneMoves ==
  ASSUME NEW c \in Clients, Moves(c), UNCHANGED db \/ Write(c)
  PROVE  /\ UNCHANGED created
         /\ EffectivePc' = [EffectivePc EXCEPT ![c] = PcOf(c)']
         /\ EffectiveLater' = [EffectiveLater EXCEPT ![c] = LaterOf(c)']
         /\ EffectiveOut' = [EffectiveOut EXCEPT ![c] = OutOf(c)']
         /\ EffectiveReply' = [EffectiveReply EXCEPT ![c] = ReplyOf(c)']
         /\ \A t \in Tables :
              IF OthersApply(c, t) THEN DataOf(t)' = DataOf(t)
              ELSE DataOf(t) = Own(c, t) /\ DataOf(t)' = Own(c, t)'
<1>1. UNCHANGED created /\ \A d \in Clients \ {c} : UNCHANGED CallAt(d)
  BY StepIsLocal DEF Moves, CallsInPlace
<1>2. \A d \in Clients \ {c} : InBody(d) => \A t \in Tables : Needs(d, t) => db'[t] = db[t]
  BY OthersKeepTheirTables
<1>3. \A d \in Clients \ {c} : UNCHANGED <<PcOf(d), LaterOf(d), OutOf(d), ReplyOf(d)>>
  BY <1>1, <1>2, EffectStays DEF Moves
<1>4. /\ EffectivePc' = [EffectivePc EXCEPT ![c] = PcOf(c)']
      /\ EffectiveLater' = [EffectiveLater EXCEPT ![c] = LaterOf(c)']
      /\ EffectiveOut' = [EffectiveOut EXCEPT ![c] = OutOf(c)']
      /\ EffectiveReply' = [EffectiveReply EXCEPT ![c] = ReplyOf(c)']
  BY <1>3 DEF EffectivePc, EffectiveLater, EffectiveOut, EffectiveReply
<1>5. DataIsOwn /\ DataIsOwn'
  BY DataFound, DataFoundNext DEF Moves
<1>6. ASSUME NEW t \in Tables, NEW d \in Clients \ {c}, pc[d] = "apply", Needs(d, t)
      PROVE  DataOf(t)' = DataOf(t)
  <2>1. pc'[d] = "apply" /\ Needs(d, t)' /\ InBody(d)
    BY <1>1, <1>6 DEF CallAt, Needs, InBody
  <2>2. Body(d)'.db[t] = Body(d).db[t]
    BY <1>1, <1>2, <1>6, <2>1, EffectStays DEF Moves
  <2> QED BY <1>5, <1>6, <2>1, <2>2 DEF DataIsOwn
<1>7. ASSUME NEW t \in Tables, ~OthersApply(c, t)
      PROVE  DataOf(t) = Own(c, t) /\ DataOf(t)' = Own(c, t)'
  <2>1. ~OthersApply(c, t)'
    BY <1>1, <1>7 DEF CallAt, Needs, OthersApply
  <2> QED BY <1>5, <1>7, <2>1 DEF DataIsOwn
<1> QED BY <1>1, <1>4, <1>6, <1>7 DEF OthersApply

(* A step that changes neither the outcome of its own call nor what it     *)
(* makes of the tables is none of the atomic store.                        *)
LEMMA Stutters ==
  ASSUME NEW c \in Clients, Moves(c), UNCHANGED db \/ Write(c),
         UNCHANGED <<req, PcOf(c), LaterOf(c), OutOf(c), ReplyOf(c)>>,
         \A t \in Tables : Own(c, t)' = Own(c, t)
  PROVE  UNCHANGED Atomic!vars
<1>1. \A t \in Tables : DataOf(t)' = DataOf(t)
  BY OneMoves
<1>2. UNCHANGED EffectiveDB
  BY <1>1 DEF EffectiveDB
<1>3. UNCHANGED <<EffectivePc, EffectiveLater, EffectiveOut, EffectiveReply>>
  BY OneMoves DEF EffectivePc, EffectiveLater, EffectiveOut, EffectiveReply
<1> QED BY <1>2, <1>3, OneMoves DEF Atomic!vars

(* The effect of a call outside its body.                                  *)
OutsideIs ==
  \A c \in Clients : ~InBody(c) =>
    /\ ReplyOf(c) = reply[c]
    /\ pc[c] \in {"resolve", "lock", "check"} => PcOf(c) = "called"
    /\ pc[c] = "idle" => PcOf(c) = "idle"
    /\ pc[c] = "unlock" => PcOf(c) = IF reply[c] = NoReply THEN "called" ELSE "done"
    /\ OutOf(c) = IF PcOf(c) = "called" THEN out[c] ELSE <<>>
    /\ pc[c] # "lock" => LaterOf(c) = IF PcOf(c) = "called" /\ IsBatch(req[c])
                                      THEN later[c] ELSE {}
    /\ \A t \in Tables : Own(c, t) = db[t]

LEMMA OutsideBody == CallsInPlace => OutsideIs
<1> SUFFICES ASSUME CallsInPlace
             PROVE  OutsideIs
  OBVIOUS
<1>1. ASSUME NEW c \in Clients, ~InBody(c)
      PROVE  ReplyOf(c) = reply[c] /\ \A t \in Tables : Own(c, t) = db[t]
  BY <1>1 DEF ReplyOf, Own, InBody
<1>2. \A c \in Clients : AnswerInPlace(c)
  BY DEF CallsInPlace
<1> QED BY <1>1, <1>2 DEF AnswerInPlace, PcOf, OutOf, LaterOf, InBody, OutsideIs

LEMMA OutsideBodyNext == CallsInPlace' => OutsideIs'
BY OutsideBody, PTL

-------------------------------------------------------------------------------
(* Step by step.                                                           *)
LEMMA CallMaps ==
  ASSUME NEW c \in Clients, NEW r \in Request, Moves(c), Call(c, r)
  PROVE  Atomic!Call(c, r)
<1>1. /\ pc[c] = "idle" /\ pc'[c] = "resolve" /\ req'[c] = r /\ later'[c] = BatchTables(r)
      /\ req' = [req EXCEPT ![c] = r]
      /\ UNCHANGED <<db, out[c], reply[c]>>
  BY DEF Call, Goto, Moves, TypeOK
<1>2. ~InBody(c) /\ ~InBody(c)' /\ AnswerInPlace(c)
  BY <1>1 DEF InBody, Moves, CallsInPlace
<1>3. OutsideIs /\ OutsideIs'
  BY OutsideBody, OutsideBodyNext DEF Moves
<1>4. /\ PcOf(c) = "idle" /\ PcOf(c)' = "called" /\ UNCHANGED ReplyOf(c)
      /\ UNCHANGED OutOf(c) /\ LaterOf(c)' = BatchTables(r)
      /\ \A t \in Tables : Own(c, t)' = Own(c, t)
  <2>1. PcOf(c) = "idle" /\ PcOf(c)' = "called" /\ UNCHANGED ReplyOf(c)
        /\ \A t \in Tables : Own(c, t)' = Own(c, t)
    BY <1>1, <1>2, <1>3 DEF OutsideIs
  <2>2. UNCHANGED OutOf(c)
    BY <1>1, <1>2, <1>3, <2>1 DEF OutsideIs, AnswerInPlace
  <2>3. LaterOf(c)' = BatchTables(r)
    BY <1>1, <1>2, <1>3, <2>1 DEF OutsideIs, BatchTables
  <2> QED BY <2>1, <2>2, <2>3
<1>5. UNCHANGED EffectiveDB
  BY <1>1, <1>4, OneMoves DEF EffectiveDB
<1>6. /\ UNCHANGED <<EffectiveOut, EffectiveReply>>
      /\ EffectivePc' = [EffectivePc EXCEPT ![c] = "called"]
      /\ EffectiveLater' = [EffectiveLater EXCEPT ![c] = BatchTables(r)]
      /\ EffectivePc[c] = "idle"
  BY <1>1, <1>4, OneMoves DEF EffectivePc, EffectiveLater, EffectiveOut, EffectiveReply
<1> QED BY <1>1, <1>5, <1>6, SameRequests, OneMoves DEF Atomic!Call

(* A call that is decided without an effect on the data.                   *)
LEMMA Decided ==
  ASSUME NEW c \in Clients, Moves(c), UNCHANGED <<db, req>>,
         pc'[c] = "unlock", reply'[c] # NoReply, ~InBody(c)
  PROVE  Atomic!Finish(c, reply'[c]) /\ UNCHANGED EffectiveDB
<1>1. ~InBody(c)'
  BY DEF InBody
<1>2. OutsideIs /\ OutsideIs'
  BY OutsideBody, OutsideBodyNext DEF Moves
<1>3. /\ PcOf(c)' = "done" /\ ReplyOf(c)' = reply'[c] /\ OutOf(c)' = <<>> /\ LaterOf(c)' = {}
      /\ \A t \in Tables : Own(c, t)' = Own(c, t)
  BY <1>1, <1>2 DEF OutsideIs
<1>4. UNCHANGED EffectiveDB
  BY <1>3, OneMoves DEF EffectiveDB
<1> QED BY <1>3, <1>4, OneMoves DEF Atomic!Finish

LEMMA ResolveMaps ==
  ASSUME NEW c \in Clients, Moves(c), Resolve(c)
  PROVE  Atomic!Reject(c) \/ UNCHANGED Atomic!vars
<1>1. pc[c] = "resolve" /\ ~IsBatch(req[c]) /\ UNCHANGED <<db, req, req[c], later[c], out[c]>>
  BY DEF Resolve
<1>2. ~InBody(c) /\ OutsideIs /\ OutsideIs'
  BY <1>1, OutsideBody, OutsideBodyNext DEF InBody, Moves
<1>3. PcOf(c) = "called"
  BY <1>1, <1>2 DEF OutsideIs
<1> DEFINE Rejected == TooMany(req[c]) \/ \E i \in DOMAIN req[c].ops : req[c].ops[i].table \notin created
<1>4. CASE Rejected
  <2>1. pc'[c] = "unlock" /\ reply'[c] = Answer("invalid", <<>>)
    BY <1>4 DEF Resolve, Finish, Goto, Moves, TypeOK, CallsInPlace, AnswerTypes
  <2>2. Atomic!Finish(c, Answer("invalid", <<>>)) /\ UNCHANGED EffectiveDB
    BY <1>1, <1>2, <2>1, AnswerIsReply, Decided
  <2>3. Atomic!Named(c) = {req[c].ops[i].table : i \in DOMAIN req[c].ops}
    BY <1>1, SameRequests DEF Atomic!Named
  <2>4. EffectivePc[c] = "called"
    BY <1>3 DEF EffectivePc
  <2> QED BY <1>4, <2>2, <2>3, <2>4, SameRequests, SameAnswers DEF Atomic!Reject
<1>5. CASE ~Rejected
  <2>1. pc'[c] = "lock" /\ UNCHANGED reply[c]
    BY <1>5 DEF Resolve, Goto, Moves, TypeOK
  <2>2. ~InBody(c)'
    BY <2>1 DEF InBody
  <2>3. UNCHANGED <<PcOf(c), OutOf(c), ReplyOf(c)>> /\ \A t \in Tables : Own(c, t)' = Own(c, t)
    BY <1>1, <1>2, <2>1, <2>2 DEF OutsideIs
  <2>4. UNCHANGED LaterOf(c)
    BY <1>1, <2>3 DEF LaterOf
  <2> QED BY <1>1, <2>3, <2>4, Stutters
<1> QED BY <1>4, <1>5

(* The operations of a request are not none.                               *)
LEMMA RequestHasOps ==
  ASSUME NEW r \in Request
  PROVE  /\ ~IsBatch(r) => r.ops # <<>>
         /\ IsBatch(r) => \A t \in DOMAIN r.ops : r.ops[t] # <<>>
         /\ r.type = "write" => Len(r.ops) = 1
BY RequestAssumption DEF IsRequest, IsBatch

LEMMA ResolveBatchMaps ==
  ASSUME NEW c \in Clients, Moves(c), NEW t \in Tables, ResolveBatch(c, t)
  PROVE  Atomic!Reject(c) \/ UNCHANGED Atomic!vars
<1>1. /\ pc[c] = "resolve" /\ IsBatch(req[c]) /\ t \in later[c]
      /\ UNCHANGED <<db, req, req[c], out[c]>>
  BY DEF ResolveBatch
<1>2. ~InBody(c) /\ OutsideIs /\ OutsideIs'
  BY <1>1, OutsideBody, OutsideBodyNext DEF InBody, Moves
<1>3. PcOf(c) = "called" /\ LaterOf(c) = later[c]
  BY <1>1, <1>2 DEF OutsideIs
<1>4. CASE TooMany(req[c]) \/ t \notin created
  <2>1. pc'[c] = "unlock" /\ reply'[c] = Answer("invalid", <<>>)
    BY <1>4 DEF ResolveBatch, Finish, Goto, Moves, TypeOK, CallsInPlace, AnswerTypes
  <2>2. Atomic!Finish(c, Answer("invalid", <<>>)) /\ UNCHANGED EffectiveDB
    BY <1>1, <1>2, <2>1, AnswerIsReply, Decided
  <2>3. Atomic!Named(c) = later[c]
    BY <1>1, <1>3, SameRequests DEF Atomic!Named, EffectiveLater
  <2>4. EffectivePc[c] = "called"
    BY <1>3 DEF EffectivePc
  <2> QED BY <1>1, <1>4, <2>2, <2>3, <2>4, SameRequests, SameAnswers DEF Atomic!Reject
<1>5. CASE ~(TooMany(req[c]) \/ t \notin created)
  <2>1. /\ pc'[c] = "lock" /\ later'[c] = later[c] \ {t} /\ work'[c] = req[c].ops[t]
        /\ UNCHANGED reply[c]
    BY <1>5 DEF ResolveBatch, Goto, Moves, TypeOK
  <2>2. ~InBody(c)'
    BY <2>1 DEF InBody
  <2>3. UNCHANGED <<PcOf(c), OutOf(c), ReplyOf(c)>> /\ \A u \in Tables : Own(c, u)' = Own(c, u)
    BY <1>1, <1>2, <2>1, <2>2 DEF OutsideIs
  <2>4. \A u \in Tables : Needs(c, u)' <=> u = t
    <3>1. req[c] \in Request /\ t \in DOMAIN req[c].ops
      BY <1>1 DEF Moves, TypeOK, BatchTables
    <3>2. /\ work'[c] \in Seq(Op) /\ work'[c] # <<>>
          /\ \A i \in DOMAIN work'[c] : work'[c][i].table = t
      BY <1>1, <2>1, <3>1, RequestOps, RequestHasOps
    <3>3. 1 \in DOMAIN work'[c]
      BY <3>2
    <3> QED BY <3>2, <3>3 DEF Needs
  <2>5. LaterOf(c)' = later[c]
    BY <1>1, <1>3, <2>1, <2>3, <2>4 DEF LaterOf, Moves, TypeOK
  <2> QED BY <1>1, <1>3, <2>3, <2>5, Stutters
<1> QED BY <1>4, <1>5

(* A step of a body leaves it on the way to the same end.                  *)
LEMMA BodyGoesOn ==
  ASSUME NEW c \in Clients, Moves(c), UNCHANGED db \/ Write(c),
         InBody(c), UNCHANGED <<req, pc[c], later[c]>>,
         work[c] # <<>>, work'[c] = Tail(work[c]),
         Begun(c)' = DoOne(Begun(c), Head(work[c]))
  PROVE  UNCHANGED Atomic!vars
<1>1. work[c] \in Seq(Op)
  BY DEF Moves, TypeOK
<1>2. Body(c) = DoAll(Begun(c), work[c]) /\ Body(c)' = DoAll(Begun(c)', work'[c])
  BY DEF Body, Executed, Begun
<1>3. UNCHANGED Body(c)
  BY <1>1, <1>2, DoAllNext
<1>4. InBody(c)' /\ UNCHANGED req[c]
  BY DEF InBody
<1>5. UNCHANGED ReplyOf(c)
  BY <1>3, <1>4 DEF ReplyOf, Outcome
<1>6. UNCHANGED PcOf(c)
  BY <1>5 DEF PcOf
<1>7. UNCHANGED LaterOf(c)
  BY <1>4, <1>6 DEF LaterOf, InBody
<1>8. UNCHANGED OutOf(c)
  BY <1>3, <1>4, <1>6 DEF OutOf
<1>9. \A t \in Tables : Own(c, t)' = Own(c, t)
  <2>1. pc[c] = "read" => UNCHANGED db
    BY DEF Write
  <2> QED BY <1>3, <2>1 DEF Own, InBody
<1> QED BY <1>5, <1>6, <1>7, <1>8, <1>9, Stutters

(* A body ends with the outcome that was decided when it began.            *)
LEMMA BodyEnds ==
  ASSUME NEW c \in Clients, Moves(c), UNCHANGED <<db, req, later[c]>>,
         InBody(c), pc'[c] = "unlock", reply'[c] = Outcome(c),
         Outcome(c) = NoReply => out'[c] = Body(c).items,
         pc[c] = "apply" => Body(c).db = db
  PROVE  UNCHANGED Atomic!vars
<1>1. ~InBody(c)' /\ OutsideIs'
  BY OutsideBodyNext DEF InBody, Moves
<1>2. UNCHANGED ReplyOf(c)
  BY <1>1 DEF OutsideIs, ReplyOf
<1>3. UNCHANGED PcOf(c)
  BY <1>1, <1>2 DEF OutsideIs, PcOf, ReplyOf, InBody
<1>4. UNCHANGED LaterOf(c)
  BY <1>1, <1>3 DEF OutsideIs, LaterOf, InBody
<1>5. UNCHANGED OutOf(c)
  <2>1. PcOf(c) = "called" => Outcome(c) = NoReply
    BY DEF PcOf, ReplyOf, InBody
  <2>2. OutOf(c) = IF PcOf(c) = "called" THEN Body(c).items ELSE <<>>
    BY DEF OutOf
  <2>3. OutOf(c)' = IF PcOf(c)' = "called" THEN out'[c] ELSE <<>>
    BY <1>1 DEF OutsideIs
  <2> QED BY <1>3, <2>1, <2>2, <2>3
<1>6. \A t \in Tables : Own(c, t)' = Own(c, t)
  BY <1>1 DEF OutsideIs, Own
<1> QED BY <1>2, <1>3, <1>4, <1>5, <1>6, Stutters

LEMMA ReadMaps ==
  ASSUME NEW c \in Clients, Moves(c), Read(c)
  PROVE  UNCHANGED Atomic!vars
<1> DEFINE op == Head(work[c])
           items == db[op.table].items
           missing == req[c].type = "batchget" /\ KeyIn(op) \notin DOMAIN items
           found == Append(out[c], Lookup(items, KeyIn(op)))
<1>1. /\ pc[c] = "read" /\ work[c] # <<>> /\ UNCHANGED <<db, req, req[c], later[c]>>
      /\ work[c] \in Seq(Op) /\ Tail(work[c]) \in Seq(Op)
  BY DEF Read, Moves, TypeOK
<1>2. InBody(c) /\ ~IsWrite(req[c])
  BY <1>1 DEF InBody, Moves, LockInv, BodiesHold
<1>3. DoOne(Begun(c), op) = IF KeyIn(op) = NoKey THEN Progress(req[c].type, db, out[c], "invalid")
                            ELSE IF missing THEN Begun(c)
                            ELSE Progress(req[c].type, db, found, "ok")
  BY <1>2 DEF DoOne, ReadOne, Begun, Progress, IsWrite
<1>4. CASE KeyIn(op) = NoKey
  <2> DEFINE p == Progress(req[c].type, db, out[c], "invalid")
  <2>1. pc'[c] = "unlock" /\ reply'[c] = Answer("invalid", <<>>)
    BY <1>4 DEF Read, Finish, Goto, KeyIn, Moves, TypeOK, CallsInPlace, AnswerTypes
  <2>2. p.verdict # "ok" /\ Result(p) = Answer("invalid", <<>>)
    BY DEF Progress, Result
  <2>3. Body(c) = p
    <3>1. Body(c) = DoAll(p, Tail(work[c]))
      BY <1>1, <1>3, <1>4, DoAllNext DEF Body, Executed, Begun
    <3> HIDE DEF p
    <3> QED BY <1>1, <2>2, <3>1, RefusedEnds
  <2>4. Outcome(c) = Answer("invalid", <<>>) /\ Outcome(c) # NoReply
    BY <2>2, <2>3, AnswerIsReply DEF Outcome
  <2> QED BY <1>1, <1>2, <2>1, <2>4, BodyEnds
<1>5. CASE KeyIn(op) # NoKey
  <2>1. UNCHANGED pc[c] /\ work'[c] = Tail(work[c])
    BY <1>5 DEF Read, KeyIn, Moves, TypeOK
  <2>2. out'[c] = IF missing THEN out[c] ELSE found
    BY <1>5 DEF Read, KeyIn, Moves, CallsInPlace, AnswerTypes
  <2>3. Begun(c)' = Progress(req[c].type, db, IF missing THEN out[c] ELSE found, "ok")
    BY <1>1, <2>2 DEF Begun
  <2>4. Begun(c)' = DoOne(Begun(c), op)
    <3> HIDE DEF missing, found, op
    <3> QED BY <1>3, <1>5, <2>3 DEF Begun
  <2> QED BY <1>1, <1>2, <2>1, <2>4, BodyGoesOn
<1> QED BY <1>4, <1>5

LEMMA WriteMaps ==
  ASSUME NEW c \in Clients, Moves(c), Write(c)
  PROVE  UNCHANGED Atomic!vars
<1> DEFINE op == Head(work[c])
           v == Verdict(SchemaOf[op.table], db[op.table], op)
           a == Apply(SchemaOf[op.table], db[op.table], op)
<1>1. /\ pc[c] = "apply" /\ work[c] # <<>> /\ UNCHANGED <<req, req[c], later[c], out, out[c]>>
      /\ work[c] \in Seq(Op) /\ Tail(work[c]) \in Seq(Op)
  BY DEF Write, Moves, TypeOK
<1>2. InBody(c) /\ IsWrite(req[c])
  BY <1>1 DEF InBody, Moves, LockInv, BodiesHold
<1>3. DoOne(Begun(c), op) = IF v # "ok" THEN Progress(req[c].type, db, out[c], v)
                            ELSE Progress(req[c].type, [db EXCEPT ![op.table] = a], out[c], "ok")
  BY <1>2 DEF DoOne, WriteOne, Begun, Progress, IsWrite
<1>4. CASE v # "ok"
  <2> DEFINE p == Progress(req[c].type, db, out[c], v)
  <2>1. pc'[c] = "unlock" /\ reply'[c] = Answer(v, <<>>) /\ UNCHANGED db
    BY <1>4 DEF Write, Finish, Goto, Moves, TypeOK, CallsInPlace, AnswerTypes
  <2>2. v \in {"invalid", "error"}
    BY <1>4 DEF Verdict
  <2>3. p.verdict # "ok" /\ Result(p) = Answer(v, <<>>) /\ p.db = db /\ p.verdict = v
    <3> HIDE DEF v
    <3> QED BY <1>4 DEF Progress, Result
  <2>4. Body(c) = p
    <3>1. Body(c) = DoAll(p, Tail(work[c]))
      BY <1>1, <1>3, <1>4, DoAllNext DEF Body, Executed, Begun
    <3> HIDE DEF p
    <3> QED BY <1>1, <2>3, <3>1, RefusedEnds
  <2>5. Outcome(c) = Answer(v, <<>>) /\ Outcome(c) # NoReply
    <3> HIDE DEF p, v
    <3> QED BY <2>2, <2>3, <2>4, AnswerIsReply DEF Outcome
  <2> HIDE DEF p, v
  <2> QED BY <1>1, <1>2, <2>1, <2>3, <2>4, <2>5, BodyEnds
<1>5. CASE v = "ok"
  <2>1. UNCHANGED pc[c] /\ work'[c] = Tail(work[c]) /\ db' = [db EXCEPT ![op.table] = a]
    BY <1>5 DEF Write, Moves, TypeOK
  <2>2. Begun(c)' = Progress(req[c].type, [db EXCEPT ![op.table] = a], out[c], "ok")
    BY <1>1, <2>1 DEF Begun
  <2>3. Begun(c)' = DoOne(Begun(c), op)
    <3> HIDE DEF v, a, op
    <3> QED BY <1>3, <1>5, <2>2
  <2> QED BY <1>1, <1>2, <2>1, <2>3, BodyGoesOn
<1> QED BY <1>4, <1>5

LEMMA DoneMaps ==
  ASSUME NEW c \in Clients, Moves(c), Done(c)
  PROVE  UNCHANGED Atomic!vars
<1>1. /\ InBody(c) /\ work[c] = <<>> /\ pc'[c] = "unlock"
      /\ UNCHANGED <<db, req, later[c], out[c]>>
      /\ reply'[c] = IF later[c] = {} THEN Answer("ok", out[c]) ELSE NoReply
  BY DEF Done, Complete, Finish, Goto, InBody, Moves, TypeOK, CallsInPlace, AnswerTypes
<1>2. Body(c) = Begun(c)
  BY <1>1, DoAllEmpty DEF Body, Executed, Begun
<1>3. Body(c).verdict = "ok" /\ Body(c).items = out[c] /\ Body(c).db = db
  BY <1>2 DEF Begun, Progress
<1>4. reply'[c] = Outcome(c)
  BY <1>1, <1>3 DEF Outcome, Result
<1> QED BY <1>1, <1>3, <1>4, BodyEnds

LEMMA UnlockMaps ==
  ASSUME NEW c \in Clients, Moves(c), Unlock(c)
  PROVE  Atomic!Return(c) \/ UNCHANGED Atomic!vars
<1>1. pc[c] = "unlock" /\ UNCHANGED db /\ reply'[c] = NoReply
  BY DEF Unlock, Leaves, Moves, CallsInPlace, AnswerTypes
<1>2. ~InBody(c) /\ OutsideIs /\ OutsideIs'
  BY <1>1, OutsideBody, OutsideBodyNext DEF InBody, Moves
<1>3. CASE reply[c] # NoReply
  <2>1. pc'[c] = "idle" /\ req' = [req EXCEPT ![c] = NoReq]
    BY <1>3 DEF Unlock, Leaves, Goto, Moves, TypeOK
  <2>2. ~InBody(c)'
    BY <2>1 DEF InBody
  <2>3. PcOf(c) = "done" /\ PcOf(c)' = "idle" /\ ReplyOf(c)' = NoReply
        /\ \A t \in Tables : Own(c, t)' = Own(c, t)
    BY <1>1, <1>2, <1>3, <2>1, <2>2 DEF OutsideIs
  <2>4. UNCHANGED <<OutOf(c), LaterOf(c)>>
    BY <1>1, <1>2, <2>1, <2>2, <2>3 DEF OutsideIs
  <2>5. UNCHANGED EffectiveDB
    BY <1>1, <2>3, OneMoves DEF EffectiveDB
  <2>6. /\ UNCHANGED <<EffectiveOut, EffectiveLater>>
        /\ EffectivePc' = [EffectivePc EXCEPT ![c] = "idle"]
        /\ EffectiveReply' = [EffectiveReply EXCEPT ![c] = NoReply]
        /\ EffectivePc[c] = "done"
    BY <1>1, <2>3, <2>4, OneMoves DEF EffectivePc, EffectiveLater, EffectiveOut, EffectiveReply
  <2> QED BY <1>1, <2>1, <2>5, <2>6, SameAnswers, OneMoves DEF Atomic!Return
<1>4. CASE reply[c] = NoReply
  <2>1. pc'[c] = "resolve" /\ UNCHANGED <<req, req[c], later[c]>>
    BY <1>4 DEF Unlock, Leaves, Goto, Moves, TypeOK
  <2>2. UNCHANGED out[c]
    BY <1>4 DEF Unlock, Leaves, Moves, CallsInPlace, AnswerTypes
  <2>3. ~InBody(c)'
    BY <2>1 DEF InBody
  <2>4. PcOf(c) = "called" /\ PcOf(c)' = "called" /\ UNCHANGED ReplyOf(c)
        /\ \A t \in Tables : Own(c, t)' = Own(c, t)
    BY <1>1, <1>2, <1>4, <2>1, <2>3 DEF OutsideIs
  <2>5. UNCHANGED OutOf(c)
    <3>1. OutOf(c) = out[c]
      BY <1>2, <2>4 DEF OutsideIs
    <3>2. OutOf(c)' = out'[c]
      BY <1>2, <2>3, <2>4 DEF OutsideIs
    <3> QED BY <2>2, <3>1, <3>2
  <2>6. UNCHANGED LaterOf(c)
    <3>1. LaterOf(c) = IF IsBatch(req[c]) THEN later[c] ELSE {}
      BY <1>1, <1>2, <2>4 DEF OutsideIs
    <3>2. LaterOf(c)' = IF IsBatch(req'[c]) THEN later'[c] ELSE {}
      BY <1>2, <2>1, <2>3, <2>4 DEF OutsideIs
    <3> QED BY <2>1, <3>1, <3>2
  <2> QED BY <1>1, <2>1, <2>4, <2>5, <2>6, Stutters
<1> QED BY <1>3, <1>4

(* A body begins: what the atomic store does at once is what the body will *)
(* have done.                                                              *)
LEMMA Begins ==
  ASSUME NEW c \in Clients, Moves(c), UNCHANGED <<db, req, work, later, out>>,
         pc[c] \in {"lock", "check"}, AllHeld(c),
         pc'[c] = IF IsWrite(req[c]) THEN "apply" ELSE "read",
         NEW E, E = Executed(req[c].type, EffectiveDB, out[c], work[c])
  PROVE  /\ E.verdict \in {"ok", "invalid", "error"}
         /\ IsWrite(req[c]) => EffectiveDB' = E.db
         /\ ~IsWrite(req[c]) \/ Body(c).db = db => EffectiveDB' = EffectiveDB
         /\ E.verdict = Body(c).verdict
         /\ ReplyOf(c)' = IF E.verdict = "ok" /\ later[c] # {} THEN NoReply ELSE Result(E)
         /\ PcOf(c)' = IF E.verdict = "ok" /\ later[c] # {} THEN "called" ELSE "done"
         /\ LaterOf(c)' = IF E.verdict = "ok" /\ IsBatch(req[c]) THEN later[c] ELSE {}
         /\ OutOf(c)' = IF E.verdict = "ok" /\ later[c] # {} THEN E.items ELSE <<>>
<1>1. UNCHANGED Body(c) /\ InBody(c)'
  BY DEF Body, InBody
<1>2. TypeOK /\ LockInv /\ DataIsOwn
  BY DataFound DEF Moves
<1>3. \A t \in Tables : Needs(c, t) => ~OthersApply(c, t)
  BY <1>2, AppliesAlone DEF OthersApply, Needs, AllHeld
<1>4. \A t \in Tables : ~OthersApply(c, t) => EffectiveDB[t] = db[t]
  BY <1>2 DEF DataIsOwn, Own, EffectiveDB
<1> DEFINE b == Progress(req[c].type, EffectiveDB, out[c], "ok")
<1>5. E = DoAll(b, work[c]) /\ Body(c) = DoAll(Begun(c), work[c])
  BY DEF Executed, Body, Begun
<1>6. IsProgress(b) /\ b.type = req[c].type /\ b.db = EffectiveDB
  BY DEF IsProgress, Progress, EffectiveDB
<1>7. Alike(b, Begun(c), Needed(c))
  <2>1. \A t \in Needed(c) : EffectiveDB[t] = db[t]
    BY <1>3, <1>4 DEF Needed
  <2>2. IsProgress(Begun(c))
    BY <1>2, WorkIsOnNeeded
  <2> QED BY <1>6, <2>1, <2>2 DEF Alike, Begun, Progress
<1>8. work[c] \in Seq(OpsOn(Needed(c))) /\ Needed(c) \in SUBSET Tables
  BY <1>2, WorkIsOnNeeded DEF Needed
<1>9. Alike(E, Body(c), Needed(c)) /\ \A t \in Tables \ Needed(c) : E.db[t] = EffectiveDB[t]
  <2> HIDE DEF b
  <2>1. Alike(E, Body(c), Needed(c))
    BY <1>5, <1>7, <1>8, DoAllAlike
  <2>2. \A t \in Tables \ Needed(c) : E.db[t] = b.db[t]
    BY <1>5, <1>6, <1>8, DoAllFrame
  <2> QED BY <1>6, <2>1, <2>2
<1>10. E.verdict \in {"ok", "invalid", "error"} /\ E.db = [t \in Tables |-> E.db[t]]
       /\ E.verdict = Body(c).verdict /\ E.items = Body(c).items
  BY <1>9 DEF Alike, IsProgress
<1>11. ASSUME IsWrite(req[c])
       PROVE  EffectiveDB' = E.db
  <2>1. ASSUME NEW t \in Tables
        PROVE  DataOf(t)' = E.db[t]
    <3>1. CASE OthersApply(c, t)
      <4>1. t \notin Needed(c) /\ DataOf(t)' = DataOf(t)
        BY <1>3, <3>1, OneMoves DEF Needed
      <4> QED BY <1>9, <4>1 DEF EffectiveDB
    <3>2. CASE ~OthersApply(c, t)
      <4>1. DataOf(t)' = Body(c).db[t]
        BY <1>1, <1>11, <3>2, OneMoves DEF Own
      <4>2. t \notin Needed(c) => Body(c).db[t] = db[t]
        BY <1>2, BodyFrame DEF Needed
      <4> QED BY <1>4, <1>9, <3>2, <4>1, <4>2 DEF Alike
    <3> QED BY <3>1, <3>2
  <2> QED BY <1>10, <2>1 DEF EffectiveDB
<1>12. ASSUME ~IsWrite(req[c]) \/ Body(c).db = db
       PROVE  EffectiveDB' = EffectiveDB
  <2>1. \A t \in Tables : Own(c, t)' = Own(c, t)
    BY <1>1, <1>12 DEF Own
  <2>2. \A t \in Tables : DataOf(t)' = DataOf(t)
    BY <2>1, OneMoves
  <2> QED BY <2>2 DEF EffectiveDB
<1>13. ReplyOf(c)' = IF E.verdict = "ok" /\ later[c] # {} THEN NoReply ELSE Result(E)
  BY <1>1, <1>10 DEF ReplyOf, Outcome, Result
<1>14. Result(E) # NoReply
  BY <1>10, AnswerIsReply DEF Result
<1>15. PcOf(c)' = IF E.verdict = "ok" /\ later[c] # {} THEN "called" ELSE "done"
  BY <1>13, <1>14 DEF PcOf
<1>16. LaterOf(c)' = IF E.verdict = "ok" /\ IsBatch(req[c]) THEN later[c] ELSE {}
  BY <1>15 DEF LaterOf
<1>17. OutOf(c)' = IF E.verdict = "ok" /\ later[c] # {} THEN E.items ELSE <<>>
  BY <1>1, <1>10, <1>15 DEF OutOf
<1> QED BY <1>10, <1>11, <1>12, <1>13, <1>15, <1>16, <1>17

(* The second pass of a transaction is refused at its first operation or   *)
(* not at all, and the write of one item has no second operation.          *)
LEMMA RefusedWritesNothing ==
  ASSUME LaterWritesSucceed, TypeOK, NEW c \in Clients,
         req[c] \in Request, req[c].type \in {"write", "txwrite"}, work[c] = req[c].ops
  PROVE  Body(c).verdict # "ok" => Body(c).db = db
<1> DEFINE ops == req[c].ops
           first == DoOne(Begun(c), Head(ops))
           S == {op \in Op : NeverRefused(op)}
<1>1. ~IsBatch(req[c]) /\ IsWrite(req[c])
  BY DEF IsBatch, IsWrite
<1>2. ops \in Seq(Op) /\ ops # <<>> /\ Head(ops) \in Op /\ Tail(ops) \in Seq(Op)
  BY <1>1, RequestOps, RequestHasOps
<1>3. \A i \in DOMAIN ops : i > 1 => NeverRefused(ops[i])
  <2>1. CASE req[c].type = "txwrite"
    BY <2>1 DEF LaterWritesSucceed
  <2>2. CASE req[c].type = "write"
    BY <1>2, <2>2, RequestHasOps
  <2> QED BY <2>1, <2>2
<1>4. Tail(ops) \in Seq(S)
  <2>1. \A i \in 1..Len(Tail(ops)) : Tail(ops)[i] \in S
    <3> TAKE i \in 1..Len(Tail(ops))
    <3>1. Tail(ops)[i] = ops[i + 1] /\ i + 1 \in DOMAIN ops /\ i + 1 > 1 /\ ops[i + 1] \in Op
      BY <1>2
    <3> QED BY <1>3, <3>1
  <2> DEFINE tail == Tail(ops)
  <2>2. tail \in Seq(Op) /\ \A i \in 1..Len(tail) : tail[i] \in S
    BY <1>2, <2>1
  <2> HIDE DEF tail, S
  <2>3. tail \in Seq(S)
    BY <2>2
  <2> QED BY <2>3 DEF tail
<1>5. IsProgress(Begun(c)) /\ IsWrite(Begun(c)) /\ Begun(c).verdict = "ok" /\ Begun(c).db = db
  BY <1>1, WorkIsOnNeeded DEF Begun, Progress, IsWrite
<1>6. Body(c) = DoAll(first, Tail(ops))
  BY <1>2, DoAllNext DEF Body, Executed, Begun
<1>7. CASE first.verdict # "ok"
  <2>1. first.db = db
    BY <1>5, <1>7 DEF DoOne, WriteOne, Progress
  <2>2. Body(c) = first
    <3> HIDE DEF first
    <3> QED BY <1>2, <1>6, <1>7, RefusedEnds
  <2> QED BY <2>1, <2>2
<1>8. CASE first.verdict = "ok"
  <2>1. /\ IsProgress(first) /\ IsWrite(first)
        /\ \A t \in Tables : IsTable(first.db[t])
    BY <1>2, <1>5, <1>8, DoOneKeepsTables DEF TypeOK
  <2>2. Body(c).verdict = "ok"
    <3> HIDE DEF first, S
    <3> QED BY <1>4, <1>6, <1>8, <2>1, AllCarriedOut DEF S
  <2> QED BY <2>2
<1> QED BY <1>7, <1>8

(* The conditions depend on the tables of the operations only.             *)
LEMMA ConditionsAlike ==
  ASSUME NEW r, DOMAIN r.ops \subseteq Nat, NEW s1, NEW s2, \A i \in DOMAIN r.ops : s1[r.ops[i].table] = s2[r.ops[i].table]
  PROVE  Conditions(s1, r) = Conditions(s2, r)
<1> DEFINE v1(i) == IF r.type = "write" /\ KeyIn(r.ops[i]) = NoKey THEN "invalid"
                    ELSE Check(SchemaOf[r.ops[i].table], s1[r.ops[i].table], r.ops[i])
           v2(i) == IF r.type = "write" /\ KeyIn(r.ops[i]) = NoKey THEN "invalid"
                    ELSE Check(SchemaOf[r.ops[i].table], s2[r.ops[i].table], r.ops[i])
           b1 == {i \in DOMAIN r.ops : v1(i) \in {"invalid", "error"}}
           b2 == {i \in DOMAIN r.ops : v2(i) \in {"invalid", "error"}}
           f1 == [i \in DOMAIN r.ops |-> v1(i) = "false"]
           f2 == [i \in DOMAIN r.ops |-> v2(i) = "false"]
<1>1. \A i \in DOMAIN r.ops : v1(i) = v2(i)
  OBVIOUS
<1>2. b1 = b2 /\ f1 = f2
  <2> HIDE DEF v1, v2
  <2> QED BY <1>1
<1>3. b1 # {} => v1(Min(b1)) = v2(Min(b1))
  <2>1. b1 \subseteq Nat /\ b1 \subseteq DOMAIN r.ops
    OBVIOUS
  <2> HIDE DEF b1, v1, v2
  <2> QED BY <1>1, <2>1, MinIsMember
<1>4. /\ Conditions(s1, r) = IF b1 # {} THEN Answer(v1(Min(b1)), <<>>)
                             ELSE IF \A i \in DOMAIN r.ops : ~f1[i] THEN Answer("ok", <<>>)
                             ELSE IF r.type = "write" THEN Answer("condition failed", <<>>)
                             ELSE Answer("cancelled", f1)
      /\ Conditions(s2, r) = IF b2 # {} THEN Answer(v2(Min(b2)), <<>>)
                             ELSE IF \A i \in DOMAIN r.ops : ~f2[i] THEN Answer("ok", <<>>)
                             ELSE IF r.type = "write" THEN Answer("condition failed", <<>>)
                             ELSE Answer("cancelled", f2)
  BY DEF Conditions
<1> HIDE DEF v1, v2, b1, b2, f1, f2
<1>5. CASE b1 # {}
  <2>1. Conditions(s1, r) = Answer(v1(Min(b1)), <<>>)
    BY <1>4, <1>5, Zenon
  <2>2. Conditions(s2, r) = Answer(v2(Min(b1)), <<>>)
    BY <1>2, <1>4, <1>5, Zenon
  <2> QED BY <1>3, <1>5, <2>1, <2>2, Zenon
<1>6. CASE b1 = {}
  <2> DEFINE rest(f) == IF \A i \in DOMAIN r.ops : ~f[i] THEN Answer("ok", <<>>)
                        ELSE IF r.type = "write" THEN Answer("condition failed", <<>>)
                        ELSE Answer("cancelled", f)
  <2>1. ~(b1 # {}) /\ ~(b2 # {})
    BY <1>2, <1>6
  <2>2. Conditions(s1, r) = rest(f1) /\ Conditions(s2, r) = rest(f2)
    BY <1>4, <2>1, Zenon
  <2>3. rest(f1) = rest(f2)
    BY <1>2
  <2> HIDE DEF rest
  <2> QED BY <2>2, <2>3
<1> QED BY <1>5, <1>6


(* A call whose outcome is now decided.                                    *)
LEMMA Finishes ==
  ASSUME NEW c \in Clients, Moves(c), UNCHANGED <<db, req>>,
         PcOf(c)' = "done", LaterOf(c)' = {}, OutOf(c)' = <<>>
  PROVE  Atomic!Finish(c, ReplyOf(c)')
BY OneMoves DEF Atomic!Finish

(* A call that is no batch, with all its locks and its work before it.     *)
LEMMA ReadyToPerform ==
  ASSUME NEW c \in Clients, Moves(c), ~IsBatch(req[c]),
         \/ pc[c] = "lock" /\ ~IsWrite(req[c])
         \/ pc[c] = "check"
  PROVE  /\ EffectivePc[c] = "called" /\ ~InBody(c)
         /\ req[c] \in Request /\ work[c] = req[c].ops /\ out[c] = <<>> /\ later[c] = {}
         /\ ~TooMany(req[c]) /\ Atomic!Named(c) \subseteq created
         /\ \A i \in DOMAIN req[c].ops : req[c].ops[i].table \in Tables
<1>1. ~InBody(c) /\ AnswerInPlace(c) /\ WorkInPlace(c)
  BY DEF InBody, Moves, CallsInPlace
<1>2. EffectivePc[c] = "called"
  BY <1>1, OutsideBody DEF OutsideIs, EffectivePc, Moves
<1>3. req[c] \in Request /\ later[c] = {}
  BY DEF Moves, TypeOK, BatchTables
<1>4. work[c] = req[c].ops /\ ~TooMany(req[c]) /\ \A i \in DOMAIN req[c].ops : req[c].ops[i].table \in created
  BY <1>1 DEF WorkInPlace
<1>5. out[c] = <<>>
  BY <1>1 DEF AnswerInPlace, Moves, LockInv, BodiesHold, IsWrite
<1>6. Atomic!Named(c) \subseteq created
  BY <1>4, SameRequests DEF Atomic!Named
<1>7. created \subseteq Tables
  BY DEF Moves, TypeOK
<1> QED BY <1>1, <1>2, <1>3, <1>4, <1>5, <1>6, <1>7

(* The conditions hold or fail just as in the atomic store.                *)
LEMMA SameVerdicts ==
  ASSUME NEW c \in Clients, Moves(c), pc[c] = "check"
  PROVE  /\ req[c].type \in {"write", "txwrite"} /\ AllHeld(c)
         /\ Atomic!Conditions(EffectiveDB, req[c]) = Conditions(db, req[c])
<1>1. req[c].type \in {"write", "txwrite"} /\ AllHeld(c)
  BY DEF Moves, LockInv, BodiesHold
<1>2. ~IsBatch(req[c])
  BY <1>1 DEF IsBatch
<1>3. /\ req[c] \in Request /\ work[c] = req[c].ops
      /\ \A i \in DOMAIN req[c].ops : req[c].ops[i].table \in Tables
  BY <1>2, ReadyToPerform
<1>4. req[c].ops \in Seq(Op)
  BY <1>2, <1>3, RequestOps
<1>5. DataIsOwn
  BY DataFound DEF Moves
<1>6. \A i \in DOMAIN req[c].ops : EffectiveDB[req[c].ops[i].table] = db[req[c].ops[i].table]
  <2> TAKE i \in DOMAIN req[c].ops
  <2> DEFINE t == req[c].ops[i].table
  <2>1. t \in Tables /\ Holds(c, t)
    BY <1>1, <1>3 DEF AllHeld
  <2> HIDE DEF t
  <2>2. ~OthersApply(c, t)
    BY <2>1, AppliesAlone DEF OthersApply, Moves
  <2>3. DataOf(t) = Own(c, t)
    BY <1>5, <2>1, <2>2 DEF DataIsOwn
  <2>4. EffectiveDB[t] = db[t]
    BY <2>1, <2>3 DEF Own, EffectiveDB
  <2> QED BY <2>4 DEF t
<1>7. DOMAIN req[c].ops \subseteq Nat
  BY <1>4
<1>8. Conditions(EffectiveDB, req[c]) = Conditions(db, req[c])
  BY <1>6, <1>7, ConditionsAlike
<1> QED BY <1>1, <1>8, SameConditions

LEMMA ChecksFail ==
  ASSUME NEW c \in Clients, Moves(c), UNCHANGED <<db, req>>, pc[c] = "check", pc'[c] = "unlock",
         reply'[c] = Conditions(db, req[c]), reply'[c].status # "ok", reply'[c] # NoReply
  PROVE  Atomic!Perform(c)
<1>1. /\ req[c].type \in {"write", "txwrite"}
      /\ Atomic!Conditions(EffectiveDB, req[c]) = reply'[c]
  BY SameVerdicts
<1>2. ~IsBatch(req[c]) /\ IsWrite(req[c])
  BY <1>1 DEF IsBatch, IsWrite
<1>3. EffectivePc[c] = "called" /\ ~InBody(c) /\ ~TooMany(req[c]) /\ Atomic!Named(c) \subseteq created
  BY <1>2, ReadyToPerform
<1>4. Atomic!Finish(c, reply'[c]) /\ UNCHANGED EffectiveDB
  BY <1>3, Decided
<1> QED BY <1>1, <1>2, <1>3, <1>4, SameRequests DEF Atomic!Perform

LEMMA ChecksPass ==
  ASSUME LaterWritesSucceed, NEW c \in Clients, Moves(c), UNCHANGED <<db, req, work, later, out>>,
         pc[c] = "check", pc'[c] = "apply", Conditions(db, req[c]).status = "ok"
  PROVE  Atomic!Perform(c)
<1>1. /\ req[c].type \in {"write", "txwrite"} /\ AllHeld(c)
      /\ Atomic!Conditions(EffectiveDB, req[c]).status = "ok"
  BY SameVerdicts
<1>2. ~IsBatch(req[c]) /\ IsWrite(req[c])
  BY <1>1 DEF IsBatch, IsWrite
<1>3. /\ EffectivePc[c] = "called" /\ ~TooMany(req[c]) /\ Atomic!Named(c) \subseteq created
      /\ req[c] \in Request /\ work[c] = req[c].ops /\ out[c] = <<>> /\ later[c] = {}
  BY <1>2, ReadyToPerform
<1> DEFINE E == Executed(req[c].type, EffectiveDB, <<>>, req[c].ops)
<1>4. /\ EffectiveDB' = E.db
      /\ Body(c).db = db => EffectiveDB' = EffectiveDB
      /\ E.verdict = Body(c).verdict
      /\ ReplyOf(c)' = Result(E) /\ PcOf(c)' = "done" /\ LaterOf(c)' = {} /\ OutOf(c)' = <<>>
  <2> HIDE DEF E
  <2>1. E = Executed(req[c].type, EffectiveDB, out[c], work[c])
    BY <1>3 DEF E
  <2> QED BY <1>1, <1>2, <1>3, <2>1, Begins
<1>5. Body(c).verdict # "ok" => Body(c).db = db
  BY <1>1, <1>3, RefusedWritesNothing DEF Moves
<1>6. EffectiveDB' = IF E.verdict = "ok" THEN E.db ELSE EffectiveDB
  <2> HIDE DEF E
  <2> QED BY <1>4, <1>5
<1>7. Atomic!Executed(req[c].type, EffectiveDB, <<>>, req[c].ops) = E
  BY SameExecuted
<1>8. Atomic!Finish(c, Atomic!Result(E))
  <2> HIDE DEF E
  <2> QED BY <1>4, Finishes, SameAnswers
<1> HIDE DEF E
<1> QED BY <1>1, <1>2, <1>3, <1>6, <1>7, <1>8, SameRequests DEF Atomic!Perform

LEMMA RefusalIsNoSuccess ==
  ASSUME NEW status, status # "ok", status # "none", NEW detail
  PROVE  Answer(status, detail).status # "ok" /\ Answer(status, detail) # NoReply
BY AnswerIsReply DEF Answer

(* The condition of the write of one item.                                 *)
LEMMA OneCondition ==
  ASSUME NEW r, r.type = "write", DOMAIN r.ops = {1}, NEW s, NEW v,
         v = IF KeyIn(r.ops[1]) = NoKey THEN "invalid"
             ELSE Check(SchemaOf[r.ops[1].table], s[r.ops[1].table], r.ops[1])
  PROVE  /\ v \in {"invalid", "error"} => Conditions(s, r) = Answer(v, <<>>)
         /\ v = "true" => Conditions(s, r) = Answer("ok", <<>>)
         /\ v = "false" => Conditions(s, r) = Answer("condition failed", <<>>)
<1> DEFINE verdict(i) == IF r.type = "write" /\ KeyIn(r.ops[i]) = NoKey THEN "invalid"
                         ELSE Check(SchemaOf[r.ops[i].table], s[r.ops[i].table], r.ops[i])
           broken == {i \in DOMAIN r.ops : verdict(i) \in {"invalid", "error"}}
           failed == [i \in DOMAIN r.ops |-> verdict(i) = "false"]
<1>1. verdict(1) = v
  OBVIOUS
<1>2. Conditions(s, r) = IF broken # {} THEN Answer(verdict(Min(broken)), <<>>)
                         ELSE IF \A i \in DOMAIN r.ops : ~failed[i] THEN Answer("ok", <<>>)
                         ELSE Answer("condition failed", <<>>)
  BY DEF Conditions
<1> HIDE DEF verdict
<1>3. CASE v \in {"invalid", "error"}
  <2>1. broken # {} /\ broken \subseteq Nat /\ broken \subseteq {1}
    BY <1>1, <1>3
  <2>2. Min(broken) = 1
    <3> HIDE DEF broken
    <3> QED BY <2>1, MinIsMember
  <2> HIDE DEF broken, failed
  <2>3. Conditions(s, r) = Answer(verdict(1), <<>>)
    BY <1>2, <2>1, <2>2
  <2> QED BY <1>1, <1>3, <2>3
<1>4. CASE v = "true"
  <2>1. broken = {} /\ \A i \in DOMAIN r.ops : ~failed[i]
    BY <1>1, <1>4
  <2> HIDE DEF broken, failed
  <2> QED BY <1>2, <1>4, <2>1
<1>5. CASE v = "false"
  <2>1. broken = {} /\ ~\A i \in DOMAIN r.ops : ~failed[i]
    BY <1>1, <1>5
  <2> HIDE DEF broken, failed
  <2> QED BY <1>2, <1>5, <2>1
<1> QED BY <1>3, <1>4, <1>5

LEMMA CheckOneMaps ==
  ASSUME LaterWritesSucceed, NEW c \in Clients, Moves(c), CheckOne(c)
  PROVE  Atomic!Perform(c)
<1> DEFINE r == req[c]
           op == Head(work[c])
           v == IF KeyIn(op) = NoKey THEN "invalid"
                ELSE Check(SchemaOf[op.table], db[op.table], op)
<1>1. /\ pc[c] = "check" /\ r.type = "write" /\ UNCHANGED <<db, req, work, later, out>>
      /\ ~IsBatch(r)
  BY DEF CheckOne, IsBatch
<1>2. r \in Request /\ work[c] = r.ops
  BY <1>1, ReadyToPerform
<1>3. DOMAIN r.ops = {1} /\ op = r.ops[1]
  BY <1>1, <1>2, RequestOps, RequestHasOps
<1>4. /\ v \in {"invalid", "error"} => Conditions(db, r) = Answer(v, <<>>)
      /\ v = "true" => Conditions(db, r) = Answer("ok", <<>>)
      /\ v = "false" => Conditions(db, r) = Answer("condition failed", <<>>)
  BY <1>1, <1>3, OneCondition
<1>5. \/ v = "true" /\ pc'[c] = "apply"
      \/ v = "false" /\ pc'[c] = "unlock" /\ reply'[c] = Answer("condition failed", <<>>)
      \/ v \in {"invalid", "error"} /\ pc'[c] = "unlock" /\ reply'[c] = Answer(v, <<>>)
  BY DEF CheckOne, Finish, Goto, KeyIn, Moves, TypeOK, CallsInPlace, AnswerTypes
<1> HIDE DEF v, op
<1>6. CASE v = "true"
  <2>1. pc'[c] = "apply" /\ Conditions(db, r).status = "ok"
    BY <1>4, <1>5, <1>6 DEF Answer
  <2> QED BY <1>1, <2>1, ChecksPass
<1>7. CASE v # "true"
  <2>1. /\ pc'[c] = "unlock" /\ reply'[c] = Conditions(db, r)
        /\ \E status \in {"condition failed", "invalid", "error"} :
             reply'[c] = Answer(status, <<>>)
    BY <1>4, <1>5, <1>7
  <2>2. reply'[c].status # "ok" /\ reply'[c] # NoReply
    <3>1. PICK status \in {"condition failed", "invalid", "error"} : reply'[c] = Answer(status, <<>>)
      BY <2>1
    <3> QED BY <3>1, RefusalIsNoSuccess
  <2> QED BY <1>1, <2>1, <2>2, ChecksFail
<1> QED BY <1>6, <1>7

LEMMA CheckAllMaps ==
  ASSUME LaterWritesSucceed, NEW c \in Clients, Moves(c), CheckAll(c)
  PROVE  Atomic!Perform(c)
<1> DEFINE r == req[c]
           ops == r.ops
           verdict(i) == Check(SchemaOf[ops[i].table], db[ops[i].table], ops[i])
           broken == {i \in DOMAIN ops : verdict(i) \in {"invalid", "error"}}
           failed == [i \in DOMAIN ops |-> verdict(i) = "false"]
<1>1. /\ pc[c] = "check" /\ r.type = "txwrite" /\ UNCHANGED <<db, req, work, later, out>>
      /\ ~IsBatch(r)
  BY DEF CheckAll, IsBatch
<1>2. r \in Request /\ work[c] = ops
  BY <1>1, ReadyToPerform
<1>3. DOMAIN ops \subseteq Nat
  BY <1>1, <1>2, RequestOps
<1>4. Conditions(db, r) = IF broken # {} THEN Answer(verdict(Min(broken)), <<>>)
                          ELSE IF \A i \in DOMAIN ops : ~failed[i] THEN Answer("ok", <<>>)
                          ELSE Answer("cancelled", failed)
  BY <1>1 DEF Conditions
<1>5. \/ /\ broken # {}
         /\ pc'[c] = "unlock" /\ reply'[c] = Answer(verdict(Min(broken)), <<>>)
      \/ /\ broken = {} /\ \E i \in DOMAIN ops : failed[i]
         /\ pc'[c] = "unlock" /\ reply'[c] = Answer("cancelled", failed)
      \/ /\ broken = {} /\ \A i \in DOMAIN ops : ~failed[i]
         /\ pc'[c] = "apply"
  <2>1. \/ broken # {} /\ Finish(c, Answer(verdict(Min(broken)), <<>>))
        \/ broken = {} /\ (\E i \in DOMAIN ops : failed[i]) /\ Finish(c, Answer("cancelled", failed))
        \/ broken = {} /\ (\A i \in DOMAIN ops : ~failed[i]) /\ Goto(c, "apply")
    BY <1>2, Zenon DEF CheckAll
  <2> HIDE DEF broken, failed, verdict
  <2>2. \A a : Finish(c, a) => pc'[c] = "unlock" /\ reply'[c] = a
    BY DEF Finish, Goto, Moves, TypeOK, CallsInPlace, AnswerTypes
  <2>3. Goto(c, "apply") => pc'[c] = "apply"
    BY DEF Goto, Moves, TypeOK
  <2> QED BY <2>1, <2>2, <2>3
<1>6. broken # {} => verdict(Min(broken)) \in {"invalid", "error"}
  <2>1. broken \subseteq Nat
    BY <1>3
  <2>2. broken # {} => Min(broken) \in broken
    <3> HIDE DEF broken
    <3> QED BY <2>1, MinIsMember
  <2>3. \A i \in broken : verdict(i) \in {"invalid", "error"}
    OBVIOUS
  <2> HIDE DEF broken, verdict
  <2> QED BY <2>2, <2>3
<1> HIDE DEF verdict, broken, failed
<1>7. CASE broken = {} /\ \A i \in DOMAIN ops : ~failed[i]
  <2>1. pc'[c] = "apply" /\ Conditions(db, r).status = "ok"
    BY <1>4, <1>5, <1>7 DEF Answer
  <2> QED BY <1>1, <2>1, ChecksPass
<1>8. CASE ~(broken = {} /\ \A i \in DOMAIN ops : ~failed[i])
  <2>1. /\ pc'[c] = "unlock" /\ reply'[c] = Conditions(db, r)
        /\ \E status \in {"cancelled", "invalid", "error"}, detail \in {<<>>, failed} :
             reply'[c] = Answer(status, detail)
    BY <1>4, <1>5, <1>6, <1>8
  <2>2. reply'[c].status # "ok" /\ reply'[c] # NoReply
    <3>1. PICK status \in {"cancelled", "invalid", "error"}, detail \in {<<>>, failed} :
            reply'[c] = Answer(status, detail)
      BY <2>1
    <3> QED BY <3>1, RefusalIsNoSuccess
  <2> QED BY <1>1, <2>1, <2>2, ChecksFail
<1> QED BY <1>7, <1>8

(* All locks are held: a transaction or a write has to check its           *)
(* conditions yet, every other call takes effect.                          *)
LEMMA EntersCheck ==
  ASSUME NEW c \in Clients, Moves(c), Enter(c), req[c].type \in {"write", "txwrite"}
  PROVE  UNCHANGED Atomic!vars
<1>1. /\ pc[c] = "lock" /\ pc'[c] = "check"
      /\ UNCHANGED <<db, req, req[c], later[c], out[c], reply[c]>>
  <2>1. req[c].type # "batchwrite" /\ IsWrite(req[c])
    BY DEF IsWrite
  <2>2. Goto(c, "check")
    BY <2>1 DEF Enter
  <2> QED BY <2>2 DEF Enter, Goto, Moves, TypeOK
<1>2. ~InBody(c) /\ ~InBody(c)' /\ OutsideIs /\ OutsideIs' /\ ~IsBatch(req[c])
  BY <1>1, OutsideBody, OutsideBodyNext DEF InBody, Moves, IsBatch
<1>3. UNCHANGED <<PcOf(c), OutOf(c), ReplyOf(c)>> /\ \A t \in Tables : Own(c, t)' = Own(c, t)
  BY <1>1, <1>2 DEF OutsideIs
<1>4. UNCHANGED LaterOf(c)
  BY <1>1, <1>2, <1>3 DEF LaterOf
<1> QED BY <1>1, <1>3, <1>4, Stutters

LEMMA EntersRead ==
  ASSUME NEW c \in Clients, Moves(c), Enter(c), ~IsBatch(req[c]), ~IsWrite(req[c])
  PROVE  Atomic!Perform(c)
<1>1. /\ pc[c] = "lock" /\ pc'[c] = "read" /\ AllHeld(c)
      /\ UNCHANGED <<db, req, work, later, out>>
  BY DEF Enter, Goto, Moves, TypeOK, IsWrite
<1>2. /\ EffectivePc[c] = "called" /\ ~TooMany(req[c]) /\ Atomic!Named(c) \subseteq created
      /\ work[c] = req[c].ops /\ out[c] = <<>> /\ later[c] = {}
  BY <1>1, ReadyToPerform
<1> DEFINE E == Executed(req[c].type, EffectiveDB, <<>>, req[c].ops)
<1>3. /\ UNCHANGED EffectiveDB
      /\ ReplyOf(c)' = Result(E) /\ PcOf(c)' = "done" /\ LaterOf(c)' = {} /\ OutOf(c)' = <<>>
  <2> HIDE DEF E
  <2>1. E = Executed(req[c].type, EffectiveDB, out[c], work[c])
    BY <1>2 DEF E
  <2> QED BY <1>1, <1>2, <2>1, Begins
<1>4. Atomic!Executed(req[c].type, EffectiveDB, <<>>, req[c].ops) = E
  BY SameExecuted
<1>5. Atomic!Finish(c, Atomic!Result(E))
  <2> HIDE DEF E
  <2> QED BY <1>1, <1>3, Finishes, SameAnswers
<1> HIDE DEF E
<1> QED BY <1>2, <1>3, <1>4, <1>5, SameRequests DEF Atomic!Perform

(* The table whose turn it is in a batch.                                  *)
LEMMA BatchTableInPlace ==
  ASSUME NEW c \in Clients, Moves(c), pc[c] = "lock", IsBatch(req[c])
  PROVE  \E t \in Tables : /\ t \in created /\ t \notin later[c] /\ work[c] = req[c].ops[t]
                           /\ \A u \in Tables : Needs(c, u) <=> u = t
<1>1. WorkInPlace(c) /\ req[c] \in Request
  BY DEF Moves, CallsInPlace, TypeOK
<1>2. PICK t \in BatchTables(req[c]) \ later[c] : work[c] = req[c].ops[t]
  BY <1>1 DEF WorkInPlace
<1>3. t \in DOMAIN req[c].ops /\ t \in Tables
  BY <1>1, <1>2, RequestOps DEF BatchTables
<1>4. /\ work[c] \in Seq(Op) /\ work[c] # <<>>
      /\ \A i \in DOMAIN work[c] : work[c][i].table = t
  BY <1>1, <1>2, <1>3, RequestOps, RequestHasOps
<1>5. 1 \in DOMAIN work[c] /\ \A i \in DOMAIN work[c] : work[c][i].table \in created
  BY <1>1, <1>4 DEF WorkInPlace
<1> QED BY <1>2, <1>3, <1>4, <1>5 DEF Needs

LEMMA EntersBatch ==
  ASSUME NEW c \in Clients, Moves(c), Enter(c), IsBatch(req[c])
  PROVE  \E t \in Tables : Atomic!PerformBatch(c, t)
<1>1. /\ pc[c] = "lock" /\ pc'[c] = IF IsWrite(req[c]) THEN "apply" ELSE "read"
      /\ AllHeld(c) /\ UNCHANGED <<db, req, work, later, out>>
  BY DEF Enter, Goto, Moves, TypeOK, IsWrite, IsBatch
<1>2. ~InBody(c) /\ OutsideIs /\ AnswerInPlace(c) /\ WorkInPlace(c)
  BY <1>1, OutsideBody DEF InBody, Moves, CallsInPlace
<1>3. PICK t \in Tables : /\ t \in created /\ t \notin later[c] /\ work[c] = req[c].ops[t]
                          /\ \A u \in Tables : Needs(c, u) <=> u = t
  BY <1>1, BatchTableInPlace
<1>4. /\ PcOf(c) = "called" /\ ReplyOf(c) = NoReply /\ OutOf(c) = out[c]
      /\ LaterOf(c) = later[c] \cup {t}
  <2>1. PcOf(c) = "called" /\ ReplyOf(c) = NoReply /\ OutOf(c) = out[c]
    BY <1>1, <1>2 DEF OutsideIs, AnswerInPlace
  <2> QED BY <1>1, <1>3, <2>1 DEF LaterOf
<1> DEFINE E == Executed(req[c].type, EffectiveDB, out[c], req[c].ops[t])
<1>5. /\ EffectiveDB' = IF IsWrite(req[c]) THEN E.db ELSE EffectiveDB
      /\ ReplyOf(c)' = IF E.verdict = "ok" /\ later[c] # {} THEN NoReply ELSE Result(E)
      /\ PcOf(c)' = IF E.verdict = "ok" /\ later[c] # {} THEN "called" ELSE "done"
      /\ LaterOf(c)' = IF E.verdict = "ok" THEN later[c] ELSE {}
      /\ OutOf(c)' = IF E.verdict = "ok" /\ later[c] # {} THEN E.items ELSE <<>>
  <2> HIDE DEF E
  <2>1. E = Executed(req[c].type, EffectiveDB, out[c], work[c])
    BY <1>3 DEF E
  <2> QED BY <1>1, <2>1, Begins
<1>6. Atomic!Executed(req[c].type, EffectiveDB, out[c], req[c].ops[t]) = E
  BY SameExecuted
<1> HIDE DEF E
<1>7. /\ EffectivePc[c] = "called" /\ EffectiveOut[c] = out[c]
      /\ EffectiveLater[c] = later[c] \cup {t}
  BY <1>4 DEF EffectivePc, EffectiveOut, EffectiveLater
<1>8. ~TooMany(req[c])
  BY <1>1, <1>2 DEF WorkInPlace
<1>9. CASE E.verdict # "ok" \/ later[c] = {}
  <2>1. Atomic!Finish(c, Atomic!Result(E))
    BY <1>1, <1>5, <1>9, Finishes, SameAnswers
  <2>2. E.verdict # "ok" \/ EffectiveLater[c] = {t}
    BY <1>7, <1>9
  <2>3. Atomic!PerformBatch(c, t)
    BY <1>3, <1>5, <1>6, <1>7, <1>8, <2>1, <2>2, SameRequests DEF Atomic!PerformBatch
  <2> QED BY <2>3
<1>10. CASE E.verdict = "ok" /\ later[c] # {}
  <2>1. /\ PcOf(c)' = PcOf(c) /\ ReplyOf(c)' = ReplyOf(c) /\ OutOf(c)' = E.items
        /\ LaterOf(c)' = EffectiveLater[c] \ {t}
    BY <1>3, <1>4, <1>5, <1>7, <1>10
  <2>2. /\ UNCHANGED <<EffectivePc, EffectiveReply>>
        /\ EffectiveOut' = [EffectiveOut EXCEPT ![c] = E.items]
        /\ EffectiveLater' = [EffectiveLater EXCEPT ![c] = @ \ {t}]
    BY <1>1, <2>1, OneMoves DEF EffectivePc, EffectiveReply, EffectiveOut, EffectiveLater
  <2>3. EffectiveLater[c] # {t}
    BY <1>3, <1>7, <1>10
  <2>4. UNCHANGED created
    BY <1>1, OneMoves
  <2>5. Atomic!PerformBatch(c, t)
    BY <1>1, <1>3, <1>5, <1>6, <1>7, <1>8, <1>10, <2>2, <2>3, <2>4, SameRequests DEF Atomic!PerformBatch
  <2> QED BY <2>5
<1> QED BY <1>9, <1>10

LEMMA EnterMaps ==
  ASSUME NEW c \in Clients, Moves(c), Enter(c)
  PROVE  \/ UNCHANGED Atomic!vars \/ Atomic!Perform(c)
         \/ \E t \in Tables : Atomic!PerformBatch(c, t)
<1>1. req[c].type \in Types
  BY RequestOps DEF Enter, Moves, TypeOK
<1> QED BY <1>1, EntersCheck, EntersRead, EntersBatch DEF Types, IsBatch, IsWrite

(* Neither the locks are seen nor which tables exist.                      *)
LEMMA Unseen ==
  ASSUME UNCHANGED <<db, calls>>
  PROVE  UNCHANGED <<EffectiveDB, EffectivePc, req, EffectiveLater, EffectiveOut, EffectiveReply>>
<1>1. \A c, t : UNCHANGED <<Body(c), InBody(c), Needs(c, t)>>
  BY DEF calls, Body, InBody, Needs
<1>2. \A t : UNCHANGED DataOf(t)
  BY <1>1 DEF calls, DataOf
<1>3. \A c : UNCHANGED ReplyOf(c)
  BY <1>1 DEF calls, ReplyOf, Outcome
<1>4. \A c : UNCHANGED PcOf(c)
  BY <1>3 DEF calls, PcOf
<1>5. \A c : UNCHANGED <<LaterOf(c), OutOf(c)>>
  BY <1>1, <1>4 DEF calls, LaterOf, OutOf
<1> QED BY <1>2, <1>3, <1>4, <1>5
  DEF calls, EffectiveDB, EffectivePc, EffectiveLater, EffectiveOut, EffectiveReply

LEMMA LocksMap ==
  ASSUME UNCHANGED <<created, db, calls>>
  PROVE  UNCHANGED Atomic!vars
BY Unseen DEF Atomic!vars

LEMMA CreateTableMaps ==
  ASSUME NEW t \in Tables, CreateTable(t)
  PROVE  Atomic!CreateTable(t)
BY Unseen DEF CreateTable, Atomic!CreateTable

LEMMA InitMaps ==
  ASSUME Init
  PROVE  Atomic!Init
<1>1. \A c \in Clients : pc[c] = "idle" /\ req[c] = NoReq /\ reply[c] = NoReply
  BY DEF Init
<1>2. EffectiveDB = [t \in Tables |-> NewTable]
  BY <1>1 DEF Init, EffectiveDB, DataOf
<1>3. \A c \in Clients : PcOf(c) = "idle" /\ ReplyOf(c) = NoReply
  BY <1>1 DEF PcOf, ReplyOf, InBody
<1>4. \A c \in Clients : LaterOf(c) = {} /\ OutOf(c) = <<>>
  BY <1>3 DEF LaterOf, OutOf
<1>5. /\ EffectivePc = [c \in Clients |-> "idle"] /\ EffectiveLater = [c \in Clients |-> {}]
      /\ EffectiveOut = [c \in Clients |-> <<>>] /\ EffectiveReply = [c \in Clients |-> NoReply]
  BY <1>3, <1>4 DEF EffectivePc, EffectiveLater, EffectiveOut, EffectiveReply
<1> QED BY <1>2, <1>5, SameAnswers DEF Init, Atomic!Init

(* Every step of the backend is one of the atomic store or none.           *)
LEMMA NextMaps ==
  ASSUME LaterWritesSucceed
  PROVE  TypeOK /\ LockInv /\ CallsInPlace /\ TypeOK' /\ LockInv' /\ CallsInPlace' /\ [Next]_vars
           => [Atomic!Next]_(Atomic!vars)
<1> SUFFICES ASSUME TypeOK, LockInv, CallsInPlace, TypeOK', LockInv', CallsInPlace', [Next]_vars
             PROVE  [Atomic!Next]_(Atomic!vars)
  OBVIOUS
<1>1. CASE UNCHANGED vars
  BY <1>1, LocksMap DEF vars
<1>2. ASSUME NEW t \in Tables, CreateTable(t)
      PROVE  Atomic!Next
  BY <1>2, CreateTableMaps DEF Atomic!Next
<1>3. ASSUME NEW c \in Clients, NEW t \in Tables, Lock(c, t) \/ LockGranted(c, t) \/ RLock(c, t)
      PROVE  UNCHANGED Atomic!vars
  BY <1>3, LocksMap DEF Lock, LockGranted, RLock
<1>4. ASSUME NEW c \in Clients, NEW r \in Request, Call(c, r)
      PROVE  Atomic!Next
  <2>1. Moves(c)
    BY <1>4 DEF Moves
  <2> QED BY <1>4, <2>1, CallMaps DEF Atomic!Next
<1>5. ASSUME NEW c \in Clients, Step(c)
      PROVE  UNCHANGED Atomic!vars \/ Atomic!Next
  <2>1. Moves(c)
    BY <1>5 DEF Moves
  <2>2. CASE \E t \in Tables : LockGranted(c, t) \/ RLock(c, t)
    BY <1>3, <2>2
  <2>3. CASE \E t \in Tables : ResolveBatch(c, t)
    BY <2>1, <2>3, ResolveBatchMaps DEF Atomic!Next
  <2>4. CASE Resolve(c)
    BY <2>1, <2>4, ResolveMaps DEF Atomic!Next
  <2>5. CASE Enter(c)
    BY <2>1, <2>5, EnterMaps DEF Atomic!Next
  <2>6. CASE Unlock(c)
    BY <2>1, <2>6, UnlockMaps DEF Atomic!Next
  <2>7. CASE CheckOne(c) \/ CheckAll(c)
    BY <2>1, <2>7, CheckOneMaps, CheckAllMaps DEF Atomic!Next
  <2>8. CASE Read(c) \/ Write(c) \/ Done(c)
    BY <2>1, <2>8, ReadMaps, WriteMaps, DoneMaps
  <2> QED BY <1>5, <2>2, <2>3, <2>4, <2>5, <2>6, <2>7, <2>8 DEF Step
<1> QED BY <1>1, <1>2, <1>3, <1>4, <1>5 DEF Next

(* Whatever the clients do and however their goroutines take turns, what   *)
(* they see is what AtomicStore allows: each call, or each table of a      *)
(* batch, has its effect at one instant, and a transaction has its whole   *)
(* effect or none (memdb.go:1185-1382).  Assumed is that the second pass   *)
(* of a transaction is refused at its first operation or not at all.       *)
THEOREM ImplementsAtomicStore ==
  ASSUME LaterWritesSucceed
  PROVE  Spec => IsAtomic
<1>1. Init => Atomic!Init
  BY InitMaps
<1>2. TypeOK /\ LockInv /\ CallsInPlace /\ TypeOK' /\ LockInv' /\ CallsInPlace' /\ [Next]_vars
        => [Atomic!Next]_(Atomic!vars)
  BY NextMaps
<1> QED BY <1>1, <1>2, TypeCorrect, LocksHold, CallsStayInPlace, PTL DEF Spec, IsAtomic, Atomic!Spec

===============================================================================
