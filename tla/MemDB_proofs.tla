----------------------------- MODULE MemDB_proofs -----------------------------
(***************************************************************************)
(* The in-memory backend is type correct, its lock discipline holds, its   *)
(* tables are written alone, and its covering indexes agree with their     *)
(* tables, for any number of clients, tables, keys and requests.           *)
(***************************************************************************)
EXTENDS MemDB, MemTable_proofs

(* The operations of a request are operations.                             *)
LEMMA RequestOps ==
  ASSUME NEW r \in Request
  PROVE  /\ r.type \in Types
         /\ IsBatch(r) => /\ DOMAIN r.ops \subseteq Tables
                          /\ \A t \in DOMAIN r.ops :
                               /\ r.ops[t] \in Seq(Op)
                               /\ \A i \in DOMAIN r.ops[t] : r.ops[t][i].table = t
         /\ ~IsBatch(r) => r.ops \in Seq(Op)
<1>1. IsRequest(r)
  BY RequestAssumption
<1>2. ASSUME NEW t, NEW P, NEW s \in Seq(P), P \subseteq Op,
             \A op \in P : op.table = t
      PROVE  s \in Seq(Op) /\ \A i \in DOMAIN s : s[i].table = t
  BY <1>2
<1>3. ASSUME NEW P, NEW s \in Seq(P), P \subseteq Op
      PROVE  s \in Seq(Op)
  BY <1>3
<1>4. CASE IsBatch(r)
  <2>1. ASSUME NEW t \in DOMAIN r.ops
        PROVE  r.ops[t] \in Seq(Op) /\ \A i \in DOMAIN r.ops[t] : r.ops[t][i].table = t
    <3> DEFINE P == {op \in Op : op.table = t /\ op.kind \in Kinds[r.type]}
    <3>1. r.ops[t] \in Seq(P)
      BY <1>1, <1>4 DEF IsRequest
    <3>2. P \subseteq Op /\ \A op \in P : op.table = t
      OBVIOUS
    <3> HIDE DEF P
    <3> QED BY <3>1, <3>2, <1>2
  <2> QED BY <2>1, <1>1, <1>4 DEF IsRequest
<1>5. CASE ~IsBatch(r)
  BY <1>1, <1>3, <1>5 DEF IsRequest
<1> QED BY <1>1, <1>4, <1>5 DEF IsRequest

(* The operations that are left are operations.                            *)
LEMMA TailType ==
  ASSUME NEW S, NEW s \in Seq(S), s # <<>>
  PROVE  Head(s) \in S /\ Tail(s) \in Seq(S)
OBVIOUS

(* A write puts a well-formed table in the place of a well-formed table.   *)
LEMMA WriteKeepsTables ==
  ASSUME TypeOK, NEW c \in Clients, Write(c)
  PROVE  /\ db' = [t \in Tables |-> db'[t]]
         /\ \A t \in Tables : IsTable(db'[t])
<1> DEFINE op == Head(work[c])
<1>1. op \in Op /\ op.table \in Tables /\ op.item \in Item
  BY RequestAssumption DEF Write, TypeOK, IsOp
<1>2. UpdateIsSound(op)
  BY <1>1, UpdateAssumption DEF UpdateIsSound
<1>3. SchemaOf[op.table] \in Schema
  BY <1>1, RequestAssumption
<1>4. CASE UNCHANGED db
  BY <1>4 DEF TypeOK
<1>5. CASE /\ Verdict(SchemaOf[op.table], db[op.table], op) = "ok"
           /\ db' = [db EXCEPT ![op.table] = Apply(SchemaOf[op.table], @, op)]
  <2>1. IsTable(Apply(SchemaOf[op.table], db[op.table], op))
    BY <1>1, <1>2, <1>3, <1>5, ApplyIsTable DEF TypeOK
  <2> QED BY <2>1, <1>1, <1>5 DEF TypeOK
<1> QED BY <1>4, <1>5 DEF Write

(* The initial state is well typed.                                        *)
LEMMA InitType == Init => TypeOK
BY NewTableIsTable, ClientAssumption DEF Init, TypeOK

(* Every step keeps the types.                                             *)
LEMMA NextType == TypeOK /\ [Next]_vars => TypeOK'
<1> SUFFICES ASSUME TypeOK, [Next]_vars
             PROVE  TypeOK'
  OBVIOUS
<1>1. CASE UNCHANGED vars
  BY <1>1 DEF TypeOK, vars, locks, calls
<1>2. ASSUME NEW t \in Tables, CreateTable(t)
      PROVE  TypeOK'
  BY <1>2 DEF TypeOK, CreateTable, locks, calls
<1>3. ASSUME NEW c \in Clients, NEW r \in Request, Call(c, r)
      PROVE  TypeOK'
  BY <1>3, RequestOps DEF TypeOK, Call, Goto, locks, BatchTables
<1>4. ASSUME NEW c \in Clients, NEW t \in Tables, Lock(c, t)
      PROVE  TypeOK'
  BY <1>4 DEF TypeOK, Lock, calls
<1>5. ASSUME NEW c \in Clients, Resolve(c)
      PROVE  TypeOK'
  BY <1>5, RequestOps DEF TypeOK, Resolve, Finish, Goto, locks
<1>6. ASSUME NEW c \in Clients, Enter(c)
      PROVE  TypeOK'
  <2>1. IsWrite(req[c]) \/ ~IsWrite(req[c])
    OBVIOUS
  <2> QED BY <2>1, <1>6, RequestOps DEF TypeOK, Enter, Goto, locks, Types, IsWrite
<1>7. ASSUME NEW c \in Clients, Unlock(c)
      PROVE  TypeOK'
  BY <1>7 DEF TypeOK, Unlock, Leaves, Goto
<1>8. ASSUME NEW c \in Clients, Read(c)
      PROVE  TypeOK'
  <2>1. work' \in [Clients -> Seq(Op)]
    <3>1. work' = work \/ work' = [work EXCEPT ![c] = Tail(work[c])]
      BY <1>8 DEF Read
    <3>2. work[c] # <<>> /\ work[c] \in Seq(Op)
      BY <1>8 DEF TypeOK, Read
    <3>3. Tail(work[c]) \in Seq(Op) /\ work \in [Clients -> Seq(Op)]
      BY <3>2, TailType DEF TypeOK
    <3> QED BY <3>1, <3>3
  <2>2. pc' \in [Clients -> {"read", "unlock"} \cup {pc[d] : d \in Clients}]
    BY <1>8 DEF TypeOK, Read, Finish, Goto
  <2> QED BY <2>1, <2>2, <1>8 DEF TypeOK, Read, Finish, Goto, locks
<1>9. ASSUME NEW c \in Clients, CheckOne(c)
      PROVE  TypeOK'
  BY <1>9 DEF TypeOK, CheckOne, Finish, Goto, locks
<1>10. ASSUME NEW c \in Clients, CheckAll(c)
       PROVE  TypeOK'
  BY <1>10 DEF TypeOK, CheckAll, Finish, Goto, locks
<1>11. ASSUME NEW c \in Clients, Write(c)
       PROVE  TypeOK'
  <2>1. work' \in [Clients -> Seq(Op)]
    <3>1. work' = work \/ work' = [work EXCEPT ![c] = Tail(work[c])]
      BY <1>11 DEF Write
    <3>2. work[c] # <<>> /\ work[c] \in Seq(Op)
      BY <1>11 DEF TypeOK, Write
    <3>3. Tail(work[c]) \in Seq(Op) /\ work \in [Clients -> Seq(Op)]
      BY <3>2, TailType DEF TypeOK
    <3> QED BY <3>1, <3>3
  <2>2. /\ db' = [t \in Tables |-> db'[t]]
        /\ \A t \in Tables : IsTable(db'[t])
    BY <1>11, WriteKeepsTables
  <2>3. /\ UNCHANGED <<created, locks, req, later>>
        /\ pc' = pc \/ pc' = [pc EXCEPT ![c] = "unlock"]
        /\ pc[c] = "apply"
    BY <1>11 DEF Write, Finish, Goto
  <2> QED BY <2>1, <2>2, <2>3 DEF TypeOK, locks
<1>12. ASSUME NEW c \in Clients, Done(c)
       PROVE  TypeOK'
  BY <1>12 DEF TypeOK, Done, Complete, Finish, Goto, locks
<1>13. ASSUME NEW c \in Clients, NEW t \in Tables, ResolveBatch(c, t)
       PROVE  TypeOK'
  <2>1. req[c] \in Request /\ t \in DOMAIN req[c].ops /\ req[c].ops[t] \in Seq(Op)
    BY <1>13, RequestOps DEF TypeOK, ResolveBatch, BatchTables
  <2>2. /\ UNCHANGED <<created, db, locks, req>> /\ pc[c] = "resolve"
        /\ pc' = [pc EXCEPT ![c] = "unlock"] \/ pc' = [pc EXCEPT ![c] = "lock"]
    BY <1>13 DEF ResolveBatch, Finish, Goto
  <2>3. work' = work \/ work' = [work EXCEPT ![c] = req[c].ops[t]]
    BY <1>13 DEF ResolveBatch
  <2>4. later' = later \/ later' = [later EXCEPT ![c] = @ \ {t}]
    BY <1>13 DEF ResolveBatch
  <2>5. work' \in [Clients -> Seq(Op)]
    BY <2>1, <2>3 DEF TypeOK
  <2>6. later \in [Clients -> SUBSET Tables]
    BY DEF TypeOK
  <2>7. later' \in [Clients -> SUBSET Tables]
    BY <2>4, <2>6
  <2>8. \A d \in Clients : later'[d] \subseteq later[d]
    BY <2>4, <2>6
  <2> QED BY <2>1, <2>2, <2>5, <2>7, <2>8 DEF TypeOK, locks
<1>14. ASSUME NEW c \in Clients, NEW t \in Tables, LockGranted(c, t)
       PROVE  TypeOK'
  BY <1>14 DEF TypeOK, LockGranted, calls
<1>15. ASSUME NEW c \in Clients, NEW t \in Tables, RLock(c, t)
       PROVE  TypeOK'
  <2>1. /\ readers' = readers \/ readers' = [readers EXCEPT ![t] = @ \cup {c}]
        /\ queued' = queued \/ queued' = [queued EXCEPT ![t] = @ \cup {c}]
    BY <1>15 DEF RLock
  <2>2. readers' \in [Tables -> SUBSET Clients]
    <3>1. readers[t] \cup {c} \in SUBSET Clients /\ readers \in [Tables -> SUBSET Clients]
      BY DEF TypeOK
    <3> QED BY <2>1, <3>1
  <2>3. queued' \in [Tables -> SUBSET Clients]
    <3>1. queued[t] \cup {c} \in SUBSET Clients /\ queued \in [Tables -> SUBSET Clients]
      BY DEF TypeOK
    <3> QED BY <2>1, <3>1
  <2>4. UNCHANGED <<created, db, writer, active, calls>>
    BY <1>15 DEF RLock
  <2> QED BY <2>2, <2>3, <2>4 DEF TypeOK, calls
<1> QED BY <1>1, <1>2, <1>3, <1>4, <1>5, <1>6, <1>7, <1>8, <1>9, <1>10,
           <1>11, <1>12, <1>13, <1>14, <1>15 DEF Next, Step

(* The variables keep their types: every table stays a well-formed map     *)
(* from keys to items with well-formed indexes.                            *)
THEOREM TypeCorrect == Spec => []TypeOK
<1>1. Init => TypeOK
  BY InitType
<1>2. TypeOK /\ [Next]_vars => TypeOK'
  BY NextType
<1> QED BY <1>1, <1>2, PTL DEF Spec

-------------------------------------------------------------------------------
(* Indices of the rest of a sequence.                                      *)
LEMMA TailElements ==
  ASSUME NEW S, NEW s \in Seq(S), s # <<>>
  PROVE  \A i \in DOMAIN Tail(s) : i + 1 \in DOMAIN s /\ Tail(s)[i] = s[i + 1]
OBVIOUS

(* A client that is doing its work still holds what the rest of it needs.  *)
LEMMA HeldAfterTail ==
  ASSUME TypeOK, NEW c \in Clients, AllHeld(c), work[c] # <<>>,
         work' = [work EXCEPT ![c] = Tail(@)], UNCHANGED locks
  PROVE  AllHeld(c)'
<1>1. work[c] \in Seq(Op) /\ work'[c] = Tail(work[c])
  BY DEF TypeOK
<1>2. \A i \in DOMAIN work'[c] : i + 1 \in DOMAIN work[c] /\ work'[c][i] = work[c][i + 1]
  BY <1>1, TailElements
<1> QED BY <1>2 DEF AllHeld, Holds, locks

(* A step of a body: the locks stay, and client c moves to a later place   *)
(* of its body, with less work, or to the unlocking.                       *)
LEMMA BodyStep ==
  ASSUME TypeOK, LockInv, NEW c \in Clients, UNCHANGED <<locks, req>>,
         pc[c] \in {"check", "apply", "read"},
         NEW label \in {pc[c], "unlock"} \cup (IF pc[c] = "check" THEN {"apply"} ELSE {}),
         pc' = [pc EXCEPT ![c] = label],
         \/ UNCHANGED work
         \/ work[c] # <<>> /\ work' = [work EXCEPT ![c] = Tail(@)]
  PROVE  LockInv'
<1>1. \A d \in Clients \ {c} : pc'[d] = pc[d] /\ work'[d] = work[d]
  BY DEF TypeOK
<1>2. pc'[c] = label
  BY DEF TypeOK
<1>3. AllHeld(c)'
  BY HeldAfterTail DEF LockInv, BodiesHold, AllHeld, Holds, locks
<1>4. WritersAlone'
  BY DEF LockInv, WritersAlone, locks
<1>5. BodiesHold'
  <2> SUFFICES ASSUME NEW d \in Clients
               PROVE  /\ pc'[d] = "check" => req'[d].type \in {"write", "txwrite"}
                      /\ pc'[d] = "apply" => IsWrite(req'[d])
                      /\ pc'[d] = "read" => ~IsWrite(req'[d])
                      /\ pc'[d] \in {"check", "apply", "read"} => AllHeld(d)'
    BY DEF BodiesHold
  <2>1. CASE d = c
    BY <2>1, <1>2, <1>3 DEF LockInv, BodiesHold, IsWrite
  <2>2. CASE d # c
    BY <2>2, <1>1 DEF LockInv, BodiesHold, AllHeld, Holds, locks
  <2> QED BY <2>1, <2>2
<1>6. ReadersInPlace'
  BY <1>1, <1>2 DEF LockInv, ReadersInPlace, BodiesHold, Needs, IsWrite, locks
<1>7. WritersInPlace'
  BY <1>1, <1>2 DEF LockInv, WritersInPlace, BodiesHold, Needs, IsWrite, locks
<1> QED BY <1>4, <1>5, <1>6, <1>7 DEF LockInv

(* A step of a client that holds nothing: it stays outside the locks.      *)
LEMMA OutsideStep ==
  ASSUME TypeOK, LockInv, NEW c \in Clients, UNCHANGED locks,
         pc[c] \in {"idle", "resolve"},
         \A d \in Clients \ {c} : pc'[d] = pc[d] /\ work'[d] = work[d] /\ req'[d] = req[d],
         pc'[c] \in {"resolve", "lock", "unlock"}
  PROVE  LockInv'
<1>1. \A t \in Tables : c \notin readers[t] \cup queued[t] /\ writer[t] # c
  BY DEF LockInv, ReadersInPlace, WritersInPlace
<1>2. WritersAlone'
  BY DEF LockInv, WritersAlone, locks
<1>3. BodiesHold'
  BY DEF LockInv, BodiesHold, AllHeld, Holds, locks
<1>4. ReadersInPlace'
  BY <1>1 DEF LockInv, ReadersInPlace, Needs, locks
<1>5. WritersInPlace'
  BY <1>1 DEF LockInv, WritersInPlace, Needs, locks
<1> QED BY <1>2, <1>3, <1>4, <1>5 DEF LockInv

(* Initially nobody holds a lock.                                          *)
LEMMA InitLocks == Init => LockInv
BY ClientAssumption DEF Init, LockInv, WritersAlone, BodiesHold, ReadersInPlace, WritersInPlace

(* Announcing a writer.                                                    *)
LEMMA LockStep ==
  ASSUME TypeOK, LockInv, NEW c \in Clients, NEW t \in Tables, Lock(c, t)
  PROVE  LockInv'
<1> USE DEF Lock, TypeOK, calls
<1>1. \A u \in Tables : writer'[u] = IF u = t THEN c ELSE writer[u]
  OBVIOUS
<1>2. WritersAlone'
  BY <1>1, ClientAssumption DEF LockInv, WritersAlone
<1>3. \A d \in Clients : AllHeld(d) => AllHeld(d)'
  <2> SUFFICES ASSUME NEW d \in Clients, AllHeld(d), NEW i \in DOMAIN work[d]
               PROVE  Holds(d, work[d][i].table)'
    BY DEF AllHeld
  <2>1. work[d][i].table \in Tables
    BY RequestAssumption DEF IsOp
  <2> QED BY <2>1, <1>1, ClientAssumption DEF AllHeld, Holds, LockInv, WritersAlone
<1>4. BodiesHold'
  BY <1>3 DEF LockInv, BodiesHold
<1>5. ReadersInPlace'
  BY DEF LockInv, ReadersInPlace, Needs
<1>6. WritersInPlace'
  BY <1>1 DEF LockInv, WritersInPlace, Needs, Wants
<1> QED BY <1>2, <1>4, <1>5, <1>6 DEF LockInv

(* Letting the writer in.                                                  *)
LEMMA LockGrantedStep ==
  ASSUME TypeOK, LockInv, NEW c \in Clients, NEW t \in Tables, LockGranted(c, t)
  PROVE  LockInv'
<1> USE DEF LockGranted, TypeOK, calls
<1>1. \A u \in Tables : active'[u] = IF u = t THEN TRUE ELSE active[u]
  OBVIOUS
<1>2. WritersAlone'
  BY <1>1, ClientAssumption DEF LockInv, WritersAlone
<1>3. \A d \in Clients : AllHeld(d) => AllHeld(d)'
  <2> SUFFICES ASSUME NEW d \in Clients, AllHeld(d), NEW i \in DOMAIN work[d]
               PROVE  Holds(d, work[d][i].table)'
    BY DEF AllHeld
  <2>1. work[d][i].table \in Tables
    BY RequestAssumption DEF IsOp
  <2> QED BY <2>1, <1>1 DEF AllHeld, Holds
<1>4. BodiesHold'
  BY <1>3 DEF LockInv, BodiesHold
<1>5. ReadersInPlace'
  BY DEF LockInv, ReadersInPlace, Needs
<1>6. WritersInPlace'
  BY <1>1 DEF LockInv, WritersInPlace, Needs
<1> QED BY <1>2, <1>4, <1>5, <1>6 DEF LockInv

(* A reader enters or queues.                                              *)
LEMMA RLockStep ==
  ASSUME TypeOK, LockInv, NEW c \in Clients, NEW t \in Tables, RLock(c, t)
  PROVE  LockInv'
<1> USE DEF TypeOK, calls
<1>0. /\ pc[c] = "lock" /\ ~IsWrite(req[c]) /\ Needs(c, t) /\ ~Holds(c, t)
      /\ c \notin queued[t] /\ UNCHANGED <<created, db, writer, active, calls>>
  BY DEF RLock, Wants, Needs
<1>1. CASE writer[t] = NoClient
  <2>1. queued' = queued /\ \A u \in Tables : readers'[u] = IF u = t THEN readers[u] \cup {c} ELSE readers[u]
    BY <1>1 DEF RLock
  <2>2. WritersAlone'
    BY <1>0, <1>1, <2>1 DEF LockInv, WritersAlone
  <2>3. \A d \in Clients : AllHeld(d) => AllHeld(d)'
    <3> SUFFICES ASSUME NEW d \in Clients, AllHeld(d), NEW i \in DOMAIN work[d]
                 PROVE  Holds(d, work[d][i].table)'
      BY <1>0 DEF AllHeld
    <3>1. work[d][i].table \in Tables
      BY RequestAssumption DEF IsOp
    <3> QED BY <3>1, <2>1, <1>0 DEF AllHeld, Holds
  <2>4. BodiesHold'
    BY <2>3, <1>0 DEF LockInv, BodiesHold
  <2>5. ReadersInPlace'
    <3> SUFFICES ASSUME NEW d \in Clients, NEW u \in Tables, d \in readers'[u] \cup queued'[u]
                 PROVE  /\ pc'[d] \in {"lock", "read", "unlock"}
                        /\ ~IsWrite(req'[d])
                        /\ pc'[d] = "lock" => Needs(d, u)'
                        /\ d \in queued'[u] => pc'[d] = "lock"
      BY DEF ReadersInPlace
    <3>1. CASE d \in readers[u] \cup queued[u]
      <4>1. /\ pc[d] \in {"lock", "read", "unlock"} /\ ~IsWrite(req[d])
            /\ pc[d] = "lock" => Needs(d, u)
            /\ d \in queued[u] => pc[d] = "lock"
        BY <3>1 DEF LockInv, ReadersInPlace
      <4>2. d \in queued'[u] => pc[d] = "lock"
        BY <4>1, <2>1, <1>0
      <4> QED BY <4>1, <4>2, <1>0 DEF Needs
    <3>2. CASE d \notin readers[u] \cup queued[u]
      <4>1. d = c /\ u = t
        BY <3>2, <2>1, <1>0
      <4>2. d \in queued'[u] => pc'[d] = "lock"
        BY <4>1, <1>0
      <4>3. pc'[d] = "lock" /\ ~IsWrite(req'[d]) /\ Needs(d, u)'
        BY <4>1, <1>0 DEF Needs
      <4> QED BY <4>2, <4>3
    <3> QED BY <3>1, <3>2
  <2>6. WritersInPlace'
    BY <1>0 DEF LockInv, WritersInPlace, Needs
  <2> QED BY <2>2, <2>4, <2>5, <2>6 DEF LockInv
<1>2. CASE writer[t] # NoClient
  <2>1. readers' = readers /\ \A u \in Tables : queued'[u] = IF u = t THEN queued[u] \cup {c} ELSE queued[u]
    BY <1>2 DEF RLock
  <2>2. c \notin readers[t]
    BY <1>0 DEF Holds
  <2>3. WritersAlone'
    BY <1>0, <1>2, <2>1, <2>2 DEF LockInv, WritersAlone
  <2>4. BodiesHold'
    BY <1>0, <2>1 DEF LockInv, BodiesHold, AllHeld, Holds
  <2>5. ReadersInPlace'
    <3> SUFFICES ASSUME NEW d \in Clients, NEW u \in Tables, d \in readers'[u] \cup queued'[u]
                 PROVE  /\ pc'[d] \in {"lock", "read", "unlock"}
                        /\ ~IsWrite(req'[d])
                        /\ pc'[d] = "lock" => Needs(d, u)'
                        /\ d \in queued'[u] => pc'[d] = "lock"
      BY DEF ReadersInPlace
    <3>1. CASE d \in readers[u] \cup queued[u]
      <4>1. /\ pc[d] \in {"lock", "read", "unlock"} /\ ~IsWrite(req[d])
            /\ pc[d] = "lock" => Needs(d, u)
            /\ d \in queued[u] => pc[d] = "lock"
        BY <3>1 DEF LockInv, ReadersInPlace
      <4>2. d \in queued'[u] => pc[d] = "lock"
        BY <4>1, <2>1, <1>0
      <4> QED BY <4>1, <4>2, <1>0 DEF Needs
    <3>2. CASE d \notin readers[u] \cup queued[u]
      <4>1. d = c /\ u = t
        BY <3>2, <2>1, <1>0
      <4>2. d \in queued'[u] => pc'[d] = "lock"
        BY <4>1, <1>0
      <4>3. pc'[d] = "lock" /\ ~IsWrite(req'[d]) /\ Needs(d, u)'
        BY <4>1, <1>0 DEF Needs
      <4> QED BY <4>2, <4>3
    <3> QED BY <3>1, <3>2
  <2>6. WritersInPlace'
    BY <1>0 DEF LockInv, WritersInPlace, Needs
  <2> QED BY <2>3, <2>4, <2>5, <2>6 DEF LockInv
<1> QED BY <1>1, <1>2

(* A client that holds everything starts its body.                         *)
LEMMA EnterStep ==
  ASSUME TypeOK, LockInv, NEW c \in Clients, Enter(c)
  PROVE  LockInv'
<1>1. UNCHANGED <<locks, req, work>> /\ pc[c] = "lock" /\ AllHeld(c)
  BY DEF Enter
<1>2. req[c].type \in Types
  BY <1>1, RequestOps DEF TypeOK
<1>3. /\ pc'[c] \in {"check", "apply", "read"}
      /\ \A d \in Clients \ {c} : pc'[d] = pc[d]
      /\ pc'[c] = "check" => req[c].type \in {"write", "txwrite"}
      /\ pc'[c] = "apply" => IsWrite(req[c])
      /\ pc'[c] = "read" <=> ~IsWrite(req[c])
  BY <1>2 DEF Enter, Goto, TypeOK, Types, IsWrite
<1>4. AllHeld(c)'
  BY <1>1 DEF AllHeld, Holds, locks
<1>5. \A t \in Tables : Needs(c, t) => Holds(c, t)
  BY <1>1 DEF AllHeld, Needs
<1>6. WritersAlone'
  BY <1>1 DEF LockInv, WritersAlone, locks
<1>7. BodiesHold'
  BY <1>1, <1>3, <1>4 DEF LockInv, BodiesHold, AllHeld, Holds, locks
<1>8. ReadersInPlace'
  BY <1>1, <1>3, <1>5 DEF LockInv, ReadersInPlace, WritersInPlace, WritersAlone, Needs, Holds, locks
<1>9. WritersInPlace'
  BY <1>1, <1>3, <1>5 DEF LockInv, ReadersInPlace, WritersInPlace, WritersAlone, Needs, Holds, locks
<1> QED BY <1>6, <1>7, <1>8, <1>9 DEF LockInv

(* A client leaves all its locks.                                          *)
LEMMA UnlockStep ==
  ASSUME TypeOK, LockInv, NEW c \in Clients, Unlock(c)
  PROVE  LockInv'
<1> USE DEF TypeOK
<1>1. \A t \in Tables :
        /\ readers'[t] = (readers[t] \ {c}) \cup (IF writer[t] = c THEN queued[t] ELSE {})
        /\ queued'[t] = IF writer[t] = c THEN {} ELSE queued[t]
        /\ writer'[t] = IF writer[t] = c THEN NoClient ELSE writer[t]
        /\ active'[t] = (active[t] /\ writer[t] # c)
  BY DEF Unlock, Leaves
<1>2. /\ pc[c] = "unlock"
      /\ pc'[c] \in {"idle", "resolve"}
      /\ \A d \in Clients \ {c} : pc'[d] = pc[d] /\ work'[d] = work[d] /\ req'[d] = req[d]
  BY DEF Unlock, Leaves, Goto
<1>3. \A t \in Tables : c \notin queued[t]
  BY <1>2 DEF LockInv, ReadersInPlace
<1>4. WritersAlone'
  BY <1>1, <1>3 DEF LockInv, WritersAlone
<1>5. BodiesHold'
  <2>1. ASSUME NEW d \in Clients \ {c}, AllHeld(d)
        PROVE  AllHeld(d)'
    <3> SUFFICES ASSUME NEW i \in DOMAIN work[d]
                 PROVE  Holds(d, work[d][i].table)'
      BY <1>2 DEF AllHeld
    <3>1. work[d][i].table \in Tables
      BY RequestAssumption DEF IsOp
    <3> QED BY <3>1, <2>1, <1>1, <1>2 DEF AllHeld, Holds
  <2> QED BY <2>1, <1>2 DEF LockInv, BodiesHold
<1>6. ReadersInPlace'
  <2> SUFFICES ASSUME NEW d \in Clients, NEW u \in Tables, d \in readers'[u] \cup queued'[u]
               PROVE  /\ pc'[d] \in {"lock", "read", "unlock"}
                      /\ ~IsWrite(req'[d])
                      /\ pc'[d] = "lock" => Needs(d, u)'
                      /\ d \in queued'[u] => pc'[d] = "lock"
    BY DEF ReadersInPlace
  <2>1. CASE d \in readers[u] \cup queued[u]
    <3>1. /\ pc[d] \in {"lock", "read", "unlock"} /\ ~IsWrite(req[d])
          /\ pc[d] = "lock" => Needs(d, u)
          /\ d \in queued[u] => pc[d] = "lock"
      BY <2>1 DEF LockInv, ReadersInPlace
    <3> QED BY <3>1, <2>1, <1>1, <1>2, <1>3 DEF Needs
  <2>2. CASE d \notin readers[u] \cup queued[u]
    BY <2>2, <1>1, <1>2, <1>3 DEF Needs
  <2> QED BY <2>1, <2>2
<1>7. WritersInPlace'
  <2> SUFFICES ASSUME NEW d \in Clients, NEW u \in Tables, writer'[u] = d
               PROVE  /\ pc'[d] \in {"lock", "check", "apply", "unlock"}
                      /\ IsWrite(req'[d])
                      /\ pc'[d] = "lock" => Needs(d, u)'
                      /\ pc'[d] # "lock" => active'[u]
    BY DEF WritersInPlace
  <2>1. writer[u] = d /\ d # c
    BY <1>1, ClientAssumption
  <2>2. /\ pc[d] \in {"lock", "check", "apply", "unlock"} /\ IsWrite(req[d])
        /\ pc[d] = "lock" => Needs(d, u)
        /\ pc[d] # "lock" => active[u]
    BY <2>1 DEF LockInv, WritersInPlace
  <2>3. pc'[d] = pc[d] /\ work'[d] = work[d] /\ req'[d] = req[d] /\ active'[u] = active[u]
    BY <1>1, <1>2, <2>1, ClientAssumption DEF TypeOK
  <2> QED BY <2>2, <2>3 DEF Needs
<1> QED BY <1>4, <1>5, <1>6, <1>7 DEF LockInv

(* Every step keeps the lock discipline.                                   *)
LEMMA NextLocks == TypeOK /\ LockInv /\ [Next]_vars => LockInv'
<1> SUFFICES ASSUME TypeOK, LockInv, [Next]_vars
             PROVE  LockInv'
  OBVIOUS
<1>1. CASE UNCHANGED <<locks, pc, req, work>>
  BY <1>1 DEF LockInv, WritersAlone, BodiesHold, ReadersInPlace, WritersInPlace,
              AllHeld, Holds, Needs, locks
<1>2. ASSUME NEW t \in Tables, CreateTable(t)
      PROVE  LockInv'
  BY <1>2, <1>1 DEF CreateTable, calls
<1>3. ASSUME NEW c \in Clients, NEW r \in Request, Call(c, r)
      PROVE  LockInv'
  BY <1>3, OutsideStep DEF Call, Goto, TypeOK
<1>4. ASSUME NEW c \in Clients, NEW t \in Tables, Lock(c, t)
      PROVE  LockInv'
  BY <1>4, LockStep
<1>5. ASSUME NEW c \in Clients, Resolve(c)
      PROVE  LockInv'
  BY <1>5, OutsideStep DEF Resolve, Finish, Goto, TypeOK
<1>6. ASSUME NEW c \in Clients, Enter(c)
      PROVE  LockInv'
  BY <1>6, EnterStep
<1>7. ASSUME NEW c \in Clients, Unlock(c)
      PROVE  LockInv'
  BY <1>7, UnlockStep
<1>8. ASSUME NEW c \in Clients, Read(c)
      PROVE  LockInv'
  <2>1. /\ UNCHANGED <<locks, req>> /\ pc[c] = "read" /\ work[c] # <<>>
        /\ \/ UNCHANGED work /\ pc' = [pc EXCEPT ![c] = "unlock"]
           \/ work' = [work EXCEPT ![c] = Tail(@)] /\ pc' = [pc EXCEPT ![c] = pc[c]]
    BY <1>8 DEF Read, Finish, Goto, TypeOK
  <2> QED BY <2>1, BodyStep
<1>9. ASSUME NEW c \in Clients, CheckOne(c)
      PROVE  LockInv'
  <2>1. /\ UNCHANGED <<locks, req, work>> /\ pc[c] = "check"
        /\ pc' = [pc EXCEPT ![c] = "unlock"] \/ pc' = [pc EXCEPT ![c] = "apply"]
    BY <1>9 DEF CheckOne, Finish, Goto
  <2> QED BY <2>1, BodyStep
<1>10. ASSUME NEW c \in Clients, CheckAll(c)
       PROVE  LockInv'
  <2>1. /\ UNCHANGED <<locks, req, work>> /\ pc[c] = "check"
        /\ pc' = [pc EXCEPT ![c] = "unlock"] \/ pc' = [pc EXCEPT ![c] = "apply"]
    BY <1>10 DEF CheckAll, Finish, Goto
  <2> QED BY <2>1, BodyStep
<1>11. ASSUME NEW c \in Clients, Write(c)
       PROVE  LockInv'
  <2>1. /\ UNCHANGED <<locks, req>> /\ pc[c] = "apply" /\ work[c] # <<>>
        /\ \/ UNCHANGED work /\ pc' = [pc EXCEPT ![c] = "unlock"]
           \/ work' = [work EXCEPT ![c] = Tail(@)] /\ pc' = [pc EXCEPT ![c] = pc[c]]
    BY <1>11 DEF Write, Finish, Goto, TypeOK
  <2> QED BY <2>1, BodyStep
<1>12. ASSUME NEW c \in Clients, Done(c)
       PROVE  LockInv'
  <2>1. /\ UNCHANGED <<locks, req, work>> /\ pc[c] \in {"read", "apply"}
        /\ pc' = [pc EXCEPT ![c] = "unlock"]
    BY <1>12 DEF Done, Complete, Finish, Goto
  <2> QED BY <2>1, BodyStep
<1>13. ASSUME NEW c \in Clients, NEW t \in Tables, ResolveBatch(c, t)
       PROVE  LockInv'
  BY <1>13, OutsideStep DEF ResolveBatch, Finish, Goto, TypeOK
<1>14. ASSUME NEW c \in Clients, NEW t \in Tables, LockGranted(c, t)
       PROVE  LockInv'
  BY <1>14, LockGrantedStep
<1>15. ASSUME NEW c \in Clients, NEW t \in Tables, RLock(c, t)
       PROVE  LockInv'
  BY <1>15, RLockStep
<1> QED BY <1>1, <1>2, <1>3, <1>4, <1>5, <1>6, <1>7, <1>8, <1>9, <1>10,
           <1>11, <1>12, <1>13, <1>14, <1>15 DEF Next, Step, vars, calls

(* The lock discipline holds: writers are alone, every body holds all the  *)
(* locks of the work it has left, and nobody keeps a lock after its call.  *)
THEOREM LocksHold == Spec => []LockInv
<1>1. Init => TypeOK /\ LockInv
  BY InitType, InitLocks
<1>2. TypeOK /\ LockInv /\ [Next]_vars => (TypeOK /\ LockInv)'
  BY NextType, NextLocks
<1> QED BY <1>1, <1>2, PTL DEF Spec

-------------------------------------------------------------------------------
(* Whoever writes is alone with the table it writes.                       *)
LEMMA WriterIsAlone ==
  ASSUME TypeOK, LockInv, NEW c \in Clients, Write(c),
         NEW t \in Tables, db'[t] # db[t]
  PROVE  /\ active[t] /\ readers[t] = {}
         /\ \A d \in Clients :
              Holds(d, t) => pc[d] = "apply" /\ work'[d] = Tail(work[d])
<1>1. /\ pc[c] = "apply" /\ work[c] # <<>> /\ work[c] \in Seq(Op)
      /\ t = Head(work[c]).table
      /\ work' = [work EXCEPT ![c] = Tail(@)]
  BY DEF Write, TypeOK
<1>2. Holds(c, t) /\ IsWrite(req[c])
  BY <1>1 DEF LockInv, BodiesHold, AllHeld
<1>3. writer[t] = c /\ active[t]
  BY <1>2 DEF Holds, LockInv, ReadersInPlace
<1>4. readers[t] = {}
  BY <1>3 DEF LockInv, WritersAlone
<1>5. \A d \in Clients : Holds(d, t) => d = c
  BY <1>3, <1>4 DEF Holds
<1> QED BY <1>1, <1>3, <1>4, <1>5 DEF TypeOK

(* Only the write of an item operation changes the data.                   *)
LEMMA OnlyWritesChangeData ==
  ASSUME [Next]_vars
  PROVE  UNCHANGED db \/ \E c \in Clients : Write(c)
<1>1. CASE UNCHANGED vars
  BY <1>1 DEF vars
<1>2. ASSUME NEW t \in Tables, CreateTable(t)
      PROVE  UNCHANGED db
  BY <1>2 DEF CreateTable
<1>3. ASSUME NEW c \in Clients, NEW r \in Request, Call(c, r)
      PROVE  UNCHANGED db
  BY <1>3 DEF Call
<1>4. ASSUME NEW c \in Clients, NEW t \in Tables,
             Lock(c, t) \/ ResolveBatch(c, t) \/ LockGranted(c, t) \/ RLock(c, t)
      PROVE  UNCHANGED db
  BY <1>4 DEF Lock, ResolveBatch, LockGranted, RLock
<1>5. ASSUME NEW c \in Clients, Resolve(c) \/ Enter(c) \/ Unlock(c)
      PROVE  UNCHANGED db
  BY <1>5 DEF Resolve, Enter, Unlock
<1>6. ASSUME NEW c \in Clients, Read(c) \/ CheckOne(c) \/ CheckAll(c) \/ Done(c)
      PROVE  UNCHANGED db
  BY <1>6 DEF Read, CheckOne, CheckAll, Done
<1> QED BY <1>1, <1>2, <1>3, <1>4, <1>5, <1>6 DEF Next, Step

(* No table ever changes under a reader or a second writer: only the one   *)
(* client inside the table's write lock changes it, one operation at a     *)
(* time.                                                                   *)
THEOREM TablesWrittenAlone == Spec => WrittenAlone
<1> DEFINE Alone == \A t \in Tables : db'[t] # db[t] =>
                      /\ active[t] /\ readers[t] = {}
                      /\ \A c \in Clients :
                           Holds(c, t) => pc[c] = "apply" /\ work'[c] = Tail(work[c])
<1>1. Init => TypeOK /\ LockInv
  BY InitType, InitLocks
<1>2. TypeOK /\ LockInv /\ [Next]_vars => (TypeOK /\ LockInv)'
  BY NextType, NextLocks
<1>3. TypeOK /\ LockInv /\ [Next]_vars => [Alone]_vars
  <2> SUFFICES ASSUME TypeOK, LockInv, [Next]_vars
               PROVE  Alone
    OBVIOUS
  <2>1. CASE UNCHANGED db
    BY <2>1
  <2>2. ASSUME NEW c \in Clients, Write(c)
        PROVE  Alone
    BY <2>2, WriterIsAlone
  <2> QED BY <2>1, <2>2, OnlyWritesChangeData
<1> QED BY <1>1, <1>2, <1>3, PTL DEF Spec, WrittenAlone

-------------------------------------------------------------------------------
(* Every table is consistent: its items are under their keys and its       *)
(* indexes agree with them.                                                *)
AllConsistent == \A t \in Tables : Consistent(SchemaOf[t], db[t])

(* New tables are consistent.                                              *)
LEMMA InitConsistent == Init => AllConsistent
BY NewTableIsConsistent DEF Init, AllConsistent

(* A write keeps the tables consistent.                                    *)
LEMMA WriteKeepsConsistent ==
  ASSUME IndexesCoverKeys, UpdatesKeepKeys, TypeOK, AllConsistent,
         NEW c \in Clients, Write(c)
  PROVE  AllConsistent'
<1> DEFINE op == Head(work[c])
<1>1. op \in Op /\ op.table \in Tables /\ op.item \in Item
  BY RequestAssumption DEF Write, TypeOK, IsOp
<1>2. UpdateIsSound(op) /\ KeepsKeys(op, SchemaOf[op.table].key)
  BY <1>1, UpdateAssumption DEF UpdateIsSound, KeepsKeys, UpdatesKeepKeys
<1>3. SchemaOf[op.table] \in Schema /\ CoveredBy(SchemaOf[op.table])
  BY <1>1, RequestAssumption DEF IndexesCoverKeys, CoveredBy
<1>4. CASE UNCHANGED db
  BY <1>4 DEF AllConsistent
<1>5. CASE /\ Verdict(SchemaOf[op.table], db[op.table], op) = "ok"
           /\ db' = [db EXCEPT ![op.table] = Apply(SchemaOf[op.table], @, op)]
  <2>1. Consistent(SchemaOf[op.table], Apply(SchemaOf[op.table], db[op.table], op))
    BY <1>1, <1>2, <1>3, <1>5, ApplyIsConsistent DEF TypeOK, AllConsistent
  <2> QED BY <2>1, <1>1, <1>5 DEF TypeOK, AllConsistent
<1> QED BY <1>4, <1>5 DEF Write

(* Under any interleaving of any writes, an index whose key covers the     *)
(* table's key agrees with its table, provided no update touches the key   *)
(* of its table.                                                           *)
THEOREM IndexesAgree ==
  ASSUME IndexesCoverKeys, UpdatesKeepKeys
  PROVE  Spec => []GSIAgrees
<1>1. Init => TypeOK /\ AllConsistent
  BY InitType, InitConsistent
<1>2. TypeOK /\ AllConsistent /\ [Next]_vars => (TypeOK /\ AllConsistent)'
  <2> SUFFICES ASSUME TypeOK, AllConsistent, [Next]_vars
               PROVE  AllConsistent'
    BY NextType
  <2>1. CASE UNCHANGED db
    BY <2>1 DEF AllConsistent
  <2>2. ASSUME NEW c \in Clients, Write(c)
        PROVE  AllConsistent'
    BY <2>2, WriteKeepsConsistent
  <2> QED BY <2>1, <2>2, OnlyWritesChangeData
<1>3. AllConsistent => GSIAgrees
  BY DEF AllConsistent, Consistent, GSIAgrees
<1> QED BY <1>1, <1>2, <1>3, PTL DEF Spec

-------------------------------------------------------------------------------
(* The place of a table in a call's order of locking: all the tables that  *)
(* the request names before it are held.                                   *)
InLine(c, t) ==
  \E i \in DOMAIN work[c] :
    /\ work[c][i].table = t
    /\ \A j \in 1..(i - 1) : Holds(c, work[c][j].table)

AtTheLock(c, t) == c \in readers[t] \cup queued[t] \/ writer[t] = c

(* A client has got to the lock of a table, inside or waiting, only with   *)
(* the locks of the tables before it.                                      *)
LocksInOrder ==
  \A c \in Clients, t \in Tables :
    pc[c] = "lock" /\ AtTheLock(c, t) => InLine(c, t)

(* A client that stays in its place keeps it while it loses no lock.       *)
LEMMA InLineStays ==
  ASSUME TypeOK, NEW c \in Clients, NEW t \in Tables, InLine(c, t), work'[c] = work[c],
         \A u \in Tables : Holds(c, u) => Holds(c, u)'
  PROVE  InLine(c, t)'
<1>1. PICK i \in DOMAIN work[c] :
        work[c][i].table = t /\ \A j \in 1..(i - 1) : Holds(c, work[c][j].table)
  BY DEF InLine
<1>2. ASSUME NEW j \in 1..(i - 1)
      PROVE  Holds(c, work[c][j].table)'
  <2>1. work[c] \in Seq(Op) /\ j \in DOMAIN work[c]
    BY <1>1 DEF TypeOK
  <2>2. work[c][j].table \in Tables
    BY <2>1, RequestAssumption DEF IsOp
  <2> QED BY <1>1, <2>2
<1> QED BY <1>1, <1>2 DEF InLine

(* A step outside the locks: whoever starts to lock holds nothing yet.     *)
LEMMA OrderOutside ==
  ASSUME TypeOK, LockInv, LocksInOrder, NEW c \in Clients, UNCHANGED locks,
         pc'[c] = "lock" => pc[c] = "resolve",
         \A d \in Clients \ {c} : pc'[d] = pc[d] /\ work'[d] = work[d]
  PROVE  LocksInOrder'
<1> SUFFICES ASSUME NEW d \in Clients, NEW t \in Tables, pc'[d] = "lock", AtTheLock(d, t)'
             PROVE  InLine(d, t)'
  BY DEF LocksInOrder
<1>1. AtTheLock(d, t)
  BY DEF AtTheLock, locks
<1>2. CASE d = c
  BY <1>1, <1>2 DEF LockInv, ReadersInPlace, WritersInPlace, AtTheLock
<1>3. CASE d # c
  <2>1. InLine(d, t)
    BY <1>1, <1>3 DEF LocksInOrder
  <2> QED BY <2>1, <1>3, InLineStays DEF Holds, locks
<1> QED BY <1>2, <1>3

(* A step at the locks: whoever gets to one is in line for it, and nobody  *)
(* who goes on locking loses one.                                          *)
LEMMA OrderAtLocks ==
  ASSUME TypeOK, LocksInOrder,
         \A d \in Clients : pc'[d] = "lock" =>
           /\ pc[d] = "lock" /\ work'[d] = work[d]
           /\ \A u \in Tables : Holds(d, u) => Holds(d, u)'
           /\ \A u \in Tables : AtTheLock(d, u)' => AtTheLock(d, u) \/ InLine(d, u)
  PROVE  LocksInOrder'
<1> SUFFICES ASSUME NEW d \in Clients, NEW t \in Tables, pc'[d] = "lock", AtTheLock(d, t)'
             PROVE  InLine(d, t)'
  BY DEF LocksInOrder
<1>1. InLine(d, t)
  BY DEF LocksInOrder
<1> QED BY <1>1, InLineStays

(* Every step keeps the order of locking.                                  *)
LEMMA NextOrder == TypeOK /\ LockInv /\ LocksInOrder /\ [Next]_vars => LocksInOrder'
<1> SUFFICES ASSUME TypeOK, LockInv, LocksInOrder, [Next]_vars
             PROVE  LocksInOrder'
  OBVIOUS
<1>1. CASE UNCHANGED <<locks, pc, work>>
  BY <1>1 DEF LocksInOrder, AtTheLock, InLine, Holds, locks
<1>2. ASSUME NEW t \in Tables, CreateTable(t)
      PROVE  LocksInOrder'
  BY <1>2, <1>1 DEF CreateTable, calls
<1>3. ASSUME NEW c \in Clients, NEW r \in Request, Call(c, r)
      PROVE  LocksInOrder'
  BY <1>3, OrderOutside DEF Call, Goto, TypeOK
<1>4. ASSUME NEW c \in Clients,
             \/ Resolve(c) \/ Enter(c) \/ Read(c) \/ CheckOne(c) \/ CheckAll(c)
             \/ Write(c) \/ Done(c) \/ \E t \in Tables : ResolveBatch(c, t)
      PROVE  LocksInOrder'
  <2>1. /\ UNCHANGED locks
        /\ \A d \in Clients \ {c} : pc'[d] = pc[d] /\ work'[d] = work[d]
    BY <1>4 DEF Resolve, Enter, Read, CheckOne, CheckAll, Write, Done, Complete,
                ResolveBatch, Finish, Goto, TypeOK
  <2>2. pc'[c] = "lock" => pc[c] = "resolve"
    <3>1. CASE Resolve(c) \/ \E t \in Tables : ResolveBatch(c, t)
      BY <3>1 DEF Resolve, ResolveBatch
    <3>2. CASE Enter(c)
      <4>1. req[c].type \in Types
        BY <3>2, RequestOps DEF Enter, TypeOK
      <4> QED BY <4>1, <3>2 DEF Enter, Goto, TypeOK, Types, IsWrite
    <3>3. CASE Read(c) \/ CheckOne(c) \/ CheckAll(c) \/ Write(c) \/ Done(c)
      BY <3>3 DEF Read, CheckOne, CheckAll, Write, Done, Complete, Finish, Goto, TypeOK
    <3> QED BY <1>4, <3>1, <3>2, <3>3
  <2> QED BY <2>1, <2>2, OrderOutside
<1>5. ASSUME NEW c \in Clients, NEW t \in Tables, Lock(c, t)
      PROVE  LocksInOrder'
  <2>1. InLine(c, t) /\ writer[t] = NoClient /\ UNCHANGED <<readers, queued, active, calls>>
    BY <1>5 DEF Lock, Wants, InLine
  <2>2. \A u \in Tables : writer'[u] = IF u = t THEN c ELSE writer[u]
    BY <1>5 DEF Lock, TypeOK
  <2> QED BY <2>1, <2>2, OrderAtLocks, ClientAssumption DEF AtTheLock, Holds, calls
<1>6. ASSUME NEW c \in Clients, NEW t \in Tables, LockGranted(c, t)
      PROVE  LocksInOrder'
  BY <1>6, OrderAtLocks DEF LockGranted, AtTheLock, Holds, TypeOK, calls
<1>7. ASSUME NEW c \in Clients, NEW t \in Tables, RLock(c, t)
      PROVE  LocksInOrder'
  <2>1. InLine(c, t) /\ UNCHANGED <<writer, active, calls>>
    BY <1>7 DEF RLock, Wants, InLine
  <2>2. \A u \in Tables :
          /\ readers[u] \subseteq readers'[u]
          /\ readers'[u] \cup queued'[u] \subseteq
               readers[u] \cup queued[u] \cup (IF u = t THEN {c} ELSE {})
    BY <1>7 DEF RLock, TypeOK
  <2> QED BY <2>1, <2>2, OrderAtLocks DEF AtTheLock, Holds, calls
<1>8. ASSUME NEW c \in Clients, Unlock(c)
      PROVE  LocksInOrder'
  <2>1. /\ pc'[c] # "lock"
        /\ \A d \in Clients \ {c} : pc'[d] = pc[d] /\ work'[d] = work[d]
    BY <1>8 DEF Unlock, Leaves, Goto, TypeOK
  <2>2. \A u \in Tables :
          /\ readers[u] \ {c} \subseteq readers'[u]
          /\ readers'[u] \cup queued'[u] \subseteq readers[u] \cup queued[u]
          /\ writer'[u] = (IF writer[u] = c THEN NoClient ELSE writer[u])
          /\ active'[u] = (active[u] /\ writer[u] # c)
    BY <1>8 DEF Unlock, Leaves, TypeOK
  <2> QED BY <2>1, <2>2, OrderAtLocks, ClientAssumption DEF AtTheLock, Holds
<1> QED BY <1>1, <1>2, <1>3, <1>4, <1>5, <1>6, <1>7, <1>8 DEF Next, Step, vars, calls

(* A client that waits is in line for a lock that it does not hold.        *)
LEMMA WaiterIsInLine ==
  ASSUME TypeOK, LockInv, LocksInOrder,
         NEW c \in Clients, NEW d \in Clients, NEW t \in Tables, WaitsAt(c, d, t)
  PROVE  pc[c] = "lock" /\ InLine(c, t) /\ ~Holds(c, t)
<1>1. CASE c \in queued[t]
  BY <1>1 DEF LockInv, WritersAlone, ReadersInPlace, WritersInPlace,
              LocksInOrder, AtTheLock, Holds
<1>2. CASE writer[t] = c /\ d \in readers[t]
  BY <1>2 DEF LockInv, WritersAlone, ReadersInPlace, WritersInPlace,
              LocksInOrder, AtTheLock, Holds
<1>3. CASE pc[c] = "lock" /\ Wants(c, t)
  BY <1>3 DEF Wants, InLine
<1> QED BY <1>1, <1>2, <1>3 DEF WaitsAt

(* A client that goes on from a lock it holds, or has announced, names its *)
(* table before the table it waits for.                                    *)
LEMMA OneInLine ==
  ASSUME TypeOK, NEW c \in Clients, NEW t \in Tables, NEW u \in Tables, u # t,
         InLine(c, t), InLine(c, u), ~Holds(c, u)
  PROVE  Holds(c, t) /\ LocksBefore(c, t, u)
<1>1. PICK i \in DOMAIN work[c] :
        work[c][i].table = t /\ \A j \in 1..(i - 1) : Holds(c, work[c][j].table)
  BY DEF InLine
<1>2. PICK k \in DOMAIN work[c] :
        work[c][k].table = u /\ \A j \in 1..(k - 1) : Holds(c, work[c][j].table)
  BY DEF InLine
<1>3. work[c] \in Seq(Op) /\ i \in 1..Len(work[c]) /\ k \in 1..Len(work[c])
  BY <1>1, <1>2 DEF TypeOK
<1>4. i # k /\ ~(k < i)
  BY <1>1, <1>2, <1>3
<1>5. i < k
  BY <1>3, <1>4
<1>6. Holds(c, t)
  BY <1>1, <1>2, <1>3, <1>5
<1>7. \A j \in 1..i : work[c][j].table # u
  BY <1>2, <1>3, <1>5
<1> QED BY <1>1, <1>2, <1>6, <1>7 DEF LocksBefore, Needs

(* Somebody among the blocked clients is inside every lock that one of     *)
(* them waits for: an announced writer waits for a reader, too.            *)
LEMMA SomebodyHolds ==
  ASSUME TypeOK, LockInv, LocksInOrder,
         NEW Stuck \in SUBSET Clients, Deadlocked(Stuck),
         NEW c \in Stuck, NEW d \in Stuck, NEW t \in Tables, WaitsAt(c, d, t)
  PROVE  \E h \in Stuck : Holds(h, t)
<1>1. CASE writer[t] = c /\ d \in readers[t]
  BY <1>1 DEF Holds
<1>2. CASE d = writer[t] /\ active[t]
  BY <1>2 DEF Holds
<1>3. CASE d = writer[t] /\ ~active[t]
  <2>1. pc[d] = "lock" /\ IsWrite(req[d]) /\ InLine(d, t)
    BY <1>3 DEF LockInv, WritersInPlace, LocksInOrder, AtTheLock
  <2>2. ~Holds(d, t)
    BY <1>3, <2>1 DEF LockInv, ReadersInPlace, Holds
  <2>3. PICK e \in Stuck, u \in Tables : WaitsAt(d, e, u)
    BY DEF Deadlocked, WaitsFor, WaitsAt
  <2>4. InLine(d, u) /\ ~Holds(d, u)
    BY <2>3, WaiterIsInLine
  <2>5. u = t
    BY <2>1, <2>2, <2>4, OneInLine
  <2>6. d \notin queued[t]
    BY <2>1 DEF LockInv, ReadersInPlace
  <2>7. e \in readers[t]
    BY <1>3, <2>3, <2>5, <2>6 DEF WaitsAt
  <2> QED BY <2>7 DEF Holds
<1> QED BY <1>1, <1>2, <1>3 DEF WaitsAt

(* The tables that blocked clients wait for form a circle of lock orders.  *)
LEMMA BlockedCircle ==
  ASSUME TypeOK, LockInv, LocksInOrder,
         NEW Stuck \in SUBSET Clients, Deadlocked(Stuck)
  PROVE  \E Circle \in (SUBSET Tables) \ {{}} :
           \A t \in Circle : \E u \in Circle, c \in Stuck :
             pc[c] = "lock" /\ LocksBefore(c, t, u)
<1> DEFINE Circle == {t \in Tables : \E c \in Stuck, d \in Stuck : WaitsAt(c, d, t)}
<1>1. \A c \in Stuck : \E d \in Stuck, u \in Circle : WaitsAt(c, d, u)
  BY DEF Deadlocked, WaitsFor, WaitsAt
<1>2. Circle # {}
  BY <1>1 DEF Deadlocked
<1>3. ASSUME NEW t \in Circle
      PROVE  \E u \in Circle, c \in Stuck : pc[c] = "lock" /\ LocksBefore(c, t, u)
  <2>1. PICK h \in Stuck : Holds(h, t)
    BY SomebodyHolds
  <2>2. PICK d \in Stuck, u \in Circle : WaitsAt(h, d, u)
    BY <1>1
  <2>3. pc[h] = "lock" /\ InLine(h, u) /\ ~Holds(h, u)
    BY <2>2, WaiterIsInLine
  <2>4. InLine(h, t)
    BY <2>1, <2>3 DEF LocksInOrder, AtTheLock, Holds
  <2> QED BY <2>1, <2>3, <2>4, OneInLine
<1> QED BY <1>2, <1>3

LEMMA DeadlockIsCrossed ==
  TypeOK /\ LockInv /\ LocksInOrder => DeadlocksAreCrossed
BY BlockedCircle DEF DeadlocksAreCrossed

LEMMA InitOrder == Init => LocksInOrder
BY DEF Init, LocksInOrder

(* Callers block each other in a circle only where the orders in which     *)
(* their requests name the tables form a circle: for any number of         *)
(* clients and tables, and with Go's queueing of readers behind a writer   *)
(* that is only announced.                                                 *)
THEOREM DeadlocksCrossed == Spec => []DeadlocksAreCrossed
<1>1. Init => TypeOK /\ LockInv /\ LocksInOrder
  BY InitType, InitLocks, InitOrder
<1>2. TypeOK /\ LockInv /\ LocksInOrder /\ [Next]_vars => (TypeOK /\ LockInv /\ LocksInOrder)'
  BY NextType, NextLocks, NextOrder
<1> QED BY <1>1, <1>2, DeadlockIsCrossed, PTL DEF Spec

-------------------------------------------------------------------------------
(* What calls have read and answered so far.                               *)
AnswerTypes ==
  /\ out \in [Clients -> Seq(Item)]
  /\ reply = [c \in Clients |-> reply[c]]

CallAt(c) == <<pc[c], req[c], work[c], later[c], out[c], reply[c]>>

(* What is looked up in a well-formed map is an item.                      *)
LEMMA LookupIsItem ==
  ASSUME NEW m, IsMap(m), NEW k
  PROVE  Lookup(m, k) \in Item
BY NoItemIsItem DEF Lookup, IsMap

(* A read collects items.                                                  *)
LEMMA ReadCollects ==
  ASSUME TypeOK, AnswerTypes, NEW c \in Clients, Read(c)
  PROVE  out' \in [Clients -> Seq(Item)]
<1> DEFINE op == Head(work[c])
           k  == KeyOf(SchemaOf[op.table].key, op.item)
           item == Lookup(db[op.table].items, k)
<1>1. op \in Op /\ op.table \in Tables
  BY RequestAssumption DEF Read, TypeOK, IsOp
<1>2. item \in Item
  BY <1>1, LookupIsItem DEF TypeOK, IsTable
<1>3. out[c] \in Seq(Item) /\ Append(out[c], item) \in Seq(Item)
  BY <1>2 DEF AnswerTypes
<1>4. \/ UNCHANGED out
      \/ out' = [out EXCEPT ![c] = IF req[c].type = "batchget" /\ k \notin DOMAIN db[op.table].items
                                   THEN @ ELSE Append(@, item)]
  BY DEF Read
<1> HIDE DEF item, k, op
<1> QED BY <1>3, <1>4 DEF AnswerTypes

(* A step of one client is a step of its call only.                        *)
LEMMA StepIsLocal ==
  ASSUME TypeOK, AnswerTypes, NEW c \in Clients,
         \/ Step(c)
         \/ \E r \in Request : Call(c, r)
         \/ \E t \in Tables : Lock(c, t)
  PROVE  AnswerTypes' /\ UNCHANGED created /\ \A d \in Clients \ {c} : UNCHANGED CallAt(d)
<1> USE DEF TypeOK, CallAt, Goto, Finish
<1>1. CASE Resolve(c) \/ \E t \in Tables : ResolveBatch(c, t)
  BY <1>1 DEF Resolve, ResolveBatch, AnswerTypes
<1>2. CASE \E r \in Request : Call(c, r)
  BY <1>2 DEF Call, AnswerTypes
<1>3. CASE \E t \in Tables : Lock(c, t) \/ LockGranted(c, t) \/ RLock(c, t)
  BY <1>3 DEF Lock, LockGranted, RLock, calls, AnswerTypes
<1>4. CASE Enter(c)
  BY <1>4 DEF Enter, AnswerTypes
<1>5. CASE Unlock(c)
  <2>1. UNCHANGED created /\ \A d \in Clients \ {c} : UNCHANGED CallAt(d)
    BY <1>5 DEF Unlock, Leaves, AnswerTypes
  <2>2. out' \in [Clients -> Seq(Item)]
    <3>1. <<>> \in Seq(Item)
      OBVIOUS
    <3> QED BY <1>5, <3>1 DEF Unlock, Leaves, AnswerTypes
  <2>3. reply' = [d \in Clients |-> reply'[d]]
    BY <1>5 DEF Unlock, Leaves, AnswerTypes
  <2> QED BY <2>1, <2>2, <2>3 DEF AnswerTypes
<1>6. CASE Read(c)
  <2>1. UNCHANGED <<created, req, later>> /\ out' \in [Clients -> Seq(Item)]
    BY <1>6, ReadCollects DEF Read
  <2>2. \A d \in Clients \ {c} : UNCHANGED <<pc[d], work[d]>>
    BY <1>6 DEF Read
  <2>3. (\A d \in Clients \ {c} : UNCHANGED reply[d]) /\ reply' = [d \in Clients |-> reply'[d]]
    BY <1>6 DEF Read, AnswerTypes
  <2>4. \A d \in Clients \ {c} : UNCHANGED out[d]
    BY <1>6 DEF Read, AnswerTypes
  <2> QED BY <2>1, <2>2, <2>3, <2>4 DEF AnswerTypes
<1>7. CASE CheckOne(c) \/ CheckAll(c)
  <2>1. UNCHANGED <<created, req, work, later, out>>
    BY <1>7 DEF CheckOne, CheckAll
  <2>2. /\ \E label : pc' = [pc EXCEPT ![c] = label]
        /\ UNCHANGED reply \/ \E r : reply' = [reply EXCEPT ![c] = r]
    BY <1>7 DEF CheckOne, CheckAll
  <2> QED BY <2>1, <2>2 DEF AnswerTypes
<1>8. CASE Write(c)
  <2>1. UNCHANGED <<created, req, later, out>>
    BY <1>8 DEF Write
  <2>2. \A d \in Clients \ {c} : UNCHANGED <<pc[d], work[d]>>
    BY <1>8 DEF Write
  <2>3. UNCHANGED reply \/ \E r : reply' = [reply EXCEPT ![c] = r]
    BY <1>8 DEF Write
  <2> QED BY <2>1, <2>2, <2>3 DEF AnswerTypes
<1>9. CASE Done(c)
  BY <1>9 DEF Done, Complete, AnswerTypes
<1> QED BY <1>1, <1>2, <1>3, <1>4, <1>5, <1>6, <1>7, <1>8, <1>9 DEF Step

(* What a call has answered and read, by where it is: the answer is given  *)
(* just before the locks are released; only reads collect items, and only  *)
(* batches have some when they come to the next table.                     *)
AnswerInPlace(c) ==
  /\ pc[c] # "unlock" => reply[c] = NoReply
  /\ pc[c] = "idle" \/ IsWrite(req[c]) => out[c] = <<>>
  /\ pc[c] \in {"resolve", "lock"} /\ ~IsBatch(req[c]) => out[c] = <<>>
  /\ pc[c] = "unlock" /\ reply[c] = NoReply => later[c] # {}

(* Until it reads or writes, a call has all its work before it, or that of *)
(* one table of its batch, and its tables exist.                           *)
WorkInPlace(c) ==
  pc[c] \in {"lock", "check"} =>
    /\ ~TooMany(req[c])
    /\ \A i \in DOMAIN work[c] : work[c][i].table \in created
    /\ ~IsBatch(req[c]) => work[c] = req[c].ops
    /\ IsBatch(req[c]) => \E t \in BatchTables(req[c]) \ later[c] : work[c] = req[c].ops[t]

CallsInPlace == AnswerTypes /\ \A c \in Clients : AnswerInPlace(c) /\ WorkInPlace(c)

LEMMA InitCalls == Init => CallsInPlace
<1> SUFFICES ASSUME Init
             PROVE  CallsInPlace
  OBVIOUS
<1>1. AnswerTypes
  BY DEF Init, AnswerTypes
<1> QED BY <1>1 DEF Init, CallsInPlace, AnswerInPlace, WorkInPlace

(* A call that does not move stays in place.                               *)
LEMMA CallStays ==
  ASSUME NEW c, AnswerInPlace(c), WorkInPlace(c), UNCHANGED CallAt(c), created \subseteq created'
  PROVE  AnswerInPlace(c)' /\ WorkInPlace(c)'
<1>1. AnswerInPlace(c)'
  BY DEF AnswerInPlace, CallAt
<1>2. WorkInPlace(c)'
  BY DEF WorkInPlace, CallAt
<1> QED BY <1>1, <1>2

(* An answer that is one.                                                  *)
LEMMA AnswerIsReply ==
  ASSUME NEW status, status # "none", NEW detail
  PROVE  Answer(status, detail) # NoReply
<1>1. Answer(status, detail).status # NoReply.status
  BY DEF Answer, NoReply
<1> QED BY <1>1

(* The smallest of a set of indices is one of them.                        *)
LEMMA MinIsMember ==
  ASSUME NEW T, T \subseteq Nat, T # {}
  PROVE  Min(T) \in T
BY SmallestOf DEF Min

(* The end of a body: a call that has an answer, or goes on to the next    *)
(* table of its batch.                                                     *)
LEMMA CallFinishes ==
  ASSUME NEW c \in Clients, AnswerInPlace(c), pc'[c] = "unlock",
         UNCHANGED <<req[c], later[c]>>, UNCHANGED out[c] \/ ~IsWrite(req[c]),
         reply'[c] # NoReply \/ later[c] # {}
  PROVE  AnswerInPlace(c)' /\ WorkInPlace(c)'
<1>1. AnswerInPlace(c)'
  BY DEF AnswerInPlace
<1>2. WorkInPlace(c)'
  BY DEF WorkInPlace
<1> QED BY <1>1, <1>2

(* A step within a body.                                                   *)
LEMMA CallGoesOn ==
  ASSUME NEW c \in Clients, AnswerInPlace(c), pc[c] \in {"lock", "check", "read", "apply"},
         pc'[c] \in {"read", "apply"}, UNCHANGED <<req[c], reply[c]>>,
         UNCHANGED out[c] \/ ~IsWrite(req[c])
  PROVE  AnswerInPlace(c)' /\ WorkInPlace(c)'
<1>1. AnswerInPlace(c)'
  BY DEF AnswerInPlace
<1>2. WorkInPlace(c)'
  BY DEF WorkInPlace
<1> QED BY <1>1, <1>2

(* The steps that start a call and take it to its locks.                   *)
LEMMA CallIsPlaced ==
  ASSUME TypeOK, CallsInPlace, NEW c \in Clients,
         \/ \E r \in Request : Call(c, r)
         \/ Resolve(c)
         \/ \E t \in Tables : ResolveBatch(c, t)
  PROVE  AnswerInPlace(c)' /\ WorkInPlace(c)'
<1> USE DEF TypeOK, CallsInPlace, AnswerTypes
<1>1. CASE \E r \in Request : Call(c, r)
  BY <1>1 DEF Call, Goto, AnswerInPlace, WorkInPlace
<1>2. CASE Resolve(c)
  <2>1. CASE TooMany(req[c]) \/ \E i \in DOMAIN req[c].ops : req[c].ops[i].table \notin created
    <3>1. Answer("invalid", <<>>) # NoReply
      BY AnswerIsReply
    <3>2. /\ pc'[c] = "unlock" /\ reply'[c] = Answer("invalid", <<>>)
          /\ UNCHANGED <<req[c], later[c], out[c]>>
      BY <1>2, <2>1 DEF Resolve, Finish, Goto
    <3> QED BY <3>1, <3>2, CallFinishes
  <2>2. CASE ~(TooMany(req[c]) \/ \E i \in DOMAIN req[c].ops : req[c].ops[i].table \notin created)
    <3>1. /\ pc[c] = "resolve" /\ pc'[c] = "lock" /\ work'[c] = req[c].ops
          /\ ~IsBatch(req[c])
          /\ UNCHANGED <<created, req[c], later[c], out[c], reply[c]>>
      BY <1>2, <2>2 DEF Resolve, Goto
    <3>2. AnswerInPlace(c)'
      BY <3>1 DEF AnswerInPlace
    <3>3. WorkInPlace(c)'
      BY <2>2, <3>1 DEF WorkInPlace
    <3> QED BY <3>2, <3>3
  <2> QED BY <2>1, <2>2
<1>3. ASSUME NEW t \in Tables, ResolveBatch(c, t)
      PROVE  AnswerInPlace(c)' /\ WorkInPlace(c)'
  <2>1. CASE TooMany(req[c]) \/ t \notin created
    <3>1. Answer("invalid", <<>>) # NoReply
      BY AnswerIsReply
    <3>2. /\ pc'[c] = "unlock" /\ reply'[c] = Answer("invalid", <<>>)
          /\ UNCHANGED <<req[c], later[c], out[c]>>
      BY <1>3, <2>1 DEF ResolveBatch, Finish, Goto
    <3> QED BY <3>1, <3>2, CallFinishes
  <2>2. CASE ~(TooMany(req[c]) \/ t \notin created)
    <3>1. /\ pc[c] = "resolve" /\ pc'[c] = "lock" /\ work'[c] = req[c].ops[t]
          /\ IsBatch(req[c]) /\ t \in later[c] /\ later'[c] = later[c] \ {t}
          /\ UNCHANGED <<created, req[c], out[c], reply[c]>>
      BY <1>3, <2>2 DEF ResolveBatch, Goto
    <3>2. req[c] \in Request /\ t \in BatchTables(req[c])
      BY <3>1
    <3>3. \A i \in DOMAIN work'[c] : work'[c][i].table = t
      BY <3>1, <3>2, RequestOps DEF BatchTables
    <3>4. AnswerInPlace(c)'
      BY <3>1 DEF AnswerInPlace
    <3>5. WorkInPlace(c)'
      BY <2>2, <3>1, <3>2, <3>3 DEF WorkInPlace
    <3> QED BY <3>4, <3>5
  <2> QED BY <2>1, <2>2
<1> QED BY <1>1, <1>2, <1>3

(* The steps at the locks and within the bodies.                           *)
LEMMA BodyIsPlaced ==
  ASSUME TypeOK, LockInv, CallsInPlace, NEW c \in Clients,
         \/ Enter(c) \/ Read(c) \/ CheckOne(c) \/ CheckAll(c) \/ Write(c) \/ Done(c)
  PROVE  AnswerInPlace(c)' /\ WorkInPlace(c)'
<1> USE DEF TypeOK, CallsInPlace, AnswerTypes
<1>0. AnswerInPlace(c) /\ WorkInPlace(c)
  OBVIOUS
<1>1. CASE Enter(c)
  <2>1. pc[c] = "lock" /\ UNCHANGED <<created, req[c], work[c], later[c], out[c], reply[c]>>
    BY <1>1 DEF Enter
  <2>2. req[c] \in Request /\ req[c].type \in Types
    BY <2>1, RequestOps
  <2>3. pc'[c] \in {"check", "apply", "read"}
    BY <1>1, <2>2 DEF Enter, Goto, IsWrite, Types
  <2>4. CASE pc'[c] = "check"
    BY <1>0, <2>1, <2>4 DEF AnswerInPlace, WorkInPlace
  <2>5. CASE pc'[c] \in {"read", "apply"}
    BY <1>0, <2>1, <2>5, CallGoesOn
  <2> QED BY <2>3, <2>4, <2>5
<1>2. CASE Read(c)
  <2>1. UNCHANGED <<req[c], later[c]>> /\ ~IsWrite(req[c]) /\ pc[c] = "read"
    BY <1>2 DEF Read, LockInv, BodiesHold
  <2>2. Answer("invalid", <<>>) # NoReply
    BY AnswerIsReply
  <2>3. \/ pc'[c] = "unlock" /\ reply'[c] = Answer("invalid", <<>>)
        \/ UNCHANGED <<pc[c], reply[c]>>
    BY <1>2 DEF Read, Finish, Goto
  <2> QED BY <1>0, <2>1, <2>2, <2>3, CallFinishes, CallGoesOn
<1>3. CASE CheckOne(c)
  <2>1. UNCHANGED <<req[c], later[c], out[c]>> /\ pc[c] = "check"
    BY <1>3 DEF CheckOne
  <2> DEFINE answers == {Answer(status, <<>>) : status \in {"condition failed", "invalid", "error"}}
  <2>2. \/ pc'[c] = "apply" /\ UNCHANGED reply[c]
        \/ pc'[c] = "unlock" /\ reply'[c] \in answers
    <3>1. \/ Goto(c, "apply") /\ UNCHANGED reply
          \/ \E a \in answers : Finish(c, a)
      BY <1>3, Zenon DEF CheckOne
    <3> HIDE DEF answers
    <3> QED BY <3>1 DEF Finish, Goto
  <2>3. pc'[c] = "unlock" => reply'[c] # NoReply
    BY <2>2, AnswerIsReply
  <2> QED BY <1>0, <2>1, <2>2, <2>3, CallFinishes, CallGoesOn
<1>4. CASE CheckAll(c)
  <2> DEFINE ops        == work[c]
             verdict(i) == Check(SchemaOf[ops[i].table], db[ops[i].table], ops[i])
             broken     == {i \in DOMAIN ops : verdict(i) \in {"invalid", "error"}}
             failed     == [i \in DOMAIN ops |-> verdict(i) = "false"]
  <2>1. UNCHANGED <<req[c], later[c], out[c]>> /\ pc[c] = "check"
    BY <1>4 DEF CheckAll
  <2>2. \/ pc'[c] = "apply" /\ UNCHANGED reply[c]
        \/ /\ pc'[c] = "unlock" /\ broken # {}
           /\ reply'[c] = Answer(verdict(Min(broken)), <<>>)
        \/ pc'[c] = "unlock" /\ reply'[c] = Answer("cancelled", failed)
    BY <1>4 DEF CheckAll, Finish, Goto
  <2>3. DOMAIN ops \subseteq Nat
    OBVIOUS
  <2>4. broken # {} => verdict(Min(broken)) \in {"invalid", "error"}
    <3>1. broken \subseteq Nat
      BY <2>3
    <3>2. broken # {} => Min(broken) \in broken
      <4> HIDE DEF broken
      <4> QED BY <3>1, MinIsMember
    <3> HIDE DEF verdict
    <3> QED BY <3>2
  <2>5. pc'[c] = "unlock" => reply'[c] # NoReply
    <3> HIDE DEF broken, verdict, failed
    <3> QED BY <2>2, <2>4, AnswerIsReply
  <2>6. pc'[c] \in {"apply", "unlock"} /\ (pc'[c] = "apply" => UNCHANGED reply[c])
    BY <2>2
  <2> QED BY <1>0, <2>1, <2>5, <2>6, CallFinishes, CallGoesOn
<1>5. CASE Write(c)
  <2> DEFINE op == Head(work[c])
             verdict == Verdict(SchemaOf[op.table], db[op.table], op)
  <2>1. UNCHANGED <<req[c], later[c], out[c]>> /\ pc[c] = "apply"
    BY <1>5 DEF Write
  <2>2. \/ pc'[c] = "unlock" /\ verdict # "ok" /\ reply'[c] = Answer(verdict, <<>>)
        \/ UNCHANGED <<pc[c], reply[c]>>
    BY <1>5 DEF Write, Finish, Goto
  <2>3. verdict \in {"ok", "invalid", "error"}
    BY DEF Verdict
  <2>4. pc'[c] = "unlock" => reply'[c] # NoReply
    <3> HIDE DEF verdict
    <3> QED BY <2>1, <2>2, <2>3, AnswerIsReply
  <2>5. pc'[c] = "unlock" \/ UNCHANGED <<pc[c], reply[c]>>
    BY <2>2
  <2> QED BY <1>0, <2>1, <2>4, <2>5, CallFinishes, CallGoesOn
<1>6. CASE Done(c)
  <2>1. UNCHANGED <<req[c], later[c], out[c]>> /\ pc'[c] = "unlock"
    BY <1>6 DEF Done, Complete, Finish, Goto
  <2>2. later[c] = {} => reply'[c] = Answer("ok", out[c])
    BY <1>6 DEF Done, Complete, Finish
  <2>3. reply'[c] # NoReply \/ later[c] # {}
    BY <2>2, AnswerIsReply
  <2> QED BY <1>0, <2>1, <2>3, CallFinishes
<1> QED BY <1>1, <1>2, <1>3, <1>4, <1>5, <1>6

(* The return, or the way to the next table of a batch.                    *)
LEMMA ReturnIsPlaced ==
  ASSUME TypeOK, CallsInPlace, NEW c \in Clients, Unlock(c)
  PROVE  AnswerInPlace(c)' /\ WorkInPlace(c)'
<1> USE DEF TypeOK, CallsInPlace, AnswerTypes
<1>1. WorkInPlace(c)'
  BY DEF Unlock, Leaves, Goto, WorkInPlace
<1>2. CASE reply[c] # NoReply
  <2>1. pc'[c] = "idle" /\ reply'[c] = NoReply
    BY <1>2 DEF Unlock, Leaves, Goto
  <2>2. out'[c] = <<>>
    BY <1>2 DEF Unlock, Leaves
  <2> QED BY <1>1, <2>1, <2>2 DEF AnswerInPlace
<1>3. CASE reply[c] = NoReply
  <2>1. pc[c] = "unlock" /\ pc'[c] = "resolve" /\ reply'[c] = NoReply
    BY <1>3 DEF Unlock, Leaves, Goto
  <2>2. UNCHANGED <<req[c], out[c]>>
    BY <1>3 DEF Unlock, Leaves
  <2>3. IsBatch(req[c])
    BY <1>3, <2>1 DEF AnswerInPlace, BatchTables
  <2> QED BY <1>1, <2>1, <2>2, <2>3 DEF AnswerInPlace
<1> QED BY <1>1, <1>2, <1>3

(* Every step keeps the calls in place.                                    *)
LEMMA NextCalls == TypeOK /\ LockInv /\ CallsInPlace /\ [Next]_vars => CallsInPlace'
<1> SUFFICES ASSUME TypeOK, LockInv, CallsInPlace, [Next]_vars
             PROVE  CallsInPlace'
  OBVIOUS
<1>1. ASSUME UNCHANGED calls, created \subseteq created'
      PROVE  CallsInPlace'
  <2>1. AnswerTypes'
    BY <1>1 DEF CallsInPlace, AnswerTypes, calls
  <2>2. \A c \in Clients : UNCHANGED CallAt(c)
    BY <1>1 DEF calls, CallAt
  <2> QED BY <1>1, <2>1, <2>2, CallStays DEF CallsInPlace
<1>2. CASE UNCHANGED vars
  BY <1>1, <1>2 DEF vars
<1>3. CASE \E t \in Tables : CreateTable(t)
  BY <1>1, <1>3 DEF CreateTable
<1>4. ASSUME NEW c \in Clients,
             \/ Step(c)
             \/ \E r \in Request : Call(c, r)
             \/ \E t \in Tables : Lock(c, t)
      PROVE  CallsInPlace'
  <2>1. AnswerTypes' /\ UNCHANGED created /\ \A d \in Clients \ {c} : UNCHANGED CallAt(d)
    BY <1>4, StepIsLocal DEF CallsInPlace
  <2>2. \A d \in Clients \ {c} : AnswerInPlace(d)' /\ WorkInPlace(d)'
    BY <2>1, CallStays DEF CallsInPlace
  <2>3. CASE \E t \in Tables : Lock(c, t) \/ LockGranted(c, t) \/ RLock(c, t)
    BY <1>1, <2>3 DEF Lock, LockGranted, RLock
  <2>4. CASE \/ \E r \in Request : Call(c, r)
             \/ Resolve(c)
             \/ \E t \in Tables : ResolveBatch(c, t)
    BY <2>1, <2>2, <2>4, CallIsPlaced DEF CallsInPlace
  <2>5. CASE Enter(c) \/ Read(c) \/ CheckOne(c) \/ CheckAll(c) \/ Write(c) \/ Done(c)
    BY <2>1, <2>2, <2>5, BodyIsPlaced DEF CallsInPlace
  <2>6. CASE Unlock(c)
    BY <2>1, <2>2, <2>6, ReturnIsPlaced DEF CallsInPlace
  <2> QED BY <1>4, <2>3, <2>4, <2>5, <2>6 DEF Step
<1> QED BY <1>2, <1>3, <1>4 DEF Next

(* A call has its answer exactly when it is decided, keeps what a batch has *)
(* read, and has all its work before it until it starts to read or write.  *)
THEOREM CallsStayInPlace == Spec => []CallsInPlace
<1>1. Init => TypeOK /\ LockInv /\ CallsInPlace
  BY InitType, InitLocks, InitCalls
<1>2. TypeOK /\ LockInv /\ CallsInPlace /\ [Next]_vars => (TypeOK /\ LockInv /\ CallsInPlace)'
  BY NextType, NextLocks, NextCalls
<1> QED BY <1>1, <1>2, PTL DEF Spec

(* A call that locks one table before another names it before the other,   *)
(* and is no batch.                                                        *)
LEMMA LocksAsNamed ==
  ASSUME TypeOK, CallsInPlace, NEW c \in Clients, NEW t \in Tables, NEW u \in Tables,
         pc[c] = "lock", LocksBefore(c, t, u)
  PROVE  req[c] \in Request /\ ~IsBatch(req[c]) /\ NamesBefore(req[c].ops, t, u)
<1>1. req[c] \in Request /\ WorkInPlace(c) /\ work[c] \in Seq(Op)
  BY DEF TypeOK, CallsInPlace
<1>2. PICK i \in DOMAIN work[c] : work[c][i].table = t /\ \A j \in 1..i : work[c][j].table # u
  BY DEF LocksBefore
<1>3. PICK k \in DOMAIN work[c] : work[c][k].table = u
  BY DEF LocksBefore, Needs
<1>4. CASE IsBatch(req[c])
  <2>1. PICK b \in BatchTables(req[c]) : work[c] = req[c].ops[b]
    BY <1>1, <1>4 DEF WorkInPlace
  <2>2. \A j \in DOMAIN work[c] : work[c][j].table = b
    BY <1>1, <1>4, <2>1, RequestOps DEF BatchTables
  <2>3. i \in 1..i
    BY <1>1
  <2> QED BY <1>2, <1>3, <2>2, <2>3
<1>5. CASE ~IsBatch(req[c])
  BY <1>1, <1>2, <1>3, <1>5 DEF WorkInPlace, NamesBefore
<1> QED BY <1>1, <1>4, <1>5

(* Ranks that increase from table to table cannot come back in a circle.   *)
LEMMA NoCircleOfRanks ==
  ASSUME NEW N \in Nat, NEW rank \in [Tables -> 0..N],
         NEW Circle \in SUBSET Tables, Circle # {}
  PROVE  \E t \in Circle : \A u \in Circle : ~(rank[t] < rank[u])
<1> DEFINE Heights == {N - rank[t] : t \in Circle}
<1>1. Heights \subseteq Nat /\ Heights # {}
  OBVIOUS
<1>2. PICK h \in Heights : \A g \in Heights : h <= g
  <2> HIDE DEF Heights
  <2> QED BY <1>1, SmallestOf
<1>3. PICK t \in Circle : h = N - rank[t]
  OBVIOUS
<1>4. \A u \in Circle : ~(rank[t] < rank[u])
  <2> TAKE u \in Circle
  <2>1. N - rank[u] \in Heights
    OBVIOUS
  <2>2. h <= N - rank[u]
    BY <1>2, <2>1
  <2> QED BY <1>3, <2>2
<1> QED BY <1>3, <1>4

(* Callers never block each other when there is one order of the tables    *)
(* in which every request that is no batch names them: a batch, which      *)
(* locks one table at a time, may name its own in any order.               *)
THEOREM OrderedCallsNeverBlock ==
  ASSUME NEW N \in Nat, NEW rank \in [Tables -> 0..N], TablesInOrder(rank)
  PROVE  Spec => []NoDeadlock
<1>1. ASSUME TypeOK, LockInv, LocksInOrder, CallsInPlace
      PROVE  NoDeadlock
  <2> SUFFICES ASSUME NEW Stuck \in SUBSET Clients, Deadlocked(Stuck)
               PROVE  FALSE
    BY DEF NoDeadlock
  <2>1. PICK Circle \in (SUBSET Tables) \ {{}} :
          \A t \in Circle : \E u \in Circle, c \in Stuck :
            pc[c] = "lock" /\ LocksBefore(c, t, u)
    BY <1>1, BlockedCircle
  <2>2. \A t \in Circle : \E u \in Circle : rank[t] < rank[u]
    BY <1>1, <2>1, LocksAsNamed DEF TablesInOrder
  <2>3. PICK t \in Circle : \A u \in Circle : ~(rank[t] < rank[u])
    BY NoCircleOfRanks
  <2> QED BY <2>2, <2>3
<1>2. Init => TypeOK /\ LockInv /\ LocksInOrder /\ CallsInPlace
  BY InitType, InitLocks, InitOrder, InitCalls
<1>3. TypeOK /\ LockInv /\ LocksInOrder /\ CallsInPlace /\ [Next]_vars
        => (TypeOK /\ LockInv /\ LocksInOrder /\ CallsInPlace)'
  BY NextType, NextLocks, NextOrder, NextCalls
<1> QED BY <1>1, <1>2, <1>3, PTL DEF Spec

===============================================================================
