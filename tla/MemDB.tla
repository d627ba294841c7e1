-------------------------------- MODULE MemDB ---------------------------------
(***************************************************************************)
(* The in-memory backend (MemoryBackend of memdb/memdb.go) under           *)
(* concurrent callers.  Every operation resolves the tables it names,      *)
(* takes their RWMutexes one after the other in the order of the request,  *)
(* runs one item operation at a time and releases them all on return.  The *)
(* batch operations do so for one table after the other, in whatever order *)
(* the runtime walks the map of the request.                               *)
(*                                                                         *)
(* An RWMutex is modelled as Go implements it: Lock first announces the    *)
(* writer, which stops new readers, and then waits for the readers inside; *)
(* a reader that arrives meanwhile queues and is let in by Unlock.         *)
(***************************************************************************)
EXTENDS MemRequests

CONSTANTS
  Clients,   \* goroutines that call the backend
  NoClient,
  NoReq

ASSUME ClientAssumption ==
  /\ NoClient \notin Clients
  /\ NoReq \notin Request

VARIABLES
  created,   \* the tables that exist (m.tables)
  db,        \* the data of each table
  readers,   \* the clients inside each table's read lock
  queued,    \* the readers waiting for a writer to leave
  writer,    \* the client that announced Lock, or NoClient
  active,    \* whether that writer is inside
  pc,        \* where each client is in its call
  req,       \* the request it is serving
  work,      \* item operations it has yet to do under the current locks
  later,     \* tables of a batch it has not reached
  out,       \* the items it has read
  reply      \* what the call returns

locks == <<readers, queued, writer, active>>
calls == <<pc, req, work, later, out, reply>>
vars  == <<created, db, locks, calls>>

-------------------------------------------------------------------------------
Init ==
  /\ created = {}
  /\ db      = [t \in Tables |-> NewTable]
  /\ readers = [t \in Tables |-> {}]
  /\ queued  = [t \in Tables |-> {}]
  /\ writer  = [t \in Tables |-> NoClient]
  /\ active  = [t \in Tables |-> FALSE]
  /\ pc      = [c \in Clients |-> "idle"]
  /\ req     = [c \in Clients |-> NoReq]
  /\ work    = [c \in Clients |-> <<>>]
  /\ later   = [c \in Clients |-> {}]
  /\ out     = [c \in Clients |-> <<>>]
  /\ reply   = [c \in Clients |-> NoReply]

(* CreateTable: a second call for the same name panics.                    *)
CreateTable(t) ==
  /\ t \notin created
  /\ created' = created \cup {t}
  /\ UNCHANGED <<db, locks, calls>>

Goto(c, label) == pc' = [pc EXCEPT ![c] = label]

(* The call is decided: what is left is to release the locks and return.   *)
Finish(c, r) ==
  /\ Goto(c, "unlock")
  /\ reply' = [reply EXCEPT ![c] = r]

(* The work under the current locks is done; a batch may have more tables. *)
Complete(c, items) ==
  Finish(c, IF later[c] = {} THEN Answer("ok", items) ELSE NoReply)

-------------------------------------------------------------------------------
(* Entering a call.                                                        *)

Call(c, r) ==
  /\ pc[c] = "idle"
  /\ Goto(c, "resolve")
  /\ req' = [req EXCEPT ![c] = r]
  /\ later' = [later EXCEPT ![c] = BatchTables(r)]
  /\ UNCHANGED <<created, db, locks, work, out, reply>>

(* Resolve all tables up front.  Tables are never dropped, so looking them *)
(* up one by one fails exactly when one of them is missing at some lookup. *)
Resolve(c) ==
  /\ pc[c] = "resolve"
  /\ ~IsBatch(req[c])
  /\ IF TooMany(req[c]) \/ \E i \in DOMAIN req[c].ops : req[c].ops[i].table \notin created
     THEN /\ Finish(c, Answer("invalid", <<>>))
          /\ UNCHANGED work
     ELSE /\ Goto(c, "lock")
          /\ work' = [work EXCEPT ![c] = req[c].ops]
          /\ UNCHANGED reply
  /\ UNCHANGED <<created, db, locks, req, later, out>>

(* The next table of a batch.                                              *)
ResolveBatch(c, t) ==
  /\ pc[c] = "resolve"
  /\ IsBatch(req[c])
  /\ t \in later[c]
  /\ IF TooMany(req[c]) \/ t \notin created
     THEN /\ Finish(c, Answer("invalid", <<>>))
          /\ UNCHANGED <<work, later>>
     ELSE /\ Goto(c, "lock")
          /\ work' = [work EXCEPT ![c] = req[c].ops[t]]
          /\ later' = [later EXCEPT ![c] = @ \ {t}]
          /\ UNCHANGED reply
  /\ UNCHANGED <<created, db, locks, req, out>>

-------------------------------------------------------------------------------
(* The table locks.                                                        *)

Holds(c, t) == c \in readers[t] \/ (writer[t] = c /\ active[t])

(* A faulty AllHeld: only the first table is waited for.                   *)
FirstHeld(c) == Holds(c, Head(work[c]).table)

AllHeld(c) == \A i \in DOMAIN work[c] : Holds(c, work[c][i].table)

(* A faulty Wants: the tables are locked in any order.                     *)
WantsAnyOrder(c, t) ==
  ~Holds(c, t) /\ \E i \in DOMAIN work[c] : work[c][i].table = t

(* The tables are locked in the order the request first names them.        *)
Wants(c, t) ==
  \E i \in DOMAIN work[c] :
    /\ work[c][i].table = t
    /\ ~Holds(c, t)
    /\ \A j \in 1..(i - 1) : Holds(c, work[c][j].table)

(* Lock: take the writers' mutex and keep new readers out ...              *)
Lock(c, t) ==
  /\ pc[c] = "lock" /\ IsWrite(req[c])
  /\ Wants(c, t)
  /\ writer[t] = NoClient
  /\ writer' = [writer EXCEPT ![t] = c]
  /\ UNCHANGED <<created, db, readers, queued, active, calls>>

(* A faulty LockGranted: the readers inside are not waited for.            *)
LockGrantedEarly(c, t) ==
  /\ writer[t] = c /\ ~active[t]
  /\ active' = [active EXCEPT ![t] = TRUE]
  /\ UNCHANGED <<created, db, readers, queued, writer, calls>>

(* ... and wait for the readers inside to leave.                           *)
LockGranted(c, t) ==
  /\ writer[t] = c /\ ~active[t]
  /\ readers[t] = {}
  /\ active' = [active EXCEPT ![t] = TRUE]
  /\ UNCHANGED <<created, db, readers, queued, writer, calls>>

(* RLock: enter, or queue behind the announced writer, whose Unlock makes  *)
(* a reader of whoever is queued.                                          *)
RLock(c, t) ==
  /\ pc[c] = "lock" /\ ~IsWrite(req[c])
  /\ Wants(c, t)
  /\ c \notin queued[t]
  /\ IF writer[t] = NoClient
     THEN readers' = [readers EXCEPT ![t] = @ \cup {c}] /\ UNCHANGED queued
     ELSE queued' = [queued EXCEPT ![t] = @ \cup {c}] /\ UNCHANGED readers
  /\ UNCHANGED <<created, db, writer, active, calls>>

(* A faulty Enter: nothing is checked before it is written.                *)
EnterUnchecked(c) ==
  /\ pc[c] = "lock"
  /\ AllHeld(c)
  /\ Goto(c, IF IsWrite(req[c]) THEN "apply" ELSE "read")
  /\ UNCHANGED <<created, db, locks, req, work, later, out, reply>>

(* All locks are held.  A transaction first checks its conditions.         *)
Enter(c) ==
  /\ pc[c] = "lock"
  /\ AllHeld(c)
  /\ Goto(c, CASE req[c].type \in {"write", "txwrite"} -> "check"
               [] req[c].type = "batchwrite"          -> "apply"
               [] ~IsWrite(req[c])                    -> "read")
  /\ UNCHANGED <<created, db, locks, req, work, later, out, reply>>

(* A faulty Leaves: the early return at a bad key forgets the unlock.      *)
LeavesUnlessBad(c, t) == writer[t] = c /\ (reply[c] = NoReply \/ reply[c].status # "invalid")

(* The write locks that an unlock releases.                                *)
Leaves(c, t) == writer[t] = c

(* The deferred unlocks, then the return or the next table of the batch.   *)
Unlock(c) ==
  LET leaves(t)  == Leaves(c, t)
      returns    == reply[c] # NoReply
  IN  /\ pc[c] = "unlock"
      /\ readers' = [t \in Tables |-> (readers[t] \ {c}) \cup
                                        (IF leaves(t) THEN queued[t] ELSE {})]
      /\ queued' = [t \in Tables |-> IF leaves(t) THEN {} ELSE queued[t]]
      /\ writer' = [t \in Tables |-> IF leaves(t) THEN NoClient ELSE writer[t]]
      /\ active' = [t \in Tables |-> active[t] /\ ~leaves(t)]
      /\ Goto(c, IF returns THEN "idle" ELSE "resolve")
      /\ req' = [req EXCEPT ![c] = IF returns THEN NoReq ELSE @]
      /\ out' = [out EXCEPT ![c] = IF returns THEN <<>> ELSE @]
      /\ later' = [later EXCEPT ![c] = IF returns THEN {} ELSE @]
      /\ work' = [work EXCEPT ![c] = <<>>]
      /\ reply' = [reply EXCEPT ![c] = NoReply]
      /\ UNCHANGED <<created, db>>

-------------------------------------------------------------------------------
(* The bodies, one item operation at a time.                               *)

(* A read of one key.  A batch leaves out the items it does not find, the  *)
(* other reads return the empty item for them.                             *)
Read(c) ==
  /\ pc[c] = "read" /\ work[c] # <<>>
  /\ LET op    == Head(work[c])
         k     == KeyOf(SchemaOf[op.table].key, op.item)
         items == db[op.table].items
     IN  \/ /\ k = NoKey
            /\ Finish(c, Answer("invalid", <<>>))
            /\ UNCHANGED <<work, out>>
         \/ /\ k # NoKey
            /\ out' = [out EXCEPT ![c] =
                 IF req[c].type = "batchget" /\ k \notin DOMAIN items THEN @
                 ELSE Append(@, Lookup(items, k))]
            /\ work' = [work EXCEPT ![c] = Tail(@)]
            /\ UNCHANGED <<pc, reply>>
  /\ UNCHANGED <<created, db, locks, req, later>>

(* PutItem, DeleteItem and UpdateItem need a key before they look at the   *)
(* condition; a transaction asks for one only where there is a condition.  *)
CheckOne(c) ==
  LET op      == Head(work[c])
      verdict == IF KeyOf(SchemaOf[op.table].key, op.item) = NoKey THEN "invalid"
                 ELSE Check(SchemaOf[op.table], db[op.table], op)
  IN  /\ pc[c] = "check" /\ req[c].type = "write"
      /\ \/ verdict = "true" /\ Goto(c, "apply") /\ UNCHANGED reply
         \/ verdict = "false" /\ Finish(c, Answer("condition failed", <<>>))
         \/ verdict \in {"invalid", "error"} /\ Finish(c, Answer(verdict, <<>>))
      /\ UNCHANGED <<created, db, locks, req, work, later, out>>

(* The first pass of TransactWriteItems: an operation that cannot be       *)
(* checked ends it, otherwise the reasons of all operations are gathered.  *)
CheckAll(c) ==
  LET ops        == work[c]
      verdict(i) == Check(SchemaOf[ops[i].table], db[ops[i].table], ops[i])
      broken     == {i \in DOMAIN ops : verdict(i) \in {"invalid", "error"}}
      failed     == [i \in DOMAIN ops |-> verdict(i) = "false"]
  IN  /\ pc[c] = "check" /\ req[c].type = "txwrite"
      /\ \/ /\ broken # {}
            /\ Finish(c, Answer(verdict(Min(broken)), <<>>))
         \/ /\ broken = {} /\ \E i \in DOMAIN ops : failed[i]
            /\ Finish(c, Answer("cancelled", failed))
         \/ /\ broken = {} /\ \A i \in DOMAIN ops : ~failed[i]
            /\ Goto(c, "apply")
            /\ UNCHANGED reply
      /\ UNCHANGED <<created, db, locks, req, work, later, out>>

(* One write.  One that is refused ends the call, whatever was written     *)
(* before it: there is no undo.                                            *)
Write(c) ==
  /\ pc[c] = "apply" /\ work[c] # <<>>
  /\ LET op      == Head(work[c])
         schema  == SchemaOf[op.table]
         verdict == Verdict(schema, db[op.table], op)
     IN  \/ /\ verdict # "ok"
            /\ Finish(c, Answer(verdict, <<>>))
            /\ UNCHANGED <<db, work>>
         \/ /\ verdict = "ok"
            /\ db' = [db EXCEPT ![op.table] = Apply(schema, @, op)]
            /\ work' = [work EXCEPT ![c] = Tail(@)]
            /\ UNCHANGED <<pc, reply>>
  /\ UNCHANGED <<created, locks, req, later, out>>

(* Nothing is left to do under the locks.                                  *)
Done(c) ==
  /\ pc[c] \in {"read", "apply"} /\ work[c] = <<>>
  /\ Complete(c, out[c])
  /\ UNCHANGED <<created, db, locks, req, work, later, out>>

-------------------------------------------------------------------------------
Step(c) ==
  \/ Resolve(c) \/ Enter(c) \/ Unlock(c)
  \/ Read(c) \/ CheckOne(c) \/ CheckAll(c) \/ Write(c) \/ Done(c)
  \/ \E t \in Tables : ResolveBatch(c, t) \/ LockGranted(c, t) \/ RLock(c, t)

Next ==
  \/ \E t \in Tables : CreateTable(t)
  \/ \E c \in Clients :
       \/ Step(c)
       \/ \E r \in Request : Call(c, r)
       \/ \E t \in Tables : Lock(c, t)

(* A goroutine that can run does.  Lock is strongly fair: a goroutine that *)
(* has waited for a sync.Mutex long enough is handed it before newcomers.  *)
Fairness ==
  /\ \A c \in Clients : WF_vars(Step(c))
  /\ \A c \in Clients, t \in Tables : SF_vars(Lock(c, t))

Spec == Init /\ [][Next]_vars /\ Fairness

-------------------------------------------------------------------------------
(* Types and locks.                                                        *)

TypeOK ==
  /\ created \subseteq Tables
  /\ db = [t \in Tables |-> db[t]]
  /\ \A t \in Tables : IsTable(db[t])
  /\ readers \in [Tables -> SUBSET Clients]
  /\ queued \in [Tables -> SUBSET Clients]
  /\ writer \in [Tables -> Clients \cup {NoClient}]
  /\ active \in [Tables -> BOOLEAN]
  /\ pc \in [Clients -> {"idle", "resolve", "lock", "check", "read", "apply", "unlock"}]
  /\ req \in [Clients -> Request \cup {NoReq}]
  /\ work \in [Clients -> Seq(Op)]
  /\ later \in [Clients -> SUBSET Tables]
  /\ \A c \in Clients :
       pc[c] # "idle" => req[c] \in Request /\ later[c] \subseteq BatchTables(req[c])

(* What each client may hold, by where it is in its call.  This is what    *)
(* makes a body alone with the tables it writes.                           *)
Needs(c, t) == \E i \in DOMAIN work[c] : work[c][i].table = t

WritersAlone ==
  \A t \in Tables :
    /\ active[t] => writer[t] # NoClient /\ readers[t] = {}
    /\ queued[t] # {} => writer[t] # NoClient
    /\ queued[t] \cap readers[t] = {}

BodiesHold ==
  \A c \in Clients :
    /\ pc[c] = "check" => req[c].type \in {"write", "txwrite"}
    /\ pc[c] = "apply" => IsWrite(req[c])
    /\ pc[c] = "read" => ~IsWrite(req[c])
    /\ pc[c] \in {"check", "apply", "read"} => AllHeld(c)

ReadersInPlace ==
  \A c \in Clients, t \in Tables : c \in readers[t] \cup queued[t] =>
    /\ pc[c] \in {"lock", "read", "unlock"}
    /\ ~IsWrite(req[c])
    /\ pc[c] = "lock" => Needs(c, t)
    /\ c \in queued[t] => pc[c] = "lock"

WritersInPlace ==
  \A c \in Clients, t \in Tables : writer[t] = c =>
    /\ pc[c] \in {"lock", "check", "apply", "unlock"}
    /\ IsWrite(req[c])
    /\ pc[c] = "lock" => Needs(c, t)
    /\ pc[c] # "lock" => active[t]

LockInv == WritersAlone /\ BodiesHold /\ ReadersInPlace /\ WritersInPlace

(* A table's data changes only in a step of the one client that is inside  *)
(* its write lock with nobody reading: the steps of a read, of a condition *)
(* check or of a transaction's writes never see another client's writes in *)
(* between (memdb.go:1207 and 1252).                                       *)
WrittenAlone ==
  [][\A t \in Tables : db'[t] # db[t] =>
       /\ active[t] /\ readers[t] = {}
       /\ \A c \in Clients :
            Holds(c, t) => pc[c] = "apply" /\ work'[c] = Tail(work[c])]_vars

(* Each index holds a copy of exactly the items that have its key          *)
(* attributes, under their index keys, whatever sequence of writes led     *)
(* there (updateGSIs after every store and delete).                        *)
GSIAgrees ==
  \A t \in Tables, g \in Index :
    IndexAgrees(SchemaOf[t].gsis[g], db[t].items, db[t].gsis[g])

(* The conditions under which an index is unambiguous: its key attributes  *)
(* include those of its table, and no update changes a key attribute.      *)
IndexesCoverKeys ==
  \A t \in Tables, g \in Index : Covers(SchemaOf[t].gsis[g], SchemaOf[t].key)

UpdatesKeepKeys ==
  \A op \in Op, item \in Item :
    LET new == EvalUpdate(op.upd, item)
        key == SchemaOf[op.table].key
    IN  op.kind = "update" => new = Err \/ KeyOf(key, new) = KeyOf(key, item)

(* The callers' wait-for relation at the lock of a table: a writer waits    *)
(* for the writer before it and for the readers inside, a queued reader    *)
(* for the announced writer.                                               *)
WaitsAt(c, d, t) ==
  \/ c \in queued[t] /\ d = writer[t]
  \/ writer[t] = c /\ d \in readers[t]
  \/ /\ pc[c] = "lock" /\ IsWrite(req[c]) /\ Wants(c, t)
     /\ d = writer[t] /\ d # c

WaitsFor(c, d) == \E t \in Tables : WaitsAt(c, d, t)

Deadlocked(S) == S # {} /\ \A c \in S : \E d \in S : WaitsFor(c, d)

LocksBefore(c, t, u) ==
  \E i \in DOMAIN work[c] :
    /\ work[c][i].table = t
    /\ Needs(c, u)
    /\ \A j \in 1..i : work[c][j].table # u

(* Callers wait for each other in a circle only if the orders in which     *)
(* their requests name the tables form a circle too.  In particular two    *)
(* snapshot reads in opposite orders deadlock once a writer waits on each  *)
(* of their tables, although read locks are shared.                        *)
DeadlocksAreCrossed ==
  \A Stuck \in SUBSET Clients :
    Deadlocked(Stuck) =>
      \E Circle \in (SUBSET Tables) \ {{}} :
        \A t \in Circle : \E u \in Circle, c \in Stuck : LocksBefore(c, t, u)

(* The requests that are no batches name their tables in one order, which  *)
(* the ranks of the tables give; a batch locks one table at a time.        *)
NamesBefore(ops, t, u) ==
  \E i, k \in DOMAIN ops :
    /\ ops[i].table = t /\ ops[k].table = u
    /\ \A j \in 1..i : ops[j].table # u

TablesInOrder(rank) ==
  \A r \in Request : ~IsBatch(r) =>
    \A t, u \in Tables : NamesBefore(r.ops, t, u) => rank[t] < rank[u]

(* No set of callers blocks each other.  True when every request names its *)
(* tables in one global order.                                             *)
NoDeadlock == \A Stuck \in SUBSET Clients : ~Deadlocked(Stuck)

(* Every call returns: no set of callers blocks each other for ever.  True *)
(* when every request names its tables in one global order.                *)
EveryCallReturns == \A c \in Clients : (pc[c] # "idle") ~> (pc[c] = "idle")

===============================================================================
