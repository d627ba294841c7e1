----------------------------- MODULE AtomicStore ------------------------------
(***************************************************************************)
(* What the backend promises its callers: each call takes effect at one    *)
(* instant between its start and its return, and a transaction's writes    *)
(* happen together or not at all.  A batch is one such instant for each    *)
(* table it names, and a write of a batch that is refused leaves the       *)
(* earlier ones in place.  There are no locks and nobody ever waits.       *)
(***************************************************************************)
EXTENDS AtomicOps

CONSTANTS Clients, NoReq

VARIABLES
  created,  \* the tables that exist
  db,       \* their data
  pc,       \* "idle", "called" or "done"
  req,      \* the request of each client's call
  later,    \* the tables a batch has still to reach
  out,      \* the items read
  reply     \* the outcome

vars == <<created, db, pc, req, later, out, reply>>

-------------------------------------------------------------------------------
Init ==
  /\ created = {}
  /\ db    = [t \in Tables |-> NewTable]
  /\ pc    = [c \in Clients |-> "idle"]
  /\ req   = [c \in Clients |-> NoReq]
  /\ later = [c \in Clients |-> {}]
  /\ out   = [c \in Clients |-> <<>>]
  /\ reply = [c \in Clients |-> NoReply]

CreateTable(t) ==
  /\ created' = created \cup {t}
  /\ UNCHANGED <<db, pc, req, later, out, reply>>

Call(c, r) ==
  /\ pc[c] = "idle"
  /\ pc' = [pc EXCEPT ![c] = "called"]
  /\ req' = [req EXCEPT ![c] = r]
  /\ later' = [later EXCEPT ![c] = BatchTables(r)]
  /\ UNCHANGED <<created, db, out, reply>>

Finish(c, r) ==
  /\ pc' = [pc EXCEPT ![c] = "done"]
  /\ reply' = [reply EXCEPT ![c] = r]
  /\ later' = [later EXCEPT ![c] = {}]
  /\ out' = [out EXCEPT ![c] = <<>>]
  /\ UNCHANGED <<created, req>>

Named(c) ==
  IF IsBatch(req[c]) THEN later[c] ELSE {req[c].ops[i].table : i \in DOMAIN req[c].ops}

(* A call that is rejected has no effect.                                  *)
Reject(c) ==
  /\ pc[c] = "called"
  /\ TooMany(req[c]) \/ ~(Named(c) \subseteq created)
  /\ Finish(c, Answer("invalid", <<>>))
  /\ UNCHANGED db

(* All operations of a call that is not a batch, at once: all the reads,   *)
(* or all the writes, or none.                                             *)
Perform(c) ==
  LET checked == Conditions(db, req[c])
      done    == Executed(req[c].type, db, <<>>, req[c].ops)
  IN  /\ pc[c] = "called" /\ ~IsBatch(req[c])
      /\ ~TooMany(req[c]) /\ Named(c) \subseteq created
      /\ \/ /\ ~IsWrite(req[c])
            /\ Finish(c, Result(done))
            /\ UNCHANGED db
         \/ /\ IsWrite(req[c]) /\ checked.status # "ok"
            /\ Finish(c, checked)
            /\ UNCHANGED db
         \/ /\ IsWrite(req[c]) /\ checked.status = "ok"
            /\ Finish(c, Result(done))
            /\ db' = IF done.verdict = "ok" THEN done.db ELSE db

(* One table of a batch.                                                   *)
PerformBatch(c, t) ==
  LET done == Executed(req[c].type, db, out[c], req[c].ops[t])
  IN  /\ pc[c] = "called" /\ IsBatch(req[c]) /\ ~TooMany(req[c])
      /\ t \in later[c] /\ t \in created
      /\ db' = IF IsWrite(req[c]) THEN done.db ELSE db
      /\ \/ /\ done.verdict # "ok" \/ later[c] = {t}
            /\ Finish(c, Result(done))
         \/ /\ done.verdict = "ok" /\ later[c] # {t}
            /\ out' = [out EXCEPT ![c] = done.items]
            /\ later' = [later EXCEPT ![c] = @ \ {t}]
            /\ UNCHANGED <<created, pc, req, reply>>

Return(c) ==
  /\ pc[c] = "done"
  /\ pc' = [pc EXCEPT ![c] = "idle"]
  /\ req' = [req EXCEPT ![c] = NoReq]
  /\ reply' = [reply EXCEPT ![c] = NoReply]
  /\ UNCHANGED <<created, db, later, out>>

Next ==
  \/ \E t \in Tables : CreateTable(t)
  \/ \E c \in Clients :
       \/ \E r \in Request : Call(c, r)
       \/ Reject(c) \/ Perform(c) \/ Return(c)
       \/ \E t \in Tables : PerformBatch(c, t)

Spec == Init /\ [][Next]_vars

===============================================================================
