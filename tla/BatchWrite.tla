------------------------------ MODULE BatchWrite -------------------------------
(***************************************************************************)
(* BatchPut and BatchDelete (executeBatchWrite of batch.go): one call that *)
(* cuts its write requests into chunks and sends them concurrently, under  *)
(* an errgroup with a limit.  The writes that the backend leaves out of a  *)
(* chunk are sent again after a pause, a limited number of times; the      *)
(* first error of a chunk cancels the context the others run under, and    *)
(* each chunk that is through reports the progress made.                   *)
(*                                                                         *)
(* A write is its position in the request; two writes to one key matter    *)
(* only by which of them comes last.  The backend carries out the writes   *)
(* of a chunk one by one, may leave some out, and may fail halfway, also   *)
(* because the context is cancelled.  A context that is cancelled need not *)
(* stop it: the in-memory backend never looks at it.                       *)
(***************************************************************************)
EXTENDS Integers, Sequences, FiniteSets

CONSTANTS
  Requests,    \* the key that each write request is for
  ChunkSize,   \* maxBatchWriteItems: 25 in the code
  MaxRetries,  \* maxRetries: 5
  Asked,       \* the arguments of MaxConcurrency
  NoWrite      \* what a key holds that was not written

Writes == DOMAIN Requests

Keys == {Requests[i] : i \in Writes}

ASSUME BatchAssumption ==
  /\ Requests \in Seq(Keys)
  /\ ChunkSize \in Nat \ {0}
  /\ MaxRetries \in Nat
  /\ Asked \subseteq Int
  /\ NoWrite \notin Writes

VARIABLES
  limit,      \* how many chunks may be under way
  started,    \* how many have been started
  pc,         \* where each chunk is
  pending,    \* its writes that are not yet carried out
  attempt,    \* how often it was sent again
  cancelled,  \* whether the context of the group is cancelled
  err,        \* the first error
  completed,  \* the writes of the chunks that are through
  count,      \* the value each chunk read of it
  reports,    \* the values that OnProgress was called with
  stored,     \* the write that each key holds
  result      \* what the call returned

group    == <<limit, started, pc, pending, attempt>>
failure  == <<cancelled, err>>
progress == <<completed, count, reports>>
vars     == <<group, failure, progress, stored, result>>

-------------------------------------------------------------------------------
(* chunkWriteRequests.                                                     *)
Chunks == 1..((Len(Requests) + ChunkSize - 1) \div ChunkSize)

Chunk(n) == {i \in Writes : (n - 1) * ChunkSize < i /\ i <= n * ChunkSize}

(* DynamoDB refuses a chunk with two writes to one key, and the in-memory  *)
(* backend leaves out none of them.                                        *)
Distinct(n) == \A i, j \in Chunk(n) : Requests[i] = Requests[j] => i = j

Init ==
  /\ limit \in {IF n < 1 THEN 1 ELSE n : n \in Asked}
  /\ started = 0
  /\ pc = [n \in Chunks |-> "new"]
  /\ pending = [n \in Chunks |-> Chunk(n)]
  /\ attempt = [n \in Chunks |-> 0]
  /\ cancelled = FALSE
  /\ err = "nil"
  /\ completed = 0
  /\ count = [n \in Chunks |-> 0]
  /\ reports = {}
  /\ stored = [k \in Keys |-> NoWrite]
  /\ result = "running"

Goto(n, label) == pc' = [pc EXCEPT ![n] = label]

(* The caller's context ends.                                              *)
Cancel ==
  /\ ~cancelled /\ result = "running"
  /\ cancelled' = TRUE
  /\ UNCHANGED <<group, err, progress, stored, result>>

(* An item of a BatchPut cannot be marshalled: nothing is sent at all.     *)
MarshalFails ==
  /\ result = "running" /\ started = 0 /\ Writes # {}
  /\ result' = "invalid"
  /\ UNCHANGED <<group, failure, progress, stored>>

UnderWay == {n \in Chunks : pc[n] \notin {"new", "done"}}

(* A faulty Start: the group has no limit.                                 *)
StartAtOnce ==
  /\ result = "running" /\ started + 1 \in Chunks
  /\ started' = started + 1
  /\ Goto(started + 1, "send")
  /\ UNCHANGED <<limit, pending, attempt, failure, progress, stored, result>>

(* g.Go for the next chunk, whether or not one has failed.                 *)
Start ==
  /\ result = "running" /\ started + 1 \in Chunks
  /\ Cardinality(UnderWay) < limit
  /\ started' = started + 1
  /\ Goto(started + 1, "send")
  /\ UNCHANGED <<limit, pending, attempt, failure, progress, stored, result>>

(* The backend carries out a write, of those to one key the first.         *)
Write(n, i) ==
  /\ pc[n] = "send"
  /\ i \in pending[n]
  /\ \A j \in pending[n] : Requests[j] = Requests[i] => i <= j
  /\ stored' = [stored EXCEPT ![Requests[i]] = i]
  /\ pending' = [pending EXCEPT ![n] = @ \ {i}]
  /\ UNCHANGED <<limit, started, pc, attempt, failure, progress, result>>

(* The chunk's goroutine returns an error.                                 *)
Fail(n, e) ==
  /\ Goto(n, "done")
  /\ err' = IF err = "nil" THEN e ELSE err
  /\ cancelled' = TRUE

(* A faulty Exhausted: after the last retry the rest is forgotten.         *)
ExhaustedSilently(n) == Goto(n, "count") /\ UNCHANGED failure

Exhausted(n) == Fail(n, "unprocessed")

(* A faulty PausesAgain: one retry too many.                               *)
PausesOnceMore(n) == attempt[n] <= MaxRetries

PausesAgain(n) == attempt[n] < MaxRetries

(* The backend answers.                                                    *)
Answer(n) ==
  /\ pc[n] = "send"
  /\ \/ pending[n] = {} /\ Goto(n, "count") /\ UNCHANGED failure
     \/ /\ pending[n] # {} /\ Distinct(n)
        /\ \/ PausesAgain(n) /\ Goto(n, "pause") /\ UNCHANGED failure
           \/ ~PausesAgain(n) /\ Exhausted(n)
     \/ Fail(n, "backend error")
  /\ UNCHANGED <<limit, started, pending, attempt, progress, stored, result>>

(* A faulty Counting: the retries are not counted.                         *)
NotCounting(n) == UNCHANGED attempt

Counting(n) == attempt' = [attempt EXCEPT ![n] = @ + 1]

(* The pause ends, or the context does.                                    *)
Resume(n) ==
  /\ pc[n] = "pause"
  /\ \/ /\ Goto(n, "send")
        /\ Counting(n)
        /\ UNCHANGED failure
     \/ cancelled /\ Fail(n, "context ended") /\ UNCHANGED attempt
  /\ UNCHANGED <<limit, started, pending, progress, stored, result>>

(* A faulty Counted: every chunk counts as a full one.                     *)
CountedFull(n) == ChunkSize

Counted(n) == Cardinality(Chunk(n))

(* Under the mutex, the chunk is counted ...                               *)
Count(n) ==
  /\ pc[n] = "count"
  /\ completed' = completed + Counted(n)
  /\ count' = [count EXCEPT ![n] = completed']
  /\ Goto(n, "report")
  /\ UNCHANGED <<limit, started, pending, attempt, failure, reports, stored, result>>

(* ... and outside it, OnProgress is called.                               *)
Report(n) ==
  /\ pc[n] = "report"
  /\ reports' = reports \cup {count[n]}
  /\ Goto(n, "done")
  /\ UNCHANGED <<limit, started, pending, attempt, failure, completed, count, stored, result>>

(* A faulty AllDone: an error ends the wait.                               *)
DoneOrFailed == err # "nil" \/ \A n \in Chunks : pc[n] = "done"

AllDone == \A n \in Chunks : pc[n] = "done"

(* g.Wait: every chunk has been started and has returned.                  *)
Wait ==
  /\ result = "running"
  /\ AllDone
  /\ result' = err
  /\ cancelled' = TRUE
  /\ UNCHANGED <<group, err, progress, stored>>

-------------------------------------------------------------------------------
Step(n) ==
  \/ Answer(n) \/ Resume(n) \/ Count(n) \/ Report(n)
  \/ \E i \in Writes : Write(n, i)

Next == Cancel \/ MarshalFails \/ Start \/ Wait \/ \E n \in Chunks : Step(n)

(* Goroutines run, a pause ends, and the backend answers.                  *)
Spec ==
  /\ Init /\ [][Next]_vars
  /\ WF_vars(Start) /\ WF_vars(Wait)
  /\ \A n \in Chunks : WF_vars(Step(n))

-------------------------------------------------------------------------------
TypeOK ==
  /\ limit \in Nat \ {0}
  /\ started \in 0..Len(Requests)
  /\ pc \in [Chunks -> {"new", "send", "pause", "count", "report", "done"}]
  /\ pending \in [Chunks -> SUBSET Writes]
  /\ attempt \in [Chunks -> 0..MaxRetries]
  /\ cancelled \in BOOLEAN
  /\ err \in {"nil", "backend error", "unprocessed", "context ended"}
  /\ completed \in 0..Len(Requests)
  /\ count \in [Chunks -> 0..Len(Requests)]
  /\ reports \subseteq 0..Len(Requests)
  /\ stored \in [Keys -> Writes \cup {NoWrite}]
  /\ result \in {"running", "nil", "invalid", "backend error", "unprocessed", "context ended"}

Written == {i \in Writes : \A n \in Chunks : i \notin pending[n]}

(* A call that returns no error has carried out every write, whatever was  *)
(* left out, sent again, refused or cancelled on the way.                  *)
NilMeansWritten == result = "nil" => Written = Writes

(* At the default limit of one chunk at a time, the last write to a key is *)
(* the one that stays, however the writes are spread over chunks and       *)
(* retries.                                                                *)
LastWriteStays ==
  limit = 1 /\ result = "nil" =>
    \A k \in Keys, i \in Writes : Requests[i] = k => stored[k] >= i

(* Nothing of a call goes on after it has returned, not even when it       *)
(* returned because of an error in one of its chunks.                      *)
QuietAfterReturn == [][result # "running" => UNCHANGED <<stored, progress>>]_vars

(* OnProgress never claims a write that was not carried out, and by the    *)
(* time the call returns no error it has been told of every chunk and of   *)
(* the total.                                                              *)
ProgressIsTrue ==
  /\ \A n \in reports : n <= Cardinality(Written)
  /\ result = "nil" /\ Writes # {} =>
       Len(Requests) \in reports /\ Cardinality(reports) = Cardinality(Chunks)

(* The call returns, also when the backend leaves writes out for ever.     *)
CallReturns == <>(result # "running")

===============================================================================
