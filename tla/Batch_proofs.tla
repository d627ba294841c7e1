----------------------------- MODULE Batch_proofs -----------------------------
(***************************************************************************)
(* What a batch write promises, for any requests, chunk size, retries and  *)
(* concurrency.  The chunks are disjoint intervals that cover the          *)
(* requests.  From this, by induction over the steps: a chunk is counted   *)
(* only when nothing of it is left, the counter is the number of writes of *)
(* the chunks counted, so no two chunks read the same value of it, and the *)
(* last one reads the total.  At a limit of one a chunk starts only when   *)
(* those before it are done, and this keeps writes to one key in order.    *)
(*                                                                         *)
(* After that, what a BatchGet returns, for any list of keys, size of      *)
(* chunks and number of retries, and any BatchPut beside it.               *)
(***************************************************************************)
EXTENDS BatchGet, FiniteSetTheorems, TLAPS

-------------------------------------------------------------------------------
(* Chunks.                                                                 *)

NChunks == (Len(Requests) + ChunkSize - 1) \div ChunkSize

(* The requests are numbered from one to their length.                     *)
LEMMA WritesType == Len(Requests) \in Nat /\ Writes = 1..Len(Requests)
BY BatchAssumption DEF Writes

(* So that is how many there are.                                          *)
LEMMA WritesSize == IsFiniteSet(Writes) /\ Cardinality(Writes) = Len(Requests)
<1>1. Len(Requests) \in Nat
  BY WritesType
<1>2. IsFiniteSet(1..Len(Requests))
  BY <1>1, FS_Interval
<1>3. Cardinality(1..Len(Requests)) = IF 1 > Len(Requests) THEN 0 ELSE Len(Requests) - 1 + 1
  BY <1>1, FS_Interval
<1> QED BY <1>1, <1>2, <1>3, WritesType

(* How many chunks there are.                                              *)
LEMMA ChunkCount ==
  /\ NChunks \in Nat
  /\ Chunks = 1..NChunks
  /\ Len(Requests) <= NChunks * ChunkSize
  /\ NChunks * ChunkSize < Len(Requests) + ChunkSize
<1> DEFINE a == Len(Requests) + ChunkSize - 1
<1>1. a \in Nat /\ ChunkSize \in Nat /\ ChunkSize > 0
  BY WritesType, BatchAssumption
<1>2. /\ a \div ChunkSize \in Nat
      /\ a = ChunkSize * (a \div ChunkSize) + (a % ChunkSize)
      /\ a % ChunkSize \in 0..(ChunkSize - 1)
  BY <1>1 DEF a
<1>3. NChunks = a \div ChunkSize
  BY DEF NChunks, a
<1>4. (a \div ChunkSize) * ChunkSize = a - (a % ChunkSize)
  BY <1>1, <1>2
<1> QED BY <1>1, <1>2, <1>3, <1>4, WritesType DEF Chunks, NChunks

(* There are finitely many, and so are any of them.                        *)
LEMMA FiniteChunks ==
  /\ IsFiniteSet(Chunks) /\ Cardinality(Chunks) = NChunks
  /\ \A S \in SUBSET Chunks : IsFiniteSet(S)
<1>1. IsFiniteSet(1..NChunks) /\ Cardinality(1..NChunks) = NChunks
  BY ChunkCount, FS_Interval
<1>2. \A S \in SUBSET (1..NChunks) : IsFiniteSet(S)
  BY <1>1, FS_Subset
<1> QED BY <1>1, <1>2, ChunkCount

(* So there are no more chunks than writes.                                *)
LEMMA LastChunk == NChunks <= Len(Requests)
<1>1. CASE NChunks = 0
  BY <1>1, WritesType
<1>2. CASE NChunks # 0
  <2>1. NChunks \in Nat /\ NChunks - 1 \in Nat /\ ChunkSize \in Nat /\ ChunkSize >= 1
    BY <1>2, ChunkCount, BatchAssumption
  <2>2. (NChunks - 1) * ChunkSize >= NChunks - 1
    BY <2>1
  <2>3. (NChunks - 1) * ChunkSize = NChunks * ChunkSize - ChunkSize
    BY <2>1
  <2>4. NChunks * ChunkSize \in Nat
    BY <2>1
  <2> QED BY <2>1, <2>2, <2>3, <2>4, ChunkCount, WritesType
<1> QED BY <1>1, <1>2

(* The writes of an earlier chunk come before those of a later one.        *)
LEMMA ChunksInOrder ==
  ASSUME NEW m \in Chunks, NEW n \in Chunks, m < n,
         NEW i \in Chunk(m), NEW j \in Chunk(n)
  PROVE  i < j
<1>1. m \in Nat /\ n \in Nat /\ m <= n - 1 /\ ChunkSize \in Nat
  BY ChunkCount, BatchAssumption
<1>2. i \in Nat /\ j \in Nat /\ i <= m * ChunkSize /\ (n - 1) * ChunkSize < j
  BY WritesType DEF Chunk
<1>3. m * ChunkSize <= (n - 1) * ChunkSize
  BY <1>1
<1>4. m * ChunkSize \in Int /\ (n - 1) * ChunkSize \in Int
  BY <1>1
<1> QED BY <1>2, <1>3, <1>4

(* No write is in two chunks.                                              *)
LEMMA ChunksDisjoint ==
  ASSUME NEW m \in Chunks, NEW n \in Chunks, NEW i \in Chunk(m), i \in Chunk(n)
  PROVE  m = n
<1>1. m \in Nat /\ n \in Nat /\ i \in Nat
  BY ChunkCount, WritesType DEF Chunk
<1>2. ~ m < n
  BY <1>1, ChunksInOrder
<1>3. ~ n < m
  BY <1>1, ChunksInOrder
<1> QED BY <1>1, <1>2, <1>3

(* Every write is in one.                                                  *)
LEMMA ChunksCover ==
  ASSUME NEW i \in Writes
  PROVE  \E n \in Chunks : i \in Chunk(n)
<1> DEFINE a == i - 1
           n == a \div ChunkSize + 1
<1>1. a \in Nat /\ i \in Nat /\ i <= Len(Requests) /\ ChunkSize \in Nat /\ ChunkSize > 0
  BY WritesType, BatchAssumption
<1>2. /\ a \div ChunkSize \in Nat
      /\ a = ChunkSize * (a \div ChunkSize) + (a % ChunkSize)
      /\ a % ChunkSize \in 0..(ChunkSize - 1)
  BY <1>1 DEF a
<1> DEFINE q == a \div ChunkSize
<1>3. q \in Nat /\ q * ChunkSize <= i - 1 /\ i <= q * ChunkSize + ChunkSize
  BY <1>1, <1>2 DEF q, a
<1>4. n = q + 1 /\ n \in Nat /\ n - 1 = q
  BY <1>3 DEF n, q
<1> HIDE DEF q, n, a
<1>5. n * ChunkSize = q * ChunkSize + ChunkSize
  BY <1>1, <1>3, <1>4
<1>6. i \in Chunk(n)
  BY <1>1, <1>3, <1>4, <1>5 DEF Chunk
<1>7. q * ChunkSize < NChunks * ChunkSize
  BY <1>1, <1>3, ChunkCount, WritesType
<1>8. q < NChunks
  BY <1>1, <1>3, <1>7, ChunkCount
<1>9. n \in Chunks
  BY <1>3, <1>4, <1>8, ChunkCount
<1> QED BY <1>6, <1>9

(* None is empty.                                                          *)
LEMMA ChunksFull ==
  ASSUME NEW n \in Chunks
  PROVE  /\ Chunk(n) \subseteq Writes /\ Chunk(n) # {}
         /\ IsFiniteSet(Chunk(n)) /\ Cardinality(Chunk(n)) \in Nat \ {0}
<1>1. /\ n \in Nat /\ n >= 1 /\ n <= NChunks /\ NChunks \in Nat
      /\ ChunkSize \in Nat /\ ChunkSize > 0
  BY ChunkCount, BatchAssumption
<1>2. (n - 1) * ChunkSize <= (NChunks - 1) * ChunkSize
  BY <1>1
<1>3. (NChunks - 1) * ChunkSize = NChunks * ChunkSize - ChunkSize
  BY <1>1
<1>4. (n - 1) * ChunkSize \in Nat /\ (n - 1) * ChunkSize < Len(Requests)
  BY <1>1, <1>2, <1>3, ChunkCount, WritesType
<1>5. n * ChunkSize = (n - 1) * ChunkSize + ChunkSize
  BY <1>1
<1>6. (n - 1) * ChunkSize + 1 \in Chunk(n)
  BY <1>1, <1>4, <1>5, WritesType DEF Chunk
<1>7. IsFiniteSet(Writes)
  BY WritesSize
<1>8. Chunk(n) \subseteq Writes
  BY DEF Chunk
<1>9. IsFiniteSet(Chunk(n)) /\ Cardinality(Chunk(n)) \in Nat
  BY <1>7, <1>8, FS_Subset, FS_CardinalityType
<1> QED BY <1>6, <1>8, <1>9, FS_EmptySet

-------------------------------------------------------------------------------
(* The inductive invariant.                                                *)

Labels == {"new", "send", "pause", "count", "report", "done"}

Errors == {"backend error", "unprocessed", "context ended"}

(* The types, without the bounds on what is counted.                       *)
Types ==
  /\ limit \in Nat \ {0}
  /\ started \in 0..NChunks
  /\ pc \in [Chunks -> Labels]
  /\ pending \in [Chunks -> SUBSET Writes]
  /\ attempt \in [Chunks -> 0..MaxRetries]
  /\ cancelled \in BOOLEAN
  /\ err \in Errors \cup {"nil"}
  /\ completed \in Nat
  /\ count \in [Chunks -> Nat]
  /\ stored \in [Keys -> Writes \cup {NoWrite}]
  /\ result \in Errors \cup {"nil", "running", "invalid"}

(* Chunks are started in order.                                            *)
StartedInOrder == \A n \in Chunks : pc[n] = "new" <=> n > started

(* What is left of a chunk is a part of it: all before it is sent, and     *)
(* nothing once it is carried out.                                         *)
Remaining ==
  \A n \in Chunks :
    /\ pending[n] \subseteq Chunk(n)
    /\ pc[n] = "new" => pending[n] = Chunk(n)
    /\ pc[n] \in {"count", "report"} \/ count[n] # 0 => pending[n] = {}

(* A chunk is counted between "count" and "report", and one that is done   *)
(* and not counted has failed.                                             *)
CountedWhen ==
  \A n \in Chunks :
    /\ pc[n] \in {"new", "send", "pause", "count"} => count[n] = 0
    /\ pc[n] = "report" => count[n] # 0
    /\ pc[n] = "done" /\ count[n] = 0 => err # "nil"

CountedChunks == {n \in Chunks : count[n] # 0}

CountedWrites == UNION {Chunk(n) : n \in CountedChunks}

(* The counter is the number of writes counted, and each chunk read        *)
(* another value of it.                                                    *)
Counter ==
  /\ completed = Cardinality(CountedWrites)
  /\ \A n \in Chunks : count[n] <= completed
  /\ \A m, n \in CountedChunks : count[m] = count[n] => m = n
  /\ CountedChunks # {} => \E n \in CountedChunks : count[n] = completed
  /\ reports = {count[n] : n \in {m \in CountedChunks : pc[m] = "done"}}

(* A call that has returned is through with all its chunks, or has not     *)
(* begun with them.                                                        *)
Returned ==
  \/ result = "running"
  \/ AllDone /\ result = err
  \/ started = 0 /\ result = "invalid"

(* At a limit of one chunk, those before one that was started are done.    *)
OneAtATime ==
  limit = 1 => \A m, n \in Chunks : m < n /\ pc[n] # "new" => pc[m] = "done"

(* Within a chunk, writes to one key are carried out in order.             *)
OrderInChunk ==
  \A n \in Chunks : \A i \in pending[n], j \in Chunk(n) \ pending[n] :
    Requests[i] = Requests[j] => j < i

(* So a key holds the last of its writes that were carried out.            *)
LastStored ==
  limit = 1 =>
    \A n \in Chunks : \A i \in Chunk(n) \ pending[n] :
      stored[Requests[i]] \in Writes /\ stored[Requests[i]] >= i

(* A chunk waits only for a retry it still has.                            *)
RetriesLeft == \A n \in Chunks : pc[n] = "pause" => attempt[n] < MaxRetries

IInv ==
  /\ Types /\ StartedInOrder /\ RetriesLeft /\ Remaining /\ CountedWhen /\ Counter
  /\ Returned /\ OneAtATime /\ OrderInChunk /\ LastStored

-------------------------------------------------------------------------------
(* The invariant holds at the start ...                                    *)
LEMMA InitInv == Init => IInv
<1> SUFFICES ASSUME Init
             PROVE  IInv
  OBVIOUS
<1>1. Types
  <2>1. limit \in Nat \ {0}
    BY BatchAssumption DEF Init
  <2>2. \A n \in Chunks : Chunk(n) \subseteq Writes
    BY ChunksFull
  <2>3. 0 \in 0..NChunks /\ 0 \in 0..MaxRetries
    BY ChunkCount, BatchAssumption
  <2>4. /\ pc \in [Chunks -> Labels] /\ pending \in [Chunks -> SUBSET Writes]
        /\ attempt \in [Chunks -> 0..MaxRetries] /\ count \in [Chunks -> Nat]
        /\ stored \in [Keys -> Writes \cup {NoWrite}]
    BY <2>2, <2>3 DEF Init, Labels
  <2> QED BY <2>1, <2>3, <2>4 DEF Init, Types
<1>2. StartedInOrder /\ RetriesLeft /\ Remaining /\ CountedWhen /\ Returned /\ OneAtATime
  BY ChunkCount DEF Init, StartedInOrder, RetriesLeft, Remaining, CountedWhen, Returned, OneAtATime
<1>3. CountedChunks = {}
  BY DEF Init, CountedChunks
<1>4. CountedWrites = {}
  BY <1>3 DEF CountedWrites
<1>5. Counter
  BY <1>3, <1>4, FS_EmptySet DEF Init, Counter
<1>6. OrderInChunk /\ LastStored
  BY DEF Init, OrderInChunk, LastStored
<1> QED BY <1>1, <1>2, <1>5, <1>6 DEF IInv

(* ... and what counts the chunks depends on little of the state.          *)
LEMMA CounterUnchanged ==
  ASSUME Counter, UNCHANGED progress,
         \A n \in CountedChunks : pc'[n] = "done" <=> pc[n] = "done"
  PROVE  Counter'
<1>1. CountedChunks' = CountedChunks
  BY DEF progress, CountedChunks
<1>2. CountedWrites' = CountedWrites
  BY <1>1 DEF CountedWrites
<1>3. {m \in CountedChunks : pc[m] = "done"}' = {m \in CountedChunks : pc[m] = "done"}
  BY <1>1
<1> QED BY <1>1, <1>2, <1>3 DEF Counter, progress

(* The context ends, or nothing happens.                                   *)
LEMMA CancelInv == IInv /\ (Cancel \/ UNCHANGED vars) => IInv'
<1> SUFFICES ASSUME IInv, Cancel \/ UNCHANGED vars
             PROVE  IInv'
  OBVIOUS
<1>1. UNCHANGED <<group, err, progress, stored, result>> /\ cancelled' \in BOOLEAN
  BY DEF Cancel, vars, failure, IInv, Types
<1>2. Types'
  BY <1>1 DEF IInv, Types, group, progress
<1>3. (StartedInOrder /\ RetriesLeft /\ Remaining /\ CountedWhen)'
  BY <1>1 DEF IInv, StartedInOrder, RetriesLeft, Remaining, CountedWhen, group, progress
<1>4. Counter'
  BY <1>1, CounterUnchanged DEF IInv, group
<1>5. (Returned /\ OneAtATime /\ OrderInChunk /\ LastStored)'
  BY <1>1 DEF IInv, Returned, AllDone, OneAtATime, OrderInChunk, LastStored, group
<1> QED BY <1>2, <1>3, <1>4, <1>5 DEF IInv

(* A chunk that is to be started is new.                                   *)
LEMMA StartInv == IInv /\ Start => IInv'
<1> SUFFICES ASSUME IInv, Start
             PROVE  IInv'
  OBVIOUS
<1> DEFINE s == started + 1
<1>1. /\ s \in Chunks /\ pc[s] = "new" /\ started \in Nat
      /\ pc' = [pc EXCEPT ![s] = "send"] /\ started' = s
      /\ UNCHANGED <<limit, pending, attempt, failure, progress, stored, result>>
  BY ChunkCount DEF IInv, Types, StartedInOrder, Start, Goto
<1>2. pc \in [Chunks -> Labels]
  BY DEF IInv, Types
<1>3. /\ pc'[s] = "send"
      /\ \A n \in Chunks : n # s => pc'[n] = pc[n]
  BY <1>1, <1>2
<1> HIDE DEF s
<1>4. Types'
  BY <1>1, ChunkCount DEF IInv, Types, Labels, failure, progress, s
<1>5. StartedInOrder'
  BY <1>1, <1>3, ChunkCount DEF IInv, StartedInOrder, s
<1>6. (RetriesLeft /\ Remaining /\ CountedWhen)'
  BY <1>1, <1>3 DEF IInv, RetriesLeft, Remaining, CountedWhen, failure, progress
<1>7. Counter'
  BY <1>1, <1>3, CounterUnchanged DEF IInv, CountedWhen, CountedChunks
<1>8. Returned'
  BY <1>1 DEF Start, Returned
<1>9. OneAtATime'
  <2> SUFFICES ASSUME limit = 1, NEW m \in Chunks, NEW n \in Chunks, m < n, pc'[n] # "new"
               PROVE  pc'[m] = "done"
    BY <1>1 DEF OneAtATime
  <2>1. UnderWay \subseteq Chunks /\ IsFiniteSet(UnderWay)
    BY FiniteChunks DEF UnderWay
  <2>2. UnderWay = {}
    BY <2>1, FS_EmptySet, FS_CardinalityType DEF Start
  <2>3. \A c \in Chunks : pc[c] \in {"new", "done"}
    BY <2>2 DEF UnderWay
  <2>4. n <= s
    BY <1>1, <1>3, ChunkCount DEF IInv, StartedInOrder, s
  <2>5. m # s /\ pc[m] # "new"
    BY <1>1, <2>4, ChunkCount DEF IInv, StartedInOrder, s
  <2> QED BY <2>3, <2>5, <1>3
<1>10. (OrderInChunk /\ LastStored)'
  BY <1>1 DEF IInv, OrderInChunk, LastStored
<1> QED BY <1>4, <1>5, <1>6, <1>7, <1>8, <1>9, <1>10 DEF IInv

(* A write is carried out: the first left of those to its key.             *)
LEMMA WriteInv ==
  ASSUME IInv, NEW n \in Chunks, NEW i \in Writes, Write(n, i)
  PROVE  IInv'
<1>1. /\ pc[n] = "send" /\ i \in pending[n]
      /\ \A j \in pending[n] : Requests[j] = Requests[i] => i <= j
      /\ stored' = [stored EXCEPT ![Requests[i]] = i]
      /\ pending' = [pending EXCEPT ![n] = @ \ {i}]
      /\ UNCHANGED <<limit, started, pc, attempt, failure, progress, result>>
  BY DEF Write
<1>2. /\ pending \in [Chunks -> SUBSET Writes] /\ stored \in [Keys -> Writes \cup {NoWrite}]
      /\ \A m \in Chunks : pending[m] \subseteq Chunk(m)
      /\ Requests[i] \in Keys
  BY DEF IInv, Types, Remaining, Keys
<1>3. /\ pending'[n] = pending[n] \ {i}
      /\ \A m \in Chunks : m # n => pending'[m] = pending[m]
      /\ stored'[Requests[i]] = i
      /\ \A k \in Keys : k # Requests[i] => stored'[k] = stored[k]
  BY <1>1, <1>2
<1>4. Types'
  BY <1>1, <1>2 DEF IInv, Types, failure, progress
<1>5. (StartedInOrder /\ RetriesLeft /\ Remaining /\ CountedWhen)'
  BY <1>1, <1>3 DEF IInv, StartedInOrder, RetriesLeft, Remaining, CountedWhen, failure, progress
<1>6. Counter'
  BY <1>1, CounterUnchanged DEF IInv
<1>7. (Returned /\ OneAtATime)'
  BY <1>1 DEF IInv, Returned, AllDone, OneAtATime, failure
<1>8. OrderInChunk'
  <2> SUFFICES ASSUME NEW m \in Chunks, NEW h \in pending'[m], NEW j \in Chunk(m) \ pending'[m],
                      Requests[h] = Requests[j]
               PROVE  j < h
    BY DEF OrderInChunk
  <2>1. CASE j \in pending[m]
    <3>1. m = n /\ j = i /\ h \in pending[n] /\ h # i
      BY <2>1, <1>3
    <3>2. i \in Nat /\ h \in Nat
      BY <3>1, <1>2, WritesType
    <3> QED BY <3>1, <3>2, <1>1
  <2>2. CASE j \notin pending[m]
    BY <2>2, <1>3 DEF IInv, OrderInChunk
  <2> QED BY <2>1, <2>2
<1>9. LastStored'
  <2> SUFFICES ASSUME limit = 1, NEW m \in Chunks, NEW j \in Chunk(m) \ pending'[m]
               PROVE  stored'[Requests[j]] \in Writes /\ stored'[Requests[j]] >= j
    BY <1>1 DEF LastStored
  <2>1. j \in Writes /\ j \in Nat /\ i \in Nat /\ Requests[j] \in Keys
    BY ChunksFull, WritesType DEF Keys
  <2>2. CASE Requests[j] # Requests[i]
    <3>1. j \notin pending[m]
      BY <2>2, <1>3
    <3> QED BY <3>1, <2>1, <2>2, <1>3 DEF IInv, LastStored
  <2>3. CASE Requests[j] = Requests[i]
    <3>1. CASE m = n
      <4>1. j = i \/ j \notin pending[n]
        BY <3>1, <1>3
      <4>2. j \notin pending[n] => j < i
        BY <3>1, <2>3, <1>1 DEF IInv, OrderInChunk
      <4> QED BY <4>1, <4>2, <2>1, <2>3, <1>3
    <3>2. CASE m # n
      <4>1. j \notin pending[m]
        BY <3>2, <1>3
      <4>2. pc[m] # "new"
        BY <4>1 DEF IInv, Remaining
      <4>3. ~ n < m
        BY <4>2, <1>1 DEF IInv, OneAtATime
      <4>4. m < n
        BY <4>3, <3>2, ChunkCount
      <4>5. j < i
        BY <4>4, <1>1, <1>2, ChunksInOrder
      <4> QED BY <4>5, <2>1, <2>3, <1>3
    <3> QED BY <3>1, <3>2
  <2> QED BY <2>2, <2>3
<1> QED BY <1>4, <1>5, <1>6, <1>7, <1>8, <1>9 DEF IInv

(* A chunk is answered or resumes: it goes on, is through, or fails.       *)
LEMMA MoveInv ==
  ASSUME IInv, NEW n \in Chunks, NEW label \in {"send", "pause", "count", "done"},
         pc[n] \in {"send", "pause"}, Goto(n, label),
         label = "count" => pending[n] = {},
         label = "done" => err' # "nil",
         err' \in Errors \cup {"nil"}, err # "nil" => err' = err,
         cancelled' \in BOOLEAN, NEW retries \in 0..MaxRetries,
         attempt' = [attempt EXCEPT ![n] = retries], label = "pause" => retries < MaxRetries,
         UNCHANGED <<limit, started, pending, progress, stored, result>>
  PROVE  IInv'
<1>1. pc \in [Chunks -> Labels] /\ pc' = [pc EXCEPT ![n] = label]
  BY DEF IInv, Types, Goto
<1>2. pc'[n] = label /\ \A m \in Chunks : m # n => pc'[m] = pc[m]
  BY <1>1
<1>a. /\ attempt \in [Chunks -> 0..MaxRetries] /\ attempt'[n] = retries
      /\ \A m \in Chunks : m # n => attempt'[m] = attempt[m]
  BY DEF IInv, Types
<1>3. Types'
  BY <1>1, <1>a DEF IInv, Types, Labels, progress
<1>4. (StartedInOrder /\ RetriesLeft)'
  BY <1>2, <1>a DEF IInv, StartedInOrder, RetriesLeft
<1>5. (Remaining /\ CountedWhen)'
  BY <1>2 DEF IInv, Remaining, CountedWhen, progress
<1>6. n \notin CountedChunks
  BY DEF IInv, CountedWhen, CountedChunks
<1>7. Counter'
  BY <1>2, <1>6, CounterUnchanged DEF IInv, CountedChunks
<1>8. (Returned /\ OneAtATime)'
  BY <1>2 DEF IInv, Returned, AllDone, OneAtATime
<1>9. (OrderInChunk /\ LastStored)'
  BY DEF IInv, OrderInChunk, LastStored
<1> QED BY <1>3, <1>4, <1>5, <1>7, <1>8, <1>9 DEF IInv

(* The answer to a chunk keeps the invariant.                              *)
LEMMA AnswerInv ==
  ASSUME IInv, NEW n \in Chunks, Answer(n)
  PROVE  IInv'
<1>1. /\ pc[n] = "send" /\ err \in Errors \cup {"nil"} /\ cancelled \in BOOLEAN
      /\ attempt \in [Chunks -> 0..MaxRetries] /\ attempt' = [attempt EXCEPT ![n] = attempt[n]]
      /\ UNCHANGED <<limit, started, pending, progress, stored, result>>
  BY DEF Answer, IInv, Types
<1>2. CASE pending[n] = {} /\ Goto(n, "count") /\ UNCHANGED failure
  BY <1>1, <1>2, MoveInv DEF failure
<1>3. CASE PausesAgain(n) /\ Goto(n, "pause") /\ UNCHANGED failure
  BY <1>1, <1>3, MoveInv DEF failure, PausesAgain
<1>4. ASSUME NEW e \in Errors, Fail(n, e)
      PROVE  IInv'
  <2>1. /\ Goto(n, "done") /\ err' # "nil" /\ err' \in Errors \cup {"nil"}
        /\ err # "nil" => err' = err
        /\ cancelled' \in BOOLEAN
    BY <1>1, <1>4 DEF Fail, Errors
  <2> QED BY <1>1, <2>1, MoveInv
<1> QED BY <1>2, <1>3, <1>4 DEF Answer, Exhausted, Errors

(* So does the end of a pause.                                             *)
LEMMA ResumeInv ==
  ASSUME IInv, NEW n \in Chunks, Resume(n)
  PROVE  IInv'
<1>1. /\ pc[n] = "pause" /\ err \in Errors \cup {"nil"} /\ cancelled \in BOOLEAN
      /\ attempt \in [Chunks -> 0..MaxRetries]
      /\ UNCHANGED <<limit, started, pending, progress, stored, result>>
      /\ attempt[n] < MaxRetries
  BY DEF Resume, IInv, Types, RetriesLeft
<1>2. CASE Goto(n, "send") /\ Counting(n) /\ UNCHANGED failure
  <2>1. attempt' = [attempt EXCEPT ![n] = attempt[n] + 1] /\ attempt[n] + 1 \in 0..MaxRetries
    BY <1>1, <1>2, BatchAssumption DEF Counting
  <2> QED BY <1>1, <1>2, <2>1, MoveInv DEF failure
<1>3. CASE Fail(n, "context ended") /\ UNCHANGED attempt
  <2>1. /\ Goto(n, "done") /\ err' # "nil" /\ err' \in Errors \cup {"nil"}
        /\ err # "nil" => err' = err
        /\ cancelled' \in BOOLEAN
    BY <1>1, <1>3 DEF Fail, Errors
  <2>2. attempt' = [attempt EXCEPT ![n] = attempt[n]] /\ attempt[n] \in 0..MaxRetries
    BY <1>1, <1>3
  <2> QED BY <1>1, <2>1, <2>2, MoveInv
<1> QED BY <1>2, <1>3 DEF Resume

(* The writes of one more chunk are counted.                               *)
LEMMA CountOneMore ==
  ASSUME NEW C \in SUBSET Chunks, NEW n \in Chunks, n \notin C
  PROVE  LET W == UNION {Chunk(m) : m \in C}
             V == UNION {Chunk(m) : m \in C \cup {n}}
         IN  /\ Cardinality(V) = Cardinality(W) + Cardinality(Chunk(n))
             /\ Cardinality(W) \in Nat
             /\ V \subseteq Writes
<1> DEFINE W == UNION {Chunk(m) : m \in C}
           V == UNION {Chunk(m) : m \in C \cup {n}}
<1>1. W \subseteq Writes /\ V = W \cup Chunk(n) /\ V \subseteq Writes
  BY ChunksFull
<1>2. W \cap Chunk(n) = {}
  BY ChunksDisjoint
<1>3. IsFiniteSet(Writes)
  BY WritesSize
<1> HIDE DEF W, V
<1>4. IsFiniteSet(W)
  BY <1>1, <1>3, FS_Subset
<1>5. Cardinality(W) \in Nat /\ Cardinality(W \cap Chunk(n)) = 0
  BY <1>2, <1>4, FS_CardinalityType, FS_EmptySet
<1>6. IsFiniteSet(Chunk(n)) /\ Cardinality(Chunk(n)) \in Nat
  BY ChunksFull
<1>7. Cardinality(W \cup Chunk(n)) =
        Cardinality(W) + Cardinality(Chunk(n)) - Cardinality(W \cap Chunk(n))
  BY <1>4, <1>6, FS_Union
<1>8. Cardinality(V) = Cardinality(W) + Cardinality(Chunk(n))
  BY <1>1, <1>5, <1>6, <1>7
<1> QED BY <1>1, <1>5, <1>8 DEF W, V

(* A chunk is counted.                                                     *)
LEMMA CountInv ==
  ASSUME IInv, NEW n \in Chunks, Count(n)
  PROVE  IInv'
<1> DEFINE d == Cardinality(Chunk(n))
<1>1. /\ pc[n] = "count" /\ pc' = [pc EXCEPT ![n] = "report"]
      /\ completed' = completed + d
      /\ count' = [count EXCEPT ![n] = completed']
      /\ UNCHANGED <<limit, started, pending, attempt, failure, reports, stored, result>>
  BY DEF Count, Counted, Goto
<1>2. d \in Nat \ {0} /\ completed \in Nat /\ completed' \in Nat /\ completed' > completed
  BY <1>1, ChunksFull DEF IInv, Types
<1>3. pc \in [Chunks -> Labels] /\ count \in [Chunks -> Nat]
  BY DEF IInv, Types
<1>4. /\ pc'[n] = "report" /\ count'[n] = completed' /\ count[n] = 0
      /\ \A m \in Chunks : m # n => pc'[m] = pc[m] /\ count'[m] = count[m]
  BY <1>1, <1>3 DEF IInv, CountedWhen
<1> HIDE DEF d
<1>5. Types'
  BY <1>1, <1>2, <1>3 DEF IInv, Types, Labels, failure
<1>6. (StartedInOrder /\ RetriesLeft /\ Remaining)'
  BY <1>1, <1>4 DEF IInv, StartedInOrder, RetriesLeft, Remaining
<1>7. CountedWhen'
  BY <1>1, <1>2, <1>4 DEF IInv, CountedWhen, failure
<1>8. n \notin CountedChunks /\ CountedChunks' = CountedChunks \cup {n}
  BY <1>2, <1>4 DEF CountedChunks
<1>9. Counter'
  <2>1. completed' = Cardinality(CountedWrites)'
    <3>1. CountedChunks \in SUBSET Chunks
      BY DEF CountedChunks
    <3>2. Cardinality(CountedWrites') = Cardinality(CountedWrites) + d
      BY <3>1, <1>8, CountOneMore DEF CountedWrites, d
    <3> QED BY <3>2, <1>1 DEF IInv, Counter
  <2>2. \A m \in Chunks : m # n => count'[m] <= completed /\ count'[m] \in Nat
    BY <1>3, <1>4 DEF IInv, Counter
  <2>3. \A m \in Chunks : count'[m] <= completed'
    BY <2>2, <1>2, <1>4
  <2>4. \A m \in Chunks : m # n => count'[m] # count'[n]
    BY <2>2, <1>2, <1>4
  <2>5. \A l, m \in CountedChunks' : count'[l] = count'[m] => l = m
    BY <2>4, <1>4, <1>8 DEF IInv, Counter, CountedChunks
  <2>6. \E m \in CountedChunks' : count'[m] = completed'
    BY <1>4, <1>8
  <2>7. {m \in CountedChunks' : pc'[m] = "done"} = {m \in CountedChunks : pc[m] = "done"}
    <3>1. CountedChunks \subseteq Chunks
      BY DEF CountedChunks
    <3>2. \A m \in CountedChunks : pc'[m] = pc[m]
      BY <3>1, <1>4, <1>8
    <3>3. pc'[n] # "done"
      BY <1>4
    <3> QED BY <3>2, <3>3, <1>8
  <2>8. reports' = {count[m] : m \in {h \in CountedChunks : pc[h] = "done"}}'
    BY <2>7, <1>1, <1>4, <1>8 DEF IInv, Counter, CountedChunks
  <2> QED BY <2>1, <2>3, <2>5, <2>6, <2>8 DEF Counter
<1>10. (Returned /\ OneAtATime)'
  BY <1>1, <1>4 DEF IInv, Returned, AllDone, OneAtATime, failure
<1>11. (OrderInChunk /\ LastStored)'
  BY <1>1 DEF IInv, OrderInChunk, LastStored
<1> QED BY <1>5, <1>6, <1>7, <1>9, <1>10, <1>11 DEF IInv

(* The progress is reported.                                               *)
LEMMA ReportInv ==
  ASSUME IInv, NEW n \in Chunks, Report(n)
  PROVE  IInv'
<1>1. /\ pc[n] = "report" /\ pc' = [pc EXCEPT ![n] = "done"]
      /\ reports' = reports \cup {count[n]}
      /\ UNCHANGED <<limit, started, pending, attempt, failure, completed, count, stored, result>>
  BY DEF Report, Goto
<1>2. pc \in [Chunks -> Labels]
  BY DEF IInv, Types
<1>3. pc'[n] = "done" /\ \A m \in Chunks : m # n => pc'[m] = pc[m]
  BY <1>1, <1>2
<1>4. Types'
  BY <1>1, <1>2 DEF IInv, Types, Labels, failure
<1>5. (StartedInOrder /\ RetriesLeft /\ Remaining /\ CountedWhen)'
  BY <1>1, <1>3 DEF IInv, StartedInOrder, RetriesLeft, Remaining, CountedWhen, failure
<1>6. CountedChunks' = CountedChunks /\ n \in CountedChunks
  BY <1>1 DEF IInv, CountedWhen, CountedChunks
<1>7. CountedWrites' = CountedWrites
  BY <1>6 DEF CountedWrites
<1>8. {m \in CountedChunks' : pc'[m] = "done"} = {m \in CountedChunks : pc[m] = "done"} \cup {n}
  <2>1. CountedChunks \subseteq Chunks
    BY DEF CountedChunks
  <2> QED BY <2>1, <1>3, <1>6
<1>9. Counter'
  BY <1>1, <1>6, <1>7, <1>8 DEF IInv, Counter
<1>10. (Returned /\ OneAtATime)'
  BY <1>1, <1>3 DEF IInv, Returned, AllDone, OneAtATime, failure
<1>11. (OrderInChunk /\ LastStored)'
  BY <1>1 DEF IInv, OrderInChunk, LastStored
<1> QED BY <1>4, <1>5, <1>9, <1>10, <1>11 DEF IInv

(* The call returns before it has begun.                                   *)
LEMMA MarshalFailsInv == IInv /\ MarshalFails => IInv'
<1> SUFFICES ASSUME IInv, MarshalFails
             PROVE  IInv'
  OBVIOUS
<1>1. started = 0 /\ result' = "invalid" /\ UNCHANGED <<group, failure, progress, stored>>
  BY DEF MarshalFails
<1>2. Types'
  BY <1>1 DEF IInv, Types, group, failure, progress
<1>3. (StartedInOrder /\ RetriesLeft /\ Remaining /\ CountedWhen)'
  BY <1>1 DEF IInv, StartedInOrder, RetriesLeft, Remaining, CountedWhen, group, failure, progress
<1>4. Counter'
  BY <1>1, CounterUnchanged DEF IInv, group
<1>5. (Returned /\ OneAtATime /\ OrderInChunk /\ LastStored)'
  BY <1>1 DEF IInv, Returned, OneAtATime, OrderInChunk, LastStored, group
<1> QED BY <1>2, <1>3, <1>4, <1>5 DEF IInv

(* The call returns.                                                       *)
LEMMA WaitInv == IInv /\ Wait => IInv'
<1> SUFFICES ASSUME IInv, Wait
             PROVE  IInv'
  OBVIOUS
<1>1. AllDone /\ result' = err /\ cancelled' = TRUE /\ UNCHANGED <<group, err, progress, stored>>
  BY DEF Wait
<1>2. Types'
  BY <1>1 DEF IInv, Types, group, progress
<1>3. (StartedInOrder /\ RetriesLeft /\ Remaining /\ CountedWhen)'
  BY <1>1 DEF IInv, StartedInOrder, RetriesLeft, Remaining, CountedWhen, group, progress
<1>4. Counter'
  BY <1>1, CounterUnchanged DEF IInv, group
<1>5. (Returned /\ OneAtATime /\ OrderInChunk /\ LastStored)'
  BY <1>1 DEF IInv, Returned, AllDone, OneAtATime, OrderInChunk, LastStored, group
<1> QED BY <1>2, <1>3, <1>4, <1>5 DEF IInv

(* The invariant is one of the specification.                              *)
LEMMA Invariant == Spec => []IInv
<1>1. IInv /\ [Next]_vars => IInv'
  <2> SUFFICES ASSUME IInv, [Next]_vars
               PROVE  IInv'
    OBVIOUS
  <2>1. CASE Cancel \/ UNCHANGED vars
    BY <2>1, CancelInv
  <2>2. CASE Start
    BY <2>2, StartInv
  <2>3. CASE Wait
    BY <2>3, WaitInv
  <2>4. ASSUME NEW n \in Chunks, Step(n)
        PROVE  IInv'
    BY <2>4, AnswerInv, ResumeInv, CountInv, ReportInv, WriteInv DEF Step
  <2>5. CASE MarshalFails
    BY <2>5, MarshalFailsInv
  <2> QED BY <2>1, <2>2, <2>3, <2>4, <2>5 DEF Next
<1> QED BY InitInv, <1>1, PTL DEF Spec

-------------------------------------------------------------------------------
(* What follows from it.                                                   *)

(* The writes counted are written, and at most all of them.                *)
LEMMA CountedAreWritten ==
  ASSUME IInv
  PROVE  /\ CountedWrites \subseteq Written /\ Written \subseteq Writes
         /\ IsFiniteSet(Written) /\ Cardinality(Written) \in Nat
         /\ completed <= Cardinality(Written) /\ Cardinality(Written) <= Len(Requests)
<1>1. Written \subseteq Writes
  BY DEF Written
<1>2. \A n \in CountedChunks : Chunk(n) \subseteq Written
  <2> SUFFICES ASSUME NEW n \in CountedChunks, NEW i \in Chunk(n), NEW m \in Chunks, i \in pending[m]
               PROVE  FALSE
    BY ChunksFull DEF Written, CountedChunks
  <2>1. i \in Chunk(m) /\ n \in Chunks /\ pending[n] = {}
    BY DEF IInv, Remaining, CountedChunks
  <2> QED BY <2>1, ChunksDisjoint
<1>3. IsFiniteSet(Writes) /\ Cardinality(Writes) = Len(Requests)
  BY WritesSize
<1>4. CountedWrites \subseteq Written
  BY <1>2 DEF CountedWrites
<1>5. IsFiniteSet(Written) /\ Cardinality(Written) <= Len(Requests)
  BY <1>1, <1>3, FS_Subset
<1>6. Cardinality(CountedWrites) <= Cardinality(Written)
  BY <1>4, <1>5, FS_Subset
<1> QED BY <1>1, <1>4, <1>5, <1>6, FS_CardinalityType DEF IInv, Counter

(* A call that returned no error has counted all its chunks.               *)
LEMMA NilCountsAll ==
  ASSUME IInv, result = "nil"
  PROVE  /\ CountedChunks = Chunks /\ Written = Writes
         /\ reports = {count[n] : n \in Chunks}
         /\ completed = Len(Requests)
<1>1. err = "nil" /\ \A n \in Chunks : pc[n] = "done"
  <2>1. AllDone /\ result = err
    BY DEF IInv, Returned
  <2> QED BY <2>1 DEF AllDone
<1>2. CountedChunks = Chunks
  BY <1>1 DEF IInv, CountedWhen, CountedChunks
<1>3. CountedWrites = Writes
  BY <1>2, ChunksCover, ChunksFull DEF CountedWrites
<1>4. completed = Len(Requests)
  <2>1. Cardinality(Writes) = Len(Requests)
    BY WritesSize
  <2> QED BY <2>1, <1>3 DEF IInv, Counter
<1>5. reports = {count[n] : n \in Chunks}
  BY <1>1, <1>2 DEF IInv, Counter
<1> QED BY <1>2, <1>3, <1>4, <1>5, CountedAreWritten

(* The variables of a batch write keep their types; the counter, and all   *)
(* that OnProgress is called with, stays within the number of requests.    *)
THEOREM BatchTypeCorrect == Spec => []TypeOK
<1>1. IInv => TypeOK
  <2> SUFFICES ASSUME IInv
               PROVE  TypeOK
    OBVIOUS
  <2>1. completed \in 0..Len(Requests)
    BY CountedAreWritten, WritesType DEF IInv, Types
  <2>2. \A n \in Chunks : count[n] \in 0..Len(Requests)
    BY <2>1, WritesType DEF IInv, Types, Counter
  <2>3. count \in [Chunks -> 0..Len(Requests)] /\ reports \subseteq 0..Len(Requests)
    BY <2>2 DEF IInv, Types, Counter, CountedChunks
  <2>4. started \in 0..Len(Requests)
    BY LastChunk, ChunkCount, WritesType DEF IInv, Types
  <2> QED BY <2>1, <2>3, <2>4 DEF IInv, Types, TypeOK, Labels, Errors
<1> QED BY Invariant, <1>1, PTL

(* A call that returns no error has carried out every write.               *)
THEOREM NilIsWritten == Spec => []NilMeansWritten
<1>1. IInv => NilMeansWritten
  BY NilCountsAll DEF NilMeansWritten
<1> QED BY Invariant, <1>1, PTL

(* At a limit of one, the last write to a key stays.                       *)
THEOREM LastWriteWins == Spec => []LastWriteStays
<1>1. IInv => LastWriteStays
  <2> SUFFICES ASSUME IInv, limit = 1, result = "nil", NEW k \in Keys, NEW i \in Writes,
                      Requests[i] = k
               PROVE  stored[k] >= i
    BY DEF LastWriteStays
  <2>1. PICK n \in Chunks : i \in Chunk(n)
    BY ChunksCover
  <2>2. pending[n] = {}
    BY NilCountsAll DEF IInv, Remaining, CountedChunks
  <2> QED BY <2>1, <2>2 DEF IInv, LastStored
<1> QED BY Invariant, <1>1, PTL

(* OnProgress claims only what was carried out; before a call returns no   *)
(* error it was called once for each chunk, and with the total.            *)
THEOREM ProgressIsHonest == Spec => []ProgressIsTrue
<1>1. IInv => ProgressIsTrue
  <2> SUFFICES ASSUME IInv
               PROVE  ProgressIsTrue
    OBVIOUS
  <2>1. \A n \in reports : n <= Cardinality(Written)
    <3>1. \A n \in Chunks : count[n] \in Nat /\ count[n] <= completed /\ completed \in Nat
      BY DEF IInv, Types, Counter
    <3> QED BY <3>1, CountedAreWritten DEF IInv, Counter, CountedChunks
  <2>2. ASSUME result = "nil", Writes # {}
        PROVE  Len(Requests) \in reports /\ Cardinality(reports) = Cardinality(Chunks)
    <3>1. Chunks # {}
      BY <2>2, ChunksCover
    <3>2. Len(Requests) \in reports
      BY <2>2, <3>1, NilCountsAll DEF IInv, Counter
    <3>3. /\ \A m, n \in Chunks : count[m] = count[n] => m = n
          /\ reports = {count[n] : n \in Chunks} /\ count \in [Chunks -> Nat]
      BY <2>2, NilCountsAll DEF IInv, Types, Counter
    <3>4. count \in [Chunks -> reports] /\ \A r \in reports : \E n \in Chunks : count[n] = r
      BY <3>3
    <3>5. count \in Injection(Chunks, reports)
      BY <3>3, <3>4 DEF Injection, IsInjective
    <3>6. count \in Surjection(Chunks, reports)
      BY <3>4 DEF Surjection
    <3>7. ExistsBijection(Chunks, reports)
      BY <3>5, <3>6 DEF ExistsBijection, Bijection
    <3> QED BY <3>2, <3>7, FiniteChunks, FS_Bijection
  <2> QED BY <2>1, <2>2 DEF ProgressIsTrue
<1> QED BY Invariant, <1>1, PTL

(* Nothing of a call goes on after it has returned.                        *)
THEOREM QuietOnceReturned == Spec => QuietAfterReturn
<1>1. IInv /\ [Next]_vars => (result # "running" => UNCHANGED <<stored, progress>>)
  <2> SUFFICES ASSUME IInv, Next, result # "running"
               PROVE  FALSE
    BY DEF vars
  <2>1. \A n \in Chunks : pc[n] \in {"new", "done"}
    BY ChunkCount DEF IInv, Returned, AllDone, Types, StartedInOrder
  <2>2. ~ Start /\ ~ MarshalFails
    BY DEF Start, MarshalFails
  <2>3. \A n \in Chunks : ~ Step(n)
    BY <2>1 DEF Step, Answer, Resume, Count, Report, Write
  <2> QED BY <2>2, <2>3 DEF Next, Cancel, Wait
<1> QED BY Invariant, <1>1, PTL DEF Spec, QuietAfterReturn

-------------------------------------------------------------------------------
(* BatchGet.                                                               *)

(* The count n of a key's items is as it should be.                        *)
IsRight(k, n) ==
  /\ n <= 1
  /\ k \in present => n = 1
  /\ n = 1 => HasItem(k)

GetTypes ==
  /\ at \in {"idle", "send", "pause", "done"}
  /\ first \in Nat \ {0}
  /\ unread \subseteq ChunkFrom(first)
  /\ response \subseteq WantedKeys
  /\ allItems \in [WantedKeys -> Nat]
  /\ results \in [WantedKeys -> Nat]
  /\ outcome = "nil" => at = "done"
  /\ at = "idle" => first = 1 /\ response = {} /\ allItems = NoItems /\ results = NoItems

(* An item that is there stays.                                            *)
Stored ==
  /\ stored \in [Keys -> Writes \cup {NoWrite}]
  /\ \A k \in present : HasItem(k)

(* The chunks before the current one are counted in the results, the keys  *)
(* of the current one that were read in what it has so far, and all others *)
(* nowhere.                                                                *)
Counts ==
  at \in {"send", "pause"} =>
    \A i \in Positions :
      LET k == Wanted[i]
          read == i \in ChunkFrom(first) \ unread
      IN  /\ i < first => IsRight(k, results[k])
          /\ first <= i => results[k] = 0
          /\ read => IsRight(k, Accumulated[k])
          /\ ~read => Accumulated[k] = 0

GetInv == GetTypes /\ Stored /\ Counts /\ GetIsTrue

-------------------------------------------------------------------------------
(* Positions are numbers, and a key is at one of them only.                *)
LEMMA PositionsType ==
  /\ Len(Wanted) \in Nat /\ Positions = 1..Len(Wanted)
  /\ \A i \in Positions : Wanted[i] \in WantedKeys
  /\ \A i, j \in Positions : Wanted[i] = Wanted[j] => i = j
  /\ GetSize \in Nat \ {0}
BY GetAssumption DEF Positions, WantedKeys

(* What a chunk has so far is a number for each key.                       *)
LEMMA AccumulatedType ==
  ASSUME GetTypes
  PROVE  /\ Accumulated \in [WantedKeys -> Nat]
         /\ \A k \in WantedKeys : Accumulated[k] = allItems[k] + (IF k \in response THEN 1 ELSE 0)
BY DEF GetTypes, Accumulated

(* A call begins with nothing read.                                        *)
LEMMA GetInitInv == Init /\ GetInit => GetInv
<1> SUFFICES ASSUME Init, GetInit
             PROVE  GetInv
  OBVIOUS
<1>1. GetTypes
  BY DEF GetInit, GetTypes, NoItems
<1>2. Stored
  BY DEF Init, GetInit, Stored
<1> QED BY <1>1, <1>2 DEF GetInit, GetInv, Counts, GetIsTrue

(* A step of the BatchPut takes no item away.                              *)
LEMMA PutKeepsItems ==
  ASSUME Stored, [Next]_vars, UNCHANGED present
  PROVE  Stored' /\ \A k : HasItem(k) => HasItem(k)'
<1>1. CASE UNCHANGED stored
  BY <1>1 DEF Stored, HasItem
<1>2. ASSUME NEW n \in Chunks, NEW i \in Writes, Write(n, i)
      PROVE  Stored' /\ \A k : HasItem(k) => HasItem(k)'
  <2>1. stored' = [stored EXCEPT ![Requests[i]] = i] /\ i # NoWrite
    BY <1>2, BatchAssumption DEF Write
  <2> QED BY <2>1 DEF Stored, HasItem
<1> QED BY <1>1, <1>2
        DEF Next, vars, Cancel, MarshalFails, Start, Wait, Step, Answer, Resume, Count, Report

(* So it leaves the invariant alone.                                       *)
LEMMA PutInv ==
  ASSUME GetInv, [Next]_vars, UNCHANGED getVars
  PROVE  GetInv'
<1>1. Stored' /\ \A k : HasItem(k) => HasItem(k)'
  BY PutKeepsItems DEF GetInv, getVars
<1>2. GetTypes' /\ UNCHANGED <<Accumulated, ChunkFrom(first)>>
  BY DEF GetInv, GetTypes, getVars, Accumulated, ChunkFrom, NoItems
<1>3. \A k, n : IsRight(k, n) => IsRight(k, n)'
  BY <1>1 DEF IsRight, getVars
<1>4. Counts'
  BY <1>2, <1>3 DEF GetInv, Counts, getVars
<1>5. GetIsTrue'
  BY <1>1 DEF GetInv, GetIsTrue, getVars
<1> QED BY <1>1, <1>2, <1>4, <1>5 DEF GetInv

(* The call notes which keys have an item.                                 *)
LEMMA CallInv ==
  ASSUME GetInv, GetCall, UNCHANGED vars
  PROVE  GetInv'
<1>1. /\ first = 1 /\ first' = 1 /\ unread' = ChunkFrom(first)
      /\ response' = {} /\ allItems' = NoItems /\ results' = NoItems
      /\ UNCHANGED stored /\ present' = {k \in WantedKeys : HasItem(k)}
      /\ at' = (IF Wanted = <<>> THEN "done" ELSE "send")
      /\ outcome' = (IF Wanted = <<>> THEN "nil" ELSE "none")
  BY DEF GetCall, GetInv, GetTypes, vars
<1>2. GetTypes'
  BY <1>1 DEF GetTypes, NoItems, ChunkFrom
<1>3. Stored'
  BY <1>1 DEF GetInv, Stored, HasItem
<1>4. \A k \in WantedKeys : Accumulated'[k] = 0 /\ results'[k] = 0
  BY <1>1 DEF Accumulated, NoItems
<1>5. Counts'
  BY <1>1, <1>4, PositionsType DEF Counts, ChunkFrom
<1>6. GetIsTrue'
  <2>1. Wanted = <<>> => WantedKeys = {}
    BY DEF WantedKeys, Positions
  <2> QED BY <1>1, <2>1 DEF GetIsTrue
<1> QED BY <1>2, <1>3, <1>5, <1>6 DEF GetInv

(* One more key is read: its count becomes one if it has an item.          *)
LEMMA ReadInv ==
  ASSUME GetInv, NEW i \in Positions, ReadKey(i), UNCHANGED vars
  PROVE  GetInv'
<1> DEFINE k == Wanted[i]
<1>1. /\ at = "send" /\ i \in unread /\ unread' = unread \ {i}
      /\ response' = (IF HasItem(k) THEN response \cup {k} ELSE response)
      /\ UNCHANGED <<at, first, allItems, results, outcome, present, stored>>
  BY DEF ReadKey, vars
<1>2. k \in WantedKeys /\ \A j \in Positions : j # i => Wanted[j] # k
  BY PositionsType
<1>3. GetTypes'
  BY <1>1, <1>2 DEF GetInv, GetTypes, ChunkFrom, NoItems
<1>4. Stored' /\ \A l : HasItem(l)' <=> HasItem(l)
  BY <1>1 DEF GetInv, Stored, HasItem
<1>5. \A l, n : IsRight(l, n) => IsRight(l, n)'
  BY <1>1, <1>4 DEF IsRight
<1>6. \A l \in WantedKeys : l # k => Accumulated'[l] = Accumulated[l]
  BY <1>1 DEF Accumulated
<1>7. Accumulated[k] = 0 /\ Accumulated'[k] = (IF HasItem(k) THEN 1 ELSE 0)
  <2>1. Accumulated[k] = 0
    BY <1>1 DEF GetInv, Counts
  <2>2. allItems[k] = 0 /\ k \notin response
    BY <1>2, <2>1, AccumulatedType DEF GetInv, GetTypes
  <2> QED BY <1>1, <1>2, <2>1, <2>2 DEF Accumulated
<1>8. IsRight(k, Accumulated[k])'
  BY <1>1, <1>4, <1>7 DEF GetInv, Stored, IsRight
<1>9. Counts'
  <2> SUFFICES ASSUME NEW j \in Positions
               PROVE  /\ j < first => IsRight(Wanted[j], results[Wanted[j]])'
                      /\ first <= j => results[Wanted[j]] = 0
                      /\ j \in ChunkFrom(first) \ unread' => IsRight(Wanted[j], Accumulated[Wanted[j]])'
                      /\ j \notin ChunkFrom(first) \ unread' => Accumulated'[Wanted[j]] = 0
    BY <1>1 DEF Counts, ChunkFrom
  <2>1. CASE j = i
    BY <1>1, <1>5, <1>8, <2>1 DEF GetInv, GetTypes, Counts
  <2>2. CASE j # i
    BY <1>1, <1>2, <1>5, <1>6, <2>2, PositionsType DEF GetInv, GetTypes, Counts
  <2> QED BY <2>1, <2>2
<1> QED BY <1>1, <1>3, <1>4, <1>9 DEF GetInv, GetTypes, GetIsTrue

(* A call that gives up claims nothing.                                    *)
LEMMA GiveUpInv ==
  ASSUME GetInv, GiveUp, UNCHANGED vars
  PROVE  GetInv'
<1>1. /\ at' = "done" /\ outcome' = "error" /\ first' = 1 /\ unread' = {}
      /\ response' = {} /\ allItems' = NoItems /\ results' = NoItems /\ present' = {}
      /\ UNCHANGED stored
  BY DEF GiveUp, vars
<1>2. GetTypes'
  BY <1>1 DEF GetTypes, NoItems
<1> QED BY <1>1, <1>2 DEF GetInv, Stored, Counts, GetIsTrue

(* What was read in a chunk is kept over a pause.                          *)
LEMMA PauseInv ==
  ASSUME GetInv, at = "send", Pause, UNCHANGED vars
  PROVE  GetInv'
<1>1. /\ at' = "pause" /\ allItems' = Accumulated /\ response' = {}
      /\ UNCHANGED <<first, unread, results, outcome, present, stored>>
  BY DEF Pause, vars
<1>2. GetTypes'
  BY <1>1, AccumulatedType DEF GetInv, GetTypes, ChunkFrom
<1>3. \A k \in WantedKeys : Accumulated'[k] = Accumulated[k]
  BY <1>1, AccumulatedType DEF GetInv, Accumulated
<1>4. Stored' /\ \A k, n : IsRight(k, n) => IsRight(k, n)'
  BY <1>1 DEF GetInv, Stored, IsRight, HasItem
<1>5. Counts'
  BY <1>1, <1>3, <1>4, PositionsType DEF GetInv, Counts, ChunkFrom
<1> QED BY <1>1, <1>2, <1>4, <1>5 DEF GetInv, GetTypes, GetIsTrue

(* The counts of a chunk that is through become results.                   *)
LEMMA ChunkInv ==
  ASSUME GetInv, at = "send", NextChunk, UNCHANGED vars
  PROVE  GetInv'
<1> DEFINE next == first + GetSize
<1>1. /\ unread = {} /\ response' = {} /\ allItems' = NoItems
      /\ results' = [k \in WantedKeys |-> results[k] + Accumulated[k]]
      /\ UNCHANGED <<present, stored>>
      /\ IF next \in Positions
         THEN first' = next /\ unread' = ChunkFrom(next) /\ UNCHANGED <<at, outcome>>
         ELSE at' = "done" /\ outcome' = "nil" /\ first' = 1 /\ unread' = {}
  BY DEF NextChunk, vars
<1>2. next \in Nat \ {0} /\ first < next /\ ChunkFrom(first) = {i \in Positions : first <= i /\ i < next}
  BY PositionsType DEF GetInv, GetTypes, ChunkFrom
<1>3. Stored' /\ \A k, n : IsRight(k, n) => IsRight(k, n)'
  BY <1>1 DEF GetInv, Stored, IsRight, HasItem
<1>4. GetTypes'
  <2>1. results' \in [WantedKeys -> Nat]
    BY <1>1, AccumulatedType DEF GetInv, GetTypes
  <2>2. allItems' \in [WantedKeys -> Nat]
    BY <1>1 DEF NoItems
  <2>3. outcome # "nil"
    BY DEF GetInv, GetTypes
  <2> QED BY <1>1, <1>2, <2>1, <2>2, <2>3 DEF GetInv, GetTypes, ChunkFrom
<1>5. \A k \in WantedKeys : Accumulated'[k] = 0
  BY <1>1 DEF Accumulated, NoItems
<1>6. ASSUME NEW i \in Positions
      PROVE  /\ i < next => IsRight(Wanted[i], results[Wanted[i]])'
             /\ next <= i => results'[Wanted[i]] = 0
  <2> DEFINE k == Wanted[i]
  <2>1. k \in WantedKeys /\ i \in Nat
    BY PositionsType
  <2>2. /\ results'[k] = results[k] + Accumulated[k]
        /\ results[k] \in Nat /\ Accumulated[k] \in Nat
    BY <1>1, <2>1, AccumulatedType DEF GetInv, GetTypes
  <2>3. CASE i < first
    <3>1. results[k] = results'[k] /\ IsRight(k, results[k])
      BY <1>1, <1>2, <2>1, <2>2, <2>3 DEF GetInv, GetTypes, Counts
    <3> QED BY <1>2, <1>3, <2>1, <2>3, <3>1 DEF GetInv, GetTypes
  <2>4. CASE first <= i /\ i < next
    <3>1. Accumulated[k] = results'[k] /\ IsRight(k, Accumulated[k])
      BY <1>1, <1>2, <2>1, <2>2, <2>4 DEF GetInv, Counts
    <3> QED BY <1>2, <1>3, <2>1, <2>4, <3>1
  <2>5. CASE next <= i
    BY <1>1, <1>2, <2>1, <2>2, <2>5 DEF GetInv, GetTypes, Counts
  <2> QED BY <1>2, <2>1, <2>3, <2>4, <2>5 DEF GetInv, GetTypes
<1>7. CASE next \in Positions
  <2>1. Counts'
    BY <1>1, <1>5, <1>6, <1>7, PositionsType DEF Counts
  <2> QED BY <1>1, <1>3, <1>4, <1>7, <2>1 DEF GetInv, GetTypes, GetIsTrue
<1>8. CASE next \notin Positions
  <2>1. \A i \in Positions : i < next
    BY <1>2, <1>8, PositionsType
  <2>2. GetIsTrue'
    BY <1>6, <2>1 DEF GetIsTrue, IsRight, WantedKeys
  <2>3. Counts'
    BY <1>1, <1>8 DEF Counts
  <2> QED BY <1>3, <1>4, <2>2, <2>3 DEF GetInv
<1> QED BY <1>7, <1>8

(* After a pause nothing has changed.                                      *)
LEMMA ResumeGetInv ==
  ASSUME GetInv, GetResume, UNCHANGED vars
  PROVE  GetInv'
<1>1. CASE GiveUp
  BY <1>1, GiveUpInv
<1>2. CASE /\ at = "pause" /\ at' = "send"
           /\ UNCHANGED <<first, unread, response, allItems, results, outcome, present>>
  <2>1. UNCHANGED <<stored, Accumulated>> /\ \A k, n : IsRight(k, n) => IsRight(k, n)'
    BY <1>2 DEF vars, Accumulated, IsRight, HasItem
  <2>2. GetTypes' /\ Stored'
    BY <1>2, <2>1 DEF GetInv, GetTypes, Stored, HasItem, ChunkFrom, NoItems
  <2>3. Counts'
    BY <1>2, <2>1 DEF GetInv, Counts, ChunkFrom
  <2> QED BY <1>2, <2>2, <2>3 DEF GetInv, GetTypes, GetIsTrue
<1> QED BY <1>1, <1>2 DEF GetResume

-------------------------------------------------------------------------------
(* A BatchGet that returns no error has one item for each key that had one *)
(* when it began, at most one for any key, and none that was never stored: *)
(* for every list of distinct keys, chunk size and number of retries, and  *)
(* whatever the BatchPut beside it does.                                   *)
THEOREM GetIsHonest == BothSpec => []GetIsTrue
<1>1. Init /\ GetInit => GetInv
  BY GetInitInv
<1>2. GetInv /\ [BothNext]_bothVars => GetInv'
  <2> SUFFICES ASSUME GetInv, [BothNext]_bothVars
               PROVE  GetInv'
    OBVIOUS
  <2>1. CASE [Next]_vars /\ UNCHANGED getVars
    BY <2>1, PutInv
  <2>2. CASE GetCall /\ UNCHANGED vars
    BY <2>2, CallInv
  <2>3. CASE GetAnswer /\ UNCHANGED vars
    BY <2>3, PauseInv, ChunkInv, GiveUpInv DEF GetAnswer
  <2>4. CASE GetResume /\ UNCHANGED vars
    BY <2>4, ResumeGetInv
  <2>5. ASSUME NEW i \in Positions, ReadKey(i), UNCHANGED vars
        PROVE  GetInv'
    BY <2>5, ReadInv
  <2> QED BY <2>1, <2>2, <2>3, <2>4, <2>5 DEF BothNext, GetStep, bothVars
<1>3. GetInv => GetIsTrue
  BY DEF GetInv
<1> QED BY <1>1, <1>2, <1>3, PTL DEF BothSpec, BothInit

===============================================================================
