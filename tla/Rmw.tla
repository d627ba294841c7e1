--------------------------------- MODULE Rmw ----------------------------------
(***************************************************************************)
(* ReadModifyWrite (rmw.go): concurrent callers that each read one item,   *)
(* change it and put it back, with or without OptimisticLock.              *)
(*                                                                         *)
(* The content of the item is the sequence of the callers whose changes it *)
(* carries; the change of caller c appends c.  The backend stores the item *)
(* and compares the version in one step, but a Get without ConsistentRead, *)
(* which is what ReadModifyWrite issues, may return an earlier state of    *)
(* the item.  A call to the backend may fail, and a Put that fails may     *)
(* have been carried out.                                                  *)
(***************************************************************************)
EXTENDS Integers, Sequences

CONSTANTS
  Callers,            \* one call of ReadModifyWrite each
  Locked,             \* those that pass OptimisticLock
  MaxRetries,         \* the MaxRetries of each caller
  MinVersion,         \* the range of the integer field that holds the version
  MaxVersion,
  FnVersion(_, _),    \* what the callback of a caller makes of the version
  Stale,              \* whether the backend's plain reads may be stale
  Absent,             \* the state of an item that does not exist
  NoVersion,          \* the version of an item that has no version attribute
  Initial             \* the states of the item when the calls start

VARIABLES
  item,       \* the stored item
  past,       \* its earlier states
  pc,         \* where each caller is
  attempt,    \* how often it has retried
  copy,       \* its copy of the item
  expected,   \* the version its Put asks for
  outcome     \* what its call returned

vars == <<item, past, pc, attempt, copy, expected, outcome>>

Version == MinVersion..MaxVersion

Copy == [log : Seq(Callers), version : Version]

Stored == [log : Seq(Callers), version : Version \cup {NoVersion}]

Fresh(version) == [log |-> <<>>, version |-> version]

ASSUME RmwAssumption ==
  /\ Locked \subseteq Callers
  /\ MaxRetries \in [Callers -> Int]
  /\ MinVersion \in Int /\ MaxVersion \in Nat /\ MinVersion <= 0
  /\ NoVersion \notin Int /\ Absent \notin Stored
  /\ \A c \in Callers, v \in MinVersion..MaxVersion :
       FnVersion(c, v) \in MinVersion..MaxVersion
  /\ Stale \in BOOLEAN
  /\ Initial \subseteq {Absent} \cup {Fresh(v) : v \in Version \cup {NoVersion}}

-------------------------------------------------------------------------------
Init ==
  /\ item \in Initial
  /\ past = {}
  /\ pc = [c \in Callers |-> "loop"]
  /\ attempt = [c \in Callers |-> 0]
  /\ copy = [c \in Callers |-> Fresh(0)]
  /\ expected = [c \in Callers |-> 0]
  /\ outcome = [c \in Callers |-> "none"]

Return(c, result) ==
  /\ pc' = [pc EXCEPT ![c] = "done"]
  /\ outcome' = [outcome EXCEPT ![c] = result]

(* A faulty Bump: the highest version stays.                               *)
BumpStays(version) == IF version = MaxVersion THEN version ELSE version + 1

(* setVersionField: an integer field wraps around.                         *)
Bump(version) == IF version = MaxVersion THEN MinVersion ELSE version + 1

(* A faulty Unmarshal: the missing attribute stays missing.                *)
UnmarshalAsIs(seen) == [log |-> seen.log, version |-> seen.version]

(* The struct field of an attribute that is not there is zero.             *)
Unmarshal(seen) ==
  [log |-> seen.log, version |-> IF seen.version = NoVersion THEN 0 ELSE seen.version]

(* The loop is left when the retries are used up.  With a negative         *)
(* MaxRetries that is before anything was read.                            *)
GiveUp(c) ==
  /\ pc[c] = "loop" /\ attempt[c] > MaxRetries[c]
  /\ Return(c, "condition failed")
  /\ UNCHANGED <<item, past, attempt, copy, expected>>

Read(c) ==
  /\ pc[c] = "loop" /\ attempt[c] <= MaxRetries[c]
  /\ \/ \E seen \in {item} \cup (IF Stale THEN past ELSE {}) :
          \/ /\ seen = Absent
             /\ Return(c, "not found")
             /\ UNCHANGED copy
          \/ /\ seen # Absent
             /\ pc' = [pc EXCEPT ![c] = "modify"]
             /\ copy' = [copy EXCEPT ![c] = Unmarshal(seen)]
             /\ UNCHANGED outcome
     \/ Return(c, "error") /\ UNCHANGED copy
  /\ UNCHANGED <<item, past, attempt, expected>>

(* The callback, then the condition on the version it leaves and the next  *)
(* version.  The callback may fail; so does the version of an item type    *)
(* that has no numeric field for it.                                       *)
Modify(c) ==
  LET version == FnVersion(c, copy[c].version)
  IN  /\ pc[c] = "modify"
      /\ \/ /\ \E result \in {"fn error"} \cup (IF c \in Locked THEN {"invalid"} ELSE {}) :
                 Return(c, result)
            /\ UNCHANGED <<copy, expected>>
         \/ /\ pc' = [pc EXCEPT ![c] = "write"]
            /\ copy' = [copy EXCEPT ![c] =
                 [log |-> Append(@.log, c),
                  version |-> IF c \in Locked THEN Bump(version) ELSE version]]
            /\ expected' = [expected EXCEPT ![c] = version]
            /\ UNCHANGED outcome
      /\ UNCHANGED <<item, past, attempt>>

(* A faulty Accepts: the Put has no condition.                             *)
AcceptsAlways(c) == TRUE

(* The condition of the Put: an item that is missing, or has no version,   *)
(* does not have the expected one.                                         *)
Accepts(c) ==
  c \in Locked => item # Absent /\ item.version = expected[c]

(* A faulty Retry: it is not counted.                                      *)
RetryUncounted(c) ==
  /\ pc' = [pc EXCEPT ![c] = "loop"]
  /\ UNCHANGED <<attempt, outcome>>

Retry(c) ==
  /\ pc' = [pc EXCEPT ![c] = "loop"]
  /\ attempt' = [attempt EXCEPT ![c] = @ + 1]
  /\ UNCHANGED outcome

Write(c) ==
  /\ pc[c] = "write"
  /\ \/ /\ Accepts(c)
        /\ item' = copy[c]
        /\ past' = past \cup {item}
        /\ \E result \in {"ok", "error"} : Return(c, result)
        /\ UNCHANGED attempt
     \/ /\ ~Accepts(c)
        /\ \/ attempt[c] < MaxRetries[c] /\ Retry(c)
           \/ attempt[c] >= MaxRetries[c] /\ Return(c, "condition failed") /\ UNCHANGED attempt
        /\ UNCHANGED <<item, past>>
     \/ Return(c, "error") /\ UNCHANGED <<item, past, attempt>>
  /\ UNCHANGED <<copy, expected>>

(* Somebody else deletes the item.                                         *)
Remove ==
  /\ item # Absent
  /\ item' = Absent
  /\ past' = past \cup {item}
  /\ UNCHANGED <<pc, attempt, copy, expected, outcome>>

-------------------------------------------------------------------------------
Step(c) == GiveUp(c) \/ Read(c) \/ Modify(c) \/ Write(c)

Next == Remove \/ \E c \in Callers : Step(c)

(* A caller that is not waiting for the backend goes on, and the backend   *)
(* answers or fails.                                                       *)
Spec == Init /\ [][Next]_vars /\ \A c \in Callers : WF_vars(Step(c))

-------------------------------------------------------------------------------
TypeOK ==
  /\ item \in Stored \cup {Absent}
  /\ past \subseteq Stored \cup {Absent}
  /\ pc \in [Callers -> {"loop", "modify", "write", "done"}]
  /\ attempt \in [Callers -> Nat]
  /\ copy \in [Callers -> Copy]
  /\ expected \in [Callers -> Version]
  /\ outcome \in [Callers -> {"none", "ok", "error", "condition failed",
                              "not found", "fn error", "invalid"}]

History == past \cup {item}

(* No caller without OptimisticLock has written so far.                    *)
AllLocked ==
  \A s \in History : s # Absent => \A i \in DOMAIN s.log : s.log[i] \in Locked

(* The version may have wrapped, but has not come round to a value it had. *)
NotComeRound == \A s \in History : s # Absent => Len(s.log) <= MaxVersion - MinVersion

(* What OptimisticLock is for ("to prevent lost updates", the guide's      *)
(* section 9): as long as only callers with the lock write, and the        *)
(* version has not come round, a write adds one change to the item's       *)
(* current content, however stale the state that was read and however the  *)
(* callers interleave, retry and fail.                                     *)
WritesOnTop ==
  [][AllLocked' /\ NotComeRound' /\ item' \notin {item, Absent} =>
       /\ item # Absent
       /\ \E c \in Locked : item'.log = Append(item.log, c)]_vars

(* So the change of every call that returned success is in the item, once, *)
(* until the item is deleted.                                              *)
NoLostUpdate ==
  AllLocked /\ NotComeRound /\ item # Absent =>
    \A c \in Locked :
      /\ outcome[c] = "ok" => \E i \in DOMAIN item.log : item.log[i] = c
      /\ \A i, j \in DOMAIN item.log : item.log[i] = c /\ item.log[j] = c => i = j

(* Every call returns.                                                     *)
EveryCallReturns == \A c \in Callers : <>(pc[c] = "done")

===============================================================================
