------------------------------- MODULE BatchGet -------------------------------
(***************************************************************************)
(* BatchGet (batch.go) beside a BatchPut, the writes of BatchWrite, on the *)
(* same table.  It reads its keys in chunks, one chunk after the other,    *)
(* and asks again after a pause for the keys a response leaves out; an     *)
(* error gives up what was read.                                           *)
(*                                                                         *)
(* The backend reads the keys of a request one by one, in any order, and a *)
(* key nobody has written has no item.  The caller's context may end in    *)
(* any pause.                                                              *)
(***************************************************************************)
EXTENDS BatchWrite

CONSTANTS
  Wanted,   \* the keys of the call
  GetSize   \* maxBatchGetItems: 100 in the code

Positions == DOMAIN Wanted

(* The keys of a call are distinct; DynamoDB refuses others.               *)
ASSUME GetAssumption ==
  /\ Wanted \in Seq(Keys \cup {Wanted[i] : i \in Positions})
  /\ \A i, j \in Positions : Wanted[i] = Wanted[j] => i = j
  /\ GetSize \in Nat \ {0}

VARIABLES
  at,        \* "idle", "send", "pause" or "done"
  first,     \* the first position of the current chunk
  unread,    \* its positions that are still to be read
  response,  \* the keys whose items are in the response on its way
  allItems,  \* how many items of each key the chunk has so far
  results,   \* how many the chunks before it have
  tries,     \* how often the chunk's rest was asked for again
  outcome,   \* what the call returned
  present    \* the keys that had an item when the call began

getVars  == <<at, first, unread, response, allItems, results, tries, outcome, present>>
bothVars == <<vars, getVars>>

-------------------------------------------------------------------------------
ChunkFrom(n) == {i \in Positions : n <= i /\ i < n + GetSize}

WantedKeys == {Wanted[i] : i \in Positions}

HasItem(k) == k \in Keys /\ stored[k] # NoWrite

NoItems == [k \in WantedKeys |-> 0]

GetInit ==
  /\ at = "idle" /\ first = 1 /\ unread = {}
  /\ response = {} /\ allItems = NoItems /\ results = NoItems
  /\ tries = 0 /\ outcome = "none" /\ present = {}

(* Without keys the call returns at once, with no items.                   *)
GetCall ==
  /\ at = "idle"
  /\ at' = IF Wanted = <<>> THEN "done" ELSE "send"
  /\ outcome' = IF Wanted = <<>> THEN "nil" ELSE "none"
  /\ unread' = ChunkFrom(first)
  /\ present' = {k \in WantedKeys : HasItem(k)}
  /\ UNCHANGED <<first, response, allItems, results, tries>>

(* The backend reads a key.                                                *)
ReadKey(i) ==
  /\ at = "send" /\ i \in unread
  /\ unread' = unread \ {i}
  /\ response' = IF HasItem(Wanted[i]) THEN response \cup {Wanted[i]} ELSE response
  /\ UNCHANGED <<at, first, allItems, results, tries, outcome, present>>

(* An error gives up what was read.                                        *)
GiveUp ==
  /\ at' = "done" /\ outcome' = "error"
  /\ first' = 1 /\ unread' = {} /\ response' = {} /\ allItems' = NoItems
  /\ results' = NoItems /\ tries' = 0 /\ present' = {}

(* A faulty Accumulated: a response replaces the ones before it.           *)
LatestOnly == [k \in WantedKeys |-> IF k \in response THEN 1 ELSE 0]

Accumulated == [k \in WantedKeys |-> IF k \in response THEN allItems[k] + 1 ELSE allItems[k]]

AsksAgain == tries < MaxRetries

Pause ==
  /\ unread # {} /\ AsksAgain
  /\ at' = "pause"
  /\ allItems' = Accumulated /\ response' = {}
  /\ UNCHANGED <<first, unread, results, tries, outcome, present>>

(* The chunk is through; its items are unmarshalled, and the next begins.  *)
NextChunk ==
  LET next == first + GetSize
  IN  /\ unread = {}
      /\ results' = [k \in WantedKeys |-> results[k] + Accumulated[k]]
      /\ allItems' = NoItems /\ response' = {} /\ tries' = 0
      /\ IF next \in Positions
         THEN first' = next /\ unread' = ChunkFrom(next) /\ UNCHANGED <<at, outcome>>
         ELSE at' = "done" /\ outcome' = "nil" /\ first' = 1 /\ unread' = {}
      /\ UNCHANGED present

(* The backend answers.                                                    *)
GetAnswer ==
  /\ at = "send"
  /\ \/ Pause
     \/ NextChunk
     \/ GiveUp   \* of the backend, of Unmarshal, or after the last try

(* A faulty NextTry: the tries are not counted.                            *)
SameTry == tries

NextTry == tries + 1

GetResume ==
  /\ at = "pause"
  /\ \/ /\ at' = "send" /\ tries' = NextTry
        /\ UNCHANGED <<first, unread, response, allItems, results, outcome, present>>
     \/ GiveUp   \* the context has ended

GetStep == GetAnswer \/ GetResume \/ \E i \in Positions : ReadKey(i)

BothNext ==
  \/ Next /\ UNCHANGED getVars
  \/ (GetCall \/ GetStep) /\ UNCHANGED vars

BothInit == Init /\ GetInit

(* The backend answers and pauses end.                                     *)
BothSpec ==
  /\ BothInit /\ [][BothNext]_bothVars
  /\ WF_vars(Start) /\ WF_vars(Wait)
  /\ \A n \in Chunks : WF_vars(Step(n))
  /\ WF_getVars(GetStep)

-------------------------------------------------------------------------------
(* A call that returns no error has one item for each key that had one     *)
(* when the call began, at most one for any key, and none for a key nobody *)
(* has written, whatever was left out of responses, asked for again, and   *)
(* written in between.                                                     *)
GetIsTrue ==
  outcome = "nil" =>
    \A k \in WantedKeys :
      /\ results[k] <= 1
      /\ k \in present => results[k] = 1
      /\ results[k] = 1 => HasItem(k)

(* A BatchGet that was called returns, also when keys are left out for     *)
(* ever.                                                                   *)
GetReturns == at # "idle" ~> at = "done"

===============================================================================
