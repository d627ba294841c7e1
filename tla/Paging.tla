-------------------------------- MODULE Paging --------------------------------
(***************************************************************************)
(* One call that reads a table page by page: Query, Scan and               *)
(* QueryCollection, which collect the items, and the iterators QueryIter,  *)
(* ScanIter and CollectionIter, which hand them to a consumer one by one   *)
(* (query.go, scan.go, iter.go, collection.go).  Others write to the table *)
(* between two pages.                                                      *)
(*                                                                         *)
(* The backend is the in-memory one or DynamoDB itself ("service"), which  *)
(* may end a page early, orders numbers as numbers, and continues after a  *)
(* start key whether or not its item is still there.                       *)
(***************************************************************************)
EXTENDS MemPages

CONSTANTS
  TableSchema,     \* the keys of the table and of its indexes
  KeyType,         \* the type DynamoDB has been told of each key attribute
  Tables,          \* the states of the table in which a call may begin
  Calls,           \* the calls that may be made
  Puts,            \* the items that others may put
  Decodes(_),      \* can the item be unmarshalled into the caller's type?
  MaxChanges,      \* how many writes of others happen during the call
  MaxTaken         \* how many items the consumer of an iterator takes at most

VARIABLES
  backend,         \* "memdb" or "service"
  table,
  changes,         \* writes of others so far
  call,            \* what was called: api, index, parts, forward, filter, limit
  pc,              \* "fetch", "items", or how the call ended
  start, limit,    \* ExclusiveStartKey and Limit of the next request
  page,            \* items of the current page not handled yet
  last,            \* LastEvaluatedKey of the current page
  results,         \* what the call has collected or yielded
  stayed,          \* history: what the call should find and nobody touched
  removed          \* history: did an entry of what the call reads disappear?

vars == <<backend, table, changes, call, pc, start, limit, page, last, results, stayed, removed>>

Apis == {"Query", "Scan", "QueryCollection", "QueryIter", "ScanIter", "CollectionIter"}

(* A limit of zero or less is none; a scan has no direction.               *)
ASSUME PagingAssumption ==
  /\ MaxChanges \in Nat
  /\ \A c \in Calls : /\ c.api \in Apis /\ c.limit \in Int
                      /\ c.forward \in BOOLEAN /\ (c.api \in {"Scan", "ScanIter"} => c.forward)

(* The values that may be keys, and the states a table can be in: finite,  *)
(* with items and entries under their own keys.                            *)
IsTypedKey(v) ==
  /\ v = <<TypeOf(v), Payload(v)>>
  /\ \/ TypeOf(v) \in {"S", "B"} /\ Payload(v) \in Seq(Nat)
     \/ TypeOf(v) = "N" /\ Payload(v) \in Int

WellKept(t) ==
  /\ IsTable(t)
  /\ IsFiniteSet(DOMAIN t.items) /\ UnderTheirKeys(TableSchema.key, t.items)
  /\ \A g \in Index :
       /\ IsFiniteSet(DOMAIN t.gsis[g]) /\ UnderTheirKeys(TableSchema.gsis[g], t.gsis[g])
       /\ \A k \in DOMAIN t.gsis[g] : KeyOf(TableSchema.key, t.gsis[g][k]) # NoKey

ASSUME TableAssumption ==
  /\ TableSchema \in Schema /\ NoIndex \notin Index
  /\ \A v \in KeyValue : IsTypedKey(v)
  /\ \A t \in Tables : WellKept(t)
  /\ \A x \in Puts : x \in Item /\ KeyOf(TableSchema.key, x) # NoKey

Scans       == call.api \in {"Scan", "ScanIter"}
Collects    == call.api \in {"Query", "Scan", "QueryCollection"}
Polymorphic == call.api \in {"QueryCollection", "CollectionIter"}

Running == pc \in {"fetch", "items"}

-------------------------------------------------------------------------------
(* DynamoDB.  The entries of an index are the items that have its key      *)
(* attributes, ordered by the key of the index and then that of the table. *)

ServiceDef(index) == IF index = NoIndex THEN TableSchema.key ELSE TableSchema.gsis[index]

(* It refuses an item with a key attribute that is not of its type.        *)
Accepts(x) ==
  \A index \in Index \cup {NoIndex} : \A a \in KeyAttrs(ServiceDef(index)) \cap DOMAIN x :
    x[a] \in KeyValue /\ TypeOf(x[a]) = KeyType[a]

ServiceItems(t, index) ==
  {x \in {t.items[k] : k \in DOMAIN t.items} : KeyOf(ServiceDef(index), x) # NoKey}

ServiceKey(index, x) ==
  LET own  == KeyOf(ServiceDef(index), x)
      base == KeyOf(TableSchema.key, x)
  IN  <<own[1], own[2], base[1], base[2]>>

ServiceLess(index, x, y) ==
  LET k == ServiceKey(index, x)
      l == ServiceKey(index, y)
  IN  \E i \in 1..4 : /\ k[i] # NoRange
                      /\ CompareKeyValues(k[i], l[i]) < 0
                      /\ \A j \in 1..(i - 1) : k[j] = l[j]

MemLess(index, x, y) == KeyLess(KeyOf(ServiceDef(index), x), KeyOf(ServiceDef(index), y))

(* Does x come before y in the order of the call?                          *)
Before(x, y) ==
  LET less(u, v) == IF backend = "memdb" THEN MemLess(call.index, u, v)
                    ELSE ServiceLess(call.index, u, v)
  IN  IF call.forward THEN less(x, y) ELSE less(y, x)

(* What the call ranges over, before the filter.                           *)
Entries(t) ==
  LET def  == ServiceDef(call.index)
      cond == ParseKeyCondition(def, call.parts)
      src  == Source(TableSchema, t, call.index).items
      all  == IF backend = "memdb" THEN {src[k] : k \in DOMAIN src}
              ELSE ServiceItems(t, call.index)
  IN  IF call.index \notin Index \cup {NoIndex} THEN {}
      ELSE IF Scans THEN all
      ELSE IF cond = Err THEN {}
      ELSE {x \in all : x[def.hash] = cond.hash /\ MatchesSort(def, cond.sort, x)}

(* The pages DynamoDB may answer with: it evaluates at least one item if   *)
(* there is one, and says where it stopped unless it has reached the end;  *)
(* having evaluated "limit" items, it does not know whether it has.        *)
ServicePages ==
  LET candidates == {x \in Entries(table) : start = NoItem \/ Before(start, x)}
      order  == {xy \in candidates \X candidates : Before(xy[1], xy[2])}
      all    == Cardinality(candidates)
      lek(x) == [a \in KeyAttrs(TableSchema.key) \cup KeyAttrs(ServiceDef(call.index)) |-> x[a]]
      cut(n) ==
        LET evaluated == FirstOf(candidates, order, n)
        IN  [items |-> InOrderOf({x \in evaluated : Filtered(call.filter, x) = "true"}, order),
             last  |-> IF n > 0 /\ (n < all \/ n = limit) THEN lek(LastOf(evaluated, order)) ELSE NoItem]
      sizes  == {n \in 0..all : (n = 0 => all = 0) /\ (limit > 0 => n <= limit)}
  IN  IF \/ call.index \notin Index \cup {NoIndex}
         \/ ~Scans /\ ParseKeyCondition(ServiceDef(call.index), call.parts) = Err
         \/ \E x \in candidates : Filtered(call.filter, x) = "error"
      THEN {}
      ELSE {cut(n) : n \in sizes}

MemPage ==
  LET req == [index |-> call.index, parts |-> call.parts, forward |-> call.forward,
              filter |-> call.filter, limit |-> limit, start |-> start]
  IN  IF Scans THEN ScanPage(TableSchema, table, req) ELSE QueryPage(TableSchema, table, req)

Pages == IF backend = "memdb" THEN {MemPage} \ {Err} ELSE ServicePages

-------------------------------------------------------------------------------
(* What the caller asked for: the entries the filter lets through, without *)
(* those a polymorphic call skips because it cannot tell their type.       *)
Wanted(x) ==
  /\ Filtered(call.filter, x) = "true"
  /\ Polymorphic => Decodes(x)

EntryKeys(t) == {KeyOf(ServiceDef(call.index), x) : x \in Entries(t)}

Init ==
  /\ backend \in {"memdb", "service"}
  /\ table \in Tables
  /\ backend = "service" => \A k \in DOMAIN table.items : Accepts(table.items[k])
  /\ call \in Calls
  /\ changes = 0
  /\ pc = "fetch"
  /\ start = NoItem /\ limit = (IF call.limit > 0 THEN call.limit ELSE 0)
  /\ page = <<>> /\ last = NoItem
  /\ results = <<>>
  /\ stayed = {x \in Entries(table) : Wanted(x)}
  /\ removed = FALSE

-------------------------------------------------------------------------------
(* Others put and delete items.                                            *)
Change(t) ==
  /\ Running /\ changes < MaxChanges
  /\ table' = t
  /\ changes' = changes + 1
  /\ stayed' = stayed \cap Entries(t)
  /\ removed' = (removed \/ ~(EntryKeys(table) \subseteq EntryKeys(t)))
  /\ UNCHANGED <<backend, call, pc, start, limit, page, last, results>>

PutItem ==
  \E x \in Puts :
    /\ backend = "service" => Accepts(x)
    /\ Change(Store(TableSchema, table, KeyOf(TableSchema.key, x), x))

DeleteItem == \E k \in DOMAIN table.items : Change(Delete(TableSchema, table, k))

-------------------------------------------------------------------------------
(* The call.                                                               *)

Return(how) ==
  /\ pc' = how
  /\ page' = <<>> /\ last' = NoItem
  /\ start' = NoItem /\ limit' = 0

(* An error: a call that collects returns nil and the error, an iterator   *)
(* yields the error last.                                                  *)
ReturnError ==
  /\ Return("failed")
  /\ results' = IF Collects THEN <<>> ELSE results

(* The backend, or a middleware around it, answers with an error; the      *)
(* in-memory backend refuses what it cannot parse or evaluate.             *)
FetchFails ==
  /\ pc = "fetch"
  /\ ReturnError
  /\ UNCHANGED <<backend, table, changes, call, stayed, removed>>

Fetch ==
  /\ pc = "fetch"
  /\ \E p \in Pages :
       /\ pc' = "items"
       /\ page' = p.items /\ last' = p.last
  /\ UNCHANGED <<backend, table, changes, call, start, limit, results, stayed, removed>>

(* A faulty LimitReached: the limits of the requests are relied on.        *)
LimitNeverReached(n) == FALSE

LimitReached(n) == call.limit > 0 /\ n >= call.limit

(* The next item is unmarshalled, and collected or yielded.  A consumer    *)
(* may break out of its loop after any item.                               *)
Take ==
  /\ pc = "items" /\ page # <<>> /\ Decodes(Head(page))
  /\ results' = Append(results, Head(page))
  /\ \/ /\ Collects /\ LimitReached(Len(results'))
        /\ Return("limit")
     \/ /\ ~Collects
        /\ Return("stopped")
     \/ /\ IF Collects THEN ~LimitReached(Len(results')) ELSE Len(results') < MaxTaken
        /\ page' = Tail(page)
        /\ UNCHANGED <<pc, start, limit, last>>
  /\ UNCHANGED <<backend, table, changes, call, stayed, removed>>

(* An item that cannot be unmarshalled is skipped by the polymorphic calls *)
(* and an error for the others.                                            *)
Undecodable ==
  /\ pc = "items" /\ page # <<>> /\ ~Decodes(Head(page))
  /\ \/ /\ Polymorphic
        /\ page' = Tail(page)
        /\ UNCHANGED <<pc, start, limit, last, results>>
     \/ ~Polymorphic /\ ReturnError
  /\ UNCHANGED <<backend, table, changes, call, stayed, removed>>

(* A faulty NextLimit: off by one.                                         *)
NextLimitShort ==
  IF call.api \in {"Query", "Scan"} /\ call.limit > 0
  THEN call.limit - Len(results) - 1 ELSE limit

(* The limit of the next request: what remains, in Query and Scan; the     *)
(* others build the request anew with the caller's limit.                  *)
NextLimit ==
  IF call.api \in {"Query", "Scan"} /\ call.limit > 0
  THEN call.limit - Len(results) ELSE limit

EndPage ==
  /\ pc = "items" /\ page = <<>>
  /\ IF last = NoItem THEN Return("done")
     ELSE /\ pc' = "fetch"
          /\ start' = last
          /\ limit' = NextLimit
          /\ UNCHANGED <<page, last>>
  /\ UNCHANGED <<backend, table, changes, call, results, stayed, removed>>

Step == FetchFails \/ Fetch \/ Take \/ Undecodable \/ EndPage

Next == Step \/ PutItem \/ DeleteItem

(* The caller's goroutine keeps running, and a backend answers each        *)
(* request, be it with an error.  Nobody has to write to the table.        *)
Spec == Init /\ [][Next]_vars /\ WF_vars(Step)

-------------------------------------------------------------------------------
(* Properties.                                                             *)

(* The type of the state: in particular, a request of a call with a limit  *)
(* never goes out without one, which would make it ask for everything.     *)
TypeOK ==
  /\ backend \in {"memdb", "service"}
  /\ IsTable(table)
  /\ changes \in 0..MaxChanges
  /\ call \in Calls /\ call.api \in Apis
  /\ pc \in {"fetch", "items", "done", "limit", "stopped", "failed"}
  /\ start \in Item /\ last \in Item
  /\ limit \in 0..(IF call.limit > 0 THEN call.limit ELSE 0)
  /\ Running /\ call.limit > 0 => limit > 0
  /\ page \in Seq(Item) /\ results \in Seq(Item)
  /\ stayed \subseteq Item
  /\ removed \in BOOLEAN

(* The in-memory backend cannot find the place where a page of an index    *)
(* ended: the key to continue after does not have the index's range key.   *)
LosesPlace ==
  /\ backend = "memdb" /\ ~Scans /\ call.index \in Index
  /\ TableSchema.gsis[call.index].range \notin KeyAttrs(TableSchema.key) \cup {NoRange}

(* No item is returned twice, and they come in the order of the key, over  *)
(* all pages and whatever is written in between.  The in-memory backend    *)
(* starts again when the entry it would continue after has disappeared.    *)
InOrder ==
  ~LosesPlace /\ (backend = "memdb" => ~removed) =>
    \A i, j \in DOMAIN results : i < j => Before(results[i], results[j])

(* An entry that nobody touches during the call is returned: the call does *)
(* not end without it, and does not get past it.                           *)
NothingSkipped ==
  pc # "failed" =>
    \A x \in stayed :
      \/ \E i \in DOMAIN results : results[i] = x
      \/ pc # "done" /\ \A i \in DOMAIN results : ~Before(x, results[i])

(* "The maximum number of items to return across all pages" (query.go:116, *)
(* scan.go:34): kept by the calls that collect.                            *)
LimitKept == Collects /\ call.limit > 0 => Len(results) <= call.limit

(* The same of the iterators, which take the same options.                 *)
IterLimitKept == ~Collects /\ call.limit > 0 => Len(results) <= call.limit

(* A call comes to an end, with few items per page, filters that let       *)
(* nothing through, and writes in between; not so where the place of a     *)
(* page is lost, because the same page can then be fetched for ever.       *)
CallReturns == ~LosesPlace ~> ~Running

===============================================================================
