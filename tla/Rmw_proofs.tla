------------------------------ MODULE Rmw_proofs ------------------------------
(***************************************************************************)
(* OptimisticLock prevents lost updates, for any number of callers and     *)
(* retries, whatever stale states the reads return.  The argument: as long *)
(* as only callers with the lock have written and the version has not come *)
(* round, the version of a state says how many changes were made to it,    *)
(* and two states with equally many changes are the same; so the version a *)
(* Put is conditioned on tells whether the item still has the content that *)
(* was read.                                                               *)
(***************************************************************************)
EXTENDS Rmw, TLAPS

(* The callbacks leave the version field alone.                            *)
FnKeepsVersion == \A c \in Locked, v \in Version : FnVersion(c, v) = v

-------------------------------------------------------------------------------
(* Bump stays in the range of the field.                                   *)
LEMMA BumpType == \A v \in Version : Bump(v) \in Version
BY RmwAssumption DEF Bump, Version

(* What is read of a stored item fits the struct.                          *)
LEMMA UnmarshalType == \A s \in Stored : Unmarshal(s) \in Copy
BY RmwAssumption DEF Unmarshal, Stored, Copy, Version

(* A copy may be stored.                                                   *)
LEMMA CopyIsStored == Copy \subseteq Stored
BY DEF Copy, Stored

(* The variables have their types at the start.                            *)
LEMMA InitType == Init => TypeOK
<1> SUFFICES ASSUME Init
             PROVE  TypeOK
  OBVIOUS
<1>1. <<>> \in Seq(Callers)
  OBVIOUS
<1>2. 0 \in Version
  BY RmwAssumption DEF Version
<1>3. Fresh(0) \in Copy /\ \A v \in Version \cup {NoVersion} : Fresh(v) \in Stored
  BY <1>1, <1>2 DEF Fresh, Copy, Stored
<1>4. item \in Stored \cup {Absent}
  <2>1. item = Absent \/ \E v \in Version \cup {NoVersion} : item = Fresh(v)
    BY RmwAssumption DEF Init
  <2> QED BY <1>3, <2>1
<1> QED BY <1>2, <1>3, <1>4 DEF Init, TypeOK

(* Every step keeps the types.                                             *)
LEMMA NextType == TypeOK /\ [Next]_vars => TypeOK'
<1> SUFFICES ASSUME TypeOK, [Next]_vars
             PROVE  TypeOK'
  OBVIOUS
<1>1. CASE UNCHANGED vars
  BY <1>1 DEF TypeOK, vars
<1>2. CASE Remove
  BY <1>2 DEF TypeOK, Remove
<1>3. ASSUME NEW c \in Callers, GiveUp(c)
      PROVE  TypeOK'
  BY <1>3 DEF TypeOK, GiveUp, Return
<1>4. ASSUME NEW c \in Callers, Read(c)
      PROVE  TypeOK'
  <2>1. \A s \in ({item} \cup past) \ {Absent} : Unmarshal(s) \in Copy
    BY UnmarshalType DEF TypeOK
  <2>2. /\ UNCHANGED <<item, past, attempt, expected>>
        /\ \/ UNCHANGED copy /\ \E r \in {"not found", "error"} : Return(c, r)
           \/ /\ pc' = [pc EXCEPT ![c] = "modify"] /\ UNCHANGED outcome
              /\ \E s \in ({item} \cup past) \ {Absent} : copy' = [copy EXCEPT ![c] = Unmarshal(s)]
    BY <1>4 DEF Read
  <2> QED BY <2>1, <2>2 DEF TypeOK, Return
<1>5. ASSUME NEW c \in Callers, Modify(c)
      PROVE  TypeOK'
  <2> DEFINE version == FnVersion(c, copy[c].version)
             changed == [log |-> Append(copy[c].log, c),
                         version |-> IF c \in Locked THEN Bump(version) ELSE version]
  <2>1. version \in Version
    BY RmwAssumption DEF TypeOK, Copy, Version
  <2>2. changed \in Copy
    <3>1. copy[c].log \in Seq(Callers)
      BY DEF TypeOK, Copy
    <3>2. Append(copy[c].log, c) \in Seq(Callers)
      BY <3>1
    <3>3. changed.version \in Version
      BY <2>1, BumpType
    <3> QED BY <3>2, <3>3 DEF Copy
  <2>3. /\ UNCHANGED <<item, past, attempt>>
        /\ \/ UNCHANGED <<copy, expected>> /\ \E r \in {"fn error", "invalid"} : Return(c, r)
           \/ /\ pc' = [pc EXCEPT ![c] = "write"] /\ UNCHANGED outcome
              /\ copy' = [copy EXCEPT ![c] = changed]
              /\ expected' = [expected EXCEPT ![c] = version]
    BY <1>5 DEF Modify
  <2> HIDE DEF version, changed
  <2>4. copy' \in [Callers -> Copy] /\ expected' \in [Callers -> Version]
    BY <2>1, <2>2, <2>3 DEF TypeOK
  <2>5. /\ pc' \in [Callers -> {"loop", "modify", "write", "done"}]
        /\ outcome' \in [Callers -> {"none", "ok", "error", "condition failed",
                                     "not found", "fn error", "invalid"}]
    BY <2>3 DEF TypeOK, Return
  <2> QED BY <2>3, <2>4, <2>5 DEF TypeOK
<1>6. ASSUME NEW c \in Callers, Write(c)
      PROVE  TypeOK'
  <2>1. copy[c] \in Stored
    BY CopyIsStored DEF TypeOK
  <2>2. UNCHANGED <<copy, expected>>
    BY <1>6 DEF Write
  <2>3. /\ item' = item \/ item' = copy[c]
        /\ past' \subseteq past \cup {item}
    BY <1>6 DEF Write
  <2>4. /\ attempt' = attempt \/ attempt' = [attempt EXCEPT ![c] = @ + 1]
        /\ pc' = [pc EXCEPT ![c] = "loop"] \/ pc' = [pc EXCEPT ![c] = "done"]
        /\ \/ outcome' = outcome
           \/ \E r \in {"ok", "error", "condition failed"} : outcome' = [outcome EXCEPT ![c] = r]
    BY <1>6 DEF Write, Retry, Return
  <2>5. item' \in Stored \cup {Absent} /\ past' \subseteq Stored \cup {Absent}
    BY <2>1, <2>3 DEF TypeOK
  <2>6. pc' \in [Callers -> {"loop", "modify", "write", "done"}]
    BY <2>4 DEF TypeOK
  <2>7. attempt' \in [Callers -> Nat]
    <3>1. attempt' = attempt \/ attempt' = [attempt EXCEPT ![c] = @ + 1]
      BY <2>4
    <3>2. attempt \in [Callers -> Nat]
      BY DEF TypeOK
    <3>3. attempt[c] + 1 \in Nat
      BY <3>2
    <3> QED BY <3>1, <3>2, <3>3
  <2>8. outcome' \in [Callers -> {"none", "ok", "error", "condition failed",
                                  "not found", "fn error", "invalid"}]
    BY <2>4 DEF TypeOK
  <2> QED BY <2>2, <2>5, <2>6, <2>7, <2>8 DEF TypeOK
<1> QED BY <1>1, <1>2, <1>3, <1>4, <1>5, <1>6 DEF Next, Step

(* The variables keep their types.                                         *)
THEOREM RmwTypeCorrect == Spec => []TypeOK
<1>1. Init => TypeOK
  BY InitType
<1>2. TypeOK /\ [Next]_vars => TypeOK'
  BY NextType
<1> QED BY <1>1, <1>2, PTL DEF Spec

-------------------------------------------------------------------------------
(* The states of the item so far, and the changes a state carries.         *)
Live == History \ {Absent}

Changes(log) == {log[i] : i \in DOMAIN log}

NoRepeats(log) == \A i, j \in DOMAIN log : log[i] = log[j] => i = j

(* Every copy is that of a state the item had, and a Put expects the       *)
(* version of the state its copy was made from.                            *)
CopiesOf(c) ==
  /\ pc[c] = "modify" => \E s \in Live : copy[c] = Unmarshal(s)
  /\ pc[c] = "write" =>
       \E s \in Live :
         /\ copy[c].log = Append(s.log, c)
         /\ c \in Locked => /\ expected[c] = Unmarshal(s).version
                           /\ copy[c].version = Bump(expected[c])

(* A change is made once, by a caller that has then returned.              *)
ChangedOnce ==
  \A s \in Live :
    /\ NoRepeats(s.log)
    /\ \A c \in Callers : c \in Changes(s.log) => pc[c] = "done"

(* While the lock protects the item, the version counts the changes from   *)
(* that of the first state on, and the states form one line that ends in   *)
(* the stored item.                                                        *)
Protected == AllLocked /\ NotComeRound

Later(version, n) ==
  IF version + n <= MaxVersion THEN version + n ELSE version + n - (MaxVersion - MinVersion + 1)

CountedFrom(first) == \A s \in Live : Unmarshal(s).version = Later(first, Len(s.log))

Counted == \E first \in Version : CountedFrom(first)

OneLine == \A r, s \in Live : Len(r.log) = Len(s.log) => r.log = s.log

ItemLast == item # Absent => \A s \in Live : Len(s.log) <= Len(item.log)

Kept == \A c \in Callers : outcome[c] = "ok" /\ item # Absent => c \in Changes(item.log)

IInv ==
  /\ TypeOK
  /\ \A c \in Callers : CopiesOf(c)
  /\ ChangedOnce
  /\ Protected => Counted /\ OneLine /\ ItemLast /\ Kept

(* The next version is that after one change more, and no two versions     *)
(* are the same before they come round.                                    *)
LEMMA LaterCounts ==
  \A v \in Version, m, n \in 0..(MaxVersion - MinVersion) :
    /\ Later(v, m) \in Version
    /\ m < MaxVersion - MinVersion => Bump(Later(v, m)) = Later(v, m + 1)
    /\ Later(v, m) = Later(v, n) => m = n
BY RmwAssumption DEF Later, Bump, Version

(* What appending a change does to the changes of a content.               *)
LEMMA AppendChange ==
  ASSUME NEW log \in Seq(Callers), NEW c \in Callers
  PROVE  /\ Append(log, c) \in Seq(Callers)
         /\ Len(Append(log, c)) = Len(log) + 1
         /\ Changes(Append(log, c)) = Changes(log) \cup {c}
         /\ NoRepeats(log) /\ c \notin Changes(log) => NoRepeats(Append(log, c))
<1>1. /\ Append(log, c) \in Seq(Callers)
      /\ Len(log) \in Nat /\ Len(Append(log, c)) = Len(log) + 1
      /\ DOMAIN log = 1..Len(log) /\ DOMAIN Append(log, c) = 1..(Len(log) + 1)
      /\ \A i \in 1..Len(log) : Append(log, c)[i] = log[i]
      /\ Append(log, c)[Len(log) + 1] = c
  OBVIOUS
<1> DEFINE longer == Append(log, c)
<1>2. Changes(longer) = Changes(log) \cup {c}
  <2>1. ASSUME NEW x \in Changes(longer)
        PROVE  x \in Changes(log) \cup {c}
    <3>1. PICK i \in 1..(Len(log) + 1) : x = longer[i]
      BY <1>1 DEF Changes
    <3>2. CASE i = Len(log) + 1
      BY <1>1, <3>1, <3>2
    <3>3. CASE i \in 1..Len(log)
      BY <1>1, <3>1, <3>3 DEF Changes
    <3> QED BY <1>1, <3>1, <3>2, <3>3
  <2>2. ASSUME NEW x \in Changes(log)
        PROVE  x \in Changes(longer)
    <3>1. PICK i \in 1..Len(log) : x = log[i]
      BY <1>1 DEF Changes
    <3>2. i \in 1..(Len(log) + 1) /\ longer[i] = x
      BY <1>1, <3>1
    <3> QED BY <1>1, <3>2 DEF Changes
  <2>3. c \in Changes(longer)
    <3>1. Len(log) + 1 \in 1..(Len(log) + 1)
      BY <1>1
    <3> QED BY <1>1, <3>1 DEF Changes
  <2> QED BY <2>1, <2>2, <2>3
<1>3. ASSUME NoRepeats(log), c \notin Changes(log)
      PROVE  NoRepeats(longer)
  <2>1. \A i \in 1..Len(log) : log[i] # c
    BY <1>1, <1>3 DEF Changes
  <2> QED BY <1>1, <1>3, <2>1 DEF NoRepeats
<1> QED BY <1>1, <1>2, <1>3

(* Live states are stored items.                                           *)
LEMMA LiveStored == TypeOK => Live \subseteq Stored
BY DEF TypeOK, Live, History

(* Only a write of a caller adds to the states of the item.                *)
LEMMA LiveGrows ==
  ASSUME TypeOK, [Next]_vars
  PROVE  \/ Live' = Live /\ (item' = item \/ item' = Absent)
         \/ \E c \in Callers :
              /\ Write(c) /\ Accepts(c)
              /\ item' = copy[c] /\ item' # Absent
              /\ Live' = Live \cup {copy[c]}
<1>1. CASE UNCHANGED vars
  BY <1>1 DEF vars, Live, History
<1>2. CASE Remove
  BY <1>2 DEF Remove, Live, History
<1>3. ASSUME NEW c \in Callers, GiveUp(c) \/ Read(c) \/ Modify(c)
      PROVE  UNCHANGED <<item, past>>
  BY <1>3 DEF GiveUp, Read, Modify
<1>4. ASSUME NEW c \in Callers, Write(c)
      PROVE  \/ UNCHANGED <<item, past>>
             \/ /\ Accepts(c) /\ item' = copy[c] /\ item' # Absent
                /\ past' = past \cup {item}
  <2>1. copy[c] # Absent
    BY CopyIsStored, RmwAssumption DEF TypeOK
  <2> QED BY <1>4, <2>1 DEF Write
<1> QED BY <1>1, <1>2, <1>3, <1>4 DEF Next, Step, Live, History

(* Nobody leaves the lock, and no version comes round, retroactively.      *)
LEMMA ProtectedBefore ==
  ASSUME TypeOK, [Next]_vars, Protected'
  PROVE  Protected
<1>1. Live \subseteq Live'
  BY LiveGrows
<1> QED BY <1>1 DEF Protected, AllLocked, NotComeRound, Live, History

(* The invariant holds at the start.                                       *)
LEMMA InitInv == Init => IInv
<1> SUFFICES ASSUME Init
             PROVE  IInv
  OBVIOUS
<1>1. TypeOK
  BY InitType
<1>2. PICK first \in Version : \A s \in Live : s.log = <<>> /\ Unmarshal(s).version = first
  <2>1. Live \subseteq {item}
    BY DEF Init, Live, History
  <2>2. 0 \in Version
    BY RmwAssumption DEF Version
  <2>3. CASE item = Absent
    BY <2>1, <2>2, <2>3 DEF Live
  <2>4. ASSUME NEW v \in Version \cup {NoVersion}, item = Fresh(v)
        PROVE  /\ item.log = <<>>
               /\ Unmarshal(item).version = IF v = NoVersion THEN 0 ELSE v
    BY <2>4 DEF Fresh, Unmarshal
  <2> QED BY <2>1, <2>2, <2>3, <2>4, RmwAssumption DEF Init
<1>3. Changes(<<>>) = {} /\ NoRepeats(<<>>) /\ Len(<<>>) = 0
  BY DEF Changes, NoRepeats
<1>4. \A c \in Callers : CopiesOf(c)
  BY DEF Init, CopiesOf
<1>5. ChangedOnce
  BY <1>2, <1>3 DEF ChangedOnce
<1>6. Counted /\ OneLine
  <2>1. Later(first, 0) = first
    BY <1>2, RmwAssumption DEF Later, Version
  <2> QED BY <1>2, <1>3, <2>1 DEF Counted, CountedFrom, OneLine
<1>7. ItemLast
  BY <1>2, <1>3 DEF ItemLast, Live, History
<1>8. Kept
  BY DEF Init, Kept
<1> QED BY <1>1, <1>4, <1>5, <1>6, <1>7, <1>8 DEF IInv

(* The copies remain those of states the item had.                         *)
LEMMA NextCopies ==
  ASSUME FnKeepsVersion, IInv, [Next]_vars, NEW d \in Callers
  PROVE  CopiesOf(d)'
<1> USE DEF IInv
<1>1. Live \subseteq Live'
  BY LiveGrows
<1>2. CASE pc'[d] = pc[d] /\ copy'[d] = copy[d] /\ expected'[d] = expected[d]
  BY <1>1, <1>2 DEF CopiesOf, Unmarshal
<1>3. CASE pc'[d] \in {"loop", "done"}
  BY <1>3 DEF CopiesOf
<1>4. CASE Read(d)
  <2>1. pc \in [Callers -> {"loop", "modify", "write", "done"}] /\ copy \in [Callers -> Copy]
    BY DEF TypeOK
  <2>2. \/ pc' = [pc EXCEPT ![d] = "done"]
        \/ /\ pc' = [pc EXCEPT ![d] = "modify"]
           /\ \E s \in Live : copy' = [copy EXCEPT ![d] = Unmarshal(s)]
    BY <1>4 DEF Read, Return, Live, History
  <2>3. \/ pc'[d] = "done"
        \/ pc'[d] = "modify" /\ \E s \in Live : copy'[d] = Unmarshal(s)
    BY <2>1, <2>2
  <2> QED BY <1>1, <2>3 DEF CopiesOf, Unmarshal
<1>5. CASE Modify(d)
  <2>1. /\ pc \in [Callers -> {"loop", "modify", "write", "done"}]
        /\ copy \in [Callers -> Copy]
        /\ expected \in [Callers -> Version]
    BY DEF TypeOK
  <2>2. PICK s \in Live : copy[d] = Unmarshal(s)
    BY <1>5 DEF Modify, CopiesOf
  <2>3. copy[d].version \in Version /\ copy[d].log = s.log
    BY <2>1, <2>2 DEF Copy, Unmarshal
  <2>4. d \in Locked => FnVersion(d, copy[d].version) = Unmarshal(s).version
    BY <2>2, <2>3 DEF FnKeepsVersion
  <2>5. \/ pc'[d] = "done"
        \/ /\ pc'[d] = "write"
           /\ copy'[d].log = Append(copy[d].log, d)
           /\ expected'[d] = FnVersion(d, copy[d].version)
           /\ d \in Locked => copy'[d].version = Bump(FnVersion(d, copy[d].version))
    <3> DEFINE version == FnVersion(d, copy[d].version)
               changed == [log |-> Append(copy[d].log, d),
                           version |-> IF d \in Locked THEN Bump(version) ELSE version]
    <3>1. \/ pc' = [pc EXCEPT ![d] = "done"]
          \/ /\ pc' = [pc EXCEPT ![d] = "write"]
             /\ copy' = [copy EXCEPT ![d] = changed]
             /\ expected' = [expected EXCEPT ![d] = version]
      BY <1>5 DEF Modify, Return
    <3>2. /\ changed.log = Append(copy[d].log, d)
          /\ d \in Locked => changed.version = Bump(version)
      OBVIOUS
    <3> HIDE DEF version, changed
    <3>3. \/ pc'[d] = "done"
          \/ /\ pc'[d] = "write" /\ copy'[d] = changed /\ expected'[d] = version
      BY <2>1, <3>1
    <3> QED BY <3>2, <3>3 DEF version
  <2>6. \/ pc'[d] = "done"
        \/ /\ pc'[d] = "write"
           /\ copy'[d].log = Append(s.log, d)
           /\ d \in Locked => /\ expected'[d] = Unmarshal(s).version
                             /\ copy'[d].version = Bump(expected'[d])
    BY <2>3, <2>4, <2>5
  <2> QED BY <1>1, <2>6 DEF CopiesOf, Unmarshal
<1>6. CASE GiveUp(d) \/ Write(d)
  <2>1. pc' = [pc EXCEPT ![d] = "loop"] \/ pc' = [pc EXCEPT ![d] = "done"]
    BY <1>6 DEF GiveUp, Write, Retry, Return
  <2>2. pc'[d] \in {"loop", "done"}
    BY <2>1 DEF TypeOK
  <2> QED BY <2>2, <1>3
<1>7. CASE UNCHANGED vars \/ Remove
  BY <1>2, <1>7 DEF vars, Remove
<1>8. ASSUME NEW c \in Callers, c # d, Step(c)
      PROVE  pc'[d] = pc[d] /\ copy'[d] = copy[d] /\ expected'[d] = expected[d]
  BY <1>8 DEF Step, GiveUp, Read, Modify, Write, Retry, Return, TypeOK
<1> QED BY <1>2, <1>4, <1>5, <1>6, <1>7, <1>8 DEF Next, Step

(* Every change is made once, by a caller that returns with it.            *)
LEMMA NextOnce ==
  ASSUME IInv, [Next]_vars
  PROVE  ChangedOnce'
<1> USE DEF IInv
<1>1. \A c \in Callers : pc[c] = "done" => pc'[c] = "done"
  <2>1. ASSUME NEW d \in Callers, Step(d), NEW c \in Callers, pc[c] = "done"
        PROVE  pc'[c] = "done"
    <3>1. pc[d] # "done"
      BY <2>1 DEF Step, GiveUp, Read, Modify, Write
    <3>2. \E l \in {"loop", "modify", "write", "done"} : pc' = [pc EXCEPT ![d] = l]
      BY <2>1 DEF Step, GiveUp, Read, Modify, Write, Retry, Return
    <3> QED BY <2>1, <3>1, <3>2 DEF TypeOK
  <2> QED BY <2>1 DEF Next, Remove, vars
<1>2. CASE Live' = Live
  BY <1>1, <1>2 DEF ChangedOnce, NoRepeats, Changes
<1>3. ASSUME NEW d \in Callers, Write(d), Accepts(d), item' = copy[d], item' # Absent,
             Live' = Live \cup {copy[d]}
      PROVE  ChangedOnce'
  <2>1. PICK s \in Live : copy[d].log = Append(s.log, d)
    BY <1>3 DEF Write, CopiesOf
  <2>2. s.log \in Seq(Callers) /\ pc[d] # "done"
    BY LiveStored, <1>3 DEF Stored, Write
  <2>3. NoRepeats(s.log) /\ d \notin Changes(s.log)
    BY <2>2 DEF ChangedOnce
  <2>4. NoRepeats(copy[d].log) /\ Changes(copy[d].log) = Changes(s.log) \cup {d}
    BY <2>1, <2>2, <2>3, AppendChange
  <2>5. pc'[d] = "done"
    <3>1. pc' = [pc EXCEPT ![d] = "done"] \/ UNCHANGED <<item, past>>
      BY <1>3 DEF Write, Return
    <3>2. ~UNCHANGED <<item, past>>
      <4>1. SUFFICES ASSUME item = copy[d], item # Absent
                     PROVE  FALSE
        BY <1>3
      <4>2. copy[d] \in Live
        BY <4>1 DEF Live, History
      <4>3. d \in Changes(copy[d].log)
        BY <2>4
      <4> QED BY <2>2, <4>2, <4>3 DEF ChangedOnce
    <3> QED BY <3>1, <3>2 DEF TypeOK
  <2>6. \A r \in Live' : r \in Live \/ r.log = copy[d].log
    BY <1>3
  <2>7. \A c \in Callers : c \in Changes(copy[d].log) => pc'[c] = "done"
    BY <1>1, <2>4, <2>5 DEF ChangedOnce
  <2> QED BY <1>1, <2>4, <2>6, <2>7 DEF ChangedOnce
<1> QED BY <1>2, <1>3, LiveGrows

(* A Put accepted while the lock protects the item changes the stored      *)
(* content: that is the content its copy was made from, because the two    *)
(* have the same version.                                                  *)
LEMMA WritesStored ==
  ASSUME IInv, Protected, Protected', NEW d \in Callers, Write(d), Accepts(d),
         item' = copy[d], item' # Absent, Live' = Live \cup {copy[d]}
  PROVE  /\ d \in Locked
         /\ item # Absent /\ item.log \in Seq(Callers)
         /\ item'.log = Append(item.log, d)
         /\ \A first \in Version :
              CountedFrom(first) => Unmarshal(item').version = Later(first, Len(item'.log))
<1>1. TypeOK /\ CopiesOf(d) /\ Counted /\ OneLine /\ pc[d] = "write"
  BY DEF IInv, Write
<1>2. PICK s \in Live :
        /\ copy[d].log = Append(s.log, d)
        /\ d \in Locked => /\ expected[d] = Unmarshal(s).version
                           /\ copy[d].version = Bump(expected[d])
  BY <1>1 DEF CopiesOf
<1>3. \A r \in Live : /\ r.log \in Seq(Callers) /\ Len(r.log) \in Nat
                      /\ Len(r.log) \in 0..(MaxVersion - MinVersion)
  <2>1. \A r \in Live : r \in Stored /\ r # Absent /\ r \in History
    BY <1>1, LiveStored DEF Live
  <2>2. \A r \in Live : Len(r.log) <= MaxVersion - MinVersion
    BY <2>1 DEF Protected, NotComeRound
  <2>3. \A r \in Live : r.log \in Seq(Callers) /\ Len(r.log) \in Nat
    BY <2>1 DEF Stored
  <2> QED BY <2>2, <2>3, RmwAssumption
<1>4. d \in Changes(copy[d].log) /\ Len(copy[d].log) = Len(s.log) + 1
  <2>1. /\ Changes(Append(s.log, d)) = Changes(s.log) \cup {d}
        /\ Len(Append(s.log, d)) = Len(s.log) + 1
    BY <1>3, AppendChange
  <2> QED BY <1>2, <2>1
<1>5. copy[d] \in History' /\ copy[d] # Absent
  BY DEF Live
<1>6. d \in Locked
  <2>1. \A i \in DOMAIN copy[d].log : copy[d].log[i] \in Locked
    BY <1>5 DEF Protected, AllLocked
  <2> QED BY <1>4, <2>1 DEF Changes
<1>7. item # Absent /\ item.version = expected[d]
  BY <1>6 DEF Accepts
<1>8. item \in Live
  BY <1>7 DEF Live, History
<1>9. expected[d] # NoVersion
  <2>1. expected[d] \in Version
    BY <1>1 DEF TypeOK
  <2> QED BY <2>1, RmwAssumption DEF Version
<1>10. Unmarshal(item).version = Unmarshal(s).version
  <2>1. Unmarshal(item).version = item.version
    BY <1>7, <1>9 DEF Unmarshal
  <2> QED BY <1>2, <1>6, <1>7, <2>1
<1>11. item.log = s.log
  <2>1. PICK first \in Version : CountedFrom(first)
    BY <1>1 DEF Counted
  <2>2. Later(first, Len(item.log)) = Later(first, Len(s.log))
    BY <1>8, <1>10, <2>1 DEF CountedFrom
  <2>3. Len(item.log) = Len(s.log)
    BY <1>3, <1>8, <2>2, LaterCounts
  <2> QED BY <1>1, <1>8, <2>3 DEF OneLine
<1>12. Len(copy[d].log) <= MaxVersion - MinVersion
  BY <1>5 DEF Protected, NotComeRound
<1>13. ASSUME NEW first \in Version, CountedFrom(first)
       PROVE  Unmarshal(copy[d]).version = Later(first, Len(copy[d].log))
  <2>1. expected[d] = Later(first, Len(s.log))
    BY <1>2, <1>6, <1>13 DEF CountedFrom
  <2>2. copy[d].version = Bump(Later(first, Len(s.log)))
    BY <1>2, <1>6, <2>1
  <2>3. Len(s.log) < MaxVersion - MinVersion
    BY <1>3, <1>4, <1>12, RmwAssumption
  <2>4. copy[d].version = Later(first, Len(s.log) + 1)
    BY <1>3, <2>2, <2>3, LaterCounts
  <2>5. copy[d].version # NoVersion
    <3>1. copy[d].version \in Version
      BY <1>1 DEF TypeOK, Copy
    <3> QED BY <3>1, RmwAssumption DEF Version
  <2> QED BY <1>4, <2>4, <2>5 DEF Unmarshal
<1> QED BY <1>2, <1>3, <1>6, <1>7, <1>11, <1>13

(* A call has only returned success if its Put was carried out.            *)
LEMMA OkWrites ==
  ASSUME TypeOK, [Next]_vars, NEW c \in Callers, outcome'[c] = "ok"
  PROVE  outcome[c] = "ok" \/ (Write(c) /\ Accepts(c) /\ item' = copy[c])
<1>1. CASE UNCHANGED vars \/ Remove
  BY <1>1 DEF vars, Remove
<1>2. ASSUME NEW d \in Callers, Step(d), d # c
      PROVE  outcome[c] = "ok"
  <2>1. outcome' = outcome \/ \E r : outcome' = [outcome EXCEPT ![d] = r]
    BY <1>2 DEF Step, GiveUp, Read, Modify, Write, Retry, Return
  <2> QED BY <1>2, <2>1 DEF TypeOK
<1>3. ASSUME GiveUp(c) \/ Read(c) \/ Modify(c)
      PROVE  outcome[c] = "ok"
  <2>1. \/ outcome' = outcome
        \/ \E r \in {"error", "condition failed", "not found", "fn error", "invalid"} :
             outcome' = [outcome EXCEPT ![c] = r]
    BY <1>3 DEF GiveUp, Read, Modify, Return
  <2> QED BY <2>1 DEF TypeOK
<1>4. CASE Write(c)
  <2>1. \/ Accepts(c) /\ item' = copy[c]
        \/ outcome' = outcome
        \/ \E r \in {"error", "condition failed"} : outcome' = [outcome EXCEPT ![c] = r]
    BY <1>4 DEF Write, Retry, Return
  <2> QED BY <1>4, <2>1 DEF TypeOK
<1> QED BY <1>1, <1>2, <1>3, <1>4 DEF Next, Step

(* While the lock protects the item, the version keeps counting.           *)
LEMMA NextProtected ==
  ASSUME IInv, [Next]_vars, Protected'
  PROVE  (Counted /\ OneLine /\ ItemLast /\ Kept)'
<1>1. Protected
  BY ProtectedBefore DEF IInv
<1>2. TypeOK /\ Counted /\ OneLine /\ ItemLast /\ Kept
  BY <1>1 DEF IInv
<1>3. ASSUME NEW d \in Callers, Write(d), Accepts(d), item' = copy[d], item' # Absent,
             Live' = Live \cup {copy[d]}
      PROVE  /\ item # Absent
             /\ Changes(item'.log) = Changes(item.log) \cup {d}
             /\ Len(item'.log) = Len(item.log) + 1
             /\ \A first \in Version :
                  CountedFrom(first) => Unmarshal(item').version = Later(first, Len(item'.log))
  <2>1. /\ item # Absent /\ item.log \in Seq(Callers)
        /\ item'.log = Append(item.log, d)
        /\ \A first \in Version :
             CountedFrom(first) => Unmarshal(item').version = Later(first, Len(item'.log))
    BY <1>1, <1>3, WritesStored
  <2>2. /\ Changes(Append(item.log, d)) = Changes(item.log) \cup {d}
        /\ Len(Append(item.log, d)) = Len(item.log) + 1
    BY <2>1, AppendChange
  <2> QED BY <2>1, <2>2
<1>4. (Counted /\ OneLine /\ ItemLast)'
  <2>1. CASE Live' = Live /\ (item' = item \/ item' = Absent)
    BY <1>2, <2>1 DEF Counted, CountedFrom, OneLine, ItemLast, Unmarshal
  <2>2. ASSUME NEW d \in Callers, Write(d), Accepts(d), item' = copy[d], item' # Absent,
               Live' = Live \cup {copy[d]}
        PROVE  (Counted /\ OneLine /\ ItemLast)'
    <3>1. /\ Len(item'.log) = Len(item.log) + 1
          /\ \A first \in Version :
               CountedFrom(first) => Unmarshal(item').version = Later(first, Len(item'.log))
          /\ item # Absent
      BY <1>3, <2>2
    <3>2. \A s \in Live : Len(s.log) \in Nat /\ Len(s.log) <= Len(item.log)
      BY <1>2, <3>1, LiveStored DEF ItemLast, Stored
    <3>3. item \in Live
      BY <3>1 DEF Live, History
    <3>4. \A s \in Live' : s \in Live \/ s = item'
      BY <2>2
    <3>5. Counted'
      BY <1>2, <3>1, <3>4 DEF Counted, CountedFrom, Unmarshal
    <3>6. OneLine'
      BY <1>2, <3>1, <3>2, <3>3, <3>4 DEF OneLine
    <3>7. ItemLast'
      BY <3>1, <3>2, <3>3, <3>4 DEF ItemLast
    <3> QED BY <3>5, <3>6, <3>7
  <2> QED BY <1>2, <2>1, <2>2, LiveGrows
<1>5. Kept'
  <2> SUFFICES ASSUME NEW c \in Callers, outcome'[c] = "ok", item' # Absent
               PROVE  c \in Changes(item'.log)
    BY DEF Kept
  <2>1. item' = item \/ \E d \in Callers :
          /\ item # Absent
          /\ Changes(item'.log) = Changes(item.log) \cup {d}
    BY <1>2, <1>3, LiveGrows
  <2>2. CASE outcome[c] = "ok"
    BY <1>2, <2>1, <2>2 DEF Kept
  <2>3. CASE Write(c) /\ Accepts(c) /\ item' = copy[c]
    <3>1. Live' = Live \cup {copy[c]}
      <4>1. item' \in Live'
        BY DEF Live, History
      <4> QED BY <1>2, <2>3, <4>1, LiveGrows
    <3> QED BY <1>3, <2>3, <3>1
  <2> QED BY <1>2, <2>2, <2>3, OkWrites
<1> QED BY <1>4, <1>5

(* The invariant is inductive if the callbacks leave the version alone.    *)
LEMMA NextInv == ASSUME FnKeepsVersion, IInv, [Next]_vars PROVE IInv'
<1>1. TypeOK'
  BY NextType DEF IInv
<1>2. (\A c \in Callers : CopiesOf(c))'
  BY NextCopies
<1>3. ChangedOnce'
  BY NextOnce
<1>4. Protected' => (Counted /\ OneLine /\ ItemLast /\ Kept)'
  BY NextProtected
<1> QED BY <1>1, <1>2, <1>3, <1>4 DEF IInv

(* A call of ReadModifyWrite with OptimisticLock that returned success has *)
(* its change in the item, once, whatever the other callers with the lock  *)
(* did, however stale their reads were and whichever of their calls failed *)
(* -- if the callbacks leave the version field to ReadModifyWrite.         *)
THEOREM LockPreventsLostUpdates ==
  ASSUME FnKeepsVersion
  PROVE  Spec => []NoLostUpdate
<1>1. Init => IInv
  BY InitInv
<1>2. IInv /\ [Next]_vars => IInv'
  BY NextInv
<1>3. IInv => NoLostUpdate
  <2> SUFFICES ASSUME IInv, AllLocked, NotComeRound, item # Absent, NEW c \in Locked
               PROVE  /\ outcome[c] = "ok" => \E i \in DOMAIN item.log : item.log[i] = c
                      /\ \A i, j \in DOMAIN item.log :
                           item.log[i] = c /\ item.log[j] = c => i = j
    BY DEF NoLostUpdate
  <2>1. Kept /\ ChangedOnce
    BY DEF IInv, Protected
  <2>2. c \in Callers
    BY RmwAssumption
  <2>3. NoRepeats(item.log)
    BY <2>1 DEF ChangedOnce, Live, History
  <2> QED BY <2>1, <2>2, <2>3 DEF Kept, Changes, NoRepeats
<1> QED BY <1>1, <1>2, <1>3, PTL DEF Spec

(* A write under the lock changes the item's current content, never an     *)
(* earlier one.                                                            *)
THEOREM LockWritesOnTop ==
  ASSUME FnKeepsVersion
  PROVE  Spec => WritesOnTop
<1>1. Init => IInv
  BY InitInv
<1>2. IInv /\ [Next]_vars => IInv'
  BY NextInv
<1>3. IInv /\ [Next]_vars =>
        [AllLocked' /\ NotComeRound' /\ item' \notin {item, Absent} =>
           /\ item # Absent
           /\ \E c \in Locked : item'.log = Append(item.log, c)]_vars
  <2> SUFFICES ASSUME IInv, [Next]_vars, Protected', item' # item, item' # Absent
               PROVE  item # Absent /\ \E c \in Locked : item'.log = Append(item.log, c)
    BY DEF Protected
  <2>1. TypeOK /\ Protected
    BY ProtectedBefore DEF IInv
  <2>2. PICK d \in Callers :
          /\ Write(d) /\ Accepts(d)
          /\ item' = copy[d] /\ Live' = Live \cup {copy[d]}
    BY <2>1, LiveGrows
  <2>3. d \in Locked /\ item # Absent /\ item'.log = Append(item.log, d)
    BY <2>1, <2>2, WritesStored
  <2> QED BY <2>3
<1> QED BY <1>1, <1>2, <1>3, PTL DEF Spec, WritesOnTop

===============================================================================
