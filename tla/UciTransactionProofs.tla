----------------------- MODULE UciTransactionProofs -----------------------
(***************************************************************************)
(* What holds of a transaction over any keys, values and requests,         *)
(* whatever fails and whoever else uses the store.                         *)
(***************************************************************************)
EXTENDS UciTransaction, FiniteSets, SequenceTheorems, FunctionTheorems, FiniteSetTheorems,
        TLAPS

(* A transaction's keys are UCI keys, and so are those of everybody else. *)
LEMMA KeyFacts == Own \subseteq Keys /\ Foreign \subseteq Keys
BY DEF Own, Keys

(* A validated request is a sequence of assignments to keys of the map.     *)
LEMMA PreparedAssigns ==
    ASSUME NEW r \in Requests, Valid(r)
    PROVE  /\ Prepared(r) \in Seq(Assignment)
           /\ Len(Prepared(r)) >= 1
           /\ \A j \in DOMAIN Prepared(r) : Prepared(r)[j].key \in Own
<1> DEFINE its == [j \in DOMAIN r.items |->
                      [key |-> r.items[j].key,
                       value |-> Normal[r.items[j].key, r.items[j].value]]]
           last == [key |-> ParameterKey, value |-> Normal[ParameterKey, r.key]]
           OwnAssignment == [key : Own, value : Values]
<1>1. \A j \in DOMAIN r.items : its[j] \in OwnAssignment
  BY DEF Valid, Own
<1>2. its \in Seq(OwnAssignment)
  <2>1. DOMAIN r.items = 1..Len(r.items) /\ Len(r.items) \in Nat
    BY RequestsAssumption
  <2>2. its \in [1..Len(r.items) -> OwnAssignment]
    BY <1>1, <2>1
  <2> HIDE DEF its, OwnAssignment
  <2>3. PICK n \in Nat : its \in [1..n -> OwnAssignment]
    BY <2>1, <2>2
  <2> QED
    BY <2>3, SeqDef
<1>3. last \in OwnAssignment
  BY DEF Valid, Own
<1>4. Prepared(r) = Append(its, last)
  BY DEF Prepared
<1> HIDE DEF its, last, OwnAssignment
<1>5. Append(its, last) \in Seq(OwnAssignment) /\ Len(Append(its, last)) >= 1
  BY <1>2, <1>3
<1>6. \A j \in DOMAIN Append(its, last) : Append(its, last)[j] \in OwnAssignment
  BY <1>5
<1>7. OwnAssignment \subseteq Assignment /\ \A a \in OwnAssignment : a.key \in Own
  BY KeyFacts DEF Assignment, OwnAssignment
<1>8. Append(its, last) \in Seq(Assignment)
  BY <1>5, <1>7
<1> QED
  BY <1>4, <1>5, <1>6, <1>7, <1>8

(* The loops stay inside the assignments. *)
LEMMA LoopStays ==
    ASSUME NEW after, i \in 1..Len(todo), todo \in Seq(Assignment), Loop(after)
    PROVE  /\ i' \in 1..Len(todo)
           /\ pc' = pc \/ pc' = after
BY DEF Loop

(* Every variable of a transaction and the two stores stay in their types. *)
THEOREM TransactionTypeCorrect == Spec => []TypeOK
<1> USE DEF Stores, OwnStores, OwnPart
<1>1. Init => TypeOK
  <2> SUFFICES ASSUME Init PROVE TypeOK
    OBVIOUS
  <2>1. flash \in Stores
    BY DEF Init
  <2>2. staged \in Stores
    BY <2>1, KeyFacts DEF Init, Own
  <2>3. todo \in Seq(Assignment) /\ left \subseteq Keys
    BY DEF Init
  <2>4. originals \in [Keys -> Values \cup {Missing, Unread}]
    BY DEF Init, NothingRead
  <2>5. before \in [staged : OwnStores, flash : OwnStores]
    BY <2>1, <2>2, KeyFacts DEF Init
  <2> QED
    BY <2>1, <2>2, <2>3, <2>4, <2>5 DEF Init, TypeOK
<1>2. TypeOK /\ [Next]_vars => TypeOK'
  <2> SUFFICES ASSUME TypeOK, [Next]_vars PROVE TypeOK'
    OBVIOUS
  <2> USE DEF TypeOK
  <2>1. ASSUME NEW r \in Requests, Begin(r) PROVE TypeOK'
    <3>1. originals' \in [Keys -> Values \cup {Missing, Unread}]
      BY <2>1 DEF Begin, NothingRead
    <3>2. before' \in [staged : OwnStores, flash : OwnStores]
      BY <2>1, KeyFacts DEF Begin
    <3>3. /\ todo' \in Seq(Assignment)
          /\ pc' \in {"original", "idle"}
          /\ pc' = "original" => i' \in 1..Len(todo')
      <4>1. CASE Valid(r)
        <5>1. /\ Prepared(r) \in Seq(Assignment)
              /\ 1 \in 1..Len(Prepared(r))
          BY <4>1, PreparedAssigns
        <5> QED
          BY <2>1, <4>1, <5>1 DEF Begin
      <4>2. CASE ~Valid(r)
        <5>1. todo' = <<>> /\ pc' = "idle"
          BY <2>1, <4>2 DEF Begin
        <5> QED
          BY <5>1
      <4> QED
        BY <4>1, <4>2
    <3>4. left' = {}
      BY <2>1 DEF Begin
    <3> QED
      BY <2>1, <3>1, <3>2, <3>3, <3>4 DEF Begin
  <2>2. CASE ReadOriginal
    <3>1. i' \in 1..Len(todo) /\ pc' \in {"original", "set"} /\ left = {}
      BY <2>2, LoopStays DEF ReadOriginal
    <3>2. originals' \in [Keys -> Values \cup {Missing, Unread}]
      <4>1. todo[i].key \in Keys
        <5>1. todo[i] \in Assignment
          BY <2>2 DEF ReadOriginal
        <5> QED
          BY <5>1 DEF Assignment
      <4> QED
        BY <2>2, <4>1 DEF ReadOriginal
    <3>3. faults' \in Nat
      BY <2>2 DEF ReadOriginal, Get, Works, Fails
    <3> QED
      BY <2>2, <3>1, <3>2, <3>3 DEF ReadOriginal
  <2>3. ASSUME RollBack, faults' \in Nat, UNCHANGED <<todo, originals, answer, before, shared, clashed>>
        PROVE  TypeOK'
    BY <2>3 DEF RollBack, Restorable
  <2>4. CASE Set
    <3>1. faults' \in Nat
      BY <2>4 DEF Set, Works, Fails
    <3>2. CASE RollBack
      BY <2>4, <2>3, <3>1, <3>2 DEF Set
    <3>3. CASE ~RollBack
      <4>1. i' \in 1..Len(todo) /\ pc' \in {"set", "commit"} /\ left = {}
        BY <2>4, <3>3, LoopStays DEF Set
      <4>2. staged' \in Stores
        <5>1. todo[i] \in Assignment
          BY <2>4 DEF Set
        <5> QED
          BY <2>4, <3>3, <5>1 DEF Set, Assignment
      <4> QED
        BY <2>4, <3>1, <3>3, <4>1, <4>2 DEF Set
    <3> QED
      BY <3>2, <3>3
  <2>5. CASE Commit
    <3>1. faults' \in Nat
      BY <2>5 DEF Commit, Works, Fails
    <3>2. CASE RollBack
      BY <2>5, <2>3, <3>1, <3>2 DEF Commit
    <3>3. CASE ~RollBack
      BY <2>5, <3>1, <3>3 DEF Commit
    <3> QED
      BY <3>2, <3>3
  <2>6. CASE ReadBack
    <3>1. faults' \in Nat
      BY <2>6 DEF ReadBack, Get, Works, Fails
    <3>2. CASE RollBack
      BY <2>6, <2>3, <3>1, <3>2 DEF ReadBack
    <3>3. CASE ~RollBack
      <4>1. i' \in 1..Len(todo) /\ pc' \in {"readback", "notify"} /\ left = {}
        BY <2>6, <3>3, LoopStays DEF ReadBack
      <4> QED
        BY <2>6, <3>1, <3>3, <4>1 DEF ReadBack
    <3> QED
      BY <3>2, <3>3
  <2>7. CASE Notify
    BY <2>7 DEF Notify, NothingRead
  <2>8. ASSUME NEW k \in left, Restore(k) PROVE TypeOK'
    <3>1. faults' \in Nat
      BY <2>8 DEF Restore, Works, Fails
    <3>2. staged' \in Stores
      BY <2>8 DEF Restore
    <3> QED
      BY <2>8, <3>1, <3>2 DEF Restore
  <2>9. CASE RestoreCommit
    <3>1. faults' \in Nat
      BY <2>9 DEF RestoreCommit, Works, Fails
    <3> QED
      BY <2>9, <3>1 DEF RestoreCommit, NothingRead
  <2>10. ASSUME NEW k \in Foreign, NEW v \in Values \cup {Missing}, ForeignSet(k, v)
         PROVE  TypeOK'
    <3>1. staged' \in Stores /\ clashed' \subseteq Keys
      BY <2>10, KeyFacts DEF ForeignSet
    <3>2. faults' \in Nat
      BY <2>10 DEF ForeignSet, Works, Fails
    <3> QED
      BY <2>10, <3>1, <3>2 DEF ForeignSet
  <2>11. CASE ForeignCommit
    BY <2>11 DEF ForeignCommit
  <2>12. CASE Die \/ PowerLoss
    <3>1. staged' \in Stores /\ flash' \in Stores /\ Gone
      BY <2>12 DEF Die, PowerLoss
    <3>3. originals' \in [Keys -> Values \cup {Missing, Unread}]
      BY <3>1 DEF Gone, NothingRead
    <3>4. left' = {} /\ pc' = "idle"
      BY <3>1 DEF Gone
    <3> QED
      BY <3>1, <3>3, <3>4 DEF Gone
  <2>13. CASE UNCHANGED vars
    BY <2>13 DEF vars
  <2> QED
    BY <2>1, <2>2, <2>4, <2>5, <2>6, <2>7, <2>8, <2>9, <2>10, <2>11, <2>12, <2>13
       DEF Next, Transaction
<1> QED
  BY <1>1, <1>2, PTL DEF Spec

---------------------------------------------------------------------------
(* A transaction only knows keys of its own request: it assigns keys of the *)
(* map, and has originals of, and restores, assigned keys only.             *)
OwnKeysOnly ==
    /\ Touched(todo) \subseteq Own
    /\ \A k \in Keys : originals[k] # Unread => k \in Touched(todo)

(* A transaction assigns and restores keys of its own only. *)
LEMMA OwnKeysOnlyHolds == Spec => []OwnKeysOnly
<1>1. Init => OwnKeysOnly
  BY DEF Init, OwnKeysOnly, Touched, NothingRead
<1>2. TypeOK /\ OwnKeysOnly /\ [Next]_vars => OwnKeysOnly'
  <2> SUFFICES ASSUME TypeOK, OwnKeysOnly, [Next]_vars PROVE OwnKeysOnly'
    OBVIOUS
  <2>1. ASSUME NEW r \in Requests, Begin(r) PROVE OwnKeysOnly'
    <3>1. originals' = NothingRead
      BY <2>1 DEF Begin
    <3>2. Touched(todo') \subseteq Own
      BY <2>1, PreparedAssigns DEF Begin, Touched
    <3> QED
      BY <3>1, <3>2 DEF OwnKeysOnly, NothingRead
  <2>2. CASE ReadOriginal
    <3>1. todo[i].key \in Touched(todo)
      BY <2>2 DEF ReadOriginal, TypeOK, Touched
    <3>2. \A k \in Keys : originals'[k] # Unread =>
             originals[k] # Unread \/ k = todo[i].key
      BY <2>2 DEF ReadOriginal, TypeOK
    <3>3. todo' = todo
      BY <2>2 DEF ReadOriginal
    <3> QED
      BY <3>1, <3>2, <3>3 DEF OwnKeysOnly
  <2>3. CASE todo' = todo /\ originals' \in {originals, NothingRead}
    BY <2>3 DEF OwnKeysOnly, NothingRead
  <2>4. CASE UNCHANGED <<todo, originals>>
    BY <2>4 DEF OwnKeysOnly
  <2> QED
    BY <2>1, <2>2, <2>3, <2>4
       DEF Next, Transaction, Set, Commit, ReadBack, Notify, Restore, RestoreCommit,
           ForeignSet, ForeignCommit, Die, PowerLoss, Gone, vars
<1> QED
  BY <1>1, <1>2, TransactionTypeCorrect, PTL DEF Spec

(* What the rollback may find of a key nobody else wrote: its staged value   *)
(* stays that from before the transaction while the originals are read, and *)
(* its original is the value read then, or nothing where uci get failed.    *)
OriginalsGenuine ==
    /\ pc = "original" => \A k \in Kept : staged[k] = before.staged[k]
    /\ pc # "idle" => \A k \in Kept : originals[k] \in {Unread, before.staged[k], Missing}

(* An original is a value from before the transaction, or nothing. *)
LEMMA OriginalsGenuineHolds == Spec => []OriginalsGenuine
<1>1. Init => OriginalsGenuine
  BY DEF Init, OriginalsGenuine
<1>2. TypeOK /\ OwnKeysOnly /\ OriginalsGenuine /\ [Next]_vars => OriginalsGenuine'
  <2> SUFFICES ASSUME TypeOK, OwnKeysOnly, OriginalsGenuine, [Next]_vars
               PROVE  OriginalsGenuine'
    OBVIOUS
  <2>0. Kept \subseteq Own /\ Own \subseteq Keys
    BY KeyFacts DEF Kept, OwnKeysOnly
  <2>1. ASSUME NEW r \in Requests, Begin(r) PROVE OriginalsGenuine'
    <3>1. \A k \in Own : k \in Keys /\ staged'[k] = before'.staged[k]
      BY <2>1, KeyFacts DEF Begin, OwnPart
    <3>2. Kept' \subseteq Own
      BY <2>1, PreparedAssigns DEF Begin, Touched, Kept
    <3> QED
      BY <2>1, <3>1, <3>2 DEF Begin, NothingRead, OriginalsGenuine
  <2>2. CASE ReadOriginal
    <3>1. todo[i].key \in Own
      BY <2>2 DEF ReadOriginal, TypeOK, OwnKeysOnly, Touched
    <3>2. \A k \in Own : originals'[k] \in {originals[k], staged[k], Missing}
      BY <2>2, <3>1, KeyFacts DEF ReadOriginal, Get, TypeOK
    <3>3. UNCHANGED <<staged, before>> /\ Kept' = Kept /\ pc' # "idle"
      BY <2>2 DEF ReadOriginal, Loop, Kept
    <3> QED
      BY <2>0, <2>2, <3>2, <3>3 DEF ReadOriginal, OriginalsGenuine
  <2>3. CASE /\ pc' \notin {"idle", "original"} /\ pc # "idle"
             /\ UNCHANGED <<todo, clashed, originals, before>>
    BY <2>3 DEF OriginalsGenuine, Kept
  <2>4. CASE pc' = "idle"
    BY <2>4 DEF OriginalsGenuine
  <2>5. ASSUME NEW k \in Foreign, NEW v \in Values \cup {Missing}, ForeignSet(k, v)
        PROVE  OriginalsGenuine'
    <3>1. Kept' \subseteq Kept \ {k}
      BY <2>5 DEF ForeignSet, Kept
    <3>2. \A h \in Kept' : staged'[h] = staged[h]
      BY <2>0, <2>5, <3>1 DEF ForeignSet, TypeOK, Stores
    <3> QED
      BY <2>5, <3>1, <3>2 DEF ForeignSet, OriginalsGenuine
  <2>6. CASE UNCHANGED <<pc, todo, clashed, originals, staged, before>>
    BY <2>6 DEF OriginalsGenuine, Kept
  <2> QED
    BY <2>1, <2>2, <2>3, <2>4, <2>5, <2>6
       DEF Next, Transaction, Set, Commit, ReadBack, RollBack, Loop, Notify, Restore,
           RestoreCommit, ForeignCommit, Die, PowerLoss, Gone, vars
<1> QED
  BY <1>1, <1>2, TransactionTypeCorrect, OwnKeysOnlyHolds, PTL DEF Spec

(* For any request, neighbour and number of failures, a transaction leaves  *)
(* every key it was not asked to write as it found it, staged changes of    *)
(* others included, and gives its own keys no value but those asked for and *)
(* those from before, or loses one; but for those that others wrote too.    *)
THEOREM TransactionWritesItsOwn == Spec => WritesItsOwnOnly
<1> DEFINE May(k, v) ==
               \/ \E j \in DOMAIN todo : todo[j] = [key |-> k, value |-> v]
               \/ k \in Kept /\ v \in {before.staged[k], Missing}
               \/ k \in clashed
           A == Transaction => \A k \in Keys : staged'[k] # staged[k] => May(k, staged'[k])
<1>1. TypeOK /\ OwnKeysOnly /\ OriginalsGenuine /\ [Next]_vars => [A]_vars
  <2> SUFFICES ASSUME TypeOK, OwnKeysOnly, OriginalsGenuine, Transaction,
                      NEW k \in Keys, staged'[k] # staged[k]
               PROVE  May(k, staged'[k])
    OBVIOUS
  <2>1. CASE Set
    <3>1. i \in DOMAIN todo /\ todo[i] \in Assignment
      BY <2>1 DEF Set, TypeOK
    <3>2. staged' = [staged EXCEPT ![todo[i].key] = todo[i].value]
      BY <2>1 DEF Set, RollBack
    <3>3. k = todo[i].key /\ staged'[k] = todo[i].value
      BY <3>2 DEF TypeOK, Stores
    <3>4. todo[i] = [key |-> k, value |-> staged'[k]]
      BY <3>1, <3>3 DEF Assignment
    <3> QED
      BY <3>1, <3>4
  <2>2. ASSUME NEW h \in left, Restore(h) PROVE May(k, staged'[k])
    <3>1. h \in Keys /\ originals[h] # Unread /\ h \in Touched(todo)
      BY <2>2 DEF TypeOK, OwnKeysOnly
    <3>2. staged' = [staged EXCEPT ![h] = originals[h]]
      BY <2>2 DEF Restore
    <3>3. k = h /\ staged'[k] = originals[k]
      BY <3>2 DEF TypeOK, Stores
    <3>4. k \in Kept => originals[k] \in {before.staged[k], Missing}
      BY <2>2, <3>1, <3>3 DEF Restore, OriginalsGenuine
    <3>5. k \in Kept \/ k \in clashed
      BY <3>1, <3>3 DEF Kept
    <3> QED
      BY <3>3, <3>4, <3>5
  <2>3. CASE staged' = staged
    BY <2>3
  <2> QED
    BY <2>1, <2>2, <2>3
       DEF Transaction, Begin, ReadOriginal, Commit, ReadBack, Notify, RestoreCommit, RollBack
<1> QED
  BY <1>1, TransactionTypeCorrect, OwnKeysOnlyHolds, OriginalsGenuineHolds, PTL
     DEF Spec, WritesItsOwnOnly

---------------------------------------------------------------------------
(* Why an accepted transaction is durable: from the commit on, the staged   *)
(* and the committed value of every assigned key nobody else wrote are the  *)
(* same, and the read-back has compared the assignments before position i.  *)
OfMine(j) == todo[j].key \notin clashed
Answered == answer = "accepted" \/ pc = "notify"
Checked ==
    /\ answer = "accepted" => pc = "idle"
    /\ pc = "commit" => i = 1
    /\ pc = "readback" \/ Answered =>
          \A j \in DOMAIN todo : OfMine(j) => flash[todo[j].key] = staged[todo[j].key]
    /\ pc = "readback" =>
          \A j \in DOMAIN todo : OfMine(j) /\ j < i => staged[todo[j].key] = todo[j].value
    /\ Answered => \A j \in DOMAIN todo : OfMine(j) => staged[todo[j].key] = todo[j].value

(* From the commit on both stores agree on the assigned keys, and the read-back is right so far. *)
LEMMA CheckedHolds == Spec => []Checked
<1>1. Init => Checked
  BY DEF Init, Checked, Answered
<1>2. TypeOK /\ OwnKeysOnly /\ Checked /\ [Next]_vars => Checked'
  <2> SUFFICES ASSUME TypeOK, OwnKeysOnly, Checked, [Next]_vars PROVE Checked'
    OBVIOUS
  <2> USE DEF Checked, Answered, OfMine
  <2>1. ASSUME NEW r \in Requests, Begin(r) PROVE Checked'
    BY <2>1 DEF Begin
  <2>2. CASE RollBack /\ UNCHANGED answer /\ pc # "idle"
    BY <2>2 DEF RollBack, TypeOK
  <2>3. CASE ReadOriginal
    BY <2>3, LoopStays DEF ReadOriginal, TypeOK
  <2>4. CASE Set
    <3>1. CASE RollBack
      BY <2>2, <2>4, <3>1 DEF Set
    <3>2. CASE ~RollBack
      <4>1. /\ Loop("commit") /\ i \in 1..Len(todo) /\ answer' = answer
            /\ answer # "accepted" /\ todo' = todo
        BY <2>4, <3>2 DEF Set, TypeOK
      <4> QED
        BY <2>4, <4>1 DEF Loop, Set
    <3> QED
      BY <3>1, <3>2
  <2>5. CASE Commit
    <3>1. CASE RollBack
      BY <2>2, <2>5, <3>1 DEF Commit
    <3>2. CASE ~RollBack
      <4>1. /\ flash' = staged /\ staged' = staged /\ todo' = todo /\ i' = i
            /\ pc' = "readback" /\ answer' = answer /\ answer # "accepted"
            /\ clashed' = clashed
        BY <2>5, <3>2 DEF Commit
      <4>2. i = 1
        BY <2>5 DEF Commit
      <4> QED
        BY <4>1, <4>2 DEF TypeOK
    <3> QED
      BY <3>1, <3>2
  <2>6. CASE ReadBack
    <3>1. CASE RollBack
      BY <2>2, <2>6, <3>1 DEF ReadBack
    <3>2. CASE ~RollBack
      <4>1. /\ staged' = staged /\ flash' = flash /\ todo' = todo /\ answer' = answer
            /\ answer # "accepted" /\ Loop("notify") /\ i \in 1..Len(todo)
            /\ clashed' = clashed
        BY <2>6, <3>2 DEF ReadBack, TypeOK
      <4>2. staged[todo[i].key] = todo[i].value
        <5>1. todo[i] \in Assignment
          BY <4>1 DEF TypeOK
        <5>2. todo[i].value # Missing
          BY <5>1, ValuesAssumption DEF Assignment
        <5> QED
          BY <2>6, <3>2, <5>2 DEF ReadBack, Get
      <4> QED
        BY <2>6, <4>1, <4>2 DEF Loop, TypeOK, ReadBack
    <3> QED
      BY <3>1, <3>2
  <2>7. CASE Notify
    BY <2>7 DEF Notify
  <2>8. ASSUME NEW k \in left, Restore(k) PROVE Checked'
    BY <2>8 DEF Restore
  <2>9. CASE RestoreCommit
    BY <2>9 DEF RestoreCommit
  <2>10. \A j \in DOMAIN todo : todo[j].key \in Own
    BY DEF OwnKeysOnly, Touched
  <2>11. ASSUME NEW k \in Foreign, NEW v \in Values \cup {Missing}, ForeignSet(k, v)
         PROVE  Checked'
    <3>1. \A h \in Own \ {k} : staged'[h] = staged[h]
      BY <2>11, KeyFacts DEF ForeignSet, TypeOK, Stores
    <3>2. \A j \in DOMAIN todo : OfMine(j)' => OfMine(j) /\ todo[j].key # k
      BY <2>11 DEF ForeignSet, Touched
    <3> QED
      BY <2>10, <2>11, <3>1, <3>2 DEF ForeignSet
  <2>12. CASE ForeignCommit
    BY <2>12 DEF ForeignCommit
  <2>13. CASE Die \/ PowerLoss
    BY <2>13 DEF Die, PowerLoss, Gone
  <2>14. CASE UNCHANGED vars
    BY <2>14 DEF vars
  <2> QED
    BY <2>1, <2>3, <2>4, <2>5, <2>6, <2>7, <2>8, <2>9, <2>11, <2>12, <2>13, <2>14
       DEF Next, Transaction
<1> QED
  BY <1>1, <1>2, TransactionTypeCorrect, OwnKeysOnlyHolds, PTL DEF Spec

(* Whoever uses the store meanwhile, another trs that writes the same        *)
(* ParameterKey among them, and whatever fails: all of an accepted          *)
(* transaction is durable but for the keys that others wrote as well.       *)
THEOREM AcceptedMeansDurable == Spec => []AcceptedIsDurable
<1>1. Checked => AcceptedIsDurable
  BY DEF Checked, Answered, AcceptedIsDurable, OfMine
<1> QED
  BY <1>1, CheckedHolds, PTL

---------------------------------------------------------------------------
(* The assignments made so far: those behind i while the loop runs, then all. *)
Written == {j \in DOMAIN todo : pc = "set" => j < i}

(* The staged value of a key nobody else wrote is the last one assigned.    *)
LastWins ==
    pc \in {"set", "commit", "readback", "notify"} =>
        \A j \in Written : OfMine(j) => \E h \in Written :
            /\ todo[h].key = todo[j].key
            /\ \A g \in Written : todo[g].key = todo[j].key => g <= h
            /\ staged[todo[h].key] = todo[h].value

(* The invariant above holds in every state. *)
LEMMA LastWinsHolds == Spec => []LastWins
<1>1. Init => LastWins
  BY DEF Init, LastWins
<1>2. TypeOK /\ OwnKeysOnly /\ LastWins /\ [Next]_vars => LastWins'
  <2> SUFFICES ASSUME TypeOK, OwnKeysOnly, LastWins, [Next]_vars,
                      pc' \in {"set", "commit", "readback", "notify"}
               PROVE  LastWins'
    BY DEF LastWins
  <2>1. CASE ReadOriginal
    <3>1. pc' = "set" /\ i' = 1 /\ todo' = todo
      BY <2>1 DEF ReadOriginal, Loop
    <3>2. Written' = {}
      BY <3>1 DEF Written, TypeOK
    <3> QED
      BY <3>2 DEF LastWins
  <2>2. CASE Set
    <3>1. /\ Loop("commit") /\ todo' = todo /\ i \in 1..Len(todo)
          /\ clashed' = clashed
          /\ staged' = [staged EXCEPT ![todo[i].key] = todo[i].value]
          /\ DOMAIN todo = 1..Len(todo) /\ Len(todo) \in Nat
      BY <2>2 DEF Set, RollBack, TypeOK
    <3>2. Written' = Written \cup {i} /\ i \notin Written
      <4>1. Written = 1..(i - 1)
        BY <2>2, <3>1 DEF Written, Set
      <4>2. CASE i < Len(todo) /\ i' = i + 1 /\ pc' = pc
        BY <2>2, <3>1, <4>1, <4>2 DEF Written, Set
      <4>3. CASE i = Len(todo) /\ pc' = "commit"
        BY <3>1, <4>1, <4>3 DEF Written
      <4> QED
        BY <3>1, <4>2, <4>3 DEF Loop
    <3>3. \A j \in DOMAIN todo : todo[j].key \in Keys
      BY KeyFacts DEF OwnKeysOnly, Touched
    <3>4. \A j \in Written : j < i /\ j \in DOMAIN todo /\ j \in Nat
      BY <2>2, <3>1 DEF Written, Set
    <3>5. \A k \in Keys : staged'[k] = IF k = todo[i].key THEN todo[i].value ELSE staged[k]
      BY <3>1 DEF TypeOK, Stores
    <3> SUFFICES ASSUME NEW j \in Written', OfMine(j)
                 PROVE  \E h \in Written' :
                           /\ todo[h].key = todo[j].key
                           /\ \A g \in Written' : todo[g].key = todo[j].key => g <= h
                           /\ staged'[todo[h].key] = todo[h].value
      BY <3>1 DEF LastWins, OfMine
    <3>6. CASE todo[j].key = todo[i].key
      BY <3>1, <3>2, <3>3, <3>4, <3>5, <3>6
    <3>7. CASE todo[j].key # todo[i].key
      <4>1. j \in Written
        BY <3>2, <3>7
      <4>2. PICK h \in Written :
                /\ todo[h].key = todo[j].key
                /\ \A g \in Written : todo[g].key = todo[j].key => g <= h
                /\ staged[todo[h].key] = todo[h].value
        BY <2>2, <4>1 DEF LastWins, Set
      <4> QED
        BY <3>2, <3>3, <3>4, <3>5, <3>7, <4>2
    <3> QED
      BY <3>6, <3>7
  <2>3. CASE Commit
    BY <2>3 DEF Commit, RollBack, LastWins, Written, OfMine
  <2>4. CASE ReadBack
    BY <2>4 DEF ReadBack, RollBack, Loop, LastWins, Written, OfMine
  <2>5. ASSUME NEW k \in Foreign, NEW v \in Values \cup {Missing}, ForeignSet(k, v)
        PROVE  LastWins'
    <3>1. \A j \in DOMAIN todo : todo[j].key \in Keys
      BY KeyFacts DEF OwnKeysOnly, Touched
    <3>2. \A j \in DOMAIN todo : OfMine(j)' =>
             OfMine(j) /\ todo[j].key # k /\ staged'[todo[j].key] = staged[todo[j].key]
      BY <2>5, <3>1 DEF ForeignSet, OfMine, Touched, TypeOK, Stores
    <3>3. Written' = Written /\ Written \subseteq DOMAIN todo /\ UNCHANGED <<pc, todo>>
      BY <2>5 DEF ForeignSet, Written
    <3> SUFFICES ASSUME NEW j \in Written, OfMine(j)'
                 PROVE  \E h \in Written :
                           /\ todo[h].key = todo[j].key
                           /\ \A g \in Written : todo[g].key = todo[j].key => g <= h
                           /\ staged'[todo[h].key] = todo[h].value
      BY <3>3 DEF LastWins
    <3>4. PICK h \in Written :
              /\ todo[h].key = todo[j].key
              /\ \A g \in Written : todo[g].key = todo[j].key => g <= h
              /\ staged[todo[h].key] = todo[h].value
      BY <3>2, <3>3 DEF LastWins
    <3> QED
      BY <3>2, <3>3, <3>4
  <2>6. CASE UNCHANGED <<pc, todo, i, staged, clashed>>
    BY <2>6 DEF LastWins, Written, OfMine
  <2> QED
    BY <2>1, <2>2, <2>3, <2>4, <2>5, <2>6
       DEF Next, Transaction, Begin, Notify, Restore, RestoreCommit, ForeignCommit, Die,
           PowerLoss, Gone, vars
<1> QED
  BY <1>1, <1>2, TransactionTypeCorrect, OwnKeysOnlyHolds, PTL DEF Spec

(* A read-back that succeeds and differs is that of a key assigned twice, or *)
(* written by others too.                                                    *)
LEMMA DifferentMeansRepeated ==
    ASSUME TypeOK, LastWins, pc = "readback", staged[todo[i].key] # todo[i].value, OfMine(i)
    PROVE  Repeats(todo)
<1>1. i \in Written
  BY DEF TypeOK, Written
<1>2. PICK h \in Written : todo[h].key = todo[i].key /\ staged[todo[h].key] = todo[h].value
  BY <1>1 DEF LastWins
<1> QED
  BY <1>1, <1>2 DEF Repeats, Written

(* A rollback has a cause that is counted, so with one trouble none is left *)
(* for the rollback itself; and so is a clash.                              *)
Counted ==
    /\ pc = "restore" => Troubles >= 1
    /\ pc # "idle" /\ clashed # {} => faults >= 1

(* Nothing went wrong, but perhaps for one key given twice or one clash:    *)
(* every uci get told the truth.                                            *)
GetsWorked == Troubles <= 1 /\ (faults = 0 \/ clashed # {})

(* What goes wrong is counted, and what was counted stays so. *)
LEMMA TroublesGrow ==
    ASSUME TypeOK, todo' = todo, Works \/ Fails
    PROVE  /\ Troubles \in Nat /\ Troubles' \in Nat
           /\ Troubles' >= Troubles
           /\ Fails => Troubles' = Troubles + 1 /\ faults' # 0
           /\ Repeats(todo) => Troubles >= 1
BY DEF TypeOK, Troubles, Works, Fails, Repeats

(* A rollback comes from a fault, a clash or a key assigned twice. *)
LEMMA RollBackHasCause ==
    ASSUME TypeOK, LastWins, Counted, RollBack, Set \/ Commit \/ ReadBack
    PROVE  /\ Works \/ Fails
           /\ Troubles' >= 1
           /\ Troubles' <= 1 => GetsWorked
<1>1. Fails \/ (Works /\ (Repeats(todo) \/ clashed # {}))
  <2>1. CASE Set \/ Commit
    BY <2>1 DEF Set, Commit, Loop, RollBack
  <2>2. CASE ReadBack
    <3>1. PICK v : Get(todo[i].key, v) /\ v # todo[i].value
      BY <2>2 DEF ReadBack, RollBack, Loop
    <3> QED
      BY <2>2, <3>1, DifferentMeansRepeated DEF Get, ReadBack, OfMine
  <2> QED
    BY <2>1, <2>2
<1>2. todo' = todo /\ pc # "idle"
  BY DEF Set, Commit, ReadBack
<1>3. CASE Fails
  <2>1. Troubles' = Troubles + 1 /\ Troubles \in Nat
    BY <1>2, <1>3, TroublesGrow
  <2>2. Troubles' <= 1 => faults = 0
    BY <2>1 DEF TypeOK, Troubles
  <2> QED
    BY <1>3, <2>1, <2>2 DEF GetsWorked
<1>4. CASE Works /\ clashed # {}
  <2>1. Troubles' = Troubles /\ Troubles >= 1
    BY <1>2, <1>4 DEF Counted, TypeOK, Troubles, Works
  <2> QED
    BY <1>4, <2>1 DEF GetsWorked
<1>5. CASE Works /\ Repeats(todo)
  <2>1. Troubles' = Troubles /\ Troubles = faults + 1
    BY <1>2, <1>5 DEF Troubles, Works
  <2> QED
    BY <1>5, <2>1 DEF GetsWorked, TypeOK
<1> QED
  BY <1>1, <1>3, <1>4, <1>5

(* The invariant above holds in every state. *)
LEMMA CountedHolds == Spec => []Counted
<1>1. Init => Counted
  BY DEF Init, Counted
<1>2. TypeOK /\ LastWins /\ Counted /\ [Next]_vars => Counted'
  <2> SUFFICES ASSUME TypeOK, LastWins, Counted, [Next]_vars PROVE Counted'
    OBVIOUS
  <2>1. ASSUME pc # "idle", todo' = todo, clashed' = clashed, Works \/ Fails,
               pc' = "restore" => pc = "restore" \/ Troubles' >= 1
        PROVE  Counted'
    <3>1. Troubles \in Nat /\ Troubles' \in Nat /\ Troubles' >= Troubles
      BY <2>1, TroublesGrow
    <3>2. faults \in Nat /\ faults' \in Nat /\ faults' >= faults
      BY <2>1 DEF TypeOK, Works, Fails
    <3> QED
      BY <2>1, <3>1, <3>2 DEF Counted
  <2>2. CASE Set \/ Commit \/ ReadBack
    <3>1. /\ pc # "idle" /\ todo' = todo /\ clashed' = clashed /\ (Works \/ Fails)
      BY <2>2 DEF Set, Commit, ReadBack, Get
    <3>2. pc' = "restore" => RollBack
      BY <2>2 DEF Set, Commit, ReadBack, Loop
    <3> QED
      BY <2>1, <2>2, <3>1, <3>2, RollBackHasCause
  <2>3. CASE ReadOriginal
    BY <2>1, <2>3 DEF ReadOriginal, Get, Loop
  <2>4. ASSUME NEW k \in left, Restore(k) PROVE Counted'
    BY <2>1, <2>4 DEF Restore
  <2>5. CASE Notify \/ RestoreCommit \/ Die \/ PowerLoss
    BY <2>5 DEF Notify, RestoreCommit, Die, PowerLoss, Gone, Counted
  <2>6. ASSUME NEW r \in Requests, Begin(r) PROVE Counted'
    BY <2>6 DEF Begin, Counted
  <2>7. ASSUME NEW k \in Foreign, NEW v \in Values \cup {Missing}, ForeignSet(k, v)
        PROVE  Counted'
    <3>1. CASE pc # "idle" /\ k \in Touched(todo)
      <4>1. todo' = todo /\ pc' = pc /\ Fails
        BY <2>7, <3>1 DEF ForeignSet
      <4>2. Troubles' = Troubles + 1 /\ Troubles \in Nat
        BY <4>1, TroublesGrow
      <4>3. faults' >= 1
        BY <4>1 DEF Fails, TypeOK
      <4> QED
        BY <4>2, <4>3 DEF Counted
    <3>2. CASE ~(pc # "idle" /\ k \in Touched(todo))
      <4>1. todo' = todo /\ pc' = pc /\ faults' = faults /\ (pc # "idle" => clashed' = clashed)
        BY <2>7, <3>2 DEF ForeignSet, Works
      <4> QED
        BY <4>1 DEF Counted, Troubles
    <3> QED
      BY <3>1, <3>2
  <2>8. CASE UNCHANGED <<todo, pc, faults, clashed>>
    BY <2>8 DEF Counted, Troubles
  <2> QED
    BY <2>2, <2>3, <2>4, <2>5, <2>6, <2>7, <2>8 DEF Next, Transaction, ForeignCommit, vars
<1> QED
  BY <1>1, <1>2, TransactionTypeCorrect, LastWinsHolds, PTL DEF Spec

(* The originals, as far as they are read, are what was staged before, and  *)
(* the rollback finds one for each key it has to restore.                   *)
Undoable ==
    /\ pc = "original" =>
           \A j \in DOMAIN todo : j < i => originals[todo[j].key] # Unread
    /\ pc \in {"set", "commit", "readback"} =>
           \A k \in Touched(todo) : originals[k] # Unread
    /\ pc \in {"original", "set", "commit", "readback"} /\ GetsWorked =>
           \A k \in Kept : originals[k] \in {Unread, before.staged[k]}
    /\ pc = "restore" /\ Troubles <= 1 =>
           \A k \in Kept :
               IF k \in left THEN originals[k] = before.staged[k]
                             ELSE staged[k] = before.staged[k]
    /\ answer = "rejected" => pc = "idle"
    /\ RejectedLeavesNoTrace

(* The invariant above holds in every state, and with it the property that  *)
(* is its last part.                                                        *)
LEMMA UndoableHolds == Spec => []Undoable
<1>1. Init => Undoable
  BY DEF Init, Undoable, RejectedLeavesNoTrace
<1>2. /\ TypeOK /\ OwnKeysOnly /\ OriginalsGenuine /\ LastWins /\ Counted
      /\ Undoable /\ [Next]_vars
      => Undoable'
  <2> SUFFICES ASSUME TypeOK, OwnKeysOnly, OriginalsGenuine, LastWins, Counted, Undoable,
                      [Next]_vars
               PROVE  Undoable'
    OBVIOUS
  <2> USE DEF RejectedLeavesNoTrace
  <2>1. ASSUME pc = "restore", todo' = todo, Works \/ Fails, Troubles' <= 1
        PROVE  Works /\ Troubles <= 1
    BY <2>1, TroublesGrow DEF Counted
  <2>2. /\ DOMAIN todo = 1..Len(todo) /\ Len(todo) \in Nat
        /\ \A j \in DOMAIN todo : todo[j].key \in Touched(todo)
        /\ Kept \subseteq Touched(todo)
        /\ Touched(todo) \subseteq Own /\ Own \subseteq Keys
        /\ \A k \in Keys : staged[k] # Unread /\ Missing # Unread
    BY KeyFacts, ValuesAssumption DEF TypeOK, OwnKeysOnly, Touched, Stores, Kept
  <2>3. ASSUME NEW r \in Requests, Begin(r) PROVE Undoable'
    <3>1. \A k \in Own : k \in Keys /\ staged'[k] = before'.staged[k]
      BY <2>2, <2>3 DEF Begin, OwnPart
    <3>2. originals' = NothingRead
      BY <2>3 DEF Begin
    <3>3. CASE ~Valid(r)
      BY <2>3, <3>3 DEF Begin, Undoable, Touched, Kept
    <3>4. CASE Valid(r)
      <4>1. pc' = "original" /\ i' = 1 /\ answer' = "none" /\ todo' \in Seq(Assignment)
        BY <2>3, <3>4, PreparedAssigns DEF Begin
      <4>2. Kept' \subseteq Own
        BY <2>3, PreparedAssigns DEF Begin, Touched, Kept
      <4> QED
        BY <2>2, <3>1, <3>2, <4>1, <4>2 DEF Undoable, NothingRead
    <3> QED
      BY <3>3, <3>4
  <2>4. CASE ReadOriginal
    <3>1. PICK v : /\ originals' \in {originals, [originals EXCEPT ![todo[i].key] = v]}
                   /\ originals[todo[i].key] = Unread =>
                         /\ originals' = [originals EXCEPT ![todo[i].key] = v]
                         /\ Get(todo[i].key, v)
                   /\ originals[todo[i].key] # Unread => originals' = originals /\ Works
      BY <2>4 DEF ReadOriginal
    <3>2. i \in 1..Len(todo) /\ todo[i].key \in Own /\ todo[i].key \in Keys
      BY <2>2, <2>4 DEF ReadOriginal, TypeOK
    <3>3. originals'[todo[i].key] # Unread
      BY <2>2, <3>1, <3>2 DEF Get, TypeOK
    <3>4. \A k \in Keys : k # todo[i].key => originals'[k] = originals[k]
      BY <3>1 DEF TypeOK
    <3>5. UNCHANGED <<todo, staged, before, clashed>> /\ Kept' = Kept
      BY <2>4 DEF ReadOriginal, Kept
    <3>6. GetsWorked' => GetsWorked /\ Works
      <4>1. (Works \/ Fails) /\ pc # "idle"
        BY <2>4 DEF ReadOriginal, Get
      <4>2. CASE Works
        BY <3>5, <4>2 DEF GetsWorked, Troubles, Works
      <4>3. CASE Fails
        <5>1. Troubles' = Troubles + 1 /\ Troubles \in Nat /\ faults' # 0
          BY <3>5, <4>3, TroublesGrow
        <5>2. clashed # {} => Troubles >= 1
          BY <4>1 DEF Counted, Troubles, TypeOK
        <5> QED
          BY <3>5, <5>1, <5>2 DEF GetsWorked
      <4> QED
        BY <4>1, <4>2, <4>3
    <3>10. GetsWorked' => \A k \in Kept : originals'[k] \in {Unread, before.staged[k]}
      <4> SUFFICES ASSUME GetsWorked', NEW k \in Kept
                   PROVE  originals'[k] \in {Unread, before.staged[k]}
        OBVIOUS
      <4>1. GetsWorked /\ Works /\ ~Fails
        BY <3>6 DEF Works, Fails, TypeOK
      <4>2. originals[k] \in {Unread, before.staged[k]} /\ staged[k] = before.staged[k]
        BY <2>4, <4>1 DEF Undoable, OriginalsGenuine, ReadOriginal
      <4>3. k \in Keys
        BY <2>2
      <4> QED
        BY <3>1, <3>2, <3>4, <4>1, <4>2, <4>3 DEF Get, TypeOK
    <3>7. \A j \in DOMAIN todo : j <= i => originals'[todo[j].key] # Unread
      BY <2>2, <2>4, <3>2, <3>3, <3>4 DEF Undoable, ReadOriginal
    <3>8. CASE i < Len(todo) /\ i' = i + 1 /\ pc' = pc
      BY <2>2, <2>4, <3>2, <3>5, <3>7, <3>8, <3>10 DEF Undoable, ReadOriginal
    <3>9. CASE i = Len(todo) /\ i' = 1 /\ pc' = "set"
      <4>1. \A k \in Touched(todo) : originals'[k] # Unread
        BY <2>2, <3>7, <3>9 DEF Touched
      <4> QED
        BY <2>2, <2>4, <3>2, <3>5, <3>9, <3>10, <4>1 DEF Undoable, ReadOriginal
    <3> QED
      BY <2>4, <3>8, <3>9 DEF ReadOriginal, Loop
  <2>5. ASSUME RollBack, Set \/ Commit \/ ReadBack
        PROVE  Undoable'
    <3>1. /\ pc \in {"set", "commit", "readback"}
          /\ UNCHANGED <<todo, originals, answer, before, clashed>>
          /\ pc' = "restore" /\ left' = Restorable
      BY <2>5 DEF Set, Commit, ReadBack, RollBack
    <3>2. Troubles' <= 1 => GetsWorked
      BY <2>5, RollBackHasCause
    <3>3. \A k \in Kept : k \in left' /\ (GetsWorked => originals[k] = before.staged[k])
      BY <2>2, <3>1 DEF Restorable, Undoable
    <3>4. Kept' = Kept
      BY <3>1 DEF Kept
    <3> QED
      BY <3>1, <3>2, <3>3, <3>4 DEF Undoable
  <2>6. ASSUME pc \in {"set", "commit", "readback"}, Works,
               pc' \in {"set", "commit", "readback", "notify"},
               UNCHANGED <<todo, originals, answer, before, clashed>>
        PROVE  Undoable'
    <3>1. GetsWorked' = GetsWorked /\ Kept' = Kept
      BY <2>6 DEF Works, GetsWorked, Troubles, Kept
    <3> QED
      BY <2>6, <3>1 DEF Undoable
  <2>7. CASE Set
    BY <2>5, <2>6, <2>7 DEF Set, Loop
  <2>8. CASE Commit
    BY <2>5, <2>6, <2>8 DEF Commit
  <2>9. CASE ReadBack
    <3>1. CASE RollBack
      BY <2>5, <2>9, <3>1
    <3>2. CASE ~RollBack
      <4>1. todo[i] \in Assignment
        BY <2>9 DEF ReadBack, TypeOK
      <4>2. Works
        BY <2>9, <3>2, <4>1, ValuesAssumption DEF ReadBack, Get, Assignment
      <4> QED
        BY <2>6, <2>9, <3>2, <4>2 DEF ReadBack, Loop
    <3> QED
      BY <3>1, <3>2
  <2>10. CASE Notify
    BY <2>10 DEF Notify, Undoable
  <2>11. ASSUME NEW k \in left, Restore(k) PROVE Undoable'
    <3>1. Troubles' <= 1 =>
              Troubles <= 1 /\ staged' = [staged EXCEPT ![k] = originals[k]]
      BY <2>1, <2>11, TroublesGrow DEF Restore, Works, Fails, Counted
    <3>2. k \in Keys
      BY DEF TypeOK
    <3>3. Troubles' <= 1 =>
              \A h \in Keys : staged'[h] = IF h = k THEN originals[k] ELSE staged[h]
      BY <3>1, <3>2 DEF TypeOK, Stores
    <3>4. /\ Kept' = Kept /\ left' = left \ {k} /\ pc' = pc /\ pc = "restore"
          /\ UNCHANGED <<originals, before, answer>>
      BY <2>11 DEF Restore, Kept
    <3> QED
      BY <2>2, <3>1, <3>3, <3>4 DEF Undoable
  <2>12. CASE RestoreCommit
    <3>1. Troubles' <= 1 => Troubles <= 1 /\ flash' = staged
      BY <2>1, <2>12, TroublesGrow DEF RestoreCommit, Works, Fails, Counted
    <3>2. Kept' = Kept
      BY <2>12 DEF RestoreCommit, Kept
    <3> QED
      BY <2>12, <3>1, <3>2 DEF RestoreCommit, Undoable
  <2>13. ASSUME NEW k \in Foreign, NEW v \in Values \cup {Missing}, ForeignSet(k, v)
         PROVE  Undoable'
    <3>1. /\ UNCHANGED <<pc, todo, i, originals, left, answer, flash, before>>
          /\ Kept' \subseteq Kept /\ k \notin Kept'
      BY <2>13 DEF ForeignSet, Kept
    <3>2. \A h \in Kept' : staged'[h] = staged[h]
      BY <2>2, <2>13, <3>1 DEF ForeignSet, TypeOK, Stores
    <3>3. Troubles' <= 1 => Troubles <= 1
      BY <2>13, <3>1, TroublesGrow DEF ForeignSet
    <3>4. pc # "idle" /\ GetsWorked' => GetsWorked
      <4>1. CASE k \in Touched(todo) /\ pc # "idle"
        <5>1. Fails
          BY <2>13, <4>1 DEF ForeignSet
        <5>2. Troubles' = Troubles + 1 /\ Troubles \in Nat
          BY <3>1, <5>1, TroublesGrow
        <5>3. Troubles' <= 1 => faults = 0
          BY <5>2 DEF TypeOK, Troubles
        <5> QED
          BY <5>2, <5>3 DEF GetsWorked
      <4>2. CASE k \notin Touched(todo) /\ pc # "idle"
        BY <2>13, <4>2 DEF ForeignSet, Works, GetsWorked, Troubles
      <4> QED
        BY <4>1, <4>2
    <3> QED
      BY <3>1, <3>2, <3>3, <3>4 DEF Undoable
  <2>14. CASE ForeignCommit
    BY <2>14 DEF ForeignCommit, Undoable, Troubles, Repeats, GetsWorked, Kept
  <2>15. CASE Die \/ PowerLoss
    BY <2>15 DEF Die, PowerLoss, Gone, Undoable
  <2>16. CASE UNCHANGED vars
    BY <2>16 DEF vars, Undoable, Troubles, Repeats, GetsWorked, Kept
  <2> QED
    BY <2>3, <2>4, <2>7, <2>8, <2>9, <2>10, <2>11, <2>12, <2>13, <2>14, <2>15, <2>16
       DEF Next, Transaction
<1> QED
  BY <1>1, <1>2, TransactionTypeCorrect, OwnKeysOnlyHolds, OriginalsGenuineHolds,
     LastWinsHolds, CountedHolds, PTL DEF Spec

(* A rejected transaction in which one thing went wrong at most has left    *)
(* every key it was to write as it was, staged and durable.                 *)
THEOREM RejectedIsUndone == Spec => []RejectedLeavesNoTrace
BY UndoableHolds, PTL DEF Undoable

---------------------------------------------------------------------------
(* The commit makes durable the last value assigned to each key.            *)
LEMMA CommitHasTargets ==
    ASSUME TypeOK, LastWins, pc = "commit"
    PROVE  \A k \in Kept : staged[k] = Target(todo, k)
<1> SUFFICES ASSUME NEW j \in DOMAIN todo, OfMine(j)
             PROVE  staged[todo[j].key] = Target(todo, todo[j].key)
  BY DEF Kept, Touched, OfMine
<1>1. Written = DOMAIN todo
  BY DEF Written
<1> DEFINE Last(h) == /\ todo[h].key = todo[j].key
                      /\ \A g \in DOMAIN todo : todo[g].key = todo[j].key => g <= h
<1>2. PICK h \in DOMAIN todo : Last(h) /\ staged[todo[h].key] = todo[h].value
  BY <1>1 DEF LastWins
<1>3. PICK c : c = CHOOSE g \in DOMAIN todo : Last(g)
  OBVIOUS
<1>4. c \in DOMAIN todo /\ Last(c)
  BY <1>2, <1>3
<1>5. Target(todo, todo[j].key) = todo[c].value
  BY <1>3 DEF Target
<1>6. h <= c /\ c <= h /\ h \in Nat /\ c \in Nat
  BY <1>2, <1>4 DEF TypeOK
<1> QED
  BY <1>2, <1>5, <1>6

(* Killed or cut off from power at any moment, a transaction whose package  *)
(* nobody else commits has written all of its keys or none.                 *)
THEOREM NeverHalfDurable == Spec => []NoHalfTransaction
<1> USE DEF NoHalfTransaction, AllOrNothing
<1>1. Init => NoHalfTransaction
  BY DEF Init, Touched, Kept
<1>2. /\ TypeOK /\ OwnKeysOnly /\ LastWins /\ Counted /\ Undoable
      /\ NoHalfTransaction /\ [Next]_vars
      => NoHalfTransaction'
  <2> SUFFICES ASSUME TypeOK, OwnKeysOnly, LastWins, Counted, Undoable, NoHalfTransaction,
                      [Next]_vars
               PROVE  NoHalfTransaction'
    OBVIOUS
  <2>1. CASE /\ UNCHANGED <<todo, flash, before, shared>> /\ clashed \subseteq clashed'
             /\ Works \/ Fails
    <3>1. Troubles' <= 1 => Troubles <= 1
      BY <2>1, TroublesGrow
    <3>2. Kept' \subseteq Kept
      BY <2>1 DEF Kept
    <3> QED
      BY <2>1, <3>1, <3>2
  <2>2. ASSUME NEW r \in Requests, Begin(r) PROVE NoHalfTransaction'
    <3>1. Kept' \subseteq Own
      BY <2>2, PreparedAssigns DEF Begin, Touched, Kept
    <3> QED
      BY <2>2, <3>1 DEF Begin, OwnPart
  <2>3. CASE Commit /\ flash' = staged
    <3>1. Kept' = Kept /\ todo' = todo
      BY <2>3 DEF Commit, Kept
    <3> QED
      BY <2>3, <3>1, CommitHasTargets DEF Commit
  <2>4. CASE RestoreCommit
    <3>1. Troubles' <= 1 => Troubles <= 1 /\ flash' = staged
      BY <2>4, TroublesGrow DEF RestoreCommit, Works, Fails, Counted
    <3>2. Troubles <= 1 => \A k \in Kept : staged[k] = before.staged[k]
      BY <2>4 DEF RestoreCommit, Undoable
    <3>3. Kept' = Kept
      BY <2>4 DEF RestoreCommit, Kept
    <3> QED
      BY <2>4, <3>1, <3>2, <3>3 DEF RestoreCommit
  <2>5. CASE ForeignCommit
    BY <2>5 DEF ForeignCommit
  <2>6. CASE Die \/ PowerLoss \/ UNCHANGED vars
    <3>1. UNCHANGED <<todo, flash, before, shared, clashed, faults>>
      BY <2>6 DEF Die, PowerLoss, Gone, vars
    <3> QED
      BY <2>1, <3>1 DEF Works
  <2>7. CASE Notify
    BY <2>1, <2>7 DEF Notify, Works
  <2> QED
    BY <2>1, <2>2, <2>3, <2>4, <2>5, <2>6, <2>7
       DEF Next, Transaction, ReadOriginal, Get, Set, Commit, ReadBack, RollBack,
           Restore, ForeignSet
<1> QED
  BY <1>1, <1>2, TransactionTypeCorrect, OwnKeysOnlyHolds, LastWinsHolds, CountedHolds,
     UndoableHolds, PTL DEF Spec

---------------------------------------------------------------------------
(* How long a transaction can take: the commands it may still run, those of *)
(* a rollback included (raw_get, set, commit, the read-back, ubus call,     *)
(* restore_originals).                                                      *)
Commands ==
    LET n == Len(todo)
        ahead == n - i + 1
    IN  CASE pc = "original" -> ahead + n + 2 * n + 2
          [] pc = "set"      -> ahead + 2 * n + 2
          [] pc = "commit"   -> 2 * n + 2
          [] pc = "readback" -> ahead + n + 1
          [] pc = "notify"   -> 1
          [] pc = "restore"  -> Cardinality(left) + 1
          [] OTHER           -> 0

(* There are no more keys to restore than assignments (restore_originals).  *)
LEMMA FewToRestore ==
    ASSUME TypeOK, OwnKeysOnly, NEW S \in SUBSET Keys, \A k \in S : originals[k] # Unread
    PROVE  IsFiniteSet(S) /\ Cardinality(S) \in 0..Len(todo)
<1> DEFINE n == Len(todo)
           f == [j \in 1..n |-> todo[j].key]
<1>1. n \in Nat /\ DOMAIN todo = 1..n
  BY DEF TypeOK
<1>2. f \in Surjection(1..n, Touched(todo))
  BY <1>1 DEF Touched, Surjection
<1> HIDE DEF f
<1>3. IsFiniteSet(1..n) /\ Cardinality(1..n) = n
  <2>1. /\ IsFiniteSet(1..n)
        /\ Cardinality(1..n) = IF 1 > n THEN 0 ELSE n - 1 + 1
    BY <1>1, FS_Interval
  <2> QED
    BY <1>1, <2>1
<1>4. IsFiniteSet(Touched(todo)) /\ Cardinality(Touched(todo)) <= n
  BY <1>2, <1>3, FS_Surjection
<1>5. S \in SUBSET Touched(todo)
  BY DEF OwnKeysOnly
<1>6. IsFiniteSet(S) /\ Cardinality(S) <= Cardinality(Touched(todo))
  BY <1>4, <1>5, FS_Subset
<1>7. Cardinality(S) \in Nat /\ Cardinality(Touched(todo)) \in Nat
  BY <1>4, <1>6, FS_CardinalityType
<1> QED
  BY <1>1, <1>4, <1>6, <1>7

(* The number of commands still to run is bounded by the request's length.  *)
LEMMA CommandsBounded ==
    ASSUME TypeOK, OwnKeysOnly
    PROVE  /\ Commands \in 0..(4 * Len(todo) + 2)
           /\ pc # "idle" => Commands >= 1
<1>1. Len(todo) \in Nat /\ i \in Nat
  BY DEF TypeOK
<1>2. Cardinality(left) \in 0..Len(todo)
  BY FewToRestore DEF TypeOK
<1>3. pc \in {"original", "set", "commit", "readback"} => Len(todo) >= 1 /\ i \in 1..Len(todo)
  BY DEF TypeOK
<1>4. CASE pc \in {"original", "set", "commit", "readback"}
  <2>1. Len(todo) >= 1 /\ i \in 1..Len(todo)
    BY <1>3, <1>4
  <2> QED
    BY <1>1, <1>4, <2>1 DEF Commands
<1>5. CASE pc = "restore"
  BY <1>1, <1>2, <1>5 DEF Commands
<1>6. CASE pc \in {"notify", "idle"}
  BY <1>1, <1>6 DEF Commands
<1> QED
  BY <1>4, <1>5, <1>6 DEF TypeOK

(* A request of n assignments, ParameterKey included, is answered after     *)
(* 4n + 2 commands at most, however many of them fail: each brings the      *)
(* transaction closer to its end, and the rollback never starts over        *)
(* (setParameterValues).                                                    *)
THEOREM TransactionBounded ==
    Spec => /\ [](Commands \in 0..(4 * Len(todo) + 2))
            /\ [][pc # "idle" /\ Transaction => todo' = todo /\ Commands' < Commands]_vars
<1> DEFINE A == pc # "idle" /\ Transaction => todo' = todo /\ Commands' < Commands
<1>1. TypeOK /\ OwnKeysOnly => Commands \in 0..(4 * Len(todo) + 2)
  BY CommandsBounded
<1>2. TypeOK /\ OwnKeysOnly /\ TypeOK' /\ OwnKeysOnly' /\ [Next]_vars => [A]_vars
  <2> SUFFICES ASSUME TypeOK, OwnKeysOnly, TypeOK', OwnKeysOnly', pc # "idle", Transaction
               PROVE  todo' = todo /\ Commands' < Commands
    OBVIOUS
  <2>1. Len(todo) \in Nat /\ i \in Nat
    BY DEF TypeOK
  <2>2. ASSUME RollBack, pc \in {"set", "commit", "readback"}, todo' = todo,
               originals' = originals
        PROVE  Commands' < Commands
    <3>1. left' \in SUBSET Keys /\ \A k \in left' : originals[k] # Unread
      BY <2>2 DEF RollBack, Restorable
    <3>2. Cardinality(left') \in 0..Len(todo)
      BY <3>1, FewToRestore
    <3>3. Commands' = Cardinality(left') + 1
      BY <2>2 DEF RollBack, Commands
    <3>4. i \in 1..Len(todo)
      BY <2>2 DEF TypeOK
    <3> QED
      BY <2>1, <2>2, <3>2, <3>3, <3>4 DEF Commands
  <2>3. ASSUME NEW after, Loop(after), pc \in {"original", "set", "readback"}, todo' = todo,
               after = CASE pc = "original" -> "set" [] pc = "set" -> "commit"
                         [] OTHER -> "notify"
        PROVE  Commands' < Commands
    <3>1. i \in 1..Len(todo)
      BY <2>3 DEF TypeOK
    <3> QED
      BY <2>1, <2>3, <3>1 DEF Loop, Commands
  <2>4. CASE ReadOriginal
    BY <2>3, <2>4 DEF ReadOriginal
  <2>5. CASE Set
    BY <2>2, <2>3, <2>5 DEF Set
  <2>6. CASE Commit
    <3>1. i \in 1..Len(todo)
      BY <2>6 DEF Commit, TypeOK
    <3>2. CASE pc' = "readback" /\ i' = i /\ todo' = todo
      BY <2>1, <2>6, <3>1, <3>2 DEF Commit, Commands
    <3> QED
      BY <2>2, <2>6, <3>2 DEF Commit
  <2>7. CASE ReadBack
    BY <2>2, <2>3, <2>7 DEF ReadBack
  <2>8. CASE Notify
    BY <2>8 DEF Notify, Commands
  <2>9. ASSUME NEW k \in left, Restore(k) PROVE todo' = todo /\ Commands' < Commands
    <3>1. IsFiniteSet(left) /\ Cardinality(left) \in Nat
      BY <2>1, FewToRestore DEF TypeOK
    <3>2. Cardinality(left') = Cardinality(left) - 1
      BY <2>9, <3>1, FS_RemoveElement DEF Restore
    <3> QED
      BY <2>9, <3>1, <3>2 DEF Restore, Commands
  <2>10. CASE RestoreCommit
    <3>1. Cardinality(left) \in Nat
      BY <2>1, FewToRestore DEF TypeOK
    <3> QED
      BY <2>10, <3>1 DEF RestoreCommit, Commands
  <2> QED
    BY <2>4, <2>5, <2>6, <2>7, <2>8, <2>9, <2>10 DEF Transaction, Begin
<1> QED
  BY <1>1, <1>2, TransactionTypeCorrect, OwnKeysOnlyHolds, PTL DEF Spec
====
