-------------------------- MODULE UciTransaction --------------------------
(***************************************************************************)
(* transformer.lua, setParameterValues: one SetParameterValues (an ACS RPC *)
(* in tr69d, or the trs command) as the sequence of uci commands it runs.  *)
(* Every command is a process of its own, so other processes (tr69d        *)
(* persisting a milestone, another trs, an administrator) run theirs in    *)
(* between, on other keys or on the same ones, any command may fail, the   *)
(* process may be killed, and the device may lose power.                   *)
(*                                                                         *)
(* UCI keeps one staging area per package for the whole device: `staged`   *)
(* is what uci get shows, `flash` what a power loss leaves.  Values are    *)
(* model values; Missing is what reading an absent option gives.           *)
(***************************************************************************)
EXTENDS Naturals, Sequences

CONSTANTS
    Writable,     \* UCI keys of the read/write parameters of the device map
    ParameterKey, \* UCI key of Device.ManagementServer.ParameterKey
    Foreign,      \* keys other processes set meanwhile, these or others
    Values,       \* normalized values
    Raw,          \* values as the caller writes them
    Missing, Refused, Unread,
    Normal,       \* normalize: Normal[key, raw] is the value, or Refused
    Requests,     \* what callers ask: [items, key]
    MaxTroubles   \* bound: what may go wrong within one transaction

Own == Writable \cup {ParameterKey}
Keys == Own \cup Foreign
Assignment == [key : Keys, value : Values]

ASSUME KeysAssumption == ParameterKey \notin Writable
ASSUME ValuesAssumption == {Missing, Refused, Unread} \cap Values = {} /\ Missing # Unread
ASSUME NormalAssumption ==
    Normal \in [Own \X Raw -> Values \cup {Refused}]
ASSUME RequestsAssumption ==
    \A r \in Requests : /\ r.items \in Seq([key : Keys, value : Raw])
                        /\ r.key \in Raw
ASSUME MaxTroublesAssumption == MaxTroubles \in Nat

VARIABLES
    pc,        \* the next command of the transaction
    todo,      \* the validated assignments, ParameterKey last (`staged` in Lua)
    i,         \* position in todo
    originals, \* values to restore, Unread where none was taken
    left,      \* keys the rollback has still to restore
    answer,    \* what the last transaction returned
    staged,    \* the package as uci get shows it
    flash,     \* the package as committed
    faults,    \* commands of this transaction that failed
    before,    \* ghost: the Own part of both stores when the transaction started
    shared,    \* ghost: somebody else committed the package since
    clashed    \* ghost: keys of todo that somebody else wrote since

vars == <<pc, todo, i, originals, left, answer, staged, flash, faults, before, shared,
          clashed>>

Stores == [Keys -> Values \cup {Missing}]
OwnStores == [Own -> Values \cup {Missing}]

TypeOK ==
    /\ pc \in {"idle", "original", "set", "commit", "readback", "notify", "restore"}
    /\ todo \in Seq(Assignment)
    /\ i \in Nat
    /\ pc \in {"original", "set", "commit", "readback"} => i \in 1..Len(todo)
    /\ originals \in [Keys -> Values \cup {Missing, Unread}]
    /\ left \subseteq Keys
    /\ \A k \in left : originals[k] # Unread
    /\ pc # "restore" => left = {}
    /\ answer \in {"none", "accepted", "rejected"}
    /\ staged \in Stores
    /\ flash \in Stores
    /\ faults \in Nat
    /\ before \in [staged : OwnStores, flash : OwnStores]
    /\ shared \in BOOLEAN
    /\ clashed \subseteq Keys

OwnPart(store) == [k \in Own |-> store[k]]

NothingRead == [k \in Keys |-> Unread]

(* The package as an administrator left it: committed, except perhaps for   *)
(* one option (the first configuration of the ACS URL).                     *)
Init ==
    /\ pc = "idle" /\ todo = <<>> /\ i = 1
    /\ originals = NothingRead /\ left = {} /\ answer = "none"
    /\ flash \in {[k \in Keys |-> Missing]} \cup {[k \in Keys |-> v] : v \in Values}
    /\ staged \in {flash} \cup {[flash EXCEPT ![k] = v] : k \in Writable, v \in Values}
    /\ faults = 0
    /\ before = [staged |-> OwnPart(staged), flash |-> OwnPart(flash)]
    /\ shared = FALSE /\ clashed = {}

---------------------------------------------------------------------------
(* What the transaction assigns. *)

Touched(t) == {t[j].key : j \in DOMAIN t}

(* The value a key has once all assignments are made: the last one wins. *)
Target(t, k) ==
    t[CHOOSE j \in DOMAIN t :
        t[j].key = k /\ \A h \in DOMAIN t : t[h].key = k => h <= j].value

Repeats(t) == \E j, h \in DOMAIN t : j # h /\ t[j].key = t[h].key

(* A key assigned twice counts as trouble: its read-back cannot succeed. *)
Troubles == faults + IF Repeats(todo) THEN 1 ELSE 0

Works == faults' = faults
Fails == Troubles < MaxTroubles /\ faults' = faults + 1

(* Validation of one item, and of the ParameterKey. *)
Valid(r) ==
    /\ \A j \in DOMAIN r.items : /\ r.items[j].key \in Writable
                                 /\ Normal[r.items[j].key, r.items[j].value] \in Values
    /\ Normal[ParameterKey, r.key] \in Values

Prepared(r) ==
    Append([j \in DOMAIN r.items |->
               [key |-> r.items[j].key,
                value |-> Normal[r.items[j].key, r.items[j].value]]],
           [key |-> ParameterKey, value |-> Normal[ParameterKey, r.key]])

---------------------------------------------------------------------------
(* The transaction. *)

(* Nothing is touched before every item and the key have been validated. *)
Begin(r) ==
    /\ pc = "idle"
    /\ before' = [staged |-> OwnPart(staged), flash |-> OwnPart(flash)]
    /\ shared' = FALSE /\ clashed' = {}
    /\ faults' = 0 /\ i' = 1 /\ originals' = NothingRead
    /\ \/ /\ Valid(r)
          /\ todo' = Prepared(r) /\ pc' = "original" /\ answer' = "none"
       \/ /\ ~Valid(r)
          /\ todo' = <<>> /\ pc' = "idle" /\ answer' = "rejected"
    /\ UNCHANGED <<left, staged, flash>>

(* The next assignment of the running loop, or the code after the loop. *)
Loop(after) ==
    \/ i < Len(todo) /\ i' = i + 1 /\ pc' = pc
    \/ i = Len(todo) /\ i' = 1 /\ pc' = after

(* raw_get: a uci get that fails reads like an absent option. *)
Get(k, v) ==
    \/ v = staged[k] /\ Works
    \/ v = Missing /\ Fails

ReadOriginal ==
    /\ pc = "original"
    /\ LET k == todo[i].key
       IN  \/ /\ originals[k] = Unread
              /\ \E v \in {staged[k], Missing} :
                    Get(k, v) /\ originals' = [originals EXCEPT ![k] = v]
           \/ originals[k] # Unread /\ Works /\ UNCHANGED originals
    /\ Loop("set")
    /\ UNCHANGED <<todo, left, answer, staged, flash, before, shared, clashed>>

(* Mutant: the rollback forgets the ParameterKey. *)
RestorableItemsOnly == {k \in Keys : originals[k] # Unread} \ {ParameterKey}

Restorable == {k \in Keys : originals[k] # Unread}

RollBack ==
    /\ pc' = "restore" /\ left' = Restorable
    /\ UNCHANGED <<i, staged, flash>>

(* Mutant: every assignment is committed at once. *)
SetCommitsEach ==
    /\ pc = "set"
    /\ \/ /\ Works
          /\ staged' = [staged EXCEPT ![todo[i].key] = todo[i].value]
          /\ flash' = staged' /\ Loop("commit") /\ UNCHANGED left
       \/ Fails /\ RollBack
    /\ UNCHANGED <<todo, originals, answer, before, shared, clashed>>

Set ==
    /\ pc = "set"
    /\ \/ /\ Works
          /\ staged' = [staged EXCEPT ![todo[i].key] = todo[i].value]
          /\ Loop("commit")
          /\ UNCHANGED <<left, flash>>
       \/ Fails /\ RollBack
    /\ UNCHANGED <<todo, originals, answer, before, shared, clashed>>

(* Mutant: the exit status of uci commit is not looked at. *)
CommitUnchecked ==
    /\ pc = "commit"
    /\ \/ Works /\ flash' = staged
       \/ Fails /\ UNCHANGED flash
    /\ pc' = "readback"
    /\ UNCHANGED <<todo, i, originals, left, answer, staged, before, shared, clashed>>

(* uci commit makes durable all that is staged, whoever staged it. *)
Commit ==
    /\ pc = "commit"
    /\ \/ /\ Works /\ flash' = staged /\ pc' = "readback"
          /\ UNCHANGED <<i, left, staged>>
       \/ Fails /\ RollBack
    /\ UNCHANGED <<todo, originals, answer, before, shared, clashed>>

(* Mutant: the first assignment is skipped by the loop test. *)
ReadBackOffByOne ==
    /\ pc = "readback"
    /\ Works /\ i' = i + 1
    /\ pc' = IF i > Len(todo) THEN "notify" ELSE "readback"
    /\ UNCHANGED <<todo, originals, left, answer, staged, flash, before, shared, clashed>>

ReadBack ==
    /\ pc = "readback"
    /\ \E v \in {staged[todo[i].key], Missing} :
        /\ Get(todo[i].key, v)
        /\ \/ v = todo[i].value /\ Loop("notify") /\ UNCHANGED <<left, staged, flash>>
           \/ v # todo[i].value /\ RollBack
    /\ UNCHANGED <<todo, originals, answer, before, shared, clashed>>

(* The daemon is told; whether it hears it does not matter to the answer. *)
Notify ==
    /\ pc = "notify"
    /\ pc' = "idle" /\ answer' = "accepted"
    /\ i' = 1 /\ originals' = NothingRead
    /\ UNCHANGED <<todo, left, staged, flash, faults, before, shared, clashed>>

(* Mutant: the whole package is reverted. *)
RestoreReverts(k) ==
    /\ pc = "restore" /\ k \in left
    /\ left' = left \ {k}
    /\ staged' = flash /\ Works
    /\ UNCHANGED <<pc, todo, i, originals, answer, flash, before, shared, clashed>>

(* restore_originals: key by key in no particular order; a command that     *)
(* fails is not noticed.  An original that was absent is deleted.           *)
Restore(k) ==
    /\ pc = "restore" /\ k \in left
    /\ left' = left \ {k}
    /\ \/ Works /\ staged' = [staged EXCEPT ![k] = originals[k]]
       \/ Fails /\ UNCHANGED staged
    /\ UNCHANGED <<pc, todo, i, originals, answer, flash, before, shared, clashed>>

RestoreCommit ==
    /\ pc = "restore" /\ left = {}
    /\ \/ Works /\ flash' = staged
       \/ Fails /\ UNCHANGED flash
    /\ pc' = "idle" /\ answer' = "rejected"
    /\ i' = 1 /\ originals' = NothingRead
    /\ UNCHANGED <<todo, left, staged, before, shared, clashed>>

---------------------------------------------------------------------------
(* Everybody else. *)

(* A value set, or deleted by the rollback of another transaction.  One     *)
(* that falls on a key of the running transaction is a trouble for it.      *)
ForeignSet(k, v) ==
    /\ staged' = [staged EXCEPT ![k] = v]
    /\ clashed' = clashed \cup ({k} \cap Touched(todo))
    /\ IF pc # "idle" /\ k \in Touched(todo) THEN Fails ELSE Works
    /\ UNCHANGED <<pc, todo, i, originals, left, answer, flash, before, shared>>

ForeignCommit ==
    /\ Foreign # {} /\ flash' = staged /\ shared' = TRUE
    /\ UNCHANGED <<pc, todo, i, originals, left, answer, staged, faults, before, clashed>>

(* The process is gone, without an answer, and its variables with it; the   *)
(* ghosts still speak of what it had begun.                                 *)
Gone ==
    /\ pc' = "idle" /\ answer' = "none"
    /\ i' = 1 /\ originals' = NothingRead /\ left' = {}
    /\ UNCHANGED <<todo, faults, before, shared, clashed>>

(* What a killed process staged stays, for anybody to commit. *)
Die == pc # "idle" /\ UNCHANGED <<staged, flash>> /\ Gone

(* The staging area is in RAM. *)
PowerLoss == staged' = flash /\ UNCHANGED flash /\ Gone

Transaction ==
    \/ \E r \in Requests : Begin(r)
    \/ ReadOriginal \/ Set \/ Commit \/ ReadBack \/ Notify
    \/ \E k \in left : Restore(k)
    \/ RestoreCommit

Next ==
    \/ Transaction
    \/ \E k \in Foreign, v \in Values \cup {Missing} : ForeignSet(k, v)
    \/ ForeignCommit
    \/ Die \/ PowerLoss

Spec == Init /\ [][Next]_vars

---------------------------------------------------------------------------
(* Properties. *)

(* A transaction that succeeded is durable as a whole, ParameterKey         *)
(* included: a power loss right after the answer loses none of it.  It      *)
(* already is when the daemon is notified.  A key that another process also *)
(* wrote meanwhile (another trs writes the ParameterKey at least) is that   *)
(* process's as well; the others are durable nevertheless.                  *)
AcceptedIsDurable ==
    answer = "accepted" \/ pc = "notify" =>
        \A j \in DOMAIN todo :
            todo[j].key \notin clashed => flash[todo[j].key] = todo[j].value

(* The keys the transaction was to write and nobody else wrote since.       *)
Kept == Touched(todo) \ clashed

(* A transaction that failed leaves every key it was to write as uci get    *)
(* showed it before, and that is what is durable, as long as one thing      *)
(* went wrong at most: a command failed, a key was given twice, or another  *)
(* process wrote one of its keys, which then has what that process or the   *)
(* rollback put there.                                                      *)
RejectedLeavesNoTrace ==
    answer = "rejected" /\ Troubles <= 1 =>
        \A k \in Kept : staged[k] = before.staged[k] /\ flash[k] = staged[k]

(* No transaction disturbs a key it was not asked to write, not even one    *)
(* that somebody else staged and did not commit: the rollback goes key by   *)
(* key because a package-wide revert would erase a staged ACS URL.  And to  *)
(* its own keys it gives the values it was asked for or those from before;  *)
(* however much goes wrong, at worst one is lost (a failed uci get), or,    *)
(* where another process wrote it too, gets a value of that process back.   *)
WritesItsOwnOnly ==
    [][Transaction =>
          \A k \in Keys : staged'[k] # staged[k] =>
              \/ \E j \in DOMAIN todo : todo[j] = [key |-> k, value |-> staged'[k]]
              \/ k \in Kept /\ staged'[k] \in {before.staged[k], Missing}
              \/ k \in clashed]_vars

(* The committed store holds all of the values from before the transaction, *)
(* all of those staged then, or all of the new ones (RPI5_IMAGE.md: "each   *)
(* ManagementServer write is transactionally persisted").                   *)
AllOrNothing ==
    \/ \A k \in Kept : flash[k] = before.flash[k]
    \/ \A k \in Kept : flash[k] = before.staged[k]
    \/ \A k \in Kept : flash[k] = Target(todo, k)

(* That is so whenever the power goes or the process is killed, up to the   *)
(* moment somebody else commits the package or a second thing goes wrong.   *)
(* What a killed process has staged stays half done, off flash, until then. *)
NoHalfTransaction == ~shared /\ Troubles <= 1 => AllOrNothing
===========================================================================
