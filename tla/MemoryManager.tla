---------------------------- MODULE MemoryManager ----------------------------
(***************************************************************************)
(* MemoryManager, ValuePtr, ScopeValueManager and ValuePool                *)
(* (memory_manager.h, memory_manager.cpp).                                 *)
(*                                                                         *)
(* Each ValuePtr belongs to a thread of its own.  Its destructor, its      *)
(* assignments and reset take two locked or unlocked steps, untrackValue   *)
(* and delete, before they take the new value, and the other threads run   *)
(* between them.  A deleted address is given out again when nothing points *)
(* to it; a program that reads or deletes a dead value has left C++ and    *)
(* stops ("fault").  A Value counts as one, whatever its size: the code    *)
(* adds sizeof of the base class, and the other counters are only reported. *)
(***************************************************************************)
EXTENDS Integers, FiniteSets, Sequences, Functions

CONSTANTS
    Addresses,      \* that a Value can have
    Pointers,       \* the ValuePtr objects
    Null,
    PoolSize,       \* ValuePool::maxSize
    Wrap,           \* size_t counts modulo Wrap
    MaxHistory      \* bound: how many of the calls that void a promise are
                    \* made before the last step

\* What is in memory at one time can be counted by a size_t.
ASSUME MemoryAssumption ==
    /\ Null \notin Addresses \cup Pointers
    /\ PoolSize \in Nat
    /\ Wrap \in Nat \ {0}
    /\ IsFiniteSet(Addresses) /\ Cardinality(Addresses) < Wrap
    /\ MaxHistory \in Nat

VARIABLES
    alive,          \* values allocated and not deleted
    raw,            \* values the program holds itself
    scoped,         \* ScopeValueManager::values
    pool,           \* ValuePool::pool
    ptrs,           \* the fields of each ValuePtr
    doing,          \* the rest of the call that runs on it
    tracked,        \* trackedValues
    current,        \* currentAllocated
    history,        \* what the program did that voids a promise
    fault

memoryVars == <<alive, raw, scoped, pool, ptrs, doing, tracked, current, history, fault>>

Empty == [at |-> Null, managed |-> FALSE]
Idle  == [stage |-> "idle", at |-> Null, source |-> Empty, from |-> Null, moves |-> FALSE]

MemoryInit ==
    /\ alive = {} /\ raw = {} /\ scoped = {} /\ pool = <<>>
    /\ ptrs = [p \in Pointers |-> Empty]
    /\ doing = [p \in Pointers |-> Idle]
    /\ tracked = {}
    /\ current = 0
    /\ history = {}
    /\ fault = FALSE

Pooled == Range(pool)
PointedAt ==
    raw \cup scoped \cup Pooled
    \cup UNION {{ptrs[p].at, doing[p].at, doing[p].source.at} : p \in Pointers}

----------------------------------------------------------------------------
(* MemoryManager.                                                          *)

\* A value that is tracked again is counted again; its text is logged.
Tracking(a) ==
    /\ tracked' = tracked \cup {a}
    /\ current' = (current + 1) % Wrap
    /\ fault' = (a \notin alive)
    /\ history' = IF a \in tracked THEN history \cup {"tracked twice"} ELSE history

Untracked(as) ==
    /\ tracked' = tracked \ as
    /\ current' = (current - Cardinality(as \cap tracked)) % Wrap

TrackValue(a) ==
    /\ a \in raw
    /\ Tracking(a)
    /\ UNCHANGED <<alive, raw, scoped, pool, ptrs, doing>>

UntrackValue(a) ==
    /\ a \in raw
    /\ Untracked({a})
    /\ UNCHANGED <<alive, raw, scoped, pool, ptrs, doing, history, fault>>

\* cleanupAll, and destroyInstance, whose destructor calls it: what is tracked
\* is deleted, whoever points at it.
CleanupAll ==
    /\ tracked # {}
    /\ alive' = alive \ tracked
    /\ fault' = ~(tracked \subseteq alive)
    /\ tracked' = {}
    /\ current' = 0
    /\ history' = IF tracked \cap PointedAt = {} THEN history ELSE history \cup {"cleaned up"}
    /\ UNCHANGED <<raw, scoped, pool, ptrs, doing>>

\* The values stay tracked.
ResetStatistics ==
    /\ current # 0
    /\ current' = 0
    /\ history' = history \cup {"reset"}
    /\ UNCHANGED <<alive, raw, scoped, pool, ptrs, doing, tracked, fault>>

----------------------------------------------------------------------------
(* ValuePtr.                                                               *)

Owns(p) == ptrs[p].at # Null /\ ptrs[p].managed

\* Threads that use one pointer exclude each other.
Quiet(p) == doing[p] = Idle /\ \A r \in Pointers : doing[r].from # p

\* The old value is untracked if it is owned, then deleted, then source is
\* taken; from is the pointer it is copied or moved from.
Begin(p, source, from, moves) ==
    /\ doing' = [doing EXCEPT ![p] =
                   [stage |-> IF Owns(p) THEN "delete" ELSE "take",
                    at |-> IF Owns(p) THEN ptrs[p].at ELSE Null,
                    source |-> source, from |-> from, moves |-> moves]]
    /\ Untracked(IF Owns(p) THEN {ptrs[p].at} ELSE {})
    /\ UNCHANGED <<alive, scoped, pool, ptrs, fault>>

\* The constructor, with what makeValue or cloneValue has made, and reset.
Construct(p, a, managed) ==
    /\ Quiet(p) /\ ptrs[p] = Empty
    /\ a \in raw
    /\ raw' = raw \ {a}
    /\ Begin(p, [at |-> a, managed |-> managed], Null, FALSE)
    /\ UNCHANGED history
Reset(p, a) ==
    /\ Quiet(p)
    /\ a \in raw
    /\ raw' = raw \ {a}
    /\ Begin(p, [at |-> a, managed |-> ptrs[p].managed], Null, FALSE)
    /\ UNCHANGED history
Destroy(p) ==
    /\ Quiet(p) /\ ptrs[p] # Empty
    /\ Begin(p, Empty, Null, FALSE)
    /\ UNCHANGED <<raw, history>>

CopyAssign(p, q) ==
    /\ p # q /\ Quiet(p) /\ Quiet(q) /\ ptrs[q].at # Null
    /\ Begin(p, ptrs[q], q, FALSE)
    /\ history' = history \cup {"copied"}
    /\ UNCHANGED raw
MoveAssign(p, q) ==
    /\ p # q /\ Quiet(p) /\ Quiet(q) /\ ptrs[q].at # Null
    /\ Begin(p, ptrs[q], q, TRUE)
    /\ UNCHANGED <<raw, history>>

DeleteOld(p) ==
    /\ doing[p].stage = "delete"
    /\ alive' = alive \ {doing[p].at}
    /\ fault' = (doing[p].at \notin alive)
    /\ doing' = [doing EXCEPT ![p].stage = "take", ![p].at = Null]
    /\ UNCHANGED <<raw, scoped, pool, ptrs, tracked, current, history>>

\* Faulty variant of Emptied: a moved pointer keeps what it had.
Kept(q, fields) == fields
\* The pointer that is moved from owns nothing any more.
Emptied(q, fields) == [fields EXCEPT ![q] = Empty]

\* A moved value is tracked already.
Take(p) ==
    /\ doing[p].stage = "take"
    /\ LET new   == doing[p].source
           moves == doing[p].moves
           given == [ptrs EXCEPT ![p] = new]
       IN  /\ ptrs' = IF moves THEN Emptied(doing[p].from, given) ELSE given
           /\ IF new.at # Null /\ new.managed /\ ~moves
              THEN Tracking(new.at)
              ELSE UNCHANGED <<tracked, current, history, fault>>
    /\ doing' = [doing EXCEPT ![p] = Idle]
    /\ UNCHANGED <<alive, raw, scoped, pool>>

\* release: a pointer that was released, or moved from, owns no value it is
\* given by reset.
Release(p) ==
    /\ Quiet(p) /\ ptrs[p].at # Null
    /\ Untracked(IF Owns(p) THEN {ptrs[p].at} ELSE {})
    /\ raw' = raw \cup {ptrs[p].at}
    /\ ptrs' = [ptrs EXCEPT ![p] = Empty]
    /\ UNCHANGED <<alive, scoped, pool, doing, history, fault>>

----------------------------------------------------------------------------
(* The program, ScopeValueManager and ValuePool.                           *)

Allocate(a) ==
    /\ a \notin alive \cup tracked \cup PointedAt
    /\ alive' = alive \cup {a}
    /\ raw' = raw \cup {a}
    /\ UNCHANGED <<scoped, pool, ptrs, doing, tracked, current, history, fault>>

AddValue(a) ==
    /\ a \in raw
    /\ raw' = raw \ {a}
    /\ scoped' = scoped \cup {a}
    /\ UNCHANGED <<alive, pool, ptrs, doing, tracked, current, history, fault>>
Cleanup ==
    /\ scoped # {}
    /\ Untracked(scoped)
    /\ alive' = alive \ scoped
    /\ fault' = ~(scoped \subseteq alive)
    /\ scoped' = {}
    /\ UNCHANGED <<raw, pool, ptrs, doing, history>>

\* A pool that is empty allocates; one that is full deletes.  Neither it nor the
\* destructor of the pool, which deletes too, untracks.
Acquire ==
    /\ pool # <<>>
    /\ raw' = raw \cup {pool[Len(pool)]}
    /\ pool' = SubSeq(pool, 1, Len(pool) - 1)
    /\ UNCHANGED <<alive, scoped, ptrs, doing, tracked, current, history, fault>>
GiveBack(a) ==
    /\ a \in raw
    /\ raw' = raw \ {a}
    /\ IF Len(pool) < PoolSize
       THEN pool' = Append(pool, a) /\ UNCHANGED <<alive, fault>>
       ELSE alive' = alive \ {a} /\ fault' = (a \notin alive) /\ UNCHANGED pool
    /\ history' = IF a \in tracked THEN history \cup {"pooled"} ELSE history
    /\ UNCHANGED <<scoped, ptrs, doing, tracked, current>>

UsePointer(p) ==
    \/ \E a \in Addresses : Reset(p, a) \/ \E b \in BOOLEAN : Construct(p, a, b)
    \/ \E q \in Pointers : CopyAssign(p, q) \/ MoveAssign(p, q)
    \/ Destroy(p) \/ DeleteOld(p) \/ Take(p) \/ Release(p)

MemoryNext ==
    /\ ~fault /\ Cardinality(history) <= MaxHistory
    /\ \/ \E p \in Pointers : UsePointer(p)
       \/ \E a \in Addresses : \/ TrackValue(a) \/ UntrackValue(a)
                               \/ Allocate(a) \/ AddValue(a) \/ GiveBack(a)
       \/ CleanupAll \/ ResetStatistics \/ Cleanup \/ Acquire

MemorySpec == MemoryInit /\ [][MemoryNext]_memoryVars

----------------------------------------------------------------------------

\* Everything that will delete value a, or give it to something that will.
Owners(a) ==
    {<<"ptr", p>> : p \in {q \in Pointers : Quiet(q) /\ Owns(q) /\ ptrs[q].at = a}}
    \cup {<<"delete", p>> : p \in {q \in Pointers : doing[q].at = a}}
    \cup {<<"take", p>> : p \in {q \in Pointers : doing[q].source = [at |-> a, managed |-> TRUE]}}
    \cup {<<"pool", i>> : i \in {j \in DOMAIN pool : pool[j] = a}}
    \cup (IF a \in raw THEN {<<"raw", a>>} ELSE {})
    \cup (IF a \in scoped THEN {<<"scoped", a>>} ELSE {})

\* As long as no ValuePtr is copied, cleanupAll deletes no value in use and no
\* tracked value is put into a pool, a value has one owner at most, whose value
\* is alive, and is deleted once, however pointers are moved, reset and released
\* by threads that run side by side.
DeletedOnce ==
    history \cap {"copied", "cleaned up", "pooled"} = {} =>
      /\ ~fault
      /\ \A a \in Addresses : /\ Cardinality(Owners(a)) <= 1
                            /\ Owners(a) # {} => a \in alive

\* As long as nothing is tracked twice, cleaned up or reset, the counter says
\* how many values are tracked.
CountersMatch ==
    history \cap {"tracked twice", "cleaned up", "reset"} = {} =>
      current = Cardinality(tracked)

\* Whatever the threads that manage values do in between, each value is deleted
\* once, by its owner, and counted for as long as it is tracked.
ValuesAccountedFor == DeletedOnce /\ CountersMatch

=============================================================================
