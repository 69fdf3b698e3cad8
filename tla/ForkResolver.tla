---------------------------- MODULE ForkResolver ----------------------------
(***************************************************************************)
(* run_blockchain of mini_chain/node.rs, the task that resolves forks, and *)
(* the lock of the chain it shares with every other task.  It sleeps by    *)
(* the runtime's clock, which only moves forward, and decides by the wall  *)
(* clock (SystemTime), which may be set back.  What resolve_chain does to  *)
(* the chain is in ChainStore; here only the lock and the time matter.     *)
(* The lock is tokio's RwLock, which is granted first come first served;   *)
(* tasks that read side by side take turns here.                           *)
(***************************************************************************)
EXTENDS Metadata, SequencesExt

CONSTANTS
    fork_resolution_slots,  \* slots between two resolutions
    Task,                   \* the other tasks that lock the chain
    Resolver,               \* run_blockchain
    Free,                   \* the lock when nobody holds it
    StartTime,              \* the time run_blockchain starts
    MaxTime,                \* bound: the wall clock stops here
    MaxStepsBack            \* bound: how often the wall clock is set back

fork_resolution_secs == slot_secs * fork_resolution_slots

ASSUME ResolverAssumption ==
    /\ fork_resolution_slots \in Nat
    /\ StartTime \in Nat
    /\ MaxTime \in Nat
    /\ MaxStepsBack \in Nat
    /\ Resolver \notin Task
    /\ Free \notin Task \cup {Resolver}

VARIABLES
    wall,           \* the wall clock
    slept,          \* seconds of the big nap, by the runtime's clock
    pc,             \* where run_blockchain is
    now, last,      \* its local variables
    lock,           \* who holds the chain
    waiters,        \* who waits for it, first come first served
    stepsBack       \* how often the wall clock has been set back

vars == <<wall, slept, pc, now, last, lock, waiters, stepsBack>>

-----------------------------------------------------------------------------

Init ==
    /\ wall = StartTime
    /\ slept = 0
    /\ pc = "big_nap"
    /\ now = StartTime
    /\ last = StartTime
    /\ lock = Free
    /\ waiters = <<>>
    /\ stepsBack = 0

(* A second passes on both clocks; a nap is over long before the bound.    *)
Second ==
    /\ wall < MaxTime
    /\ wall' = wall + 1
    /\ slept' = IF slept < fork_resolution_secs THEN slept + 1 ELSE slept
    /\ UNCHANGED <<pc, now, last, lock, waiters, stepsBack>>

(* The wall clock is set back by a second, the other clock is not.  Before *)
(* the epoch run_blockchain would panic.                                   *)
StepBack ==
    /\ stepsBack < MaxStepsBack
    /\ wall > 0
    /\ wall' = wall - 1
    /\ stepsBack' = stepsBack + 1
    /\ UNCHANGED <<slept, pc, now, last, lock, waiters>>

(* run_blockchain *)

(* Mutant: the nap ends a second early.                                    *)
BugShortNap ==
    /\ pc = "big_nap"
    /\ slept + 1 >= fork_resolution_secs
    /\ pc' = "wanting"
    /\ waiters' = Append(waiters, Resolver)
    /\ UNCHANGED <<wall, slept, now, last, lock, stepsBack>>

BigNapOver ==
    /\ pc = "big_nap"
    /\ slept >= fork_resolution_secs
    /\ pc' = "wanting"
    /\ waiters' = Append(waiters, Resolver)
    /\ UNCHANGED <<wall, slept, now, last, lock, stepsBack>>

(* Mutant: the wait is taken off the time read, not added to last.         *)
BugWaitTakenOff ==
    /\ pc = "wanting"
    /\ lock = Free
    /\ waiters # <<>>
    /\ Head(waiters) = Resolver
    /\ lock' = Resolver
    /\ waiters' = Tail(waiters)
    /\ now' = wall - fork_resolution_secs
    /\ pc' = "checking"
    /\ UNCHANGED <<wall, slept, last, stepsBack>>

(* The write lock is granted and the wall clock is read, once.             *)
LockChain ==
    /\ pc = "wanting"
    /\ lock = Free
    /\ waiters # <<>>
    /\ Head(waiters) = Resolver
    /\ lock' = Resolver
    /\ waiters' = Tail(waiters)
    /\ now' = wall
    /\ pc' = "checking"
    /\ UNCHANGED <<wall, slept, last, stepsBack>>

(* while now < last + fork_resolution_secs                                 *)
CheckTime ==
    /\ pc = "checking"
    /\ pc' = IF now < last + fork_resolution_secs THEN "little_nap" ELSE "working"
    /\ UNCHANGED <<wall, slept, now, last, lock, waiters, stepsBack>>

(* slot_secs later the condition is tested again, on the same now.         *)
LittleNapOver ==
    /\ pc = "little_nap"
    /\ pc' = "checking"
    /\ UNCHANGED <<wall, slept, now, last, lock, waiters, stepsBack>>

(* Mutant: the lock is kept for the next round.                            *)
BugKeepLock ==
    /\ pc = "working"
    /\ last' = now
    /\ pc' = "big_nap"
    /\ slept' = 0
    /\ UNCHANGED <<wall, now, lock, waiters, stepsBack>>

(* resolve_chain; the guard of the lock is dropped, the next nap begins.   *)
Work ==
    /\ pc = "working"
    /\ last' = now
    /\ lock' = Free
    /\ pc' = "big_nap"
    /\ slept' = 0
    /\ UNCHANGED <<wall, now, waiters, stepsBack>>

(* The other tasks: each operation on the chain waits for the lock, uses   *)
(* it without sleeping and gives it back.                                  *)

Ask(t) ==
    /\ lock # t
    /\ t \notin ToSet(waiters)
    /\ waiters' = Append(waiters, t)
    /\ UNCHANGED <<wall, slept, pc, now, last, lock, stepsBack>>

Obtain(t) ==
    /\ lock = Free
    /\ waiters # <<>>
    /\ Head(waiters) = t
    /\ lock' = t
    /\ waiters' = Tail(waiters)
    /\ UNCHANGED <<wall, slept, pc, now, last, stepsBack>>

Release(t) ==
    /\ lock = t
    /\ lock' = Free
    /\ UNCHANGED <<wall, slept, pc, now, last, waiters, stepsBack>>

Next ==
    \/ Second
    \/ StepBack
    \/ BigNapOver
    \/ LockChain
    \/ CheckTime
    \/ LittleNapOver
    \/ Work
    \/ \E t \in Task : Ask(t) \/ Obtain(t) \/ Release(t)

Spec == Init /\ [][Next]_vars

(* Clocks advance, sleeps end, the lock is granted in turn and a task that *)
(* holds it finishes.  No task has to ask.                                 *)
Fairness ==
    /\ WF_vars(Second)
    /\ WF_vars(BigNapOver)
    /\ WF_vars(LockChain)
    /\ WF_vars(CheckTime)
    /\ WF_vars(LittleNapOver)
    /\ WF_vars(Work)
    /\ \A t \in Task : WF_vars(Obtain(t)) /\ WF_vars(Release(t))

FairSpec == Spec /\ Fairness

-----------------------------------------------------------------------------

(* Type invariant of the resolver, the lock and the clocks.                *)
TypeOK ==
    /\ wall \in Nat /\ now \in Nat /\ last \in Nat
    /\ slept \in 0 .. fork_resolution_secs
    /\ pc \in {"big_nap", "wanting", "checking", "little_nap", "working"}
    /\ lock \in Task \cup {Resolver, Free}
    /\ waiters \in Seq(Task \cup {Resolver})
    /\ stepsBack \in 0 .. MaxStepsBack

(* Past the big nap at least fork_resolution_secs have passed since last,  *)
(* but for what the wall clock was set back: on a steady clock the little  *)
(* naps, which hold the lock, are never taken.                             *)
LockedWhenDue ==
    pc \in {"checking", "little_nap", "working"} =>
        now + stepsBack >= last + fork_resolution_secs

(* A task that asks for the chain gets it, unless the wall clock is set    *)
(* back.                                                                   *)
EveryTaskServed ==
    \A t \in Task : t \in ToSet(waiters) ~> lock = t \/ stepsBack > 0

(* The little naps end in time for work (node.rs:852 and 857).             *)
LittleNapsEnd == pc = "little_nap" ~> pc = "working"

=============================================================================
