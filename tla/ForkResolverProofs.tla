------------------------- MODULE ForkResolverProofs -------------------------
(***************************************************************************)
(* Proofs about run_blockchain: the resolver's place in its loop and the   *)
(* lock agree, and how far the wall clock was set back bounds how early    *)
(* the lock can be taken.                                                  *)
(***************************************************************************)
EXTENDS ForkResolver, SequenceTheorems, TLAPS

(* The places where run_blockchain holds the lock.                         *)
Holding == pc \in {"checking", "little_nap", "working"}

(* The resolver has the lock in those places and nowhere else.             *)
ResolverHoldsLock == lock = Resolver <=> Holding

(* The wall clock has moved on at least as far as the big nap has lasted,  *)
(* but for what it was set back.                                           *)
NapCounted ==
    /\ wall + stepsBack >= last + slept
    /\ pc = "wanting" => slept >= fork_resolution_secs

(* What was read from the wall clock is not ahead of it by more than that. *)
ReadInThePast == Holding => wall + stepsBack >= now

IInv ==
    /\ TypeOK
    /\ NapCounted
    /\ ReadInThePast
    /\ LockedWhenDue
    /\ ResolverHoldsLock

-----------------------------------------------------------------------------

(* The length of the big nap is a natural number of seconds.               *)
LEMMA NapLength == fork_resolution_secs \in Nat
  BY ResolverAssumption, MetadataAssumption, SMT DEF fork_resolution_secs

(* run_blockchain starts with a nap, the lock free.                        *)
LEMMA Initially == Init => IInv
  <1> SUFFICES ASSUME Init PROVE IInv
    OBVIOUS
  <1>1. TypeOK
    BY ResolverAssumption, NapLength DEF Init, TypeOK
  <1>2. NapCounted /\ ReadInThePast /\ LockedWhenDue
    BY ResolverAssumption
    DEF Init, NapCounted, ReadInThePast, LockedWhenDue, Holding
  <1>3. ResolverHoldsLock
    BY ResolverAssumption DEF Init, ResolverHoldsLock, Holding
  <1> QED
    BY <1>1, <1>2, <1>3 DEF IInv

(* The clocks keep IInv.                                                   *)
LEMMA ClocksKeep == IInv /\ (Second \/ StepBack) => IInv'
  <1> SUFFICES ASSUME IInv, Second \/ StepBack PROVE IInv'
    OBVIOUS
  <1> USE NapLength, ResolverAssumption
  <1>1. CASE Second
    <2>1. TypeOK'
      BY <1>1 DEF IInv, TypeOK, Second
    <2>2. NapCounted' /\ ReadInThePast'
      BY <1>1 DEF IInv, TypeOK, Second, NapCounted, ReadInThePast, Holding
    <2>3. LockedWhenDue' /\ ResolverHoldsLock'
      BY <1>1 DEF IInv, Second, LockedWhenDue, ResolverHoldsLock, Holding
    <2> QED
      BY <2>1, <2>2, <2>3 DEF IInv
  <1>2. CASE StepBack
    <2>1. TypeOK'
      BY <1>2 DEF IInv, TypeOK, StepBack
    <2>2. NapCounted' /\ ReadInThePast' /\ LockedWhenDue'
      BY <1>2 DEF IInv, TypeOK, StepBack, NapCounted, ReadInThePast,
                  LockedWhenDue, Holding
    <2>3. ResolverHoldsLock'
      BY <1>2 DEF IInv, StepBack, ResolverHoldsLock, Holding
    <2> QED
      BY <2>1, <2>2, <2>3 DEF IInv
  <1> QED
    BY <1>1, <1>2

(* The steps of run_blockchain keep IInv.                                  *)
LEMMA ResolverKeeps ==
    IInv /\ (BigNapOver \/ LockChain \/ CheckTime \/ LittleNapOver \/ Work) => IInv'
  <1> SUFFICES ASSUME IInv,
                      BigNapOver \/ LockChain \/ CheckTime \/ LittleNapOver \/ Work
               PROVE  IInv'
    OBVIOUS
  <1> USE NapLength, ResolverAssumption
  <1>1. CASE BigNapOver
    <2>1. TypeOK'
      BY <1>1 DEF IInv, TypeOK, BigNapOver
    <2>2. NapCounted' /\ ReadInThePast' /\ LockedWhenDue' /\ ResolverHoldsLock'
      BY <1>1 DEF IInv, BigNapOver, NapCounted, ReadInThePast, LockedWhenDue,
                  ResolverHoldsLock, Holding
    <2> QED
      BY <2>1, <2>2 DEF IInv
  <1>2. CASE LockChain
    <2>1. TypeOK'
      BY <1>2 DEF IInv, TypeOK, LockChain
    <2>2. NapCounted' /\ ReadInThePast' /\ LockedWhenDue'
      BY <1>2 DEF IInv, TypeOK, LockChain, NapCounted, ReadInThePast,
                  LockedWhenDue, Holding
    <2>3. ResolverHoldsLock'
      BY <1>2 DEF LockChain, ResolverHoldsLock, Holding
    <2> QED
      BY <2>1, <2>2, <2>3 DEF IInv
  <1>3. CASE CheckTime \/ LittleNapOver
    <2>1. TypeOK'
      BY <1>3 DEF IInv, TypeOK, CheckTime, LittleNapOver
    <2>2. NapCounted' /\ ReadInThePast' /\ LockedWhenDue' /\ ResolverHoldsLock'
      BY <1>3 DEF IInv, CheckTime, LittleNapOver, NapCounted, ReadInThePast,
                  LockedWhenDue, ResolverHoldsLock, Holding
    <2> QED
      BY <2>1, <2>2 DEF IInv
  <1>4. CASE Work
    <2>1. TypeOK'
      BY <1>4 DEF IInv, TypeOK, Work
    <2>2. NapCounted' /\ ReadInThePast' /\ LockedWhenDue'
      BY <1>4 DEF IInv, TypeOK, Work, NapCounted, ReadInThePast,
                  LockedWhenDue, Holding
    <2>3. ResolverHoldsLock'
      BY <1>4 DEF Work, ResolverHoldsLock, Holding
    <2> QED
      BY <2>1, <2>2, <2>3 DEF IInv
  <1> QED
    BY <1>1, <1>2, <1>3, <1>4

(* The other tasks only pass the lock on among themselves.                 *)
LEMMA TasksKeep ==
    ASSUME NEW t \in Task, IInv, Ask(t) \/ Obtain(t) \/ Release(t)
    PROVE  IInv'
  <1> USE ResolverAssumption
  <1>1. TypeOK'
    <2>1. CASE Ask(t)
      <3>1. waiters \in Seq(Task \cup {Resolver}) /\ t \in Task \cup {Resolver}
        BY DEF IInv, TypeOK
      <3>2. waiters' \in Seq(Task \cup {Resolver})
        BY <2>1, <3>1, AppendProperties DEF Ask
      <3> QED
        BY <2>1, <3>2 DEF IInv, TypeOK, Ask
    <2>2. CASE Obtain(t)
      <3>1. waiters' \in Seq(Task \cup {Resolver})
        BY <2>2, HeadTailProperties DEF IInv, TypeOK, Obtain
      <3> QED
        BY <2>2, <3>1 DEF IInv, TypeOK, Obtain
    <2>3. CASE Release(t)
      BY <2>3 DEF IInv, TypeOK, Release
    <2> QED
      BY <2>1, <2>2, <2>3
  <1>2. NapCounted' /\ ReadInThePast' /\ LockedWhenDue'
    BY DEF IInv, Ask, Obtain, Release, NapCounted, ReadInThePast,
           LockedWhenDue, Holding
  <1>3. ResolverHoldsLock'
    BY DEF IInv, Ask, Obtain, Release, ResolverHoldsLock, Holding
  <1> QED
    BY <1>1, <1>2, <1>3 DEF IInv

(* IInv holds in every reachable state.                                    *)
THEOREM Invariance == Spec => []IInv
  <1>1. IInv /\ [Next]_vars => IInv'
    <2> SUFFICES ASSUME IInv, [Next]_vars PROVE IInv'
      OBVIOUS
    <2>1. CASE Next
      BY <2>1, ClocksKeep, ResolverKeeps, TasksKeep DEF Next
    <2>2. CASE UNCHANGED vars
      BY <2>2 DEF vars, IInv, TypeOK, NapCounted, ReadInThePast, Holding,
                  LockedWhenDue, ResolverHoldsLock
    <2> QED
      BY <2>1, <2>2
  <1> QED
    BY Initially, <1>1, PTL DEF Spec

(* run_blockchain, the lock and the clocks keep their types.               *)
THEOREM TypeCorrect == Spec => []TypeOK
  <1>1. IInv => TypeOK
    BY DEF IInv
  <1> QED
    BY Invariance, <1>1, PTL

(* When run_blockchain holds the lock a resolution is due, but for what    *)
(* the wall clock was set back.                                            *)
THEOREM TakenWhenDue == Spec => []LockedWhenDue
  <1>1. IInv => LockedWhenDue
    BY DEF IInv
  <1> QED
    BY Invariance, <1>1, PTL

=============================================================================
