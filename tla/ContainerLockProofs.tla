------------------------ MODULE ContainerLockProofs ------------------------
(***************************************************************************)
(* For every set of processes: the container is used as SharedUse allows,   *)
(* a writer is alone, and a view of an existing container stays true.       *)
(***************************************************************************)
EXTENDS ContainerLock, TLAPS

Holding(p) == pc[p] \in {"make", "check", "use", "change", "unlock"}

\* The lock is held exactly from the call that got it to the one that gives it up.
LockIsUse == \A p \in Process : lock[p] = (IF Holding(p) THEN Wanted(p) ELSE "no")

\* The locks granted do not conflict.
LocksAgree ==
    \A p, q \in Process : p # q /\ lock[p] # "no" /\ lock[q] # "no" => lock[p] = "read" /\ lock[q] = "read"

\* Only who asked for the lock of a writer is in a step that writes.
WritersAsked == \A p \in Process : pc[p] \in {"make", "change"} => how[p] # "ro"

\* A container that was there is never opened with "w+b".
NeverCreated == existed => file # "absent" /\ \A p \in Process : pc[p] # "create"

LockInv == TypeOK /\ LockIsUse /\ LocksAgree /\ WritersAsked /\ NeverCreated /\ ViewsHold

-----------------------------------------------------------------------------
LEMMA InitHolds == Init => LockInv
  BY DEF Init, LockInv, TypeOK, LockIsUse, LocksAgree, WritersAsked, NeverCreated,
         ViewsHold, InUse, Holding, Steps

\* Who holds the lock of a writer has the container to itself.
LEMMA Alone ==
    ASSUME LockInv, NEW p \in Process, NEW q \in Process, Holding(p), how[p] # "ro", InUse(q)
    PROVE  q = p
  <1>1. lock[p] = "write"
    BY DEF LockInv, LockIsUse, Wanted
  <1>2. lock[q] # "no"
    BY DEF LockInv, LockIsUse, InUse, Holding, Wanted
  <1> QED
    BY <1>1, <1>2 DEF LockInv, LocksAgree

\* A write by the one that has the container to itself spoils no view.
LEMMA WriteKeepsViews ==
    ASSUME LockInv, NEW p \in Process, NEW f, WriteFile(p, f), Holding(p), how[p] # "ro",
           existed' = existed, \A q \in Process : InUse(q)' => InUse(q)
    PROVE  ViewsHold'
  <1> SUFFICES ASSUME existed, NEW q \in Process, InUse(q)
               PROVE  fresh'[q]
    BY DEF ViewsHold
  <1>1. q = p /\ fresh[q]
    BY Alone DEF LockInv, ViewsHold
  <1> QED
    BY <1>1 DEF WriteFile


-----------------------------------------------------------------------------
(* Steps *)

LEMMA TypeStep == ASSUME TypeOK, NEW p \in Process, Open(p) \/ Step(p) \/ Change(p) \/ Crash(p) PROVE TypeOK'
<1>1. CASE Open(p)
  BY <1>1 DEF TypeOK, Open, Goto, Steps
<1>2. CASE Create(p) \/ Make(p) \/ Change(p)
  BY <1>2 DEF TypeOK, Create, Make, Change, WriteFile, Goto, Steps
<1>3. CASE Lock(p) \/ LockFails(p)
  BY <1>3 DEF TypeOK, Lock, LockFails, Wanted, Goto, Steps
<1>4. CASE Check(p)
  BY <1>4 DEF TypeOK, Check, Goto, Steps
<1>5. CASE Finalize(p)
  <2>1. fresh' \in [Process -> BOOLEAN] /\ file' = file
    BY <1>5 DEF TypeOK, Finalize, WriteFile
  <2> QED BY <1>5, <2>1 DEF TypeOK, Finalize, Goto, Steps
<1>6. CASE Unlock(p) \/ CloseDev(p) \/ Crash(p)
  BY <1>6 DEF TypeOK, Unlock, CloseDev, Crash, Goto, Steps
<1> QED BY <1>1, <1>2, <1>3, <1>4, <1>5, <1>6 DEF Step

\* A step that moves one process between two steps that agree on holding the
\* lock, and changes no lock and no mode, leaves the locks as they were.
MovesOnly(p) ==
    /\ UNCHANGED <<how, lock, existed>>
    /\ pc' = [pc EXCEPT ![p] = pc'[p]]
    /\ Holding(p)' <=> Holding(p)

LEMMA MoveKeepsLocks ==
    ASSUME LockInv, NEW p \in Process, MovesOnly(p)
    PROVE  LockIsUse' /\ LocksAgree'
<1>1. \A q \in Process : Holding(q)' <=> Holding(q)
  BY DEF MovesOnly, LockInv, TypeOK, Holding
<1>2. LockIsUse'
  BY <1>1 DEF LockInv, LockIsUse, Wanted, MovesOnly
<1>3. LocksAgree'
  BY DEF LockInv, LocksAgree, MovesOnly
<1> QED BY <1>2, <1>3

\* A step that writes nothing keeps the views of those that went on using it.
LEMMA NoWriteKeepsViews ==
    ASSUME LockInv, UNCHANGED <<fresh, existed>>, \A q \in Process : InUse(q)' => InUse(q)
    PROVE  ViewsHold'
BY DEF LockInv, ViewsHold

LEMMA OpenStep == ASSUME LockInv, NEW p \in Process, Open(p) PROVE LockInv'
<1>1. ~ Holding(p) /\ ~ Holding(p)' /\ \A q \in Process \ {p} : pc'[q] = pc[q] /\ how'[q] = how[q]
  BY DEF Open, Goto, LockInv, TypeOK, Holding
<1>2. LockIsUse'
  BY <1>1 DEF Open, LockInv, LockIsUse, Wanted, Holding
<1>3. LocksAgree' /\ WritersAsked'
  BY <1>1 DEF Open, LockInv, LocksAgree, WritersAsked, Holding
<1>4. NeverCreated'
  BY DEF Open, LockInv, NeverCreated, Goto, TypeOK
<1>5. ViewsHold'
  BY <1>1 DEF Open, LockInv, ViewsHold, InUse, Holding
<1> QED BY <1>2, <1>3, <1>4, <1>5, TypeStep DEF LockInv

\* "w+b" truncates, lock or no lock, but only a container that was not there.
LEMMA CreateStep == ASSUME LockInv, NEW p \in Process, Create(p) PROVE LockInv'
<1>1. ~ existed /\ ~ existed'
  BY DEF Create, LockInv, NeverCreated
<1>2. MovesOnly(p)
  BY DEF Create, LockInv, TypeOK, MovesOnly, Goto, Holding
<1>3. WritersAsked'
  BY DEF Create, LockInv, WritersAsked, Goto, TypeOK
<1>4. NeverCreated' /\ ViewsHold'
  BY <1>1 DEF NeverCreated, ViewsHold
<1>5. TypeOK'
  BY TypeStep DEF LockInv, Step
<1> QED BY <1>2, <1>3, <1>4, <1>5, MoveKeepsLocks DEF LockInv

LEMMA LockStep == ASSUME LockInv, NEW p \in Process, Lock(p) PROVE LockInv'
<1>1. \A q \in Process \ {p} : pc'[q] = pc[q] /\ lock'[q] = lock[q] /\ fresh'[q] = fresh[q]
  BY DEF Lock, Goto, LockInv, TypeOK
<1>2. Holding(p)' /\ lock'[p] = Wanted(p) /\ fresh'[p] /\ Wanted(p) # "no" /\ UNCHANGED <<how, existed, file>>
  BY DEF Lock, Goto, LockInv, TypeOK, Holding, Wanted
<1>3. LockIsUse'
  BY <1>1, <1>2 DEF LockInv, LockIsUse, Wanted, Holding
<1>4. LocksAgree'
  <2> SUFFICES ASSUME NEW q \in Process, NEW r \in Process, q # r, lock'[q] # "no", lock'[r] # "no"
               PROVE  lock'[q] = "read" /\ lock'[r] = "read"
    BY DEF LocksAgree
  <2>1. CASE q = p
    BY <2>1, <1>1, <1>2 DEF Lock, Grantable
  <2>2. CASE r = p
    BY <2>2, <1>1, <1>2 DEF Lock, Grantable
  <2>3. CASE q # p /\ r # p
    BY <2>3, <1>1 DEF LockInv, LocksAgree
  <2> QED BY <2>1, <2>2, <2>3
<1>5. WritersAsked' /\ NeverCreated'
  BY DEF Lock, Goto, LockInv, TypeOK, WritersAsked, NeverCreated
<1>6. ViewsHold'
  BY <1>1, <1>2 DEF LockInv, ViewsHold, InUse
<1>7. TypeOK'
  BY TypeStep DEF LockInv, Step
<1> QED BY <1>3, <1>4, <1>5, <1>6, <1>7 DEF LockInv

\* A process that has the container for itself writes to it and goes on.
LEMMA WriteStep ==
    ASSUME LockInv, NEW p \in Process, Make(p) \/ Change(p) \/ Finalize(p) PROVE LockInv'
<1>1. MovesOnly(p) /\ Holding(p)
  BY DEF Make, Change, Finalize, LockInv, TypeOK, MovesOnly, Goto, Holding
<1>2. WritersAsked' /\ NeverCreated'
  BY DEF Make, Change, Finalize, WriteFile, LockInv, TypeOK, WritersAsked, NeverCreated, Goto
<1>3. \A q \in Process : InUse(q)' => InUse(q)
  BY DEF Make, Change, Finalize, LockInv, TypeOK, InUse, Goto
<1>4. UNCHANGED fresh \/ (how[p] # "ro" /\ \E f : WriteFile(p, f))
  BY DEF Make, Change, Finalize, LockInv, WritersAsked, TypeOK
<1>5. ViewsHold'
  BY <1>1, <1>3, <1>4, WriteKeepsViews, NoWriteKeepsViews DEF MovesOnly
<1>6. TypeOK'
  BY TypeStep DEF LockInv, Step
<1> QED BY <1>1, <1>2, <1>5, <1>6, MoveKeepsLocks DEF LockInv

LEMMA MoveStep ==
    ASSUME LockInv, NEW p \in Process, LockFails(p) \/ Check(p) \/ CloseDev(p) PROVE LockInv'
<1>1. MovesOnly(p) /\ UNCHANGED <<fresh, file>>
  BY DEF LockFails, Check, CloseDev, LockInv, TypeOK, MovesOnly, Goto, Holding
<1>2. WritersAsked' /\ NeverCreated'
  BY DEF LockFails, Check, CloseDev, LockInv, TypeOK, WritersAsked, NeverCreated, Goto
<1>3. \A q \in Process : InUse(q)' => InUse(q)
  BY DEF LockFails, Check, CloseDev, LockInv, TypeOK, InUse, Goto
<1>4. TypeOK'
  BY TypeStep DEF LockInv, Step
<1> QED BY <1>1, <1>2, <1>3, <1>4, MoveKeepsLocks, NoWriteKeepsViews DEF LockInv, MovesOnly

LEMMA LeaveStep == ASSUME LockInv, NEW p \in Process, Unlock(p) \/ Crash(p) PROVE LockInv'
<1>1. \A q \in Process \ {p} : pc'[q] = pc[q] /\ lock'[q] = lock[q]
  BY DEF Unlock, Crash, Goto, LockInv, TypeOK
<1>2. ~ Holding(p)' /\ lock'[p] = "no" /\ UNCHANGED <<how, existed, file, fresh>>
  BY DEF Unlock, Crash, Goto, LockInv, TypeOK, Holding
<1>3. LockIsUse' /\ LocksAgree'
  BY <1>1, <1>2 DEF LockInv, LockIsUse, LocksAgree, Wanted, Holding
<1>4. WritersAsked' /\ NeverCreated'
  BY DEF Unlock, Crash, Goto, LockInv, TypeOK, WritersAsked, NeverCreated
<1>5. ViewsHold'
  BY <1>1, <1>2, NoWriteKeepsViews DEF InUse, Holding
<1>6. TypeOK'
  BY TypeStep DEF LockInv, Step
<1> QED BY <1>3, <1>4, <1>5, <1>6 DEF LockInv

LEMMA NextKeeps == LockInv /\ [Next]_vars => LockInv'
<1> SUFFICES ASSUME LockInv, [Next]_vars PROVE LockInv'
  OBVIOUS
<1>1. CASE UNCHANGED vars
  BY <1>1 DEF vars, LockInv, TypeOK, LockIsUse, LocksAgree, WritersAsked, NeverCreated,
              ViewsHold, InUse, Holding, Wanted
<1>2. CASE Next
  <2> PICK p \in Process : Open(p) \/ Step(p) \/ Change(p) \/ Crash(p)
    BY <1>2 DEF Next
  <2> QED BY OpenStep, CreateStep, LockStep, WriteStep, MoveStep, LeaveStep DEF Step
<1> QED BY <1>1, <1>2

-----------------------------------------------------------------------------
(* Theorems *)

\* The inductive invariant of the processes around the lock of whefs_fs.c.
THEOREM LockTheorem == Spec => []LockInv
BY InitHolds, NextKeeps, PTL DEF Spec

\* While a process uses a container that was there, no other one writes to it.
THEOREM ViewsHoldAlways == Spec => []ViewsHold
<1>1. LockInv => ViewsHold
  BY DEF LockInv
<1> QED BY <1>1, LockTheorem, PTL

\* A process that may write is the only one between lock and unlock.
THEOREM WriterAloneAlways == Spec => []WriterAlone
<1>1. LockInv => WriterAlone
  <2> SUFFICES ASSUME LockInv, NEW p \in Process, NEW q \in Process, p # q, InUse(p), InUse(q)
               PROVE  how[p] = "ro" /\ how[q] = "ro"
    BY DEF WriterAlone
  <2>1. Holding(p) /\ Holding(q)
    BY DEF InUse, Holding
  <2> QED BY <2>1, Alone
<1> QED BY <1>1, LockTheorem, PTL

-----------------------------------------------------------------------------
(* Refinement *)

\* What a process uses the container for is the lock it holds.
LEMMA UseIsLock == LockInv => use = lock
BY DEF LockInv, LockIsUse, TypeOK, use, Holding

LEMMA UseIsLockAfter == LockInv' => use' = lock'
BY DEF LockInv, LockIsUse, TypeOK, use, Holding

LEMMA InitShared == Init => Shared!Init
BY DEF Init, Shared!Init, use

LEMMA StepShared == ASSUME LockInv, [Next]_vars, LockInv' PROVE [Shared!Next]_use
<1>1. use = lock /\ use' = lock'
  BY UseIsLock, UseIsLockAfter
<1>2. CASE UNCHANGED vars
  BY <1>1, <1>2 DEF vars
<1>3. CASE Next
  <2> PICK p \in Process : Open(p) \/ Step(p) \/ Change(p) \/ Crash(p)
    BY <1>3 DEF Next
  <2>1. CASE Lock(p)
    <3>1. Shared!Enter(p, Wanted(p))
      BY <1>1, <2>1 DEF Lock, Grantable, Shared!Enter, Shared!Compatible, LockInv, LockIsUse, Holding, Wanted
    <3>2. Wanted(p) \in {"read", "write"}
      BY DEF Wanted
    <3> QED BY <3>1, <3>2 DEF Shared!Next
  <2>2. CASE Unlock(p) \/ Crash(p)
    BY <1>1, <2>2 DEF Unlock, Crash, Shared!Leave, Shared!Next
  <2>3. CASE Open(p) \/ Create(p) \/ LockFails(p) \/ Make(p) \/ Check(p) \/ Change(p) \/ Finalize(p) \/ CloseDev(p)
    BY <1>1, <2>3 DEF Open, Create, LockFails, Make, Check, Change, Finalize, CloseDev
  <2> QED BY <2>1, <2>2, <2>3 DEF Step
<1> QED BY <1>2, <1>3

\* The processes share the container as SharedUse allows: either one that may
\* write uses it, or any number that only read.
THEOREM SharingTheorem == Spec => SharedSpec
<1>1. LockInv /\ LockInv' /\ [Next]_vars => [Shared!Next]_use
  BY StepShared
<1> QED BY <1>1, InitShared, LockTheorem, PTL DEF Spec, SharedSpec, Shared!Spec
=============================================================================
