---------------------------- MODULE ContainerLock ----------------------------
(***************************************************************************)
(* Several processes and one container file: whefs_mkfs() and whefs_openfs()*)
(* open the file, then wait for an fcntl() lock on the whole of it;         *)
(* whefs_fs_finalize() gives it back (whefs_fs.c, whio_dev_fileno.c).       *)
(*                                                                          *)
(* A process holds one whefs_fs at a time: POSIX locks belong to the        *)
(* process, two containers in one process would not exclude each other.     *)
(* whio_dev_for_filename() gives a device that writes to the descriptor     *)
(* without a buffer, so a write is in the file when the call returns.  A    *)
(* device or build that does not support locks is opened without one        *)
(* (whefs_fs.c:992) and promises nothing of what follows; it is left out.   *)
(***************************************************************************)
EXTENDS Naturals

CONSTANT Process

VARIABLES
    pc,       \* process -> the step its call on the container has reached
    how,      \* process -> how it opened the file: "ro", "rw" or "mk" (mkfs)
    lock,     \* process -> its fcntl() lock: "no", "read" or "write"
    file,     \* the container file: "absent", "broken" or "whole"
    existed,  \* the file was there before any of the processes
    fresh     \* history, process -> no other process wrote since it was locked

vars == <<pc, how, lock, file, existed, fresh>>

Steps == {"idle", "create", "lock", "make", "check", "use", "change", "unlock", "close"}

TypeOK ==
    /\ pc \in [Process -> Steps]
    /\ how \in [Process -> {"ro", "rw", "mk"}]
    /\ lock \in [Process -> {"no", "read", "write"}]
    /\ file \in {"absent", "broken", "whole"}
    /\ existed \in BOOLEAN
    /\ fresh \in [Process -> BOOLEAN]

Init ==
    /\ pc = [p \in Process |-> "idle"]
    /\ how = [p \in Process |-> "ro"]
    /\ lock = [p \in Process |-> "no"]
    /\ existed \in BOOLEAN
    /\ file = IF existed THEN "whole" ELSE "absent"
    /\ fresh = [p \in Process |-> TRUE]

Goto(p, step) == pc' = [pc EXCEPT ![p] = step]

\* Process p leaves the file in state f.
WriteFile(p, f) ==
    /\ file' = f
    /\ fresh' = [q \in Process |-> fresh[q] /\ q = p]

-----------------------------------------------------------------------------
(* Opening: whefs_open_FILE() *)

\* fopen() with "rb" or "r+b": without a file only mkfs goes on.
Open(p) ==
    /\ pc[p] = "idle"
    /\ \E h \in {"ro", "rw", "mk"} :
          /\ file # "absent" \/ h = "mk"
          /\ how' = [how EXCEPT ![p] = h]
          /\ Goto(p, IF file = "absent" THEN "create" ELSE "lock")
    /\ UNCHANGED <<lock, file, existed, fresh>>

\* fopen() with "w+b" truncates the file, which may be there by now, before the
\* lock is asked for.
Create(p) ==
    /\ pc[p] = "create"
    /\ WriteFile(p, "broken")
    /\ Goto(p, "lock")
    /\ UNCHANGED <<how, lock, existed>>

\* Mutant: a container opened for writing asks for the lock of a reader.
WantedReadOnly(p) == "read"

Wanted(p) == IF how[p] = "ro" THEN "read" ELSE "write"

\* External: fcntl() grants a lock no other process's lock conflicts with.
Grantable(p) ==
    \A q \in Process \ {p} : lock[q] = "no" \/ (lock[q] = "read" /\ Wanted(p) = "read")

\* Mutant: a lock that is not granted at once is done without.
LockNotWaitedFor(p) ==
    /\ pc[p] = "lock"
    /\ lock' = IF Grantable(p) THEN [lock EXCEPT ![p] = Wanted(p)] ELSE lock
    /\ fresh' = [fresh EXCEPT ![p] = TRUE]
    /\ Goto(p, IF how[p] = "mk" THEN "make" ELSE "check")
    /\ UNCHANGED <<how, file, existed>>

\* whefs_fs_lock(): fcntl() with F_SETLKW waits until the lock is granted.
Lock(p) ==
    /\ pc[p] = "lock" /\ Grantable(p)
    /\ lock' = [lock EXCEPT ![p] = Wanted(p)]
    /\ fresh' = [fresh EXCEPT ![p] = TRUE]
    /\ Goto(p, IF how[p] = "mk" THEN "make" ELSE "check")
    /\ UNCHANGED <<how, file, existed>>

\* fcntl() fails, interrupted for one: the device is closed and the call fails.
LockFails(p) ==
    /\ pc[p] = "lock"
    /\ Goto(p, "idle")
    /\ UNCHANGED <<how, lock, file, existed, fresh>>

-----------------------------------------------------------------------------
(* Using the container *)

\* whefs_mkfs_stage2(): writes until it is done or fails, and then finalizes.
Make(p) ==
    /\ pc[p] = "make"
    /\ \/ file # "broken" /\ WriteFile(p, "broken") /\ UNCHANGED pc
       \/ file = "broken" /\ WriteFile(p, "whole") /\ Goto(p, "use")
       \/ Goto(p, "unlock") /\ UNCHANGED <<file, fresh>>
    /\ UNCHANGED <<how, lock, existed>>

\* Mutant: a container that cannot be opened keeps its device and lock.
CheckKeepsLock(p) ==
    /\ pc[p] = "check"
    /\ \/ file = "whole" /\ Goto(p, "use")
       \/ Goto(p, "idle")
    /\ UNCHANGED <<how, lock, file, existed, fresh>>

\* whefs_openfs_stage2(): reads the header, or fails and finalizes.
Check(p) ==
    /\ pc[p] = "check"
    /\ \/ file = "whole" /\ Goto(p, "use")
       \/ Goto(p, "unlock")
    /\ UNCHANGED <<how, lock, file, existed, fresh>>

\* A call that changes the container writes to it more than once.
Change(p) ==
    /\ \/ pc[p] = "use" /\ how[p] # "ro" /\ WriteFile(p, "broken") /\ Goto(p, "change")
       \/ pc[p] = "change" /\ WriteFile(p, "whole") /\ Goto(p, "use")
    /\ UNCHANGED <<how, lock, existed>>

\* Mutant: the hints are written and the lock given up, but the device is kept.
FinalizeKeepsLock(p) ==
    /\ pc[p] = "use"
    /\ Goto(p, "idle")
    /\ UNCHANGED <<how, lock, file, existed, fresh>>

\* whefs_fs_finalize(): what is still open writes its part, then the hints.
Finalize(p) ==
    /\ pc[p] = "use"
    /\ Goto(p, "unlock")
    /\ IF how[p] = "ro" THEN UNCHANGED <<file, fresh>> ELSE WriteFile(p, file)
    /\ UNCHANGED <<how, lock, existed>>

\* whefs_fs_unlock(): fcntl() with F_SETLK
Unlock(p) ==
    /\ pc[p] = "unlock"
    /\ lock' = [lock EXCEPT ![p] = "no"]
    /\ Goto(p, "close")
    /\ UNCHANGED <<how, file, existed, fresh>>

\* The finalizer of the device closes the file.
CloseDev(p) ==
    /\ pc[p] = "close"
    /\ Goto(p, "idle")
    /\ UNCHANGED <<how, lock, file, existed, fresh>>

\* A process dies: its locks go with it, what it wrote stays.
Crash(p) ==
    /\ pc[p] # "idle"
    /\ Goto(p, "idle")
    /\ lock' = [lock EXCEPT ![p] = "no"]
    /\ UNCHANGED <<how, file, existed, fresh>>

Step(p) ==
    \/ Create(p) \/ Lock(p) \/ LockFails(p) \/ Make(p) \/ Check(p)
    \/ Finalize(p) \/ Unlock(p) \/ CloseDev(p)

Next == \E p \in Process : Open(p) \/ Step(p) \/ Change(p) \/ Crash(p)

Spec == Init /\ [][Next]_vars

\* A call goes on until it returns, and a client finalizes what it opened, after
\* as many changes as it likes but no endless one.
FairSpec ==
    /\ Spec
    /\ \A p \in Process :
          /\ WF_vars(Create(p)) /\ WF_vars(Lock(p)) /\ WF_vars(Make(p) /\ file' # "broken")
          /\ WF_vars(Check(p)) /\ SF_vars(Finalize(p)) /\ WF_vars(Change(p) /\ pc[p] = "change")
          /\ WF_vars(Unlock(p)) /\ WF_vars(CloseDev(p))

-----------------------------------------------------------------------------
(* Properties *)

InUse(p) == pc[p] \in {"make", "check", "use", "change"}

\* The programs share the container as SharedUse says: a program uses it, from
\* the lock granted to the lock given up, when no other one's use excludes it.
use == [p \in Process |-> IF pc[p] \in {"make", "check", "use", "change", "unlock"} THEN Wanted(p) ELSE "no"]

Shared == INSTANCE SharedUse

SharedSpec == Shared!Spec

\* A program that writes is the only one that uses the container.
WriterAlone ==
    \A p, q \in Process : p # q /\ InUse(p) /\ InUse(q) => how[p] = "ro" /\ how[q] = "ro"

\* What a program read from a container that was there before it stays true
\* while it uses it: no other one writes, not even one that makes it anew.
ViewsHold == existed => \A p \in Process : InUse(p) => fresh[p]

\* A lock that was granted is given up, however the call that asked for it ends.
LockReleased == \A p \in Process : (lock[p] # "no") ~> (lock[p] = "no")

\* Who waits for the lock gets it, or an error, once no more programs come.
WaitEnds ==
    <>[][\A p \in Process : ~ Open(p)]_vars => \A p \in Process : (pc[p] = "lock") ~> (pc[p] # "lock")
=============================================================================
