------------------------------ MODULE DirLock ------------------------------
(***************************************************************************)
(* The lock file of utils/dir_lock.rs and its two users: the installation  *)
(* of the kernel's virtual environment (acquire_bootstrap_lock of          *)
(* core/kernel/bootstrap.rs) and the launch of a replacement supervisor    *)
(* (launch_replacement_supervisor_inner of modes/daemon/daemon_mode.rs).   *)
(*                                                                         *)
(* A lock is a file published by link(2) with its owner's pid as content.  *)
(* A contender that finds one opens it, reads the pid, and moves the file  *)
(* of a dead owner aside; it deletes the file when it is the one it opened *)
(* and puts it back otherwise.  Each system call is a step.                *)
(*                                                                         *)
(* A file is represented by the pid it holds, and the handle a contender   *)
(* keeps (the pinned file of acquire_attempt) by where the opened file is  *)
(* now.  An open file's inode number is not reused, so comparing the       *)
(* captured identity with that of a path tells exactly that.               *)
(*                                                                         *)
(* While a file moved by mistake is on its way back the path is free: the  *)
(* history variable exposed tells whether anything came of such a gap.     *)
(***************************************************************************)
CONSTANTS Procs,       \* contending processes
          Ghost,       \* stands for every pid that is not alive
          None,        \* no file; no pid read
          Users,       \* the locks considered: "bootstrap", "launch" or both
          CrashPoints  \* the steps at which a process may die

ASSUME NamesAssumption ==
    /\ Ghost \notin Procs /\ None \notin Procs /\ Ghost # None
    /\ "path" \notin Procs /\ "gone" \notin Procs
    /\ Users \subseteq {"bootstrap", "launch"}

VARIABLES
    lock,      \* the pid in the file at the lock path
    aside,     \* the pid in the file a process has moved to its own aside path
    captured,  \* where the file a process has opened is: at the path, moved
               \* aside by a process, or gone (no file is open, or it is deleted)
    judged,    \* the pid a process has read
    pc,
    user,      \* which of the two locks this is; it never changes
    exposed    \* history: the gap left by a file moved by mistake was used

vars == <<lock, aside, captured, judged, pc, user, exposed>>

Steps == {"idle", "open", "read", "alive", "stat", "rename", "verify",
          "restore", "holding", "removing"}

Goto(p, step) == pc' = [pc EXCEPT ![p] = step]

\* The path is free, or a process that died left its lock behind.
Init ==
    /\ lock \in {None, Ghost}
    /\ aside = [p \in Procs |-> None]
    /\ captured = [p \in Procs |-> "gone"]
    /\ judged = [p \in Procs |-> None]
    /\ pc = [p \in Procs |-> "idle"]
    /\ user \in Users
    /\ exposed = FALSE

\* The file at place from is now at place to, for whoever has it open.
Moved(from, to) == [q \in Procs |-> IF captured[q] = from THEN to ELSE captured[q]]

\* acquire_attempt returns Held or Reclaimed: the handle is closed (handles are
\* those of the other processes) and the caller may try again.
ReturnWith(p, handles) ==
    /\ Goto(p, "idle")
    /\ captured' = [handles EXCEPT ![p] = "gone"]
    /\ judged' = [judged EXCEPT ![p] = None]

Return(p) == ReturnWith(p, captured)

\* The file p has moved aside is not the one it judged; it will be put back.
Mislaid(p) == aside[p] # None /\ captured[p] # p

\* Something happens that the missing file would have prevented.
GapUsed == exposed' = (exposed \/ \E q \in Procs : Mislaid(q))

-----------------------------------------------------------------------------
(* acquire_attempt.                                                        *)

Link(p) ==
    /\ pc[p] = "idle" /\ lock = None
    /\ lock' = p
    /\ Goto(p, "holding")
    /\ GapUsed
    /\ UNCHANGED <<aside, captured, judged, user>>

LinkExists(p) ==
    /\ pc[p] = "idle" /\ lock # None
    /\ Goto(p, "open")
    /\ UNCHANGED <<lock, aside, captured, judged, user, exposed>>

\* ENOENT is reported as Reclaimed.
Open(p) ==
    /\ pc[p] = "open"
    /\ IF lock = None
       THEN Return(p)
       ELSE /\ Goto(p, "read")
            /\ captured' = [captured EXCEPT ![p] = "path"]
            /\ UNCHANGED judged
    /\ UNCHANGED <<lock, aside, user, exposed>>

(* judge_and_reclaim.                                                      *)

\* Mutant: an absent owner file is read as empty content.
ReadOwnerRaw(p) ==
    /\ pc[p] = "read"
    /\ judged' = [judged EXCEPT ![p] = IF lock = None THEN "" ELSE lock]
    /\ Goto(p, "alive")
    /\ UNCHANGED <<lock, aside, captured, user, exposed>>

\* The pid is read through the path, not through the handle; a path that is gone
\* reads as absent.
ReadOwner(p) ==
    /\ pc[p] = "read"
    /\ judged' = [judged EXCEPT ![p] = lock]
    /\ Goto(p, "alive")
    /\ IF lock = None THEN GapUsed ELSE UNCHANGED exposed
    /\ UNCHANGED <<lock, aside, captured, user>>

\* An unreadable owner file counts as a live lock.
OwnerUnreadable(p) ==
    /\ pc[p] = "read" /\ lock # None
    /\ Return(p)
    /\ UNCHANGED <<lock, aside, user, exposed>>

\* Mutant: the owner's liveness is not looked at.
OwnerAliveIgnored(p) ==
    /\ pc[p] = "alive"
    /\ Goto(p, "stat") /\ UNCHANGED <<captured, judged>>
    /\ UNCHANGED <<lock, aside, user, exposed>>

\* Mutant: the lock of a dead owner is held as well.
OwnerAliveAlways(p) ==
    /\ pc[p] = "alive"
    /\ Return(p)
    /\ UNCHANGED <<lock, aside, user, exposed>>

\* The users' owner_alive.  An absent owner is dead to the launch lock, and to
\* the bootstrap lock when there is a file at the path after all and it is old.
TakenForDead(p) ==
    \/ judged[p] = Ghost
    \/ judged[p] = None /\ (user = "bootstrap" => lock # None)

TakenForAlive(p) ==
    \/ judged[p] \in Procs
    \/ judged[p] = None /\ user = "bootstrap"

OwnerAlive(p) ==
    /\ pc[p] = "alive"
    /\ \/ TakenForAlive(p) /\ Return(p)
       \/ TakenForDead(p) /\ Goto(p, "stat") /\ UNCHANGED <<captured, judged>>
    /\ UNCHANGED <<lock, aside, user, exposed>>

StatAgain(p) ==
    /\ pc[p] = "stat"
    /\ IF captured[p] # "path"
       THEN Return(p)
       ELSE Goto(p, "rename") /\ UNCHANGED <<captured, judged>>
    /\ UNCHANGED <<lock, aside, user, exposed>>

\* ENOENT: a racing reclaimer moved it first.
Rename(p) ==
    /\ pc[p] = "rename"
    /\ IF lock = None
       THEN Return(p) /\ UNCHANGED <<lock, aside>>
       ELSE /\ aside' = [aside EXCEPT ![p] = lock]
            /\ lock' = None
            /\ captured' = Moved("path", p)
            /\ Goto(p, "verify")
            /\ UNCHANGED judged
    /\ UNCHANGED <<user, exposed>>

\* Mutant: whatever was moved aside is deleted.
VerifyNothing(p) ==
    /\ pc[p] = "verify"
    /\ aside' = [aside EXCEPT ![p] = None]
    /\ ReturnWith(p, Moved(p, "gone"))
    /\ UNCHANGED <<lock, user, exposed>>

\* The file set aside is deleted when it is the captured one.
Verify(p) ==
    /\ pc[p] = "verify"
    /\ IF captured[p] = p
       THEN ReturnWith(p, Moved(p, "gone")) /\ aside' = [aside EXCEPT ![p] = None]
       ELSE Goto(p, "restore") /\ UNCHANGED <<captured, judged, aside>>
    /\ UNCHANGED <<lock, user, exposed>>

\* A no-clobber link puts it back; if there is a new lock it stays aside, where
\* nobody looks for it.
Restore(p) ==
    /\ pc[p] = "restore"
    /\ lock' = IF lock = None THEN aside[p] ELSE lock
    /\ aside' = [aside EXCEPT ![p] = None]
    /\ ReturnWith(p, Moved(p, IF lock = None THEN "path" ELSE "gone"))
    /\ UNCHANGED <<user, exposed>>

-----------------------------------------------------------------------------
(* The callers' release.                                                   *)

\* Launch lock: is this process's pid in the file?
CheckOwner(p) ==
    /\ user = "launch" /\ pc[p] = "holding"
    /\ Goto(p, IF lock = p THEN "removing" ELSE "idle")
    /\ UNCHANGED <<lock, aside, captured, judged, user, exposed>>

\* Bootstrap lock: at once.
Remove(p) ==
    /\ pc[p] = IF user = "launch" THEN "removing" ELSE "holding"
    /\ lock' = None
    /\ captured' = Moved("path", "gone")
    /\ Goto(p, "idle")
    /\ UNCHANGED <<aside, judged, user, exposed>>

\* What p has written or is remembered for belongs to a dead process.
Buried(pid, p) == IF pid = p THEN Ghost ELSE pid

\* The process dies and another one takes its place among the contenders: its
\* pid is not alive any more, its handle is closed and its aside file is litter.
Crash(p) ==
    /\ pc[p] \in CrashPoints
    /\ lock' = Buried(lock, p)
    /\ aside' = [q \in Procs |-> IF q = p THEN None ELSE Buried(aside[q], p)]
    /\ judged' = [q \in Procs |-> IF q = p THEN None ELSE Buried(judged[q], p)]
    /\ captured' = [Moved(p, "gone") EXCEPT ![p] = "gone"]
    /\ Goto(p, "idle")
    /\ exposed' = (exposed \/ Mislaid(p))
    /\ UNCHANGED user

-----------------------------------------------------------------------------
Attempt(p) ==
    \/ Link(p) \/ LinkExists(p) \/ Open(p) \/ ReadOwner(p) \/ OwnerUnreadable(p)
    \/ OwnerAlive(p) \/ StatAgain(p) \/ Rename(p) \/ Verify(p) \/ Restore(p)

Release(p) == CheckOwner(p) \/ Remove(p)

Next == \E p \in Procs : Attempt(p) \/ Release(p) \/ Crash(p)

Spec == Init /\ [][Next]_vars

\* A contender keeps trying (BOOTSTRAP_LOCK_RETRY_MS), transient read errors
\* aside.  Nothing obliges a holder to finish.
FairSpec ==
    Spec /\ \A p \in Procs : WF_vars(Attempt(p)) /\ SF_vars(ReadOwner(p))

-----------------------------------------------------------------------------
(* Properties.                                                             *)

\* Type correctness: files hold pids, and an open file is at a known place.
TypeOK ==
    /\ lock \in Procs \cup {Ghost, None}
    /\ aside \in [Procs -> Procs \cup {Ghost, None}]
    /\ captured \in [Procs -> Procs \cup {"path", "gone"}]
    /\ judged \in [Procs -> Procs \cup {Ghost, None}]
    /\ pc \in [Procs -> Steps]
    /\ user \in Users
    /\ exposed \in BOOLEAN

\* A process that has been told Acquired and has not yet released the lock.
Holder(p) == pc[p] \in {"holding", "removing"}

\* However many processes contend and wherever they die, at most one of them at a
\* time rebuilds the virtual environment or launches a supervisor, unless a gap
\* was used: a process linked its lock, or read an absent owner, while a file
\* moved by mistake was on its way back, or the mover died before putting it back.
MutualExclusion ==
    ~exposed => \A p, q \in Procs : Holder(p) /\ Holder(q) => p = q

\* Unless a gap was used, reclaiming never destroys a lock that is held: the file
\* of a holder is at the path, or aside with a contender that will notice the
\* mix-up, and then nobody else's is at the path.
HeldLockExists ==
    ~exposed =>
        \A p \in Procs : Holder(p) =>
            \/ lock = p
            \/ lock = None /\ \E q \in Procs : Mislaid(q) /\ aside[q] = p

\* Unless a gap was used, what a release removes is the lock of the process that
\* releases: for the bootstrap lock, which is removed without looking, and for the
\* launch lock, where the pid is compared first and the path may change in between.
ReleaseRemovesOwn ==
    [][\A p \in Procs :
          ~exposed /\ Holder(p) /\ ~Holder(p)' /\ lock # None /\ lock' = None
              => lock = p]_vars

\* A lock whose owner died does not stay: some contender moves it out of the
\* way, however their attempts interleave.
StaleLockGoes == lock = Ghost ~> lock # Ghost
=============================================================================
