---------------------------- MODULE SessionLease ----------------------------
(***************************************************************************)
(* The lease of one session file (core/session_lease.rs): a directory that *)
(* names the process which has the session open.  It is published by the   *)
(* rename of a complete candidate and taken away by a rename, both behind  *)
(* the guard directory of GuardDir.  A lease is told by the process that   *)
(* wrote it; that of a dead process becomes Ghost's, because the pid and   *)
(* start id recorded in it match nobody.                                   *)
(***************************************************************************)
EXTENDS GuardDir

CONSTANTS
    Ghost,          \* the owner of a lease whose process is dead
    Attempts,       \* LEASE_ACQUIRE_ATTEMPTS
    Sweepers,       \* the processes that sweep dead leases when they start
    MaxMishaps      \* bound: deaths and file operations of an acquisition that fail

ASSUME GhostAssumption == Ghost \notin Procs /\ Ghost # None
ASSUME AttemptsAssumption == Attempts \in Nat /\ Attempts > 1 /\ MaxMishaps \in Nat
ASSUME SweepersAssumption == Sweepers \subseteq Procs

VARIABLES
    lease,      \* owner of the lease directory, or None
    call,       \* the operation each process is in the middle of
    holds,      \* the process has a lease handle it has not released
    swept,      \* the process has made the sweep of its start
    mishaps

leaseVars == <<lease, call, holds, swept, mishaps>>
vars == <<guardVars, leaseVars>>

Ops == {"none", "acquire", "release", "sweep"}
Steps == {"rename", "read", "reclaim", "done"}

\* `step' is the next system call of the guarded action and `tries' counts the
\* attempts left; `failed' is the verdict "Could not acquire session lease", and
\* `hitches' counts the attempts spent on a file operation that failed (history).
Calls == [op : Ops, step : Steps, tries : 0 .. Attempts, failed : BOOLEAN, hitches : 0 .. Attempts]

Call(o, s, n) == [op |-> o, step |-> s, tries |-> n, failed |-> FALSE, hitches |-> 0]
NoCall == Call("none", "done", 0)

TypeOK ==
    /\ GuardTypeOK
    /\ lease \in Procs \cup {Ghost, None}
    /\ call \in [Procs -> Calls]
    /\ holds \in [Procs -> BOOLEAN]
    /\ swept \in [Procs -> BOOLEAN]
    /\ mishaps \in 0 .. MaxMishaps

\* An earlier crash may have left a lease behind.
Init ==
    /\ GuardInit
    /\ lease \in {None, Ghost}
    /\ call = [p \in Procs |-> NoCall]
    /\ holds = [p \in Procs |-> FALSE]
    /\ swept = [p \in Procs |-> FALSE]
    /\ mishaps = 0

Idle(p) == section[p] = "out" /\ call[p].op = "none"
At(p, o, s) == section[p] = "in" /\ call[p].op = o /\ call[p].step = s
Goto(p, s) == call' = [call EXCEPT ![p].step = s]
Begin(p, c) == call' = [call EXCEPT ![p] = c]

-----------------------------------------------------------------------------
(* The three operations that want the guard. *)

Acquire(p) ==
    /\ Idle(p) /\ ~holds[p]
    /\ Begin(p, Call("acquire", "rename", Attempts))
    /\ MoveTo(p, "waiting")
    /\ UNCHANGED <<guard, aged, mine, keeper, evicted, lease, holds, swept, mishaps>>

Release(p) ==
    /\ Idle(p) /\ holds[p]
    /\ holds' = [holds EXCEPT ![p] = FALSE]
    /\ Begin(p, Call("release", "read", 0))
    /\ MoveTo(p, "waiting")
    /\ UNCHANGED <<guard, aged, mine, keeper, evicted, lease, swept, mishaps>>

\* try_with_lease_guard: a sweep that meets a guard passes on.
Sweep(p) ==
    /\ p \in Sweepers
    /\ Idle(p) /\ ~holds[p] /\ ~swept[p]
    /\ lease # None
    /\ MakeGuard(p)
    /\ swept' = [swept EXCEPT ![p] = TRUE]
    /\ Begin(p, Call("sweep", "read", 0))
    /\ UNCHANGED <<lease, holds, mishaps>>

\* The guard cannot be had: an acquisition fails, a release leaves the lease.
Abandon(p) ==
    /\ GiveUp(p)
    /\ Begin(p, NoCall)
    /\ UNCHANGED <<lease, holds, swept, mishaps>>

-----------------------------------------------------------------------------
(* acquire_session_lease, behind the guard. *)

RenameCandidate(p) ==
    /\ At(p, "acquire", "rename")
    /\ \/ /\ lease = None
          /\ lease' = p
          /\ holds' = [holds EXCEPT ![p] = TRUE]
          /\ Goto(p, "done")
       \/ /\ lease # None
          /\ Goto(p, "read")
          /\ UNCHANGED <<lease, holds>>
    /\ UNCHANGED <<guardVars, swept, mishaps>>

ContenderActive(p) ==
    /\ At(p, "acquire", "read")
    /\ lease \in Procs
    /\ Goto(p, "done")
    /\ UNCHANGED <<guardVars, lease, holds, swept, mishaps>>

\* Mutant: an owner is not asked whether it lives.
ContenderDeadAssumed(p) ==
    /\ At(p, "acquire", "read")
    /\ Goto(p, "reclaim")
    /\ UNCHANGED <<guardVars, lease, holds, swept, mishaps>>

\* Mutant: only a missing owner file makes a lease stale.
ContenderDeadAbsent(p) ==
    /\ At(p, "acquire", "read")
    /\ lease = None
    /\ Goto(p, "reclaim")
    /\ UNCHANGED <<guardVars, lease, holds, swept, mishaps>>

ContenderDead(p) ==
    /\ At(p, "acquire", "read")
    /\ lease \in {Ghost, None}
    /\ Goto(p, "reclaim")
    /\ UNCHANGED <<guardVars, lease, holds, swept, mishaps>>

\* The acquisition goes on with n attempts left, or ends.
Attempt(n, h) ==
    [op |-> "acquire", step |-> IF n > 0 THEN "rename" ELSE "done", tries |-> n,
     failed |-> (n = 0), hitches |-> h]

\* Mutant: the last attempt is not made.
NextAttemptShort(p, hitch) ==
    Begin(p, [Attempt(call[p].tries - 1, call[p].hitches + hitch)
                EXCEPT !.step = "done", !.failed = TRUE])

\* Mutant: the attempts are not counted.
NextAttemptAlways(p, hitch) ==
    Begin(p, [Attempt(call[p].tries - 1, call[p].hitches + hitch)
                EXCEPT !.step = "rename", !.failed = FALSE])

\* One attempt is over without a lease.
NextAttempt(p, hitch) ==
    Begin(p, Attempt(call[p].tries - 1, call[p].hitches + hitch))

Mishap == mishaps < MaxMishaps /\ mishaps' = mishaps + 1

\* ENOENT of the rename: the candidate is gone.
CandidateVanished(p) ==
    /\ Mishap
    /\ At(p, "acquire", "rename")
    /\ NextAttempt(p, 1)
    /\ UNCHANGED <<guardVars, lease, holds, swept>>

ContenderUnreadable(p) ==
    /\ Mishap
    /\ At(p, "acquire", "read")
    /\ lease # None
    /\ NextAttempt(p, 1)
    /\ UNCHANGED <<guardVars, lease, holds, swept>>

\* reclaim_stale_lease renames whatever is at the path by now.
ReclaimForAcquire(p) ==
    /\ At(p, "acquire", "reclaim")
    /\ lease' = None
    /\ NextAttempt(p, 0)
    /\ UNCHANGED <<guardVars, holds, swept, mishaps>>

\* Its rename fails, which the caller ignores.
ReclaimFails(p) ==
    /\ Mishap
    /\ At(p, "acquire", "reclaim")
    /\ lease # None
    /\ NextAttempt(p, 1)
    /\ UNCHANGED <<guardVars, lease, holds, swept>>

\* The candidate cannot be written or renamed, or reading the owner is an error:
\* the acquisition fails at once.
AcquireError(p) ==
    /\ Mishap
    /\ At(p, "acquire", "rename") \/ At(p, "acquire", "read")
    /\ Goto(p, "done")
    /\ UNCHANGED <<guardVars, lease, holds, swept>>

-----------------------------------------------------------------------------
(* SessionLease::release and sweep_dead_owner_leases, behind the guard. *)

\* Another's token, a missing and an unreadable file are left alone.
ReleaseReads(p) ==
    /\ At(p, "release", "read")
    /\ \/ lease = p /\ Goto(p, "reclaim")
       \/ Goto(p, "done")
    /\ UNCHANGED <<guardVars, lease, holds, swept, mishaps>>

\* A young lease, a living owner and an unreadable file are left alone.
SweepReads(p) ==
    /\ At(p, "sweep", "read")
    /\ \/ lease \in {Ghost, None} /\ Goto(p, "reclaim")
       \/ lease # None /\ Goto(p, "done")
    /\ UNCHANGED <<guardVars, lease, holds, swept, mishaps>>

\* A rename that fails leaves the lease where it is.
ReclaimAndFinish(p) ==
    /\ At(p, "release", "reclaim") \/ At(p, "sweep", "reclaim")
    /\ lease' \in {None, lease}
    /\ Goto(p, "done")
    /\ UNCHANGED <<guardVars, holds, swept, mishaps>>

-----------------------------------------------------------------------------
(* with_acquired_lease_guard after the action. *)

Compromised(p) == guard = None \/ guard # mine[p]

CheckGuard(p) ==
    /\ section[p] = "in" /\ call[p].step = "done"
    /\ MoveTo(p, IF Compromised(p) THEN "out" ELSE "leaving")
    /\ Begin(p, NoCall)
    /\ mine' = [mine EXCEPT ![p] = None]
    /\ UNCHANGED <<guard, aged, keeper, evicted, lease, holds, swept, mishaps>>

RemoveGuard(p) ==
    /\ section[p] = "leaving"
    /\ Unlink(p)
    /\ MoveTo(p, "out")
    /\ UNCHANGED <<mine, leaseVars>>

-----------------------------------------------------------------------------

\* The process dies and another is started in its place.
Crash(p) ==
    /\ Mishap
    /\ ~Idle(p) \/ holds[p]
    /\ GuardCrash(p)
    /\ lease' = IF lease = p THEN Ghost ELSE lease
    /\ Begin(p, NoCall)
    /\ holds' = [holds EXCEPT ![p] = FALSE]
    /\ swept' = [swept EXCEPT ![p] = FALSE]

\* The steps of GuardDir that leave the lease alone.
GuardStep(p) ==
    /\ Make(p) \/ Identify(p) \/ JudgeStale(p) \/ RemoveStale(p)
    /\ UNCHANGED leaseVars

TimePasses == Age /\ UNCHANGED leaseVars

Working(p) ==
    \/ RenameCandidate(p) \/ ContenderActive(p) \/ ContenderDead(p) \/ ReclaimForAcquire(p)
    \/ ReleaseReads(p) \/ SweepReads(p) \/ ReclaimAndFinish(p)
    \/ CheckGuard(p) \/ RemoveGuard(p)

\* A file operation of an acquisition fails.
Hindered(p) ==
    \/ CandidateVanished(p) \/ ContenderUnreadable(p) \/ ReclaimFails(p) \/ AcquireError(p)

Step(p) ==
    \/ Acquire(p) \/ Release(p) \/ Sweep(p) \/ Abandon(p)
    \/ GuardStep(p) \/ Working(p) \/ Hindered(p) \/ Crash(p)

Next == TimePasses \/ \E p \in Procs : Step(p)

Spec == Init /\ [][Next]_vars

\* Whoever wants the session asks again, and a process that waits for the guard
\* keeps trying; file operations do not fail for ever (MaxMishaps).
Fairness ==
    /\ WF_vars(TimePasses)
    /\ \A p \in Procs :
         /\ WF_vars(Acquire(p))
         /\ SF_vars(GuardStep(p))
         /\ WF_vars(Working(p))

FairSpec == Spec /\ Fairness

-----------------------------------------------------------------------------

\* Holders of a lease from its rename to the call of release.
\* Two processes never have the session open, and the lease of one that has
\* it open is neither destroyed nor replaced, whatever crashes, as long as no
\* process lost its guard to the stale window.
LeaseExclusive == evicted \/ \A p \in Procs : holds[p] => lease = p

\* Behind the guard an acquisition gets the lease, meets a living owner or fails
\* for an error it reports: a dead owner costs one attempt of its life, so that the
\* attempts run out only when all of them but one were spent on file operations
\* that failed, or the guard was lost.
FailsOnlyHindered ==
    \A p \in Procs : call[p].failed => evicted \/ call[p].hitches >= Attempts - 1

\* The lease of a dead process is taken away: a session is not locked for
\* ever by a crash, also when the crash left the guard behind.
DeadLeaseGoes == (lease = Ghost) ~> (lease # Ghost)
=============================================================================
