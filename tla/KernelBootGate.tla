--------------------------- MODULE KernelBootGate ---------------------------
(***************************************************************************)
(* The semaphore that bounds how many Python kernels start at the same     *)
(* time (core/kernel/boot_gate.rs), as the startups of the sessions of one *)
(* process use it (core/tools/ipython.rs, with_kernel_boot_permit).  The   *)
(* startups are tasks of a multi-threaded runtime: every critical section  *)
(* of the semaphore's mutex is one step, and so is every read of a         *)
(* waiter's outcome, which has a mutex of its own.                         *)
(***************************************************************************)
EXTENDS Integers, Sequences, FiniteSets, SequencesExt

CONSTANTS Boots,      \* kernel startups, each with a signal of its own
          Permits,    \* resolve_kernel_boot_concurrency()
          MayAbort    \* the startups whose signal may be aborted

ASSUME BootsAssumption == IsFiniteSet(Boots) /\ MayAbort \subseteq Boots
ASSUME PermitsAssumption == Permits \in Nat \ {0}

VARIABLES
    available,  \* SemaphoreState.available
    waiters,    \* SemaphoreState.waiters
    granted,    \* startups whose Waiter.outcome is Some(Ok(()))
    aborted,    \* startups whose signal is aborted
    pc,         \* where each startup is in run()
    grantee     \* whom a startup in release() has taken from the queue

vars == <<available, waiters, granted, aborted, pc, grantee>>

\* idle: before acquire().  queueing: found no permit, not yet in the queue.
\* waiting: in the loop of acquire().  leaving: saw the abort and no outcome.
\* running: function().await.  granting: in release(), between the queue and
\* settle().  done: run() returned.  rejected: acquire() returned the error.
Steps == {"idle", "queueing", "waiting", "leaving", "running", "granting",
          "done", "rejected"}

Goto(b, step) == pc' = [pc EXCEPT ![b] = step]

Init ==
    /\ available = Permits
    /\ waiters = <<>>
    /\ granted = {}
    /\ aborted = {}
    /\ pc = [b \in Boots |-> "idle"]
    /\ grantee = [b \in Boots |-> b]

-----------------------------------------------------------------------------
(* acquire().                                                              *)

AcquireRejected(b) ==
    /\ pc[b] = "idle" /\ b \in aborted
    /\ Goto(b, "rejected")
    /\ UNCHANGED <<available, waiters, granted, aborted, grantee>>

\* Mutant: the permit is taken without looking whether there is one.
AcquireUnchecked(b) ==
    /\ pc[b] = "idle" /\ b \notin aborted
    /\ available' = available - 1
    /\ Goto(b, "running")
    /\ UNCHANGED <<waiters, granted, aborted, grantee>>

AcquireFree(b) ==
    /\ pc[b] = "idle" /\ b \notin aborted /\ available > 0
    /\ available' = available - 1
    /\ Goto(b, "running")
    /\ UNCHANGED <<waiters, granted, aborted, grantee>>

\* No permit: the mutex is released before the waiter is queued.
AcquireBusy(b) ==
    /\ pc[b] = "idle" /\ b \notin aborted /\ available = 0
    /\ Goto(b, "queueing")
    /\ UNCHANGED <<available, waiters, granted, aborted, grantee>>

Enqueue(b) ==
    /\ pc[b] = "queueing"
    /\ waiters' = Append(waiters, b)
    /\ Goto(b, "waiting")
    /\ UNCHANGED <<available, granted, aborted, grantee>>

\* An outcome is honoured, also by a waiter whose signal is aborted.
Resume(b) ==
    /\ pc[b] = "waiting" /\ b \in granted
    /\ Goto(b, "running")
    /\ UNCHANGED <<available, waiters, granted, aborted, grantee>>

\* signal.wait() ends, and no outcome is there yet.
SeeAbort(b) ==
    /\ pc[b] = "waiting" /\ b \in aborted /\ b \notin granted
    /\ Goto(b, "leaving")
    /\ UNCHANGED <<available, waiters, granted, aborted, grantee>>

\* Mutant: the aborted waiter goes on waiting for its turn.
LeaveNever(b) ==
    /\ pc[b] = "leaving" /\ b \in granted
    /\ Goto(b, "running")
    /\ UNCHANGED <<available, waiters, granted, aborted, grantee>>

\* remove_waiter(): nothing happens when release() took the waiter meanwhile.
Leave(b) ==
    /\ pc[b] = "leaving"
    /\ \/ \E i \in DOMAIN waiters :
             waiters[i] = b /\ waiters' = RemoveAt(waiters, i)
       \/ (\A i \in DOMAIN waiters : waiters[i] # b) /\ UNCHANGED waiters
    /\ Goto(b, "rejected")
    /\ UNCHANGED <<available, granted, aborted, grantee>>

(* release(), after function() returned: with a kernel, with an error, or  *)
(* at once because the startup was aborted while it was queued.            *)

ReleaseFree(b) ==
    /\ pc[b] = "running" /\ waiters = <<>>
    /\ available' = available + 1
    /\ Goto(b, "done")
    /\ UNCHANGED <<waiters, granted, aborted, grantee>>

\* Mutant: the permit is put back although the next waiter gets it.
ReleaseNextTwice(b) ==
    /\ pc[b] = "running" /\ waiters # <<>>
    /\ grantee' = [grantee EXCEPT ![b] = Head(waiters)]
    /\ waiters' = Tail(waiters)
    /\ available' = available + 1
    /\ Goto(b, "granting")
    /\ UNCHANGED <<granted, aborted>>

\* Mutant: the waiter is settled but stays at the head of the queue.
ReleaseNextKept(b) ==
    /\ pc[b] = "running" /\ waiters # <<>>
    /\ grantee' = [grantee EXCEPT ![b] = Head(waiters)]
    /\ Goto(b, "granting")
    /\ UNCHANGED <<available, waiters, granted, aborted>>

ReleaseNext(b) ==
    /\ pc[b] = "running" /\ waiters # <<>>
    /\ grantee' = [grantee EXCEPT ![b] = Head(waiters)]
    /\ waiters' = Tail(waiters)
    /\ Goto(b, "granting")
    /\ UNCHANGED <<available, granted, aborted>>

\* waiter.settle(Ok(())), outside the mutex; nobody may be waiting any more.
Settle(b) ==
    /\ pc[b] = "granting"
    /\ granted' = granted \cup {grantee[b]}
    /\ Goto(b, "done")
    /\ UNCHANGED <<available, waiters, aborted, grantee>>

\* The session is disposed or its turn is aborted.
Abort(b) ==
    /\ b \in MayAbort \ aborted
    /\ aborted' = aborted \cup {b}
    /\ UNCHANGED <<available, waiters, granted, pc, grantee>>

-----------------------------------------------------------------------------
Step(b) ==
    \/ AcquireRejected(b) \/ AcquireFree(b) \/ AcquireBusy(b) \/ Enqueue(b)
    \/ Resume(b) \/ SeeAbort(b) \/ Leave(b)
    \/ ReleaseFree(b) \/ ReleaseNext(b) \/ Settle(b)

Next == \E b \in Boots : Step(b) \/ Abort(b)

Spec == Init /\ [][Next]_vars

\* The runtime polls every startup that can go on, and a startup that holds a
\* permit ends: "it is bounded by start()'s own timeouts" (ipython.rs).
FairSpec == Spec /\ \A b \in Boots : WF_vars(Step(b))

-----------------------------------------------------------------------------
(* Properties.                                                             *)

\* Type correctness of the semaphore's state and of the startups.
TypeOK ==
    /\ available \in 0..Permits
    /\ waiters \in Seq(Boots)
    /\ granted \subseteq Boots
    /\ aborted \subseteq MayAbort
    /\ pc \in [Boots -> Steps]
    /\ grantee \in [Boots -> Boots]

Running == {b \in Boots : pc[b] = "running"}

\* The startups that hold a permit: they run, pass theirs on, or have been
\* given one they have not noticed yet.
Holders ==
    {b \in Boots : \/ pc[b] \in {"running", "granting"}
                   \/ pc[b] \in {"waiting", "leaving"} /\ b \in granted}

\* However permits are passed on and aborts race with grants, no more kernels
\* boot at the same time than resolve_kernel_boot_concurrency() allows.
BoundedConcurrency == Cardinality(Running) <= Permits

\* No permit is ever minted: what is free, held and promised fits in Permits.
NoExtraPermit == available + Cardinality(Holders) <= Permits

\* A waiter that will be resumed is not also still queued: release() never
\* grants the same waiter a second permit.
GrantedOnce ==
    \A b \in Boots : b \in granted =>
        /\ \A i \in DOMAIN waiters : waiters[i] # b
        /\ \A c \in Boots : pc[c] = "granting" => grantee[c] # b

\* An aborted startup does not hang in the queue: it is rejected, or granted a
\* permit that it gives back.
AbortedSettles ==
    \A b \in Boots :
        pc[b] = "waiting" /\ b \in aborted ~> pc[b] \in {"done", "rejected"}

\* "A grant that already consumed a slot must be honored, otherwise the permit
\* would leak" (boot_gate.rs, acquire): once every startup has returned, all
\* permits are available again.
NoPermitLeaks ==
    (\A b \in Boots : pc[b] \in {"done", "rejected"}) => available = Permits

\* "FIFO: waiters acquire in the order they queued" (boot_gate.rs,
\* KernelBootSemaphore): a startup in the queue gets its turn.
WaitersAcquire ==
    \A b \in Boots : pc[b] = "waiting" ~> pc[b] \in {"running", "rejected"}
=============================================================================
