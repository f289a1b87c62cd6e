------------------------ MODULE SupervisorOwnership ------------------------
(***************************************************************************)
(* The registry of supervisors and the shutdown admission                  *)
(* (modes/daemon/daemon_supervisor_ownership.rs).  A supervisor owns a     *)
(* socket when its record is in the registry; an updater that replaces the *)
(* supervisor first takes the admission, a record that expires unless it   *)
(* is renewed and that keeps new supervisors out.  Both are changed behind *)
(* the guard directory of GuardDir, whose inode is compared before and     *)
(* after every action: an action whose guard changed hands reports an      *)
(* error, although it has been carried out.                                *)
(*                                                                         *)
(* All supervisors of the model want the same socket.  A record is told by *)
(* the process that wrote it, Ghost when that process is dead.             *)
(***************************************************************************)
EXTENDS GuardDir

CONSTANTS
    Supervisors,    \* processes that want to own the socket
    Updaters,       \* processes that want the shutdown admission
    Ghost,
    MaxCrashes      \* bound: processes that die

ASSUME RolesAssumption ==
    /\ Supervisors \cup Updaters = Procs
    /\ Supervisors \cap Updaters = {}
    /\ Ghost \notin Procs /\ Ghost # None
    /\ MaxCrashes \in Nat

VARIABLES
    registry,   \* the writers of the owner records in the registry
    admission,  \* the writer of the admission file, or None
    fresh,      \* that admission has not expired
    task,       \* what each process does behind the guard
    step,       \* the next step of that task
    status,     \* what each process believes of itself
    confused,   \* history: the identity of a guard misled somebody
    crashes

ownVars == <<registry, admission, fresh, task, step, status, confused, crashes>>
vars == <<guardVars, ownVars>>

Tasks == {"none", "own", "disown", "admit", "renew", "dismiss"}
Steps == {"none", "assert", "look", "scan", "publish", "drop", "write", "read", "rewrite", "clear",
          "purge", "unlink", "done", "refused"}
Statuses == {"idle", "holder", "over"}

TypeOK ==
    /\ GuardTypeOK
    /\ registry \subseteq Procs \cup {Ghost}
    /\ admission \in Procs \cup {Ghost, None}
    /\ fresh \in BOOLEAN
    /\ task \in [Procs -> Tasks]
    /\ step \in [Procs -> Steps]
    /\ status \in [Procs -> Statuses]
    /\ confused \in BOOLEAN
    /\ crashes \in 0 .. MaxCrashes

Init ==
    /\ GuardInit
    /\ registry \in SUBSET {Ghost}
    /\ admission = None
    /\ fresh = FALSE
    /\ task = [p \in Procs |-> "none"]
    /\ step = [p \in Procs |-> "none"]
    /\ status = [p \in Procs |-> "idle"]
    /\ confused = FALSE
    /\ crashes = 0

\* read_active_shutdown_admission
AdmissionActive == admission \in Procs /\ fresh

At(p, s) == section[p] = "in" /\ step[p] = s
Goto(p, s) == step' = [step EXCEPT ![p] = s]
Become(p, s) == status' = [status EXCEPT ![p] = s]

-----------------------------------------------------------------------------
(* Calls of with_daemon_supervisor_registry_guard. *)

Call(p, t) ==
    /\ section[p] = "out" /\ task[p] = "none"
    /\ task' = [task EXCEPT ![p] = t]
    /\ Goto(p, "assert")
    /\ MoveTo(p, "waiting")
    /\ UNCHANGED <<guard, aged, mine, keeper, evicted, registry, admission, fresh, confused, crashes>>

Own(p) == p \in Supervisors /\ status[p] = "idle" /\ Call(p, "own") /\ UNCHANGED status
Disown(p) == p \in Supervisors /\ status[p] = "holder" /\ Call(p, "disown") /\ Become(p, "over")
Admit(p) == p \in Updaters /\ status[p] = "idle" /\ Call(p, "admit") /\ UNCHANGED status
Renew(p) == p \in Updaters /\ status[p] = "holder" /\ Call(p, "renew") /\ UNCHANGED status
Dismiss(p) == p \in Updaters /\ status[p] = "holder" /\ Call(p, "dismiss") /\ Become(p, "over")

\* The task ended in an error: an owner cannot be acquired, an admission is
\* not acquired or is lost.
Fail(p) ==
    /\ task' = [task EXCEPT ![p] = "none"]
    /\ Goto(p, "none")
    /\ Become(p, "over")

\* The guard was not to be had before the deadline.
Abandon(p) ==
    /\ GiveUp(p)
    /\ Fail(p)
    /\ UNCHANGED <<registry, admission, fresh, confused, crashes>>

\* mkdir, and the stat that reads the inode of what is at the path by then.
EnterGuard(p) ==
    /\ \/ Make(p) /\ confused' = (confused \/ \E q \in Procs \ {p} : mine[q] = guard')
       \/ Identify(p) /\ confused' = (confused \/ keeper # p)
    /\ UNCHANGED <<registry, admission, fresh, task, step, status, crashes>>

EvictGuard(p) ==
    /\ JudgeStale(p) \/ RemoveStale(p)
    /\ UNCHANGED ownVars

\* guard_stolen: without an inode nothing is ever stolen.
Stolen(p) == mine[p] # None /\ guard # mine[p]

FirstStep(t) ==
    CASE t \in {"own", "admit"} -> "look"
      [] t = "disown"  -> "drop"
      [] t = "renew"   -> "read"
      [] t = "dismiss" -> "clear"

AssertHeld(p) ==
    /\ At(p, "assert")
    /\ \/ /\ Stolen(p)
          /\ Fail(p)
          /\ MoveTo(p, "out")
          /\ mine' = [mine EXCEPT ![p] = None]
       \/ /\ ~Stolen(p)
          /\ Goto(p, FirstStep(task[p]))
          /\ UNCHANGED <<task, status, section, mine>>
    /\ UNCHANGED <<guard, aged, keeper, evicted, registry, admission, fresh, confused, crashes>>

-----------------------------------------------------------------------------
(* The actions behind the guard. *)

AfterLook(p) == IF task[p] = "own" THEN "scan" ELSE "write"

\* Mutant: a supervisor does not care about admissions.
LookPast(p) ==
    /\ At(p, "look")
    /\ Goto(p, AfterLook(p))
    /\ UNCHANGED <<guardVars, registry, admission, fresh, task, status, confused, crashes>>

\* Mutant: an admission is removed before its term.
LookPurges(p) ==
    /\ At(p, "look")
    /\ Goto(p, IF admission = None THEN AfterLook(p) ELSE "purge")
    /\ UNCHANGED <<guardVars, registry, admission, fresh, task, status, confused, crashes>>

\* Both acquisitions look for an admission; one that has expired, or whose
\* process is dead, is removed in a step of its own.
Look(p) ==
    /\ At(p, "look")
    /\ Goto(p, IF AdmissionActive THEN "refused" ELSE IF admission = None THEN AfterLook(p) ELSE "purge")
    /\ UNCHANGED <<guardVars, registry, admission, fresh, task, status, confused, crashes>>

Purge(p) ==
    /\ At(p, "purge")
    /\ admission' = None /\ fresh' = FALSE
    /\ Goto(p, AfterLook(p))
    /\ UNCHANGED <<guardVars, registry, task, status, confused, crashes>>

\* The owner records are read; those of dead processes are renamed away.
Scan(p) ==
    /\ At(p, "scan")
    /\ \/ registry \cap Procs # {} /\ Goto(p, "refused") /\ UNCHANGED registry
       \/ registry \cap Procs = {} /\ Goto(p, "publish") /\ registry' = {}
    /\ UNCHANGED <<guardVars, admission, fresh, task, status, confused, crashes>>

\* The candidate is renamed into place.
Publish(p) ==
    /\ At(p, "publish")
    /\ registry' = registry \cup {p}
    /\ Goto(p, "done")
    /\ UNCHANGED <<guardVars, admission, fresh, task, status, confused, crashes>>

\* release: the own record is renamed away.
Drop(p) ==
    /\ At(p, "drop")
    /\ registry' = registry \ {p}
    /\ Goto(p, "done")
    /\ UNCHANGED <<guardVars, admission, fresh, task, status, confused, crashes>>

\* renew_shutdown_admission: what is on disk must be the own, unexpired record.
ReadAdmission(p) ==
    /\ At(p, "read")
    /\ Goto(p, IF admission = p /\ fresh THEN "rewrite" ELSE "refused")
    /\ UNCHANGED <<guardVars, registry, admission, fresh, task, status, confused, crashes>>

WriteAdmission(p) ==
    /\ At(p, "write") \/ At(p, "rewrite")
    /\ admission' = p /\ fresh' = TRUE
    /\ Goto(p, "done")
    /\ UNCHANGED <<guardVars, registry, task, status, confused, crashes>>

\* release: an admission that is still the own one is removed.
ClearAdmission(p) ==
    /\ At(p, "clear")
    /\ Goto(p, IF admission = p THEN "unlink" ELSE "done")
    /\ UNCHANGED <<guardVars, registry, admission, fresh, task, status, confused, crashes>>

UnlinkAdmission(p) ==
    /\ At(p, "unlink")
    /\ admission' = None /\ fresh' = FALSE
    /\ Goto(p, "done")
    /\ UNCHANGED <<guardVars, registry, task, status, confused, crashes>>

-----------------------------------------------------------------------------
(* After the action. *)

\* Mutant: the guard is not looked at again after the action.
OutcomeUnasserted(p) ==
    IF step[p] = "refused" /\ task[p] # "admit" THEN "over"
    ELSE IF step[p] = "refused" \/ task[p] \in {"disown", "dismiss"} THEN status[p]
    ELSE "holder"

\* Mutant: the error of the action is handed on as it is.
OutcomeRaw(p) ==
    IF step[p] = "refused" THEN "refused"
    ELSE IF task[p] \in {"disown", "dismiss"} THEN status[p]
    ELSE "holder"

\* What the caller learns, from the second assertion.  An updater that finds
\* an admission active asks again; a refused supervisor exits.
Outcome(p) ==
    IF Stolen(p) \/ (step[p] = "refused" /\ task[p] # "admit") THEN "over"
    ELSE IF step[p] = "refused" \/ task[p] \in {"disown", "dismiss"} THEN status[p]
    ELSE "holder"

Verdict(p) ==
    /\ section[p] = "in" /\ step[p] \in {"done", "refused"}
    /\ Become(p, Outcome(p))
    /\ task' = [task EXCEPT ![p] = "none"]
    /\ Goto(p, "none")
    /\ UNCHANGED <<guardVars, registry, admission, fresh, confused, crashes>>

\* The guard is looked at once more and left alone when it changed hands.
CheckGuard(p) ==
    /\ At(p, "none")
    /\ MoveTo(p, IF Stolen(p) THEN "out" ELSE "leaving")
    /\ mine' = [mine EXCEPT ![p] = None]
    /\ UNCHANGED <<guard, aged, keeper, evicted, ownVars>>

RemoveGuard(p) ==
    /\ section[p] = "leaving"
    /\ Unlink(p)
    /\ MoveTo(p, "out")
    /\ UNCHANGED <<mine, ownVars>>

-----------------------------------------------------------------------------

\* The records of a process that is gone name nobody.
Gone(p) ==
    /\ GuardCrash(p)
    /\ registry' = IF p \in registry THEN (registry \ {p}) \cup {Ghost} ELSE registry
    /\ admission' = IF admission = p THEN Ghost ELSE admission
    /\ task' = [task EXCEPT ![p] = "none"]
    /\ Goto(p, "none")
    /\ Become(p, "idle")
    /\ UNCHANGED <<fresh, confused>>

\* Whoever was refused, has lost or has released what it had exits; another is started.
Exit(p) ==
    /\ status[p] = "over" /\ section[p] = "out" /\ task[p] = "none"
    /\ Gone(p)
    /\ UNCHANGED crashes

Crash(p) ==
    /\ crashes < MaxCrashes
    /\ section[p] # "out" \/ status[p] = "holder"
    /\ crashes' = crashes + 1
    /\ Gone(p)

TimePasses == Age /\ UNCHANGED ownVars

\* SHUTDOWN_ADMISSION_LEASE_MS since the last renewal.
Expire ==
    /\ fresh /\ fresh' = FALSE
    /\ UNCHANGED <<guardVars, registry, admission, task, step, status, confused, crashes>>

Working(p) ==
    \/ AssertHeld(p) \/ Look(p) \/ Scan(p) \/ Publish(p) \/ Drop(p)
    \/ Purge(p) \/ ReadAdmission(p) \/ WriteAdmission(p) \/ ClearAdmission(p) \/ UnlinkAdmission(p)
    \/ Verdict(p) \/ CheckGuard(p) \/ RemoveGuard(p)

Step(p) ==
    \/ Own(p) \/ Disown(p) \/ Admit(p) \/ Renew(p) \/ Dismiss(p)
    \/ EnterGuard(p) \/ EvictGuard(p) \/ Abandon(p)
    \/ Working(p) \/ Exit(p) \/ Crash(p)

Next == TimePasses \/ Expire \/ \E p \in Procs : Step(p)

Spec == Init /\ [][Next]_vars

-----------------------------------------------------------------------------

\* Two supervisors never own the socket at once, whatever stalls, crashes and
\* evictions there are, as long as the inode of a guard is not taken for another's.
SingleOwner ==
    confused \/ \A p, q \in Supervisors : status[p] = "holder" /\ status[q] = "holder" => p = q

\* An updater relies on its admission: acquired or renewed, and not expired.
Secure(s) == status[s] = "holder" /\ section[s] # "in" /\ admission = s /\ fresh

\* No supervisor becomes the owner while an updater relies on its admission.
AdmissionHonoured ==
    [][\A p \in Supervisors : status[p] # "holder" /\ status'[p] = "holder"
          => confused \/ \A s \in Updaters : ~Secure(s)]_vars

\* An admission that somebody relies on stays in its file until it expires or
\* its updater is done with it, as long as nobody lost a guard.
AdmissionKept ==
    [][\A s \in Updaters : Secure(s) /\ status'[s] = "holder" => evicted \/ admission' = s]_vars
=============================================================================
