---------------------------- MODULE CronScheduler ----------------------------
(***************************************************************************)
(* Scheduled jobs (core/cron_jobs.rs): the store that keeps the jobs of a  *)
(* session and the claims of their due ticks in one file per session, the  *)
(* scheduler whose timer claims and dispatches due ticks, and the daemon's *)
(* hook that turns a claimed tick into a prompt (run_cron_job of           *)
(* modes/daemon/daemon_mode.rs).                                           *)
(*                                                                         *)
(* A fired timer starts a batch: run_due() claims every due job and then   *)
(* dispatches the claims one after the other, while the timer it has armed *)
(* may fire again.  Every locked section of the store and of the           *)
(* scheduler's state is one step, and so is every await of a dispatch.     *)
(***************************************************************************)
EXTENDS Integers, FiniteSets, FiniteSetsExt

CONSTANTS Jobs, Sessions,
          Home,         \* the session of each job
          Recurring,    \* heartbeats; the other jobs run once
          Batches,      \* bound: concurrent calls of run_due()
          None,
          Period,       \* the interval of a schedule, in ticks
          MaxTime,      \* bound: the clock
          MaxExits,     \* bound: crashes and stops of the daemon
          Kinds,        \* the edits that users make
          StoreFails    \* may locking, reading or writing a file fail?

ASSUME JobsAssumption ==
    /\ IsFiniteSet(Jobs) /\ IsFiniteSet(Sessions) /\ IsFiniteSet(Batches)
    /\ Home \in [Jobs -> Sessions]
    /\ Recurring \subseteq Jobs
    /\ None \notin Jobs \cup Sessions \cup Batches
ASSUME TimeAssumption ==
    /\ Period \in Nat \ {0} /\ MaxTime \in Nat /\ MaxExits \in Nat
    /\ Kinds \subseteq {"create", "cancel", "pause", "resume"}
    /\ StoreFails \in BOOLEAN

VARIABLES
    now,
    jobs,        \* the files: [status, next, updated] of each job
    claims,      \* the files: the batch whose dispatch record the job has
    registered,  \* session_artifact_files
    mode,        \* the daemon: "up", "stopping" (after stop()) or "down"
    timer,       \* when the armed timer fires: 0 for at once, Never for none
    running,     \* AgentCronSchedulerState.running
    lanes,       \* AgentCronSchedulerState.dispatch_lanes
    phase,       \* where each batch is in run_due()
    at,          \* the time its run_due() started
    todo,        \* its claimed ticks not recorded yet: (job, time) pairs
    cur,         \* the one it dispatches
    lane,        \* the lane it waits for or holds
    outcome,     \* what run_cron_job returned, and whether it prompted
    op,          \* an edit or a recovery under way
    prompts,     \* history: the prompts sent for each tick of each job; 2
                 \* stands for more than one
    told,        \* history: jobs reported to their user as cancelled
    crossed,     \* history: jobs the scheduler wrote since the operation that
                 \* is under way read them
    undone,      \* history: jobs for which an operation wrote back an older
                 \* version, or dropped the claim of a dispatch under way
    missed,      \* history: a failed file operation has hidden a job from the
                 \* timer
    exits

store     == <<jobs, claims>>
scheduler == <<timer, running>>
dispatch  == <<cur, lane, outcome, lanes>>
damage    == <<crossed, undone, missed>>
history   == <<prompts, told, damage>>
vars == <<now, jobs, claims, registered, mode, timer, running, lanes, phase, at,
          todo, cur, lane, outcome, op, prompts, told, crossed, undone, missed,
          exits>>

Never == MaxTime + Period + 1
Times == 0..(MaxTime + Period)

\* idle: no call.  fired: the timer's task runs.  claiming: running was set.
\* claimed: claim_due() returned.  rearm: running was reset.  next: between
\* two dispatches.  lane: waits for its lane.  start, session, admission: in
\* run_dispatch(), before the job is read, while the session is opened and
\* while the session admits the prompt; unlisted: both of these, when the job
\* was not found in the files.  record: run_cron_job returned.
Phases == {"idle", "fired", "claiming", "claimed", "rearm", "next", "lane",
           "start", "session", "unlisted", "admission", "record"}

NoOp == [phase |-> "none", snapshot |-> None, session |-> None,
         cancels |-> None, loud |-> FALSE]

\* A job that is in no file.
Absent == [status |-> "absent", next |-> Never, updated |-> 0]

Goto(b, p) == phase' = [phase EXCEPT ![b] = p]

\* next_run_at_for_schedule(now)
NextRun(j) == IF j \in Recurring THEN now + Period ELSE Never

Visible(j) == Home[j] \in registered

IsDue(j, t) ==
    Visible(j) /\ jobs[j].status = "active" /\ jobs[j].next <= t

\* next_active_run_at() over the files of sessions ss, as the deadline of a timer
DeadlineIn(ss) ==
    Min({Never} \cup {IF jobs[j].next <= now THEN 0 ELSE jobs[j].next :
                      j \in {i \in Jobs : Home[i] \in ss /\ jobs[i].status = "active"}})

Deadline == DeadlineIn(registered)

\* The sessions whose files a caller can read: a file that cannot be read counts
\* as empty (read_jobs_state_lossy).
Readable == IF StoreFails THEN SUBSET registered ELSE {registered}

\* The locks do not cover an edit or a recovery from its reading to its writing:
\* what the scheduler writes meanwhile is noted.
Cross ==
    crossed' = IF op.phase = "write"
               THEN crossed \cup {j \in Jobs : jobs'[j] # jobs[j]
                                             \/ claims'[j] # claims[j]}
               ELSE crossed

Init ==
    /\ now = 0
    /\ jobs = [j \in Jobs |-> Absent]
    /\ claims = [j \in Jobs |-> None]
    /\ registered = {}
    /\ mode = "up"
    /\ timer = Never
    /\ running = FALSE
    /\ lanes = [s \in Sessions |-> None]
    /\ phase = [b \in Batches |-> "idle"]
    /\ at = [b \in Batches |-> 0]
    /\ todo = [b \in Batches |-> {}]
    /\ cur = [b \in Batches |-> None]
    /\ lane = [b \in Batches |-> None]
    /\ outcome = [b \in Batches |-> None]
    /\ op = NoOp
    /\ prompts = [j \in Jobs |-> [t \in Times |-> 0]]
    /\ told = {}
    /\ crossed = {}
    /\ undone = {}
    /\ missed = FALSE
    /\ exits = 0

-----------------------------------------------------------------------------
(* The timer and run_due().                                                *)

\* The timer's task finds its generation current and starts run_due(), whose
\* dispatches get identifiers that no file holds.
Fire(b) ==
    /\ mode = "up" /\ timer <= now
    /\ phase[b] = "idle" /\ \A j \in Jobs : claims[j] # b
    /\ timer' = Never
    /\ Goto(b, "fired")
    /\ at' = [at EXCEPT ![b] = now]
    /\ UNCHANGED <<now, store, registered, mode, running, todo, dispatch, op,
                   history, exits>>

\* Two concurrent calls do not claim; the one that runs arms the next timer.
Enter(b) ==
    /\ phase[b] = "fired"
    /\ IF running \/ mode # "up"
       THEN Goto(b, "idle") /\ UNCHANGED running
       ELSE Goto(b, "claiming") /\ running' = TRUE
    /\ UNCHANGED <<now, store, registered, mode, timer, at, todo, dispatch, op,
                   history, exits>>

\* Mutant: the job keeps its due time until the dispatch is recorded.
AdvanceLater(due) == UNCHANGED jobs

\* claim_due_in_state: a job that is due moves on to its next run; it gets a
\* dispatch record unless an earlier one is still there (the tick is skipped).
Advance(due) ==
    jobs' = [j \in Jobs |->
        IF j \in due
        THEN [jobs[j] EXCEPT !.next = NextRun(j), !.updated = now]
        ELSE jobs[j]]

\* Mutant: a record of an earlier dispatch is replaced.
ClaimForAnyway(b, due) ==
    claims' = [j \in Jobs |-> IF j \in due THEN b ELSE claims[j]]

ClaimFor(b, due) ==
    claims' = [j \in Jobs |->
        IF j \in due /\ claims[j] = None THEN b ELSE claims[j]]

Claim(b) ==
    LET due == {j \in Jobs : IsDue(j, at[b])}
    IN /\ phase[b] = "claiming"
       /\ Advance(due)
       /\ ClaimFor(b, due)
       /\ Cross
       /\ todo' = [todo EXCEPT ![b] =
             {<<j, jobs[j].next>> : j \in {i \in Jobs : claims'[i] # claims[i]}}]
       /\ Goto(b, "claimed")
       /\ UNCHANGED <<now, registered, mode, scheduler, at, dispatch, op,
                      prompts, told, undone, missed, exits>>

\* mutate_states stops at the first file that fails; what it wrote to the files
\* before stays (and that file too, when only the sync of its directory failed),
\* and the claims in them are not returned.
ClaimFails(b) ==
    /\ StoreFails /\ phase[b] = "claiming"
    /\ \E written \in SUBSET registered :
          LET due == {j \in Jobs : IsDue(j, at[b]) /\ Home[j] \in written}
          IN Advance(due) /\ ClaimFor(b, due)
    /\ Cross
    /\ Goto(b, "claimed")
    /\ UNCHANGED <<now, registered, mode, scheduler, at, todo, dispatch, op,
                   prompts, told, undone, missed, exits>>

Leave(b) ==
    /\ phase[b] = "claimed"
    /\ running' = FALSE
    /\ Goto(b, IF mode = "up" THEN "rearm"
               ELSE IF todo[b] = {} THEN "idle" ELSE "next")
    /\ at' = [at EXCEPT ![b] = 0]
    /\ UNCHANGED <<now, store, registered, mode, timer, todo, dispatch, op,
                   history, exits>>

\* Mutant: the delay is computed and not cut off at zero.
RearmUnclamped(b) ==
    /\ phase[b] = "rearm"
    /\ timer' = Deadline - now
    /\ Goto(b, IF todo[b] = {} THEN "idle" ELSE "next")
    /\ UNCHANGED <<now, store, registered, mode, running, at, todo, dispatch, op,
                   history, exits>>

\* schedule_next(None): no timer is armed for the jobs of a file that cannot be
\* read.
Rearm(b) ==
    /\ phase[b] = "rearm"
    /\ \E ss \in Readable : timer' = DeadlineIn(ss)
    /\ missed' = (timer' # Deadline)
    /\ Goto(b, IF todo[b] = {} THEN "idle" ELSE "next")
    /\ UNCHANGED <<now, store, registered, mode, running, at, todo, dispatch, op,
                   prompts, told, crossed, undone, exits>>

-----------------------------------------------------------------------------
(* queue_dispatch() and run_dispatch().                                    *)

Holding(b) == phase[b] \in {"start", "session", "unlisted", "admission", "record"}

\* The lane of the session, or a new one.
Pick(b) ==
    /\ phase[b] = "next"
    /\ \E d \in todo[b] :
          LET s == Home[d[1]]
          IN /\ cur' = [cur EXCEPT ![b] = d]
             /\ \E l \in IF lanes[s] # None THEN {lanes[s]}
                         ELSE Batches \ {lane[c] : c \in Batches} :
                    /\ lanes' = [lanes EXCEPT ![s] = l]
                    /\ lane' = [lane EXCEPT ![b] = l]
    /\ Goto(b, "lane")
    /\ UNCHANGED <<now, store, registered, mode, scheduler, at, todo, outcome, op,
                   history, exits>>

LockLane(b) ==
    /\ phase[b] = "lane"
    /\ \A c \in Batches : Holding(c) => lane[c] # lane[b]
    /\ Goto(b, "start")
    /\ UNCHANGED <<now, store, registered, mode, scheduler, at, todo, dispatch,
                   op, history, exits>>

\* run_cron_job ends with a result; `prompted' says whether it prompted.
Outcome(b, result, prompted) ==
    /\ outcome' = [outcome EXCEPT ![b] = [result |-> result, prompted |-> prompted]]
    /\ Goto(b, "record")
    /\ prompts' = IF prompted
                  THEN [prompts EXCEPT ![cur[b][1]][cur[b][2]] = IF @ = 2 THEN 2 ELSE @ + 1]
                  ELSE prompts

\* get_claimed_job, and the first look of run_cron_job.  A file that cannot be read
\* is taken for a job that is not claimed; but when it is list() of run_cron_job
\* that does not find the job, require_persisted_job is off, and run_cron_job does
\* not look into the files any more.
Start(b) ==
    LET j == cur[b][1]
        runs == claims[j] # None /\ jobs[j].status = "active"
    IN /\ phase[b] = "start"
       /\ \/ /\ runs
             /\ Goto(b, "session")
             /\ UNCHANGED <<outcome, prompts>>
          \/ /\ runs /\ StoreFails
             /\ Goto(b, "unlisted")
             /\ UNCHANGED <<outcome, prompts>>
          \/ /\ ~runs \/ StoreFails
             /\ Outcome(b, "skipped", FALSE)
       /\ UNCHANGED <<now, store, registered, mode, scheduler, at, todo, cur,
                      lane, lanes, op, told, damage, exits>>

\* get_runnable_cron_job
Runnable(j) ==
    jobs[j].status = "active" /\ (claims[j] # None \/ jobs[j].next <= now)

\* The session is open (or could not be opened, or is closing).  A heartbeat may
\* be deferred; the prompt of another job is queued at once when the session is
\* busy, and queueing it may fail.
SessionOpened(b) ==
    LET j == cur[b][1]
    IN /\ phase[b] = "session"
       /\ \/ Outcome(b, "skipped", FALSE)
          \/ /\ Runnable(j)
             /\ Goto(b, "admission")
             /\ UNCHANGED <<outcome, prompts>>
          \/ /\ Runnable(j) /\ j \notin Recurring
             /\ \E prompted \in BOOLEAN : Outcome(b, "ran", prompted)
       /\ UNCHANGED <<now, store, registered, mode, scheduler, at, todo, cur,
                      lane, lanes, op, told, damage, exits>>

\* The session admits the prompt, and calls admission_committed, which can only
\* take note that the job is not runnable any more; or it refuses the prompt.
Admit(b) ==
    /\ phase[b] = "admission"
    /\ \E prompted \in BOOLEAN, seen \in IF StoreFails THEN BOOLEAN ELSE {TRUE} :
          Outcome(b, IF Runnable(cur[b][1]) /\ seen THEN "ran" ELSE "skipped",
                  prompted)
    /\ UNCHANGED <<now, store, registered, mode, scheduler, at, todo, cur, lane,
                   lanes, op, told, damage, exits>>

\* run_cron_job without a persisted job: the session is opened and admits the
\* prompt, or does not, whatever the files say by then.
RunUnlisted(b) ==
    /\ phase[b] = "unlisted"
    /\ \/ Outcome(b, "skipped", FALSE)
       \/ \E prompted \in BOOLEAN : Outcome(b, "ran", prompted)
    /\ UNCHANGED <<now, store, registered, mode, scheduler, at, todo, cur, lane,
                   lanes, op, told, damage, exits>>

\* record_dispatch_result, for the job of the batch's own dispatch record.
Recorded(j, result) ==
    [status  |-> IF j \in Recurring THEN "active" ELSE "completed",
     next    |-> IF result = "skipped" THEN NextRun(j) ELSE jobs[j].next,
     updated |-> now]

\* queue_dispatch returns: its lane leaves the map even when others wait for it.
EndDispatch(b) ==
    LET s == Home[cur[b][1]]
        rest == todo[b] \ {cur[b]}
    IN /\ todo' = [todo EXCEPT ![b] = rest]
       /\ Goto(b, IF rest = {} THEN "idle" ELSE "next")
       /\ lanes' = IF lanes[s] = lane[b] THEN [lanes EXCEPT ![s] = None] ELSE lanes
       /\ lane' = [lane EXCEPT ![b] = None]
       /\ cur' = [cur EXCEPT ![b] = None]
       /\ outcome' = [outcome EXCEPT ![b] = None]

\* Mutant: a skipped dispatch leaves its record in the file.
RecordRunsOnly(b) ==
    LET j == cur[b][1]
    IN /\ phase[b] = "record"
       /\ IF claims[j] = b /\ outcome[b].result = "ran"
          THEN /\ claims' = [claims EXCEPT ![j] = None]
               /\ jobs' = [jobs EXCEPT ![j] = IF jobs[j].status = "active"
                              THEN Recorded(j, "ran") ELSE jobs[j]]
          ELSE UNCHANGED store
       /\ Cross
       /\ EndDispatch(b)
       /\ UNCHANGED <<now, registered, mode, scheduler, at, op, prompts, told,
                      undone, missed, exits>>

Record(b) ==
    LET j == cur[b][1]
    IN /\ phase[b] = "record"
       /\ IF claims[j] = b
          THEN /\ claims' = [claims EXCEPT ![j] = None]
               /\ jobs' = IF jobs[j].status = "active"
                          THEN [jobs EXCEPT ![j] = Recorded(j, outcome[b].result)]
                          ELSE jobs
          ELSE UNCHANGED store
       /\ Cross
       /\ EndDispatch(b)
       /\ UNCHANGED <<now, registered, mode, scheduler, at, op, prompts, told,
                      undone, missed, exits>>

\* The error of record_dispatch_result is dropped.
RecordFails(b) ==
    /\ StoreFails /\ phase[b] = "record"
    /\ EndDispatch(b)
    /\ UNCHANGED <<now, store, registered, mode, scheduler, at, op, history, exits>>

-----------------------------------------------------------------------------
(* Edits: create, cancel (clear_heartbeat, cancel_jobs_for_session), pause *)
(* and resume read all jobs, change one and merge the result into the      *)
(* files; then the scheduler is woken and the user is answered.            *)

Edited(j, kind) ==
    [status  |-> CASE kind \in {"create", "resume"} -> "active"
                   [] kind = "cancel" -> "cancelled"
                   [] kind = "pause" -> "paused",
     next    |-> IF kind \in {"create", "resume"} THEN now + Period ELSE Never,
     updated |-> now]

Editable(j, kind) ==
    CASE kind = "create" -> jobs[j].status = "absent"
      [] kind = "cancel" -> jobs[j].status \notin {"absent", "cancelled"}
      [] kind \in {"pause", "resume"} ->
            j \in Recurring /\ jobs[j].status \in {"active", "paused"}

EditRead(j, kind) ==
    /\ mode # "down" /\ op.phase = "none"
    /\ Visible(j) /\ Editable(j, kind)
    /\ \E ss \in Readable :
          /\ kind = "create" \/ Home[j] \in ss
          /\ op' = [phase |-> "write", session |-> None,
                    snapshot |-> [i \in Jobs |->
                        IF i = j THEN Edited(j, kind)
                        ELSE IF Home[i] \in ss THEN jobs[i] ELSE Absent],
                    cancels |-> IF kind = "cancel" THEN j ELSE None,
                    loud |-> kind \in {"create", "resume"}]
    /\ crossed' = {}
    /\ UNCHANGED <<now, store, registered, mode, scheduler, phase, at, todo,
                   dispatch, prompts, told, undone, missed, exits>>

\* Mutant: the edit's version of a job always wins.
MergedBlindly(i) == IF op.snapshot[i].status # "absent" THEN op.snapshot[i] ELSE jobs[i]

\* merge_fresh_jobs: the more recently updated version of a job wins, the
\* edit's own on a tie.
Merged(i) ==
    IF op.snapshot[i].status # "absent" /\ op.snapshot[i].updated >= jobs[i].updated
    THEN op.snapshot[i] ELSE jobs[i]

\* A file that write_jobs() cannot read counts as empty: it is replaced by what
\* the edit has read of its session, if anything, and its claims are lost.
Replaced(s, readable) ==
    /\ s \notin readable
    /\ \E k \in Jobs : Home[k] = s /\ op.snapshot[k].status # "absent"

\* write_jobs() reads the files of the sessions `readable', and writes those of
\* the sessions `written'.
WriteJobs(written, readable) ==
    /\ jobs' = [i \in Jobs |->
          IF Home[i] \notin written THEN jobs[i]
          ELSE IF Home[i] \in readable THEN Merged(i)
          ELSE IF Replaced(Home[i], readable) THEN op.snapshot[i] ELSE jobs[i]]
    /\ claims' = [i \in Jobs |->
          IF Home[i] \in written /\ Replaced(Home[i], readable) THEN None
          ELSE claims[i]]

\* What an operation's write undoes: a write of the scheduler that it did not
\* see, or the claim of a dispatch that is under way.
Undo ==
    undone' = undone \cup {j \in Jobs :
        \/ j \in crossed /\ jobs'[j] # jobs[j]
        \/ /\ claims'[j] # claims[j]
           /\ \E d \in todo[claims[j]] : d[1] = j}

EditWrite ==
    /\ op.phase = "write" /\ op.session = None
    /\ \E readable \in Readable : WriteJobs(registered, readable)
    /\ Undo
    /\ crossed' = {}
    /\ op' = [op EXCEPT !.phase = "wake", !.snapshot = None]
    /\ UNCHANGED <<now, registered, mode, scheduler, phase, at, todo, dispatch,
                   prompts, told, missed, exits>>

\* The write of a file fails, after those before it and perhaps itself have been
\* replaced.  cancel and pause only log that; create and resume return the error,
\* and the scheduler is not woken.
EditFails ==
    /\ StoreFails /\ op.phase = "write" /\ op.session = None
    /\ \E written \in SUBSET registered, readable \in Readable :
          WriteJobs(written, readable)
    /\ Undo
    /\ crossed' = {}
    /\ op' = IF op.loud THEN NoOp ELSE [op EXCEPT !.phase = "wake", !.snapshot = None]
    /\ missed' = (missed \/ (op.loud /\ jobs' # jobs))
    /\ UNCHANGED <<now, registered, mode, scheduler, phase, at, todo, dispatch,
                   prompts, told, exits>>

\* The locks could not be had: write_jobs() panics.
EditPanics ==
    /\ StoreFails /\ op.phase = "write" /\ op.session = None
    /\ op' = NoOp
    /\ crossed' = {}
    /\ UNCHANGED <<now, store, registered, mode, scheduler, phase, at, todo,
                   dispatch, prompts, told, undone, missed, exits>>

\* Mutant: the scheduler is not woken.
WakeForgotten ==
    /\ op.phase = "wake"
    /\ told' = IF op.cancels = None THEN told ELSE told \cup {op.cancels}
    /\ op' = NoOp
    /\ UNCHANGED <<now, store, registered, mode, scheduler, phase, at, todo,
                   dispatch, prompts, damage, exits>>

Wake ==
    /\ op.phase = "wake"
    /\ timer' = IF mode = "up" THEN 0 ELSE timer
    /\ missed' = FALSE
    /\ told' = IF op.cancels = None THEN told ELSE told \cup {op.cancels}
    /\ op' = NoOp
    /\ UNCHANGED <<now, store, registered, mode, running, phase, at, todo,
                   dispatch, prompts, crossed, undone, exits>>

(* A session is opened: its file is registered and its interrupted         *)
(* dispatches are recovered, outside the locks.                            *)

Register(s) ==
    /\ mode # "down" /\ op.phase = "none" /\ s \notin registered
    /\ registered' = registered \cup {s}
    /\ op' = [NoOp EXCEPT !.phase = "read", !.session = s]
    /\ UNCHANGED <<now, store, mode, scheduler, phase, at, todo, dispatch,
                   history, exits>>

\* recover_interrupted_in_state
Recovered(j) ==
    IF claims[j] # None /\ jobs[j].status = "active"
    THEN [jobs[j] EXCEPT !.status = IF j \in Recurring THEN "active" ELSE "completed",
                         !.updated = now]
    ELSE jobs[j]

RecoverRead ==
    /\ op.phase = "read"
    /\ op' = [op EXCEPT !.snapshot = [j \in Jobs |-> Recovered(j)],
                        !.phase = IF \E j \in Jobs :
                                         Home[j] = op.session /\ claims[j] # None
                                  THEN "write" ELSE "wake"]
    /\ crossed' = {}
    /\ UNCHANGED <<now, store, registered, mode, scheduler, phase, at, todo,
                   dispatch, prompts, told, undone, missed, exits>>

\* The file cannot be read, and counts as one without claims, or cannot be
\* written, which is only logged.
RecoverFails ==
    /\ StoreFails /\ op.phase \in {"read", "write"} /\ op.session # None
    /\ op' = [op EXCEPT !.phase = "wake", !.snapshot = None]
    /\ crossed' = {}
    /\ UNCHANGED <<now, store, registered, mode, scheduler, phase, at, todo,
                   dispatch, prompts, told, undone, missed, exits>>

\* Mutant: the records of the interrupted dispatches stay.
RecoverWriteJobs ==
    /\ op.phase = "write" /\ op.session # None
    /\ jobs' = [j \in Jobs |->
                  IF Home[j] = op.session THEN op.snapshot[j] ELSE jobs[j]]
    /\ UNCHANGED claims
    /\ Undo
    /\ crossed' = {}
    /\ op' = [op EXCEPT !.phase = "wake", !.snapshot = None]
    /\ UNCHANGED <<now, registered, mode, scheduler, phase, at, todo, dispatch,
                   prompts, told, missed, exits>>

RecoverWrite ==
    /\ op.phase = "write" /\ op.session # None
    /\ jobs' = [j \in Jobs |->
                  IF Home[j] = op.session THEN op.snapshot[j] ELSE jobs[j]]
    /\ claims' = [j \in Jobs |-> IF Home[j] = op.session THEN None ELSE claims[j]]
    /\ Undo
    /\ crossed' = {}
    /\ op' = [op EXCEPT !.phase = "wake", !.snapshot = None]
    /\ UNCHANGED <<now, registered, mode, scheduler, phase, at, todo, dispatch,
                   prompts, told, missed, exits>>

-----------------------------------------------------------------------------
(* The daemon process and the clock.                                       *)

\* stop(): the timer is dropped, what was dispatched goes on.
Stop ==
    /\ mode = "up" /\ exits < MaxExits
    /\ mode' = "stopping"
    /\ timer' = Never
    /\ UNCHANGED <<now, store, registered, running, phase, at, todo, dispatch,
                   op, history, exits>>

\* A crash, or the end of a stop.  Only the files remain.
Exit ==
    /\ mode # "down" /\ exits < MaxExits
    /\ exits' = exits + 1
    /\ mode' = "down"
    /\ registered' = {}
    /\ timer' = Never
    /\ running' = FALSE
    /\ lanes' = [s \in Sessions |-> None]
    /\ phase' = [b \in Batches |-> "idle"]
    /\ at' = [b \in Batches |-> 0]
    /\ todo' = [b \in Batches |-> {}]
    /\ cur' = [b \in Batches |-> None]
    /\ lane' = [b \in Batches |-> None]
    /\ outcome' = [b \in Batches |-> None]
    /\ op' = NoOp
    /\ crossed' = {}
    /\ missed' = FALSE
    /\ UNCHANGED <<now, store, prompts, told, undone>>

\* A new daemon.  No session is registered yet when it calls start(), so that
\* start() recovers nothing and arms no timer.
Restart ==
    /\ mode = "down"
    /\ mode' = "up"
    /\ UNCHANGED <<now, store, registered, scheduler, phase, at, todo, dispatch,
                   op, history, exits>>

Tick ==
    /\ now < MaxTime
    /\ now' = now + 1
    /\ UNCHANGED <<store, registered, mode, scheduler, phase, at, todo, dispatch,
                   op, history, exits>>

-----------------------------------------------------------------------------
BatchStep(b) ==
    \/ Enter(b) \/ Claim(b) \/ ClaimFails(b) \/ Leave(b) \/ Rearm(b)
    \/ Pick(b) \/ LockLane(b) \/ Start(b) \/ SessionOpened(b) \/ Admit(b)
    \/ RunUnlisted(b) \/ Record(b) \/ RecordFails(b)

OpStep ==
    \/ EditWrite \/ EditFails \/ EditPanics
    \/ RecoverRead \/ RecoverWrite \/ RecoverFails
    \/ Wake

Next ==
    \/ \E b \in Batches : Fire(b) \/ BatchStep(b)
    \/ \E j \in Jobs, kind \in Kinds : EditRead(j, kind)
    \/ \E s \in Sessions : Register(s)
    \/ OpStep
    \/ Stop \/ Exit \/ Restart \/ Tick

Spec == Init /\ [][Next]_vars

\* Timers fire, tasks are polled, a session opens and admits or refuses a
\* prompt, and the daemon reopens its sessions.  Nothing obliges the clock to
\* advance, a user to edit or a process to end.
Fairness ==
    /\ WF_vars(\E b \in Batches : Fire(b))
    /\ \A b \in Batches : WF_vars(BatchStep(b))
    /\ WF_vars(OpStep)

FairSpec == Spec /\ Fairness

-----------------------------------------------------------------------------
(* Properties.                                                             *)

JobRecords ==
    [status : {"absent", "active", "paused", "cancelled", "completed"},
     next : Times \cup {Never}, updated : 0..MaxTime]

\* Type correctness of the files, of the scheduler's state and of its batches.
TypeOK ==
    /\ now \in 0..MaxTime
    /\ jobs \in [Jobs -> JobRecords]
    /\ claims \in [Jobs -> Batches \cup {None}]
    /\ registered \subseteq Sessions
    /\ mode \in {"up", "stopping", "down"}
    /\ timer \in Times \cup {Never}
    /\ running \in BOOLEAN
    /\ lanes \in [Sessions -> Batches \cup {None}]
    /\ phase \in [Batches -> Phases]
    /\ at \in [Batches -> 0..MaxTime]
    /\ todo \in [Batches -> SUBSET (Jobs \X Times)]
    /\ cur \in [Batches -> (Jobs \X Times) \cup {None}]
    /\ lane \in [Batches -> Batches \cup {None}]
    /\ \A b \in Batches : outcome[b] = None \/ outcome[b] \in
          [result : {"ran", "skipped"}, prompted : BOOLEAN]
    /\ op.phase \in {"none", "read", "write", "wake"}
    /\ op.session \in Sessions \cup {None}
    /\ op.snapshot = None \/ op.snapshot \in [Jobs -> JobRecords]
    /\ op.cancels \in Jobs \cup {None}
    /\ op.loud \in BOOLEAN
    /\ crossed \subseteq Jobs
    /\ undone \subseteq Jobs
    /\ missed \in BOOLEAN
    /\ prompts \in [Jobs -> [Times -> 0..2]]
    /\ told \subseteq Jobs
    /\ exits \in 0..MaxExits

\* "Due ticks are claimed before delivery so a crash does not replay an
\* uncertain prompt" (long-running-agents.md): no tick of a job is prompted
\* twice, whatever the crashes, the failing files and the batches that overlap.
\* The one exception is a job whose claim or record was overwritten: edits and
\* recoveries write what they read before, and no lock keeps the scheduler out
\* in between.
TickOnce == \A j \in Jobs \ undone, t \in Times : prompts[j][t] <= 1

\* Batches that overlap never have the same job in hand, whether they dispatch it
\* or still wait for its lane, although each starts as soon as the timer that the
\* other armed fires; with the same exception.
OneRunPerJob ==
    \A b, c \in Batches : b # c =>
        \A d \in todo[b], e \in todo[c] : d[1] = e[1] => d[1] \in undone

\* A claim that the scheduler can see belongs to a batch that will still record
\* it, or is about to be recovered; a claim nobody will record keeps every later
\* tick of its job from being dispatched.
NoOrphanClaim ==
    \A j \in Jobs :
        claims[j] # None /\ Visible(j) =>
            \/ \E d \in todo[claims[j]] : d[1] = j
            \/ op.session = Home[j]

\* No wake-up is lost: when a visible job will be due, the timer fires by then,
\* or somebody who has still to arm it is on the way: a batch in run_due(), the
\* opening of a session, or an edit whose write is done.  Only a file that could
\* not be read when the timer was armed, or an edit that reported failure after
\* its job was written, may leave a job without its timer, until it is armed
\* again.
TimerCoversJobs ==
    mode = "up" /\ ~missed =>
        \/ timer <= now \/ timer <= Deadline
        \/ \E b \in Batches : phase[b] \in {"fired", "claiming", "claimed", "rearm"}
        \/ op.phase = "wake" \/ op.session # None

\* A job that its user was told is cancelled is cancelled in its file: "the
\* store write reports failure instead of pretending the jobs were persisted"
\* (cron_jobs.rs, write_jobs).
CancelPersists == \A j \in told : jobs[j].status = "cancelled"

\* A dispatch that is recorded as skipped has not prompted the session: the
\* admission check "reproduces the same outcome ("skipped", not an error)"
\* (daemon_mode.rs, run_cron_job) as a check that stops the prompt.
SkippedNotPrompted ==
    \A b \in Batches :
        phase[b] = "record" /\ outcome[b].prompted => outcome[b].result = "ran"

\* A due job is claimed (or edited away) unless the daemon stops.
DueIsServed ==
    \A j \in Jobs :
        mode = "up" /\ IsDue(j, now) ~> mode # "up" \/ ~IsDue(j, now)

\* A claim ends: it is recorded, or recovered after the daemon died.
ClaimsEnd ==
    \A j \in Jobs :
        claims[j] # None /\ Visible(j) ~> claims[j] = None \/ ~Visible(j)
=============================================================================
