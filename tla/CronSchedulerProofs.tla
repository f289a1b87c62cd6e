------------------------ MODULE CronSchedulerProofs ------------------------
(***************************************************************************)
(* Proofs about the scheduled jobs, for any jobs, sessions, batches,       *)
(* period and bounds, with every failure of a file operation and every     *)
(* interleaving of edits and recoveries, which no lock covers, unless a    *)
(* theorem says otherwise.                                                 *)
(***************************************************************************)
EXTENDS CronScheduler, WellFoundedInduction, TLAPS

USE DEF store, scheduler, dispatch, history, damage

-----------------------------------------------------------------------------
(* Times.                                                                  *)

LEMMA TimeFacts ==
  /\ MaxTime \in Nat /\ Period \in Nat /\ Period >= 1 /\ MaxExits \in Nat
  /\ Never \in Nat /\ Never > MaxTime + Period
  /\ Times \subseteq Nat /\ 0..MaxTime \subseteq Times
  /\ \A t \in Times : t < Never
  /\ \A t \in 0..MaxTime : t + Period \in Times
BY TimeAssumption DEF Never, Times

\* A non-empty set of natural numbers has a minimum.
LEMMA MinOfNats ==
  ASSUME NEW S \in SUBSET Nat, S # {}
  PROVE  Min(S) \in S /\ \A y \in S : Min(S) <= y
<1>1. PICK x \in S : \A y \in S : ~(<<y, x>> \in OpToRel(<, Nat))
  BY NatLessThanWellFounded, WFMin
<1>2. ASSUME NEW y \in S PROVE x <= y
  <2>1. x \in Nat /\ y \in Nat /\ <<y, x>> \in Nat \X Nat
    OBVIOUS
  <2>2. ~(y < x)
    BY <1>1, <2>1 DEF OpToRel
  <2> QED BY <2>1, <2>2
<1> QED BY <1>2 DEF Min

\* Deadline, as a function of the state.
Moment(jb, n, j) == IF jb[j].next <= n THEN 0 ELSE jb[j].next
Active(jb, reg) == {j \in Jobs : Home[j] \in reg /\ jb[j].status = "active"}
DeadlineOf(jb, reg, n) == Min({Never} \cup {Moment(jb, n, j) : j \in Active(jb, reg)})

LEMMA DeadlineIs ==
  /\ \A ss : DeadlineIn(ss) = DeadlineOf(jobs, ss, now)
  /\ Deadline = DeadlineOf(jobs, registered, now)
  /\ Deadline' = DeadlineOf(jobs', registered', now')
BY DEF Deadline, DeadlineIn, DeadlineOf, Moment, Active

\* It is the first moment at which an active job is due, or Never.
LEMMA DeadlineLeast ==
  ASSUME NEW jb \in [Jobs -> JobRecords], NEW reg, NEW n \in 0..MaxTime
  PROVE  /\ DeadlineOf(jb, reg, n) \in Times \cup {Never}
         /\ \A j \in Active(jb, reg) : DeadlineOf(jb, reg, n) <= Moment(jb, n, j)
         /\ \/ DeadlineOf(jb, reg, n) = Never
            \/ \E j \in Active(jb, reg) : DeadlineOf(jb, reg, n) = Moment(jb, n, j)
<1> DEFINE S == {Never} \cup {Moment(jb, n, j) : j \in Active(jb, reg)}
<1>1. \A j \in Active(jb, reg) : Moment(jb, n, j) \in Times \cup {Never}
  BY TimeFacts DEF Active, Moment, JobRecords
<1>2. S \subseteq Times \cup {Never} /\ S \in SUBSET Nat /\ S # {}
  BY <1>1, TimeFacts
<1>3. Min(S) \in S /\ \A y \in S : Min(S) <= y
  BY <1>2, MinOfNats
<1> QED BY <1>2, <1>3 DEF DeadlineOf

-----------------------------------------------------------------------------
(* Types.                                                                  *)

OpType ==
    [phase : {"none", "read", "write", "wake"}, snapshot : [Jobs -> JobRecords] \cup {None},
     session : Sessions \cup {None}, cancels : Jobs \cup {None}, loud : BOOLEAN]
OutcomeType == [result : {"ran", "skipped"}, prompted : BOOLEAN] \cup {None}

\* The phases of a batch that has picked a tick.
Dispatching == {"lane", "start", "session", "unlisted", "admission", "record"}

\* The shape of an operation and of an outcome; a batch started before now and
\* dispatches one of the ticks it has claimed.
Shape ==
    /\ op \in OpType
    /\ op.phase = "write" => op.snapshot \in [Jobs -> JobRecords]
    /\ op.phase = "none" => op.session = None
    /\ op.phase = "read" => op.session # None
    /\ outcome \in [Batches -> OutcomeType]
    /\ \A b \in Batches : at[b] <= now
    /\ \A b \in Batches : phase[b] \in Dispatching => cur[b] \in todo[b]

Typed == TypeOK /\ Shape

LEMMA RecordTypes ==
  ASSUME NEW r \in JobRecords
  PROVE  /\ r.status \in {"absent", "active", "paused", "cancelled", "completed"}
         /\ r.next \in Times \cup {Never} /\ r.updated \in 0..MaxTime
         /\ \A n \in Times \cup {Never}, u \in 0..MaxTime :
              [r EXCEPT !.next = n, !.updated = u] \in JobRecords
         /\ \A s \in {"active", "completed"}, u \in 0..MaxTime :
              [r EXCEPT !.status = s, !.updated = u] \in JobRecords
BY DEF JobRecords

LEMMA AbsentType ==
  Absent \in JobRecords /\ Absent.next = Never /\ Absent.status = "absent"
BY TimeFacts DEF Absent, JobRecords

LEMMA NextRunType ==
  ASSUME TypeOK, NEW j PROVE NextRun(j) \in Times \cup {Never}
BY TimeFacts DEF TypeOK, NextRun

LEMMA InitTyped == Init => Typed
<1> SUFFICES ASSUME Init PROVE Typed
  OBVIOUS
<1>1. 0 \in 0..MaxTime /\ 0 \in 0..MaxExits /\ \A b \in Batches : at[b] <= now
  BY TimeFacts DEF Init
<1>2. jobs \in [Jobs -> JobRecords]
  BY <1>1 DEF Init, JobRecords, Absent
<1>3. op \in OpType
  BY DEF Init, NoOp, OpType
<1>4. prompts \in [Jobs -> [Times -> 0..2]]
  BY DEF Init
<1>5. outcome \in [Batches -> OutcomeType]
  BY DEF Init, OutcomeType
<1>6. TypeOK
  BY <1>1, <1>2, <1>3, <1>4, <1>5 DEF Init, TypeOK, Phases, OpType, OutcomeType, NoOp
<1>7. Shape
  BY <1>1, <1>3, <1>5 DEF Init, Shape, Dispatching, NoOp
<1> QED BY <1>6, <1>7 DEF Typed

\* The steps of run_due() around the claim.
LEMMA DueTyped ==
  ASSUME Typed, NEW b \in Batches, Fire(b) \/ Enter(b) \/ Leave(b) \/ Rearm(b) PROVE Typed'
<1> USE DEF Typed, TypeOK, Shape, Goto, Phases, Dispatching
<1>1. CASE Fire(b)
  BY <1>1, TimeFacts DEF Fire
<1>2. CASE Enter(b)
  <2>1. /\ phase' \in [Batches -> Phases] /\ running' \in BOOLEAN
        /\ \A c \in Batches : phase'[c] \in Dispatching => phase[c] \in Dispatching
    BY <1>2 DEF Enter
  <2>2. UNCHANGED <<now, jobs, claims, registered, mode, timer, at, todo, cur, lane, outcome, lanes,
                    op, prompts, told, crossed, undone, missed, exits>>
    BY <1>2 DEF Enter
  <2>3. TypeOK'
    BY <2>1, <2>2
  <2>4. Shape'
    BY <2>1, <2>2
  <2> QED BY <2>3, <2>4
<1>3. CASE Leave(b)
  <2>1. /\ phase' \in [Batches -> Phases]
        /\ \A c \in Batches : phase'[c] \in Dispatching => phase[c] \in Dispatching
    BY <1>3 DEF Leave
  <2>2. at' \in [Batches -> 0..MaxTime] /\ \A c \in Batches : at'[c] <= now
    BY <1>3, TimeFacts DEF Leave
  <2>3. UNCHANGED <<now, jobs, claims, registered, mode, timer, todo, cur, lane, outcome, lanes,
                    op, prompts, told, crossed, undone, missed, exits>> /\ running' = FALSE
    BY <1>3 DEF Leave
  <2>4. TypeOK'
    BY <2>1, <2>2, <2>3
  <2>5. Shape'
    BY <2>1, <2>2, <2>3
  <2> QED BY <2>4, <2>5
<1>4. CASE Rearm(b)
  <2>1. timer' \in Times \cup {Never}
    BY <1>4, DeadlineIs, DeadlineLeast DEF Rearm
  <2>2. missed' \in BOOLEAN
    BY <1>4 DEF Rearm
  <2>3. /\ phase' \in [Batches -> Phases]
        /\ \A c \in Batches : phase'[c] \in Dispatching => phase[c] \in Dispatching
    BY <1>4 DEF Rearm
  <2>4. UNCHANGED <<now, jobs, claims, registered, mode, running, at, todo, cur, lane, outcome, lanes,
                    op, prompts, told, crossed, undone, exits>>
    BY <1>4 DEF Rearm
  <2>5. TypeOK'
    BY <2>1, <2>2, <2>3, <2>4
  <2>6. Shape'
    BY <2>3, <2>4
  <2> QED BY <2>5, <2>6
<1> QED BY <1>1, <1>2, <1>3, <1>4

\* A claim, whether or not all files were written.
LEMMA AdvanceTyped ==
  ASSUME Typed, NEW b \in Batches, NEW due \in SUBSET Jobs, Advance(due), ClaimFor(b, due)
  PROVE  jobs' \in [Jobs -> JobRecords] /\ claims' \in [Jobs -> Batches \cup {None}]
<1>1. jobs \in [Jobs -> JobRecords] /\ claims \in [Jobs -> Batches \cup {None}] /\ now \in 0..MaxTime
  BY DEF Typed, TypeOK
<1>2. ASSUME NEW j \in Jobs PROVE [jobs[j] EXCEPT !.next = NextRun(j), !.updated = now] \in JobRecords
  BY <1>1, NextRunType, RecordTypes DEF Typed
<1>3. jobs' \in [Jobs -> JobRecords]
  BY <1>1, <1>2 DEF Advance
<1> QED BY <1>1, <1>3 DEF ClaimFor

\* A claim, with or without a failure.
LEMMA ClaimSteps ==
  ASSUME NEW b \in Batches, Claim(b) \/ ClaimFails(b)
  PROVE  \E due \in SUBSET Jobs :
           /\ \A j \in due : IsDue(j, at[b])
           /\ Advance(due) /\ ClaimFor(b, due)
           /\ \/ /\ Claim(b)
                 /\ todo' = [todo EXCEPT ![b] =
                      {<<j, jobs[j].next>> : j \in {i \in Jobs : claims'[i] # claims[i]}}]
              \/ StoreFails /\ todo' = todo
<1>1. CASE Claim(b)
  <2> DEFINE due == {j \in Jobs : IsDue(j, at[b])}
  <2> QED BY <1>1 DEF Claim
<1>2. CASE ClaimFails(b)
  <2>1. PICK written \in SUBSET registered :
          LET due == {j \in Jobs : IsDue(j, at[b]) /\ Home[j] \in written}
          IN Advance(due) /\ ClaimFor(b, due)
    BY <1>2 DEF ClaimFails
  <2> DEFINE due == {j \in Jobs : IsDue(j, at[b]) /\ Home[j] \in written}
  <2> QED BY <1>2, <2>1 DEF ClaimFails
<1> QED BY <1>1, <1>2

LEMMA ClaimTyped ==
  ASSUME Typed, NEW b \in Batches, Claim(b) \/ ClaimFails(b) PROVE Typed'
<1>1. PICK due \in SUBSET Jobs :
        /\ \A j \in due : IsDue(j, at[b])
        /\ Advance(due) /\ ClaimFor(b, due)
        /\ \/ /\ Claim(b)
              /\ todo' = [todo EXCEPT ![b] =
                   {<<j, jobs[j].next>> : j \in {i \in Jobs : claims'[i] # claims[i]}}]
           \/ StoreFails /\ todo' = todo
  BY ClaimSteps
<1>2. jobs' \in [Jobs -> JobRecords] /\ claims' \in [Jobs -> Batches \cup {None}]
  BY <1>1, AdvanceTyped
<1>3. \A j \in Jobs : claims'[j] # claims[j] => j \in due
  BY <1>1 DEF ClaimFor, Typed, TypeOK
<1>4. ASSUME NEW j \in due PROVE jobs[j].next \in Times
  <2>1. jobs[j].next \in Times \cup {Never} /\ at[b] \in 0..MaxTime /\ jobs[j].next <= at[b]
    BY <1>1, RecordTypes DEF Typed, TypeOK, IsDue
  <2> QED BY <2>1, TimeFacts
<1> DEFINE new == {<<j, jobs[j].next>> : j \in {i \in Jobs : claims'[i] # claims[i]}}
<1>5. todo' \in [Batches -> SUBSET (Jobs \X Times)]
  <2>1. new \in SUBSET (Jobs \X Times)
    BY <1>3, <1>4
  <2>2. todo \in [Batches -> SUBSET (Jobs \X Times)]
    BY DEF Typed, TypeOK
  <2>3. todo' = [todo EXCEPT ![b] = new] \/ todo' = todo
    BY <1>1
  <2> HIDE DEF new
  <2> QED BY <2>1, <2>2, <2>3
<1>6. /\ phase' = [phase EXCEPT ![b] = "claimed"] /\ phase[b] = "claiming"
      /\ UNCHANGED <<now, registered, mode, timer, running, at, cur, lane, outcome, lanes, op,
                     prompts, told, undone, missed, exits>>
      /\ crossed' \subseteq Jobs
  <2>1. crossed' \subseteq Jobs
    BY DEF Claim, ClaimFails, Cross, Typed, TypeOK
  <2> QED BY <2>1 DEF Claim, ClaimFails, Goto
<1>7. TypeOK'
  BY <1>2, <1>5, <1>6 DEF Typed, TypeOK, Phases
<1>8. Shape'
  BY <1>1, <1>6 DEF Typed, TypeOK, Shape, Dispatching
<1> QED BY <1>7, <1>8 DEF Typed

LEMMA PickTyped ==
  ASSUME Typed, NEW b \in Batches, Pick(b) \/ LockLane(b) PROVE Typed'
<1>1. CASE Pick(b)
  <2>1. PICK d \in todo[b] :
          /\ cur' = [cur EXCEPT ![b] = d]
          /\ \E l \in IF lanes[Home[d[1]]] # None THEN {lanes[Home[d[1]]]}
                      ELSE Batches \ {lane[c] : c \in Batches} :
               /\ lanes' = [lanes EXCEPT ![Home[d[1]]] = l]
               /\ lane' = [lane EXCEPT ![b] = l]
    BY <1>1 DEF Pick
  <2>2. d \in Jobs \X Times /\ Home[d[1]] \in Sessions
    BY JobsAssumption DEF Typed, TypeOK
  <2>3. PICK l \in Batches : /\ lanes' = [lanes EXCEPT ![Home[d[1]]] = l]
                             /\ lane' = [lane EXCEPT ![b] = l]
    <3>1. lanes[Home[d[1]]] \in Batches \cup {None}
      BY <2>2 DEF Typed, TypeOK
    <3>2. CASE lanes[Home[d[1]]] # None
      BY <2>1, <3>1, <3>2
    <3>3. CASE lanes[Home[d[1]]] = None
      BY <2>1, <3>3
    <3> QED BY <3>2, <3>3
  <2>4. TypeOK'
    BY <1>1, <2>1, <2>2, <2>3 DEF Pick, Typed, TypeOK, Goto, Phases
  <2>5. Shape'
    BY <1>1, <2>1 DEF Pick, Typed, TypeOK, Shape, Goto, Dispatching
  <2> QED BY <2>4, <2>5 DEF Typed
<1>2. CASE LockLane(b)
  BY <1>2 DEF LockLane, Typed, TypeOK, Shape, Goto, Phases, Dispatching
<1> QED BY <1>1, <1>2

\* A dispatch that comes to an outcome.
LEMMA OutcomeTyped ==
  ASSUME Typed, NEW b \in Batches, phase[b] \in Dispatching,
         NEW r \in {"ran", "skipped"}, NEW p \in BOOLEAN, Outcome(b, r, p)
  PROVE  /\ outcome' \in [Batches -> OutcomeType] /\ prompts' \in [Jobs -> [Times -> 0..2]]
         /\ phase' = [phase EXCEPT ![b] = "record"]
<1>1. [result |-> r, prompted |-> p] \in OutcomeType
  BY DEF OutcomeType
<1>2. cur[b] \in Jobs \X Times
  BY DEF Typed, TypeOK, Shape
<1>3. prompts \in [Jobs -> [Times -> 0..2]] /\ outcome \in [Batches -> OutcomeType]
  BY DEF Typed, TypeOK, Shape
<1>4. prompts' \in [Jobs -> [Times -> 0..2]]
  BY <1>2, <1>3 DEF Outcome
<1> QED BY <1>1, <1>3, <1>4 DEF Outcome, Goto

\* The steps of a dispatch between the lane and its record.
DispatchFrame ==
    UNCHANGED <<now, jobs, claims, registered, mode, timer, running, at, todo, cur, lane, lanes,
                op, told, crossed, undone, missed, exits>>

\* Each of them goes on in the dispatch, or comes to an outcome.
LEMMA DispatchSteps ==
  ASSUME NEW b \in Batches, Start(b) \/ SessionOpened(b) \/ Admit(b) \/ RunUnlisted(b)
  PROVE  /\ DispatchFrame /\ phase[b] \in {"start", "session", "unlisted", "admission"}
         /\ \/ /\ UNCHANGED <<outcome, prompts>>
               /\ \E f \in {"session", "unlisted", "admission"} : phase' = [phase EXCEPT ![b] = f]
            \/ \E r \in {"ran", "skipped"}, p \in BOOLEAN : Outcome(b, r, p)
<1>1. CASE Start(b)
  BY <1>1 DEF Start, DispatchFrame, Goto
<1>2. CASE SessionOpened(b)
  <2>1. DispatchFrame /\ phase[b] = "session"
    BY <1>2 DEF SessionOpened, DispatchFrame
  <2>2. \/ Outcome(b, "skipped", FALSE)
        \/ Goto(b, "admission") /\ UNCHANGED <<outcome, prompts>>
        \/ \E p \in BOOLEAN : Outcome(b, "ran", p)
    BY <1>2 DEF SessionOpened
  <2> QED BY <2>1, <2>2 DEF Goto
<1>3. CASE Admit(b)
  <2>1. DispatchFrame /\ phase[b] = "admission"
    BY <1>3 DEF Admit, DispatchFrame
  <2>2. PICK p \in BOOLEAN, seen \in BOOLEAN :
          Outcome(b, IF Runnable(cur[b][1]) /\ seen THEN "ran" ELSE "skipped", p)
    BY <1>3 DEF Admit
  <2> DEFINE r == IF Runnable(cur[b][1]) /\ seen THEN "ran" ELSE "skipped"
  <2>3. r \in {"ran", "skipped"} /\ Outcome(b, r, p)
    BY <2>2
  <2> HIDE DEF r
  <2> QED BY <2>1, <2>3
<1>4. CASE RunUnlisted(b)
  BY <1>4 DEF RunUnlisted, DispatchFrame
<1> QED BY <1>1, <1>2, <1>3, <1>4

LEMMA DispatchTyped ==
  ASSUME Typed, NEW b \in Batches, Start(b) \/ SessionOpened(b) \/ Admit(b) \/ RunUnlisted(b) PROVE Typed'
<1>1. DispatchFrame /\ phase[b] \in {"start", "session", "unlisted", "admission"}
  BY DispatchSteps
<1>2. /\ outcome' \in [Batches -> OutcomeType] /\ prompts' \in [Jobs -> [Times -> 0..2]]
      /\ \E f \in {"session", "unlisted", "admission", "record"} : phase' = [phase EXCEPT ![b] = f]
  <2>1. CASE \E r \in {"ran", "skipped"}, p \in BOOLEAN : Outcome(b, r, p)
    <3>1. PICK r \in {"ran", "skipped"}, p \in BOOLEAN : Outcome(b, r, p)
      BY <2>1
    <3>2. phase[b] \in Dispatching
      BY <1>1 DEF Dispatching
    <3> QED BY <3>1, <3>2, OutcomeTyped
  <2>2. CASE ~\E r \in {"ran", "skipped"}, p \in BOOLEAN : Outcome(b, r, p)
    <3>1. UNCHANGED <<outcome, prompts>> /\ \E f \in {"session", "unlisted", "admission"} : phase' = [phase EXCEPT ![b] = f]
      BY <2>2, DispatchSteps
    <3> QED BY <3>1 DEF Typed, TypeOK, Shape
  <2> QED BY <2>1, <2>2
<1>3. \A c \in Batches : outcome'[c] = None \/ outcome'[c] \in [result : {"ran", "skipped"}, prompted : BOOLEAN]
  BY <1>2 DEF OutcomeType
<1>4. TypeOK'
  BY <1>1, <1>2, <1>3 DEF DispatchFrame, Typed, TypeOK, Phases
<1>5. Shape'
  BY <1>1, <1>2 DEF DispatchFrame, Typed, TypeOK, Shape, Dispatching
<1> QED BY <1>4, <1>5 DEF Typed

\* The end of a dispatch.
LEMMA EndTyped ==
  ASSUME Typed, NEW b \in Batches, phase[b] = "record", EndDispatch(b)
  PROVE  /\ cur[b] \in Jobs \X Times /\ cur[b] \in todo[b]
         /\ todo' = [todo EXCEPT ![b] = todo[b] \ {cur[b]}]
         /\ todo' \in [Batches -> SUBSET (Jobs \X Times)]
         /\ phase' \in [Batches -> Phases]
         /\ \A c \in Batches : c # b => phase'[c] = phase[c]
         /\ phase'[b] = IF todo[b] \ {cur[b]} = {} THEN "idle" ELSE "next"
         /\ lanes' \in [Sessions -> Batches \cup {None}]
         /\ lane' \in [Batches -> Batches \cup {None}]
         /\ cur' \in [Batches -> (Jobs \X Times) \cup {None}]
         /\ \A c \in Batches : c # b => cur'[c] = cur[c]
         /\ outcome' \in [Batches -> OutcomeType]
<1>1. /\ todo \in [Batches -> SUBSET (Jobs \X Times)] /\ phase \in [Batches -> Phases]
      /\ lanes \in [Sessions -> Batches \cup {None}] /\ lane \in [Batches -> Batches \cup {None}]
      /\ cur \in [Batches -> (Jobs \X Times) \cup {None}] /\ outcome \in [Batches -> OutcomeType]
      /\ cur[b] \in todo[b]
  BY DEF Typed, TypeOK, Shape, Dispatching
<1>2. cur[b] \in Jobs \X Times /\ None \in OutcomeType
  BY <1>1 DEF OutcomeType
<1>3. todo' = [todo EXCEPT ![b] = todo[b] \ {cur[b]}] /\ todo[b] \ {cur[b]} \in SUBSET (Jobs \X Times)
  BY <1>1 DEF EndDispatch
<1>4. todo' \in [Batches -> SUBSET (Jobs \X Times)]
  BY <1>1, <1>3
<1>5. phase' = [phase EXCEPT ![b] = IF todo[b] \ {cur[b]} = {} THEN "idle" ELSE "next"]
  BY DEF EndDispatch, Goto
<1>6. phase' \in [Batches -> Phases]
  BY <1>1, <1>5 DEF Phases
<1>7. lanes' \in [Sessions -> Batches \cup {None}] /\ lane' \in [Batches -> Batches \cup {None}]
  BY <1>1 DEF EndDispatch
<1>8. cur' \in [Batches -> (Jobs \X Times) \cup {None}] /\ \A c \in Batches : c # b => cur'[c] = cur[c]
  BY <1>1 DEF EndDispatch
<1>9. outcome' \in [Batches -> OutcomeType]
  BY <1>1, <1>2 DEF EndDispatch
<1> QED BY <1>1, <1>2, <1>3, <1>4, <1>5, <1>6, <1>7, <1>8, <1>9

\* What a record does to the files.
LEMMA RecordStore ==
  ASSUME Typed, NEW b \in Batches, Record(b) \/ RecordFails(b)
  PROVE  /\ phase[b] = "record" /\ EndDispatch(b)
         /\ UNCHANGED <<now, registered, mode, timer, running, at, op, prompts, told, undone, missed, exits>>
         /\ cur[b] \in Jobs \X Times
         /\ crossed \subseteq crossed' /\ crossed' \subseteq Jobs
         /\ \/ UNCHANGED <<jobs, claims>> /\ (claims[cur[b][1]] # b \/ StoreFails)
            \/ /\ claims[cur[b][1]] = b
               /\ claims' = [claims EXCEPT ![cur[b][1]] = None]
               /\ \/ jobs' = jobs
                  \/ /\ jobs[cur[b][1]].status = "active"
                     /\ \E r \in {"ran", "skipped"} :
                          jobs' = [jobs EXCEPT ![cur[b][1]] = Recorded(cur[b][1], r)]
<1>1. phase[b] = "record" /\ EndDispatch(b)
  BY DEF Record, RecordFails
<1>2. /\ UNCHANGED <<now, registered, mode, timer, running, at, op, prompts, told, undone, missed, exits>>
      /\ crossed \subseteq crossed' /\ crossed' \subseteq Jobs
  <2>1. crossed \subseteq crossed' /\ crossed' \subseteq Jobs
    BY DEF Record, RecordFails, Cross, Typed, TypeOK
  <2> QED BY <2>1 DEF Record, RecordFails
<1>3. cur[b] \in Jobs \X Times
  BY <1>1, EndTyped
<1>4. CASE RecordFails(b)
  BY <1>1, <1>2, <1>3, <1>4 DEF RecordFails
<1>5. CASE Record(b)
  <2>1. CASE claims[cur[b][1]] # b
    BY <1>1, <1>2, <1>3, <1>5, <2>1 DEF Record
  <2>2. CASE claims[cur[b][1]] = b
    <3>1. /\ claims' = [claims EXCEPT ![cur[b][1]] = None]
          /\ jobs' = IF jobs[cur[b][1]].status = "active"
                     THEN [jobs EXCEPT ![cur[b][1]] = Recorded(cur[b][1], outcome[b].result)]
                     ELSE jobs
      BY <1>5, <2>2 DEF Record
    <3>2. outcome[b].result = "ran" \/ outcome[b].result # "ran"
      OBVIOUS
    <3> QED BY <1>1, <1>2, <1>3, <2>2, <3>1, <3>2 DEF Recorded
  <2> QED BY <2>1, <2>2
<1> QED BY <1>4, <1>5

LEMMA RecordTyped ==
  ASSUME Typed, NEW b \in Batches, Record(b) \/ RecordFails(b) PROVE Typed'
<1> DEFINE j == cur[b][1]
<1>1. /\ phase[b] = "record" /\ EndDispatch(b) /\ j \in Jobs
      /\ UNCHANGED <<now, registered, mode, timer, running, at, op, prompts, told, undone, missed, exits>>
      /\ crossed' \subseteq Jobs
  BY RecordStore
<1>2. /\ jobs \in [Jobs -> JobRecords] /\ claims \in [Jobs -> Batches \cup {None}]
      /\ now \in 0..MaxTime /\ TypeOK
  BY DEF Typed, TypeOK
<1>3. \A r : Recorded(j, r) \in JobRecords
  <2>1. NextRun(j) \in Times \cup {Never} /\ jobs[j].next \in Times \cup {Never}
    BY <1>1, <1>2, NextRunType, RecordTypes
  <2> QED BY <1>2, <2>1 DEF Recorded, JobRecords
<1>4. jobs' \in [Jobs -> JobRecords] /\ claims' \in [Jobs -> Batches \cup {None}]
  <2>1. claims' = claims \/ claims' = [claims EXCEPT ![j] = None]
    BY RecordStore
  <2>2. jobs' = jobs \/ \E r : jobs' = [jobs EXCEPT ![j] = Recorded(j, r)]
    BY RecordStore
  <2> HIDE DEF j
  <2> QED BY <1>1, <1>2, <1>3, <2>1, <2>2
<1>5. \A c \in Batches : outcome'[c] = None \/ outcome'[c] \in [result : {"ran", "skipped"}, prompted : BOOLEAN]
  BY <1>1, EndTyped DEF OutcomeType
<1>6. TypeOK'
  BY <1>1, <1>4, <1>5, EndTyped DEF Typed, TypeOK
<1>7. ASSUME NEW c \in Batches, phase'[c] \in Dispatching PROVE cur'[c] \in todo'[c]
  <2>1. c # b /\ phase'[c] = phase[c] /\ cur'[c] = cur[c]
    BY <1>1, <1>7, EndTyped DEF Dispatching
  <2>2. todo'[c] = todo[c]
    BY <1>1, <2>1, EndTyped DEF Typed, TypeOK
  <2> QED BY <1>7, <2>1, <2>2 DEF Typed, Shape
<1>8. Shape'
  BY <1>1, <1>7, EndTyped DEF Typed, Shape
<1> QED BY <1>6, <1>8 DEF Typed

\* The steps of an operation, in which no batch takes part.
BatchFrame ==
    UNCHANGED <<now, mode, running, phase, at, todo, cur, lane, outcome, lanes, prompts, exits>>

LEMMA OpTyped ==
  ASSUME Typed, BatchFrame, op' \in OpType,
         op'.phase = "write" => op'.snapshot \in [Jobs -> JobRecords],
         op'.phase = "none" => op'.session = None, op'.phase = "read" => op'.session # None,
         crossed' \subseteq Jobs, undone' \subseteq Jobs, missed' \in BOOLEAN,
         jobs' \in [Jobs -> JobRecords], claims' \in [Jobs -> Batches \cup {None}],
         registered' \subseteq Sessions, timer' \in Times \cup {Never}, told' \subseteq Jobs
  PROVE  Typed'
<1>1. TypeOK'
  BY DEF BatchFrame, Typed, TypeOK, OpType
<1>2. Shape'
  BY DEF BatchFrame, Typed, Shape
<1> QED BY <1>1, <1>2 DEF Typed

LEMMA EditedTyped ==
  ASSUME Typed, NEW j \in Jobs, NEW kind \in Kinds PROVE Edited(j, kind) \in JobRecords
<1>1. now \in 0..MaxTime /\ now + Period \in Times
  BY TimeFacts DEF Typed, TypeOK
<1>2. kind \in {"create", "cancel", "pause", "resume"}
  BY TimeAssumption
<1>3. Edited(j, kind).status \in {"active", "cancelled", "paused"}
  BY <1>2 DEF Edited
<1> QED BY <1>1, <1>2, <1>3 DEF Edited, JobRecords

\* What an edit has read: its own version of its job, and of the others what the
\* files say, or nothing.
LEMMA EditSteps ==
  ASSUME Typed, NEW j \in Jobs, NEW kind \in Kinds, EditRead(j, kind)
  PROVE  /\ op.phase = "none" /\ op'.phase = "write" /\ op'.session = None
         /\ op' \in OpType /\ op'.snapshot \in [Jobs -> JobRecords]
         /\ \A i \in Jobs : \/ i = j /\ op'.snapshot[i] = Edited(j, kind)
                            \/ op'.snapshot[i] \in {jobs[i], Absent}
<1>1. PICK ss \in Readable :
        op' = [phase |-> "write", session |-> None,
               snapshot |-> [i \in Jobs |->
                   IF i = j THEN Edited(j, kind)
                   ELSE IF Home[i] \in ss THEN jobs[i] ELSE Absent],
               cancels |-> IF kind = "cancel" THEN j ELSE None,
               loud |-> kind \in {"create", "resume"}]
  BY DEF EditRead
<1> DEFINE snap == [i \in Jobs |-> IF i = j THEN Edited(j, kind)
                                   ELSE IF Home[i] \in ss THEN jobs[i] ELSE Absent]
<1>2. jobs \in [Jobs -> JobRecords]
  BY DEF Typed, TypeOK
<1>3. snap \in [Jobs -> JobRecords]
  BY <1>2, EditedTyped, AbsentType
<1>4. \A i \in Jobs : \/ i = j /\ snap[i] = Edited(j, kind)
                      \/ snap[i] \in {jobs[i], Absent}
  OBVIOUS
<1>5. (kind \in {"create", "resume"}) \in BOOLEAN
  OBVIOUS
<1>6. op.phase = "none"
  BY DEF EditRead
<1> HIDE DEF snap
<1>7. op' = [phase |-> "write", session |-> None, snapshot |-> snap,
             cancels |-> IF kind = "cancel" THEN j ELSE None,
             loud |-> kind \in {"create", "resume"}]
  BY <1>1 DEF snap
<1> QED BY <1>3, <1>4, <1>5, <1>6, <1>7 DEF OpType

LEMMA EditReadTyped ==
  ASSUME Typed, NEW j \in Jobs, NEW kind \in Kinds, EditRead(j, kind) PROVE Typed'
<1>1. /\ jobs \in [Jobs -> JobRecords] /\ claims \in [Jobs -> Batches \cup {None}]
      /\ registered \subseteq Sessions /\ timer \in Times \cup {Never} /\ told \subseteq Jobs
      /\ undone \subseteq Jobs /\ missed \in BOOLEAN
  BY DEF Typed, TypeOK
<1>2. BatchFrame /\ UNCHANGED <<jobs, claims, registered, timer, told, undone, missed>> /\ crossed' = {}
  BY DEF EditRead, BatchFrame
<1> QED BY <1>1, <1>2, EditSteps, OpTyped

\* The records that an edit and a recovery write.
LEMMA WrittenTypes ==
  ASSUME Typed, NEW j \in Jobs
  PROVE  /\ op.phase = "write" => Merged(j) \in JobRecords /\ op.snapshot[j] \in JobRecords
         /\ Recovered(j) \in JobRecords
<1>1. jobs[j] \in JobRecords /\ now \in 0..MaxTime
  BY DEF Typed, TypeOK
<1>2. op.phase = "write" => op.snapshot[j] \in JobRecords
  BY DEF Typed, Shape
<1>3. \A s \in {"active", "completed"} : [jobs[j] EXCEPT !.status = s, !.updated = now] \in JobRecords
  BY <1>1, RecordTypes
<1>4. Recovered(j) \in JobRecords
  BY <1>1, <1>3 DEF Recovered
<1> QED BY <1>1, <1>2, <1>4 DEF Merged

\* A write leaves each job, or replaces it by the version that was read; claims
\* stay or are lost.
LEMMA WriteSteps ==
  ASSUME Typed, EditWrite \/ EditFails \/ RecoverWrite
  PROVE  /\ op.phase = "write" /\ Undo /\ crossed' = {}
         /\ BatchFrame /\ UNCHANGED <<registered, timer, told>>
         /\ jobs' \in [Jobs -> JobRecords] /\ claims' \in [Jobs -> Batches \cup {None}]
         /\ \A i \in Jobs : jobs'[i] \in {jobs[i], op.snapshot[i]} /\ claims'[i] \in {claims[i], None}
         /\ op'.phase = "wake" \/ (EditFails /\ op' = NoOp)
<1>1. /\ op.phase = "write" /\ Undo /\ crossed' = {}
      /\ BatchFrame /\ UNCHANGED <<registered, timer, told>>
  BY DEF EditWrite, EditFails, RecoverWrite, BatchFrame
<1>2. /\ jobs \in [Jobs -> JobRecords] /\ claims \in [Jobs -> Batches \cup {None}] /\ op \in OpType
      /\ op.snapshot \in [Jobs -> JobRecords]
  BY <1>1 DEF Typed, TypeOK, Shape
<1>3. /\ DOMAIN jobs' = Jobs /\ DOMAIN claims' = Jobs
      /\ jobs' = [i \in Jobs |-> jobs'[i]] /\ claims' = [i \in Jobs |-> claims'[i]]
      /\ \A i \in Jobs : jobs'[i] \in {jobs[i], op.snapshot[i]} /\ claims'[i] \in {claims[i], None}
  <2>1. CASE EditWrite \/ EditFails
    <3>1. PICK written, readable : WriteJobs(written, readable)
      BY <2>1 DEF EditWrite, EditFails
    <3> QED BY <3>1 DEF WriteJobs, Merged
  <2>2. CASE RecoverWrite
    BY <2>2 DEF RecoverWrite
  <2> QED BY <2>1, <2>2
<1>4. jobs' \in [Jobs -> JobRecords] /\ claims' \in [Jobs -> Batches \cup {None}]
  BY <1>2, <1>3
<1>5. op'.phase = "wake" \/ (EditFails /\ op' = NoOp)
  BY <1>2 DEF EditWrite, EditFails, RecoverWrite, OpType
<1> QED BY <1>1, <1>3, <1>4, <1>5

LEMMA OpStepTyped ==
  ASSUME Typed, OpStep \/ \E s \in Sessions : Register(s) PROVE Typed'
<1>1. /\ jobs \in [Jobs -> JobRecords] /\ claims \in [Jobs -> Batches \cup {None}]
      /\ registered \subseteq Sessions /\ timer \in Times \cup {Never} /\ told \subseteq Jobs
      /\ now \in 0..MaxTime /\ op \in OpType /\ NoOp \in OpType
      /\ NoOp.phase = "none" /\ NoOp.session = None
      /\ crossed \subseteq Jobs /\ undone \subseteq Jobs /\ missed \in BOOLEAN
  BY DEF Typed, TypeOK, Shape, NoOp, OpType
<1>2. CASE EditWrite \/ EditFails \/ RecoverWrite
  <2>1. op' \in OpType
    BY <1>1, <1>2 DEF EditWrite, EditFails, RecoverWrite, OpType
  <2>2. op'.phase \notin {"read", "write"} /\ (op'.phase = "none" => op'.session = None)
    BY <1>1, <1>2, WriteSteps
  <2>3. undone' \subseteq Jobs
    BY <1>1, <1>2, WriteSteps DEF Undo
  <2>4. missed' \in BOOLEAN
    BY <1>1, <1>2 DEF EditWrite, EditFails, RecoverWrite
  <2> QED BY <1>1, <1>2, <2>1, <2>2, <2>3, <2>4, WriteSteps, OpTyped
<1>3. CASE RecoverRead
  <2>1. BatchFrame /\ UNCHANGED <<jobs, claims, registered, timer, told, undone, missed>> /\ crossed' = {}
    BY <1>3 DEF RecoverRead, BatchFrame
  <2> DEFINE snap == [j \in Jobs |-> Recovered(j)]
  <2>2. snap \in [Jobs -> JobRecords]
    BY WrittenTypes
  <2>3. \E f \in {"write", "wake"} : op' = [op EXCEPT !.snapshot = snap, !.phase = f]
    BY <1>3 DEF RecoverRead
  <2> HIDE DEF snap
  <2>4. op' \in OpType /\ op'.snapshot \in [Jobs -> JobRecords] /\ op'.phase \notin {"none", "read"}
    BY <1>1, <2>2, <2>3 DEF OpType
  <2> QED BY <1>1, <2>1, <2>4, OpTyped
<1>4. CASE EditPanics \/ RecoverFails
  <2>1. BatchFrame /\ UNCHANGED <<jobs, claims, registered, timer, told, undone, missed>> /\ crossed' = {}
    BY <1>4 DEF EditPanics, RecoverFails, BatchFrame
  <2>2. op' = NoOp \/ op' = [op EXCEPT !.phase = "wake", !.snapshot = None]
    BY <1>4 DEF EditPanics, RecoverFails
  <2>3. op' \in OpType /\ op'.phase \notin {"read", "write"} /\ (op'.phase = "none" => op'.session = None)
    BY <1>1, <2>2 DEF OpType
  <2> QED BY <1>1, <2>1, <2>3, OpTyped
<1>5. CASE Wake
  <2>1. BatchFrame /\ UNCHANGED <<jobs, claims, registered, crossed, undone>> /\ op' = NoOp /\ missed' = FALSE
    BY <1>5 DEF Wake, BatchFrame
  <2>2. op.cancels \in Jobs \cup {None}
    BY <1>1 DEF OpType
  <2>3. timer' \in Times \cup {Never} /\ told' \subseteq Jobs
    BY <1>1, <1>5, <2>2, TimeFacts DEF Wake
  <2> QED BY <1>1, <2>1, <2>3, OpTyped
<1>6. CASE \E s \in Sessions : Register(s)
  <2>1. PICK s \in Sessions : Register(s)
    BY <1>6
  <2>2. /\ BatchFrame /\ UNCHANGED <<jobs, claims, timer, told, crossed, undone, missed>>
        /\ registered' = registered \cup {s}
    BY <2>1 DEF Register, BatchFrame
  <2>3. op' \in OpType /\ op'.phase = "read" /\ op'.session # None
    BY <1>1, <2>1, JobsAssumption DEF Register, OpType, NoOp
  <2> QED BY <1>1, <2>2, <2>3, OpTyped
<1> QED BY <1>2, <1>3, <1>4, <1>5, <1>6 DEF OpStep

LEMMA ProcessTyped ==
  ASSUME Typed, Stop \/ Exit \/ Restart \/ Tick PROVE Typed'
<1>1. CASE Stop
  BY <1>1 DEF Stop, Typed, TypeOK, Shape
<1>2. CASE Exit
  <2>1. exits' \in 0..MaxExits
    BY <1>2, TimeFacts DEF Exit, Typed, TypeOK
  <2>2. /\ op' \in OpType /\ op'.phase = "none" /\ op'.session = None
        /\ outcome' \in [Batches -> OutcomeType]
    BY <1>2 DEF Exit, NoOp, OpType, OutcomeType
  <2>3. at' \in [Batches -> 0..MaxTime] /\ \A b \in Batches : at'[b] <= now'
    BY <1>2, TimeFacts DEF Exit, Typed, TypeOK
  <2>4. TypeOK'
    BY <1>2, <2>1, <2>2, <2>3 DEF Exit, Typed, TypeOK, Phases, OpType
  <2>5. Shape'
    BY <1>2, <2>2, <2>3 DEF Exit, Shape, Dispatching
  <2> QED BY <2>4, <2>5 DEF Typed
<1>3. CASE Restart
  BY <1>3 DEF Restart, Typed, TypeOK, Shape
<1>4. CASE Tick
  <2>1. now' \in 0..MaxTime /\ now < now'
    BY <1>4, TimeFacts DEF Tick, Typed, TypeOK
  <2>2. UNCHANGED <<jobs, claims, registered, mode, timer, running, phase, at, todo, cur, lane,
                    outcome, lanes, op, prompts, told, crossed, undone, missed, exits>>
    BY <1>4 DEF Tick
  <2>3. TypeOK'
    BY <2>1, <2>2 DEF Typed, TypeOK
  <2>4. \A b \in Batches : at[b] <= now /\ at[b] \in Nat /\ now \in Nat /\ now' \in Nat
    BY <2>1, TimeFacts DEF Typed, TypeOK, Shape
  <2>5. Shape'
    BY <2>1, <2>2, <2>4 DEF Typed, Shape
  <2> QED BY <2>3, <2>5 DEF Typed
<1> QED BY <1>1, <1>2, <1>3, <1>4

LEMMA NextTyped == Typed /\ [Next]_vars => Typed'
<1> SUFFICES ASSUME Typed, [Next]_vars PROVE Typed'
  OBVIOUS
<1>1. CASE UNCHANGED vars
  BY <1>1 DEF vars, Typed, TypeOK, Shape
<1>2. CASE \E b \in Batches : Fire(b) \/ BatchStep(b)
  BY <1>2, DueTyped, ClaimTyped, PickTyped, DispatchTyped, RecordTyped DEF BatchStep
<1>3. CASE \E j \in Jobs, kind \in Kinds : EditRead(j, kind)
  BY <1>3, EditReadTyped
<1> QED BY <1>1, <1>2, <1>3, OpStepTyped, ProcessTyped DEF Next

\* The files, the scheduler and its batches keep their types, with every edit, recovery,
\* failure and crash in between (cron_jobs.rs).
THEOREM TypeCorrect == Spec => []TypeOK
<1>1. Typed => TypeOK
  BY DEF Typed
<1> QED BY InitTyped, NextTyped, <1>1, PTL DEF Spec

-----------------------------------------------------------------------------
(* How the jobs move.                                                      *)

\* A step leaves a job's next run alone, and does not activate it, or moves it
\* to the future; that of an active heartbeat by a period at most.
Moves(j, old, new) ==
    \/ new.next = old.next /\ (new.status = "active" => old.status = "active")
    \/ new.next > now /\ (new.next <= now + Period \/ new.status # "active" \/ j \notin Recurring)

LEMMA NextRunMoves ==
  ASSUME Typed, NEW j \in Jobs
  PROVE  NextRun(j) > now /\ (NextRun(j) <= now + Period \/ j \notin Recurring)
<1>1. now \in 0..MaxTime
  BY DEF Typed, TypeOK
<1> QED BY <1>1, TimeFacts DEF NextRun

LEMMA AdvanceMoves ==
  ASSUME Typed, NEW due \in SUBSET Jobs, Advance(due), NEW j \in Jobs
  PROVE  Moves(j, jobs[j], jobs'[j]) /\ (j \in due => jobs'[j].next > now)
<1>1. jobs[j] \in JobRecords
  BY DEF Typed, TypeOK
<1>2. jobs'[j] = IF j \in due THEN [jobs[j] EXCEPT !.next = NextRun(j), !.updated = now] ELSE jobs[j]
  BY DEF Advance
<1>3. j \in due => jobs'[j].next = NextRun(j)
  BY <1>1, <1>2 DEF JobRecords
<1> QED BY <1>2, <1>3, NextRunMoves DEF Moves

LEMMA EditedMoves ==
  ASSUME Typed, NEW j \in Jobs, NEW kind \in Kinds, NEW old
  PROVE  Moves(j, old, Edited(j, kind))
<1>1. now \in 0..MaxTime /\ kind \in {"create", "cancel", "pause", "resume"}
  BY TimeAssumption DEF Typed, TypeOK
<1>2. CASE kind \in {"create", "resume"}
  <2>1. Edited(j, kind).next = now + Period
    BY <1>2 DEF Edited
  <2> QED BY <1>1, <2>1, TimeFacts DEF Moves
<1>3. CASE kind \in {"cancel", "pause"}
  <2>1. Edited(j, kind).next = Never /\ Edited(j, kind).status # "active"
    BY <1>3 DEF Edited
  <2> QED BY <1>1, <2>1, TimeFacts DEF Moves
<1> QED BY <1>1, <1>2, <1>3

LEMMA RecoveredMoves ==
  ASSUME Typed, NEW j \in Jobs
  PROVE  Moves(j, jobs[j], Recovered(j))
<1>1. jobs[j] \in JobRecords
  BY DEF Typed, TypeOK
<1>2. Recovered(j).next = jobs[j].next /\ (Recovered(j).status = "active" => jobs[j].status = "active")
  BY <1>1 DEF Recovered, JobRecords
<1> QED BY <1>2 DEF Moves

\* Every other step of a batch leaves the jobs alone.
LEMMA BatchKeepsJobs ==
  ASSUME NEW b \in Batches,
         Fire(b) \/ Enter(b) \/ Leave(b) \/ Rearm(b) \/ Pick(b) \/ LockLane(b)
           \/ Start(b) \/ SessionOpened(b) \/ Admit(b) \/ RunUnlisted(b)
  PROVE  UNCHANGED <<now, jobs, claims, registered, op, mode, told, crossed, undone, exits>>
BY DEF Fire, Enter, Leave, Rearm, Pick, LockLane, Start, SessionOpened, Admit, RunUnlisted

LEMMA RecordMoves ==
  ASSUME Typed, NEW b \in Batches, Record(b) \/ RecordFails(b), NEW j \in Jobs
  PROVE  Moves(j, jobs[j], jobs'[j])
<1>1. jobs \in [Jobs -> JobRecords]
  BY DEF Typed, TypeOK
<1>2. CASE jobs'[j] = jobs[j]
  BY <1>2 DEF Moves
<1>3. CASE jobs'[j] # jobs[j]
  <2>1. PICK r \in {"ran", "skipped"} :
          /\ jobs[cur[b][1]].status = "active" /\ cur[b][1] \in Jobs
          /\ jobs' = [jobs EXCEPT ![cur[b][1]] = Recorded(cur[b][1], r)]
    BY <1>3, RecordStore
  <2>2. j = cur[b][1] /\ jobs'[j] = Recorded(j, r) /\ jobs[j].status = "active"
    BY <1>1, <1>3, <2>1
  <2>3. jobs'[j].next = NextRun(j) \/ jobs'[j].next = jobs[j].next
    BY <2>2 DEF Recorded
  <2> QED BY <2>2, <2>3, NextRunMoves DEF Moves
<1> QED BY <1>2, <1>3

\* What an operation writes back over a write that it did not see is undone.
LEMMA JobsMove ==
  ASSUME Typed, Next
  PROVE  /\ \A j \in Jobs : \/ Moves(j, jobs[j], jobs'[j])
                            \/ /\ op.phase = "write" /\ jobs'[j] = op.snapshot[j]
                               /\ j \in crossed => j \in undone'
         /\ op'.phase = "write" =>
               \/ op.phase = "write" /\ op'.snapshot = op.snapshot /\ crossed \subseteq crossed'
               \/ \A j \in Jobs : Moves(j, jobs[j], op'.snapshot[j])
         /\ undone \subseteq undone'
<1>0. /\ jobs' = jobs => \A j \in Jobs : Moves(j, jobs[j], jobs'[j])
      /\ \A j \in Jobs : Moves(j, jobs[j], jobs[j])
  BY DEF Moves
<1>1. CASE \E b \in Batches : Fire(b) \/ BatchStep(b)
  <2>1. PICK b \in Batches : Fire(b) \/ BatchStep(b)
    BY <1>1
  <2>2. CASE Claim(b) \/ ClaimFails(b)
    <3>1. PICK due \in SUBSET Jobs : Advance(due)
      BY <2>2, ClaimSteps
    <3>2. op' = op /\ undone' = undone /\ crossed \subseteq crossed'
      BY <2>2 DEF Claim, ClaimFails, Cross
    <3> QED BY <3>1, <3>2, AdvanceMoves
  <2>3. CASE Record(b) \/ RecordFails(b)
    <3>1. op' = op /\ undone' = undone /\ crossed \subseteq crossed'
      BY <2>3, RecordStore
    <3> QED BY <2>3, <3>1, RecordMoves
  <2>4. CASE ~(Claim(b) \/ ClaimFails(b) \/ Record(b) \/ RecordFails(b))
    <3>1. UNCHANGED <<jobs, op, crossed, undone>>
      BY <2>1, <2>4, BatchKeepsJobs DEF BatchStep
    <3> QED BY <1>0, <3>1
  <2> QED BY <2>2, <2>3, <2>4
<1>2. CASE \E j \in Jobs, kind \in Kinds : EditRead(j, kind)
  <2>1. PICK j \in Jobs, kind \in Kinds : EditRead(j, kind)
    BY <1>2
  <2>2. UNCHANGED <<jobs, undone>>
    BY <2>1 DEF EditRead
  <2>3. ASSUME NEW i \in Jobs PROVE Moves(i, jobs[i], op'.snapshot[i])
    <3>1. CASE i = j /\ op'.snapshot[i] = Edited(j, kind)
      BY <3>1, EditedMoves
    <3>2. CASE op'.snapshot[i] = jobs[i]
      BY <3>2 DEF Moves
    <3>3. CASE op'.snapshot[i] = Absent
      <4>1. now \in Nat /\ now < Never
        BY TimeFacts DEF Typed, TypeOK
      <4> QED BY <3>3, <4>1, AbsentType DEF Moves
    <3> QED BY <2>1, <3>1, <3>2, <3>3, EditSteps
  <2> QED BY <1>0, <2>2, <2>3
<1>3. CASE \E s \in Sessions : Register(s)
  <2>1. UNCHANGED <<jobs, undone>> /\ op'.phase = "read"
    BY <1>3 DEF Register, NoOp
  <2> QED BY <1>0, <2>1
<1>4. CASE OpStep
  <2>0. op \in OpType
    BY DEF Typed, Shape
  <2>1. CASE EditWrite \/ EditFails \/ RecoverWrite
    <3>1. op.phase = "write" /\ op'.phase # "write"
      BY <2>1, WriteSteps DEF NoOp
    <3>2. undone \subseteq undone' /\ \A j \in Jobs : j \in crossed /\ jobs'[j] # jobs[j] => j \in undone'
      BY <2>1, WriteSteps DEF Undo
    <3>3. ASSUME NEW j \in Jobs
          PROVE  \/ Moves(j, jobs[j], jobs'[j])
                 \/ jobs'[j] = op.snapshot[j] /\ (j \in crossed => j \in undone')
      <4>1. CASE jobs'[j] = jobs[j]
        BY <1>0, <4>1
      <4>2. CASE jobs'[j] # jobs[j]
        BY <2>1, <3>2, <4>2, WriteSteps
      <4> QED BY <4>1, <4>2
    <3> QED BY <3>1, <3>2, <3>3
  <2>2. CASE RecoverRead
    <3>1. UNCHANGED <<jobs, undone>> /\ op'.snapshot = [j \in Jobs |-> Recovered(j)]
      BY <2>0, <2>2 DEF RecoverRead, OpType
    <3> QED BY <1>0, <3>1, RecoveredMoves
  <2>3. CASE EditPanics \/ RecoverFails \/ Wake
    <3>1. UNCHANGED <<jobs, undone>>
      BY <2>3 DEF EditPanics, RecoverFails, Wake
    <3>2. op' = NoOp \/ op' = [op EXCEPT !.phase = "wake", !.snapshot = None]
      BY <2>3 DEF EditPanics, RecoverFails, Wake
    <3>3. op'.phase # "write"
      <4>1. NoOp.phase = "none"
        BY DEF NoOp
      <4>2. [op EXCEPT !.phase = "wake", !.snapshot = None].phase = "wake"
        BY <2>0 DEF OpType
      <4> QED BY <3>2, <4>1, <4>2
    <3> QED BY <1>0, <3>1, <3>3
  <2> QED BY <1>4, <2>1, <2>2, <2>3 DEF OpStep
<1>5. CASE Stop \/ Exit \/ Restart \/ Tick
  <2>1. UNCHANGED <<jobs, undone>> /\ (op'.phase = "none" \/ UNCHANGED <<op, crossed>>)
    BY <1>5 DEF Stop, Exit, Restart, Tick, NoOp
  <2> QED BY <1>0, <2>1
<1> QED BY <1>1, <1>2, <1>3, <1>4, <1>5 DEF Next

-----------------------------------------------------------------------------
(* The timer.                                                              *)

LEMMA TimesBelowNever ==
  /\ \A t \in Times \cup {Never} : t \in Nat /\ t <= Never
  /\ \A r \in JobRecords : r.next \in Nat /\ r.next <= Never
<1>1. \A t \in Times \cup {Never} : t \in Nat /\ t <= Never
  BY TimeFacts
<1>2. \A r \in JobRecords : r.next \in Times \cup {Never}
  BY RecordTypes
<1> QED BY <1>1, <1>2

\* The next run of an active heartbeat is at most a period away.
Soon(jb) == \A j \in Recurring : jb[j].status = "active" => jb[j].next <= now + Period

\* A batch that has set running is on the way to resetting it; a daemon that is
\* down sees no session.
Wound ==
    /\ running => \E b \in Batches : phase[b] \in {"claiming", "claimed"}
    /\ mode = "down" => registered = {}
    /\ Soon(jobs)
    /\ op.phase = "write" => Soon(op.snapshot)

LEMMA SoonKept ==
  ASSUME Typed, Wound, Next
  PROVE  Soon(jobs)' /\ (op'.phase = "write" => Soon(op.snapshot)')
<1>1. now' = now \/ now' = now + 1
  BY BatchKeepsJobs, RecordStore DEF Next, BatchStep, Claim, ClaimFails, EditRead, Register, OpStep,
     EditWrite, EditFails, EditPanics, RecoverRead, RecoverWrite, RecoverFails, Wake, Stop, Exit, Restart, Tick
<1>2. now \in Nat /\ Period \in Nat
  BY TimeFacts DEF Typed, TypeOK
<1>3. Typed' /\ jobs \in [Jobs -> JobRecords] /\ jobs' \in [Jobs -> JobRecords]
  BY NextTyped DEF Typed, TypeOK
<1>4. \A r \in JobRecords : r.next \in Nat
  BY RecordTypes, TimeFacts
<1>5. Recurring \subseteq Jobs
  BY JobsAssumption
<1>6. ASSUME NEW j \in Recurring, NEW old \in JobRecords, NEW new \in JobRecords,
             Moves(j, old, new), old.status = "active" => old.next <= now + Period,
             new.status = "active"
      PROVE  new.next <= now + Period
  BY <1>6 DEF Moves
<1>7. ASSUME NEW j \in Recurring, jobs'[j].status = "active" PROVE jobs'[j].next <= now' + Period
  <2>1. jobs'[j].next <= now + Period
    BY <1>3, <1>5, <1>6, <1>7, JobsMove DEF Wound, Soon, Typed, Shape
  <2> QED BY <1>1, <1>2, <1>3, <1>4, <1>5, <2>1
<1>8. ASSUME NEW j \in Recurring, op'.phase = "write", op'.snapshot[j].status = "active"
      PROVE  op'.snapshot[j].next <= now' + Period
  <2>1. op'.snapshot \in [Jobs -> JobRecords]
    BY <1>3, <1>8 DEF Typed, Shape
  <2>2. op'.snapshot[j].next <= now + Period
    <3>1. CASE op.phase = "write" /\ op'.snapshot = op.snapshot
      BY <1>8, <3>1 DEF Wound, Soon
    <3>2. CASE \A i \in Jobs : Moves(i, jobs[i], op'.snapshot[i])
      <4>1. Moves(j, jobs[j], op'.snapshot[j]) /\ jobs[j] \in JobRecords /\ op'.snapshot[j] \in JobRecords
        BY <1>3, <1>5, <2>1, <3>2
      <4> QED BY <1>6, <1>8, <4>1 DEF Wound, Soon
    <3> QED BY <1>8, <3>1, <3>2, JobsMove
  <2> QED BY <1>1, <1>2, <1>4, <1>5, <2>1, <2>2
<1> QED BY <1>7, <1>8 DEF Soon

\* The steps of a batch that is neither in run_due() before its dispatches nor
\* about to be.
LEMMA DispatchKeepsTimer ==
  ASSUME Typed, NEW b \in Batches,
         Pick(b) \/ LockLane(b) \/ Start(b) \/ SessionOpened(b) \/ Admit(b) \/ RunUnlisted(b) \/ Record(b) \/ RecordFails(b)
  PROVE  /\ UNCHANGED <<now, registered, mode, timer, running, op, missed>>
         /\ phase[b] \notin {"fired", "claiming", "claimed", "rearm"}
         /\ \A c \in Batches : c # b => phase'[c] = phase[c]
<1>1. phase \in [Batches -> Phases]
  BY DEF Typed, TypeOK
<1>2. CASE Pick(b) \/ LockLane(b)
  BY <1>1, <1>2 DEF Pick, LockLane, Goto
<1>3. CASE Start(b) \/ SessionOpened(b) \/ Admit(b) \/ RunUnlisted(b)
  <2>1. DispatchFrame /\ phase[b] \in {"start", "session", "unlisted", "admission"}
    BY <1>3, DispatchSteps
  <2>2. \E f : phase' = [phase EXCEPT ![b] = f]
    BY <1>3, DispatchSteps DEF Outcome, Goto
  <2> QED BY <1>1, <2>1, <2>2 DEF DispatchFrame
<1>4. CASE Record(b) \/ RecordFails(b)
  BY <1>4, RecordStore, EndTyped
<1> QED BY <1>2, <1>3, <1>4

LEMMA WoundKept ==
  ASSUME Typed, Wound, Next
  PROVE  Wound'
<1>0. phase \in [Batches -> Phases]
  BY DEF Typed, TypeOK
<1>1. (running => \E b \in Batches : phase[b] \in {"claiming", "claimed"})'
  <2>1. ASSUME NEW b \in Batches, Fire(b) \/ BatchStep(b)
        PROVE  (running => \E c \in Batches : phase[c] \in {"claiming", "claimed"})'
    <3>1. CASE Fire(b)
      BY <1>0, <3>1 DEF Fire, Goto, Wound
    <3>2. CASE Enter(b)
      BY <1>0, <3>2 DEF Enter, Goto, Wound
    <3>3. CASE Claim(b) \/ ClaimFails(b)
      BY <1>0, <3>3 DEF Claim, ClaimFails, Goto, Wound
    <3>4. CASE Leave(b)
      BY <3>4 DEF Leave
    <3>5. CASE Rearm(b)
      BY <1>0, <3>5 DEF Rearm, Goto, Wound
    <3>6. CASE Pick(b) \/ LockLane(b) \/ Start(b) \/ SessionOpened(b) \/ Admit(b) \/ RunUnlisted(b) \/ Record(b) \/ RecordFails(b)
      BY <3>6, DispatchKeepsTimer DEF Wound
    <3> QED BY <2>1, <3>1, <3>2, <3>3, <3>4, <3>5, <3>6 DEF BatchStep
  <2>2. CASE OpStep \/ \E j \in Jobs, kind \in Kinds : EditRead(j, kind)
    BY <2>2 DEF OpStep, EditWrite, EditFails, EditPanics, RecoverRead, RecoverWrite, RecoverFails, Wake, EditRead, Wound
  <2>3. CASE (\E s \in Sessions : Register(s)) \/ Stop \/ Exit \/ Restart \/ Tick
    BY <2>3 DEF Register, Stop, Exit, Restart, Tick, Wound
  <2> QED BY <2>1, <2>2, <2>3 DEF Next
<1>2. (mode = "down" => registered = {})'
  <2>1. ASSUME NEW b \in Batches, Fire(b) \/ BatchStep(b) PROVE UNCHANGED <<mode, registered>>
    BY <2>1, BatchKeepsJobs, RecordStore DEF BatchStep, Claim, ClaimFails
  <2>2. CASE OpStep \/ \E j \in Jobs, kind \in Kinds : EditRead(j, kind)
    BY <2>2 DEF OpStep, EditWrite, EditFails, EditPanics, RecoverRead, RecoverWrite, RecoverFails, Wake, EditRead, Wound
  <2>3. CASE (\E s \in Sessions : Register(s)) \/ Stop \/ Exit \/ Restart \/ Tick
    BY <2>3 DEF Register, Stop, Exit, Restart, Tick, Wound
  <2> QED BY <2>1, <2>2, <2>3 DEF Next, Wound
<1> QED BY <1>1, <1>2, SoonKept DEF Wound

\* No job is hidden from the timer, and nobody has still to arm it.
Settled ==
    /\ ~missed /\ op.phase # "wake" /\ op.session = None
    /\ \A b \in Batches : phase[b] \notin {"fired", "claiming", "claimed", "rearm"}

LEMMA CoversIs ==
  /\ TimerCoversJobs <=> (mode = "up" /\ Settled =>
        timer <= now \/ timer <= DeadlineOf(jobs, registered, now))
  /\ TimerCoversJobs' <=> (mode' = "up" /\ Settled' =>
        timer' <= now' \/ timer' <= DeadlineOf(jobs', registered', now'))
BY DeadlineIs DEF TimerCoversJobs, Settled

\* A record does not bring a deadline nearer.
LEMMA RecordDefers ==
  ASSUME Typed, Wound, NEW b \in Batches, Record(b) \/ RecordFails(b)
  PROVE  DeadlineOf(jobs, registered, now) <= DeadlineOf(jobs', registered, now)
<1>1. /\ jobs \in [Jobs -> JobRecords] /\ jobs' \in [Jobs -> JobRecords] /\ now \in 0..MaxTime
      /\ \A r \in JobRecords : r.next \in Nat /\ r.next <= Never
  <2>1. Typed'
    BY RecordTyped
  <2>2. jobs \in [Jobs -> JobRecords] /\ jobs' \in [Jobs -> JobRecords] /\ now \in 0..MaxTime
    BY <2>1 DEF Typed, TypeOK
  <2> QED BY <2>2, TimesBelowNever
<1>2. ASSUME NEW j \in Active(jobs', registered)
      PROVE  j \in Active(jobs, registered) /\ jobs[j].next <= jobs'[j].next
  <2>1. j \in Jobs /\ jobs'[j].status = "active"
    BY DEF Active
  <2>2. CASE jobs'[j] = jobs[j]
    BY <1>1, <2>1, <2>2 DEF Active
  <2>3. CASE jobs'[j] # jobs[j]
    <3>1. PICK r \in {"ran", "skipped"} :
            /\ jobs[cur[b][1]].status = "active" /\ cur[b][1] \in Jobs
            /\ jobs' = [jobs EXCEPT ![cur[b][1]] = Recorded(cur[b][1], r)]
      BY <2>3, RecordStore
    <3>2. j = cur[b][1] /\ jobs'[j] = Recorded(j, r) /\ jobs[j].status = "active"
      BY <1>1, <2>1, <2>3, <3>1
    <3>3. j \in Recurring
      BY <2>1, <3>2 DEF Recorded
    <3>4. jobs[j].next <= now + Period
      BY <3>2, <3>3 DEF Wound, Soon
    <3>5. jobs'[j].next = jobs[j].next \/ jobs'[j].next = now + Period
      BY <3>2, <3>3 DEF Recorded, NextRun
    <3>6. jobs[j].next <= jobs'[j].next
      BY <1>1, <2>1, <3>4, <3>5
    <3> QED BY <3>2, <3>6 DEF Active
  <2> QED BY <2>2, <2>3
<1> DEFINE D == DeadlineOf(jobs, registered, now)
           E == DeadlineOf(jobs', registered, now)
<1>3. D \in Times \cup {Never} /\ \A j \in Active(jobs, registered) : D <= Moment(jobs, now, j)
  BY <1>1, DeadlineLeast
<1>4. E = Never \/ \E j \in Active(jobs', registered) : E = Moment(jobs', now, j)
  BY <1>1, DeadlineLeast
<1>5. ASSUME E = Never PROVE D <= E
  <2> HIDE DEF D, E
  <2> QED BY <1>3, <1>5, TimesBelowNever
<1>6. ASSUME NEW j \in Active(jobs', registered), E = Moment(jobs', now, j) PROVE D <= E
  <2>1. D <= Moment(jobs, now, j) /\ jobs[j].next <= jobs'[j].next /\ j \in Jobs
    BY <1>2, <1>3 DEF Active
  <2>2. jobs[j].next \in Nat /\ jobs'[j].next \in Nat /\ now \in Nat /\ D \in Nat
    BY <1>1, <1>3, <2>1, TimeFacts
  <2> HIDE DEF D, E
  <2>3. Moment(jobs, now, j) <= Moment(jobs', now, j)
    BY <2>1, <2>2 DEF Moment
  <2>4. Moment(jobs, now, j) \in Nat /\ Moment(jobs', now, j) \in Nat
    BY <2>2 DEF Moment
  <2> QED BY <1>6, <2>1, <2>2, <2>3, <2>4
<1> QED BY <1>4, <1>5, <1>6

\* The clock does not pass a deadline that the timer covers.
LEMMA TickCovers ==
  ASSUME Typed, Tick, timer <= now \/ timer <= DeadlineOf(jobs, registered, now)
  PROVE  timer <= now + 1 \/ timer <= DeadlineOf(jobs, registered, now + 1)
<1>1. /\ jobs \in [Jobs -> JobRecords] /\ now \in 0..MaxTime /\ now + 1 \in 0..MaxTime
      /\ timer \in Times \cup {Never} /\ \A r \in JobRecords : r.next \in Nat
  <2>1. jobs \in [Jobs -> JobRecords] /\ now \in 0..MaxTime /\ timer \in Times \cup {Never}
    BY DEF Typed, TypeOK
  <2>2. now + 1 \in 0..MaxTime
    BY <2>1, TimeFacts DEF Tick
  <2> QED BY <2>1, <2>2, TimesBelowNever
<1>2. now \in Nat /\ timer \in Nat /\ timer <= Never
  BY <1>1, TimesBelowNever
<1> DEFINE D == DeadlineOf(jobs, registered, now)
           E == DeadlineOf(jobs, registered, now + 1)
<1>3. D \in Times \cup {Never} /\ \A j \in Active(jobs, registered) : D <= Moment(jobs, now, j)
  BY <1>1, DeadlineLeast
<1>4. E = Never \/ \E j \in Active(jobs, registered) : E = Moment(jobs, now + 1, j)
  BY <1>1, DeadlineLeast
<1>5. D \in Nat
  BY <1>3, TimeFacts
<1>6. CASE E = Never
  BY <1>2, <1>6
<1>7. ASSUME NEW j \in Active(jobs, registered), E = Moment(jobs, now + 1, j), timer <= D
      PROVE  timer <= now + 1 \/ timer <= E
  <2>1. D <= Moment(jobs, now, j) /\ jobs[j].next \in Nat
    BY <1>1, <1>3 DEF Active
  <2> HIDE DEF D, E
  <2> QED BY <1>2, <1>5, <1>7, <2>1 DEF Moment
<1>8. CASE timer <= now
  BY <1>2, <1>8
<1> QED BY <1>4, <1>6, <1>7, <1>8

LEMMA CoversKept ==
  ASSUME Typed, Wound, TimerCoversJobs, Next
  PROVE  TimerCoversJobs'
<1>0. /\ phase \in [Batches -> Phases] /\ timer \in Times \cup {Never} /\ now \in 0..MaxTime
      /\ jobs \in [Jobs -> JobRecords]
  BY DEF Typed, TypeOK
<1>1. ASSUME NEW b \in Batches, Fire(b) \/ BatchStep(b) PROVE TimerCoversJobs'
  <2>1. CASE Fire(b)
    BY <1>0, <2>1, CoversIs DEF Fire, Goto, Settled
  <2>2. CASE Enter(b)
    <3>1. CASE running \/ mode # "up"
      <4>1. mode' # "up" \/ \E c \in Batches : c # b /\ phase'[c] \in {"claiming", "claimed"}
        BY <1>0, <2>2, <3>1 DEF Enter, Goto, Wound
      <4> QED BY <4>1, CoversIs DEF Settled
    <3>2. CASE ~(running \/ mode # "up")
      <4>1. phase'[b] = "claiming"
        BY <1>0, <2>2, <3>2 DEF Enter, Goto
      <4> QED BY <4>1, CoversIs DEF Settled
    <3> QED BY <3>1, <3>2
  <2>3. CASE Claim(b) \/ ClaimFails(b)
    <3>1. phase'[b] = "claimed"
      BY <1>0, <2>3 DEF Claim, ClaimFails, Goto
    <3> QED BY <3>1, CoversIs DEF Settled
  <2>4. CASE Leave(b)
    <3>1. mode' # "up" \/ phase'[b] = "rearm"
      BY <1>0, <2>4 DEF Leave, Goto
    <3> QED BY <3>1, CoversIs DEF Settled
  <2>5. CASE Rearm(b)
    <3>1. /\ Settled' => timer' = DeadlineOf(jobs, registered, now)
          /\ UNCHANGED <<now, jobs, registered>>
      BY <2>5, DeadlineIs DEF Rearm, Settled
    <3>2. DeadlineOf(jobs, registered, now) \in Nat
      BY <1>0, DeadlineLeast, TimeFacts
    <3> QED BY <3>1, <3>2, CoversIs
  <2>6. CASE Pick(b) \/ LockLane(b) \/ Start(b) \/ SessionOpened(b) \/ Admit(b) \/ RunUnlisted(b) \/ Record(b) \/ RecordFails(b)
    <3>1. UNCHANGED <<now, registered, mode, timer, op, missed>> /\ (Settled' => Settled)
      BY <2>6, DispatchKeepsTimer DEF Settled
    <3>2. CASE Record(b) \/ RecordFails(b)
      <4> DEFINE D == DeadlineOf(jobs, registered, now)
                 E == DeadlineOf(jobs', registered, now)
      <4>1. D <= E
        BY <3>2, RecordDefers
      <4>2. D \in Nat /\ E \in Nat /\ timer \in Nat
        <5>1. jobs' \in [Jobs -> JobRecords]
          BY <3>2, RecordTyped DEF Typed, TypeOK
        <5> QED BY <1>0, <5>1, DeadlineLeast, TimeFacts
      <4>3. mode' = "up" /\ Settled' => timer <= now \/ timer <= D
        BY <3>1, CoversIs
      <4> HIDE DEF D, E
      <4>4. mode' = "up" /\ Settled' => timer <= now \/ timer <= E
        BY <4>1, <4>2, <4>3
      <4> QED BY <3>1, <4>4, CoversIs DEF E
    <3>3. CASE ~(Record(b) \/ RecordFails(b))
      <4>1. jobs' = jobs
        BY <2>6, <3>3, BatchKeepsJobs
      <4> QED BY <3>1, <4>1, CoversIs
    <3> QED BY <3>2, <3>3
  <2> QED BY <1>1, <2>1, <2>2, <2>3, <2>4, <2>5, <2>6 DEF BatchStep
<1>2. CASE (\E j \in Jobs, kind \in Kinds : EditRead(j, kind)) \/ (\E s \in Sessions : Register(s))
  <2>1. CASE \E j \in Jobs, kind \in Kinds : EditRead(j, kind)
    <3>1. /\ UNCHANGED <<now, jobs, registered, mode, timer, phase, missed>>
          /\ op.phase = "none" /\ op.session = None
      BY <2>1 DEF EditRead, Typed, Shape
    <3> QED BY <3>1, CoversIs DEF Settled
  <2>2. CASE \E s \in Sessions : Register(s)
    <3>1. op'.session \in Sessions /\ None \notin Sessions
      BY <2>2, JobsAssumption DEF Register, NoOp
    <3> QED BY <3>1, CoversIs DEF Settled
  <2> QED BY <1>2, <2>1, <2>2
<1>3. CASE OpStep
  <2>0. op \in OpType
    BY DEF Typed, Shape
  <2>1. CASE Wake
    <3>1. mode' = "up" => timer' = 0 /\ now' = now
      BY <2>1 DEF Wake
    <3> QED BY <1>0, <3>1, CoversIs, TimeFacts
  <2>2. CASE EditWrite \/ RecoverRead \/ RecoverWrite \/ RecoverFails
    <3>1. op'.phase = "wake" \/ (op'.session = op.session /\ op.phase = "read")
      BY <2>0, <2>2 DEF EditWrite, RecoverRead, RecoverWrite, RecoverFails, OpType
    <3>2. op.phase = "read" => op.session # None
      BY DEF Typed, Shape
    <3> QED BY <3>1, <3>2, CoversIs DEF Settled
  <2>3. CASE EditPanics
    <3>1. UNCHANGED <<now, jobs, registered, mode, timer, phase, missed>>
          /\ op.phase = "write" /\ op.session = None
      BY <2>3 DEF EditPanics
    <3> QED BY <3>1, CoversIs DEF Settled
  <2>4. CASE EditFails
    <3>1. UNCHANGED <<now, registered, mode, timer, phase>> /\ op.phase = "write" /\ op.session = None
      BY <2>4 DEF EditFails
    <3>2. ASSUME Settled' PROVE jobs' = jobs /\ ~missed
      <4>1. op.loud /\ missed' = (missed \/ (op.loud /\ jobs' # jobs))
        BY <2>0, <2>4, <3>2 DEF EditFails, Settled, OpType
      <4> QED BY <3>2, <4>1 DEF Settled
    <3> QED BY <3>1, <3>2, CoversIs DEF Settled
  <2> QED BY <1>3, <2>1, <2>2, <2>3, <2>4 DEF OpStep
<1>4. CASE Stop \/ Exit
  <2>1. mode' # "up"
    BY <1>4 DEF Stop, Exit
  <2> QED BY <2>1, CoversIs
<1>5. CASE Restart
  <2>1. registered' = {} /\ UNCHANGED <<timer, jobs, now>>
    BY <1>5 DEF Restart, Wound
  <2>2. DeadlineOf(jobs, {}, now) = Never
    BY <1>0, DeadlineLeast DEF Active
  <2>3. timer <= Never
    BY <1>0, TimeFacts
  <2> QED BY <2>1, <2>2, <2>3, CoversIs
<1>6. CASE Tick
  <2>1. UNCHANGED <<jobs, registered, mode, timer, op, phase, missed>> /\ now' = now + 1
    BY <1>6 DEF Tick
  <2>2. Settled' = Settled
    BY <2>1 DEF Settled
  <2> QED BY <1>6, <2>1, <2>2, TickCovers, CoversIs
<1> QED BY <1>1, <1>2, <1>3, <1>4, <1>5, <1>6 DEF Next

\* No wake-up is lost: when a visible job will be due, the timer fires by then, or
\* a batch, a recovery or an edit that has still to arm it is on the way, unless a
\* failed file operation hid the job when the timer was last to be armed
\* (schedule_next, next_active_run_at, run_due and wake of cron_jobs.rs).
THEOREM TimerCovers == Spec => []TimerCoversJobs
<1> DEFINE IInv == Typed /\ Wound /\ TimerCoversJobs
<1>1. Init => IInv
  <2>1. ASSUME Init PROVE Wound
    BY <2>1, JobsAssumption DEF Init, Wound, Soon, NoOp, Absent
  <2>2. ASSUME Init PROVE TimerCoversJobs
    <3>1. Typed
      BY <2>2, InitTyped
    <3>2. DeadlineOf(jobs, {}, now) = Never
      BY <3>1, DeadlineLeast DEF Active, Typed, TypeOK
    <3>3. timer <= DeadlineOf(jobs, registered, now)
      BY <2>2, <3>2, TimeFacts DEF Init
    <3> QED BY <3>3, CoversIs
  <2> QED BY <2>1, <2>2, InitTyped
<1>2. IInv /\ [Next]_vars => IInv'
  <2>1. CASE Next
    BY <2>1, NextTyped, WoundKept, CoversKept
  <2>2. CASE UNCHANGED vars
    <3>1. UNCHANGED <<now, jobs, registered, mode, timer, running, phase, op, missed>>
      BY <2>2 DEF vars
    <3>2. Wound => Wound'
      BY <3>1 DEF Wound, Soon
    <3>3. Settled' = Settled
      BY <3>1 DEF Settled
    <3>4. TimerCoversJobs => TimerCoversJobs'
      BY <3>1, <3>3, CoversIs
    <3> QED BY <2>2, <3>2, <3>4, NextTyped
  <2> QED BY <2>1, <2>2
<1>3. IInv => TimerCoversJobs
  OBVIOUS
<1> QED BY <1>1, <1>2, <1>3, PTL DEF Spec

-----------------------------------------------------------------------------
(* No tick is prompted twice.                                              *)


\* The ticks that have been prompted, or are claimed and may still be.
Handled == {d \in Jobs \X Times : prompts[d[1]][d[2]] > 0 \/ \E b \in Batches : d \in todo[b]}

\* They lie before the next run of their job, except for some jobs.
Past(jb, excused) ==
    \A d \in Handled : d[1] \notin excused => d[2] <= now /\ d[2] < jb[d[1]].next

\* A claimed tick has not been prompted, unless its dispatch has just ended.
Unsent == \A b \in Batches : \A d \in todo[b] :
              \/ d[1] \in undone
              \/ prompts[d[1]][d[2]] = 0 \/ (phase[b] = "record" /\ cur[b] = d)

\* No two batches have claimed the same tick.
Apart == \A b, c \in Batches : b # c => \A d \in todo[b] : d[1] \in undone \/ d \notin todo[c]

\* What an operation has read is as good as the files, but for the jobs that were
\* written since.
Once ==
    /\ Past(jobs, undone)
    /\ op.phase = "write" => Past(op.snapshot, undone \cup crossed)
    /\ Unsent /\ Apart /\ TickOnce

\* Where no tick is claimed, what is handled stays past.
LEMMA PastKept ==
  ASSUME Typed, Once, Next, Handled' \subseteq Handled
  PROVE  Past(jobs, undone)' /\ (op'.phase = "write" => Past(op.snapshot, undone \cup crossed)')
<1>1. now' = now \/ now' = now + 1
  BY BatchKeepsJobs, RecordStore DEF Next, BatchStep, Claim, ClaimFails, EditRead, Register, OpStep,
     EditWrite, EditFails, EditPanics, RecoverRead, RecoverWrite, RecoverFails, Wake, Stop, Exit, Restart, Tick
<1>2. now \in Nat /\ \A d \in Handled : d[1] \in Jobs /\ d[2] \in Nat
  BY TimeFacts DEF Typed, TypeOK, Handled
<1>3. Typed' /\ jobs \in [Jobs -> JobRecords] /\ jobs' \in [Jobs -> JobRecords]
  BY NextTyped DEF Typed, TypeOK
<1>4. ASSUME NEW d \in Handled, NEW old \in JobRecords, NEW new \in JobRecords,
             Moves(d[1], old, new), d[2] <= now, d[2] < old.next
      PROVE  d[2] < new.next
  BY <1>2, <1>4, TimesBelowNever DEF Moves
<1>5. ASSUME NEW d \in Handled', d[1] \notin undone' PROVE d[2] <= now' /\ d[2] < jobs'[d[1]].next
  <2>1. d \in Handled /\ d[1] \in Jobs /\ d[1] \notin undone
    BY <1>2, <1>5, JobsMove
  <2>2. d[2] <= now /\ d[2] < jobs[d[1]].next
    BY <2>1 DEF Once, Past
  <2>3. d[2] <= now'
    BY <1>1, <1>2, <2>1, <2>2
  <2>4. d[2] < jobs'[d[1]].next
    <3>1. CASE /\ op.phase = "write" /\ jobs'[d[1]] = op.snapshot[d[1]]
               /\ d[1] \in crossed => d[1] \in undone'
      BY <1>5, <2>1, <3>1 DEF Once, Past
    <3>2. CASE Moves(d[1], jobs[d[1]], jobs'[d[1]])
      BY <1>3, <1>4, <2>1, <2>2, <3>2
    <3> QED BY <2>1, <3>1, <3>2, JobsMove
  <2> QED BY <2>3, <2>4
<1>6. ASSUME NEW d \in Handled', op'.phase = "write", d[1] \notin undone' \cup crossed'
      PROVE  d[2] < op'.snapshot[d[1]].next
  <2>1. d \in Handled /\ d[1] \in Jobs /\ d[1] \notin undone
    BY <1>2, <1>6, JobsMove
  <2>2. d[2] <= now /\ d[2] < jobs[d[1]].next
    BY <2>1 DEF Once, Past
  <2>3. op'.snapshot \in [Jobs -> JobRecords]
    BY <1>3, <1>6 DEF Typed, Shape
  <2>4. CASE op.phase = "write" /\ op'.snapshot = op.snapshot /\ crossed \subseteq crossed'
    BY <1>6, <2>1, <2>4 DEF Once, Past
  <2>5. CASE \A j \in Jobs : Moves(j, jobs[j], op'.snapshot[j])
    <3>1. /\ Moves(d[1], jobs[d[1]], op'.snapshot[d[1]])
          /\ jobs[d[1]] \in JobRecords /\ op'.snapshot[d[1]] \in JobRecords
      BY <1>3, <2>1, <2>3, <2>5
    <3> QED BY <1>4, <2>1, <2>2, <3>1
  <2> QED BY <1>6, <2>4, <2>5, JobsMove
<1> QED BY <1>5, <1>6 DEF Past

LEMMA ClaimOnce ==
  ASSUME Typed, Once, NEW b \in Batches, Claim(b) \/ ClaimFails(b)
  PROVE  Once'
<1> DEFINE new == {<<j, jobs[j].next>> : j \in {i \in Jobs : claims'[i] # claims[i]}}
<1>1. PICK due \in SUBSET Jobs :
        /\ \A j \in due : IsDue(j, at[b])
        /\ Advance(due) /\ ClaimFor(b, due)
        /\ todo' = [todo EXCEPT ![b] = new] \/ todo' = todo
  BY ClaimSteps
<1>2. /\ UNCHANGED <<now, op, prompts, cur, undone>> /\ phase[b] = "claiming" /\ Cross
      /\ phase' = [phase EXCEPT ![b] = "claimed"]
  BY DEF Claim, ClaimFails, Goto
<1>3. /\ todo \in [Batches -> SUBSET (Jobs \X Times)] /\ phase \in [Batches -> Phases]
      /\ jobs \in [Jobs -> JobRecords] /\ now \in Nat /\ prompts \in [Jobs -> [Times -> 0..2]]
      /\ at[b] \in Nat /\ at[b] <= now /\ claims \in [Jobs -> Batches \cup {None}]
  BY TimeFacts DEF Typed, TypeOK, Shape
<1>4. crossed \subseteq crossed'
  BY <1>2 DEF Cross
<1>5. ASSUME NEW d \in new
      PROVE  /\ d[1] \in due /\ d[2] \in Nat /\ d[2] <= now
             /\ d[2] < jobs'[d[1]].next
             /\ d[1] \notin undone => d \notin Handled
             /\ op.phase = "write" => d[1] \in crossed'
  <2>1. PICK j \in Jobs : d = <<j, jobs[j].next>> /\ claims'[j] # claims[j]
    OBVIOUS
  <2>2. j \in due /\ jobs[j].next <= at[b]
    BY <1>1, <1>3, <2>1 DEF ClaimFor, IsDue
  <2>3. jobs[j].next \in Nat /\ jobs'[j].next > now /\ jobs'[j] \in JobRecords
    BY <1>1, <1>3, <2>2, TimesBelowNever, AdvanceMoves, AdvanceTyped
  <2>4. jobs'[j].next \in Nat
    BY <2>3, TimesBelowNever
  <2>5. j \notin undone => d \notin Handled
    BY <2>1, <2>3 DEF Once, Past
  <2>6. op.phase = "write" => j \in crossed'
    BY <1>2, <2>1 DEF Cross
  <2> QED BY <1>3, <2>1, <2>2, <2>3, <2>4, <2>5, <2>6
<1>6. ASSUME NEW c \in Batches PROVE todo'[c] = todo[c] \/ (c = b /\ todo'[c] = new)
  BY <1>1, <1>3
<1>7. Handled' \subseteq Handled \cup new
  <2>1. ASSUME NEW d \in Handled' PROVE d \in Handled \cup new
    BY <1>2, <1>6, <2>1 DEF Handled
  <2> QED BY <2>1
<1>8. \A c \in Batches : \A d \in todo[c] : d \in Handled
  BY <1>3 DEF Handled
<1> HIDE DEF new
<1>9. Past(jobs, undone)'
  <2> SUFFICES ASSUME NEW d \in Handled', d[1] \notin undone
               PROVE  d[2] <= now /\ d[2] < jobs'[d[1]].next
    BY <1>2 DEF Past
  <2>1. CASE d \in new
    BY <1>5, <2>1
  <2>2. CASE d \in Handled
    <3>1. d[1] \in Jobs /\ d[2] \in Nat /\ d[2] <= now /\ d[2] < jobs[d[1]].next
      BY <2>2, TimeFacts DEF Handled, Once, Past
    <3>2. Moves(d[1], jobs[d[1]], jobs'[d[1]]) /\ jobs'[d[1]] \in JobRecords
      BY <1>1, <3>1, AdvanceMoves, AdvanceTyped
    <3>3. jobs'[d[1]].next \in Nat
      BY <3>2, TimesBelowNever
    <3> QED BY <1>3, <3>1, <3>2, <3>3 DEF Moves
  <2> QED BY <1>7, <2>1, <2>2
<1>10. op'.phase = "write" => Past(op.snapshot, undone \cup crossed)'
  <2> SUFFICES ASSUME op.phase = "write", NEW d \in Handled', d[1] \notin undone \cup crossed'
               PROVE  d[2] <= now /\ d[2] < op.snapshot[d[1]].next
    BY <1>2 DEF Past
  <2>1. d \in Handled
    BY <1>5, <1>7
  <2> QED BY <1>4, <2>1 DEF Once, Past
<1>11. Unsent'
  <2> SUFFICES ASSUME NEW c \in Batches, NEW d \in todo'[c], d[1] \notin undone
               PROVE  prompts[d[1]][d[2]] = 0 \/ (phase'[c] = "record" /\ cur[c] = d)
    BY <1>2 DEF Unsent
  <2>1. CASE c = b /\ d \in new
    <3>1. d \in Jobs \X Times
      BY <2>1, <1>6, ClaimTyped DEF Typed, TypeOK
    <3>2. prompts[d[1]][d[2]] \in 0..2 /\ ~(prompts[d[1]][d[2]] > 0)
      BY <1>3, <1>5, <2>1, <3>1 DEF Handled
    <3> QED BY <3>2
  <2>2. CASE d \in todo[c]
    BY <1>2, <1>3, <2>2 DEF Once, Unsent
  <2> QED BY <1>6, <2>1, <2>2
<1>12. Apart'
  <2> SUFFICES ASSUME NEW c \in Batches, NEW e \in Batches, c # e, NEW d \in todo'[c], d \in todo'[e],
                      d[1] \notin undone
               PROVE  FALSE
    BY <1>2 DEF Apart
  <2>1. CASE c = b /\ d \in new
    BY <1>5, <1>6, <1>8, <2>1
  <2>2. CASE e = b /\ d \in new
    BY <1>5, <1>6, <1>8, <2>2
  <2>3. CASE d \in todo[c] /\ d \in todo[e]
    BY <2>3 DEF Once, Apart
  <2> QED BY <1>6, <2>1, <2>2, <2>3
<1>13. TickOnce'
  BY <1>2 DEF Once, TickOnce
<1> QED BY <1>9, <1>10, <1>11, <1>12, <1>13 DEF Once

\* A step that claims and prompts nothing.
LEMMA QuietOnce ==
  ASSUME Typed, Once, Next, prompts' = prompts,
         \A c \in Batches : todo'[c] \subseteq todo[c],
         \A c \in Batches : \A d \in todo'[c] :
            phase[c] = "record" /\ cur[c] = d => phase'[c] = "record" /\ cur'[c] = d
  PROVE  Once'
<1>1. Handled' \subseteq Handled
  BY DEF Handled
<1>0. undone \subseteq undone'
  BY JobsMove
<1>2. Unsent'
  BY <1>0 DEF Once, Unsent
<1>3. Apart'
  BY <1>0 DEF Once, Apart
<1>4. TickOnce'
  BY <1>0 DEF Once, TickOnce
<1> QED BY <1>1, <1>2, <1>3, <1>4, PastKept DEF Once

\* An outcome prompts a claimed tick that was not prompted before.
LEMMA OutcomeOnce ==
  ASSUME Typed, Once, Next, NEW b \in Batches, phase[b] \in {"start", "session", "unlisted", "admission"},
         DispatchFrame, NEW r \in {"ran", "skipped"}, NEW p \in BOOLEAN, Outcome(b, r, p)
  PROVE  Once'
<1>1. /\ cur[b] \in todo[b] /\ cur[b] \in Jobs \X Times /\ prompts \in [Jobs -> [Times -> 0..2]]
      /\ phase \in [Batches -> Phases] /\ todo \in [Batches -> SUBSET (Jobs \X Times)]
  BY DEF Typed, TypeOK, Shape, Dispatching
<1>2. UNCHANGED <<todo, cur, undone>>
  BY DEF DispatchFrame
<1>3. phase' = [phase EXCEPT ![b] = "record"]
  BY DEF Outcome, Goto
<1>4. CASE prompts' = prompts
  BY <1>1, <1>2, <1>3, <1>4, QuietOnce
<1>5. CASE prompts' # prompts
  <2> DEFINE j == cur[b][1]
             t == cur[b][2]
  <2>1. /\ j \in Jobs /\ t \in Times /\ cur[b] = <<j, t>> /\ prompts[j][t] \in 0..2
        /\ prompts' = [prompts EXCEPT ![j][t] = IF @ = 2 THEN 2 ELSE @ + 1]
        /\ j \notin undone => prompts[j][t] = 0
    <3>1. prompts' = [prompts EXCEPT ![j][t] = IF @ = 2 THEN 2 ELSE @ + 1]
      BY <1>5 DEF Outcome
    <3>2. j \notin undone => prompts[j][t] = 0
      BY <1>1 DEF Once, Unsent
    <3> QED BY <1>1, <3>1, <3>2
  <2>2. \A d \in Jobs \X Times :
          prompts'[d[1]][d[2]] = IF d # cur[b] THEN prompts[d[1]][d[2]]
                                 ELSE IF prompts[j][t] = 2 THEN 2 ELSE prompts[j][t] + 1
    <3> HIDE DEF j, t
    <3>1. \A i \in Jobs, u \in Times :
            prompts'[i][u] = IF ~(i = j /\ u = t) THEN prompts[i][u]
                             ELSE IF prompts[j][t] = 2 THEN 2 ELSE prompts[j][t] + 1
      BY <1>1, <2>1
    <3> QED BY <2>1, <3>1
  <2> HIDE DEF j, t
  <2>3. Handled' \subseteq Handled
    BY <1>1, <1>2, <2>2 DEF Handled
  <2>4. Unsent'
    <3> SUFFICES ASSUME NEW c \in Batches, NEW d \in todo[c], d[1] \notin undone
                 PROVE  prompts'[d[1]][d[2]] = 0 \/ (phase'[c] = "record" /\ cur[c] = d)
      BY <1>2 DEF Unsent
    <3>1. CASE d = cur[b]
      <4>1. c = b
        BY <1>1, <3>1 DEF Once, Apart
      <4> QED BY <1>1, <1>3, <3>1, <4>1
    <3>2. CASE d # cur[b]
      <4>1. prompts'[d[1]][d[2]] = prompts[d[1]][d[2]]
        BY <1>1, <2>2, <3>2
      <4>2. phase[c] = "record" => phase'[c] = "record"
        BY <1>1, <1>3
      <4> QED BY <4>1, <4>2 DEF Once, Unsent
    <3> QED BY <3>1, <3>2
  <2>5. Apart'
    BY <1>2 DEF Once, Apart
  <2>6. TickOnce'
    <3> SUFFICES ASSUME NEW i \in Jobs \ undone, NEW u \in Times PROVE prompts'[i][u] <= 1
      BY <1>2 DEF TickOnce
    <3>1. <<i, u>> \in Jobs \X Times /\ prompts[i][u] <= 1
      BY DEF Once, TickOnce
    <3>2. CASE <<i, u>> = cur[b]
      BY <2>1, <2>2, <3>1, <3>2
    <3>3. CASE <<i, u>> # cur[b]
      BY <2>2, <3>1, <3>3
    <3> QED BY <3>2, <3>3
  <2> QED BY <2>3, <2>4, <2>5, <2>6, PastKept DEF Once
<1> QED BY <1>4, <1>5

LEMMA OnceKept ==
  ASSUME Typed, Once, Next
  PROVE  Once'
<1>0. phase \in [Batches -> Phases] /\ cur \in [Batches -> (Jobs \X Times) \cup {None}]
  BY DEF Typed, TypeOK
<1>1. ASSUME NEW b \in Batches, Fire(b) \/ BatchStep(b) PROVE Once'
  <2>1. CASE Fire(b) \/ Enter(b) \/ Leave(b) \/ Rearm(b) \/ LockLane(b)
    <3>1. UNCHANGED <<todo, prompts, cur>>
      BY <2>1 DEF Fire, Enter, Leave, Rearm, LockLane
    <3>2. \A c \in Batches : phase[c] = "record" => phase'[c] = "record"
      BY <1>0, <2>1 DEF Fire, Enter, Leave, Rearm, LockLane, Goto
    <3> QED BY <3>1, <3>2, QuietOnce
  <2>2. CASE Claim(b) \/ ClaimFails(b)
    BY <2>2, ClaimOnce
  <2>3. CASE Pick(b)
    <3>1. UNCHANGED <<todo, prompts>>
      BY <2>3 DEF Pick
    <3>2. \A c \in Batches : phase[c] = "record" => phase'[c] = "record" /\ cur'[c] = cur[c]
      BY <1>0, <2>3 DEF Pick, Goto
    <3> QED BY <3>1, <3>2, QuietOnce
  <2>4. CASE Start(b) \/ SessionOpened(b) \/ Admit(b) \/ RunUnlisted(b)
    <3>1. DispatchFrame /\ phase[b] \in {"start", "session", "unlisted", "admission"}
      BY <2>4, DispatchSteps
    <3>2. CASE \E r \in {"ran", "skipped"}, p \in BOOLEAN : Outcome(b, r, p)
      BY <3>1, <3>2, OutcomeOnce
    <3>3. CASE ~\E r \in {"ran", "skipped"}, p \in BOOLEAN : Outcome(b, r, p)
      <4>1. prompts' = prompts /\ \E f : phase' = [phase EXCEPT ![b] = f]
        BY <2>4, <3>3, DispatchSteps
      <4>2. UNCHANGED <<todo, cur>>
        BY <3>1 DEF DispatchFrame
      <4>3. \A c \in Batches : phase[c] = "record" => phase'[c] = "record"
        BY <1>0, <3>1, <4>1
      <4> QED BY <4>1, <4>2, <4>3, QuietOnce
    <3> QED BY <3>2, <3>3
  <2>5. CASE Record(b) \/ RecordFails(b)
    <3>1. phase[b] = "record" /\ EndDispatch(b) /\ prompts' = prompts
      BY <2>5, RecordStore
    <3>2. todo' = [todo EXCEPT ![b] = todo[b] \ {cur[b]}]
          /\ \A c \in Batches : c # b => phase'[c] = phase[c] /\ cur'[c] = cur[c]
      BY <3>1, EndTyped
    <3>3. \A c \in Batches : todo'[c] = IF c = b THEN todo[b] \ {cur[b]} ELSE todo[c]
      BY <3>2 DEF Typed, TypeOK
    <3> QED BY <3>1, <3>2, <3>3, QuietOnce
  <2> QED BY <1>1, <2>1, <2>2, <2>3, <2>4, <2>5 DEF BatchStep
<1>2. CASE OpStep \/ (\E j \in Jobs, kind \in Kinds : EditRead(j, kind)) \/ (\E s \in Sessions : Register(s))
  <2>1. UNCHANGED <<todo, prompts, cur, phase>>
    BY <1>2 DEF OpStep, EditWrite, EditFails, EditPanics, RecoverRead, RecoverWrite, RecoverFails, Wake, EditRead, Register
  <2> QED BY <2>1, QuietOnce
<1>3. CASE Exit
  <2>1. prompts' = prompts /\ \A c \in Batches : todo'[c] = {}
    BY <1>3 DEF Exit
  <2> QED BY <2>1, QuietOnce
<1>4. CASE Stop \/ Restart \/ Tick
  <2>1. UNCHANGED <<todo, prompts, cur, phase>>
    BY <1>4 DEF Stop, Restart, Tick
  <2> QED BY <2>1, QuietOnce
<1> QED BY <1>1, <1>2, <1>3, <1>4 DEF Next

\* No tick of a job is prompted twice, whatever the crashes, the failing files and
\* the batches that overlap, unless an edit or a recovery, which no lock covers, has
\* written an older version of that very job over what the scheduler wrote, or
\* dropped the claim of its dispatch (claim_due, write_jobs, merge_fresh_jobs and
\* recover_interrupted of cron_jobs.rs).
THEOREM PromptedOnce == Spec => []TickOnce
<1> DEFINE IInv == Typed /\ Once
<1>1. Init => IInv
  <2> SUFFICES ASSUME Init PROVE Once
    BY InitTyped
  <2>1. Handled = {}
    BY DEF Init, Handled
  <2>2. Unsent /\ Apart /\ TickOnce
    BY DEF Init, Unsent, Apart, TickOnce
  <2> QED BY <2>1, <2>2 DEF Init, Once, Past, NoOp
<1>2. IInv /\ [Next]_vars => IInv'
  <2>1. CASE Next
    BY <2>1, NextTyped, OnceKept
  <2>2. CASE UNCHANGED vars
    <3>1. UNCHANGED <<now, jobs, op, phase, todo, cur, prompts, crossed, undone>>
      BY <2>2 DEF vars
    <3>2. Once => Once'
      BY <3>1 DEF Once, Past, Handled, Unsent, Apart, TickOnce
    <3> QED BY <2>2, <3>2, NextTyped
  <2> QED BY <2>1, <2>2
<1>3. IInv => TickOnce
  BY DEF Once
<1> QED BY <1>1, <1>2, <1>3, PTL DEF Spec

-----------------------------------------------------------------------------
(* One batch at a time works on a job.                                     *)

\* A batch holds the record of every tick it has claimed, unless an operation has
\* dropped it, and one tick of a job at most.
Owned ==
    \A b \in Batches : \A d \in todo[b] :
        /\ d[1] \notin undone => claims[d[1]] = b
        /\ \A e \in todo[b] : e[1] = d[1] => e = d

\* A step that claims nothing, and keeps the records of the ticks that stay claimed.
LEMMA QuietOwned ==
  ASSUME Owned, undone \subseteq undone',
         \A c \in Batches : todo'[c] \subseteq todo[c],
         \A c \in Batches : \A d \in todo'[c] :
            d[1] \notin undone' /\ claims[d[1]] = c => claims'[d[1]] = c
  PROVE  Owned'
BY DEF Owned

LEMMA ClaimOwned ==
  ASSUME Typed, Owned, NEW b \in Batches, Claim(b) \/ ClaimFails(b)
  PROVE  Owned'
<1> DEFINE new == {<<j, jobs[j].next>> : j \in {i \in Jobs : claims'[i] # claims[i]}}
<1>1. PICK due \in SUBSET Jobs :
        /\ ClaimFor(b, due)
        /\ todo' = [todo EXCEPT ![b] = new] \/ todo' = todo
  BY ClaimSteps
<1>2. undone' = undone
  BY DEF Claim, ClaimFails
<1>3. /\ todo \in [Batches -> SUBSET (Jobs \X Times)] /\ claims \in [Jobs -> Batches \cup {None}]
      /\ None \notin Batches
  BY JobsAssumption DEF Typed, TypeOK
<1>4. \A j \in Jobs : /\ claims[j] # None => claims'[j] = claims[j]
                      /\ claims'[j] # claims[j] => claims'[j] = b
  BY <1>1, <1>3 DEF ClaimFor
<1>5. ASSUME NEW d \in new
      PROVE  claims'[d[1]] = b /\ \A e \in new : e[1] = d[1] => e = d
  <2>1. PICK j \in Jobs : d = <<j, jobs[j].next>> /\ claims'[j] # claims[j]
    OBVIOUS
  <2> QED BY <1>4, <2>1
<1>6. ASSUME NEW c \in Batches PROVE todo'[c] = todo[c] \/ (c = b /\ todo'[c] = new)
  BY <1>1, <1>3
<1> HIDE DEF new
<1> SUFFICES ASSUME NEW c \in Batches, NEW d \in todo'[c]
             PROVE  /\ d[1] \notin undone => claims'[d[1]] = c
                    /\ \A e \in todo'[c] : e[1] = d[1] => e = d
  BY <1>2 DEF Owned
<1>7. CASE c = b /\ todo'[c] = new
  BY <1>5, <1>7
<1>8. CASE todo'[c] = todo[c]
  <2>1. d[1] \in Jobs /\ (d[1] \notin undone => claims[d[1]] = c)
    BY <1>3, <1>8 DEF Owned
  <2>2. d[1] \notin undone => claims'[d[1]] = c
    BY <1>3, <1>4, <2>1
  <2> QED BY <1>8, <2>2 DEF Owned
<1> QED BY <1>6, <1>7, <1>8

LEMMA OwnedKept ==
  ASSUME Typed, Owned, Next
  PROVE  Owned'
<1>0. /\ todo \in [Batches -> SUBSET (Jobs \X Times)] /\ claims \in [Jobs -> Batches \cup {None}]
      /\ undone \subseteq undone'
  BY JobsMove DEF Typed, TypeOK
<1>1. ASSUME NEW b \in Batches, Fire(b) \/ BatchStep(b) PROVE Owned'
  <2>1. CASE Claim(b) \/ ClaimFails(b)
    BY <2>1, ClaimOwned
  <2>2. CASE Record(b) \/ RecordFails(b)
    <3>1. /\ phase[b] = "record" /\ EndDispatch(b)
          /\ \/ claims' = claims
             \/ claims[cur[b][1]] = b /\ claims' = [claims EXCEPT ![cur[b][1]] = None]
      BY <2>2, RecordStore
    <3>2. /\ todo' = [todo EXCEPT ![b] = todo[b] \ {cur[b]}]
          /\ cur[b] \in todo[b] /\ cur[b] \in Jobs \X Times
      BY <3>1, EndTyped
    <3>3. \A c \in Batches : todo'[c] = IF c = b THEN todo[b] \ {cur[b]} ELSE todo[c]
      BY <1>0, <3>2
    <3>4. ASSUME NEW c \in Batches, NEW d \in todo'[c], claims[d[1]] = c PROVE claims'[d[1]] = c
      <4>1. d[1] \in Jobs
        BY <1>0, <3>3
      <4>2. claims' = claims \/ d[1] # cur[b][1]
        BY <3>1, <3>2, <3>3, <3>4 DEF Owned
      <4> QED BY <1>0, <3>1, <3>4, <4>1, <4>2
    <3> QED BY <1>0, <3>3, <3>4, QuietOwned
  <2>3. CASE ~(Claim(b) \/ ClaimFails(b) \/ Record(b) \/ RecordFails(b))
    <3>1. UNCHANGED <<claims, undone>>
      BY <1>1, <2>3, BatchKeepsJobs DEF BatchStep
    <3>2. todo' = todo
      BY <1>1, <2>3 DEF BatchStep, Fire, Enter, Leave, Rearm, Pick, LockLane, Start, SessionOpened, Admit,
         RunUnlisted
    <3> QED BY <3>1, <3>2 DEF Owned
  <2> QED BY <2>1, <2>2, <2>3
<1>2. CASE EditWrite \/ EditFails \/ RecoverWrite
  <2>1. todo' = todo /\ Undo /\ \A i \in Jobs : claims'[i] \in {claims[i], None}
    BY <1>2, WriteSteps DEF BatchFrame
  <2>2. ASSUME NEW c \in Batches, NEW d \in todo[c], d[1] \notin undone', claims[d[1]] = c
        PROVE  claims'[d[1]] = c
    <3>1. d[1] \in Jobs
      BY <1>0
    <3>2. claims'[d[1]] # claims[d[1]] => d[1] \in undone'
      BY <2>1, <2>2, <3>1 DEF Undo
    <3> QED BY <2>2, <3>2
  <2> QED BY <1>0, <2>1, <2>2, QuietOwned
<1>3. CASE \/ RecoverRead \/ EditPanics \/ RecoverFails \/ Wake \/ Stop \/ Restart \/ Tick
           \/ \E j \in Jobs, kind \in Kinds : EditRead(j, kind)
           \/ \E s \in Sessions : Register(s)
  <2>1. UNCHANGED <<todo, claims, undone>>
    BY <1>3 DEF RecoverRead, EditPanics, RecoverFails, Wake, Stop, Restart, Tick, EditRead, Register
  <2> QED BY <2>1 DEF Owned
<1>4. CASE Exit
  BY <1>4 DEF Exit, Owned
<1> QED BY <1>1, <1>2, <1>3, <1>4 DEF Next, OpStep

\* Batches that overlap never have the same job in hand, whatever the
\* crashes and the failing files, unless an edit or a recovery has dropped the claim
\* of that very job while its dispatch was under way (claim_due, queue_dispatch,
\* write_jobs and recover_interrupted of cron_jobs.rs).
THEOREM JobRunsAlone == Spec => []OneRunPerJob
<1> DEFINE IInv == Typed /\ Owned
<1>1. Init => IInv
  BY InitTyped DEF Init, Owned
<1>2. IInv /\ [Next]_vars => IInv'
  <2>1. CASE Next
    BY <2>1, NextTyped, OwnedKept
  <2>2. CASE UNCHANGED vars
    <3>1. UNCHANGED <<claims, undone, todo>>
      BY <2>2 DEF vars
    <3>2. Owned => Owned'
      BY <3>1 DEF Owned
    <3> QED BY <2>2, <3>2, NextTyped
  <2> QED BY <2>1, <2>2
<1>3. IInv => OneRunPerJob
  BY DEF Typed, Shape, Owned, OneRunPerJob
<1> QED BY <1>1, <1>2, <1>3, PTL DEF Spec

-----------------------------------------------------------------------------
(* No claim is left behind.                                                *)

\* The session's recovery may still clear its dispatch records.
Recovering(s) == op.phase \in {"read", "write"} /\ op.session = s

\* A batch will record the claim of the job.
Kept(j) == \E d \in todo[claims[j]] : d[1] = j

\* A visible claim is kept by its batch, or about to be recovered; a batch that
\* has not claimed yet finds no claims of its own.
Accounted ==
    /\ \A j \in Jobs : claims[j] # None /\ Home[j] \in registered => Kept(j) \/ Recovering(Home[j])
    /\ \A b \in Batches, j \in Jobs : phase[b] \in {"fired", "claiming"} => claims[j] # b

LEMMA ClaimAccounted ==
  ASSUME Typed, Accounted, NEW b \in Batches, Claim(b), ~StoreFails
  PROVE  Accounted'
<1> DEFINE new == {<<j, jobs[j].next>> : j \in {i \in Jobs : claims'[i] # claims[i]}}
<1>1. PICK due \in SUBSET Jobs : ClaimFor(b, due) /\ todo' = [todo EXCEPT ![b] = new]
  BY ClaimSteps
<1>2. UNCHANGED <<op, registered>> /\ phase[b] = "claiming" /\ phase' = [phase EXCEPT ![b] = "claimed"]
  BY DEF Claim, Goto
<1>3. /\ todo \in [Batches -> SUBSET (Jobs \X Times)] /\ claims \in [Jobs -> Batches \cup {None}]
      /\ phase \in [Batches -> Phases]
  BY DEF Typed, TypeOK
<1>4. \A j \in Jobs : claims'[j] = claims[j] \/ claims'[j] = b
  BY <1>1 DEF ClaimFor
<1>5. ASSUME NEW j \in Jobs, claims'[j] # None, Home[j] \in registered'
      PROVE  Kept(j)' \/ Recovering(Home[j])'
  <2>1. CASE claims'[j] = claims[j]
    <3>1. Kept(j) \/ Recovering(Home[j])
      BY <1>2, <1>5, <2>1 DEF Accounted
    <3>2. claims[j] \in Batches /\ claims[j] # b
      BY <1>2, <1>3, <1>5, <2>1 DEF Accounted
    <3>3. todo'[claims[j]] = todo[claims[j]]
      BY <1>1, <1>3, <3>2
    <3> QED BY <1>2, <2>1, <3>1, <3>3 DEF Kept, Recovering
  <2>2. CASE claims'[j] # claims[j]
    <3>1. claims'[j] = b /\ todo'[b] = new
      BY <1>1, <1>3, <1>4, <2>2
    <3>2. <<j, jobs[j].next>> \in new
      BY <2>2
    <3> QED BY <3>1, <3>2 DEF Kept
  <2> QED BY <2>1, <2>2
<1>6. ASSUME NEW c \in Batches, NEW j \in Jobs, phase'[c] \in {"fired", "claiming"}
      PROVE  claims'[j] # c
  <2>1. c # b /\ phase'[c] = phase[c]
    BY <1>2, <1>3, <1>6
  <2> QED BY <1>4, <1>6, <2>1 DEF Accounted
<1> QED BY <1>5, <1>6 DEF Accounted

LEMMA RecordAccounted ==
  ASSUME Typed, Accounted, NEW b \in Batches, Record(b), ~StoreFails
  PROVE  Accounted'
<1> DEFINE i == cur[b][1]
<1>1. /\ phase[b] = "record" /\ EndDispatch(b) /\ UNCHANGED <<registered, op>> /\ i \in Jobs
      /\ \/ claims' = claims /\ claims[i] # b
         \/ claims[i] = b /\ claims' = [claims EXCEPT ![i] = None]
  <2>1. phase[b] = "record" /\ EndDispatch(b) /\ UNCHANGED <<registered, op>> /\ cur[b] \in Jobs \X Times
    BY RecordStore
  <2>2. \/ claims' = claims /\ claims[i] # b
        \/ claims[i] = b /\ claims' = [claims EXCEPT ![i] = None]
    BY DEF Record
  <2> QED BY <2>1, <2>2
<1>2. /\ todo' = [todo EXCEPT ![b] = todo[b] \ {cur[b]}]
      /\ \A c \in Batches : c # b => phase'[c] = phase[c]
      /\ phase'[b] \in {"idle", "next"}
  BY <1>1, EndTyped
<1>3. /\ todo \in [Batches -> SUBSET (Jobs \X Times)] /\ claims \in [Jobs -> Batches \cup {None}]
  BY DEF Typed, TypeOK
<1>4. \A j \in Jobs : claims'[j] = None \/ claims'[j] = claims[j]
  BY <1>1, <1>3
<1>5. ASSUME NEW j \in Jobs, claims'[j] # None, Home[j] \in registered'
      PROVE  Kept(j)' \/ Recovering(Home[j])'
  <2>1. claims'[j] = claims[j] /\ claims[j] \in Batches
    BY <1>3, <1>4, <1>5
  <2>2. CASE Recovering(Home[j])
    BY <1>1, <2>2 DEF Recovering
  <2>3. CASE Kept(j)
    <3>1. PICK d \in todo[claims[j]] : d[1] = j
      BY <2>3 DEF Kept
    <3>2. claims[j] = b => j # i
      BY <1>1, <1>3, <1>5, <2>1
    <3>3. d \in todo'[claims[j]]
      BY <1>2, <1>3, <2>1, <3>1, <3>2
    <3> QED BY <2>1, <3>1, <3>3 DEF Kept
  <2> QED BY <1>1, <1>5, <2>1, <2>2, <2>3 DEF Accounted
<1>6. ASSUME NEW c \in Batches, NEW j \in Jobs, phase'[c] \in {"fired", "claiming"}
      PROVE  claims'[j] # c
  <2>1. c # None
    BY JobsAssumption
  <2>2. c # b
    BY <1>2, <1>6
  <2>3. phase'[c] = phase[c]
    BY <1>2, <2>2
  <2> QED BY <1>4, <1>6, <2>1, <2>3 DEF Accounted
<1> QED BY <1>5, <1>6 DEF Accounted

\* A step that leaves the files, the claimed ticks and the operation alone.
LEMMA QuietAccounted ==
  ASSUME Accounted, UNCHANGED <<claims, todo, registered, op>>,
         \A c \in Batches, j \in Jobs : phase'[c] \in {"fired", "claiming"} => claims[j] # c
  PROVE  Accounted'
BY DEF Accounted, Kept, Recovering

LEMMA AccountedKept ==
  ASSUME Typed, Accounted, Next, ~StoreFails
  PROVE  Accounted'
<1>0. /\ phase \in [Batches -> Phases] /\ op \in OpType /\ claims \in [Jobs -> Batches \cup {None}]
      /\ Home \in [Jobs -> Sessions] /\ None \notin Sessions
  BY JobsAssumption DEF Typed, TypeOK, Shape
<1>1. ASSUME NEW b \in Batches, Fire(b) \/ BatchStep(b) PROVE Accounted'
  <2>1. CASE Claim(b) \/ ClaimFails(b)
    BY <2>1, ClaimAccounted DEF ClaimFails
  <2>2. CASE Record(b) \/ RecordFails(b)
    BY <2>2, RecordAccounted DEF RecordFails
  <2>3. CASE Fire(b) \/ Enter(b) \/ Leave(b) \/ Rearm(b) \/ Pick(b) \/ LockLane(b)
               \/ Start(b) \/ SessionOpened(b) \/ Admit(b) \/ RunUnlisted(b)
    <3>1. UNCHANGED <<claims, registered, op>>
      BY <2>3, BatchKeepsJobs
    <3>2. todo' = todo
      BY <2>3 DEF Fire, Enter, Leave, Rearm, Pick, LockLane, Start, SessionOpened, Admit, RunUnlisted
    <3>3. ASSUME NEW c \in Batches, NEW j \in Jobs, phase'[c] \in {"fired", "claiming"}
          PROVE  claims[j] # c
      <4>1. CASE Fire(b)
        BY <1>0, <3>3, <4>1 DEF Fire, Goto, Accounted
      <4>2. CASE Enter(b)
        BY <1>0, <3>3, <4>2 DEF Enter, Goto, Accounted
      <4>3. CASE Leave(b) \/ Rearm(b)
        BY <1>0, <3>3, <4>3 DEF Leave, Rearm, Goto, Accounted
      <4>4. CASE Pick(b) \/ LockLane(b)
        BY <1>0, <3>3, <4>4 DEF Pick, LockLane, Goto, Accounted
      <4>5. CASE Start(b) \/ SessionOpened(b) \/ Admit(b) \/ RunUnlisted(b)
        <5>1. \E f \in {"session", "unlisted", "admission", "record"} : phase' = [phase EXCEPT ![b] = f]
          BY <4>5, DispatchSteps DEF Outcome, Goto
        <5> QED BY <1>0, <3>3, <5>1 DEF Accounted
      <4> QED BY <2>3, <4>1, <4>2, <4>3, <4>4, <4>5
    <3> QED BY <3>1, <3>2, <3>3, QuietAccounted
  <2> QED BY <1>1, <2>1, <2>2, <2>3 DEF BatchStep
<1>2. CASE \E j \in Jobs, kind \in Kinds : EditRead(j, kind)
  <2>1. UNCHANGED <<todo, claims, registered, phase>> /\ op.phase = "none"
    BY <1>2 DEF EditRead
  <2> QED BY <2>1 DEF Accounted, Kept, Recovering
<1>3. CASE \E s \in Sessions : Register(s)
  <2>1. PICK s \in Sessions : Register(s)
    BY <1>3
  <2>2. /\ UNCHANGED <<todo, claims, phase>> /\ registered' = registered \cup {s} /\ op.phase = "none"
        /\ op'.phase = "read" /\ op'.session = s
    BY <2>1 DEF Register, NoOp
  <2> QED BY <2>2 DEF Accounted, Kept, Recovering
<1>4. CASE OpStep
  <2>1. CASE EditWrite \/ EditFails \/ EditPanics
    <3>1. UNCHANGED <<todo, registered, phase>> /\ op.session = None /\ EditWrite
      BY <2>1 DEF EditWrite, EditFails, EditPanics
    <3>2. claims' = claims
      <4>1. WriteJobs(registered, registered)
        BY <3>1 DEF EditWrite, Readable
      <4>2. claims' = [i \in Jobs |-> claims[i]]
        BY <4>1 DEF WriteJobs, Replaced
      <4> QED BY <1>0, <4>2
    <3> QED BY <1>0, <3>1, <3>2 DEF Accounted, Kept, Recovering
  <2>2. CASE RecoverRead
    <3>1. /\ UNCHANGED <<todo, claims, registered, phase>> /\ op'.session = op.session
          /\ op'.phase = IF \E j \in Jobs : Home[j] = op.session /\ claims[j] # None
                         THEN "write" ELSE "wake"
      BY <1>0, <2>2 DEF RecoverRead, OpType
    <3>2. ASSUME NEW j \in Jobs, claims'[j] # None, Home[j] \in registered'
          PROVE  Kept(j)' \/ Recovering(Home[j])'
      <4>1. Kept(j) \/ Home[j] = op.session
        BY <3>1, <3>2 DEF Accounted, Recovering
      <4>2. CASE Kept(j)
        BY <3>1, <4>2 DEF Kept
      <4>3. CASE Home[j] = op.session
        BY <3>1, <3>2, <4>3 DEF Recovering
      <4> QED BY <4>1, <4>2, <4>3
    <3> QED BY <3>1, <3>2 DEF Accounted
  <2>3. CASE RecoverWrite
    <3>1. /\ UNCHANGED <<todo, registered, phase>>
          /\ claims' = [j \in Jobs |-> IF Home[j] = op.session THEN None ELSE claims[j]]
      BY <2>3 DEF RecoverWrite
    <3>2. \A j \in Jobs : claims'[j] = None \/ (claims'[j] = claims[j] /\ Home[j] # op.session)
      BY <3>1
    <3>3. ASSUME NEW j \in Jobs, claims'[j] # None, Home[j] \in registered' PROVE Kept(j)'
      <4>1. claims'[j] = claims[j] /\ Home[j] # op.session
        BY <3>2, <3>3
      <4>2. Kept(j)
        BY <3>1, <3>3, <4>1 DEF Accounted, Recovering
      <4> QED BY <3>1, <4>1, <4>2 DEF Kept
    <3>4. \A c \in Batches : c # None
      BY JobsAssumption
    <3> QED BY <3>1, <3>2, <3>3, <3>4 DEF Accounted
  <2>4. CASE Wake
    <3>1. UNCHANGED <<todo, claims, registered, phase>> /\ op.phase = "wake"
      BY <2>4 DEF Wake
    <3> QED BY <3>1 DEF Accounted, Kept, Recovering
  <2> QED BY <1>4, <2>1, <2>2, <2>3, <2>4 DEF OpStep, RecoverFails
<1>5. CASE Exit
  BY <1>5 DEF Exit, Accounted
<1>6. CASE Stop \/ Restart \/ Tick
  <2>1. UNCHANGED <<todo, claims, registered, op, phase>>
    BY <1>6 DEF Stop, Restart, Tick
  <2> QED BY <2>1, QuietAccounted DEF Accounted
<1> QED BY <1>1, <1>2, <1>3, <1>4, <1>5, <1>6 DEF Next

\* A claim that the scheduler can see is one that a batch will still record, or a
\* recovery clear, as long as no file operation fails; crashes and cut edits are no
\* exception (claim_due, record_dispatch_result and recover_interrupted of
\* cron_jobs.rs).
THEOREM ClaimsAccounted ==
  ASSUME ~StoreFails
  PROVE  Spec => []NoOrphanClaim
<1> DEFINE IInv == Typed /\ Accounted
<1>1. Init => IInv
  BY InitTyped DEF Init, Accounted
<1>2. IInv /\ [Next]_vars => IInv'
  <2>1. CASE Next
    BY <2>1, NextTyped, AccountedKept
  <2>2. CASE UNCHANGED vars
    <3>1. UNCHANGED <<claims, registered, op, todo, phase>>
      BY <2>2 DEF vars
    <3>2. Accounted => Accounted'
      BY <3>1 DEF Accounted, Kept, Recovering
    <3> QED BY <2>2, <3>2, NextTyped
  <2> QED BY <2>1, <2>2
<1>3. IInv => NoOrphanClaim
  BY DEF Accounted, Kept, Recovering, NoOrphanClaim, Visible
<1> QED BY <1>1, <1>2, <1>3, PTL DEF Spec
=============================================================================
