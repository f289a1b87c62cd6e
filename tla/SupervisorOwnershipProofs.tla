---------------------- MODULE SupervisorOwnershipProofs ----------------------
(***************************************************************************)
(* One owner of the socket and an admission that keeps new ones out, for   *)
(* any number of supervisors, updaters, inodes and crashes.                *)
(*                                                                         *)
(* The argument: as long as identities are not confused, a process that    *)
(* finds its own inode at the guard path is the keeper of the guard        *)
(* (Known), so only the keeper can pass the second assertion.  A keeper    *)
(* that has scanned the registry knows that nobody is an owner (Vacant)    *)
(* and that no admission is relied upon (NoAdmission), because whoever     *)
(* would change that would have to be the keeper as well.                  *)
(***************************************************************************)
EXTENDS SupervisorOwnership, GuardDirProofs

\* Tasks, their steps and the status their callers have.
Consistent ==
    \A p \in Procs :
        /\ step[p] = "none" <=> task[p] = "none"
        /\ task[p] = "own" => p \in Supervisors /\ status[p] = "idle"
        /\ task[p] = "disown" => p \in Supervisors /\ status[p] = "over"
        /\ task[p] = "admit" => p \in Updaters /\ status[p] = "idle"
        /\ task[p] = "renew" => p \in Updaters /\ status[p] = "holder"
        /\ task[p] = "dismiss" => p \in Updaters /\ status[p] = "over"
        /\ step[p] \in {"scan", "publish"} => task[p] = "own"
        /\ step[p] = "drop" => task[p] = "disown"
        /\ step[p] \in {"look", "purge"} => task[p] \in {"own", "admit"}
        /\ step[p] = "write" => task[p] = "admit"
        /\ step[p] \in {"read", "rewrite"} => task[p] = "renew"
        /\ step[p] \in {"clear", "unlink"} => task[p] = "dismiss"
        /\ step[p] \notin {"none", "assert"} => section[p] = "in"

\* A process behind the guard knows its guard, and finds it only if it is there.
Known ==
    confused \/ \A p \in Procs :
        section[p] = "in" => mine[p] # None /\ (guard = mine[p] => keeper = p)

\* An owner, and one that is about to be, has its record in the registry.
Registered ==
    \A p \in Supervisors :
        status[p] = "holder" \/ (task[p] = "own" /\ step[p] = "done") => p \in registry

\* A keeper that has scanned the registry knows that there is no owner.
Vacant ==
    confused \/ \A p \in Supervisors :
        task[p] = "own" /\ step[p] \in {"publish", "done"} /\ keeper = p
            => \A q \in Supervisors : status[q] # "holder"

\* A keeper that has looked for an admission knows that none is relied upon.
NoAdmission ==
    confused \/ \A p \in Supervisors :
        task[p] = "own" /\ step[p] \in {"scan", "publish", "done"} /\ keeper = p
            => \A s \in Updaters :
                 status[s] = "holder" /\ admission = s /\ fresh => section[s] = "in" /\ step[s] = "done"

\* What was read of the admission still holds when it is overwritten or removed.
ReadStands ==
    evicted \/ \A p \in Procs :
        /\ step[p] \in {"purge", "write"} => ~AdmissionActive
        /\ step[p] \in {"rewrite", "unlink"} => admission = p

IInv ==
    /\ TypeOK
    /\ GuardKept
    /\ Consistent
    /\ Known
    /\ Registered
    /\ Vacant
    /\ NoAdmission
    /\ ReadStands
    /\ SingleOwner

LEMMA Initially == Init => IInv
<1> SUFFICES ASSUME Init PROVE IInv
  OBVIOUS
<1>1. GuardTypeOK /\ GuardKept
  BY GuardInitially DEF Init
<1>a. 0 \in 0 .. MaxCrashes /\ registry \subseteq Procs \cup {Ghost}
  BY RolesAssumption DEF Init
<1>2. TypeOK
  BY <1>1, <1>a DEF Init, TypeOK, Tasks, Steps, Statuses
<1>3. Consistent /\ Known /\ Registered /\ Vacant
  BY RolesAssumption DEF Init, GuardInit, Consistent, Known, Registered, Vacant
<1>4. NoAdmission /\ ReadStands /\ SingleOwner
  BY RolesAssumption DEF Init, GuardInit, NoAdmission, ReadStands, SingleOwner, AdmissionActive
<1> QED
  BY <1>1, <1>2, <1>3, <1>4 DEF IInv

\* Only the keeper is not stolen from.
LEMMA NotStolen ==
    ASSUME IInv, ~confused, NEW p \in Procs, section[p] = "in", ~Stolen(p)
    PROVE  keeper = p
BY DEF IInv, Known, Stolen

LEMMA Alone ==
    ASSUME IInv, ~evicted, NEW p \in Procs, NEW q \in Procs, Inside(p), Inside(q)
    PROVE  p = q
BY NoneAssumption DEF IInv, GuardKept

LEMMA CallStep == ASSUME IInv, NEW p \in Procs, Own(p) \/ Disown(p) \/ Admit(p) \/ Renew(p) \/ Dismiss(p) PROVE IInv'
<1> USE RolesAssumption, NoneAssumption
<1>1. GuardTypeOK' /\ GuardKept'
  BY DEF Own, Disown, Admit, Renew, Dismiss, Call, MoveTo, IInv, TypeOK, GuardTypeOK, GuardKept, Inside, Sections, guardVars
<1>2. TypeOK'
  BY <1>1 DEF Own, Disown, Admit, Renew, Dismiss, Call, Become, Goto, MoveTo, IInv, TypeOK, Tasks, Steps, Statuses, guardVars, ownVars
<1>3. Consistent'
  BY DEF Own, Disown, Admit, Renew, Dismiss, Call, Become, Goto, MoveTo, IInv, TypeOK, GuardTypeOK, Consistent, guardVars, ownVars
<1>4. Known'
  BY DEF Own, Disown, Admit, Renew, Dismiss, Call, Become, Goto, MoveTo, IInv, TypeOK, GuardTypeOK, GuardKept, Known, guardVars, ownVars
<1>5. Registered'
  BY DEF Own, Disown, Admit, Renew, Dismiss, Call, Become, Goto, MoveTo, IInv, TypeOK, Registered, Consistent, guardVars, ownVars
<1>6. Vacant' /\ SingleOwner'
  BY DEF Own, Disown, Admit, Renew, Dismiss, Call, Become, Goto, MoveTo, IInv, TypeOK, GuardTypeOK, Vacant, SingleOwner, Registered, Consistent, guardVars, ownVars
<1>7. NoAdmission'
  BY DEF Own, Disown, Admit, Renew, Dismiss, Call, Become, Goto, MoveTo, IInv, TypeOK, GuardTypeOK, NoAdmission, Consistent, AdmissionActive, guardVars, ownVars
<1>8. ReadStands'
  BY DEF Own, Disown, Admit, Renew, Dismiss, Call, Become, Goto, MoveTo, IInv, TypeOK, GuardTypeOK, ReadStands, Consistent, AdmissionActive, guardVars, ownVars
<1> QED
  BY <1>1, <1>2, <1>3, <1>4, <1>5, <1>6, <1>7, <1>8 DEF IInv

LEMMA AbandonStep == ASSUME IInv, NEW p \in Procs, Abandon(p) PROVE IInv'
<1> USE RolesAssumption, NoneAssumption
<1>1. GuardTypeOK' /\ GuardKept'
  BY WaitingKeeps DEF Abandon, IInv, TypeOK
<1>2. TypeOK'
  BY <1>1 DEF Abandon, GiveUp, Fail, Become, Goto, MoveTo, IInv, TypeOK, Tasks, Steps, Statuses, guardVars, ownVars
<1>3. Consistent'
  BY DEF Abandon, GiveUp, Fail, Become, Goto, MoveTo, IInv, TypeOK, GuardTypeOK, Consistent, guardVars, ownVars
<1>4. Known'
  BY DEF Abandon, GiveUp, Fail, Become, Goto, MoveTo, IInv, TypeOK, GuardTypeOK, GuardKept, Known, guardVars, ownVars
<1>5. Registered'
  BY DEF Abandon, GiveUp, Fail, Become, Goto, MoveTo, IInv, TypeOK, Registered, Consistent, guardVars, ownVars
<1>6. Vacant' /\ SingleOwner'
  BY DEF Abandon, GiveUp, Fail, Become, Goto, MoveTo, IInv, TypeOK, GuardTypeOK, Vacant, SingleOwner, Registered, Consistent, guardVars, ownVars
<1>7. NoAdmission'
  BY DEF Abandon, GiveUp, Fail, Become, Goto, MoveTo, IInv, TypeOK, GuardTypeOK, NoAdmission, Consistent, AdmissionActive, guardVars, ownVars
<1>8. ReadStands'
  BY DEF Abandon, GiveUp, Fail, Become, Goto, MoveTo, IInv, TypeOK, GuardTypeOK, ReadStands, Consistent, AdmissionActive, guardVars, ownVars
<1> QED
  BY <1>1, <1>2, <1>3, <1>4, <1>5, <1>6, <1>7, <1>8 DEF IInv

LEMMA EnterStep == ASSUME IInv, NEW p \in Procs, EnterGuard(p) PROVE IInv'
<1> USE RolesAssumption, NoneAssumption
<1>1. GuardTypeOK' /\ GuardKept'
  BY MakeGuardKeeps, IdentifyKeeps DEF EnterGuard, Make, IInv, TypeOK
<1>2. TypeOK'
  BY <1>1 DEF EnterGuard, Make, MakeGuard, Identify, MoveTo, IInv, TypeOK, Tasks, Steps, Statuses, guardVars, ownVars
<1>3. Consistent'
  BY DEF EnterGuard, Make, MakeGuard, Identify, MoveTo, IInv, TypeOK, GuardTypeOK, Consistent, guardVars, ownVars
<1>4. Known'
  BY DEF EnterGuard, Make, MakeGuard, Identify, MoveTo, IInv, TypeOK, GuardTypeOK, GuardKept, Known, guardVars, ownVars
<1>5. Registered'
  BY DEF EnterGuard, Make, MakeGuard, Identify, MoveTo, IInv, TypeOK, Registered, Consistent, guardVars, ownVars
<1>6. Vacant' /\ SingleOwner'
  BY DEF EnterGuard, Make, MakeGuard, Identify, MoveTo, IInv, TypeOK, GuardTypeOK, Vacant, SingleOwner, Registered, Consistent, guardVars, ownVars
<1>7. NoAdmission'
  BY DEF EnterGuard, Make, MakeGuard, Identify, MoveTo, IInv, TypeOK, GuardTypeOK, NoAdmission, Consistent, AdmissionActive, guardVars, ownVars
<1>8. ReadStands'
  BY DEF EnterGuard, Make, MakeGuard, Identify, MoveTo, IInv, TypeOK, GuardTypeOK, ReadStands, Consistent, AdmissionActive, guardVars, ownVars
<1> QED
  BY <1>1, <1>2, <1>3, <1>4, <1>5, <1>6, <1>7, <1>8 DEF IInv

LEMMA EvictStep == ASSUME IInv, NEW p \in Procs, EvictGuard(p) PROVE IInv'
<1> USE RolesAssumption, NoneAssumption
<1>1. GuardTypeOK' /\ GuardKept'
  BY WaitingKeeps, RemoveStaleKeeps DEF EvictGuard, IInv, TypeOK
<1>2. TypeOK'
  BY <1>1 DEF EvictGuard, JudgeStale, RemoveStale, Unlink, MoveTo, IInv, TypeOK, Tasks, Steps, Statuses, guardVars, ownVars
<1>3. Consistent'
  BY DEF EvictGuard, JudgeStale, RemoveStale, Unlink, MoveTo, IInv, TypeOK, GuardTypeOK, Consistent, guardVars, ownVars
<1>4. Known'
  BY DEF EvictGuard, JudgeStale, RemoveStale, Unlink, MoveTo, IInv, TypeOK, GuardTypeOK, GuardKept, Known, guardVars, ownVars
<1>5. Registered'
  BY DEF EvictGuard, JudgeStale, RemoveStale, Unlink, MoveTo, IInv, TypeOK, Registered, Consistent, guardVars, ownVars
<1>6. Vacant' /\ SingleOwner'
  BY DEF EvictGuard, JudgeStale, RemoveStale, Unlink, MoveTo, IInv, TypeOK, GuardTypeOK, Vacant, SingleOwner, Registered, Consistent, guardVars, ownVars
<1>7. NoAdmission'
  BY DEF EvictGuard, JudgeStale, RemoveStale, Unlink, MoveTo, IInv, TypeOK, GuardTypeOK, NoAdmission, Consistent, AdmissionActive, guardVars, ownVars
<1>8. ReadStands'
  BY DEF EvictGuard, JudgeStale, RemoveStale, Unlink, MoveTo, IInv, TypeOK, GuardTypeOK, ReadStands, Consistent, AdmissionActive, guardVars, ownVars
<1> QED
  BY <1>1, <1>2, <1>3, <1>4, <1>5, <1>6, <1>7, <1>8 DEF IInv

LEMMA AssertStep == ASSUME IInv, NEW p \in Procs, AssertHeld(p) PROVE IInv'
<1>0. /\ FirstStep(task[p]) \in {"look", "drop", "read", "clear"}
      /\ FirstStep(task[p]) = "look" => task[p] \in {"own", "admit"}
      /\ FirstStep(task[p]) = "drop" => task[p] = "disown"
      /\ FirstStep(task[p]) = "read" => task[p] = "renew"
      /\ FirstStep(task[p]) = "clear" => task[p] = "dismiss"
  <2>1. task[p] \in Tasks \ {"none"}
    BY DEF IInv, TypeOK, Consistent, AssertHeld, At
  <2> QED
    BY <2>1 DEF Tasks, FirstStep
<1> USE RolesAssumption, NoneAssumption
<1>1. GuardTypeOK' /\ GuardKept'
  BY DEF AssertHeld, At, MoveTo, IInv, TypeOK, GuardTypeOK, GuardKept, Inside, Sections, guardVars
<1>2. TypeOK'
  BY <1>0, <1>1 DEF AssertHeld, At, Fail, Become, Goto, MoveTo, IInv, TypeOK, Tasks, Steps, Statuses, guardVars, ownVars
<1>3. Consistent'
  BY <1>0 DEF AssertHeld, At, Fail, Become, Goto, MoveTo, IInv, TypeOK, GuardTypeOK, Consistent, guardVars, ownVars
<1>4. Known'
  BY <1>0 DEF AssertHeld, At, Fail, Become, Goto, MoveTo, IInv, TypeOK, GuardTypeOK, GuardKept, Known, guardVars, ownVars
<1>5. Registered'
  BY <1>0 DEF AssertHeld, At, Fail, Become, Goto, MoveTo, IInv, TypeOK, Registered, Consistent, guardVars, ownVars
<1>6. Vacant' /\ SingleOwner'
  BY <1>0 DEF AssertHeld, At, Fail, Become, Goto, MoveTo, IInv, TypeOK, GuardTypeOK, Vacant, SingleOwner, Registered, Consistent, guardVars, ownVars
<1>7. NoAdmission'
  BY <1>0 DEF AssertHeld, At, Fail, Become, Goto, MoveTo, IInv, TypeOK, GuardTypeOK, NoAdmission, Consistent, AdmissionActive, guardVars, ownVars
<1>8. ReadStands'
  BY <1>0 DEF AssertHeld, At, Fail, Become, Goto, MoveTo, IInv, TypeOK, GuardTypeOK, ReadStands, Consistent, AdmissionActive, guardVars, ownVars
<1> QED
  BY <1>1, <1>2, <1>3, <1>4, <1>5, <1>6, <1>7, <1>8 DEF IInv

LEMMA LookStep == ASSUME IInv, NEW p \in Procs, Look(p) PROVE IInv'
<1> USE RolesAssumption, NoneAssumption
<1>1. GuardTypeOK' /\ GuardKept'
  BY DEF Look, IInv, TypeOK, GuardTypeOK, GuardKept, Inside, Sections, guardVars
<1>2. TypeOK'
  BY <1>1 DEF Look, At, AfterLook, Goto, IInv, TypeOK, Tasks, Steps, Statuses, guardVars, ownVars
<1>3. Consistent'
  BY DEF Look, At, AfterLook, Goto, IInv, TypeOK, GuardTypeOK, Consistent, guardVars, ownVars
<1>4. Known'
  BY DEF Look, At, AfterLook, Goto, IInv, TypeOK, GuardTypeOK, GuardKept, Known, guardVars, ownVars
<1>5. Registered'
  BY DEF Look, At, AfterLook, Goto, IInv, TypeOK, Registered, Consistent, guardVars, ownVars
<1>6. Vacant' /\ SingleOwner'
  BY DEF Look, At, AfterLook, Goto, IInv, TypeOK, GuardTypeOK, Vacant, SingleOwner, Registered, Consistent, guardVars, ownVars
<1>7. NoAdmission'
  BY DEF Look, At, AfterLook, Goto, IInv, TypeOK, GuardTypeOK, NoAdmission, Consistent, AdmissionActive, guardVars, ownVars
<1>8. ReadStands'
  BY DEF Look, At, AfterLook, Goto, IInv, TypeOK, GuardTypeOK, ReadStands, Consistent, AdmissionActive, guardVars, ownVars
<1> QED
  BY <1>1, <1>2, <1>3, <1>4, <1>5, <1>6, <1>7, <1>8 DEF IInv

LEMMA PurgeStep == ASSUME IInv, NEW p \in Procs, Purge(p) PROVE IInv'
<1> USE RolesAssumption, NoneAssumption
<1>1. GuardTypeOK' /\ GuardKept'
  BY DEF Purge, IInv, TypeOK, GuardTypeOK, GuardKept, Inside, Sections, guardVars
<1>2. TypeOK'
  BY <1>1 DEF Purge, At, AfterLook, Goto, IInv, TypeOK, Tasks, Steps, Statuses, guardVars, ownVars
<1>3. Consistent'
  BY DEF Purge, At, AfterLook, Goto, IInv, TypeOK, GuardTypeOK, Consistent, guardVars, ownVars
<1>4. Known'
  BY DEF Purge, At, AfterLook, Goto, IInv, TypeOK, GuardTypeOK, GuardKept, Known, guardVars, ownVars
<1>5. Registered'
  BY DEF Purge, At, AfterLook, Goto, IInv, TypeOK, Registered, Consistent, guardVars, ownVars
<1>6. Vacant' /\ SingleOwner'
  BY DEF Purge, At, AfterLook, Goto, IInv, TypeOK, GuardTypeOK, Vacant, SingleOwner, Registered, Consistent, guardVars, ownVars
<1>7. NoAdmission'
  BY DEF Purge, At, AfterLook, Goto, IInv, TypeOK, GuardTypeOK, NoAdmission, Consistent, AdmissionActive, guardVars, ownVars
<1>8. ReadStands'
  <2> SUFFICES ASSUME ~evicted PROVE ReadStands'
    BY DEF Purge, At, AfterLook, Goto, ReadStands, guardVars, ownVars
  <2>1. \A q \in Procs : section[q] = "in" => q = p
    BY Alone DEF Purge, At, AfterLook, Goto, Inside
  <2> QED
    BY <2>1 DEF Purge, At, AfterLook, Goto, IInv, TypeOK, ReadStands, Consistent, AdmissionActive, guardVars, ownVars
<1> QED
  BY <1>1, <1>2, <1>3, <1>4, <1>5, <1>6, <1>7, <1>8 DEF IInv

LEMMA ScanStep == ASSUME IInv, NEW p \in Procs, Scan(p) PROVE IInv'
<1> USE RolesAssumption, NoneAssumption
<1>1. GuardTypeOK' /\ GuardKept'
  BY DEF Scan, IInv, TypeOK, GuardTypeOK, GuardKept, Inside, Sections, guardVars
<1>2. TypeOK'
  BY <1>1 DEF Scan, At, Goto, IInv, TypeOK, Tasks, Steps, Statuses, guardVars, ownVars
<1>3. Consistent'
  BY DEF Scan, At, Goto, IInv, TypeOK, GuardTypeOK, Consistent, guardVars, ownVars
<1>4. Known'
  BY DEF Scan, At, Goto, IInv, TypeOK, GuardTypeOK, GuardKept, Known, guardVars, ownVars
<1>5. Registered'
  BY DEF Scan, At, Goto, IInv, TypeOK, Registered, Consistent, guardVars, ownVars
<1>6. Vacant' /\ SingleOwner'
  BY DEF Scan, At, Goto, IInv, TypeOK, GuardTypeOK, Vacant, SingleOwner, Registered, Consistent, guardVars, ownVars
<1>7. NoAdmission'
  BY DEF Scan, At, Goto, IInv, TypeOK, GuardTypeOK, NoAdmission, Consistent, AdmissionActive, guardVars, ownVars
<1>8. ReadStands'
  BY DEF Scan, At, Goto, IInv, TypeOK, GuardTypeOK, ReadStands, Consistent, AdmissionActive, guardVars, ownVars
<1> QED
  BY <1>1, <1>2, <1>3, <1>4, <1>5, <1>6, <1>7, <1>8 DEF IInv

LEMMA PublishStep == ASSUME IInv, NEW p \in Procs, Publish(p) PROVE IInv'
<1> USE RolesAssumption, NoneAssumption
<1>1. GuardTypeOK' /\ GuardKept'
  BY DEF Publish, IInv, TypeOK, GuardTypeOK, GuardKept, Inside, Sections, guardVars
<1>2. TypeOK'
  BY <1>1 DEF Publish, At, Goto, IInv, TypeOK, Tasks, Steps, Statuses, guardVars, ownVars
<1>3. Consistent'
  BY DEF Publish, At, Goto, IInv, TypeOK, GuardTypeOK, Consistent, guardVars, ownVars
<1>4. Known'
  BY DEF Publish, At, Goto, IInv, TypeOK, GuardTypeOK, GuardKept, Known, guardVars, ownVars
<1>5. Registered'
  BY DEF Publish, At, Goto, IInv, TypeOK, Registered, Consistent, guardVars, ownVars
<1>6. Vacant' /\ SingleOwner'
  BY DEF Publish, At, Goto, IInv, TypeOK, GuardTypeOK, Vacant, SingleOwner, Registered, Consistent, guardVars, ownVars
<1>7. NoAdmission'
  BY DEF Publish, At, Goto, IInv, TypeOK, GuardTypeOK, NoAdmission, Consistent, AdmissionActive, guardVars, ownVars
<1>8. ReadStands'
  BY DEF Publish, At, Goto, IInv, TypeOK, GuardTypeOK, ReadStands, Consistent, AdmissionActive, guardVars, ownVars
<1> QED
  BY <1>1, <1>2, <1>3, <1>4, <1>5, <1>6, <1>7, <1>8 DEF IInv

LEMMA DropStep == ASSUME IInv, NEW p \in Procs, Drop(p) PROVE IInv'
<1> USE RolesAssumption, NoneAssumption
<1>1. GuardTypeOK' /\ GuardKept'
  BY DEF Drop, IInv, TypeOK, GuardTypeOK, GuardKept, Inside, Sections, guardVars
<1>2. TypeOK'
  BY <1>1 DEF Drop, At, Goto, IInv, TypeOK, Tasks, Steps, Statuses, guardVars, ownVars
<1>3. Consistent'
  BY DEF Drop, At, Goto, IInv, TypeOK, GuardTypeOK, Consistent, guardVars, ownVars
<1>4. Known'
  BY DEF Drop, At, Goto, IInv, TypeOK, GuardTypeOK, GuardKept, Known, guardVars, ownVars
<1>5. Registered'
  BY DEF Drop, At, Goto, IInv, TypeOK, Registered, Consistent, guardVars, ownVars
<1>6. Vacant' /\ SingleOwner'
  BY DEF Drop, At, Goto, IInv, TypeOK, GuardTypeOK, Vacant, SingleOwner, Registered, Consistent, guardVars, ownVars
<1>7. NoAdmission'
  BY DEF Drop, At, Goto, IInv, TypeOK, GuardTypeOK, NoAdmission, Consistent, AdmissionActive, guardVars, ownVars
<1>8. ReadStands'
  BY DEF Drop, At, Goto, IInv, TypeOK, GuardTypeOK, ReadStands, Consistent, AdmissionActive, guardVars, ownVars
<1> QED
  BY <1>1, <1>2, <1>3, <1>4, <1>5, <1>6, <1>7, <1>8 DEF IInv

LEMMA ReadStep == ASSUME IInv, NEW p \in Procs, ReadAdmission(p) PROVE IInv'
<1> USE RolesAssumption, NoneAssumption
<1>1. GuardTypeOK' /\ GuardKept'
  BY DEF ReadAdmission, IInv, TypeOK, GuardTypeOK, GuardKept, Inside, Sections, guardVars
<1>2. TypeOK'
  BY <1>1 DEF ReadAdmission, At, Goto, IInv, TypeOK, Tasks, Steps, Statuses, guardVars, ownVars
<1>3. Consistent'
  BY DEF ReadAdmission, At, Goto, IInv, TypeOK, GuardTypeOK, Consistent, guardVars, ownVars
<1>4. Known'
  BY DEF ReadAdmission, At, Goto, IInv, TypeOK, GuardTypeOK, GuardKept, Known, guardVars, ownVars
<1>5. Registered'
  BY DEF ReadAdmission, At, Goto, IInv, TypeOK, Registered, Consistent, guardVars, ownVars
<1>6. Vacant' /\ SingleOwner'
  BY DEF ReadAdmission, At, Goto, IInv, TypeOK, GuardTypeOK, Vacant, SingleOwner, Registered, Consistent, guardVars, ownVars
<1>7. NoAdmission'
  BY DEF ReadAdmission, At, Goto, IInv, TypeOK, GuardTypeOK, NoAdmission, Consistent, AdmissionActive, guardVars, ownVars
<1>8. ReadStands'
  BY DEF ReadAdmission, At, Goto, IInv, TypeOK, GuardTypeOK, ReadStands, Consistent, AdmissionActive, guardVars, ownVars
<1> QED
  BY <1>1, <1>2, <1>3, <1>4, <1>5, <1>6, <1>7, <1>8 DEF IInv

LEMMA WriteStep == ASSUME IInv, NEW p \in Procs, WriteAdmission(p) PROVE IInv'
<1> USE RolesAssumption, NoneAssumption
<1>1. GuardTypeOK' /\ GuardKept'
  BY DEF WriteAdmission, IInv, TypeOK, GuardTypeOK, GuardKept, Inside, Sections, guardVars
<1>2. TypeOK'
  BY <1>1 DEF WriteAdmission, At, Goto, IInv, TypeOK, Tasks, Steps, Statuses, guardVars, ownVars
<1>3. Consistent'
  BY DEF WriteAdmission, At, Goto, IInv, TypeOK, GuardTypeOK, Consistent, guardVars, ownVars
<1>4. Known'
  BY DEF WriteAdmission, At, Goto, IInv, TypeOK, GuardTypeOK, GuardKept, Known, guardVars, ownVars
<1>5. Registered'
  BY DEF WriteAdmission, At, Goto, IInv, TypeOK, Registered, Consistent, guardVars, ownVars
<1>6. Vacant' /\ SingleOwner'
  BY DEF WriteAdmission, At, Goto, IInv, TypeOK, GuardTypeOK, Vacant, SingleOwner, Registered, Consistent, guardVars, ownVars
<1>7. NoAdmission'
  BY DEF WriteAdmission, At, Goto, IInv, TypeOK, GuardTypeOK, NoAdmission, Consistent, AdmissionActive, guardVars, ownVars
<1>8. ReadStands'
  <2> SUFFICES ASSUME ~evicted PROVE ReadStands'
    BY DEF WriteAdmission, At, Goto, ReadStands, guardVars, ownVars
  <2>1. \A q \in Procs : section[q] = "in" => q = p
    BY Alone DEF WriteAdmission, At, Goto, Inside
  <2> QED
    BY <2>1 DEF WriteAdmission, At, Goto, IInv, TypeOK, ReadStands, Consistent, AdmissionActive, guardVars, ownVars
<1> QED
  BY <1>1, <1>2, <1>3, <1>4, <1>5, <1>6, <1>7, <1>8 DEF IInv

LEMMA ClearStep == ASSUME IInv, NEW p \in Procs, ClearAdmission(p) PROVE IInv'
<1> USE RolesAssumption, NoneAssumption
<1>1. GuardTypeOK' /\ GuardKept'
  BY DEF ClearAdmission, IInv, TypeOK, GuardTypeOK, GuardKept, Inside, Sections, guardVars
<1>2. TypeOK'
  BY <1>1 DEF ClearAdmission, At, Goto, IInv, TypeOK, Tasks, Steps, Statuses, guardVars, ownVars
<1>3. Consistent'
  BY DEF ClearAdmission, At, Goto, IInv, TypeOK, GuardTypeOK, Consistent, guardVars, ownVars
<1>4. Known'
  BY DEF ClearAdmission, At, Goto, IInv, TypeOK, GuardTypeOK, GuardKept, Known, guardVars, ownVars
<1>5. Registered'
  BY DEF ClearAdmission, At, Goto, IInv, TypeOK, Registered, Consistent, guardVars, ownVars
<1>6. Vacant' /\ SingleOwner'
  BY DEF ClearAdmission, At, Goto, IInv, TypeOK, GuardTypeOK, Vacant, SingleOwner, Registered, Consistent, guardVars, ownVars
<1>7. NoAdmission'
  BY DEF ClearAdmission, At, Goto, IInv, TypeOK, GuardTypeOK, NoAdmission, Consistent, AdmissionActive, guardVars, ownVars
<1>8. ReadStands'
  BY DEF ClearAdmission, At, Goto, IInv, TypeOK, GuardTypeOK, ReadStands, Consistent, AdmissionActive, guardVars, ownVars
<1> QED
  BY <1>1, <1>2, <1>3, <1>4, <1>5, <1>6, <1>7, <1>8 DEF IInv

LEMMA UnlinkStep == ASSUME IInv, NEW p \in Procs, UnlinkAdmission(p) PROVE IInv'
<1> USE RolesAssumption, NoneAssumption
<1>1. GuardTypeOK' /\ GuardKept'
  BY DEF UnlinkAdmission, IInv, TypeOK, GuardTypeOK, GuardKept, Inside, Sections, guardVars
<1>2. TypeOK'
  BY <1>1 DEF UnlinkAdmission, At, Goto, IInv, TypeOK, Tasks, Steps, Statuses, guardVars, ownVars
<1>3. Consistent'
  BY DEF UnlinkAdmission, At, Goto, IInv, TypeOK, GuardTypeOK, Consistent, guardVars, ownVars
<1>4. Known'
  BY DEF UnlinkAdmission, At, Goto, IInv, TypeOK, GuardTypeOK, GuardKept, Known, guardVars, ownVars
<1>5. Registered'
  BY DEF UnlinkAdmission, At, Goto, IInv, TypeOK, Registered, Consistent, guardVars, ownVars
<1>6. Vacant' /\ SingleOwner'
  BY DEF UnlinkAdmission, At, Goto, IInv, TypeOK, GuardTypeOK, Vacant, SingleOwner, Registered, Consistent, guardVars, ownVars
<1>7. NoAdmission'
  BY DEF UnlinkAdmission, At, Goto, IInv, TypeOK, GuardTypeOK, NoAdmission, Consistent, AdmissionActive, guardVars, ownVars
<1>8. ReadStands'
  <2> SUFFICES ASSUME ~evicted PROVE ReadStands'
    BY DEF UnlinkAdmission, At, Goto, ReadStands, guardVars, ownVars
  <2>1. \A q \in Procs : section[q] = "in" => q = p
    BY Alone DEF UnlinkAdmission, At, Goto, Inside
  <2> QED
    BY <2>1 DEF UnlinkAdmission, At, Goto, IInv, TypeOK, ReadStands, Consistent, AdmissionActive, guardVars, ownVars
<1> QED
  BY <1>1, <1>2, <1>3, <1>4, <1>5, <1>6, <1>7, <1>8 DEF IInv

LEMMA VerdictStep == ASSUME IInv, NEW p \in Procs, Verdict(p) PROVE IInv'
<1>0. section[p] = "in" /\ (confused \/ Stolen(p) \/ keeper = p)
  BY NotStolen DEF Verdict
<1> USE RolesAssumption, NoneAssumption
<1>1. GuardTypeOK' /\ GuardKept'
  BY DEF Verdict, IInv, TypeOK, GuardTypeOK, GuardKept, Inside, Sections, guardVars
<1>2. TypeOK'
  BY <1>0, <1>1 DEF Verdict, Outcome, Become, Goto, IInv, TypeOK, Tasks, Steps, Statuses, guardVars, ownVars
<1>3. Consistent'
  BY <1>0 DEF Verdict, Outcome, Become, Goto, Tasks, IInv, TypeOK, GuardTypeOK, Consistent, guardVars, ownVars
<1>4. Known'
  BY <1>0 DEF Verdict, Outcome, Become, Goto, Tasks, IInv, TypeOK, GuardTypeOK, GuardKept, Known, guardVars, ownVars
<1>5. Registered'
  BY <1>0 DEF Verdict, Outcome, Become, Goto, Tasks, IInv, TypeOK, Registered, Consistent, guardVars, ownVars
<1>6. Vacant' /\ SingleOwner'
  BY <1>0 DEF Verdict, Outcome, Become, Goto, Tasks, IInv, TypeOK, GuardTypeOK, Vacant, SingleOwner, Registered, Consistent, guardVars, ownVars
<1>7. NoAdmission'
  BY <1>0 DEF Verdict, Outcome, Become, Goto, Tasks, IInv, TypeOK, GuardTypeOK, NoAdmission, Consistent, AdmissionActive, guardVars, ownVars
<1>8. ReadStands'
  BY <1>0 DEF Verdict, Outcome, Become, Goto, Tasks, IInv, TypeOK, GuardTypeOK, ReadStands, Consistent, AdmissionActive, guardVars, ownVars
<1> QED
  BY <1>1, <1>2, <1>3, <1>4, <1>5, <1>6, <1>7, <1>8 DEF IInv

LEMMA CheckStep == ASSUME IInv, NEW p \in Procs, CheckGuard(p) PROVE IInv'
<1> USE RolesAssumption, NoneAssumption
<1>1. GuardTypeOK' /\ GuardKept'
  BY DEF CheckGuard, At, MoveTo, IInv, TypeOK, GuardTypeOK, GuardKept, Inside, Sections, guardVars
<1>2. TypeOK'
  BY <1>1 DEF CheckGuard, At, MoveTo, IInv, TypeOK, Tasks, Steps, Statuses, guardVars, ownVars
<1>3. Consistent'
  BY DEF CheckGuard, At, MoveTo, IInv, TypeOK, GuardTypeOK, Consistent, guardVars, ownVars
<1>4. Known'
  BY DEF CheckGuard, At, MoveTo, IInv, TypeOK, GuardTypeOK, GuardKept, Known, guardVars, ownVars
<1>5. Registered'
  BY DEF CheckGuard, At, MoveTo, IInv, TypeOK, Registered, Consistent, guardVars, ownVars
<1>6. Vacant' /\ SingleOwner'
  BY DEF CheckGuard, At, MoveTo, IInv, TypeOK, GuardTypeOK, Vacant, SingleOwner, Registered, Consistent, guardVars, ownVars
<1>7. NoAdmission'
  BY DEF CheckGuard, At, MoveTo, IInv, TypeOK, GuardTypeOK, NoAdmission, Consistent, AdmissionActive, guardVars, ownVars
<1>8. ReadStands'
  BY DEF CheckGuard, At, MoveTo, IInv, TypeOK, GuardTypeOK, ReadStands, Consistent, AdmissionActive, guardVars, ownVars
<1> QED
  BY <1>1, <1>2, <1>3, <1>4, <1>5, <1>6, <1>7, <1>8 DEF IInv

LEMMA RemoveStep == ASSUME IInv, NEW p \in Procs, RemoveGuard(p) PROVE IInv'
<1> USE RolesAssumption, NoneAssumption
<1>1. GuardTypeOK' /\ GuardKept'
  BY DEF RemoveGuard, Unlink, MoveTo, IInv, TypeOK, GuardTypeOK, GuardKept, Inside, Sections, guardVars
<1>2. TypeOK'
  BY <1>1 DEF RemoveGuard, Unlink, MoveTo, IInv, TypeOK, Tasks, Steps, Statuses, guardVars, ownVars
<1>3. Consistent'
  BY DEF RemoveGuard, Unlink, MoveTo, IInv, TypeOK, GuardTypeOK, Consistent, guardVars, ownVars
<1>4. Known'
  BY DEF RemoveGuard, Unlink, MoveTo, IInv, TypeOK, GuardTypeOK, GuardKept, Known, guardVars, ownVars
<1>5. Registered'
  BY DEF RemoveGuard, Unlink, MoveTo, IInv, TypeOK, Registered, Consistent, guardVars, ownVars
<1>6. Vacant' /\ SingleOwner'
  BY DEF RemoveGuard, Unlink, MoveTo, IInv, TypeOK, GuardTypeOK, Vacant, SingleOwner, Registered, Consistent, guardVars, ownVars
<1>7. NoAdmission'
  BY DEF RemoveGuard, Unlink, MoveTo, IInv, TypeOK, GuardTypeOK, NoAdmission, Consistent, AdmissionActive, guardVars, ownVars
<1>8. ReadStands'
  BY DEF RemoveGuard, Unlink, MoveTo, IInv, TypeOK, GuardTypeOK, ReadStands, Consistent, AdmissionActive, guardVars, ownVars
<1> QED
  BY <1>1, <1>2, <1>3, <1>4, <1>5, <1>6, <1>7, <1>8 DEF IInv

LEMMA GoneStep == ASSUME IInv, NEW p \in Procs, Gone(p), crashes' \in 0 .. MaxCrashes PROVE IInv'
<1> USE RolesAssumption, NoneAssumption
<1>1. GuardTypeOK' /\ GuardKept'
  BY CrashKeeps DEF Gone, IInv, TypeOK
<1>2. TypeOK'
  BY <1>1 DEF Gone, GuardCrash, Become, Goto, MoveTo, IInv, TypeOK, Tasks, Steps, Statuses, guardVars, ownVars
<1>3. Consistent'
  BY DEF Gone, GuardCrash, Become, Goto, MoveTo, IInv, TypeOK, GuardTypeOK, Consistent, guardVars, ownVars
<1>4. Known'
  BY DEF Gone, GuardCrash, Become, Goto, MoveTo, IInv, TypeOK, GuardTypeOK, GuardKept, Known, guardVars, ownVars
<1>5. Registered'
  BY DEF Gone, GuardCrash, Become, Goto, MoveTo, IInv, TypeOK, Registered, Consistent, guardVars, ownVars
<1>6. Vacant' /\ SingleOwner'
  BY DEF Gone, GuardCrash, Become, Goto, MoveTo, IInv, TypeOK, GuardTypeOK, Vacant, SingleOwner, Registered, Consistent, guardVars, ownVars
<1>7. NoAdmission'
  BY DEF Gone, GuardCrash, Become, Goto, MoveTo, IInv, TypeOK, GuardTypeOK, NoAdmission, Consistent, AdmissionActive, guardVars, ownVars
<1>8. ReadStands'
  BY DEF Gone, GuardCrash, Become, Goto, MoveTo, IInv, TypeOK, GuardTypeOK, ReadStands, Consistent, AdmissionActive, guardVars, ownVars
<1> QED
  BY <1>1, <1>2, <1>3, <1>4, <1>5, <1>6, <1>7, <1>8 DEF IInv

LEMMA TimeStep == ASSUME IInv, TimePasses \/ Expire PROVE IInv'
<1> USE RolesAssumption, NoneAssumption
<1>1. GuardTypeOK' /\ GuardKept'
  BY AgeKeeps DEF TimePasses, Expire, IInv, TypeOK, GuardTypeOK, GuardKept, Inside, guardVars
<1>2. TypeOK'
  BY <1>1 DEF TimePasses, Age, Expire, IInv, TypeOK, Tasks, Steps, Statuses, guardVars, ownVars
<1>3. Consistent'
  BY DEF TimePasses, Age, Expire, IInv, TypeOK, GuardTypeOK, Consistent, guardVars, ownVars
<1>4. Known'
  BY DEF TimePasses, Age, Expire, IInv, TypeOK, GuardTypeOK, GuardKept, Known, guardVars, ownVars
<1>5. Registered'
  BY DEF TimePasses, Age, Expire, IInv, TypeOK, Registered, Consistent, guardVars, ownVars
<1>6. Vacant' /\ SingleOwner'
  BY DEF TimePasses, Age, Expire, IInv, TypeOK, GuardTypeOK, Vacant, SingleOwner, Registered, Consistent, guardVars, ownVars
<1>7. NoAdmission'
  BY DEF TimePasses, Age, Expire, IInv, TypeOK, GuardTypeOK, NoAdmission, Consistent, AdmissionActive, guardVars, ownVars
<1>8. ReadStands'
  BY DEF TimePasses, Age, Expire, IInv, TypeOK, GuardTypeOK, ReadStands, Consistent, AdmissionActive, guardVars, ownVars
<1> QED
  BY <1>1, <1>2, <1>3, <1>4, <1>5, <1>6, <1>7, <1>8 DEF IInv

\* Every step keeps the invariant.
LEMMA Inductive == IInv /\ [Next]_vars => IInv'
<1> SUFFICES ASSUME IInv, [Next]_vars PROVE IInv'
  OBVIOUS
<1>1. CASE TimePasses \/ Expire
  BY <1>1, TimeStep
<1>2. ASSUME NEW p \in Procs, Step(p) PROVE IInv'
  <2>1. CASE Own(p) \/ Disown(p) \/ Admit(p) \/ Renew(p) \/ Dismiss(p)
    BY <2>1, CallStep
  <2>2. CASE EnterGuard(p) \/ EvictGuard(p) \/ Abandon(p)
    BY <2>2, EnterStep, EvictStep, AbandonStep
  <2>3. CASE Working(p)
    BY <2>3, AssertStep, LookStep, PurgeStep, ScanStep, PublishStep, DropStep, ReadStep, WriteStep,
       ClearStep, UnlinkStep, VerdictStep, CheckStep, RemoveStep DEF Working
  <2>4. CASE Exit(p) \/ Crash(p)
    <3>1. Gone(p) /\ crashes' \in 0 .. MaxCrashes
      BY <2>4, RolesAssumption DEF Exit, Crash, IInv, TypeOK
    <3> QED
      BY <3>1, GoneStep
  <2> QED
    BY <1>2, <2>1, <2>2, <2>3, <2>4 DEF Step
<1>3. CASE UNCHANGED vars
  BY <1>3 DEF vars, guardVars, ownVars, IInv, TypeOK, GuardTypeOK, GuardKept, Inside, Consistent, Known,
       Registered, Vacant, NoAdmission, ReadStands, SingleOwner, AdmissionActive
<1> QED
  BY <1>1, <1>2, <1>3 DEF Next

\* Only the second assertion makes a supervisor an owner.
LEMMA OnlyVerdict ==
    ASSUME IInv, [Next]_vars, NEW p \in Procs, status[p] # "holder", status'[p] = "holder"
    PROVE  Verdict(p)
<1>1. PICK q \in Procs : Step(q)
  BY DEF Next, TimePasses, Expire, vars, ownVars
<1>2. status \in [Procs -> Statuses]
  BY DEF IInv, TypeOK
<1>3. CASE Verdict(q)
  BY <1>2, <1>3 DEF Verdict, Become
<1>4. CASE ~Verdict(q)
  <2>1. \/ UNCHANGED status
        \/ status' = [status EXCEPT ![q] = "over"] \/ status' = [status EXCEPT ![q] = "idle"]
    BY <1>1, <1>4 DEF Step, Own, Disown, Admit, Renew, Dismiss, EnterGuard, EvictGuard, Abandon, Fail,
         Working, AssertHeld, Look, Purge, Scan, Publish, Drop, ReadAdmission, WriteAdmission,
         ClearAdmission, UnlinkAdmission, CheckGuard, RemoveGuard, Exit, Crash, Gone, Become, ownVars
  <2> QED
    BY <2>1, <1>2
<1> QED
  BY <1>3, <1>4

\* The registry, the admission and the tasks keep their types.
THEOREM TypeCorrect == Spec => []TypeOK
<1>1. IInv => TypeOK
  BY DEF IInv
<1> QED
  BY <1>1, Initially, Inductive, PTL DEF Spec

\* For any number of supervisors, inodes and crashes: two supervisors never own
\* the socket at once, unless the identity of a guard misled one of them.
THEOREM OneOwner == Spec => []SingleOwner
<1>1. IInv => SingleOwner
  BY DEF IInv
<1> QED
  BY <1>1, Initially, Inductive, PTL DEF Spec

\* No supervisor becomes the owner while an updater relies on its admission.
THEOREM AdmissionKeepsOut == Spec => AdmissionHonoured
<1> DEFINE A == \A p \in Supervisors : status[p] # "holder" /\ status'[p] = "holder"
                    => confused \/ \A s \in Updaters : ~Secure(s)
<1>1. IInv /\ [Next]_vars => [A]_vars
  <2> SUFFICES ASSUME IInv, [Next]_vars, NEW p \in Supervisors, ~confused,
                      status[p] # "holder", status'[p] = "holder",
                      NEW s \in Updaters
               PROVE  ~Secure(s)
    OBVIOUS
  <2>1. p \in Procs /\ s \in Procs
    BY RolesAssumption
  <2>2. Verdict(p)
    BY <2>1, OnlyVerdict
  <2>3. Outcome(p) = "holder"
    BY <2>1, <2>2 DEF Verdict, Become, IInv, TypeOK
  <2>4. ~Stolen(p) /\ step[p] = "done" /\ task[p] = "own" /\ section[p] = "in"
    BY <2>1, <2>2, <2>3, RolesAssumption DEF Verdict, Outcome, IInv, TypeOK, Tasks, Consistent
  <2>5. keeper = p
    BY <2>1, <2>4, NotStolen
  <2> QED
    BY <2>4, <2>5 DEF IInv, NoAdmission, Secure
<1> QED
  BY <1>1, Initially, Inductive, PTL DEF Spec, AdmissionHonoured

\* Without an eviction nobody removes or replaces an admission that is relied upon.
THEOREM AdmissionStays == Spec => AdmissionKept
<1> DEFINE A == \A s \in Updaters : Secure(s) /\ status'[s] = "holder" => evicted \/ admission' = s
<1>1. IInv /\ [Next]_vars => [A]_vars
  <2> SUFFICES ASSUME IInv, [Next]_vars, NEW s \in Updaters, Secure(s), status'[s] = "holder", ~evicted,
                      admission' # s
               PROVE  FALSE
    OBVIOUS
  <2>1. s \in Procs /\ admission = s /\ AdmissionActive /\ status[s] = "holder" /\ section[s] # "in"
    BY RolesAssumption DEF Secure, AdmissionActive
  <2>2. PICK p \in Procs : Step(p)
    BY <2>1 DEF Next, TimePasses, Expire, vars, ownVars
  <2>3. Purge(p) \/ WriteAdmission(p) \/ UnlinkAdmission(p) \/ Gone(p)
    BY <2>1, <2>2 DEF Step, Own, Disown, Admit, Renew, Dismiss, Call, EnterGuard, EvictGuard, Abandon,
         Working, AssertHeld, Look, Scan, Publish, Drop, ReadAdmission, ClearAdmission, Verdict,
         CheckGuard, RemoveGuard, Exit, Crash, ownVars
  <2>4. CASE Purge(p)
    BY <2>1, <2>4 DEF Purge, At, IInv, ReadStands
  <2>5. CASE WriteAdmission(p)
    BY <2>1, <2>5 DEF WriteAdmission, At, IInv, ReadStands
  <2>6. CASE UnlinkAdmission(p)
    BY <2>1, <2>6 DEF UnlinkAdmission, At, IInv, ReadStands
  <2>7. CASE Gone(p)
    BY <2>1, <2>7 DEF Gone, Become, IInv, TypeOK
  <2> QED
    BY <2>3, <2>4, <2>5, <2>6, <2>7
<1> QED
  BY <1>1, Initially, Inductive, PTL DEF Spec, AdmissionKept
=============================================================================
