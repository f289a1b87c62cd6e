--------------------------- MODULE GuardDirProofs ---------------------------
(***************************************************************************)
(* What every client of the guard directory may use: each step of GuardDir *)
(* keeps the types and GuardKept.                                          *)
(***************************************************************************)
EXTENDS GuardDir, TLAPS

\* Initially nobody is inside and there is no guard.
LEMMA GuardInitially == GuardInit => GuardTypeOK /\ GuardKept
BY NoneAssumption DEF GuardInit, GuardTypeOK, GuardKept, Inside, Sections

\* mkdir succeeds only where nobody is inside.
LEMMA MakeGuardKeeps ==
    ASSUME NEW p \in Procs, GuardTypeOK, GuardKept, MakeGuard(p)
    PROVE  GuardTypeOK' /\ GuardKept'
BY NoneAssumption DEF GuardTypeOK, GuardKept, MakeGuard, MoveTo, Inside, Sections

\* The stat after mkdir moves its process on.
LEMMA IdentifyKeeps ==
    ASSUME NEW p \in Procs, GuardTypeOK, GuardKept, Identify(p)
    PROVE  GuardTypeOK' /\ GuardKept'
BY NoneAssumption DEF GuardTypeOK, GuardKept, Identify, MoveTo, Inside, Sections

\* A removal either finds nobody alive inside or records the eviction.
LEMMA RemoveStaleKeeps ==
    ASSUME NEW p \in Procs, GuardTypeOK, GuardKept, RemoveStale(p)
    PROVE  GuardTypeOK' /\ GuardKept'
BY NoneAssumption DEF GuardTypeOK, GuardKept, RemoveStale, Unlink, MoveTo, Inside, Sections

\* Judging, giving up and the passing of time change no directory.
LEMMA WaitingKeeps ==
    ASSUME NEW p \in Procs, GuardTypeOK, GuardKept, JudgeStale(p) \/ GiveUp(p)
    PROVE  GuardTypeOK' /\ GuardKept'
BY NoneAssumption DEF GuardTypeOK, GuardKept, JudgeStale, GiveUp, MoveTo, Inside, Sections

LEMMA AgeKeeps ==
    ASSUME GuardTypeOK, GuardKept, Age
    PROVE  GuardTypeOK' /\ GuardKept'
BY NoneAssumption DEF GuardTypeOK, GuardKept, Age, Inside

\* A dead process is not inside, and its guard has no keeper.
LEMMA CrashKeeps ==
    ASSUME NEW p \in Procs, GuardTypeOK, GuardKept, GuardCrash(p)
    PROVE  GuardTypeOK' /\ GuardKept'
BY NoneAssumption DEF GuardTypeOK, GuardKept, GuardCrash, MoveTo, Inside, Sections
=============================================================================
