------------------------- MODULE SessionLeaseProofs -------------------------
(***************************************************************************)
(* Exclusive session leases, for any number of processes, crashes and      *)
(* attempts.  The inductive invariant adds to the properties what a        *)
(* process behind the guard may rely on: who is about to reclaim a lease   *)
(* still faces the dead (or its own) lease it has read, and who has        *)
(* reclaimed one finds the path free.                                      *)
(***************************************************************************)
EXTENDS SessionLease, GuardDirProofs

\* What a reclaiming process has read is still there.
ReclaimsOnlyDead ==
    evicted \/ \A p \in Procs :
        section[p] = "in" /\ call[p].step = "reclaim"
            => lease \notin Procs \/ (lease = p /\ ~holds[p])

\* Every attempt of an acquisition was spent on a file operation that failed, but
\* for one that has cleared the path.
AttemptsAccounted ==
    evicted \/ \A p \in Procs :
        call[p].op = "acquire" =>
            \/ call[p].tries + call[p].hitches = Attempts
            \/ /\ call[p].tries + call[p].hitches = Attempts - 1
               /\ \/ section[p] = "in" /\ call[p].step = "rename" /\ lease = None
                  \/ call[p].step = "done"

\* Only an acquisition can fail, and a release has given up its handle.
CallsMakeSense ==
    \A p \in Procs : /\ call[p].failed => call[p].op = "acquire" /\ call[p].tries = 0
                     /\ call[p].op = "release" => ~holds[p]
                     /\ call[p].op = "acquire" /\ call[p].step # "done" => call[p].tries > 0
                     /\ call[p].step = "reclaim" => section[p] = "in"
                     /\ call[p].tries + call[p].hitches <= Attempts

IInv ==
    /\ TypeOK
    /\ GuardKept
    /\ LeaseExclusive
    /\ ReclaimsOnlyDead
    /\ AttemptsAccounted
    /\ CallsMakeSense

LEMMA Initially == Init => IInv
<1> SUFFICES ASSUME Init PROVE IInv
    OBVIOUS
<1>1. GuardTypeOK /\ GuardKept
  BY GuardInitially DEF Init
<1>2. NoCall \in Calls
  BY AttemptsAssumption DEF NoCall, Call, Calls, Ops, Steps
<1>3. TypeOK
  BY <1>1, <1>2, AttemptsAssumption DEF TypeOK, Init
<1>4. LeaseExclusive /\ ReclaimsOnlyDead /\ AttemptsAccounted /\ CallsMakeSense
  BY AttemptsAssumption DEF Init, GuardInit, LeaseExclusive, ReclaimsOnlyDead, AttemptsAccounted, CallsMakeSense,
         NoCall, Call
<1> QED
  BY <1>1, <1>3, <1>4 DEF IInv

\* A step that changes what only the guard's owner may change is taken by the
\* one process inside.
LEMMA Alone ==
    ASSUME IInv, ~evicted, NEW p \in Procs, NEW q \in Procs, Inside(p), Inside(q)
    PROVE  p = q
BY NoneAssumption DEF IInv, GuardKept

LEMMA AcquireStep == ASSUME IInv, NEW p \in Procs, Acquire(p) PROVE IInv'
<1> DEFINE c == Call("acquire", "rename", Attempts)
<1>1. c \in Calls
  BY AttemptsAssumption DEF Call, Calls, Ops, Steps
<1>2. call' = [call EXCEPT ![p] = c]
  BY DEF Acquire, Begin
<1>3. c.op = "acquire" /\ c.step = "rename" /\ c.tries = Attempts /\ ~c.failed /\ c.hitches = 0
  BY DEF Call
<1> HIDE DEF c
<1>4. TypeOK' /\ GuardKept'
  BY <1>1, <1>2 DEF IInv, TypeOK, GuardTypeOK, GuardKept, Acquire, MoveTo, Inside, Sections
<1>5. LeaseExclusive' /\ ReclaimsOnlyDead' /\ AttemptsAccounted' /\ CallsMakeSense'
  BY <1>2, <1>3, AttemptsAssumption DEF IInv, TypeOK, GuardTypeOK, Acquire, MoveTo, LeaseExclusive, ReclaimsOnlyDead,
       AttemptsAccounted, CallsMakeSense
<1> QED
  BY <1>4, <1>5 DEF IInv

LEMMA ReleaseStep == ASSUME IInv, NEW p \in Procs, Release(p) PROVE IInv'
<1> DEFINE c == Call("release", "read", 0)
<1>1. c \in Calls
  BY AttemptsAssumption DEF Call, Calls, Ops, Steps
<1>2. call' = [call EXCEPT ![p] = c]
  BY DEF Release, Begin
<1>3. c.op = "release" /\ c.step = "read" /\ ~c.failed /\ c.tries = 0 /\ c.hitches = 0
  BY DEF Call
<1> HIDE DEF c
<1>4. TypeOK' /\ GuardKept'
  BY <1>1, <1>2 DEF IInv, TypeOK, GuardTypeOK, GuardKept, Release, MoveTo, Inside, Sections
<1>5. LeaseExclusive' /\ ReclaimsOnlyDead' /\ AttemptsAccounted' /\ CallsMakeSense'
  BY <1>2, <1>3, AttemptsAssumption DEF IInv, TypeOK, GuardTypeOK, Release, MoveTo, LeaseExclusive, ReclaimsOnlyDead,
       AttemptsAccounted, CallsMakeSense
<1> QED
  BY <1>4, <1>5 DEF IInv

LEMMA SweepStep == ASSUME IInv, NEW p \in Procs, Sweep(p) PROVE IInv'
<1> DEFINE c == Call("sweep", "read", 0)
<1>1. c \in Calls
  BY AttemptsAssumption DEF Call, Calls, Ops, Steps
<1>2. call' = [call EXCEPT ![p] = c]
  BY DEF Sweep, Begin
<1>3. c.op = "sweep" /\ c.step = "read" /\ ~c.failed /\ c.tries = 0 /\ c.hitches = 0
  BY DEF Call
<1> HIDE DEF c
<1>4. GuardTypeOK' /\ GuardKept'
  BY MakeGuardKeeps DEF IInv, TypeOK, Sweep
<1>5. TypeOK'
  BY <1>1, <1>2, <1>4 DEF IInv, TypeOK, Sweep
<1>6. LeaseExclusive' /\ ReclaimsOnlyDead' /\ AttemptsAccounted' /\ CallsMakeSense'
  BY <1>2, <1>3, AttemptsAssumption DEF IInv, TypeOK, GuardTypeOK, Sweep, MakeGuard, MoveTo, LeaseExclusive,
       ReclaimsOnlyDead, AttemptsAccounted, CallsMakeSense
<1> QED
  BY <1>4, <1>5, <1>6 DEF IInv

LEMMA NoCallIsIdle ==
    NoCall \in Calls /\ NoCall.op = "none" /\ NoCall.step = "done" /\ ~NoCall.failed
      /\ NoCall.tries = 0 /\ NoCall.hitches = 0
BY AttemptsAssumption DEF NoCall, Call, Calls, Ops, Steps

LEMMA AbandonStep == ASSUME IInv, NEW p \in Procs, Abandon(p) PROVE IInv'
<1>1. GuardTypeOK' /\ GuardKept'
  BY WaitingKeeps DEF IInv, TypeOK, Abandon
<1>2. call' = [call EXCEPT ![p] = NoCall]
  BY DEF Abandon, Begin
<1>3. TypeOK'
  BY <1>1, <1>2, NoCallIsIdle DEF IInv, TypeOK, Abandon
<1>4. LeaseExclusive' /\ ReclaimsOnlyDead' /\ AttemptsAccounted' /\ CallsMakeSense'
  BY <1>2, NoCallIsIdle, AttemptsAssumption DEF IInv, TypeOK, GuardTypeOK, Abandon, GiveUp, MoveTo, LeaseExclusive,
       ReclaimsOnlyDead, AttemptsAccounted, CallsMakeSense
<1> QED
  BY <1>1, <1>3, <1>4 DEF IInv

\* Steps that only choose the next system call.
LEMMA GotoTypes ==
    ASSUME TypeOK, NEW p \in Procs, NEW s \in Steps, Goto(p, s)
    PROVE  /\ call' \in [Procs -> Calls]
           /\ call'[p].step = s /\ call'[p].op = call[p].op /\ call'[p].tries = call[p].tries
           /\ call'[p].failed = call[p].failed /\ call'[p].hitches = call[p].hitches
           /\ \A q \in Procs \ {p} : call'[q] = call[q]
BY DEF TypeOK, Goto, Calls

LEMMA RenameStep == ASSUME IInv, NEW p \in Procs, RenameCandidate(p) PROVE IInv'
<1> USE DEF RenameCandidate, At
<1>1. GuardKept' /\ GuardTypeOK'
  BY DEF IInv, TypeOK, GuardTypeOK, GuardKept, Inside, guardVars
<1>a. TypeOK
  BY DEF IInv
<1>2. CASE lease = None /\ lease' = p /\ holds' = [holds EXCEPT ![p] = TRUE] /\ Goto(p, "done")
  <2>g. /\ call' \in [Procs -> Calls]
        /\ call'[p].step = "done" /\ call'[p].op = call[p].op /\ call'[p].tries = call[p].tries
        /\ call'[p].failed = call[p].failed /\ call'[p].hitches = call[p].hitches
        /\ \A q \in Procs \ {p} : call'[q] = call[q]
    BY <1>2, <1>a, GotoTypes, "done" \in Steps DEF Steps
  <2>1. TypeOK'
    BY <1>1, <1>2, <2>g DEF IInv, TypeOK
  <2>2. LeaseExclusive'
    BY <1>2, NoneAssumption DEF IInv, TypeOK, LeaseExclusive, guardVars
  <2>3. ReclaimsOnlyDead' /\ AttemptsAccounted'
    <3> SUFFICES ASSUME ~evicted PROVE ReclaimsOnlyDead' /\ AttemptsAccounted'
      BY DEF ReclaimsOnlyDead, AttemptsAccounted, guardVars
    <3>1. \A q \in Procs : section[q] = "in" => q = p
      BY Alone DEF Inside
    <3> QED
      BY <3>1, <2>g, <1>2 DEF IInv, TypeOK, ReclaimsOnlyDead, AttemptsAccounted, guardVars
  <2>4. CallsMakeSense'
    BY <1>2, <2>g DEF IInv, TypeOK, CallsMakeSense, guardVars
  <2> QED
    BY <1>1, <2>1, <2>2, <2>3, <2>4 DEF IInv
<1>3. CASE lease # None /\ Goto(p, "read") /\ UNCHANGED <<lease, holds>>
  <2>g. /\ call' \in [Procs -> Calls]
        /\ call'[p].step = "read" /\ call'[p].op = call[p].op /\ call'[p].tries = call[p].tries
        /\ call'[p].failed = call[p].failed /\ call'[p].hitches = call[p].hitches
        /\ \A q \in Procs \ {p} : call'[q] = call[q]
    BY <1>3, <1>a, GotoTypes, "read" \in Steps DEF Steps
  <2>1. TypeOK' /\ LeaseExclusive' /\ CallsMakeSense'
    BY <1>1, <1>3, <2>g DEF IInv, TypeOK, LeaseExclusive, CallsMakeSense, guardVars
  <2>2. ReclaimsOnlyDead' /\ AttemptsAccounted'
    BY <1>3, <2>g DEF IInv, ReclaimsOnlyDead, AttemptsAccounted, guardVars
  <2> QED
    BY <1>1, <2>1, <2>2 DEF IInv
<1> QED
  BY <1>2, <1>3

\* Reading an owner that allows nothing, or one that may be reclaimed.
LEMMA ReadStep ==
    ASSUME IInv, NEW p \in Procs,
           ContenderActive(p) \/ ContenderDead(p) \/ ReleaseReads(p) \/ SweepReads(p)
    PROVE  IInv'
<1>1. UNCHANGED <<guardVars, lease, holds, swept, mishaps>> /\ section[p] = "in" /\ call[p].step = "read"
  BY DEF ContenderActive, ContenderDead, ReleaseReads, SweepReads, At
<1>2. PICK s \in {"done", "reclaim"} :
          /\ Goto(p, s)
          /\ s = "reclaim" => lease \in {Ghost, None} \/ (lease = p /\ call[p].op = "release")
  BY DEF ContenderActive, ContenderDead, ReleaseReads, SweepReads, At
<1>a. TypeOK /\ s \in Steps
  BY DEF IInv, Steps
<1>3. /\ call' \in [Procs -> Calls]
      /\ call'[p].step = s /\ call'[p].op = call[p].op /\ call'[p].tries = call[p].tries
      /\ call'[p].failed = call[p].failed /\ call'[p].hitches = call[p].hitches
      /\ \A q \in Procs \ {p} : call'[q] = call[q]
  BY <1>a, <1>2, GotoTypes
<1>4. TypeOK' /\ GuardKept' /\ LeaseExclusive' /\ CallsMakeSense'
  BY <1>1, <1>3 DEF IInv, TypeOK, GuardTypeOK, GuardKept, Inside, LeaseExclusive, CallsMakeSense,
       guardVars
<1>5. AttemptsAccounted'
  BY <1>1, <1>3 DEF IInv, AttemptsAccounted, guardVars
<1>6. ReclaimsOnlyDead'
  BY <1>1, <1>2, <1>3, GhostAssumption, NoneAssumption DEF IInv, ReclaimsOnlyDead, CallsMakeSense, guardVars
<1> QED
  BY <1>4, <1>5, <1>6 DEF IInv

LEMMA NextAttemptTypes ==
    ASSUME TypeOK, NEW p \in Procs, NEW h \in {0, 1}, NextAttempt(p, h),
           call[p].tries > 0, call[p].tries + call[p].hitches <= Attempts
    PROVE  \E c \in Calls :
             /\ call' = [call EXCEPT ![p] = c]
             /\ c.op = "acquire" /\ c.step \in {"rename", "done"}
             /\ c.tries = call[p].tries - 1 /\ c.hitches = call[p].hitches + h
             /\ c.step # "done" <=> c.tries > 0
             /\ c.failed <=> c.tries = 0
<1>1. call[p].tries \in 0 .. Attempts /\ call[p].hitches \in 0 .. Attempts
  BY DEF TypeOK, Calls
<1> DEFINE n == call[p].tries - 1
           m == call[p].hitches + h
<1>2. n \in 0 .. Attempts /\ m \in 0 .. Attempts
  BY <1>1, AttemptsAssumption
<1>3. call' = [call EXCEPT ![p] = Attempt(n, m)]
  BY DEF NextAttempt, Begin
<1> HIDE DEF n, m
<1>4. Attempt(n, m) \in Calls
  BY <1>2 DEF Attempt, Calls, Ops, Steps
<1>5. /\ Attempt(n, m).op = "acquire" /\ Attempt(n, m).step \in {"rename", "done"}
      /\ Attempt(n, m).tries = n /\ Attempt(n, m).hitches = m
      /\ Attempt(n, m).step # "done" <=> n > 0
      /\ Attempt(n, m).failed <=> n = 0
  BY <1>2 DEF Attempt
<1> QED
  BY <1>3, <1>4, <1>5 DEF n, m

\* An attempt that ends with a file operation that failed changes only the count.
LEMMA HitchStep ==
    ASSUME IInv, NEW p \in Procs,
           CandidateVanished(p) \/ ContenderUnreadable(p) \/ ReclaimFails(p)
    PROVE  IInv'
<1>1. /\ UNCHANGED <<guardVars, lease, holds, swept>> /\ Mishap /\ NextAttempt(p, 1)
      /\ section[p] = "in" /\ call[p].op = "acquire" /\ call[p].step # "done"
      /\ call[p].step = "rename" \/ call[p].tries + call[p].hitches = Attempts \/ evicted
  BY DEF IInv, AttemptsAccounted, CandidateVanished, ContenderUnreadable, ReclaimFails, At
<1>2. call[p].tries > 0 /\ TypeOK /\ call[p].tries + call[p].hitches <= Attempts
  BY <1>1, AttemptsAssumption DEF IInv, CallsMakeSense
<1>3. PICK c \in Calls :
             /\ call' = [call EXCEPT ![p] = c]
             /\ c.op = "acquire" /\ c.step \in {"rename", "done"}
             /\ c.tries = call[p].tries - 1 /\ c.hitches = call[p].hitches + 1
             /\ c.step # "done" <=> c.tries > 0
             /\ c.failed <=> c.tries = 0
  BY <1>1, <1>2, NextAttemptTypes
<1>4. call[p].tries \in Nat /\ call[p].hitches \in Nat /\ c.tries \in Nat
  BY <1>2 DEF TypeOK, Calls
<1>5. TypeOK' /\ GuardKept' /\ LeaseExclusive'
  BY <1>1, <1>3, AttemptsAssumption
  DEF IInv, TypeOK, GuardTypeOK, GuardKept, Inside, LeaseExclusive, guardVars, Mishap
<1>6. CallsMakeSense' /\ ReclaimsOnlyDead'
  BY <1>1, <1>2, <1>3, <1>4 DEF IInv, TypeOK, CallsMakeSense, ReclaimsOnlyDead, guardVars
<1>7. AttemptsAccounted'
  <2> SUFFICES ASSUME ~evicted, NEW q \in Procs, call'[q].op = "acquire"
               PROVE  \/ call'[q].tries + call'[q].hitches = Attempts
                      \/ /\ call'[q].tries + call'[q].hitches = Attempts - 1
                         /\ \/ section'[q] = "in" /\ call'[q].step = "rename" /\ lease' = None
                            \/ call'[q].step = "done"
    BY <1>1 DEF AttemptsAccounted, guardVars
  <2>1. CASE q = p
    <3>1. call'[q].tries + call'[q].hitches = call[p].tries + call[p].hitches
      BY <1>2, <1>3, <1>4, <2>1 DEF TypeOK
    <3>2. call[p].tries + call[p].hitches = Attempts \/ lease = None
      BY <1>1 DEF IInv, AttemptsAccounted
    <3>3. call[p].tries + call[p].hitches \in {Attempts, Attempts - 1}
      BY <1>1 DEF IInv, AttemptsAccounted
    <3>4. call'[q].step \in {"rename", "done"} /\ section'[q] = "in" /\ lease' = lease
      BY <1>1, <1>2, <1>3, <2>1 DEF TypeOK, guardVars
    <3> QED BY <3>1, <3>2, <3>3, <3>4
  <2>2. CASE q # p
    BY <1>1, <1>2, <1>3, <2>2 DEF IInv, TypeOK, AttemptsAccounted, guardVars
  <2> QED BY <2>1, <2>2
<1> QED
  BY <1>5, <1>6, <1>7 DEF IInv

\* An acquisition that reports an error is over.
LEMMA ErrorStep == ASSUME IInv, NEW p \in Procs, AcquireError(p) PROVE IInv'
<1>1. UNCHANGED <<guardVars, lease, holds, swept>> /\ Mishap /\ Goto(p, "done") /\ section[p] = "in"
  BY DEF AcquireError, At
<1>a. TypeOK /\ "done" \in Steps
  BY DEF IInv, Steps
<1>2. /\ call' \in [Procs -> Calls]
      /\ call'[p].step = "done" /\ call'[p].op = call[p].op /\ call'[p].tries = call[p].tries
      /\ call'[p].failed = call[p].failed /\ call'[p].hitches = call[p].hitches
      /\ \A q \in Procs \ {p} : call'[q] = call[q]
  BY <1>1, <1>a, GotoTypes
<1>3. TypeOK' /\ GuardKept' /\ LeaseExclusive' /\ CallsMakeSense'
  BY <1>1, <1>2, AttemptsAssumption DEF IInv, TypeOK, GuardTypeOK, GuardKept, Inside, LeaseExclusive, CallsMakeSense,
       guardVars, Mishap
<1>4. AttemptsAccounted' /\ ReclaimsOnlyDead'
  BY <1>1, <1>2 DEF IInv, AttemptsAccounted, ReclaimsOnlyDead, guardVars
<1> QED
  BY <1>3, <1>4 DEF IInv

LEMMA ReclaimStep == ASSUME IInv, NEW p \in Procs, ReclaimForAcquire(p) PROVE IInv'
<1>1. UNCHANGED <<guardVars, holds, swept, mishaps>> /\ NextAttempt(p, 0) /\ lease' = None
  BY DEF ReclaimForAcquire
<1>2. /\ call[p].tries > 0 /\ TypeOK /\ section[p] = "in" /\ call[p].step = "reclaim"
      /\ call[p].op = "acquire" /\ call[p].tries + call[p].hitches <= Attempts
  BY DEF IInv, CallsMakeSense, ReclaimForAcquire, At
<1>3. PICK c \in Calls :
             /\ call' = [call EXCEPT ![p] = c]
             /\ c.op = "acquire" /\ c.step \in {"rename", "done"}
             /\ c.tries = call[p].tries - 1 /\ c.hitches = call[p].hitches + 0
             /\ c.step # "done" <=> c.tries > 0
             /\ c.failed <=> c.tries = 0
  BY <1>1, <1>2, NextAttemptTypes
<1>4. call[p].tries \in Nat /\ call[p].hitches \in Nat
  BY <1>2 DEF TypeOK, Calls
<1>5. TypeOK' /\ GuardKept' /\ CallsMakeSense'
  <2>1. TypeOK' /\ GuardKept'
    BY <1>1, <1>2, <1>3, NoneAssumption DEF IInv, TypeOK, GuardTypeOK, GuardKept, Inside, guardVars
  <2>2. c.tries + c.hitches <= Attempts
    BY <1>2, <1>3, <1>4, AttemptsAssumption
  <2>3. CallsMakeSense'
    BY <1>1, <1>2, <1>3, <2>2 DEF IInv, TypeOK, CallsMakeSense, guardVars
  <2> QED BY <2>1, <2>3
<1>6. LeaseExclusive' /\ ReclaimsOnlyDead' /\ AttemptsAccounted'
  <2> SUFFICES ASSUME ~evicted PROVE LeaseExclusive' /\ ReclaimsOnlyDead' /\ AttemptsAccounted'
    BY <1>1 DEF LeaseExclusive, ReclaimsOnlyDead, AttemptsAccounted, guardVars
  <2>1. \A q \in Procs : section[q] = "in" => q = p
    BY <1>2, Alone DEF Inside
  <2>2. lease \notin Procs \/ (lease = p /\ ~holds[p])
    BY <1>2 DEF IInv, ReclaimsOnlyDead
  <2>3. LeaseExclusive' /\ ReclaimsOnlyDead'
    BY <1>1, <1>3, <2>1, <2>2, NoneAssumption
    DEF IInv, TypeOK, LeaseExclusive, ReclaimsOnlyDead, guardVars
  <2>4. call[p].tries + call[p].hitches = Attempts
    BY <1>2 DEF IInv, AttemptsAccounted
  <2>5. AttemptsAccounted'
    <3> SUFFICES ASSUME NEW q \in Procs, call'[q].op = "acquire"
                 PROVE  \/ call'[q].tries + call'[q].hitches = Attempts
                        \/ /\ call'[q].tries + call'[q].hitches = Attempts - 1
                           /\ \/ section'[q] = "in" /\ call'[q].step = "rename" /\ lease' = None
                              \/ call'[q].step = "done"
      BY DEF AttemptsAccounted
    <3>1. CASE q = p
      BY <3>1, <2>4, <1>1, <1>2, <1>3, <1>4 DEF TypeOK, guardVars
    <3>2. CASE q # p
      <4>1. call'[q] = call[q]
        BY <3>2, <1>3 DEF IInv, TypeOK
      <4> QED
        BY <4>1, <3>2, <2>1 DEF IInv, AttemptsAccounted
    <3> QED
      BY <3>1, <3>2
  <2> QED
    BY <2>3, <2>5
<1> QED
  BY <1>5, <1>6 DEF IInv

LEMMA ReclaimAndFinishStep == ASSUME IInv, NEW p \in Procs, ReclaimAndFinish(p) PROVE IInv'
<1>1. UNCHANGED <<guardVars, holds, swept, mishaps>> /\ lease' \in {None, lease} /\ Goto(p, "done")
  BY DEF ReclaimAndFinish
<1>2. TypeOK /\ section[p] = "in" /\ call[p].step = "reclaim" /\ "done" \in Steps
  BY DEF IInv, ReclaimAndFinish, At, Steps
<1>3. /\ call' \in [Procs -> Calls]
      /\ call'[p].step = "done" /\ call'[p].op = call[p].op /\ call'[p].tries = call[p].tries
      /\ call'[p].failed = call[p].failed /\ call'[p].hitches = call[p].hitches
      /\ \A q \in Procs \ {p} : call'[q] = call[q]
  BY <1>1, <1>2, GotoTypes
<1>4. TypeOK' /\ GuardKept' /\ CallsMakeSense'
  BY <1>1, <1>3 DEF IInv, TypeOK, GuardTypeOK, GuardKept, Inside, CallsMakeSense, guardVars
<1>5. LeaseExclusive' /\ ReclaimsOnlyDead' /\ AttemptsAccounted'
  <2> SUFFICES ASSUME ~evicted PROVE LeaseExclusive' /\ ReclaimsOnlyDead' /\ AttemptsAccounted'
    BY <1>1 DEF LeaseExclusive, ReclaimsOnlyDead, AttemptsAccounted, guardVars
  <2>1. \A q \in Procs : section[q] = "in" => q = p
    BY <1>2, Alone DEF Inside
  <2>2. lease \notin Procs \/ (lease = p /\ ~holds[p])
    BY <1>2 DEF IInv, ReclaimsOnlyDead
  <2> QED
    BY <1>1, <1>3, <2>1, <2>2, NoneAssumption
    DEF IInv, LeaseExclusive, ReclaimsOnlyDead, AttemptsAccounted, guardVars
<1> QED
  BY <1>4, <1>5 DEF IInv

LEMMA CheckStep == ASSUME IInv, NEW p \in Procs, CheckGuard(p) PROVE IInv'
<1>1. call' = [call EXCEPT ![p] = NoCall] /\ UNCHANGED <<guard, aged, keeper, evicted, lease, holds, swept, mishaps>>
  BY DEF CheckGuard, Begin
<1>2. PICK s \in {"out", "leaving"} : section' = [section EXCEPT ![p] = s]
  BY DEF CheckGuard, MoveTo
<1>3. section[p] = "in" /\ mine' = [mine EXCEPT ![p] = None]
  BY DEF CheckGuard
<1>4. TypeOK' /\ GuardKept'
  BY <1>1, <1>2, <1>3, NoCallIsIdle DEF IInv, TypeOK, GuardTypeOK, Sections, GuardKept, Inside
<1>5. LeaseExclusive' /\ ReclaimsOnlyDead' /\ AttemptsAccounted' /\ CallsMakeSense'
  BY <1>1, <1>2, NoCallIsIdle, AttemptsAssumption DEF IInv, TypeOK, GuardTypeOK, LeaseExclusive, ReclaimsOnlyDead,
       AttemptsAccounted, CallsMakeSense
<1> QED
  BY <1>4, <1>5 DEF IInv

LEMMA RemoveStep == ASSUME IInv, NEW p \in Procs, RemoveGuard(p) PROVE IInv'
<1>1. UNCHANGED leaseVars /\ section[p] = "leaving" /\ section' = [section EXCEPT ![p] = "out"]
  BY DEF RemoveGuard, MoveTo
<1>2. GuardTypeOK' /\ GuardKept'
  BY NoneAssumption DEF IInv, TypeOK, GuardTypeOK, GuardKept, RemoveGuard, Unlink, MoveTo, Inside, Sections
<1>3. evicted => evicted'
  BY DEF RemoveGuard, Unlink
<1>4. TypeOK'
  BY <1>1, <1>2 DEF IInv, TypeOK, leaseVars
<1>5. LeaseExclusive' /\ ReclaimsOnlyDead' /\ AttemptsAccounted' /\ CallsMakeSense'
  BY <1>1, <1>3 DEF IInv, TypeOK, GuardTypeOK, LeaseExclusive, ReclaimsOnlyDead, AttemptsAccounted,
       CallsMakeSense, leaseVars
<1> QED
  BY <1>2, <1>4, <1>5 DEF IInv

LEMMA CrashStep == ASSUME IInv, NEW p \in Procs, Crash(p) PROVE IInv'
<1>1. GuardTypeOK' /\ GuardKept'
  BY CrashKeeps DEF IInv, TypeOK, Crash
<1>2. call' = [call EXCEPT ![p] = NoCall] /\ holds' = [holds EXCEPT ![p] = FALSE]
  BY DEF Crash, Begin
<1>3. /\ section' = [section EXCEPT ![p] = "out"] /\ UNCHANGED evicted
      /\ lease' = IF lease = p THEN Ghost ELSE lease
  BY DEF Crash, GuardCrash, MoveTo
<1>4. TypeOK'
  BY <1>1, <1>2, <1>3, NoCallIsIdle, AttemptsAssumption DEF IInv, TypeOK, Crash, Mishap
<1>5. LeaseExclusive' /\ ReclaimsOnlyDead'
  BY <1>2, <1>3, NoCallIsIdle, GhostAssumption
  DEF IInv, TypeOK, GuardTypeOK, LeaseExclusive, ReclaimsOnlyDead
<1>6. AttemptsAccounted' /\ CallsMakeSense'
  BY <1>2, <1>3, NoCallIsIdle, NoneAssumption, AttemptsAssumption
  DEF IInv, TypeOK, GuardTypeOK, AttemptsAccounted, CallsMakeSense
<1> QED
  BY <1>1, <1>4, <1>5, <1>6 DEF IInv

\* Steps of the guard leave the lease, the calls and the handles alone; nobody
\* enters or leaves a reclaiming step by them.
LEMMA GuardOnly ==
    ASSUME IInv, GuardTypeOK', GuardKept', UNCHANGED leaseVars, evicted => evicted',
           \A q \in Procs : (section'[q] = "in" /\ section[q] # "in") => section[q] = "made",
           \A q \in Procs : section[q] = "in" => section'[q] = "in"
    PROVE  IInv'
<1>1. TypeOK'
  BY DEF IInv, TypeOK, leaseVars
<1>2. LeaseExclusive' /\ AttemptsAccounted' /\ CallsMakeSense'
  BY DEF IInv, LeaseExclusive, AttemptsAccounted, CallsMakeSense, leaseVars
<1>3. ReclaimsOnlyDead'
  BY DEF IInv, ReclaimsOnlyDead, CallsMakeSense, leaseVars
<1> QED
  BY <1>1, <1>2, <1>3 DEF IInv

LEMMA GuardSteps == ASSUME IInv, NEW p \in Procs, GuardStep(p) PROVE IInv'
<1>1. UNCHANGED leaseVars /\ TypeOK /\ GuardTypeOK /\ GuardKept
  BY DEF GuardStep, IInv, TypeOK
<1>2. GuardTypeOK' /\ GuardKept'
  BY <1>1, MakeGuardKeeps, IdentifyKeeps, RemoveStaleKeeps, WaitingKeeps DEF GuardStep, Make
<1>3. evicted => evicted'
  BY DEF GuardStep, Make, MakeGuard, Identify, JudgeStale, RemoveStale, Unlink
<1>4. /\ \A q \in Procs : (section'[q] = "in" /\ section[q] # "in") => section[q] = "made"
      /\ \A q \in Procs : section[q] = "in" => section'[q] = "in"
  BY <1>1 DEF GuardTypeOK, GuardStep, Make, MakeGuard, Identify, JudgeStale, RemoveStale, MoveTo
<1> QED
  BY <1>1, <1>2, <1>3, <1>4, GuardOnly

LEMMA TimeStep == ASSUME IInv, TimePasses PROVE IInv'
<1>1. UNCHANGED leaseVars /\ GuardTypeOK /\ GuardKept /\ UNCHANGED <<section, evicted>>
  BY DEF TimePasses, Age, IInv, TypeOK
<1>2. GuardTypeOK' /\ GuardKept'
  BY <1>1, AgeKeeps DEF TimePasses
<1> QED
  BY <1>1, <1>2, GuardOnly

\* Every step keeps the invariant.
LEMMA Inductive == IInv /\ [Next]_vars => IInv'
<1> SUFFICES ASSUME IInv, [Next]_vars PROVE IInv'
  OBVIOUS
<1>1. CASE TimePasses
  BY <1>1, TimeStep
<1>2. ASSUME NEW p \in Procs, Step(p) PROVE IInv'
  <2>1. CASE Acquire(p) \/ Release(p) \/ Sweep(p) \/ Abandon(p)
    BY <2>1, AcquireStep, ReleaseStep, SweepStep, AbandonStep
  <2>2. CASE GuardStep(p)
    BY <2>2, GuardSteps
  <2>3. CASE Working(p)
    BY <2>3, RenameStep, ReadStep, ReclaimStep, ReclaimAndFinishStep, CheckStep, RemoveStep DEF Working
  <2>4. CASE Hindered(p)
    BY <2>4, HitchStep, ErrorStep DEF Hindered
  <2>5. CASE Crash(p)
    BY <2>5, CrashStep
  <2> QED
    BY <1>2, <2>1, <2>2, <2>3, <2>4, <2>5 DEF Step
<1>3. CASE UNCHANGED vars
  BY <1>3 DEF vars, guardVars, leaseVars, IInv, TypeOK, GuardTypeOK, GuardKept, Inside, LeaseExclusive,
       ReclaimsOnlyDead, AttemptsAccounted, CallsMakeSense
<1> QED
  BY <1>1, <1>2, <1>3 DEF Next

\* The guard, the calls and the lease keep their types in every behaviour.
THEOREM TypeCorrect == Spec => []TypeOK
<1>1. IInv => TypeOK
  BY DEF IInv
<1> QED
  BY <1>1, Initially, Inductive, PTL DEF Spec

\* For any number of processes, crashes and attempts: a process that holds the
\* lease finds it its own, so no two hold it, unless a guard was taken from a
\* living process.
THEOREM Exclusive == Spec => []LeaseExclusive
<1>1. IInv => LeaseExclusive
  BY DEF IInv
<1> QED
  BY <1>1, Initially, Inductive, PTL DEF Spec

\* One attempt is enough for a dead lease: acquire_session_lease gives up only when
\* file operations failed in all its attempts but one, or its guard was lost.
THEOREM AttemptsSuffice == Spec => []FailsOnlyHindered
<1>1. IInv => FailsOnlyHindered
  <2> SUFFICES ASSUME IInv, NEW p \in Procs, call[p].failed, ~evicted
               PROVE  call[p].hitches >= Attempts - 1
    BY DEF FailsOnlyHindered
  <2>1. call[p].op = "acquire" /\ call[p].tries = 0 /\ call[p].hitches \in Nat
    BY DEF IInv, CallsMakeSense, TypeOK, Calls
  <2> QED BY <2>1, AttemptsAssumption DEF IInv, AttemptsAccounted
<1> QED
  BY <1>1, Initially, Inductive, PTL DEF Spec
=============================================================================
