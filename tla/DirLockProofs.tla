--------------------------- MODULE DirLockProofs ---------------------------
(***************************************************************************)
(* Exclusion of the lock file of dir_lock.rs, for any number of contenders *)
(* and deaths at every step, in behaviours in which the gap left by a file *)
(* moved by mistake was not used.                                          *)
(***************************************************************************)
EXTENDS DirLock, TLAPS

\* A file is set aside between the rename and the restore only, and what reaches
\* the restore is not the file that was judged.
AsideOnlyThere ==
    \A p \in Procs :
        /\ aside[p] # None <=> pc[p] \in {"verify", "restore"}
        /\ pc[p] = "restore" => captured[p] # p

\* An open file that is at a place is the file of that place.
Handles ==
    \A q \in Procs :
        /\ captured[q] = "path" => lock # None
        /\ \A r \in Procs : captured[q] = r => aside[r] # None

\* The path is free while a file is mislaid, and no second one is.
OneMislaid ==
    \A q, r \in Procs : Mislaid(q) => lock = None /\ (Mislaid(r) => q = r)

\* The file of p is where a contender that has it open finds it.
At(p, place) ==
    \/ place = "path" /\ lock = p
    \/ place \in Procs /\ Mislaid(place) /\ aside[place] = p

\* Who has the lock has its file.
HolderHasLock ==
    \A p \in Procs : Holder(p) => lock = p \/ \E q \in Procs : At(p, q)

\* The pid a contender has read is that of the file it has open, if that is at the
\* path or mislaid.
ReadTrue ==
    \A q \in Procs : pc[q] = "alive" =>
        /\ captured[q] = "path" => judged[q] = lock
        /\ \A r \in Procs : captured[q] = r /\ Mislaid(r) => judged[q] = aside[r]

\* A contender that has judged an owner dead has not opened a held lock.
Condemned(q) == pc[q] \in {"stat", "rename", "verify", "restore"}

JudgedIsDead ==
    \A p, q \in Procs : Holder(p) /\ Condemned(q) => ~At(p, captured[q])

\* At most one process has the lock or is removing it.
OneHolder == \A p, q \in Procs : Holder(p) /\ Holder(q) => p = q

\* What holds until a gap is used.
Sheltered == OneMislaid /\ HolderHasLock /\ ReadTrue /\ JudgedIsDead /\ OneHolder

IInv == TypeOK /\ AsideOnlyThere /\ Handles /\ (~exposed => Sheltered)

-----------------------------------------------------------------------------
(* Types.                                                                  *)

LEMMA InitTypes == Init => TypeOK
BY DEF Init, TypeOK, Steps

LEMMA NextTypes == TypeOK /\ [Next]_vars => TypeOK'
<1> SUFFICES ASSUME TypeOK, [Next]_vars PROVE TypeOK'
  OBVIOUS
<1> USE DEF TypeOK, Steps, Goto, Return, ReturnWith, Moved
<1>1. ASSUME NEW p \in Procs, Attempt(p) PROVE TypeOK'
  <2>1. CASE Link(p) \/ LinkExists(p) \/ Open(p)
    BY <2>1 DEF Link, LinkExists, Open, GapUsed
  <2>2. CASE ReadOwner(p) \/ OwnerUnreadable(p) \/ OwnerAlive(p)
    BY <2>2 DEF ReadOwner, OwnerUnreadable, OwnerAlive, GapUsed
  <2>3. CASE StatAgain(p) \/ Rename(p)
    BY <2>3 DEF StatAgain, Rename
  <2>4. CASE Verify(p)
    BY <2>4 DEF Verify
  <2>5. CASE Restore(p)
    <3>1. captured' \in [Procs -> Procs \cup {"path", "gone"}]
      <4>1. CASE lock = None
        BY <2>5, <4>1 DEF Restore
      <4>2. CASE lock # None
        BY <2>5, <4>2 DEF Restore
      <4> QED BY <4>1, <4>2
    <3> QED BY <2>5, <3>1 DEF Restore
  <2> QED BY <1>1, <2>1, <2>2, <2>3, <2>4, <2>5 DEF Attempt
<1>2. ASSUME NEW p \in Procs, Release(p) PROVE TypeOK'
  BY <1>2 DEF Release, CheckOwner, Remove
<1>3. ASSUME NEW p \in Procs, Crash(p) PROVE TypeOK'
  BY <1>3 DEF Crash, Buried
<1>4. CASE UNCHANGED vars
  BY <1>4 DEF vars
<1> QED BY <1>1, <1>2, <1>3, <1>4 DEF Next

\* Files hold pids and open files are at known places, for any number of contenders
\* and deaths at any step.
THEOREM TypeCorrect == Spec => []TypeOK
BY InitTypes, NextTypes, PTL DEF Spec

-----------------------------------------------------------------------------
(* Exclusion.                                                              *)

LEMMA InitIInv == Init => IInv
<1> SUFFICES ASSUME Init PROVE IInv
  OBVIOUS
<1>1. TypeOK
  BY InitTypes
<1>2. AsideOnlyThere /\ Handles
  BY NamesAssumption DEF Init, AsideOnlyThere, Handles
<1>3. Sheltered
  BY NamesAssumption DEF Init, Sheltered, OneMislaid, HolderHasLock, ReadTrue, JudgedIsDead,
       OneHolder, Holder, Condemned, Mislaid
<1> QED BY <1>1, <1>2, <1>3 DEF IInv

\* A step that moves no file and reads none: the handle of p may be closed or
\* opened on the path, and p is not a contender past its judgement unless it was.
LEMMA QuietKeeps ==
  ASSUME IInv, NEW p \in Procs,
         LinkExists(p) \/ Open(p) \/ OwnerUnreadable(p) \/ StatAgain(p) \/ CheckOwner(p)
  PROVE  AsideOnlyThere' /\ Handles' /\ (~exposed' => Sheltered')
<1> USE NamesAssumption DEF IInv, TypeOK, Goto, Return, ReturnWith
<1>1. UNCHANGED <<lock, aside, exposed>> /\ aside[p] = None
  BY DEF LinkExists, Open, OwnerUnreadable, StatAgain, CheckOwner, AsideOnlyThere
<1>2. /\ \A q \in Procs : q # p => captured'[q] = captured[q] /\ judged'[q] = judged[q] /\ pc'[q] = pc[q]
      /\ captured'[p] # captured[p] => captured'[p] = "gone" \/ (captured'[p] = "path" /\ lock # None)
      /\ pc'[p] \notin {"alive", "verify", "restore"} /\ pc[p] \notin {"verify", "restore"}
  BY DEF LinkExists, Open, OwnerUnreadable, StatAgain, CheckOwner
<1>3. AsideOnlyThere' /\ Handles'
  BY <1>1, <1>2 DEF AsideOnlyThere, Handles
<1>4. ASSUME ~exposed PROVE Sheltered'
  <2>1. \A q \in Procs : Mislaid(q)' <=> Mislaid(q)
    BY <1>1, <1>2 DEF Mislaid
  <2>2. \A q \in Procs : Holder(q)' => Holder(q)
    BY <1>2 DEF LinkExists, Open, OwnerUnreadable, StatAgain, CheckOwner, Holder
  <2>3. \A q \in Procs : Condemned(q)' => Condemned(q) /\ captured'[q] = captured[q]
    BY <1>2 DEF LinkExists, Open, OwnerUnreadable, StatAgain, CheckOwner, Condemned
  <2>4. OneMislaid' /\ OneHolder' /\ ReadTrue'
    BY <1>1, <1>2, <1>4, <2>1, <2>2 DEF Sheltered, OneMislaid, OneHolder, ReadTrue
  <2>5. \A q \in Procs : \A x : At(q, x)' <=> At(q, x)
    BY <1>1, <2>1 DEF At
  <2>6. HolderHasLock' /\ JudgedIsDead'
    BY <1>1, <1>4, <2>2, <2>3, <2>5 DEF Sheltered, HolderHasLock, JudgedIsDead
  <2> QED BY <2>4, <2>6 DEF Sheltered
<1> QED BY <1>1, <1>3, <1>4

\* What is read through the path is the pid of the open file if that is there; when
\* it is mislaid the path is free, and the reading of an absent owner uses the gap.
LEMMA ReadOwnerKeeps ==
  ASSUME IInv, NEW p \in Procs, ReadOwner(p)
  PROVE  AsideOnlyThere' /\ Handles' /\ (~exposed' => Sheltered')
<1> USE NamesAssumption DEF IInv, TypeOK, Goto
<1>1. /\ UNCHANGED <<lock, aside, captured>> /\ pc[p] = "read" /\ pc' = [pc EXCEPT ![p] = "alive"]
      /\ judged' = [judged EXCEPT ![p] = lock]
  BY DEF ReadOwner
<1>2. AsideOnlyThere' /\ Handles'
  BY <1>1 DEF AsideOnlyThere, Handles
<1>3. ASSUME ~exposed' PROVE Sheltered'
  <2>1. ~exposed /\ (lock = None => \A q \in Procs : ~Mislaid(q))
    BY <1>3 DEF ReadOwner, GapUsed
  <2>2. /\ \A q \in Procs : (Mislaid(q)' <=> Mislaid(q)) /\ (Holder(q)' <=> Holder(q))
        /\ \A q \in Procs : Condemned(q)' => Condemned(q)
        /\ \A q \in Procs : \A x : At(q, x)' <=> At(q, x)
    BY <1>1 DEF Mislaid, Holder, Condemned, At
  <2>3. OneMislaid' /\ OneHolder' /\ HolderHasLock' /\ JudgedIsDead'
    BY <1>1, <2>1, <2>2 DEF Sheltered, OneMislaid, OneHolder, HolderHasLock, JudgedIsDead
  <2>4. \A q \in Procs : ~Mislaid(q) \/ lock = None
    BY <2>1 DEF Sheltered, OneMislaid
  <2>5. ReadTrue'
    BY <1>1, <2>1, <2>2, <2>4 DEF Sheltered, ReadTrue
  <2> QED BY <2>3, <2>5 DEF Sheltered
<1> QED BY <1>2, <1>3

\* The open file of a contender that takes its owner for dead is not held: the pid
\* it has read would be the holder's.
LEMMA OwnerAliveKeeps ==
  ASSUME IInv, NEW p \in Procs, OwnerAlive(p)
  PROVE  AsideOnlyThere' /\ Handles' /\ (~exposed' => Sheltered')
<1> USE NamesAssumption DEF IInv, TypeOK, Goto, Return, ReturnWith
<1>1. /\ UNCHANGED <<lock, aside, exposed>> /\ pc[p] = "alive" /\ aside[p] = None
      /\ \A q \in Procs : q # p => captured'[q] = captured[q] /\ judged'[q] = judged[q] /\ pc'[q] = pc[q]
  BY DEF OwnerAlive, AsideOnlyThere
<1>2. \/ pc'[p] = "idle" /\ captured'[p] = "gone"
      \/ pc'[p] = "stat" /\ captured'[p] = captured[p] /\ judged[p] \notin Procs
  BY DEF OwnerAlive, TakenForDead
<1>3. AsideOnlyThere' /\ Handles'
  BY <1>1, <1>2 DEF AsideOnlyThere, Handles
<1>4. ASSUME ~exposed PROVE Sheltered'
  <2>1. /\ \A q \in Procs : (Mislaid(q)' <=> Mislaid(q)) /\ (Holder(q)' <=> Holder(q))
    BY <1>1, <1>2 DEF Mislaid, Holder
  <2>2. \A q \in Procs : \A x : At(q, x)' <=> At(q, x)
    BY <1>1, <2>1 DEF At
  <2>3. OneMislaid' /\ OneHolder' /\ HolderHasLock'
    BY <1>1, <1>4, <2>1, <2>2 DEF Sheltered, OneMislaid, OneHolder, HolderHasLock
  <2>4. ReadTrue'
    BY <1>1, <1>2, <1>4, <2>1 DEF Sheltered, ReadTrue
  <2>5. ASSUME NEW h \in Procs, judged[p] \notin Procs PROVE ~At(h, captured[p])
    BY <1>1, <1>4, <2>5 DEF Sheltered, ReadTrue, At
  <2>6. JudgedIsDead'
    <3> SUFFICES ASSUME NEW h \in Procs, NEW q \in Procs, Holder(h)', Condemned(q)'
                 PROVE  ~At(h, captured[q])'
      BY DEF JudgedIsDead
    <3>1. CASE q = p
      <4>1. captured'[p] = captured[p] /\ judged[p] \notin Procs
        BY <1>2, <3>1 DEF Condemned
      <4> QED BY <2>2, <2>5, <3>1, <4>1
    <3>2. CASE q # p
      BY <1>1, <1>4, <2>1, <2>2, <3>2 DEF Sheltered, JudgedIsDead, Condemned
    <3> QED BY <3>1, <3>2
  <2> QED BY <2>3, <2>4, <2>6 DEF Sheltered
<1> QED BY <1>1, <1>3, <1>4

\* A lock is linked when there is no holder, unless through a gap, in a file nobody
\* has open.
LEMMA LinkKeeps ==
  ASSUME IInv, NEW p \in Procs, Link(p)
  PROVE  AsideOnlyThere' /\ Handles' /\ (~exposed' => Sheltered')
<1> USE NamesAssumption DEF IInv, TypeOK, Goto
<1>1. /\ lock = None /\ lock' = p /\ pc[p] = "idle" /\ pc' = [pc EXCEPT ![p] = "holding"]
      /\ UNCHANGED <<aside, captured, judged>>
  BY DEF Link
<1>2. AsideOnlyThere' /\ Handles'
  BY <1>1 DEF AsideOnlyThere, Handles
<1>3. ASSUME ~exposed' PROVE Sheltered'
  <2>1. ~exposed /\ \A q \in Procs : ~Mislaid(q)
    BY <1>3 DEF Link, GapUsed
  <2>2. \A q \in Procs : ~Mislaid(q)'
    BY <1>1, <2>1 DEF Mislaid
  <2>3. \A q \in Procs : ~Holder(q)
    BY <1>1, <2>1 DEF Sheltered, HolderHasLock, At
  <2>4. \A q \in Procs : Holder(q)' <=> q = p
    BY <1>1, <2>3 DEF Holder
  <2>5. \A q \in Procs : captured'[q] # "path"
    BY <1>1 DEF Handles
  <2> QED BY <1>1, <2>2, <2>4, <2>5
          DEF Sheltered, OneMislaid, HolderHasLock, ReadTrue, JudgedIsDead, OneHolder, At
<1> QED BY <1>2, <1>3

\* A file that is moved aside is still the holder's, and mislaid: who judged has not
\* opened it.
LEMMA RenameKeeps ==
  ASSUME IInv, NEW p \in Procs, Rename(p)
  PROVE  AsideOnlyThere' /\ Handles' /\ (~exposed' => Sheltered')
<1> USE NamesAssumption DEF IInv, TypeOK, Goto, Return, ReturnWith
<1>1. pc[p] = "rename" /\ aside[p] = None /\ exposed' = exposed
  BY DEF Rename, AsideOnlyThere
<1>2. CASE lock = None
  <2>1. /\ UNCHANGED <<lock, aside>> /\ pc' = [pc EXCEPT ![p] = "idle"]
        /\ captured' = [captured EXCEPT ![p] = "gone"] /\ judged' = [judged EXCEPT ![p] = None]
    BY <1>2 DEF Rename
  <2>2. AsideOnlyThere' /\ Handles'
    BY <1>1, <2>1 DEF AsideOnlyThere, Handles
  <2>3. /\ \A q \in Procs : (Mislaid(q)' <=> Mislaid(q)) /\ (Holder(q)' <=> Holder(q))
        /\ \A q \in Procs : Condemned(q)' => Condemned(q) /\ q # p
    BY <1>1, <2>1 DEF Mislaid, Holder, Condemned
  <2>4. \A q \in Procs : \A x : At(q, x)' <=> At(q, x)
    BY <2>1, <2>3 DEF At
  <2>5. ASSUME ~exposed PROVE Sheltered'
    BY <2>1, <2>3, <2>4, <2>5
       DEF Sheltered, OneMislaid, HolderHasLock, ReadTrue, JudgedIsDead, OneHolder
  <2> QED BY <1>1, <2>2, <2>5
<1>3. CASE lock # None
  <2>1. /\ lock' = None /\ aside' = [aside EXCEPT ![p] = lock]
        /\ captured' = [q \in Procs |-> IF captured[q] = "path" THEN p ELSE captured[q]]
        /\ pc' = [pc EXCEPT ![p] = "verify"] /\ judged' = judged
    BY <1>3 DEF Rename, Moved
  <2>2. \A q \in Procs : captured[q] # p
    BY <1>1 DEF Handles
  <2>3. AsideOnlyThere'
    BY <1>1, <1>3, <2>1 DEF AsideOnlyThere
  <2>4. Handles'
    BY <1>3, <2>1 DEF Handles
  <2>5. ASSUME ~exposed PROVE Sheltered'
    <3>1. \A q \in Procs : ~Mislaid(q)
      BY <1>3, <2>5 DEF Sheltered, OneMislaid
    <3>2. \A q \in Procs : q # p => ~Mislaid(q)'
      BY <2>1, <3>1 DEF Mislaid
    <3>3. \A q \in Procs : (Holder(q)' <=> Holder(q)) /\ (Condemned(q)' <=> Condemned(q))
      BY <1>1, <2>1 DEF Holder, Condemned
    <3>4. \A q \in Procs : Holder(q) => lock = q
      BY <2>5, <3>1 DEF Sheltered, HolderHasLock, At
    <3>5. \A q \in Procs : Holder(q) => captured[p] # "path"
      BY <1>1, <2>5, <3>4 DEF Sheltered, JudgedIsDead, Condemned, At
    <3>6. \A q \in Procs : Holder(q) => At(q, p)'
      BY <2>1, <2>2, <3>4, <3>5 DEF At, Mislaid
    <3>7. OneMislaid' /\ OneHolder' /\ HolderHasLock'
      BY <2>1, <2>5, <3>2, <3>3, <3>6 DEF Sheltered, OneMislaid, OneHolder, HolderHasLock
    <3>8. ReadTrue'
      BY <1>1, <2>1, <2>2, <2>5, <3>2 DEF Sheltered, ReadTrue
    <3>9. JudgedIsDead'
      <4> SUFFICES ASSUME NEW h \in Procs, NEW q \in Procs, Holder(h), Condemned(q), At(h, captured[q])'
                   PROVE  FALSE
        BY <3>3 DEF JudgedIsDead
      <4>1. captured'[q] = p
        BY <2>1, <3>2 DEF At
      <4>2. captured[q] = "path"
        BY <2>1, <2>2, <4>1
      <4> QED BY <2>5, <3>4, <4>2 DEF Sheltered, JudgedIsDead, At
    <3> QED BY <3>7, <3>8, <3>9 DEF Sheltered
  <2> QED BY <1>1, <2>3, <2>4, <2>5
<1> QED BY <1>2, <1>3

\* A file that is deleted is the judged one, which is not mislaid.
LEMMA VerifyKeeps ==
  ASSUME IInv, NEW p \in Procs, Verify(p)
  PROVE  AsideOnlyThere' /\ Handles' /\ (~exposed' => Sheltered')
<1> USE NamesAssumption DEF IInv, TypeOK, Goto, ReturnWith
<1>1. pc[p] = "verify" /\ UNCHANGED <<lock, exposed>>
  BY DEF Verify
<1>2. CASE captured[p] = p
  <2>1. /\ aside' = [aside EXCEPT ![p] = None] /\ pc' = [pc EXCEPT ![p] = "idle"]
        /\ captured' = [q \in Procs |-> IF captured[q] = p THEN "gone" ELSE captured[q]]
        /\ judged' = [judged EXCEPT ![p] = None]
    BY <1>2 DEF Verify, Moved
  <2>2. AsideOnlyThere' /\ Handles'
    BY <1>1, <2>1 DEF AsideOnlyThere, Handles
  <2>3. ASSUME NEW q \in Procs
        PROVE  /\ Mislaid(q)' <=> Mislaid(q)
               /\ Mislaid(q) => aside'[q] = aside[q]
               /\ Holder(q)' <=> Holder(q)
               /\ Condemned(q)' => Condemned(q)
    BY <1>1, <1>2, <2>1 DEF Mislaid, Holder, Condemned
  <2>4. \A q \in Procs : \A x : At(q, x)' <=> At(q, x)
    BY <1>1, <2>1, <2>3 DEF At
  <2>5. \A q \in Procs : captured'[q] = captured[q] \/ captured'[q] = "gone"
    BY <2>1
  <2>6. ASSUME ~exposed PROVE Sheltered'
    <3>1. OneMislaid' /\ HolderHasLock' /\ OneHolder'
      BY <1>1, <2>3, <2>4, <2>6 DEF Sheltered, OneMislaid, HolderHasLock, OneHolder
    <3>2. ReadTrue'
      BY <1>1, <2>1, <2>3, <2>6 DEF Sheltered, ReadTrue
    <3>3. JudgedIsDead'
      <4> SUFFICES ASSUME NEW h \in Procs, NEW q \in Procs, Holder(h), Condemned(q), At(h, captured'[q])
                   PROVE  FALSE
        BY <2>3, <2>4 DEF JudgedIsDead, At
      <4> QED BY <2>5, <2>6 DEF Sheltered, JudgedIsDead, At
    <3> QED BY <3>1, <3>2, <3>3 DEF Sheltered
  <2> QED BY <1>1, <2>2, <2>6
<1>3. CASE captured[p] # p
  <2>1. UNCHANGED <<captured, judged, aside>> /\ pc' = [pc EXCEPT ![p] = "restore"]
    BY <1>3 DEF Verify
  <2>2. AsideOnlyThere' /\ Handles'
    BY <1>1, <1>3, <2>1 DEF AsideOnlyThere, Handles
  <2>3. \A q \in Procs : /\ Mislaid(q)' <=> Mislaid(q)
                         /\ Holder(q)' <=> Holder(q)
                         /\ Condemned(q)' <=> Condemned(q)
    BY <1>1, <2>1 DEF Mislaid, Holder, Condemned
  <2>4. \A q \in Procs : \A x : At(q, x)' <=> At(q, x)
    BY <1>1, <2>1, <2>3 DEF At
  <2>5. ASSUME ~exposed PROVE Sheltered'
    BY <1>1, <2>1, <2>3, <2>4, <2>5
       DEF Sheltered, OneMislaid, HolderHasLock, ReadTrue, JudgedIsDead, OneHolder
  <2> QED BY <1>1, <2>2, <2>5
<1> QED BY <1>2, <1>3

\* What is put back is the mislaid file; whoever has it open finds it at the path.
LEMMA RestoreKeeps ==
  ASSUME IInv, NEW p \in Procs, Restore(p)
  PROVE  AsideOnlyThere' /\ Handles' /\ (~exposed' => Sheltered')
<1> USE NamesAssumption DEF IInv, TypeOK, Goto, ReturnWith
<1>1. /\ pc[p] = "restore" /\ pc' = [pc EXCEPT ![p] = "idle"] /\ exposed' = exposed
      /\ aside[p] # None /\ captured[p] # p
      /\ aside' = [aside EXCEPT ![p] = None] /\ judged' = [judged EXCEPT ![p] = None]
  BY DEF Restore, AsideOnlyThere
<1>2. AsideOnlyThere'
  <2>1. \A q \in Procs : captured'[q] \in {captured[q], "path", "gone"}
    BY DEF Restore, Moved
  <2> QED BY <1>1, <2>1 DEF AsideOnlyThere
<1>3. CASE lock # None
  <2>1. lock' = lock /\ captured' = [[q \in Procs |-> IF captured[q] = p THEN "gone" ELSE captured[q]]
                                       EXCEPT ![p] = "gone"]
    BY <1>3 DEF Restore, Moved
  <2>2. Handles'
    BY <1>1, <1>3, <2>1 DEF Handles
  <2>3. exposed
    BY <1>1, <1>3 DEF Sheltered, OneMislaid, Mislaid
  <2> QED BY <1>1, <1>2, <2>2, <2>3
<1>4. CASE lock = None
  <2>1. lock' = aside[p] /\ captured' = [[q \in Procs |-> IF captured[q] = p THEN "path" ELSE captured[q]]
                                           EXCEPT ![p] = "gone"]
    BY <1>4 DEF Restore, Moved
  <2>2. Handles'
    BY <1>1, <1>4, <2>1 DEF Handles
  <2>3. ASSUME ~exposed PROVE Sheltered'
    <3>1. Mislaid(p) /\ \A q \in Procs : Mislaid(q) => q = p
      BY <1>1, <2>3 DEF Sheltered, OneMislaid, Mislaid
    <3>2. \A q \in Procs : ~Mislaid(q)'
      BY <1>1, <2>1, <3>1 DEF Mislaid
    <3>3. /\ \A q \in Procs : Holder(q)' <=> Holder(q)
          /\ \A q \in Procs : Condemned(q)' => Condemned(q) /\ q # p
      BY <1>1 DEF Holder, Condemned
    <3>4. \A q \in Procs : Holder(q) => aside[p] = q
      BY <1>4, <2>3, <3>1 DEF Sheltered, HolderHasLock, At
    <3>5. OneMislaid' /\ OneHolder' /\ HolderHasLock'
      BY <2>1, <2>3, <3>2, <3>3, <3>4 DEF Sheltered, OneMislaid, OneHolder, HolderHasLock
    <3>6. \A q \in Procs : captured[q] # "path"
      BY <1>4 DEF Handles
    <3>7. ReadTrue'
      BY <1>1, <2>1, <2>3, <3>1, <3>2, <3>6 DEF Sheltered, ReadTrue
    <3>8. JudgedIsDead'
      <4> SUFFICES ASSUME NEW h \in Procs, NEW q \in Procs, Holder(h), Condemned(q), q # p,
                          captured'[q] = "path"
                   PROVE  FALSE
        BY <3>2, <3>3 DEF JudgedIsDead, At
      <4>1. captured[q] = p
        BY <2>1, <3>6
      <4> QED BY <2>3, <3>1, <3>4, <4>1 DEF Sheltered, JudgedIsDead, At
    <3> QED BY <3>5, <3>7, <3>8 DEF Sheltered
  <2> QED BY <1>1, <1>2, <2>2, <2>3
<1> QED BY <1>3, <1>4

\* Nobody has the lock once its holder has removed it.
LEMMA RemoveKeeps ==
  ASSUME IInv, NEW p \in Procs, Remove(p)
  PROVE  AsideOnlyThere' /\ Handles' /\ (~exposed' => Sheltered')
<1> USE NamesAssumption DEF IInv, TypeOK, Goto
<1>1. /\ Holder(p) /\ pc' = [pc EXCEPT ![p] = "idle"] /\ lock' = None
      /\ captured' = [q \in Procs |-> IF captured[q] = "path" THEN "gone" ELSE captured[q]]
      /\ UNCHANGED <<aside, judged, exposed>>
  BY DEF Remove, Holder, Moved
<1>2. AsideOnlyThere' /\ Handles'
  BY <1>1 DEF AsideOnlyThere, Handles, Holder
<1>3. ASSUME ~exposed PROVE Sheltered'
  <2>1. \A q \in Procs : ~Holder(q)'
    BY <1>1, <1>3 DEF Sheltered, OneHolder, Holder
  <2>2. \A q \in Procs : Mislaid(q)' <=> Mislaid(q)
    BY <1>1 DEF Mislaid
  <2>3. OneMislaid'
    BY <1>1, <1>3, <2>2 DEF Sheltered, OneMislaid
  <2>4. ReadTrue'
    BY <1>1, <1>3, <2>2 DEF Sheltered, ReadTrue
  <2> QED BY <2>1, <2>3, <2>4 DEF Sheltered, HolderHasLock, JudgedIsDead, OneHolder
<1> QED BY <1>1, <1>2, <1>3

\* A death turns the pid of the dead into a dead one wherever it stands; the death
\* of a process that has mislaid a file uses the gap.
LEMMA CrashKeeps ==
  ASSUME IInv, NEW p \in Procs, Crash(p)
  PROVE  AsideOnlyThere' /\ Handles' /\ (~exposed' => Sheltered')
<1> USE NamesAssumption DEF IInv, TypeOK, Goto
<1>1. /\ lock' = (IF lock = p THEN Ghost ELSE lock) /\ pc' = [pc EXCEPT ![p] = "idle"]
      /\ aside' = [q \in Procs |-> IF q = p THEN None ELSE IF aside[q] = p THEN Ghost ELSE aside[q]]
      /\ judged' = [q \in Procs |-> IF q = p THEN None ELSE IF judged[q] = p THEN Ghost ELSE judged[q]]
      /\ captured' = [[q \in Procs |-> IF captured[q] = p THEN "gone" ELSE captured[q]]
                        EXCEPT ![p] = "gone"]
      /\ exposed' = (exposed \/ Mislaid(p))
  BY DEF Crash, Buried, Moved
<1>2. AsideOnlyThere'
  BY <1>1 DEF AsideOnlyThere
<1>3. Handles'
  BY <1>1 DEF Handles
<1>4. ASSUME ~exposed' PROVE Sheltered'
  <2>1. ~exposed /\ ~Mislaid(p)
    BY <1>1, <1>4
  <2>2. \A q \in Procs : Mislaid(q)' <=> Mislaid(q)
    BY <1>1, <2>1 DEF Mislaid
  <2>3. /\ \A q \in Procs : Holder(q)' <=> Holder(q) /\ q # p
        /\ \A q \in Procs : Condemned(q)' => Condemned(q) /\ q # p
    BY <1>1 DEF Holder, Condemned
  <2>4. \A q \in Procs : \A x : q # p => (At(q, x)' <=> At(q, x))
    BY <1>1, <2>1, <2>2 DEF At
  <2>5. OneMislaid' /\ OneHolder'
    BY <1>1, <2>1, <2>2, <2>3 DEF Sheltered, OneMislaid, OneHolder
  <2>6. HolderHasLock'
    BY <1>1, <2>1, <2>3, <2>4 DEF Sheltered, HolderHasLock
  <2>7. ReadTrue'
    BY <1>1, <2>1, <2>2 DEF Sheltered, ReadTrue
  <2>8. JudgedIsDead'
    <3> SUFFICES ASSUME NEW h \in Procs, NEW q \in Procs, Holder(h), h # p, Condemned(q), q # p,
                        At(h, captured'[q])
                 PROVE  FALSE
      BY <2>2, <2>3, <2>4 DEF JudgedIsDead, At
    <3>1. captured'[q] = captured[q] \/ captured'[q] = "gone"
      BY <1>1
    <3> QED BY <2>1, <3>1 DEF Sheltered, JudgedIsDead, At
  <2> QED BY <2>5, <2>6, <2>7, <2>8 DEF Sheltered
<1> QED BY <1>2, <1>3, <1>4

LEMMA NextIInv == IInv /\ [Next]_vars => IInv'
<1> SUFFICES ASSUME IInv, [Next]_vars
             PROVE  AsideOnlyThere' /\ Handles' /\ (~exposed' => Sheltered')
  BY NextTypes DEF IInv
<1>1. ASSUME NEW p \in Procs, Attempt(p)
      PROVE  AsideOnlyThere' /\ Handles' /\ (~exposed' => Sheltered')
  BY <1>1, LinkKeeps, QuietKeeps, ReadOwnerKeeps, OwnerAliveKeeps, RenameKeeps, VerifyKeeps,
     RestoreKeeps DEF Attempt
<1>2. ASSUME NEW p \in Procs, Release(p) \/ Crash(p)
      PROVE  AsideOnlyThere' /\ Handles' /\ (~exposed' => Sheltered')
  BY <1>2, QuietKeeps, RemoveKeeps, CrashKeeps DEF Release
<1>3. CASE UNCHANGED vars
  <2> USE <1>3 DEF vars, IInv
  <2>1. AsideOnlyThere' /\ Handles'
    BY DEF AsideOnlyThere, Handles
  <2>2. OneMislaid <=> OneMislaid'
    BY DEF OneMislaid, Mislaid
  <2>3. HolderHasLock <=> HolderHasLock'
    BY DEF HolderHasLock, Holder, At, Mislaid
  <2>4. ReadTrue <=> ReadTrue'
    BY DEF ReadTrue, Mislaid
  <2>5. (JudgedIsDead <=> JudgedIsDead') /\ (OneHolder <=> OneHolder')
    BY DEF JudgedIsDead, OneHolder, Condemned, Holder, At, Mislaid
  <2> QED BY <2>1, <2>2, <2>3, <2>4, <2>5 DEF Sheltered
<1> QED BY <1>1, <1>2, <1>3 DEF Next

LEMMA AlwaysIInv == Spec => []IInv
BY InitIInv, NextIInv, PTL DEF Spec

\* Of any number of contenders that may die at any step at most one holds the lock,
\* until the gap left by a file moved by mistake is used.
THEOREM Exclusion == Spec => []MutualExclusion
<1>1. IInv => MutualExclusion
  BY DEF IInv, Sheltered, OneHolder, MutualExclusion
<1> QED BY <1>1, AlwaysIInv, PTL

\* Until a gap is used no contender destroys a lock that is held: it is at the path,
\* or aside where the contender will find that it is not the file it has opened.
THEOREM HeldLocksExist == Spec => []HeldLockExists
<1>1. IInv => HeldLockExists
  <2> SUFFICES ASSUME IInv, ~exposed, NEW p \in Procs, Holder(p), lock # p
               PROVE  lock = None /\ \E q \in Procs : Mislaid(q) /\ aside[q] = p
    BY DEF HeldLockExists
  <2>1. PICK q \in Procs : At(p, q)
    BY DEF IInv, Sheltered, HolderHasLock
  <2>2. Mislaid(q) /\ aside[q] = p
    BY <2>1, NamesAssumption DEF At
  <2> QED BY <2>2 DEF IInv, Sheltered, OneMislaid
<1> QED BY <1>1, AlwaysIInv, PTL

\* Until a gap is used, a release removes the releasing process's own lock: the
\* unconditional one of the bootstrap lock, and the one of the launch lock although
\* the path may change between the comparison of the pid and the removal.
THEOREM ReleasesOwn == Spec => ReleaseRemovesOwn
<1>1. ASSUME IInv, NEW p \in Procs, ~exposed, Holder(p), lock # None PROVE lock = p
  BY <1>1, NamesAssumption DEF IInv, Sheltered, HolderHasLock, OneMislaid, At
<1>2. IInv /\ [Next]_vars =>
        [\A p \in Procs :
            ~exposed /\ Holder(p) /\ ~Holder(p)' /\ lock # None /\ lock' = None => lock = p]_vars
  BY <1>1
<1> QED BY <1>2, AlwaysIInv, PTL DEF Spec, ReleaseRemovesOwn
=============================================================================
