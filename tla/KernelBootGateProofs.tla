------------------------ MODULE KernelBootGateProofs ------------------------
(***************************************************************************)
(* KernelBootGate keeps its promises for every number of startups and of   *)
(* permits.  The permit count needs two facts beside it: a startup is in   *)
(* the queue, in the hands of a releaser or granted only after it queued,  *)
(* and it is in at most one of these places.                               *)
(***************************************************************************)
EXTENDS KernelBootGate, FiniteSetTheorems, SequenceTheorems, TLAPS

Queued(b) == \E i \in DOMAIN waiters : waiters[i] = b

\* A startup that is queued, taken from the queue or granted has queued before.
QueuedFirst ==
    \A b \in Boots :
        (Queued(b) \/ b \in granted
            \/ \E c \in Boots : pc[c] = "granting" /\ grantee[c] = b)
        => pc[b] \notin {"idle", "queueing"}

\* The queue has no duplicates, and no two releasers took the same waiter.
NoDuplicates ==
    /\ \A i, j \in DOMAIN waiters : waiters[i] = waiters[j] => i = j
    /\ \A c, d \in Boots :
          pc[c] = "granting" /\ pc[d] = "granting" /\ grantee[c] = grantee[d]
              => c = d
    /\ \A c \in Boots : pc[c] = "granting" => ~Queued(grantee[c])

Types ==
    /\ available \in Nat
    /\ waiters \in Seq(Boots)
    /\ granted \subseteq Boots
    /\ aborted \subseteq MayAbort
    /\ pc \in [Boots -> Steps]
    /\ grantee \in [Boots -> Boots]

IInv == Types /\ QueuedFirst /\ NoDuplicates /\ GrantedOnce /\ NoExtraPermit

\* The holders are finitely many, so their number is a natural number.
LEMMA HoldersFinite ==
    /\ IsFiniteSet(Holders) /\ Cardinality(Holders) \in Nat
    /\ IsFiniteSet(Holders') /\ Cardinality(Holders') \in Nat
<1>1. Holders \subseteq Boots /\ Holders' \subseteq Boots
  BY DEF Holders
<1> QED
  BY <1>1, BootsAssumption, FS_Subset, FS_CardinalityType

\* What leaving the queue at position i does to it.
LEMMA RemoveAtElements ==
    ASSUME NEW s \in Seq(Boots), NEW i \in DOMAIN s
    PROVE  /\ RemoveAt(s, i) \in Seq(Boots)
           /\ \A j \in DOMAIN RemoveAt(s, i) :
                 \E k \in DOMAIN s : k = (IF j < i THEN j ELSE j + 1)
                                     /\ RemoveAt(s, i)[j] = s[k]
<1>1. Len(s) \in Nat /\ DOMAIN s = 1..Len(s) /\ i \in 1..Len(s)
  BY LenProperties
<1> DEFINE a == SubSeq(s, 1, i - 1)
           b == SubSeq(s, i + 1, Len(s))
<1>2. a \in Seq(Boots) /\ Len(a) = i - 1 /\ \A k \in 1..(i - 1) : a[k] = s[k]
  BY <1>1
<1>3. b \in Seq(Boots) /\ Len(b) = Len(s) - i
      /\ \A k \in 1..(Len(s) - i) : b[k] = s[i + k]
  BY <1>1
<1> DEFINE c == a \o b
<1>4. RemoveAt(s, i) = c
  BY DEF RemoveAt
<1>5. c \in Seq(Boots) /\ Len(c) = Len(a) + Len(b)
      /\ \A k \in 1..(Len(a) + Len(b)) :
            c[k] = IF k <= Len(a) THEN a[k] ELSE b[k - Len(a)]
  BY <1>2, <1>3, ConcatProperties, Zenon
<1> HIDE DEF a, b, c
<1>6. Len(c) = Len(s) - 1 /\ DOMAIN c = 1..(Len(s) - 1)
  BY <1>1, <1>2, <1>3, <1>5
<1>7. ASSUME NEW j \in 1..(Len(s) - 1)
      PROVE  \E k \in DOMAIN s : k = (IF j < i THEN j ELSE j + 1)
                                 /\ c[j] = s[k]
  <2>1. CASE j < i
    <3>1. j \in 1..(Len(a) + Len(b)) /\ j <= Len(a) /\ j \in 1..(i - 1)
      BY <1>1, <1>2, <1>3, <2>1
    <3>2. c[j] = s[j]
      BY <1>2, <1>5, <3>1
    <3> QED
      BY <1>1, <2>1, <3>2
  <2>2. CASE ~(j < i)
    <3>1. /\ j \in 1..(Len(a) + Len(b)) /\ ~(j <= Len(a))
          /\ j - Len(a) \in 1..(Len(s) - i) /\ i + (j - Len(a)) = j + 1
      BY <1>1, <1>2, <1>3, <2>2
    <3>2. c[j] = s[j + 1]
      BY <1>3, <1>5, <3>1
    <3> QED
      BY <1>1, <2>2, <3>2
  <2> QED
    BY <2>1, <2>2
<1> QED
  BY <1>4, <1>5, <1>6, <1>7

-----------------------------------------------------------------------------
\* Initially nobody has queued and every permit is available.
LEMMA InitIInv == Init => IInv
<1> SUFFICES ASSUME Init PROVE IInv
  OBVIOUS
<1>1. Types
  BY PermitsAssumption DEF Init, Types, Steps
<1>2. QueuedFirst /\ NoDuplicates /\ GrantedOnce
  BY DEF Init, QueuedFirst, NoDuplicates, GrantedOnce, Queued
<1>3. Holders = {}
  BY DEF Init, Holders
<1>4. NoExtraPermit
  BY <1>3, FS_EmptySet, PermitsAssumption DEF Init, NoExtraPermit
<1> QED
  BY <1>1, <1>2, <1>4 DEF IInv

\* Every step keeps the types of the variables.
LEMMA NextTypes == ASSUME Types, Next PROVE Types'
<1> USE DEF Types, Goto, Steps
<1> PICK b \in Boots : Step(b) \/ Abort(b)
  BY DEF Next
<1>1. ASSUME Enqueue(b) PROVE Types'
  BY <1>1, AppendProperties DEF Enqueue
<1>2. ASSUME Leave(b) PROVE Types'
  <2>1. waiters' \in Seq(Boots)
    BY <1>2, RemoveAtElements DEF Leave
  <2> QED
    BY <1>2, <2>1 DEF Leave
<1>3. ASSUME ReleaseNext(b) PROVE Types'
  <2>1. waiters # <<>> /\ Head(waiters) \in Boots /\ Tail(waiters) \in Seq(Boots)
    BY <1>3, HeadTailProperties DEF ReleaseNext
  <2> QED
    BY <1>3, <2>1 DEF ReleaseNext
<1>4. ASSUME Settle(b) PROVE Types'
  BY <1>4 DEF Settle
<1>5. ASSUME Abort(b) PROVE Types'
  BY <1>5 DEF Abort
<1>6. ASSUME AcquireRejected(b) \/ AcquireFree(b) \/ AcquireBusy(b)
             \/ Resume(b) \/ SeeAbort(b) \/ ReleaseFree(b)
      PROVE  Types'
  BY <1>6 DEF AcquireRejected, AcquireFree, AcquireBusy, Resume, SeeAbort,
              ReleaseFree
<1> QED
  BY <1>1, <1>2, <1>3, <1>4, <1>5, <1>6 DEF Step

\* Every step keeps the number of free and held permits within the bound.
LEMMA NextPermits == ASSUME IInv, Next PROVE NoExtraPermit'
<1> DEFINE H == Holders
           G == Holders'
<1>0. /\ available \in Nat /\ available' \in Nat /\ Permits \in Nat
      /\ IsFiniteSet(H) /\ Cardinality(H) \in Nat
      /\ IsFiniteSet(G) /\ Cardinality(G) \in Nat
      /\ available + Cardinality(H) <= Permits
  BY HoldersFinite, NextTypes, PermitsAssumption DEF IInv, Types, NoExtraPermit
<1> PICK b \in Boots : Step(b) \/ Abort(b)
  BY DEF Next
<1> USE DEF Goto, IInv, Types
\* Three ways in which the holders may change.
<1>a. ASSUME G \subseteq H, available' = available PROVE NoExtraPermit'
  <2>1. Cardinality(G) <= Cardinality(H)
    BY <1>a, <1>0, FS_Subset
  <2> QED
    BY <1>a, <1>0, <2>1 DEF NoExtraPermit
<1>b. ASSUME b \in H, G \subseteq H \ {b}, available' = available + 1
      PROVE  NoExtraPermit'
  <2>1. IsFiniteSet(H \ {b}) /\ Cardinality(H \ {b}) = Cardinality(H) - 1
    BY <1>b, <1>0, FS_RemoveElement
  <2>2. Cardinality(G) <= Cardinality(H \ {b})
    BY <1>b, <2>1, FS_Subset
  <2> QED
    BY <1>b, <1>0, <2>1, <2>2 DEF NoExtraPermit
<1>c. ASSUME NEW w \in Boots, b \in H, G \subseteq (H \ {b}) \cup {w},
             available' = available
      PROVE  NoExtraPermit'
  <2>1. IsFiniteSet(H \ {b}) /\ Cardinality(H \ {b}) = Cardinality(H) - 1
    BY <1>c, <1>0, FS_RemoveElement
  <2>2. /\ IsFiniteSet((H \ {b}) \cup {w})
        /\ Cardinality((H \ {b}) \cup {w}) <= Cardinality(H)
    <3> DEFINE R == H \ {b}
    <3>1. /\ IsFiniteSet(R \cup {w})
          /\ Cardinality(R \cup {w})
                = IF w \in R THEN Cardinality(R) ELSE Cardinality(R) + 1
      BY <2>1, FS_AddElement
    <3> QED
      BY <1>0, <2>1, <3>1
  <2>3. Cardinality(G) <= Cardinality((H \ {b}) \cup {w})
    BY <1>c, <2>2, FS_Subset
  <2>4. Cardinality((H \ {b}) \cup {w}) \in Nat
    BY <2>2, FS_CardinalityType
  <2> QED
    BY <1>c, <1>0, <2>2, <2>3, <2>4 DEF NoExtraPermit
<1>1. ASSUME AcquireFree(b) PROVE NoExtraPermit'
  <2>1. b \notin H /\ G \subseteq H \cup {b}
    BY <1>1 DEF AcquireFree, Holders
  <2>2. IsFiniteSet(H \cup {b}) /\ Cardinality(H \cup {b}) = Cardinality(H) + 1
    BY <1>0, <2>1, FS_AddElement
  <2>3. Cardinality(G) <= Cardinality(H \cup {b})
    BY <2>1, <2>2, FS_Subset
  <2> QED
    BY <1>1, <1>0, <2>2, <2>3 DEF AcquireFree, NoExtraPermit
<1>2. ASSUME ReleaseFree(b) PROVE NoExtraPermit'
  <2>1. b \in H /\ G \subseteq H \ {b} /\ available' = available + 1
    BY <1>2 DEF ReleaseFree, Holders
  <2> QED
    BY <1>b, <2>1
<1>3. ASSUME Settle(b) PROVE NoExtraPermit'
  <2>1. /\ b \in H /\ grantee[b] \in Boots /\ available' = available
        /\ G \subseteq (H \ {b}) \cup {grantee[b]}
    BY <1>3 DEF Settle, Holders
  <2> QED
    BY <1>c, <2>1
<1>4. ASSUME Enqueue(b) PROVE NoExtraPermit'
  <2>1. b \notin granted
    BY <1>4 DEF Enqueue, QueuedFirst
  <2>2. G \subseteq H /\ available' = available
    BY <1>4, <2>1 DEF Enqueue, Holders
  <2> QED
    BY <1>a, <2>2
<1>5. ASSUME \/ AcquireRejected(b) \/ AcquireBusy(b) \/ Resume(b) \/ SeeAbort(b)
             \/ Leave(b) \/ ReleaseNext(b) \/ Abort(b)
      PROVE  NoExtraPermit'
  <2>1. G \subseteq H /\ available' = available
    BY <1>5 DEF AcquireRejected, AcquireBusy, Resume, SeeAbort, Leave,
                ReleaseNext, Abort, Holders
  <2> QED
    BY <1>a, <2>1
<1> QED
  BY <1>1, <1>2, <1>3, <1>4, <1>5 DEF Step

\* Every step leaves a startup in at most one of the queue, the hands of one
\* releaser and the granted set, and only startups that have queued.
Places == QueuedFirst /\ NoDuplicates /\ GrantedOnce

LEMMA NextPlaces == ASSUME IInv, Next PROVE Places'
<1> PICK b \in Boots : Step(b) \/ Abort(b)
  BY DEF Next
<1> USE DEF Goto, IInv, Types, Places
<1>1. ASSUME Enqueue(b) PROVE Places'
  <2>1. /\ DOMAIN waiters = 1..Len(waiters) /\ Len(waiters) \in Nat
        /\ DOMAIN waiters' = 1..(Len(waiters) + 1)
        /\ \A i \in 1..Len(waiters) : waiters'[i] = waiters[i]
        /\ waiters'[Len(waiters) + 1] = b
    BY <1>1, AppendProperties, LenProperties DEF Enqueue
  <2>2. /\ pc[b] = "queueing" /\ pc' = [pc EXCEPT ![b] = "waiting"]
        /\ granted' = granted /\ grantee' = grantee
    BY <1>1 DEF Enqueue
  <2>3. /\ ~Queued(b) /\ b \notin granted
        /\ \A c \in Boots : pc[c] = "granting" => grantee[c] # b
    BY <2>2 DEF QueuedFirst
  <2>4. \A c \in Boots : Queued(c)' <=> Queued(c) \/ c = b
    BY <2>1 DEF Queued
  <2>5. QueuedFirst'
    BY <2>2, <2>4 DEF QueuedFirst
  <2>6. NoDuplicates'
    <3>1. \A i, j \in DOMAIN waiters' : waiters'[i] = waiters'[j] => i = j
      <4> SUFFICES ASSUME NEW i \in 1..(Len(waiters) + 1),
                          NEW j \in 1..(Len(waiters) + 1),
                          waiters'[i] = waiters'[j]
                   PROVE  i = j
        BY <2>1
      <4>1. \A k \in 1..Len(waiters) : waiters[k] # b
        BY <2>1, <2>3 DEF Queued
      <4>2. \/ i = Len(waiters) + 1 /\ j \in 1..Len(waiters)
            \/ j = Len(waiters) + 1 /\ i \in 1..Len(waiters)
            \/ i \in 1..Len(waiters) /\ j \in 1..Len(waiters)
            \/ i = j
        BY <2>1
      <4> QED
        BY <2>1, <4>1, <4>2 DEF NoDuplicates
    <3> QED
      BY <2>2, <2>3, <2>4, <3>1 DEF NoDuplicates
  <2>7. GrantedOnce'
    BY <2>1, <2>2, <2>3 DEF GrantedOnce
  <2> QED
    BY <2>5, <2>6, <2>7
<1>2. ASSUME Leave(b) PROVE Places'
  <2>1. /\ \A j \in DOMAIN waiters' :
              \E k \in DOMAIN waiters : waiters'[j] = waiters[k]
        /\ \A i, j \in DOMAIN waiters' : waiters'[i] = waiters'[j] => i = j
    <3>1. ASSUME NEW i \in DOMAIN waiters, waiters' = RemoveAt(waiters, i)
          PROVE  <2>1!1 /\ <2>1!2
      <4>1. DOMAIN waiters \subseteq Int /\ DOMAIN waiters' \subseteq Int
        BY <3>1, RemoveAtElements, LenProperties
      <4>2. \A j \in DOMAIN waiters' :
               \E k \in DOMAIN waiters : k = (IF j < i THEN j ELSE j + 1)
                                         /\ waiters'[j] = waiters[k]
        BY <3>1, RemoveAtElements
      <4> QED
        BY <4>1, <4>2 DEF NoDuplicates
    <3>2. CASE UNCHANGED waiters
      BY <3>2 DEF NoDuplicates
    <3> QED
      BY <1>2, <3>1, <3>2 DEF Leave
  <2>2. /\ pc[b] = "leaving" /\ pc' = [pc EXCEPT ![b] = "rejected"]
        /\ granted' = granted /\ grantee' = grantee
    BY <1>2 DEF Leave
  <2>3. \A c \in Boots : Queued(c)' => Queued(c)
    BY <2>1 DEF Queued
  <2> QED
    BY <2>1, <2>2, <2>3 DEF QueuedFirst, NoDuplicates, GrantedOnce, Queued
<1>3. ASSUME ReleaseNext(b) PROVE Places'
  <2>1. /\ waiters # <<>> /\ waiters' = Tail(waiters)
        /\ pc[b] = "running" /\ pc' = [pc EXCEPT ![b] = "granting"]
        /\ granted' = granted
        /\ grantee' = [grantee EXCEPT ![b] = Head(waiters)]
    BY <1>3 DEF ReleaseNext
  <2>2. /\ DOMAIN waiters = 1..Len(waiters) /\ Len(waiters) \in Nat \ {0}
        /\ DOMAIN waiters' = 1..(Len(waiters) - 1)
        /\ \A i \in 1..(Len(waiters) - 1) : waiters'[i] = waiters[i + 1]
        /\ Head(waiters) = waiters[1] /\ waiters[1] \in Boots
    BY <2>1, HeadTailProperties, LenProperties
  <2> PICK w \in Boots : w = waiters[1]
    BY <2>2
  <2>3. Queued(w) /\ ~Queued(w)'
    <3>1. 1 \in DOMAIN waiters
      BY <2>2
    <3>2. ASSUME NEW i \in DOMAIN waiters' PROVE waiters'[i] # w
      <4>1. i + 1 \in DOMAIN waiters /\ i + 1 # 1 /\ waiters'[i] = waiters[i + 1]
        BY <2>2
      <4> QED
        BY <3>1, <4>1 DEF NoDuplicates
    <3> QED
      BY <3>1, <3>2 DEF Queued
  <2>4. \A c \in Boots : Queued(c)' => Queued(c)
    <3>1. \A i \in DOMAIN waiters' :
             i + 1 \in DOMAIN waiters /\ waiters'[i] = waiters[i + 1]
      BY <2>2
    <3> QED
      BY <3>1 DEF Queued
  <2>5. QueuedFirst'
    BY <2>1, <2>2, <2>3, <2>4 DEF QueuedFirst
  <2>6. NoDuplicates'
    <3>1. \A i, j \in DOMAIN waiters' : waiters'[i] = waiters'[j] => i = j
      <4> SUFFICES ASSUME NEW i \in 1..(Len(waiters) - 1),
                          NEW j \in 1..(Len(waiters) - 1),
                          waiters'[i] = waiters'[j]
                   PROVE  i = j
        BY <2>2
      <4>1. /\ i + 1 \in DOMAIN waiters /\ j + 1 \in DOMAIN waiters
            /\ waiters[i + 1] = waiters[j + 1]
        BY <2>2
      <4>2. i + 1 = j + 1
        BY <4>1 DEF NoDuplicates
      <4> QED
        BY <4>2
    <3>2. \A c \in Boots : pc[c] = "granting" => grantee[c] # w
      BY <2>3 DEF NoDuplicates
    <3> QED
      BY <2>1, <2>2, <2>3, <2>4, <3>1, <3>2 DEF NoDuplicates
  <2>7. GrantedOnce'
    BY <2>1, <2>2 DEF GrantedOnce
  <2> QED
    BY <2>5, <2>6, <2>7
<1>4. ASSUME Settle(b) PROVE Places'
  <2>1. /\ pc[b] = "granting" /\ pc' = [pc EXCEPT ![b] = "done"]
        /\ granted' = granted \cup {grantee[b]}
        /\ waiters' = waiters /\ grantee' = grantee
    BY <1>4 DEF Settle
  <2> QED
    BY <2>1 DEF QueuedFirst, NoDuplicates, GrantedOnce, Queued
<1>5. ASSUME \/ AcquireRejected(b) \/ AcquireFree(b) \/ AcquireBusy(b)
             \/ Resume(b) \/ SeeAbort(b) \/ ReleaseFree(b) \/ Abort(b)
      PROVE  Places'
  <2>1. /\ waiters' = waiters /\ granted' = granted /\ grantee' = grantee
        /\ \A c \in Boots : pc'[c] = "granting" => pc[c] = "granting"
        /\ \A c \in Boots : pc'[c] \in {"idle", "queueing"}
                               => pc[c] \in {"idle", "queueing"}
    BY <1>5 DEF AcquireRejected, AcquireFree, AcquireBusy, Resume, SeeAbort,
                ReleaseFree, Abort
  <2> QED
    BY <2>1 DEF QueuedFirst, NoDuplicates, GrantedOnce, Queued
<1> QED
  BY <1>1, <1>2, <1>3, <1>4, <1>5 DEF Step

\* IInv is an invariant of the boot gate.
THEOREM Invariance == Spec => []IInv
<1>1. IInv /\ [Next]_vars => IInv'
  <2>1. ASSUME IInv, Next PROVE IInv'
    BY <2>1, NextTypes, NextPermits, NextPlaces DEF IInv, Places
  <2>2. ASSUME IInv, UNCHANGED vars PROVE IInv'
    BY <2>2 DEF vars, IInv, Types, QueuedFirst, NoDuplicates, GrantedOnce,
                NoExtraPermit, Queued, Holders
  <2> QED
    BY <2>1, <2>2
<1> QED
  BY <1>1, InitIInv, PTL DEF Spec

\* For every number of startups and permits, aborts and hand-overs included, no
\* more kernels boot at the same time than there are permits.
THEOREM Concurrency == Spec => []BoundedConcurrency
<1>1. IInv => BoundedConcurrency
  <2> SUFFICES ASSUME IInv PROVE Cardinality(Running) <= Permits
    BY DEF BoundedConcurrency
  <2>1. Running \subseteq Holders
    BY DEF Running, Holders
  <2>2. /\ IsFiniteSet(Holders) /\ Cardinality(Holders) \in Nat
        /\ available \in Nat /\ Permits \in Nat
        /\ available + Cardinality(Holders) <= Permits
    BY HoldersFinite, PermitsAssumption DEF IInv, Types, NoExtraPermit
  <2>3. Cardinality(Running) <= Cardinality(Holders)
        /\ Cardinality(Running) \in Nat
    BY <2>1, <2>2, FS_Subset, FS_CardinalityType
  <2> QED
    BY <2>2, <2>3
<1> QED
  BY <1>1, Invariance, PTL

\* A waiter is granted at most one permit, whoever releases and whoever leaves.
THEOREM SingleGrant == Spec => []GrantedOnce
<1>1. IInv => GrantedOnce
  BY DEF IInv
<1> QED
  BY <1>1, Invariance, PTL

\* Type correctness: in particular `available' never exceeds the permits the
\* semaphore was built with.
THEOREM TypeCorrect == Spec => []TypeOK
<1>1. IInv => TypeOK
  <2> SUFFICES ASSUME IInv PROVE TypeOK
    OBVIOUS
  <2>1. available \in 0..Permits
    BY HoldersFinite, PermitsAssumption DEF IInv, Types, NoExtraPermit
  <2> QED
    BY <2>1 DEF IInv, Types, TypeOK
<1> QED
  BY <1>1, Invariance, PTL
=============================================================================
