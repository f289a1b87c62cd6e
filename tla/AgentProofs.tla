---------------------------- MODULE AgentProofs ----------------------------
(***************************************************************************)
(* Proofs about Agent, for any messages, diagnostics and waiters, any      *)
(* queue modes, caps and bounds.                                           *)
(***************************************************************************)
EXTENDS Agent, SequenceTheorems, FiniteSetTheorems, TLAPS

-----------------------------------------------------------------------------
(* Facts about entries and sequences. *)

\* The bounds and caps are natural numbers.
LEMMA Bounds ==
  MaxCalls \in Nat /\ MaxTurns \in Nat /\ MaxRuns \in Nat
BY AgentAssumption

\* Every message, response and result is an entry.
LEMMA EntryTypes ==
  /\ \A m \in Inputs : Input(m) \in Entries
  /\ \A k \in 0..MaxCalls : Assistant(k) \in Entries
  /\ \A i \in 1..MaxCalls : Result(i) \in Entries
BY DEF Entries

\* The messages of a list, as the entries they become.
Emitted(msgs) == [i \in DOMAIN msgs |-> Input(msgs[i])]

\* They are a sequence of entries of the same length.
LEMMA EmittedType ==
  ASSUME NEW msgs \in Seq(Inputs)
  PROVE  /\ Emitted(msgs) \in Seq(Entries)
         /\ Len(Emitted(msgs)) = Len(msgs)
         /\ \A i \in 1..Len(msgs) : Emitted(msgs)[i] = Input(msgs[i])
<1>1. /\ Len(msgs) \in Nat /\ DOMAIN msgs = 1..Len(msgs)
      /\ \A i \in 1..Len(msgs) : msgs[i] \in Inputs
  BY LenProperties, ElementOfSeq
<1>2. Emitted(msgs) \in [1..Len(msgs) -> Entries]
  BY <1>1, EntryTypes DEF Emitted
<1>3. Emitted(msgs) \in Seq(Entries)
  BY <1>1, <1>2, SeqDef
<1> QED BY <1>1, <1>2, <1>3, LenProperties DEF Emitted

\* The first k results of a batch.
Results(k) == [i \in 1..k |-> Result(i)]

\* They are a sequence of entries, too.
LEMMA ResultsType ==
  ASSUME NEW k \in 0..MaxCalls
  PROVE  /\ Results(k) \in Seq(Entries)
         /\ Len(Results(k)) = k
         /\ \A i \in 1..k : Results(k)[i] = Result(i)
<1>1. k \in Nat /\ 1..k \subseteq 1..MaxCalls
  BY AgentAssumption
<1>2. Results(k) \in [1..k -> Entries]
  BY <1>1, EntryTypes DEF Results
<1>3. Results(k) \in Seq(Entries)
  BY <1>1, <1>2, SeqDef
<1> QED BY <1>1, <1>2, <1>3, LenProperties DEF Results

\* A drain splits a queue into two lists of messages.
LEMMA DrainTypes ==
  ASSUME NEW q \in Seq(Messages), NEW mode
  PROVE  Drained(q, mode) \in Seq(Messages) /\ Remaining(q, mode) \in Seq(Messages)
<1>1. CASE mode = "all" \/ q = <<>>
  BY <1>1 DEF Drained, Remaining
<1>2. CASE ~(mode = "all" \/ q = <<>>)
  <2>1. Head(q) \in Messages /\ Tail(q) \in Seq(Messages)
    BY <1>2, HeadTailProperties
  <2> QED BY <1>2, <2>1 DEF Drained, Remaining
<1> QED BY <1>1, <1>2

LEMMA MessagesAreInputs ==
  ASSUME NEW s \in Seq(Messages) PROVE s \in Seq(Inputs)
BY SeqMonotonic DEF Inputs

\* The queue and the diagnostics a steering poll takes are inputs.
LEMMA SteeringType ==
  ASSUME TypeOK PROVE Steering \in Seq(Inputs)
<1>1. Drained(queue.steering, SteeringMode) \in Seq(Messages)
  BY DrainTypes DEF TypeOK
<1>2. run.diags \in Seq(Diags)
  BY DEF TypeOK
<1>3. Drained(queue.steering, SteeringMode) \in Seq(Inputs) /\ run.diags \in Seq(Inputs)
  BY <1>1, <1>2, SeqMonotonic DEF Inputs
<1> QED BY <1>3, ConcatProperties DEF Steering

-----------------------------------------------------------------------------
(* Types. *)

\* A run is active exactly while its loop stands somewhere, it is the newest
\* one, and a request is sent only while the bound allows a response.
Control ==
  /\ pc = "idle" <=> active = 0
  /\ active # 0 => active = run.id
  /\ pc = "stream" => spent.turns < MaxTurns

Typed == TypeOK /\ Control

LEMMA InitTyped == Init => Typed
<1> SUFFICES ASSUME Init PROVE Typed
  OBVIOUS
<1>0. \A S : <<>> \in Seq(S)
  BY EmptySeq
<1>7. /\ transcript \in Seq(Entries) /\ context \in Seq(Entries)
      /\ log \in Seq([msg : Inputs, run : 1..MaxRuns])
      /\ queue \in [steering : Seq(Messages), followUp : Seq(Messages)]
      /\ lane \in [Messages -> Lanes] /\ order \in Seq(Messages) /\ todo \in Seq(Inputs)
  BY <1>0 DEF Init, Lanes
<1>b. batch \in [calls : 0..MaxCalls, parallel : BOOLEAN, started : SUBSET Calls,
                 ended : SUBSET Calls, answered : 0..MaxCalls]
  BY AgentAssumption DEF Init, NoBatch
<1>c. run \in [id : 0..MaxRuns, aborted : BOOLEAN, diags : Seq(Diags), seen : SUBSET Diags]
  BY <1>0, AgentAssumption DEF Init, NewRun
<1>d. held \in [on : BOOLEAN, msgs : Seq(Messages), skip : BOOLEAN]
  BY <1>0 DEF Init, NoHeld
<1>e. waiter \in [Waiters -> [at : {"out", "cloned", "enabled", "parked"}, run : 0..MaxRuns,
                              woken : BOOLEAN]]
  BY AgentAssumption DEF Init, NoWait
<1>f. skip \in BOOLEAN /\ more \in BOOLEAN
  BY DEF Init
<1>1. TypeOK
  BY <1>7, <1>b, <1>c, <1>d, <1>e, <1>f, AgentAssumption DEF Init, TypeOK, Places
<1>2. Control
  BY DEF Init, Control
<1> QED BY <1>1, <1>2 DEF Typed

USE DEF loopVars, laneVars, runVars, hostVars

\* The steps of hosts that queue and remove messages.
LEMMA EnqueueTyped ==
  ASSUME Typed, NEW m \in Messages, Steer(m) \/ FollowUp(m) PROVE Typed'
<1>1. PICK l \in {"steering", "followUp"} : Enqueue(m, l, l)
  BY DEF Steer, FollowUp
<1>2. lane' \in [Messages -> Lanes] /\ order' \in Seq(Messages)
  BY <1>1, AppendProperties DEF Enqueue, Typed, TypeOK, Lanes
<1>3. queue' \in [steering : Seq(Messages), followUp : Seq(Messages)]
  BY <1>1, AppendProperties DEF Enqueue, Typed, TypeOK
<1> QED BY <1>1, <1>2, <1>3 DEF Enqueue, Typed, TypeOK, Control

LEMMA RemoveTyped ==
  ASSUME Typed, NEW m \in Messages, RemoveQueued(m) PROVE Typed'
<1>0. PICK q \in DOMAIN queue : \E i \in DOMAIN queue[q] :
        queue' = [queue EXCEPT ![q] = SubSeq(@, 1, i - 1) \o SubSeq(@, i + 1, Len(@))]
  BY DEF RemoveQueued
<1>1. PICK i \in DOMAIN queue[q] :
        queue' = [queue EXCEPT ![q] = SubSeq(@, 1, i - 1) \o SubSeq(@, i + 1, Len(@))]
  BY <1>0
<1>2. q \in {"steering", "followUp"} /\ queue[q] \in Seq(Messages)
  BY DEF Typed, TypeOK
<1>3. Len(queue[q]) \in Nat /\ i \in 1..Len(queue[q])
  BY <1>2, LenProperties
<1>4. /\ SubSeq(queue[q], 1, i - 1) \in Seq(Messages)
      /\ SubSeq(queue[q], i + 1, Len(queue[q])) \in Seq(Messages)
  BY <1>2, <1>3, SubSeqProperties, ElementOfSeq
<1>5. SubSeq(queue[q], 1, i - 1) \o SubSeq(queue[q], i + 1, Len(queue[q])) \in Seq(Messages)
  BY <1>4, ConcatProperties
<1>6. queue' \in [steering : Seq(Messages), followUp : Seq(Messages)]
  BY <1>1, <1>2, <1>5 DEF Typed, TypeOK
<1> QED BY <1>6 DEF RemoveQueued, Typed, TypeOK, Control, Lanes

\* Beginning a run.
LEMMA BeginTyped ==
  ASSUME Typed, active = 0, NEW msgs \in Seq(Messages), NEW skipPoll \in BOOLEAN,
         Begin(msgs, skipPoll)
  PROVE  /\ context' \in Seq(Entries) /\ todo' \in Seq(Inputs) /\ skip' \in BOOLEAN
         /\ more' \in BOOLEAN /\ pc' \in Places \ {"idle", "stream"}
         /\ batch' \in [calls : 0..MaxCalls, parallel : BOOLEAN, started : SUBSET Calls,
                        ended : SUBSET Calls, answered : 0..MaxCalls]
         /\ run' \in [id : 0..MaxRuns, aborted : BOOLEAN, diags : Seq(Diags), seen : SUBSET Diags]
         /\ active' \in 1..MaxRuns /\ active' = run'.id
<1>1. msgs \in Seq(Inputs)
  BY MessagesAreInputs
<1>2. context' \in Seq(Entries)
  BY <1>1, EmittedType, ConcatProperties DEF Begin, Emitted, Typed, TypeOK
<1>3. pc' \in Places \ {"idle", "stream"}
  BY DEF Begin, Places
<1>4. batch' \in [calls : 0..MaxCalls, parallel : BOOLEAN, started : SUBSET Calls,
                  ended : SUBSET Calls, answered : 0..MaxCalls]
  BY Bounds DEF Begin, NoBatch
<1>5. run.id + 1 \in 1..MaxRuns
  <2>1. run.id \in 0..MaxRuns
    BY DEF Typed, TypeOK
  <2>2. run.id < MaxRuns
    BY DEF Begin
  <2> QED BY <2>1, <2>2, Bounds
<1>6. run' \in [id : 0..MaxRuns, aborted : BOOLEAN, diags : Seq(Diags), seen : SUBSET Diags]
  BY <1>5, EmptySeq, Bounds DEF Begin, NewRun
<1>7. active' \in 1..MaxRuns /\ active' = run'.id
  BY <1>5 DEF Begin, NewRun
<1>8. skip' \in BOOLEAN /\ more' \in BOOLEAN
  BY DEF Begin
<1> QED BY <1>1, <1>2, <1>3, <1>4, <1>6, <1>7, <1>8 DEF Begin

LEMMA PromptTyped ==
  ASSUME Typed, NEW m \in Messages, Prompt(m) PROVE Typed'
<1>0. <<m>> \in Seq(Messages)
  OBVIOUS
<1>1. active = 0 /\ Begin(<<m>>, FALSE)
  BY DEF Prompt
<1>2. lane' \in [Messages -> Lanes]
  BY DEF Prompt, Typed, TypeOK, Lanes
<1>3. SetOf(held.msgs) \subseteq Messages
  BY LenProperties, ElementOfSeq DEF Typed, TypeOK, SetOf
<1>4. active' # 0 /\ active' \in 0..MaxRuns
  <2>1. active' \in 1..MaxRuns
    BY <1>0, <1>1, BeginTyped
  <2> QED BY <2>1, Bounds
<1> QED BY <1>0, <1>1, <1>2, <1>3, <1>4, BeginTyped DEF Prompt, Begin, Typed, TypeOK, Control

LEMMA ContinueTyped ==
  ASSUME Typed, Continue \/ ContinueRun \/ ContinueBusy PROVE Typed'
<1>0. NoHeld \in [on : BOOLEAN, msgs : Seq(Messages), skip : BOOLEAN]
  BY EmptySeq DEF NoHeld
<1>1. ASSUME Continue PROVE Typed'
  <2>1. CASE transcript # <<>> /\ transcript[Len(transcript)].kind # "assistant"
    <3>1. held' \in [on : BOOLEAN, msgs : Seq(Messages), skip : BOOLEAN]
      BY <1>0, <1>1, <2>1 DEF Continue
    <3> QED BY <1>1, <2>1, <3>1 DEF Continue, Typed, TypeOK, Control
  <2>2. CASE ~(transcript # <<>> /\ transcript[Len(transcript)].kind # "assistant")
    <3>1. PICK q \in DOMAIN queue :
            LET mode == IF q = "steering" THEN SteeringMode ELSE FollowUpMode IN
            /\ held' = [on |-> TRUE, msgs |-> Drained(queue[q], mode), skip |-> q = "steering"]
            /\ queue' = [queue EXCEPT ![q] = Remaining(@, mode)]
      BY <1>1, <2>2 DEF Continue
    <3> DEFINE mode == IF q = "steering" THEN SteeringMode ELSE FollowUpMode
    <3>2. q \in {"steering", "followUp"} /\ queue[q] \in Seq(Messages)
      BY DEF Typed, TypeOK
    <3>3. Drained(queue[q], mode) \in Seq(Messages) /\ Remaining(queue[q], mode) \in Seq(Messages)
      BY <3>2, DrainTypes
    <3> HIDE DEF mode
    <3>4. held' \in [on : BOOLEAN, msgs : Seq(Messages), skip : BOOLEAN]
      BY <3>1, <3>3 DEF mode
    <3>5. queue' \in [steering : Seq(Messages), followUp : Seq(Messages)]
      BY <3>1, <3>2, <3>3 DEF mode, Typed, TypeOK
    <3> QED BY <1>1, <3>4, <3>5 DEF Continue, Typed, TypeOK, Control
  <2> QED BY <2>1, <2>2
<1>2. ASSUME ContinueRun PROVE Typed'
  <2>1. held.msgs \in Seq(Messages) /\ held.skip \in BOOLEAN
    BY DEF Typed, TypeOK
  <2>2. active = 0 /\ Begin(held.msgs, held.skip)
    BY <1>2 DEF ContinueRun
  <2>3. active' # 0 /\ active' \in 0..MaxRuns
    BY <2>1, <2>2, BeginTyped, Bounds
  <2> QED BY <1>0, <1>2, <2>1, <2>2, <2>3, BeginTyped DEF ContinueRun, Begin, Typed, TypeOK, Control
<1>3. ASSUME ContinueBusy PROVE Typed'
  <2>1. spent' \in [turns : 0..MaxTurns, aborts : Nat, refused : Nat, drained : SUBSET Inputs] /\ spent'.turns = spent.turns
    <3>1. spent \in [turns : 0..MaxTurns, aborts : Nat, refused : Nat, drained : SUBSET Inputs]
      BY DEF Typed, TypeOK
    <3>2. spent' = [spent EXCEPT !.refused = spent.refused + 1, !.drained = spent.drained \cup SetOf(held.msgs)]
      BY <1>3 DEF ContinueBusy
    <3>3. held.msgs \in Seq(Messages) /\ SetOf(held.msgs) \subseteq Inputs
      BY LenProperties, ElementOfSeq DEF Typed, TypeOK, SetOf, Inputs
    <3>4. spent.refused + 1 \in Nat /\ spent.drained \cup SetOf(held.msgs) \in SUBSET Inputs
      BY <3>1, <3>3
    <3> QED BY <3>1, <3>2, <3>4
  <2> QED BY <1>0, <1>3, <2>1 DEF ContinueBusy, Typed, TypeOK, Control
<1> QED BY <1>1, <1>2, <1>3

LEMMA AbortTyped ==
  ASSUME Typed, Abort PROVE Typed'
<1>1. spent' \in [turns : 0..MaxTurns, aborts : Nat, refused : Nat, drained : SUBSET Inputs] /\ spent'.turns = spent.turns
  <2>1. spent \in [turns : 0..MaxTurns, aborts : Nat, refused : Nat, drained : SUBSET Inputs]
    BY DEF Typed, TypeOK
  <2>2. spent' = [spent EXCEPT !.aborts = spent.aborts + 1, !.drained = spent.drained \cup SetOf(todo)]
    BY DEF Abort
  <2>3. todo \in Seq(Inputs) /\ SetOf(todo) \subseteq Inputs
    BY LenProperties, ElementOfSeq DEF Typed, TypeOK, SetOf
  <2>4. spent.aborts + 1 \in Nat /\ spent.drained \cup SetOf(todo) \in SUBSET Inputs
    BY <2>1, <2>3
  <2> QED BY <2>1, <2>2, <2>4
<1>2. run' \in [id : 0..MaxRuns, aborted : BOOLEAN, diags : Seq(Diags), seen : SUBSET Diags]
      /\ run'.id = run.id
  BY DEF Abort, Typed, TypeOK
<1> QED BY <1>1, <1>2 DEF Abort, Typed, TypeOK, Control

LEMMA SteerActiveTyped ==
  ASSUME Typed, (\E d \in Diags : SteerActive(d)) \/ ReadGeneration PROVE Typed'
<1>1. ASSUME NEW d \in Diags, SteerActive(d) PROVE Typed'
  <2>1. Append(run.diags, d) \in Seq(Diags) /\ run.seen \cup {d} \in SUBSET Diags
    BY AppendProperties DEF Typed, TypeOK
  <2>2. run' \in [id : 0..MaxRuns, aborted : BOOLEAN, diags : Seq(Diags), seen : SUBSET Diags]
        /\ run'.id = run.id
    BY <1>1, <2>1 DEF SteerActive, Typed, TypeOK
  <2>3. sent' \in [Diags -> 0..MaxRuns]
    BY <1>1 DEF SteerActive, Typed, TypeOK
  <2> QED BY <1>1, <2>2, <2>3 DEF SteerActive, Typed, TypeOK, Control
<1>2. ASSUME ReadGeneration PROVE Typed'
  BY <1>2 DEF ReadGeneration, Typed, TypeOK, Control
<1> QED BY <1>1, <1>2

LEMMA WaitTyped ==
  ASSUME Typed, NEW w \in Waiters, Wait(w) PROVE Typed'
<1>0. NoWait \in [at : {"out", "cloned", "enabled", "parked"}, run : 0..MaxRuns, woken : BOOLEAN]
  BY AgentAssumption DEF NoWait
<1>1. waiter' \in [Waiters -> [at : {"out", "cloned", "enabled", "parked"}, run : 0..MaxRuns,
                               woken : BOOLEAN]]
  <2> DEFINE W == [at : {"out", "cloned", "enabled", "parked"}, run : 0..MaxRuns, woken : BOOLEAN]
  <2>0. waiter \in [Waiters -> W] /\ waiter[w] \in W /\ active \in 0..MaxRuns
    BY DEF Typed, TypeOK
  <2>1. ASSUME NEW a \in {"out", "cloned", "enabled", "parked"} PROVE [waiter[w] EXCEPT !.at = a] \in W
    BY <2>0
  <2>2. [at |-> "cloned", run |-> active, woken |-> FALSE] \in W
    BY <2>0
  <2>3. PICK v \in W : waiter' = [waiter EXCEPT ![w] = v]
    BY <1>0, <2>0, <2>1, <2>2 DEF Wait, WaitClone, WaitEnable, WaitCheck, WaitReturn, WaitMove
  <2> QED BY <2>0, <2>3
<1> QED BY <1>1 DEF Wait, Typed, TypeOK, Control

LEMMA FinishTyped ==
  ASSUME Typed, FinishTake \/ \E r \in 1..MaxRuns : FinishSettle(r) PROVE Typed'
<1>1. ASSUME FinishTake PROVE Typed'
  <2>1. run' \in [id : 0..MaxRuns, aborted : BOOLEAN, diags : Seq(Diags), seen : SUBSET Diags]
    BY <1>1, EmptySeq DEF FinishTake, Typed, TypeOK
  <2>2. batch' \in [calls : 0..MaxCalls, parallel : BOOLEAN, started : SUBSET Calls,
                    ended : SUBSET Calls, answered : 0..MaxCalls]
    BY <1>1, AgentAssumption DEF FinishTake, NoBatch
  <2>3. run.id \in 1..MaxRuns
    <3>1. run.id \in 0..MaxRuns
      BY DEF Typed, TypeOK
    <3>2. active # 0 /\ active = run.id
      BY <1>1 DEF FinishTake, Typed, Control
    <3> QED BY <3>1, <3>2, Bounds
  <2>4. todo' \in Seq(Inputs)
    BY <1>1, EmptySeq DEF FinishTake
  <2>5. active' \in 0..MaxRuns /\ pc' \in Places
    BY <1>1, Bounds DEF FinishTake, Places
  <2>6. TypeOK'
    BY <1>1, <2>1, <2>2, <2>3, <2>4, <2>5 DEF FinishTake, Typed, TypeOK
  <2>7. Control'
    BY <1>1 DEF FinishTake, Control
  <2> QED BY <2>6, <2>7 DEF Typed
<1>2. ASSUME NEW r \in 1..MaxRuns, FinishSettle(r) PROVE Typed'
  <2>1. waiter' \in [Waiters -> [at : {"out", "cloned", "enabled", "parked"}, run : 0..MaxRuns,
                                 woken : BOOLEAN]]
    <3> DEFINE W == [at : {"out", "cloned", "enabled", "parked"}, run : 0..MaxRuns, woken : BOOLEAN]
    <3>0. waiter \in [Waiters -> W]
      BY DEF Typed, TypeOK
    <3>1. ASSUME NEW w \in Waiters
          PROVE  waiter[w] \in W /\ [waiter[w] EXCEPT !.woken = TRUE] \in W
      BY <3>0
    <3>2. waiter' = [w \in Waiters |-> IF waiter[w].at \in {"enabled", "parked"} /\ waiter[w].run = r
                                       THEN [waiter[w] EXCEPT !.woken = TRUE] ELSE waiter[w]]
      BY <1>2 DEF FinishSettle
    <3> HIDE DEF W
    <3>3. waiter' \in [Waiters -> W]
      BY <3>1, <3>2
    <3> QED BY <3>3 DEF W
  <2> QED BY <1>2, <2>1 DEF FinishSettle, Typed, TypeOK, Control
<1> QED BY <1>1, <1>2

\* A step of the loop that only moves.
LEMMA MoveTyped ==
  ASSUME Typed, NEW p \in Places \ {"idle"}, MoveTo(p), p = "stream" => spent.turns < MaxTurns,
         pc # "idle", transcript' \in Seq(Entries), log' = log, Quiet
  PROVE  Typed'
BY DEF MoveTo, Quiet, Typed, TypeOK, Control

LEMMA MovesTyped ==
  ASSUME Typed, Top \/ Request \/ StreamFails \/ TurnEnd \/ AgentEnd \/ RunFailure
  PROVE  Typed'
<1>0. transcript \in Seq(Entries)
  BY DEF Typed, TypeOK
<1>1. ASSUME Top PROVE Typed'
  BY <1>0, <1>1, MoveTyped DEF Top, Places
<1>2. ASSUME Request PROVE Typed'
  BY <1>0, <1>2, MoveTyped DEF Request, Places
<1>3. ASSUME StreamFails PROVE Typed'
  BY <1>0, <1>3, MoveTyped DEF StreamFails, Places
<1>4. ASSUME TurnEnd PROVE Typed'
  BY <1>0, <1>4, MoveTyped DEF TurnEnd, Places
<1>5. ASSUME AgentEnd PROVE Typed'
  BY <1>0, <1>5, MoveTyped DEF AgentEnd, Places
<1>6. ASSUME RunFailure PROVE Typed'
  <2>1. Assistant(0) \in Entries
    BY EntryTypes, Bounds
  <2>2. transcript' \in Seq(Entries)
    BY <1>0, <1>6, <2>1, AppendProperties DEF RunFailure
  <2> QED BY <1>6, <2>2, MoveTyped DEF RunFailure, Places
<1> QED BY <1>1, <1>2, <1>3, <1>4, <1>5, <1>6

LEMMA EmitInputTyped ==
  ASSUME Typed, NEW next \in Places \ {"idle", "stream"}, EmitInput(next), pc # "idle", pc # "stream"
  PROVE  /\ transcript' \in Seq(Entries) /\ todo' \in Seq(Inputs)
         /\ log' \in Seq([msg : Inputs, run : 1..MaxRuns])
         /\ pc' \in Places \ {"idle", "stream"}
         /\ Head(todo) \in Inputs /\ Input(Head(todo)) \in Entries
<1>1. /\ todo \in Seq(Inputs) /\ transcript \in Seq(Entries) /\ pc \in Places
      /\ log \in Seq([msg : Inputs, run : 1..MaxRuns]) /\ run.id \in 0..MaxRuns
  BY DEF Typed, TypeOK
<1>2. Head(todo) \in Inputs /\ Tail(todo) \in Seq(Inputs)
  BY <1>1, HeadTailProperties DEF EmitInput
<1>3. active # 0 /\ active = run.id
  BY DEF Typed, Control
<1>4. [msg |-> Head(todo), run |-> run.id] \in [msg : Inputs, run : 1..MaxRuns]
  <2>1. run.id \in 1..MaxRuns
    BY <1>1, <1>3, Bounds
  <2> QED BY <1>2, <2>1
<1>5. Input(Head(todo)) \in Entries
  BY <1>2, EntryTypes
<1> QED BY <1>1, <1>2, <1>4, <1>5, AppendProperties DEF EmitInput

LEMMA EmitsTyped ==
  ASSUME Typed, EmitPrompt \/ Inject PROVE Typed'
<1>1. ASSUME EmitPrompt PROVE Typed'
  <2>1. pc = "prompts" /\ EmitInput("poll") /\ "poll" \in Places \ {"idle", "stream"}
    BY <1>1 DEF EmitPrompt, Places
  <2>2. /\ transcript' \in Seq(Entries) /\ todo' \in Seq(Inputs)
        /\ log' \in Seq([msg : Inputs, run : 1..MaxRuns])
        /\ pc' \in Places \ {"idle", "stream"}
    BY <2>1, EmitInputTyped
  <2> QED BY <1>1, <2>1, <2>2 DEF EmitPrompt, Quiet, Typed, TypeOK, Control
<1>2. ASSUME Inject PROVE Typed'
  <2>1. pc = "inject" /\ EmitInput("request") /\ "request" \in Places \ {"idle", "stream"}
    BY <1>2 DEF Inject, Places
  <2>2. /\ transcript' \in Seq(Entries) /\ todo' \in Seq(Inputs)
        /\ log' \in Seq([msg : Inputs, run : 1..MaxRuns])
        /\ pc' \in Places \ {"idle", "stream"} /\ Input(Head(todo)) \in Entries
    BY <2>1, EmitInputTyped
  <2>3. context' \in Seq(Entries)
    BY <1>2, <2>2, AppendProperties DEF Inject, Typed, TypeOK
  <2> QED BY <1>2, <2>1, <2>2, <2>3 DEF Inject, Quiet, Typed, TypeOK, Control
<1> QED BY <1>1, <1>2

LEMMA PollsTyped ==
  ASSUME Typed, InitialPoll \/ PollSteering PROVE Typed'
<1>1. todo' \in Seq(Inputs)
  BY EmptySeq, SteeringType DEF InitialPoll, PollSteering, NoMessages, TakeSteering, Typed
<1>2. queue' \in [steering : Seq(Messages), followUp : Seq(Messages)]
  <2>1. queue \in [steering : Seq(Messages), followUp : Seq(Messages)]
        /\ Remaining(queue.steering, SteeringMode) \in Seq(Messages)
    BY DrainTypes DEF Typed, TypeOK
  <2>2. \/ queue' = queue
        \/ queue' = [queue EXCEPT !.steering = Remaining(@, SteeringMode)]
    BY DEF InitialPoll, PollSteering, NoMessages, TakeSteering
  <2> QED BY <2>1, <2>2
<1>3. run' \in [id : 0..MaxRuns, aborted : BOOLEAN, diags : Seq(Diags), seen : SUBSET Diags]
      /\ run'.id = run.id
  <2>1. run' = run \/ run' = [run EXCEPT !.diags = <<>>]
    BY DEF InitialPoll, PollSteering, NoMessages, TakeSteering
  <2>2. run \in [id : 0..MaxRuns, aborted : BOOLEAN, diags : Seq(Diags), seen : SUBSET Diags]
    BY DEF Typed, TypeOK
  <2>3. <<>> \in Seq(Diags)
    BY EmptySeq
  <2> QED BY <2>1, <2>2, <2>3
<1>4. skip' \in BOOLEAN
  BY DEF InitialPoll, PollSteering, Typed, TypeOK
<1>5. pc \in {"poll", "pollSteering"} /\ pc' \in {"top", "failed", "end", "pollFollowUp"}
  BY DEF InitialPoll, PollSteering
<1>6. UNCHANGED <<transcript, log, context, batch, more, lane, order, active, ending, settled,
                  hostVars, spent>>
  BY DEF InitialPoll, PollSteering
<1>7. TypeOK'
  BY <1>1, <1>2, <1>3, <1>4, <1>5, <1>6 DEF Typed, TypeOK, Places
<1>8. Control'
  BY <1>3, <1>5, <1>6 DEF Typed, Control
<1> QED BY <1>7, <1>8 DEF Typed

LEMMA LaterPollsTyped ==
  ASSUME Typed, PollFollowUp \/ PollContinuation PROVE Typed'
<1>1. ASSUME PollFollowUp PROVE Typed'
  <2>1. /\ queue \in [steering : Seq(Messages), followUp : Seq(Messages)]
        /\ Remaining(queue.followUp, FollowUpMode) \in Seq(Messages)
        /\ Drained(queue.followUp, FollowUpMode) \in Seq(Inputs)
    BY DrainTypes, MessagesAreInputs DEF Typed, TypeOK
  <2>2. todo' \in Seq(Inputs)
    BY <1>1, <2>1 DEF PollFollowUp, Typed, TypeOK
  <2>3. queue' \in [steering : Seq(Messages), followUp : Seq(Messages)]
    BY <1>1, <2>1 DEF PollFollowUp
  <2>4. pc = "pollFollowUp" /\ pc' \in {"end", "top", "pollContinuation"}
    BY <1>1 DEF PollFollowUp
  <2> QED BY <1>1, <2>2, <2>3, <2>4 DEF PollFollowUp, Typed, TypeOK, Control, Places
<1>2. ASSUME PollContinuation PROVE Typed'
  <2>0. todo \in Seq(Inputs) /\ lane \in [Messages -> Lanes] /\ "continuation" \in Lanes
    BY DEF Typed, TypeOK, Lanes
  <2>1. todo' \in Seq(Inputs) /\ lane' \in [Messages -> Lanes]
    <3>1. CASE UNCHANGED <<todo, lane>>
      BY <2>0, <3>1
    <3>2. CASE ~UNCHANGED <<todo, lane>>
      <4>1. PICK m \in Messages : lane' = [lane EXCEPT ![m] = "continuation"] /\ todo' = <<m>>
        BY <1>2, <3>2 DEF PollContinuation
      <4>2. <<m>> \in Seq(Inputs)
        BY DEF Inputs
      <4> QED BY <2>0, <4>1, <4>2
    <3> QED BY <3>1, <3>2
  <2>2. pc = "pollContinuation" /\ pc' \in {"end", "top"}
    BY <1>2 DEF PollContinuation
  <2> QED BY <1>2, <2>1, <2>2 DEF PollContinuation, Typed, TypeOK, Control, Places
<1> QED BY <1>1, <1>2

BatchType == [calls : 0..MaxCalls, parallel : BOOLEAN, started : SUBSET Calls,
              ended : SUBSET Calls, answered : 0..MaxCalls]

LEMMA RespondTyped ==
  ASSUME Typed, NEW k \in 0..MaxCalls, Complete(k) \/ EndEarly(k) PROVE Typed'
<1>1. PICK next \in {"turnEnd", "tools", "answer"} : Respond(k, next)
  BY DEF Complete, EndEarly
<1>2. batch' \in BatchType
  <2>1. PICK p \in BOOLEAN : batch' = [NoBatch EXCEPT !.calls = k, !.parallel = p]
    BY DEF Complete, EndEarly, NoBatch
  <2>2. batch' = [calls |-> k, parallel |-> p, started |-> {}, ended |-> {}, answered |-> 0]
    BY <2>1, Zenon DEF NoBatch
  <2>3. 0 \in 0..MaxCalls
    BY Bounds
  <2> QED BY <2>2, <2>3 DEF BatchType
<1>3. transcript' \in Seq(Entries) /\ context' \in Seq(Entries)
  BY <1>1, EntryTypes, AppendProperties DEF Respond, Typed, TypeOK
<1>4. spent' \in [turns : 0..MaxTurns, aborts : Nat, refused : Nat, drained : SUBSET Inputs]
  <2>1. spent \in [turns : 0..MaxTurns, aborts : Nat, refused : Nat, drained : SUBSET Inputs] /\ spent.turns < MaxTurns
    BY <1>1 DEF Respond, Typed, TypeOK, Control
  <2>2. spent' = [spent EXCEPT !.turns = spent.turns + 1]
    BY <1>1 DEF Respond
  <2>3. spent.turns + 1 \in 0..MaxTurns
    BY <2>1, Bounds
  <2> QED BY <2>1, <2>2, <2>3
<1>5. pc = "stream" /\ pc' \in {"turnEnd", "tools", "answer"}
  BY <1>1 DEF Respond
<1> QED BY <1>1, <1>2, <1>3, <1>4, <1>5 DEF Respond, BatchType, Typed, TypeOK, Control, Places

\* A batch holds no more calls than the bound, and its sets are finite.
LEMMA BatchTyped ==
  ASSUME Typed, StartTool \/ (\E i \in 1..MaxCalls : EndTool(i)) PROVE Typed'
<1>0. batch \in BatchType
  BY DEF Typed, TypeOK, BatchType
<1>1. batch' \in BatchType
  <2>1. ASSUME StartTool PROVE batch' \in BatchType
    <3>1. IsFiniteSet(Calls)
      BY Bounds, FS_Interval DEF Calls
    <3>2. Cardinality(batch.started) \in Nat
      BY <1>0, <3>1, FS_Subset, FS_CardinalityType DEF BatchType
    <3>3. Cardinality(batch.started) + 1 \in Calls
      BY <1>0, <2>1, <3>2, Bounds DEF StartTool, BatchType, Calls
    <3>4. batch' = [batch EXCEPT !.started = batch.started \cup {Cardinality(batch.started) + 1}]
      BY <2>1 DEF StartTool
    <3>5. batch.started \cup {Cardinality(batch.started) + 1} \in SUBSET Calls
      BY <1>0, <3>3 DEF BatchType
    <3> QED BY <1>0, <3>4, <3>5 DEF BatchType
  <2>2. ASSUME NEW i \in 1..MaxCalls, EndTool(i) PROVE batch' \in BatchType
    BY <1>0, <2>2 DEF EndTool, BatchType, Calls
  <2> QED BY <2>1, <2>2
<1>2. UNCHANGED <<transcript, log, context, pc, todo, skip, more>> /\ Quiet
  BY DEF StartTool, EndTool
<1> QED BY <1>1, <1>2 DEF Quiet, BatchType, Typed, TypeOK, Control

LEMMA ResultsTyped ==
  ASSUME Typed, AnswerUnexecuted \/ ToolResult PROVE Typed'
<1>0. batch \in BatchType /\ EmitResult /\ context' = context
  BY DEF AnswerUnexecuted, ToolResult, Typed, TypeOK, BatchType
<1>1. batch.answered + 1 \in 1..MaxCalls /\ batch.answered + 1 \in 0..MaxCalls
  BY <1>0, Bounds DEF EmitResult, BatchType
<1>2. batch' \in BatchType
  BY <1>0, <1>1 DEF EmitResult, BatchType
<1>3. transcript' \in Seq(Entries)
  BY <1>0, <1>1, EntryTypes, AppendProperties DEF EmitResult, Typed, TypeOK
<1> QED BY <1>0, <1>2, <1>3 DEF EmitResult, Quiet, BatchType, Typed, TypeOK, Control

LEMMA BatchEndTyped ==
  ASSUME Typed, AnsweredAll \/ BatchDone PROVE Typed'
<1>1. batch.answered \in 0..MaxCalls /\ context \in Seq(Entries)
  BY DEF Typed, TypeOK
<1>2. BatchResults \in Seq(Entries)
  BY <1>1, ResultsType DEF BatchResults, Results
<1>3. context' \in Seq(Entries)
  BY <1>1, <1>2, ConcatProperties DEF AnsweredAll, BatchDone
<1>4. more' \in BOOLEAN
  BY DEF AnsweredAll, BatchDone, Typed, TypeOK
<1>5. pc \in {"answer", "tools"} /\ pc' \in {"end", "turnEnd"}
  BY DEF AnsweredAll, BatchDone
<1> QED BY <1>3, <1>4, <1>5 DEF AnsweredAll, BatchDone, Quiet, Typed, TypeOK, Control, Places

LEMMA NextTyped == Typed /\ [Next]_vars => Typed'
<1> SUFFICES ASSUME Typed, [Next]_vars PROVE Typed'
  OBVIOUS
<1>1. CASE Loop
  BY <1>1, EmitsTyped, PollsTyped, MovesTyped, RespondTyped, ResultsTyped, BatchEndTyped, BatchTyped,
     LaterPollsTyped, FinishTyped DEF Loop
<1>2. CASE Host
  BY <1>2, EnqueueTyped, RemoveTyped, PromptTyped, ContinueTyped, AbortTyped, SteerActiveTyped DEF Host
<1>3. CASE (\E w \in Waiters : Wait(w)) \/ \E r \in 1..MaxRuns : FinishSettle(r)
  BY <1>3, WaitTyped, FinishTyped
<1>4. CASE UNCHANGED vars
  BY <1>4 DEF vars, Typed, TypeOK, Control
<1> QED BY <1>1, <1>2, <1>3, <1>4 DEF Next

\* Whatever the host, the provider and the tools do, the agent stays in its types.
THEOREM TypeCorrect == Spec => []TypeOK
<1>1. Typed => TypeOK
  BY DEF Typed
<1> QED BY <1>1, InitTyped, NextTyped, PTL DEF Spec

-----------------------------------------------------------------------------
(* The wake-up of wait_for_idle(). *)

\* A waiter is enabled before it looks at the flag, so the settlement that sets
\* the flag after that look finds it registered.
LEMMA NextWakeup == ASSUME Typed, NoLostWakeup, [Next]_vars PROVE NoLostWakeup'
<1>1. CASE UNCHANGED <<waiter, settled>>
  BY <1>1 DEF NoLostWakeup
<1>2. ASSUME NEW r \in 1..MaxRuns, FinishSettle(r) PROVE NoLostWakeup'
  <2> SUFFICES ASSUME NEW w \in Waiters, waiter'[w].at = "parked", waiter'[w].run \in settled'
               PROVE  waiter'[w].woken
    BY DEF NoLostWakeup
  <2>1. waiter'[w] = IF waiter[w].at \in {"enabled", "parked"} /\ waiter[w].run = r
                     THEN [waiter[w] EXCEPT !.woken = TRUE] ELSE waiter[w]
    BY <1>2 DEF FinishSettle
  <2>2. waiter[w] \in [at : {"out", "cloned", "enabled", "parked"}, run : 0..MaxRuns, woken : BOOLEAN]
    BY DEF Typed, TypeOK
  <2>3. CASE waiter[w].at \in {"enabled", "parked"} /\ waiter[w].run = r
    BY <2>1, <2>2, <2>3
  <2>4. CASE ~(waiter[w].at \in {"enabled", "parked"} /\ waiter[w].run = r)
    <3>1. waiter'[w] = waiter[w]
      BY <2>1, <2>4
    <3>2. waiter[w].run \in settled
      BY <1>2, <2>4, <3>1 DEF FinishSettle
    <3> QED BY <3>1, <3>2 DEF NoLostWakeup
  <2> QED BY <2>3, <2>4
<1>3. ASSUME NEW w \in Waiters, Wait(w) PROVE NoLostWakeup'
  <2> SUFFICES ASSUME NEW x \in Waiters, waiter'[x].at = "parked", waiter'[x].run \in settled'
               PROVE  waiter'[x].woken
    BY DEF NoLostWakeup
  <2>1. waiter \in [Waiters -> [at : {"out", "cloned", "enabled", "parked"}, run : 0..MaxRuns,
                                woken : BOOLEAN]]
        /\ settled' = settled
    BY <1>3 DEF Wait, Typed, TypeOK
  <2>2. CASE x # w
    <3>1. waiter'[x] = waiter[x]
      BY <1>3, <2>1, <2>2 DEF Wait, WaitClone, WaitEnable, WaitCheck, WaitReturn, WaitMove
    <3> QED BY <2>1, <3>1 DEF NoLostWakeup
  <2>3. CASE x = w
    <3>1. CASE WaitClone(w) \/ WaitEnable(w) \/ WaitReturn(w)
      BY <2>1, <2>3, <3>1 DEF WaitClone, WaitEnable, WaitReturn, WaitMove, NoWait
    <3>2. CASE WaitCheck(w)
      BY <2>1, <2>3, <3>2 DEF WaitCheck, WaitMove, NoWait
    <3> QED BY <1>3, <3>1, <3>2 DEF Wait
  <2> QED BY <2>2, <2>3
<1>4. CASE Loop
  <2>1. UNCHANGED <<waiter, settled>>
    BY <1>4 DEF Loop, EmitPrompt, InitialPoll, Top, Inject, Request, StreamFails, Complete, EndEarly,
            Respond, AnswerUnexecuted, AnsweredAll, StartTool, EndTool, ToolResult, EmitResult,
            BatchDone, TurnEnd, PollSteering, PollFollowUp, PollContinuation, AgentEnd, RunFailure,
            FinishTake, Quiet
  <2> QED BY <1>1, <2>1
<1>5. CASE Host
  <2>1. UNCHANGED <<waiter, settled>>
    BY <1>5 DEF Host, Steer, FollowUp, Enqueue, RemoveQueued, Prompt, Continue, ContinueRun, Begin,
            ContinueBusy, Abort, ReadGeneration, SteerActive
  <2> QED BY <1>1, <2>1
<1>6. CASE UNCHANGED vars
  BY <1>1, <1>6 DEF vars
<1> QED BY <1>2, <1>3, <1>4, <1>5, <1>6 DEF Next

\* No caller of wait_for_idle() sleeps through the end of its run.
THEOREM WakeupsReachWaiters == Spec => []NoLostWakeup
<1>1. Init => NoLostWakeup
  BY DEF Init, NoLostWakeup, NoWait
<1>2. Typed /\ NoLostWakeup /\ [Next]_vars => NoLostWakeup'
  BY NextWakeup
<1> QED BY <1>1, <1>2, InitTyped, NextTyped, PTL DEF Spec

-----------------------------------------------------------------------------
(* Histories with paired tool calls. *)

\* What an entry tells of itself.
LEMMA EntryShapes ==
  /\ \A m \in Inputs : Input(m).kind = "input"
  /\ \A k \in 0..MaxCalls : Assistant(k).kind = "assistant" /\ Assistant(k).calls = k
  /\ \A i \in 1..MaxCalls : Result(i).kind = "result" /\ Result(i).call = i
  /\ \A e \in Entries : e.kind = "assistant" => e.calls \in Nat
  /\ \A e \in Entries : e.kind = "result" => e.call \in Nat /\ e.call >= 1
<1>1. /\ \A m \in Inputs : Input(m).kind = "input"
      /\ \A k \in 0..MaxCalls : Assistant(k).kind = "assistant" /\ Assistant(k).calls = k
      /\ \A i \in 1..MaxCalls : Result(i).kind = "result" /\ Result(i).call = i
  BY DEF Input, Assistant, Result
<1>2. ASSUME NEW e \in Entries
      PROVE  /\ e.kind = "assistant" => e.calls \in Nat
             /\ e.kind = "result" => e.call \in Nat /\ e.call >= 1
  <2>1. CASE \E m \in Inputs : e = Input(m)
    BY <1>1, <2>1
  <2>2. CASE \E k \in 0..MaxCalls : e = Assistant(k)
    BY <1>1, <2>2, Bounds
  <2>3. CASE \E i \in 1..MaxCalls : e = Result(i)
    BY <1>1, <2>3, Bounds
  <2> QED BY <2>1, <2>2, <2>3 DEF Entries
<1> QED BY <1>1, <1>2

\* A message, or a response without calls, keeps a history paired.
LEMMA PairedAppend ==
  ASSUME NEW t \in Seq(Entries), Paired(t), NEW e \in Entries,
         e.kind = "input" \/ (e.kind = "assistant" /\ e.calls = 0)
  PROVE  Paired(Append(t, e))
<1> DEFINE u == Append(t, e)
           n == Len(t)
<1>1. n \in Nat /\ DOMAIN t = 1..n /\ \A i \in 1..n : t[i] \in Entries
  BY LenProperties, ElementOfSeq
<1>2. DOMAIN u = 1..(n + 1) /\ (\A i \in 1..n : u[i] = t[i]) /\ u[n + 1] = e
  <2>1. u \in Seq(Entries) /\ Len(u) = n + 1
    BY AppendProperties
  <2>2. DOMAIN u = 1..(n + 1)
    BY <2>1, LenProperties
  <2> QED BY <2>2, AppendProperties
<1> HIDE DEF u, n
<1>3. ASSUME NEW i \in DOMAIN u, u[i].kind = "assistant", NEW j \in 1..u[i].calls
      PROVE  i + j \in DOMAIN u /\ u[i + j] = Result(j)
  <2>1. CASE i \in 1..n
    <3>1. u[i] = t[i] /\ t[i].calls \in Nat
      BY <1>1, <1>2, <1>3, <2>1, EntryShapes
    <3>2. i + j \in 1..n /\ t[i + j] = Result(j)
      BY <1>1, <1>3, <2>1, <3>1 DEF Paired
    <3> QED BY <1>1, <1>2, <3>2
  <2>2. CASE i \notin 1..n
    <3>1. u[i] = e
      BY <1>1, <1>2, <2>2
    <3>2. u[i].calls = 0
      BY <1>3, <3>1
    <3> QED BY <3>2
  <2> QED BY <2>1, <2>2
<1>4. ASSUME NEW i \in DOMAIN u, u[i].kind = "result"
      PROVE  /\ i - u[i].call \in DOMAIN u
             /\ u[i - u[i].call].kind = "assistant" /\ u[i - u[i].call].calls >= u[i].call
  <2>1. i \in 1..n
    BY <1>1, <1>2, <1>4
  <2>2. u[i] = t[i]
    BY <1>2, <2>1
  <2>3. /\ i - t[i].call \in 1..n
        /\ t[i - t[i].call].kind = "assistant" /\ t[i - t[i].call].calls >= t[i].call
    BY <1>1, <1>4, <2>1, <2>2 DEF Paired
  <2> QED BY <1>1, <1>2, <2>2, <2>3
<1> QED BY <1>3, <1>4 DEF Paired, u

\* So does a response with all of its results.
LEMMA PairedBatch ==
  ASSUME NEW t \in Seq(Entries), Paired(t), NEW k \in 0..MaxCalls
  PROVE  Paired(Append(t, Assistant(k)) \o Results(k))
<1> DEFINE a == Append(t, Assistant(k))
           u == a \o Results(k)
           n == Len(t)
<1>1. n \in Nat /\ k \in Nat /\ DOMAIN t = 1..n /\ \A i \in 1..n : t[i] \in Entries
  BY LenProperties, ElementOfSeq, Bounds
<1>2. a \in Seq(Entries) /\ Len(a) = n + 1 /\ (\A i \in 1..n : a[i] = t[i]) /\ a[n + 1] = Assistant(k)
  BY EntryTypes, AppendProperties
<1>3. u \in Seq(Entries) /\ Len(u) = n + 1 + k
  <2>1. Results(k) \in Seq(Entries) /\ Len(Results(k)) = k
    BY ResultsType
  <2> HIDE DEF a
  <2>2. u \in Seq(Entries) /\ Len(u) = Len(a) + Len(Results(k))
    BY <1>2, <2>1, ConcatProperties
  <2> QED BY <1>2, <2>1, <2>2
<1>4. DOMAIN u = 1..(n + 1 + k)
  BY <1>3, LenProperties
<1>5. \A i \in 1..n : u[i] = t[i]
  BY <1>1, <1>2, <1>3, ResultsType, ConcatProperties
<1>6. u[n + 1] = Assistant(k)
  BY <1>1, <1>2, <1>3, ResultsType, ConcatProperties
<1>7. ASSUME NEW j \in 1..k PROVE u[n + 1 + j] = Result(j)
  <2>1. Results(k) \in Seq(Entries) /\ Len(Results(k)) = k /\ Results(k)[j] = Result(j)
    BY ResultsType
  <2>2. n + 1 + j \in 1..(Len(a) + Len(Results(k))) /\ ~(n + 1 + j <= Len(a))
        /\ (n + 1 + j) - Len(a) = j
    BY <1>1, <1>2, <2>1
  <2> HIDE DEF a
  <2>3. u[n + 1 + j] = Results(k)[(n + 1 + j) - Len(a)]
    BY <1>2, <2>1, <2>2, ConcatProperties
  <2> QED BY <2>1, <2>2, <2>3
<1>8. Assistant(k).kind = "assistant" /\ Assistant(k).calls = k
      /\ \A j \in 1..k : Result(j).kind = "result" /\ Result(j).call = j
  BY <1>1, Bounds, EntryShapes
<1> HIDE DEF a, u, n
<1>9. ASSUME NEW i \in DOMAIN u
      PROVE  i \in 1..n \/ i = n + 1 \/ (i - (n + 1) \in 1..k /\ i = n + 1 + (i - (n + 1)))
  BY <1>1, <1>4
<1>10. ASSUME NEW i \in DOMAIN u, u[i].kind = "assistant", NEW j \in 1..u[i].calls
       PROVE  i + j \in DOMAIN u /\ u[i + j] = Result(j)
  <2>1. CASE i \in 1..n
    <3>1. u[i] = t[i] /\ t[i].calls \in Nat
      BY <1>1, <1>5, <1>10, <2>1, EntryShapes
    <3>2. i + j \in 1..n /\ t[i + j] = Result(j)
      BY <1>1, <1>10, <2>1, <3>1 DEF Paired
    <3> QED BY <1>1, <1>4, <1>5, <3>2
  <2>2. CASE i = n + 1
    <3>1. j \in 1..k
      BY <1>6, <1>8, <1>10, <2>2
    <3> QED BY <1>1, <1>4, <1>7, <2>2, <3>1
  <2>3. CASE i - (n + 1) \in 1..k /\ i = n + 1 + (i - (n + 1))
    <3>1. u[i] = Result(i - (n + 1))
      BY <1>7, <2>3
    <3> QED BY <1>8, <1>10, <2>3, <3>1
  <2> QED BY <1>9, <2>1, <2>2, <2>3
<1>11. ASSUME NEW i \in DOMAIN u, u[i].kind = "result"
       PROVE  /\ i - u[i].call \in DOMAIN u
              /\ u[i - u[i].call].kind = "assistant" /\ u[i - u[i].call].calls >= u[i].call
  <2>1. CASE i \in 1..n
    <3>1. u[i] = t[i]
      BY <1>5, <2>1
    <3>2. /\ i - t[i].call \in 1..n
          /\ t[i - t[i].call].kind = "assistant" /\ t[i - t[i].call].calls >= t[i].call
      BY <1>1, <1>11, <2>1, <3>1 DEF Paired
    <3> QED BY <1>1, <1>4, <1>5, <3>1, <3>2
  <2>2. CASE i = n + 1
    BY <1>6, <1>8, <1>11, <2>2
  <2>3. CASE i - (n + 1) \in 1..k /\ i = n + 1 + (i - (n + 1))
    <3>1. u[i] = Result(i - (n + 1))
      BY <1>7, <2>3
    <3>2. u[i].call = i - (n + 1)
      BY <1>8, <2>3, <3>1
    <3>3. i - u[i].call = n + 1 /\ k >= u[i].call
      BY <1>1, <2>3, <3>2
    <3> QED BY <1>1, <1>4, <1>6, <1>8, <3>3
  <2> QED BY <1>9, <2>1, <2>2, <2>3
<1> QED BY <1>10, <1>11 DEF Paired, u, a

-----------------------------------------------------------------------------
(* The context and the transcript. *)

Level == {"poll", "top", "inject", "request", "stream", "turnEnd",
          "pollSteering", "pollFollowUp", "pollContinuation"}
Answering == {"tools", "answer"}

\* The context runs ahead of the transcript by the prompts that are still to be
\* emitted, lags behind it by the results of the batch, and equals it elsewhere
\* in a turn.  It matters no more once the run ends.
Sync ==
  /\ pc = "prompts" => context = transcript \o Emitted(todo)
  /\ pc \in Answering => transcript = context \o Results(batch.answered)
  /\ pc \in Level => context = transcript

\* The transcript is paired, except behind a response whose calls are being
\* answered: there the context ends in that response and is paired before it.
Pairing ==
  /\ pc \notin Answering => Paired(transcript)
  /\ pc \in Answering =>
       \E t \in Seq(Entries) : Paired(t) /\ context = Append(t, Assistant(batch.calls))

History == Typed /\ Sync /\ Pairing

LEMMA InitHistory == Init => Sync /\ Pairing
BY DEF Init, Sync, Pairing, Paired, Level, Answering

\* Steps of others leave the loop alone.
LEMMA StillHistory ==
  ASSUME History, UNCHANGED <<transcript, context, pc, todo, batch>> PROVE Sync' /\ Pairing'
BY DEF History, Sync, Pairing

\* Steps between two requests that emit nothing.
LEMMA LevelHistory ==
  ASSUME History, pc \notin Answering, pc' \notin Answering \cup {"prompts"},
         transcript' = transcript, pc' \in Level => pc \in Level /\ context' = context
  PROVE  Sync' /\ Pairing'
BY DEF History, Sync, Pairing, Level, Answering

LEMMA MovesHistory ==
  ASSUME History, Top \/ Request \/ StreamFails \/ TurnEnd \/ AgentEnd \/ FinishTake
                  \/ InitialPoll \/ PollSteering \/ PollFollowUp \/ PollContinuation
  PROVE  Sync' /\ Pairing'
<1>1. /\ pc \notin Answering /\ pc' \notin Answering \cup {"prompts"}
      /\ pc' \in Level => pc \in Level
  BY DEF Top, Request, StreamFails, TurnEnd, AgentEnd, FinishTake, InitialPoll, PollSteering,
         PollFollowUp, PollContinuation, MoveTo, Level, Answering
<1>2. UNCHANGED <<transcript, context>>
  BY DEF Top, Request, StreamFails, TurnEnd, AgentEnd, FinishTake, InitialPoll, PollSteering,
         PollFollowUp, PollContinuation, MoveTo
<1> QED BY <1>1, <1>2, LevelHistory

LEMMA FailureHistory ==
  ASSUME History, RunFailure PROVE Sync' /\ Pairing'
<1>1. pc' = "finish" /\ transcript' = Append(transcript, Assistant(0)) /\ pc = "failed"
  BY DEF RunFailure, MoveTo
<1>2. Paired(transcript) /\ transcript \in Seq(Entries)
  BY <1>1 DEF History, Pairing, Answering, Typed, TypeOK
<1>3. Assistant(0) \in Entries /\ Assistant(0).kind = "assistant" /\ Assistant(0).calls = 0
  BY EntryTypes, EntryShapes, Bounds
<1>4. Paired(transcript')
  BY <1>1, <1>2, <1>3, PairedAppend
<1> QED BY <1>1, <1>4 DEF Sync, Pairing, Level, Answering

\* Concatenations of entries.
LEMMA ConcatEntries ==
  ASSUME NEW x \in Seq(Entries), NEW y \in Seq(Entries)
  PROVE  /\ x \o y \in Seq(Entries) /\ Len(x \o y) = Len(x) + Len(y)
         /\ \A i \in 1..(Len(x) + Len(y)) :
              (x \o y)[i] = IF i <= Len(x) THEN x[i] ELSE y[i - Len(x)]
         /\ \A z \in Seq(Entries) : (x \o y) \o z = x \o (y \o z)
BY ConcatProperties, ConcatAssociative

\* Emitting the head of a list.
LEMMA EmittedHead ==
  ASSUME NEW t \in Seq(Entries), NEW msgs \in Seq(Inputs), msgs # <<>>
  PROVE  Append(t, Input(Head(msgs))) \o Emitted(Tail(msgs)) = t \o Emitted(msgs)
<1> DEFINE a == Append(t, Input(Head(msgs)))
           l == a \o Emitted(Tail(msgs))
           r == t \o Emitted(msgs)
<1>1. /\ Len(t) \in Nat /\ Len(msgs) \in Nat /\ Len(msgs) > 0
      /\ Head(msgs) \in Inputs /\ Head(msgs) = msgs[1] /\ Tail(msgs) \in Seq(Inputs)
      /\ Len(Tail(msgs)) = Len(msgs) - 1
      /\ \A i \in 1..(Len(msgs) - 1) : Tail(msgs)[i] = msgs[i + 1]
  BY LenProperties, EmptySeq, HeadTailProperties
<1>2. /\ Emitted(msgs) \in Seq(Entries) /\ Len(Emitted(msgs)) = Len(msgs)
      /\ \A i \in 1..Len(msgs) : Emitted(msgs)[i] = Input(msgs[i])
  BY EmittedType
<1>3. /\ Emitted(Tail(msgs)) \in Seq(Entries) /\ Len(Emitted(Tail(msgs))) = Len(msgs) - 1
      /\ \A i \in 1..(Len(msgs) - 1) : Emitted(Tail(msgs))[i] = Input(msgs[i + 1])
  <2>1. /\ Emitted(Tail(msgs)) \in Seq(Entries) /\ Len(Emitted(Tail(msgs))) = Len(Tail(msgs))
        /\ \A i \in 1..Len(Tail(msgs)) : Emitted(Tail(msgs))[i] = Input(Tail(msgs)[i])
    BY <1>1, EmittedType, Zenon
  <2> QED BY <1>1, <2>1
<1>4. /\ a \in Seq(Entries) /\ Len(a) = Len(t) + 1 /\ a[Len(t) + 1] = Input(msgs[1])
      /\ \A i \in 1..Len(t) : a[i] = t[i]
  BY <1>1, EntryTypes, AppendProperties
<1> HIDE DEF a
<1>5. /\ l \in Seq(Entries) /\ Len(l) = Len(t) + Len(msgs)
      /\ \A i \in 1..(Len(t) + Len(msgs)) :
           l[i] = IF i <= Len(t) + 1 THEN a[i] ELSE Input(msgs[i - Len(t)])
  <2>1. /\ l \in Seq(Entries) /\ Len(l) = Len(a) + Len(Emitted(Tail(msgs)))
        /\ \A i \in 1..(Len(a) + Len(Emitted(Tail(msgs)))) :
             l[i] = IF i <= Len(a) THEN a[i] ELSE Emitted(Tail(msgs))[i - Len(a)]
    <3> DEFINE e == Emitted(Tail(msgs))
    <3>1. a \in Seq(Entries) /\ e \in Seq(Entries)
      BY <1>3, <1>4
    <3> HIDE DEF e
    <3> QED BY <3>1, ConcatEntries DEF e
  <2>2. Len(a) + Len(Emitted(Tail(msgs))) = Len(t) + Len(msgs)
    <3> DEFINE e == Len(Emitted(Tail(msgs)))
               n == Len(msgs)
    <3>1. e = n - 1 /\ n \in Nat /\ Len(a) = Len(t) + 1 /\ Len(t) \in Nat
      BY <1>1, <1>3, <1>4, Zenon
    <3> HIDE DEF e, n
    <3>2. Len(a) + e = Len(t) + n
      BY <3>1
    <3> QED BY <3>2 DEF e, n
  <2> HIDE DEF l
  <2>3. ASSUME NEW i \in 1..(Len(t) + Len(msgs)), ~(i <= Len(t) + 1)
        PROVE  Emitted(Tail(msgs))[i - Len(a)] = Input(msgs[i - Len(t)])
    <3>1. i - Len(a) \in 1..(Len(msgs) - 1) /\ (i - Len(a)) + 1 = i - Len(t)
      BY <1>1, <1>4, <2>3
    <3> QED BY <1>3, <3>1
  <2> QED BY <1>4, <2>1, <2>2, <2>3
<1>6. /\ r \in Seq(Entries) /\ Len(r) = Len(t) + Len(msgs)
      /\ \A i \in 1..(Len(t) + Len(msgs)) :
           r[i] = IF i <= Len(t) THEN t[i] ELSE Input(msgs[i - Len(t)])
  <2>1. /\ r \in Seq(Entries) /\ Len(r) = Len(t) + Len(Emitted(msgs))
        /\ \A i \in 1..(Len(t) + Len(Emitted(msgs))) :
             r[i] = IF i <= Len(t) THEN t[i] ELSE Emitted(msgs)[i - Len(t)]
    BY <1>2, ConcatProperties
  <2> HIDE DEF r
  <2>2. ASSUME NEW i \in 1..(Len(t) + Len(msgs)), ~(i <= Len(t))
        PROVE  Emitted(msgs)[i - Len(t)] = Input(msgs[i - Len(t)])
    <3>1. i - Len(t) \in 1..Len(msgs)
      BY <1>1, <2>2
    <3> QED BY <1>2, <3>1
  <2> QED BY <1>2, <2>1, <2>2
<1> HIDE DEF l, r
<1>7. ASSUME NEW i \in 1..(Len(t) + Len(msgs)) PROVE l[i] = r[i]
  <2>1. CASE i <= Len(t)
    BY <1>1, <1>4, <1>5, <1>6, <2>1
  <2>2. CASE i = Len(t) + 1
    <3>1. i - Len(t) = 1 /\ ~(i <= Len(t))
      BY <1>1, <2>2
    <3>2. l[i] = Input(msgs[1])
      BY <1>1, <1>4, <1>5, <2>2
    <3> QED BY <1>6, <3>1, <3>2
  <2>3. CASE i > Len(t) + 1
    <3>1. ~(i <= Len(t) + 1) /\ ~(i <= Len(t))
      BY <1>1, <2>3
    <3> QED BY <1>5, <1>6, <3>1
  <2> QED BY <1>1, <2>1, <2>2, <2>3
<1>8. l = r
  BY <1>5, <1>6, <1>7, SeqEqual
<1> QED BY <1>8 DEF l, r, a

LEMMA EmittedNothing ==
  ASSUME NEW t \in Seq(Entries) PROVE t \o Emitted(<<>>) = t
<1>1. Emitted(<<>>) = <<>>
  <2>1. <<>> \in Seq(Inputs) /\ Len(<<>>) = 0
    BY EmptySeq
  <2>2. Emitted(<<>>) \in Seq(Entries) /\ Len(Emitted(<<>>)) = 0
    BY <2>1, EmittedType
  <2> QED BY <2>2, EmptySeq
<1> QED BY <1>1, ConcatEmptySeq

LEMMA BeginHistory ==
  ASSUME History, active = 0, NEW msgs \in Seq(Messages), NEW skipPoll, Begin(msgs, skipPoll),
         transcript' = transcript
  PROVE  Sync' /\ Pairing'
<1>1. pc = "idle" /\ transcript \in Seq(Entries)
  BY DEF History, Typed, TypeOK, Control
<1>2. Paired(transcript)
  BY <1>1 DEF History, Pairing, Answering
<1>3. context' = transcript \o Emitted(msgs) /\ todo' = msgs
  BY DEF Begin, Emitted
<1>4. CASE msgs # <<>>
  <2>1. pc' = "prompts"
    BY <1>4 DEF Begin
  <2> QED BY <1>2, <1>3, <2>1 DEF Sync, Pairing, Level, Answering
<1>5. CASE msgs = <<>>
  <2>1. pc' \in {"failed", "poll"}
    BY <1>5 DEF Begin
  <2>2. context' = transcript'
    BY <1>1, <1>3, <1>5, EmittedNothing
  <2> QED BY <1>2, <2>1, <2>2 DEF Sync, Pairing, Level, Answering
<1> QED BY <1>4, <1>5

LEMMA StartsHistory ==
  ASSUME History, ContinueRun \/ \E m \in Messages : Prompt(m) PROVE Sync' /\ Pairing'
<1>1. ASSUME ContinueRun PROVE Sync' /\ Pairing'
  <2>1. held.msgs \in Seq(Messages)
    BY DEF History, Typed, TypeOK
  <2>2. active = 0 /\ Begin(held.msgs, held.skip) /\ transcript' = transcript
    BY <1>1 DEF ContinueRun
  <2> QED BY <2>1, <2>2, BeginHistory
<1>2. ASSUME NEW m \in Messages, Prompt(m) PROVE Sync' /\ Pairing'
  <2>1. <<m>> \in Seq(Messages)
    OBVIOUS
  <2>2. active = 0 /\ Begin(<<m>>, FALSE) /\ transcript' = transcript
    BY <1>2 DEF Prompt
  <2> QED BY <2>1, <2>2, BeginHistory
<1> QED BY <1>1, <1>2

LEMMA EmitHistory ==
  ASSUME History, EmitPrompt \/ Inject PROVE Sync' /\ Pairing'
<1>0. /\ transcript \in Seq(Entries) /\ todo \in Seq(Inputs) /\ todo # <<>>
      /\ transcript' = Append(transcript, Input(Head(todo))) /\ todo' = Tail(todo)
      /\ pc \in {"prompts", "inject"} /\ pc' \in {"prompts", "inject", "poll", "request"}
  BY DEF EmitPrompt, Inject, EmitInput, History, Typed, TypeOK
<1>1. Head(todo) \in Inputs /\ Tail(todo) \in Seq(Inputs)
  BY <1>0, HeadTailProperties
<1>2. Input(Head(todo)) \in Entries /\ Input(Head(todo)).kind = "input"
  BY <1>1, EntryTypes, EntryShapes
<1>3. transcript' \in Seq(Entries)
  BY <1>0, <1>2, AppendProperties
<1>4. Pairing'
  <2>1. Paired(transcript)
    BY <1>0 DEF History, Pairing, Answering
  <2>2. Paired(transcript')
    BY <1>0, <1>2, <2>1, PairedAppend
  <2> QED BY <1>0, <2>2 DEF Pairing, Answering
<1>5. ASSUME EmitPrompt PROVE Sync'
  <2>1. context' = context /\ context = transcript \o Emitted(todo)
    BY <1>5 DEF EmitPrompt, History, Sync
  <2>2. context' = transcript' \o Emitted(todo')
    BY <1>0, <2>1, EmittedHead
  <2>3. CASE Tail(todo) = <<>>
    <3>1. pc' = "poll"
      BY <1>5, <2>3 DEF EmitPrompt, EmitInput
    <3>2. context' = transcript'
      BY <1>0, <1>3, <2>2, <2>3, EmittedNothing
    <3> QED BY <3>1, <3>2 DEF Sync, Answering, Level
  <2>4. CASE Tail(todo) # <<>>
    <3>1. pc' = "prompts"
      BY <1>5, <2>4 DEF EmitPrompt, EmitInput
    <3> QED BY <2>2, <3>1 DEF Sync, Answering, Level
  <2> QED BY <2>3, <2>4
<1>6. ASSUME Inject PROVE Sync'
  <2>1. context' = transcript' /\ pc' \in {"inject", "request"}
    BY <1>6 DEF Inject, EmitInput, History, Sync, Level
  <2> QED BY <2>1 DEF Sync, Answering, Level
<1> QED BY <1>4, <1>5, <1>6

LEMMA RespondHistory ==
  ASSUME History, NEW k \in 0..MaxCalls, Complete(k) \/ EndEarly(k) PROVE Sync' /\ Pairing'
<1>1. /\ pc = "stream" /\ transcript \in Seq(Entries)
      /\ transcript' = Append(transcript, Assistant(k))
      /\ context' = Append(context, Assistant(k))
      /\ pc' \in Answering \/ (k = 0 /\ pc' = "turnEnd")
  BY DEF Complete, EndEarly, Respond, Answering, History, Typed, TypeOK
<1>2. batch'.calls = k /\ batch'.answered = 0
  BY DEF Complete, EndEarly, NoBatch
<1>3. context = transcript /\ Paired(transcript)
  BY <1>1 DEF History, Sync, Pairing, Level, Answering
<1>4. Assistant(k) \in Entries /\ Assistant(k).kind = "assistant" /\ Assistant(k).calls = k
  BY EntryTypes, EntryShapes
<1>5. transcript' \in Seq(Entries) /\ context' = transcript'
  BY <1>1, <1>3, <1>4, AppendProperties
<1>6. CASE pc' \in Answering
  <2>1. transcript' = context' \o Results(batch'.answered)
    <3>1. 0 \in 0..MaxCalls
      BY Bounds
    <3>2. Results(0) \in Seq(Entries) /\ Len(Results(0)) = 0
      BY <3>1, ResultsType
    <3>3. Results(0) = <<>>
      BY <3>2, EmptySeq
    <3> QED BY <1>2, <1>5, <3>3, ConcatEmptySeq
  <2>2. \E t \in Seq(Entries) : Paired(t) /\ context' = Append(t, Assistant(batch'.calls))
    BY <1>1, <1>2, <1>3
  <2> QED BY <1>6, <2>1, <2>2 DEF Sync, Pairing, Level, Answering
<1>7. CASE k = 0 /\ pc' = "turnEnd"
  <2>1. Paired(transcript')
    BY <1>1, <1>3, <1>4, <1>7, PairedAppend
  <2> QED BY <1>5, <1>7, <2>1 DEF Sync, Pairing, Level, Answering
<1> QED BY <1>1, <1>6, <1>7

\* The next result behind the results so far.
LEMMA ResultsNext ==
  ASSUME NEW c \in Seq(Entries), NEW k \in 0..MaxCalls, k + 1 \in 0..MaxCalls
  PROVE  Append(c \o Results(k), Result(k + 1)) = c \o Results(k + 1)
<1>1. k \in Nat /\ Len(c) \in Nat /\ Result(k + 1) \in Entries
  BY EntryTypes, Bounds, LenProperties
<1>2. /\ Results(k) \in Seq(Entries) /\ Len(Results(k)) = k
      /\ Results(k + 1) \in Seq(Entries) /\ Len(Results(k + 1)) = k + 1
      /\ \A i \in 1..k : Results(k)[i] = Result(i)
      /\ \A i \in 1..(k + 1) : Results(k + 1)[i] = Result(i)
  BY ResultsType
<1>3. Append(Results(k), Result(k + 1)) = Results(k + 1)
  <2>1. /\ Append(Results(k), Result(k + 1)) \in Seq(Entries)
        /\ Len(Append(Results(k), Result(k + 1))) = k + 1
        /\ \A i \in 1..k : Append(Results(k), Result(k + 1))[i] = Result(i)
        /\ Append(Results(k), Result(k + 1))[k + 1] = Result(k + 1)
    BY <1>1, <1>2, AppendProperties
  <2>2. \A i \in 1..(k + 1) : Append(Results(k), Result(k + 1))[i] = Results(k + 1)[i]
    BY <1>1, <1>2, <2>1
  <2> QED BY <1>2, <2>1, <2>2, SeqEqual
<1>4. /\ Append(Results(k), Result(k + 1)) = Results(k) \o <<Result(k + 1)>>
      /\ c \o Results(k) \in Seq(Entries) /\ <<Result(k + 1)>> \in Seq(Entries)
      /\ Append(c \o Results(k), Result(k + 1)) = (c \o Results(k)) \o <<Result(k + 1)>>
  BY <1>1, <1>2, AppendIsConcat, ConcatProperties
<1>5. (c \o Results(k)) \o <<Result(k + 1)>> = c \o (Results(k) \o <<Result(k + 1)>>)
  <2> DEFINE x == Results(k)
             y == <<Result(k + 1)>>
  <2>1. x \in Seq(Entries) /\ y \in Seq(Entries)
    BY <1>2, <1>4
  <2> HIDE DEF x, y
  <2>2. (c \o x) \o y = c \o (x \o y)
    BY <2>1, ConcatEntries
  <2> QED BY <2>2 DEF x, y
<1> QED BY <1>3, <1>4, <1>5, Zenon

LEMMA ResultHistory ==
  ASSUME History, AnswerUnexecuted \/ ToolResult PROVE Sync' /\ Pairing'
<1>1. /\ pc \in Answering /\ pc' = pc /\ context' = context /\ EmitResult
      /\ context \in Seq(Entries) /\ batch \in BatchType
  BY DEF AnswerUnexecuted, ToolResult, EmitResult, Answering, History, Typed, TypeOK, BatchType
<1>2. /\ batch.answered \in 0..MaxCalls /\ batch.answered + 1 \in 0..MaxCalls
      /\ batch'.calls = batch.calls /\ batch'.answered = batch.answered + 1
  BY <1>1, Bounds DEF EmitResult, BatchType
<1>3. transcript' = context' \o Results(batch'.answered)
  <2>1. transcript = context \o Results(batch.answered)
    BY <1>1 DEF History, Sync
  <2>2. transcript' = Append(transcript, Result(batch.answered + 1))
    BY <1>1 DEF EmitResult
  <2> QED BY <1>1, <1>2, <2>1, <2>2, ResultsNext
<1>4. Pairing'
  BY <1>1, <1>2 DEF History, Pairing
<1> QED BY <1>1, <1>3, <1>4 DEF Sync, Answering, Level

LEMMA BatchEndHistory ==
  ASSUME History, AnsweredAll \/ BatchDone PROVE Sync' /\ Pairing'
<1>1. /\ pc \in Answering /\ pc' \in {"end", "turnEnd"} /\ transcript' = transcript
      /\ context' = context \o Results(batch.answered) /\ batch.answered = batch.calls
      /\ batch.calls \in 0..MaxCalls
  BY DEF AnsweredAll, BatchDone, BatchResults, Results, Answering, History, Typed, TypeOK
<1>2. context' = transcript
  BY <1>1 DEF History, Sync
<1>3. PICK t \in Seq(Entries) : Paired(t) /\ context = Append(t, Assistant(batch.calls))
  BY <1>1 DEF History, Pairing
<1>4. Paired(transcript)
  BY <1>1, <1>2, <1>3, PairedBatch
<1> QED BY <1>1, <1>2, <1>4 DEF Sync, Pairing, Level, Answering

LEMMA ToolsHistory ==
  ASSUME History, StartTool \/ (\E i \in 1..MaxCalls : EndTool(i)) PROVE Sync' /\ Pairing'
<1>1. UNCHANGED <<transcript, context, pc, todo>>
  BY DEF StartTool, EndTool
<1>2. batch'.calls = batch.calls /\ batch'.answered = batch.answered
  <2>1. batch \in BatchType
    BY DEF History, Typed, TypeOK, BatchType
  <2>2. \E x, y : batch' = [batch EXCEPT !.started = x] \/ batch' = [batch EXCEPT !.ended = y]
    BY DEF StartTool, EndTool
  <2> QED BY <2>1, <2>2 DEF BatchType
<1> QED BY <1>1, <1>2 DEF History, Sync, Pairing

LEMMA NextHistory == History /\ [Next]_vars => History'
<1> SUFFICES ASSUME History, [Next]_vars PROVE Sync' /\ Pairing'
  BY NextTyped DEF History
<1>1. CASE Loop
  BY <1>1, EmitHistory, MovesHistory, RespondHistory, ResultHistory, BatchEndHistory, ToolsHistory,
     FailureHistory DEF Loop
<1>2. CASE Host
  <2>1. CASE ContinueRun \/ \E m \in Messages : Prompt(m)
    BY <2>1, StartsHistory
  <2>2. CASE ~(ContinueRun \/ \E m \in Messages : Prompt(m))
    <3>1. UNCHANGED <<transcript, context, pc, todo, batch>>
      BY <1>2, <2>2 DEF Host, Steer, FollowUp, Enqueue, RemoveQueued, Continue, ContinueBusy, Abort,
              ReadGeneration, SteerActive
    <3> QED BY <3>1, StillHistory
  <2> QED BY <2>1, <2>2
<1>3. CASE (\E w \in Waiters : Wait(w)) \/ \E r \in 1..MaxRuns : FinishSettle(r)
  <2>1. UNCHANGED <<transcript, context, pc, todo, batch>>
    BY <1>3 DEF Wait, FinishSettle
  <2> QED BY <2>1, StillHistory
<1>4. CASE UNCHANGED vars
  BY <1>4, StillHistory DEF vars
<1> QED BY <1>1, <1>2, <1>3, <1>4 DEF Next

LEMMA AlwaysHistory == Spec => []History
<1>1. Init => History
  BY InitTyped, InitHistory DEF History
<1> QED BY <1>1, NextHistory, PTL DEF Spec

\* The persisted context pairs every tool call with exactly one result whenever the
\* agent is idle or sends a request, whatever the provider, the tools and the aborts do.
THEOREM HistoriesArePaired == Spec => []HistoryPaired
<1>1. History => HistoryPaired
  BY DEF History, Typed, Control, Pairing, HistoryPaired, Answering
<1> QED BY <1>1, AlwaysHistory, PTL

\* Each request carries the transcript its listeners have.
THEOREM RequestsCarryTranscript == Spec => []RequestIsTranscript
<1>1. History => RequestIsTranscript
  BY DEF History, Sync, RequestIsTranscript, Level
<1> QED BY <1>1, AlwaysHistory, PTL

-----------------------------------------------------------------------------
(* Diagnostics. *)

\* What the run holds, what its loop has drained and what was emitted was
\* addressed to the run it is in.
Addressed ==
  /\ \A i \in DOMAIN run.diags : sent[run.diags[i]] = run.id
  /\ \A i \in DOMAIN todo : todo[i] \in Diags => sent[todo[i]] = run.id
  /\ DiagnosticsStayInRun

LEMMA InitAddressed == Init => Addressed
BY DEF Init, Addressed, DiagnosticsStayInRun, NewRun

LEMMA StillAddressed ==
  ASSUME Addressed, UNCHANGED <<run, todo, log, sent>> PROVE Addressed'
BY DEF Addressed, DiagnosticsStayInRun

\* Lists of messages hold no diagnostic.
LEMMA MessagesNoDiags ==
  ASSUME NEW s \in Seq(Messages), NEW i \in DOMAIN s PROVE s[i] \notin Diags
<1>1. s[i] \in Messages
  BY LenProperties, ElementOfSeq
<1> QED BY <1>1, AgentAssumption

\* A drain puts messages only into the list of the loop.
LEMMA DrainAddressed ==
  ASSUME Addressed, todo' \in Seq(Messages), UNCHANGED <<log, sent>>,
         run' = run \/ run'.diags = <<>>
  PROVE  Addressed'
<1>1. \A i \in DOMAIN todo' : todo'[i] \notin Diags
  BY MessagesNoDiags
<1>2. \A i \in DOMAIN run'.diags : sent[run'.diags[i]] = run'.id
  BY DEF Addressed
<1> QED BY <1>1, <1>2 DEF Addressed, DiagnosticsStayInRun

\* A steering poll adds the diagnostics of the run.
LEMMA PollAddressed ==
  ASSUME Typed, Addressed, InitialPoll \/ PollSteering PROVE Addressed'
<1>0. UNCHANGED <<log, sent>>
  BY DEF InitialPoll, PollSteering
<1>1. CASE NoMessages
  <2>1. todo' \in Seq(Messages) /\ run' = run
    BY <1>1, EmptySeq DEF NoMessages
  <2> QED BY <1>0, <2>1, DrainAddressed
<1>2. CASE TakeSteering
  <2> DEFINE q == Drained(queue.steering, SteeringMode)
             d == run.diags
  <2>1. q \in Seq(Messages) /\ d \in Seq(Diags)
    BY DrainTypes DEF Typed, TypeOK
  <2>2. /\ todo' = q \o d /\ run' = [run EXCEPT !.diags = <<>>]
    BY <1>2 DEF TakeSteering, Steering
  <2>3. run'.diags = <<>> /\ run'.id = run.id
    BY <2>2 DEF Typed, TypeOK
  <2>4. \A i \in DOMAIN d : sent[d[i]] = run.id
    BY DEF Addressed
  <2> HIDE DEF q, d
  <2>5. ASSUME NEW i \in DOMAIN todo', todo'[i] \in Diags PROVE sent[todo'[i]] = run.id
    <3>1. q \in Seq(Inputs) /\ d \in Seq(Inputs)
      BY <2>1, SeqMonotonic DEF Inputs
    <3>2. /\ q \o d \in Seq(Inputs) /\ Len(q \o d) = Len(q) + Len(d)
          /\ \A j \in 1..(Len(q) + Len(d)) : (q \o d)[j] = IF j <= Len(q) THEN q[j] ELSE d[j - Len(q)]
          /\ Len(q) \in Nat /\ Len(d) \in Nat /\ DOMAIN q = 1..Len(q) /\ DOMAIN d = 1..Len(d)
      BY <3>1, ConcatProperties, LenProperties
    <3>3. i \in 1..(Len(q) + Len(d))
      BY <2>2, <2>5, <3>2, LenProperties
    <3>4. CASE i <= Len(q)
      <4>1. i \in DOMAIN q /\ todo'[i] = q[i]
        BY <2>2, <3>2, <3>3, <3>4
      <4> QED BY <2>1, <2>5, <4>1, MessagesNoDiags
    <3>5. CASE ~(i <= Len(q))
      <4>1. i - Len(q) \in DOMAIN d /\ todo'[i] = d[i - Len(q)]
        BY <2>2, <3>2, <3>3, <3>5
      <4> QED BY <2>4, <4>1
    <3> QED BY <3>4, <3>5
  <2> QED BY <1>0, <2>3, <2>5 DEF Addressed, DiagnosticsStayInRun
<1> QED BY <1>1, <1>2 DEF InitialPoll, PollSteering

LEMMA EmitAddressed ==
  ASSUME Typed, Addressed, EmitPrompt \/ Inject PROVE Addressed'
<1>0. /\ UNCHANGED <<run, sent>> /\ todo # <<>> /\ todo \in Seq(Inputs) /\ todo' = Tail(todo)
      /\ log \in Seq([msg : Inputs, run : 1..MaxRuns])
      /\ log' = Append(log, [msg |-> Head(todo), run |-> run.id])
  BY DEF EmitPrompt, Inject, EmitInput, Quiet, Typed, TypeOK
<1>1. EmitPrompt \/ Inject => Typed'
  BY EmitsTyped
<1>2. log' \in Seq([msg : Inputs, run : 1..MaxRuns])
  BY <1>1 DEF Typed, TypeOK
<1>3. /\ Len(todo) \in Nat \ {0} /\ DOMAIN todo = 1..Len(todo) /\ Head(todo) = todo[1]
      /\ DOMAIN Tail(todo) = 1..(Len(todo) - 1)
      /\ \A i \in 1..(Len(todo) - 1) : Tail(todo)[i] = todo[i + 1]
  <2>1. Tail(todo) \in Seq(Inputs) /\ Len(Tail(todo)) = Len(todo) - 1
        /\ \A i \in 1..Len(Tail(todo)) : Tail(todo)[i] = todo[i + 1]
    BY <1>0, HeadTailProperties
  <2> QED BY <1>0, <2>1, LenProperties, EmptySeq
<1>4. \A i \in DOMAIN todo' : todo'[i] \in Diags => sent'[todo'[i]] = run'.id
  BY <1>0, <1>3 DEF Addressed
<1>5. ASSUME NEW i \in DOMAIN log', log'[i].msg \in Diags PROVE log'[i].run = sent'[log'[i].msg]
  <2>1. /\ Len(log) \in Nat /\ DOMAIN log = 1..Len(log)
        /\ DOMAIN log' = 1..(Len(log) + 1)
        /\ \A j \in 1..Len(log) : log'[j] = log[j]
        /\ log'[Len(log) + 1] = [msg |-> Head(todo), run |-> run.id]
    BY <1>0, LenProperties
  <2>2. CASE i \in 1..Len(log)
    BY <1>0, <1>5, <2>1, <2>2 DEF Addressed, DiagnosticsStayInRun
  <2>3. CASE i = Len(log) + 1
    BY <1>0, <1>3, <1>5, <2>1, <2>3 DEF Addressed
  <2> QED BY <2>1, <2>2, <2>3
<1> QED BY <1>0, <1>4, <1>5 DEF Addressed, DiagnosticsStayInRun

LEMMA SteerAddressed ==
  ASSUME Typed, Addressed, NEW d \in Diags, SteerActive(d) PROVE Addressed'
<1>0. /\ UNCHANGED <<todo, log>> /\ target = run.id /\ target # 0 /\ (sent[d] = 0 \/ sent[d] = target)
      /\ sent' = [sent EXCEPT ![d] = target] /\ sent \in [Diags -> 0..MaxRuns]
      /\ run' = [run EXCEPT !.seen = run.seen \cup {d}, !.diags = Append(run.diags, d)]
  BY DEF SteerActive, Admits, Typed, TypeOK
<1>1. /\ run'.id = run.id /\ run'.diags = Append(run.diags, d) /\ run.diags \in Seq(Diags)
      /\ todo \in Seq(Inputs) /\ log \in Seq([msg : Inputs, run : 1..MaxRuns])
  BY <1>0 DEF Typed, TypeOK
<1>2. \A x \in Diags : sent[x] = run.id => sent'[x] = run.id
  BY <1>0
<1>3. sent'[d] = run.id
  BY <1>0
<1>4. ASSUME NEW i \in DOMAIN run'.diags PROVE sent'[run'.diags[i]] = run'.id
  <2>1. /\ Len(run.diags) \in Nat /\ DOMAIN run.diags = 1..Len(run.diags)
        /\ \A j \in 1..Len(run.diags) : run.diags[j] \in Diags
    BY <1>1, LenProperties, ElementOfSeq
  <2>2. DOMAIN run'.diags = 1..(Len(run.diags) + 1)
        /\ (\A j \in 1..Len(run.diags) : run'.diags[j] = run.diags[j])
        /\ run'.diags[Len(run.diags) + 1] = d
    BY <1>1, <2>1
  <2>3. CASE i \in 1..Len(run.diags)
    BY <1>1, <1>2, <2>1, <2>2, <2>3 DEF Addressed
  <2>4. CASE i = Len(run.diags) + 1
    BY <1>1, <1>3, <2>2, <2>4
  <2> QED BY <1>4, <2>1, <2>2, <2>3, <2>4
<1>5. ASSUME NEW i \in DOMAIN todo', todo'[i] \in Diags PROVE sent'[todo'[i]] = run'.id
  BY <1>0, <1>1, <1>2, <1>5 DEF Addressed
<1>6. ASSUME NEW i \in DOMAIN log', log'[i].msg \in Diags PROVE log'[i].run = sent'[log'[i].msg]
  <2>1. log' = log /\ log[i] \in [msg : Inputs, run : 1..MaxRuns]
    BY <1>0, <1>1, <1>6, LenProperties, ElementOfSeq
  <2>2. log[i].run = sent[log[i].msg] /\ log[i].run # 0
    BY <1>6, <2>1 DEF Addressed, DiagnosticsStayInRun
  <2> QED BY <1>0, <1>6, <2>1, <2>2
<1> QED BY <1>4, <1>5, <1>6 DEF Addressed, DiagnosticsStayInRun

LEMMA NextAddressed == Typed /\ Addressed /\ [Next]_vars => Addressed'
<1> SUFFICES ASSUME Typed, Addressed, [Next]_vars PROVE Addressed'
  OBVIOUS
<1>1. ASSUME NEW m \in Messages, Prompt(m) PROVE Addressed'
  <2>1. todo' = <<m>> /\ run'.diags = <<>> /\ UNCHANGED <<log, sent>>
    BY <1>1 DEF Prompt, Begin, NewRun
  <2>2. todo' \in Seq(Messages)
    BY <2>1
  <2> QED BY <2>1, <2>2, DrainAddressed
<1>2. ASSUME ContinueRun PROVE Addressed'
  <2>1. todo' = held.msgs /\ run'.diags = <<>> /\ UNCHANGED <<log, sent>>
    BY <1>2 DEF ContinueRun, Begin, NewRun
  <2> QED BY <2>1, DrainAddressed DEF Typed, TypeOK
<1>3. ASSUME FinishTake PROVE Addressed'
  <2>1. todo' = <<>> /\ run' = [run EXCEPT !.diags = <<>>] /\ UNCHANGED <<log, sent>>
    BY <1>3 DEF FinishTake
  <2>2. todo' \in Seq(Messages) /\ run'.diags = <<>>
    BY <2>1, EmptySeq DEF Typed, TypeOK
  <2> QED BY <2>1, <2>2, DrainAddressed
<1>4. ASSUME PollFollowUp PROVE Addressed'
  <2>1. UNCHANGED <<log, sent, run>>
    BY <1>4 DEF PollFollowUp
  <2>2. CASE todo' = todo
    BY <2>1, <2>2, StillAddressed
  <2>3. CASE todo' = Drained(queue.followUp, FollowUpMode)
    <3>1. todo' \in Seq(Messages)
      BY <2>3, DrainTypes DEF Typed, TypeOK
    <3> QED BY <2>1, <3>1, DrainAddressed
  <2> QED BY <1>4, <2>2, <2>3 DEF PollFollowUp
<1>5. ASSUME PollContinuation PROVE Addressed'
  <2>1. UNCHANGED <<log, sent, run>>
    BY <1>5 DEF PollContinuation
  <2>2. CASE todo' = todo
    BY <2>1, <2>2, StillAddressed
  <2>3. CASE \E m \in Messages : todo' = <<m>>
    <3>1. todo' \in Seq(Messages)
      BY <2>3
    <3> QED BY <2>1, <3>1, DrainAddressed
  <2> QED BY <1>5, <2>2, <2>3 DEF PollContinuation
<1>6. ASSUME Abort PROVE Addressed'
  <2>1. run'.diags = run.diags /\ run'.id = run.id /\ UNCHANGED <<todo, log, sent>>
    BY <1>6 DEF Abort, Typed, TypeOK
  <2> QED BY <2>1 DEF Addressed, DiagnosticsStayInRun
<1>7. CASE Loop
  <2>1. CASE EmitPrompt \/ Inject
    BY <2>1, EmitAddressed
  <2>2. CASE InitialPoll \/ PollSteering
    BY <2>2, PollAddressed
  <2>3. CASE PollFollowUp \/ PollContinuation \/ FinishTake
    BY <2>3, <1>3, <1>4, <1>5
  <2>4. CASE \/ Top \/ Request \/ StreamFails \/ TurnEnd \/ AgentEnd \/ RunFailure
             \/ AnswerUnexecuted \/ AnsweredAll \/ StartTool \/ ToolResult \/ BatchDone
             \/ (\E k \in 0..MaxCalls : Complete(k) \/ EndEarly(k))
             \/ (\E i \in 1..MaxCalls : EndTool(i))
    <3>1. UNCHANGED <<run, todo, log, sent>>
      BY <2>4 DEF Top, Request, StreamFails, TurnEnd, AgentEnd, RunFailure, AnswerUnexecuted,
              AnsweredAll, StartTool, ToolResult, BatchDone, Complete, EndEarly, Respond, EndTool,
              EmitResult, MoveTo, Quiet
    <3> QED BY <3>1, StillAddressed
  <2> QED BY <1>7, <2>1, <2>2, <2>3, <2>4 DEF Loop
<1>8. CASE Host
  <2>1. CASE \/ \E m \in Messages : Steer(m) \/ FollowUp(m) \/ RemoveQueued(m)
             \/ Continue \/ ContinueBusy \/ ReadGeneration
    <3>1. UNCHANGED <<run, todo, log, sent>>
      BY <2>1 DEF Steer, FollowUp, Enqueue, RemoveQueued, Continue, ContinueBusy, ReadGeneration
    <3> QED BY <3>1, StillAddressed
  <2> QED BY <1>8, <1>1, <1>2, <1>6, <2>1, SteerAddressed DEF Host
<1>9. CASE (\E w \in Waiters : Wait(w)) \/ \E r \in 1..MaxRuns : FinishSettle(r)
  <2>1. UNCHANGED <<run, todo, log, sent>>
    BY <1>9 DEF Wait, FinishSettle
  <2> QED BY <2>1, StillAddressed
<1>10. CASE UNCHANGED vars
  BY <1>10, StillAddressed DEF vars
<1> QED BY <1>7, <1>8, <1>9, <1>10 DEF Next

\* A diagnostic never enters another run than the one its sender addressed.
THEOREM DiagnosticsReachTheirRun == Spec => []DiagnosticsStayInRun
<1>1. Addressed => DiagnosticsStayInRun
  BY DEF Addressed
<1> QED BY <1>1, InitTyped, NextTyped, InitAddressed, NextAddressed, PTL DEF Spec

-----------------------------------------------------------------------------
(* The lists that messages pass through. *)

\* What Append, Tail and Head do to the elements of a list.
LEMMA ListAppend ==
  ASSUME NEW S, NEW s \in Seq(S), NEW e
  PROVE  /\ Len(s) \in Nat /\ DOMAIN s = 1..Len(s)
         /\ DOMAIN Append(s, e) = 1..(Len(s) + 1)
         /\ \A i \in 1..Len(s) : Append(s, e)[i] = s[i]
         /\ Append(s, e)[Len(s) + 1] = e
<1>1. Len(s) \in Nat /\ DOMAIN s = 1..Len(s)
  BY LenProperties
<1> QED BY <1>1

LEMMA ListTail ==
  ASSUME NEW S, NEW s \in Seq(S), s # <<>>
  PROVE  /\ Len(s) \in Nat \ {0} /\ DOMAIN s = 1..Len(s) /\ Head(s) = s[1]
         /\ DOMAIN Tail(s) = 1..(Len(s) - 1)
         /\ \A i \in 1..(Len(s) - 1) : Tail(s)[i] = s[i + 1]
<1>1. /\ Tail(s) \in Seq(S) /\ Len(Tail(s)) = Len(s) - 1
      /\ \A i \in 1..Len(Tail(s)) : Tail(s)[i] = s[i + 1]
  BY HeadTailProperties
<1> QED BY <1>1, LenProperties, EmptySeq

LEMMA ListConcat ==
  ASSUME NEW S, NEW s \in Seq(S), NEW t \in Seq(S)
  PROVE  /\ Len(s) \in Nat /\ DOMAIN s = 1..Len(s) /\ Len(t) \in Nat /\ DOMAIN t = 1..Len(t)
         /\ DOMAIN (s \o t) = 1..(Len(s) + Len(t))
         /\ \A i \in 1..(Len(s) + Len(t)) :
              (s \o t)[i] = IF i <= Len(s) THEN s[i] ELSE t[i - Len(s)]
<1>1. /\ s \o t \in Seq(S) /\ Len(s \o t) = Len(s) + Len(t)
      /\ \A i \in 1..(Len(s) + Len(t)) : (s \o t)[i] = IF i <= Len(s) THEN s[i] ELSE t[i - Len(s)]
  BY ConcatProperties
<1> QED BY <1>1, LenProperties

\* A list without its i-th element.
Without(s, i) == SubSeq(s, 1, i - 1) \o SubSeq(s, i + 1, Len(s))

LEMMA ListWithout ==
  ASSUME NEW S, NEW s \in Seq(S), NEW i \in DOMAIN s
  PROVE  /\ Len(s) \in Nat \ {0} /\ DOMAIN s = 1..Len(s)
         /\ DOMAIN Without(s, i) = 1..(Len(s) - 1)
         /\ \A k \in 1..(Len(s) - 1) : Without(s, i)[k] = IF k < i THEN s[k] ELSE s[k + 1]
<1>1. Len(s) \in Nat /\ DOMAIN s = 1..Len(s) /\ i \in 1..Len(s)
  BY LenProperties
<1> DEFINE a == SubSeq(s, 1, i - 1)
           b == SubSeq(s, i + 1, Len(s))
<1>2. a \in Seq(S) /\ Len(a) = i - 1 /\ \A k \in 1..(i - 1) : a[k] = s[k]
  BY <1>1, SubSeqProperties
<1>3. b \in Seq(S) /\ Len(b) = Len(s) - i /\ \A k \in 1..(Len(s) - i) : b[k] = s[i + k]
  BY <1>1, SubSeqProperties
<1> HIDE DEF a, b
<1>4. /\ DOMAIN (a \o b) = 1..(Len(a) + Len(b))
      /\ \A k \in 1..(Len(a) + Len(b)) : (a \o b)[k] = IF k <= Len(a) THEN a[k] ELSE b[k - Len(a)]
  BY <1>2, <1>3, ListConcat
<1>5. DOMAIN (a \o b) = 1..(Len(s) - 1)
  BY <1>1, <1>2, <1>3, <1>4
<1>6. ASSUME NEW k \in 1..(Len(s) - 1) PROVE (a \o b)[k] = IF k < i THEN s[k] ELSE s[k + 1]
  <2>1. CASE k < i
    BY <1>1, <1>2, <1>3, <1>4, <1>6, <2>1
  <2>2. CASE ~(k < i)
    <3>1. k - (i - 1) \in 1..(Len(s) - i) /\ i + (k - (i - 1)) = k + 1 /\ ~(k <= i - 1)
      BY <1>1, <1>6, <2>2
    <3>2. (a \o b)[k] = b[k - (i - 1)]
      <4>1. k \in 1..(Len(a) + Len(b))
        BY <1>1, <1>2, <1>3, <1>6
      <4> QED BY <1>2, <1>4, <3>1, <4>1
    <3>3. b[k - (i - 1)] = s[i + (k - (i - 1))]
      BY <1>3, <3>1
    <3>4. (a \o b)[k] = s[k + 1]
      BY <3>1, <3>2, <3>3
    <3> QED BY <2>2, <3>4
  <2> QED BY <2>1, <2>2
<1>7. Without(s, i) = a \o b
  BY DEF Without, a, b
<1>8. Len(s) \in Nat \ {0}
  BY <1>1
<1> QED BY <1>1, <1>5, <1>6, <1>7, <1>8

\* A drain takes the front of a queue, and one message at most one at a time.
LEMMA DrainSplits ==
  ASSUME NEW q \in Seq(Messages), NEW mode
  PROVE  /\ Len(q) \in Nat /\ DOMAIN q = 1..Len(q)
         /\ \E n \in 0..Len(q) :
              /\ DOMAIN Drained(q, mode) = 1..n /\ DOMAIN Remaining(q, mode) = 1..(Len(q) - n)
              /\ \A i \in 1..n : Drained(q, mode)[i] = q[i]
              /\ \A i \in 1..(Len(q) - n) : Remaining(q, mode)[i] = q[i + n]
              /\ mode # "all" => n <= 1
<1>1. Len(q) \in Nat /\ DOMAIN q = 1..Len(q)
  BY LenProperties
<1>2. CASE mode = "all" \/ q = <<>>
  <2>1. Drained(q, mode) = q /\ Remaining(q, mode) = <<>>
    BY <1>2 DEF Drained, Remaining
  <2>2. DOMAIN Remaining(q, mode) = {} /\ 1..(Len(q) - Len(q)) = {}
    BY <1>1, <2>1
  <2>3. mode # "all" => Len(q) = 0
    BY <1>2
  <2>4. Len(q) \in 0..Len(q)
    BY <1>1
  <2>5. \E n \in 0..Len(q) :
          /\ DOMAIN q = 1..n /\ DOMAIN Remaining(q, mode) = 1..(Len(q) - n)
          /\ \A i \in 1..n : q[i] = q[i]
          /\ \A i \in 1..(Len(q) - n) : Remaining(q, mode)[i] = q[i + n]
          /\ mode # "all" => n <= 1
    <3> WITNESS Len(q) \in 0..Len(q)
    <3> QED BY <1>1, <2>2, <2>3
  <2> QED BY <1>1, <2>1, <2>5
<1>3. CASE ~(mode = "all" \/ q = <<>>)
  <2>1. Drained(q, mode) = <<q[1]>> /\ Remaining(q, mode) = Tail(q) /\ Len(q) \in Nat \ {0}
    BY <1>3, ListTail DEF Drained, Remaining
  <2>2. DOMAIN Tail(q) = 1..(Len(q) - 1) /\ \A i \in 1..(Len(q) - 1) : Tail(q)[i] = q[i + 1]
    BY <1>3, ListTail
  <2>3. DOMAIN <<q[1]>> = 1..1 /\ \A i \in 1..1 : <<q[1]>>[i] = q[i]
    OBVIOUS
  <2>4. 1 \in 0..Len(q)
    BY <2>1
  <2> QED BY <1>1, <2>1, <2>2, <2>3, <2>4
<1> QED BY <1>1, <1>2, <1>3

\* What is drained or stays was in the queue, and what was in it is drained or stays.
LEMMA DrainMembers ==
  ASSUME NEW q \in Seq(Messages), NEW mode, NEW m
  PROVE  Within(m, q) <=> Within(m, Drained(q, mode)) \/ Within(m, Remaining(q, mode))
<1>1. PICK n \in 0..Len(q) :
        /\ DOMAIN Drained(q, mode) = 1..n /\ DOMAIN Remaining(q, mode) = 1..(Len(q) - n)
        /\ \A i \in 1..n : Drained(q, mode)[i] = q[i]
        /\ \A i \in 1..(Len(q) - n) : Remaining(q, mode)[i] = q[i + n]
        /\ mode # "all" => n <= 1
  BY DrainSplits, Zenon
<1>2. Len(q) \in Nat /\ DOMAIN q = 1..Len(q)
  BY DrainSplits
<1>3. ASSUME NEW i \in 1..Len(q), q[i] = m
      PROVE  Within(m, Drained(q, mode)) \/ Within(m, Remaining(q, mode))
  <2>1. CASE i <= n
    BY <1>1, <1>2, <1>3, <2>1 DEF Within
  <2>2. CASE ~(i <= n)
    <3>1. i - n \in 1..(Len(q) - n) /\ (i - n) + n = i
      BY <1>2, <2>2
    <3>2. Remaining(q, mode)[i - n] = m
      BY <1>1, <1>3, <3>1
    <3> QED BY <1>1, <3>1, <3>2 DEF Within
  <2> QED BY <2>1, <2>2
<1>4. ASSUME NEW i \in 1..n, Drained(q, mode)[i] = m PROVE Within(m, q)
  <2>1. i \in DOMAIN q /\ q[i] = m
    BY <1>1, <1>2, <1>4
  <2> QED BY <2>1 DEF Within
<1>5. ASSUME NEW i \in 1..(Len(q) - n), Remaining(q, mode)[i] = m PROVE Within(m, q)
  <2>1. i + n \in DOMAIN q /\ q[i + n] = m
    BY <1>1, <1>2, <1>5
  <2> QED BY <2>1 DEF Within
<1> QED BY <1>1, <1>2, <1>3, <1>4, <1>5 DEF Within

\* Membership in lists.
LEMMA WithinAppend ==
  ASSUME NEW S, NEW s \in Seq(S), NEW e, NEW x
  PROVE  Within(x, Append(s, e)) <=> Within(x, s) \/ x = e
<1>1. /\ Len(s) \in Nat /\ DOMAIN s = 1..Len(s) /\ DOMAIN Append(s, e) = 1..(Len(s) + 1)
      /\ \A i \in 1..Len(s) : Append(s, e)[i] = s[i]
      /\ Append(s, e)[Len(s) + 1] = e
  BY ListAppend
<1>2. Len(s) + 1 \in 1..(Len(s) + 1) /\ \A i \in 1..Len(s) : i \in 1..(Len(s) + 1)
  BY <1>1
<1>3. \A i \in 1..(Len(s) + 1) : i \in 1..Len(s) \/ i = Len(s) + 1
  BY <1>1
<1> QED BY <1>1, <1>2, <1>3, Zenon DEF Within

LEMMA WithinTail ==
  ASSUME NEW S, NEW s \in Seq(S), s # <<>>, NEW x
  PROVE  Within(x, s) <=> x = Head(s) \/ Within(x, Tail(s))
<1>1. /\ Len(s) \in Nat \ {0} /\ DOMAIN s = 1..Len(s) /\ Head(s) = s[1]
      /\ DOMAIN Tail(s) = 1..(Len(s) - 1)
      /\ \A i \in 1..(Len(s) - 1) : Tail(s)[i] = s[i + 1]
  BY ListTail
<1>2. ASSUME NEW i \in 1..Len(s), s[i] = x PROVE x = Head(s) \/ Within(x, Tail(s))
  <2>1. CASE i # 1
    <3>1. i - 1 \in 1..(Len(s) - 1) /\ (i - 1) + 1 = i
      BY <1>1, <2>1
    <3>2. Tail(s)[i - 1] = x
      BY <1>1, <1>2, <3>1
    <3> QED BY <1>1, <3>1, <3>2 DEF Within
  <2> QED BY <1>1, <1>2, <2>1
<1>3. ASSUME NEW i \in 1..(Len(s) - 1), Tail(s)[i] = x PROVE Within(x, s)
  <2>1. i + 1 \in 1..Len(s) /\ s[i + 1] = x
    BY <1>1, <1>3
  <2> QED BY <1>1, <2>1 DEF Within
<1>4. x = Head(s) => Within(x, s)
  <2>1. 1 \in DOMAIN s /\ Head(s) = s[1]
    BY <1>1
  <2> QED BY <2>1 DEF Within
<1> QED BY <1>1, <1>2, <1>3, <1>4 DEF Within

LEMMA WithinConcat ==
  ASSUME NEW S, NEW s \in Seq(S), NEW t \in Seq(S), NEW x
  PROVE  Within(x, s \o t) <=> Within(x, s) \/ Within(x, t)
<1>1. /\ Len(s) \in Nat /\ DOMAIN s = 1..Len(s) /\ Len(t) \in Nat /\ DOMAIN t = 1..Len(t)
      /\ DOMAIN (s \o t) = 1..(Len(s) + Len(t))
      /\ \A i \in 1..(Len(s) + Len(t)) :
           (s \o t)[i] = IF i <= Len(s) THEN s[i] ELSE t[i - Len(s)]
  BY ListConcat
<1>2. ASSUME NEW i \in 1..(Len(s) + Len(t)), (s \o t)[i] = x PROVE Within(x, s) \/ Within(x, t)
  <2>1. CASE i <= Len(s)
    <3>1. i \in DOMAIN s /\ s[i] = x
      BY <1>1, <1>2, <2>1
    <3> QED BY <3>1 DEF Within
  <2>2. CASE ~(i <= Len(s))
    <3>1. i - Len(s) \in DOMAIN t /\ t[i - Len(s)] = x
      BY <1>1, <1>2, <2>2
    <3> QED BY <3>1 DEF Within
  <2> QED BY <2>1, <2>2
<1>3. ASSUME NEW i \in 1..Len(s), s[i] = x PROVE Within(x, s \o t)
  <2>1. i \in DOMAIN (s \o t) /\ (s \o t)[i] = x
    BY <1>1, <1>3
  <2> QED BY <2>1 DEF Within
<1>4. ASSUME NEW i \in 1..Len(t), t[i] = x PROVE Within(x, s \o t)
  <2>1. i + Len(s) \in 1..(Len(s) + Len(t)) /\ ~(i + Len(s) <= Len(s)) /\ (i + Len(s)) - Len(s) = i
    BY <1>1
  <2>2. (s \o t)[i + Len(s)] = x
    BY <1>1, <1>4, <2>1
  <2> QED BY <1>1, <2>1, <2>2 DEF Within
<1> QED BY <1>1, <1>2, <1>3, <1>4 DEF Within

LEMMA WithinWithout ==
  ASSUME NEW S, NEW s \in Seq(S), NEW i \in DOMAIN s, NEW x
  PROVE  /\ Within(x, Without(s, i)) => Within(x, s)
         /\ Within(x, s) => x = s[i] \/ Within(x, Without(s, i))
<1>1. /\ Len(s) \in Nat \ {0} /\ DOMAIN s = 1..Len(s)
      /\ DOMAIN Without(s, i) = 1..(Len(s) - 1)
      /\ \A k \in 1..(Len(s) - 1) : Without(s, i)[k] = IF k < i THEN s[k] ELSE s[k + 1]
  BY ListWithout
<1>2. ASSUME NEW k \in 1..(Len(s) - 1), Without(s, i)[k] = x PROVE Within(x, s)
  <2>1. k \in DOMAIN s /\ k + 1 \in DOMAIN s /\ (x = s[k] \/ x = s[k + 1])
    BY <1>1, <1>2
  <2> QED BY <2>1 DEF Within
<1>3. ASSUME NEW k \in 1..Len(s), s[k] = x PROVE x = s[i] \/ Within(x, Without(s, i))
  <2>1. CASE k < i
    <3>1. k \in 1..(Len(s) - 1) /\ Without(s, i)[k] = x
      BY <1>1, <1>3, <2>1
    <3> QED BY <1>1, <3>1 DEF Within
  <2>2. CASE k > i
    <3>1. k - 1 \in 1..(Len(s) - 1) /\ ~(k - 1 < i) /\ (k - 1) + 1 = k
      BY <1>1, <1>3, <2>2
    <3>2. Without(s, i)[k - 1] = x
      BY <1>1, <1>3, <3>1
    <3> QED BY <1>1, <3>1, <3>2 DEF Within
  <2>3. CASE k = i
    BY <1>3, <2>3
  <2> QED BY <1>1, <2>1, <2>2, <2>3
<1> QED BY <1>1, <1>2, <1>3 DEF Within

-----------------------------------------------------------------------------
(* Where a message is. *)

Said(m) == \E i \in DOMAIN transcript : transcript[i] = Input(m)
Logged(m) == \E i \in DOMAIN log : log[i].msg = m

\* The agent has the message somewhere.
Seen(m) ==
  \/ Within(m, todo) \/ Within(m, held.msgs)
  \/ Within(m, queue.steering) \/ Within(m, queue.followUp)
  \/ Within(m, order) \/ Said(m) \/ Logged(m)

\* The steps that move no message: at most a response, a result or a failure is
\* appended to the transcript.
StillStep ==
  /\ UNCHANGED <<lane, order, queue, todo, held, overtaken, log>>
  /\ \/ transcript' = transcript
     \/ \E e \in Entries : e.kind # "input" /\ transcript' = Append(transcript, e)

\* The steps that move messages.
MoveStep ==
  \/ \E m \in Messages : Steer(m) \/ FollowUp(m) \/ RemoveQueued(m) \/ Prompt(m)
  \/ Continue \/ ContinueRun \/ ContinueBusy \/ FinishTake
  \/ EmitPrompt \/ Inject \/ InitialPoll \/ PollSteering \/ PollFollowUp \/ PollContinuation

LEMMA ResponsesStill ==
  ASSUME Typed, NEW k \in 0..MaxCalls, Complete(k) \/ EndEarly(k) PROVE StillStep
<1>1. Assistant(k) \in Entries /\ Assistant(k).kind # "input"
  BY EntryTypes DEF Assistant
<1>2. transcript' = Append(transcript, Assistant(k))
  BY DEF Complete, EndEarly, Respond
<1>3. UNCHANGED <<lane, order, queue, todo, held, overtaken, log>>
  BY DEF Complete, EndEarly, Respond, laneVars, hostVars
<1> QED BY <1>1, <1>2, <1>3 DEF StillStep

LEMMA ResultsStill ==
  ASSUME Typed, AnswerUnexecuted \/ ToolResult PROVE StillStep
<1>1. batch.answered \in Nat /\ batch.answered < batch.calls /\ batch.calls \in 0..MaxCalls
  BY Bounds DEF AnswerUnexecuted, ToolResult, EmitResult, Typed, TypeOK
<1>2. batch.answered + 1 \in 1..MaxCalls
  BY <1>1, Bounds
<1>3. Result(batch.answered + 1) \in Entries /\ Result(batch.answered + 1).kind # "input"
  BY <1>2, EntryTypes DEF Result
<1>4. transcript' = Append(transcript, Result(batch.answered + 1))
  BY DEF AnswerUnexecuted, ToolResult, EmitResult
<1>5. UNCHANGED <<lane, order, queue, todo, held, overtaken, log>>
  BY DEF AnswerUnexecuted, ToolResult, EmitResult, Quiet, laneVars, hostVars
<1> QED BY <1>3, <1>4, <1>5 DEF StillStep

LEMMA OthersStill ==
  ASSUME Typed,
         \/ Top \/ Request \/ StreamFails \/ TurnEnd \/ AgentEnd \/ RunFailure
         \/ AnsweredAll \/ StartTool \/ BatchDone \/ (\E i \in 1..MaxCalls : EndTool(i))
         \/ Abort \/ ReadGeneration \/ (\E d \in Diags : SteerActive(d))
         \/ (\E w \in Waiters : Wait(w)) \/ (\E r \in 1..MaxRuns : FinishSettle(r))
         \/ UNCHANGED vars
  PROVE  StillStep
<1>1. CASE RunFailure
  <2>1. Assistant(0) \in Entries /\ Assistant(0).kind # "input"
    BY EntryTypes, Bounds DEF Assistant
  <2>2. transcript' = Append(transcript, Assistant(0))
    BY <1>1 DEF RunFailure
  <2>3. UNCHANGED <<lane, order, queue, todo, held, overtaken, log>>
    BY <1>1 DEF RunFailure, MoveTo, Quiet, laneVars, hostVars
  <2> QED BY <2>1, <2>2, <2>3 DEF StillStep
<1>2. CASE Top \/ Request \/ StreamFails \/ TurnEnd \/ AgentEnd
  BY <1>2 DEF Top, Request, StreamFails, TurnEnd, AgentEnd, MoveTo, Quiet, laneVars, hostVars, StillStep
<1>3. CASE AnsweredAll \/ StartTool \/ BatchDone \/ (\E i \in 1..MaxCalls : EndTool(i))
  BY <1>3 DEF AnsweredAll, StartTool, BatchDone, EndTool, Quiet, laneVars, hostVars, StillStep
<1>4. CASE Abort \/ ReadGeneration \/ (\E d \in Diags : SteerActive(d))
  BY <1>4 DEF Abort, ReadGeneration, SteerActive, loopVars, laneVars, hostVars, StillStep
<1>5. CASE (\E w \in Waiters : Wait(w)) \/ (\E r \in 1..MaxRuns : FinishSettle(r))
  BY <1>5 DEF Wait, FinishSettle, loopVars, laneVars, StillStep
<1>6. CASE UNCHANGED vars
  BY <1>6 DEF vars, loopVars, laneVars, hostVars, StillStep
<1> QED BY <1>1, <1>2, <1>3, <1>4, <1>5, <1>6

LEMMA StillOrMove ==
  ASSUME Typed, [Next]_vars PROVE StillStep \/ MoveStep
<1>1. CASE Loop
  BY <1>1, ResponsesStill, ResultsStill, OthersStill DEF Loop, MoveStep
<1>2. CASE Host
  BY <1>2, OthersStill DEF Host, MoveStep
<1>3. CASE ~Loop /\ ~Host
  BY <1>3, OthersStill DEF Next
<1> QED BY <1>1, <1>2, <1>3

LEMMA StillSaid ==
  ASSUME Typed, StillStep, NEW m PROVE Said(m)' => Said(m)
<1>1. transcript \in Seq(Entries)
  BY DEF Typed, TypeOK
<1>2. CASE transcript' = transcript
  BY <1>2 DEF Said
<1>3. ASSUME NEW e \in Entries, e.kind # "input", transcript' = Append(transcript, e) PROVE Said(m)' => Said(m)
  <2>1. Input(m).kind = "input"
    BY DEF Input
  <2>2. /\ DOMAIN transcript = 1..Len(transcript) /\ DOMAIN transcript' = 1..(Len(transcript) + 1)
        /\ Len(transcript) \in Nat
        /\ \A i \in 1..Len(transcript) : transcript'[i] = transcript[i]
        /\ transcript'[Len(transcript) + 1] = e
    BY <1>1, <1>3, ListAppend
  <2>3. ASSUME NEW i \in DOMAIN transcript', transcript'[i] = Input(m)
        PROVE  i \in DOMAIN transcript /\ transcript[i] = Input(m)
    BY <1>3, <2>1, <2>2, <2>3
  <2> QED BY <2>3 DEF Said
<1> QED BY <1>2, <1>3 DEF StillStep

\* A message from the steering queue.
Steers(m) == m \in Messages /\ lane[m] = "steering"

\* At most one of the list's messages is.
Single(s) == \A i, j \in DOMAIN s : Steers(s[i]) /\ Steers(s[j]) => i = j

\* A message outside the agent is nowhere in it, the follow-up queue has no
\* steering message, and one at a time at most one is on its way to the model.
Fed ==
  /\ \A m \in Messages : lane[m] = "out" => ~Seen(m)
  /\ \A m \in Messages : Within(m, queue.followUp) => lane[m] # "steering"
  /\ SteeringMode = "one-at-a-time" => Single(todo) /\ Single(held.msgs)

\* The parts of the types that the lists need.
LEMMA ListTypes ==
  ASSUME Typed
  PROVE  /\ queue \in [steering : Seq(Messages), followUp : Seq(Messages)]
         /\ queue.steering \in Seq(Messages) /\ queue.followUp \in Seq(Messages)
         /\ lane \in [Messages -> Lanes] /\ order \in Seq(Messages) /\ todo \in Seq(Inputs)
         /\ held.msgs \in Seq(Messages) /\ run.diags \in Seq(Diags)
         /\ log \in Seq([msg : Inputs, run : 1..MaxRuns]) /\ transcript \in Seq(Entries)
BY DEF Typed, TypeOK

\* A message enters a queue.
LEMMA EnqueueFed ==
  ASSUME Typed, Fed, NEW m \in Messages, Steer(m) \/ FollowUp(m) PROVE Fed'
<1>1. /\ lane[m] = "out" /\ ~Seen(m) /\ lane' \in [Messages -> Lanes]
      /\ \A x \in Messages : x # m => lane'[x] = lane[x]
      /\ order' = Append(order, m) /\ UNCHANGED <<todo, held, transcript, log>>
  <2>1. Typed'
    BY EnqueueTyped DEF Steer, FollowUp
  <2>2. lane[m] = "out" /\ ~Seen(m)
    BY DEF Steer, FollowUp, Enqueue, Fed
  <2>3. lane' \in [Messages -> Lanes] /\ lane \in [Messages -> Lanes]
    BY <2>1 DEF Typed, TypeOK
  <2>4. /\ \E l : lane' = [lane EXCEPT ![m] = l]
        /\ order' = Append(order, m) /\ UNCHANGED <<todo, held, transcript, log>>
    BY DEF Steer, FollowUp, Enqueue, loopVars, hostVars
  <2> QED BY <2>2, <2>3, <2>4
<1>2. \/ /\ lane'[m] = "steering" /\ queue'.steering = Append(queue.steering, m)
         /\ queue'.followUp = queue.followUp
      \/ /\ lane'[m] = "followUp" /\ queue'.followUp = Append(queue.followUp, m)
         /\ queue'.steering = queue.steering
  BY ListTypes DEF Steer, FollowUp, Enqueue
<1>7. queue.steering \in Seq(Messages) /\ queue.followUp \in Seq(Messages) /\ order \in Seq(Messages)
  BY ListTypes
<1>3. ASSUME NEW x \in Messages, lane'[x] = "out" PROVE ~Seen(x)'
  <2>1. x # m /\ lane[x] = "out"
    BY <1>1, <1>2, <1>3
  <2>2. ~Seen(x)
    BY <2>1 DEF Fed
  <2>3. ~Within(x, queue'.steering) /\ ~Within(x, queue'.followUp) /\ ~Within(x, order')
    <3>1. ~Within(x, queue.steering) /\ ~Within(x, queue.followUp) /\ ~Within(x, order)
      BY <2>2 DEF Seen
    <3>4. /\ Within(x, Append(queue.steering, m)) => Within(x, queue.steering) \/ x = m
          /\ Within(x, Append(queue.followUp, m)) => Within(x, queue.followUp) \/ x = m
          /\ Within(x, Append(order, m)) => Within(x, order) \/ x = m
      BY <1>7, WithinAppend
    <3>2. CASE queue'.steering = Append(queue.steering, m) /\ queue'.followUp = queue.followUp
      BY <1>1, <2>1, <3>1, <3>2, <3>4
    <3>3. CASE queue'.followUp = Append(queue.followUp, m) /\ queue'.steering = queue.steering
      BY <1>1, <2>1, <3>1, <3>3, <3>4
    <3> QED BY <1>2, <3>2, <3>3
  <2> QED BY <1>1, <2>2, <2>3 DEF Seen, Said, Logged
<1>4. ASSUME NEW x \in Messages, Within(x, queue'.followUp) PROVE lane'[x] # "steering"
  <2>1. CASE Within(x, queue.followUp)
    <3>1. lane[x] # "steering" /\ x # m
      BY <1>1, <2>1 DEF Fed, Seen
    <3> QED BY <1>1, <3>1
  <2>2. CASE ~Within(x, queue.followUp)
    <3>1. queue'.followUp # queue.followUp
      BY <1>4, <2>2
    <3>2. lane'[m] = "followUp" /\ queue'.followUp = Append(queue.followUp, m)
      BY <1>2, <3>1
    <3>3. Within(x, Append(queue.followUp, m)) => Within(x, queue.followUp) \/ x = m
      BY <1>7, WithinAppend
    <3> QED BY <1>4, <2>2, <3>2, <3>3
  <2> QED BY <2>1, <2>2
<1>5. ASSUME NEW s, ~Within(m, s), Single(s) PROVE Single(s)'
  <2>1. \A i \in DOMAIN s : s[i] # m
    BY <1>5 DEF Within
  <2>2. \A i \in DOMAIN s : Steers(s[i])' => Steers(s[i])
    BY <1>1, <2>1 DEF Steers
  <2> QED BY <1>5, <2>2 DEF Single
<1>6. SteeringMode = "one-at-a-time" => Single(todo)' /\ Single(held.msgs)'
  <2>1. ~Within(m, todo) /\ ~Within(m, held.msgs)
    BY <1>1 DEF Seen
  <2> QED BY <1>1, <1>5, <2>1 DEF Fed, Single
<1> QED BY <1>3, <1>4, <1>6 DEF Fed

\* Every other step brings no message in or back to a lane.
LEMMA FedKept ==
  ASSUME Typed, Fed,
         \A x \in Messages : /\ lane'[x] = "out" => lane[x] = "out" /\ (Seen(x)' => Seen(x))
                             /\ lane'[x] = "steering" => lane[x] = "steering"
                             /\ Within(x, queue'.followUp) => Within(x, queue.followUp),
         SteeringMode = "one-at-a-time" => Single(todo') /\ Single(held'.msgs)
  PROVE  Fed'
<1>1. \A x \in Messages : lane'[x] = "out" => ~Seen(x)'
  BY DEF Fed
<1>2. \A x \in Messages : Within(x, queue'.followUp) => lane'[x] # "steering"
  BY DEF Fed
<1>3. SteeringMode = "one-at-a-time" => Single(todo)' /\ Single(held.msgs)'
  BY DEF Single, Steers
<1> QED BY <1>1, <1>2, <1>3 DEF Fed

\* Lists that have one steering message at most.
LEMMA SingleNone == Single(<<>>)
BY DEF Single

LEMMA SingleTail ==
  ASSUME NEW S, NEW s \in Seq(S), s # <<>>, Single(s) PROVE Single(Tail(s))
<1>1. /\ Len(s) \in Nat \ {0} /\ DOMAIN s = 1..Len(s)
      /\ DOMAIN Tail(s) = 1..(Len(s) - 1)
      /\ \A i \in 1..(Len(s) - 1) : Tail(s)[i] = s[i + 1]
  BY ListTail
<1>2. \A i \in 1..(Len(s) - 1) : i + 1 \in DOMAIN s
  BY <1>1
<1>3. ASSUME NEW i \in 1..(Len(s) - 1), NEW j \in 1..(Len(s) - 1),
             Steers(Tail(s)[i]), Steers(Tail(s)[j])
      PROVE  i = j
  <2>1. i + 1 = j + 1
    BY <1>1, <1>2, <1>3 DEF Single
  <2> QED BY <2>1
<1> QED BY <1>1, <1>3 DEF Single

LEMMA SingleDrain ==
  ASSUME NEW q \in Seq(Messages), NEW t \in Seq(Diags)
  PROVE  /\ Single(Drained(q, "one-at-a-time"))
         /\ Single(Drained(q, "one-at-a-time") \o t)
<1> DEFINE d == Drained(q, "one-at-a-time")
<1>1. d \in Seq(Messages) /\ d \in Seq(Inputs) /\ t \in Seq(Inputs)
  BY DrainTypes, SeqMonotonic DEF Inputs
<1>2. \E n \in 0..Len(q) : DOMAIN d = 1..n /\ n <= 1
  BY DrainSplits
<1>0. Len(q) \in Nat
  BY LenProperties
<1>3. DOMAIN d \subseteq {1}
  BY <1>0, <1>2
<1> HIDE DEF d
<1>4. /\ Len(d) \in Nat /\ DOMAIN d = 1..Len(d) /\ Len(t) \in Nat /\ DOMAIN t = 1..Len(t)
      /\ DOMAIN (d \o t) = 1..(Len(d) + Len(t))
      /\ \A i \in 1..(Len(d) + Len(t)) : (d \o t)[i] = IF i <= Len(d) THEN d[i] ELSE t[i - Len(d)]
  BY <1>1, ListConcat
<1>5. \A i \in 1..Len(t) : t[i] \notin Messages
  BY <1>4, ElementOfSeq, AgentAssumption
<1>6. ASSUME NEW i \in 1..(Len(d) + Len(t)), Steers((d \o t)[i]) PROVE i = 1
  <2>1. CASE i <= Len(d)
    BY <1>3, <1>4, <2>1
  <2>2. CASE ~(i <= Len(d))
    <3>1. i - Len(d) \in 1..Len(t)
      BY <1>4, <2>2
    <3>2. (d \o t)[i] = t[i - Len(d)]
      BY <1>4, <2>2
    <3> QED BY <1>5, <1>6, <3>1, <3>2 DEF Steers
  <2> QED BY <2>1, <2>2
<1>7. Single(d \o t)
  BY <1>4, <1>6 DEF Single
<1>8. Single(d)
  BY <1>3 DEF Single
<1> QED BY <1>7, <1>8 DEF d

\* A list without steering messages.
LEMMA SingleOther ==
  ASSUME NEW s, \A i \in DOMAIN s : ~Steers(s[i]) PROVE Single(s)
BY DEF Single

-----------------------------------------------------------------------------
(* How the steps move messages. *)

\* An input leaves the list of the loop for the transcript and the log.
LEMMA EmitPlaces ==
  ASSUME Typed, EmitPrompt \/ Inject
  PROVE  /\ todo # <<>> /\ todo' = Tail(todo) /\ todo' \in Seq(Inputs) /\ Head(todo) \in Inputs
         /\ log' = Append(log, [msg |-> Head(todo), run |-> run.id])
         /\ transcript' = Append(transcript, Input(Head(todo)))
         /\ UNCHANGED <<queue, lane, order, held, overtaken, run, skip, active, spent>>
         /\ \A x : /\ Within(x, todo) <=> x = Head(todo) \/ Within(x, todo')
                   /\ Logged(x)' <=> Logged(x) \/ x = Head(todo)
                   /\ Said(x)' <=> Said(x) \/ x = Head(todo)
<1>1. /\ todo # <<>> /\ todo' = Tail(todo)
      /\ log' = Append(log, [msg |-> Head(todo), run |-> run.id])
      /\ transcript' = Append(transcript, Input(Head(todo)))
      /\ UNCHANGED <<queue, lane, order, held, overtaken, run, skip, active, spent>>
  BY DEF EmitPrompt, Inject, EmitInput, Quiet, laneVars, hostVars, runVars
<1>2. todo \in Seq(Inputs) /\ log \in Seq([msg : Inputs, run : 1..MaxRuns]) /\ transcript \in Seq(Entries)
  BY ListTypes
<1>3. todo' \in Seq(Inputs) /\ Head(todo) \in Inputs
  BY <1>1, <1>2, HeadTailProperties
<1>4. ASSUME NEW x PROVE Within(x, todo) <=> x = Head(todo) \/ Within(x, todo')
  BY <1>1, <1>2, WithinTail
<1> DEFINE e == [msg |-> Head(todo), run |-> run.id]
           f == Input(Head(todo))
<1>5. ASSUME NEW x PROVE Logged(x)' <=> Logged(x) \/ x = Head(todo)
  <2>1. /\ Len(log) \in Nat /\ DOMAIN log = 1..Len(log) /\ DOMAIN log' = 1..(Len(log) + 1)
        /\ \A i \in 1..Len(log) : log'[i] = log[i]
        /\ log'[Len(log) + 1] = e
    BY <1>1, <1>2, ListAppend
  <2>2. e.msg = Head(todo)
    OBVIOUS
  <2> HIDE DEF e
  <2>3. Len(log) + 1 \in 1..(Len(log) + 1) /\ \A i \in 1..Len(log) : i \in 1..(Len(log) + 1)
    BY <2>1
  <2>4. \A i \in 1..(Len(log) + 1) : i \in 1..Len(log) \/ i = Len(log) + 1
    BY <2>1
  <2> QED BY <2>1, <2>2, <2>3, <2>4 DEF Logged
<1>6. ASSUME NEW x PROVE Said(x)' <=> Said(x) \/ x = Head(todo)
  <2>1. /\ Len(transcript) \in Nat /\ DOMAIN transcript = 1..Len(transcript)
        /\ DOMAIN transcript' = 1..(Len(transcript) + 1)
        /\ \A i \in 1..Len(transcript) : transcript'[i] = transcript[i]
        /\ transcript'[Len(transcript) + 1] = f
    BY <1>1, <1>2, ListAppend
  <2>2. f = Input(x) <=> x = Head(todo)
    BY DEF Input
  <2> HIDE DEF f
  <2>3. Len(transcript) + 1 \in 1..(Len(transcript) + 1)
        /\ \A i \in 1..Len(transcript) : i \in 1..(Len(transcript) + 1)
    BY <2>1
  <2>4. \A i \in 1..(Len(transcript) + 1) : i \in 1..Len(transcript) \/ i = Len(transcript) + 1
    BY <2>1
  <2> QED BY <2>1, <2>2, <2>3, <2>4 DEF Said
<1> QED BY <1>1, <1>3, <1>4, <1>5, <1>6

\* A steering poll moves messages from the steering queue to that list, if any.
LEMMA PollPlaces ==
  ASSUME Typed, InitialPoll \/ PollSteering
  PROVE  /\ UNCHANGED <<lane, order, held, overtaken, log, transcript, active, spent>>
         /\ run' = [run EXCEPT !.diags = <<>>] \/ run' = run
         /\ queue'.followUp = queue.followUp
         /\ \/ todo' = <<>> /\ queue' = queue /\ run' = run
            \/ /\ ~run.aborted /\ todo' = Steering
               /\ queue'.steering = Remaining(queue.steering, SteeringMode)
               /\ run' = [run EXCEPT !.diags = <<>>]
         /\ \A x \in Messages :
              Within(x, queue'.steering) \/ Within(x, todo') <=> Within(x, queue.steering)
<1>1. UNCHANGED <<lane, order, held, overtaken, log, transcript, active, spent>>
  BY DEF InitialPoll, PollSteering, hostVars
<1>2. \/ NoMessages
      \/ ~run.aborted /\ TakeSteering
  BY DEF InitialPoll, PollSteering
<1>3. CASE NoMessages
  <2>1. todo' = <<>> /\ queue' = queue /\ run' = run
    BY <1>3 DEF NoMessages
  <2> QED BY <1>1, <2>1 DEF Within
<1>4. CASE ~run.aborted /\ TakeSteering
  <2>1. /\ queue.steering \in Seq(Messages) /\ run.diags \in Seq(Diags)
        /\ queue \in [steering : Seq(Messages), followUp : Seq(Messages)]
    BY ListTypes
  <2>2. /\ todo' = Steering /\ run' = [run EXCEPT !.diags = <<>>]
        /\ queue' = [queue EXCEPT !.steering = Remaining(@, SteeringMode)]
    BY <1>4 DEF TakeSteering
  <2>3. /\ queue'.steering = Remaining(queue.steering, SteeringMode)
        /\ queue'.followUp = queue.followUp
    BY <2>1, <2>2
  <2>4. ASSUME NEW x \in Messages
        PROVE  Within(x, queue'.steering) \/ Within(x, todo') <=> Within(x, queue.steering)
    <3>1. Drained(queue.steering, SteeringMode) \in Seq(Inputs) /\ run.diags \in Seq(Inputs)
      <4>1. Drained(queue.steering, SteeringMode) \in Seq(Messages)
        BY <2>1, DrainTypes
      <4> QED BY <2>1, <4>1, SeqMonotonic DEF Inputs
    <3>2. Within(x, Steering) <=> Within(x, Drained(queue.steering, SteeringMode)) \/ Within(x, run.diags)
      BY <3>1, WithinConcat DEF Steering
    <3>3. ~Within(x, run.diags)
      <4>1. \A i \in DOMAIN run.diags : run.diags[i] \in Diags
        BY <2>1, LenProperties, ElementOfSeq
      <4> QED BY <4>1, AgentAssumption DEF Within
    <3>4. Within(x, queue.steering) <=> \/ Within(x, Drained(queue.steering, SteeringMode))
                                        \/ Within(x, Remaining(queue.steering, SteeringMode))
      BY <2>1, DrainMembers
    <3> QED BY <2>2, <2>3, <3>2, <3>3, <3>4
  <2> QED BY <1>1, <1>4, <2>2, <2>3, <2>4
<1> QED BY <1>2, <1>3, <1>4

\* The follow-up poll moves messages of the follow-up queue.
LEMMA FollowUpPlaces ==
  ASSUME Typed, PollFollowUp
  PROVE  /\ UNCHANGED <<lane, order, held, overtaken, log, transcript, active, spent, run>>
         /\ queue'.steering = queue.steering
         /\ \/ todo' = todo /\ queue' = queue
            \/ /\ ~run.aborted /\ todo' = Drained(queue.followUp, FollowUpMode)
               /\ queue'.followUp = Remaining(queue.followUp, FollowUpMode)
               /\ \A x : Within(x, queue'.followUp) \/ Within(x, todo') <=> Within(x, queue.followUp)
<1>1. UNCHANGED <<lane, order, held, overtaken, log, transcript, active, spent, run>>
  BY DEF PollFollowUp, hostVars, runVars
<1>2. CASE UNCHANGED <<queue, todo>>
  BY <1>1, <1>2
<1>3. CASE ~run.aborted /\ todo' = Drained(queue.followUp, FollowUpMode)
           /\ queue' = [queue EXCEPT !.followUp = Remaining(@, FollowUpMode)]
  <2>1. /\ queue.followUp \in Seq(Messages)
        /\ queue \in [steering : Seq(Messages), followUp : Seq(Messages)]
    BY ListTypes
  <2>2. /\ queue'.followUp = Remaining(queue.followUp, FollowUpMode)
        /\ queue'.steering = queue.steering
    BY <1>3, <2>1
  <2>3. ASSUME NEW x
        PROVE  Within(x, queue'.followUp) \/ Within(x, todo') <=> Within(x, queue.followUp)
    <3>1. Within(x, queue.followUp) <=> \/ Within(x, Drained(queue.followUp, FollowUpMode))
                                        \/ Within(x, Remaining(queue.followUp, FollowUpMode))
      BY <2>1, DrainMembers
    <3> QED BY <1>3, <2>2, <3>1
  <2> QED BY <1>1, <1>3, <2>2, <2>3
<1> QED BY <1>2, <1>3 DEF PollFollowUp

\* A continue_() holds what it drains from one of the queues.
LEMMA ContinuePlaces ==
  ASSUME Typed, Continue
  PROVE  /\ UNCHANGED <<lane, order, todo, overtaken, log, transcript, active, spent, run, pc, skip>>
         /\ active = 0 /\ ~held.on /\ held'.on
         /\ \/ queue' = queue /\ held'.msgs = <<>>
            \/ /\ queue'.followUp = queue.followUp /\ held'.skip
               /\ held'.msgs = Drained(queue.steering, SteeringMode)
               /\ queue'.steering = Remaining(queue.steering, SteeringMode)
               /\ \A x : Within(x, queue'.steering) \/ Within(x, held'.msgs) <=> Within(x, queue.steering)
            \/ /\ queue'.steering = queue.steering
               /\ held'.msgs = Drained(queue.followUp, FollowUpMode)
               /\ queue'.followUp = Remaining(queue.followUp, FollowUpMode)
               /\ \A x : Within(x, queue'.followUp) \/ Within(x, held'.msgs) <=> Within(x, queue.followUp)
<1>1. /\ UNCHANGED <<lane, order, todo, overtaken, log, transcript, active, spent, run, pc, skip>>
      /\ active = 0 /\ ~held.on
  BY DEF Continue, loopVars, runVars
<1>2. /\ queue.followUp \in Seq(Messages) /\ queue.steering \in Seq(Messages)
      /\ queue \in [steering : Seq(Messages), followUp : Seq(Messages)]
      /\ DOMAIN queue = {"steering", "followUp"}
  BY ListTypes
<1>3. CASE held' = [NoHeld EXCEPT !.on = TRUE] /\ queue' = queue
  BY <1>1, <1>3 DEF NoHeld
<1>4. ASSUME NEW q \in DOMAIN queue,
             held' = [on |-> TRUE,
                      msgs |-> Drained(queue[q], IF q = "steering" THEN SteeringMode ELSE FollowUpMode),
                      skip |-> q = "steering"],
             queue' = [queue EXCEPT ![q] = Remaining(@, IF q = "steering" THEN SteeringMode ELSE FollowUpMode)]
      PROVE  /\ held'.on
             /\ \/ /\ queue'.followUp = queue.followUp /\ held'.skip
                   /\ held'.msgs = Drained(queue.steering, SteeringMode)
                   /\ queue'.steering = Remaining(queue.steering, SteeringMode)
                   /\ \A x : Within(x, queue'.steering) \/ Within(x, held'.msgs) <=> Within(x, queue.steering)
                \/ /\ queue'.steering = queue.steering
                   /\ held'.msgs = Drained(queue.followUp, FollowUpMode)
                   /\ queue'.followUp = Remaining(queue.followUp, FollowUpMode)
                   /\ \A x : Within(x, queue'.followUp) \/ Within(x, held'.msgs) <=> Within(x, queue.followUp)
  <2>0. held'.on
    BY <1>4
  <2>1. CASE q = "steering"
    <3>1. /\ queue'.followUp = queue.followUp /\ held'.skip
          /\ held'.msgs = Drained(queue.steering, SteeringMode)
          /\ queue'.steering = Remaining(queue.steering, SteeringMode)
      BY <1>2, <1>4, <2>1
    <3>2. ASSUME NEW x
          PROVE  Within(x, queue'.steering) \/ Within(x, held'.msgs) <=> Within(x, queue.steering)
      <4>1. Within(x, queue.steering) <=> \/ Within(x, Drained(queue.steering, SteeringMode))
                                          \/ Within(x, Remaining(queue.steering, SteeringMode))
        BY <1>2, DrainMembers
      <4> QED BY <3>1, <4>1
    <3> QED BY <2>0, <3>1, <3>2
  <2>2. CASE q = "followUp"
    <3>1. /\ queue'.steering = queue.steering
          /\ held'.msgs = Drained(queue.followUp, FollowUpMode)
          /\ queue'.followUp = Remaining(queue.followUp, FollowUpMode)
      BY <1>2, <1>4, <2>2
    <3>2. ASSUME NEW x
          PROVE  Within(x, queue'.followUp) \/ Within(x, held'.msgs) <=> Within(x, queue.followUp)
      <4>1. Within(x, queue.followUp) <=> \/ Within(x, Drained(queue.followUp, FollowUpMode))
                                          \/ Within(x, Remaining(queue.followUp, FollowUpMode))
        BY <1>2, DrainMembers
      <4> QED BY <3>1, <4>1
    <3> QED BY <2>0, <3>1, <3>2
  <2> QED BY <1>2, <2>1, <2>2
<1>5. \/ held' = [NoHeld EXCEPT !.on = TRUE] /\ queue' = queue
      \/ \E q \in DOMAIN queue :
           /\ held' = [on |-> TRUE,
                       msgs |-> Drained(queue[q], IF q = "steering" THEN SteeringMode ELSE FollowUpMode),
                       skip |-> q = "steering"]
           /\ queue' = [queue EXCEPT ![q] = Remaining(@, IF q = "steering" THEN SteeringMode ELSE FollowUpMode)]
  BY DEF Continue
<1> QED BY <1>1, <1>3, <1>4, <1>5

\* A removal takes one occurrence of the message out of one queue.
LEMMA RemovePlaces ==
  ASSUME Typed, NEW m \in Messages, RemoveQueued(m)
  PROVE  /\ UNCHANGED <<order, todo, held, overtaken, log, transcript, active, spent, run, pc, skip>>
         /\ lane' \in [Messages -> Lanes] /\ lane' = [lane EXCEPT ![m] = "removed"]
         /\ \/ /\ queue'.followUp = queue.followUp
               /\ \E i \in DOMAIN queue.steering : /\ queue.steering[i] = m
                                                   /\ queue'.steering = Without(queue.steering, i)
            \/ /\ queue'.steering = queue.steering
               /\ \E i \in DOMAIN queue.followUp : /\ queue.followUp[i] = m
                                                   /\ queue'.followUp = Without(queue.followUp, i)
         /\ \A x : /\ Within(x, queue'.steering) => Within(x, queue.steering)
                   /\ Within(x, queue'.followUp) => Within(x, queue.followUp)
                   /\ x # m => /\ Within(x, queue.steering) => Within(x, queue'.steering)
                               /\ Within(x, queue.followUp) => Within(x, queue'.followUp)
<1>1. /\ UNCHANGED <<order, todo, held, overtaken, log, transcript, active, spent, run, pc, skip>>
      /\ lane' = [lane EXCEPT ![m] = "removed"]
  BY DEF RemoveQueued, loopVars, runVars, hostVars
<1>2. lane' \in [Messages -> Lanes]
  BY <1>1, ListTypes DEF Lanes
<1>3. /\ queue.followUp \in Seq(Messages) /\ queue.steering \in Seq(Messages)
      /\ queue \in [steering : Seq(Messages), followUp : Seq(Messages)]
      /\ DOMAIN queue = {"steering", "followUp"}
  BY ListTypes
<1>4. PICK q \in DOMAIN queue : \E i \in DOMAIN queue[q] :
        queue[q][i] = m /\ queue' = [queue EXCEPT ![q] = Without(@, i)]
  BY DEF RemoveQueued, Without
<1>5. PICK i \in DOMAIN queue[q] : queue[q][i] = m /\ queue' = [queue EXCEPT ![q] = Without(@, i)]
  BY <1>4
<1>6. CASE q = "steering"
  <2>1. queue'.followUp = queue.followUp /\ queue'.steering = Without(queue.steering, i)
    BY <1>3, <1>5, <1>6
  <2>2. i \in DOMAIN queue.steering /\ queue.steering[i] = m
    BY <1>5, <1>6
  <2>3. ASSUME NEW x
        PROVE  /\ Within(x, queue'.steering) => Within(x, queue.steering)
               /\ Within(x, queue.steering) => x = m \/ Within(x, queue'.steering)
    <3>1. /\ Within(x, Without(queue.steering, i)) => Within(x, queue.steering)
          /\ Within(x, queue.steering) => x = queue.steering[i] \/ Within(x, Without(queue.steering, i))
      BY <1>3, <2>2, WithinWithout
    <3> QED BY <2>1, <2>2, <3>1
  <2> QED BY <1>1, <1>2, <2>1, <2>2, <2>3
<1>7. CASE q = "followUp"
  <2>1. queue'.steering = queue.steering /\ queue'.followUp = Without(queue.followUp, i)
    BY <1>3, <1>5, <1>7
  <2>2. i \in DOMAIN queue.followUp /\ queue.followUp[i] = m
    BY <1>5, <1>7
  <2>3. ASSUME NEW x
        PROVE  /\ Within(x, queue'.followUp) => Within(x, queue.followUp)
               /\ Within(x, queue.followUp) => x = m \/ Within(x, queue'.followUp)
    <3>1. /\ Within(x, Without(queue.followUp, i)) => Within(x, queue.followUp)
          /\ Within(x, queue.followUp) => x = queue.followUp[i] \/ Within(x, Without(queue.followUp, i))
      BY <1>3, <2>2, WithinWithout
    <3> QED BY <2>1, <2>2, <3>1
  <2> QED BY <1>1, <1>2, <2>1, <2>2, <2>3
<1> QED BY <1>3, <1>6, <1>7

\* A prompt or a continuation message goes straight to the loop.
Enter(m) ==
  /\ lane[m] = "out" /\ todo' = <<m>>
  /\ lane' = [lane EXCEPT ![m] = "prompt"] \/ lane' = [lane EXCEPT ![m] = "continuation"]
  /\ UNCHANGED <<transcript, log, queue, order, held, spent>>

LEMMA Enters ==
  ASSUME Typed
  PROVE  /\ \A m \in Messages : Prompt(m) => Enter(m)
         /\ PollContinuation => \/ \E m \in Messages : Enter(m)
                                \/ UNCHANGED <<transcript, log, queue, order, held, spent, todo, lane>>
BY DEF Prompt, Begin, PollContinuation, Enter, hostVars

\* The loop takes over what a continue_() holds, or drops its list, or the
\* continue_() gives its messages up.
LEMMA HandOver ==
  ASSUME Typed
  PROVE  /\ ContinueRun => /\ todo' = held.msgs /\ held' = NoHeld /\ ~run'.aborted
                           /\ UNCHANGED <<transcript, log, queue, order, lane, overtaken, spent>>
         /\ ContinueBusy => /\ held' = NoHeld /\ run' = run
                            /\ UNCHANGED <<transcript, log, queue, order, lane, overtaken, todo>>
         /\ FinishTake => /\ todo' = <<>> /\ pc = "finish"
                          /\ UNCHANGED <<transcript, log, queue, order, lane, overtaken, held, spent>>
BY DEF ContinueRun, ContinueBusy, FinishTake, Begin, NewRun, laneVars, loopVars, runVars, hostVars

LEMMA InitFed == Init => Fed
BY DEF Init, Fed, Seen, Said, Logged, Within, Single, NoHeld

LEMMA StillFed == ASSUME Typed, Fed, StillStep PROVE Fed'
<1>1. UNCHANGED <<lane, order, queue, todo, held, log>>
  BY DEF StillStep
<1>2. \A x : Said(x)' => Said(x)
  BY StillSaid
<1>3. \A x \in Messages : Seen(x)' => Seen(x)
  BY <1>1, <1>2 DEF Seen, Logged
<1>4. SteeringMode = "one-at-a-time" => Single(todo') /\ Single(held'.msgs)
  BY <1>1 DEF Fed
<1> QED BY <1>1, <1>3, <1>4, FedKept

LEMMA EnterFed == ASSUME Typed, Fed, NEW m \in Messages, Enter(m) PROVE Fed'
<1>1. /\ lane \in [Messages -> Lanes] /\ lane[m] = "out" /\ todo' = <<m>>
      /\ lane'[m] # "out" /\ lane'[m] # "steering"
      /\ \A x \in Messages : x # m => lane'[x] = lane[x]
      /\ UNCHANGED <<transcript, log, queue, order, held>>
  BY ListTypes DEF Enter
<1>2. \A x \in Messages : x # m => ~Within(x, todo')
  BY <1>1 DEF Within
<1>3. \A x \in Messages : lane'[x] = "out" => lane[x] = "out" /\ (Seen(x)' => Seen(x))
  BY <1>1, <1>2 DEF Seen, Said, Logged
<1>4. Single(todo')
  BY <1>1 DEF Single, Steers
<1>5. SteeringMode = "one-at-a-time" => Single(held'.msgs)
  BY <1>1 DEF Fed
<1>6. \A x \in Messages : lane'[x] = "steering" => lane[x] = "steering"
  BY <1>1
<1> QED BY <1>1, <1>3, <1>4, <1>5, <1>6, FedKept

LEMMA MovesFed == ASSUME Typed, Fed, MoveStep PROVE Fed'
<1>1. ASSUME NEW m \in Messages, Steer(m) \/ FollowUp(m) PROVE Fed'
  BY <1>1, EnqueueFed
<1>2. ASSUME NEW m \in Messages, Prompt(m) PROVE Fed'
  BY <1>2, Enters, EnterFed
<1>3. CASE PollContinuation
  <2>1. CASE \E m \in Messages : Enter(m)
    BY <2>1, EnterFed
  <2>2. CASE UNCHANGED <<transcript, log, queue, order, held, spent, todo, lane>>
    BY <2>2 DEF Fed, Seen, Said, Logged, Single, Steers
  <2> QED BY <1>3, <2>1, <2>2, Enters
<1>4. ASSUME NEW m \in Messages, RemoveQueued(m) PROVE Fed'
  <2>1. /\ UNCHANGED <<order, todo, held, log, transcript>>
        /\ \A x : /\ Within(x, queue'.steering) => Within(x, queue.steering)
                  /\ Within(x, queue'.followUp) => Within(x, queue.followUp)
        /\ lane' = [lane EXCEPT ![m] = "removed"] /\ lane \in [Messages -> Lanes]
    BY <1>4, RemovePlaces, ListTypes
  <2>2. \A x \in Messages : /\ lane'[x] = "out" => lane[x] = "out"
                            /\ lane'[x] = "steering" => lane[x] = "steering"
    BY <2>1
  <2>3. \A x \in Messages : Seen(x)' => Seen(x)
    BY <2>1 DEF Seen, Said, Logged
  <2>4. SteeringMode = "one-at-a-time" => Single(todo') /\ Single(held'.msgs)
    BY <2>1 DEF Fed
  <2> QED BY <2>1, <2>2, <2>3, <2>4, FedKept
<1>5. CASE Continue
  <2>1. /\ UNCHANGED <<lane, order, todo, log, transcript>>
        /\ \/ queue' = queue /\ held'.msgs = <<>>
           \/ /\ queue'.followUp = queue.followUp
              /\ held'.msgs = Drained(queue.steering, SteeringMode)
              /\ \A x : Within(x, queue'.steering) \/ Within(x, held'.msgs) <=> Within(x, queue.steering)
           \/ /\ queue'.steering = queue.steering
              /\ held'.msgs = Drained(queue.followUp, FollowUpMode)
              /\ \A x : Within(x, queue'.followUp) \/ Within(x, held'.msgs) <=> Within(x, queue.followUp)
    BY <1>5, ContinuePlaces
  <2>2. \A x : ~Within(x, <<>>)
    BY DEF Within
  <2>3. \A x \in Messages : /\ Seen(x)' => Seen(x)
                            /\ Within(x, queue'.followUp) => Within(x, queue.followUp)
    BY <2>1, <2>2 DEF Seen, Said, Logged
  <2>4. SteeringMode = "one-at-a-time" => Single(held'.msgs)
    <3>1. CASE held'.msgs = <<>>
      BY <3>1, SingleNone
    <3>2. CASE held'.msgs = Drained(queue.steering, SteeringMode)
      <4>1. <<>> \in Seq(Diags) /\ queue.steering \in Seq(Messages)
        BY ListTypes
      <4> QED BY <3>2, <4>1, SingleDrain
    <3>3. CASE /\ held'.msgs = Drained(queue.followUp, FollowUpMode)
               /\ \A x : Within(x, queue'.followUp) \/ Within(x, held'.msgs) <=> Within(x, queue.followUp)
      <4>1. \A i \in DOMAIN held'.msgs : Within(held'.msgs[i], held'.msgs)
        BY DEF Within
      <4>2. \A i \in DOMAIN held'.msgs : ~Steers(held'.msgs[i])
        BY <3>3, <4>1 DEF Fed, Steers
      <4> QED BY <4>2, SingleOther
    <3> QED BY <2>1, <3>1, <3>2, <3>3
  <2>5. SteeringMode = "one-at-a-time" => Single(todo')
    BY <2>1 DEF Fed
  <2> QED BY <2>1, <2>3, <2>4, <2>5, FedKept
<1>6. CASE ContinueRun \/ ContinueBusy \/ FinishTake
  <2>1. /\ UNCHANGED <<transcript, log, queue, order, lane>>
        /\ todo' = held.msgs \/ todo' = <<>> \/ todo' = todo
        /\ held'.msgs = <<>> \/ held'.msgs = held.msgs
    BY <1>6, HandOver DEF NoHeld
  <2>2. \A x : ~Within(x, <<>>)
    BY DEF Within
  <2>3. \A x \in Messages : Seen(x)' => Seen(x)
    BY <2>1, <2>2 DEF Seen, Said, Logged
  <2>4. SteeringMode = "one-at-a-time" => Single(todo') /\ Single(held'.msgs)
    BY <2>1, SingleNone DEF Fed
  <2> QED BY <2>1, <2>3, <2>4, FedKept
<1>7. CASE EmitPrompt \/ Inject
  <2>1. /\ todo # <<>> /\ todo' = Tail(todo)
        /\ UNCHANGED <<queue, lane, order, held>>
        /\ \A x : /\ Within(x, todo) <=> x = Head(todo) \/ Within(x, todo')
                  /\ Logged(x)' <=> Logged(x) \/ x = Head(todo)
                  /\ Said(x)' <=> Said(x) \/ x = Head(todo)
    BY <1>7, EmitPlaces
  <2>2. \A x \in Messages : Seen(x)' => Seen(x)
    BY <2>1 DEF Seen
  <2>3. SteeringMode = "one-at-a-time" => Single(todo') /\ Single(held'.msgs)
    BY <2>1, ListTypes, SingleTail DEF Fed
  <2> QED BY <2>1, <2>2, <2>3, FedKept
<1>8. CASE InitialPoll \/ PollSteering
  <2>1. /\ UNCHANGED <<lane, order, held, log, transcript>>
        /\ queue'.followUp = queue.followUp
        /\ todo' = <<>> \/ todo' = Steering
        /\ \A x \in Messages :
             Within(x, queue'.steering) \/ Within(x, todo') <=> Within(x, queue.steering)
    BY <1>8, PollPlaces
  <2>2. \A x \in Messages : Seen(x)' => Seen(x)
    BY <2>1 DEF Seen, Said, Logged
  <2>3. SteeringMode = "one-at-a-time" => Single(todo')
    BY <2>1, ListTypes, SingleNone, SingleDrain DEF Steering
  <2>4. SteeringMode = "one-at-a-time" => Single(held'.msgs)
    BY <2>1 DEF Fed
  <2> QED BY <2>1, <2>2, <2>3, <2>4, FedKept
<1>9. CASE PollFollowUp
  <2>1. /\ UNCHANGED <<lane, order, held, log, transcript>>
        /\ queue'.steering = queue.steering
        /\ \/ todo' = todo /\ queue' = queue
           \/ \A x : Within(x, queue'.followUp) \/ Within(x, todo') <=> Within(x, queue.followUp)
    BY <1>9, FollowUpPlaces
  <2>2. \A x \in Messages : /\ Seen(x)' => Seen(x)
                            /\ Within(x, queue'.followUp) => Within(x, queue.followUp)
    BY <2>1 DEF Seen, Said, Logged
  <2>3. SteeringMode = "one-at-a-time" => Single(todo')
    <3>1. CASE todo' = todo
      BY <3>1 DEF Fed
    <3>2. CASE \A x : Within(x, queue'.followUp) \/ Within(x, todo') <=> Within(x, queue.followUp)
      <4>1. \A i \in DOMAIN todo' : Within(todo'[i], todo')
        BY DEF Within
      <4>2. \A i \in DOMAIN todo' : ~Steers(todo'[i])
        BY <3>2, <4>1 DEF Fed, Steers
      <4> QED BY <4>2, SingleOther
    <3> QED BY <2>1, <3>1, <3>2
  <2>4. SteeringMode = "one-at-a-time" => Single(held'.msgs)
    BY <2>1 DEF Fed
  <2> QED BY <2>1, <2>2, <2>3, <2>4, FedKept
<1> QED BY <1>1, <1>2, <1>3, <1>4, <1>5, <1>6, <1>7, <1>8, <1>9 DEF MoveStep

-----------------------------------------------------------------------------
(* What is lost. *)

\* The loop holds drained messages only until the turn they were drained for,
\* except in a run that an abort ends, and a continue_() none before it drains.
Loaded ==
  /\ todo # <<>> => \/ pc \in {"prompts", "top", "inject"}
                    \/ pc \in {"failed", "finish"} /\ run.aborted
  /\ ~held.on => held.msgs = <<>>

LEMMA InitLoaded == Init => Loaded
BY DEF Init, Loaded, NoHeld

LEMMA NextLoaded == ASSUME Typed, Loaded, [Next]_vars PROVE Loaded'
<1>1. CASE EmitPrompt \/ Inject
  <2>1. /\ pc \in {"prompts", "inject"}
        /\ pc' = pc \/ todo' = <<>>
    BY <1>1 DEF EmitPrompt, Inject, EmitInput
  <2>2. held' = held
    BY <1>1 DEF EmitPrompt, Inject, Quiet, hostVars
  <2> QED BY <2>1, <2>2 DEF Loaded
<1>2. CASE InitialPoll \/ PollSteering \/ PollFollowUp \/ PollContinuation
  <2>1. held' = held
    BY <1>2 DEF InitialPoll, PollSteering, PollFollowUp, PollContinuation, hostVars
  <2>2. todo = <<>>
    BY <1>2 DEF InitialPoll, PollSteering, PollFollowUp, PollContinuation, Loaded
  <2>3. todo' = <<>> \/ pc' = "top"
    BY <1>2, <2>2 DEF InitialPoll, PollSteering, PollFollowUp, PollContinuation, NoMessages
  <2> QED BY <2>1, <2>3 DEF Loaded
<1>3. CASE Top
  BY <1>3 DEF Top, MoveTo, Quiet, hostVars, runVars, Loaded
<1>4. CASE Request \/ StreamFails \/ TurnEnd \/ AgentEnd \/ RunFailure
  <2>1. todo' = todo /\ held' = held /\ run' = run
    BY <1>4 DEF Request, StreamFails, TurnEnd, AgentEnd, RunFailure, MoveTo, Quiet, hostVars, runVars
  <2>2. pc \in {"request", "stream", "turnEnd", "end"} \/ (pc = "failed" /\ pc' = "finish")
    BY <1>4 DEF Request, StreamFails, TurnEnd, AgentEnd, RunFailure, MoveTo
  <2> QED BY <2>1, <2>2 DEF Loaded
<1>5. CASE \/ \E k \in 0..MaxCalls : Complete(k) \/ EndEarly(k)
           \/ AnswerUnexecuted \/ AnsweredAll \/ ToolResult \/ BatchDone
           \/ StartTool \/ (\E i \in 1..MaxCalls : EndTool(i))
  <2>1. todo' = todo /\ held' = held
    BY <1>5 DEF Complete, EndEarly, Respond, AnswerUnexecuted, AnsweredAll, ToolResult, EmitResult,
                BatchDone, StartTool, EndTool, Quiet, hostVars
  <2>2. pc \in {"stream", "answer", "tools"}
    BY <1>5 DEF Complete, EndEarly, Respond, AnswerUnexecuted, AnsweredAll, ToolResult,
                BatchDone, StartTool, EndTool
  <2> QED BY <2>1, <2>2 DEF Loaded
<1>6. CASE FinishTake
  BY <1>6 DEF FinishTake, hostVars, Loaded
<1>7. CASE (\E m \in Messages : Prompt(m)) \/ ContinueRun
  <2>1. todo' # <<>> => pc' = "prompts"
    BY <1>7 DEF Prompt, ContinueRun, Begin
  <2>2. held' = held \/ held' = NoHeld
    BY <1>7 DEF Prompt, ContinueRun
  <2> QED BY <2>1, <2>2 DEF Loaded, NoHeld
<1>8. CASE Continue
  BY <1>8, ContinuePlaces DEF Loaded
<1>9. CASE ContinueBusy
  BY <1>9 DEF ContinueBusy, NoHeld, loopVars, runVars, Loaded
<1>10. CASE Abort
  <2>1. run'.aborted /\ todo' = todo /\ pc' = pc /\ held' = held
    BY <1>10 DEF Abort, Typed, TypeOK, loopVars, hostVars
  <2> QED BY <2>1 DEF Loaded
<1>11. CASE \/ \E m \in Messages : Steer(m) \/ FollowUp(m) \/ RemoveQueued(m)
            \/ ReadGeneration \/ (\E w \in Waiters : Wait(w))
            \/ (\E r \in 1..MaxRuns : FinishSettle(r)) \/ UNCHANGED vars
  <2>1. UNCHANGED <<todo, pc, held, run>>
    BY <1>11 DEF Steer, FollowUp, Enqueue, RemoveQueued, ReadGeneration, Wait, FinishSettle, vars,
                 loopVars, runVars, hostVars
  <2> QED BY <2>1 DEF Loaded
<1>12. ASSUME NEW d \in Diags, SteerActive(d) PROVE Loaded'
  <2>1. run'.aborted = run.aborted /\ UNCHANGED <<todo, pc, held>>
    BY <1>12 DEF SteerActive, Typed, TypeOK, loopVars
  <2> QED BY <2>1 DEF Loaded
<1> QED BY <1>1, <1>2, <1>3, <1>4, <1>5, <1>6, <1>7, <1>8, <1>9, <1>10, <1>11, <1>12 DEF Next, Loop, Host

\* The agent still has the message or has delivered it.  What the loop of an
\* aborted run holds counts as lost from the abort on.
Kept(m) ==
  \/ Within(m, queue.steering) \/ Within(m, queue.followUp)
  \/ Within(m, todo) /\ ~run.aborted
  \/ Within(m, held.msgs) \/ Logged(m)

Lost == {m \in Messages : Steers(m) /\ ~Kept(m)}

LEMMA MissingLost == Missing("steering") \subseteq Lost
BY DEF Missing, Lost, Kept, Steers, Logged

\* Which steps the counters count.
LEMMA Counted ==
  ASSUME Typed, [Next]_vars
  PROVE  \/ /\ Abort /\ StillStep
            /\ spent'.aborts = spent.aborts + 1 /\ spent'.refused = spent.refused
         \/ /\ ContinueBusy
            /\ spent'.aborts = spent.aborts /\ spent'.refused = spent.refused + 1
         \/ /\ StillStep /\ run'.aborted = run.aborted
            /\ spent'.aborts = spent.aborts /\ spent'.refused = spent.refused
         \/ /\ MoveStep /\ ~ContinueBusy
            /\ spent'.aborts = spent.aborts /\ spent'.refused = spent.refused
<1>0. spent \in [turns : 0..MaxTurns, aborts : Nat, refused : Nat, drained : SUBSET Inputs]
      /\ run \in [id : 0..MaxRuns, aborted : BOOLEAN, diags : Seq(Diags), seen : SUBSET Diags]
  BY DEF Typed, TypeOK
<1>1. CASE Abort
  <2>1. StillStep
    BY <1>1, OthersStill
  <2> QED BY <1>0, <1>1, <2>1 DEF Abort
<1>2. CASE ContinueBusy
  BY <1>0, <1>2 DEF ContinueBusy
<1>3. ASSUME NEW k \in 0..MaxCalls, Complete(k) \/ EndEarly(k)
      PROVE  /\ StillStep /\ run'.aborted = run.aborted
             /\ spent'.aborts = spent.aborts /\ spent'.refused = spent.refused
  <2>1. StillStep
    BY <1>3, ResponsesStill
  <2>2. run' = run /\ spent' = [spent EXCEPT !.turns = @ + 1]
    BY <1>3 DEF Complete, EndEarly, Respond, runVars
  <2> QED BY <1>0, <2>1, <2>2
<1>4. CASE \/ Top \/ Request \/ StreamFails \/ TurnEnd \/ AgentEnd \/ RunFailure
           \/ AnswerUnexecuted \/ ToolResult
           \/ AnsweredAll \/ StartTool \/ BatchDone \/ (\E i \in 1..MaxCalls : EndTool(i))
  <2>1. StillStep
    BY <1>4, ResultsStill, OthersStill
  <2>2. run' = run /\ spent' = spent
    BY <1>4 DEF Top, Request, StreamFails, TurnEnd, AgentEnd, RunFailure, AnswerUnexecuted, ToolResult,
                EmitResult, AnsweredAll, StartTool, BatchDone, EndTool, Quiet, runVars
  <2> QED BY <2>1, <2>2
<1>5. CASE \/ ReadGeneration \/ (\E w \in Waiters : Wait(w))
           \/ (\E r \in 1..MaxRuns : FinishSettle(r)) \/ UNCHANGED vars
  <2>1. StillStep
    BY <1>5, OthersStill
  <2>2. run' = run /\ spent' = spent
    BY <1>5 DEF ReadGeneration, Wait, FinishSettle, vars, runVars
  <2> QED BY <2>1, <2>2
<1>6. ASSUME NEW d \in Diags, SteerActive(d)
      PROVE  StillStep /\ run'.aborted = run.aborted /\ spent' = spent
  <2>1. StillStep
    BY <1>6, OthersStill
  <2>2. run'.aborted = run.aborted /\ spent' = spent
    BY <1>0, <1>6 DEF SteerActive
  <2> QED BY <2>1, <2>2
<1>7. CASE MoveStep /\ ~ContinueBusy
  <2>1. spent' = spent
    BY <1>7 DEF MoveStep, Steer, FollowUp, Enqueue, RemoveQueued, Prompt, Continue, ContinueRun,
                FinishTake, EmitPrompt, Inject, Quiet, InitialPoll, PollSteering, PollFollowUp,
                PollContinuation
  <2> QED BY <1>7, <2>1
<1> QED BY <1>1, <1>2, <1>3, <1>4, <1>5, <1>6, <1>7 DEF Next, Loop, Host, MoveStep

\* Only an abort and a refused continue_() note what was drained.
LEMMA DrainedSame ==
  ASSUME spent \in [turns : 0..MaxTurns, aborts : Nat, refused : Nat, drained : SUBSET Inputs],
         [Next]_vars, ~Abort, ~ContinueBusy
  PROVE  spent'.drained = spent.drained
<1>1. ASSUME NEW k \in 0..MaxCalls, Complete(k) \/ EndEarly(k) PROVE spent'.drained = spent.drained
  BY <1>1 DEF Complete, EndEarly, Respond
<1>2. CASE \/ Top \/ Request \/ StreamFails \/ TurnEnd \/ AgentEnd \/ RunFailure
           \/ AnswerUnexecuted \/ ToolResult
           \/ AnsweredAll \/ StartTool \/ BatchDone \/ (\E i \in 1..MaxCalls : EndTool(i))
  BY <1>2 DEF Top, Request, StreamFails, TurnEnd, AgentEnd, RunFailure, AnswerUnexecuted, ToolResult,
              EmitResult, AnsweredAll, StartTool, BatchDone, EndTool, Quiet
<1>3. CASE \/ ReadGeneration \/ (\E w \in Waiters : Wait(w)) \/ (\E d \in Diags : SteerActive(d))
           \/ (\E r \in 1..MaxRuns : FinishSettle(r)) \/ UNCHANGED vars
  BY <1>3 DEF ReadGeneration, Wait, SteerActive, FinishSettle, vars
<1>4. CASE MoveStep /\ ~ContinueBusy
  BY <1>4 DEF MoveStep, Steer, FollowUp, Enqueue, RemoveQueued, Prompt, Continue, ContinueRun,
              FinishTake, EmitPrompt, Inject, Quiet, InitialPoll, PollSteering, PollFollowUp,
              PollContinuation
<1> QED BY <1>1, <1>2, <1>3, <1>4 DEF Next, Loop, Host, MoveStep

\* A message is kept through every step but the ones that give its list up.
LEMMA MovesKept ==
  ASSUME Typed, Loaded, Fed, MoveStep, NEW x \in Messages,
         NEW l \in {"steering", "followUp"}, lane'[x] = l, lane[x] = l => Kept(x),
         ContinueBusy => ~Within(x, held.msgs)
  PROVE  Kept(x)'
<1>0. lane \in [Messages -> Lanes] /\ \A y : ~Within(y, <<>>)
  BY ListTypes DEF Within
<1>1. ASSUME NEW m \in Messages, Steer(m) \/ FollowUp(m) PROVE Kept(x)'
  <2>1. \/ Steer(m) /\ queue'.steering = Append(queue.steering, m) /\ queue'.followUp = queue.followUp
        \/ FollowUp(m) /\ queue'.followUp = Append(queue.followUp, m) /\ queue'.steering = queue.steering
    BY <1>1, ListTypes DEF Steer, FollowUp, Enqueue
  <2>2. /\ Within(x, Append(queue.steering, m)) <=> Within(x, queue.steering) \/ x = m
        /\ Within(x, Append(queue.followUp, m)) <=> Within(x, queue.followUp) \/ x = m
    BY ListTypes, WithinAppend
  <2>3. UNCHANGED <<todo, held, log, run>>
    BY <1>1 DEF Steer, FollowUp, Enqueue, loopVars, hostVars, runVars
  <2>4. x # m => lane[x] = l
    BY <1>0, <1>1 DEF Steer, FollowUp, Enqueue
  <2>5. CASE x = m
    BY <2>1, <2>2, <2>5 DEF Kept
  <2>6. CASE x # m
    BY <2>1, <2>2, <2>3, <2>4, <2>6 DEF Kept, Logged
  <2> QED BY <2>5, <2>6
<1>2. ASSUME NEW m \in Messages, RemoveQueued(m) PROVE Kept(x)'
  <2>1. /\ UNCHANGED <<todo, held, log, run>>
        /\ lane' = [lane EXCEPT ![m] = "removed"]
        /\ x # m => /\ Within(x, queue.steering) => Within(x, queue'.steering)
                    /\ Within(x, queue.followUp) => Within(x, queue'.followUp)
    BY <1>2, RemovePlaces
  <2>2. x # m /\ lane[x] = l
    BY <1>0, <2>1
  <2> QED BY <2>1, <2>2 DEF Kept, Logged
<1>3. ASSUME NEW m \in Messages, Enter(m), todo = <<>> PROVE Kept(x)'
  <2>1. UNCHANGED <<queue, held, log>>
    BY <1>3 DEF Enter
  <2>2. lane[x] = l
    BY <1>0, <1>3 DEF Enter
  <2> QED BY <1>0, <1>3, <2>1, <2>2 DEF Kept, Logged
<1>4. ASSUME NEW m \in Messages, Prompt(m) PROVE Kept(x)'
  <2>1. todo = <<>>
    BY <1>4 DEF Prompt, Typed, Control, Loaded
  <2> QED BY <1>3, <1>4, <2>1, Enters
<1>5. CASE PollContinuation
  <2>1. todo = <<>> /\ run' = run
    BY <1>5 DEF PollContinuation, runVars, Loaded
  <2>2. CASE UNCHANGED <<transcript, log, queue, order, held, spent, todo, lane>>
    BY <2>1, <2>2 DEF Kept, Logged
  <2> QED BY <1>3, <1>5, <2>1, <2>2, Enters
<1>6. CASE Continue
  <2>1. /\ UNCHANGED <<lane, todo, log, run>> /\ held.msgs = <<>>
        /\ \/ queue' = queue
           \/ /\ queue'.followUp = queue.followUp
              /\ \A y : Within(y, queue'.steering) \/ Within(y, held'.msgs) <=> Within(y, queue.steering)
           \/ /\ queue'.steering = queue.steering
              /\ \A y : Within(y, queue'.followUp) \/ Within(y, held'.msgs) <=> Within(y, queue.followUp)
    BY <1>6, ContinuePlaces DEF Loaded
  <2> QED BY <1>0, <2>1 DEF Kept, Logged
<1>7. CASE ContinueRun
  <2>1. /\ todo' = held.msgs /\ ~run'.aborted /\ UNCHANGED <<log, queue, lane>>
    BY <1>7, HandOver
  <2>2. todo = <<>>
    BY <1>7 DEF ContinueRun, Typed, Control, Loaded
  <2> QED BY <1>0, <2>1, <2>2 DEF Kept, Logged
<1>8. CASE ContinueBusy
  BY <1>8, HandOver DEF Kept, Logged
<1>9. CASE FinishTake
  <2>1. pc = "finish" /\ UNCHANGED <<log, queue, lane, held>>
    BY <1>9, HandOver
  <2>2. todo = <<>> \/ run.aborted
    BY <2>1 DEF Loaded
  <2> QED BY <1>0, <2>1, <2>2 DEF Kept, Logged
<1>10. CASE EmitPrompt \/ Inject
  <2>1. /\ UNCHANGED <<queue, lane, held, run>>
        /\ Within(x, todo) <=> x = Head(todo) \/ Within(x, todo')
        /\ Logged(x)' <=> Logged(x) \/ x = Head(todo)
    BY <1>10, EmitPlaces
  <2> QED BY <2>1 DEF Kept
<1>11. CASE InitialPoll \/ PollSteering
  <2>1. /\ UNCHANGED <<lane, held, log>>
        /\ run' = [run EXCEPT !.diags = <<>>] \/ run' = run
        /\ queue'.followUp = queue.followUp
        /\ todo' = <<>> \/ ~run.aborted
        /\ Within(x, queue'.steering) \/ Within(x, todo') <=> Within(x, queue.steering)
    BY <1>11, PollPlaces
  <2>2. run'.aborted = run.aborted
    BY <2>1 DEF Typed, TypeOK
  <2>3. todo = <<>>
    BY <1>11 DEF InitialPoll, PollSteering, Loaded
  <2> QED BY <1>0, <2>1, <2>2, <2>3 DEF Kept, Logged
<1>12. CASE PollFollowUp
  <2>1. /\ UNCHANGED <<lane, held, log, run>>
        /\ queue'.steering = queue.steering
        /\ \/ todo' = todo /\ queue' = queue
           \/ /\ ~run.aborted
              /\ Within(x, queue'.followUp) \/ Within(x, todo') <=> Within(x, queue.followUp)
    BY <1>12, FollowUpPlaces
  <2>2. todo = <<>>
    BY <1>12 DEF PollFollowUp, Loaded
  <2> QED BY <1>0, <2>1, <2>2 DEF Kept, Logged
<1> QED BY <1>1, <1>2, <1>4, <1>5, <1>6, <1>7, <1>8, <1>9, <1>10, <1>11, <1>12 DEF MoveStep

\* At most one of a list's messages is a steering one: their set has one element.
LEMMA SingleSet ==
  ASSUME NEW s, Single(s)
  PROVE  \E e : \A m \in Messages : Steers(m) /\ Within(m, s) => m = e
<1>1. CASE \E m \in Messages : Steers(m) /\ Within(m, s)
  <2>1. PICK e \in Messages : Steers(e) /\ Within(e, s)
    BY <1>1
  <2>2. ASSUME NEW m \in Messages, Steers(m), Within(m, s) PROVE m = e
    BY <2>1, <2>2 DEF Single, Within
  <2> QED BY <2>2
<1> QED BY <1>1

\* The set of lost messages is finite and within its bound.
Losses ==
  SteeringMode = "one-at-a-time" =>
    IsFiniteSet(Lost) /\ Cardinality(Lost) <= spent.aborts + spent.refused

LEMMA InitLosses == Init => Losses
<1> SUFFICES ASSUME Init PROVE Losses
  OBVIOUS
<1>1. Lost = {}
  BY DEF Init, Lost, Steers
<1> QED BY <1>1, FS_EmptySet DEF Init, Losses

LEMMA NextLosses ==
  ASSUME Typed, Loaded, Fed, Losses, [Next]_vars PROVE Losses'
<1> SUFFICES ASSUME SteeringMode = "one-at-a-time"
             PROVE  IsFiniteSet(Lost') /\ Cardinality(Lost') <= spent'.aborts + spent'.refused
  BY DEF Losses
<1>0. /\ spent.aborts \in Nat /\ spent.refused \in Nat
      /\ IsFiniteSet(Lost) /\ Cardinality(Lost) <= spent.aborts + spent.refused
      /\ Single(todo) /\ Single(held.msgs)
  BY DEF Typed, TypeOK, Losses, Fed
<1>1. Cardinality(Lost) \in Nat
  BY <1>0, FS_CardinalityType
<1>2. ASSUME Lost' \subseteq Lost
      PROVE  IsFiniteSet(Lost') /\ Cardinality(Lost') <= spent.aborts + spent.refused
  <2>1. IsFiniteSet(Lost') /\ Cardinality(Lost') <= Cardinality(Lost)
    BY <1>0, <1>2, FS_Subset
  <2>2. Cardinality(Lost') \in Nat
    BY <2>1, FS_CardinalityType
  <2> QED BY <1>0, <1>1, <2>1, <2>2
<1>3. ASSUME NEW e, Lost' \subseteq Lost \cup {e}
      PROVE  IsFiniteSet(Lost') /\ Cardinality(Lost') <= spent.aborts + spent.refused + 1
  <2>1. /\ IsFiniteSet(Lost \cup {e})
        /\ Cardinality(Lost \cup {e}) = Cardinality(Lost) \/ Cardinality(Lost \cup {e}) = Cardinality(Lost) + 1
    BY <1>0, FS_AddElement
  <2>2. IsFiniteSet(Lost') /\ Cardinality(Lost') <= Cardinality(Lost \cup {e})
    BY <1>3, <2>1, FS_Subset
  <2>3. Cardinality(Lost') \in Nat
    BY <2>2, FS_CardinalityType
  <2> QED BY <1>0, <1>1, <2>1, <2>2, <2>3
<1>4. CASE /\ Abort /\ StillStep
           /\ spent'.aborts = spent.aborts + 1 /\ spent'.refused = spent.refused
  <2>1. PICK e : \A m \in Messages : Steers(m) /\ Within(m, todo) => m = e
    BY <1>0, SingleSet
  <2>2. UNCHANGED <<lane, queue, todo, held, log>>
    BY <1>4 DEF StillStep
  <2>3. Lost' \subseteq Lost \cup {e}
    BY <2>1, <2>2 DEF Lost, Kept, Logged, Steers
  <2>4. IsFiniteSet(Lost') /\ Cardinality(Lost') <= spent.aborts + spent.refused + 1
    BY <1>3, <2>3
  <2>5. Cardinality(Lost') \in Nat
    BY <2>4, FS_CardinalityType
  <2> QED BY <1>0, <1>4, <2>4, <2>5
<1>5. CASE /\ ContinueBusy
           /\ spent'.aborts = spent.aborts /\ spent'.refused = spent.refused + 1
  <2>1. PICK e : \A m \in Messages : Steers(m) /\ Within(m, held.msgs) => m = e
    BY <1>0, SingleSet
  <2>2. lane' = lane /\ MoveStep
    BY <1>5 DEF ContinueBusy, laneVars, MoveStep
  <2>3. ASSUME NEW x \in Messages, Steers(x)', ~Kept(x)', x # e PROVE Steers(x) /\ ~Kept(x)
    <3>1. Steers(x)
      BY <2>2, <2>3 DEF Steers
    <3>2. ~Within(x, held.msgs)
      BY <2>1, <2>3, <3>1
    <3> QED BY <2>2, <2>3, <3>1, <3>2, MovesKept DEF Steers
  <2>4. Lost' \subseteq Lost \cup {e}
    BY <2>3 DEF Lost
  <2>5. IsFiniteSet(Lost') /\ Cardinality(Lost') <= spent.aborts + spent.refused + 1
    BY <1>3, <2>4
  <2>6. Cardinality(Lost') \in Nat
    BY <2>5, FS_CardinalityType
  <2> QED BY <1>0, <1>5, <2>5, <2>6
<1>6. CASE /\ StillStep /\ run'.aborted = run.aborted
           /\ spent'.aborts = spent.aborts /\ spent'.refused = spent.refused
  <2>1. UNCHANGED <<lane, queue, todo, held, log>>
    BY <1>6 DEF StillStep
  <2>2. Lost' = Lost
    BY <1>6, <2>1 DEF Lost, Kept, Logged, Steers
  <2> QED BY <1>2, <1>6, <2>2
<1>7. CASE /\ MoveStep /\ ~ContinueBusy
           /\ spent'.aborts = spent.aborts /\ spent'.refused = spent.refused
  <2>1. ASSUME NEW x \in Messages, Steers(x)', ~Kept(x)' PROVE Steers(x) /\ ~Kept(x)
    BY <1>7, <2>1, MovesKept DEF Steers
  <2>2. Lost' \subseteq Lost
    BY <2>1 DEF Lost
  <2> QED BY <1>2, <1>7, <2>2
<1> QED BY <1>4, <1>5, <1>6, <1>7, Counted

\* Everything about the messages on their way.
OnTheWay == Typed /\ Loaded /\ Fed

LEMMA NextOnTheWay == OnTheWay /\ [Next]_vars => OnTheWay'
<1> SUFFICES ASSUME OnTheWay, [Next]_vars PROVE OnTheWay'
  OBVIOUS
<1>1. Typed /\ Loaded /\ Fed
  BY DEF OnTheWay
<1>2. Typed'
  BY <1>1, NextTyped
<1>3. Loaded'
  BY <1>1, NextLoaded
<1>4. Fed'
  BY <1>1, StillOrMove, StillFed, MovesFed
<1> QED BY <1>2, <1>3, <1>4 DEF OnTheWay

\* Aborts and refused continues are the only ways to lose a message that was
\* steered one at a time, and each of them loses one at most.
THEOREM LossesAreBounded == Spec => []LossBounded
<1>1. Init => OnTheWay /\ Losses
  BY InitTyped, InitLoaded, InitFed, InitLosses DEF OnTheWay
<1>2. OnTheWay /\ Losses /\ [Next]_vars => OnTheWay' /\ Losses'
  BY NextOnTheWay, NextLosses DEF OnTheWay
<1>3. OnTheWay /\ Losses => LossBounded
  <2> SUFFICES ASSUME OnTheWay, Losses, SteeringMode = "one-at-a-time"
               PROVE  Cardinality(Missing("steering")) <= spent.aborts + spent.refused
    BY DEF LossBounded
  <2>1. /\ IsFiniteSet(Lost) /\ Cardinality(Lost) <= spent.aborts + spent.refused
        /\ spent.aborts \in Nat /\ spent.refused \in Nat
    BY DEF Losses, OnTheWay, Typed, TypeOK
  <2>2. IsFiniteSet(Missing("steering")) /\ Cardinality(Missing("steering")) <= Cardinality(Lost)
    BY <2>1, MissingLost, FS_Subset
  <2>3. Cardinality(Missing("steering")) \in Nat /\ Cardinality(Lost) \in Nat
    BY <2>1, <2>2, FS_CardinalityType
  <2> QED BY <2>1, <2>2, <2>3
<1> QED BY <1>1, <1>2, <1>3, PTL DEF Spec

\* What is lost was drained when an abort or a refusal met it.
Survives ==
  \A m \in Messages : lane[m] \in {"steering", "followUp"} => Kept(m) \/ m \in spent.drained

LEMMA NextSurvives ==
  ASSUME Typed, Loaded, Fed, Survives, [Next]_vars PROVE Survives'
<1> SUFFICES ASSUME NEW x \in Messages, NEW l \in {"steering", "followUp"}, lane'[x] = l
             PROVE  Kept(x)' \/ x \in spent'.drained
  BY DEF Survives
<1>0. /\ spent \in [turns : 0..MaxTurns, aborts : Nat, refused : Nat, drained : SUBSET Inputs]
      /\ lane[x] = l => Kept(x) \/ x \in spent.drained
  BY DEF Typed, TypeOK, Survives
<1>1. ASSUME NEW s, Within(x, s) PROVE x \in SetOf(s)
  BY <1>1 DEF Within, SetOf
<1>2. CASE Abort
  <2>1. UNCHANGED <<lane, queue, todo, held, log>>
    BY <1>2, OthersStill DEF StillStep
  <2>2. spent'.drained = spent.drained \cup SetOf(todo)
    BY <1>0, <1>2 DEF Abort
  <2> QED BY <1>0, <1>1, <2>1, <2>2 DEF Kept, Logged
<1>3. CASE ContinueBusy
  <2>1. spent'.drained = spent.drained \cup SetOf(held.msgs)
    BY <1>0, <1>3 DEF ContinueBusy
  <2>2. MoveStep /\ lane' = lane
    BY <1>3 DEF ContinueBusy, MoveStep, laneVars
  <2>3. CASE Within(x, held.msgs)
    BY <1>1, <2>1, <2>3
  <2>4. CASE ~Within(x, held.msgs) /\ Kept(x)
    BY <2>2, <2>4, MovesKept
  <2> QED BY <1>0, <2>1, <2>2, <2>3, <2>4
<1>4. CASE ~Abort /\ ~ContinueBusy
  <2>1. spent'.drained = spent.drained
    BY <1>0, <1>4, DrainedSame
  <2>2. \/ StillStep /\ run'.aborted = run.aborted
        \/ MoveStep
    BY <1>4, Counted
  <2>3. CASE StillStep /\ run'.aborted = run.aborted
    <3>1. UNCHANGED <<lane, queue, todo, held, log>>
      BY <2>3 DEF StillStep
    <3> QED BY <1>0, <2>1, <2>3, <3>1 DEF Kept, Logged
  <2>4. CASE MoveStep
    <3>1. x \in spent.drained \/ (lane[x] = l => Kept(x))
      BY <1>0
    <3> QED BY <1>4, <2>1, <2>4, <3>1, MovesKept
  <2> QED BY <2>2, <2>3, <2>4
<1> QED BY <1>2, <1>3, <1>4

\* What waits in a queue survives every step of every run: only what was drained
\* when an abort or a refusal met it can be missing.
THEOREM QueuesSurvive == Spec => []QueueSurvives
<1>1. Init => OnTheWay /\ Survives
  <2>1. Init => Survives
    BY DEF Init, Survives
  <2> QED BY <2>1, InitTyped, InitLoaded, InitFed DEF OnTheWay
<1>2. OnTheWay /\ Survives /\ [Next]_vars => OnTheWay' /\ Survives'
  BY NextOnTheWay, NextSurvives DEF OnTheWay
<1>3. Survives => QueueSurvives
  BY DEF Survives, QueueSurvives, Missing, Kept, Logged
<1> QED BY <1>1, <1>2, <1>3, PTL DEF Spec

-----------------------------------------------------------------------------
(* Turns. *)

Steered(e) == e.kind = "input" /\ Steers(e.msg)
Carries(s) == \E i \in DOMAIN s : Steers(s[i])

\* The model has responded since the last steering message.
Answered ==
  \A i \in DOMAIN transcript : Steered(transcript[i]) =>
    \E k \in DOMAIN transcript : i <= k /\ transcript[k].kind = "assistant"

\* Between two of them, it always has.
Spaced ==
  \A i, j \in DOMAIN transcript :
    i < j /\ Steered(transcript[i]) /\ Steered(transcript[j]) =>
      \E k \in i..j : transcript[k].kind = "assistant"

LEMMA SpacedTurns == OneSteeringPerTurn <=> (SteeringMode = "one-at-a-time" => Spaced)
BY DEF OneSteeringPerTurn, Spaced, Steered, Steers

\* An input that is in the transcript has been said.
LEMMA SaidInputs ==
  ASSUME Typed, NEW i \in DOMAIN transcript, transcript[i].kind = "input"
  PROVE  Said(transcript[i].msg)
<1>1. transcript[i] \in Entries
  BY ListTypes, LenProperties, ElementOfSeq
<1>2. \E m \in Inputs : transcript[i] = Input(m)
  BY <1>1 DEF Entries, Input, Assistant, Result
<1>3. transcript[i] = Input(transcript[i].msg)
  BY <1>2 DEF Input
<1> QED BY <1>3 DEF Said

\* Nothing said becomes a steering message later.
LEMMA SameTurns ==
  ASSUME Typed, transcript' = transcript, \A x : Said(x) /\ Steers(x)' => Steers(x)
  PROVE  (Answered => Answered') /\ (Spaced => Spaced')
<1>1. \A i \in DOMAIN transcript : Steered(transcript[i])' => Steered(transcript[i])
  BY SaidInputs DEF Steered
<1> QED BY <1>1 DEF Answered, Spaced, Steered

\* What an entry does to both.
LEMMA AppendTurns ==
  ASSUME Typed, NEW e, transcript' = Append(transcript, e), lane' = lane
  PROVE  /\ e.kind = "assistant" => Answered'
         /\ Answered /\ ~Steered(e) => Answered'
         /\ Spaced /\ (Answered \/ ~Steered(e)) => Spaced'
<1> DEFINE n == Len(transcript)
<1>1. /\ n \in Nat /\ DOMAIN transcript = 1..n /\ DOMAIN transcript' = 1..(n + 1)
      /\ \A i \in 1..n : transcript'[i] = transcript[i]
      /\ transcript'[n + 1] = e
  BY ListTypes, ListAppend
<1>2. \A f : Steered(f)' <=> Steered(f)
  BY DEF Steered, Steers
<1> HIDE DEF n
<1>3. /\ n + 1 \in 1..(n + 1)
      /\ \A i \in 1..n : i \in 1..(n + 1) /\ i <= n + 1
      /\ \A i \in 1..(n + 1) : (i \in 1..n \/ i = n + 1) /\ i <= n + 1
  BY <1>1
<1>4. ASSUME e.kind = "assistant" PROVE Answered'
  <2>1. \A i \in DOMAIN transcript' : \E k \in DOMAIN transcript' : i <= k /\ transcript'[k].kind = "assistant"
    BY <1>1, <1>3, <1>4
  <2> QED BY <2>1 DEF Answered
<1>5. ASSUME Answered, ~Steered(e) PROVE Answered'
  <2>1. ASSUME NEW i \in DOMAIN transcript', Steered(transcript'[i])
        PROVE  \E k \in DOMAIN transcript' : i <= k /\ transcript'[k].kind = "assistant"
    <3>1. i \in 1..n /\ Steered(transcript[i])
      BY <1>1, <1>3, <1>5, <2>1
    <3>2. PICK k \in 1..n : i <= k /\ transcript[k].kind = "assistant"
      BY <1>1, <1>5, <3>1 DEF Answered
    <3> QED BY <1>1, <1>3, <3>2
  <2>2. \A i \in DOMAIN transcript' : Steered(transcript[i])' => Steered(transcript'[i])
    BY DEF Steered, Steers
  <2> QED BY <2>1, <2>2 DEF Answered
<1>6. ASSUME Spaced, Answered \/ ~Steered(e) PROVE Spaced'
  <2>1. ASSUME NEW i \in DOMAIN transcript', NEW j \in DOMAIN transcript',
               i < j, Steered(transcript'[i]), Steered(transcript'[j])
        PROVE  \E k \in i..j : transcript'[k].kind = "assistant"
    <3>1. i \in 1..n /\ transcript'[i] = transcript[i] /\ Steered(transcript[i])
      BY <1>1, <1>3, <2>1
    <3>2. CASE j \in 1..n
      <4>1. Steered(transcript[j])
        BY <1>1, <2>1, <3>2
      <4>2. PICK k \in i..j : transcript[k].kind = "assistant"
        BY <1>1, <1>6, <2>1, <3>1, <3>2, <4>1 DEF Spaced
      <4>3. k \in 1..n
        BY <1>1, <3>1, <3>2
      <4> QED BY <1>1, <4>2, <4>3
    <3>3. CASE j = n + 1
      <4>1. Steered(e)
        BY <1>1, <2>1, <3>3
      <4>2. Answered
        BY <1>6, <4>1
      <4>3. PICK k \in 1..n : i <= k /\ transcript[k].kind = "assistant"
        BY <1>1, <3>1, <4>2 DEF Answered
      <4>4. k \in i..j
        BY <1>1, <3>1, <3>3, <4>3
      <4> QED BY <1>1, <4>3, <4>4
    <3> QED BY <1>1, <1>3, <3>2, <3>3
  <2>2. \A i \in DOMAIN transcript' : Steered(transcript[i])' => Steered(transcript'[i])
    BY DEF Steered, Steers
  <2> QED BY <2>1, <2>2 DEF Spaced
<1> QED BY <1>4, <1>5, <1>6

\* Where the model has responded to everything: behind a response, before a run
\* begins, when the loop holds a steering message, and before a poll that takes one.
Rests == {"idle", "answer", "tools", "turnEnd", "pollSteering", "pollFollowUp", "pollContinuation",
          "end", "finish"}
Turns ==
  /\ Spaced
  /\ pc \in Rests => Answered
  /\ pc \in {"prompts", "top", "inject"} /\ Carries(todo) => Answered
  /\ pc \in {"prompts", "poll"} /\ ~skip => Answered /\ ~Carries(todo)
  /\ Carries(held.msgs) => held.skip

LEMMA InitTurns == Init => Turns
BY DEF Init, Turns, Spaced, Answered, Carries, NoHeld

\* The steps of the host leave the loop alone.
LEMMA HostTurns ==
  ASSUME Typed, Turns, UNCHANGED <<transcript, pc, todo, skip, held>>,
         \A x : Seen(x) /\ Steers(x)' => Steers(x)
  PROVE  Turns'
<1>1. /\ \A x : Said(x) /\ Steers(x)' => Steers(x)
      /\ \A x : Within(x, todo) /\ Steers(x)' => Steers(x)
      /\ \A x : Within(x, held.msgs) /\ Steers(x)' => Steers(x)
  BY DEF Seen
<1>2. (Answered => Answered') /\ (Spaced => Spaced')
  BY <1>1, SameTurns
<1>3. Carries(todo)' => Carries(todo)
  BY <1>1 DEF Carries, Within
<1>4. Carries(held.msgs)' => Carries(held.msgs)
  BY <1>1 DEF Carries, Within
<1> QED BY <1>2, <1>3, <1>4 DEF Turns

LEMMA EnqueueTurns ==
  ASSUME Typed, Fed, Turns, NEW m \in Messages, Steer(m) \/ FollowUp(m) \/ RemoveQueued(m) PROVE Turns'
<1>1. UNCHANGED <<transcript, pc, todo, skip, held>>
  BY DEF Steer, FollowUp, Enqueue, RemoveQueued, loopVars, hostVars
<1>2. lane \in [Messages -> Lanes]
  BY ListTypes
<1>3. \A x : Seen(x) /\ Steers(x)' => Steers(x)
  BY <1>2 DEF Steer, FollowUp, Enqueue, RemoveQueued, Steers, Fed
<1> QED BY <1>1, <1>3, HostTurns

\* A run begins behind a response.
LEMMA BeginTurns ==
  ASSUME Typed, Turns, NEW msgs, NEW skipPoll, Begin(msgs, skipPoll), active = 0,
         transcript' = transcript, \A x : Steers(x)' => Steers(x),
         held' = held \/ held' = NoHeld, Carries(msgs)' => skipPoll
  PROVE  Turns'
<1>1. Answered /\ Spaced
  BY DEF Turns, Typed, Control, Rests
<1>2. Answered' /\ Spaced'
  BY <1>1, SameTurns
<1>3. /\ todo' = msgs /\ skip' = skipPoll
      /\ pc' \in {"prompts", "failed", "poll"}
  BY DEF Begin
<1>4. ~skip' => ~Carries(todo)'
  BY <1>3 DEF Carries, Steers
<1>5. Carries(held.msgs)' => held'.skip
  BY DEF Turns, Carries, NoHeld
<1> QED BY <1>2, <1>3, <1>4, <1>5 DEF Turns, Rests

LEMMA StartsTurns ==
  ASSUME Typed, Fed, Turns, (\E m \in Messages : Prompt(m)) \/ ContinueRun PROVE Turns'
<1>1. ASSUME NEW m \in Messages, Prompt(m) PROVE Turns'
  <2>1. /\ Begin(<<m>>, FALSE) /\ active = 0 /\ transcript' = transcript /\ held' = held
        /\ lane' = [lane EXCEPT ![m] = "prompt"] /\ lane \in [Messages -> Lanes]
    BY <1>1, ListTypes DEF Prompt
  <2>2. \A x : Steers(x)' => Steers(x)
    BY <2>1 DEF Steers
  <2>3. ~Carries(<<m>>)'
    BY <2>1 DEF Carries, Steers
  <2> QED BY <2>1, <2>2, <2>3, BeginTurns
<1>2. CASE ContinueRun
  <2>1. /\ Begin(held.msgs, held.skip) /\ active = 0
        /\ transcript' = transcript /\ lane' = lane /\ held' = NoHeld
    BY <1>2 DEF ContinueRun, laneVars
  <2>2. Answered /\ Spaced
    BY <2>1 DEF Turns, Typed, Control, Rests
  <2>3. Answered' /\ Spaced'
    BY <2>1, <2>2, SameTurns DEF Steers
  <2>4. /\ todo' = held.msgs /\ skip' = held.skip
        /\ pc' \in {"prompts", "failed", "poll"}
    BY <2>1 DEF Begin
  <2>5. ~skip' => ~Carries(todo)'
    BY <2>1, <2>4 DEF Turns, Carries, Steers
  <2>6. ~Carries(held.msgs)'
    BY <2>1 DEF Carries, NoHeld
  <2> QED BY <2>3, <2>4, <2>5, <2>6 DEF Turns, Rests
<1> QED BY <1>1, <1>2

LEMMA HandOverTurns ==
  ASSUME Typed, Fed, Turns, Continue \/ ContinueBusy PROVE Turns'
<1>1. UNCHANGED <<transcript, lane, pc, todo, skip>>
  BY ContinuePlaces DEF ContinueBusy, laneVars, loopVars
<1>2. Answered' = Answered /\ Spaced' = Spaced /\ Carries(todo)' = Carries(todo)
  BY <1>1 DEF Answered, Spaced, Steered, Steers, Carries
<1>3. Carries(held.msgs)' => held'.skip
  <2>1. CASE ContinueBusy
    BY <2>1 DEF ContinueBusy, NoHeld, Carries
  <2>2. CASE Continue
    <3>1. CASE held'.msgs = <<>>
      BY <3>1 DEF Carries
    <3>2. CASE held'.skip
      BY <3>2
    <3>3. CASE \A x : Within(x, queue'.followUp) \/ Within(x, held'.msgs) <=> Within(x, queue.followUp)
      BY <1>1, <3>3 DEF Carries, Steers, Fed, Within
    <3> QED BY <2>2, <3>1, <3>2, <3>3, ContinuePlaces
  <2> QED BY <2>1, <2>2
<1> QED BY <1>1, <1>2, <1>3 DEF Turns

\* Behind the one steering message of a list come none.
LEMMA EmitTurns ==
  ASSUME Typed, Fed, Turns, SteeringMode = "one-at-a-time", EmitPrompt \/ Inject PROVE Turns'
<1>1. /\ todo # <<>> /\ todo' = Tail(todo) /\ Head(todo) \in Inputs
      /\ transcript' = Append(transcript, Input(Head(todo)))
      /\ UNCHANGED <<lane, held, skip>>
      /\ todo \in Seq(Inputs) /\ Single(todo)
  BY EmitPlaces, ListTypes DEF Fed
<1>2. /\ pc = "prompts" => pc' \in {"prompts", "poll"}
      /\ pc = "inject" => pc' \in {"inject", "request"}
      /\ pc \in {"prompts", "inject"}
  BY DEF EmitPrompt, Inject, EmitInput
<1>3. /\ Len(todo) \in Nat \ {0} /\ DOMAIN todo = 1..Len(todo) /\ Head(todo) = todo[1]
      /\ DOMAIN todo' = 1..(Len(todo) - 1)
      /\ \A i \in 1..(Len(todo) - 1) : todo'[i] = todo[i + 1]
  BY <1>1, ListTail
<1>4. Steered(Input(Head(todo))) <=> Steers(todo[1])
  BY <1>1, <1>3 DEF Steered, Input
<1>5. ASSUME Carries(todo)' PROVE Carries(todo) /\ ~Steers(todo[1])
  <2>1. PICK i \in 1..(Len(todo) - 1) : Steers(todo'[i])
    BY <1>1, <1>3, <1>5 DEF Carries, Steers
  <2>2. i + 1 \in DOMAIN todo /\ Steers(todo[i + 1]) /\ 1 \in DOMAIN todo /\ i + 1 # 1
    BY <1>3, <2>1
  <2> QED BY <1>1, <2>2 DEF Carries, Single
<1>6. Steers(todo[1]) => Carries(todo)
  BY <1>3 DEF Carries
<1>7. /\ Answered /\ ~Steers(todo[1]) => Answered'
      /\ Spaced /\ (Answered \/ ~Steers(todo[1])) => Spaced'
  BY <1>1, <1>4, AppendTurns
<1>8. Spaced'
  BY <1>2, <1>6, <1>7 DEF Turns
<1>9. Carries(todo)' => Answered'
  BY <1>2, <1>5, <1>7 DEF Turns
<1>10. pc' \in {"prompts", "poll"} /\ ~skip' => Answered' /\ ~Carries(todo)'
  <2> SUFFICES ASSUME pc' \in {"prompts", "poll"}, ~skip PROVE Answered' /\ ~Carries(todo)'
    BY <1>1
  <2>1. pc = "prompts"
    BY <1>2
  <2>2. Answered /\ ~Carries(todo)
    BY <2>1 DEF Turns
  <2> QED BY <1>5, <1>6, <1>7, <2>2
<1>11. Carries(held.msgs)' => held'.skip
  BY <1>1 DEF Turns, Carries, Steers
<1> QED BY <1>2, <1>8, <1>9, <1>10, <1>11 DEF Turns, Rests

\* The polls come behind a response, or at the head of a run that began behind one.
LEMMA PollTurns ==
  ASSUME Typed, Fed, Turns, InitialPoll \/ PollSteering \/ PollFollowUp \/ PollContinuation PROVE Turns'
<1>1. /\ UNCHANGED <<transcript, held>>
      /\ pc' \notin {"prompts", "poll"}
  BY DEF InitialPoll, PollSteering, PollFollowUp, PollContinuation, hostVars
<1>2. \A x : Steers(x)' => Steers(x)
  BY ListTypes DEF InitialPoll, PollSteering, PollFollowUp, PollContinuation, Steers
<1>3. (Answered => Answered') /\ (Spaced => Spaced')
  BY <1>1, <1>2, SameTurns
<1>4. \/ Answered
      \/ todo' = <<>> /\ pc' \in {"top", "failed"}
  BY DEF InitialPoll, PollSteering, PollFollowUp, PollContinuation, NoMessages, Turns, Rests
<1>5. Carries(held.msgs)' => Carries(held.msgs)
  BY <1>1, <1>2 DEF Carries
<1>6. todo' = <<>> => ~Carries(todo)'
  BY DEF Carries
<1> QED BY <1>1, <1>3, <1>4, <1>5, <1>6 DEF Turns, Rests

\* The response itself, its results and the message of a failure.
LEMMA RespondTurns ==
  ASSUME Typed, Turns,
         \/ \E k \in 0..MaxCalls : Complete(k) \/ EndEarly(k)
         \/ RunFailure \/ AnswerUnexecuted \/ ToolResult
  PROVE  Turns'
<1>1. /\ UNCHANGED <<lane, held, todo, skip>>
      /\ pc' \notin {"prompts", "poll"}
  BY DEF Complete, EndEarly, Respond, RunFailure, MoveTo, AnswerUnexecuted, ToolResult, EmitResult,
         Quiet, hostVars, laneVars
<1>2. PICK e : /\ transcript' = Append(transcript, e) /\ e.kind # "input"
               /\ e.kind = "assistant" \/ pc \in Rests
  <2>1. \/ \E k \in 0..MaxCalls : transcript' = Append(transcript, Assistant(k))
        \/ transcript' = Append(transcript, Assistant(0))
        \/ transcript' = Append(transcript, Result(batch.answered + 1)) /\ pc \in Rests
    BY DEF Complete, EndEarly, Respond, RunFailure, AnswerUnexecuted, ToolResult, EmitResult, Rests
  <2>2. \A k : Assistant(k).kind = "assistant" /\ Result(k).kind = "result"
    BY DEF Assistant, Result
  <2> QED BY <2>1, <2>2
<1>3. ~Steered(e)
  BY <1>2 DEF Steered
<1>4. Answered' /\ Spaced'
  BY <1>1, <1>2, <1>3, AppendTurns DEF Turns
<1>5. Carries(held.msgs)' => Carries(held.msgs)
  BY <1>1 DEF Carries, Steers
<1> QED BY <1>1, <1>4, <1>5 DEF Turns

\* The other steps of the loop.
LEMMA LoopTurns ==
  ASSUME Typed, Turns,
         \/ Top \/ Request \/ StreamFails \/ TurnEnd \/ AgentEnd \/ FinishTake
         \/ AnsweredAll \/ StartTool \/ BatchDone \/ (\E i \in 1..MaxCalls : EndTool(i))
  PROVE  Turns'
<1>1. UNCHANGED <<transcript, lane, held, skip>> /\ (todo' = todo \/ todo' = <<>>)
  BY DEF Top, Request, StreamFails, TurnEnd, AgentEnd, FinishTake, MoveTo, AnsweredAll, StartTool,
         BatchDone, EndTool, Quiet, hostVars, laneVars
<1>2. \/ pc \in Rests /\ pc' \notin {"prompts", "poll"}
      \/ pc = "top" /\ pc' \in {"failed", "inject", "request"}
      \/ pc' \in {"stream", "failed"}
  BY DEF Top, Request, StreamFails, TurnEnd, AgentEnd, FinishTake, MoveTo, AnsweredAll, StartTool,
         BatchDone, EndTool, Rests
<1>3. Answered' = Answered /\ Spaced' = Spaced
  BY <1>1 DEF Answered, Spaced, Steered, Steers
<1>4. (Carries(todo)' => Carries(todo)) /\ (Carries(held.msgs)' => Carries(held.msgs))
  BY <1>1 DEF Carries, Steers
<1> QED BY <1>1, <1>2, <1>3, <1>4 DEF Turns, Rests

LEMMA NextTurns ==
  ASSUME Typed, Fed, Turns, SteeringMode = "one-at-a-time", [Next]_vars PROVE Turns'
<1>1. CASE \/ Abort \/ ReadGeneration \/ (\E d \in Diags : SteerActive(d))
           \/ (\E w \in Waiters : Wait(w)) \/ (\E r \in 1..MaxRuns : FinishSettle(r))
           \/ UNCHANGED vars
  <2>1. UNCHANGED <<transcript, pc, todo, skip, held, lane>>
    BY <1>1 DEF Abort, ReadGeneration, SteerActive, Wait, FinishSettle, vars, loopVars, laneVars, hostVars
  <2>2. \A x : Seen(x) /\ Steers(x)' => Steers(x)
    BY <2>1 DEF Steers
  <2> QED BY <2>1, <2>2, HostTurns
<1>2. CASE Loop
  BY <1>2, EmitTurns, PollTurns, RespondTurns, LoopTurns DEF Loop
<1>3. CASE Host
  BY <1>1, <1>3, EnqueueTurns, StartsTurns, HandOverTurns DEF Host
<1> QED BY <1>1, <1>2, <1>3 DEF Next

\* One at a time, the model answers between two steering messages.
THEOREM TurnsAreSpaced == Spec => []OneSteeringPerTurn
<1> DEFINE Inv == OnTheWay /\ (SteeringMode = "one-at-a-time" => Turns)
<1>1. Init => Inv
  BY InitTyped, InitLoaded, InitFed, InitTurns DEF OnTheWay
<1>2. Inv /\ [Next]_vars => Inv'
  BY NextOnTheWay, NextTurns DEF OnTheWay
<1>3. Inv => OneSteeringPerTurn
  BY SpacedTurns DEF Turns
<1> QED BY <1>1, <1>2, <1>3, PTL DEF Spec

-----------------------------------------------------------------------------
(* The order of delivery. *)

\* x stands before y in the list.
Precedes(x, y, s) == \E i, j \in DOMAIN s : i < j /\ s[i] = x /\ s[j] = y

LEMMA PrecedesShort ==
  ASSUME NEW x, NEW y, NEW m
  PROVE  ~Precedes(x, y, <<>>) /\ ~Precedes(x, y, <<m>>) /\ ~Within(x, <<>>) /\ (Within(x, <<m>>) <=> x = m)
BY DEF Precedes, Within

LEMMA PrecedesWithin ==
  ASSUME NEW x, NEW y, NEW s, Precedes(x, y, s) PROVE Within(x, s) /\ Within(y, s)
BY DEF Precedes, Within

LEMMA PrecedesAppend ==
  ASSUME NEW S, NEW s \in Seq(S), NEW e, NEW x, NEW y, Precedes(x, y, Append(s, e))
  PROVE  Precedes(x, y, s) \/ (Within(x, s) /\ y = e)
<1>1. /\ Len(s) \in Nat /\ DOMAIN s = 1..Len(s) /\ DOMAIN Append(s, e) = 1..(Len(s) + 1)
      /\ \A i \in 1..Len(s) : Append(s, e)[i] = s[i]
      /\ Append(s, e)[Len(s) + 1] = e
  BY ListAppend
<1>2. PICK i, j \in 1..(Len(s) + 1) : i < j /\ Append(s, e)[i] = x /\ Append(s, e)[j] = y
  BY <1>1 DEF Precedes
<1>3. i \in 1..Len(s) /\ s[i] = x
  BY <1>1, <1>2
<1>4. CASE j = Len(s) + 1
  BY <1>1, <1>2, <1>3, <1>4 DEF Within
<1>5. CASE j \in 1..Len(s)
  <2>1. s[j] = y
    BY <1>1, <1>2, <1>5
  <2> QED BY <1>1, <1>2, <1>3, <1>5, <2>1 DEF Precedes
<1> QED BY <1>1, <1>4, <1>5

LEMMA PrecedesTail ==
  ASSUME NEW S, NEW s \in Seq(S), s # <<>>, NEW x, NEW y
  PROVE  /\ Precedes(x, y, Tail(s)) => Precedes(x, y, s)
         /\ Within(y, Tail(s)) => Precedes(Head(s), y, s)
<1>1. /\ Len(s) \in Nat \ {0} /\ DOMAIN s = 1..Len(s) /\ Head(s) = s[1]
      /\ DOMAIN Tail(s) = 1..(Len(s) - 1)
      /\ \A i \in 1..(Len(s) - 1) : Tail(s)[i] = s[i + 1]
  BY ListTail
<1>2. ASSUME NEW i \in 1..(Len(s) - 1), NEW j \in 1..(Len(s) - 1), i < j,
             Tail(s)[i] = x, Tail(s)[j] = y
      PROVE  Precedes(x, y, s)
  <2>1. i + 1 \in DOMAIN s /\ j + 1 \in DOMAIN s /\ i + 1 < j + 1 /\ s[i + 1] = x /\ s[j + 1] = y
    BY <1>1, <1>2
  <2> QED BY <2>1 DEF Precedes
<1>3. ASSUME NEW j \in 1..(Len(s) - 1), Tail(s)[j] = y PROVE Precedes(Head(s), y, s)
  <2>1. 1 \in DOMAIN s /\ j + 1 \in DOMAIN s /\ 1 < j + 1 /\ s[j + 1] = y
    BY <1>1, <1>3
  <2> QED BY <1>1, <2>1 DEF Precedes
<1>4. Precedes(x, y, Tail(s)) => Precedes(x, y, s)
  BY <1>1, <1>2 DEF Precedes
<1>5. Within(y, Tail(s)) => Precedes(Head(s), y, s)
  BY <1>1, <1>3 DEF Within
<1> QED BY <1>4, <1>5

LEMMA PrecedesConcat ==
  ASSUME NEW S, NEW s \in Seq(S), NEW t \in Seq(S), NEW x, NEW y, Precedes(x, y, s \o t)
  PROVE  Precedes(x, y, s) \/ Precedes(x, y, t) \/ (Within(x, s) /\ Within(y, t))
<1>1. /\ Len(s) \in Nat /\ DOMAIN s = 1..Len(s) /\ Len(t) \in Nat /\ DOMAIN t = 1..Len(t)
      /\ DOMAIN (s \o t) = 1..(Len(s) + Len(t))
      /\ \A i \in 1..(Len(s) + Len(t)) :
           (s \o t)[i] = IF i <= Len(s) THEN s[i] ELSE t[i - Len(s)]
  BY ListConcat
<1>2. PICK i, j \in 1..(Len(s) + Len(t)) : i < j /\ (s \o t)[i] = x /\ (s \o t)[j] = y
  BY <1>1 DEF Precedes
<1>3. CASE j <= Len(s)
  <2>1. i \in DOMAIN s /\ j \in DOMAIN s /\ s[i] = x /\ s[j] = y
    BY <1>1, <1>2, <1>3
  <2> QED BY <1>2, <2>1 DEF Precedes
<1>4. CASE ~(j <= Len(s))
  <2>1. j - Len(s) \in DOMAIN t /\ t[j - Len(s)] = y
    BY <1>1, <1>2, <1>4
  <2>2. CASE i <= Len(s)
    <3>1. i \in DOMAIN s /\ s[i] = x
      BY <1>1, <1>2, <2>2
    <3> QED BY <2>1, <3>1 DEF Within
  <2>3. CASE ~(i <= Len(s))
    <3>1. i - Len(s) \in DOMAIN t /\ t[i - Len(s)] = x /\ i - Len(s) < j - Len(s)
      BY <1>1, <1>2, <2>3
    <3> QED BY <2>1, <3>1 DEF Precedes
  <2> QED BY <2>2, <2>3
<1> QED BY <1>3, <1>4

\* A drain keeps the order of the queue.
LEMMA PrecedesDrain ==
  ASSUME NEW q \in Seq(Messages), NEW mode, NEW x, NEW y
  PROVE  /\ Precedes(x, y, Drained(q, mode)) => Precedes(x, y, q)
         /\ Precedes(x, y, Remaining(q, mode)) => Precedes(x, y, q)
         /\ Within(x, Drained(q, mode)) /\ Within(y, Remaining(q, mode)) => Precedes(x, y, q)
<1> DEFINE d == Drained(q, mode)
           r == Remaining(q, mode)
<1>1. PICK n \in 0..Len(q) :
        /\ DOMAIN d = 1..n /\ DOMAIN r = 1..(Len(q) - n)
        /\ \A i \in 1..n : d[i] = q[i]
        /\ \A i \in 1..(Len(q) - n) : r[i] = q[i + n]
        /\ mode # "all" => n <= 1
  BY DrainSplits, Zenon
<1>2. Len(q) \in Nat /\ DOMAIN q = 1..Len(q)
  BY DrainSplits
<1> HIDE DEF d, r
<1>3. /\ \A i \in 1..n : i \in DOMAIN q
      /\ \A i \in 1..(Len(q) - n) : i + n \in DOMAIN q
      /\ \A i \in 1..n : \A j \in 1..(Len(q) - n) : i < j + n
      /\ \A i \in 1..(Len(q) - n) : \A j \in 1..(Len(q) - n) : i < j => i + n < j + n
  BY <1>2
<1>4. Precedes(x, y, d) => Precedes(x, y, q)
  BY <1>1, <1>3 DEF Precedes
<1>5. Precedes(x, y, r) => Precedes(x, y, q)
  <2>1. ASSUME NEW i \in 1..(Len(q) - n), NEW j \in 1..(Len(q) - n), i < j, r[i] = x, r[j] = y
        PROVE  Precedes(x, y, q)
    <3>1. i + n \in DOMAIN q /\ j + n \in DOMAIN q /\ i + n < j + n /\ q[i + n] = x /\ q[j + n] = y
      BY <1>1, <1>3, <2>1
    <3> QED BY <3>1 DEF Precedes
  <2> QED BY <1>1, <2>1 DEF Precedes
<1>6. Within(x, d) /\ Within(y, r) => Precedes(x, y, q)
  <2>1. ASSUME NEW i \in 1..n, NEW j \in 1..(Len(q) - n), d[i] = x, r[j] = y
        PROVE  Precedes(x, y, q)
    <3>1. i \in DOMAIN q /\ j + n \in DOMAIN q /\ i < j + n /\ q[i] = x /\ q[j + n] = y
      BY <1>1, <1>3, <2>1
    <3> QED BY <3>1 DEF Precedes
  <2> QED BY <1>1, <2>1 DEF Within
<1> QED BY <1>4, <1>5, <1>6 DEF d, r

LEMMA PrecedesWithout ==
  ASSUME NEW S, NEW s \in Seq(S), NEW i \in DOMAIN s, NEW x, NEW y
  PROVE  /\ Precedes(x, y, Without(s, i)) => Precedes(x, y, s)
         /\ Within(s[i], Without(s, i)) => Precedes(s[i], s[i], s)
<1>1. /\ Len(s) \in Nat \ {0} /\ DOMAIN s = 1..Len(s)
      /\ DOMAIN Without(s, i) = 1..(Len(s) - 1)
      /\ \A k \in 1..(Len(s) - 1) : Without(s, i)[k] = IF k < i THEN s[k] ELSE s[k + 1]
  BY ListWithout
<1> DEFINE Old(k) == IF k < i THEN k ELSE k + 1
<1>2. \A k \in 1..(Len(s) - 1) : Old(k) \in DOMAIN s /\ Without(s, i)[k] = s[Old(k)] /\ Old(k) # i
  BY <1>1
<1>3. \A k \in 1..(Len(s) - 1) : \A l \in 1..(Len(s) - 1) : k < l => Old(k) < Old(l)
  BY <1>1
<1>4. \A k \in 1..(Len(s) - 1) : Old(k) < i \/ i < Old(k)
  BY <1>1
<1> HIDE DEF Old
<1>5. Precedes(x, y, Without(s, i)) => Precedes(x, y, s)
  BY <1>1, <1>2, <1>3 DEF Precedes
<1>6. Within(s[i], Without(s, i)) => Precedes(s[i], s[i], s)
  BY <1>1, <1>2, <1>4 DEF Precedes, Within
<1> QED BY <1>5, <1>6

\* x and y are two inputs, and if they were queued in one lane, x was first or y
\* has been overtaken.
Follows(x, y) ==
  /\ x # y
  /\ \A a, b \in DOMAIN order :
       x = order[a] /\ y = order[b] /\ lane[x] = lane[y] => a < b \/ y \in overtaken

LoggedBefore(x, y) == \E i, j \in DOMAIN log : i < j /\ log[i].msg = x /\ log[j].msg = y

\* x is ahead of y on the way to the model: from the queues and the diagnostics of
\* the run over a continue_() and the list of the loop to the log.
Leads(x, y) ==
  \/ LoggedBefore(x, y) \/ Precedes(x, y, todo) \/ Precedes(x, y, held.msgs)
  \/ Precedes(x, y, queue.steering) \/ Precedes(x, y, queue.followUp) \/ Precedes(x, y, run.diags)
  \/ /\ Logged(x)
     /\ \/ Within(y, todo) \/ Within(y, held.msgs) \/ Within(y, run.diags)
        \/ Within(y, queue.steering) \/ Within(y, queue.followUp)
  \/ /\ Within(x, todo)
     /\ \/ Within(y, held.msgs) \/ Within(y, run.diags)
        \/ Within(y, queue.steering) \/ Within(y, queue.followUp)
  \/ Within(x, held.msgs) /\ (Within(y, queue.steering) \/ Within(y, queue.followUp))
  \/ Within(x, queue.steering) /\ Within(y, queue.followUp)
  \/ Within(x, queue.followUp) /\ Within(y, queue.steering)

\* Nobody is ahead of a message of the same lane that came before, each queue has
\* the messages of its lane, and what a continue_() holds while a run is active has
\* been overtaken.
InLine ==
  /\ \A x, y : Leads(x, y) => Follows(x, y)
  /\ \A m \in Messages : /\ Within(m, queue.steering) => lane[m] = "steering"
                         /\ Within(m, queue.followUp) => lane[m] = "followUp"
  /\ active # 0 => \A x : Within(x, held.msgs) => x \in overtaken

\* A run that a diagnostic was sent to has seen it, and there is no later run.
Fresh ==
  /\ target <= run.id
  /\ \A d \in Diags : sent[d] <= run.id /\ (sent[d] = run.id /\ run.id # 0 => d \in run.seen)

LEMMA InitInLine == Init => InLine /\ Fresh
<1> SUFFICES ASSUME Init PROVE InLine /\ Fresh
  OBVIOUS
<1>1. \A x, y : ~Leads(x, y)
  BY DEF Init, Leads, LoggedBefore, Logged, Precedes, Within, NoHeld, NewRun
<1>2. Fresh
  BY DEF Init, Fresh, NewRun
<1> QED BY <1>1, <1>2 DEF InLine, Init, Within

\* The members of the lists.
LEMMA Members ==
  ASSUME Typed, NEW x
  PROVE  /\ Within(x, held.msgs) \/ Within(x, queue.steering) \/ Within(x, queue.followUp) => x \in Messages
         /\ Within(x, order) => x \in Messages
         /\ Within(x, run.diags) => x \in Diags
<1>1. ASSUME NEW S, NEW s \in Seq(S), Within(x, s) PROVE x \in S
  BY <1>1, LenProperties, ElementOfSeq DEF Within
<1>2. /\ held.msgs \in Seq(Messages) /\ queue.steering \in Seq(Messages) /\ queue.followUp \in Seq(Messages)
      /\ order \in Seq(Messages) /\ run.diags \in Seq(Diags)
  BY ListTypes
<1> QED BY <1>1, <1>2

\* What was never queued is in nobody's way.
LEMMA FollowsOutside ==
  ASSUME NEW x, NEW y, x # y, ~Within(x, order) \/ ~Within(y, order) PROVE Follows(x, y)
BY DEF Follows, Within

\* Neither is a diagnostic in the way of a message, nor a message in its way.
LEMMA FollowsMixed ==
  ASSUME Typed, NEW x, NEW y, (x \in Diags /\ y \in Messages) \/ (x \in Messages /\ y \in Diags)
  PROVE  Follows(x, y)
<1>1. x # y /\ ~(x \in Messages /\ y \in Messages)
  BY AgentAssumption
<1>2. ~Within(x, order) \/ ~Within(y, order)
  BY <1>1, Members
<1> QED BY <1>1, <1>2, FollowsOutside

\* An overtaken message may be behind any other.
LEMMA FollowsOvertaken ==
  ASSUME NEW x, NEW y, x # y, y \in overtaken PROVE Follows(x, y)
BY DEF Follows

\* The relation between two messages lasts while their lanes do.
LEMMA FollowsLasts ==
  ASSUME order' = order, overtaken \subseteq overtaken', NEW x, NEW y,
         lane'[x] = lane[x], lane'[y] = lane[y], Follows(x, y)
  PROVE  Follows(x, y)'
BY DEF Follows

\* A step that keeps the lanes, and brings nobody ahead of another, keeps the line.
LEMMA InLineKept ==
  ASSUME InLine, UNCHANGED <<order, lane>>, overtaken \subseteq overtaken',
         \A x, y : Leads(x, y)' => Leads(x, y) \/ Follows(x, y),
         \A x : /\ Within(x, queue'.steering) => Within(x, queue.steering)
                /\ Within(x, queue'.followUp) => Within(x, queue.followUp),
         active' # 0 => \A x : Within(x, held'.msgs) => x \in overtaken'
  PROVE  InLine'
<1>1. ASSUME NEW x, NEW y, Leads(x, y)' PROVE Follows(x, y)'
  <2>1. Follows(x, y)
    BY <1>1 DEF InLine
  <2> QED BY <2>1, FollowsLasts
<1>2. \A m \in Messages : /\ Within(m, queue'.steering) => lane'[m] = "steering"
                         /\ Within(m, queue'.followUp) => lane'[m] = "followUp"
  BY DEF InLine
<1> QED BY <1>1, <1>2 DEF InLine

\* Steps that move nothing.
LEMMA StillInLine ==
  ASSUME InLine, StillStep, active' = active, run'.diags = run.diags PROVE InLine'
<1>1. UNCHANGED <<lane, order, queue, todo, held, overtaken, log>>
  BY DEF StillStep
<1>2. \A x, y : Leads(x, y)' => Leads(x, y)
  BY <1>1 DEF Leads, LoggedBefore, Logged
<1> QED BY <1>1, <1>2, InLineKept DEF InLine

\* A diagnostic is accepted once.
LEMMA SteerActiveInLine ==
  ASSUME Typed, Addressed, Fresh, InLine, NEW d \in Diags, SteerActive(d) PROVE InLine'
<1>1. /\ UNCHANGED <<lane, order, queue, todo, held, overtaken, log, active>>
      /\ active # 0 /\ target = run.id /\ d \notin run.seen /\ (sent[d] = 0 \/ sent[d] = target)
      /\ run'.diags = Append(run.diags, d)
      /\ active = run.id
  BY DEF SteerActive, Admits, loopVars, laneVars, Typed, TypeOK, Control
<1>2. sent[d] = 0 /\ run.id # 0
  BY <1>1 DEF Fresh
<1>3. ~Within(d, run.diags) /\ ~Within(d, todo)
  BY <1>2 DEF Addressed, Within
<1>4. ~Logged(d)
  <2>1. \A i \in DOMAIN log : log[i].run \in 1..MaxRuns
    <3>1. log \in Seq([msg : Inputs, run : 1..MaxRuns])
      BY ListTypes
    <3>2. \A i \in DOMAIN log : log[i] \in [msg : Inputs, run : 1..MaxRuns]
      BY <3>1, LenProperties, ElementOfSeq
    <3> QED BY <3>2
  <2>2. \A i \in DOMAIN log : log[i].run # 0
    BY <2>1, Bounds
  <2>3. \A i \in DOMAIN log : log[i].msg = d => log[i].run = sent[d]
    BY DEF Addressed, DiagnosticsStayInRun
  <2> QED BY <1>2, <2>2, <2>3 DEF Logged
<1>5. ~Within(d, order)
  BY Members, AgentAssumption
<1>6. run.diags \in Seq(Diags)
  BY ListTypes
<1>7. ASSUME NEW x, NEW y, Leads(x, y)' PROVE Leads(x, y) \/ Follows(x, y)
  <2>1. /\ Precedes(x, y, run'.diags) => Precedes(x, y, run.diags) \/ (Within(x, run.diags) /\ y = d)
        /\ Within(y, run'.diags) => Within(y, run.diags) \/ y = d
    BY <1>1, <1>6, PrecedesAppend, WithinAppend
  <2>2. Leads(x, y) \/ (y = d /\ (Within(x, run.diags) \/ Within(x, todo) \/ Logged(x)))
    BY <1>1, <1>7, <2>1 DEF Leads, LoggedBefore, Logged
  <2>3. CASE y = d /\ (Within(x, run.diags) \/ Within(x, todo) \/ Logged(x))
    <3>1. x # y /\ ~Within(y, order)
      BY <1>3, <1>4, <1>5, <2>3
    <3> QED BY <3>1, FollowsOutside
  <2> QED BY <2>2, <2>3
<1> QED BY <1>1, <1>7, InLineKept DEF InLine

\* The loop takes messages over, or drops them.
LEMMA HandOverInLine ==
  ASSUME Typed, Loaded, InLine, ContinueRun \/ ContinueBusy \/ FinishTake PROVE InLine'
<1>1. UNCHANGED <<log, queue, order, lane, overtaken>>
  BY HandOver
<1>2. \/ /\ todo = <<>> /\ todo' = held.msgs /\ held'.msgs = <<>> /\ run'.diags = <<>>
      \/ todo' = todo /\ held'.msgs = <<>> /\ run'.diags = run.diags
      \/ todo' = <<>> /\ held' = held /\ run'.diags = <<>> /\ active' = 0
  <2>1. CASE ContinueRun
    BY <2>1, HandOver DEF ContinueRun, Begin, NewRun, NoHeld, Typed, Control, Loaded
  <2>2. CASE ContinueBusy
    BY <2>2, HandOver DEF NoHeld
  <2>3. CASE FinishTake
    BY <2>3, HandOver DEF FinishTake, Typed, TypeOK
  <2> QED BY <2>1, <2>2, <2>3
<1>3. \A x, y : ~Precedes(x, y, <<>>) /\ ~Within(x, <<>>)
  BY PrecedesShort
<1>4. ASSUME NEW x, NEW y, Leads(x, y)' PROVE Leads(x, y)
  <2>1. (Logged(x)' <=> Logged(x)) /\ (LoggedBefore(x, y)' <=> LoggedBefore(x, y))
    BY <1>1 DEF Logged, LoggedBefore
  <2> QED BY <1>1, <1>2, <1>3, <1>4, <2>1 DEF Leads
<1>5. active' # 0 => \A x : Within(x, held'.msgs) => x \in overtaken'
  BY <1>2, <1>3
<1> QED BY <1>1, <1>4, <1>5, InLineKept

\* What a continue_() drains stays ahead of the queues.
LEMMA ContinueInLine ==
  ASSUME Typed, Loaded, InLine, Continue PROVE InLine'
<1>1. /\ UNCHANGED <<lane, order, todo, overtaken, log, active, run>>
      /\ active = 0 /\ held.msgs = <<>>
  BY ContinuePlaces DEF Loaded
<1>2. \A x, y : ~Precedes(x, y, <<>>) /\ ~Within(x, <<>>)
  BY PrecedesShort
<1>3. queue.steering \in Seq(Messages) /\ queue.followUp \in Seq(Messages)
  BY ListTypes
<1>4. ASSUME NEW x, NEW y, Leads(x, y)' PROVE Leads(x, y)
  <2>1. (Logged(x)' <=> Logged(x)) /\ (LoggedBefore(x, y)' <=> LoggedBefore(x, y))
    BY <1>1 DEF Logged, LoggedBefore
  <2>2. CASE queue' = queue /\ held'.msgs = <<>>
    BY <1>1, <1>2, <1>4, <2>1, <2>2 DEF Leads
  <2>3. CASE /\ queue'.followUp = queue.followUp
             /\ held'.msgs = Drained(queue.steering, SteeringMode)
             /\ queue'.steering = Remaining(queue.steering, SteeringMode)
    <3>1. /\ Precedes(x, y, held'.msgs) => Precedes(x, y, queue.steering)
          /\ Precedes(x, y, queue'.steering) => Precedes(x, y, queue.steering)
          /\ Within(x, held'.msgs) /\ Within(y, queue'.steering) => Precedes(x, y, queue.steering)
      BY <1>3, <2>3, PrecedesDrain
    <3>2. \A z : Within(z, queue.steering) <=> Within(z, held'.msgs) \/ Within(z, queue'.steering)
      BY <1>3, <2>3, DrainMembers
    <3> QED BY <1>1, <1>4, <2>1, <2>3, <3>1, <3>2 DEF Leads
  <2>4. CASE /\ queue'.steering = queue.steering
             /\ held'.msgs = Drained(queue.followUp, FollowUpMode)
             /\ queue'.followUp = Remaining(queue.followUp, FollowUpMode)
    <3>1. /\ Precedes(x, y, held'.msgs) => Precedes(x, y, queue.followUp)
          /\ Precedes(x, y, queue'.followUp) => Precedes(x, y, queue.followUp)
          /\ Within(x, held'.msgs) /\ Within(y, queue'.followUp) => Precedes(x, y, queue.followUp)
      BY <1>3, <2>4, PrecedesDrain
    <3>2. \A z : Within(z, queue.followUp) <=> Within(z, held'.msgs) \/ Within(z, queue'.followUp)
      BY <1>3, <2>4, DrainMembers
    <3> QED BY <1>1, <1>4, <2>1, <2>4, <3>1, <3>2 DEF Leads
  <2> QED BY <2>2, <2>3, <2>4, ContinuePlaces
<1>5. \A x : /\ Within(x, queue'.steering) => Within(x, queue.steering)
             /\ Within(x, queue'.followUp) => Within(x, queue.followUp)
  BY ContinuePlaces
<1> QED BY <1>1, <1>4, <1>5, InLineKept

\* The head of the loop's list goes to the end of the log.
LEMMA EmitInLine ==
  ASSUME Typed, InLine, EmitPrompt \/ Inject PROVE InLine'
<1> DEFINE h == Head(todo)
<1>1. /\ todo # <<>> /\ todo' = Tail(todo) /\ todo \in Seq(Inputs)
      /\ log' = Append(log, [msg |-> h, run |-> run.id])
      /\ UNCHANGED <<queue, lane, order, held, overtaken, run, active>>
      /\ \A x : /\ Within(x, todo) <=> x = h \/ Within(x, todo')
                /\ Logged(x)' <=> Logged(x) \/ x = h
  BY EmitPlaces, ListTypes
<1>2. \A x, y : /\ Precedes(x, y, todo') => Precedes(x, y, todo)
                /\ Within(y, todo') => Precedes(h, y, todo)
  BY <1>1, PrecedesTail
<1>3. ASSUME NEW x, NEW y, LoggedBefore(x, y)' PROVE LoggedBefore(x, y) \/ (Logged(x) /\ y = h)
  <2> DEFINE e == [msg |-> h, run |-> run.id]
  <2>1. /\ Len(log) \in Nat /\ DOMAIN log = 1..Len(log) /\ DOMAIN log' = 1..(Len(log) + 1)
        /\ \A i \in 1..Len(log) : log'[i] = log[i]
        /\ log'[Len(log) + 1] = e
    BY <1>1, ListTypes, ListAppend
  <2>2. e.msg = h
    OBVIOUS
  <2> HIDE DEF e, h
  <2>3. PICK i, j \in 1..(Len(log) + 1) : i < j /\ log'[i].msg = x /\ log'[j].msg = y
    BY <1>3, <2>1 DEF LoggedBefore
  <2>4. i \in 1..Len(log) /\ log[i].msg = x
    BY <2>1, <2>3
  <2>5. CASE j = Len(log) + 1
    BY <2>1, <2>2, <2>3, <2>4, <2>5 DEF Logged
  <2>6. CASE j \in 1..Len(log)
    BY <2>1, <2>3, <2>4, <2>6 DEF LoggedBefore
  <2> QED BY <2>1, <2>5, <2>6
<1> HIDE DEF h
<1>4. ASSUME NEW x, NEW y, Leads(x, y)' PROVE Leads(x, y)
  BY <1>1, <1>2, <1>3, <1>4 DEF Leads
<1> QED BY <1>1, <1>4, InLineKept DEF InLine

\* A steering poll: what it takes from the queue was behind what a continue_()
\* holds, which has been overtaken while the run is active.
LEMMA PollInLine ==
  ASSUME Typed, Loaded, InLine, InitialPoll \/ PollSteering PROVE InLine'
<1>1. /\ UNCHANGED <<lane, order, held, overtaken, log, active>>
      /\ queue'.followUp = queue.followUp
  BY PollPlaces
<1>2. todo = <<>> /\ active # 0
  BY DEF InitialPoll, PollSteering, Loaded, Typed, Control
<1>3. \A x, y : ~Precedes(x, y, <<>>) /\ ~Within(x, <<>>)
  BY PrecedesShort
<1>4. \A x, y : (Logged(x)' <=> Logged(x)) /\ (LoggedBefore(x, y)' <=> LoggedBefore(x, y))
  BY <1>1 DEF Logged, LoggedBefore
<1>5. CASE todo' = <<>> /\ queue' = queue /\ run' = run
  <2>1. \A x, y : Leads(x, y)' => Leads(x, y)
    BY <1>1, <1>3, <1>4, <1>5 DEF Leads
  <2> QED BY <1>1, <1>5, <2>1, InLineKept DEF InLine
<1>6. CASE /\ todo' = Steering
           /\ queue'.steering = Remaining(queue.steering, SteeringMode)
           /\ run' = [run EXCEPT !.diags = <<>>]
  <2> DEFINE t == Drained(queue.steering, SteeringMode)
  <2>1. /\ queue.steering \in Seq(Messages) /\ run'.diags = <<>> /\ run.diags \in Seq(Inputs)
    BY <1>6, ListTypes, SeqMonotonic DEF Typed, TypeOK, Inputs
  <2>2. t \in Seq(Inputs) /\ todo' = t \o run.diags
    BY <1>6, <2>1, DrainTypes, MessagesAreInputs DEF Steering
  <2>3. \A x, y : /\ Precedes(x, y, t) => Precedes(x, y, queue.steering)
                  /\ Precedes(x, y, queue'.steering) => Precedes(x, y, queue.steering)
                  /\ Within(x, t) /\ Within(y, queue'.steering) => Precedes(x, y, queue.steering)
    BY <1>6, <2>1, PrecedesDrain
  <2>4. \A x : Within(x, queue.steering) <=> Within(x, t) \/ Within(x, queue'.steering)
    BY <1>6, <2>1, DrainMembers
  <2> HIDE DEF t
  <2>5. ASSUME NEW x, NEW y, Leads(x, y)' PROVE Leads(x, y) \/ Follows(x, y)
    <3>1. /\ Precedes(x, y, todo') => \/ Precedes(x, y, t) \/ Precedes(x, y, run.diags)
                                      \/ Within(x, t) /\ Within(y, run.diags)
          /\ Within(x, todo') => Within(x, t) \/ Within(x, run.diags)
          /\ Within(y, todo') => Within(y, t) \/ Within(y, run.diags)
      BY <2>1, <2>2, PrecedesConcat, WithinConcat
    <3>2. \/ Leads(x, y)
          \/ Within(x, queue.steering) /\ Within(y, run.diags)
          \/ Within(x, run.diags) /\ (Within(y, held.msgs) \/ Within(y, queue.steering) \/ Within(y, queue.followUp))
          \/ Within(x, queue.steering) /\ Within(y, held.msgs)
      BY <1>1, <1>3, <1>4, <2>1, <2>3, <2>4, <2>5, <3>1 DEF Leads
    <3>3. CASE Within(x, queue.steering) /\ Within(y, run.diags)
      BY <3>3, Members, FollowsMixed
    <3>4. CASE Within(x, run.diags) /\ (Within(y, held.msgs) \/ Within(y, queue.steering) \/ Within(y, queue.followUp))
      BY <3>4, Members, FollowsMixed
    <3>5. CASE Within(x, queue.steering) /\ Within(y, held.msgs)
      <4>1. Leads(y, x)
        BY <3>5 DEF Leads
      <4>2. y # x /\ y \in overtaken
        BY <1>2, <3>5, <4>1 DEF InLine, Follows
      <4> QED BY <4>2, FollowsOvertaken
    <3> QED BY <3>2, <3>3, <3>4, <3>5
  <2> QED BY <1>1, <2>4, <2>5, InLineKept DEF InLine
<1> QED BY <1>5, <1>6, PollPlaces

\* The follow-up poll, in the same way.
LEMMA PollFollowUpInLine ==
  ASSUME Typed, Loaded, InLine, PollFollowUp PROVE InLine'
<1>1. /\ UNCHANGED <<lane, order, held, overtaken, log, active, run>>
      /\ queue'.steering = queue.steering
  BY FollowUpPlaces
<1>2. todo = <<>> /\ active # 0
  BY DEF PollFollowUp, Loaded, Typed, Control
<1>3. \A x, y : ~Precedes(x, y, <<>>) /\ ~Within(x, <<>>)
  BY PrecedesShort
<1>4. \A x, y : (Logged(x)' <=> Logged(x)) /\ (LoggedBefore(x, y)' <=> LoggedBefore(x, y))
  BY <1>1 DEF Logged, LoggedBefore
<1>5. CASE todo' = todo /\ queue' = queue
  <2>1. \A x, y : Leads(x, y)' => Leads(x, y)
    BY <1>1, <1>4, <1>5 DEF Leads
  <2> QED BY <1>1, <1>5, <2>1, InLineKept DEF InLine
<1>6. CASE /\ todo' = Drained(queue.followUp, FollowUpMode)
           /\ queue'.followUp = Remaining(queue.followUp, FollowUpMode)
           /\ \A x : Within(x, queue'.followUp) \/ Within(x, todo') <=> Within(x, queue.followUp)
  <2>1. queue.followUp \in Seq(Messages)
    BY ListTypes
  <2>3. \A x, y : /\ Precedes(x, y, todo') => Precedes(x, y, queue.followUp)
                  /\ Precedes(x, y, queue'.followUp) => Precedes(x, y, queue.followUp)
                  /\ Within(x, todo') /\ Within(y, queue'.followUp) => Precedes(x, y, queue.followUp)
    BY <1>6, <2>1, PrecedesDrain
  <2>4. \A x : Within(x, queue.followUp) <=> Within(x, todo') \/ Within(x, queue'.followUp)
    BY <1>6
  <2>5. ASSUME NEW x, NEW y, Leads(x, y)' PROVE Leads(x, y) \/ Follows(x, y)
    <3>2. \/ Leads(x, y)
          \/ Within(x, queue.followUp) /\ Within(y, run.diags)
          \/ Within(x, queue.followUp) /\ Within(y, held.msgs)
      BY <1>1, <1>3, <1>4, <2>3, <2>4, <2>5 DEF Leads
    <3>3. CASE Within(x, queue.followUp) /\ Within(y, run.diags)
      BY <3>3, Members, FollowsMixed
    <3>5. CASE Within(x, queue.followUp) /\ Within(y, held.msgs)
      <4>1. Leads(y, x)
        BY <3>5 DEF Leads
      <4>2. y # x /\ y \in overtaken
        BY <1>2, <3>5, <4>1 DEF InLine, Follows
      <4> QED BY <4>2, FollowsOvertaken
    <3> QED BY <3>2, <3>3, <3>5
  <2> QED BY <1>1, <2>4, <2>5, InLineKept DEF InLine
<1> QED BY <1>5, <1>6, FollowUpPlaces

\* A message that a step brings in or takes out is the only one concerned.
LEMMA InLineBut ==
  ASSUME Typed, InLine, NEW m \in Messages, lane' \in [Messages -> Lanes],
         \A x \in Messages : x # m => lane'[x] = lane[x],
         order' = order, overtaken \subseteq overtaken',
         \A x, y : Leads(x, y)' /\ x # m /\ y # m => Leads(x, y),
         \A x, y : Leads(x, y)' /\ (x = m \/ y = m) => x # y /\ ~Within(m, order),
         \A x : x # m => /\ Within(x, queue'.steering) => Within(x, queue.steering)
                         /\ Within(x, queue'.followUp) => Within(x, queue.followUp),
         ~Within(m, queue'.steering) /\ ~Within(m, queue'.followUp),
         active' # 0 => \A x : Within(x, held'.msgs) => x \in overtaken'
  PROVE  InLine'
<1>1. ASSUME NEW x, NEW y, Leads(x, y)' PROVE Follows(x, y)'
  <2>1. CASE x # m /\ y # m
    <3>1. Follows(x, y)
      BY <1>1, <2>1 DEF InLine
    <3>2. \A a \in DOMAIN order : order[a] \in Messages
      BY ListTypes, LenProperties, ElementOfSeq
    <3>3. \A a, b \in DOMAIN order : x = order[a] /\ y = order[b] => lane'[x] = lane[x] /\ lane'[y] = lane[y]
      BY <2>1, <3>2
    <3> QED BY <3>1, <3>3 DEF Follows
  <2>2. CASE x = m \/ y = m
    BY <1>1, <2>2 DEF Follows, Within
  <2> QED BY <2>1, <2>2
<1>2. ASSUME NEW x \in Messages
      PROVE  /\ Within(x, queue'.steering) => lane'[x] = "steering"
             /\ Within(x, queue'.followUp) => lane'[x] = "followUp"
  BY DEF InLine
<1> QED BY <1>1, <1>2 DEF InLine

LEMMA EnterInLine ==
  ASSUME Typed, Loaded, Fed, InLine, NEW m \in Messages, Enter(m), todo = <<>>,
         overtaken \subseteq overtaken', run'.diags = <<>> \/ run'.diags = run.diags,
         active' # 0 => \A x : Within(x, held.msgs) => x \in overtaken'
  PROVE  InLine'
<1>1. /\ lane \in [Messages -> Lanes] /\ lane' \in [Messages -> Lanes]
      /\ \A x \in Messages : x # m => lane'[x] = lane[x]
      /\ todo' = <<m>> /\ UNCHANGED <<log, queue, order, held>>
      /\ ~Seen(m)
  BY ListTypes DEF Enter, Lanes, Fed
<1>2. /\ ~Within(m, held.msgs) /\ ~Within(m, queue.steering) /\ ~Within(m, queue.followUp)
      /\ ~Within(m, order) /\ ~Logged(m) /\ ~Within(m, run.diags)
  BY <1>1, Members, AgentAssumption DEF Seen
<1>3. \A x, y : ~Precedes(x, y, <<>>) /\ ~Precedes(x, y, <<m>>) /\ ~Within(x, <<>>) /\ (Within(x, <<m>>) <=> x = m)
  BY PrecedesShort
<1>4. \A x, y : (Logged(x)' <=> Logged(x)) /\ (LoggedBefore(x, y)' <=> LoggedBefore(x, y))
  BY <1>1 DEF Logged, LoggedBefore
<1>5. ASSUME NEW x, NEW y, Leads(x, y)', x # m, y # m PROVE Leads(x, y)
  BY <1>1, <1>3, <1>4, <1>5 DEF Leads
<1>6. ASSUME NEW x, NEW y, Leads(x, y)' PROVE ~(x = m /\ y = m)
  <2>1. ~LoggedBefore(m, m)
    BY <1>2 DEF LoggedBefore, Logged
  <2>2. \A s : Precedes(m, m, s) => Within(m, s)
    BY PrecedesWithin
  <2> QED BY <1>1, <1>2, <1>3, <1>4, <1>6, <2>1, <2>2 DEF Leads
<1>7. ~Within(m, queue'.steering) /\ ~Within(m, queue'.followUp)
  BY <1>1, <1>2
<1>8. active' # 0 => \A x : Within(x, held'.msgs) => x \in overtaken'
  BY <1>1
<1>9. \A x, y : Leads(x, y)' /\ (x = m \/ y = m) => x # y /\ ~Within(m, order)
  BY <1>2, <1>6
<1> QED BY <1>1, <1>5, <1>7, <1>8, <1>9, InLineBut

\* A removed message was in its queue once, and nowhere else.
LEMMA RemoveInLine ==
  ASSUME Typed, Loaded, InLine, NEW m \in Messages, RemoveQueued(m) PROVE InLine'
<1>1. /\ UNCHANGED <<order, todo, held, overtaken, log, active, run>>
      /\ lane' \in [Messages -> Lanes] /\ lane' = [lane EXCEPT ![m] = "removed"]
      /\ \A x : /\ Within(x, queue'.steering) => Within(x, queue.steering)
                /\ Within(x, queue'.followUp) => Within(x, queue.followUp)
  BY RemovePlaces
<1>2. \A x \in Messages : x # m => lane'[x] = lane[x]
  BY <1>1, ListTypes
<1>3. queue.steering \in Seq(Messages) /\ queue.followUp \in Seq(Messages)
  BY ListTypes
<1>4. ~Leads(m, m)
  BY DEF InLine, Follows
<1>5. /\ Within(m, queue.steering) \/ Within(m, queue.followUp)
      /\ \A x, y : /\ Precedes(x, y, queue'.steering) => Precedes(x, y, queue.steering)
                   /\ Precedes(x, y, queue'.followUp) => Precedes(x, y, queue.followUp)
      /\ ~Within(m, queue'.steering) /\ ~Within(m, queue'.followUp)
  <2>1. CASE /\ queue'.followUp = queue.followUp
             /\ \E i \in DOMAIN queue.steering : /\ queue.steering[i] = m
                                                 /\ queue'.steering = Without(queue.steering, i)
    <3>1. PICK i \in DOMAIN queue.steering : queue.steering[i] = m /\ queue'.steering = Without(queue.steering, i)
      BY <2>1
    <3>2. /\ \A x, y : Precedes(x, y, queue'.steering) => Precedes(x, y, queue.steering)
          /\ Within(m, queue'.steering) => Precedes(m, m, queue.steering)
      <4>1. ASSUME NEW x, NEW y
            PROVE  /\ Precedes(x, y, Without(queue.steering, i)) => Precedes(x, y, queue.steering)
                   /\ Within(queue.steering[i], Without(queue.steering, i)) =>
                        Precedes(queue.steering[i], queue.steering[i], queue.steering)
        BY <1>3, PrecedesWithout
      <4> QED BY <3>1, <4>1
    <3>3. Within(m, queue.steering)
      BY <3>1 DEF Within
    <3> QED BY <1>4, <2>1, <3>2, <3>3 DEF Leads
  <2>2. CASE /\ queue'.steering = queue.steering
             /\ \E i \in DOMAIN queue.followUp : /\ queue.followUp[i] = m
                                                 /\ queue'.followUp = Without(queue.followUp, i)
    <3>1. PICK i \in DOMAIN queue.followUp : queue.followUp[i] = m /\ queue'.followUp = Without(queue.followUp, i)
      BY <2>2
    <3>2. /\ \A x, y : Precedes(x, y, queue'.followUp) => Precedes(x, y, queue.followUp)
          /\ Within(m, queue'.followUp) => Precedes(m, m, queue.followUp)
      <4>1. ASSUME NEW x, NEW y
            PROVE  /\ Precedes(x, y, Without(queue.followUp, i)) => Precedes(x, y, queue.followUp)
                   /\ Within(queue.followUp[i], Without(queue.followUp, i)) =>
                        Precedes(queue.followUp[i], queue.followUp[i], queue.followUp)
        BY <1>3, PrecedesWithout
      <4> QED BY <3>1, <4>1
    <3>3. Within(m, queue.followUp)
      BY <3>1 DEF Within
    <3> QED BY <1>4, <2>2, <3>2, <3>3 DEF Leads
  <2> QED BY <2>1, <2>2, RemovePlaces
<1>6. \A x, y : (Logged(x)' <=> Logged(x)) /\ (LoggedBefore(x, y)' <=> LoggedBefore(x, y))
  BY <1>1 DEF Logged, LoggedBefore
<1>7. \A x, y : Leads(x, y)' => Leads(x, y)
  BY <1>1, <1>5, <1>6 DEF Leads
<1>8. /\ ~Logged(m) /\ ~Within(m, todo) /\ ~Within(m, held.msgs) /\ ~Within(m, run.diags)
  <2>1. ~Logged(m) /\ ~Within(m, todo) /\ ~Within(m, held.msgs)
    BY <1>4, <1>5 DEF Leads
  <2> QED BY <2>1, Members, AgentAssumption
<1>9. ASSUME NEW x, NEW y, Leads(x, y)' PROVE x # m /\ y # m
  <2>1. \A s : Precedes(x, y, s) => Within(x, s) /\ Within(y, s)
    BY PrecedesWithin
  <2>2. LoggedBefore(x, y) => Logged(x) /\ Logged(y)
    BY DEF LoggedBefore, Logged
  <2> QED BY <1>1, <1>5, <1>6, <1>8, <1>9, <2>1, <2>2 DEF Leads
<1>10. active' # 0 => \A x : Within(x, held'.msgs) => x \in overtaken'
  BY <1>1 DEF InLine
<1> QED BY <1>1, <1>2, <1>5, <1>7, <1>9, <1>10, InLineBut

\* A queued message is the last of its lane.
LEMMA EnqueueInLine ==
  ASSUME Typed, Fed, InLine, NEW m \in Messages, Steer(m) \/ FollowUp(m) PROVE InLine'
<1>1. /\ lane \in [Messages -> Lanes] /\ lane[m] = "out" /\ ~Seen(m)
      /\ \A x \in Messages : x # m => lane'[x] = lane[x]
      /\ order' = Append(order, m) /\ order \in Seq(Messages)
      /\ UNCHANGED <<todo, held, log, overtaken, run, active>>
  BY ListTypes DEF Steer, FollowUp, Enqueue, loopVars, hostVars, runVars, Fed
<1>2. \/ /\ lane'[m] = "steering" /\ queue'.steering = Append(queue.steering, m)
         /\ queue'.followUp = queue.followUp
      \/ /\ lane'[m] = "followUp" /\ queue'.followUp = Append(queue.followUp, m)
         /\ queue'.steering = queue.steering
  BY ListTypes DEF Steer, FollowUp, Enqueue
<1>3. /\ ~Within(m, todo) /\ ~Within(m, held.msgs) /\ ~Within(m, queue.steering)
      /\ ~Within(m, queue.followUp) /\ ~Within(m, order) /\ ~Logged(m) /\ ~Within(m, run.diags)
  BY <1>1, Members, AgentAssumption DEF Seen
<1>4. /\ Len(order) \in Nat /\ DOMAIN order = 1..Len(order)
      /\ DOMAIN order' = 1..(Len(order) + 1)
      /\ \A i \in 1..Len(order) : order'[i] = order[i]
      /\ order'[Len(order) + 1] = m
  BY <1>1, ListAppend
<1>5. \A i \in 1..Len(order) : order[i] # m /\ order[i] \in Messages
  BY <1>1, <1>3, <1>4, ElementOfSeq DEF Within
<1>6. \A x, y : (Logged(x)' <=> Logged(x)) /\ (LoggedBefore(x, y)' <=> LoggedBefore(x, y))
  BY <1>1 DEF Logged, LoggedBefore
<1>7. ASSUME NEW x, NEW y
      PROVE  /\ Precedes(x, y, Append(queue.steering, m)) =>
                  Precedes(x, y, queue.steering) \/ (Within(x, queue.steering) /\ y = m)
             /\ Precedes(x, y, Append(queue.followUp, m)) =>
                  Precedes(x, y, queue.followUp) \/ (Within(x, queue.followUp) /\ y = m)
             /\ Within(x, Append(queue.steering, m)) <=> Within(x, queue.steering) \/ x = m
             /\ Within(x, Append(queue.followUp, m)) <=> Within(x, queue.followUp) \/ x = m
  <2>1. queue.steering \in Seq(Messages) /\ queue.followUp \in Seq(Messages)
    BY ListTypes
  <2> QED BY <2>1, PrecedesAppend, WithinAppend
<1>8. ASSUME NEW x, NEW y, Leads(x, y)'
      PROVE  \/ Leads(x, y)
             \/ x # m /\ y = m
             \/ x = m /\ lane'[m] = "steering" /\ Within(y, queue.followUp)
             \/ x = m /\ lane'[m] = "followUp" /\ Within(y, queue.steering)
  <2>1. /\ Precedes(x, y, Append(queue.steering, m)) =>
             Precedes(x, y, queue.steering) \/ (Within(x, queue.steering) /\ y = m)
        /\ Precedes(x, y, Append(queue.followUp, m)) =>
             Precedes(x, y, queue.followUp) \/ (Within(x, queue.followUp) /\ y = m)
        /\ Within(x, Append(queue.steering, m)) <=> Within(x, queue.steering) \/ x = m
        /\ Within(x, Append(queue.followUp, m)) <=> Within(x, queue.followUp) \/ x = m
        /\ Within(y, Append(queue.steering, m)) <=> Within(y, queue.steering) \/ y = m
        /\ Within(y, Append(queue.followUp, m)) <=> Within(y, queue.followUp) \/ y = m
    BY <1>7
  <2>2. CASE /\ lane'[m] = "steering" /\ queue'.steering = Append(queue.steering, m)
             /\ queue'.followUp = queue.followUp
    BY <1>1, <1>3, <1>6, <1>8, <2>1, <2>2 DEF Leads
  <2>3. CASE /\ lane'[m] = "followUp" /\ queue'.followUp = Append(queue.followUp, m)
             /\ queue'.steering = queue.steering
    BY <1>1, <1>3, <1>6, <1>8, <2>1, <2>3 DEF Leads
  <2> QED BY <1>2, <2>2, <2>3
<1>9. ASSUME NEW x, NEW y, Leads(x, y) PROVE x # m /\ y # m
  <2>1. \A s : Precedes(x, y, s) => Within(x, s) /\ Within(y, s)
    BY PrecedesWithin
  <2>2. LoggedBefore(x, y) => Logged(x) /\ Logged(y)
    BY DEF LoggedBefore, Logged
  <2> QED BY <1>3, <1>9, <2>1, <2>2 DEF Leads
<1>10. ASSUME NEW x, NEW y, Leads(x, y)' PROVE Follows(x, y)'
  <2>1. CASE Leads(x, y)
    <3>1. x # m /\ y # m /\ Follows(x, y)
      BY <1>9, <2>1 DEF InLine
    <3>2. ASSUME NEW a \in DOMAIN order', NEW b \in DOMAIN order', x = order'[a], y = order'[b],
                 lane'[x] = lane'[y]
          PROVE  a < b \/ y \in overtaken
      <4>1. a \in DOMAIN order /\ b \in DOMAIN order /\ x = order[a] /\ y = order[b]
        BY <1>4, <3>1, <3>2
      <4>2. lane[x] = lane[y]
        BY <1>1, <1>4, <1>5, <3>1, <3>2, <4>1
      <4> QED BY <3>1, <4>1, <4>2 DEF Follows
    <3> QED BY <1>1, <3>1, <3>2 DEF Follows
  <2>2. CASE x # m /\ y = m
    <3>1. ASSUME NEW a \in DOMAIN order', NEW b \in DOMAIN order', x = order'[a], y = order'[b]
          PROVE  a < b
      <4>1. b = Len(order) + 1 /\ a \in 1..Len(order)
        BY <1>4, <1>5, <2>2, <3>1
      <4> QED BY <1>4, <4>1
    <3> QED BY <2>2, <3>1 DEF Follows
  <2>3. CASE \/ x = m /\ lane'[m] = "steering" /\ Within(y, queue.followUp)
             \/ x = m /\ lane'[m] = "followUp" /\ Within(y, queue.steering)
    <3>1. x # y /\ y \in Messages
      BY <1>3, <2>3, Members
    <3>2. lane'[y] = lane[y] /\ lane[y] # lane'[m]
      BY <1>1, <2>3, <3>1 DEF InLine
    <3> QED BY <2>3, <3>1, <3>2 DEF Follows
  <2> QED BY <1>8, <1>10, <2>1, <2>2, <2>3
<1>11. ASSUME NEW x \in Messages
       PROVE  /\ Within(x, queue'.steering) => lane'[x] = "steering"
              /\ Within(x, queue'.followUp) => lane'[x] = "followUp"
  <2>1. /\ Within(x, queue'.steering) => Within(x, queue.steering) \/ (x = m /\ lane'[m] = "steering")
        /\ Within(x, queue'.followUp) => Within(x, queue.followUp) \/ (x = m /\ lane'[m] = "followUp")
    <3>1. /\ Within(x, Append(queue.steering, m)) <=> Within(x, queue.steering) \/ x = m
          /\ Within(x, Append(queue.followUp, m)) <=> Within(x, queue.followUp) \/ x = m
      BY <1>7
    <3> QED BY <1>2, <3>1
  <2> QED BY <1>1, <1>3, <2>1 DEF InLine
<1>12. active' # 0 => \A x : Within(x, held'.msgs) => x \in overtaken'
  BY <1>1 DEF InLine
<1> QED BY <1>10, <1>11, <1>12 DEF InLine

LEMMA PromptInLine ==
  ASSUME Typed, Loaded, Fed, InLine, NEW m \in Messages, Prompt(m) PROVE InLine'
<1>1. todo = <<>> /\ Enter(m)
  BY Enters DEF Prompt, Typed, Control, Loaded
<1>2. /\ overtaken' = overtaken \cup {held.msgs[i] : i \in DOMAIN held.msgs}
      /\ run'.diags = <<>>
  BY DEF Prompt, Begin, NewRun, SetOf
<1>3. \A x : Within(x, held.msgs) => x \in overtaken'
  BY <1>2 DEF Within
<1> QED BY <1>1, <1>2, <1>3, EnterInLine

LEMMA PollContinuationInLine ==
  ASSUME Typed, Loaded, Fed, InLine, PollContinuation PROVE InLine'
<1>1. todo = <<>> /\ UNCHANGED <<run, active, overtaken>>
  BY DEF PollContinuation, Loaded, runVars, hostVars
<1>2. ASSUME NEW m \in Messages, Enter(m) PROVE InLine'
  <2>1. active' # 0 => \A x : Within(x, held.msgs) => x \in overtaken'
    BY <1>1 DEF InLine
  <2> QED BY <1>1, <1>2, <2>1, EnterInLine
<1>3. CASE UNCHANGED <<transcript, log, queue, order, held, spent, todo, lane>>
  <2>1. \A x, y : Leads(x, y)' => Leads(x, y)
    BY <1>1, <1>3 DEF Leads, LoggedBefore, Logged
  <2> QED BY <1>1, <1>3, <2>1, InLineKept DEF InLine
<1> QED BY <1>2, <1>3, Enters

\* Diagnostics name runs that have begun.
LEMMA NextFresh == ASSUME Typed, Fresh, [Next]_vars PROVE Fresh'
<1>0. /\ run \in [id : 0..MaxRuns, aborted : BOOLEAN, diags : Seq(Diags), seen : SUBSET Diags]
      /\ run.id \in Nat /\ target \in Nat /\ \A d \in Diags : sent[d] \in Nat
      /\ sent \in [Diags -> 0..MaxRuns] /\ MaxRuns \in Nat
  BY Bounds DEF Typed, TypeOK
<1>1. ASSUME NEW msgs, NEW skipPoll, Begin(msgs, skipPoll), UNCHANGED <<target, sent>> PROVE Fresh'
  <2>1. run'.id = run.id + 1
    BY <1>1 DEF Begin, NewRun
  <2> QED BY <1>0, <1>1, <2>1 DEF Fresh
<1>2. CASE (\E m \in Messages : Prompt(m)) \/ ContinueRun
  BY <1>1, <1>2 DEF Prompt, ContinueRun
<1>3. ASSUME NEW d \in Diags, SteerActive(d) PROVE Fresh'
  <2>1. /\ run'.id = run.id /\ run'.seen = run.seen \cup {d} /\ target' = target /\ target = run.id
        /\ sent' = [sent EXCEPT ![d] = target]
    BY <1>0, <1>3 DEF SteerActive, Admits
  <2> QED BY <1>0, <2>1 DEF Fresh
<1>4. CASE ReadGeneration
  <2>1. target' = run.id /\ UNCHANGED <<run, sent>>
    BY <1>4 DEF ReadGeneration, Typed, Control, runVars
  <2> QED BY <1>0, <2>1 DEF Fresh
<1>5. ASSUME run'.id = run.id, run'.seen = run.seen, UNCHANGED <<target, sent>> PROVE Fresh'
  BY <1>5 DEF Fresh
<1>6. CASE Abort \/ FinishTake \/ InitialPoll \/ PollSteering
  <2>1. /\ run'.id = run.id /\ run'.seen = run.seen /\ UNCHANGED <<target, sent>>
    BY <1>0, <1>6 DEF Abort, FinishTake, InitialPoll, PollSteering, NoMessages, TakeSteering, hostVars
  <2> QED BY <1>5, <2>1
<1>7. CASE \/ \E m \in Messages : Steer(m) \/ FollowUp(m) \/ RemoveQueued(m)
           \/ Continue \/ ContinueBusy \/ PollFollowUp \/ PollContinuation
           \/ (\E w \in Waiters : Wait(w)) \/ (\E r \in 1..MaxRuns : FinishSettle(r)) \/ UNCHANGED vars
  <2>1. UNCHANGED <<run, target, sent>>
    BY <1>7 DEF Steer, FollowUp, Enqueue, RemoveQueued, Continue, ContinueBusy, PollFollowUp,
                PollContinuation, Wait, FinishSettle, vars, runVars, hostVars
  <2> QED BY <1>5, <2>1
<1>8. CASE \/ EmitPrompt \/ Top \/ Inject \/ Request \/ StreamFails
           \/ \E k \in 0..MaxCalls : Complete(k) \/ EndEarly(k)
           \/ AnswerUnexecuted \/ AnsweredAll
           \/ StartTool \/ (\E i \in 1..MaxCalls : EndTool(i)) \/ ToolResult \/ BatchDone
           \/ TurnEnd \/ AgentEnd \/ RunFailure
  <2>1. UNCHANGED <<run, target, sent>>
    BY <1>8 DEF EmitPrompt, Top, Inject, Request, StreamFails, Complete, EndEarly, Respond,
                AnswerUnexecuted, AnsweredAll, StartTool, EndTool, ToolResult, EmitResult, BatchDone,
                TurnEnd, AgentEnd, RunFailure, Quiet, runVars, hostVars
  <2> QED BY <1>5, <2>1
<1> QED BY <1>2, <1>3, <1>4, <1>6, <1>7, <1>8 DEF Next, Loop, Host

LEMMA NextInLine ==
  ASSUME Typed, Loaded, Fed, Addressed, Fresh, InLine, [Next]_vars PROVE InLine'
<1>1. CASE MoveStep
  BY <1>1, EnqueueInLine, RemoveInLine, PromptInLine, ContinueInLine, HandOverInLine, EmitInLine,
     PollInLine, PollFollowUpInLine, PollContinuationInLine DEF MoveStep
<1>2. ASSUME NEW d \in Diags, SteerActive(d) PROVE InLine'
  BY <1>2, SteerActiveInLine
<1>3. CASE ~MoveStep /\ ~(\E d \in Diags : SteerActive(d))
  <2>1. StillStep
    BY <1>3, StillOrMove
  <2>2. CASE Abort \/ ReadGeneration \/ (\E w \in Waiters : Wait(w))
             \/ (\E r \in 1..MaxRuns : FinishSettle(r)) \/ UNCHANGED vars
    <3>1. active' = active /\ run'.diags = run.diags
      BY <2>2 DEF Abort, ReadGeneration, Wait, FinishSettle, vars, runVars, Typed, TypeOK
    <3> QED BY <2>1, <3>1, StillInLine
  <2>3. CASE \/ Top \/ Request \/ StreamFails
             \/ \E k \in 0..MaxCalls : Complete(k) \/ EndEarly(k)
             \/ AnswerUnexecuted \/ AnsweredAll
             \/ StartTool \/ (\E i \in 1..MaxCalls : EndTool(i)) \/ ToolResult \/ BatchDone
             \/ TurnEnd \/ AgentEnd \/ RunFailure
    <3>1. active' = active /\ run' = run
      BY <2>3 DEF Top, Request, StreamFails, Complete, EndEarly, Respond,
                  AnswerUnexecuted, AnsweredAll, StartTool, EndTool, ToolResult, EmitResult, BatchDone,
                  TurnEnd, AgentEnd, RunFailure, Quiet, runVars
    <3> QED BY <2>1, <3>1, StillInLine
  <2> QED BY <1>3, <2>2, <2>3 DEF Next, Loop, Host, MoveStep
<1> QED BY <1>1, <1>2, <1>3

\* Everything queued reaches the model at most once, and the messages of one queue
\* in their order, but for those a continue_() holds while a prompt overtakes it.
THEOREM DeliveryIsInOrder == Spec => []DeliveredInOrder
<1> DEFINE Inv == OnTheWay /\ Addressed /\ Fresh /\ InLine
<1>1. Init => Inv
  BY InitTyped, InitLoaded, InitFed, InitAddressed, InitInLine DEF OnTheWay
<1>2. Inv /\ [Next]_vars => Inv'
  <2> SUFFICES ASSUME Inv, [Next]_vars PROVE Inv'
    OBVIOUS
  <2>1. Typed /\ Loaded /\ Fed /\ Addressed /\ Fresh /\ InLine
    BY DEF OnTheWay
  <2>2. OnTheWay'
    BY NextOnTheWay
  <2>3. Addressed'
    BY <2>1, NextAddressed
  <2>4. Fresh' /\ InLine'
    BY <2>1, NextFresh, NextInLine
  <2> QED BY <2>2, <2>3, <2>4
<1>3. Inv => DeliveredInOrder
  <2> SUFFICES ASSUME InLine, NEW i \in DOMAIN log, NEW j \in DOMAIN log, i < j
               PROVE  /\ log[i].msg # log[j].msg
                      /\ \A a, b \in DOMAIN order :
                           log[i].msg = order[a] /\ log[j].msg = order[b] /\ lane[order[a]] = lane[order[b]]
                           => a < b \/ order[b] \in overtaken
    BY DEF DeliveredInOrder
  <2>1. LoggedBefore(log[i].msg, log[j].msg)
    BY DEF LoggedBefore
  <2>2. Follows(log[i].msg, log[j].msg)
    BY <2>1 DEF InLine, Leads
  <2> QED BY <2>2 DEF Follows
<1> QED BY <1>1, <1>2, <1>3, PTL DEF Spec
=============================================================================
