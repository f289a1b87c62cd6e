------------------------------- MODULE Agent -------------------------------
(***************************************************************************)
(* The agent of pi-agent-core: its run lifecycle (agent.rs), the turn loop *)
(* of a run (agent_loop.rs, run_loop), the steering, follow-up and         *)
(* diagnostic lanes that feed it, the tool batch of a turn, abort() and    *)
(* wait_for_idle().  One step of the model is the code between two awaits, *)
(* or between two locks where another thread can come in between; the      *)
(* check of is_running() and the store of active_run are one step (Begin). *)
(*                                                                         *)
(* A message stands for a batch of the queues; an assistant response is    *)
(* the number of tool calls it carries.  The provider, the tools and the   *)
(* host's hooks are external: they answer, fail or stop the run at will.   *)
(***************************************************************************)
EXTENDS Naturals, Sequences, FiniteSets

CONSTANTS
  Messages,        \* what hosts prompt with, queue or continue with
  Diags,           \* diagnostics a parent steers into a running child
  Waiters,         \* callers of wait_for_idle()
  SteeringMode,    \* QueueMode of the steering queue
  FollowUpMode,    \* QueueMode of the follow-up queue
  DiagCap,         \* the 32 diagnostics a run holds at once
  SeenCap,         \* the 256 diagnostic ids a run ever accepts
  MaxCalls,        \* bound: tool calls in one response
  MaxTurns,        \* bound: responses over a behaviour
  MaxRuns          \* bound: runs over a behaviour

QueueModes == {"all", "one-at-a-time"}

ASSUME AgentAssumption ==
  /\ Messages \cap Diags = {}
  /\ SteeringMode \in QueueModes /\ FollowUpMode \in QueueModes
  /\ {DiagCap, SeenCap, MaxCalls, MaxTurns, MaxRuns} \subseteq Nat

VARIABLES
  transcript,  \* state.messages: what listeners saw end, and the host persists
  context,     \* current_context.messages of the loop
  log,         \* the input messages in delivery order, with the run they entered
  queue,       \* steering_queue and follow_up_queue
  lane,        \* how each message entered the agent; "out" before that
  order,       \* the messages in the order in which they were queued
  pc,          \* where the loop of the active run stands
  todo,        \* the drained messages the loop still has to emit
  skip,        \* skip_initial_steering_poll
  batch,       \* the tool calls of the response: how many, started, ended, answered
  more,        \* has_more_tool_calls
  run,         \* the newest ActiveRun
  active,      \* active_run: the id of the run, or 0
  ending,      \* runs finish_run has taken and not yet settled
  settled,     \* runs whose settled flag is set
  held,        \* what a continue_() has drained before it enters the lifecycle
  overtaken,   \* the messages held like that while a prompt started its run
  waiter,      \* the callers of wait_for_idle()
  target,      \* the generation a parent read from the child
  sent,        \* the generation each diagnostic was addressed to
  spent        \* responses, aborts, refused continues, and what the last two met drained

loopVars == <<context, pc, todo, skip, batch, more>>
laneVars == <<queue, lane, order>>
runVars  == <<run, active, ending, settled>>
hostVars == <<held, overtaken, waiter, target, sent>>
vars == <<transcript, log, loopVars, laneVars, runVars, hostVars, spent>>

Inputs == Messages \cup Diags
Input(m) == [kind |-> "input", msg |-> m]
Assistant(k) == [kind |-> "assistant", calls |-> k]
Result(i) == [kind |-> "result", call |-> i]
Entries == {Input(m) : m \in Inputs} \cup {Assistant(k) : k \in 0..MaxCalls}
             \cup {Result(i) : i \in 1..MaxCalls}

SetOf(s) == {s[i] : i \in DOMAIN s}
NoBatch == [calls |-> 0, parallel |-> FALSE, started |-> {}, ended |-> {}, answered |-> 0]
NoHeld == [on |-> FALSE, msgs |-> <<>>, skip |-> FALSE]
NoWait == [at |-> "out", run |-> 0, woken |-> FALSE]
NewRun(r) == [id |-> r, aborted |-> FALSE, diags |-> <<>>, seen |-> {}]

Init ==
  /\ transcript = <<>> /\ context = <<>> /\ log = <<>>
  /\ queue = [steering |-> <<>>, followUp |-> <<>>]
  /\ lane = [m \in Messages |-> "out"] /\ order = <<>>
  /\ pc = "idle" /\ todo = <<>> /\ skip = FALSE /\ batch = NoBatch /\ more = FALSE
  /\ run = NewRun(0) /\ active = 0 /\ ending = {} /\ settled = {}
  /\ held = NoHeld /\ overtaken = {} /\ waiter = [w \in Waiters |-> NoWait] /\ target = 0 /\ sent = [d \in Diags |-> 0]
  /\ spent = [turns |-> 0, aborts |-> 0, refused |-> 0, drained |-> {}]

-----------------------------------------------------------------------------
(* The pending message queues. *)

\* Mutation: one-at-a-time leaves the batch it takes in the queue.
RemainingAll(q, mode) == IF mode = "all" THEN <<>> ELSE q

\* PendingMessageQueue.drain: the batches taken and the ones that stay.
Drained(q, mode) == IF mode = "all" \/ q = <<>> THEN q ELSE <<Head(q)>>
Remaining(q, mode) == IF mode = "all" \/ q = <<>> THEN <<>> ELSE Tail(q)

\* steer(), follow_up(): callable at any time, whether or not a run is active.
Enqueue(m, l, q) ==
  /\ lane[m] = "out"
  /\ lane' = [lane EXCEPT ![m] = l]
  /\ order' = Append(order, m)
  /\ queue' = [queue EXCEPT ![q] = Append(@, m)]
  /\ UNCHANGED <<transcript, log, loopVars, runVars, hostVars, spent>>

Steer(m) == Enqueue(m, "steering", "steering")
FollowUp(m) == Enqueue(m, "followUp", "followUp")

\* remove_queued_messages(): the batch leaves its queue for the host.
RemoveQueued(m) ==
  /\ \E q \in DOMAIN queue :
       \E i \in DOMAIN queue[q] :
         /\ queue[q][i] = m
         /\ queue' = [queue EXCEPT ![q] = SubSeq(@, 1, i - 1) \o SubSeq(@, i + 1, Len(@))]
  /\ lane' = [lane EXCEPT ![m] = "removed"]
  /\ UNCHANGED <<transcript, log, loopVars, order, runVars, hostVars, spent>>

-----------------------------------------------------------------------------
(* The run lifecycle. *)

\* run_with_lifecycle once is_running() said no: the new run becomes the active
\* one and its loop starts from a snapshot of the transcript.  A continuation
\* without messages refuses an assistant tail.
Begin(msgs, skipPoll) ==
  /\ run.id < MaxRuns
  /\ run' = NewRun(run.id + 1)
  /\ active' = run.id + 1
  /\ context' = transcript \o [i \in DOMAIN msgs |-> Input(msgs[i])]
  /\ todo' = msgs
  /\ skip' = skipPoll
  /\ pc' = IF msgs # <<>> THEN "prompts"
           ELSE IF transcript[Len(transcript)].kind = "assistant" THEN "failed" ELSE "poll"
  /\ batch' = NoBatch /\ more' = FALSE
  /\ UNCHANGED <<ending, settled>>

\* prompt().
Prompt(m) ==
  /\ active = 0 /\ lane[m] = "out"
  /\ Begin(<<m>>, FALSE)
  /\ lane' = [lane EXCEPT ![m] = "prompt"]
  /\ overtaken' = overtaken \cup SetOf(held.msgs)
  /\ UNCHANGED <<transcript, log, queue, order, held, waiter, target, sent, spent>>

\* continue_() up to run_with_lifecycle: behind an assistant tail it drains the
\* steering queue, else the follow-up queue; otherwise it continues the tail.
Continue ==
  /\ active = 0 /\ ~held.on
  /\ IF transcript # <<>> /\ transcript[Len(transcript)].kind # "assistant"
     THEN /\ held' = [NoHeld EXCEPT !.on = TRUE]
          /\ UNCHANGED queue
     ELSE \E q \in DOMAIN queue :
            LET mode == IF q = "steering" THEN SteeringMode ELSE FollowUpMode IN
            /\ queue[q] # <<>>
            /\ q = "followUp" => queue.steering = <<>>
            /\ held' = [on |-> TRUE, msgs |-> Drained(queue[q], mode), skip |-> q = "steering"]
            /\ queue' = [queue EXCEPT ![q] = Remaining(@, mode)]
  /\ UNCHANGED <<transcript, log, loopVars, lane, order, runVars, overtaken, waiter, target, sent, spent>>

\* The lifecycle of a continue_(): refused when somebody else's run came first.
ContinueRun ==
  /\ held.on /\ active = 0
  /\ Begin(held.msgs, held.skip)
  /\ held' = NoHeld
  /\ UNCHANGED <<transcript, log, laneVars, overtaken, waiter, target, sent, spent>>

ContinueBusy ==
  /\ held.on /\ active # 0
  /\ held' = NoHeld
  /\ spent' = [spent EXCEPT !.refused = @ + 1, !.drained = @ \cup SetOf(held.msgs)]
  /\ UNCHANGED <<transcript, log, loopVars, laneVars, runVars, overtaken, waiter, target, sent>>

\* abort().
Abort ==
  /\ active # 0 /\ ~run.aborted
  /\ run' = [run EXCEPT !.aborted = TRUE]
  /\ spent' = [spent EXCEPT !.aborts = @ + 1, !.drained = @ \cup SetOf(todo)]
  /\ UNCHANGED <<transcript, log, loopVars, laneVars, active, ending, settled, hostVars>>

\* finish_run: the run is taken, its diagnostics are closed and cleared, ...
FinishTake ==
  /\ pc = "finish"
  /\ pc' = "idle" /\ batch' = NoBatch /\ todo' = <<>>
  /\ active' = 0
  /\ run' = [run EXCEPT !.diags = <<>>]
  /\ ending' = ending \cup {run.id}
  /\ UNCHANGED <<transcript, log, context, skip, more, laneVars, settled, hostVars, spent>>

\* ... and then settled: the flag first, the registered waiters after it.
FinishSettle(r) ==
  /\ r \in ending
  /\ ending' = ending \ {r}
  /\ settled' = settled \cup {r}
  /\ waiter' = [w \in Waiters |-> IF waiter[w].at \in {"enabled", "parked"} /\ waiter[w].run = r
                                  THEN [waiter[w] EXCEPT !.woken = TRUE] ELSE waiter[w]]
  /\ UNCHANGED <<transcript, log, loopVars, laneVars, run, active, held, overtaken, target, sent, spent>>

-----------------------------------------------------------------------------
(* wait_for_idle(). *)

WaitMove(w, at) == waiter' = [waiter EXCEPT ![w].at = at]

\* The active run is cloned; without one the caller returns at once.
WaitClone(w) ==
  /\ waiter[w].at = "out" /\ active # 0
  /\ waiter' = [waiter EXCEPT ![w] = [at |-> "cloned", run |-> active, woken |-> FALSE]]

\* notified.enable(): from here on notify_waiters reaches the caller.
WaitEnable(w) == waiter[w].at = "cloned" /\ WaitMove(w, "enabled")

\* Mutation: the flag is not read.
WaitCheckSkipped(w) == waiter[w].at = "enabled" /\ WaitMove(w, "parked")

\* The settled flag is read after that; a set flag returns without waiting.
WaitCheck(w) ==
  /\ waiter[w].at = "enabled"
  /\ IF waiter[w].run \in settled THEN waiter' = [waiter EXCEPT ![w] = NoWait]
     ELSE WaitMove(w, "parked")

WaitReturn(w) ==
  /\ waiter[w].at = "parked" /\ waiter[w].woken
  /\ waiter' = [waiter EXCEPT ![w] = NoWait]

Wait(w) ==
  /\ WaitClone(w) \/ WaitEnable(w) \/ WaitCheck(w) \/ WaitReturn(w)
  /\ UNCHANGED <<transcript, log, loopVars, laneVars, runVars, held, overtaken, target, sent, spent>>

-----------------------------------------------------------------------------
(* Diagnostics for the active run only. *)

\* active_execution_generation(), kept by the parent for later.
ReadGeneration ==
  /\ active # 0 /\ ~run.aborted /\ target # active
  /\ target' = active
  /\ UNCHANGED <<transcript, log, loopVars, laneVars, runVars, held, overtaken, waiter, sent, spent>>

\* Mutation: the generation is not compared.
AdmitsAnyRun(d) ==
  /\ active # 0 /\ ~run.aborted
  /\ d \notin run.seen
  /\ Cardinality(run.seen) < SeenCap /\ Len(run.diags) < DiagCap

\* steer_active(): every answer but "accepted" leaves the run alone.
Admits(d) ==
  /\ active # 0 /\ ~run.aborted
  /\ target = run.id
  /\ d \notin run.seen
  /\ Cardinality(run.seen) < SeenCap /\ Len(run.diags) < DiagCap

SteerActive(d) ==
  /\ target # 0 /\ (sent[d] = 0 \/ sent[d] = target)
  /\ Admits(d)
  /\ run' = [run EXCEPT !.seen = @ \cup {d}, !.diags = Append(@, d)]
  /\ sent' = [sent EXCEPT ![d] = target]
  /\ UNCHANGED <<transcript, log, loopVars, laneVars, active, ending, settled, held, overtaken, waiter, target, spent>>

-----------------------------------------------------------------------------
(* The turn loop. *)

MoveTo(p) == pc' = p /\ UNCHANGED <<context, todo, skip, batch, more>>
Quiet == UNCHANGED <<laneVars, runVars, hostVars, spent>>

\* One input message is emitted: listeners have it, the state holds it.
EmitInput(next) ==
  /\ todo # <<>>
  /\ transcript' = Append(transcript, Input(Head(todo)))
  /\ log' = Append(log, [msg |-> Head(todo), run |-> run.id])
  /\ todo' = Tail(todo)
  /\ pc' = IF Tail(todo) = <<>> THEN next ELSE pc

\* run_agent_loop emits the prompts, which its context already holds.
EmitPrompt ==
  /\ pc = "prompts"
  /\ EmitInput("poll")
  /\ UNCHANGED <<context, skip, batch, more>> /\ Quiet

\* get_steering_messages: the queue, then the diagnostics of this run.
Steering == Drained(queue.steering, SteeringMode) \o run.diags

TakeSteering ==
  /\ todo' = Steering
  /\ queue' = [queue EXCEPT !.steering = Remaining(@, SteeringMode)]
  /\ run' = [run EXCEPT !.diags = <<>>]

NoMessages == todo' = <<>> /\ UNCHANGED <<queue, run>>

\* Mutation: a run that begins with drained steering polls again.
InitialPollAlways ==
  /\ pc = "poll"
  /\ \/ run.aborted /\ NoMessages /\ pc' \in {"top", "failed"}
     \/ ~run.aborted /\ TakeSteering /\ pc' = "top"
  /\ UNCHANGED <<transcript, log, context, skip, batch, more, lane, order, active, ending, settled, hostVars, spent>>

\* The initial poll.  A cancelled one is empty or, seen later, fails the run;
\* a run that begins with drained steering skips it once.
InitialPoll ==
  /\ pc = "poll"
  /\ \/ run.aborted /\ NoMessages /\ pc' \in {"top", "failed"} /\ UNCHANGED skip
     \/ ~run.aborted /\ skip /\ NoMessages /\ pc' = "top" /\ skip' = FALSE
     \/ ~run.aborted /\ ~skip /\ TakeSteering /\ pc' = "top" /\ UNCHANGED skip
  /\ UNCHANGED <<transcript, log, context, batch, more, lane, order, active, ending, settled, hostVars, spent>>

\* throw_if_aborted at the head of a turn.
Top ==
  /\ pc = "top"
  /\ MoveTo(IF run.aborted THEN "failed" ELSE IF todo # <<>> THEN "inject" ELSE "request")
  /\ UNCHANGED <<transcript, log>> /\ Quiet

\* The drained messages enter the transcript and the context of the next request.
Inject ==
  /\ pc = "inject"
  /\ EmitInput("request")
  /\ context' = Append(context, Input(Head(todo)))
  /\ UNCHANGED <<skip, batch, more>> /\ Quiet

\* before_request, the context hooks and throw_if_aborted before the provider call.
Request ==
  /\ pc = "request"
  /\ \/ ~run.aborted /\ spent.turns < MaxTurns /\ MoveTo("stream")
     \/ MoveTo("failed")
  /\ UNCHANGED <<transcript, log>> /\ Quiet

\* The end of the stream: a response, or one that ends the run with stop reason
\* error (provider failure, stall) or aborted, carrying the calls streamed so far.
Respond(k, next) ==
  /\ pc = "stream"
  /\ transcript' = Append(transcript, Assistant(k))
  /\ context' = Append(context, Assistant(k))
  /\ spent' = [spent EXCEPT !.turns = @ + 1]
  /\ pc' = next
  /\ more' = FALSE
  /\ UNCHANGED <<log, todo, skip, laneVars, runVars, hostVars>>

Complete(k) ==
  /\ Respond(k, IF k = 0 THEN "turnEnd" ELSE "tools")
  /\ \E p \in BOOLEAN : batch' = [NoBatch EXCEPT !.calls = k, !.parallel = p]

\* Mutation: the calls of a terminal response are not answered.
EndEarlyUnanswered(k) == Respond(k, "end") /\ batch' = [NoBatch EXCEPT !.calls = k]

EndEarly(k) == Respond(k, "answer") /\ batch' = [NoBatch EXCEPT !.calls = k]

\* stream_assistant_response returns an error that is not the abort's.
StreamFails == pc = "stream" /\ MoveTo("failed") /\ UNCHANGED <<transcript, log>> /\ Quiet

\* Mutation: one result too many.
EmitResultUnbounded ==
  /\ transcript' = Append(transcript, Result(batch.answered + 1))
  /\ batch' = [batch EXCEPT !.answered = @ + 1]
  /\ UNCHANGED <<pc, log, todo, skip, more>> /\ Quiet

\* One tool result is emitted; run_loop adds the batch to its context after it.
EmitResult ==
  /\ batch.answered < batch.calls
  /\ transcript' = Append(transcript, Result(batch.answered + 1))
  /\ batch' = [batch EXCEPT !.answered = @ + 1]
  /\ UNCHANGED <<pc, log, todo, skip, more>> /\ Quiet

BatchResults == [i \in 1..batch.answered |-> Result(i)]

\* answer_unexecuted_tool_calls of a terminal response, then turn_end, agent_end.
AnswerUnexecuted == pc = "answer" /\ EmitResult /\ UNCHANGED context

AnsweredAll ==
  /\ pc = "answer" /\ batch.answered = batch.calls
  /\ context' = context \o BatchResults
  /\ pc' = "end"
  /\ UNCHANGED <<transcript, log, todo, skip, batch, more>> /\ Quiet

\* tool_execution_start: all calls of a parallel batch, aborted or not; one at a
\* time in a sequential batch, and none any more after an abort.
StartTool ==
  /\ pc = "tools"
  /\ Cardinality(batch.started) < batch.calls
  /\ ~batch.parallel => Cardinality(batch.started) = batch.answered /\ ~run.aborted
  /\ batch' = [batch EXCEPT !.started = @ \cup {Cardinality(@) + 1}]
  /\ UNCHANGED <<transcript, log, context, pc, todo, skip, more>> /\ Quiet

\* tool_execution_end: in any order once every call is started, or at once for a
\* call that prepare_tool_call refuses.
EndTool(i) ==
  /\ pc = "tools"
  /\ i \in batch.started \ batch.ended
  /\ Cardinality(batch.started) = batch.calls \/ i = Cardinality(batch.started)
  /\ batch' = [batch EXCEPT !.ended = @ \cup {i}]
  /\ UNCHANGED <<transcript, log, context, pc, todo, skip, more>> /\ Quiet

\* Mutation: the calls an abort kept from starting are not answered.
ResultReadyExecuted ==
  IF batch.parallel THEN Cardinality(batch.ended) = batch.calls
  ELSE batch.answered + 1 \in batch.ended

\* The result messages: in call order after the whole parallel batch; after each
\* call of a sequential one, and for the calls an abort kept from starting.
ResultReady ==
  IF batch.parallel THEN Cardinality(batch.ended) = batch.calls
  ELSE \/ batch.answered + 1 \in batch.ended
       \/ run.aborted /\ batch.answered + 1 \notin batch.started

ToolResult == pc = "tools" /\ ResultReady /\ EmitResult /\ UNCHANGED context

\* Mutation: the results are missing from the context of the next request.
BatchDoneForgetful ==
  /\ pc = "tools" /\ batch.answered = batch.calls
  /\ more' \in BOOLEAN
  /\ pc' = "turnEnd"
  /\ UNCHANGED <<transcript, log, context, todo, skip, batch>> /\ Quiet

\* The batch returns; it asks for another turn unless every result terminates.
BatchDone ==
  /\ pc = "tools" /\ batch.answered = batch.calls
  /\ context' = context \o BatchResults
  /\ more' \in BOOLEAN
  /\ pc' = "turnEnd"
  /\ UNCHANGED <<transcript, log, todo, skip, batch>> /\ Quiet

\* turn_end, then the abort check and should_stop_after_turn.
TurnEnd ==
  /\ pc = "turnEnd"
  /\ \/ MoveTo("end")
     \/ ~run.aborted /\ MoveTo("pollSteering")
  /\ UNCHANGED <<transcript, log>> /\ Quiet

\* Mutation: the run stops although the poll has drained messages.
PollSteeringStops ==
  /\ pc = "pollSteering"
  /\ \/ run.aborted /\ NoMessages
     \/ ~run.aborted /\ TakeSteering
  /\ pc' \in {"end", IF more \/ todo' # <<>> THEN "top" ELSE "pollFollowUp"}
  /\ UNCHANGED <<transcript, log, context, skip, batch, more, lane, order, active, ending, settled, hostVars, spent>>

\* The steering poll behind a turn.  An empty one may stop the run
\* (should_stop_before_turn); drained messages own the next turn.
PollSteering ==
  /\ pc = "pollSteering"
  /\ \/ run.aborted /\ NoMessages
     \/ ~run.aborted /\ TakeSteering
  /\ pc' \in IF todo' # <<>> THEN {"top"}
             ELSE {"end", IF more THEN "top" ELSE "pollFollowUp"}
  /\ UNCHANGED <<transcript, log, context, skip, batch, more, lane, order, active, ending, settled, hostVars, spent>>

\* The agent would stop: the follow-ups get their turn.
PollFollowUp ==
  /\ pc = "pollFollowUp"
  /\ \/ UNCHANGED <<queue, todo>> /\ pc' = "end"
     \/ run.aborted /\ UNCHANGED <<queue, todo>> /\ pc' = "pollContinuation"
     \/ /\ ~run.aborted
        /\ todo' = Drained(queue.followUp, FollowUpMode)
        /\ queue' = [queue EXCEPT !.followUp = Remaining(@, FollowUpMode)]
        /\ pc' = IF todo' # <<>> THEN "top" ELSE "pollContinuation"
  /\ UNCHANGED <<transcript, log, context, skip, batch, more, lane, order, runVars, hostVars, spent>>

\* get_continuation_messages: none, or a message of the host.
PollContinuation ==
  /\ pc = "pollContinuation"
  /\ \/ pc' = "end" /\ UNCHANGED <<todo, lane>>
     \/ /\ ~run.aborted
        /\ \E m \in Messages : /\ lane[m] = "out"
                               /\ lane' = [lane EXCEPT ![m] = "continuation"]
                               /\ todo' = <<m>>
        /\ pc' = "top"
  /\ UNCHANGED <<transcript, log, context, skip, batch, more, queue, order, runVars, hostVars, spent>>

\* agent_end.
AgentEnd == pc = "end" /\ MoveTo("finish") /\ UNCHANGED <<transcript, log>> /\ Quiet

\* handle_run_failure: the error becomes an assistant message.
RunFailure ==
  /\ pc = "failed"
  /\ transcript' = Append(transcript, Assistant(0))
  /\ MoveTo("finish")
  /\ UNCHANGED log /\ Quiet

Loop ==
  \/ EmitPrompt \/ InitialPoll \/ Top \/ Inject \/ Request \/ StreamFails
  \/ \E k \in 0..MaxCalls : Complete(k) \/ EndEarly(k)
  \/ AnswerUnexecuted \/ AnsweredAll
  \/ StartTool \/ (\E i \in 1..MaxCalls : EndTool(i)) \/ ToolResult \/ BatchDone
  \/ TurnEnd \/ PollSteering \/ PollFollowUp \/ PollContinuation
  \/ AgentEnd \/ RunFailure \/ FinishTake

Host ==
  \/ \E m \in Messages : Steer(m) \/ FollowUp(m) \/ RemoveQueued(m) \/ Prompt(m)
  \/ Continue \/ ContinueRun \/ ContinueBusy \/ Abort
  \/ ReadGeneration \/ \E d \in Diags : SteerActive(d)

Next == Loop \/ Host \/ (\E w \in Waiters : Wait(w)) \/ \E r \in 1..MaxRuns : FinishSettle(r)

Spec == Init /\ [][Next]_vars

\* The task that drives a run is scheduled, providers, tools, hooks and listeners
\* return (each is raced with the abort or bounded by the watchdog).
FairSpec == Spec /\ WF_vars(Loop)
-----------------------------------------------------------------------------
(* Properties. *)

Places == {"idle", "prompts", "poll", "top", "inject", "request", "stream", "answer", "tools",
           "turnEnd", "pollSteering", "pollFollowUp", "pollContinuation", "end", "failed", "finish"}
Lanes == {"out", "prompt", "steering", "followUp", "continuation", "removed"}
Calls == 1..MaxCalls

\* Every variable holds a value of its type, whatever the host, the provider and
\* the tools do.
TypeOK ==
  /\ transcript \in Seq(Entries) /\ context \in Seq(Entries)
  /\ log \in Seq([msg : Inputs, run : 1..MaxRuns])
  /\ queue \in [steering : Seq(Messages), followUp : Seq(Messages)]
  /\ lane \in [Messages -> Lanes] /\ order \in Seq(Messages)
  /\ pc \in Places /\ todo \in Seq(Inputs) /\ skip \in BOOLEAN /\ more \in BOOLEAN
  /\ batch \in [calls : 0..MaxCalls, parallel : BOOLEAN, started : SUBSET Calls,
                ended : SUBSET Calls, answered : 0..MaxCalls]
  /\ run \in [id : 0..MaxRuns, aborted : BOOLEAN, diags : Seq(Diags), seen : SUBSET Diags]
  /\ active \in 0..MaxRuns
  /\ ending \subseteq 1..MaxRuns /\ settled \subseteq 1..MaxRuns
  /\ overtaken \subseteq Messages
  /\ held \in [on : BOOLEAN, msgs : Seq(Messages), skip : BOOLEAN]
  /\ waiter \in [Waiters -> [at : {"out", "cloned", "enabled", "parked"}, run : 0..MaxRuns, woken : BOOLEAN]]
  /\ target \in 0..MaxRuns /\ sent \in [Diags -> 0..MaxRuns]
  /\ spent \in [turns : 0..MaxTurns, aborts : Nat, refused : Nat, drained : SUBSET Inputs]

\* Each tool call of a response is answered by its own result right behind it,
\* and there is no other result.
Paired(t) ==
  /\ \A i \in DOMAIN t : t[i].kind = "assistant" =>
       \A j \in 1..t[i].calls : i + j \in DOMAIN t /\ t[i + j] = Result(j)
  /\ \A i \in DOMAIN t : t[i].kind = "result" =>
       /\ i - t[i].call \in DOMAIN t
       /\ t[i - t[i].call].kind = "assistant" /\ t[i - t[i].call].calls >= t[i].call

\* "the persisted context always pairs every assistant tool call with exactly one
\* tool result" (agent_loop.rs, answer_unexecuted_tool_calls): whenever the agent
\* is idle and whenever a request goes out, however aborts, failures, stalls and
\* the two ways to run a batch interleave.
HistoryPaired == (active = 0 \/ pc = "stream") => Paired(transcript)

\* The context the loop maintains by itself is the transcript its listeners have
\* built from the events, each time a provider is called.
RequestIsTranscript == pc = "stream" => context = transcript

\* Everything queued reaches the model at most once, and the messages of one queue
\* in the order in which they were queued, over all runs and both ways to start
\* one; only a message in the hands of a continue_() that a prompt overtook is late.
DeliveredInOrder ==
  \A i, j \in DOMAIN log : i < j =>
    /\ log[i].msg # log[j].msg
    /\ \A a, b \in DOMAIN order :
         log[i].msg = order[a] /\ log[j].msg = order[b] /\ lane[order[a]] = lane[order[b]]
         => a < b \/ order[b] \in overtaken

\* One-at-a-time steering: the model answers between two steering messages, also
\* when a continue_() starts the run with one of them.
OneSteeringPerTurn ==
  SteeringMode = "one-at-a-time" =>
    \A i, j \in DOMAIN transcript :
      /\ i < j /\ transcript[i].kind = "input" /\ transcript[j].kind = "input"
      /\ transcript[i].msg \in Messages /\ transcript[j].msg \in Messages
      /\ lane[transcript[i].msg] = "steering" /\ lane[transcript[j].msg] = "steering"
      => \E k \in i..j : transcript[k].kind = "assistant"

Within(m, s) == \E i \in DOMAIN s : s[i] = m
Missing(l) ==
  {m \in Messages : /\ lane[m] = l
                    /\ ~Within(m, queue.steering) /\ ~Within(m, queue.followUp)
                    /\ ~Within(m, todo) /\ ~Within(m, held.msgs)
                    /\ \A i \in DOMAIN log : log[i].msg # m}

\* What waits in a queue survives: a message that was steered or queued as a
\* follow-up, in either mode, is delivered, on its way or taken back by its host
\* over all runs, aborts, failures, stalls and refused continues, unless it had
\* left its queue already when an abort or a refusal met it.
QueueSurvives == \A l \in {"steering", "followUp"} : Missing(l) \subseteq spent.drained

\* An abort loses nothing that was queued.  The code does not keep to it: a batch
\* that a poll has drained is gone when the abort comes before its turn begins.
AbortKeepsQueue == spent.refused = 0 => Missing("steering") \cup Missing("followUp") = {}

\* Of the steering messages drained one at a time, each abort and each refused
\* continue_() costs one at most.
LossBounded ==
  SteeringMode = "one-at-a-time" =>
    Cardinality(Missing("steering")) <= spent.aborts + spent.refused

\* A diagnostic enters the run its sender addressed, never a later one that
\* happens to be active when it arrives.
DiagnosticsStayInRun ==
  \A i \in DOMAIN log : log[i].msg \in Diags => log[i].run = sent[log[i].msg]

\* A caller of wait_for_idle() that parks on a settled run has been woken: the
\* registration before the look at the flag leaves no window.
NoLostWakeup ==
  \A w \in Waiters : waiter[w].at = "parked" /\ waiter[w].run \in settled => waiter[w].woken

\* An aborted run comes to an end, and with it is_running().
AbortedRunEnds == [](run.aborted => <>(active = 0))
=============================================================================
