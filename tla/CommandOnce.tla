---------------------------- MODULE CommandOnce ----------------------------
(***************************************************************************)
(* What the supervisor promises a client about one mutating command,       *)
(* without a journal, a file, a connection or a process: until the client  *)
(* has acknowledged the answer the command is dispatched at most once, and *)
(* an answer the client takes for the command's own result is one that a   *)
(* dispatch of it really returned.                                         *)
(***************************************************************************)
EXTENDS Naturals

CONSTANTS Keys,        \* idempotency keys: one per (client, command id)
          Responses,   \* what a dispatch may return
          Excuses      \* answers that say nothing about the result

VARIABLES runs,        \* how often the command was dispatched
          results,     \* what its dispatches returned
          answer,      \* what the client was told, "none" before that
          acked        \* the client has acknowledged its answer

vars == <<runs, results, answer, acked>>

Init ==
    /\ runs = [k \in Keys |-> 0]
    /\ results = [k \in Keys |-> {}]
    /\ answer = [k \in Keys |-> "none"]
    /\ acked = [k \in Keys |-> FALSE]

\* A dispatch. Once the answer is acknowledged the key is free to be used again.
Run(k) ==
    /\ runs[k] = 0 \/ acked[k]
    /\ runs' = [runs EXCEPT ![k] = @ + 1]
    /\ UNCHANGED <<results, answer, acked>>

Return(k, r) ==
    /\ runs[k] > 0
    /\ results' = [results EXCEPT ![k] = @ \cup {r}]
    /\ UNCHANGED <<runs, acked>>
    /\ \/ UNCHANGED answer
       \/ /\ answer[k] = "none"                 \* returned and told at once
          /\ answer' = [answer EXCEPT ![k] = r]

Settle(k, a) ==
    /\ answer[k] = "none"
    /\ a \in results[k] \cup Excuses
    /\ answer' = [answer EXCEPT ![k] = a]
    /\ UNCHANGED <<runs, results, acked>>

Acknowledge(k) ==
    /\ answer[k] # "none"
    /\ acked' = [acked EXCEPT ![k] = TRUE]
    /\ UNCHANGED <<runs, results, answer>>

Next ==
    \E k \in Keys :
        \/ Run(k)
        \/ \E r \in Responses : Return(k, r)
        \/ \E a \in Responses \cup Excuses : Settle(k, a)
        \/ Acknowledge(k)

Spec == Init /\ [][Next]_vars
=============================================================================
