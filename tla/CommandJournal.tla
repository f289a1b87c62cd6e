--------------------------- MODULE CommandJournal ---------------------------
(***************************************************************************)
(* The supervisor's command journal (command_recovery_journal.rs), the     *)
(* request handler that is its only user (handle_line of                   *)
(* native_supervisor.rs) and the client that resends its unanswered        *)
(* commands after a reconnect (daemon_client.rs).                          *)
(*                                                                         *)
(* A key stands for the pair (client id, command id).  The file is kept    *)
(* per key, since loading treats the lines of different keys               *)
(* independently; what crosses keys is an append that was torn, whose      *)
(* missing newline makes the next line, of whatever key, part of it.       *)
(***************************************************************************)
EXTENDS Integers, Sequences, FiniteSets

CONSTANTS Keys,          \* idempotency keys
          Responses,     \* the responses a dispatch may return
          CompactAfter,  \* COMPACT_AFTER_RECORDS
          TornAppends,   \* may a write stop before its newline?
          MaxSends,      \* bound: transmissions of one command
          MaxCrashes     \* bound: crashes of the supervisor

\* "uncertain": command_result_uncertain.  "failed": any other failure
\* response, which carries no result of the command.
Excuses == {"uncertain", "failed"}

ASSUME KeysAssumption == IsFiniteSet(Keys)
ASSUME ResponsesAssumption ==
    Responses \cap (Excuses \cup
        {"absent", "pending", "received", "acknowledged", "none", "new",
         "gaveup", "unsent", "dispatch", "done"}) = {}
ASSUME BoundsAssumption ==
    /\ CompactAfter \in Nat \ {0}
    /\ MaxSends \in Nat \ {0}
    /\ MaxCrashes \in Nat
    /\ TornAppends \in BOOLEAN

VARIABLES
    file,        \* the journal on disk: [log, torn, atRisk]
    up,          \* the supervisor process runs
    owned,       \* ownership.assert_current() succeeds
    entries,     \* the journal's map in memory
    recordCount, \* its record_count
    handler,     \* handler[k][n]: the task that handles the n-th copy of k
    sent,        \* copies of k the client has transmitted
    connected,   \* the client's connection: "no", "yes", or "silent", on which
                 \* no pending request was resent
    client,      \* the client's pending request, or what settled it
    ack,         \* its ack_result: not sent, under way, or gone
    dispatched,  \* history: how often k was dispatched
    results,     \* history: what the dispatches of k returned
    crashes      \* counts crashes, for the bound

journalVars == <<file, entries, recordCount>>
clientVars  == <<sent, connected, client, ack>>
historyVars == <<dispatched, results>>
vars == <<file, up, owned, entries, recordCount, handler, sent, connected,
          client, ack, dispatched, results, crashes>>

Copies == 1..MaxSends
\* A result record is represented by its response.
Lines == {"received", "acknowledged"} \cup Responses

-----------------------------------------------------------------------------
(* The file.  `torn': it does not end in a newline.  `atRisk': the key     *)
(* whose last record is complete but for that newline (at most one key).   *)

File == [log : [Keys -> Seq(Lines)], torn : BOOLEAN, atRisk : SUBSET Keys]

\* What load() keeps of a key: the entry of the last received record that
\* no acknowledgement follows, with the latest result after it.
Open(s) ==
    \E i \in DOMAIN s :
        /\ s[i] = "received"
        /\ \A j \in DOMAIN s : j > i => s[j] \in Responses

\* Mutant: the kind of the last record is taken for the entry.
LoadedLastKind(s) == IF s = <<>> THEN "absent" ELSE s[Len(s)]

Loaded(s) ==
    IF ~Open(s) THEN "absent"
    ELSE IF s[Len(s)] = "received" THEN "pending" ELSE s[Len(s)]

\* Lines that load() parses and counts.
ParsedLines(log) == UNION {{k} \X DOMAIN log[k] : k \in Keys}

\* The whole line and its newline reach the file.  After a torn write they
\* continue the unfinished line, and neither record can be parsed any more.
WriteLine(f, k, line) ==
    [log |-> IF f.torn
             THEN [j \in Keys |-> IF j \in f.atRisk
                                  THEN SubSeq(f.log[j], 1, Len(f.log[j]) - 1)
                                  ELSE f.log[j]]
             ELSE [f.log EXCEPT ![k] = Append(@, line)],
     torn |-> FALSE, atRisk |-> {}]

\* The write stops early: in the middle of the record, or just before the
\* newline, when the record itself is complete and still parses.
TornWrites(f, k, line) ==
    LET g == WriteLine(f, k, line)
    IN IF f.torn
       THEN {[log |-> g.log, torn |-> TRUE, atRisk |-> {}]}
       ELSE {[log |-> f.log, torn |-> TRUE, atRisk |-> {}],
             [log |-> g.log, torn |-> TRUE, atRisk |-> {k}]}

\* append() returned an error: the file could not be opened, the write
\* stopped early, or the line was written and sync_all or chmod failed.
FailedAppends(f, k, line) ==
    {f, WriteLine(f, k, line)}
        \cup IF TornAppends THEN TornWrites(f, k, line) ELSE {}

\* Mutant: compaction keeps only finished commands.
CompactedFinishedOnly(entry) ==
    IF entry \in {"absent", "pending"} THEN <<>> ELSE <<"received", entry>>

\* Mutant: compaction forgets the results.
CompactedReceiptsOnly(entry) ==
    IF entry = "absent" THEN <<>> ELSE <<"received">>

CompactedLines(entry) ==
    IF entry = "absent" THEN <<>>
    ELSE IF entry = "pending" THEN <<"received">>
    ELSE <<"received", entry>>

\* compact() replaces the file atomically by the records of the entries.
CompactedFile(es) ==
    [log |-> [k \in Keys |-> CompactedLines(es[k])],
     torn |-> FALSE, atRisk |-> {}]

-----------------------------------------------------------------------------
Init ==
    /\ file = [log |-> [k \in Keys |-> <<>>], torn |-> FALSE, atRisk |-> {}]
    /\ up = TRUE
    /\ owned = TRUE
    /\ entries = [k \in Keys |-> "absent"]
    /\ recordCount = 0
    /\ handler = [k \in Keys |-> [n \in Copies |-> "unsent"]]
    /\ sent = [k \in Keys |-> 0]
    /\ connected = [k \in Keys |-> "yes"]
    /\ client = [k \in Keys |-> "new"]
    /\ ack = [k \in Keys |-> "none"]
    /\ dispatched = [k \in Keys |-> 0]
    /\ results = [k \in Keys |-> {}]
    /\ crashes = 0

-----------------------------------------------------------------------------
(* The client.                                                             *)

Live(k, n) == connected[k] = "yes" /\ n = sent[k]

\* What a client has learnt once it is told a: only a request that is still
\* pending, on the connection that carried this copy, is settled by it.
Told(k, n, a) ==
    IF Live(k, n) /\ client[k] = "pending"
    THEN [client EXCEPT ![k] = a]
    ELSE client

Answered(k) == client[k] \in Responses \cup Excuses

\* A copy is written to the socket; the supervisor spawns a task for it.
Transmit(k) ==
    /\ sent[k] < MaxSends
    /\ sent' = [sent EXCEPT ![k] = @ + 1]
    /\ handler' = [handler EXCEPT ![k][sent[k] + 1] = "received"]

Send(k) ==
    /\ up /\ connected[k] # "no" /\ client[k] = "new"
    /\ client' = [client EXCEPT ![k] = "pending"]
    /\ Transmit(k)
    /\ UNCHANGED <<journalVars, up, owned, connected, ack, historyVars, crashes>>

Disconnect(k) ==
    /\ connected[k] # "no"
    /\ connected' = [connected EXCEPT ![k] = "no"]
    /\ UNCHANGED <<journalVars, up, owned, handler, sent, client, ack,
                   historyVars, crashes>>

\* The hello of the new connection resends every request awaiting reconnect.
Reconnect(k) ==
    /\ up /\ connected[k] = "no"
    /\ connected' = [connected EXCEPT ![k] = "yes"]
    /\ IF client[k] = "pending" THEN Transmit(k) ELSE UNCHANGED <<sent, handler>>
    /\ UNCHANGED <<journalVars, up, owned, client, ack, historyVars, crashes>>

\* The reader task is spawned before connect() sets quick_connected: a hello
\* that it handles in between finds the client not connected, and resends
\* nothing.  The supervisor sends one hello per connection.
ReconnectSilent(k) ==
    /\ up /\ connected[k] = "no" /\ client[k] = "pending"
    /\ connected' = [connected EXCEPT ![k] = "silent"]
    /\ UNCHANGED <<journalVars, up, owned, handler, sent, client, ack,
                   historyVars, crashes>>

\* The deadline passes, the caller aborts, or the close rejects a request that
\* is not recoverable: nothing is acknowledged and nothing is sent again.
GiveUp(k) ==
    /\ client[k] = "pending"
    /\ client' = [client EXCEPT ![k] = "gaveup"]
    /\ UNCHANGED <<journalVars, up, owned, handler, sent, connected, ack,
                   historyVars, crashes>>

\* Mutant: the acknowledgement does not wait for the response.
SendAckEarly(k) ==
    /\ up /\ connected[k] # "no" /\ sent[k] > 0 /\ ack[k] = "none"
    /\ ack' = [ack EXCEPT ![k] = "sent"]
    /\ UNCHANGED <<journalVars, up, owned, handler, sent, connected, client,
                   historyVars, crashes>>

SendAck(k) ==
    /\ up /\ connected[k] # "no" /\ Answered(k) /\ ack[k] = "none"
    /\ ack' = [ack EXCEPT ![k] = "sent"]
    /\ UNCHANGED <<journalVars, up, owned, handler, sent, connected, client,
                   historyVars, crashes>>

\* The connection went away before the supervisor read the line.
LoseCopy(k, n) ==
    /\ handler[k][n] = "received" /\ ~Live(k, n)
    /\ handler' = [handler EXCEPT ![k][n] = "done"]
    /\ UNCHANGED <<journalVars, up, owned, clientVars, historyVars, crashes>>

LoseAck(k) ==
    /\ ack[k] = "sent" /\ connected[k] = "no"
    /\ ack' = [ack EXCEPT ![k] = "done"]
    /\ UNCHANGED <<journalVars, up, owned, handler, sent, connected, client,
                   historyVars, crashes>>

-----------------------------------------------------------------------------
(* handle_line, from the ownership check to the verdict of begin().        *)

\* The handler writes answer a and ends.
Finish(k, n, a) ==
    /\ handler' = [handler EXCEPT ![k][n] = "done"]
    /\ client' = Told(k, n, a)
    /\ UNCHANGED <<up, owned, sent, connected, ack, crashes>>

Arrived(k, n) == up /\ handler[k][n] = "received"

BeginRefused(k, n) ==
    /\ Arrived(k, n) /\ ~owned
    /\ Finish(k, n, "failed")
    /\ UNCHANGED <<journalVars, historyVars>>

BeginComplete(k, n) ==
    /\ Arrived(k, n) /\ owned /\ entries[k] \in Responses
    /\ Finish(k, n, entries[k])
    /\ UNCHANGED <<journalVars, historyVars>>

\* Mutant: a pending command is answered as if it had succeeded.
BeginPendingAsSuccess(k, n) ==
    /\ Arrived(k, n) /\ owned /\ entries[k] = "pending"
    /\ \E r \in Responses : Finish(k, n, r)
    /\ UNCHANGED <<journalVars, historyVars>>

\* Mutant: a resent command whose first copy is pending is dropped.
BeginPendingSilent(k, n) ==
    /\ Arrived(k, n) /\ owned /\ entries[k] = "pending"
    /\ handler' = [handler EXCEPT ![k][n] = "done"]
    /\ UNCHANGED <<journalVars, up, owned, clientVars, historyVars, crashes>>

BeginPending(k, n) ==
    /\ Arrived(k, n) /\ owned /\ entries[k] = "pending"
    /\ Finish(k, n, "uncertain")
    /\ UNCHANGED <<journalVars, historyVars>>

\* Mutant: the receipt is kept in memory only.
BeginNewInMemory(k, n) ==
    /\ Arrived(k, n) /\ owned /\ entries[k] = "absent"
    /\ entries' = [entries EXCEPT ![k] = "pending"]
    /\ handler' = [handler EXCEPT ![k][n] = "dispatch"]
    /\ dispatched' = [dispatched EXCEPT ![k] = @ + 1]
    /\ UNCHANGED <<file, recordCount, up, owned, clientVars, results, crashes>>

BeginNew(k, n) ==
    /\ Arrived(k, n) /\ owned /\ entries[k] = "absent"
    /\ file' = WriteLine(file, k, "received")
    /\ recordCount' = recordCount + 1
    /\ entries' = [entries EXCEPT ![k] = "pending"]
    /\ handler' = [handler EXCEPT ![k][n] = "dispatch"]
    /\ dispatched' = [dispatched EXCEPT ![k] = @ + 1]
    /\ UNCHANGED <<up, owned, clientVars, results, crashes>>

BeginFails(k, n) ==
    /\ Arrived(k, n) /\ owned /\ entries[k] = "absent"
    /\ file' \in FailedAppends(file, k, "received")
    /\ Finish(k, n, "failed")
    /\ UNCHANGED <<recordCount, entries, historyVars>>

(* dispatch() and what follows it.                                         *)

\* The dispatch returns a response, a failure response included.
Return(k, n, r) ==
    /\ up /\ handler[k][n] = "dispatch"
    /\ handler' = [handler EXCEPT ![k][n] = r]
    /\ results' = [results EXCEPT ![k] = @ \cup {r}]
    /\ UNCHANGED <<journalVars, up, owned, clientVars, dispatched, crashes>>

\* shutdown and restart write their response themselves and return None, so
\* that no result is recorded.
ReturnWritten(k, n, r) ==
    /\ up /\ handler[k][n] = "dispatch"
    /\ results' = [results EXCEPT ![k] = @ \cup {r}]
    /\ Finish(k, n, r)
    /\ UNCHANGED <<journalVars, dispatched>>

Returned(k, n) == up /\ handler[k][n] \in Responses

\* After an append: entries es, and compaction when it is due.  A compaction
\* that fails makes the whole operation report failure; `ok' says which.  The
\* new file may be in place all the same: its directory is synced after the
\* rename, and the failure of that sync is reported too.
AppendAndCompact(k, line, es, due, ok) ==
    /\ entries' = es
    /\ due \/ ok
    /\ IF due /\ ok
       THEN /\ file' = CompactedFile(es)
            /\ recordCount' = Cardinality(ParsedLines(CompactedFile(es).log))
       ELSE /\ \/ file' = WriteLine(file, k, line)
               \/ due /\ file' = CompactedFile(es)
            /\ recordCount' = recordCount + 1

RecordResult(k, n) ==
    LET r  == handler[k][n]
        es == [entries EXCEPT ![k] = r]
        due == recordCount + 1 >= CompactAfter
    IN /\ Returned(k, n) /\ owned /\ entries[k] # "absent"
       /\ \E ok \in BOOLEAN :
              /\ AppendAndCompact(k, r, es, due, ok)
              /\ Finish(k, n, IF ok THEN r ELSE "failed")
       /\ UNCHANGED historyVars

\* Not the owner any more, or acknowledged while the command still ran.
RecordRefused(k, n) ==
    /\ Returned(k, n) /\ (~owned \/ entries[k] = "absent")
    /\ Finish(k, n, "failed")
    /\ UNCHANGED <<journalVars, historyVars>>

RecordFails(k, n) ==
    /\ Returned(k, n) /\ owned /\ entries[k] # "absent"
    /\ file' \in FailedAppends(file, k, handler[k][n])
    /\ Finish(k, n, "failed")
    /\ UNCHANGED <<recordCount, entries, historyVars>>

(* ack_result.                                                             *)

Acknowledge(k) ==
    LET es == [entries EXCEPT ![k] = "absent"]
        due == \/ recordCount + 1 >= CompactAfter
               \/ \A j \in Keys : es[j] = "absent"
    IN /\ up /\ ack[k] = "sent"
       /\ ack' = [ack EXCEPT ![k] = "done"]
       /\ \/ /\ owned /\ entries[k] # "absent"
             /\ \E ok \in BOOLEAN :
                    AppendAndCompact(k, "acknowledged", es, due, ok)
          \/ /\ owned /\ entries[k] # "absent"
             /\ file' \in FailedAppends(file, k, "acknowledged")
             /\ UNCHANGED <<entries, recordCount>>
          \/ /\ ~owned \/ entries[k] = "absent"
             /\ UNCHANGED journalVars
       /\ UNCHANGED <<up, owned, handler, sent, connected, client, historyVars,
                      crashes>>

-----------------------------------------------------------------------------
(* The supervisor process.                                                 *)

\* Another supervisor has taken the registration over.
LoseOwnership ==
    /\ up /\ owned
    /\ owned' = FALSE
    /\ UNCHANGED <<journalVars, up, handler, clientVars, historyVars, crashes>>

\* The appends that are under way: (key, line) pairs a handler is writing.
OngoingAppends ==
    {<<k, "received">> : k \in {j \in Keys :
        entries[j] = "absent" /\ \E n \in Copies : handler[j][n] = "received"}}
    \cup {<<k, "acknowledged">> : k \in {j \in Keys :
        entries[j] # "absent" /\ ack[j] = "sent"}}
    \cup UNION {{<<k, handler[k][n]>> : n \in {m \in Copies :
        handler[k][m] \in Responses}} : k \in {j \in Keys : entries[j] # "absent"}}

\* The process dies, possibly inside one append.  Memory is gone.
Crash ==
    /\ up /\ crashes < MaxCrashes
    /\ crashes' = crashes + 1
    /\ up' = FALSE
    /\ \/ UNCHANGED file
       \/ \E a \in OngoingAppends :
             owned /\ file' \in FailedAppends(file, a[1], a[2])
    /\ handler' = [k \in Keys |-> [n \in Copies |->
          IF handler[k][n] = "unsent" THEN "unsent" ELSE "done"]]
    /\ connected' = [k \in Keys |-> "no"]
    /\ ack' = [k \in Keys |-> IF ack[k] = "sent" THEN "done" ELSE ack[k]]
    /\ UNCHANGED <<owned, entries, recordCount, sent, client, historyVars>>

\* A new supervisor acquires ownership and loads the journal.
Restart ==
    /\ ~up
    /\ up' = TRUE
    /\ owned' = TRUE
    /\ entries' = [k \in Keys |-> Loaded(file.log[k])]
    /\ recordCount' = Cardinality(ParsedLines(file.log))
    /\ UNCHANGED <<file, handler, clientVars, historyVars, crashes>>

-----------------------------------------------------------------------------
ClientStep(k) ==
    \/ Send(k) \/ Disconnect(k) \/ Reconnect(k) \/ ReconnectSilent(k)
    \/ GiveUp(k) \/ SendAck(k) \/ LoseAck(k)

HandlerStep(k, n) ==
    \/ BeginRefused(k, n) \/ BeginComplete(k, n) \/ BeginPending(k, n)
    \/ BeginNew(k, n) \/ BeginFails(k, n)
    \/ \E r \in Responses : Return(k, n, r) \/ ReturnWritten(k, n, r)
    \/ RecordResult(k, n) \/ RecordRefused(k, n) \/ RecordFails(k, n)

Next ==
    \/ \E k \in Keys :
          \/ ClientStep(k)
          \/ \E n \in Copies : HandlerStep(k, n) \/ LoseCopy(k, n)
          \/ Acknowledge(k)
    \/ LoseOwnership
    \/ Crash
    \/ Restart

Spec == Init /\ [][Next]_vars

-----------------------------------------------------------------------------
(* Properties.                                                             *)

\* Type correctness: the journal file, the map in memory, the handler tasks and
\* the client's request only take the values the code gives them.
TypeOK ==
    /\ file \in File
    /\ up \in BOOLEAN
    /\ owned \in BOOLEAN
    /\ entries \in [Keys -> {"absent", "pending"} \cup Responses]
    /\ recordCount \in Nat
    /\ handler \in [Keys -> [Copies ->
            {"unsent", "received", "dispatch", "done"} \cup Responses]]
    /\ sent \in [Keys -> 0..MaxSends]
    /\ connected \in [Keys -> {"no", "yes", "silent"}]
    /\ client \in [Keys -> {"new", "pending", "gaveup"} \cup Responses \cup Excuses]
    /\ ack \in [Keys -> {"none", "sent", "done"}]
    /\ dispatched \in [Keys -> Nat]
    /\ results \in [Keys -> SUBSET Responses]
    /\ crashes \in 0..MaxCrashes

\* A command whose answer the client has not acknowledged is dispatched at most
\* once, however often it is resent and wherever the supervisor crashed: "a
\* missing result after a crash is therefore treated as uncertain and is never
\* replayed" (command_recovery_journal.rs, CommandRecoveryJournal).
NeverReplayed == \A k \in Keys : ack[k] = "none" => dispatched[k] <= 1

\* Only a response that a dispatch of this very command returned is ever handed
\* to its client as the result, whether it comes from the dispatch, from memory
\* or from a journal that was compacted and reloaded in between.
AnswersAreResults ==
    \A k \in Keys : client[k] \in Responses => client[k] \in results[k]

\* The file holds result r of k, and so does the memory of a running supervisor.
Recorded(k, r) ==
    /\ Loaded(file.log[k]) = r
    /\ up => entries[k] = r

\* The recorded result of a command is final until the client acknowledges it:
\* no append for another command, no compaction, no failed write, no crash and
\* no reload turns it back into an uncertain or an unknown one.
RecordedStaysRecorded ==
    [][\A k \in Keys, r \in Responses :
          ack[k] = "none" /\ Recorded(k, r) => Recorded(k, r)']_vars

\* What the file would restore covers what the running supervisor relies on: an
\* unacknowledged command that is pending or complete in memory is found again
\* by the next load(), so that a crash cannot turn it into a new command.
DiskCoversMemory ==
    \A k \in Keys :
        up /\ ack[k] = "none" /\ entries[k] # "absent"
            => Loaded(file.log[k]) # "absent"

AnswerSeen == [k \in Keys |-> IF Answered(k) THEN client[k] ELSE "none"]

\* The abstract promise, seen in the states of this module.
Once == INSTANCE CommandOnce WITH
            runs   <- dispatched,
            results <- results,
            answer <- AnswerSeen,
            acked  <- [k \in Keys |-> ack[k] # "none"]

\* The dispatches, answers and acknowledgements of handle_line and of its clients
\* are a behaviour of CommandOnce.
OnceSpec == Once!Spec

\* Somebody will answer the request: the copy that this connection carried is
\* with a handler of the running supervisor that has not ended.
InHand(k) ==
    /\ up /\ sent[k] > 0
    /\ handler[k][sent[k]] \in {"received", "dispatch"} \cup Responses

\* A request is never stranded on a connection that carried a copy of it:
\* whatever the other copies, the acknowledgements, the failed writes, the
\* crashes and the change of ownership did, handle_line still has that copy in
\* hand and answers it when it ends.
NeverStranded ==
    \A k \in Keys : client[k] = "pending" /\ connected[k] = "yes" => InHand(k)

\* "Keep in-flight command promises alive and resend their stable envelopes
\* after reconnect" (daemon_client.rs, enable_request_recovery): on a connection
\* whose hello has been handled, every pending request is in hand.
ResentAfterReconnect ==
    \A k \in Keys : client[k] = "pending" /\ connected[k] # "no" => InHand(k)
=============================================================================
