------------------------ MODULE CommandJournalProofs ------------------------
(***************************************************************************)
(* The command journal keeps its promise for every set of keys and         *)
(* responses, every compaction threshold and any number of resends and     *)
(* crashes, provided that no append is torn.                               *)
(***************************************************************************)
EXTENDS CommandJournal, FiniteSetTheorems, TLAPS

\* No write stopped before its newline.
Untorn == ~file.torn

\* An acknowledgement is only written once the client has sent one.
NoEarlyAck ==
    \A k \in Keys : ack[k] = "none" =>
        \A i \in DOMAIN file.log[k] : file.log[k][i] # "acknowledged"

\* The receipt of a dispatched command is on disk, and known to the supervisor.
Durable ==
    \A k \in Keys : ack[k] = "none" /\ dispatched[k] > 0 =>
        /\ Open(file.log[k])
        /\ up => entries[k] # "absent"

\* The receipt of every command in memory is on disk.
Covered ==
    \A k \in Keys : up /\ ack[k] = "none" /\ entries[k] # "absent" =>
        Open(file.log[k])

\* Every response anybody holds for k was returned by a dispatch of k.
Genuine ==
    \A k \in Keys :
        /\ entries[k] \in Responses => entries[k] \in results[k]
        /\ \A i \in DOMAIN file.log[k] :
              file.log[k][i] \in Responses => file.log[k][i] \in results[k]
        /\ \A n \in Copies :
              /\ handler[k][n] \in Responses => handler[k][n] \in results[k]
              /\ handler[k][n] = "dispatch" => dispatched[k] > 0

-----------------------------------------------------------------------------
(* The journal file.                                                       *)

\* A line written by append() leaves a well-formed file.
LEMMA WriteLineType ==
    ASSUME NEW f \in File, NEW k \in Keys, NEW line \in Lines
    PROVE  WriteLine(f, k, line) \in File
<1>1. CASE f.torn
  <2>1. \A j \in Keys : SubSeq(f.log[j], 1, Len(f.log[j]) - 1) \in Seq(Lines)
    BY DEF File
  <2> QED BY <1>1, <2>1 DEF WriteLine, File
<1>2. CASE ~f.torn
  BY <1>2 DEF WriteLine, File
<1> QED BY <1>1, <1>2

\* So does a write that stops early or reports an error.
LEMMA FailedAppendsType ==
    ASSUME NEW f \in File, NEW k \in Keys, NEW line \in Lines
    PROVE  FailedAppends(f, k, line) \subseteq File
<1>1. TornWrites(f, k, line) \subseteq File
  <2> DEFINE g == WriteLine(f, k, line)
  <2>1. g.log \in [Keys -> Seq(Lines)]
    BY WriteLineType DEF File
  <2>2. f.log \in [Keys -> Seq(Lines)]
    BY DEF File
  <2> HIDE DEF g
  <2>3. TornWrites(f, k, line) \subseteq
          {[log |-> g.log, torn |-> TRUE, atRisk |-> {}],
           [log |-> f.log, torn |-> TRUE, atRisk |-> {}],
           [log |-> g.log, torn |-> TRUE, atRisk |-> {k}]}
    BY DEF TornWrites, g
  <2>4. /\ [log |-> g.log, torn |-> TRUE, atRisk |-> {}] \in File
        /\ [log |-> f.log, torn |-> TRUE, atRisk |-> {}] \in File
        /\ [log |-> g.log, torn |-> TRUE, atRisk |-> {k}] \in File
    BY <2>1, <2>2 DEF File
  <2> QED BY <2>3, <2>4
<1> QED BY <1>1, WriteLineType DEF FailedAppends

\* Without torn writes an append adds its line to its key and nothing else.
LEMMA WriteLineUntorn ==
    ASSUME NEW f \in File, NEW k \in Keys, NEW line \in Lines, ~f.torn
    PROVE  /\ ~WriteLine(f, k, line).torn
           /\ WriteLine(f, k, line).log = [f.log EXCEPT ![k] = Append(@, line)]
  BY DEF WriteLine, File

\* And an append that fails did the same or nothing.
LEMMA FailedAppendsUntorn ==
    ASSUME NEW f \in File, NEW k \in Keys, NEW line \in Lines, ~f.torn,
           ~TornAppends, NEW g \in FailedAppends(f, k, line)
    PROVE  /\ ~g.torn
           /\ \/ g.log = f.log
              \/ g.log = [f.log EXCEPT ![k] = Append(@, line)]
<1>1. g = f \/ g = WriteLine(f, k, line)
  BY DEF FailedAppends
<1> QED BY <1>1, WriteLineUntorn

\* A received record opens its key's entry.
LEMMA OpenReceived ==
    ASSUME NEW s \in Seq(Lines)
    PROVE  Open(Append(s, "received"))
<1> DEFINE t == Append(s, "received")
<1>1. /\ DOMAIN t = 1..(Len(s) + 1)
      /\ t[Len(s) + 1] = "received"
  OBVIOUS
<1> QED BY <1>1 DEF Open

\* A result record keeps it open.
LEMMA OpenResult ==
    ASSUME NEW s \in Seq(Lines), NEW r \in Responses, Open(s)
    PROVE  Open(Append(s, r))
<1> DEFINE t == Append(s, r)
<1>1. PICK i \in DOMAIN s :
        /\ s[i] = "received"
        /\ \A j \in DOMAIN s : j > i => s[j] \in Responses
  BY DEF Open
<1>2. /\ DOMAIN t = 1..(Len(s) + 1)
      /\ t[Len(s) + 1] = r
      /\ \A j \in DOMAIN s : t[j] = s[j]
      /\ DOMAIN s = 1..Len(s)
      /\ Len(s) \in Nat
  OBVIOUS
<1>3. /\ i \in DOMAIN t
      /\ t[i] = "received"
      /\ \A j \in DOMAIN t : j > i => t[j] \in Responses
  BY <1>1, <1>2
<1> QED BY <1>3 DEF Open

\* compact() keeps every entry: it writes well-formed lines that open it.
LEMMA CompactedLinesOpen ==
    ASSUME NEW e \in {"absent", "pending"} \cup Responses
    PROVE  /\ CompactedLines(e) \in Seq(Lines)
           /\ e # "absent" => Open(CompactedLines(e))
           /\ \A i \in DOMAIN CompactedLines(e) :
                 CompactedLines(e)[i] # "acknowledged"
           /\ \A i \in DOMAIN CompactedLines(e) :
                 CompactedLines(e)[i] \in Responses => CompactedLines(e)[i] = e
<1>1. CASE e = "absent"
  BY <1>1 DEF CompactedLines
<1>2. CASE e = "pending"
  <2>1. CompactedLines(e) = <<"received">>
    BY <1>2 DEF CompactedLines
  <2>2. Open(<<"received">>)
    BY DEF Open
  <2>3. <<"received">> \in Seq(Lines)
    BY DEF Lines
  <2>4. "received" \notin Responses
    BY ResponsesAssumption
  <2>5. \A i \in DOMAIN <<"received">> : <<"received">>[i] = "received"
    OBVIOUS
  <2> QED BY <2>1, <2>2, <2>3, <2>4, <2>5
<1>3. CASE e \in Responses
  <2>1. CompactedLines(e) = <<"received", e>>
    BY <1>3, ResponsesAssumption DEF CompactedLines
  <2>2. Open(<<"received", e>>)
    BY <1>3 DEF Open
  <2> QED BY <1>3, <2>1, <2>2, ResponsesAssumption DEF Lines
<1> QED BY <1>1, <1>2, <1>3

\* compact() writes a file of the right type.
LEMMA CompactedFileType ==
    ASSUME NEW es \in [Keys -> {"absent", "pending"} \cup Responses]
    PROVE  /\ CompactedFile(es) \in File
           /\ ~CompactedFile(es).torn
           /\ \A k \in Keys : CompactedFile(es).log[k] = CompactedLines(es[k])
<1>1. \A k \in Keys : CompactedLines(es[k]) \in Seq(Lines)
  BY CompactedLinesOpen
<1> QED BY <1>1 DEF CompactedFile, File

\* load() yields an entry exactly for the keys that are open on disk.
LEMMA LoadedEntry ==
    ASSUME NEW s \in Seq(Lines)
    PROVE  /\ Loaded(s) \in {"absent", "pending"} \cup Responses
           /\ Loaded(s) # "absent" <=> Open(s)
           /\ Loaded(s) \in Responses => \E i \in DOMAIN s : s[i] = Loaded(s)
<1>1. CASE ~Open(s)
  BY <1>1, ResponsesAssumption DEF Loaded
<1>2. CASE Open(s)
  <2>1. PICK i \in DOMAIN s :
          /\ s[i] = "received"
          /\ \A j \in DOMAIN s : j > i => s[j] \in Responses
    BY <1>2 DEF Open
  <2>2. Len(s) \in DOMAIN s /\ (Len(s) = i \/ Len(s) > i)
    BY <2>1
  <2>3. s[Len(s)] = "received" \/ s[Len(s)] \in Responses
    BY <2>1, <2>2
  <2> QED BY <1>2, <2>2, <2>3, ResponsesAssumption DEF Loaded
<1> QED BY <1>1, <1>2

\* A file has finitely many lines, so record_count is a number.
LEMMA RecordCountType ==
    ASSUME NEW log \in [Keys -> Seq(Lines)]
    PROVE  Cardinality(ParsedLines(log)) \in Nat
<1> DEFINE part == [k \in Keys |-> {k} \X DOMAIN log[k]]
           parts == {{k} \X DOMAIN log[k] : k \in Keys}
<1>1. part \in Surjection(Keys, parts)
  BY DEF Surjection
<1>2. IsFiniteSet(parts)
  BY <1>1, KeysAssumption, FS_Surjection
<1>3. ASSUME NEW k \in Keys PROVE IsFiniteSet({k} \X DOMAIN log[k])
  <2>1. IsFiniteSet({k})
    BY FS_Singleton
  <2>2. IsFiniteSet(DOMAIN log[k])
    <3>1. DOMAIN log[k] = 1..Len(log[k]) /\ Len(log[k]) \in Int
      OBVIOUS
    <3> QED BY <3>1, FS_Interval
  <2> QED BY <2>1, <2>2, FS_Product
<1>4. IsFiniteSet(UNION parts)
  BY <1>2, <1>3, FS_UNION
<1> QED BY <1>4, FS_CardinalityType DEF ParsedLines

-----------------------------------------------------------------------------
(* Type correctness.                                                       *)

\* What a client learns keeps its request well-typed.
LEMMA ToldType ==
    ASSUME TypeOK, NEW k \in Keys, NEW n \in Copies,
           NEW a \in Responses \cup Excuses
    PROVE  Told(k, n, a) \in
               [Keys -> {"new", "pending", "gaveup"} \cup Responses \cup Excuses]
  BY DEF TypeOK, Told

\* Appending and compacting keeps the journal well-typed.
LEMMA AppendAndCompactType ==
    ASSUME TypeOK, NEW k \in Keys, NEW line \in Lines, NEW due, NEW ok,
           NEW es \in [Keys -> {"absent", "pending"} \cup Responses],
           AppendAndCompact(k, line, es, due, ok)
    PROVE  /\ file' \in File
           /\ entries' \in [Keys -> {"absent", "pending"} \cup Responses]
           /\ recordCount' \in Nat
<1>1. WriteLine(file, k, line) \in File /\ CompactedFile(es) \in File
  BY WriteLineType, CompactedFileType DEF TypeOK
<1>2. Cardinality(ParsedLines(CompactedFile(es).log)) \in Nat
  BY <1>1, RecordCountType DEF File
<1> QED BY <1>1, <1>2 DEF AppendAndCompact, TypeOK

\* Replacing one handler's state keeps the type of the handlers.
LEMMA HandlerType ==
    ASSUME TypeOK, NEW k \in Keys, NEW n \in Copies,
           NEW h \in {"unsent", "received", "dispatch", "done"} \cup Responses
    PROVE  [handler EXCEPT ![k][n] = h] \in [Keys -> [Copies ->
               {"unsent", "received", "dispatch", "done"} \cup Responses]]
  BY DEF TypeOK

\* A handler that ends leaves well-typed tasks and clients behind.
LEMMA FinishType ==
    ASSUME TypeOK, NEW k \in Keys, NEW n \in Copies,
           NEW a \in Responses \cup Excuses, Finish(k, n, a)
    PROVE  /\ handler' \in [Keys -> [Copies ->
                 {"unsent", "received", "dispatch", "done"} \cup Responses]]
           /\ client' \in
                 [Keys -> {"new", "pending", "gaveup"} \cup Responses \cup Excuses]
           /\ UNCHANGED <<up, owned, sent, connected, ack, crashes>>
  BY ToldType, HandlerType DEF Finish

\* A supervisor that starts on an empty journal is well typed.
LEMMA TypeInit == Init => TypeOK
  BY BoundsAssumption DEF Init, TypeOK, File, Copies

\* The client's operations (request_wire, reconnect, close, acknowledgement)
\* preserve the types.
LEMMA TypeClient ==
    ASSUME TypeOK, NEW k \in Keys, ClientStep(k)
    PROVE  TypeOK'
<1> USE DEF TypeOK, journalVars, historyVars
<1>t. ASSUME Transmit(k)
      PROVE  /\ sent' \in [Keys -> 0..MaxSends]
             /\ handler' \in [Keys -> [Copies ->
                   {"unsent", "received", "dispatch", "done"} \cup Responses]]
  <2>1. sent[k] + 1 \in Copies
    BY <1>t, BoundsAssumption DEF Transmit, Copies
  <2>2. sent[k] + 1 \in 0..MaxSends
    BY <2>1, BoundsAssumption DEF Copies
  <2> QED BY <1>t, <2>1, <2>2, HandlerType DEF Transmit
<1>1. CASE Send(k)
  BY <1>1, <1>t DEF Send
<1>2. CASE Disconnect(k)
  BY <1>2 DEF Disconnect
<1>3. CASE Reconnect(k)
  <2>1. CASE client[k] = "pending"
    BY <1>3, <2>1, <1>t DEF Reconnect
  <2>2. CASE client[k] # "pending"
    BY <1>3, <2>2 DEF Reconnect
  <2> QED BY <2>1, <2>2
<1>4. CASE GiveUp(k)
  BY <1>4 DEF GiveUp
<1>5. CASE SendAck(k)
  BY <1>5 DEF SendAck
<1>6. CASE LoseAck(k)
  BY <1>6 DEF LoseAck
<1>7. CASE ReconnectSilent(k)
  BY <1>7 DEF ReconnectSilent
<1> QED BY <1>1, <1>2, <1>3, <1>4, <1>5, <1>6, <1>7 DEF ClientStep

\* Every step of handle_line preserves the types.
LEMMA TypeHandler ==
    ASSUME TypeOK, NEW k \in Keys, NEW n \in Copies, HandlerStep(k, n)
    PROVE  TypeOK'
<1> USE DEF TypeOK, journalVars, historyVars, clientVars
<1>0. "failed" \in Responses \cup Excuses /\ "uncertain" \in Responses \cup Excuses
  BY DEF Excuses
<1>1. CASE BeginRefused(k, n)
  BY <1>0, <1>1, FinishType DEF BeginRefused
<1>2. CASE BeginComplete(k, n)
  BY <1>2, FinishType DEF BeginComplete
<1>3. CASE BeginPending(k, n)
  BY <1>0, <1>3, FinishType DEF BeginPending
<1>4. CASE BeginNew(k, n)
  <2>1. WriteLine(file, k, "received") \in File
    BY WriteLineType DEF Lines
  <2> QED BY <1>4, <2>1, HandlerType DEF BeginNew
<1>5. CASE BeginFails(k, n)
  <2>1. FailedAppends(file, k, "received") \subseteq File
    BY FailedAppendsType DEF Lines
  <2> QED BY <1>0, <1>5, <2>1, FinishType DEF BeginFails
<1>6. ASSUME NEW r \in Responses, Return(k, n, r) PROVE TypeOK'
  BY <1>6, HandlerType DEF Return
<1>7. ASSUME NEW r \in Responses, ReturnWritten(k, n, r) PROVE TypeOK'
  BY <1>7, FinishType DEF ReturnWritten
<1>8. CASE RecordResult(k, n)
  <2> DEFINE r  == handler[k][n]
             es == [entries EXCEPT ![k] = r]
             due == recordCount + 1 >= CompactAfter
  <2>1. r \in Responses
    BY <1>8 DEF RecordResult, Returned
  <2>2. PICK ok \in BOOLEAN :
          /\ AppendAndCompact(k, r, es, due, ok)
          /\ Finish(k, n, IF ok THEN r ELSE "failed")
    BY <1>8 DEF RecordResult
  <2>3. es \in [Keys -> {"absent", "pending"} \cup Responses] /\ r \in Lines
    BY <2>1 DEF Lines
  <2> HIDE DEF es, due
  <2>4. /\ file' \in File
        /\ entries' \in [Keys -> {"absent", "pending"} \cup Responses]
        /\ recordCount' \in Nat
    BY <2>2, <2>3, AppendAndCompactType
  <2>5. (IF ok THEN r ELSE "failed") \in Responses \cup Excuses
    BY <1>0, <2>1
  <2>6. /\ handler' \in [Keys -> [Copies ->
              {"unsent", "received", "dispatch", "done"} \cup Responses]]
        /\ client' \in
              [Keys -> {"new", "pending", "gaveup"} \cup Responses \cup Excuses]
        /\ UNCHANGED <<up, owned, sent, connected, ack, crashes>>
    BY <2>2, <2>5, FinishType
  <2>7. UNCHANGED historyVars
    BY <1>8 DEF RecordResult
  <2> QED BY <2>4, <2>6, <2>7
<1>9. CASE RecordRefused(k, n)
  BY <1>0, <1>9, FinishType DEF RecordRefused
<1>10. CASE RecordFails(k, n)
  <2>1. handler[k][n] \in Lines
    BY <1>10 DEF RecordFails, Returned, Lines
  <2>2. FailedAppends(file, k, handler[k][n]) \subseteq File
    BY <2>1, FailedAppendsType
  <2> QED BY <1>0, <1>10, <2>2, FinishType DEF RecordFails
<1> QED BY <1>1, <1>2, <1>3, <1>4, <1>5, <1>6, <1>7, <1>8, <1>9, <1>10
        DEF HandlerStep

\* acknowledge() preserves the types, compaction included.
LEMMA TypeAcknowledge ==
    ASSUME TypeOK, NEW k \in Keys, Acknowledge(k)
    PROVE  TypeOK'
<1> DEFINE es == [entries EXCEPT ![k] = "absent"]
           due == \/ recordCount + 1 >= CompactAfter
                  \/ \A j \in Keys : es[j] = "absent"
<1>0. "acknowledged" \in Lines /\ file \in File
  BY DEF Lines, TypeOK
<1>1. es \in [Keys -> {"absent", "pending"} \cup Responses]
  BY DEF TypeOK
<1>2. \/ \E ok \in BOOLEAN : AppendAndCompact(k, "acknowledged", es, due, ok)
      \/ /\ file' \in FailedAppends(file, k, "acknowledged")
         /\ UNCHANGED <<entries, recordCount>>
      \/ UNCHANGED journalVars
  BY DEF Acknowledge
<1> HIDE DEF es, due
<1>3. /\ file' \in File
      /\ entries' \in [Keys -> {"absent", "pending"} \cup Responses]
      /\ recordCount' \in Nat
  <2>1. CASE \E ok \in BOOLEAN : AppendAndCompact(k, "acknowledged", es, due, ok)
    BY <2>1, <1>0, <1>1, AppendAndCompactType
  <2>2. CASE /\ file' \in FailedAppends(file, k, "acknowledged")
             /\ UNCHANGED <<entries, recordCount>>
    BY <2>2, <1>0, FailedAppendsType DEF TypeOK
  <2>3. CASE UNCHANGED journalVars
    BY <2>3 DEF TypeOK, journalVars
  <2> QED BY <1>2, <2>1, <2>2, <2>3
<1>4. /\ ack' = [ack EXCEPT ![k] = "done"]
      /\ UNCHANGED <<up, owned, handler, sent, connected, client, historyVars,
                     crashes>>
  BY DEF Acknowledge
<1> QED BY <1>3, <1>4 DEF TypeOK, historyVars

\* An append that is under way writes a line of a key.
LEMMA OngoingAppendsType ==
    ASSUME TypeOK, NEW a \in OngoingAppends
    PROVE  a[1] \in Keys /\ a[2] \in Lines
  BY DEF OngoingAppends, TypeOK, Lines

\* A lost ownership, a crash and a reload preserve the types.
LEMMA TypeProcess ==
    ASSUME TypeOK, LoseOwnership \/ Crash \/ Restart
    PROVE  TypeOK'
<1> USE DEF TypeOK, journalVars, historyVars, clientVars
<1>1. CASE LoseOwnership
  BY <1>1 DEF LoseOwnership
<1>2. CASE Crash
  <2>1. file' \in File
    BY <1>2, OngoingAppendsType, FailedAppendsType DEF Crash
  <2>2. crashes' \in 0..MaxCrashes
    BY <1>2, BoundsAssumption DEF Crash
  <2> QED BY <1>2, <2>1, <2>2 DEF Crash
<1>3. CASE Restart
  <2>1. \A k \in Keys : file.log[k] \in Seq(Lines)
    BY DEF File
  <2>2. entries' \in [Keys -> {"absent", "pending"} \cup Responses]
    BY <1>3, <2>1, LoadedEntry DEF Restart
  <2>3. recordCount' \in Nat
    BY <1>3, RecordCountType DEF Restart, File
  <2> QED BY <1>3, <2>2, <2>3 DEF Restart
<1> QED BY <1>1, <1>2, <1>3

\* Every step preserves the types.
LEMMA TypeNext ==
    ASSUME TypeOK, [Next]_vars
    PROVE  TypeOK'
<1>1. ASSUME NEW k \in Keys, NEW n \in Copies, LoseCopy(k, n) PROVE TypeOK'
  BY <1>1, HandlerType DEF LoseCopy, TypeOK, journalVars, historyVars, clientVars
<1>2. CASE UNCHANGED vars
  BY <1>2 DEF TypeOK, vars
<1> QED BY <1>1, <1>2, TypeClient, TypeHandler, TypeAcknowledge, TypeProcess
        DEF Next

\* Type correctness of the journal, its handlers and its clients, for every
\* instance, torn appends included (command_recovery_journal.rs, handle_line).
THEOREM TypeCorrect == Spec => []TypeOK
  BY TypeInit, TypeNext, PTL DEF Spec

-----------------------------------------------------------------------------
(* At-most-once dispatch, without torn appends.                            *)

\* No response has the name of a state.
LEMMA Names ==
    /\ "received" \notin Responses /\ "acknowledged" \notin Responses
    /\ "absent" \notin Responses /\ "pending" \notin Responses
    /\ "dispatch" \notin Responses /\ "done" \notin Responses
    /\ "unsent" \notin Responses /\ "new" \notin Responses
    /\ "gaveup" \notin Responses /\ "none" \notin Responses
    /\ "failed" \notin Responses /\ "uncertain" \notin Responses
  BY ResponsesAssumption DEF Excuses

\* What a key's lines keep when at most one line is added to them.
LEMMA Grow ==
    ASSUME NEW s \in Seq(Lines), NEW line \in Lines,
           NEW t \in {s, Append(s, line)}
    PROVE  /\ \A i \in DOMAIN t : t[i] = line \/ \E j \in DOMAIN s : t[i] = s[j]
           /\ line # "acknowledged" /\ Open(s) => Open(t)
<1>1. \A i \in DOMAIN t : t[i] = line \/ \E j \in DOMAIN s : t[i] = s[j]
  <2>1. CASE t = s
    BY <2>1
  <2>2. CASE t = Append(s, line)
    <3>1. /\ DOMAIN t = 1..(Len(s) + 1)
          /\ t[Len(s) + 1] = line
          /\ \A j \in DOMAIN s : t[j] = s[j]
          /\ DOMAIN s = 1..Len(s)
      BY <2>2
    <3> QED BY <3>1
  <2> QED BY <2>1, <2>2
<1>2. line # "acknowledged" /\ Open(s) => Open(t)
  BY OpenReceived, OpenResult DEF Lines
<1> QED BY <1>1, <1>2

\* The file after an append, successful or not, key by key.
LEMMA AppendEffect ==
    ASSUME TypeOK, Untorn, ~TornAppends, NEW k \in Keys, NEW line \in Lines,
           \/ file' = WriteLine(file, k, line)
           \/ file' \in FailedAppends(file, k, line)
    PROVE  /\ Untorn'
           /\ \A j \in Keys : j # k => file'.log[j] = file.log[j]
           /\ file'.log[k] \in {file.log[k], Append(file.log[k], line)}
           /\ file' = WriteLine(file, k, line)
                 => file'.log[k] = Append(file.log[k], line)
<1>1. file \in File /\ ~file.torn
  BY DEF TypeOK, Untorn
<1>2. file.log \in [Keys -> Seq(Lines)]
  BY <1>1 DEF File
<1>3. /\ ~file'.torn
      /\ \/ file'.log = file.log
         \/ file'.log = [file.log EXCEPT ![k] = Append(@, line)]
      /\ file' = WriteLine(file, k, line)
            => file'.log = [file.log EXCEPT ![k] = Append(@, line)]
  BY <1>1, WriteLineUntorn, FailedAppendsUntorn
<1> QED BY <1>2, <1>3 DEF Untorn

Safe ==
    /\ Untorn
    /\ NoEarlyAck
    /\ Durable
    /\ Covered
    /\ Genuine
    /\ AnswersAreResults
    /\ NeverReplayed

\* The inductive invariant holds on an empty journal.
LEMMA SafeInit == Init => Safe
<1> SUFFICES ASSUME Init PROVE Safe
  OBVIOUS
<1>1. \A k \in Keys : DOMAIN file.log[k] = {}
  BY DEF Init
<1>2. \A k \in Keys : client[k] \notin Responses /\ entries[k] \notin Responses
  BY ResponsesAssumption DEF Init
<1>3. \A k \in Keys, n \in Copies :
        handler[k][n] \notin Responses /\ handler[k][n] # "dispatch"
  BY ResponsesAssumption DEF Init
<1> QED BY <1>1, <1>2, <1>3
        DEF Init, Safe, Untorn, NoEarlyAck, Durable, Covered, Genuine,
            AnswersAreResults, NeverReplayed

\* The client's own steps leave the journal alone.
LEMMA SafeClient ==
    ASSUME TypeOK, Safe, NEW k \in Keys,
           ClientStep(k) \/ \E n \in Copies : LoseCopy(k, n)
    PROVE  Safe'
<1> USE DEF Safe
<1>1. /\ UNCHANGED <<file, up, entries, dispatched, results>>
      /\ \A j \in Keys : ack'[j] = "none" => ack[j] = "none"
      /\ \A j \in Keys : client'[j] \in Responses => client'[j] = client[j]
      /\ \A j \in Keys, n \in Copies :
            handler'[j][n] = handler[j][n] \/ handler'[j][n] \in {"received", "done"}
  <2> USE Names DEF TypeOK, journalVars, historyVars, clientVars
  <2>t. Transmit(k) => \A j \in Keys, n \in Copies :
            handler'[j][n] = handler[j][n] \/ handler'[j][n] = "received"
    BY DEF Transmit
  <2>1. CASE Send(k)
    BY <2>1, <2>t DEF Send
  <2>2. CASE Disconnect(k)
    BY <2>2 DEF Disconnect
  <2>3. CASE Reconnect(k)
    BY <2>3, <2>t DEF Reconnect
  <2>4. CASE GiveUp(k)
    BY <2>4 DEF GiveUp
  <2>5. CASE SendAck(k)
    BY <2>5 DEF SendAck
  <2>6. CASE LoseAck(k)
    BY <2>6 DEF LoseAck
  <2>7. ASSUME NEW n \in Copies, LoseCopy(k, n)
        PROVE  \A j \in Keys, m \in Copies :
                 handler'[j][m] = handler[j][m] \/ handler'[j][m] = "done"
    BY <2>7 DEF LoseCopy
  <2>8. CASE \E n \in Copies : LoseCopy(k, n)
    BY <2>7, <2>8 DEF LoseCopy
  <2>9. CASE ReconnectSilent(k)
    BY <2>9 DEF ReconnectSilent
  <2> QED BY <2>1, <2>2, <2>3, <2>4, <2>5, <2>6, <2>8, <2>9 DEF ClientStep
<1>2. Untorn' /\ NoEarlyAck'
  BY <1>1 DEF Untorn, NoEarlyAck
<1>3. Durable' /\ Covered'
  BY <1>1 DEF Durable, Covered
<1>4. Genuine'
  <2> SUFFICES ASSUME NEW j \in Keys, NEW n \in Copies
               PROVE  /\ handler'[j][n] \in Responses => handler'[j][n] \in results[j]
                      /\ handler'[j][n] = "dispatch" => dispatched[j] > 0
    BY <1>1 DEF Genuine
  <2> QED BY <1>1, Names DEF Genuine
<1>5. AnswersAreResults' /\ NeverReplayed'
  BY <1>1 DEF AnswersAreResults, NeverReplayed
<1> QED BY <1>2, <1>3, <1>4, <1>5

\* The lines on disk are genuine responses of their keys.
GenuineLines ==
    \A k \in Keys : \A i \in DOMAIN file.log[k] :
        file.log[k][i] \in Responses => file.log[k][i] \in results[k]

\* What an append, successful or not, leaves of the file's invariants.
LEMMA AppendSafe ==
    ASSUME TypeOK, Safe, ~TornAppends, NEW k \in Keys, NEW line \in Lines,
           \/ file' = WriteLine(file, k, line)
           \/ file' \in FailedAppends(file, k, line),
           \A j \in Keys : ack'[j] = "none" => ack[j] = "none",
           \A j \in Keys : results[j] \subseteq results'[j],
           line = "acknowledged" => ack'[k] # "none",
           line \in Responses => line \in results'[k]
    PROVE  /\ Untorn' /\ NoEarlyAck' /\ GenuineLines'
           /\ \A j \in Keys : ack'[j] = "none" /\ Open(file.log[j])
                                 => Open(file'.log[j])
           /\ line = "received" /\ file' = WriteLine(file, k, line)
                 => Open(file'.log[k])
<1>1. /\ Untorn'
      /\ \A j \in Keys : j # k => file'.log[j] = file.log[j]
      /\ file'.log[k] \in {file.log[k], Append(file.log[k], line)}
      /\ file' = WriteLine(file, k, line)
            => file'.log[k] = Append(file.log[k], line)
  BY AppendEffect DEF Safe
<1>2. file.log[k] \in Seq(Lines)
  BY DEF TypeOK, File
<1>3. /\ \A i \in DOMAIN file'.log[k] :
            \/ file'.log[k][i] = line
            \/ \E j \in DOMAIN file.log[k] : file'.log[k][i] = file.log[k][j]
      /\ line # "acknowledged" /\ Open(file.log[k]) => Open(file'.log[k])
  BY <1>1, <1>2, Grow
<1>4. NoEarlyAck'
  <2> SUFFICES ASSUME NEW j \in Keys, ack'[j] = "none", NEW i \in DOMAIN file'.log[j]
               PROVE  file'.log[j][i] # "acknowledged"
    BY DEF NoEarlyAck
  <2>1. ack[j] = "none"
    OBVIOUS
  <2>2. CASE j = k
    BY <1>3, <2>1, <2>2 DEF Safe, NoEarlyAck
  <2>3. CASE j # k
    BY <1>1, <2>1, <2>3 DEF Safe, NoEarlyAck
  <2> QED BY <2>2, <2>3
<1>5. GenuineLines'
  <2> SUFFICES ASSUME NEW j \in Keys, NEW i \in DOMAIN file'.log[j],
                      file'.log[j][i] \in Responses
               PROVE  file'.log[j][i] \in results'[j]
    BY DEF GenuineLines
  <2>1. CASE j = k
    BY <1>3, <2>1 DEF Safe, Genuine
  <2>2. CASE j # k
    BY <1>1, <2>2 DEF Safe, Genuine
  <2> QED BY <2>1, <2>2
<1>6. line = "received" /\ file' = WriteLine(file, k, line) => Open(file'.log[k])
  BY <1>1, <1>2, OpenReceived
<1> QED BY <1>1, <1>3, <1>4, <1>5, <1>6

\* What a compaction leaves of them.
LEMMA CompactSafe ==
    ASSUME NEW es \in [Keys -> {"absent", "pending"} \cup Responses],
           file' = CompactedFile(es),
           \A j \in Keys : es[j] \in Responses => es[j] \in results'[j]
    PROVE  /\ Untorn' /\ NoEarlyAck' /\ GenuineLines'
           /\ \A j \in Keys : es[j] # "absent" => Open(file'.log[j])
<1>1. Untorn' /\ \A j \in Keys : file'.log[j] = CompactedLines(es[j])
  BY CompactedFileType DEF Untorn
<1>2. ASSUME NEW j \in Keys
      PROVE  /\ es[j] # "absent" => Open(file'.log[j])
             /\ \A i \in DOMAIN file'.log[j] : file'.log[j][i] # "acknowledged"
             /\ \A i \in DOMAIN file'.log[j] :
                   file'.log[j][i] \in Responses => file'.log[j][i] = es[j]
  BY <1>1, CompactedLinesOpen
<1>3. NoEarlyAck'
  BY <1>2 DEF NoEarlyAck
<1>4. GenuineLines'
  BY <1>2 DEF GenuineLines
<1> QED BY <1>1, <1>2, <1>3, <1>4

\* Appending and compacting together: entries es, of which the ones that are
\* not acknowledged were open on disk, stay open there.
LEMMA AppendAndCompactSafe ==
    ASSUME TypeOK, Safe, ~TornAppends, NEW k \in Keys, NEW line \in Lines,
           NEW due, NEW ok,
           NEW es \in [Keys -> {"absent", "pending"} \cup Responses],
           AppendAndCompact(k, line, es, due, ok),
           \A j \in Keys : ack'[j] = "none" => ack[j] = "none",
           UNCHANGED results,
           line = "acknowledged" => ack'[k] # "none",
           line \in Responses => line \in results[k],
           \A j \in Keys : es[j] \in Responses => es[j] \in results[j],
           \A j \in Keys : ack'[j] = "none" /\ es[j] # "absent"
                                 => Open(file.log[j])
    PROVE  /\ Untorn' /\ NoEarlyAck' /\ GenuineLines'
           /\ \A j \in Keys : ack'[j] = "none" /\ es[j] # "absent"
                                 => Open(file'.log[j])
<1>1. CASE file' = CompactedFile(es)
  BY <1>1, CompactSafe
<1>2. CASE file' = WriteLine(file, k, line)
  <2>1. \A j \in Keys : results[j] \subseteq results'[j]
    OBVIOUS
  <2> QED BY <1>2, <2>1, AppendSafe
<1> QED BY <1>1, <1>2 DEF AppendAndCompact

\* What a handler that ends leaves of the tasks and clients.
LEMMA FinishSafe ==
    ASSUME TypeOK, Safe, NEW k \in Keys, NEW n \in Copies,
           NEW a \in Responses \cup Excuses, Finish(k, n, a),
           \A j \in Keys : results[j] \subseteq results'[j],
           a \in Responses => a \in results'[k]
    PROVE  /\ AnswersAreResults'
           /\ UNCHANGED <<up, ack>>
           /\ \A j \in Keys, m \in Copies :
                 handler'[j][m] = handler[j][m] \/ handler'[j][m] = "done"
<1>1. UNCHANGED <<up, ack>>
  BY DEF Finish
<1>2. ASSUME NEW j \in Keys, NEW m \in Copies
      PROVE  handler'[j][m] = handler[j][m] \/ handler'[j][m] = "done"
  BY DEF Finish, TypeOK
<1>3. \A j \in Keys : client'[j] = client[j] \/ (j = k /\ client'[j] = a)
  BY DEF Finish, Told, TypeOK
<1>4. AnswersAreResults'
  BY <1>3 DEF AnswersAreResults, Safe
<1> QED BY <1>1, <1>2, <1>4

\* The handler's steps, from begin() to record_result().
LEMMA SafeHandler ==
    ASSUME TypeOK, Safe, ~TornAppends, NEW k \in Keys, NEW n \in Copies,
           HandlerStep(k, n)
    PROVE  Safe'
<1>0. /\ "failed" \in Responses \cup Excuses
      /\ "uncertain" \in Responses \cup Excuses
      /\ \A r \in Responses : r \in Responses \cup Excuses
      /\ "received" \in Lines
  BY DEF Excuses, Lines
<1>q. ASSUME NEW a \in Responses \cup Excuses, Finish(k, n, a),
             a \in Responses => a \in results[k],
             UNCHANGED <<journalVars, historyVars>>
      PROVE  Safe'
  <2>1. UNCHANGED <<file, entries, recordCount, dispatched, results>>
    BY <1>q DEF journalVars, historyVars
  <2>2. /\ AnswersAreResults'
        /\ UNCHANGED <<up, ack>>
        /\ \A j \in Keys, m \in Copies :
              handler'[j][m] = handler[j][m] \/ handler'[j][m] = "done"
    BY <1>q, <2>1, FinishSafe
  <2>3. Genuine'
    BY <2>1, <2>2, Names DEF Safe, Genuine
  <2> QED BY <2>1, <2>2, <2>3
          DEF Safe, Untorn, NoEarlyAck, Durable, Covered, NeverReplayed
<1>1. CASE BeginRefused(k, n)
  BY <1>0, <1>1, <1>q, Names DEF BeginRefused
<1>2. CASE BeginComplete(k, n)
  <2>1. entries[k] \in Responses /\ entries[k] \in results[k]
    BY <1>2 DEF BeginComplete, Safe, Genuine
  <2> QED BY <1>0, <1>2, <1>q, <2>1 DEF BeginComplete
<1>3. CASE BeginPending(k, n)
  BY <1>0, <1>3, <1>q, Names DEF BeginPending
<1>9. CASE RecordRefused(k, n)
  BY <1>0, <1>9, <1>q, Names DEF RecordRefused
<1>4. CASE BeginNew(k, n)
  <2>1. /\ up /\ entries[k] = "absent"
        /\ file' = WriteLine(file, k, "received")
        /\ entries' = [entries EXCEPT ![k] = "pending"]
        /\ handler' = [handler EXCEPT ![k][n] = "dispatch"]
        /\ dispatched' = [dispatched EXCEPT ![k] = @ + 1]
        /\ UNCHANGED <<up, ack, client, results>>
    BY <1>4 DEF BeginNew, Arrived, clientVars
  <2>2. /\ Untorn' /\ NoEarlyAck' /\ GenuineLines'
        /\ \A j \in Keys : ack'[j] = "none" /\ Open(file.log[j])
                              => Open(file'.log[j])
        /\ Open(file'.log[k])
    BY <1>0, <2>1, AppendSafe, Names
  <2>3. /\ \A j \in Keys : j # k => /\ entries'[j] = entries[j]
                                   /\ dispatched'[j] = dispatched[j]
        /\ entries'[k] = "pending"
        /\ dispatched'[k] = dispatched[k] + 1 /\ dispatched[k] \in Nat
    BY <2>1 DEF TypeOK
  <2>4. ack[k] = "none" => dispatched[k] = 0
    BY <2>1, <2>3 DEF Safe, Durable
  <2>5. Durable'
    BY <2>1, <2>2, <2>3 DEF Safe, Durable
  <2>6. Covered'
    BY <2>1, <2>2, <2>3 DEF Safe, Covered
  <2>7. Genuine'
    <3>1. \A j \in Keys, m \in Copies :
            \/ handler'[j][m] = handler[j][m]
            \/ j = k /\ handler'[j][m] = "dispatch"
      BY <2>1 DEF TypeOK
    <3>2. \A j \in Keys : dispatched[j] > 0 => dispatched'[j] > 0
      BY <2>3
    <3>3. dispatched'[k] > 0
      BY <2>3
    <3>4. ASSUME NEW j \in Keys
          PROVE  entries'[j] \in Responses => entries'[j] \in results'[j]
      BY <2>1, <2>3, Names DEF Safe, Genuine
    <3>5. ASSUME NEW j \in Keys, NEW m \in Copies
          PROVE  /\ handler'[j][m] \in Responses => handler'[j][m] \in results'[j]
                 /\ handler'[j][m] = "dispatch" => dispatched'[j] > 0
      BY <2>1, <3>1, <3>2, <3>3, Names DEF Safe, Genuine
    <3> QED BY <2>2, <3>4, <3>5 DEF Genuine, GenuineLines
  <2>8. AnswersAreResults' /\ NeverReplayed'
    BY <2>1, <2>3, <2>4 DEF Safe, AnswersAreResults, NeverReplayed
  <2> QED BY <2>2, <2>5, <2>6, <2>7, <2>8 DEF Safe
<1>f. ASSUME NEW line \in Lines, line # "acknowledged",
             line \in Responses => line \in results[k],
             file' \in FailedAppends(file, k, line),
             Finish(k, n, "failed"),
             UNCHANGED <<recordCount, entries, historyVars>>
      PROVE  Safe'
  <2>1. UNCHANGED <<entries, dispatched, results>>
    BY <1>f DEF historyVars
  <2>2. /\ AnswersAreResults'
        /\ UNCHANGED <<up, ack>>
        /\ \A j \in Keys, m \in Copies :
              handler'[j][m] = handler[j][m] \/ handler'[j][m] = "done"
    BY <1>0, <1>f, <2>1, FinishSafe, Names
  <2>3. /\ Untorn' /\ NoEarlyAck' /\ GenuineLines'
        /\ \A j \in Keys : ack'[j] = "none" /\ Open(file.log[j])
                              => Open(file'.log[j])
    BY <1>f, <2>1, <2>2, AppendSafe
  <2>4. Durable' /\ Covered' /\ NeverReplayed'
    BY <2>1, <2>2, <2>3 DEF Safe, Durable, Covered, NeverReplayed
  <2>5. Genuine'
    BY <2>1, <2>2, <2>3, Names DEF Safe, Genuine, GenuineLines
  <2> QED BY <2>2, <2>3, <2>4, <2>5 DEF Safe
<1>5. CASE BeginFails(k, n)
  BY <1>0, <1>5, <1>f, Names DEF BeginFails
<1>10. CASE RecordFails(k, n)
  <2>1. /\ handler[k][n] \in Lines
        /\ handler[k][n] # "acknowledged"
        /\ handler[k][n] \in results[k]
    BY <1>10, Names DEF RecordFails, Returned, Lines, Safe, Genuine
  <2> QED BY <1>10, <1>f, <2>1 DEF RecordFails
<1>6. ASSUME NEW r \in Responses, Return(k, n, r) PROVE Safe'
  <2>1. /\ handler[k][n] = "dispatch"
        /\ handler' = [handler EXCEPT ![k][n] = r]
        /\ results' = [results EXCEPT ![k] = @ \cup {r}]
        /\ UNCHANGED <<file, entries, up, ack, client, dispatched>>
    BY <1>6 DEF Return, journalVars, clientVars
  <2>2. /\ \A j \in Keys : results[j] \subseteq results'[j]
        /\ r \in results'[k]
    BY <2>1 DEF TypeOK
  <2>3. \A j \in Keys, m \in Copies :
          \/ handler'[j][m] = handler[j][m]
          \/ j = k /\ handler'[j][m] = r
    BY <2>1 DEF TypeOK
  <2>4. Genuine'
    <3>1. ASSUME NEW j \in Keys, NEW m \in Copies
          PROVE  /\ handler'[j][m] \in Responses => handler'[j][m] \in results'[j]
                 /\ handler'[j][m] = "dispatch" => dispatched'[j] > 0
      BY <2>1, <2>2, <2>3, Names DEF Safe, Genuine
    <3> QED BY <2>1, <2>2, <3>1 DEF Safe, Genuine
  <2>5. AnswersAreResults'
    BY <2>1, <2>2 DEF Safe, AnswersAreResults
  <2> QED BY <2>1, <2>4, <2>5
          DEF Safe, Untorn, NoEarlyAck, Durable, Covered, NeverReplayed
<1>7. ASSUME NEW r \in Responses, ReturnWritten(k, n, r) PROVE Safe'
  <2>1. /\ results' = [results EXCEPT ![k] = @ \cup {r}]
        /\ Finish(k, n, r)
        /\ UNCHANGED <<file, entries, dispatched>>
    BY <1>7 DEF ReturnWritten, journalVars
  <2>2. /\ \A j \in Keys : results[j] \subseteq results'[j]
        /\ r \in results'[k]
    BY <2>1 DEF TypeOK
  <2>3. /\ AnswersAreResults'
        /\ UNCHANGED <<up, ack>>
        /\ \A j \in Keys, m \in Copies :
              handler'[j][m] = handler[j][m] \/ handler'[j][m] = "done"
    BY <1>0, <2>1, <2>2, FinishSafe
  <2>4. Genuine'
    BY <2>1, <2>2, <2>3, Names DEF Safe, Genuine
  <2> QED BY <2>1, <2>3, <2>4
          DEF Safe, Untorn, NoEarlyAck, Durable, Covered, NeverReplayed
<1>8. CASE RecordResult(k, n)
  <2> DEFINE r  == handler[k][n]
             es == [entries EXCEPT ![k] = r]
             due == recordCount + 1 >= CompactAfter
  <2>1. PICK ok \in BOOLEAN :
          /\ AppendAndCompact(k, r, es, due, ok)
          /\ Finish(k, n, IF ok THEN r ELSE "failed")
    BY <1>8 DEF RecordResult
  <2>2. /\ up /\ entries[k] # "absent"
        /\ r \in Responses /\ r \in results[k]
        /\ UNCHANGED <<dispatched, results>>
    BY <1>8 DEF RecordResult, Returned, historyVars, Safe, Genuine
  <2>3. /\ es \in [Keys -> {"absent", "pending"} \cup Responses]
        /\ es[k] = r
        /\ \A j \in Keys : j # k => es[j] = entries[j]
        /\ r \in Lines /\ r # "acknowledged" /\ r # "absent"
    BY <2>2, Names DEF Lines, TypeOK
  <2> HIDE DEF es, due, r
  <2>4. (IF ok THEN r ELSE "failed") \in Responses \cup Excuses
    BY <1>0, <2>2
  <2>5. (IF ok THEN r ELSE "failed") \in Responses
           => (IF ok THEN r ELSE "failed") \in results'[k]
    BY <2>2, Names
  <2>6. /\ AnswersAreResults'
        /\ UNCHANGED <<up, ack>>
        /\ \A j \in Keys, m \in Copies :
              handler'[j][m] = handler[j][m] \/ handler'[j][m] = "done"
    BY <2>1, <2>2, <2>4, <2>5, FinishSafe
  <2>7. \A j \in Keys : es[j] \in Responses => es[j] \in results[j]
    BY <2>2, <2>3 DEF Safe, Genuine
  <2>8. \A j \in Keys : ack'[j] = "none" /\ es[j] # "absent" => Open(file.log[j])
    BY <2>2, <2>3, <2>6 DEF Safe, Covered
  <2>9. /\ Untorn' /\ NoEarlyAck' /\ GenuineLines'
        /\ \A j \in Keys : ack'[j] = "none" /\ es[j] # "absent"
                              => Open(file'.log[j])
    BY <2>1, <2>2, <2>3, <2>6, <2>7, <2>8, AppendAndCompactSafe
  <2>10. entries' = es
    BY <2>1 DEF AppendAndCompact
  <2>11. Durable'
    BY <2>2, <2>3, <2>6, <2>9, <2>10 DEF Safe, Durable
  <2>12. Covered' /\ NeverReplayed'
    BY <2>2, <2>6, <2>9, <2>10 DEF Safe, Covered, NeverReplayed
  <2>13. Genuine'
    BY <2>2, <2>6, <2>7, <2>9, <2>10, Names DEF Safe, Genuine, GenuineLines
  <2> QED BY <2>6, <2>9, <2>11, <2>12, <2>13 DEF Safe
<1> QED BY <1>1, <1>2, <1>3, <1>4, <1>5, <1>6, <1>7, <1>8, <1>9, <1>10
        DEF HandlerStep

\* ack_result: only the acknowledged key may lose its entry.
LEMMA SafeAcknowledge ==
    ASSUME TypeOK, Safe, ~TornAppends, NEW k \in Keys, Acknowledge(k)
    PROVE  Safe'
<1> DEFINE es == [entries EXCEPT ![k] = "absent"]
           due == \/ recordCount + 1 >= CompactAfter
                  \/ \A j \in Keys : es[j] = "absent"
<1>1. /\ up
      /\ ack' = [ack EXCEPT ![k] = "done"]
      /\ UNCHANGED <<up, handler, client, dispatched, results>>
  BY DEF Acknowledge, historyVars
<1>2. /\ ack'[k] = "done"
      /\ \A j \in Keys : j # k => ack'[j] = ack[j]
      /\ \A j \in Keys : ack'[j] = "none" => ack[j] = "none" /\ j # k
  BY <1>1 DEF TypeOK
<1>3. /\ es \in [Keys -> {"absent", "pending"} \cup Responses]
      /\ es[k] = "absent"
      /\ \A j \in Keys : j # k => es[j] = entries[j]
      /\ "acknowledged" \in Lines
  BY DEF TypeOK, Lines
<1>4. \/ \E ok \in BOOLEAN : AppendAndCompact(k, "acknowledged", es, due, ok)
      \/ /\ file' \in FailedAppends(file, k, "acknowledged")
         /\ UNCHANGED <<entries, recordCount>>
      \/ UNCHANGED journalVars
  BY DEF Acknowledge
<1> HIDE DEF es, due
<1>5. /\ Untorn' /\ NoEarlyAck' /\ GenuineLines'
      /\ \A j \in Keys : ack'[j] = "none" => entries'[j] = entries[j]
      /\ \A j \in Keys : entries'[j] \in Responses => entries'[j] \in results'[j]
      /\ \A j \in Keys : ack'[j] = "none" /\ entries[j] # "absent"
                            => Open(file'.log[j])
  <2>1. CASE \E ok \in BOOLEAN : AppendAndCompact(k, "acknowledged", es, due, ok)
    <3>1. PICK ok \in BOOLEAN : AppendAndCompact(k, "acknowledged", es, due, ok)
      BY <2>1
    <3>2. entries' = es
      BY <3>1 DEF AppendAndCompact
    <3>3. \A j \in Keys : es[j] \in Responses => es[j] \in results[j]
      BY <1>3, Names DEF Safe, Genuine
    <3>4. \A j \in Keys : ack'[j] = "none" /\ es[j] # "absent" => Open(file.log[j])
      BY <1>1, <1>2, <1>3 DEF Safe, Covered
    <3>5. /\ Untorn' /\ NoEarlyAck' /\ GenuineLines'
          /\ \A j \in Keys : ack'[j] = "none" /\ es[j] # "absent"
                                => Open(file'.log[j])
      BY <1>1, <1>2, <1>3, <3>1, <3>3, <3>4, Names, AppendAndCompactSafe
    <3> QED BY <1>1, <1>2, <1>3, <3>2, <3>3, <3>5
  <2>2. CASE /\ file' \in FailedAppends(file, k, "acknowledged")
             /\ UNCHANGED <<entries, recordCount>>
    <3>1. /\ Untorn' /\ NoEarlyAck' /\ GenuineLines'
          /\ \A j \in Keys : ack'[j] = "none" /\ Open(file.log[j])
                                => Open(file'.log[j])
      BY <1>1, <1>2, <1>3, <2>2, Names, AppendSafe
    <3> QED BY <1>1, <1>2, <2>2, <3>1 DEF Safe, Covered, Genuine
  <2>3. CASE UNCHANGED journalVars
    <3>1. UNCHANGED <<file, entries>>
      BY <2>3 DEF journalVars
    <3>2. Untorn' /\ NoEarlyAck' /\ GenuineLines'
      BY <1>1, <1>2, <3>1
         DEF Safe, Untorn, NoEarlyAck, GenuineLines, Genuine
    <3> QED BY <1>1, <1>2, <3>1, <3>2 DEF Safe, Covered, Genuine
  <2> QED BY <1>4, <2>1, <2>2, <2>3
<1>6. Durable' /\ Covered'
  BY <1>1, <1>2, <1>5 DEF Safe, Durable, Covered
<1>7. Genuine'
  BY <1>1, <1>5 DEF Safe, Genuine, GenuineLines
<1>8. AnswersAreResults' /\ NeverReplayed'
  BY <1>1, <1>2 DEF Safe, AnswersAreResults, NeverReplayed
<1> QED BY <1>5, <1>6, <1>7, <1>8 DEF Safe

\* Crashes, also inside an append, and restarts from the file.
LEMMA SafeProcess ==
    ASSUME TypeOK, Safe, ~TornAppends, LoseOwnership \/ Crash \/ Restart
    PROVE  Safe'
<1>1. CASE LoseOwnership
  BY <1>1 DEF LoseOwnership, journalVars, clientVars, historyVars, Safe, Untorn,
              NoEarlyAck, Durable, Covered, Genuine, AnswersAreResults,
              NeverReplayed
<1>2. CASE Crash
  <2>1. /\ up' = FALSE
        /\ UNCHANGED <<entries, client, dispatched, results>>
        /\ \A j \in Keys : ack'[j] = "none" => ack[j] = "none"
        /\ \A j \in Keys, n \in Copies : handler'[j][n] \in {"unsent", "done"}
    BY <1>2 DEF Crash, historyVars
  <2>2. /\ Untorn' /\ NoEarlyAck' /\ GenuineLines'
        /\ \A j \in Keys : ack'[j] = "none" /\ Open(file.log[j])
                              => Open(file'.log[j])
    <3>1. CASE UNCHANGED file
      <4>1. Untorn' /\ NoEarlyAck'
        BY <2>1, <3>1 DEF Safe, Untorn, NoEarlyAck
      <4>2. GenuineLines'
        BY <2>1, <3>1 DEF Safe, GenuineLines, Genuine
      <4> QED BY <3>1, <4>1, <4>2
    <3>2. ASSUME NEW a \in OngoingAppends, file' \in FailedAppends(file, a[1], a[2])
          PROVE  /\ Untorn' /\ NoEarlyAck' /\ GenuineLines'
                 /\ \A j \in Keys : ack'[j] = "none" /\ Open(file.log[j])
                                       => Open(file'.log[j])
      <4>1. a[1] \in Keys /\ a[2] \in Lines
        BY OngoingAppendsType
      <4>2. a[2] = "acknowledged" => ack[a[1]] = "sent"
        BY Names DEF OngoingAppends
      <4>3. ack[a[1]] = "sent" => ack'[a[1]] # "none"
        BY <1>2, <4>1 DEF Crash
      <4>4. a[2] \in Responses =>
              \E n \in Copies : handler[a[1]][n] = a[2]
        BY Names DEF OngoingAppends
      <4>5. a[2] \in Responses => a[2] \in results'[a[1]]
        BY <2>1, <4>1, <4>4 DEF Safe, Genuine
      <4> QED BY <2>1, <3>2, <4>1, <4>2, <4>3, <4>5, AppendSafe
    <3> QED BY <1>2, <3>1, <3>2 DEF Crash
  <2>3. Durable' /\ Covered'
    BY <2>1, <2>2 DEF Safe, Durable, Covered
  <2>4. Genuine'
    BY <2>1, <2>2, Names DEF Safe, Genuine, GenuineLines
  <2>5. AnswersAreResults' /\ NeverReplayed'
    BY <2>1 DEF Safe, AnswersAreResults, NeverReplayed
  <2> QED BY <2>2, <2>3, <2>4, <2>5 DEF Safe
<1>3. CASE Restart
  <2>1. /\ entries' = [k \in Keys |-> Loaded(file.log[k])]
        /\ UNCHANGED <<file, handler, ack, client, dispatched, results>>
    BY <1>3 DEF Restart, clientVars, historyVars
  <2>2. \A k \in Keys : file.log[k] \in Seq(Lines)
    BY DEF TypeOK, File
  <2>3. ASSUME NEW k \in Keys
        PROVE  /\ entries'[k] # "absent" <=> Open(file.log[k])
               /\ entries'[k] \in Responses
                     => \E i \in DOMAIN file.log[k] : file.log[k][i] = entries'[k]
    BY <2>1, <2>2, LoadedEntry
  <2>4. Durable' /\ Covered'
    BY <2>1, <2>3 DEF Safe, Durable, Covered
  <2>5. Genuine'
    BY <2>1, <2>3 DEF Safe, Genuine
  <2> QED BY <2>1, <2>4, <2>5
          DEF Safe, Untorn, NoEarlyAck, AnswersAreResults, NeverReplayed
<1> QED BY <1>1, <1>2, <1>3

\* Every step preserves the inductive invariant.
LEMMA SafeNext ==
    ASSUME TypeOK, Safe, ~TornAppends, [Next]_vars
    PROVE  Safe'
<1>1. CASE UNCHANGED vars
  BY <1>1 DEF vars, Safe, Untorn, NoEarlyAck, Durable, Covered, Genuine,
              AnswersAreResults, NeverReplayed
<1> QED BY <1>1, SafeClient, SafeHandler, SafeAcknowledge, SafeProcess DEF Next

\* The inductive invariant holds in every reachable state.
THEOREM Invariance == ~TornAppends /\ Spec => [](TypeOK /\ Safe)
<1>1. ASSUME ~TornAppends PROVE Spec => [](TypeOK /\ Safe)
  <2>1. TypeOK /\ Safe /\ [Next]_vars => (TypeOK /\ Safe)'
    BY <1>1, TypeNext, SafeNext
  <2> QED BY <2>1, TypeInit, SafeInit, PTL DEF Spec
<1> QED BY <1>1

\* A command that its client has not acknowledged is never dispatched a second
\* time, whatever is resent and wherever the supervisor crashes: the promise in
\* the comment on CommandRecoveryJournal, if no append is torn.
THEOREM AtMostOnce == ~TornAppends /\ Spec => []NeverReplayed
  BY Invariance, PTL DEF Safe

\* No client takes for its command's result what no dispatch of it returned.
THEOREM AnswersGenuine == ~TornAppends /\ Spec => []AnswersAreResults
  BY Invariance, PTL DEF Safe

\* Whatever the running supervisor relies on is found again after a crash.
THEOREM MemoryIsDurable == ~TornAppends /\ Spec => []DiskCoversMemory
<1>1. TypeOK /\ Safe => DiskCoversMemory
  <2> SUFFICES ASSUME TypeOK, Safe, NEW k \in Keys, up, ack[k] = "none",
                      entries[k] # "absent"
               PROVE  Loaded(file.log[k]) # "absent"
    BY DEF DiskCoversMemory
  <2>1. file.log[k] \in Seq(Lines) /\ Open(file.log[k])
    BY DEF TypeOK, File, Safe, Covered
  <2> QED BY <2>1, LoadedEntry
<1> QED BY <1>1, Invariance, PTL

-----------------------------------------------------------------------------
(* A recorded result is final, without torn appends.                       *)

\* A handler between begin() and the end of record_result().
Busy == {"dispatch"} \cup Responses

\* An unacknowledged command has at most one handler at work, and its entry is
\* pending as long as there is one: no second result can reach the journal.
Alone ==
    \A k \in Keys : ack[k] = "none" =>
        \A n \in Copies : handler[k][n] \in Busy =>
            /\ up
            /\ entries[k] = "pending"
            /\ \A m \in Copies : handler[k][m] \in Busy => m = n

\* No handler is at work when the supervisor starts for the first time.
LEMMA AloneInit == Init => Alone
  BY Names DEF Init, Alone, Busy

\* A step keeps Alone for every key that it either leaves without a handler at
\* work or changes neither the entry nor adds a handler of.
LEMMA AloneKept ==
    ASSUME Alone,
           \A j \in Keys : ack'[j] = "none" =>
               \/ \A n \in Copies : handler'[j][n] \notin Busy
               \/ /\ ack[j] = "none"
                  /\ up' = up
                  /\ entries'[j] = entries[j]
                  /\ \A n \in Copies :
                        handler'[j][n] \in Busy => handler[j][n] \in Busy
    PROVE  Alone'
  BY DEF Alone, Busy

\* The end of a handler starts no other.
LEMMA FinishBusy ==
    ASSUME TypeOK, NEW k \in Keys, NEW n \in Copies, NEW a, Finish(k, n, a)
    PROVE  /\ UNCHANGED <<up, ack>>
           /\ handler'[k][n] \notin Busy
           /\ \A j \in Keys, m \in Copies :
                 handler'[j][m] \in Busy => handler[j][m] \in Busy
  BY Names DEF Finish, TypeOK, Busy

\* The client's steps start no handler's work.
LEMMA AloneClient ==
    ASSUME TypeOK, Alone, NEW k \in Keys,
           ClientStep(k) \/ \E n \in Copies : LoseCopy(k, n)
    PROVE  /\ UNCHANGED <<file, up, entries>>
           /\ Alone'
<1>1. /\ UNCHANGED <<file, up, entries>>
      /\ \A j \in Keys : ack'[j] = "none" => ack[j] = "none"
      /\ \A j \in Keys, n \in Copies :
            handler'[j][n] \in Busy => handler[j][n] \in Busy
  <2> USE Names DEF TypeOK, journalVars, historyVars, clientVars
  <2>t. Transmit(k) => \A j \in Keys, n \in Copies :
            handler'[j][n] \in Busy => handler[j][n] \in Busy
    BY DEF Transmit, Busy
  <2>1. CASE Send(k)
    BY <2>1, <2>t DEF Send
  <2>2. CASE Disconnect(k)
    BY <2>2 DEF Disconnect
  <2>3. CASE Reconnect(k)
    BY <2>3, <2>t DEF Reconnect
  <2>4. CASE GiveUp(k)
    BY <2>4 DEF GiveUp
  <2>5. CASE SendAck(k)
    BY <2>5 DEF SendAck
  <2>6. CASE LoseAck(k)
    BY <2>6 DEF LoseAck
  <2>7. ASSUME NEW n \in Copies, LoseCopy(k, n)
        PROVE  \A j \in Keys, m \in Copies :
                 handler'[j][m] \in Busy => handler[j][m] \in Busy
    BY <2>7 DEF LoseCopy, Busy
  <2>8. CASE \E n \in Copies : LoseCopy(k, n)
    BY <2>7, <2>8 DEF LoseCopy
  <2>9. CASE ReconnectSilent(k)
    BY <2>9 DEF ReconnectSilent
  <2> QED BY <2>1, <2>2, <2>3, <2>4, <2>5, <2>6, <2>8, <2>9 DEF ClientStep
<1> QED BY <1>1, AloneKept

\* A handler starts its work only on an absent entry, and a result is recorded
\* by the one handler that works.
LEMMA AloneHandler ==
    ASSUME TypeOK, Alone, NEW k \in Keys, NEW n \in Copies, HandlerStep(k, n)
    PROVE  Alone'
<1>q. ASSUME NEW a, Finish(k, n, a), UNCHANGED entries PROVE Alone'
  BY <1>q, FinishBusy, AloneKept
<1>1. CASE BeginRefused(k, n)
  BY <1>1, <1>q DEF BeginRefused, journalVars
<1>2. CASE BeginComplete(k, n)
  BY <1>2, <1>q DEF BeginComplete, journalVars
<1>3. CASE BeginPending(k, n)
  BY <1>3, <1>q DEF BeginPending, journalVars
<1>4. CASE BeginNew(k, n)
  <2>1. /\ UNCHANGED <<up, ack>> /\ up
        /\ entries'[k] = "pending"
        /\ \A j \in Keys : j # k => entries'[j] = entries[j]
        /\ \A j \in Keys, m \in Copies :
              j # k \/ m # n => handler'[j][m] = handler[j][m]
    BY <1>4 DEF BeginNew, Arrived, clientVars, TypeOK
  <2>2. ack[k] = "none" => \A m \in Copies : handler[k][m] \notin Busy
    BY <1>4 DEF BeginNew, Alone
  <2> QED BY <2>1, <2>2 DEF Alone
<1>5. CASE BeginFails(k, n)
  BY <1>5, <1>q DEF BeginFails
<1>6. ASSUME NEW r \in Responses, Return(k, n, r) PROVE Alone'
  <2>1. /\ UNCHANGED <<up, entries, ack>>
        /\ handler[k][n] \in Busy
        /\ \A j \in Keys, m \in Copies :
              j # k \/ m # n => handler'[j][m] = handler[j][m]
    BY <1>6 DEF Return, journalVars, clientVars, TypeOK, Busy
  <2> QED BY <2>1, AloneKept
<1>7. ASSUME NEW r \in Responses, ReturnWritten(k, n, r) PROVE Alone'
  BY <1>7, <1>q DEF ReturnWritten, journalVars
<1>8. CASE RecordResult(k, n)
  <2>1. PICK a : Finish(k, n, a)
    BY <1>8 DEF RecordResult
  <2>2. /\ entries' = [entries EXCEPT ![k] = handler[k][n]]
        /\ handler[k][n] \in Busy
    BY <1>8 DEF RecordResult, AppendAndCompact, Returned, Busy
  <2>3. \A j \in Keys : j # k => entries'[j] = entries[j]
    BY <2>2 DEF TypeOK
  <2>4. ack[k] = "none" => \A m \in Copies : handler'[k][m] \notin Busy
    BY <2>1, <2>2, FinishBusy DEF Alone
  <2> QED BY <2>1, <2>3, <2>4, FinishBusy, AloneKept
<1>9. CASE RecordRefused(k, n)
  BY <1>9, <1>q DEF RecordRefused, journalVars
<1>10. CASE RecordFails(k, n)
  BY <1>10, <1>q DEF RecordFails
<1> QED BY <1>1, <1>2, <1>3, <1>4, <1>5, <1>6, <1>7, <1>8, <1>9, <1>10
        DEF HandlerStep

\* An acknowledgement touches the entry of its own command only.
LEMMA AloneAcknowledge ==
    ASSUME TypeOK, Alone, NEW k \in Keys, Acknowledge(k)
    PROVE  Alone'
<1>1. /\ ack' = [ack EXCEPT ![k] = "done"]
      /\ UNCHANGED <<up, handler>>
  BY DEF Acknowledge
<1>2. \A j \in Keys : j # k => entries'[j] = entries[j]
  BY DEF Acknowledge, AppendAndCompact, journalVars, TypeOK
<1>3. \A j \in Keys : ack'[j] = "none" => ack[j] = "none" /\ j # k
  BY <1>1 DEF TypeOK
<1> QED BY <1>1, <1>2, <1>3, AloneKept

\* A crash ends all handlers, so the entries of the next load find none at work.
LEMMA AloneProcess ==
    ASSUME TypeOK, Alone, LoseOwnership \/ Crash \/ Restart
    PROVE  Alone'
<1>1. CASE LoseOwnership
  BY <1>1 DEF LoseOwnership, journalVars, clientVars, Alone
<1>2. CASE Crash
  <2>1. \A j \in Keys, m \in Copies : handler'[j][m] \in {"unsent", "done"}
    BY <1>2 DEF Crash
  <2> QED BY <2>1, Names, AloneKept DEF Busy
<1>3. CASE Restart
  <2>1. ~up /\ UNCHANGED <<handler, ack>>
    BY <1>3 DEF Restart, clientVars
  <2>2. \A j \in Keys : ack[j] = "none" => \A m \in Copies : handler[j][m] \notin Busy
    BY <2>1 DEF Alone
  <2> QED BY <2>1, <2>2, AloneKept
<1> QED BY <1>1, <1>2, <1>3

\* Every step keeps the handlers of a command apart.
LEMMA AloneNext ==
    ASSUME TypeOK, Alone, [Next]_vars
    PROVE  Alone'
<1>1. CASE UNCHANGED vars
  BY <1>1 DEF vars, Alone
<1> QED BY <1>1, AloneClient, AloneHandler, AloneAcknowledge, AloneProcess DEF Next

\* What load() makes of a compacted result.
LEMMA CompactedResult ==
    ASSUME NEW r \in Responses
    PROVE  Loaded(CompactedLines(r)) = r
<1>1. CompactedLines(r) = <<"received", r>>
  BY Names DEF CompactedLines
<1>2. Open(<<"received", r>>)
  BY DEF Open
<1>3. Len(<<"received", r>>) = 2 /\ <<"received", r>>[2] = r
  OBVIOUS
<1> QED BY <1>1, <1>2, <1>3, Names DEF Loaded

\* An append for another command, and the compaction behind it, keep a result
\* that is in the file and in memory.
LEMMA OthersKeepResult ==
    ASSUME TypeOK, Untorn, ~TornAppends, NEW k \in Keys, NEW r \in Responses,
           Loaded(file.log[k]) = r, entries[k] = r,
           NEW j \in Keys, j # k, NEW line \in Lines,
           NEW e \in {"absent", "pending"} \cup Responses, NEW due, NEW ok,
           AppendAndCompact(j, line, [entries EXCEPT ![j] = e], due, ok)
    PROVE  Loaded(file'.log[k]) = r /\ entries'[k] = r
<1> DEFINE es == [entries EXCEPT ![j] = e]
<1>1. /\ es \in [Keys -> {"absent", "pending"} \cup Responses]
      /\ es[k] = r
      /\ entries' = es
  BY DEF TypeOK, AppendAndCompact
<1>2. file' = CompactedFile(es) \/ file' = WriteLine(file, j, line)
  BY DEF AppendAndCompact
<1> HIDE DEF es
<1>3. CASE file' = CompactedFile(es)
  <2>1. file'.log[k] = CompactedLines(r)
    BY <1>1, <1>3, CompactedFileType
  <2> QED BY <1>1, <2>1, CompactedResult
<1>4. CASE file' = WriteLine(file, j, line)
  <2>1. file'.log[k] = file.log[k]
    BY <1>4, AppendEffect
  <2> QED BY <1>1, <2>1
<1> QED BY <1>2, <1>3, <1>4

\* No step changes the recorded result of an unacknowledged command.
LEMMA ResultKept ==
    ASSUME TypeOK, Untorn, Alone, ~TornAppends, [Next]_vars,
           NEW k \in Keys, NEW r \in Responses, ack[k] = "none",
           Loaded(file.log[k]) = r, up => entries[k] = r
    PROVE  Loaded(file'.log[k]) = r /\ (up' => entries'[k] = r)
<1> DEFINE Kept == Loaded(file'.log[k]) = r /\ (up' => entries'[k] = r)
<1> SUFFICES Kept
  OBVIOUS
<1>s. ASSUME UNCHANGED <<file, up, entries>> PROVE Kept
  BY <1>s
\* While the supervisor runs, nobody works on k.
<1>n. up => entries[k] \in Responses /\ \A n \in Copies : handler[k][n] \notin Busy
  BY Names DEF Alone
\* A failed append for another command.
<1>f. ASSUME NEW j \in Keys, j # k, NEW line \in Lines,
             file' \in FailedAppends(file, j, line), UNCHANGED <<up, entries>>
      PROVE  Kept
  BY <1>f, AppendEffect
<1>1. CASE UNCHANGED vars
  BY <1>1, <1>s DEF vars
<1>2. ASSUME NEW j \in Keys, ClientStep(j) \/ \E n \in Copies : LoseCopy(j, n)
      PROVE  Kept
  BY <1>2, <1>s, AloneClient
<1>3. ASSUME NEW j \in Keys, NEW n \in Copies, HandlerStep(j, n) PROVE Kept
  <2>0. /\ "received" \in Lines
        /\ \A e \in Responses : e \in Lines
        /\ "pending" \in {"absent", "pending"} \cup Responses
    BY DEF Lines
  <2>q. ASSUME NEW a, Finish(j, n, a), UNCHANGED journalVars PROVE Kept
    BY <2>q, <1>s DEF Finish, journalVars
  <2>1. CASE BeginRefused(j, n)
    BY <2>1, <2>q DEF BeginRefused
  <2>2. CASE BeginComplete(j, n)
    BY <2>2, <2>q DEF BeginComplete
  <2>3. CASE BeginPending(j, n)
    BY <2>3, <2>q DEF BeginPending
  <2>4. CASE BeginNew(j, n)
    <3>1. /\ j # k
          /\ file' = WriteLine(file, j, "received")
          /\ entries' = [entries EXCEPT ![j] = "pending"]
          /\ UNCHANGED up
      BY <2>4, <1>n, Names DEF BeginNew, Arrived
    <3>2. file'.log[k] = file.log[k]
      BY <2>0, <3>1, AppendEffect
    <3>3. entries'[k] = entries[k]
      BY <3>1 DEF TypeOK
    <3> QED BY <3>1, <3>2, <3>3
  <2>5. CASE BeginFails(j, n)
    <3>1. /\ j # k
          /\ file' \in FailedAppends(file, j, "received")
          /\ UNCHANGED <<up, entries>>
      BY <2>5, <1>n, Names DEF BeginFails, Arrived, Finish
    <3> QED BY <2>0, <3>1, <1>f
  <2>6. ASSUME NEW x \in Responses, Return(j, n, x) PROVE Kept
    BY <2>6, <1>s DEF Return, journalVars
  <2>7. ASSUME NEW x \in Responses, ReturnWritten(j, n, x) PROVE Kept
    BY <2>7, <2>q DEF ReturnWritten
  <2>8. CASE RecordResult(j, n)
    <3>1. /\ j # k /\ up /\ UNCHANGED up
          /\ handler[j][n] \in Responses
      BY <2>8, <1>n DEF RecordResult, Returned, Finish, Busy
    <3> DEFINE x == handler[j][n]
               due == recordCount + 1 >= CompactAfter
    <3>2. PICK ok \in BOOLEAN :
            AppendAndCompact(j, x, [entries EXCEPT ![j] = x], due, ok)
      BY <2>8 DEF RecordResult
    <3>3. x \in Lines /\ x \in {"absent", "pending"} \cup Responses
      BY <2>0, <3>1
    <3> HIDE DEF x, due
    <3>4. Loaded(file'.log[k]) = r /\ entries'[k] = r
      BY <3>1, <3>2, <3>3, OthersKeepResult
    <3> QED BY <3>4
  <2>9. CASE RecordRefused(j, n)
    BY <2>9, <2>q DEF RecordRefused
  <2>10. CASE RecordFails(j, n)
    <3>1. /\ j # k
          /\ handler[j][n] \in Lines
          /\ file' \in FailedAppends(file, j, handler[j][n])
          /\ UNCHANGED <<up, entries>>
      BY <2>0, <2>10, <1>n DEF RecordFails, Returned, Finish, Busy
    <3> QED BY <3>1, <1>f
  <2> QED BY <1>3, <2>1, <2>2, <2>3, <2>4, <2>5, <2>6, <2>7, <2>8, <2>9, <2>10
          DEF HandlerStep
<1>4. ASSUME NEW j \in Keys, Acknowledge(j) PROVE Kept
  <2>1. j # k /\ up /\ UNCHANGED up /\ "acknowledged" \in Lines
    BY <1>4 DEF Acknowledge, Lines
  <2>2. CASE \E due, ok \in BOOLEAN :
               AppendAndCompact(j, "acknowledged",
                                [entries EXCEPT ![j] = "absent"], due, ok)
    BY <2>1, <2>2, OthersKeepResult
  <2>3. CASE /\ file' \in FailedAppends(file, j, "acknowledged")
             /\ UNCHANGED <<entries, recordCount>>
    BY <2>1, <2>3, <1>f
  <2>4. CASE UNCHANGED journalVars
    BY <2>1, <2>4, <1>s DEF journalVars
  <2>5. (recordCount + 1 >= CompactAfter
            \/ \A i \in Keys : [entries EXCEPT ![j] = "absent"][i] = "absent")
           \in BOOLEAN
    OBVIOUS
  <2> QED BY <1>4, <2>2, <2>3, <2>4, <2>5 DEF Acknowledge
<1>5. CASE LoseOwnership
  BY <1>5, <1>s DEF LoseOwnership, journalVars
<1>6. CASE Crash
  <2>1. up /\ up' = FALSE
    BY <1>6 DEF Crash
  <2>2. ASSUME NEW a \in OngoingAppends, file' \in FailedAppends(file, a[1], a[2])
        PROVE  file'.log[k] = file.log[k]
    <3>1. a[1] \in Keys /\ a[2] \in Lines
      BY OngoingAppendsType
    <3>2. a[1] # k
      BY <1>n, <2>1, Names DEF OngoingAppends, Busy
    <3> QED BY <2>2, <3>1, <3>2, AppendEffect
  <2>3. file'.log[k] = file.log[k]
    BY <1>6, <2>2 DEF Crash
  <2> QED BY <2>1, <2>3
<1>7. CASE Restart
  BY <1>7 DEF Restart
<1> QED BY <1>1, <1>2, <1>3, <1>4, <1>5, <1>6, <1>7 DEF Next

\* The recorded result of a command is final until its client acknowledges it:
\* no append, compaction, failed write, crash or load() of the journal turns it
\* back into an uncertain or an unknown one, if no append is torn.
THEOREM ResultsAreFinal == ~TornAppends /\ Spec => RecordedStaysRecorded
<1>1. ASSUME ~TornAppends PROVE Spec => RecordedStaysRecorded
  <2>1. TypeOK /\ Safe => Untorn
    BY DEF Safe
  <2>2. TypeOK /\ Safe /\ Alone /\ [Next]_vars => (TypeOK /\ Safe /\ Alone)'
    BY <1>1, TypeNext, SafeNext, AloneNext
  <2>3. TypeOK /\ Safe /\ Alone /\ [Next]_vars =>
          [\A k \in Keys, r \in Responses :
              ack[k] = "none" /\ Recorded(k, r) => Recorded(k, r)']_vars
    BY <1>1, <2>1, ResultKept DEF Recorded
  <2> QED BY <2>2, <2>3, TypeInit, SafeInit, AloneInit, PTL
          DEF Spec, RecordedStaysRecorded
<1> QED BY <1>1

-----------------------------------------------------------------------------
(* Refinement: every step is a step of CommandOnce or leaves it unchanged. *)

\* The initial states map to initial states of CommandOnce.
LEMMA OnceInit == Init => Once!Init
<1> SUFFICES ASSUME Init PROVE Once!Init
  OBVIOUS
<1>1. \A k \in Keys : ~Answered(k) /\ ack[k] = "none"
  BY Names DEF Init, Answered, Excuses
<1> QED BY <1>1 DEF Init, Once!Init, AnswerSeen

\* A step that changes none of the four mapped variables stutters.
LEMMA OnceStutter ==
    ASSUME UNCHANGED <<dispatched, results>>,
           \A k \in Keys : Answered(k)' <=> Answered(k),
           \A k \in Keys : Answered(k) => client'[k] = client[k],
           \A k \in Keys : ack'[k] # "none" <=> ack[k] # "none"
    PROVE  UNCHANGED Once!vars
  BY DEF Once!vars, AnswerSeen

\* A handler that ends tells its client the answer or nothing.
LEMMA OnceFinish ==
    ASSUME TypeOK, NEW k \in Keys, NEW n \in Copies,
           NEW a \in Responses \cup Excuses, Finish(k, n, a)
    PROVE  /\ UNCHANGED ack
           /\ \/ UNCHANGED client
              \/ /\ client[k] = "pending" /\ ~Answered(k)
                 /\ client' = [client EXCEPT ![k] = a]
  BY Names DEF Finish, Told, Answered, Excuses

\* The answer CommandOnce sees when a client is told a.
LEMMA OnceAnswer ==
    ASSUME TypeOK, NEW k \in Keys, NEW a \in Responses \cup Excuses, ~Answered(k),
           client' = [client EXCEPT ![k] = a]
    PROVE  /\ AnswerSeen[k] = "none"
           /\ AnswerSeen' = [AnswerSeen EXCEPT ![k] = a]
<1>1. /\ client'[k] = a
      /\ \A j \in Keys : j # k => client'[j] = client[j]
  BY DEF TypeOK
<1>2. /\ AnswerSeen[k] = "none"
      /\ AnswerSeen'[k] = a
      /\ \A j \in Keys : j # k => AnswerSeen'[j] = AnswerSeen[j]
  BY <1>1 DEF AnswerSeen, Answered
<1> QED BY <1>2 DEF AnswerSeen

\* Writing an answer settles the request in CommandOnce, or stutters.
LEMMA OnceSettle ==
    ASSUME TypeOK, NEW k \in Keys, NEW n \in Copies,
           NEW a \in Responses \cup Excuses, Finish(k, n, a),
           a \in Responses => a \in results[k],
           UNCHANGED historyVars
    PROVE  [Once!Next]_(Once!vars)
<1>1. UNCHANGED <<dispatched, results>>
  BY DEF historyVars
<1>2. CASE UNCHANGED client
  BY <1>1, <1>2, OnceFinish, OnceStutter DEF Answered
<1>3. CASE /\ client[k] = "pending" /\ ~Answered(k)
           /\ client' = [client EXCEPT ![k] = a]
  <2>1. /\ AnswerSeen[k] = "none"
        /\ AnswerSeen' = [AnswerSeen EXCEPT ![k] = a]
    BY <1>3, OnceAnswer
  <2>2. Once!Settle(k, a)
    BY <1>1, <2>1, OnceFinish DEF Once!Settle
  <2> QED BY <2>2 DEF Once!Next
<1> QED BY <1>2, <1>3, OnceFinish

\* A step of handle_line is a step of CommandOnce, or stutters.
LEMMA OnceHandler ==
    ASSUME TypeOK, Safe, NEW k \in Keys, NEW n \in Copies, HandlerStep(k, n)
    PROVE  [Once!Next]_(Once!vars)
<1>0. /\ "failed" \in Responses \cup Excuses
      /\ "uncertain" \in Responses \cup Excuses
      /\ \A r \in Responses : r \in Responses \cup Excuses
  BY DEF Excuses
<1>1. CASE BeginRefused(k, n)
  BY <1>0, <1>1, OnceSettle, Names DEF BeginRefused
<1>2. CASE BeginComplete(k, n)
  <2>1. entries[k] \in Responses /\ entries[k] \in results[k]
    BY <1>2 DEF BeginComplete, Safe, Genuine
  <2> QED BY <1>0, <1>2, <2>1, OnceSettle DEF BeginComplete
<1>3. CASE BeginPending(k, n)
  BY <1>0, <1>3, OnceSettle, Names DEF BeginPending
<1>4. CASE BeginNew(k, n)
  <2>1. /\ up /\ entries[k] = "absent"
        /\ dispatched' = [dispatched EXCEPT ![k] = @ + 1]
        /\ UNCHANGED <<results, client, ack>>
    BY <1>4 DEF BeginNew, Arrived, clientVars
  <2>2. dispatched[k] = 0 \/ ack[k] # "none"
    BY <2>1 DEF Safe, Durable, TypeOK
  <2>3. Once!Run(k)
    BY <2>1, <2>2 DEF Once!Run, AnswerSeen, Answered
  <2> QED BY <2>3 DEF Once!Next
<1>5. CASE BeginFails(k, n)
  BY <1>0, <1>5, OnceSettle, Names DEF BeginFails
<1>6. ASSUME NEW r \in Responses, Return(k, n, r) PROVE Once!Return(k, r)
  <2>1. /\ dispatched[k] > 0
        /\ results' = [results EXCEPT ![k] = @ \cup {r}]
        /\ UNCHANGED <<dispatched, client, ack>>
    BY <1>6 DEF Return, clientVars, Safe, Genuine
  <2> QED BY <2>1 DEF Once!Return, AnswerSeen, Answered
<1>7. ASSUME NEW r \in Responses, ReturnWritten(k, n, r) PROVE Once!Return(k, r)
  <2>1. /\ dispatched[k] > 0
        /\ results' = [results EXCEPT ![k] = @ \cup {r}]
        /\ UNCHANGED dispatched
        /\ Finish(k, n, r)
    BY <1>7 DEF ReturnWritten, Safe, Genuine
  <2>2. CASE UNCHANGED client
    BY <1>0, <2>1, <2>2, OnceFinish DEF Once!Return, AnswerSeen, Answered
  <2>3. CASE /\ client[k] = "pending" /\ ~Answered(k)
             /\ client' = [client EXCEPT ![k] = r]
    <3>1. /\ AnswerSeen[k] = "none"
          /\ AnswerSeen' = [AnswerSeen EXCEPT ![k] = r]
      BY <1>0, <2>3, OnceAnswer
    <3> QED BY <1>0, <2>1, <3>1, OnceFinish DEF Once!Return
  <2> QED BY <1>0, <2>1, <2>2, <2>3, OnceFinish
<1>8. CASE RecordResult(k, n)
  <2>1. PICK ok \in BOOLEAN : Finish(k, n, IF ok THEN handler[k][n] ELSE "failed")
    BY <1>8 DEF RecordResult
  <2>2. /\ handler[k][n] \in Responses /\ handler[k][n] \in results[k]
        /\ UNCHANGED historyVars
    BY <1>8 DEF RecordResult, Returned, Safe, Genuine
  <2>3. CASE ok
    BY <1>0, <2>1, <2>2, <2>3, OnceSettle
  <2>4. CASE ~ok
    BY <1>0, <2>1, <2>2, <2>4, OnceSettle, Names
  <2> QED BY <2>3, <2>4
<1>9. CASE RecordRefused(k, n)
  BY <1>0, <1>9, OnceSettle, Names DEF RecordRefused
<1>10. CASE RecordFails(k, n)
  BY <1>0, <1>10, OnceSettle, Names DEF RecordFails
<1> QED BY <1>1, <1>2, <1>3, <1>4, <1>5, <1>6, <1>7, <1>8, <1>9, <1>10
        DEF HandlerStep, Once!Next

\* A step of the client is a step of CommandOnce, or stutters.
LEMMA OnceClient ==
    ASSUME TypeOK, NEW k \in Keys, ClientStep(k)
    PROVE  [Once!Next]_(Once!vars)
<1>1. CASE SendAck(k)
  <2>1. /\ Answered(k)
        /\ ack' = [ack EXCEPT ![k] = "sent"]
        /\ UNCHANGED <<dispatched, results, client>>
    BY <1>1 DEF SendAck, historyVars
  <2>2. client[k] # "none"
    BY <2>1, Names DEF Answered, Excuses
  <2>3. Once!Acknowledge(k)
    BY <2>1, <2>2 DEF Once!Acknowledge, AnswerSeen, Answered, TypeOK
  <2> QED BY <2>3 DEF Once!Next
<1>2. CASE \/ Send(k) \/ Disconnect(k) \/ Reconnect(k) \/ ReconnectSilent(k)
          \/ GiveUp(k) \/ LoseAck(k)
  <2>1. /\ UNCHANGED <<dispatched, results>>
        /\ \A j \in Keys : ack'[j] # "none" <=> ack[j] # "none"
        /\ \A j \in Keys : \/ client'[j] = client[j]
                             \/ /\ client[j] \in {"new", "pending"}
                                /\ client'[j] \in {"pending", "gaveup"}
    BY <1>2 DEF TypeOK, historyVars, Send, Disconnect, Reconnect,
                ReconnectSilent, GiveUp, LoseAck
  <2> QED BY <2>1, Names, OnceStutter DEF Answered, Excuses
<1> QED BY <1>1, <1>2 DEF ClientStep

\* acknowledge(), lost copies, crashes and reloads are invisible in CommandOnce.
LEMMA OnceOther ==
    ASSUME TypeOK,
           \/ \E k \in Keys : Acknowledge(k)
           \/ \E k \in Keys, n \in Copies : LoseCopy(k, n)
           \/ LoseOwnership \/ Crash \/ Restart
           \/ UNCHANGED vars
    PROVE  UNCHANGED Once!vars
<1>1. /\ UNCHANGED <<dispatched, results, client>>
      /\ \A j \in Keys : ack'[j] # "none" <=> ack[j] # "none"
  BY DEF TypeOK, vars, historyVars, clientVars, Acknowledge, LoseCopy,
         LoseOwnership, Crash, Restart
<1> QED BY <1>1, OnceStutter DEF Answered

\* The journal, its handlers and its clients implement CommandOnce: dispatches,
\* answers and acknowledgements happen in the order and number it allows.
THEOREM Refinement == ~TornAppends /\ Spec => OnceSpec
<1>1. TypeOK /\ Safe /\ [Next]_vars => [Once!Next]_(Once!vars)
  BY OnceHandler, OnceClient, OnceOther DEF Next
<1> QED BY <1>1, OnceInit, Invariance, PTL DEF Spec, OnceSpec, Once!Spec

-----------------------------------------------------------------------------
(* Every request on a live connection is in hand.  Torn appends are allowed *)
(* here: an answer is owed whatever the file holds.                         *)

\* A handler that ends has answered the request that waits for its copy.
LEMMA StrandedFinish ==
    ASSUME TypeOK, NeverStranded, NEW k \in Keys, NEW n \in Copies,
           NEW a \in Responses \cup Excuses, Finish(k, n, a)
    PROVE  NeverStranded'
<1>0. a # "pending" /\ "done" \notin {"received", "dispatch"} \cup Responses
  BY Names DEF Excuses
<1>1. /\ handler' = [handler EXCEPT ![k][n] = "done"]
      /\ client' = Told(k, n, a)
      /\ UNCHANGED <<up, sent, connected>>
  BY DEF Finish
<1> SUFFICES ASSUME NEW j \in Keys, client'[j] = "pending", connected'[j] = "yes"
             PROVE  InHand(j)'
  BY DEF NeverStranded
<1>2. client[j] = "pending" /\ (j = k => n # sent[k])
  BY <1>0, <1>1 DEF Told, Live, TypeOK
<1>3. InHand(j)
  BY <1>1, <1>2 DEF NeverStranded
<1>4. handler'[j][sent[j]] = handler[j][sent[j]]
  BY <1>1, <1>2 DEF TypeOK
<1> QED BY <1>1, <1>3, <1>4 DEF InHand

\* A step that disturbs no copy in hand and makes no request pending.
LEMMA StrandedKept ==
    ASSUME NeverStranded, UNCHANGED <<up, sent>>,
           \A j \in Keys : /\ client'[j] = "pending" => client[j] = "pending"
                           /\ connected'[j] = "yes" => connected[j] = "yes"
                           /\ \A n \in Copies : Live(j, n) /\ InHand(j) =>
                                 handler'[j][n] \in
                                     {"received", "dispatch"} \cup Responses,
           TypeOK
    PROVE  NeverStranded'
<1> SUFFICES ASSUME NEW j \in Keys, client'[j] = "pending", connected'[j] = "yes"
             PROVE  InHand(j)'
  BY DEF NeverStranded
<1>1. InHand(j) /\ connected[j] = "yes"
  BY DEF NeverStranded
<1>2. sent[j] \in Copies
  BY <1>1, BoundsAssumption DEF InHand, Copies, TypeOK
<1>3. handler'[j][sent[j]] \in {"received", "dispatch"} \cup Responses
  BY <1>1, <1>2 DEF Live
<1> QED BY <1>1, <1>3 DEF InHand

\* The client makes a request pending, or a connection live, only with a copy.
LEMMA StrandedClient ==
    ASSUME TypeOK, NeverStranded, NEW k \in Keys, ClientStep(k)
    PROVE  NeverStranded'
<1>t. ASSUME up, UNCHANGED up, Transmit(k),
             \A j \in Keys : j # k => /\ client'[j] = client[j]
                                      /\ connected'[j] = connected[j]
      PROVE  NeverStranded'
  <2> SUFFICES ASSUME NEW j \in Keys,
                      client'[j] = "pending", connected'[j] = "yes"
               PROVE  InHand(j)'
    BY DEF NeverStranded
  <2>1. CASE j = k
    <3>1. sent[k] + 1 \in Copies /\ sent[k] + 1 > 0
      BY <1>t, BoundsAssumption DEF Transmit, Copies, TypeOK
    <3>2. sent'[k] = sent[k] + 1 /\ handler'[k][sent[k] + 1] = "received"
      BY <1>t, <3>1 DEF Transmit, TypeOK
    <3> QED BY <1>t, <2>1, <3>1, <3>2 DEF InHand
  <2>2. CASE j # k
    <3>1. InHand(j)
      BY <1>t, <2>2 DEF NeverStranded
    <3>2. sent'[j] = sent[j] /\ handler'[j] = handler[j]
      BY <1>t, <2>2 DEF Transmit, TypeOK
    <3> QED BY <1>t, <3>1, <3>2 DEF InHand
  <2> QED BY <2>1, <2>2
<1>1. CASE Send(k)
  BY <1>1, <1>t DEF Send, TypeOK
<1>2. CASE Reconnect(k) /\ client[k] = "pending"
  BY <1>2, <1>t DEF Reconnect, TypeOK
<1>3. CASE Reconnect(k) /\ client[k] # "pending"
  <2>1. /\ UNCHANGED <<up, client, sent, handler>>
        /\ \A j \in Keys : j # k => connected'[j] = connected[j]
    BY <1>3 DEF Reconnect, TypeOK
  <2> QED BY <1>3, <2>1 DEF NeverStranded, InHand
<1>4. CASE \/ Disconnect(k) \/ ReconnectSilent(k) \/ GiveUp(k)
          \/ SendAck(k) \/ LoseAck(k)
  <2>1. /\ UNCHANGED <<up, sent, handler>>
        /\ \A j \in Keys : /\ client'[j] = "pending" => client[j] = "pending"
                           /\ connected'[j] = "yes" => connected[j] = "yes"
    BY <1>4 DEF Disconnect, ReconnectSilent, GiveUp, SendAck, LoseAck, TypeOK
  <2> QED BY <2>1 DEF NeverStranded, InHand
<1> QED BY <1>1, <1>2, <1>3, <1>4 DEF ClientStep

\* handle_line ends only by answering.
LEMMA StrandedHandler ==
    ASSUME TypeOK, NeverStranded, NEW k \in Keys, NEW n \in Copies,
           HandlerStep(k, n)
    PROVE  NeverStranded'
<1>0. /\ "failed" \in Responses \cup Excuses
      /\ "uncertain" \in Responses \cup Excuses
      /\ \A r \in Responses : r \in Responses \cup Excuses
  BY DEF Excuses
<1>k. ASSUME NEW h \in {"received", "dispatch"} \cup Responses,
             handler' = [handler EXCEPT ![k][n] = h], UNCHANGED <<up, clientVars>>
      PROVE  NeverStranded'
  <2>1. /\ UNCHANGED <<up, sent, client, connected>>
        /\ \A j \in Keys, m \in Copies :
              handler'[j][m] = IF j = k /\ m = n THEN h ELSE handler[j][m]
    BY <1>k DEF clientVars, TypeOK
  <2>2. ASSUME NEW j \in Keys, NEW m \in Copies, Live(j, m), InHand(j)
        PROVE  handler'[j][m] \in {"received", "dispatch"} \cup Responses
    BY <2>1, <2>2 DEF Live, InHand
  <2> QED BY <2>1, <2>2, StrandedKept
<1>1. CASE BeginRefused(k, n)
  BY <1>0, <1>1, StrandedFinish DEF BeginRefused
<1>2. CASE BeginComplete(k, n)
  BY <1>0, <1>2, StrandedFinish DEF BeginComplete
<1>3. CASE BeginPending(k, n)
  BY <1>0, <1>3, StrandedFinish DEF BeginPending
<1>4. CASE BeginNew(k, n)
  <2>1. /\ handler' = [handler EXCEPT ![k][n] = "dispatch"]
        /\ UNCHANGED <<up, clientVars>>
    BY <1>4 DEF BeginNew
  <2> QED BY <2>1, <1>k
<1>5. CASE BeginFails(k, n)
  BY <1>0, <1>5, StrandedFinish DEF BeginFails
<1>6. ASSUME NEW r \in Responses, Return(k, n, r) PROVE NeverStranded'
  BY <1>6, <1>k DEF Return
<1>7. ASSUME NEW r \in Responses, ReturnWritten(k, n, r) PROVE NeverStranded'
  BY <1>0, <1>7, StrandedFinish DEF ReturnWritten
<1>8. CASE RecordResult(k, n)
  <2>1. PICK ok \in BOOLEAN : Finish(k, n, IF ok THEN handler[k][n] ELSE "failed")
    BY <1>8 DEF RecordResult
  <2>2. (IF ok THEN handler[k][n] ELSE "failed") \in Responses \cup Excuses
    BY <1>0, <1>8 DEF RecordResult, Returned
  <2> QED BY <2>1, <2>2, StrandedFinish
<1>9. CASE RecordRefused(k, n)
  BY <1>0, <1>9, StrandedFinish DEF RecordRefused
<1>10. CASE RecordFails(k, n)
  BY <1>0, <1>10, StrandedFinish DEF RecordFails
<1> QED BY <1>1, <1>2, <1>3, <1>4, <1>5, <1>6, <1>7, <1>8, <1>9, <1>10
        DEF HandlerStep

\* No step strands a request.
LEMMA StrandedNext == TypeOK /\ NeverStranded /\ [Next]_vars => NeverStranded'
<1> SUFFICES ASSUME TypeOK, NeverStranded, [Next]_vars PROVE NeverStranded'
  OBVIOUS
<1>u. ASSUME UNCHANGED <<up, sent, connected, client, handler>>
      PROVE  NeverStranded'
  BY <1>u DEF NeverStranded, InHand
<1>1. ASSUME NEW k \in Keys, NEW n \in Copies, LoseCopy(k, n)
      PROVE  NeverStranded'
  <2>1. /\ UNCHANGED <<up, sent, client, connected>> /\ ~Live(k, n)
        /\ handler' = [handler EXCEPT ![k][n] = "done"]
    BY <1>1 DEF LoseCopy, clientVars
  <2>2. ASSUME NEW j \in Keys, NEW m \in Copies, Live(j, m), InHand(j)
        PROVE  handler'[j][m] \in {"received", "dispatch"} \cup Responses
    <3>1. ~(j = k /\ m = n)
      BY <2>1, <2>2
    <3>2. handler'[j][m] = handler[j][m]
      BY <2>1, <3>1 DEF TypeOK
    <3> QED BY <2>2, <3>2 DEF Live, InHand
  <2> QED BY <2>1, <2>2, StrandedKept
<1>2. CASE Crash
  BY <1>2 DEF Crash, NeverStranded
<1>3. CASE Restart
  <2>1. ~up /\ UNCHANGED <<client, connected>>
    BY <1>3 DEF Restart, clientVars
  <2> QED BY <2>1 DEF NeverStranded, InHand
<1>4. CASE LoseOwnership \/ (\E k \in Keys : Acknowledge(k)) \/ UNCHANGED vars
  BY <1>4, <1>u DEF LoseOwnership, Acknowledge, vars, clientVars
<1> QED BY <1>1, <1>2, <1>3, <1>4, StrandedClient, StrandedHandler DEF Next

\* A request that is pending on a connection that carried its copy is always
\* with a handler that has not ended, and a handler of handle_line ends only by
\* answering: for any number of commands, copies and crashes, torn writes too.
THEOREM NobodyStranded == Spec => []NeverStranded
<1>1. Init => NeverStranded
  BY DEF Init, NeverStranded
<1> QED BY <1>1, StrandedNext, TypeCorrect, PTL DEF Spec
=============================================================================
