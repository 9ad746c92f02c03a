-------------------------- MODULE MessagePathProofs --------------------------
(***************************************************************************)
(* Theorems about MessagePath for every number of entries, MAXLEN, COUNT,  *)
(* set of refused entries, set of failures and bound on their number.      *)
(***************************************************************************)
EXTENDS MessagePath, StreamConsumerProofs

TaskState == {"none", "queued", "message", "event", "committed", "failed", "gone"}

PathTypeInv ==
    /\ handler \in {"none", "connect", "wait", "done"}
    /\ runs \in [Entries -> Nat]
    /\ postgres \in {"up", "down"}
    /\ task \in [Tasks -> TaskState]
    /\ messages \in Seq(Entries)
    /\ outbox \in [Entries -> Nat]

\* Entry i has a message.
Stored(i) == \E k \in DOMAIN messages : messages[k] = i

\* The worker's handler runs for the entry the loop is at.
HandlerInv ==
    /\ handler # "none" => pc = "handle"
    /\ \A i \in Entries : runs[i] > 0 => i \in pel \cup acked
    /\ \A i \in Entries : Current(i) /\ handler # "none" =>
          /\ runs[i] \in Runs
          /\ handler \in {"connect", "wait"} => i \notin blank
          /\ handler = "wait" => task[<<i, runs[i]>>] # "none"

\* An RPC, and what it stored, belongs to a run; none for a refused entry commits.
TaskInv ==
    /\ \A x \in Tasks : task[x] # "none" => runs[x[1]] > 0
    /\ \A x \in Tasks : task[x] \in {"message", "event", "committed"} => x[1] \notin Refused
    /\ \A i \in Entries : Stored(i) => runs[i] > 0 /\ i \notin Refused

\* While only the worker and its connection fail, data_postgres answers every RPC,
\* and an entry the handler is done with is stored or refused.
AnsweredInv ==
    OnlyFailed(WorkerFaults) =>
        /\ postgres = "up"
        /\ \A x \in Tasks : /\ task[x] = "committed" => Stored(x[1])
                            /\ task[x] = "failed" => x[1] \in Refused
                            /\ task[x] # "gone"
        /\ \A i \in handled : Stored(i) \/ i \in Refused
        /\ \A i \in Entries : Current(i) /\ handler = "done" /\ i \notin blank =>
              Stored(i) \/ i \in Refused

\* The worker only crashes, and no entry is trimmed while it is pending.
Quiet == OnlyFailed({"crash", "group"}) /\ blanked = {}

\* An earlier entry is done with before a later one is begun.
TurnInv ==
    Quiet => \A i, j \in Entries : i < j /\ runs[j] > 0 =>
                Stored(i) \/ i \in Refused \/ (i \notin pel /\ runs[i] = 0)

\* Every message is preceded by one of each earlier entry that is stored at all.
OrderInv ==
    Quiet => \A i, j \in Entries : i < j /\ Stored(i) =>
                \A k \in DOMAIN messages : messages[k] = j => \E h \in 1 .. k - 1 : messages[h] = i

\* A message and its event are stored together: the transaction of Store.
RowsTogether == \A i \in Entries : Copies(i) = outbox[i]

\* The inductive invariant.
PathInv ==
    /\ IInv /\ RereadInv
    /\ PathTypeInv /\ HandlerInv /\ TaskInv /\ AnsweredInv /\ TurnInv /\ OrderInv /\ RowsTogether

-----------------------------------------------------------------------------
\* What the messages are as a sequence.
LEMMA MessagesSeq ==
    ASSUME messages \in Seq(Entries)
    PROVE  Len(messages) \in Nat /\ DOMAIN messages = 1 .. Len(messages)
  OBVIOUS

LEMMA StoredIsCounted ==
    ASSUME messages \in Seq(Entries), NEW i \in Entries
    PROVE  Copies(i) \in Nat /\ (Copies(i) > 0 <=> Stored(i))
<1>1. Copies(i) = Cardinality(Places(messages, i))
  BY DEF Copies, Places
<1>. QED
  BY <1>1, PlacesOf DEF Stored

\* What a COMMIT does: one more message, and one more event, of its entry.
LEMMA StoreFacts ==
    ASSUME PathTypeInv, NEW x \in Tasks, Store(x)
    PROVE  /\ messages' \in Seq(Entries) /\ outbox' \in [Entries -> Nat]
           /\ DOMAIN messages' = 1 .. Len(messages) + 1
           /\ messages'[Len(messages) + 1] = x[1]
           /\ \A k \in 1 .. Len(messages) : messages'[k] = messages[k]
           /\ \A i \in Entries : Stored(i)' <=> Stored(i) \/ i = x[1]
           /\ \A i \in Entries : Copies(i) = outbox[i] => Copies(i)' = outbox'[i]
<1> DEFINE n == Len(messages)
<1>1. x[1] \in Entries
  BY DEF Tasks
<1>2. messages \in Seq(Entries) /\ n \in Nat /\ DOMAIN messages = 1 .. n
  BY MessagesSeq DEF PathTypeInv
<1>3. messages' = Append(messages, x[1]) /\ outbox' = [outbox EXCEPT ![x[1]] = @ + 1]
  BY DEF Store
<1>4. messages' \in Seq(Entries) /\ outbox' \in [Entries -> Nat]
  BY <1>1, <1>2, <1>3 DEF PathTypeInv
<1>5. /\ DOMAIN messages' = 1 .. n + 1 /\ messages'[n + 1] = x[1]
      /\ \A k \in 1 .. n : messages'[k] = messages[k]
  BY <1>1, <1>2, <1>3
<1>. HIDE DEF n
<1>6. \A i \in Entries : Stored(i)' <=> Stored(i) \/ i = x[1]
  <2>. SUFFICES ASSUME NEW i \in Entries
                PROVE  Stored(i)' <=> Stored(i) \/ i = x[1]
    OBVIOUS
  <2>1. ASSUME Stored(i)' PROVE Stored(i) \/ i = x[1]
    <3>1. PICK k \in 1 .. n + 1 : messages'[k] = i
      BY <2>1, <1>5 DEF Stored
    <3>2. k \in 1 .. n \/ k = n + 1
      BY <1>2
    <3>. QED
      BY <1>2, <1>5, <3>1, <3>2 DEF Stored
  <2>2. ASSUME Stored(i) PROVE Stored(i)'
    <3>1. PICK k \in 1 .. n : messages[k] = i
      BY <1>2, <2>2 DEF Stored
    <3>2. k \in 1 .. n + 1 /\ messages'[k] = i
      BY <1>2, <1>5, <3>1
    <3>. QED
      BY <1>5, <3>2 DEF Stored
  <2>3. ASSUME i = x[1] PROVE Stored(i)'
    BY <1>2, <1>5, <2>3 DEF Stored
  <2>. QED
    BY <2>1, <2>2, <2>3
<1>7. ASSUME NEW i \in Entries, Copies(i) = outbox[i] PROVE Copies(i)' = outbox'[i]
  <2>1. Copies(i)' = IF i = x[1] THEN Copies(i) + 1 ELSE Copies(i)
    <3>1. Copies(i) = Cardinality(Places(messages, i)) /\ Copies(i)' = Cardinality(Places(messages', i))
      BY DEF Copies, Places
    <3>. QED
      BY <1>1, <1>2, <1>3, <3>1, AppendCounts
  <2>2. outbox'[i] = IF i = x[1] THEN outbox[i] + 1 ELSE outbox[i]
    BY <1>1, <1>3 DEF PathTypeInv
  <2>. QED
    BY <1>7, <2>1, <2>2
<1>. QED
  BY <1>4, <1>5, <1>6, <1>7 DEF n

-----------------------------------------------------------------------------
\* The steps of the consumer that are not the call of its handler.
LEMMA OtherFacts ==
    ASSUME IInv, ConsumerOther
    PROVE  /\ UNCHANGED <<pathVars, handled, blanked>>
           /\ pel \cup acked \subseteq pel' \cup acked'
           /\ \A i \in pel' \ pel : cursor < i
           /\ pc = "handle" => UNCHANGED <<pc, batch, blank>>
<1>1. UNCHANGED pathVars
  BY DEF ConsumerOther
<1>2. CASE \/ Publish \/ StartProcess \/ EnsureGroup \/ ReadPending \/ Wake \/ EnsureGroupFails
           \/ ReadPendingFails \/ \E i \in Entries : AckFails(i)
  <2>1. UNCHANGED <<handled, blanked, pel, acked>>
    BY <1>2 DEF Publish, StartProcess, EnsureGroup, ReadPending, Wake, EnsureGroupFails,
       ReadPendingFails, AckFails, groupVars, history
  <2>2. pc = "handle" => UNCHANGED <<pc, batch, blank>>
    BY <1>2 DEF Publish, StartProcess, EnsureGroup, ReadPending, Wake, EnsureGroupFails,
       ReadPendingFails, AckFails, runVars
  <2>. QED
    BY <1>1, <2>1, <2>2
<1>3. CASE ReadNew \/ ReadNewFails
  <2>1. HasGroup /\ pc = "read" /\ UNCHANGED <<handled, blanked, acked>>
    BY <1>3 DEF ReadNew, ReadNewFails, history, IInv, GroupInv
  <2>2. pel' = pel \/ DeliverNew(Lowest(Undelivered, Batch))
    BY <1>3 DEF ReadNew, ReadNewFails
  <2>3. CASE pel' = pel
    BY <1>1, <2>1, <2>3
  <2>4. CASE DeliverNew(Lowest(Undelivered, Batch))
    BY <1>1, <2>1, <2>4, Delivery
  <2>. QED
    BY <2>2, <2>3, <2>4
<1>4. ASSUME NEW i \in Entries, Ack(i)
      PROVE  /\ UNCHANGED <<handled, blanked>> /\ pc # "handle"
             /\ pel' = pel \ {i} /\ acked' = acked \cup {i}
  BY <1>4 DEF Ack
<1>. QED
  BY <1>1, <1>2, <1>3, <1>4 DEF ConsumerOther, ReceiveWebhook

\* Failures only add up, whatever the step.
LEMMA StepFaults == IInv /\ [PathNext]_allVars =>
    /\ faults' = faults \/ \E kind \in FaultKinds : Fault(kind)
    /\ \A K : OnlyFailed(K)' => OnlyFailed(K)
<1> SUFFICES ASSUME IInv, [PathNext]_allVars
             PROVE  /\ faults' = faults \/ \E kind \in FaultKinds : Fault(kind)
                    /\ \A K : OnlyFailed(K)' => OnlyFailed(K)
  OBVIOUS
<1>1. faults' = faults \/ \E kind \in FaultKinds : Fault(kind)
  <2>1. CASE ConsumerOther \/ WorkerCrash
    BY <2>1 DEF ConsumerOther, WorkerCrash, ReceiveWebhook, Publish, StartProcess, EnsureGroup,
       ReadPending, ReadNew, Wake, EnsureGroupFails, ReadPendingFails, ReadNewFails, Crash, Ack,
       AckFails, Fault
  <2>2. CASE \E i \in Entries : \/ StartHandler(i) \/ Call(i) \/ ConnectFails(i) \/ Return(i)
                               \/ Timeout(i) \/ HandlerReturns(i)
    BY <2>2 DEF StartHandler, Call, ConnectFails, Return, Timeout, HandlerReturns, Handle, Fault, vars
  <2>3. CASE DataPostgres
    BY <2>3 DEF DataPostgres, PostgresCrash, PostgresStart, InsertMessage, InsertEvent, Commit,
       Refuse, TransactionFails, Fault, vars
  <2>4. CASE UNCHANGED allVars
    BY <2>4 DEF allVars, vars
  <2>. QED
    BY <2>1, <2>2, <2>3, <2>4 DEF PathNext, Worker
<1>. QED
  BY <1>1, OnlyFailedBefore DEF IInv

-----------------------------------------------------------------------------
\* The consumer's invariant survives every step of the path.
LEMMA StepConsumer == IInv /\ RereadInv /\ [PathNext]_allVars => IInv' /\ RereadInv'
<1> SUFFICES ASSUME IInv, RereadInv, [PathNext]_allVars
             PROVE  IInv' /\ RereadInv'
  OBVIOUS
<1>1. CASE ConsumerOther \/ WorkerCrash
  <2>1. Next
    BY <1>1 DEF ConsumerOther, WorkerCrash, ReceiveWebhook, Next, ConsumerStep, Failure
  <2>. QED
    BY <2>1, NextIInv, NextReread
<1>2. ASSUME NEW i \in Entries, HandlerReturns(i) PROVE IInv' /\ RereadInv'
  <2>1. Next
    BY <1>2 DEF HandlerReturns, Next, ConsumerStep
  <2>. QED
    BY <2>1, NextIInv, NextReread
<1>3. CASE \/ \E i \in Entries : StartHandler(i) \/ Call(i) \/ ConnectFails(i) \/ Return(i) \/ Timeout(i)
           \/ DataPostgres \/ UNCHANGED allVars
  <2>1. UNCHANGED <<streamVars, groupVars, runVars, history>>
    BY <1>3 DEF StartHandler, Call, ConnectFails, Return, Timeout, DataPostgres, PostgresCrash,
       PostgresStart, InsertMessage, InsertEvent, Commit, Refuse, TransactionFails, allVars, vars,
       streamVars, groupVars, runVars, history
  <2>. QED
    BY <2>1, StepFaults, FaultKeepsInv, FaultKeepsReread
<1>. QED
  BY <1>1, <1>2, <1>3 DEF PathNext, Worker

-----------------------------------------------------------------------------
\* The rest of the invariant.
RestInv ==
    PathTypeInv /\ HandlerInv /\ TaskInv /\ AnsweredInv /\ TurnInv /\ OrderInv /\ RowsTogether

LEMMA InitPathInv == PathInit => PathInv
<1> SUFFICES ASSUME PathInit PROVE PathInv
  OBVIOUS
<1>1. IInv /\ RereadInv
  BY InitIInv, InitReread DEF PathInit
<1>2. PathTypeInv
  BY DEF PathInit, PathTypeInv, TaskState
<1>3. DOMAIN messages = {} /\ ~\E i \in Entries : Stored(i)
  BY DEF PathInit, Stored
<1>4. HandlerInv /\ TaskInv /\ TurnInv /\ OrderInv
  BY <1>3 DEF PathInit, HandlerInv, TaskInv, TurnInv, OrderInv
<1>5. AnsweredInv
  BY DEF PathInit, Init, AnsweredInv
<1>6. RowsTogether
  <2>1. \A i \in Entries : Copies(i) = Cardinality({})
    BY <1>3 DEF Copies
  <2>. QED
    BY <2>1, FS_EmptySet DEF PathInit, RowsTogether
<1>. QED
  BY <1>1, <1>2, <1>4, <1>5, <1>6 DEF PathInv

\* Redis and the loop move on while the handler stays.
LEMMA OtherKeepsRest == PathInv /\ ConsumerOther => RestInv'
<1> SUFFICES ASSUME PathInv, ConsumerOther PROVE RestInv'
  OBVIOUS
<1>0. /\ IInv /\ PathTypeInv /\ HandlerInv /\ TaskInv /\ AnsweredInv /\ TurnInv /\ OrderInv
      /\ RowsTogether
  BY DEF PathInv
<1>1. /\ UNCHANGED <<handler, runs, postgres, task, messages, outbox, handled, blanked>>
      /\ pel \cup acked \subseteq pel' \cup acked'
      /\ \A i \in pel' \ pel : cursor < i
      /\ pc = "handle" => UNCHANGED <<pc, batch, blank>>
  BY <1>0, OtherFacts DEF pathVars
<1>2. \A K : OnlyFailed(K)' => OnlyFailed(K)
  BY <1>0, StepFaults DEF PathNext, Worker
<1>3. \A i : Stored(i)' <=> Stored(i)
  BY <1>1 DEF Stored
<1>4. PathTypeInv' /\ RowsTogether'
  BY <1>0, <1>1 DEF PathTypeInv, RowsTogether, Copies
<1>5. HandlerInv'
  BY <1>0, <1>1 DEF HandlerInv, Current
<1>6. TaskInv'
  BY <1>0, <1>1, <1>3 DEF TaskInv
<1>7. AnsweredInv'
  <2>1. handler # "none" => \A i : Current(i)' <=> Current(i)
    BY <1>0, <1>1 DEF HandlerInv, Current
  <2>. QED
    <3> SUFFICES ASSUME OnlyFailed(WorkerFaults)' PROVE AnsweredInv'
      BY DEF AnsweredInv
    <3>1. OnlyFailed(WorkerFaults)
      BY <1>2
    <3>2. \A i \in handled : Stored(i) \/ i \in Refused
      BY <1>0, <3>1 DEF AnsweredInv
    <3>3. \A i \in handled' : Stored(i)' \/ i \in Refused
      BY <1>1, <1>3, <3>2
    <3>4. ASSUME NEW i \in Entries, Current(i)', handler' = "done", i \notin blank'
          PROVE  Stored(i)' \/ i \in Refused
      <4>1. handler = "done" /\ Current(i) /\ blank' = blank
        BY <1>0, <1>1, <2>1, <3>4 DEF HandlerInv
      <4>. QED
        BY <1>0, <1>3, <3>1, <3>4, <4>1 DEF AnsweredInv
    <3>5. /\ postgres' = "up"
          /\ \A x \in Tasks : /\ task'[x] = "committed" => Stored(x[1])'
                              /\ task'[x] = "failed" => x[1] \in Refused
                              /\ task'[x] # "gone"
      BY <1>0, <1>1, <1>3, <3>1 DEF AnsweredInv
    <3>. QED
      BY <3>3, <3>4, <3>5 DEF AnsweredInv
<1>8. TurnInv'
  <2> SUFFICES ASSUME Quiet', NEW i \in Entries, NEW j \in Entries, i < j, runs[j] > 0
               PROVE  Stored(i)' \/ i \in Refused \/ (i \notin pel' /\ runs'[i] = 0)
    BY <1>1 DEF TurnInv
  <2>1. Quiet
    BY <1>1, <1>2 DEF Quiet
  <2>2. j \in pel \cup acked /\ j <= cursor
    BY <1>0 DEF HandlerInv, IInv, GroupInv
  <2>3. Stored(i) \/ i \in Refused \/ (i \notin pel /\ runs[i] = 0)
    BY <1>0, <2>1 DEF TurnInv
  <2>4. i \in Int /\ j \in Int /\ cursor \in Int
    BY <1>0 DEF IInv, TypeOK, Entries
  <2>5. i \notin pel' \ pel
    BY <1>1, <2>2, <2>4
  <2>. QED
    BY <1>1, <1>3, <2>3, <2>5
<1>9. OrderInv'
  BY <1>0, <1>1, <1>2, <1>3 DEF OrderInv, Quiet
<1>. QED
  BY <1>4, <1>5, <1>6, <1>7, <1>8, <1>9 DEF RestInv

\* The worker dies under its handler; the RPC runs on.
LEMMA CrashKeepsRest == PathInv /\ WorkerCrash => RestInv'
<1> SUFFICES ASSUME PathInv, WorkerCrash PROVE RestInv'
  OBVIOUS
<1>0. /\ IInv /\ PathTypeInv /\ HandlerInv /\ TaskInv /\ AnsweredInv /\ TurnInv /\ OrderInv
      /\ RowsTogether
  BY DEF PathInv
<1>1. /\ UNCHANGED <<runs, postgres, task, messages, outbox, pel, acked, handled, blanked>>
      /\ handler' = "none"
  BY DEF WorkerCrash, Crash, pgVars, groupVars, history
<1>2. \A K : OnlyFailed(K)' => OnlyFailed(K)
  BY <1>0, StepFaults DEF PathNext, Worker
<1>3. \A i : Stored(i)' <=> Stored(i)
  BY <1>1 DEF Stored
<1>4. PathTypeInv' /\ RowsTogether' /\ HandlerInv'
  BY <1>0, <1>1 DEF PathTypeInv, RowsTogether, Copies, HandlerInv
<1>5. TaskInv' /\ AnsweredInv'
  BY <1>0, <1>1, <1>2, <1>3 DEF TaskInv, AnsweredInv
<1>6. TurnInv' /\ OrderInv'
  BY <1>0, <1>1, <1>2, <1>3 DEF TurnInv, OrderInv, Quiet
<1>. QED
  BY <1>4, <1>5, <1>6 DEF RestInv

-----------------------------------------------------------------------------
\* A run of the worker's handler begins only when every earlier entry is done with.
LEMMA StartKeepsRest == ASSUME PathInv, NEW i \in Entries, StartHandler(i) PROVE RestInv'
<1>0. /\ IInv /\ PathTypeInv /\ HandlerInv /\ TaskInv /\ AnsweredInv /\ TurnInv /\ OrderInv
      /\ RowsTogether /\ TypeOK /\ RereadInv
  BY DEF PathInv, IInv
<1>1. /\ UNCHANGED <<pc, batch, blank, pel, acked, handled, blanked, faults, postgres, task,
                     messages, outbox>>
      /\ pc = "handle" /\ Current(i) /\ i \in pel /\ handler = "none"
      /\ runs[i] + 1 \in Runs /\ runs' = [runs EXCEPT ![i] = runs[i] + 1]
      /\ handler' = IF i \in blank THEN "done" ELSE "connect"
  BY <1>0 DEF StartHandler, vars, pgVars, Current, IInv, RunInv
<1>2. \A j \in Entries : runs'[j] = IF j = i THEN runs[i] + 1 ELSE runs[j]
  BY <1>0, <1>1 DEF PathTypeInv
<1>3. \A j : Stored(j)' <=> Stored(j)
  BY <1>1 DEF Stored
<1>4. PathTypeInv' /\ RowsTogether'
  BY <1>0, <1>1 DEF PathTypeInv, RowsTogether, Copies
<1>5. \A j \in Entries : Current(j)' => j = i
  BY <1>0, <1>1, CurrentUnique DEF Current
<1>6. HandlerInv'
  <2>1. \A j \in Entries : runs'[j] > 0 => j \in pel' \cup acked'
    BY <1>0, <1>1, <1>2 DEF HandlerInv
  <2>. QED
    BY <1>1, <1>2, <1>5, <2>1 DEF HandlerInv
<1>7. TaskInv'
  <2>1. ASSUME NEW j \in Entries, runs[j] > 0 PROVE runs'[j] > 0
    <3>1. runs[i] \in Nat /\ runs[j] \in Nat
      BY <1>0 DEF PathTypeInv
    <3>. QED
      BY <1>2, <2>1, <3>1
  <2>2. \A x \in Tasks : x[1] \in Entries
    BY DEF Tasks
  <2>. QED
    BY <1>0, <1>1, <1>3, <2>1, <2>2 DEF TaskInv
<1>8. AnsweredInv'
  BY <1>0, <1>1, <1>3, <1>5 DEF AnsweredInv, OnlyFailed
<1>9. TurnInv'
  <2> SUFFICES ASSUME Quiet', NEW h \in Entries, NEW j \in Entries, h < j, runs'[j] > 0
               PROVE  Stored(h) \/ h \in Refused \/ (h \notin pel /\ runs'[h] = 0)
    BY <1>1, <1>3 DEF TurnInv
  <2>1. Quiet /\ OnlyFailed(WorkerFaults)
    BY <1>1 DEF Quiet, OnlyFailed, WorkerFaults
  <2>2. h \in Int /\ j \in Int /\ i \in Int
    BY ConsumerAssumption DEF Entries
  <2>3. CASE j = i
    <3>1. h \notin pel
      BY <1>0, <1>1, <2>1, <2>2, <2>3 DEF RereadInv, Quiet, Current
    <3>2. runs'[h] = runs[h] /\ runs[h] \in Nat
      BY <1>0, <1>2, <2>2, <2>3 DEF PathTypeInv
    <3>3. ASSUME runs[h] > 0 PROVE Stored(h) \/ h \in Refused
      <4>1. h \in acked
        BY <1>0, <3>1, <3>3 DEF HandlerInv
      <4>2. h \in handled
        BY <1>0, <2>1, <4>1 DEF IInv, AckedWasHandled, Quiet
      <4>. QED
        BY <1>0, <2>1, <4>2 DEF AnsweredInv
    <3>. QED
      BY <3>1, <3>2, <3>3
  <2>4. CASE j # i
    <3>1. Stored(h) \/ h \in Refused \/ (h \notin pel /\ runs[h] = 0)
      BY <1>0, <1>2, <2>1, <2>4 DEF TurnInv
    <3>. QED
      BY <1>1, <1>2, <3>1
  <2>. QED
    BY <2>3, <2>4
<1>10. OrderInv'
  BY <1>0, <1>1, <1>3 DEF OrderInv, Quiet, OnlyFailed
<1>. QED
  BY <1>4, <1>6, <1>7, <1>8, <1>9, <1>10 DEF RestInv

\* The RPC of the run, and the end of the run.
LEMMA HandlerKeepsRest ==
    ASSUME PathInv, NEW i \in Entries,
           Call(i) \/ ConnectFails(i) \/ Return(i) \/ Timeout(i)
    PROVE  RestInv'
<1>0. /\ IInv /\ PathTypeInv /\ HandlerInv /\ TaskInv /\ AnsweredInv /\ TurnInv /\ OrderInv
      /\ RowsTogether /\ TypeOK
  BY DEF PathInv, IInv
<1>1. /\ UNCHANGED <<pc, batch, blank, pel, acked, handled, blanked, runs, postgres, messages, outbox>>
      /\ pc = "handle" /\ Current(i) /\ handler \in {"connect", "wait"}
  BY DEF Call, ConnectFails, Return, Timeout, vars, pgVars, streamVars, groupVars, runVars, history
<1>2. \A K : OnlyFailed(K)' => OnlyFailed(K)
  BY <1>0, StepFaults DEF PathNext, Worker
<1>3. \A j : Stored(j)' <=> Stored(j)
  BY <1>1 DEF Stored
<1>4. \A j \in Entries : Current(j)' => j = i
  BY <1>0, <1>1, CurrentUnique DEF Current
<1>5. runs[i] \in Runs /\ i \notin blank /\ <<i, runs[i]>> \in Tasks /\ runs[i] > 0
  BY <1>0, <1>1 DEF HandlerInv, Tasks, Runs
<1>6. RowsTogether' /\ TurnInv' /\ OrderInv'
  BY <1>0, <1>1, <1>2, <1>3 DEF RowsTogether, Copies, TurnInv, OrderInv, Quiet
<1>7. CASE Call(i)
  <2>1. handler' = "wait" /\ task' = [task EXCEPT ![<<i, runs[i]>>] = "queued"] /\ faults' = faults
    BY <1>7 DEF Call, vars
  <2>2. PathTypeInv'
    BY <1>0, <1>1, <2>1 DEF PathTypeInv, TaskState
  <2>3. \A x \in Tasks : task'[x] = IF x = <<i, runs[i]>> THEN "queued" ELSE task[x]
    BY <1>0, <2>1 DEF PathTypeInv
  <2>4. HandlerInv'
    BY <1>0, <1>1, <1>4, <1>5, <2>1, <2>3 DEF HandlerInv
  <2>5. TaskInv'
    BY <1>0, <1>1, <1>3, <1>5, <2>3 DEF TaskInv
  <2>6. AnsweredInv'
    BY <1>0, <1>1, <1>2, <1>3, <2>1, <2>3 DEF AnsweredInv
  <2>. QED
    BY <1>6, <2>2, <2>4, <2>5, <2>6 DEF RestInv
<1>8. CASE ConnectFails(i) \/ Return(i) \/ Timeout(i)
  <2>1. handler' = "done" /\ task' = task
    BY <1>8 DEF ConnectFails, Return, Timeout, pgVars
  <2>2. PathTypeInv' /\ HandlerInv' /\ TaskInv'
    BY <1>0, <1>1, <1>3, <1>4, <1>5, <2>1 DEF PathTypeInv, HandlerInv, TaskInv
  <2>3. AnsweredInv'
    <3> SUFFICES ASSUME OnlyFailed(WorkerFaults)' PROVE AnsweredInv'
      BY DEF AnsweredInv
    <3>1. OnlyFailed(WorkerFaults)
      BY <1>2
    <3>2. ~Timeout(i)
      BY <1>0, FailureCounts DEF Timeout, WorkerFaults, Fault
    <3>3. Return(i)
      BY <1>0, <1>8, <3>1, <3>2 DEF ConnectFails, AnsweredInv
    <3>4. Stored(i) \/ i \in Refused
      BY <1>0, <1>5, <3>1, <3>3 DEF Return, AnsweredInv
    <3>. QED
      BY <1>0, <1>1, <1>3, <1>4, <2>1, <3>1, <3>4 DEF AnsweredInv
  <2>. QED
    BY <1>6, <2>2, <2>3 DEF RestInv
<1>. QED
  BY <1>7, <1>8

\* The entry is handled: it is stored, refused, or was trimmed.
LEMMA ReturnsKeepsRest == ASSUME PathInv, NEW i \in Entries, HandlerReturns(i) PROVE RestInv'
<1>0. /\ IInv /\ PathTypeInv /\ HandlerInv /\ TaskInv /\ AnsweredInv /\ TurnInv /\ OrderInv
      /\ RowsTogether /\ TypeOK
  BY DEF PathInv, IInv
<1>1. /\ UNCHANGED <<batch, blank, pel, acked, faults, runs, postgres, task, messages, outbox>>
      /\ Current(i) /\ handler = "done" /\ handler' = "none" /\ pc' = "ack"
      /\ blanked \subseteq blanked' /\ handled' \subseteq handled \cup ({i} \ blank)
  BY DEF HandlerReturns, Handle, pgVars, streamVars, groupVars
<1>2. \A j : Stored(j)' <=> Stored(j)
  BY <1>1 DEF Stored
<1>3. Quiet' => Quiet
  BY <1>1 DEF Quiet, OnlyFailed
<1>4. PathTypeInv' /\ RowsTogether' /\ HandlerInv' /\ TaskInv'
  BY <1>0, <1>1, <1>2 DEF PathTypeInv, RowsTogether, Copies, HandlerInv, TaskInv
<1>5. AnsweredInv'
  BY <1>0, <1>1, <1>2 DEF AnsweredInv, OnlyFailed
<1>6. TurnInv' /\ OrderInv'
  BY <1>0, <1>1, <1>2, <1>3 DEF TurnInv, OrderInv
<1>. QED
  BY <1>4, <1>5, <1>6 DEF RestInv

-----------------------------------------------------------------------------
\* A statement of the transaction, its refusal, or a start of data_postgres:
\* nothing is committed.
LEMMA TaskKeepsRest ==
    ASSUME PathInv, NEW x \in Tasks, InsertMessage(x) \/ InsertEvent(x) \/ Refuse(x)
    PROVE  RestInv'
<1>0. /\ IInv /\ PathTypeInv /\ HandlerInv /\ TaskInv /\ AnsweredInv /\ TurnInv /\ OrderInv
      /\ RowsTogether
  BY DEF PathInv
<1>1. UNCHANGED <<pc, batch, blank, pel, acked, handled, blanked, faults, handler, runs, postgres,
                  messages, outbox>>
  BY DEF InsertMessage, InsertEvent, Refuse, vars
<1>2. PICK s \in {"message", "event", "failed"} :
         /\ task' = [task EXCEPT ![x] = s] /\ task[x] \in {"queued", "message"}
         /\ s = "failed" => x[1] \in Refused
         /\ s # "failed" => x[1] \notin Refused
  BY <1>0 DEF InsertMessage, InsertEvent, Refuse, Step, TaskInv
<1>3. \A j : Stored(j)' <=> Stored(j)
  BY <1>1 DEF Stored
<1>4. \A y \in Tasks : task'[y] = IF y = x THEN s ELSE task[y]
  BY <1>0, <1>2 DEF PathTypeInv
<1>5. PathTypeInv' /\ RowsTogether'
  BY <1>0, <1>1, <1>2 DEF PathTypeInv, TaskState, RowsTogether, Copies
<1>6. HandlerInv'
  <2>1. \A j \in Entries : runs[j] \in Runs => <<j, runs[j]>> \in Tasks
    BY DEF Tasks
  <2>. QED
    BY <1>0, <1>1, <1>2, <1>4, <2>1 DEF HandlerInv, Current
<1>7. TaskInv'
  BY <1>0, <1>1, <1>2, <1>3, <1>4 DEF TaskInv
<1>8. AnsweredInv'
  BY <1>0, <1>1, <1>2, <1>3, <1>4 DEF AnsweredInv, Current, OnlyFailed
<1>9. TurnInv' /\ OrderInv'
  BY <1>0, <1>1, <1>3 DEF TurnInv, OrderInv, Quiet, OnlyFailed
<1>. QED
  BY <1>5, <1>6, <1>7, <1>8, <1>9 DEF RestInv

\* A transaction ends: with its message and event, in its turn, or without both.
LEMMA EndKeepsRest ==
    ASSUME PathInv, NEW x \in Tasks, Commit(x) \/ TransactionFails(x)
    PROVE  RestInv'
<1>0. /\ IInv /\ PathTypeInv /\ HandlerInv /\ TaskInv /\ AnsweredInv /\ TurnInv /\ OrderInv
      /\ RowsTogether /\ TypeOK
  BY DEF PathInv, IInv
<1>1. UNCHANGED <<pc, batch, blank, pel, acked, handled, blanked, handler, runs, postgres>>
  BY DEF Commit, TransactionFails, vars, streamVars, groupVars, runVars, history
<1>2. \A K : OnlyFailed(K)' => OnlyFailed(K)
  BY <1>0, StepFaults DEF PathNext, DataPostgres
<1>3. PICK s \in {"committed", "failed"} :
         /\ task' = [task EXCEPT ![x] = s]
         /\ s = "committed" => Commit(x)
         /\ s = "failed" => TransactionFails(x)
  BY DEF Commit, TransactionFails, Step
<1>4. \A y \in Tasks : task'[y] = IF y = x THEN s ELSE task[y]
  BY <1>0, <1>3 DEF PathTypeInv
<1>5. task[x] # "none" /\ x[1] \in Entries /\ runs[x[1]] > 0
  BY <1>0 DEF Commit, TransactionFails, Step, Running, TaskInv, Tasks
<1>6. \/ Store(x) /\ task[x] = "event" /\ x[1] \notin Refused
      \/ UNCHANGED <<messages, outbox>> /\ s = "failed"
  BY <1>0, <1>3 DEF Commit, TransactionFails, Step, TaskInv
<1>7. HandlerInv'
  <2>1. \A j \in Entries : runs[j] \in Runs => <<j, runs[j]>> \in Tasks
    BY DEF Tasks
  <2>. QED
    BY <1>0, <1>1, <1>3, <1>4, <2>1 DEF HandlerInv, Current
<1>8. ASSUME OnlyFailed(WorkerFaults)'
      PROVE  s = "committed" /\ Store(x) /\ OnlyFailed(WorkerFaults)
  BY <1>0, <1>2, <1>3, <1>8, FailureCounts DEF TransactionFails, Commit, Fault, WorkerFaults
<1>9. CASE Store(x) /\ task[x] = "event" /\ x[1] \notin Refused
  <2>1. /\ messages' \in Seq(Entries) /\ outbox' \in [Entries -> Nat]
        /\ DOMAIN messages' = 1 .. Len(messages) + 1
        /\ messages'[Len(messages) + 1] = x[1]
        /\ \A k \in 1 .. Len(messages) : messages'[k] = messages[k]
        /\ \A j \in Entries : Stored(j)' <=> Stored(j) \/ j = x[1]
        /\ \A j \in Entries : Copies(j) = outbox[j] => Copies(j)' = outbox'[j]
    BY <1>0, <1>9, StoreFacts
  <2>2. Len(messages) \in Nat /\ DOMAIN messages = 1 .. Len(messages)
    BY <1>0, MessagesSeq DEF PathTypeInv
  <2>3. PathTypeInv' /\ RowsTogether'
    BY <1>0, <1>1, <1>3, <2>1 DEF PathTypeInv, TaskState, RowsTogether
  <2>4. TaskInv'
    BY <1>0, <1>1, <1>3, <1>4, <1>5, <1>9, <2>1 DEF TaskInv
  <2>5. AnsweredInv'
    <3> SUFFICES ASSUME OnlyFailed(WorkerFaults)' PROVE AnsweredInv'
      BY DEF AnsweredInv
    <3>1. \A y \in Tasks : y[1] \in Entries
      BY DEF Tasks
    <3>2. handled \subseteq Entries
      BY <1>0 DEF TypeOK
    <3>. QED
      BY <1>0, <1>1, <1>4, <1>8, <2>1, <3>1, <3>2 DEF AnsweredInv, Current
  <2>6. TurnInv'
    BY <1>0, <1>1, <1>2, <2>1 DEF TurnInv, Quiet
  <2>7. OrderInv'
    <3> SUFFICES ASSUME Quiet', NEW i \in Entries, NEW j \in Entries, i < j, Stored(i)',
                        NEW k \in 1 .. Len(messages) + 1, messages'[k] = j
                 PROVE  \E h \in 1 .. k - 1 : messages'[h] = i
      BY <2>1 DEF OrderInv
    <3>1. Quiet
      BY <1>1, <1>2 DEF Quiet
    <3>2. i \in Int /\ j \in Int /\ k \in Int /\ i # j
      BY ConsumerAssumption DEF Entries
    <3>3. Stored(i)
      <4> SUFFICES ASSUME ~Stored(i) PROVE FALSE
        OBVIOUS
      <4>1. i = x[1] /\ j # x[1]
        BY <2>1, <3>2
      <4>2. Stored(j)
        <5>1. Stored(j)'
          BY <2>1 DEF Stored
        <5>. QED
          BY <2>1, <4>1, <5>1
      <4>3. runs[j] > 0
        BY <1>0, <4>2 DEF TaskInv
      <4>. QED
        BY <1>0, <1>5, <1>9, <3>1, <4>1, <4>3 DEF TurnInv
    <3>4. CASE k \in 1 .. Len(messages)
      <4>1. messages[k] = j
        BY <2>1, <3>4
      <4>2. PICK h \in 1 .. k - 1 : messages[h] = i
        BY <1>0, <2>2, <3>1, <3>3, <3>4, <4>1 DEF OrderInv
      <4>3. messages'[h] = i
        BY <2>1, <2>2, <3>4, <4>2
      <4>. QED
        BY <4>3
    <3>5. CASE k = Len(messages) + 1
      <4>1. PICK h \in 1 .. Len(messages) : messages[h] = i
        BY <2>2, <3>3 DEF Stored
      <4>2. messages'[h] = i /\ h \in 1 .. k - 1
        BY <2>1, <2>2, <3>5, <4>1
      <4>. QED
        BY <4>2
    <3>. QED
      BY <2>2, <3>4, <3>5
  <2>. QED
    BY <1>7, <2>3, <2>4, <2>5, <2>6, <2>7 DEF RestInv
<1>10. CASE UNCHANGED <<messages, outbox>> /\ s = "failed"
  <2>1. \A j : Stored(j)' <=> Stored(j)
    BY <1>10 DEF Stored
  <2>2. PathTypeInv' /\ RowsTogether'
    BY <1>0, <1>1, <1>3, <1>10 DEF PathTypeInv, TaskState, RowsTogether, Copies
  <2>3. TaskInv'
    BY <1>0, <1>1, <1>4, <1>5, <1>10, <2>1 DEF TaskInv
  <2>4. AnsweredInv'
    BY <1>8, <1>10 DEF AnsweredInv
  <2>5. TurnInv' /\ OrderInv'
    BY <1>0, <1>1, <1>2, <1>10, <2>1 DEF TurnInv, OrderInv, Quiet
  <2>. QED
    BY <1>7, <2>2, <2>3, <2>4, <2>5 DEF RestInv
<1>. QED
  BY <1>6, <1>9, <1>10

\* data_postgres dies, or is there again.
LEMMA ServerKeepsRest == PathInv /\ (PostgresCrash \/ PostgresStart) => RestInv'
<1> SUFFICES ASSUME PathInv, PostgresCrash \/ PostgresStart PROVE RestInv'
  OBVIOUS
<1>0. /\ IInv /\ PathTypeInv /\ HandlerInv /\ TaskInv /\ AnsweredInv /\ TurnInv /\ OrderInv
      /\ RowsTogether /\ TypeOK
  BY DEF PathInv, IInv
<1>1. UNCHANGED <<pc, batch, blank, pel, acked, handled, blanked, handler, runs, messages, outbox>>
  BY DEF PostgresCrash, PostgresStart, vars, streamVars, groupVars, runVars, history
<1>2. \A K : OnlyFailed(K)' => OnlyFailed(K)
  BY <1>0, StepFaults DEF PathNext, DataPostgres
<1>3. \A j : Stored(j)' <=> Stored(j)
  BY <1>1 DEF Stored
<1>4. \/ task' = task
      \/ task' = [x \in Tasks |-> IF task[x] = "none" THEN "none" ELSE "gone"]
  BY DEF PostgresCrash, PostgresStart
<1>5. task' \in [Tasks -> TaskState] /\ postgres' \in {"up", "down"}
  BY <1>0, <1>4 DEF PathTypeInv, TaskState, PostgresCrash, PostgresStart
<1>6. PathTypeInv' /\ RowsTogether' /\ TurnInv' /\ OrderInv'
  BY <1>0, <1>1, <1>2, <1>3, <1>5 DEF PathTypeInv, RowsTogether, Copies, TurnInv, OrderInv, Quiet
<1>7. HandlerInv' /\ TaskInv'
  <2>1. \A j \in Entries : runs[j] \in Runs => <<j, runs[j]>> \in Tasks
    BY DEF Tasks
  <2>2. \A x \in Tasks : task'[x] \in {task[x], "gone"} /\ (task'[x] = "none" <=> task[x] = "none")
    BY <1>4
  <2>. QED
    BY <1>0, <1>1, <1>3, <2>1, <2>2 DEF HandlerInv, TaskInv, Current
<1>8. AnsweredInv'
  <2> SUFFICES ASSUME OnlyFailed(WorkerFaults)' PROVE FALSE
    BY DEF AnsweredInv
  <2>1. OnlyFailed(WorkerFaults)
    BY <1>2
  <2>2. ~PostgresStart
    BY <1>0, <2>1 DEF PostgresStart, AnsweredInv
  <2>. QED
    BY <1>0, <2>2, FailureCounts DEF PostgresCrash, Fault, WorkerFaults
<1>. QED
  BY <1>6, <1>7, <1>8 DEF RestInv

-----------------------------------------------------------------------------
LEMMA NextPathInv == PathInv /\ [PathNext]_allVars => PathInv'
<1> SUFFICES ASSUME PathInv, [PathNext]_allVars PROVE PathInv'
  OBVIOUS
<1>1. IInv' /\ RereadInv'
  BY StepConsumer DEF PathInv
<1>2. RestInv'
  <2>1. CASE UNCHANGED allVars
    <3>1. UNCHANGED <<pc, batch, blank, pel, acked, handled, blanked, faults, handler, runs,
                      postgres, task, messages, outbox>>
      BY <2>1 DEF allVars, vars, pathVars
    <3>2. \A j : Stored(j)' <=> Stored(j)
      BY <3>1 DEF Stored
    <3>3. PathTypeInv' /\ HandlerInv' /\ TaskInv' /\ RowsTogether'
      BY <3>1, <3>2 DEF PathInv, PathTypeInv, HandlerInv, TaskInv, RowsTogether, Copies, Current
    <3>4. AnsweredInv'
      BY <3>1, <3>2 DEF PathInv, AnsweredInv, Current, OnlyFailed
    <3>5. TurnInv' /\ OrderInv'
      BY <3>1, <3>2 DEF PathInv, TurnInv, OrderInv, Quiet, OnlyFailed
    <3>. QED
      BY <3>3, <3>4, <3>5 DEF RestInv
  <2>. QED
    BY <2>1, OtherKeepsRest, CrashKeepsRest, StartKeepsRest, HandlerKeepsRest, ReturnsKeepsRest,
       TaskKeepsRest, EndKeepsRest, ServerKeepsRest DEF PathNext, Worker, DataPostgres
<1>. QED
  BY <1>1, <1>2 DEF PathInv, RestInv

LEMMA PathInvariant == PathSpec => []PathInv
  BY InitPathInv, NextPathInv, PTL DEF PathSpec

-----------------------------------------------------------------------------
(***************************************************************************)
(* What repeats a message: a run of the handler stores one at most, and    *)
(* there is one run more than the worker crashed at most.                  *)
(***************************************************************************)

\* The loop has begun with entry i.
Begun(i) == Current(i) /\ (pc = "ack" \/ handler # "none")

RunsInv ==
    \A i \in Entries :
        /\ runs[i] <= 1 + Crashes
        /\ pc \in {"down", "ensure", "pending"} => runs[i] <= Crashes
        /\ i \in batch /\ ~Begun(i) => runs[i] <= Crashes
        /\ i > cursor => runs[i] = 0

\* The runs for entry i whose RPC is over, on the side of data_postgres.
Over     == {"committed", "failed", "gone"}
Ended(i) == {n \in Runs : task[<<i, n>>] \in Over}

OnceInv ==
    /\ \A i \in Entries : \A n \in Runs : task[<<i, n>>] # "none" => n <= runs[i]
    /\ \A i \in Entries : Current(i) /\ handler = "connect" => task[<<i, runs[i]>>] = "none"
    /\ \A i \in Entries : Copies(i) <= Cardinality(Ended(i))

LEMMA RunsFinite ==
    /\ MaxFaults \in Nat /\ Runs \subseteq Nat /\ IsFiniteSet(Runs)
    /\ \A i : IsFiniteSet(Ended(i)) /\ Cardinality(Ended(i)) \in Nat
<1>1. MaxFaults \in Nat /\ Runs \subseteq Nat /\ IsFiniteSet(Runs)
  BY ConsumerAssumption, FS_Interval DEF Runs
<1>2. ASSUME NEW i PROVE IsFiniteSet(Ended(i)) /\ Cardinality(Ended(i)) \in Nat
  <2>1. Ended(i) \subseteq Runs
    BY DEF Ended
  <2>. QED
    BY <1>1, <2>1, FS_Subset, FS_CardinalityType
<1>. QED
  BY <1>1, <1>2

LEMMA CrashesGrow ==
    ASSUME TypeOK, faults' = faults \/ \E kind \in FaultKinds : Fault(kind)
    PROVE  /\ Crashes \in Nat /\ Crashes' \in Nat /\ Crashes <= Crashes'
           /\ Fault("crash") => Crashes' = Crashes + 1
  BY DEF Crashes, Fault, TypeOK

\* What is over stays over; then the messages may stay, or grow with a run's end.
LEMMA EndsCount ==
    ASSUME PathTypeInv, NEW i \in Entries, Ended(i) \subseteq Ended(i)',
           Copies(i) <= Cardinality(Ended(i)),
           \/ Copies(i)' = Copies(i)
           \/ Copies(i)' = Copies(i) + 1 /\ Ended(i)' # Ended(i)
    PROVE  Copies(i)' <= Cardinality(Ended(i)')
<1>1. IsFiniteSet(Ended(i)) /\ Cardinality(Ended(i)) \in Nat
  BY RunsFinite
<1>2. Ended(i)' \subseteq Runs /\ IsFiniteSet(Runs)
  BY RunsFinite DEF Ended, Runs
<1>3. IsFiniteSet(Ended(i)') /\ Cardinality(Ended(i)') \in Nat
  BY <1>2, FS_Subset, FS_CardinalityType
<1>4. /\ Cardinality(Ended(i)) <= Cardinality(Ended(i)')
      /\ Ended(i)' # Ended(i) => Cardinality(Ended(i)) # Cardinality(Ended(i)')
  BY <1>3, FS_Subset
<1>5. Copies(i) \in Nat
  BY StoredIsCounted DEF PathTypeInv
<1>. QED
  BY <1>1, <1>3, <1>4, <1>5

LEMMA InitRepeat == PathInit => RunsInv /\ OnceInv
<1> SUFFICES ASSUME PathInit PROVE RunsInv /\ OnceInv
  OBVIOUS
<1>1. Crashes \in Nat /\ cursor = 0 /\ batch = {} /\ \A i \in Entries : runs[i] = 0
  BY DEF PathInit, Init, Crashes
<1>2. RunsInv
  BY <1>1 DEF RunsInv
<1>3. \A i \in Entries : \A n \in Runs : task[<<i, n>>] = "none"
  BY DEF PathInit, Tasks
<1>4. \A i \in Entries : Copies(i) <= Cardinality(Ended(i))
  <2>1. PathInv
    BY InitPathInv
  <2>2. \A i \in Entries : ~Stored(i)
    BY DEF PathInit, Stored
  <2>3. \A i \in Entries : Copies(i) = 0
    BY <2>1, <2>2, StoredIsCounted DEF PathInv, PathTypeInv
  <2>. QED
    BY <2>3, RunsFinite
<1>. QED
  BY <1>1, <1>2, <1>3, <1>4 DEF OnceInv, PathInit

\* The loop moves on between two runs: what it reads anew was never run, what it
\* reads again was cut short by a crash.
LEMMA OtherKeepsRuns == PathInv /\ RunsInv /\ ConsumerOther => RunsInv'
<1> SUFFICES ASSUME PathInv, RunsInv, ConsumerOther, NEW i \in Entries
             PROVE  /\ runs'[i] <= 1 + Crashes'
                    /\ pc' \in {"down", "ensure", "pending"} => runs'[i] <= Crashes'
                    /\ i \in batch' /\ ~Begun(i)' => runs'[i] <= Crashes'
                    /\ i > cursor' => runs'[i] = 0
  BY DEF RunsInv
<1>0. IInv /\ TypeOK /\ PathTypeInv /\ HandlerInv
  BY DEF PathInv, IInv
<1>1. UNCHANGED <<runs, handler>> /\ (pc # "handle" => handler = "none")
  BY <1>0 DEF ConsumerOther, pathVars, HandlerInv
<1>2. Crashes \in Nat /\ Crashes' \in Nat /\ Crashes <= Crashes' /\ runs[i] \in Nat
  BY <1>0, StepFaults, CrashesGrow DEF PathNext, Worker, PathTypeInv
<1>3. /\ runs[i] <= 1 + Crashes
      /\ pc \in {"down", "ensure", "pending"} => runs[i] <= Crashes
      /\ i \in batch /\ ~Begun(i) => runs[i] <= Crashes
      /\ i > cursor => runs[i] = 0
  BY DEF RunsInv
<1>4. pc \notin {"handle", "ack"} => batch = {}
  BY <1>0 DEF IInv, RunInv
<1>5. cursor \in Int /\ last \in Int /\ i \in Int
  BY <1>0, ConsumerAssumption DEF TypeOK, Entries
<1>6. CASE Publish
  <2>1. UNCHANGED <<pc, batch, cursor>>
    BY <1>6 DEF Publish, groupVars, runVars
  <2>2. Begun(i)' <=> Begun(i)
    BY <1>1, <2>1 DEF Begun, Current
  <2>. QED
    BY <1>1, <1>2, <1>3, <2>1, <2>2
<1>7. CASE StartProcess \/ Wake \/ ReadPendingFails \/ EnsureGroupFails
  <2>1. /\ UNCHANGED <<batch, cursor>> /\ pc \notin {"handle", "ack"}
        /\ pc' \in {"down", "ensure", "pending"} => pc \in {"down", "ensure", "pending"}
    BY <1>7 DEF StartProcess, Wake, ReadPendingFails, EnsureGroupFails, groupVars
  <2>. QED
    BY <1>1, <1>2, <1>3, <1>4, <2>1
<1>8. CASE EnsureGroup
  <2>1. pc = "ensure" /\ batch' = batch /\ cursor' \in {cursor, last} /\ cursor <= cursor'
    BY <1>0, <1>8 DEF EnsureGroup, IInv, GroupInv, TypeOK
  <2>. QED
    BY <1>1, <1>2, <1>3, <1>4, <1>5, <2>1
<1>9. CASE ReadPending
  <2>1. pc = "pending" /\ cursor' = cursor
    BY <1>9 DEF ReadPending, groupVars
  <2>. QED
    BY <1>1, <1>2, <1>3, <2>1
<1>10. CASE ReadNew \/ ReadNewFails
  <2>1. HasGroup /\ pc' \notin {"down", "ensure", "pending"} /\ pc = "read"
    BY <1>0, <1>10 DEF ReadNew, ReadNewFails, Iterate, IInv, GroupInv
  <2>2. CASE UNCHANGED <<cursor, pel>> /\ ReadNewFails
    BY <1>1, <1>2, <1>3, <1>4, <2>1, <2>2 DEF ReadNewFails
  <2>3. CASE DeliverNew(Lowest(Undelivered, Batch))
    <3>1. cursor' \in Int /\ cursor <= cursor' /\ \A k \in Lowest(Undelivered, Batch) : cursor < k
      BY <1>0, <2>1, <2>3, Delivery
    <3>2. i \in batch' => i \in Lowest(Undelivered, Batch)
      BY <1>4, <1>10, <2>1 DEF ReadNew, ReadNewFails, Iterate
    <3>. QED
      BY <1>1, <1>2, <1>3, <1>5, <2>1, <3>1, <3>2
  <2>. QED
    BY <1>10, <2>2, <2>3 DEF ReadNew, ReadNewFails
<1>11. CASE \E n \in Entries : Ack(n) \/ AckFails(n)
  <2> PICK n \in Entries : Ack(n) \/ AckFails(n)
    BY <1>11
  <2>1. Current(n) /\ batch' = batch \ {n} /\ pc = "ack" /\ cursor' = cursor
    BY DEF Ack, AckFails, Iterate, groupVars
  <2>2. pc' \in {"read", "handle"}
    BY DEF Ack, AckFails, Iterate
  <2>3. ASSUME i \in batch' PROVE ~Begun(i) /\ i \in batch
    BY <1>0, <2>1, <2>3, CurrentUnique DEF Begun
  <2>. QED
    BY <1>1, <1>2, <1>3, <2>1, <2>2, <2>3
<1>. QED
  BY <1>6, <1>7, <1>8, <1>9, <1>10, <1>11 DEF ConsumerOther, ReceiveWebhook

LEMMA NextRuns == PathInv /\ RunsInv /\ [PathNext]_allVars => RunsInv'
<1> SUFFICES ASSUME PathInv, RunsInv, [PathNext]_allVars PROVE RunsInv'
  OBVIOUS
<1>0. IInv /\ TypeOK /\ PathTypeInv /\ HandlerInv
  BY DEF PathInv, IInv
<1>1. faults' = faults \/ \E kind \in FaultKinds : Fault(kind)
  BY <1>0, StepFaults
<1>2. Crashes \in Nat /\ Crashes' \in Nat /\ Crashes <= Crashes' /\ (Fault("crash") => Crashes' = Crashes + 1)
  BY <1>0, <1>1, CrashesGrow
<1>3. \A i \in Entries : runs[i] \in Nat
  BY <1>0 DEF PathTypeInv
<1>4. CASE WorkerCrash
  <2>1. /\ UNCHANGED <<cursor, runs>> /\ batch' = {} /\ Crashes' = Crashes + 1
    BY <1>2, <1>4 DEF WorkerCrash, Crash, groupVars
  <2>. QED
    BY <1>2, <1>3, <2>1 DEF RunsInv
<1>5. ASSUME NEW i \in Entries, StartHandler(i) PROVE RunsInv'
  <2>1. /\ UNCHANGED <<pc, batch, cursor, faults>> /\ pc = "handle" /\ Current(i) /\ handler = "none"
        /\ runs' = [runs EXCEPT ![i] = runs[i] + 1] /\ handler' # "none"
    BY <1>5 DEF StartHandler, vars
  <2>2. ~Begun(i) /\ i \in batch /\ Begun(i)'
    BY <2>1 DEF Begun, Current
  <2>3. i <= cursor
    BY <1>0, <2>2 DEF IInv, GroupInv, RunInv
  <2>4. ASSUME NEW j \in Entries, j # i PROVE ~Begun(j) /\ runs'[j] = runs[j]
    BY <1>0, <2>1, <2>4 DEF Begun, PathTypeInv
  <2>5. runs'[i] = runs[i] + 1 /\ runs[i] <= Crashes
    BY <1>0, <2>1, <2>2 DEF PathTypeInv, RunsInv
  <2>6. ~(i > cursor) /\ Crashes' = Crashes
    BY <1>0, <2>1, <2>3, ConsumerAssumption DEF TypeOK, Entries, Crashes
  <2>. QED
    BY <1>2, <1>3, <2>1, <2>2, <2>4, <2>5, <2>6 DEF RunsInv
<1>6. CASE \/ \E i \in Entries : \/ Call(i) \/ ConnectFails(i) \/ Return(i)
                                \/ Timeout(i) \/ HandlerReturns(i)
           \/ DataPostgres \/ UNCHANGED allVars
  <2>1. UNCHANGED <<batch, cursor, runs>>
    BY <1>6 DEF Call, ConnectFails, Return, Timeout, HandlerReturns, Handle, DataPostgres,
       PostgresCrash, PostgresStart, InsertMessage, InsertEvent, Commit, Refuse, TransactionFails,
       allVars, vars, pathVars, streamVars, groupVars, runVars, history, pgVars
  <2>2. \/ UNCHANGED <<pc, handler>>
        \/ pc' = pc /\ handler # "none" /\ handler' # "none"
        \/ pc = "handle" /\ pc' = "ack" /\ handler # "none"
    BY <1>6 DEF Call, ConnectFails, Return, Timeout, HandlerReturns, Handle, DataPostgres,
       PostgresCrash, PostgresStart, InsertMessage, InsertEvent, Commit, Refuse, TransactionFails,
       allVars, vars, pathVars, streamVars, groupVars, runVars, history, pgVars
  <2>3. \A i : Begun(i)' <=> Begun(i)
    BY <2>1, <2>2 DEF Begun, Current
  <2>4. pc' \in {"down", "ensure", "pending"} => pc \in {"down", "ensure", "pending"}
    BY <2>2
  <2>. QED
    BY <1>2, <1>3, <2>1, <2>3, <2>4 DEF RunsInv
<1>. QED
  BY <1>4, <1>5, <1>6, OtherKeepsRuns DEF PathNext, Worker

\* A step that neither stores nor moves the handler of a run to its call.
LEMMA IdleKeepsOnce ==
    ASSUME PathInv, OnceInv, UNCHANGED <<messages, runs>>,
           \A i \in Entries : \A n \in Runs :
               /\ task'[<<i, n>>] = "none" <=> task[<<i, n>>] = "none"
               /\ task[<<i, n>>] \in Over => task'[<<i, n>>] \in Over,
           \A i \in Entries : Current(i)' /\ handler' = "connect" =>
               Current(i) /\ handler = "connect"
    PROVE  OnceInv'
<1>0. PathTypeInv /\ HandlerInv
  BY DEF PathInv
<1>1. \A i \in Entries : Ended(i) \subseteq Ended(i)' /\ Copies(i)' = Copies(i)
  BY DEF Ended, Runs, Copies
<1>2. \A i \in Entries : Copies(i)' <= Cardinality(Ended(i)')
  BY <1>0, <1>1, EndsCount DEF OnceInv
<1>3. ASSUME NEW i \in Entries, Current(i)', handler' = "connect" PROVE task'[<<i, runs'[i]>>] = "none"
  <2>1. Current(i) /\ handler = "connect" /\ runs[i] \in Runs
    BY <1>0, <1>3 DEF HandlerInv
  <2>. QED
    BY <2>1 DEF OnceInv
<1>4. ASSUME NEW i \in Entries, NEW n \in Runs', task'[<<i, n>>] # "none" PROVE n <= runs'[i]
  BY <1>4 DEF OnceInv, Runs
<1>. QED
  BY <1>2, <1>3, <1>4 DEF OnceInv

LEMMA NextOnce == PathInv /\ OnceInv /\ [PathNext]_allVars => OnceInv'
<1> SUFFICES ASSUME PathInv, OnceInv, [PathNext]_allVars PROVE OnceInv'
  OBVIOUS
<1>0. IInv /\ TypeOK /\ PathTypeInv /\ HandlerInv
  BY DEF PathInv, IInv
<1>1. \A i \in Entries : \A n \in Runs : <<i, n>> \in Tasks
  BY DEF Tasks
<1>2. CASE ConsumerOther \/ UNCHANGED allVars
  <2>1. UNCHANGED <<messages, runs, task, handler>>
    BY <1>2 DEF ConsumerOther, allVars, pathVars
  <2>2. handler # "none" => UNCHANGED <<pc, batch>>
    BY <1>0, <1>2, OtherFacts DEF HandlerInv, allVars, vars
  <2>. QED
    BY <2>1, <2>2, IdleKeepsOnce DEF Current
<1>3. CASE WorkerCrash
  <2>1. UNCHANGED <<messages, runs, task>> /\ handler' = "none"
    BY <1>3 DEF WorkerCrash, pgVars
  <2>. QED
    BY <2>1, IdleKeepsOnce
<1>4. ASSUME NEW i \in Entries, StartHandler(i) PROVE OnceInv'
  <2>1. /\ UNCHANGED <<batch, messages, task>> /\ Current(i)
        /\ runs' = [runs EXCEPT ![i] = runs[i] + 1] /\ runs[i] \in Nat
    BY <1>0, <1>4 DEF StartHandler, vars, pgVars, PathTypeInv
  <2>2. \A j \in Entries : runs'[j] = IF j = i THEN runs[i] + 1 ELSE runs[j]
    BY <1>0, <2>1 DEF PathTypeInv
  <2>3. \A j \in Entries : Ended(j)' = Ended(j) /\ Copies(j)' = Copies(j)
    BY <2>1 DEF Ended, Runs, Copies
  <2>4. ASSUME NEW j \in Entries, NEW n \in Runs, task[<<j, n>>] # "none" PROVE n <= runs'[j]
    <3>1. n <= runs[j] /\ n \in Nat
      BY <2>4, RunsFinite DEF OnceInv
    <3>. QED
      BY <2>1, <2>2, <3>1
  <2>5. ASSUME NEW j \in Entries, Current(j)' PROVE task[<<j, runs'[j]>>] = "none"
    <3>1. j = i
      BY <1>0, <2>1, <2>5, CurrentUnique DEF Current
    <3>2. runs'[i] = runs[i] + 1 /\ runs'[i] \in Runs
      BY <1>4, <2>2 DEF StartHandler
    <3>3. ~(runs'[i] <= runs[i])
      BY <2>1, <3>2
    <3>. QED
      BY <3>1, <3>2, <3>3 DEF OnceInv
  <2>. QED
    BY <2>1, <2>3, <2>4, <2>5 DEF OnceInv, Runs
<1>5. ASSUME NEW i \in Entries, Call(i) PROVE OnceInv'
  <2>1. /\ UNCHANGED <<batch, messages, runs>> /\ Current(i) /\ handler = "connect" /\ handler' = "wait"
        /\ task' = [task EXCEPT ![<<i, runs[i]>>] = "queued"]
    BY <1>5 DEF Call, vars
  <2>2. runs[i] \in Runs /\ <<i, runs[i]>> \in Tasks /\ task[<<i, runs[i]>>] = "none" /\ runs[i] \in Nat
    BY <1>0, <1>1, <2>1 DEF HandlerInv, OnceInv, PathTypeInv
  <2>3. \A x \in Tasks : task'[x] = IF x = <<i, runs[i]>> THEN "queued" ELSE task[x]
    BY <1>0, <2>1 DEF PathTypeInv
  <2>4. \A j \in Entries : Ended(j)' = Ended(j) /\ Copies(j)' = Copies(j)
    <3>1. ASSUME NEW j \in Entries, NEW n \in Runs
          PROVE  task'[<<j, n>>] \in Over <=> task[<<j, n>>] \in Over
      BY <1>1, <2>2, <2>3 DEF Over
    <3>. QED
      BY <2>1, <3>1 DEF Ended, Runs, Copies
  <2>5. ASSUME NEW j \in Entries, NEW n \in Runs, task'[<<j, n>>] # "none" PROVE n <= runs[j]
    BY <1>1, <2>2, <2>3, <2>5 DEF OnceInv
  <2>. QED
    BY <2>1, <2>4, <2>5 DEF OnceInv, Runs
<1>6. ASSUME NEW i \in Entries,
             ConnectFails(i) \/ Return(i) \/ Timeout(i) \/ HandlerReturns(i)
      PROVE  OnceInv'
  <2>1. UNCHANGED <<messages, runs, task>> /\ handler' \in {"done", "none"}
    BY <1>6 DEF ConnectFails, Return, Timeout, HandlerReturns, pgVars
  <2>. QED
    BY <2>1, IdleKeepsOnce
<1>7. CASE \/ PostgresCrash \/ PostgresStart
           \/ \E x \in Tasks : InsertMessage(x) \/ InsertEvent(x) \/ Refuse(x)
  <2>1. UNCHANGED <<messages, runs, handler, batch>>
    BY <1>7 DEF PostgresCrash, PostgresStart, InsertMessage, InsertEvent, Refuse, vars, runVars
  <2>2. ASSUME NEW y \in Tasks
        PROVE  /\ task'[y] = "none" <=> task[y] = "none"
               /\ task[y] \in Over => task'[y] \in Over
    <3>1. CASE PostgresCrash \/ PostgresStart
      BY <3>1 DEF PostgresCrash, PostgresStart, Over
    <3>2. ASSUME NEW x \in Tasks, InsertMessage(x) \/ InsertEvent(x) \/ Refuse(x)
          PROVE  /\ task'[y] = "none" <=> task[y] = "none"
                 /\ task[y] \in Over => task'[y] \in Over
      <4>1. PICK s \in {"message", "event", "failed"} :
               task[x] \in {"queued", "message"} /\ task' = [task EXCEPT ![x] = s]
        BY <3>2 DEF InsertMessage, InsertEvent, Refuse, Step
      <4>2. task'[y] = IF y = x THEN s ELSE task[y]
        BY <1>0, <4>1 DEF PathTypeInv
      <4>. QED
        BY <4>1, <4>2 DEF Over
    <3>. QED
      BY <1>7, <3>1, <3>2
  <2>. QED
    BY <1>1, <2>1, <2>2, IdleKeepsOnce DEF Current
<1>8. ASSUME NEW x \in Tasks, Commit(x) \/ TransactionFails(x) PROVE OnceInv'
  <2>1. UNCHANGED <<runs, handler, batch>>
    BY <1>8 DEF Commit, TransactionFails, vars, runVars
  <2>2. PICK s \in {"committed", "failed"} : task' = [task EXCEPT ![x] = s] /\ task[x] \in Running
    BY <1>8 DEF Commit, TransactionFails, Step, Running
  <2>3. /\ \A y \in Tasks : task'[y] = IF y = x THEN s ELSE task[y]
        /\ task[x] \notin Over /\ task[x] # "none" /\ s \in Over
    BY <1>0, <2>2 DEF PathTypeInv, Running, Over
  <2>4. Store(x) \/ messages' = messages
    BY <1>8 DEF Commit, TransactionFails
  <2>5. CASE messages' = messages
    BY <1>1, <2>1, <2>3, <2>5, IdleKeepsOnce DEF Current
  <2>6. CASE Store(x)
    <3>1. x[1] \in Entries /\ x[2] \in Runs /\ x = <<x[1], x[2]>>
      BY DEF Tasks
    <3>2. ASSUME NEW i \in Entries
          PROVE  Copies(i)' = IF i = x[1] THEN Copies(i) + 1 ELSE Copies(i)
      <4>1. Copies(i) = Cardinality(Places(messages, i)) /\ Copies(i)' = Cardinality(Places(messages', i))
        BY DEF Copies, Places
      <4>. QED
        BY <1>0, <2>6, <3>1, <4>1, AppendCounts DEF Store, PathTypeInv
    <3>3. \A i \in Entries : Ended(i) \subseteq Ended(i)'
      BY <1>1, <2>3 DEF Ended, Runs
    <3>4. x[2] \notin Ended(x[1]) /\ x[2] \in Ended(x[1])'
      BY <2>3, <3>1 DEF Ended, Runs
    <3>5. \A i \in Entries : Copies(i)' <= Cardinality(Ended(i)')
      BY <1>0, <3>2, <3>3, <3>4, EndsCount DEF OnceInv
    <3>6. ASSUME NEW i \in Entries, Current(i)', handler' = "connect"
          PROVE  task'[<<i, runs'[i]>>] = "none"
      <4>1. Current(i) /\ handler = "connect" /\ runs[i] \in Runs
        BY <1>0, <2>1, <3>6 DEF HandlerInv, Current
      <4>2. task[<<i, runs[i]>>] = "none" /\ <<i, runs[i]>> \in Tasks
        BY <1>1, <4>1 DEF OnceInv
      <4>. QED
        BY <2>1, <2>3, <4>2
    <3>7. ASSUME NEW i \in Entries, NEW n \in Runs, task'[<<i, n>>] # "none" PROVE n <= runs'[i]
      BY <1>1, <2>1, <2>3, <3>7 DEF OnceInv
    <3>. QED
      BY <3>5, <3>6, <3>7 DEF OnceInv, Runs
  <2>. QED
    BY <2>4, <2>5, <2>6
<1>. QED
  BY <1>2, <1>3, <1>4, <1>5, <1>6, <1>7, <1>8 DEF PathNext, Worker, DataPostgres

\* Nothing but a crash of the worker stores a message, or its event, again, and each
\* crash repeats one once at most.
THEOREM MessagesRepeatByCrash == PathSpec => []RepeatedByCrashOnly
<1>1. PathInit => PathInv /\ RunsInv /\ OnceInv
  BY InitPathInv, InitRepeat
<1>2. PathInv /\ RunsInv /\ OnceInv /\ [PathNext]_allVars => (PathInv /\ RunsInv /\ OnceInv)'
  BY NextPathInv, NextRuns, NextOnce
<1>3. PathInv /\ RunsInv /\ OnceInv => RepeatedByCrashOnly
  <2> SUFFICES ASSUME PathInv, RunsInv, OnceInv, NEW i \in Entries
               PROVE  Copies(i) <= 1 + Crashes /\ outbox[i] <= 1 + Crashes
    BY DEF RepeatedByCrashOnly
  <2>0. TypeOK /\ PathTypeInv /\ RowsTogether
    BY DEF PathInv, IInv
  <2>1. Copies(i) \in Nat /\ runs[i] \in Nat /\ outbox[i] = Copies(i) /\ Crashes \in Nat
    BY <2>0, StoredIsCounted DEF PathTypeInv, RowsTogether, Crashes, TypeOK
  <2>2. Ended(i) \subseteq 1 .. runs[i]
    BY <2>1, RunsFinite DEF OnceInv, Ended, Over, Runs
  <2>3. IsFiniteSet(1 .. runs[i]) /\ Cardinality(1 .. runs[i]) = runs[i]
    <3> DEFINE r == runs[i]
    <3>1. r \in Int /\ 1 \in Int /\ r >= 0
      BY <2>1
    <3> HIDE DEF r
    <3>2. Cardinality(1 .. r) = IF 1 > r THEN 0 ELSE r - 1 + 1
      BY <3>1, FS_Interval
    <3>3. IsFiniteSet(1 .. r)
      BY <3>1, FS_Interval
    <3>. QED
      BY <3>1, <3>2, <3>3 DEF r
  <2>4. Cardinality(Ended(i)) <= runs[i] /\ Cardinality(Ended(i)) \in Nat
    BY <2>2, <2>3, FS_Subset, RunsFinite
  <2>5. Copies(i) <= Cardinality(Ended(i)) /\ runs[i] <= 1 + Crashes
    BY DEF OnceInv, RunsInv
  <2>. QED
    BY <2>1, <2>4, <2>5
<1>. QED
  BY <1>1, <1>2, <1>3, PTL DEF PathSpec

\* While only the worker and its connection to Redis fail, a confirmed entry that
\* was handled is in the database, unless the database refuses it.
THEOREM ConfirmedIsStored == PathSpec => []AckedIsStored
<1>1. PathInv => AckedIsStored
  BY StoredIsCounted DEF PathInv, AckedIsStored, AnsweredInv, PathTypeInv, IInv, TypeOK
<1>. QED
  BY <1>1, PathInvariant, PTL

\* The first message of an entry: where it stands.
LEMMA FirstIsLeast ==
    ASSUME messages \in Seq(Entries), NEW i \in Entries, Stored(i)
    PROVE  /\ FirstAt(i) \in DOMAIN messages /\ messages[FirstAt(i)] = i
           /\ \A h \in 1 .. FirstAt(i) - 1 : messages[h] # i
<1> DEFINE At == {k \in DOMAIN messages : messages[k] = i}
<1>1. DOMAIN messages = 1 .. Len(messages) /\ Len(messages) \in Nat
  BY MessagesSeq
<1>2. At \in SUBSET Nat /\ At # {}
  BY <1>1 DEF Stored
<1>3. PICK m \in At : \A k \in At : m <= k
  BY <1>2, LeastMember
<1>4. \A h \in 1 .. m - 1 : messages[h] # i
  BY <1>1, <1>3
<1>5. m \in DOMAIN messages /\ messages[m] = i
  BY <1>3
<1>. HIDE DEF At
<1>. QED
  BY <1>4, <1>5 DEF FirstAt

\* While the worker only crashes, and no entry is trimmed while it is pending, the
\* messages are stored in the order of their entries.
THEOREM MessagesKeepOrder == PathSpec => []StoredInOrder
<1>1. PathInv => StoredInOrder
  <2> SUFFICES ASSUME PathInv, OnlyFailed({"crash", "group"}), blanked = {},
                      NEW i \in Entries, NEW j \in Entries, Copies(i) > 0, Copies(j) > 0, i < j
               PROVE  FirstAt(i) < FirstAt(j)
    BY DEF StoredInOrder
  <2>1. messages \in Seq(Entries) /\ OrderInv /\ Quiet
    BY DEF PathInv, PathTypeInv, Quiet
  <2>2. Stored(i) /\ Stored(j)
    BY <2>1, StoredIsCounted
  <2> DEFINE a == FirstAt(i)
             b == FirstAt(j)
  <2>3. a \in DOMAIN messages /\ \A h \in 1 .. a - 1 : messages[h] # i
    BY <2>1, <2>2, FirstIsLeast
  <2>4. b \in DOMAIN messages /\ messages[b] = j
    BY <2>1, <2>2, FirstIsLeast
  <2>5. a \in Nat /\ b \in Nat
    BY <2>1, <2>3, <2>4, MessagesSeq
  <2> HIDE DEF a, b
  <2>6. PICK h \in 1 .. b - 1 : messages[h] = i
    BY <2>1, <2>2, <2>4 DEF OrderInv
  <2>7. a <= h
    BY <2>3, <2>5, <2>6
  <2>. QED
    BY <2>5, <2>6, <2>7 DEF a, b
<1>. QED
  BY <1>1, PathInvariant, PTL
=============================================================================
