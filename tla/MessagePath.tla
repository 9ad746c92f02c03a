----------------------------- MODULE MessagePath -----------------------------
(***************************************************************************)
(* The path of a WhatsApp message: messaging_gateway adds an entry         *)
(* "message.received" to events:stream (Publish), the worker's consumer    *)
(* hands it to processar_mensagem_recebida, which asks data_postgres to    *)
(* PersistMessage over RPC; data_postgres inserts the message and its      *)
(* outbox row in one transaction.                                          *)
(*                                                                         *)
(* This module composes StreamConsumer, whose action Handle becomes the    *)
(* run of the worker's handler, with the RPC and the transaction.  An RPC  *)
(* whose caller gave up runs on in data_postgres.  The reply is lost with  *)
(* the server only; MuxClient.tla has the transport in detail.             *)
(***************************************************************************)
EXTENDS StreamConsumer, Sequences

CONSTANTS Refused  \* entries whose INSERT the database refuses (no such tenant)

ASSUME PathAssumption == Refused \subseteq Entries

\* FaultKinds may also hold "timeout", "db" and "postgres".

VARIABLES
    handler,   \* the worker's handler: "none", "connect", "wait" or "done"
    runs,      \* runs[i]: times it was started for entry i
    postgres,  \* the process data_postgres: "up" or "down"
    task,      \* task[<<i, n>>]: the RPC of the n-th run for i
    messages,  \* rows of the table of messages, by entry, in commit order
    outbox     \* outbox[i]: outbox rows committed for entry i

pathVars == <<handler, runs, postgres, task, messages, outbox>>
pgVars   == <<postgres, task, messages, outbox>>
allVars  == <<vars, pathVars>>

\* Bounded like the failures: a run for the same entry needs one in between.
Runs  == 1 .. MaxFaults + 1
Tasks == Entries \X Runs
Running == {"queued", "message", "event"}

PathInit ==
    /\ Init
    /\ handler = "none"
    /\ runs = [i \in Entries |-> 0]
    /\ postgres = "up"
    /\ task = [x \in Tasks |-> "none"]
    /\ messages = <<>>
    /\ outbox = [i \in Entries |-> 0]

Copies(i) == Cardinality({k \in DOMAIN messages : messages[k] = i})

-----------------------------------------------------------------------------
(***************************************************************************)
(* The worker                                                              *)
(***************************************************************************)

\* The gateway publishes what the webhook brought.  Its caller is told of success,
\* or of an error, also when the entry was added and only the reply of XADD was
\* lost: then the caller sends it again, and that is one more entry.
ReceiveWebhook == Publish

\* Everything of the consumer but the call of its handler.
ConsumerOther ==
    /\ \/ ReceiveWebhook \/ StartProcess \/ EnsureGroup \/ ReadPending \/ ReadNew \/ Wake
       \/ EnsureGroupFails \/ ReadPendingFails \/ ReadNewFails
       \/ \E i \in Entries : Ack(i) \/ AckFails(i)
    /\ UNCHANGED pathVars

WorkerCrash ==
    /\ Crash
    /\ handler' = "none"
    /\ UNCHANGED <<runs, pgVars>>

\* An entry without fields has no event_type and is passed over.
StartHandler(i) ==
    /\ pc = "handle"
    /\ Current(i)
    /\ handler = "none"
    /\ runs[i] + 1 \in Runs
    /\ runs' = [runs EXCEPT ![i] = @ + 1]
    /\ handler' = IF i \in blank THEN "done" ELSE "connect"
    /\ UNCHANGED <<vars, pgVars>>

\* conectar_cliente and the request of call(): the server starts a task.
Call(i) ==
    /\ pc = "handle"
    /\ Current(i)
    /\ handler = "connect"
    /\ postgres = "up"
    /\ task' = [task EXCEPT ![<<i, runs[i]>>] = "queued"]
    /\ handler' = "wait"
    /\ UNCHANGED <<vars, runs, postgres, messages, outbox>>

\* Every dial failed: an error.
ConnectFails(i) ==
    /\ pc = "handle"
    /\ Current(i)
    /\ handler = "connect"
    /\ postgres = "down"
    /\ handler' = "done"
    /\ UNCHANGED <<vars, runs, pgVars>>

\* The reply, or the error envelope; or no answer, because the server died.
Return(i) ==
    /\ pc = "handle"
    /\ Current(i)
    /\ handler = "wait"
    /\ task[<<i, runs[i]>>] \in {"committed", "failed", "gone"}
    /\ handler' = "done"
    /\ UNCHANGED <<vars, runs, pgVars>>

\* A plausible slip: the handler calls again when the five seconds are over.
TimeoutRetries(i) ==
    /\ pc = "handle"
    /\ Current(i)
    /\ handler = "wait"
    /\ task[<<i, runs[i]>>] \in Running
    /\ Fault("timeout")
    /\ runs[i] + 1 \in Runs
    /\ runs' = [runs EXCEPT ![i] = @ + 1]
    /\ handler' = "connect"
    /\ UNCHANGED <<streamVars, groupVars, runVars, history, pgVars>>

\* The five seconds are over while data_postgres is still at it.
Timeout(i) ==
    /\ pc = "handle"
    /\ Current(i)
    /\ handler = "wait"
    /\ task[<<i, runs[i]>>] \in Running
    /\ Fault("timeout")
    /\ handler' = "done"
    /\ UNCHANGED <<streamVars, groupVars, runVars, history, runs, pgVars>>

\* A plausible slip: an entry is confirmed as soon as its request is sent.
HandlerReturnsEarly(i) ==
    /\ handler \in {"wait", "done"}
    /\ Handle(i)
    /\ handler' = "none"
    /\ UNCHANGED <<runs, pgVars>>

\* The closure of main() logs the error, if any, and returns: Consumer::run
\* confirms the entry all the same.
HandlerReturns(i) ==
    /\ handler = "done"
    /\ Handle(i)
    /\ handler' = "none"
    /\ UNCHANGED <<runs, pgVars>>

-----------------------------------------------------------------------------
(***************************************************************************)
(* handler_persist_message                                                 *)
(***************************************************************************)
Step(x, from, to) ==
    /\ task[x] = from
    /\ task' = [task EXCEPT ![x] = to]

InsertMessage(x) ==
    /\ Step(x, "queued", "message")
    /\ x[1] \notin Refused
    /\ UNCHANGED <<vars, handler, runs, postgres, messages, outbox>>

InsertEvent(x) ==
    /\ Step(x, "message", "event")
    /\ UNCHANGED <<vars, handler, runs, postgres, messages, outbox>>

Store(x) ==
    /\ messages' = Append(messages, x[1])
    /\ outbox' = [outbox EXCEPT ![x[1]] = @ + 1]

Commit(x) ==
    /\ Step(x, "event", "committed")
    /\ Store(x)
    /\ UNCHANGED <<vars, handler, runs, postgres>>

\* The row is refused: an error, and the transaction is dropped.
Refuse(x) ==
    /\ Step(x, "queued", "failed")
    /\ x[1] \in Refused
    /\ UNCHANGED <<vars, handler, runs, postgres, messages, outbox>>

\* A statement fails and the transaction is dropped; or its COMMIT was executed
\* and only the answer is an error.
TransactionFails(x) ==
    /\ task[x] \in Running
    /\ Fault("db")
    /\ \/ UNCHANGED <<messages, outbox>>
       \/ task[x] = "event" /\ Store(x)
    /\ task' = [task EXCEPT ![x] = "failed"]
    /\ UNCHANGED <<streamVars, groupVars, runVars, history, handler, runs, postgres>>

\* data_postgres dies: open transactions roll back, replies are lost.
PostgresCrash ==
    /\ postgres = "up"
    /\ Fault("postgres")
    /\ postgres' = "down"
    /\ task' = [x \in Tasks |-> IF task[x] = "none" THEN "none" ELSE "gone"]
    /\ UNCHANGED <<streamVars, groupVars, runVars, history, handler, runs, messages, outbox>>

PostgresStart ==
    /\ postgres = "down"
    /\ postgres' = "up"
    /\ UNCHANGED <<vars, handler, runs, task, messages, outbox>>

-----------------------------------------------------------------------------
Worker ==
    \/ ConsumerOther \/ WorkerCrash
    \/ \E i \in Entries :
          \/ StartHandler(i) \/ Call(i) \/ ConnectFails(i) \/ Return(i)
          \/ Timeout(i) \/ HandlerReturns(i)

DataPostgres ==
    \/ PostgresCrash \/ PostgresStart
    \/ \E x \in Tasks : \/ InsertMessage(x) \/ InsertEvent(x) \/ Commit(x)
                        \/ Refuse(x) \/ TransactionFails(x)

PathNext == Worker \/ DataPostgres

PathSpec == PathInit /\ [][PathNext]_allVars

-----------------------------------------------------------------------------
(***************************************************************************)
(* Properties                                                              *)
(***************************************************************************)

Crashes == IF "crash" \in FaultKinds THEN faults["crash"] ELSE 0

\* Nothing but an end of the worker stores a message, or its event, again, and each
\* end repeats one once at most.  A call that ran into its deadline and committed
\* later, a COMMIT whose answer was an error, a data_postgres that died before it
\* answered, failed XACKs and lost replies of Redis do not.
RepeatedByCrashOnly ==
    \A i \in Entries : Copies(i) <= 1 + Crashes /\ outbox[i] <= 1 + Crashes

\* The failures of the worker and of its connection to Redis.
WorkerFaults == {"crash", "group", "pending", "read", "ack"}

\* While only the worker and its connection to Redis fail, a confirmed entry is
\* in the database, unless the database refuses it or it was trimmed.
AckedIsStored ==
    OnlyFailed(WorkerFaults) =>
        \A i \in (acked \cap handled) \ Refused : Copies(i) > 0

\* Where the first message of entry i stands.
FirstAt(i) == CHOOSE k \in DOMAIN messages :
                 messages[k] = i /\ \A h \in 1 .. k - 1 : messages[h] # i

\* While the worker only crashes, and no entry is trimmed while it is pending, the
\* messages are stored in the order of their entries, repetitions apart: the RPC
\* of a run that was cut short never lets a later entry overtake.
StoredInOrder ==
    OnlyFailed({"crash", "group"}) /\ blanked = {} =>
        \A i, j \in Entries :
            Copies(i) > 0 /\ Copies(j) > 0 /\ i < j => FirstAt(i) < FirstAt(j)
=============================================================================
