------------------------------- MODULE Outbox -------------------------------
(***************************************************************************)
(* The transactional outbox of data_postgres: business transactions insert *)
(* a row of the table outbox, a trigger notifies the channel outbox_new,   *)
(* and one relay task (OutboxRelay) drains the unpublished rows into the   *)
(* Redis stream events:stream and marks them published.                    *)
(*                                                                         *)
(* The relay and the RPC handlers that open the transactions live in the   *)
(* same process: a crash stops both.  Every failure (a Redis or Postgres   *)
(* error, a lost LISTEN session, a crash) is an action of its own, enabled *)
(* per kind by FaultKinds and bounded in number by MaxFaults.              *)
(***************************************************************************)
EXTENDS Naturals, Sequences, FiniteSets, Functions

CONSTANTS Rows,        \* rows transactions may insert
          Poison,      \* those whose payload is not UTF-8 JSON
          Limit,       \* LIMIT of the relay's SELECT (100 in the code)
          BypassRls,   \* TRUE iff the pool's role is exempt from row security
          FaultKinds,  \* subset of {"crash", "broker", "db", "listener"}
          MaxFaults    \* bound on the number of failures

ASSUME OutboxAssumption ==
    /\ Poison \subseteq Rows
    /\ Limit \in Nat \ {0}
    /\ BypassRls \in BOOLEAN
    /\ MaxFaults \in Nat

VARIABLES
    row,          \* row[r]: life of the transaction and of the row it inserts
    occurred_at,  \* occurred_at[r]: NOW(), the start of r's transaction
    earlier,      \* history: rows already committed when r's transaction began
    clock,        \* the database clock, one tick per transaction
    notified,     \* notifications buffered for the relay's LISTEN session
    listening,    \* the LISTEN session is alive
    pc,           \* where OutboxRelay::run stands
    batch,        \* rows of the current drain not yet handled
    sending,      \* the row published whose UPDATE is still to be run
    stream,       \* every XADD to events:stream, in order
    faults        \* faults[kind]: failures of that kind so far

relayVars == <<notified, listening, pc, batch, sending, stream>>
tableVars == <<row, occurred_at, earlier, clock>>
vars == <<row, occurred_at, earlier, clock, notified, listening, pc, batch,
          sending, stream, faults>>

RowState == {"absent", "open", "rolledback", "pending", "published"}
RelayPc  == {"down", "connecting", "select", "rows", "mark", "recv", "backoff"}

TypeOK ==
    /\ row \in [Rows -> RowState]
    /\ occurred_at \in [Rows -> Nat]
    /\ earlier \in [Rows -> SUBSET Rows]
    /\ clock \in Nat
    /\ notified \in Nat
    /\ listening \in BOOLEAN
    /\ pc \in RelayPc
    /\ batch \in SUBSET Rows
    /\ sending \in SUBSET Rows
    /\ stream \in Seq(Rows)
    /\ faults \in [FaultKinds -> Nat]

OnStream  == {stream[i] : i \in DOMAIN stream}
Committed == {r \in Rows : row[r] \in {"pending", "published"}}
Published == {r \in Rows : row[r] = "published"}

Init ==
    /\ row = [r \in Rows |-> "absent"]
    /\ occurred_at = [r \in Rows |-> 0]
    /\ earlier = [r \in Rows |-> {}]
    /\ clock = 1
    /\ notified = 0
    /\ listening = FALSE
    /\ pc = "down"
    /\ batch = {}
    /\ sending = {}
    /\ stream = <<>>
    /\ faults = [kind \in FaultKinds |-> 0]

Failures == SumFunction(faults)

\* No kind of failure but those of K has happened so far.
OnlyFailed(K) == \A kind \in FaultKinds \ K : faults[kind] = 0

Fault(kind) ==
    /\ kind \in FaultKinds
    /\ Failures < MaxFaults
    /\ faults' = [faults EXCEPT ![kind] = @ + 1]

-----------------------------------------------------------------------------
(***************************************************************************)
(* Business transactions (run_in_tenant_transaction around                 *)
(* handler_persist_message's INSERTs).                                     *)
(***************************************************************************)

\* pool.begin(): NOW(), the default of occurred_at, is fixed here.
BeginTx(r) ==
    /\ pc # "down"
    /\ row[r] = "absent"
    /\ row' = [row EXCEPT ![r] = "open"]
    /\ occurred_at' = [occurred_at EXCEPT ![r] = clock]
    /\ earlier' = [earlier EXCEPT ![r] = Committed]
    /\ clock' = clock + 1
    /\ UNCHANGED <<relayVars, faults>>

\* commit(): the row becomes visible and the trigger's pg_notify is sent, to
\* the sessions that listen at that moment only.
CommitTx(r) ==
    /\ row[r] = "open"
    /\ row' = [row EXCEPT ![r] = "pending"]
    /\ notified' = IF listening THEN notified + 1 ELSE notified
    /\ UNCHANGED <<occurred_at, earlier, clock, listening, pc, batch, sending,
                   stream, faults>>

\* An error inside the callback drops the transaction: neither row nor notify.
RollbackTx(r) ==
    /\ row[r] = "open"
    /\ row' = [row EXCEPT ![r] = "rolledback"]
    /\ UNCHANGED <<occurred_at, earlier, clock, relayVars, faults>>

-----------------------------------------------------------------------------
(***************************************************************************)
(* OutboxRelay::run                                                        *)
(***************************************************************************)

StartProcess ==
    /\ pc = "down"
    /\ pc' = "connecting"
    /\ UNCHANGED <<tableVars, notified, listening, batch, sending, stream, faults>>

\* A plausible slip: no drain of what was left over by the previous run.
ListenNoInitialDrain ==
    /\ pc = "connecting"
    /\ listening' = TRUE
    /\ pc' = "recv"
    /\ UNCHANGED <<tableVars, notified, batch, sending, stream, faults>>

\* LISTEN first, the initial drain after it.
Listen ==
    /\ pc = "connecting"
    /\ listening' = TRUE
    /\ pc' = "select"
    /\ UNCHANGED <<tableVars, notified, batch, sending, stream, faults>>

\* A plausible slip: waking up without a notification.
RecvSpurious ==
    /\ pc = "recv"
    /\ notified' = notified - 1
    /\ pc' = "select"
    /\ UNCHANGED <<tableVars, listening, batch, sending, stream, faults>>

\* A notification (or one still buffered when the session died) wakes the relay.
Recv ==
    /\ pc = "recv"
    /\ notified > 0
    /\ notified' = notified - 1
    /\ pc' = "select"
    /\ UNCHANGED <<tableVars, listening, batch, sending, stream, faults>>

\* PgListener::recv reconnects on its own when it finds the session dead: the
\* loop never learns that notifications were missed, and does not drain.
RecvReconnects ==
    /\ pc = "recv"
    /\ ~listening
    /\ notified = 0
    /\ listening' = TRUE
    /\ UNCHANGED <<tableVars, notified, pc, batch, sending, stream, faults>>

\* Or its reconnection fails: recv() reports the error, and run() logs it and
\* sleeps two seconds.
RecvErr ==
    /\ pc = "recv"
    /\ ~listening
    /\ notified = 0
    /\ pc' = "backoff"
    /\ UNCHANGED <<tableVars, notified, listening, batch, sending, stream, faults>>

\* The new listener replaces the old one; back to recv() with no drain.
Reconnect ==
    /\ pc = "backoff"
    /\ listening' = TRUE
    /\ pc' = "recv"
    /\ UNCHANGED <<tableVars, notified, batch, sending, stream, faults>>

\* connect or listen failed: the old listener is kept and asked again.
ReconnectFails ==
    /\ pc = "backoff"
    /\ Fault("listener")
    /\ pc' = "recv"
    /\ UNCHANGED <<tableVars, notified, listening, batch, sending, stream>>

-----------------------------------------------------------------------------
(***************************************************************************)
(* drenar_outbox                                                           *)
(***************************************************************************)
\* A plausible slip: published_at IS NULL is forgotten.
VisibleMarked(r) == BypassRls /\ row[r] \in {"pending", "published"}

\* The rows the SELECT sees: unpublished, and only if row security lets the
\* relay's session, which sets no app.current_tenant, see any row at all.
Visible(r) == BypassRls /\ row[r] = "pending"

\* ORDER BY occurred_at ASC LIMIT n: the n oldest visible rows.
OldestVisible(S) ==
    LET seen == {r \in Rows : Visible(r)} IN
    /\ S \subseteq seen
    /\ Cardinality(S) = IF Cardinality(seen) < Limit THEN Cardinality(seen) ELSE Limit
    /\ \A a \in S, b \in seen \ S : occurred_at[a] <= occurred_at[b]

\* A plausible slip: rows in the order the heap returns them.
FirstOfAny(r) == r \in batch

\* The row the loop of drenar_outbox looks at.
First(r) == r \in batch /\ \A q \in batch : occurred_at[r] <= occurred_at[q]

\* rows.is_empty() returns at once.
SelectPending ==
    /\ pc = "select"
    /\ \E S \in SUBSET Rows :
          /\ OldestVisible(S)
          /\ batch' = S
          /\ pc' = IF S = {} THEN "recv" ELSE "rows"
    /\ UNCHANGED <<tableVars, notified, listening, sending, stream, faults>>

\* The SELECT fails: the error is logged by run(), which goes on to recv().
SelectFails ==
    /\ pc = "select"
    /\ Fault("db")
    /\ pc' = "recv"
    /\ UNCHANGED <<tableVars, notified, listening, batch, sending, stream>>

\* A plausible slip: break instead of continue at a poisoned row.
SkipPoisonBreaks(r) ==
    /\ pc = "rows"
    /\ First(r)
    /\ r \in Poison
    /\ batch' = {}
    /\ UNCHANGED <<tableVars, notified, listening, pc, sending, stream, faults>>

\* Not UTF-8 or not JSON: logged, skipped, left unpublished for ever.
SkipPoison(r) ==
    /\ pc = "rows"
    /\ First(r)
    /\ r \in Poison
    /\ batch' = batch \ {r}
    /\ UNCHANGED <<tableVars, notified, listening, pc, sending, stream, faults>>

\* publicar_evento answered Ok: the event is on the stream, its row unmarked.
Publish(r) ==
    /\ pc = "rows"
    /\ First(r)
    /\ r \notin Poison
    /\ stream' = Append(stream, r)
    /\ batch' = batch \ {r}
    /\ sending' = {r}
    /\ pc' = "mark"
    /\ UNCHANGED <<tableVars, notified, listening, faults>>

\* A plausible slip: continue instead of break after a failed publish.
PublishFailsSkips(r) ==
    /\ pc = "rows"
    /\ First(r)
    /\ r \notin Poison
    /\ Fault("broker")
    /\ stream' = stream
    /\ batch' = batch \ {r}
    /\ UNCHANGED <<tableVars, notified, listening, pc, sending>>

\* publicar_evento answered Err: break.  The XADD was executed, its answer
\* lost, or it never reached Redis.
PublishFails(r) ==
    /\ pc = "rows"
    /\ First(r)
    /\ r \notin Poison
    /\ Fault("broker")
    /\ \/ stream' = stream
       \/ stream' = Append(stream, r)
    /\ batch' = {}
    /\ pc' = "recv"
    /\ UNCHANGED <<tableVars, notified, listening, sending>>

\* A plausible slip: one UPDATE for the whole batch that was selected.
MarkAll ==
    /\ pc = "mark"
    /\ row' = [r \in Rows |-> IF r \in sending \cup batch THEN "published" ELSE row[r]]
    /\ sending' = {}
    /\ pc' = "rows"
    /\ UNCHANGED <<occurred_at, earlier, clock, notified, listening, batch, stream, faults>>

\* UPDATE outbox SET published_at = NOW() WHERE id = $1
Mark ==
    /\ pc = "mark"
    /\ row' = [r \in Rows |-> IF r \in sending THEN "published" ELSE row[r]]
    /\ sending' = {}
    /\ pc' = "rows"
    /\ UNCHANGED <<occurred_at, earlier, clock, notified, listening, batch, stream, faults>>

\* The UPDATE fails: `?` abandons the rest of the batch.  It may have been
\* executed all the same.
MarkFails ==
    /\ pc = "mark"
    /\ Fault("db")
    /\ \/ row' = row
       \/ row' = [r \in Rows |-> IF r \in sending THEN "published" ELSE row[r]]
    /\ sending' = {}
    /\ batch' = {}
    /\ pc' = "recv"
    /\ UNCHANGED <<occurred_at, earlier, clock, notified, listening, stream>>

\* The for loop ends; run() waits for the next notification.
EndDrain ==
    /\ pc = "rows"
    /\ batch = {}
    /\ pc' = "recv"
    /\ UNCHANGED <<tableVars, notified, listening, batch, sending, stream, faults>>

-----------------------------------------------------------------------------
(***************************************************************************)
(* The environment                                                         *)
(***************************************************************************)

\* The LISTEN session dies; what its socket already buffered may still be read.
LoseListener ==
    /\ listening
    /\ Fault("listener")
    /\ listening' = FALSE
    /\ \E n \in 0 .. notified : notified' = n
    /\ UNCHANGED <<tableVars, pc, batch, sending, stream>>

\* The process dies (or exits: main's select! ends when the relay ends, as it
\* does when the first connect or LISTEN fails).  Open transactions roll back.
Crash ==
    /\ pc # "down"
    /\ Fault("crash")
    /\ row' = [r \in Rows |-> IF row[r] = "open" THEN "rolledback" ELSE row[r]]
    /\ pc' = "down"
    /\ listening' = FALSE
    /\ notified' = 0
    /\ batch' = {}
    /\ sending' = {}
    /\ UNCHANGED <<occurred_at, earlier, clock, stream>>

-----------------------------------------------------------------------------
RelayStep ==
    \/ Listen \/ Recv \/ RecvReconnects \/ Reconnect
    \/ SelectPending \/ EndDrain \/ Mark
    \/ \E r \in Rows : SkipPoison(r) \/ Publish(r)

Failure ==
    \/ RecvErr \/ ReconnectFails \/ SelectFails \/ MarkFails
    \/ LoseListener \/ Crash
    \/ \E r \in Rows : PublishFails(r)

Business == \E r \in Rows : BeginTx(r) \/ CommitTx(r) \/ RollbackTx(r)

Next == StartProcess \/ RelayStep \/ Failure \/ Business

Spec == Init /\ [][Next]_vars

\* tokio keeps polling the relay task while the process is up; nothing forces
\* a transaction to commit, a failure to happen or the process to be started.
FairSpec == Spec /\ WF_vars(RelayStep)

-----------------------------------------------------------------------------
(***************************************************************************)
(* Properties                                                              *)
(***************************************************************************)

\* A row is marked published only if its event is on the stream, whatever
\* fails between the XADD and the UPDATE (drenar_outbox, lines 121-136).
PublishedOnStream == Published \subseteq OnStream

\* No event is on the stream whose transaction did not commit: the outbox
\* removes the dual write of state and event.
StreamIsCommitted == OnStream \subseteq Committed

\* Causal order on the bus: when an event is on the stream, so is every event
\* committed before its transaction began (poisoned rows apart).  ORDER BY
\* occurred_at together with the break after a failed publish is what keeps
\* it, across failures, restarts and partial batches.
CausalOrder == \A r \in OnStream : earlier[r] \ Poison \subseteq OnStream

\* An event whose row is marked is never published again.
NeverRepublished ==
    [][stream' # stream => row[stream'[Len(stream')]] = "pending"]_vars

Pending == {r \in Rows : row[r] = "pending"}

Backlog == Cardinality(Pending) > Limit

\* As long as nothing fails but the process, and no backlog outgrows a batch,
\* every committed event with a valid payload is published or the process is
\* down: no notification is missed between LISTEN, drain and recv, and the
\* drain of the next start makes up for those a crash has lost.
EventuallyPublished ==
    [](OnlyFailed({"crash"}) /\ ~Backlog) =>
        \A r \in Rows \ Poison :
            row[r] = "pending" ~> (row[r] = "published" \/ pc = "down")

\* Whatever has failed before, one notification that reaches the relay is enough
\* to publish what earlier failures left behind, up to a batch, poisoned rows
\* notwithstanding; unless something fails again meanwhile.
NotificationResumes ==
    []~Backlog =>
        \A r \in Rows \ Poison, n \in 0 .. MaxFaults :
            (row[r] = "pending" /\ notified > 0 /\ Failures = n)
                ~> (row[r] = "published" \/ Failures # n)

\* arquitetura-dados-ingestao-eventos.md:112: when the broker fails the event
\* waits in the table for the system to recover, and nothing is lost.
ZeroLoss ==
    \A r \in Rows \ Poison :
        row[r] = "pending" ~> (row[r] = "published" \/ pc = "down")

\* The relay implements the at-least-once hop: offered is committed, delivered
\* is on the stream, settled is marked.
Hop == INSTANCE AtLeastOnce WITH Items <- Rows, offered <- Committed,
                                 delivered <- OnStream, settled <- Published
ImplementsAtLeastOnce == Hop!ASpec
=============================================================================
