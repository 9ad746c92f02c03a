----------------------------- MODULE AuditTrail -----------------------------
(***************************************************************************)
(* The audit trail.  An event of audit is put on security:stream by        *)
(* handler_verify_credentials (a login refused; inside data_postgres) or   *)
(* by an AuditLogger (in any other process), and the audit consumer of     *)
(* data_postgres consolidates it into the table audit_log.                 *)
(*                                                                         *)
(* This module composes StreamConsumer, for security:stream and its group, *)
(* with the producers, the consolidation and a reader of the trail.  The   *)
(* consumer and the RPC server are one process: pc = "down" stops both.    *)
(***************************************************************************)
EXTENDS StreamConsumer, Sequences

CONSTANTS Tenants,    \* rows of tenants_tenant
          System,     \* stands for "no tenant" (a NULL tenant_id)
          TenantOf,   \* the tenant each event names: one of Tenants, System or another
          Attempts,   \* events said by handler_verify_credentials
          BypassRls,  \* whether the role of the pool bypasses row security
          Limit       \* LIMIT of the reader's queries

\* Events are numbered like the entries; the order of the numbers means nothing.
Events == Entries

ASSUME AuditAssumption ==
    /\ TenantOf \in [Events -> Tenants \cup {System, "unknown"}]
    /\ "unknown" \notin Tenants /\ System # "admin"
    /\ Attempts \subseteq Events
    /\ BypassRls \in BOOLEAN
    /\ Limit \in Nat \ {0}

\* FaultKinds may also hold "xadd", "producer" and "db".

VARIABLES
    said,     \* said[e]: what became of the event at its producer
    ref,      \* ref[i]: the event of stream entry i
    handler,  \* processar_evento_auditoria: "none", "begin", "insert", "commit", "done"
    trail,    \* rows of audit_log, by event, in the order of their timestamps
    reader    \* a walk over the pages of a query; due: rows there at its start, not yet seen

producerVars == <<said, ref>>
auditVars    == <<said, ref, handler, trail, reader>>
allVars      == <<vars, auditVars>>

Idle == [who |-> System, offset |-> -1, due |-> {}]

AuditInit ==
    /\ Init
    /\ said = [e \in Events |-> "none"]
    /\ ref = <<>>
    /\ handler = "none"
    /\ trail = <<>>
    /\ reader = Idle

\* The table refuses the row: tenant_id references no tenant; or it is NULL,
\* which the only policy of the table admits for nobody.
Refused(e) ==
    \/ TenantOf[e] \notin Tenants \cup {System}
    \/ TenantOf[e] = System /\ ~BypassRls

Copies(e)   == Cardinality({k \in DOMAIN trail : trail[k] = e})
Recorded(i) == i \in DOMAIN ref /\ Copies(ref[i]) > 0

-----------------------------------------------------------------------------
(***************************************************************************)
(* Producers                                                               *)
(***************************************************************************)

\* handler_verify_credentials finds the credentials wrong.  A tenant_id that is
\* no UUID becomes the nil one, which is no tenant.
RejectLogin(e) ==
    /\ pc # "down"
    /\ e \in Attempts
    /\ said[e] = "none"
    /\ said' = [said EXCEPT ![e] = "sending"]
    /\ UNCHANGED <<vars, ref, handler, trail, reader>>

\* log_tenant_event and log_global_event, called by info .. error_global with their
\* level: a task is spawned and the caller goes on, so events said one after the other
\* may reach the stream in any order.
Spawn(e) ==
    /\ e \notin Attempts
    /\ said[e] = "none"
    /\ said' = [said EXCEPT ![e] = "sending"]
    /\ UNCHANGED <<vars, ref, handler, trail, reader>>

LogTenantEvent(e) == TenantOf[e] # System /\ Spawn(e)
LogGlobalEvent(e) == TenantOf[e] = System /\ Spawn(e)

\* publicar_evento_seguranca.
Send(e) ==
    /\ said[e] = "sending"
    /\ Publish
    /\ said' = [said EXCEPT ![e] = "sent"]
    /\ ref' = Append(ref, e)
    /\ UNCHANGED <<handler, trail, reader>>

\* A plausible slip: a producer that tries again as long as it sees an error.
SendFailsAgain(e) ==
    /\ said[e] = "sending"
    /\ Fault("xadd")
    /\ \/ UNCHANGED <<streamVars, ref>>
       \/ last < MaxEntries /\ last' = last + 1 /\ first' = first /\ ref' = Append(ref, e)
    /\ UNCHANGED <<groupVars, runVars, history, said, handler, trail, reader>>

\* XADD fails, and the error is only logged.  Redis may have executed it.
SendFails(e) ==
    /\ said[e] = "sending"
    /\ Fault("xadd")
    /\ \/ UNCHANGED <<streamVars, ref>>
       \/ last < MaxEntries /\ last' = last + 1 /\ first' = first /\ ref' = Append(ref, e)
    /\ said' = [said EXCEPT ![e] = "lost"]
    /\ UNCHANGED <<groupVars, runVars, history, handler, trail, reader>>

\* What is being sent in a process is lost with it.
Silenced(E) ==
    said' = [e \in Events |-> IF e \in E /\ said[e] = "sending" THEN "lost" ELSE said[e]]

ProducerDies ==
    /\ Fault("producer")
    /\ Silenced(Events \ Attempts)
    /\ UNCHANGED <<streamVars, groupVars, runVars, history, ref, handler, trail, reader>>

-----------------------------------------------------------------------------
(***************************************************************************)
(* data_postgres                                                           *)
(***************************************************************************)

\* Everything of the consumer but its handler and what ends the process.
ConsumerOther ==
    /\ \/ StartProcess \/ EnsureGroup \/ ReadPending \/ ReadNew \/ Wake
       \/ ReadPendingFails \/ ReadNewFails
       \/ \E i \in Entries : Ack(i) \/ AckFails(i)
    /\ UNCHANGED auditVars

\* main() ends when run() of the consumer does, and the RPC server with it.
ProcessEnds ==
    /\ Crash \/ EnsureGroupFails
    /\ Silenced(Attempts)
    /\ handler' = "none"
    /\ UNCHANGED <<ref, trail, reader>>

At(i, from) ==
    /\ pc = "handle"
    /\ Current(i)
    /\ handler = from

\* A plausible slip: the tenant of the envelope, never absent, in place of the
\* payload's (a global event has the nil tenant there).
ConsolidateAsTenant(i) ==
    /\ At(i, "none")
    /\ handler' = IF i \in blank \/ TenantOf[ref[i]] = System THEN "done" ELSE "begin"
    /\ UNCHANGED <<vars, said, ref, trail, reader>>

\* The entry is deserialised (an entry without fields is not, and is passed
\* over); an event of a tenant takes a transaction, a global one does not.
Consolidate(i) ==
    /\ At(i, "none")
    /\ handler' = CASE i \in blank                 -> "done"
                    [] TenantOf[ref[i]] = System   -> "insert"
                    [] OTHER                       -> "begin"
    /\ UNCHANGED <<vars, said, ref, trail, reader>>

\* run_in_tenant_transaction: BEGIN and app.current_tenant.
BeginTx(i) ==
    /\ At(i, "begin")
    /\ handler' = "insert"
    /\ UNCHANGED <<vars, said, ref, trail, reader>>

\* inserir_audit_log, inside the transaction.
InsertTenant(i) ==
    /\ At(i, "insert")
    /\ TenantOf[ref[i]] # System
    /\ handler' = IF Refused(ref[i]) THEN "done" ELSE "commit"
    /\ UNCHANGED <<vars, said, ref, trail, reader>>

CommitTx(i) ==
    /\ At(i, "commit")
    /\ trail' = Append(trail, ref[i])
    /\ handler' = "done"
    /\ UNCHANGED <<vars, said, ref, reader>>

\* inserir_audit_log_global: one statement on the pool.
InsertGlobal(i) ==
    /\ At(i, "insert")
    /\ TenantOf[ref[i]] = System
    /\ trail' = IF Refused(ref[i]) THEN trail ELSE Append(trail, ref[i])
    /\ handler' = "done"
    /\ UNCHANGED <<vars, said, ref, reader>>

\* A statement fails: logged, and nothing else.  The last one may have been
\* executed all the same.
ConsolidateFails(i) ==
    /\ \/ At(i, "begin") \/ At(i, "insert") \/ At(i, "commit")
    /\ Fault("db")
    /\ \/ UNCHANGED trail
       \/ /\ handler = "commit" \/ TenantOf[ref[i]] = System
          /\ ~Refused(ref[i])
          /\ trail' = Append(trail, ref[i])
    /\ handler' = "done"
    /\ UNCHANGED <<streamVars, groupVars, runVars, history, said, ref, reader>>

\* A plausible slip: the consolidation is spawned and the entry confirmed.
HandlerReturnsEarly(i) ==
    /\ handler # "none"
    /\ Handle(i)
    /\ handler' = "none"
    /\ UNCHANGED <<said, ref, trail, reader>>

\* The closure returns (), and run() confirms the entry.
HandlerReturns(i) ==
    /\ handler = "done"
    /\ Handle(i)
    /\ handler' = "none"
    /\ UNCHANGED <<said, ref, trail, reader>>

-----------------------------------------------------------------------------
(***************************************************************************)
(* The reader: pages of LIMIT rows, the newest first, OFFSET after OFFSET  *)
(***************************************************************************)

\* Rows row security shows to a session: those of its tenant; a session of the
\* administrative pool has none.
VisibleTo(who) == {k \in DOMAIN trail : BypassRls \/ TenantOf[trail[k]] = who}

\* buscar_audit_logs, within a session of the tenant.
TenantRows(t) == {k \in VisibleTo(t) : TenantOf[trail[k]] = t}

\* buscar_audit_logs_por_evento: those whose event has the name, any set of events.
EventRows(t, E) == {k \in TenantRows(t) : trail[k] \in E}

\* buscar_audit_logs_admin: of every tenant, on the administrative pool.
AdminRows == VisibleTo("admin")

\* buscar_audit_logs_globais.
GlobalRows == {k \in VisibleTo("admin") : TenantOf[trail[k]] = System}

\* A plausible slip: OFFSET counted from one.
PageShort(R, offset) == {k \in R : Cardinality({j \in R : j > k}) \in offset + 1 .. offset + Limit}

\* ORDER BY timestamp DESC LIMIT OFFSET.
Page(R, offset) ==
    {k \in R : Cardinality({j \in R : j > k}) \in offset .. offset + Limit - 1}

Rows(who) ==
    CASE who = System  -> GlobalRows
      [] who = "admin" -> AdminRows
      [] OTHER         -> EventRows(who, Events)

OpenTrail(who) ==
    /\ reader = Idle
    /\ Rows(who) # {}
    /\ reader' = [who |-> who, offset |-> 0, due |-> Rows(who)]
    /\ UNCHANGED <<vars, said, ref, handler, trail>>

\* The walk is over at the first page that comes back empty.
NextPage ==
    /\ reader # Idle
    /\ LET page == Page(Rows(reader.who), reader.offset)
       IN reader' = IF page = {}
                    THEN Idle
                    ELSE [reader EXCEPT !.due = @ \ page, !.offset = @ + Limit]
    /\ UNCHANGED <<vars, said, ref, handler, trail>>

-----------------------------------------------------------------------------
Producer ==
    \/ ProducerDies
    \/ \E e \in Events : RejectLogin(e) \/ LogTenantEvent(e) \/ LogGlobalEvent(e)
                          \/ Send(e) \/ SendFails(e)

Consolidation(i) ==
    \/ Consolidate(i) \/ BeginTx(i) \/ InsertTenant(i) \/ CommitTx(i)
    \/ InsertGlobal(i) \/ HandlerReturns(i)

Reader == NextPage \/ \E who \in Tenants \cup {System, "admin"} : OpenTrail(who)

AuditNext ==
    \/ Producer \/ ConsumerOther \/ ProcessEnds \/ Reader
    \/ \E i \in Entries : Consolidation(i) \/ ConsolidateFails(i)

AuditSpec == AuditInit /\ [][AuditNext]_allVars

\* The consumer's task while the process is up; every statement it awaits ends.
AuditWork ==
    \/ /\ EnsureGroup \/ ReadPending \/ ReadNew \/ Wake \/ \E i \in Entries : Ack(i)
       /\ UNCHANGED auditVars
    \/ \E i \in Entries : Consolidation(i)

AuditFairSpec == AuditSpec /\ WF_allVars(AuditWork)

-----------------------------------------------------------------------------
(***************************************************************************)
(* Properties                                                              *)
(***************************************************************************)

Crashes == IF "crash" \in FaultKinds THEN faults["crash"] ELSE 0

\* Nothing but an end of the process repeats a row, and each repeats it once at
\* most: failed statements, failed XACKs and lost replies of Redis do not.
RepeatedByRestartOnly ==
    \A e \in Events : Copies(e) <= 1 + Crashes

\* The failures of the consumer's process, of its connection to Redis, and of producers.
OutsideFaults == {"crash", "group", "pending", "read", "ack", "xadd", "producer"}

\* While only the consumer's process and its connection to Redis fail, an event
\* that was confirmed is in the trail, unless the table refuses it or it was
\* trimmed before.
ConfirmedIsRecorded ==
    OnlyFailed(OutsideFaults) =>
        \A i \in acked \cap handled : Refused(ref[i]) \/ Recorded(i)

\* A walk over the pages sees every row that was there when it began, though
\* rows are consolidated between two pages.
PagesMissNothing == [][reader # Idle /\ reader' = Idle => reader.due = {}]_allVars

\* An event on the stream since the group exists gets into the trail, as long as
\* the process only crashes, unless it is refused or trimmed first.
EventIsRecorded ==
    []OnlyFailed({"crash", "group", "xadd", "producer"}) =>
        \A i \in Entries :
            (i \in Owed /\ ~Refused(ref[i])) ~> (i < first \/ Recorded(i) \/ pc = "down")

\* seguranca.md:55: every sensitive action, logins named first, leaves a trail:
\* so does, with nothing failing, each refused login that was consolidated.
LoginIsAudited ==
    Failures = 0 => \A i \in acked \cap handled : ref[i] \in Attempts => Recorded(i)
=============================================================================
