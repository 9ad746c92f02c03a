------------------------------- MODULE Tenancy -------------------------------
(***************************************************************************)
(* Tenants: their registration (RegisterTenant of control_plane, which     *)
(* calls CreateTenant of data_postgres with a deadline of five seconds),   *)
(* and the transactions of a tenant on the tables of infrastructure_       *)
(* postgres::tenants, each on a connection of the pool, under row security.*)
(*                                                                         *)
(* A row is found by a key that is UNIQUE in its table: the slug of a      *)
(* tenant, the user of a membership, the token of an invite, the tenant of *)
(* a subscription, the id of a payment.  A transaction sees the committed  *)
(* rows and its own; a row written by another open one is locked.          *)
(*                                                                         *)
(* Row security compares the tenant of a row with the variable             *)
(* app.current_tenant, which a connection of the pool keeps for its session*)
(* and a transaction may set for itself; connections go from tenant to     *)
(* tenant, and to the relay of the outbox, which runs its statements on the*)
(* same pool outside of any transaction.                                   *)
(***************************************************************************)
EXTENDS Errors

CONSTANTS Conns,      \* connections of the pool
          Clients,    \* callers of RegisterTenant
          Slugs, Users, Invites, Payments,
          slug,       \* slug[r]: the slug that client r registers
          Ids,        \* the ids of tenants
          Owner,      \* Owner[s]: the tenants there are to begin with, by slug
          Grants,     \* the sets of scopes that a user may hold
          MaxCalls,   \* bound on the calls of a client
          MaxTx,      \* bound on the transactions of tenants
          MaxStatements, \* and on the statements of one
          MaxFaults

Tenants0 == {Owner[s] : s \in DOMAIN Owner}

ASSUME TenancyAssumption ==
    /\ slug \in [Clients -> Slugs]
    /\ DOMAIN Owner \subseteq Slugs
    /\ Ids \subseteq Nat \ {0}
    /\ Tenants0 \subseteq Ids

None == [tenant |-> 0]

Keys == ({"tenant"} \X Slugs) \cup ({"user"} \X Users) \cup ({"invite"} \X Invites)
        \cup ({"subscription"} \X Tenants0) \cup ({"payment"} \X Payments) \cup ({"outbox"} \X Tenants0)

Unset == 0  \* app.current_tenant that was never set, or was set and reverted: NULL or ''

VARIABLES
    rows,    \* rows[k]: the committed row, or None
    owner,   \* whether auth_user has the user 1, who owns every tenant that is registered
    conn,    \* conn[c]: free, or its transaction, with the tenant it is for and, once it has
             \* set it, its own value (local) of app.current_tenant
    session, \* session[c]: the value of app.current_tenant outside of transactions
    relayed, \* the tenants whose events the relay's SELECT has returned
    client,  \* client[r]: the client's step, its calls so far, what it was told, and its tenant
    asked,   \* calls of CreateTenant that data_postgres has not begun: <<client, number>>
    txs,     \* transactions of tenants so far
    faults

vars == <<rows, owner, conn, session, relayed, client, asked, txs, faults>>

Free == [use |-> "free"]

\* The rows as they are inserted.
TenantRow(t)       == [tenant |-> t, active |-> TRUE, setup |-> FALSE]
TenantUserRow(t)   == [tenant |-> t]
InviteRow(t)       == [tenant |-> t, used |-> FALSE]
SubscriptionRow(t) == [tenant |-> t, status |-> "ACTIVE"]
PaymentRow(t)      == [tenant |-> t]
EventRow(t)        == [tenant |-> t]

Init ==
    /\ rows = [k \in Keys |->
                 CASE k[1] = "tenant" /\ k[2] \in DOMAIN Owner -> TenantRow(Owner[k[2]])
                   [] k[1] = "subscription" -> SubscriptionRow(k[2])
                   [] k[1] = "outbox" -> EventRow(k[2])
                   [] OTHER -> None]
    /\ owner \in BOOLEAN
    /\ conn = [c \in Conns |-> Free]
    /\ session = [c \in Conns |-> Unset]
    /\ relayed = {}
    /\ client = [r \in Clients |-> [step |-> "idle", calls |-> 0, told |-> "nothing", tenant |-> 0]]
    /\ asked = {}
    /\ txs = 0
    /\ faults = 0

Fault == faults < MaxFaults /\ faults' = faults + 1

-----------------------------------------------------------------------------
(***************************************************************************)
(* Postgres                                                                *)
(***************************************************************************)
Row(c, k)    == IF k \in DOMAIN conn[c].writes THEN conn[c].writes[k] ELSE rows[k]
Locked(c, k) == \E d \in Conns \ {c} : conn[d] # Free /\ k \in DOMAIN conn[d].writes

CurrentTenant(c) == IF conn[c] # Free /\ conn[c].local # Unset THEN conn[c].local ELSE session[c]

\* The policy of every table of tenants: its tenant is app.current_tenant, if that is set.
Policy(c, row) == row # None /\ CurrentTenant(c) # Unset /\ row.tenant = CurrentTenant(c)

Visible(c, k) == Policy(c, Row(c, k))

\* A plausible slip: is_local is false, so the value stays with the connection.
SetConfigForSession(c, t) ==
    /\ conn' = [conn EXCEPT ![c].tenant = t, ![c].local = t]
    /\ session' = [session EXCEPT ![c] = t]

\* SELECT set_config('app.current_tenant', t, true): for this transaction.
SetConfig(c, t) ==
    /\ conn' = [conn EXCEPT ![c].tenant = t, ![c].local = t]
    /\ UNCHANGED session

\* The rows of w, and this one under the key k.
Put(w, k, row) == [q \in DOMAIN w \cup {k} |-> IF q = k THEN row ELSE w[q]]

Write(c, k, row) ==
    /\ ~Locked(c, k)
    /\ conn' = [conn EXCEPT ![c].n = @ + 1, ![c].writes = Put(@, k, row)]

\* INSERT: a row of that key is a violation, as is one the policy does not let in; it ends
\* the transaction.
Insert(c, k, row) ==
    IF Row(c, k) = None /\ Policy(c, row) THEN Write(c, k, row)
    ELSE ~Locked(c, k) /\ conn' = [conn EXCEPT ![c] = Free]

Committed(c) == [k \in Keys |-> IF k \in DOMAIN conn[c].writes THEN conn[c].writes[k] ELSE rows[k]]

-----------------------------------------------------------------------------
(***************************************************************************)
(* RegisterTenant: the client and control_plane                            *)
(***************************************************************************)
\* The client reads an error as application::auth::login does, and calls again
\* when it may.
Reads(r, e) ==
    LET read == FromEnvelope(ToEnvelope(e)) IN
    [client EXCEPT ![r].step = IF Retryable(read) THEN "idle" ELSE "done", ![r].told = Code(read)]

\* The answer to call n of r counts only while r waits for it.
Answer(call, e) ==
    IF client[call[1]].step = "waiting" /\ client[call[1]].calls = call[2]
    THEN Reads(call[1], e) ELSE client

RegisterTenant(r) ==
    /\ client[r].step = "idle"
    /\ client[r].calls < MaxCalls
    /\ client' = [client EXCEPT ![r].step = "waiting", ![r].calls = @ + 1]
    /\ asked' = asked \cup {<<r, client[r].calls + 1>>}
    /\ UNCHANGED <<rows, owner, conn, session, relayed, txs, faults>>

\* data_postgres is not reached: the call is not made.
ConnectFails(r) ==
    /\ client[r].step = "idle"
    /\ client[r].calls < MaxCalls
    /\ Fault
    /\ client' = [Reads(r, [kind |-> "Internal", words |-> {}]) EXCEPT ![r].calls = @ + 1]
    /\ UNCHANGED <<rows, owner, conn, session, relayed, asked, txs>>

\* The call runs into its deadline, or the connection falls; data_postgres goes on.
CallFails(r) ==
    /\ client[r].step = "waiting"
    /\ Fault
    /\ client' = Reads(r, [kind |-> "Internal", words |-> {}])
    /\ UNCHANGED <<rows, owner, conn, session, relayed, asked, txs>>

-----------------------------------------------------------------------------
(***************************************************************************)
(* CreateTenant: data_postgres                                             *)
(***************************************************************************)
HandleCreateTenant(c) ==
    /\ conn[c] = Free
    /\ \E call \in asked :
          /\ asked' = asked \ {call}
          /\ conn' = [conn EXCEPT ![c] = [use |-> "create", call |-> call, tenant |-> 0, local |-> Unset,
                                          writes |-> << >>]]
    /\ UNCHANGED <<rows, owner, session, relayed, client, txs, faults>>

SlugOf(c) == <<"tenant", slug[conn[c].call[1]]>>

InUse == {rows[k].tenant : k \in Keys} \cup {client[r].tenant : r \in Clients}
         \cup {conn[c].tenant : c \in {d \in Conns : conn[d] # Free}}

\* criar: an id that nobody has is drawn (they are all alike: the first one), and
\* app.current_tenant set to it ...
DrawTenant(c) ==
    /\ conn[c].use = "create"
    /\ conn[c].local = Unset
    /\ \E t \in Ids \ InUse :
          /\ \A other \in Ids : other < t => other \in InUse
          /\ SetConfig(c, t)
    /\ UNCHANGED <<rows, owner, relayed, client, asked, txs, faults>>

\* What refuses the row of c: the UNIQUE of slug, then the foreign key owner_id.
Refusal(c) ==
    CASE rows[SlugOf(c)] # None -> "unique"
      [] rows[SlugOf(c)] = None /\ ~owner -> "integrity"
      [] OTHER -> "none"

\* ... and the row inserted.
CriarTenant(c) ==
    /\ conn[c].use = "create"
    /\ conn[c].local # Unset
    /\ conn[c].writes = << >>
    /\ ~Locked(c, SlugOf(c))
    /\ IF Refusal(c) # "none"
       THEN /\ client' = Answer(conn[c].call, HandlerError(Refusal(c), {"constraint"}))
            /\ conn' = [conn EXCEPT ![c] = Free]
       ELSE /\ conn' = [conn EXCEPT ![c].writes = Put(<< >>, SlugOf(c), TenantRow(conn[c].tenant))]
            /\ UNCHANGED client
    /\ UNCHANGED <<rows, owner, session, relayed, asked, txs, faults>>

Created(c) ==
    LET r == conn[c].call[1] IN
    IF client[r].step = "waiting" /\ client[r].calls = conn[c].call[2]
    THEN [client EXCEPT ![r].step = "done", ![r].told = "created", ![r].tenant = conn[c].tenant]
    ELSE client

\* A plausible slip: the answer leaves before the commit, which may still fail.
CommitTenantLate(c) ==
    /\ conn[c].use = "create"
    /\ conn[c].writes # << >>
    /\ client' = Created(c)
    /\ \/ rows' = Committed(c) /\ faults' = faults
       \/ rows' = rows /\ Fault
    /\ conn' = [conn EXCEPT ![c] = Free]
    /\ UNCHANGED <<owner, session, relayed, asked, txs>>

CommitTenant(c) ==
    /\ conn[c].use = "create"
    /\ conn[c].writes # << >>
    /\ rows' = Committed(c)
    /\ client' = Created(c)
    /\ conn' = [conn EXCEPT ![c] = Free]
    /\ UNCHANGED <<owner, session, relayed, asked, txs, faults>>

\* A statement or the commit fails for another reason, which names no constraint: an
\* error is the answer, and when it was the commit, its effect may be there all the same.
CreateFails(c) ==
    /\ conn[c].use = "create"
    /\ Fault
    /\ rows' \in {rows, Committed(c)}
    /\ \E d \in {"io", "other"} : \E said \in SaidByPostgres(d) \ {{"constraint"}} :
          client' = Answer(conn[c].call, HandlerError(d, said))
    /\ conn' = [conn EXCEPT ![c] = Free]
    /\ UNCHANGED <<owner, session, relayed, asked, txs>>

-----------------------------------------------------------------------------
(***************************************************************************)
(* Transactions of a tenant (run_in_tenant_transaction)                    *)
(***************************************************************************)
BeginTx(c, t, scopes) ==
    /\ conn[c] = Free
    /\ txs < MaxTx
    /\ txs' = txs + 1
    /\ conn' = [conn EXCEPT ![c] =
                  [use |-> "tenant", tenant |-> t, local |-> Unset, scopes |-> scopes, n |-> 0, saw |-> {},
                   writes |-> << >>]]
    /\ UNCHANGED <<rows, owner, session, relayed, client, asked, faults>>

ConfigureTx(c) ==
    /\ conn[c].use = "tenant"
    /\ conn[c].local = Unset
    /\ SetConfig(c, conn[c].tenant)
    /\ UNCHANGED <<rows, owner, relayed, client, asked, txs, faults>>

\* A statement of the callback.
Statement(c) ==
    /\ conn[c].use = "tenant"
    /\ conn[c].local # Unset
    /\ conn[c].n < MaxStatements
    /\ UNCHANGED <<rows, owner, session, relayed, client, asked, txs, faults>>

\* exigir_qualquer
ExigirQualquer(c, scopes) == conn[c].scopes \cap scopes # {}

\* What a SELECT by this key returns.
Select(c, k) ==
    conn' = [conn EXCEPT ![c].n = @ + 1, ![c].saw = IF Visible(c, k) THEN @ \cup {Row(c, k).tenant} ELSE @]

BuscarPorSlug(c, s) == Statement(c) /\ Select(c, <<"tenant", s>>)

BuscarPorId(c, t) ==
    /\ Statement(c)
    /\ \E s \in DOMAIN Owner : Owner[s] = t /\ Select(c, <<"tenant", s>>)

BuscarAssinatura(c) ==
    /\ Statement(c)
    /\ ExigirQualquer(c, {"financeiro:read", "tenant:admin"})
    /\ \E t \in Tenants0 : t = conn[c].tenant /\ Select(c, <<"subscription", t>>)

ListarPagamentos(c) ==
    /\ Statement(c)
    /\ ExigirQualquer(c, {"financeiro:read", "tenant:admin"})
    /\ LET found == {k \in {"payment"} \X Payments : Visible(c, k)} IN
          conn' = [conn EXCEPT ![c].n = @ + 1, ![c].saw = @ \cup {Row(c, k).tenant : k \in found}]

\* atualizar_status takes the tenant as an argument: any.
AtualizarStatus(c, s, active) ==
    /\ Statement(c)
    /\ ExigirQualquer(c, {"tenant:admin"})
    /\ LET k == <<"tenant", s>> IN
          IF Visible(c, k) THEN Write(c, k, [Row(c, k) EXCEPT !.active = active]) ELSE UNCHANGED conn

\* The tenant of the context.
AtualizarSetup(c, s) ==
    /\ Statement(c)
    /\ ExigirQualquer(c, {"configuracoes:write", "tenant:admin"})
    /\ LET k == <<"tenant", s>> IN
          /\ Visible(c, k)
          /\ Row(c, k).tenant = conn[c].tenant
          /\ Write(c, k, [Row(c, k) EXCEPT !.setup = TRUE])

CriarTenantUser(c, u) ==
    /\ Statement(c)
    /\ ExigirQualquer(c, {"tenant:admin"})
    /\ Insert(c, <<"user", u>>, TenantUserRow(conn[c].tenant))

CriarInvite(c, i) ==
    /\ Statement(c)
    /\ ExigirQualquer(c, {"tenant:admin"})
    /\ Insert(c, <<"invite", i>>, InviteRow(conn[c].tenant))

AtualizarAssinatura(c) ==
    /\ Statement(c)
    /\ ExigirQualquer(c, {"financeiro:write", "tenant:admin"})
    /\ \E t \in Tenants0 :
          /\ t = conn[c].tenant
          /\ Visible(c, <<"subscription", t>>)
          /\ Write(c, <<"subscription", t>>, [SubscriptionRow(t) EXCEPT !.status = "SUSPENDED"])

RegistrarPagamento(c, p) ==
    /\ Statement(c)
    /\ ExigirQualquer(c, {"financeiro:write", "tenant:admin"})
    /\ Row(c, <<"payment", p>>) = None  \* its id is drawn from a sequence
    /\ Insert(c, <<"payment", p>>, PaymentRow(conn[c].tenant))

CommitTx(c) ==
    /\ conn[c].use = "tenant"
    /\ conn[c].local # Unset
    /\ rows' = Committed(c)
    /\ conn' = [conn EXCEPT ![c] = Free]
    /\ UNCHANGED <<owner, session, relayed, client, asked, txs, faults>>

\* set_config fails, or the callback returns an error (PermissionDenied, for one): the
\* transaction is dropped.
RollbackTx(c) ==
    /\ conn[c].use = "tenant"
    /\ conn' = [conn EXCEPT ![c] = Free]
    /\ UNCHANGED <<rows, owner, session, relayed, client, asked, txs, faults>>

\* marcar_usado: one statement on the pool of the administration, that finds the
\* invite whether or not it is used.
MarcarUsado(i) ==
    /\ rows[<<"invite", i>>] # None
    /\ \A c \in Conns : ~Locked(c, <<"invite", i>>)
    /\ rows' = [rows EXCEPT ![<<"invite", i>>].used = TRUE]
    /\ UNCHANGED <<owner, conn, session, relayed, client, asked, txs, faults>>

\* drenar_outbox: the relay's SELECT, on a connection of the pool as it finds it.
BuscarPendentes(c) ==
    /\ conn[c] = Free
    /\ relayed' = relayed \cup {t \in Tenants0 : Policy(c, rows[<<"outbox", t>>])}
    /\ UNCHANGED <<rows, owner, conn, session, client, asked, txs, faults>>

Register ==
    \/ \E r \in Clients : RegisterTenant(r) \/ ConnectFails(r) \/ CallFails(r)
    \/ \E c \in Conns : HandleCreateTenant(c) \/ DrawTenant(c) \/ CriarTenant(c) \/ CommitTenant(c) \/ CreateFails(c)

TenantTx(c) ==
    \/ \E t \in Tenants0, scopes \in Grants : BeginTx(c, t, scopes)
    \/ ConfigureTx(c)
    \/ \E s \in Slugs : BuscarPorSlug(c, s) \/ AtualizarSetup(c, s)
                        \/ \E active \in BOOLEAN : AtualizarStatus(c, s, active)
    \/ \E t \in Tenants0 : BuscarPorId(c, t)
    \/ \E u \in Users : CriarTenantUser(c, u)
    \/ \E i \in Invites : CriarInvite(c, i)
    \/ \E p \in Payments : RegistrarPagamento(c, p)
    \/ BuscarAssinatura(c) \/ ListarPagamentos(c) \/ AtualizarAssinatura(c)
    \/ CommitTx(c) \/ RollbackTx(c)

Next == Register \/ (\E c \in Conns : TenantTx(c) \/ BuscarPendentes(c)) \/ (\E i \in Invites : MarcarUsado(i))

Spec == Init /\ [][Next]_vars

-----------------------------------------------------------------------------
(***************************************************************************)
(* Properties                                                              *)
(***************************************************************************)
\* A transaction shows and changes rows of the tenant it was begun for only, whatever
\* keys its statements are given (neither lookup by slug, nor the tenant that
\* atualizar_status takes, reaches another's) and whoever had its connection before; and
\* what runs on the pool outside of a tenant's transaction is shown no tenant's rows,
\* whoever had the connection before it (0002_tenants.sql: NULLIF).
TenantsAreIsolated ==
    /\ \A c \in Conns : conn[c] # Free =>
          /\ \A k \in DOMAIN conn[c].writes : conn[c].writes[k].tenant = conn[c].tenant
          /\ conn[c].use = "tenant" => conn[c].saw \subseteq {conn[c].tenant}
    /\ relayed = {}

\* What the client of RegisterTenant is told is so, through retries, late answers and
\* two clients that want one slug: the tenant it was given has the slug; and a conflict
\* means that some tenant has it (perhaps one an earlier call of its own made), or that
\* there is no user 1 to own it, which the answer does not tell apart.
AnswersAreTrue ==
    \A r \in Clients :
        LET row == rows[<<"tenant", slug[r]>>] IN
        /\ client[r].told = "created" => row.tenant = client[r].tenant
        /\ client[r].told = "DB_CONSTRAINT_VIOLATION" => row # None \/ ~owner

\* An envelope and what the next process builds from it say the same of the error.
EnvelopesKeepErrors == \A e \in AppErrors : ToEnvelope(FromEnvelope(ToEnvelope(e))) = ToEnvelope(e)

\* AppError finds in its text the code that the repository error had.  The exceptions are
\* the errors that carry a text of Postgres which may speak of the connection, or name a
\* constraint, without being about it: those of no class (d = "other") and of a migration.
BridgesKeepCodes ==
    /\ \A d \in DbErrors \ {"other", "migration"} : \A said \in SaidByPostgres(d) :
          Code(FromDbError(d, said)) = DbCode(d)
    /\ \A d \in RedisErrors : Code(FromRedisError(d)) = RedisCode(d)

\* errors.rs and envelope_bridge.rs: but for those exceptions an error keeps code,
\* category, severity and retryability from its repository through any number of
\* processes, and a client of RegisterTenant reads no error but those of the database and
\* of its own transport.
ErrorsKeepTheirCode ==
    /\ EnvelopesKeepErrors
    /\ BridgesKeepCodes
    /\ \A r \in Clients : client[r].told \in {"nothing", "created", "INTERNAL_ERROR"} \cup DatabaseCodes
=============================================================================
