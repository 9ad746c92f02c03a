--------------------------- MODULE TenancyProofs ---------------------------
(***************************************************************************)
(* Row security keeps transactions of any number of tenants, over any pool *)
(* of connections, within their tenant; what callers of RegisterTenant are *)
(* told is true, and keeps its code; and the configuration of a tenant     *)
(* is what is in force for it.                                             *)
(***************************************************************************)
EXTENDS Tenancy, RuntimeConfig, FiniteSetTheorems, TLAPS

HasTenant(entry) == "tenant" \in DOMAIN entry

\* What a transaction of tenant t has written.
WrittenBy(w, t) ==
    /\ DOMAIN w \subseteq Keys
    /\ \A k \in DOMAIN w : HasTenant(w[k]) /\ w[k].tenant = t

\* A connection is free, registers a tenant, or serves one.
Registers(x) ==
    /\ DOMAIN x = {"use", "call", "tenant", "local", "writes"}
    /\ x.use = "create"
    /\ x.call[1] \in Clients
    /\ x.local \in {Unset, x.tenant}
    /\ x.local = Unset => x.writes = << >>
    /\ WrittenBy(x.writes, x.tenant)

Serves(x) ==
    /\ DOMAIN x = {"use", "tenant", "local", "scopes", "n", "saw", "writes"}
    /\ x.use = "tenant"
    /\ x.local \in {Unset, x.tenant}
    /\ x.saw \subseteq {x.tenant}
    /\ WrittenBy(x.writes, x.tenant)

ConnOK(x) == x = Free \/ Registers(x) \/ Serves(x)

RowsInv == DOMAIN rows = Keys /\ \A k \in Keys : HasTenant(rows[k])
ConnInv == DOMAIN conn = Conns /\ \A c \in Conns : ConnOK(conn[c])
AskedInv == \A call \in asked : call[1] \in Clients

\* No connection keeps a tenant for the next that uses it.
SessionInv == session = [c \in Conns |-> Unset] /\ relayed = {}

\* The inductive invariant.
IInv == RowsInv /\ ConnInv /\ AskedInv /\ SessionInv

-----------------------------------------------------------------------------
LEMMA RowsHaveTenants ==
    /\ HasTenant(None) /\ None.tenant = 0
    /\ \A t : /\ HasTenant(TenantRow(t)) /\ TenantRow(t).tenant = t
              /\ HasTenant(TenantUserRow(t)) /\ TenantUserRow(t).tenant = t
              /\ HasTenant(InviteRow(t)) /\ InviteRow(t).tenant = t
              /\ HasTenant(SubscriptionRow(t)) /\ SubscriptionRow(t).tenant = t
              /\ HasTenant(PaymentRow(t)) /\ PaymentRow(t).tenant = t
              /\ HasTenant(EventRow(t)) /\ EventRow(t).tenant = t
  BY DEF HasTenant, None, TenantRow, TenantUserRow, InviteRow, SubscriptionRow, PaymentRow, EventRow

\* A row stays its tenant's when another field of it changes.
LEMMA FieldChanged ==
    ASSUME NEW entry, HasTenant(entry), NEW x
    PROVE  /\ HasTenant([entry EXCEPT !.active = x]) /\ [entry EXCEPT !.active = x].tenant = entry.tenant
           /\ HasTenant([entry EXCEPT !.setup = x])  /\ [entry EXCEPT !.setup = x].tenant = entry.tenant
           /\ HasTenant([entry EXCEPT !.status = x]) /\ [entry EXCEPT !.status = x].tenant = entry.tenant
  BY DEF HasTenant

\* The keys of every statement are keys of a table.
LEMMA KeysOfStatements ==
    /\ \A s \in Slugs : <<"tenant", s>> \in Keys
    /\ \A u \in Users : <<"user", u>> \in Keys
    /\ \A i \in Invites : <<"invite", i>> \in Keys
    /\ \A t \in Tenants0 : <<"subscription", t>> \in Keys
    /\ \A p \in Payments : <<"payment", p>> \in Keys
    /\ \A t \in Tenants0 : <<"outbox", t>> \in Keys
  BY DEF Keys

\* One more row of the tenant is still the tenant's work.
LEMMA OneMoreRow ==
    ASSUME NEW w, NEW t, NEW k \in Keys, NEW entry,
           WrittenBy(w, t), HasTenant(entry), entry.tenant = t
    PROVE  WrittenBy(Put(w, k, entry), t)
  BY DEF WrittenBy, Put

LEMMA NoRow == ASSUME NEW t PROVE WrittenBy(<< >>, t)
  BY DEF WrittenBy

\* What a transaction reads is a row of some tenant.
LEMMA RowRead ==
    ASSUME IInv, NEW c \in Conns, conn[c] # Free, NEW k \in Keys
    PROVE  HasTenant(Row(c, k))
  BY DEF IInv, RowsInv, ConnInv, ConnOK, Registers, Serves, WrittenBy, Row

\* The policy shows a transaction rows of its own tenant, or none.
LEMMA PolicyIsOwn ==
    ASSUME IInv, NEW c \in Conns, conn[c] # Free, NEW entry, Policy(c, entry)
    PROVE  entry.tenant = conn[c].tenant
<1>1. conn[c].local \in {Unset, conn[c].tenant} /\ session[c] = Unset
  BY DEF IInv, ConnInv, ConnOK, Registers, Serves, SessionInv
<1>. QED
  BY <1>1 DEF Policy, CurrentTenant

LEMMA CommitKeepsRows ==
    ASSUME IInv, NEW c \in Conns, conn[c] # Free
    PROVE  DOMAIN Committed(c) = Keys /\ \A k \in Keys : HasTenant(Committed(c)[k])
  BY DEF IInv, RowsInv, ConnInv, ConnOK, Registers, Serves, WrittenBy, Committed

\* A step that changes one connection.
LEMMA OneConn ==
    ASSUME IInv, NEW c \in Conns, NEW x, ConnOK(x), conn' = [conn EXCEPT ![c] = x]
    PROVE  ConnInv'
  BY DEF IInv, ConnInv

-----------------------------------------------------------------------------
LEMMA InitIInv == Init => IInv
<1> SUFFICES ASSUME Init PROVE IInv
  OBVIOUS
<1>1. RowsInv
  BY RowsHaveTenants DEF Init, RowsInv
<1>2. ConnInv
  BY DEF Init, ConnInv, ConnOK
<1>3. AskedInv /\ SessionInv
  BY DEF Init, AskedInv, SessionInv
<1>. QED
  BY <1>1, <1>2, <1>3 DEF IInv

-----------------------------------------------------------------------------
\* The rows and the queue of calls change in few actions.
LEMMA RowsStay == ASSUME RowsInv, rows' = rows PROVE RowsInv'
  BY DEF RowsInv

LEMMA AskedShrinks == ASSUME AskedInv, asked' \subseteq asked PROVE AskedInv'
  BY DEF AskedInv

LEMMA SessionStays == ASSUME SessionInv, session' = session, relayed' = relayed PROVE SessionInv'
  BY DEF SessionInv

LEMMA RegisterKeepsIInv ==
    ASSUME IInv, Register
    PROVE  IInv'
<1>. USE DEF IInv
<1>0. SessionInv'
  BY SessionStays DEF Register, RegisterTenant, ConnectFails, CallFails, HandleCreateTenant, DrawTenant,
     SetConfig, CriarTenant, CommitTenant, CreateFails
<1>1. ASSUME NEW r \in Clients, RegisterTenant(r) PROVE IInv'
  <2>1. RowsInv' /\ ConnInv'
    BY <1>1, RowsStay DEF RegisterTenant, ConnInv
  <2>2. AskedInv'
    BY <1>1 DEF RegisterTenant, AskedInv
  <2>. QED
    BY <1>0, <2>1, <2>2
<1>2. ASSUME NEW r \in Clients, ConnectFails(r) \/ CallFails(r) PROVE IInv'
  BY <1>0, <1>2 DEF ConnectFails, CallFails, RowsInv, ConnInv, AskedInv
<1>3. ASSUME NEW c \in Conns, HandleCreateTenant(c) PROVE IInv'
  <2>1. PICK call \in asked :
           /\ asked' = asked \ {call}
           /\ conn' = [conn EXCEPT ![c] = [use |-> "create", call |-> call, tenant |-> 0, local |-> Unset,
                                           writes |-> << >>]]
    BY <1>3 DEF HandleCreateTenant
  <2> DEFINE x == [use |-> "create", call |-> call, tenant |-> 0, local |-> Unset, writes |-> << >>]
  <2>2. Registers(x)
    BY NoRow DEF Registers, AskedInv
  <2>3. ConnInv'
    BY <2>1, <2>2, OneConn DEF ConnOK
  <2>4. RowsInv' /\ AskedInv'
    BY <1>3, <2>1, RowsStay, AskedShrinks DEF HandleCreateTenant
  <2>. QED
    BY <1>0, <2>3, <2>4
<1>9. ASSUME NEW c \in Conns, DrawTenant(c) PROVE IInv'
  <2>1. RowsInv' /\ AskedInv'
    BY <1>9, RowsStay, AskedShrinks DEF DrawTenant
  <2>2. Registers(conn[c]) /\ conn[c].writes = << >>
    BY <1>9 DEF DrawTenant, ConnInv, ConnOK, Free, Registers, Serves
  <2>3. PICK t \in Ids : SetConfig(c, t)
    BY <1>9 DEF DrawTenant
  <2> DEFINE x == [conn[c] EXCEPT !.tenant = t, !.local = t]
  <2>4. Registers(x)
    <3>1. t # Unset
      BY TenancyAssumption DEF Unset
    <3>. QED
      BY <2>2, <3>1, NoRow DEF Registers
  <2>5. conn' = [conn EXCEPT ![c] = x]
    BY <2>3 DEF SetConfig
  <2>. QED
    BY <1>0, <2>1, <2>4, <2>5, OneConn DEF ConnOK
<1>4. ASSUME NEW c \in Conns, CriarTenant(c) PROVE IInv'
  <2>1. RowsInv' /\ AskedInv'
    BY <1>4, RowsStay, AskedShrinks DEF CriarTenant
  <2>2. Registers(conn[c]) /\ conn[c].local # Unset
    BY <1>4 DEF CriarTenant, ConnInv, ConnOK, Free, Registers, Serves
  <2>3. SlugOf(c) \in Keys
    BY <2>2, TenancyAssumption, KeysOfStatements DEF SlugOf, Registers
  <2>4. CASE Refusal(c) # "none"
    <3>1. conn' = [conn EXCEPT ![c] = Free]
      BY <1>4, <2>4 DEF CriarTenant
    <3>. QED
      BY <1>0, <2>1, <3>1, OneConn DEF ConnOK
  <2>5. CASE Refusal(c) = "none"
    <3> DEFINE w == Put(<< >>, SlugOf(c), TenantRow(conn[c].tenant))
               x == [conn[c] EXCEPT !.writes = w]
    <3>1. WrittenBy(w, conn[c].tenant)
      BY <2>3, NoRow, OneMoreRow, RowsHaveTenants
    <3>2. Registers(x)
      <4>. HIDE DEF w
      <4>. QED
        BY <2>2, <3>1 DEF Registers
    <3>3. conn' = [conn EXCEPT ![c] = x]
      BY <1>4, <2>5 DEF CriarTenant
    <3>. QED
      BY <1>0, <2>1, <3>2, <3>3, OneConn DEF ConnOK
  <2>. QED
    BY <2>4, <2>5
<1>5. ASSUME NEW c \in Conns, CommitTenant(c) \/ CreateFails(c) PROVE IInv'
  <2>1. conn[c] # Free /\ conn' = [conn EXCEPT ![c] = Free] /\ asked' = asked
    BY <1>5 DEF CommitTenant, CreateFails, Free
  <2>2. ConnInv' /\ AskedInv'
    BY <2>1, OneConn, AskedShrinks DEF ConnOK
  <2>3. rows' \in {rows, Committed(c)}
    BY <1>5 DEF CommitTenant, CreateFails
  <2>4. RowsInv'
    BY <2>1, <2>3, CommitKeepsRows DEF RowsInv
  <2>. QED
    BY <1>0, <2>2, <2>4
<1>. QED
  BY <1>1, <1>2, <1>3, <1>4, <1>5, <1>9 DEF Register

-----------------------------------------------------------------------------
\* A statement that reads leaves the transaction's rows as they are; one that writes
\* adds a row of its tenant, under a key that was free or showed such a row.
ReadsOnly(c) ==
    \E x : /\ conn' = [conn EXCEPT ![c] = x]
           /\ Serves(x) /\ x.tenant = conn[c].tenant /\ x.writes = conn[c].writes

WritesOwn(c) ==
    \E k \in Keys : \E entry :
        /\ HasTenant(entry) /\ entry.tenant = conn[c].tenant
        /\ Visible(c, k) \/ Row(c, k) = None
        /\ ~Locked(c, k)
        /\ \E x : /\ conn' = [conn EXCEPT ![c] = x]
                  /\ Serves(x) /\ x.tenant = conn[c].tenant /\ x.writes = Put(conn[c].writes, k, entry)

Ends(c) == conn' = [conn EXCEPT ![c] = Free]

LEMMA ServingConn ==
    ASSUME IInv, NEW c \in Conns, conn[c].use = "tenant"
    PROVE  Serves(conn[c]) /\ conn[c] # Free
  BY DEF IInv, ConnInv, ConnOK, Registers, Free

LEMMA SelectReads ==
    ASSUME IInv, NEW c \in Conns, Statement(c), NEW k \in Keys, Select(c, k)
    PROVE  ReadsOnly(c)
<1> DEFINE saw == IF Visible(c, k) THEN conn[c].saw \cup {Row(c, k).tenant} ELSE conn[c].saw
           x == [conn[c] EXCEPT !.n = @ + 1, !.saw = saw]
<1>1. Serves(conn[c])
  BY ServingConn DEF Statement
<1>2. saw \subseteq {conn[c].tenant}
  BY <1>1, ServingConn, PolicyIsOwn DEF Visible, Serves, Statement
<1>3. Serves(x) /\ x.tenant = conn[c].tenant /\ x.writes = conn[c].writes
  <2>. HIDE DEF saw
  <2>. QED
    BY <1>1, <1>2 DEF Serves
<1>4. conn' = [conn EXCEPT ![c] = x]
  BY DEF Select
<1>. QED
  <2>. HIDE DEF x
  <2>. QED
    BY <1>3, <1>4 DEF ReadsOnly

LEMMA WriteWrites ==
    ASSUME IInv, NEW c \in Conns, Statement(c), NEW k \in Keys, NEW entry,
           HasTenant(entry), entry.tenant = conn[c].tenant, Visible(c, k) \/ Row(c, k) = None,
           Write(c, k, entry)
    PROVE  WritesOwn(c)
<1> DEFINE w == Put(conn[c].writes, k, entry)
           x == [conn[c] EXCEPT !.n = @ + 1, !.writes = w]
<1>1. Serves(conn[c])
  BY ServingConn DEF Statement
<1>2. WrittenBy(w, conn[c].tenant)
  BY <1>1, OneMoreRow DEF Serves
<1>3. Serves(x) /\ x.tenant = conn[c].tenant /\ x.writes = w
  <2>. HIDE DEF w
  <2>. QED
    BY <1>1, <1>2 DEF Serves
<1>4. conn' = [conn EXCEPT ![c] = x] /\ ~Locked(c, k)
  BY DEF Write
<1>. QED
  <2>. HIDE DEF x
  <2>. QED
    BY <1>3, <1>4 DEF WritesOwn

LEMMA InsertWritesOrEnds ==
    ASSUME IInv, NEW c \in Conns, Statement(c), NEW k \in Keys, NEW entry,
           HasTenant(entry), entry.tenant = conn[c].tenant, Insert(c, k, entry)
    PROVE  WritesOwn(c) \/ Ends(c)
<1>1. CASE Row(c, k) = None /\ Policy(c, entry)
  BY <1>1, WriteWrites DEF Insert
<1>2. CASE ~(Row(c, k) = None /\ Policy(c, entry))
  BY <1>2 DEF Insert, Ends
<1>. QED
  BY <1>1, <1>2

\* What a step of a tenant's transaction may do.
LEMMA TenantTxSteps ==
    ASSUME IInv, NEW c \in Conns, TenantTx(c)
    PROVE  /\ UNCHANGED <<owner, session, relayed, client, asked>>
           /\ \/ \E t \in Tenants0, scopes \in Grants : BeginTx(c, t, scopes)
              \/ /\ conn[c].use = "tenant" /\ rows' = rows
                 /\ conn' = conn \/ ReadsOnly(c) \/ WritesOwn(c) \/ Ends(c)
              \/ conn[c].use = "tenant" /\ rows' = Committed(c) /\ Ends(c)
<1>. USE DEF Statement
<1>1. ASSUME NEW s \in Slugs, BuscarPorSlug(c, s) PROVE ReadsOnly(c)
  BY <1>1, SelectReads, KeysOfStatements DEF BuscarPorSlug
<1>2. ASSUME NEW t \in Tenants0, BuscarPorId(c, t) PROVE ReadsOnly(c)
  BY <1>2, SelectReads, KeysOfStatements, TenancyAssumption DEF BuscarPorId
<1>3. ASSUME NEW s \in Slugs, AtualizarSetup(c, s) PROVE WritesOwn(c)
  <2> DEFINE k == <<"tenant", s>>
             entry == [Row(c, k) EXCEPT !.setup = TRUE]
  <2>1. k \in Keys /\ Statement(c) /\ conn[c] # Free
    BY <1>3, KeysOfStatements, ServingConn DEF AtualizarSetup
  <2>2. HasTenant(entry) /\ entry.tenant = conn[c].tenant
    BY <1>3, <2>1, RowRead, FieldChanged DEF AtualizarSetup
  <2>3. Visible(c, k) /\ Write(c, k, entry)
    BY <1>3 DEF AtualizarSetup
  <2>. QED
    BY <2>1, <2>2, <2>3, WriteWrites
<1>4. ASSUME NEW s \in Slugs, NEW active \in BOOLEAN, AtualizarStatus(c, s, active)
      PROVE  conn' = conn \/ WritesOwn(c)
  <2> DEFINE k == <<"tenant", s>>
             entry == [Row(c, k) EXCEPT !.active = active]
  <2>1. k \in Keys /\ Statement(c) /\ conn[c] # Free
    BY <1>4, KeysOfStatements, ServingConn DEF AtualizarStatus
  <2>2. conn' = conn \/ (Visible(c, k) /\ Write(c, k, entry))
    BY <1>4 DEF AtualizarStatus
  <2>3. HasTenant(entry) /\ entry.tenant = Row(c, k).tenant
    <3>1. HasTenant(Row(c, k))
      BY <2>1, RowRead
    <3>. QED
      BY <3>1, FieldChanged
  <2>4. Visible(c, k) => Row(c, k).tenant = conn[c].tenant
    BY <2>1, PolicyIsOwn DEF Visible
  <2>. QED
    BY <2>1, <2>2, <2>3, <2>4, WriteWrites
<1>5. ASSUME NEW u \in Users, CriarTenantUser(c, u) PROVE WritesOwn(c) \/ Ends(c)
  BY <1>5, InsertWritesOrEnds, KeysOfStatements, RowsHaveTenants DEF CriarTenantUser
<1>6. ASSUME NEW i \in Invites, CriarInvite(c, i) PROVE WritesOwn(c) \/ Ends(c)
  BY <1>6, InsertWritesOrEnds, KeysOfStatements, RowsHaveTenants DEF CriarInvite
<1>7. ASSUME NEW p \in Payments, RegistrarPagamento(c, p) PROVE WritesOwn(c) \/ Ends(c)
  BY <1>7, InsertWritesOrEnds, KeysOfStatements, RowsHaveTenants DEF RegistrarPagamento
<1>8. ASSUME BuscarAssinatura(c) PROVE ReadsOnly(c)
  BY <1>8, SelectReads, KeysOfStatements DEF BuscarAssinatura
<1>9. ASSUME ListarPagamentos(c) PROVE ReadsOnly(c)
  <2> DEFINE found == {k \in {"payment"} \X Payments : Visible(c, k)}
             saw == conn[c].saw \cup {Row(c, k).tenant : k \in found}
             x == [conn[c] EXCEPT !.n = @ + 1, !.saw = saw]
  <2>1. Serves(conn[c])
    BY <1>9, ServingConn DEF ListarPagamentos
  <2>2. saw \subseteq {conn[c].tenant}
    BY <1>9, <2>1, ServingConn, PolicyIsOwn DEF Visible, Serves, ListarPagamentos
  <2>3. Serves(x) /\ x.tenant = conn[c].tenant /\ x.writes = conn[c].writes
    <3>. HIDE DEF saw
    <3>. QED
      BY <2>1, <2>2 DEF Serves
  <2>4. conn' = [conn EXCEPT ![c] = x]
    BY <1>9 DEF ListarPagamentos
  <2>. QED
    <3>. HIDE DEF x
    <3>. QED
      BY <2>3, <2>4 DEF ReadsOnly
<1>10. ASSUME AtualizarAssinatura(c) PROVE WritesOwn(c)
  <2>1. PICK t \in Tenants0 :
           /\ t = conn[c].tenant
           /\ Visible(c, <<"subscription", t>>)
           /\ Write(c, <<"subscription", t>>, [SubscriptionRow(t) EXCEPT !.status = "SUSPENDED"])
    BY <1>10 DEF AtualizarAssinatura
  <2>2. /\ HasTenant([SubscriptionRow(t) EXCEPT !.status = "SUSPENDED"])
        /\ [SubscriptionRow(t) EXCEPT !.status = "SUSPENDED"].tenant = t
    <3>1. HasTenant(SubscriptionRow(t)) /\ SubscriptionRow(t).tenant = t
      BY RowsHaveTenants
    <3>. QED
      BY <3>1, FieldChanged
  <2>. QED
    BY <1>10, <2>1, <2>2, WriteWrites, KeysOfStatements DEF AtualizarAssinatura
<1>15. ASSUME ConfigureTx(c) PROVE ReadsOnly(c)
  <2> DEFINE x == [conn[c] EXCEPT !.tenant = conn[c].tenant, !.local = conn[c].tenant]
  <2>1. Serves(conn[c])
    BY <1>15, ServingConn DEF ConfigureTx
  <2>2. Serves(x) /\ x.tenant = conn[c].tenant /\ x.writes = conn[c].writes
    BY <2>1 DEF Serves
  <2>3. conn' = [conn EXCEPT ![c] = x]
    BY <1>15 DEF ConfigureTx, SetConfig
  <2>. QED
    <3>. HIDE DEF x
    <3>. QED
      BY <2>2, <2>3 DEF ReadsOnly
<1>11. ASSUME CommitTx(c) PROVE rows' = Committed(c) /\ Ends(c)
  BY <1>11 DEF CommitTx, Ends
<1>12. ASSUME RollbackTx(c) PROVE rows' = rows /\ Ends(c)
  BY <1>12 DEF RollbackTx, Ends
<1>13. /\ UNCHANGED <<owner, session, relayed, client, asked>>
       /\ \/ \E t \in Tenants0, scopes \in Grants : BeginTx(c, t, scopes)
          \/ conn[c].use = "tenant" /\ (CommitTx(c) \/ RollbackTx(c))
          \/ conn[c].use = "tenant" /\ rows' = rows
  BY DEF TenantTx, BeginTx, ConfigureTx, SetConfig, BuscarPorSlug, BuscarPorId, AtualizarSetup, AtualizarStatus, CriarTenantUser,
         CriarInvite, RegistrarPagamento, BuscarAssinatura, ListarPagamentos, AtualizarAssinatura, CommitTx, RollbackTx
<1>14. \/ \E t \in Tenants0, scopes \in Grants : BeginTx(c, t, scopes)
       \/ conn' = conn \/ ReadsOnly(c) \/ WritesOwn(c) \/ Ends(c)
  BY <1>1, <1>2, <1>3, <1>4, <1>5, <1>6, <1>7, <1>8, <1>9, <1>10, <1>11, <1>12, <1>15 DEF TenantTx
<1>. QED
  BY <1>11, <1>12, <1>13, <1>14

LEMMA TenantTxKeepsIInv ==
    ASSUME IInv, NEW c \in Conns, TenantTx(c)
    PROVE  IInv'
<1>1. AskedInv' /\ SessionInv'
  BY TenantTxSteps, AskedShrinks, SessionStays DEF IInv
<1>2. ASSUME NEW t \in Tenants0, NEW scopes \in Grants, BeginTx(c, t, scopes) PROVE RowsInv' /\ ConnInv'
  <2> DEFINE x == [use |-> "tenant", tenant |-> t, local |-> Unset, scopes |-> scopes, n |-> 0, saw |-> {},
                   writes |-> << >>]
  <2>1. Serves(x)
    BY NoRow DEF Serves
  <2>. QED
    BY <1>2, <2>1, OneConn, RowsStay DEF IInv, BeginTx, ConnOK
<1>3. ASSUME conn[c].use = "tenant", rows' \in {rows, Committed(c)} PROVE RowsInv'
  BY <1>3, ServingConn, CommitKeepsRows DEF IInv, RowsInv
<1>4. ASSUME conn' = conn \/ ReadsOnly(c) \/ WritesOwn(c) \/ Ends(c) PROVE ConnInv'
  <2>1. CASE conn' = conn
    BY <2>1 DEF IInv, ConnInv
  <2>2. CASE ReadsOnly(c)
    BY <2>2, OneConn DEF ReadsOnly, ConnOK
  <2>3. CASE WritesOwn(c)
    BY <2>3, OneConn DEF WritesOwn, ConnOK
  <2>4. CASE Ends(c)
    BY <2>4, OneConn DEF Ends, ConnOK
  <2>. QED
    BY <1>4, <2>1, <2>2, <2>3, <2>4
<1>. QED
  BY <1>1, <1>2, <1>3, <1>4, TenantTxSteps DEF IInv

LEMMA MarcarUsadoKeepsIInv ==
    ASSUME IInv, NEW i \in Invites, MarcarUsado(i)
    PROVE  IInv'
<1>1. RowsInv'
  BY DEF IInv, RowsInv, MarcarUsado, HasTenant
<1>2. SessionInv'
  BY SessionStays DEF IInv, MarcarUsado
<1>. QED
  BY <1>1, <1>2 DEF IInv, ConnInv, AskedInv, MarcarUsado

\* The relay's statement is shown nothing.
LEMMA RelayKeepsIInv ==
    ASSUME IInv, NEW c \in Conns, BuscarPendentes(c)
    PROVE  IInv' /\ UNCHANGED <<rows, owner, conn, client, asked>>
<1>1. CurrentTenant(c) = Unset
  BY DEF IInv, SessionInv, BuscarPendentes, CurrentTenant
<1>2. relayed' = relayed
  BY <1>1 DEF BuscarPendentes, Policy
<1>3. UNCHANGED <<rows, owner, conn, session, client, asked>>
  BY DEF BuscarPendentes
<1>. QED
  BY <1>2, <1>3 DEF IInv, RowsInv, ConnInv, AskedInv, SessionInv

-----------------------------------------------------------------------------
LEMMA Invariance == Spec => []IInv
<1>1. IInv /\ [Next]_vars => IInv'
  <2> SUFFICES ASSUME IInv, [Next]_vars PROVE IInv'
    OBVIOUS
  <2>1. CASE UNCHANGED vars
    BY <2>1 DEF vars, IInv, RowsInv, ConnInv, AskedInv, SessionInv
  <2>. QED
    BY <2>1, RegisterKeepsIInv, TenantTxKeepsIInv, MarcarUsadoKeepsIInv, RelayKeepsIInv DEF Next
<1>. QED
  BY <1>1, InitIInv, PTL DEF Spec

\* Whatever keys and tenants the statements of a transaction are given, and whichever
\* transactions had its connection before, it shows and writes rows of its own tenant
\* only; and the statements of the relay, outside of a transaction, are shown none: for
\* any tenants, slugs, scopes and connections.
THEOREM Isolation == Spec => []TenantsAreIsolated
<1>1. IInv => TenantsAreIsolated
  BY DEF IInv, ConnInv, ConnOK, Registers, Serves, WrittenBy, SessionInv, TenantsAreIsolated, Free
<1>. QED
  BY <1>1, Invariance, PTL

-----------------------------------------------------------------------------
(***************************************************************************)
(* The answers of RegisterTenant                                           *)
(***************************************************************************)
Slug(r) == <<"tenant", slug[r]>>

Open(c) == conn[c] # Free

\* Tenants have numbers other than that of None.
NumbersInv ==
    /\ \A k \in Keys : rows[k] # None => rows[k].tenant # 0
    /\ \A c \in Conns : Open(c) => conn[c].writes = << >> \/ conn[c].tenant # 0
    /\ \A c \in Conns : conn[c].use = "tenant" => conn[c].tenant # 0

\* A written row is locked, and replaces one of the same tenant.
LockInv ==
    /\ \A c, d \in Conns : c # d /\ Open(c) /\ Open(d)
            => DOMAIN conn[c].writes \cap DOMAIN conn[d].writes = {}
    /\ \A c \in Conns : Open(c) => \A k \in DOMAIN conn[c].writes :
            rows[k] # None => rows[k].tenant = conn[c].tenant

\* A registration that has written anything has written its tenant.
BegunInv ==
    \A c \in Conns : conn[c].use = "create" /\ conn[c].writes # << >> => SlugOf(c) \in DOMAIN conn[c].writes

Told(r) ==
    /\ DOMAIN client[r] = {"step", "calls", "told", "tenant"}
    /\ client[r].told = "created" => rows[Slug(r)] # None /\ rows[Slug(r)].tenant = client[r].tenant
    /\ client[r].told = "DB_CONSTRAINT_VIOLATION" => rows[Slug(r)] # None \/ ~owner

ToldInv == DOMAIN client = Clients /\ \A r \in Clients : Told(r)

\* The inductive invariant.
AInv == IInv /\ NumbersInv /\ LockInv /\ BegunInv /\ ToldInv

\* What a client reads in each of the errors there are.
LEMMA ReadsInternal ==
    Code(FromEnvelope(ToEnvelope([kind |-> "Internal", words |-> {}]))) = "INTERNAL_ERROR"
<1> DEFINE e == [kind |-> "Internal", words |-> {}]
<1>1. Code(e) = "INTERNAL_ERROR"
  BY DEF Code
<1>2. FromEnvelope(ToEnvelope(e)) = e
  BY <1>1 DEF FromEnvelope, ToEnvelope, AuthCodes, StorageCodes, DatabaseCodes, CacheCodes
<1>. QED
  BY <1>1, <1>2

LEMMA ReadsDatabase ==
    ASSUME NEW words
    PROVE  LET e == [kind |-> "Database", words |-> words] IN
           /\ Code(FromEnvelope(ToEnvelope(e))) = Code(e)
           /\ Code(e) \in DatabaseCodes
           /\ "constraint" \notin words => Code(e) # "DB_CONSTRAINT_VIOLATION"
<1> DEFINE e == [kind |-> "Database", words |-> words]
<1>1. /\ Code(e) \in DatabaseCodes
      /\ "constraint" \notin words => Code(e) # "DB_CONSTRAINT_VIOLATION"
  BY DEF Code, DatabaseCodes
<1>2. FromEnvelope(ToEnvelope(e)) = e
  BY <1>1 DEF FromEnvelope, ToEnvelope, AuthCodes, StorageCodes, DatabaseCodes, CacheCodes
<1>. QED
  BY <1>1, <1>2

LEMMA ReadsHandlerError ==
    ASSUME NEW d \in {"io", "other"}, NEW said \in SaidByPostgres(d) \ {{"constraint"}}
    PROVE  LET told == Code(FromEnvelope(ToEnvelope(HandlerError(d, said)))) IN
           told # "DB_CONSTRAINT_VIOLATION" /\ told # "created"
<1>1. "constraint" \notin DbText(d, said)
  BY DEF SaidByPostgres, DbText
<1>. QED
  BY <1>1, ReadsDatabase DEF HandlerError, DatabaseCodes

LEMMA ReadsRefusal ==
    ASSUME NEW d \in {"unique", "integrity"}
    PROVE  Code(FromEnvelope(ToEnvelope(HandlerError(d, {"constraint"})))) \in DatabaseCodes \ {"created"}
  BY ReadsDatabase DEF HandlerError, DatabaseCodes

-----------------------------------------------------------------------------
\* A row that is there stays, and stays its tenant's.
KeepRows ==
    /\ \A k \in Keys : rows[k] # None => rows'[k] # None /\ rows'[k].tenant = rows[k].tenant
    /\ owner' = owner

LEMMA NoneHasNoTenant == \A entry : entry.tenant # 0 => entry # None
  BY DEF None

LEMMA OpenConn ==
    ASSUME IInv, NEW c \in Conns, Open(c)
    PROVE  /\ conn[c].use \in {"create", "tenant"}
           /\ WrittenBy(conn[c].writes, conn[c].tenant)
           /\ conn[c].writes = << >> => DOMAIN conn[c].writes = {}
  BY DEF IInv, ConnInv, ConnOK, Registers, Serves, Open

LEMMA CommitKeepsTenants ==
    ASSUME AInv, NEW c \in Conns, Open(c), rows' = Committed(c), owner' = owner
    PROVE  KeepRows /\ \A k \in Keys : rows'[k] # None => rows'[k].tenant # 0
<1>1. /\ WrittenBy(conn[c].writes, conn[c].tenant)
      /\ \A k \in DOMAIN conn[c].writes : conn[c].tenant # 0
  BY OpenConn DEF AInv, NumbersInv
<1>2. \A k \in Keys : rows'[k] = IF k \in DOMAIN conn[c].writes THEN conn[c].writes[k] ELSE rows[k]
  BY DEF Committed
<1>3. \A k \in DOMAIN conn[c].writes : conn[c].writes[k].tenant = conn[c].tenant /\ conn[c].writes[k] # None
  BY <1>1, NoneHasNoTenant DEF WrittenBy
<1>. QED
  BY <1>1, <1>2, <1>3 DEF AInv, NumbersInv, LockInv, KeepRows

LEMMA ToldStays ==
    ASSUME ToldInv, KeepRows, client' = client, NEW r \in Clients
    PROVE  Told(r)'
<1>1. Slug(r) \in Keys /\ Slug(r)' = Slug(r)
  BY TenancyAssumption, KeysOfStatements DEF Slug
<1>. QED
  BY <1>1 DEF ToldInv, Told, KeepRows

\* The transaction of c ends, with or without effect.
LEMMA EndKeepsLocks ==
    ASSUME AInv, NEW c \in Conns, Open(c), Ends(c), rows' \in {rows, Committed(c)}, owner' = owner
    PROVE  NumbersInv' /\ LockInv' /\ BegunInv' /\ KeepRows
<1>1. KeepRows /\ \A k \in Keys : rows'[k] # None => rows'[k].tenant # 0
  <2>1. CASE rows' = rows
    BY <2>1 DEF KeepRows, AInv, NumbersInv
  <2>. QED
    BY <2>1, CommitKeepsTenants
<1>2. /\ conn'[c] = Free
      /\ \A d \in Conns \ {c} : conn'[d] = conn[d]
  BY DEF Ends, AInv, IInv, ConnInv
<1>3. Free.use = "free"
  BY DEF Free
<1>4. NumbersInv'
  BY <1>1, <1>2, <1>3 DEF AInv, NumbersInv, Open
<1>5. BegunInv'
  BY <1>2, <1>3 DEF AInv, BegunInv, SlugOf
<1>6. LockInv'
  <2>1. \A d, e \in Conns : d # e /\ Open(d)' /\ Open(e)' => DOMAIN conn'[d].writes \cap DOMAIN conn'[e].writes = {}
    BY <1>2 DEF AInv, LockInv, Open
  <2>2. ASSUME NEW d \in Conns, Open(d)', NEW k \in DOMAIN conn'[d].writes, rows'[k] # None
        PROVE  rows'[k].tenant = conn'[d].tenant
    <3>1. d # c /\ Open(d) /\ conn'[d] = conn[d]
      BY <2>2, <1>2 DEF Open
    <3>2. k \in Keys /\ k \notin DOMAIN conn[c].writes
      BY <3>1, OpenConn DEF AInv, LockInv, WrittenBy
    <3>3. rows'[k] = rows[k]
      BY <3>2 DEF Committed
    <3>. QED
      BY <2>2, <3>1, <3>3 DEF AInv, LockInv
  <2>. QED
    BY <2>1, <2>2 DEF LockInv
<1>. QED
  BY <1>1, <1>4, <1>5, <1>6

\* The transaction of c goes on, and its rows are the same.
LEMMA ReadKeepsLocks ==
    ASSUME AInv, NEW c \in Conns, conn[c].use = "tenant", ReadsOnly(c), rows' = rows
    PROVE  NumbersInv' /\ LockInv' /\ BegunInv'
<1>1. Open(c)
  BY ServingConn DEF AInv, Open
<1>2. /\ conn'[c].use = "tenant" /\ conn'[c].tenant = conn[c].tenant /\ conn'[c].writes = conn[c].writes
      /\ conn'[c] # Free
      /\ \A d \in Conns \ {c} : conn'[d] = conn[d]
  BY DEF ReadsOnly, AInv, IInv, ConnInv, Serves, Free
<1>3. NumbersInv'
  BY <1>1, <1>2 DEF AInv, NumbersInv, Open
<1>4. LockInv'
  BY <1>1, <1>2 DEF AInv, LockInv, Open
<1>5. BegunInv'
  BY <1>2 DEF AInv, BegunInv, SlugOf
<1>. QED
  BY <1>3, <1>4, <1>5

LEMMA WriteKeepsLocks ==
    ASSUME AInv, NEW c \in Conns, conn[c].use = "tenant", WritesOwn(c), rows' = rows
    PROVE  NumbersInv' /\ LockInv' /\ BegunInv'
<1>1. Open(c)
  BY ServingConn DEF AInv, Open
<1>a. PICK k \in Keys : \E entry :
        /\ Visible(c, k) \/ Row(c, k) = None
        /\ ~Locked(c, k)
        /\ \E x : /\ conn' = [conn EXCEPT ![c] = x]
                  /\ Serves(x) /\ x.tenant = conn[c].tenant /\ x.writes = Put(conn[c].writes, k, entry)
  BY DEF WritesOwn
<1>2. PICK entry :
        /\ Visible(c, k) \/ Row(c, k) = None
        /\ ~Locked(c, k)
        /\ \E x : /\ conn' = [conn EXCEPT ![c] = x]
                  /\ Serves(x) /\ x.tenant = conn[c].tenant /\ x.writes = Put(conn[c].writes, k, entry)
  BY <1>a
<1>3. /\ conn'[c].use = "tenant" /\ conn'[c].tenant = conn[c].tenant
      /\ conn'[c].writes = Put(conn[c].writes, k, entry)
      /\ conn'[c] # Free
      /\ \A d \in Conns \ {c} : conn'[d] = conn[d]
  BY <1>2 DEF AInv, IInv, ConnInv, Serves, Free
<1>4. DOMAIN conn'[c].writes = DOMAIN conn[c].writes \cup {k}
  BY <1>3 DEF Put
<1>5. NumbersInv'
  BY <1>1, <1>3 DEF AInv, NumbersInv, Open
<1>6. LockInv'
  <2>1. \A d \in Conns \ {c} : Open(d) => k \notin DOMAIN conn[d].writes
    BY <1>2 DEF Locked, Open
  <2>2. rows[k] # None => rows[k].tenant = conn[c].tenant
    BY <1>1, <1>2, PolicyIsOwn DEF AInv, LockInv, Visible, Row, Open
  <2>3. \A d, e \in Conns : d # e /\ Open(d)' /\ Open(e)' => DOMAIN conn'[d].writes \cap DOMAIN conn'[e].writes = {}
    BY <1>1, <1>3, <1>4, <2>1 DEF AInv, LockInv, Open
  <2>4. \A d \in Conns : Open(d)' => \A q \in DOMAIN conn'[d].writes : rows[q] # None => rows[q].tenant = conn'[d].tenant
    BY <1>1, <1>3, <1>4, <2>2 DEF AInv, LockInv, Open
  <2>. QED
    BY <2>3, <2>4 DEF LockInv
<1>7. BegunInv'
  BY <1>3 DEF AInv, BegunInv, SlugOf
<1>. QED
  BY <1>5, <1>6, <1>7

\* A connection that has written nothing locks nothing.
LEMMA NewKeepsLocks ==
    ASSUME AInv, NEW c \in Conns, NEW x, conn' = [conn EXCEPT ![c] = x],
           x.use \in {"create", "tenant"}, x.writes = << >>, x.use = "tenant" => x.tenant # 0,
           rows' = rows
    PROVE  NumbersInv' /\ LockInv' /\ BegunInv'
<1>1. conn'[c] = x /\ \A d \in Conns \ {c} : conn'[d] = conn[d]
  BY DEF AInv, IInv, ConnInv
<1>2. DOMAIN x.writes = {}
  OBVIOUS
<1>3. NumbersInv'
  BY <1>1 DEF AInv, NumbersInv, Open
<1>4. LockInv'
  BY <1>1, <1>2 DEF AInv, LockInv, Open
<1>5. BegunInv'
  BY <1>1 DEF AInv, BegunInv, SlugOf
<1>. QED
  BY <1>3, <1>4, <1>5

LEMMA TenantTxKeepsAInv ==
    ASSUME AInv, NEW c \in Conns, TenantTx(c)
    PROVE  AInv'
<1>1. IInv'
  BY TenantTxKeepsIInv DEF AInv
<1>2. NumbersInv' /\ LockInv' /\ BegunInv' /\ KeepRows
  <2>1. CASE \E t \in Tenants0, scopes \in Grants : BeginTx(c, t, scopes)
    <3>1. PICK t \in Tenants0, scopes \in Grants : BeginTx(c, t, scopes)
      BY <2>1
    <3> DEFINE x == [use |-> "tenant", tenant |-> t, local |-> Unset, scopes |-> scopes, n |-> 0, saw |-> {},
                     writes |-> << >>]
    <3>2. conn' = [conn EXCEPT ![c] = x] /\ rows' = rows /\ owner' = owner
      BY <3>1 DEF BeginTx
    <3>3. t # 0
      BY TenancyAssumption DEF Tenants0
    <3>4. x.use = "tenant" /\ x.writes = << >> /\ x.tenant # 0
      BY <3>3
    <3>. QED
      <4>. HIDE DEF x
      <4>. QED
        BY <3>2, <3>4, NewKeepsLocks DEF KeepRows
  <2>2. CASE conn[c].use = "tenant" /\ rows' = rows /\ (ReadsOnly(c) \/ WritesOwn(c))
    BY <2>2, ReadKeepsLocks, WriteKeepsLocks, TenantTxSteps DEF AInv, KeepRows
  <2>3. CASE conn[c].use = "tenant" /\ rows' \in {rows, Committed(c)} /\ Ends(c)
    BY <2>3, EndKeepsLocks, ServingConn, TenantTxSteps DEF AInv, Open, NumbersInv
  <2>4. CASE conn' = conn /\ rows' = rows
    BY <2>4, TenantTxSteps DEF AInv, NumbersInv, LockInv, BegunInv, KeepRows, Open, SlugOf
  <2>. QED
    BY <2>1, <2>2, <2>3, <2>4, TenantTxSteps DEF AInv
<1>3. ToldInv'
  BY <1>2, ToldStays, TenantTxSteps DEF AInv, ToldInv
<1>. QED
  BY <1>1, <1>2, <1>3 DEF AInv

-----------------------------------------------------------------------------
\* What a client is told changes to an error other than a conflict, or not at all.
LEMMA ReadsKeepsTold ==
    ASSUME ToldInv, KeepRows, NEW q \in Clients, NEW r \in Clients, NEW e, client' = Reads(q, e),
           LET told == Code(FromEnvelope(ToEnvelope(e))) IN
           /\ told # "created"
           /\ told = "DB_CONSTRAINT_VIOLATION" => rows'[Slug(q)] # None \/ ~owner
    PROVE  Told(r)'
<1> DEFINE told == Code(FromEnvelope(ToEnvelope(e)))
<1>1. Slug(r) \in Keys /\ Slug(r)' = Slug(r)
  BY TenancyAssumption, KeysOfStatements DEF Slug
<1>2. /\ DOMAIN client' = Clients /\ DOMAIN client'[r] = DOMAIN client[r]
      /\ client'[r].told = IF r = q THEN told ELSE client[r].told
      /\ client'[r].tenant = client[r].tenant
  <2>. HIDE DEF told
  <2>1. client' = [client EXCEPT ![q].step = IF Retryable(FromEnvelope(ToEnvelope(e))) THEN "idle" ELSE "done",
                                 ![q].told = told]
    BY DEF Reads, told
  <2>. QED
    BY <2>1 DEF ToldInv, Told
<1>. QED
  BY <1>1, <1>2 DEF ToldInv, Told, KeepRows

LEMMA ReadsDomain ==
    ASSUME ToldInv, NEW q, NEW e
    PROVE  DOMAIN Reads(q, e) = Clients
  BY DEF Reads, ToldInv

LEMMA AnswerKeepsTold ==
    ASSUME ToldInv, KeepRows, NEW call, call[1] \in Clients, NEW e, client' = Answer(call, e),
           LET told == Code(FromEnvelope(ToEnvelope(e))) IN
           /\ told # "created"
           /\ told = "DB_CONSTRAINT_VIOLATION" => rows'[Slug(call[1])] # None \/ ~owner
    PROVE  ToldInv'
<1>1. CASE client' = client
  BY <1>1, ToldStays DEF ToldInv
<1>2. CASE client' = Reads(call[1], e)
  BY <1>2, ReadsKeepsTold, ReadsDomain DEF ToldInv
<1>. QED
  BY <1>1, <1>2 DEF Answer

LEMMA RegisterKeepsAInv ==
    ASSUME AInv, Register
    PROVE  AInv'
<1>1. IInv'
  BY RegisterKeepsIInv DEF AInv
<1>2. ASSUME NEW r \in Clients, RegisterTenant(r) PROVE AInv'
  <2>1. NumbersInv' /\ LockInv' /\ BegunInv'
    BY <1>2 DEF RegisterTenant, AInv, NumbersInv, LockInv, BegunInv, Open, SlugOf
  <2>2. client' = [client EXCEPT ![r].step = "waiting", ![r].calls = @ + 1] /\ rows' = rows /\ owner' = owner
    BY <1>2 DEF RegisterTenant
  <2>3. ToldInv'
    <3>1. \A q \in Clients : DOMAIN client'[q] = DOMAIN client[q] /\ client'[q].told = client[q].told
                             /\ client'[q].tenant = client[q].tenant
      BY <2>2 DEF AInv, ToldInv, Told
    <3>. QED
      BY <2>2, <3>1 DEF AInv, ToldInv, Told, Slug
  <2>. QED
    BY <1>1, <2>1, <2>3 DEF AInv
<1>3. ASSUME NEW r \in Clients, ConnectFails(r) \/ CallFails(r) PROVE AInv'
  <2> DEFINE e == [kind |-> "Internal", words |-> {}]
  <2>1. /\ NumbersInv' /\ LockInv' /\ BegunInv' /\ KeepRows
    BY <1>3 DEF ConnectFails, CallFails, AInv, NumbersInv, LockInv, BegunInv, KeepRows, Open, SlugOf
  <2>2. ToldInv'
    <3>1. CASE CallFails(r)
      <4>1. client' = Reads(r, e)
        BY <3>1 DEF CallFails
      <4>. QED
        BY <4>1, <2>1, ReadsKeepsTold, ReadsDomain, ReadsInternal DEF AInv, ToldInv
    <3>2. CASE ConnectFails(r)
      <4>1. client' = [Reads(r, e) EXCEPT ![r].calls = @ + 1]
        BY <3>2 DEF ConnectFails
      <4>2. \A q \in Clients : /\ DOMAIN Reads(r, e)[q] = DOMAIN client[q]
                               /\ Reads(r, e)[q].told = IF q = r THEN "INTERNAL_ERROR" ELSE client[q].told
                               /\ Reads(r, e)[q].tenant = client[q].tenant
        <5> DEFINE step == IF Retryable(FromEnvelope(ToEnvelope(e))) THEN "idle" ELSE "done"
        <5>1. Reads(r, e) = [client EXCEPT ![r].step = step, ![r].told = "INTERNAL_ERROR"]
          BY ReadsInternal DEF Reads
        <5>. HIDE DEF e, step
        <5>. QED
          BY <5>1 DEF AInv, ToldInv, Told
      <4>3. \A q \in Clients : /\ DOMAIN client'[q] = DOMAIN client[q]
                               /\ client'[q].told = IF q = r THEN "INTERNAL_ERROR" ELSE client[q].told
                               /\ client'[q].tenant = client[q].tenant
        BY <4>1, <4>2, ReadsDomain DEF AInv, ToldInv, Told
      <4>4. DOMAIN client' = Clients
        BY <4>1, ReadsDomain DEF AInv
      <4>5. rows' = rows /\ owner' = owner
        BY <3>2 DEF ConnectFails
      <4>. QED
        BY <4>3, <4>4, <4>5 DEF AInv, ToldInv, Told, Slug
    <3>. QED
      BY <1>3, <3>1, <3>2
  <2>. QED
    BY <1>1, <2>1, <2>2 DEF AInv
<1>4. ASSUME NEW c \in Conns, HandleCreateTenant(c) PROVE AInv'
  <2>1. PICK call \in asked :
           conn' = [conn EXCEPT ![c] = [use |-> "create", call |-> call, tenant |-> 0, local |-> Unset,
                                        writes |-> << >>]]
    BY <1>4 DEF HandleCreateTenant
  <2> DEFINE x == [use |-> "create", call |-> call, tenant |-> 0, local |-> Unset, writes |-> << >>]
  <2>2. x.use = "create" /\ x.writes = << >>
    OBVIOUS
  <2>3. rows' = rows /\ owner' = owner /\ client' = client
    BY <1>4 DEF HandleCreateTenant
  <2>4. NumbersInv' /\ LockInv' /\ BegunInv'
    <3>. HIDE DEF x
    <3>. QED
      BY <2>1, <2>2, <2>3, NewKeepsLocks DEF x
  <2>5. ToldInv'
    BY <2>3, ToldStays DEF AInv, ToldInv, KeepRows
  <2>. QED
    BY <1>1, <2>4, <2>5 DEF AInv
<1>8. ASSUME NEW c \in Conns, DrawTenant(c) PROVE AInv'
  <2>1. Registers(conn[c]) /\ conn[c].writes = << >>
    BY <1>8 DEF DrawTenant, AInv, IInv, ConnInv, ConnOK, Free, Registers, Serves
  <2>2. PICK t \in Ids : SetConfig(c, t)
    BY <1>8 DEF DrawTenant
  <2> DEFINE x == [conn[c] EXCEPT !.tenant = t, !.local = t]
  <2>3. conn' = [conn EXCEPT ![c] = x]
    BY <2>2 DEF SetConfig
  <2>4. x.use = "create" /\ x.writes = << >>
    BY <2>1 DEF Registers
  <2>5. rows' = rows /\ owner' = owner /\ client' = client
    BY <1>8 DEF DrawTenant
  <2>6. NumbersInv' /\ LockInv' /\ BegunInv'
    <3>. HIDE DEF x
    <3>. QED
      BY <2>3, <2>4, <2>5, NewKeepsLocks
  <2>7. ToldInv'
    BY <2>5, ToldStays DEF AInv, ToldInv, KeepRows
  <2>. QED
    BY <1>1, <2>6, <2>7 DEF AInv
<1>5. ASSUME NEW c \in Conns, CriarTenant(c) PROVE AInv'
  <2>1. Registers(conn[c]) /\ Open(c) /\ conn[c].tenant # 0
    BY <1>5 DEF CriarTenant, AInv, IInv, ConnInv, ConnOK, Free, Registers, Serves, Open, Unset
  <2>2. conn[c].call[1] \in Clients /\ SlugOf(c) = Slug(conn[c].call[1]) /\ SlugOf(c) \in Keys
    BY <2>1, TenancyAssumption, KeysOfStatements DEF SlugOf, Slug, Registers
  <2>3. rows' = rows /\ owner' = owner
    BY <1>5 DEF CriarTenant
  <2>4. CASE Refusal(c) # "none"
    <3>1. Ends(c) /\ client' = Answer(conn[c].call, HandlerError(Refusal(c), {"constraint"}))
      BY <1>5, <2>4 DEF CriarTenant, Ends
    <3>2. NumbersInv' /\ LockInv' /\ BegunInv' /\ KeepRows
      BY <3>1, <2>1, <2>3, EndKeepsLocks
    <3>4. Refusal(c) \in {"unique", "integrity"} /\ (rows[SlugOf(c)] # None \/ ~owner)
      BY <2>4 DEF Refusal
    <3>5. Code(FromEnvelope(ToEnvelope(HandlerError(Refusal(c), {"constraint"})))) # "created"
      BY <3>4, ReadsRefusal
    <3>3. ToldInv'
      BY <3>1, <3>2, <3>4, <3>5, <2>2, <2>3, AnswerKeepsTold DEF AInv
    <3>. QED
      BY <1>1, <3>2, <3>3 DEF AInv
  <2>5. CASE Refusal(c) = "none"
    <3> DEFINE w == Put(<< >>, SlugOf(c), TenantRow(conn[c].tenant))
    <3>1. DOMAIN w = {SlugOf(c)} /\ w # << >>
      BY DEF Put
    <3>2. /\ conn'[c].use = "create" /\ conn'[c].call = conn[c].call
          /\ conn'[c].tenant = conn[c].tenant /\ conn'[c].writes = w
          /\ conn'[c] # Free
          /\ \A d \in Conns \ {c} : conn'[d] = conn[d]
      <4>1. conn' = [conn EXCEPT ![c].writes = w]
        BY <1>5, <2>5 DEF CriarTenant
      <4>. HIDE DEF w
      <4>. QED
        BY <4>1, <2>1 DEF AInv, IInv, ConnInv, Registers, Free
    <3>. HIDE DEF w
    <3>3. client' = client
      BY <1>5, <2>5 DEF CriarTenant
    <3>8. rows[SlugOf(c)] = None
      BY <2>5 DEF Refusal
    <3>4. NumbersInv'
      BY <3>2, <2>1, <2>3 DEF AInv, NumbersInv, Open
    <3>5. LockInv'
      <4>1. \A d \in Conns \ {c} : Open(d) => SlugOf(c) \notin DOMAIN conn[d].writes
        BY <1>5 DEF CriarTenant, Locked, Open
      <4>. QED
        BY <4>1, <2>1, <2>3, <3>8, <3>1, <3>2 DEF AInv, LockInv, Open
    <3>6. BegunInv'
      BY <3>1, <3>2 DEF AInv, BegunInv, SlugOf
    <3>7. ToldInv'
      BY <3>3, <2>3, ToldStays DEF AInv, ToldInv, KeepRows
    <3>. QED
      BY <1>1, <3>4, <3>5, <3>6, <3>7 DEF AInv
  <2>. QED
    BY <2>4, <2>5
<1>6. ASSUME NEW c \in Conns, CommitTenant(c) PROVE AInv'
  <2>1. Registers(conn[c]) /\ Open(c)
    BY <1>6 DEF CommitTenant, AInv, IInv, ConnInv, ConnOK, Free, Registers, Serves, Open
  <2> DEFINE q == conn[c].call[1]
  <2>2. q \in Clients /\ SlugOf(c) = Slug(q) /\ SlugOf(c) \in Keys
    BY <2>1, TenancyAssumption, KeysOfStatements DEF SlugOf, Slug, Registers
  <2>3. Ends(c) /\ rows' = Committed(c) /\ owner' = owner
    BY <1>6 DEF CommitTenant, Ends
  <2>4. NumbersInv' /\ LockInv' /\ BegunInv' /\ KeepRows
    BY <2>1, <2>3, EndKeepsLocks DEF AInv, NumbersInv
  <2>5. SlugOf(c) \in DOMAIN conn[c].writes /\ conn[c].tenant # 0
    BY <1>6, <2>1 DEF CommitTenant, AInv, BegunInv, NumbersInv
  <2>6. rows'[Slug(q)].tenant = conn[c].tenant /\ rows'[Slug(q)] # None
    BY <2>1, <2>2, <2>3, <2>5, NoneHasNoTenant DEF Committed, Registers, WrittenBy
  <2>7. ToldInv'
    <3>1. CASE client' = client
      BY <3>1, <2>4, ToldStays DEF AInv, ToldInv
    <3>2. CASE client' = [client EXCEPT ![q].step = "done", ![q].told = "created", ![q].tenant = conn[c].tenant]
      <4>1. \A r \in Clients :
               /\ DOMAIN client'[r] = DOMAIN client[r]
               /\ client'[r].told = IF r = q THEN "created" ELSE client[r].told
               /\ client'[r].tenant = IF r = q THEN conn[c].tenant ELSE client[r].tenant
        BY <2>2, <3>2 DEF AInv, ToldInv, Told
      <4>2. \A r \in Clients : Slug(r) \in Keys /\ Slug(r)' = Slug(r)
        BY TenancyAssumption, KeysOfStatements DEF Slug
      <4>. HIDE DEF q
      <4>. QED
        BY <4>1, <4>2, <3>2, <2>4, <2>6 DEF AInv, ToldInv, Told, KeepRows
    <3>. QED
      BY <1>6, <3>1, <3>2 DEF CommitTenant, Created
  <2>. QED
    BY <1>1, <2>4, <2>7 DEF AInv
<1>7. ASSUME NEW c \in Conns, CreateFails(c) PROVE AInv'
  <2>1. Registers(conn[c]) /\ Open(c)
    BY <1>7 DEF CreateFails, AInv, IInv, ConnInv, ConnOK, Free, Registers, Serves, Open
  <2>2. Ends(c) /\ rows' \in {rows, Committed(c)} /\ owner' = owner
    BY <1>7 DEF CreateFails, Ends
  <2>3. NumbersInv' /\ LockInv' /\ BegunInv' /\ KeepRows
    BY <2>1, <2>2, EndKeepsLocks DEF AInv, NumbersInv
  <2>4. PICK d \in {"io", "other"} : \E said \in SaidByPostgres(d) \ {{"constraint"}} : client' = Answer(conn[c].call, HandlerError(d, said))
    BY <1>7 DEF CreateFails
  <2>5. PICK said \in SaidByPostgres(d) \ {{"constraint"}} : client' = Answer(conn[c].call, HandlerError(d, said))
    BY <2>4
  <2>6. ToldInv'
    BY <2>1, <2>3, <2>5, AnswerKeepsTold, ReadsHandlerError DEF AInv, Registers
  <2>. QED
    BY <1>1, <2>3, <2>6 DEF AInv
<1>. QED
  BY <1>2, <1>3, <1>4, <1>5, <1>6, <1>7, <1>8 DEF Register

LEMMA MarcarUsadoKeepsAInv ==
    ASSUME AInv, NEW i \in Invites, MarcarUsado(i)
    PROVE  AInv'
<1>1. \A k \in Keys : /\ rows[k] # None => rows'[k].tenant = rows[k].tenant
                      /\ rows[k] = None => rows'[k] = None
  BY KeysOfStatements DEF MarcarUsado, AInv, IInv, RowsInv, HasTenant
<1>2. KeepRows
  BY <1>1, NoneHasNoTenant DEF KeepRows, AInv, NumbersInv, MarcarUsado
<1>3. UNCHANGED <<owner, conn, client, asked>>
  BY DEF MarcarUsado
<1>4. NumbersInv' /\ BegunInv'
  BY <1>1, <1>3 DEF AInv, NumbersInv, BegunInv, Open, SlugOf
<1>5. LockInv'
  BY <1>1, <1>3, OpenConn DEF AInv, LockInv, Open, WrittenBy
<1>. QED
  BY <1>2, <1>3, <1>4, <1>5, MarcarUsadoKeepsIInv, ToldStays DEF AInv, ToldInv

LEMMA InitAInv == Init => AInv
<1> SUFFICES ASSUME Init PROVE AInv
  OBVIOUS
<1>2. \A k \in Keys : rows[k] # None => rows[k].tenant # 0
  <2>1. \A t \in Tenants0 : t # 0
    BY TenancyAssumption DEF Tenants0
  <2>2. \A k \in Keys : \/ rows[k] = None
                        \/ \E t \in Tenants0 : rows[k] \in {TenantRow(t), SubscriptionRow(t), EventRow(t)}
    BY DEF Init, Keys, Tenants0
  <2>. QED
    BY <2>1, <2>2, RowsHaveTenants
<1>3. NumbersInv /\ LockInv /\ BegunInv
  BY <1>2 DEF Init, NumbersInv, LockInv, BegunInv, Open, Free
<1>4. ToldInv
  BY DEF Init, ToldInv, Told
<1>. QED
  BY <1>3, <1>4, InitIInv DEF AInv

\* A client of RegisterTenant is told of a tenant it was given only when that tenant has
\* the slug, and of a conflict only when some tenant has, or no user 1 is there to own
\* it: for any clients, slugs, pool, and number of calls, late answers and failures.
THEOREM TrueAnswers == Spec => []AnswersAreTrue
<1>1. AInv /\ [Next]_vars => AInv'
  <2> SUFFICES ASSUME AInv, [Next]_vars PROVE AInv'
    OBVIOUS
  <2>1. CASE UNCHANGED vars
    BY <2>1 DEF vars, AInv, IInv, RowsInv, ConnInv, AskedInv, SessionInv, NumbersInv, LockInv, BegunInv,
                ToldInv, Told, Open, SlugOf, Slug
  <2>2. ASSUME NEW c \in Conns, BuscarPendentes(c) PROVE AInv'
    BY <2>2, RelayKeepsIInv DEF AInv, NumbersInv, LockInv, BegunInv, ToldInv, Told, Open, SlugOf, Slug
  <2>. QED
    BY <2>1, <2>2, RegisterKeepsAInv, TenantTxKeepsAInv, MarcarUsadoKeepsAInv DEF Next
<1>2. AInv => AnswersAreTrue
  BY DEF AInv, ToldInv, Told, Slug, AnswersAreTrue
<1>. QED
  BY <1>1, <1>2, InitAInv, PTL DEF Spec

-----------------------------------------------------------------------------
(***************************************************************************)
(* Errors keep their code                                                  *)
(***************************************************************************)
\* The code of an AppError tells its kind, and its envelope holds its text: the
\* next process builds the same error.
LEMMA EnvelopeIsLossless == \A e \in AppErrors : FromEnvelope(ToEnvelope(e)) = e
<1> SUFFICES ASSUME NEW e \in AppErrors PROVE FromEnvelope(ToEnvelope(e)) = e
  OBVIOUS
<1>1. e.kind \in Kinds /\ e = [kind |-> e.kind, words |-> e.words]
  BY DEF AppErrors
<1>2. /\ e.kind = "Auth" => Code(e) \in AuthCodes
      /\ e.kind = "Database" => Code(e) \in DatabaseCodes
      /\ e.kind = "Cache" => Code(e) \in CacheCodes
      /\ e.kind = "Storage" => Code(e) \in StorageCodes
  BY DEF Code, AuthCodes, DatabaseCodes, CacheCodes, StorageCodes
<1>3. /\ e.kind = "Validation" => Code(e) = "VALIDATION_FAILED"
      /\ e.kind = "Conflict" => Code(e) = "CONFLICT"
      /\ e.kind = "RateLimit" => Code(e) = "RATE_LIMIT_EXCEEDED"
      /\ e.kind = "Internal" => Code(e) = "INTERNAL_ERROR"
  BY DEF Code
<1>4. FromEnvelope(ToEnvelope(e)).kind = e.kind
  BY <1>1, <1>2, <1>3 DEF Kinds, FromEnvelope, ToEnvelope, AuthCodes, DatabaseCodes, CacheCodes, StorageCodes
<1>5. /\ FromEnvelope(ToEnvelope(e)).words = e.words
      /\ DOMAIN FromEnvelope(ToEnvelope(e)) = {"kind", "words"}
  BY DEF FromEnvelope, ToEnvelope
<1>6. FromEnvelope(ToEnvelope(e)) = [kind |-> FromEnvelope(ToEnvelope(e)).kind,
                                     words |-> FromEnvelope(ToEnvelope(e)).words]
  BY DEF FromEnvelope
<1>. QED
  BY <1>1, <1>4, <1>5, <1>6

\* The bridge of infrastructure_postgres says the code of the error in words that
\* AppError::code finds again.
LEMMA DbBridge ==
    ASSUME NEW d \in DbErrors \ {"other", "migration"}, NEW said \in SaidByPostgres(d)
    PROVE  Code(FromDbError(d, said)) = DbCode(d)
<1>1. d \in {"row not found", "pool", "io", "integrity", "permission denied",
             "not found", "unique", "crypto", "config"}
  BY DEF DbErrors, SqlxErrors
<1>2. CASE d \in {"row not found", "not found"}
  <2>1. DbCode(d) = "DB_RECORD_NOT_FOUND"
    BY <1>2 DEF DbCode, ClassificarSqlx, SqlxErrors
  <2> DEFINE e == FromDbError(d, said)
             missing == "nao encontrado"
  <2>2. e = [kind |-> "Database", words |-> {missing}]
    BY <2>1 DEF FromDbError
  <2>3. missing # "connection" /\ {missing} \cap {"nao encontrado", "not found"} # {}
    OBVIOUS
  <2>4. e.kind = "Database" /\ e.words = {missing} /\ "connection" \notin e.words
    <3>. HIDE DEF e, missing
    <3>. QED
      BY <2>2, <2>3
  <2>. HIDE DEF e, missing
  <2>5. Code(e) = "DB_RECORD_NOT_FOUND"
    BY <2>3, <2>4 DEF Code
  <2>. QED
    BY <2>1, <2>5 DEF e
<1>3. CASE d \in {"pool", "io"}
  <2>1. DbCode(d) = "DB_CONNECTION_FAILED"
    BY <1>3 DEF DbCode, ClassificarSqlx, SqlxErrors
  <2>2. FromDbError(d, said) = [kind |-> "Database", words |-> {"connection"} \cup DbText(d, said)]
    BY <2>1 DEF FromDbError
  <2>. QED
    BY <2>1, <2>2 DEF Code
<1>4. CASE d \in {"integrity", "unique"}
  <2>1. DbCode(d) = "DB_CONSTRAINT_VIOLATION"
    BY <1>4 DEF DbCode, ClassificarSqlx, SqlxErrors
  <2>2. FromDbError(d, said) = [kind |-> "Database", words |-> {"constraint"} \cup DbText(d, said)]
    BY <2>1 DEF FromDbError
  <2>3. DbText(d, said) = {"constraint"}
    BY <1>4 DEF DbText, SaidByPostgres
  <2>. QED
    BY <2>1, <2>2, <2>3 DEF Code
<1>6. CASE d = "permission denied"
  <2>1. DbCode(d) = "AUTH_INSUFFICIENT_SCOPE"
    BY <1>6 DEF DbCode, SqlxErrors
  <2>2. FromDbError(d, said) = [kind |-> "Auth", words |-> {"scope"}]
    BY <2>1 DEF FromDbError
  <2>. QED
    BY <2>1, <2>2 DEF Code
<1>7. CASE d \in {"crypto", "config"}
  <2>1. DbCode(d) = "INTERNAL_ERROR"
    BY <1>7 DEF DbCode, SqlxErrors
  <2>2. FromDbError(d, said).kind = "Internal"
    BY <2>1 DEF FromDbError
  <2>. QED
    BY <2>1, <2>2 DEF Code
<1>. QED
  BY <1>1, <1>2, <1>3, <1>4, <1>6, <1>7

\* And so does that of infrastructure_redis.
LEMMA RedisBridge ==
    ASSUME NEW d \in RedisErrors
    PROVE  Code(FromRedisError(d)) = RedisCode(d)
<1>1. CASE d = "unavailable"
  BY <1>1 DEF FromRedisError, RedisCode, Code
<1>2. CASE d = "command"
  BY <1>2 DEF FromRedisError, RedisCode, Code
<1>3. CASE d = "not found"
  BY <1>3 DEF FromRedisError, RedisCode, Code
<1>4. CASE d \in {"serde", "config"}
  BY <1>4 DEF FromRedisError, RedisCode, Code
<1>5. CASE d = "reuse"
  BY <1>5 DEF FromRedisError, RedisCode, Code
<1>. QED
  BY <1>1, <1>2, <1>3, <1>4, <1>5 DEF RedisErrors

\* What a client of RegisterTenant may be told.
Tellable == {"nothing", "created", "INTERNAL_ERROR"} \cup DatabaseCodes

ToldOK(x) == DOMAIN x = {"step", "calls", "told", "tenant"} /\ x.told \in Tellable

\* The inductive invariant.
ErrorInv == DOMAIN client = Clients /\ \A r \in Clients : ToldOK(client[r])

LEMMA ReadsKeepsErrors ==
    ASSUME ErrorInv, NEW q \in Clients, NEW e, NEW n, Code(FromEnvelope(ToEnvelope(e))) \in Tellable,
           client' = Reads(q, e) \/ client' = [Reads(q, e) EXCEPT ![q].calls = n]
    PROVE  ErrorInv'
<1> DEFINE step == IF Retryable(FromEnvelope(ToEnvelope(e))) THEN "idle" ELSE "done"
           told == Code(FromEnvelope(ToEnvelope(e)))
<1>1. Reads(q, e) = [client EXCEPT ![q].step = step, ![q].told = told]
  BY DEF Reads
<1>2. told \in Tellable
  OBVIOUS
<1>. HIDE DEF step, told
<1>3. /\ DOMAIN client' = Clients
      /\ \A r \in Clients \ {q} : client'[r] = client[r]
      /\ DOMAIN client'[q] = DOMAIN client[q] /\ client'[q].told = told
  BY <1>1 DEF ErrorInv, ToldOK
<1>. QED
  BY <1>2, <1>3 DEF ErrorInv, ToldOK

LEMMA NextErrorInv == IInv /\ ErrorInv /\ [Next]_vars => ErrorInv'
<1> SUFFICES ASSUME IInv, ErrorInv, [Next]_vars PROVE ErrorInv'
  OBVIOUS
<1>1. ASSUME NEW call, call[1] \in Clients, NEW e, Code(FromEnvelope(ToEnvelope(e))) \in Tellable,
             client' = Answer(call, e)
      PROVE  ErrorInv'
  <2>1. client' = client \/ client' = Reads(call[1], e)
    BY <1>1 DEF Answer
  <2>. QED
    BY <1>1, <2>1, ReadsKeepsErrors DEF ErrorInv
<1>2. ASSUME NEW c \in Conns, conn[c].use = "create" PROVE conn[c].call[1] \in Clients
  BY <1>2 DEF IInv, ConnInv, ConnOK, Free, Registers, Serves
<1>a. ASSUME NEW d, NEW said PROVE Code(FromEnvelope(ToEnvelope(HandlerError(d, said)))) \in Tellable
  BY ReadsDatabase DEF HandlerError, Tellable
<1>3. ASSUME NEW r \in Clients, RegisterTenant(r) PROVE ErrorInv'
  <2>1. client' = [client EXCEPT ![r].step = "waiting", ![r].calls = client[r].calls + 1]
    BY <1>3 DEF RegisterTenant
  <2>. QED
    BY <2>1 DEF ErrorInv, ToldOK
<1>4. ASSUME NEW r \in Clients, ConnectFails(r) \/ CallFails(r) PROVE ErrorInv'
  <2> DEFINE e == [kind |-> "Internal", words |-> {}]
  <2>0. Code(FromEnvelope(ToEnvelope(e))) \in Tellable
    BY ReadsInternal DEF Tellable
  <2>1. CASE CallFails(r)
    BY <2>0, <2>1, ReadsKeepsErrors DEF CallFails
  <2>2. CASE ConnectFails(r)
    <3>1. client' = [Reads(r, e) EXCEPT ![r].calls = Reads(r, e)[r].calls + 1]
      BY <2>2 DEF ConnectFails
    <3>. QED
      BY <2>0, <3>1, ReadsKeepsErrors
  <2>. QED
    BY <1>4, <2>1, <2>2
<1>5. ASSUME NEW c \in Conns, HandleCreateTenant(c) PROVE ErrorInv'
  BY <1>5 DEF HandleCreateTenant, ErrorInv
<1>6. ASSUME NEW c \in Conns, CriarTenant(c) PROVE ErrorInv'
  <2>1. conn[c].call[1] \in Clients
    BY <1>2, <1>6 DEF CriarTenant
  <2>2. client' = client \/ client' = Answer(conn[c].call, HandlerError(Refusal(c), {"constraint"}))
    BY <1>6 DEF CriarTenant
  <2>. QED
    BY <1>1, <1>a, <2>1, <2>2 DEF ErrorInv
<1>7. ASSUME NEW c \in Conns, CommitTenant(c) PROVE ErrorInv'
  <2> DEFINE r == conn[c].call[1]
  <2>1. r \in Clients
    BY <1>2, <1>7 DEF CommitTenant
  <2>2. \/ client' = client
        \/ client' = [client EXCEPT ![r].step = "done", ![r].told = "created", ![r].tenant = conn[c].tenant]
    BY <1>7 DEF CommitTenant, Created
  <2>. HIDE DEF r
  <2>. QED
    BY <2>1, <2>2 DEF ErrorInv, ToldOK, Tellable
<1>8. ASSUME NEW c \in Conns, CreateFails(c) PROVE ErrorInv'
  <2>1. conn[c].call[1] \in Clients
    BY <1>2, <1>8 DEF CreateFails
  <2>2. PICK d \in {"io", "other"} : \E said \in SaidByPostgres(d) \ {{"constraint"}} :
            client' = Answer(conn[c].call, HandlerError(d, said))
    BY <1>8 DEF CreateFails
  <2>. QED
    BY <1>1, <1>a, <2>1, <2>2
<1>10. ASSUME NEW c \in Conns, DrawTenant(c) \/ BuscarPendentes(c) PROVE ErrorInv'
  BY <1>10 DEF DrawTenant, BuscarPendentes, ErrorInv
<1>9. CASE (\E c \in Conns : TenantTx(c)) \/ (\E i \in Invites : MarcarUsado(i)) \/ UNCHANGED vars
  <2>1. client' = client
    BY <1>9 DEF TenantTx, MarcarUsado, vars, BeginTx, ConfigureTx, BuscarPorSlug, AtualizarSetup, AtualizarStatus,
       BuscarPorId, CriarTenantUser, CriarInvite, RegistrarPagamento, BuscarAssinatura, ListarPagamentos,
       AtualizarAssinatura, CommitTx, RollbackTx, Statement
  <2>. QED
    BY <2>1 DEF ErrorInv
<1>. QED
  BY <1>3, <1>4, <1>5, <1>6, <1>7, <1>8, <1>9, <1>10 DEF Next, Register

\* An error keeps its code, category, severity and retryability through every envelope, and
\* its code through the bridges but for two classes; a client of RegisterTenant reads no
\* errors but those of the database and of its transport, whatever answers it gets and when.
THEOREM CodesAreKept == Spec => []ErrorsKeepTheirCode
<1>1. EnvelopesKeepErrors
  BY EnvelopeIsLossless DEF EnvelopesKeepErrors
<1>2. BridgesKeepCodes
  BY DbBridge, RedisBridge DEF BridgesKeepCodes
<1>3. ErrorInv => ErrorsKeepTheirCode
  BY <1>1, <1>2 DEF ErrorInv, ToldOK, Tellable, ErrorsKeepTheirCode
<1>4. Init => ErrorInv
  BY DEF Init, ErrorInv, ToldOK, Tellable
<1>. QED
  BY <1>3, <1>4, NextErrorInv, Invariance, PTL DEF Spec
-----------------------------------------------------------------------------
(***************************************************************************)
(* The configuration of the tenants (RuntimeConfig, whose state has        *)
(* nothing in common with that of Tenancy).                                *)
(***************************************************************************)
\* What settings and a row of a tenant may hold.
Setting(c) == DOMAIN c = Global /\ \A f \in Global : c[f].value \in Values \cup {0}
TenantConfig(l) ==
    /\ DOMAIN l = Fields
    /\ l["api_key"].value \in Values \cup {0}
    /\ \A f \in Fields \ {"api_key"} : l[f] = {} \/ \E v \in Values \cup {0} : l[f] = {v}

\* A call of get_config between its two reads, and after them.
HasSettings(x) ==
    /\ DOMAIN x = {"pc", "tenant", "core", "overlapped", "moved", "seen"}
    /\ x.pc = "core" /\ x.tenant \in Tenants /\ Setting(x.core) /\ DOMAIN x.seen = Fields

HasResolved(x) ==
    /\ DOMAIN x = {"pc", "tenant", "config", "overlapped", "moved", "seen"}
    /\ x.pc = "resolved" /\ x.tenant \in Tenants /\ DOMAIN x.seen = Fields

\* What is in force of field f under settings c and row l.
Says(l, f) ==
    CASE f = "api_key" -> {l[f].value} \ {0}
      [] f = "text"    -> l[f] \ {0}
      [] OTHER         -> l[f]

Gives(c, l, f) ==
    CHOOSE v \in Values \cup {0} :
        v \in (IF Says(l, f) # {} THEN Says(l, f) ELSE IF f \in Global THEN {c[f].value} ELSE {0})

\* What a call of get_config has read and not seen move, is up to date; so is all of it
\* unless an invalidation overlapped the call or is owed to its tenant.
CallInv(r) ==
    LET x == reader[r] IN
    /\ x = Idle \/ HasSettings(x) \/ HasResolved(x)
    /\ x.pc = "core" => \A f \in Fields :
         /\ Gives(core, row[x.tenant], f) \in x.seen[f]
         /\ <<"core", f>> \notin x.moved /\ f \in Global => x.core[f] = core[f]
         /\ <<"row", f>> \notin x.moved => Gives(x.core, row[x.tenant], f) \in x.seen[f]
    /\ x.pc = "resolved" => \A f \in Fields :
         x.config[f] \in x.seen[f] \/ {<<"core", f>>, <<"row", f>>} \subseteq x.moved
    /\ x # Idle /\ ~x.overlapped /\ x.tenant \notin owed =>
         /\ x.pc = "core" => x.core = core
         /\ x.pc = "resolved" => x.config = [f \in Fields |-> Gives(core, row[x.tenant], f)]

\* So is what was kept of a call that none overlapped.
CacheInv(t) ==
    cache[t] # Uncached /\ ~cache[t].overlapped /\ t \notin owed =>
        cache[t].config = [f \in Fields |-> Gives(core, row[t], f)]

\* The inductive invariant of the configuration.
ConfigIInv ==
    /\ Setting(core)
    /\ DOMAIN row = Tenants /\ \A t \in Tenants : TenantConfig(row[t])
    /\ DOMAIN cache = Tenants /\ DOMAIN reader = Readers
    /\ \A r \in Readers : CallInv(r)
    /\ \A t \in Tenants : CacheInv(t)

-----------------------------------------------------------------------------
\* "Tenant > CoreSettings": what is resolved from two levels is what they put in force.
LEMMA ResolvedIsGiven ==
    ASSUME NEW c, Setting(c), NEW l, TenantConfig(l)
    PROVE  Resolved(c, l) = [f \in Fields |-> Gives(c, l, f)]
<1>1. Gives(c, l, "own") = Or(l["own"], 0)
  <2>1. l["own"] = {} \/ \E v \in Values \cup {0} : l["own"] = {v}
    BY DEF TenantConfig, Fields
  <2>2. CASE l["own"] = {}
    BY <2>2 DEF Gives, Says, Or, Global
  <2>3. ASSUME NEW v \in Values \cup {0}, l["own"] = {v} PROVE Gives(c, l, "own") = Or(l["own"], 0)
    BY <2>3 DEF Gives, Says, Or, Global
  <2>. QED
    BY <2>1, <2>2, <2>3
<1>2. Gives(c, l, "text") = Fallback(l["text"], c["text"].value)
  <2>1. l["text"] = {} \/ \E v \in Values \cup {0} : l["text"] = {v}
    BY DEF TenantConfig, Fields
  <2>2. c["text"].value \in Values \cup {0} /\ "text" \in Global
    BY DEF Setting, Global, Fields
  <2>3. CASE l["text"] \ {0} = {}
    BY <2>2, <2>3 DEF Gives, Says, Or, Fallback
  <2>4. ASSUME NEW v \in Values \cup {0}, l["text"] \ {0} = {v}
        PROVE  Gives(c, l, "text") = Fallback(l["text"], c["text"].value)
    BY <2>4 DEF Gives, Says, Or, Fallback
  <2>5. l["text"] \ {0} = {} \/ \E v \in Values \cup {0} : l["text"] \ {0} = {v}
    BY <2>1
  <2>. QED
    BY <2>3, <2>4, <2>5
<1>3. Gives(c, l, "number") = FallbackNumber(l["number"], c["number"].value)
  <2>1. l["number"] = {} \/ \E v \in Values \cup {0} : l["number"] = {v}
    BY DEF TenantConfig, Fields
  <2>2. c["number"].value \in Values \cup {0} /\ "number" \in Global
    BY DEF Setting, Global, Fields
  <2>3. CASE l["number"] = {}
    BY <2>2, <2>3 DEF Gives, Says, Or, FallbackNumber
  <2>4. ASSUME NEW v \in Values \cup {0}, l["number"] = {v}
        PROVE  Gives(c, l, "number") = FallbackNumber(l["number"], c["number"].value)
    BY <2>4 DEF Gives, Says, Or, FallbackNumber
  <2>. QED
    BY <2>1, <2>3, <2>4
<1>4. Gives(c, l, "api_key") = ResolveApiKey(l["api_key"], c["api_key"].value)
  <2>1. l["api_key"].value \in Values \cup {0}
    BY DEF TenantConfig
  <2>2. c["api_key"].value \in Values \cup {0} /\ "api_key" \in Global
    BY DEF Setting, Global, Fields
  <2>. QED
    BY <2>1, <2>2 DEF Gives, Says, ResolveApiKey
<1>5. \A f \in Fields : Resolved(c, l)[f] = Gives(c, l, f)
  BY <1>1, <1>2, <1>3, <1>4 DEF Resolved, Fields
<1>. QED
  BY <1>5 DEF Resolved

LEMMA GivesDependsOn ==
    ASSUME NEW c, NEW d, NEW l, NEW m, NEW f \in Fields, l[f] = m[f], f \in Global => c[f] = d[f]
    PROVE  Gives(c, l, f) = Gives(d, m, f)
<1>1. Says(l, f) = Says(m, f)
  BY DEF Says
<1>2. (IF f \in Global THEN {c[f].value} ELSE {0}) = (IF f \in Global THEN {d[f].value} ELSE {0})
  OBVIOUS
<1>. QED
  BY <1>1, <1>2 DEF Gives

LEMMA InForceIsGiven ==
    \A t, f : InForce(t, f) = Gives(core, row[t], f) /\ InForce(t, f)' = Gives(core', row'[t], f)
<1>1. \A t, f : Local(t, f) = Says(row[t], f) /\ Local(t, f)' = Says(row'[t], f)
  BY DEF Local, Says
<1>. QED
  BY <1>1 DEF InForce, Gives

\* The kinds of calls.
LEMMA CallOf ==
    ASSUME ConfigIInv, NEW r \in Readers
    PROVE  /\ reader[r].pc = "core" => HasSettings(reader[r])
           /\ reader[r].pc = "resolved" => HasResolved(reader[r])
           /\ reader[r] # Idle => reader[r].tenant \in Tenants
           /\ Idle.pc \notin {"core", "resolved"}
<1>1. reader[r] = Idle \/ HasSettings(reader[r]) \/ HasResolved(reader[r])
  BY DEF ConfigIInv, CallInv
<1>. QED
  BY <1>1 DEF Idle, HasSettings, HasResolved

LEMMA InitConfig == ConfigInit => ConfigIInv
<1>. SUFFICES ASSUME ConfigInit PROVE ConfigIInv
  OBVIOUS
<1>1. \A r \in Readers : reader[r] = Idle
  BY DEF ConfigInit
<1>2. Idle.pc = "idle"
  BY DEF Idle
<1>3. \A t \in Tenants : cache[t] = Uncached
  BY DEF ConfigInit
<1>4. \A v \in Values \cup {0} : Plain(v).value = v
  BY DEF Plain
<1>5. Setting(Seeded)
  <2>1. (CHOOSE v \in Values : TRUE) \in Values
    BY ConfigAssumption
  <2>2. \A f \in Global : Seeded[f] = Plain(IF f = "api_key" THEN 0 ELSE CHOOSE v \in Values : TRUE)
    BY DEF Seeded
  <2>3. \A f \in Global : Seeded[f].value \in Values \cup {0}
    BY <1>4, <2>1, <2>2
  <2>. QED
    BY <2>3 DEF Setting, Seeded
<1>6. TenantConfig(Bare)
  <2>1. Bare["api_key"] = Plain(0) /\ \A f \in Fields \ {"api_key"} : Bare[f] = {}
    BY DEF Bare, Fields
  <2>. QED
    BY <1>4, <2>1 DEF TenantConfig, Bare
<1>7. core = Seeded /\ DOMAIN row = Tenants /\ \A t \in Tenants : row[t] = Bare
  BY DEF ConfigInit
<1>8. DOMAIN cache = Tenants /\ DOMAIN reader = Readers
  BY DEF ConfigInit
<1>. QED
  BY <1>1, <1>2, <1>3, <1>5, <1>6, <1>7, <1>8 DEF ConfigIInv, CallInv, CacheInv

\* The steps of a call of get_config.
LEMMA LoadKeeps ==
    ASSUME ConfigIInv, NEW r \in Readers, NEW t \in Tenants, LoadAllSettings(r, t)
    PROVE  ConfigIInv'
<1> DEFINE x == [pc |-> "core", tenant |-> t, core |-> core, overlapped |-> FALSE, moved |-> {},
                 seen |-> [f \in Fields |-> {InForce(t, f)}]]
<1>1. reader' = [reader EXCEPT ![r] = x] /\ UNCHANGED <<core, row, cache, owed>>
  BY DEF LoadAllSettings
<1>2. /\ DOMAIN x = {"pc", "tenant", "core", "overlapped", "moved", "seen"}
      /\ x.pc = "core" /\ x.tenant = t /\ x.core = core /\ x.moved = {} /\ x # Idle
      /\ DOMAIN x.seen = Fields /\ \A f \in Fields : x.seen[f] = {Gives(core, row[t], f)}
  BY InForceIsGiven DEF Idle
<1>. HIDE DEF x
<1>3. HasSettings(x)
  BY <1>2 DEF HasSettings, ConfigIInv
<1>4. reader'[r] = x /\ \A q \in Readers \ {r} : reader'[q] = reader[q]
  BY <1>1 DEF ConfigIInv
<1>5. CallInv(r)'
  BY <1>1, <1>2, <1>3, <1>4 DEF CallInv
<1>6. \A q \in Readers \ {r} : CallInv(q)'
  BY <1>1, <1>4 DEF ConfigIInv, CallInv
<1>7. \A u \in Tenants : CacheInv(u)'
  BY <1>1 DEF ConfigIInv, CacheInv
<1>. QED
  BY <1>1, <1>5, <1>6, <1>7 DEF ConfigIInv

LEMMA ReadRowKeeps ==
    ASSUME ConfigIInv, NEW r \in Readers, ReadRow(r)
    PROVE  ConfigIInv'
<1> DEFINE y == reader[r]
           t == y.tenant
           x == [pc |-> "resolved", tenant |-> t, config |-> Resolved(y.core, row[t]),
                 overlapped |-> y.overlapped, moved |-> y.moved, seen |-> y.seen]
<1>1. y.pc = "core" /\ UNCHANGED <<core, row, cache, owed>>
  BY DEF ReadRow
<1>2. reader' = [reader EXCEPT ![r] = x] \/ reader' = [reader EXCEPT ![r] = Idle]
  BY DEF ReadRow
<1>3. HasSettings(y) /\ CallInv(r) /\ y # Idle
  BY <1>1, CallOf DEF ConfigIInv
<1>4. Resolved(y.core, row[t]) = [f \in Fields |-> Gives(y.core, row[t], f)]
  BY <1>3, ResolvedIsGiven DEF HasSettings, ConfigIInv
<1>5. /\ DOMAIN x = {"pc", "tenant", "config", "overlapped", "moved", "seen"}
      /\ x.pc = "resolved" /\ x.tenant = t /\ x.moved = y.moved /\ x.seen = y.seen
      /\ x.overlapped = y.overlapped /\ x.config = [f \in Fields |-> Gives(y.core, row[t], f)]
  BY <1>4
<1>. HIDE DEF x
<1>6. HasResolved(x)
  BY <1>3, <1>5 DEF HasResolved, HasSettings
<1>7. ASSUME NEW f \in Fields
      PROVE  x.config[f] \in x.seen[f] \/ {<<"core", f>>, <<"row", f>>} \subseteq x.moved
  <2>1. CASE <<"row", f>> \notin y.moved
    BY <1>1, <1>3, <1>5, <2>1 DEF CallInv
  <2>2. CASE <<"core", f>> \notin y.moved
    <3>1. f \in Global => y.core[f] = core[f]
      BY <1>1, <1>3, <2>2 DEF CallInv
    <3>2. Gives(y.core, row[t], f) = Gives(core, row[t], f)
      BY <3>1, GivesDependsOn
    <3>. QED
      BY <1>1, <1>3, <1>5, <3>2 DEF CallInv
  <2>. QED
    BY <1>5, <2>1, <2>2
<1>8. ~x.overlapped /\ x.tenant \notin owed => x.config = [f \in Fields |-> Gives(core, row[t], f)]
  BY <1>1, <1>3, <1>5 DEF CallInv
<1>9. DOMAIN reader' = Readers /\ \A q \in Readers \ {r} : reader'[q] = reader[q]
  BY <1>2 DEF ConfigIInv
<1>10. reader'[r] = x \/ reader'[r] = Idle
  BY <1>2 DEF ConfigIInv
<1>11. CallInv(r)'
  <2>1. CASE reader'[r] = x
    BY <1>1, <1>5, <1>6, <1>7, <1>8, <2>1 DEF CallInv
  <2>2. CASE reader'[r] = Idle
    BY <2>2 DEF CallInv, Idle
  <2>. QED
    BY <1>10, <2>1, <2>2
<1>12. \A q \in Readers \ {r} : CallInv(q)'
  BY <1>1, <1>9 DEF ConfigIInv, CallInv
<1>13. \A u \in Tenants : CacheInv(u)'
  BY <1>1 DEF ConfigIInv, CacheInv
<1>. QED
  BY <1>1, <1>9, <1>11, <1>12, <1>13 DEF ConfigIInv

\* The insertion into the map, and a call that fails.
LEMMA CallEndKeeps ==
    ASSUME ConfigIInv, NEW r \in Readers, InsertConfig(r) \/ ResolveFails(r)
    PROVE  ConfigIInv'
<1>1. reader' = [reader EXCEPT ![r] = Idle] /\ UNCHANGED <<core, row, owed>>
  BY DEF InsertConfig, ResolveFails
<1>2. /\ DOMAIN reader' = Readers /\ reader'[r] = Idle
      /\ \A q \in Readers \ {r} : reader'[q] = reader[q]
  BY <1>1 DEF ConfigIInv
<1>3. CallInv(r)'
  BY <1>2 DEF CallInv, Idle
<1>4. \A q \in Readers \ {r} : CallInv(q)'
  BY <1>1, <1>2 DEF ConfigIInv, CallInv
<1>5. DOMAIN cache' = Tenants /\ \A u \in Tenants : CacheInv(u)'
  <2>1. CASE ResolveFails(r)
    BY <1>1, <2>1 DEF ConfigIInv, CacheInv, ResolveFails
  <2>2. CASE InsertConfig(r)
    <3> DEFINE x == reader[r]
               y == [config |-> x.config, overlapped |-> x.overlapped]
    <3>1. x.pc = "resolved" /\ cache' = [cache EXCEPT ![x.tenant] = y]
      BY <2>2 DEF InsertConfig
    <3>2. HasResolved(x) /\ CallInv(r) /\ x # Idle
      BY <3>1, CallOf DEF ConfigIInv
    <3>3. y.config = x.config /\ y.overlapped = x.overlapped
      OBVIOUS
    <3>. HIDE DEF y
    <3>4. DOMAIN cache' = Tenants /\ cache'[x.tenant] = y
          /\ \A u \in Tenants : u # x.tenant => cache'[u] = cache[u]
      BY <3>1, <3>2 DEF ConfigIInv, HasResolved
    <3>5. ASSUME NEW u \in Tenants, u = x.tenant PROVE CacheInv(u)'
      <4>1. ~x.overlapped /\ u \notin owed => x.config = [f \in Fields |-> Gives(core, row[u], f)]
        BY <3>1, <3>2, <3>5 DEF CallInv
      <4>2. cache'[u] = y /\ UNCHANGED <<core, row, owed>>
        BY <1>1, <3>4, <3>5
      <4>. QED
        BY <3>3, <4>1, <4>2 DEF CacheInv
    <3>6. ASSUME NEW u \in Tenants, u # x.tenant PROVE CacheInv(u)'
      BY <1>1, <3>4, <3>6 DEF ConfigIInv, CacheInv
    <3>. QED
      BY <3>4, <3>5, <3>6
  <2>. QED
    BY <2>1, <2>2
<1>. QED
  BY <1>1, <1>2, <1>3, <1>4, <1>5 DEF ConfigIInv

\* An invalidation marks the calls it overlaps.
LEMMA InvalidationKeeps ==
    ASSUME ConfigIInv, (\E t \in Tenants : Invalidate(t)) \/ InvalidateAll
    PROVE  ConfigIInv'
<1>1. PICK ts \in SUBSET Tenants :
        /\ cache' = [t \in Tenants |-> IF t \in ts THEN Uncached ELSE cache[t]]
        /\ \A t \in Tenants \ ts : t \in owed' <=> t \in owed
        /\ reader' = Overlap(ts) /\ UNCHANGED <<core, row>>
  <2>1. ASSUME NEW t \in Tenants, Invalidate(t)
        PROVE  /\ cache' = [u \in Tenants |-> IF u \in {t} THEN Uncached ELSE cache[u]]
               /\ \A u \in Tenants \ {t} : u \in owed' <=> u \in owed
               /\ reader' = Overlap({t}) /\ UNCHANGED <<core, row>>
    BY <2>1 DEF Invalidate, ConfigIInv
  <2>2. ASSUME InvalidateAll
        PROVE  /\ cache' = [u \in Tenants |-> IF u \in Tenants THEN Uncached ELSE cache[u]]
               /\ \A u \in Tenants \ Tenants : u \in owed' <=> u \in owed
               /\ reader' = Overlap(Tenants) /\ UNCHANGED <<core, row>>
    BY <2>2 DEF InvalidateAll
  <2>3. CASE \E t \in Tenants : Invalidate(t)
    <3>1. PICK t \in Tenants : Invalidate(t)
      BY <2>3
    <3>. QED
      BY <2>1, <3>1
  <2>4. CASE InvalidateAll
    BY <2>2, <2>4
  <2>. QED
    BY <2>3, <2>4
<1>2. ASSUME NEW r \in Readers PROVE CallInv(r)'
  <2> DEFINE x == reader[r]
             y == [x EXCEPT !.overlapped = TRUE]
  <2>1. CallInv(r)
    BY DEF ConfigIInv
  <2>2. CASE x # Idle /\ x.tenant \in ts
    <3>1. reader'[r] = y
      BY <1>1, <2>2 DEF Overlap
    <3>2. HasSettings(x) \/ HasResolved(x)
      BY <2>1, <2>2 DEF CallInv
    <3>3. /\ DOMAIN y = DOMAIN x /\ y.overlapped = TRUE /\ y.pc = x.pc /\ y.tenant = x.tenant
          /\ y.moved = x.moved /\ y.seen = x.seen
          /\ y.pc = "core" => y.core = x.core
          /\ y.pc = "resolved" => y.config = x.config
      BY <3>2 DEF HasSettings, HasResolved
    <3>. HIDE DEF y
    <3>4. HasSettings(y) \/ HasResolved(y)
      BY <3>2, <3>3 DEF HasSettings, HasResolved
    <3>5. y.pc = "core" => \A f \in Fields :
            /\ Gives(core', row'[y.tenant], f) \in y.seen[f]
            /\ <<"core", f>> \notin y.moved /\ f \in Global => y.core[f] = core'[f]
            /\ <<"row", f>> \notin y.moved => Gives(y.core, row'[y.tenant], f) \in y.seen[f]
      BY <1>1, <2>1, <3>3 DEF CallInv
    <3>6. y.pc = "resolved" => \A f \in Fields :
            y.config[f] \in y.seen[f] \/ {<<"core", f>>, <<"row", f>>} \subseteq y.moved
      BY <2>1, <3>3 DEF CallInv
    <3>. QED
      BY <3>1, <3>3, <3>4, <3>5, <3>6 DEF CallInv
  <2>3. CASE ~(x # Idle /\ x.tenant \in ts)
    <3>1. reader'[r] = reader[r]
      BY <1>1, <2>3 DEF Overlap
    <3>2. x # Idle => x.tenant \in Tenants \ ts
      BY <2>3, CallOf
    <3>3. x # Idle => (x.tenant \in owed' <=> x.tenant \in owed)
      BY <1>1, <3>2
    <3>. QED
      BY <1>1, <2>1, <3>1, <3>3 DEF CallInv
  <2>. QED
    BY <2>2, <2>3
<1>3. ASSUME NEW t \in Tenants PROVE CacheInv(t)'
  <2>1. CASE t \in ts
    BY <1>1, <2>1 DEF CacheInv
  <2>2. CASE t \notin ts
    BY <1>1, <2>2 DEF ConfigIInv, CacheInv
  <2>. QED
    BY <2>1, <2>2
<1>. QED
  BY <1>1, <1>2, <1>3 DEF ConfigIInv, Overlap

\* A write of field f at one level, for the tenants ts: the calls under way for them
\* have seen what is in force now, and that the level moved.
LEMMA WriteKeeps ==
    ASSUME ConfigIInv, NEW ts \in SUBSET Tenants, NEW f \in Fields, NEW level \in {"core", "row"},
           Setting(core'), DOMAIN row' = Tenants, \A t \in Tenants : TenantConfig(row'[t]),
           level = "core" => ts = Tenants /\ row' = row,
           level = "row" => core' = core /\ \A t \in Tenants \ ts : row'[t] = row[t],
           \A g \in Fields \ {f} : g \in Global => core'[g] = core[g],
           \A t \in Tenants : \A g \in Fields \ {f} : row'[t][g] = row[t][g],
           Written(ts), Witness(ts, level, f)
    PROVE  ConfigIInv'
<1>1. owed' = owed \cup ts /\ cache' = cache
  BY DEF Written
<1>2. ASSUME NEW t \in Tenants \ ts, NEW g \in Fields PROVE Gives(core', row'[t], g) = Gives(core, row[t], g)
  BY GivesDependsOn
<1>3. ASSUME NEW t \in Tenants, NEW g \in Fields \ {f} PROVE Gives(core', row'[t], g) = Gives(core, row[t], g)
  BY GivesDependsOn
<1>4. ASSUME NEW r \in Readers PROVE CallInv(r)'
  <2> DEFINE x == reader[r]
             v == Gives(core', row'[x.tenant], f)
             y == [x EXCEPT !.moved = @ \cup {<<level, f>>}, !.seen[f] = @ \cup {v}]
  <2>1. CallInv(r)
    BY DEF ConfigIInv
  <2>2. CASE x # Idle /\ x.tenant \in ts
    <3>1. reader'[r] = y
      BY <2>2, InForceIsGiven DEF Witness
    <3>2. HasSettings(x) \/ HasResolved(x)
      BY <2>1, <2>2 DEF CallInv
    <3>3. /\ DOMAIN y = DOMAIN x /\ y.overlapped = x.overlapped /\ y.pc = x.pc /\ y.tenant = x.tenant
          /\ y.moved = x.moved \cup {<<level, f>>}
          /\ y.seen = [x.seen EXCEPT ![f] = @ \cup {v}]
          /\ y.pc = "core" => y.core = x.core
          /\ y.pc = "resolved" => y.config = x.config
      BY <3>2 DEF HasSettings, HasResolved
    <3>4. /\ DOMAIN y.seen = Fields /\ y.seen[f] = x.seen[f] \cup {v}
          /\ \A g \in Fields : g # f => y.seen[g] = x.seen[g]
      BY <3>2, <3>3 DEF HasSettings, HasResolved
    <3>. HIDE DEF y
    <3>5. HasSettings(y) \/ HasResolved(y)
      BY <3>2, <3>3, <3>4 DEF HasSettings, HasResolved
    <3>6. ASSUME y.pc = "core", NEW g \in Fields
          PROVE  /\ Gives(core', row'[y.tenant], g) \in y.seen[g]
                 /\ <<"core", g>> \notin y.moved /\ g \in Global => y.core[g] = core'[g]
                 /\ <<"row", g>> \notin y.moved => Gives(y.core, row'[y.tenant], g) \in y.seen[g]
      <4>1. x.pc = "core" /\ x.tenant \in Tenants
        BY <2>2, <3>3, <3>6, CallOf
      <4>2. /\ Gives(core, row[x.tenant], g) \in x.seen[g]
            /\ <<"core", g>> \notin x.moved /\ g \in Global => x.core[g] = core[g]
            /\ <<"row", g>> \notin x.moved => Gives(x.core, row[x.tenant], g) \in x.seen[g]
        BY <2>1, <4>1 DEF CallInv
      <4>3. Gives(core', row'[y.tenant], g) \in y.seen[g]
        <5>1. CASE g = f
          BY <3>3, <3>4, <5>1
        <5>2. CASE g # f
          BY <1>3, <3>3, <3>4, <4>1, <4>2, <5>2
        <5>. QED
          BY <5>1, <5>2
      <4>4. <<"core", g>> \notin y.moved /\ g \in Global => y.core[g] = core'[g]
        <5>1. SUFFICES ASSUME <<"core", g>> \notin y.moved, g \in Global PROVE y.core[g] = core'[g]
          OBVIOUS
        <5>2. <<"core", g>> \notin x.moved /\ ~(level = "core" /\ g = f)
          BY <3>3, <5>1
        <5>3. core'[g] = core[g]
          BY <5>1, <5>2
        <5>. QED
          BY <3>3, <3>6, <4>2, <5>1, <5>2, <5>3
      <4>5. <<"row", g>> \notin y.moved => Gives(y.core, row'[y.tenant], g) \in y.seen[g]
        <5>1. SUFFICES ASSUME <<"row", g>> \notin y.moved
                       PROVE  Gives(y.core, row'[y.tenant], g) \in y.seen[g]
          OBVIOUS
        <5>2. <<"row", g>> \notin x.moved /\ ~(level = "row" /\ g = f)
          BY <3>3, <5>1
        <5>3. row'[x.tenant][g] = row[x.tenant][g]
          BY <4>1, <5>2
        <5>4. Gives(x.core, row'[x.tenant], g) = Gives(x.core, row[x.tenant], g)
          BY <5>3, GivesDependsOn
        <5>5. x.seen[g] \subseteq y.seen[g]
          BY <3>4
        <5>. QED
          BY <3>3, <3>6, <4>2, <5>2, <5>4, <5>5
      <4>. QED
        BY <4>3, <4>4, <4>5
    <3>7. ASSUME y.pc = "resolved", NEW g \in Fields
          PROVE  y.config[g] \in y.seen[g] \/ {<<"core", g>>, <<"row", g>>} \subseteq y.moved
      <4>1. x.config[g] \in x.seen[g] \/ {<<"core", g>>, <<"row", g>>} \subseteq x.moved
        BY <2>1, <3>3, <3>7 DEF CallInv
      <4>2. x.seen[g] \subseteq y.seen[g] /\ x.moved \subseteq y.moved
        BY <3>3, <3>4
      <4>. QED
        BY <3>3, <3>7, <4>1, <4>2
    <3>8. y.tenant \in owed'
      BY <1>1, <2>2, <3>3
    <3>. QED
      BY <3>1, <3>5, <3>6, <3>7, <3>8 DEF CallInv
  <2>3. CASE x = Idle
    <3>1. reader'[r] = Idle
      BY <2>3 DEF Witness
    <3>. QED
      BY <3>1 DEF CallInv, Idle
  <2>4. CASE x # Idle /\ x.tenant \notin ts
    <3>1. reader'[r] = x
      BY <2>4 DEF Witness
    <3>2. x.tenant \in Tenants \ ts
      BY <2>4, CallOf
    <3>3. core' = core /\ row'[x.tenant] = row[x.tenant]
      BY <3>2
    <3>4. x.tenant \in owed' <=> x.tenant \in owed
      BY <1>1, <3>2
    <3>. QED
      BY <2>1, <3>1, <3>3, <3>4 DEF CallInv
  <2>. QED
    BY <2>2, <2>3, <2>4
<1>5. ASSUME NEW t \in Tenants PROVE CacheInv(t)'
  <2>1. CASE t \in ts
    BY <1>1, <2>1 DEF CacheInv
  <2>2. CASE t \notin ts
    BY <1>1, <1>2, <2>2 DEF ConfigIInv, CacheInv
  <2>. QED
    BY <2>1, <2>2
<1>6. DOMAIN cache' = Tenants /\ DOMAIN reader' = Readers
  BY <1>1 DEF ConfigIInv, Witness
<1>. QED
  BY <1>4, <1>5, <1>6 DEF ConfigIInv

\* upsert_setting and the writes of the administration.
LEMMA WritersKeep ==
    ASSUME ConfigIInv,
           \/ \E f \in Global, v \in Values \cup {0} : UpsertSetting(f, v)
           \/ \E t \in Tenants, f \in Fields, v \in {{}} \cup {{x} : x \in Values \cup {0}} : WriteRow(t, f, v)
    PROVE  ConfigIInv'
<1>1. ASSUME NEW f \in Global, NEW v \in Values \cup {0}, UpsertSetting(f, v) PROVE ConfigIInv'
  <2>1. PICK s : core' = [core EXCEPT ![f] = s] /\ s.value = v
    <3>1. Plain(v).value = v /\ [Plain(v) EXCEPT !.encrypted = TRUE].value = v /\ Encrypt(v).value = v
      BY DEF Plain, Encrypt
    <3>. QED
      BY <1>1, <3>1 DEF UpsertSetting
  <2>2. Setting(core)
    BY DEF ConfigIInv
  <2>3. DOMAIN core' = Global /\ core'[f] = s /\ \A g \in Global \ {f} : core'[g] = core[g]
    BY <2>1, <2>2 DEF Setting
  <2>4. Setting(core')
    BY <2>1, <2>2, <2>3 DEF Setting
  <2>5. row' = row /\ Written(Tenants) /\ Witness(Tenants, "core", f)
    BY <1>1 DEF UpsertSetting
  <2>6. f \in Fields
    BY DEF Global
  <2>7. DOMAIN row' = Tenants /\ \A t \in Tenants : TenantConfig(row'[t])
    BY <2>5 DEF ConfigIInv
  <2>. QED
    BY <2>3, <2>4, <2>5, <2>6, <2>7, WriteKeeps
<1>2. ASSUME NEW t \in Tenants, NEW f \in Fields, NEW v \in {{}} \cup {{x} : x \in Values \cup {0}},
             WriteRow(t, f, v)
      PROVE  ConfigIInv'
  <2>1. PICK s : /\ row' = [row EXCEPT ![t][f] = s]
                 /\ f = "api_key" => s.value \in Values \cup {0}
                 /\ f # "api_key" => s = {} \/ \E x \in Values \cup {0} : s = {x}
    <3>1. CASE f # "api_key"
      BY <1>2, <3>1 DEF WriteRow
    <3>2. CASE f = "api_key" /\ v = {}
      <4>1. Plain(0).value = 0 /\ row' = [row EXCEPT ![t][f] = Plain(0)]
        BY <1>2, <3>2 DEF WriteRow, Plain
      <4>. QED
        BY <3>2, <4>1
    <3>3. CASE f = "api_key" /\ v # {}
      <4>1. row' = [row EXCEPT ![t][f] = Encrypt(CHOOSE x \in v : TRUE)]
        BY <1>2, <3>3 DEF WriteRow
      <4>2. PICK z \in Values \cup {0} : v = {z}
        BY <3>3
      <4>3. Encrypt(CHOOSE x \in v : TRUE).value = z
        BY <4>2 DEF Encrypt
      <4>. QED
        BY <3>3, <4>1, <4>3
    <3>. QED
      BY <3>1, <3>2, <3>3
  <2>2. DOMAIN row = Tenants /\ Setting(core) /\ \A u \in Tenants : TenantConfig(row[u])
    BY DEF ConfigIInv
  <2>3. /\ DOMAIN row' = Tenants /\ DOMAIN row'[t] = Fields /\ row'[t][f] = s
        /\ \A u \in Tenants \ {t} : row'[u] = row[u]
        /\ \A g \in Fields \ {f} : row'[t][g] = row[t][g]
    BY <2>1, <2>2 DEF TenantConfig
  <2>4. "api_key" \in Fields
    BY DEF Fields
  <2>5. TenantConfig(row'[t])
    BY <2>1, <2>2, <2>3, <2>4 DEF TenantConfig
  <2>6. \A u \in Tenants : TenantConfig(row'[u])
    BY <2>2, <2>3, <2>5
  <2>7. core' = core /\ Written({t}) /\ Witness({t}, "row", f)
    BY <1>2 DEF WriteRow
  <2>8. \A u \in Tenants : \A g \in Fields \ {f} : row'[u][g] = row[u][g]
    BY <2>3
  <2>9. {t} \in SUBSET Tenants /\ Setting(core') /\ \A u \in Tenants \ {t} : row'[u] = row[u]
    BY <2>2, <2>3, <2>7
  <2>. QED
    BY <2>3, <2>6, <2>7, <2>8, <2>9, WriteKeeps
<1>. QED
  BY <1>1, <1>2

\* The cache and the calls are in memory.
LEMMA RestartKeeps ==
    ASSUME ConfigIInv, Restart
    PROVE  ConfigIInv'
<1>1. /\ \A r \in Readers : reader'[r] = Idle
      /\ \A t \in Tenants : cache'[t] = Uncached
      /\ DOMAIN cache' = Tenants /\ DOMAIN reader' = Readers /\ UNCHANGED <<core, row>>
  BY DEF Restart
<1>2. Idle.pc = "idle"
  BY DEF Idle
<1>3. \A r \in Readers : CallInv(r)'
  BY <1>1, <1>2 DEF CallInv
<1>4. \A t \in Tenants : CacheInv(t)'
  BY <1>1 DEF CacheInv
<1>. QED
  BY <1>1, <1>3, <1>4 DEF ConfigIInv

\* The invariant of the configuration is inductive.
LEMMA NextConfig == ConfigIInv /\ [ConfigNext]_configVars => ConfigIInv'
<1>. SUFFICES ASSUME ConfigIInv, [ConfigNext]_configVars PROVE ConfigIInv'
  OBVIOUS
<1>1. CASE UNCHANGED configVars
  BY <1>1 DEF configVars, ConfigIInv, CallInv, CacheInv
<1>2. CASE \E r \in Readers, t \in Tenants : LoadAllSettings(r, t)
  BY <1>2, LoadKeeps
<1>3. CASE \E r \in Readers : ReadRow(r)
  BY <1>3, ReadRowKeeps
<1>4. CASE \E r \in Readers : InsertConfig(r) \/ ResolveFails(r)
  BY <1>4, CallEndKeeps
<1>5. CASE (\E t \in Tenants : Invalidate(t)) \/ InvalidateAll
  BY <1>5, InvalidationKeeps
<1>6. CASE \/ \E f \in Global, v \in Values \cup {0} : UpsertSetting(f, v)
           \/ \E t \in Tenants, f \in Fields, v \in {{}} \cup {{x} : x \in Values \cup {0}} : WriteRow(t, f, v)
  BY <1>6, WritersKeep
<1>7. CASE Restart
  BY <1>7, RestartKeeps
<1>. QED
  BY <1>1, <1>2, <1>3, <1>4, <1>5, <1>6, <1>7 DEF ConfigNext

\* Every field of a resolved configuration was in force at some moment since the first of
\* the two reads of resolve_runtime_config, unless both its levels moved in between: a
\* write at one level alone never yields a value that nobody had set.
THEOREM ResolutionsWereInForce == ConfigSpec => []ResolvedWasInForce
<1>1. ConfigIInv => ResolvedWasInForce
  BY DEF ConfigIInv, CallInv, ResolvedWasInForce
<1>. QED
  BY <1>1, InitConfig, NextConfig, PTL DEF ConfigSpec

\* With no write waiting for its invalidation, TenantConfigCache holds what is in force for
\* the tenant, except what get_config was still resolving while an invalidation ran.
THEOREM CachesAreInForce == ConfigSpec => []CachedIsInForce
<1>1. ConfigIInv => CachedIsInForce
  BY InForceIsGiven DEF ConfigIInv, CacheInv, CachedIsInForce
<1>. QED
  BY <1>1, InitConfig, NextConfig, PTL DEF ConfigSpec
=============================================================================
