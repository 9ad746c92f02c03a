----------------------------- MODULE Attendance -----------------------------
(***************************************************************************)
(* The repositories of the attendance domain, called inside transactions   *)
(* of one tenant (run_in_tenant_transaction): attendances (atendimentos),  *)
(* their messages and movements, the contacts, and the attendants with the *)
(* round-robin choice.  Each call is one SQL statement under READ COMMITTED: it reads  *)
(* what is committed and its own transaction's work, and an UPDATE waits   *)
(* for the locks of the rows it writes.  A transaction is any sequence of  *)
(* calls: the repositories demand no order.                                 *)
(*                                                                         *)
(* Left out: texts, stages and departments as data (nothing here decides   *)
(* on them), permissions, and what no repository writes (ativo, feedback). *)
(***************************************************************************)
EXTENDS Integers, FiniteSets, FiniteSetsExt

CONSTANTS
    Sessions,    \* connections of the pool, one transaction each at a time
    Cards,       \* ids of attendances, numbers
    Agents,      \* ids of attendants
    Moves,       \* ids of movements, numbers
    Messages,    \* ids of messages, numbers
    Contacts,    \* telephone numbers of contacts
    Names,       \* names of contacts
    None,        \* NULL; and the content of an id that is not used yet
    Statuses,    \* values of novo_status, some of Active and Closed among them
    OldCards,    \* attendances left by earlier transactions
    OldAgents,   \* attendants left by earlier transactions
    Busy,        \* the old attendances taken over, with their attendants
    Simultaneos,         \* max_atendimentos_simultaneos
    Second,      \* ticks of the clock in a second
    MaxTime,     \* start of the last transaction, in ticks; each begins at a tick of its own
    MaxWrites    \* statements that write

Active == {"fila", "em_atendimento", "pendencia"}
Closed == {"resolvido", "cancelado", "arquivado"}

ASSUME AttendanceAssumption ==
    /\ Cards \cup Moves \cup Messages \subseteq Nat
    /\ Statuses \subseteq Active \cup Closed
    /\ None \notin Nat \cup Agents \cup Names
    /\ IsFiniteSet(Sessions) /\ Sessions # {}
    /\ OldCards \subseteq Cards /\ OldAgents \subseteq Agents
    /\ DOMAIN Busy \subseteq OldCards /\ \A c \in DOMAIN Busy : Busy[c] \in OldAgents
    /\ Simultaneos \in Nat \ {0} /\ Second \in Nat \ {0} /\ MaxTime \in Nat /\ MaxWrites \in Nat

Limit == Simultaneos * Cardinality(Sessions)

\* What earlier transactions left is what these may leave.
ASSUME BusyAssumption ==
    \A a \in OldAgents : LET taken == {c \in DOMAIN Busy : Busy[c] = a}
                         IN  IsFiniteSet(taken) /\ Cardinality(taken) <= Limit

Card(c)  == <<"atendimento", c>>
Agent(a) == <<"atendente", a>>
Move(m)  == <<"movimento", m>>
Msg(m)   == <<"mensagem", m>>
Contact(p) == <<"contato", p>>

Rows == {Card(c) : c \in Cards} \cup {Agent(a) : a \in Agents}
        \cup {Move(m) : m \in Moves} \cup {Msg(m) : m \in Messages} \cup {Contact(p) : p \in Contacts}

VARIABLES
    db,       \* the committed rows
    work,     \* work[s]: the rows written by the transaction of s, which it locks
    tx,       \* tx[s]: NOW() of the transaction of s (its start), 0 without one
    choice,   \* choice[s]: attendant chosen by the transaction and not yet used
    writes,   \* writing statements so far
    clock,    \* start of the last transaction
    since,    \* history, since[m]: the clock when movement m was committed
    overlap,  \* history: two transactions have been open at once
    manual    \* history: an attendance became active for somebody not chosen

vars == <<db, work, tx, choice, writes, clock, since, overlap, manual>>

Times == 0 .. MaxTime

\* struct Atendimento; the other rows are AtendenteRow, MovimentoRow, MensagemRow, ContatoRow.
AtendimentoRow ==
    [status : Active \cup Closed, inicio : Times, fim : Times \cup {None},
     atendente : Agents \cup {None}, bot : BOOLEAN]
AtendenteRow == [disponivel : BOOLEAN, ultima : Times \cup {None}]
MovimentoRow == [card : Cards, at : Times, duracao : (-MaxTime .. MaxTime) \cup {None}]
MensagemRow  == [card : Cards, lido : BOOLEAN, respondida : BOOLEAN]
ContatoRow   == [nome : Names \cup {None}, ultima : Times]

RowOf(r) ==
    CASE r[1] = "atendimento" -> AtendimentoRow
      [] r[1] = "atendente"   -> AtendenteRow
      [] r[1] = "movimento"   -> MovimentoRow
      [] r[1] = "mensagem"    -> MensagemRow
      [] r[1] = "contato"     -> ContatoRow

\* No row is NULL.
ASSUME RowAssumption == \A r \in Rows : None \notin RowOf(r)

AttendanceTypeOK ==
    /\ \A r \in Rows : db[r] \in RowOf(r) \cup {None}
    /\ \A s \in Sessions :
        /\ DOMAIN work[s] \subseteq Rows
        /\ \A r \in DOMAIN work[s] : work[s][r] \in RowOf(r)
        /\ tx[s] = 0 => work[s] = <<>> /\ choice[s] = None
    /\ \A s, t \in Sessions : s # t => DOMAIN work[s] \cap DOMAIN work[t] = {}
    /\ tx \in [Sessions -> Times]
    /\ choice \in [Sessions -> Agents \cup {None}]
    /\ since \in [Moves -> Times]

New(t)  == [status |-> "fila", inicio |-> t, fim |-> None, atendente |-> None, bot |-> TRUE]
Hire    == [disponivel |-> TRUE, ultima |-> None]

\* An attendance taken over by an earlier transaction.
Taken(a) == [New(0) EXCEPT !.status = "em_atendimento", !.bot = FALSE, !.atendente = a]

OldRow(r) ==
    CASE r \in {Card(c) : c \in DOMAIN Busy} -> Taken(Busy[r[2]])
      [] r \in {Card(c) : c \in OldCards \ DOMAIN Busy} -> New(0)
      [] r \in {Agent(a) : a \in OldAgents} -> Hire
      [] OTHER -> None

Init ==
    /\ db = [r \in Rows |-> OldRow(r)]
    /\ work = [s \in Sessions |-> <<>>]
    /\ tx = [s \in Sessions |-> 0]
    /\ choice = [s \in Sessions |-> None]
    /\ writes = 0 /\ clock = 0
    /\ since = [m \in Moves |-> 0]
    /\ overlap = FALSE /\ manual = FALSE

-----------------------------------------------------------------------------
(***************************************************************************)
(* Transactions and statements                                             *)
(***************************************************************************)
\* What a statement of s reads in row r.
View(s, r) == IF r \in DOMAIN work[s] THEN work[s][r] ELSE db[r]

Exists(s, r) == View(s, r) # None
Locked(s, r) == \E t \in Sessions \ {s} : r \in DOMAIN work[t]

\* The rows of w, with those of W in place of them.
Over(W, w) == [r \in DOMAIN W \cup DOMAIN w |-> IF r \in DOMAIN W THEN W[r] ELSE w[r]]

\* The one row r.
Only(r, row) == [q \in {r} |-> row]

\* A statement of s that writes the rows of W.
Statement(s, W) ==
    /\ tx[s] # 0
    /\ writes < MaxWrites
    /\ writes' = writes + 1
    /\ \A r \in DOMAIN W : ~Locked(s, r)
    /\ work' = [work EXCEPT ![s] = Over(W, @)]
    /\ UNCHANGED <<db, tx, clock, since, overlap>>

\* INSERT under the lowest id of a sequence not yet given out.
Insert(s, r, others, row) ==
    /\ \A q \in others : q[2] < r[2] <=> db[q] # None \/ \E t \in Sessions : q \in DOMAIN work[t]
    /\ Statement(s, Only(r, row))

Update(s, r, row) == Exists(s, r) /\ Statement(s, Only(r, row))

\* BEGIN and app.current_tenant.
BeginTx(s) ==
    /\ tx[s] = 0
    /\ \E now \in clock + 1 .. MaxTime :
        /\ clock' = now
        /\ tx' = [tx EXCEPT ![s] = now]
    /\ overlap' = (overlap \/ \E t \in Sessions : tx[t] # 0)
    /\ UNCHANGED <<db, work, choice, writes, since, manual>>

EndTx(s) ==
    /\ tx[s] # 0
    /\ tx' = [tx EXCEPT ![s] = 0]
    /\ work' = [work EXCEPT ![s] = <<>>]
    /\ choice' = [choice EXCEPT ![s] = None]
    /\ UNCHANGED <<writes, clock, overlap, manual>>

CommitTx(s) ==
    /\ EndTx(s)
    /\ db' = [r \in Rows |-> View(s, r)]
    /\ since' = [m \in Moves |-> IF Move(m) \in DOMAIN work[s] THEN clock ELSE since[m]]

\* A plausible slip: the transaction goes back to the pool without its rollback.
RollbackTxLeaks(s) ==
    /\ tx[s] # 0
    /\ tx' = [tx EXCEPT ![s] = 0]
    /\ UNCHANGED <<db, work, choice, writes, clock, since, overlap, manual>>

\* The callback fails, or Postgres breaks a deadlock: the transaction is dropped.
RollbackTx(s) == EndTx(s) /\ UNCHANGED <<db, since>>

-----------------------------------------------------------------------------
(***************************************************************************)
(* atendimentos.rs                                                         *)
(***************************************************************************)
Criar(s, c) ==
    /\ Insert(s, Card(c), {Card(d) : d \in Cards}, New(tx[s]))
    /\ UNCHANGED <<choice, manual>>

\* A plausible slip: the end is set for resolved attendances only.
AtualizarStatusResolvido(s, c, status) ==
    LET old == View(s, Card(c))
    IN  /\ Update(s, Card(c), [old EXCEPT !.status = status,
                                          !.fim = IF status = "resolvido" THEN tx[s] ELSE @])
        /\ manual' = (manual \/ (status \in Active /\ old.status \in Closed /\ old.atendente # None))
        /\ UNCHANGED choice

AtualizarStatus(s, c, status) ==
    LET old == View(s, Card(c))
    IN  /\ Update(s, Card(c), [old EXCEPT !.status = status,
                                          !.fim = IF status \in Closed THEN tx[s] ELSE @])
        /\ manual' = (manual \/ (status \in Active /\ old.status \in Closed /\ old.atendente # None))
        /\ UNCHANGED choice

\* A plausible slip: COALESCE forgotten.
AtualizarEtapaOverwrites(s, c, a) ==
    /\ Update(s, Card(c), [View(s, Card(c)) EXCEPT !.atendente = a])
    /\ manual' = (manual \/ a # None)
    /\ UNCHANGED choice

\* The stage is data; the attendant, when one is given, is not.
AtualizarEtapa(s, c, a) ==
    /\ Update(s, Card(c), [View(s, Card(c)) EXCEPT !.atendente = IF a = None THEN @ ELSE a])
    /\ manual' = (manual \/ a # None)
    /\ UNCHANGED choice

\* Whoever holds it, and whatever its status.
AssumirAtendimento(s, c, a) ==
    /\ Update(s, Card(c), [View(s, Card(c)) EXCEPT !.atendente = a, !.bot = FALSE,
                                                   !.status = "em_atendimento"])
    /\ manual' = (manual \/ choice[s] # a)
    /\ choice' = [choice EXCEPT ![s] = None]

\* Only the lock matters: nothing reads data_ultima_mensagem.
TouchLastMessage(s, c) ==
    /\ Update(s, Card(c), View(s, Card(c)))
    /\ UNCHANGED <<choice, manual>>

-----------------------------------------------------------------------------
(***************************************************************************)
(* atendentes.rs                                                           *)
(***************************************************************************)
\* UNIQUE (tenant_id, email): a second row for a waits for the first, and fails.
CriarAtendente(s, a) ==
    /\ ~Exists(s, Agent(a))
    /\ Statement(s, Only(Agent(a), Hire))
    /\ UNCHANGED <<choice, manual>>

\* Active attendances of a, as a statement of s counts them.
Load(s, a) ==
    Cardinality({c \in Cards : /\ Exists(s, Card(c))
                               /\ View(s, Card(c)).atendente = a
                               /\ View(s, Card(c)).status \in Active})

\* A plausible slip: the limit itself still counts as room.
EligibleAtLimit(s, a) ==
    Exists(s, Agent(a)) /\ View(s, Agent(a)).disponivel /\ Load(s, a) <= Simultaneos

Eligible(s, a) ==
    Exists(s, Agent(a)) /\ View(s, Agent(a)).disponivel /\ Load(s, a) < Simultaneos

\* ORDER BY data_ultima_atribuicao ASC NULLS FIRST LIMIT 1; no lock is taken.
BuscarDisponivelRoundRobin(s, a) ==
    LET turn(b) == IF View(s, Agent(b)).ultima = None THEN -1 ELSE View(s, Agent(b)).ultima
    IN  /\ Eligible(s, a)
        /\ \A b \in Agents : Eligible(s, b) => turn(a) <= turn(b)
        /\ tx[s] # 0
        /\ choice' = [choice EXCEPT ![s] = a]
        /\ UNCHANGED <<db, work, tx, writes, clock, since, overlap, manual>>

AtualizarUltimaAtribuicao(s, a) ==
    /\ Update(s, Agent(a), [View(s, Agent(a)) EXCEPT !.ultima = tx[s]])
    /\ UNCHANGED <<choice, manual>>

AtualizarDisponibilidade(s, a, disponivel) ==
    /\ Update(s, Agent(a), [View(s, Agent(a)) EXCEPT !.disponivel = disponivel])
    /\ UNCHANGED <<choice, manual>>

-----------------------------------------------------------------------------
(***************************************************************************)
(* movimentos.rs                                                           *)
(***************************************************************************)
\* listar_por_atendimento: the movements of c a statement of s sees.
MovesOf(s, c) == {m \in Moves : Exists(s, Move(m)) /\ View(s, Move(m)).card = c}

\* EXTRACT(EPOCH FROM ticks)::int: the nearest whole second, half a second away from zero.
InSeconds(ticks) ==
    IF ticks >= 0 THEN (2 * ticks + Second) \div (2 * Second)
                  ELSE -((Second - 2 * ticks) \div (2 * Second))

\* A plausible slip: ORDER BY data_movimento ASC.
DuracaoFromFirst(s, c) ==
    LET times == {View(s, Move(m)).at : m \in MovesOf(s, c)}
    IN  IF times = {} THEN None ELSE InSeconds(tx[s] - Min(times))

\* NOW() minus the latest movement of the attendance, NULL when there is none.
Duracao(s, c) ==
    LET times == {View(s, Move(m)).at : m \in MovesOf(s, c)}
    IN  IF times = {} THEN None ELSE InSeconds(tx[s] - Max(times))

\* With an origin the movement gets a duration.
CriarMovimento(s, m, c, origem) ==
    /\ Exists(s, Card(c))
    /\ Insert(s, Move(m), {Move(n) : n \in Moves},
              [card |-> c, at |-> tx[s], duracao |-> IF origem THEN Duracao(s, c) ELSE None])
    /\ UNCHANGED <<choice, manual>>

-----------------------------------------------------------------------------
(***************************************************************************)
(* mensagens.rs                                                            *)
(***************************************************************************)
CriarMensagem(s, m, c) ==
    /\ Exists(s, Card(c))
    /\ Insert(s, Msg(m), {Msg(n) : n \in Messages},
              [card |-> c, lido |-> FALSE, respondida |-> FALSE])
    /\ UNCHANGED <<choice, manual>>

RegistrarRespostaBot(s, m) ==
    /\ Update(s, Msg(m), [View(s, Msg(m)) EXCEPT !.respondida = TRUE])
    /\ UNCHANGED <<choice, manual>>

\* Every unread message of the attendance the statement sees, shown or not.
MarcarComoLida(s, c) ==
    LET unread == {m \in Messages : /\ Exists(s, Msg(m))
                                    /\ View(s, Msg(m)).card = c
                                    /\ ~View(s, Msg(m)).lido}
    IN  /\ Statement(s, [r \in {Msg(m) : m \in unread} |-> [View(s, r) EXCEPT !.lido = TRUE]])
        /\ UNCHANGED <<choice, manual>>

-----------------------------------------------------------------------------
(***************************************************************************)
(* contatos.rs                                                             *)
(***************************************************************************)
\* UNIQUE (tenant_id, telefone), ON CONFLICT DO UPDATE: a contact that is there
\* keeps its name when the message brings none.
SalvarContato(s, p, nome) ==
    LET known == IF Exists(s, Contact(p)) THEN View(s, Contact(p)).nome ELSE None
    IN  /\ Statement(s, Only(Contact(p), [nome |-> IF nome = None THEN known ELSE nome, ultima |-> tx[s]]))
        /\ UNCHANGED <<choice, manual>>

AtualizarUltimaInteracao(s, p) ==
    /\ Update(s, Contact(p), [View(s, Contact(p)) EXCEPT !.ultima = tx[s]])
    /\ UNCHANGED <<choice, manual>>

-----------------------------------------------------------------------------
AtendimentoCall(s) ==
    \E c \in Cards :
        \/ Criar(s, c) \/ TouchLastMessage(s, c)
        \/ \E status \in Statuses : AtualizarStatus(s, c, status)
        \/ \E a \in Agents \cup {None} : AtualizarEtapa(s, c, a)
        \/ \E a \in Agents : Exists(s, Agent(a)) /\ AssumirAtendimento(s, c, a)

AtendenteCall(s) ==
    \E a \in Agents :
        \/ CriarAtendente(s, a) \/ BuscarDisponivelRoundRobin(s, a) \/ AtualizarUltimaAtribuicao(s, a)
        \/ \E disponivel \in BOOLEAN : AtualizarDisponibilidade(s, a, disponivel)

MovimentoCall(s) ==
    \E m \in Moves, c \in Cards, origem \in BOOLEAN : CriarMovimento(s, m, c, origem)

MensagemCall(s) ==
    \/ \E m \in Messages : RegistrarRespostaBot(s, m) \/ \E c \in Cards : CriarMensagem(s, m, c)
    \/ \E c \in Cards : MarcarComoLida(s, c)

ContatoCall(s) ==
    \E p \in Contacts :
        \/ \E nome \in Names \cup {None} : SalvarContato(s, p, nome)
        \/ AtualizarUltimaInteracao(s, p)

Next ==
    \E s \in Sessions :
        \/ BeginTx(s) \/ CommitTx(s) \/ RollbackTx(s)
        \/ AtendimentoCall(s) \/ AtendenteCall(s) \/ MovimentoCall(s) \/ MensagemCall(s)
        \/ ContatoCall(s)

Spec == Init /\ [][Next]_vars

-----------------------------------------------------------------------------
(***************************************************************************)
(* Properties                                                              *)
(***************************************************************************)
\* A committed row, when there is one.
Stored(r) == r \in {q \in Rows : db[q] # None}

ActiveCards(a) ==
    {c \in Cards : /\ Stored(Card(c))
                   /\ db[Card(c)].atendente = a /\ db[Card(c)].status \in Active}

\* The round-robin choice takes no lock, so transactions that choose at the same time
\* exceed the limit of an attendant together; but none of them does by itself, and no
\* sequence of them, one upon the other, as long as attendances go to whom the choice
\* named: the limit of max_atendimentos_simultaneos holds per connection of the pool.
LimitUpToSessions == manual \/ \A a \in Agents : Cardinality(ActiveCards(a)) <= Limit

\* A closed attendance has the time it was closed at, whatever was called since;
\* it is no earlier than its start as long as transactions follow each other.
ClosedHasEnd ==
    \A c \in Cards : Stored(Card(c)) =>
        LET row == db[Card(c)]
        IN  /\ row.status \in Closed => row.fim # None
            /\ row.fim # None => overlap \/ row.fim >= row.inicio

\* However transactions interleave, up to the half second a duration is rounded by:
\* a movement counts no time from before a movement that was committed when its
\* transaction began, and it reaches back to some movement of the attendance, so that
\* no time is lost between them.  (Two transactions open at once may count a time
\* twice; and NOW() is the start of a transaction, so one begun later that commits a
\* movement first leaves the other a negative duration, down to the distance of both.)
TimeCountedOnce ==
    \A n \in {k \in Moves : Stored(Move(k)) /\ db[Move(k)].duracao # None} :
        LET row    == db[Move(n)]
            others == {m \in Moves \ {n} : Stored(Move(m)) /\ db[Move(m)].card = row.card}
            Gap(m) == row.at - db[Move(m)].at
        IN  /\ \A m \in others :
                  since[m] < row.at => 2 * Second * row.duracao <= 2 * Gap(m) + Second
            /\ \E m \in others : 2 * Second * row.duracao >= 2 * Gap(m) - Second

\* Transactions that change one row in turn do not undo each other: an
\* attendance keeps having an attendant and an end, its bot stays off, a message
\* stays read and answered, a contact keeps having a name; and as long as transactions
\* follow each other, the last interaction of a contact is the latest.
NothingUndone ==
    [][\A r \in Rows : Stored(r) =>
         /\ r[1] = "atendimento" =>
              /\ db[r].atendente # None => db'[r].atendente # None
              /\ db[r].fim # None => db'[r].fim # None
              /\ ~db[r].bot => ~db'[r].bot
         /\ r[1] = "mensagem" =>
              /\ db[r].lido => db'[r].lido
              /\ db[r].respondida => db'[r].respondida
         /\ r[1] = "contato" =>
              /\ db[r].nome # None => db'[r].nome # None
              /\ overlap \/ db'[r].ultima >= db[r].ultima]_vars
=============================================================================
