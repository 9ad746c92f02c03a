-------------------------- MODULE AttendanceProofs --------------------------
(***************************************************************************)
(* Theorems about Attendance for every pool of connections, every number   *)
(* of attendances, attendants, messages, movements and contacts, and every *)
(* sequence of calls.                                                      *)
(***************************************************************************)
EXTENDS Attendance, FiniteSetTheorems, WellFoundedInduction, TLAPS

\* A row, and what it may become while it is stored.
Good(r, row) ==
    /\ row \in RowOf(r)
    /\ r[1] = "atendimento" =>
         /\ row.inicio <= clock
         /\ row.status \in Closed => row.fim # None
         /\ row.fim # None => overlap \/ row.fim >= row.inicio
    /\ r[1] = "movimento" => row.at <= clock
    /\ r[1] = "contato" => row.ultima <= clock

Keeps(r, old, row) ==
    /\ r[1] = "atendimento" =>
         /\ old.atendente # None => row.atendente # None
         /\ old.fim # None => row.fim # None
         /\ ~old.bot => ~row.bot
    /\ r[1] = "mensagem" =>
         /\ old.lido => row.lido
         /\ old.respondida => row.respondida
    /\ r[1] = "contato" =>
         /\ old.nome # None => row.nome # None
         /\ overlap \/ row.ultima >= old.ultima

TypeInv ==
    /\ DOMAIN db = Rows
    /\ DOMAIN work = Sessions
    /\ \A s \in Sessions :
         /\ DOMAIN work[s] \subseteq Rows
         /\ tx[s] = 0 => work[s] = << >> /\ choice[s] = None
    /\ \A s, t \in Sessions : s # t => DOMAIN work[s] \cap DOMAIN work[t] = {}
    /\ tx \in [Sessions -> Times]
    /\ choice \in [Sessions -> Agents \cup {None}]
    /\ clock \in Times /\ since \in [Moves -> Times]
    /\ overlap \in BOOLEAN /\ manual \in BOOLEAN

RowsInv ==
    /\ \A r \in Rows : db[r] # None => Good(r, db[r])
    /\ \A s \in Sessions : \A r \in DOMAIN work[s] :
         Good(r, work[s][r]) /\ (db[r] # None => Keeps(r, db[r], work[s][r]))

\* One transaction at a time is the last that was begun.
ClockInv ==
    /\ \A s \in Sessions : tx[s] <= clock
    /\ overlap \/ \A s, t \in Sessions : tx[s] # 0 => tx[s] = clock /\ (s # t => tx[t] = 0)

\* To half a second, movement row counts no time from before that of other, and reaches
\* back to it.
NotBefore(row, other) == 2 * Second * row.duracao <= 2 * (row.at - other.at) + Second
BackTo(row, other) ==
    other.card = row.card /\ 2 * Second * row.duracao >= 2 * (row.at - other.at) - Second

\* Movement n, as the rows of f have it, when those of g were committed at the times of z.
Counted(f, g, z, n) ==
    f[Move(n)] # None /\ f[Move(n)].duracao # None =>
      /\ \A m \in Moves \ {n} :
            g[Move(m)] # None /\ g[Move(m)].card = f[Move(n)].card /\ z[m] < f[Move(n)].at
            => NotBefore(f[Move(n)], g[Move(m)])
      /\ \E m \in Moves \ {n} : f[Move(m)] # None /\ BackTo(f[Move(n)], f[Move(m)])

\* The rows as a statement of s reads them.
ViewOf(s) == [r \in Rows |-> View(s, r)]

\* The committed movements and those of every transaction, which are rows of its own.
CountInv ==
    /\ \A s \in Sessions : \A m \in Moves : Move(m) \in DOMAIN work[s] => db[Move(m)] = None
    /\ \A n \in Moves : Counted(db, db, since, n) /\ \A s \in Sessions : Counted(ViewOf(s), db, since, n)

\* The row is that of an active attendance of a.
IsActive(row, a) == row # None /\ row.atendente = a /\ row.status \in Active

\* c is one, should the transactions of X be the ones that commit.
ActiveIn(X, c, a) ==
    \/ \E s \in X : Card(c) \in DOMAIN work[s] /\ IsActive(work[s][Card(c)], a)
    \/ (\A s \in X : Card(c) \notin DOMAIN work[s]) /\ IsActive(db[Card(c)], a)

\* What counts then for the limit of a; a choice stands for the attendance it leads to.
Chosen(s) == <<"choice", s>>
Claims(X, a) == {Card(c) : c \in {d \in Cards : ActiveIn(X, d, a)}}
                \cup {Chosen(s) : s \in {t \in X : choice[t] = a}}

\* What the transaction of s has added to it.
Adds(s, a) ==
    {Card(c) : c \in {d \in Cards : /\ Card(d) \in DOMAIN work[s]
                                    /\ IsActive(work[s][Card(d)], a) /\ ~IsActive(db[Card(d)], a)}}
    \cup (IF choice[s] = a THEN {Chosen(s)} ELSE {})

AtMost(S, n) == IsFiniteSet(S) /\ Cardinality(S) <= n

\* No transaction adds more than the limit of an attendant, and no set of them brings
\* the attendant above as many times its limit as there are connections.
Within(a) ==
    /\ \A s \in Sessions : AtMost(Adds(s, a), Simultaneos)
    /\ \A X \in SUBSET Sessions : AtMost(Claims(X, a), Limit)

LimitInv == manual \/ \A a \in Agents : Within(a)

\* The inductive invariants: of the rows, and with the limit.
BaseInv == TypeInv /\ RowsInv /\ ClockInv /\ CountInv
IInv    == BaseInv /\ LimitInv

-----------------------------------------------------------------------------
(***************************************************************************)
(* Rows.                                                                   *)
(***************************************************************************)
Tables == {"atendimento", "atendente", "movimento", "mensagem", "contato"}

LEMMA TableOf ==
    /\ \A c : Card(c)[1] = "atendimento" /\ Card(c)[2] = c /\ RowOf(Card(c)) = AtendimentoRow
    /\ \A a : Agent(a)[1] = "atendente" /\ Agent(a)[2] = a /\ RowOf(Agent(a)) = AtendenteRow
    /\ \A m : Move(m)[1] = "movimento" /\ Move(m)[2] = m /\ RowOf(Move(m)) = MovimentoRow
    /\ \A m : Msg(m)[1] = "mensagem" /\ Msg(m)[2] = m /\ RowOf(Msg(m)) = MensagemRow
    /\ \A p : Contact(p)[1] = "contato" /\ Contact(p)[2] = p /\ RowOf(Contact(p)) = ContatoRow
  BY DEF Card, Agent, Move, Msg, Contact, RowOf

LEMMA KeysOfRows ==
    /\ \A c \in Cards : Card(c) \in Rows
    /\ \A a \in Agents : Agent(a) \in Rows
    /\ \A m \in Moves : Move(m) \in Rows
    /\ \A m \in Messages : Msg(m) \in Rows
    /\ \A p \in Contacts : Contact(p) \in Rows
    /\ \A r \in Rows : r[1] \in Tables
  BY TableOf DEF Rows, Tables

\* What the invariant says of a row, table by table.
LEMMA GoodRows ==
    ASSUME NEW row
    PROVE  /\ \A c : Good(Card(c), row) <=>
                /\ row \in AtendimentoRow /\ row.inicio <= clock
                /\ row.status \in Closed => row.fim # None
                /\ row.fim # None => overlap \/ row.fim >= row.inicio
           /\ \A a : Good(Agent(a), row) <=> row \in AtendenteRow
           /\ \A m : Good(Move(m), row) <=> row \in MovimentoRow /\ row.at <= clock
           /\ \A m : Good(Msg(m), row) <=> row \in MensagemRow
           /\ \A p : Good(Contact(p), row) <=> row \in ContatoRow /\ row.ultima <= clock
  BY TableOf DEF Good

LEMMA KeptRows ==
    ASSUME NEW old, NEW row
    PROVE  /\ \A c : Keeps(Card(c), old, row) <=>
                /\ old.atendente # None => row.atendente # None
                /\ old.fim # None => row.fim # None
                /\ ~old.bot => ~row.bot
           /\ \A a : Keeps(Agent(a), old, row)
           /\ \A m : Keeps(Move(m), old, row)
           /\ \A m : Keeps(Msg(m), old, row) <=>
                /\ old.lido => row.lido
                /\ old.respondida => row.respondida
           /\ \A p : Keeps(Contact(p), old, row) <=>
                /\ old.nome # None => row.nome # None
                /\ overlap \/ row.ultima >= old.ultima
  BY TableOf DEF Keeps

\* Changes that undo nothing add up.
LEMMA KeepsAddUp ==
    ASSUME NEW r \in Rows, NEW x, Good(r, x), NEW y, Good(r, y), NEW z, Good(r, z)
    PROVE  /\ Keeps(r, x, x)
           /\ Keeps(r, x, y) /\ Keeps(r, y, z) => Keeps(r, x, z)
<1>1. CASE r[1] # "contato"
  BY <1>1 DEF Keeps
<1>2. CASE r[1] = "contato"
  <2>1. x \in ContatoRow /\ y \in ContatoRow /\ z \in ContatoRow
    BY <1>2 DEF Good, RowOf
  <2>2. x.ultima \in Int /\ y.ultima \in Int /\ z.ultima \in Int
    BY <2>1, AttendanceAssumption DEF ContatoRow, Times
  <2>. QED
    BY <1>2, <2>2 DEF Keeps
<1>. QED
  BY <1>1, <1>2

\* What a statement reads.
LEMMA ReadsGood ==
    ASSUME TypeInv, RowsInv, NEW s \in Sessions, NEW r \in Rows, View(s, r) # None
    PROVE  Good(r, View(s, r))
  BY DEF RowsInv, View

\* A statement that writes good rows and undoes nothing keeps the rows.
LEMMA WritesKeepRows ==
    ASSUME TypeInv, RowsInv, ClockInv, NEW s \in Sessions, NEW W, DOMAIN W \subseteq Rows,
           Statement(s, W),
           \A r \in DOMAIN W : Good(r, W[r]) /\ (View(s, r) # None => Keeps(r, View(s, r), W[r])),
           choice' \in [Sessions -> Agents \cup {None}],
           \A t \in Sessions : choice'[t] # choice[t] => t = s,
           manual' \in BOOLEAN
    PROVE  TypeInv' /\ RowsInv' /\ ClockInv'
<1>1. /\ UNCHANGED <<db, tx, clock, since, overlap>> /\ tx[s] # 0
      /\ DOMAIN work' = Sessions
      /\ \A t \in Sessions \ {s} : work'[t] = work[t]
      /\ work'[s] = Over(W, work[s])
      /\ \A r \in DOMAIN W : ~Locked(s, r)
  BY DEF Statement, TypeInv
<1>2. /\ DOMAIN work'[s] = DOMAIN W \cup DOMAIN work[s]
      /\ \A r \in DOMAIN work'[s] : work'[s][r] = IF r \in DOMAIN W THEN W[r] ELSE work[s][r]
  BY <1>1 DEF Over
<1>3. \A t \in Sessions \ {s} : DOMAIN W \cap DOMAIN work[t] = {}
  BY <1>1 DEF Locked
<1>4. TypeInv'
  BY <1>1, <1>2, <1>3 DEF TypeInv
<1>5. ClockInv'
  BY <1>1 DEF ClockInv
<1>6. \A r, row : (Good(r, row)' <=> Good(r, row))
  BY <1>1 DEF Good
<1>7. \A r, x, y : (Keeps(r, x, y)' <=> Keeps(r, x, y))
  BY <1>1 DEF Keeps
<1>8. ASSUME NEW r \in DOMAIN work'[s]
      PROVE  Good(r, work'[s][r]) /\ (db[r] # None => Keeps(r, db[r], work'[s][r]))
  <2>1. CASE r \notin DOMAIN W
    BY <1>2, <1>8, <2>1 DEF RowsInv
  <2>2. CASE r \in DOMAIN W
    <3>1. work'[s][r] = W[r] /\ r \in Rows
      BY <1>2, <1>8, <2>2
    <3>2. CASE r \in DOMAIN work[s] /\ db[r] # None
      <4>1. View(s, r) = work[s][r]
        BY <3>2 DEF View
      <4>2. /\ Good(r, db[r]) /\ Good(r, work[s][r]) /\ Good(r, W[r])
            /\ Keeps(r, db[r], work[s][r])
        BY <2>2, <3>1, <3>2 DEF RowsInv
      <4>3. work[s][r] # None => Keeps(r, work[s][r], W[r])
        BY <2>2, <4>1
      <4>4. work[s][r] # None
        BY <3>1, <4>2, RowAssumption DEF Good
      <4>. QED
        BY <3>1, <4>2, <4>3, <4>4, KeepsAddUp
    <3>3. CASE r \notin DOMAIN work[s]
      <4>1. View(s, r) = db[r]
        BY <3>3 DEF View
      <4>. QED
        BY <2>2, <3>1, <4>1
    <3>4. Good(r, W[r])
      BY <2>2
    <3>. QED
      BY <3>1, <3>2, <3>3, <3>4
  <2>. QED
    BY <2>1, <2>2
<1>9. RowsInv'
  BY <1>1, <1>6, <1>7, <1>8 DEF RowsInv, TypeInv
<1>. QED
  BY <1>4, <1>5, <1>9

-----------------------------------------------------------------------------
(***************************************************************************)
(* The calls of the repositories.                                          *)
(***************************************************************************)
\* A statement of s that writes row r, well and undoing nothing.
WritesRow(s, r, row) ==
    /\ Statement(s, Only(r, row))
    /\ Good(r, row)
    /\ View(s, r) # None => Keeps(r, View(s, r), row)

LEMMA OnlyRow == \A r, row : DOMAIN Only(r, row) = {r} /\ Only(r, row)[r] = row
  BY DEF Only

\* INSERT is of a row nobody has.
LEMMA InsertsNew ==
    ASSUME NEW s \in Sessions, NEW others, NEW r \in others, r[2] \in Nat, NEW row,
           Insert(s, r, others, row)
    PROVE  Statement(s, Only(r, row)) /\ View(s, r) = None /\ db[r] = None
<1>1. Statement(s, Only(r, row))
  BY DEF Insert
<1>2. ~(r[2] < r[2])
  OBVIOUS
<1>3. db[r] = None /\ \A t \in Sessions : r \notin DOMAIN work[t]
  BY <1>2 DEF Insert
<1>. QED
  BY <1>1, <1>3 DEF View

\* The transaction a statement is of.
LEMMA TxOf ==
    ASSUME TypeInv, ClockInv, NEW s \in Sessions, tx[s] # 0
    PROVE  /\ tx[s] \in Nat /\ tx[s] \in Times /\ clock \in Nat /\ tx[s] <= clock
           /\ overlap \/ tx[s] = clock
  BY AttendanceAssumption DEF TypeInv, ClockInv, Times

\* A call on attendances makes none active for an attendant, unless it is the one the
\* transaction chose.
LEMMA CardCalls ==
    ASSUME TypeInv, RowsInv, ClockInv, NEW s \in Sessions, AtendimentoCall(s)
    PROVE  \E c \in Cards : \E row :
             /\ WritesRow(s, Card(c), row)
             /\ manual' \in BOOLEAN /\ (manual => manual')
             /\ \/ /\ choice' = choice
                   /\ \A a \in Agents : manual' \/ (IsActive(row, a) => IsActive(View(s, Card(c)), a))
                \/ /\ choice' = [choice EXCEPT ![s] = None]
                   /\ \A a \in Agents : manual' \/ (IsActive(row, a) => choice[s] = a)
<1> DEFINE Goal(c, row) ==
             /\ WritesRow(s, Card(c), row)
             /\ manual' \in BOOLEAN /\ (manual => manual')
             /\ \/ /\ choice' = choice
                   /\ \A a \in Agents : manual' \/ (IsActive(row, a) => IsActive(View(s, Card(c)), a))
                \/ /\ choice' = [choice EXCEPT ![s] = None]
                   /\ \A a \in Agents : manual' \/ (IsActive(row, a) => choice[s] = a)
<1>0. PICK c \in Cards :
        \/ Criar(s, c) \/ TouchLastMessage(s, c)
        \/ \E status \in Statuses : AtualizarStatus(s, c, status)
        \/ \E a \in Agents \cup {None} : AtualizarEtapa(s, c, a)
        \/ \E a \in Agents : Exists(s, Agent(a)) /\ AssumirAtendimento(s, c, a)
  BY DEF AtendimentoCall
<1> DEFINE old == View(s, Card(c))
<1>1. Card(c) \in Rows /\ manual \in BOOLEAN
  BY KeysOfRows DEF TypeInv
<1>2. tx[s] # 0
  BY <1>0 DEF Criar, TouchLastMessage, AtualizarStatus, AtualizarEtapa, AssumirAtendimento, Insert,
     Update, Statement
<1>3. /\ tx[s] \in Nat /\ tx[s] \in Times /\ clock \in Nat /\ tx[s] <= clock
      /\ overlap \/ tx[s] = clock
  BY <1>2, TxOf
<1>4. old # None =>
        /\ old \in AtendimentoRow /\ old.inicio <= clock
        /\ old.status \in Closed => old.fim # None
        /\ old.fim # None => overlap \/ old.fim >= old.inicio
  BY <1>1, ReadsGood, GoodRows
<1>5. None \notin Nat /\ None \notin Agents /\ 0 \in Times
  BY AttendanceAssumption DEF Times
<1>. HIDE DEF old
<1>6. CASE Criar(s, c)
  <2>1. /\ Statement(s, Only(Card(c), New(tx[s]))) /\ old = None
        /\ choice' = choice /\ manual' = manual
    <3>1. Insert(s, Card(c), {Card(d) : d \in Cards}, New(tx[s]))
      BY <1>6 DEF Criar
    <3>2. Card(c)[2] \in Nat /\ Card(c) \in {Card(d) : d \in Cards}
      BY TableOf, AttendanceAssumption
    <3>3. Statement(s, Only(Card(c), New(tx[s]))) /\ View(s, Card(c)) = None
      BY <3>1, <3>2, InsertsNew
    <3>. QED
      BY <1>6, <3>3 DEF Criar, old
  <2>2. New(tx[s]) \in AtendimentoRow
    BY <1>3 DEF New, AtendimentoRow, Active
  <2>3. Good(Card(c), New(tx[s]))
    BY <1>3, <2>2, GoodRows DEF New, Closed
  <2>4. \A a \in Agents : ~IsActive(New(tx[s]), a)
    BY <1>5 DEF IsActive, New
  <2>5. Goal(c, New(tx[s]))
    BY <1>1, <2>1, <2>3, <2>4 DEF WritesRow, old
  <2>. QED
    BY <2>5
<1>7. CASE TouchLastMessage(s, c)
  <2>1. old # None /\ Statement(s, Only(Card(c), old)) /\ choice' = choice /\ manual' = manual
    BY <1>7 DEF TouchLastMessage, Update, Exists, old
  <2>2. Good(Card(c), old)
    BY <1>1, <2>1, ReadsGood DEF old
  <2>3. Goal(c, old)
    BY <1>1, <2>1, <2>2, KeepsAddUp DEF WritesRow, old
  <2>. QED
    BY <2>3
<1>8. ASSUME NEW status \in Statuses, AtualizarStatus(s, c, status)
      PROVE  \E row : Goal(c, row)
  <2> DEFINE row == [old EXCEPT !.status = status, !.fim = IF status \in Closed THEN tx[s] ELSE old.fim]
  <2>1. old # None /\ Statement(s, Only(Card(c), row)) /\ choice' = choice
    BY <1>8 DEF AtualizarStatus, Update, Exists, old
  <2>2. manual' = (manual \/ (status \in Active /\ old.status \in Closed /\ old.atendente # None))
    BY <1>8 DEF AtualizarStatus, old
  <2>3. old \in AtendimentoRow /\ status \in Active \cup Closed
    BY <1>4, <2>1, AttendanceAssumption
  <2>4. /\ row \in AtendimentoRow /\ row.status = status
        /\ row.inicio = old.inicio /\ row.atendente = old.atendente /\ row.bot = old.bot
        /\ row.fim = IF status \in Closed THEN tx[s] ELSE old.fim
    BY <1>3, <2>3 DEF AtendimentoRow
  <2>. HIDE DEF row
  <2>5. old.inicio \in Nat
    BY <2>3 DEF AtendimentoRow, Times
  <2>6. Good(Card(c), row)
    <3>1. row.inicio <= clock
      BY <1>4, <2>1, <2>4
    <3>2. row.status \in Closed => row.fim # None
      BY <1>3, <1>5, <2>4
    <3>3. row.fim # None => overlap \/ row.fim >= row.inicio
      <4>1. CASE status \in Closed
        BY <1>3, <1>4, <2>1, <2>4, <2>5, <4>1
      <4>2. CASE status \notin Closed
        BY <1>4, <2>1, <2>4, <4>2
      <4>. QED
        BY <4>1, <4>2
    <3>. QED
      BY <2>4, <3>1, <3>2, <3>3, GoodRows
  <2>7. Keeps(Card(c), old, row)
    BY <1>3, <1>5, <2>4, KeptRows
  <2>8. \A a \in Agents : manual' \/ (IsActive(row, a) => IsActive(old, a))
    BY <1>5, <2>1, <2>2, <2>3, <2>4 DEF IsActive, AtendimentoRow
  <2>9. Goal(c, row)
    BY <1>1, <2>1, <2>2, <2>6, <2>7, <2>8 DEF WritesRow, old
  <2>. QED
    BY <2>9
<1>9. ASSUME NEW a \in Agents \cup {None}, AtualizarEtapa(s, c, a)
      PROVE  \E row : Goal(c, row)
  <2> DEFINE row == [old EXCEPT !.atendente = IF a = None THEN old.atendente ELSE a]
  <2>1. /\ old # None /\ Statement(s, Only(Card(c), row)) /\ choice' = choice
        /\ manual' = (manual \/ a # None)
    BY <1>9 DEF AtualizarEtapa, Update, Exists, old
  <2>2. /\ row \in AtendimentoRow /\ row.status = old.status /\ row.inicio = old.inicio
        /\ row.fim = old.fim /\ row.bot = old.bot
        /\ row.atendente = IF a = None THEN old.atendente ELSE a
    BY <1>4, <2>1 DEF AtendimentoRow
  <2>. HIDE DEF row
  <2>3. Good(Card(c), row)
    BY <1>4, <2>1, <2>2, GoodRows
  <2>4. Keeps(Card(c), old, row)
    BY <2>2, KeptRows
  <2>5. \A b \in Agents : manual' \/ (IsActive(row, b) => IsActive(old, b))
    BY <2>1, <2>2 DEF IsActive
  <2>6. Goal(c, row)
    BY <1>1, <2>1, <2>3, <2>4, <2>5 DEF WritesRow, old
  <2>. QED
    BY <2>6
<1>10. ASSUME NEW a \in Agents, AssumirAtendimento(s, c, a)
       PROVE  \E row : Goal(c, row)
  <2> DEFINE row == [old EXCEPT !.atendente = a, !.bot = FALSE, !.status = "em_atendimento"]
  <2>1. /\ old # None /\ Statement(s, Only(Card(c), row)) /\ choice' = [choice EXCEPT ![s] = None]
        /\ manual' = (manual \/ choice[s] # a)
    BY <1>10 DEF AssumirAtendimento, Update, Exists, old
  <2>2. /\ row \in AtendimentoRow /\ row.status = "em_atendimento" /\ row.inicio = old.inicio
        /\ row.fim = old.fim /\ row.bot = FALSE /\ row.atendente = a
    BY <1>4, <2>1 DEF AtendimentoRow, Active
  <2>. HIDE DEF row
  <2>3. Good(Card(c), row)
    BY <1>4, <2>1, <2>2, GoodRows DEF Closed
  <2>4. Keeps(Card(c), old, row)
    BY <1>5, <2>2, KeptRows
  <2>5. \A b \in Agents : manual' \/ (IsActive(row, b) => choice[s] = b)
    BY <2>1, <2>2 DEF IsActive
  <2>6. Goal(c, row)
    BY <1>1, <2>1, <2>3, <2>4, <2>5 DEF WritesRow, old
  <2>. QED
    BY <2>6
<1>. QED
  BY <1>0, <1>6, <1>7, <1>8, <1>9, <1>10

\* What the other calls write has to do with no attendance and no movement.
LEMMA OtherCalls ==
    ASSUME TypeInv, RowsInv, ClockInv, NEW s \in Sessions,
           \/ \E a \in Agents : \/ CriarAtendente(s, a) \/ AtualizarUltimaAtribuicao(s, a)
                             \/ \E disponivel \in BOOLEAN : AtualizarDisponibilidade(s, a, disponivel)
           \/ MensagemCall(s) \/ ContatoCall(s)
    PROVE  \E W : /\ Statement(s, W) /\ DOMAIN W \subseteq Rows
                  /\ \A r \in DOMAIN W : /\ r[1] \notin {"atendimento", "movimento"}
                                         /\ Good(r, W[r])
                                         /\ View(s, r) # None => Keeps(r, View(s, r), W[r])
                  /\ UNCHANGED <<choice, manual>>
<1> DEFINE Goal(W) ==
                  /\ Statement(s, W) /\ DOMAIN W \subseteq Rows
                  /\ \A r \in DOMAIN W : /\ r[1] \notin {"atendimento", "movimento"}
                                         /\ Good(r, W[r])
                                         /\ View(s, r) # None => Keeps(r, View(s, r), W[r])
                  /\ UNCHANGED <<choice, manual>>
<1> USE AttendanceAssumption
<1>1. ASSUME NEW r \in Rows, r[1] \notin {"atendimento", "movimento"}, NEW row, WritesRow(s, r, row),
             UNCHANGED <<choice, manual>>
      PROVE  \E W : Goal(W)
  <2> DEFINE W == Only(r, row)
  <2>1. DOMAIN W = {r} /\ W[r] = row
    BY OnlyRow
  <2>2. Statement(s, W)
    BY <1>1 DEF WritesRow
  <2>. HIDE DEF W
  <2>3. Goal(W)
    BY <1>1, <2>1, <2>2 DEF WritesRow
  <2>. QED
    BY <2>3
<1>2. ASSUME NEW a \in Agents, CriarAtendente(s, a) PROVE \E W : Goal(W)
  <2>1. WritesRow(s, Agent(a), Hire)
    <3>1. Statement(s, Only(Agent(a), Hire)) /\ View(s, Agent(a)) = None
      BY <1>2 DEF CriarAtendente, Exists
    <3>2. Hire \in AtendenteRow
      BY DEF Hire, AtendenteRow
    <3>. QED
      BY <3>1, <3>2, GoodRows DEF WritesRow
  <2>. QED
    BY <1>1, <1>2, <2>1, KeysOfRows, TableOf DEF CriarAtendente
<1>3. ASSUME NEW a \in Agents, NEW row, Update(s, Agent(a), row), UNCHANGED <<choice, manual>>,
             View(s, Agent(a)) \in AtendenteRow => row \in AtendenteRow
      PROVE  \E W : Goal(W)
  <2>1. View(s, Agent(a)) # None /\ Statement(s, Only(Agent(a), row)) /\ Agent(a) \in Rows
    BY <1>3, KeysOfRows DEF Update, Exists
  <2>2. View(s, Agent(a)) \in AtendenteRow
    BY <2>1, ReadsGood, GoodRows
  <2>3. WritesRow(s, Agent(a), row)
    BY <1>3, <2>1, <2>2, GoodRows, KeptRows DEF WritesRow
  <2>. QED
    BY <1>1, <1>3, <2>1, <2>3, TableOf
<1>4. ASSUME NEW a \in Agents, AtualizarUltimaAtribuicao(s, a) PROVE \E W : Goal(W)
  <2>1. tx[s] \in Times
    BY DEF TypeInv
  <2>2. View(s, Agent(a)) \in AtendenteRow =>
            [View(s, Agent(a)) EXCEPT !.ultima = tx[s]] \in AtendenteRow
    BY <2>1 DEF AtendenteRow
  <2>. QED
    BY <1>3, <1>4, <2>2 DEF AtualizarUltimaAtribuicao
<1>5. ASSUME NEW a \in Agents, NEW disponivel \in BOOLEAN, AtualizarDisponibilidade(s, a, disponivel)
      PROVE  \E W : Goal(W)
  <2>1. View(s, Agent(a)) \in AtendenteRow =>
            [View(s, Agent(a)) EXCEPT !.disponivel = disponivel] \in AtendenteRow
    BY DEF AtendenteRow
  <2>. QED
    BY <1>3, <1>5, <2>1 DEF AtualizarDisponibilidade
<1>6. ASSUME NEW m \in Messages, NEW c \in Cards, CriarMensagem(s, m, c) PROVE \E W : Goal(W)
  <2> DEFINE row == [card |-> c, lido |-> FALSE, respondida |-> FALSE]
  <2>1. Insert(s, Msg(m), {Msg(n) : n \in Messages}, row)
    BY <1>6 DEF CriarMensagem
  <2>2. Msg(m)[2] \in Nat /\ Msg(m) \in {Msg(n) : n \in Messages}
    BY TableOf
  <2>3. row \in MensagemRow
    BY DEF MensagemRow
  <2>. HIDE DEF row
  <2>4. Statement(s, Only(Msg(m), row)) /\ View(s, Msg(m)) = None
    BY <2>1, <2>2, InsertsNew
  <2>5. WritesRow(s, Msg(m), row)
    BY <2>3, <2>4, GoodRows DEF WritesRow
  <2>. QED
    BY <1>1, <1>6, <2>5, KeysOfRows, TableOf DEF CriarMensagem
<1>7. ASSUME NEW m \in Messages, RegistrarRespostaBot(s, m) PROVE \E W : Goal(W)
  <2> DEFINE old == View(s, Msg(m))
             row == [old EXCEPT !.respondida = TRUE]
  <2>1. old # None /\ Statement(s, Only(Msg(m), row)) /\ Msg(m) \in Rows
    BY <1>7, KeysOfRows DEF RegistrarRespostaBot, Update, Exists
  <2>2. old \in MensagemRow
    BY <2>1, ReadsGood, GoodRows
  <2>3. row \in MensagemRow /\ row.lido = old.lido /\ row.respondida = TRUE
    BY <2>2 DEF MensagemRow
  <2>. HIDE DEF row
  <2>4. WritesRow(s, Msg(m), row)
    BY <2>1, <2>3, GoodRows, KeptRows DEF WritesRow
  <2>. QED
    BY <1>1, <1>7, <2>1, <2>4, TableOf DEF RegistrarRespostaBot
<1>8. ASSUME NEW c \in Cards, MarcarComoLida(s, c) PROVE \E W : Goal(W)
  <2> DEFINE unread == {m \in Messages : /\ Exists(s, Msg(m))
                                         /\ View(s, Msg(m)).card = c
                                         /\ ~View(s, Msg(m)).lido}
             W == [r \in {Msg(m) : m \in unread} |-> [View(s, r) EXCEPT !.lido = TRUE]]
  <2>1. Statement(s, W) /\ UNCHANGED <<choice, manual>>
    BY <1>8 DEF MarcarComoLida
  <2>2. ASSUME NEW m \in unread
        PROVE  /\ Msg(m) \in Rows /\ Good(Msg(m), W[Msg(m)])
               /\ Keeps(Msg(m), View(s, Msg(m)), W[Msg(m)])
    <3> DEFINE old == View(s, Msg(m))
               row == [old EXCEPT !.lido = TRUE]
    <3>1. m \in Messages /\ Msg(m) \in Rows /\ old # None
      BY KeysOfRows DEF Exists
    <3>2. old \in MensagemRow
      BY <3>1, ReadsGood, GoodRows
    <3>3. row \in MensagemRow /\ row.lido = TRUE /\ row.respondida = old.respondida
      BY <3>2 DEF MensagemRow
    <3>4. W[Msg(m)] = row
      OBVIOUS
    <3>. HIDE DEF row, W, old
    <3>5. Good(Msg(m), row) /\ Keeps(Msg(m), old, row)
      BY <3>3, GoodRows, KeptRows
    <3>. QED
      BY <3>1, <3>4, <3>5 DEF old
  <2>3. DOMAIN W = {Msg(m) : m \in unread}
    OBVIOUS
  <2>. HIDE DEF W, unread
  <2>4. \A r \in DOMAIN W : /\ r \in Rows /\ r[1] = "mensagem" /\ Good(r, W[r])
                            /\ Keeps(r, View(s, r), W[r])
    BY <2>2, <2>3, TableOf
  <2>5. Goal(W)
    BY <2>1, <2>4
  <2>. QED
    BY <2>5
<1>9. ASSUME NEW p \in Contacts, NEW row, Statement(s, Only(Contact(p), row)), UNCHANGED <<choice, manual>>,
             row \in ContatoRow, row.ultima = tx[s],
             LET old == View(s, Contact(p)) IN old # None /\ old.nome # None => row.nome # None
      PROVE  \E W : Goal(W)
  <2> DEFINE old == View(s, Contact(p))
  <2>1. tx[s] # 0 /\ Contact(p) \in Rows
    BY <1>9, KeysOfRows DEF Statement
  <2>2. tx[s] \in Nat /\ clock \in Nat /\ tx[s] <= clock /\ (overlap \/ tx[s] = clock)
    BY <2>1, TxOf
  <2>3. Good(Contact(p), row)
    BY <1>9, <2>2, GoodRows
  <2>4. old # None => Keeps(Contact(p), old, row)
    <3>1. old # None => old \in ContatoRow /\ old.ultima <= clock
      BY <2>1, ReadsGood, GoodRows
    <3>2. old # None => old.ultima \in Nat
      BY <3>1 DEF ContatoRow, Times
    <3>. QED
      BY <1>9, <2>2, <3>1, <3>2, KeptRows
  <2>5. WritesRow(s, Contact(p), row)
    BY <1>9, <2>3, <2>4 DEF WritesRow
  <2>. QED
    BY <1>1, <1>9, <2>1, <2>5, TableOf
<1>10. ASSUME NEW p \in Contacts, NEW nome \in Names \cup {None}, SalvarContato(s, p, nome)
       PROVE  \E W : Goal(W)
  <2> DEFINE old == View(s, Contact(p))
             known == IF old # None THEN old.nome ELSE None
             row == [nome |-> IF nome = None THEN known ELSE nome, ultima |-> tx[s]]
  <2>1. Statement(s, Only(Contact(p), row)) /\ UNCHANGED <<choice, manual>>
    BY <1>10 DEF SalvarContato, Exists
  <2>2. old # None => old \in ContatoRow
    BY ReadsGood, GoodRows, KeysOfRows
  <2>3. known \in Names \cup {None} /\ (old # None => known = old.nome)
    BY <2>2 DEF ContatoRow
  <2>4. tx[s] \in Times
    BY DEF TypeInv
  <2>. HIDE DEF known
  <2>5. /\ row \in ContatoRow /\ row.ultima = tx[s]
        /\ old # None /\ old.nome # None => row.nome # None
    BY <2>3, <2>4 DEF ContatoRow
  <2>. HIDE DEF row
  <2>. QED
    BY <1>9, <2>1, <2>5
<1>11. ASSUME NEW p \in Contacts, AtualizarUltimaInteracao(s, p) PROVE \E W : Goal(W)
  <2> DEFINE old == View(s, Contact(p))
             row == [old EXCEPT !.ultima = tx[s]]
  <2>1. old # None /\ Statement(s, Only(Contact(p), row)) /\ UNCHANGED <<choice, manual>>
    BY <1>11 DEF AtualizarUltimaInteracao, Update, Exists
  <2>2. old \in ContatoRow /\ tx[s] \in Times
    BY <2>1, ReadsGood, GoodRows, KeysOfRows DEF TypeInv
  <2>3. row \in ContatoRow /\ row.ultima = tx[s] /\ row.nome = old.nome
    BY <2>2 DEF ContatoRow
  <2>. HIDE DEF row
  <2>. QED
    BY <1>9, <2>1, <2>3
<1>. HIDE DEF Goal
<1>12. \E W : Goal(W)
  BY <1>2, <1>4, <1>5, <1>6, <1>7, <1>8, <1>10, <1>11 DEF MensagemCall, ContatoCall
<1>. QED
  BY <1>12 DEF Goal

\* The latest of some times.
LEMMA MaxOf ==
    ASSUME NEW n \in Nat, NEW S \in SUBSET (0 .. n), S # {}
    PROVE  Max(S) \in S /\ \A t \in S : t <= Max(S)
<1> DEFINE R == OpToRel(<, Nat)
           T == {n - t : t \in S}
<1>1. IsWellFoundedOn(R, Nat)
  BY NatLessThanWellFounded
<1>2. \A x, y \in Nat : x < y => <<x, y>> \in R
  BY DEF OpToRel
<1>3. T \subseteq Nat /\ T # {}
  <2>1. \A t \in 0 .. n : n - t \in Nat
    OBVIOUS
  <2>2. \A k \in T : \E t \in S : k = n - t
    OBVIOUS
  <2>3. PICK t \in S : TRUE
    OBVIOUS
  <2>4. n - t \in T
    OBVIOUS
  <2>. QED
    BY <2>1, <2>2, <2>4
<1>6. \A l \in T : \E m \in S : l = n - m
  OBVIOUS
<1>7. \A t \in S : n - t \in T
  OBVIOUS
<1>. HIDE DEF R, T
<1>4. PICK l \in T : \A k \in T : ~(<<k, l>> \in R)
  BY <1>1, <1>3, WFMin
<1>5. \A k \in T : l <= k
  <2>1. \A k \in T : k \in Nat /\ l \in Nat /\ ~(k < l)
    BY <1>2, <1>3, <1>4
  <2>. QED
    BY <2>1
<1>8. PICK m \in S : l = n - m
  BY <1>6
<1>9. ASSUME NEW t \in S PROVE m >= t
  <2>1. l <= n - t
    BY <1>5, <1>7
  <2>. QED
    BY <1>8, <2>1
<1>10. Max(S) \in S /\ \A t \in S : Max(S) >= t
  BY <1>9 DEF Max
<1>. QED
  BY <1>10

\* Division, and the rounding of durations.
LEMMA DivNear ==
    ASSUME NEW a \in Int, NEW d \in Int, d > 0
    PROVE  /\ a \div d \in Int
           /\ d * (a \div d) <= a
           /\ a < d * (a \div d) + d
  OBVIOUS

LEMMA NearestSecond ==
    ASSUME NEW t \in Int
    PROVE  /\ InSeconds(t) \in Int
           /\ 2 * Second * InSeconds(t) <= 2 * t + Second
           /\ 2 * Second * InSeconds(t) >= 2 * t - Second
<1>1. Second \in Int /\ Second > 0 /\ 2 * Second \in Int /\ 2 * Second > 0
  BY AttendanceAssumption
<1>2. CASE t >= 0
  <2> DEFINE a == 2 * t + Second
             q == a \div (2 * Second)
  <2>1. a \in Int
    BY <1>1
  <2>. HIDE DEF a
  <2>2. q \in Int /\ 2 * Second * q <= a /\ a < 2 * Second * q + 2 * Second
    BY <1>1, <2>1, DivNear
  <2>3. InSeconds(t) = q
    BY <1>2 DEF InSeconds, a
  <2>. HIDE DEF q
  <2>4. 2 * Second * q \in Int
    BY <1>1, <2>2
  <2>. QED
    BY <1>1, <2>2, <2>3, <2>4 DEF a
<1>3. CASE t < 0
  <2> DEFINE a == Second - 2 * t
             q == a \div (2 * Second)
  <2>1. a \in Int
    BY <1>1
  <2>. HIDE DEF a
  <2>2. q \in Int /\ 2 * Second * q <= a /\ a < 2 * Second * q + 2 * Second
    BY <1>1, <2>1, DivNear
  <2>3. InSeconds(t) = -q
    BY <1>3 DEF InSeconds, a
  <2>. HIDE DEF q
  <2>4. 2 * Second * q \in Int /\ 2 * Second * (-q) = -(2 * Second * q)
    BY <1>1, <2>2
  <2>. QED
    BY <1>1, <2>2, <2>3, <2>4 DEF a
<1>. QED
  BY <1>2, <1>3

LEMMA SecondsAreFewer ==
    ASSUME NEW n \in Nat, NEW t \in -n .. n
    PROVE  InSeconds(t) \in -n .. n
<1> DEFINE q == InSeconds(t)
<1>1. Second \in Int /\ Second >= 1 /\ t \in Int /\ q \in Int
  BY AttendanceAssumption, NearestSecond
<1>2. 2 * Second * q <= 2 * t + Second /\ 2 * Second * q >= 2 * t - Second
  BY <1>1, NearestSecond
<1>. HIDE DEF q
<1>3. ASSUME q > n PROVE FALSE
  <2>1. 2 * Second * q >= 2 * Second * (n + 1)
    BY <1>1, <1>3
  <2>2. Second * (n + 1) = Second * n + Second /\ Second * n >= n
    BY <1>1
  <2>3. Second * n \in Int /\ 2 * Second * (n + 1) = 2 * (Second * (n + 1)) /\ 2 * Second * q \in Int
    BY <1>1
  <2>. QED
    BY <1>1, <1>2, <2>1, <2>2, <2>3
<1>4. ASSUME q < -n PROVE FALSE
  <2>1. 2 * Second * q <= 2 * Second * (-n - 1)
    BY <1>1, <1>4
  <2>2. 2 * Second * (-n - 1) = -(2 * (Second * n)) - 2 * Second /\ Second * n >= n
    BY <1>1
  <2>3. Second * n \in Int /\ 2 * Second * q \in Int
    BY <1>1
  <2>. QED
    BY <1>1, <1>2, <2>1, <2>2, <2>3
<1>. QED
  BY <1>1, <1>3, <1>4 DEF q
\* A new movement counts the time since the latest the statement sees.
LEMMA MoveCalls ==
    ASSUME TypeInv, RowsInv, ClockInv, NEW s \in Sessions, MovimentoCall(s)
    PROVE  \E m \in Moves : \E row :
             /\ WritesRow(s, Move(m), row) /\ View(s, Move(m)) = None /\ db[Move(m)] = None
             /\ UNCHANGED <<choice, manual>>
             /\ row.at = tx[s]
             /\ row.duracao # None =>
                  /\ \A n \in Moves : View(s, Move(n)) # None /\ View(s, Move(n)).card = row.card
                       => NotBefore(row, View(s, Move(n)))
                  /\ \E n \in Moves : View(s, Move(n)) # None /\ BackTo(row, View(s, Move(n)))
<1>1. PICK m \in Moves, c \in Cards, origem \in BOOLEAN : CriarMovimento(s, m, c, origem)
  BY DEF MovimentoCall
<1> DEFINE duracao == IF origem THEN Duracao(s, c) ELSE None
           row == [card |-> c, at |-> tx[s], duracao |-> duracao]
           times == {View(s, Move(n)).at : n \in MovesOf(s, c)}
<1>2. Insert(s, Move(m), {Move(n) : n \in Moves}, row) /\ UNCHANGED <<choice, manual>>
  BY <1>1 DEF CriarMovimento
<1>3. Move(m)[2] \in Nat /\ Move(m) \in {Move(n) : n \in Moves}
  BY TableOf, AttendanceAssumption
<1>. HIDE DEF row
<1>4. Statement(s, Only(Move(m), row)) /\ View(s, Move(m)) = None /\ db[Move(m)] = None
  BY <1>2, <1>3, InsertsNew
<1>5. tx[s] \in Nat /\ tx[s] \in Times /\ clock \in Nat /\ tx[s] <= clock /\ (overlap \/ tx[s] = clock)
  BY <1>4, TxOf DEF Statement
<1>6. MaxTime \in Nat /\ Times = 0 .. MaxTime /\ None \notin Nat /\ clock \in Times
  BY AttendanceAssumption DEF Times, TypeInv
<1>7. \A n \in MovesOf(s, c) : View(s, Move(n)).at \in Times /\ View(s, Move(n)).at <= clock
  <2>1. ASSUME NEW n \in MovesOf(s, c)
        PROVE  View(s, Move(n)).at \in Times /\ View(s, Move(n)).at <= clock
    <3>1. Move(n) \in Rows /\ View(s, Move(n)) # None
      BY KeysOfRows DEF MovesOf, Exists
    <3>2. View(s, Move(n)) \in MovimentoRow /\ View(s, Move(n)).at <= clock
      BY <3>1, ReadsGood, GoodRows
    <3>. QED
      BY <3>2 DEF MovimentoRow
  <2>. QED
    BY <2>1
<1>8. /\ duracao \in (-MaxTime .. MaxTime) \cup {None}
      /\ duracao # None =>
           /\ \A t \in times : 2 * Second * duracao <= 2 * (tx[s] - t) + Second
           /\ \E t \in times : 2 * Second * duracao >= 2 * (tx[s] - t) - Second
  <2>1. CASE origem /\ times # {}
    <3>1. times \subseteq 0 .. MaxTime
      BY <1>6, <1>7
    <3>2. Max(times) \in times /\ \A t \in times : t <= Max(times)
      BY <1>6, <2>1, <3>1, MaxOf
    <3>3. duracao = InSeconds(tx[s] - Max(times))
      BY <2>1 DEF Duracao
    <3> DEFINE last == Max(times)
    <3>. HIDE DEF times, duracao, last
    <3>4. last \in 0 .. MaxTime /\ tx[s] - last \in -MaxTime .. MaxTime /\ tx[s] - last \in Int
      <4>1. last \in 0 .. MaxTime
        BY <3>1, <3>2 DEF last
      <4>2. tx[s] \in 0 .. MaxTime /\ tx[s] \in Int
        BY <1>5, <1>6
      <4>. QED
        BY <1>6, <4>1, <4>2
    <3>5. duracao \in -MaxTime .. MaxTime
      BY <1>6, <3>3, <3>4, SecondsAreFewer DEF last
    <3>6. /\ duracao \in Int
          /\ 2 * Second * duracao <= 2 * (tx[s] - last) + Second
          /\ 2 * Second * duracao >= 2 * (tx[s] - last) - Second
      BY <3>3, <3>4, NearestSecond DEF last
    <3>7. Second \in Nat /\ 2 * Second * duracao \in Int
      BY <3>6, AttendanceAssumption
    <3>8. ASSUME NEW t \in times PROVE 2 * Second * duracao <= 2 * (tx[s] - t) + Second
      <4>1. t \in Nat /\ t <= last
        BY <3>1, <3>2 DEF last
      <4>. QED
        BY <1>5, <3>4, <3>6, <3>7, <4>1
    <3>. QED
      BY <3>2, <3>5, <3>6, <3>8 DEF last
  <2>2. CASE ~(origem /\ times # {})
    <3>1. duracao = None
      BY <2>2 DEF Duracao
    <3>. QED
      BY <3>1
  <2>. QED
    BY <2>1, <2>2
<1>. HIDE DEF duracao
<1>9. row \in MovimentoRow /\ row.at = tx[s] /\ row.duracao = duracao /\ row.card = c
  BY <1>5, <1>8 DEF MovimentoRow, row
<1>10. WritesRow(s, Move(m), row)
  BY <1>4, <1>5, <1>9, GoodRows DEF WritesRow
<1>11. ASSUME row.duracao # None, NEW n \in Moves, View(s, Move(n)) # None,
              View(s, Move(n)).card = row.card
       PROVE  NotBefore(row, View(s, Move(n)))
  <2>1. View(s, Move(n)).at \in times
    BY <1>9, <1>11 DEF MovesOf, Exists
  <2>. QED
    BY <1>8, <1>9, <1>11, <2>1 DEF NotBefore
<1>12. ASSUME row.duracao # None
       PROVE  \E n \in Moves : View(s, Move(n)) # None /\ BackTo(row, View(s, Move(n)))
  <2>1. PICK t \in times : 2 * Second * duracao >= 2 * (tx[s] - t) - Second
    BY <1>8, <1>9, <1>12
  <2>2. PICK n \in MovesOf(s, c) : t = View(s, Move(n)).at
    BY <2>1
  <2>3. n \in Moves /\ View(s, Move(n)) # None /\ View(s, Move(n)).card = c
    BY <2>2 DEF MovesOf, Exists
  <2>. QED
    BY <1>9, <2>1, <2>2, <2>3 DEF BackTo
<1>. QED
  BY <1>2, <1>4, <1>9, <1>10, <1>11, <1>12

-----------------------------------------------------------------------------
(***************************************************************************)
(* What every step keeps of the rows, the clock and the movements.         *)
(***************************************************************************)
\* What is read after a statement.
LEMMA ReadsAfter ==
    ASSUME TypeInv, NEW s \in Sessions, NEW W, Statement(s, W)
    PROVE  /\ \A r : View(s, r)' = IF r \in DOMAIN W THEN W[r] ELSE View(s, r)
           /\ \A t \in Sessions \ {s} : \A r : View(t, r)' = View(t, r)
<1>1. /\ db' = db
      /\ \A t \in Sessions \ {s} : work'[t] = work[t]
      /\ work'[s] = Over(W, work[s])
  BY DEF Statement, TypeInv
<1>2. /\ DOMAIN work'[s] = DOMAIN W \cup DOMAIN work[s]
      /\ \A r \in DOMAIN work'[s] : work'[s][r] = IF r \in DOMAIN W THEN W[r] ELSE work[s][r]
  BY <1>1 DEF Over
<1>3. \A r : View(s, r)' = IF r \in DOMAIN W THEN W[r] ELSE View(s, r)
  BY <1>1, <1>2 DEF View
<1>4. \A t \in Sessions \ {s} : \A r : View(t, r)' = View(t, r)
  BY <1>1 DEF View
<1>. QED
  BY <1>3, <1>4

\* A movement keeps its count when no movement row changes, and those that are
\* committed meanwhile are committed no earlier than its transaction began.
LEMMA CountKept ==
    ASSUME NEW f, NEW f2, NEW g, NEW g2, NEW z, NEW z2, NEW n \in Moves,
           f[Move(n)] # None => clock \in Int /\ f[Move(n)].at \in Int /\ f[Move(n)].at <= clock,
           f2[Move(n)] = f[Move(n)],
           \A m \in Moves : f[Move(m)] # None => f2[Move(m)] = f[Move(m)],
           \A m \in Moves : g2[Move(m)] # None =>
              (g2[Move(m)] = g[Move(m)] /\ z2[m] = z[m]) \/ z2[m] = clock,
           Counted(f, g, z, n)
    PROVE  Counted(f2, g2, z2, n)
<1>. SUFFICES ASSUME f2[Move(n)] # None, f2[Move(n)].duracao # None
              PROVE  /\ \A m \in Moves \ {n} :
                          g2[Move(m)] # None /\ g2[Move(m)].card = f2[Move(n)].card /\ z2[m] < f2[Move(n)].at
                          => NotBefore(f2[Move(n)], g2[Move(m)])
                     /\ \E m \in Moves \ {n} : f2[Move(m)] # None /\ BackTo(f2[Move(n)], f2[Move(m)])
  BY DEF Counted
<1>1. /\ \A m \in Moves \ {n} :
            g[Move(m)] # None /\ g[Move(m)].card = f[Move(n)].card /\ z[m] < f[Move(n)].at
            => NotBefore(f[Move(n)], g[Move(m)])
      /\ \E m \in Moves \ {n} : f[Move(m)] # None /\ BackTo(f[Move(n)], f[Move(m)])
  BY DEF Counted
<1>2. ~(clock < f[Move(n)].at)
  OBVIOUS
<1>3. ASSUME NEW m \in Moves \ {n}, g2[Move(m)] # None, g2[Move(m)].card = f2[Move(n)].card,
             z2[m] < f2[Move(n)].at
      PROVE  NotBefore(f2[Move(n)], g2[Move(m)])
  <2>1. g2[Move(m)] = g[Move(m)] /\ z2[m] = z[m]
    BY <1>2, <1>3
  <2>. QED
    BY <1>1, <1>3, <2>1
<1>. QED
  BY <1>1, <1>3

\* The movements a transaction reads, and the committed ones among them.
LEMMA MovesRead ==
    ASSUME TypeInv, RowsInv, CountInv, NEW s \in Sessions, NEW m \in Moves
    PROVE  /\ ViewOf(s)[Move(m)] = View(s, Move(m))
           /\ db[Move(m)] # None => View(s, Move(m)) = db[Move(m)]
           /\ Move(m) \in DOMAIN work[s] => View(s, Move(m)) # None
           /\ clock \in Int
           /\ View(s, Move(m)) # None =>
                View(s, Move(m)).at \in Int /\ View(s, Move(m)).at <= clock
           /\ db[Move(m)] # None => db[Move(m)].at \in Int /\ db[Move(m)].at <= clock
<1>1. Move(m) \in Rows
  BY KeysOfRows
<1>2. ViewOf(s)[Move(m)] = View(s, Move(m))
  BY <1>1 DEF ViewOf
<1>3. db[Move(m)] # None => View(s, Move(m)) = db[Move(m)]
  BY DEF CountInv, View
<1>4. clock \in Int
  BY AttendanceAssumption DEF TypeInv, Times
<1>5. ASSUME NEW row, Good(Move(m), row) PROVE row # None /\ row.at \in Int /\ row.at <= clock
  <2>1. row \in MovimentoRow /\ row.at <= clock /\ row \in RowOf(Move(m))
    BY <1>5, GoodRows, TableOf
  <2>. QED
    BY <1>1, <2>1, RowAssumption, AttendanceAssumption DEF MovimentoRow, Times
<1>6. View(s, Move(m)) # None => Good(Move(m), View(s, Move(m)))
  BY <1>1, ReadsGood
<1>7. db[Move(m)] # None => Good(Move(m), db[Move(m)])
  BY <1>1 DEF RowsInv
<1>8. Move(m) \in DOMAIN work[s] => Good(Move(m), View(s, Move(m)))
  BY DEF RowsInv, View
<1>. QED
  BY <1>2, <1>3, <1>4, <1>5, <1>6, <1>7, <1>8

LEMMA OldRowsGood ==
    ASSUME Init, NEW r \in Rows
    PROVE  /\ OldRow(r) # None => Good(r, OldRow(r))
           /\ \A m \in Moves : OldRow(Move(m)) = None
           /\ \A c : OldRow(Card(c)) \in
                {New(0), None} \cup {Taken(Busy[d]) : d \in DOMAIN Busy \cap {c}}
<1>0. clock = 0 /\ 0 \in Times /\ None \notin Nat /\ 0 <= 0
  BY AttendanceAssumption DEF Init, Times
<1>1. \A c \in DOMAIN Busy : Busy[c] \in Agents
  BY AttendanceAssumption
<1>2. New(0) \in AtendimentoRow /\ Hire \in AtendenteRow
  BY <1>0 DEF New, AtendimentoRow, Hire, AtendenteRow, Active
<1>3. ASSUME NEW a \in Agents
      PROVE  /\ Taken(a) \in AtendimentoRow
             /\ Taken(a).status = "em_atendimento" /\ Taken(a).fim = None /\ Taken(a).inicio = 0
  BY <1>0 DEF Taken, New, AtendimentoRow, Active
<1>4. New(0).status = "fila" /\ New(0).fim = None /\ New(0).inicio = 0
  BY DEF New
<1>5. \A c : Good(Card(c), New(0)) /\ \A a \in Agents : Good(Card(c), Taken(a))
  BY <1>0, <1>2, <1>3, <1>4, GoodRows DEF Closed
<1>6. \A a : Good(Agent(a), Hire)
  BY <1>2, GoodRows
<1>7. OldRow(r) # None => Good(r, OldRow(r))
  <2>1. CASE r \in {Card(c) : c \in DOMAIN Busy}
    <3>1. PICK c \in DOMAIN Busy : r = Card(c)
      BY <2>1
    <3>2. OldRow(r) = Taken(Busy[c])
      BY <2>1, <3>1, TableOf DEF OldRow
    <3>. QED
      BY <1>1, <1>5, <3>1, <3>2
  <2>2. CASE r \in {Card(c) : c \in OldCards \ DOMAIN Busy}
    <3>1. r \notin {Card(c) : c \in DOMAIN Busy} /\ r \notin {Agent(a) : a \in OldAgents}
      BY <2>2, TableOf
    <3>2. OldRow(r) = New(0)
      BY <2>2, <3>1 DEF OldRow
    <3>. QED
      BY <1>5, <2>2, <3>2
  <2>3. CASE r \in {Agent(a) : a \in OldAgents}
    <3>1. r \notin {Card(c) : c \in DOMAIN Busy} /\ r \notin {Card(c) : c \in OldCards \ DOMAIN Busy}
      BY <2>3, TableOf
    <3>2. OldRow(r) = Hire
      BY <2>3, <3>1 DEF OldRow
    <3>. QED
      BY <1>6, <2>3, <3>2
  <2>4. CASE /\ r \notin {Card(c) : c \in DOMAIN Busy}
              /\ r \notin {Card(c) : c \in OldCards \ DOMAIN Busy}
              /\ r \notin {Agent(a) : a \in OldAgents}
    BY <2>4 DEF OldRow
  <2>. QED
    BY <2>1, <2>2, <2>3, <2>4
<1>8. \A m \in Moves : OldRow(Move(m)) = None
  BY TableOf DEF OldRow
<1>9. ASSUME NEW c
      PROVE  OldRow(Card(c)) \in {New(0), None} \cup {Taken(Busy[d]) : d \in DOMAIN Busy \cap {c}}
  <2>1. CASE c \in DOMAIN Busy
    <3>1. Card(c) \in {Card(d) : d \in DOMAIN Busy} /\ Card(c)[2] = c
      BY <2>1, TableOf
    <3>2. /\ Card(c) \notin {Card(d) : d \in OldCards \ DOMAIN Busy}
          /\ Card(c) \notin {Agent(a) : a \in OldAgents}
      BY <2>1, TableOf
    <3>3. OldRow(Card(c)) = Taken(Busy[c])
      BY <3>1, <3>2 DEF OldRow
    <3>. QED
      BY <2>1, <3>3
  <2>2. CASE c \notin DOMAIN Busy
    <3>1. Card(c) \notin {Card(d) : d \in DOMAIN Busy} /\ Card(c) \notin {Agent(a) : a \in OldAgents}
      BY <2>2, TableOf
    <3>2. CASE Card(c) \in {Card(d) : d \in OldCards \ DOMAIN Busy}
      <4>1. OldRow(Card(c)) = New(0)
        BY <3>1, <3>2 DEF OldRow
      <4>. QED
        BY <4>1
    <3>3. CASE Card(c) \notin {Card(d) : d \in OldCards \ DOMAIN Busy}
      <4>1. OldRow(Card(c)) = None
        BY <3>1, <3>3 DEF OldRow
      <4>. QED
        BY <4>1
    <3>. QED
      BY <3>2, <3>3
  <2>. QED
    BY <2>1, <2>2
<1>. QED
  BY <1>7, <1>8, <1>9

LEMMA BaseInit == Init => BaseInv
<1>. SUFFICES ASSUME Init PROVE BaseInv
  OBVIOUS
<1>1. /\ DOMAIN db = Rows /\ \A r \in Rows : db[r] = OldRow(r)
      /\ DOMAIN work = Sessions /\ \A s \in Sessions : work[s] = << >> /\ DOMAIN work[s] = {}
      /\ tx = [s \in Sessions |-> 0] /\ choice = [s \in Sessions |-> None]
      /\ clock = 0 /\ since = [m \in Moves |-> 0] /\ overlap = FALSE /\ manual = FALSE
  BY DEF Init
<1>2. 0 \in Times
  BY AttendanceAssumption DEF Times
<1>3. TypeInv
  BY <1>1, <1>2 DEF TypeInv
<1>4. RowsInv
  BY <1>1, OldRowsGood DEF RowsInv
<1>5. ClockInv
  BY <1>1 DEF ClockInv
<1>6. CountInv
  <2>1. \A m \in Moves : Move(m) \in Rows /\ db[Move(m)] = None
    BY <1>1, KeysOfRows, OldRowsGood
  <2>2. \A m \in Moves : \A s \in Sessions : ViewOf(s)[Move(m)] = None
    BY <1>1, <2>1 DEF ViewOf, View
  <2>. QED
    BY <1>1, <2>1, <2>2 DEF CountInv, Counted
<1>. QED
  BY <1>3, <1>4, <1>5, <1>6 DEF BaseInv

\* BEGIN.
LEMMA BaseBegin ==
    ASSUME BaseInv, NEW s \in Sessions, BeginTx(s)
    PROVE  BaseInv'
<1>1. TypeInv /\ RowsInv /\ ClockInv /\ CountInv
  BY DEF BaseInv
<1>2. PICK now \in clock + 1 .. MaxTime :
        /\ tx[s] = 0 /\ clock' = now /\ tx' = [tx EXCEPT ![s] = now]
        /\ overlap' = (overlap \/ \E t \in Sessions : tx[t] # 0)
        /\ UNCHANGED <<db, work, choice, since, manual>>
  BY DEF BeginTx
<1>3. /\ clock \in Nat /\ now \in Times /\ now # 0 /\ clock < now
      /\ tx' \in [Sessions -> Times] /\ tx'[s] = now
      /\ \A t \in Sessions \ {s} : tx'[t] = tx[t]
  BY <1>1, <1>2, AttendanceAssumption DEF TypeInv, Times
<1>4. TypeInv'
  BY <1>1, <1>2, <1>3 DEF TypeInv
<1>5. \A r \in Rows : \A row : Good(r, row) => Good(r, row)'
  <2>1. ASSUME NEW r \in Rows, NEW row, Good(r, row) PROVE Good(r, row)'
    <3>1. \A n \in Nat : n <= clock => n <= clock'
      BY <1>2, <1>3
    <3>2. r[1] = "atendimento" => row.inicio \in Nat
      BY <2>1 DEF Good, RowOf, AtendimentoRow, Times
    <3>3. r[1] = "movimento" => row.at \in Nat
      BY <2>1 DEF Good, RowOf, MovimentoRow, Times
    <3>4. r[1] = "contato" => row.ultima \in Nat
      BY <2>1 DEF Good, RowOf, ContatoRow, Times
    <3>. QED
      BY <1>2, <2>1, <3>1, <3>2, <3>3, <3>4 DEF Good
  <2>. QED
    BY <2>1
<1>6. \A r, x, y : Keeps(r, x, y) => Keeps(r, x, y)'
  BY <1>2 DEF Keeps
<1>7. RowsInv'
  BY <1>1, <1>2, <1>5, <1>6 DEF RowsInv, TypeInv
<1>8. ClockInv'
  <2>1. \A t \in Sessions : tx'[t] <= clock'
    <3>1. ASSUME NEW t \in Sessions PROVE tx'[t] <= clock'
      <4>1. tx[t] \in Nat /\ tx[t] <= clock
        BY <1>1 DEF TypeInv, ClockInv, Times
      <4>. QED
        BY <1>2, <1>3, <4>1
    <3>. QED
      BY <3>1
  <2>2. ASSUME ~overlap', NEW t \in Sessions, NEW u \in Sessions, tx'[t] # 0
        PROVE  tx'[t] = clock' /\ (t # u => tx'[u] = 0)
    BY <1>2, <1>3, <2>2
  <2>. QED
    BY <2>1, <2>2 DEF ClockInv
<1>9. CountInv'
  <2>1. \A t : ViewOf(t)' = ViewOf(t)
    BY <1>2 DEF ViewOf, View
  <2>. QED
    BY <1>1, <1>2, <2>1 DEF CountInv, Counted, NotBefore, BackTo
<1>. QED
  BY <1>4, <1>7, <1>8, <1>9 DEF BaseInv

\* COMMIT and ROLLBACK.
LEMMA BaseEnd ==
    ASSUME BaseInv, NEW s \in Sessions, CommitTx(s) \/ RollbackTx(s)
    PROVE  BaseInv'
<1>1. TypeInv /\ RowsInv /\ ClockInv /\ CountInv
  BY DEF BaseInv
<1>2. /\ tx[s] # 0 /\ tx' = [tx EXCEPT ![s] = 0] /\ work' = [work EXCEPT ![s] = << >>]
      /\ choice' = [choice EXCEPT ![s] = None] /\ UNCHANGED <<clock, overlap, manual>>
      /\ \/ db' = ViewOf(s)
            /\ since' = [m \in Moves |-> IF Move(m) \in DOMAIN work[s] THEN clock ELSE since[m]]
         \/ db' = db /\ since' = since
  BY DEF CommitTx, RollbackTx, EndTx, ViewOf
<1>3. /\ tx'[s] = 0 /\ work'[s] = << >> /\ choice'[s] = None /\ DOMAIN << >> = {}
      /\ \A t \in Sessions \ {s} : tx'[t] = tx[t] /\ work'[t] = work[t] /\ choice'[t] = choice[t]
      /\ DOMAIN work' = Sessions
  BY <1>1, <1>2 DEF TypeInv
<1>4. /\ DOMAIN db' = Rows
      /\ \A r \in Rows : db'[r] = View(s, r) \/ db'[r] = db[r]
      /\ \A r \in Rows : r \notin DOMAIN work[s] => db'[r] = db[r]
  BY <1>1, <1>2 DEF ViewOf, View, TypeInv
<1>5. TypeInv'
  <2>1. tx' \in [Sessions -> Times] /\ choice' \in [Sessions -> Agents \cup {None}]
    BY <1>1, <1>2, AttendanceAssumption DEF TypeInv, Times
  <2>2. since' \in [Moves -> Times]
    BY <1>1, <1>2 DEF TypeInv
  <2>. QED
    BY <1>1, <1>2, <1>3, <1>4, <2>1, <2>2 DEF TypeInv
<1>6. RowsInv'
  <2>1. \A r, row : Good(r, row)' <=> Good(r, row)
    BY <1>2 DEF Good
  <2>2. \A r, x, y : Keeps(r, x, y)' <=> Keeps(r, x, y)
    BY <1>2 DEF Keeps
  <2>3. \A r \in Rows : db'[r] # None => Good(r, db'[r])
    BY <1>1, <1>4, ReadsGood DEF RowsInv
  <2>4. ASSUME NEW t \in Sessions \ {s}, NEW r \in DOMAIN work[t]
        PROVE  Good(r, work[t][r]) /\ (db'[r] # None => Keeps(r, db'[r], work[t][r]))
    <3>1. r \in Rows /\ r \notin DOMAIN work[s]
      BY <1>1, <2>4 DEF TypeInv
    <3>. QED
      BY <1>1, <1>4, <3>1 DEF RowsInv
  <2>5. \A t \in Sessions : \A r \in DOMAIN work'[t] :
           Good(r, work'[t][r]) /\ (db'[r] # None => Keeps(r, db'[r], work'[t][r]))
    BY <1>3, <2>4
  <2>. QED
    BY <2>1, <2>2, <2>3, <2>5 DEF RowsInv, Good, Keeps
<1>7. ClockInv'
  <2>1. \A t \in Sessions : tx[t] \in Nat /\ clock \in Nat
    BY <1>1 DEF TypeInv, Times
  <2>. QED
    BY <1>1, <1>2, <1>3, <2>1 DEF ClockInv
<1>8. CountInv'
  <2>1. ASSUME NEW m \in Moves
        PROVE  /\ db[Move(m)] # None => db'[Move(m)] = db[Move(m)] /\ since'[m] = since[m]
               /\ db'[Move(m)] # None =>
                    (db'[Move(m)] = db[Move(m)] /\ since'[m] = since[m]) \/ since'[m] = clock
    <3>1. CASE db' = db /\ since' = since
      BY <3>1
    <3>2. CASE /\ db' = ViewOf(s)
               /\ since' = [k \in Moves |-> IF Move(k) \in DOMAIN work[s] THEN clock ELSE since[k]]
      <4>1. db'[Move(m)] = View(s, Move(m))
        BY <1>1, <2>1, <3>2, MovesRead
      <4>2. CASE Move(m) \in DOMAIN work[s]
        BY <1>1, <2>1, <3>2, <4>2 DEF CountInv
      <4>3. CASE Move(m) \notin DOMAIN work[s]
        BY <2>1, <3>2, <4>1, <4>3 DEF View
      <4>. QED
        BY <4>2, <4>3
    <3>. QED
      BY <1>2, <3>1, <3>2
  <2>2. \A m \in Moves : db'[Move(m)] # None =>
            (db'[Move(m)] = db[Move(m)] /\ since'[m] = since[m]) \/ since'[m] = clock
    BY <2>1
  <2>3. \A m \in Moves : db[Move(m)] # None => db'[Move(m)] = db[Move(m)]
    BY <2>1
  <2>4. ASSUME NEW n \in Moves PROVE Counted(db', db', since', n)
    <3>1. CASE db'[Move(n)] = db[Move(n)]
      <4>1. Counted(db, db, since, n)
        BY <1>1 DEF CountInv
      <4>2. db[Move(n)] # None => clock \in Int /\ db[Move(n)].at \in Int /\ db[Move(n)].at <= clock
        BY <1>1, MovesRead
      <4>. QED
        BY <2>2, <2>3, <3>1, <4>1, <4>2, CountKept
    <3>2. CASE db'[Move(n)] # db[Move(n)]
      <4>1. db' = ViewOf(s)
        BY <1>2, <3>2
      <4>2. Counted(ViewOf(s), db, since, n)
        BY <1>1 DEF CountInv
      <4>3. ViewOf(s)[Move(n)] # None => /\ clock \in Int /\ ViewOf(s)[Move(n)].at \in Int
                                         /\ ViewOf(s)[Move(n)].at <= clock
        BY <1>1, MovesRead
      <4>. QED
        BY <2>2, <4>1, <4>2, <4>3, CountKept
    <3>. QED
      BY <3>1, <3>2
  <2>5. \A m \in Moves : View(s, Move(m))' = db'[Move(m)]
    BY <1>3 DEF View
  <2>6. ASSUME NEW t \in Sessions \ {s}, NEW m \in Moves
        PROVE  /\ View(t, Move(m))' = IF Move(m) \in DOMAIN work[t] THEN work[t][Move(m)] ELSE db'[Move(m)]
               /\ Move(m) \in DOMAIN work[t] => db'[Move(m)] = None /\ db[Move(m)] = None
               /\ View(t, Move(m)) # None => View(t, Move(m))' = View(t, Move(m))
               /\ db'[Move(m)] # None => View(t, Move(m))' = db'[Move(m)]
    <3>1. View(t, Move(m))' = IF Move(m) \in DOMAIN work[t] THEN work[t][Move(m)] ELSE db'[Move(m)]
      BY <1>3 DEF View
    <3>2. ASSUME Move(m) \in DOMAIN work[t] PROVE db'[Move(m)] = None /\ db[Move(m)] = None
      <4>1. db[Move(m)] = None /\ Move(m) \notin DOMAIN work[s] /\ Move(m) \in Rows
        BY <1>1, <3>2, KeysOfRows DEF CountInv, TypeInv
      <4>. QED
        BY <1>4, <4>1
    <3>3. Move(m) \notin DOMAIN work[t] => View(t, Move(m)) = db[Move(m)]
      BY DEF View
    <3>4. Move(m) \in DOMAIN work[t] => View(t, Move(m)) = work[t][Move(m)]
      BY DEF View
    <3>. QED
      BY <2>1, <3>1, <3>2, <3>3, <3>4
  <2>7. ASSUME NEW t \in Sessions, NEW n \in Moves PROVE Counted(ViewOf(t)', db', since', n)
    <3>0. \A m \in Moves : ViewOf(t)'[Move(m)] = View(t, Move(m))'
      BY KeysOfRows DEF ViewOf
    <3>1. CASE View(t, Move(n))' = db'[Move(n)]
      <4>1. db'[Move(n)] # None => clock \in Int /\ db'[Move(n)].at \in Int /\ db'[Move(n)].at <= clock
        BY <1>1, <1>2, MovesRead
      <4>2. \A m \in Moves : db'[Move(m)] # None => View(t, Move(m))' = db'[Move(m)]
        BY <2>5, <2>6
      <4>3. \A m \in Moves : db'[Move(m)] # None => ViewOf(t)'[Move(m)] = db'[Move(m)]
        BY <3>0, <4>2
      <4>4. ViewOf(t)'[Move(n)] = db'[Move(n)]
        BY <3>0, <3>1
      <4>. QED
        BY <2>4, <4>1, <4>3, <4>4, CountKept
    <3>2. CASE View(t, Move(n))' # db'[Move(n)]
      <4>1. t # s /\ Move(n) \in DOMAIN work[t] /\ View(t, Move(n))' = View(t, Move(n))
        <5>1. t # s
          BY <2>5, <3>2
        <5>2. Move(n) \in DOMAIN work[t] /\ View(t, Move(n))' = work[t][Move(n)]
          BY <2>6, <3>2, <5>1
        <5>. QED
          BY <5>1, <5>2 DEF View
      <4>2. Counted(ViewOf(t), db, since, n)
        BY <1>1 DEF CountInv
      <4>3. ViewOf(t)[Move(n)] # None => /\ clock \in Int /\ ViewOf(t)[Move(n)].at \in Int
                                         /\ ViewOf(t)[Move(n)].at <= clock
        BY <1>1, MovesRead
      <4>4. \A m \in Moves : ViewOf(t)[Move(m)] = View(t, Move(m))
        BY <1>1, MovesRead
      <4>5. \A m \in Moves : ViewOf(t)[Move(m)] # None => ViewOf(t)'[Move(m)] = ViewOf(t)[Move(m)]
        BY <2>6, <3>0, <4>1, <4>4
      <4>6. ViewOf(t)'[Move(n)] = ViewOf(t)[Move(n)]
        BY <3>0, <4>1, <4>4
      <4>. QED
        BY <2>2, <4>2, <4>3, <4>5, <4>6, CountKept
    <3>. QED
      BY <3>1, <3>2
  <2>8. \A t \in Sessions : \A m \in Moves : Move(m) \in DOMAIN work'[t] => db'[Move(m)] = None
    BY <1>3, <2>6
  <2>. QED
    BY <2>4, <2>7, <2>8 DEF CountInv
<1>. QED
  BY <1>5, <1>6, <1>7, <1>8 DEF BaseInv

\* The choice reads, and remembers the attendant.
LEMMA BaseChoice ==
    ASSUME BaseInv, NEW s \in Sessions, NEW a \in Agents, BuscarDisponivelRoundRobin(s, a)
    PROVE  BaseInv'
<1>1. TypeInv /\ RowsInv /\ ClockInv /\ CountInv
  BY DEF BaseInv
<1>2. /\ tx[s] # 0 /\ choice' = [choice EXCEPT ![s] = a]
      /\ UNCHANGED <<db, work, tx, clock, since, overlap, manual>>
  BY DEF BuscarDisponivelRoundRobin
<1>3. TypeInv'
  BY <1>1, <1>2 DEF TypeInv
<1>4. RowsInv' /\ ClockInv'
  BY <1>1, <1>2 DEF RowsInv, ClockInv, Good, Keeps
<1>5. \A t : ViewOf(t)' = ViewOf(t)
  BY <1>2 DEF ViewOf, View
<1>6. CountInv'
  BY <1>1, <1>2, <1>5 DEF CountInv, Counted, NotBefore, BackTo
<1>. QED
  BY <1>3, <1>4, <1>6 DEF BaseInv

\* A statement on other rows than movements.
LEMMA BaseStatement ==
    ASSUME BaseInv, NEW s \in Sessions, NEW W, DOMAIN W \subseteq Rows, Statement(s, W),
           \A r \in DOMAIN W : /\ r[1] # "movimento" /\ Good(r, W[r])
                               /\ View(s, r) # None => Keeps(r, View(s, r), W[r]),
           choice' \in [Sessions -> Agents \cup {None}],
           \A t \in Sessions : choice'[t] # choice[t] => t = s,
           manual' \in BOOLEAN
    PROVE  BaseInv'
<1>1. TypeInv /\ RowsInv /\ ClockInv /\ CountInv
  BY DEF BaseInv
<1>2. TypeInv' /\ RowsInv' /\ ClockInv'
  BY <1>1, WritesKeepRows
<1>3. \A t \in Sessions : \A m \in Moves : ViewOf(t)'[Move(m)] = ViewOf(t)[Move(m)]
  <2>1. ASSUME NEW t \in Sessions, NEW m \in Moves PROVE View(t, Move(m))' = View(t, Move(m))
    <3>1. Move(m) \notin DOMAIN W
      BY TableOf
    <3>. QED
      BY <1>1, <3>1, ReadsAfter
  <2>. QED
    BY <2>1, KeysOfRows DEF ViewOf
<1>4. db' = db /\ since' = since
  BY DEF Statement
<1>5. CountInv'
  <2>1. ASSUME NEW t \in Sessions, NEW n \in Moves PROVE Counted(ViewOf(t)', db, since, n)
    <3>1. Counted(ViewOf(t), db, since, n)
      BY <1>1 DEF CountInv
    <3>2. ViewOf(t)[Move(n)] # None => /\ clock \in Int /\ ViewOf(t)[Move(n)].at \in Int
                                       /\ ViewOf(t)[Move(n)].at <= clock
      BY <1>1, MovesRead
    <3>. QED
      BY <1>3, <3>1, <3>2, CountKept
  <2>2. ASSUME NEW t \in Sessions, NEW m \in Moves, Move(m) \in DOMAIN work'[t]
        PROVE  Move(m) \in DOMAIN work[t]
    <3>1. Move(m) \notin DOMAIN W
      BY TableOf
    <3>. QED
      BY <1>1, <2>2, <3>1 DEF Statement, Over, TypeInv
  <2>. QED
    BY <1>1, <1>4, <2>1, <2>2 DEF CountInv
<1>. QED
  BY <1>2, <1>5 DEF BaseInv

\* A new movement.
LEMMA BaseMovement ==
    ASSUME BaseInv, NEW s \in Sessions, MovimentoCall(s)
    PROVE  BaseInv'
<1>1. TypeInv /\ RowsInv /\ ClockInv /\ CountInv
  BY DEF BaseInv
<1>2. PICK m \in Moves : \E row :
             /\ WritesRow(s, Move(m), row) /\ View(s, Move(m)) = None /\ db[Move(m)] = None
             /\ UNCHANGED <<choice, manual>>
             /\ row.at = tx[s]
             /\ row.duracao # None =>
                  /\ \A n \in Moves : View(s, Move(n)) # None /\ View(s, Move(n)).card = row.card
                       => NotBefore(row, View(s, Move(n)))
                  /\ \E n \in Moves : View(s, Move(n)) # None /\ BackTo(row, View(s, Move(n)))
  BY <1>1, MoveCalls
<1>3. PICK row :
             /\ WritesRow(s, Move(m), row) /\ View(s, Move(m)) = None /\ db[Move(m)] = None
             /\ UNCHANGED <<choice, manual>>
             /\ row.at = tx[s]
             /\ row.duracao # None =>
                  /\ \A n \in Moves : View(s, Move(n)) # None /\ View(s, Move(n)).card = row.card
                       => NotBefore(row, View(s, Move(n)))
                  /\ \E n \in Moves : View(s, Move(n)) # None /\ BackTo(row, View(s, Move(n)))
  BY <1>2
<1> DEFINE W == Only(Move(m), row)
<1>4. DOMAIN W = {Move(m)} /\ W[Move(m)] = row /\ Move(m) \in Rows
  BY OnlyRow, KeysOfRows
<1>5. Statement(s, W) /\ Good(Move(m), row)
  BY <1>3 DEF WritesRow
<1>. HIDE DEF W
<1>6. TypeInv' /\ RowsInv' /\ ClockInv'
  <2>1. choice' \in [Sessions -> Agents \cup {None}] /\ manual' \in BOOLEAN /\ choice' = choice
    BY <1>1, <1>3 DEF TypeInv
  <2>2. \A r \in DOMAIN W : Good(r, W[r]) /\ (View(s, r) # None => Keeps(r, View(s, r), W[r]))
    BY <1>3, <1>4, <1>5
  <2>3. DOMAIN W \subseteq Rows
    BY <1>4
  <2>. QED
    BY <1>1, <1>5, <2>1, <2>2, <2>3, WritesKeepRows
<1>7. db' = db /\ since' = since /\ tx[s] # 0
  BY <1>5 DEF Statement
<1>8. CountInv'
  <2>1. ASSUME NEW t \in Sessions \ {s}, NEW n \in Moves PROVE Counted(ViewOf(t)', db, since, n)
    <3>1. \A j \in Moves : ViewOf(t)'[Move(j)] = ViewOf(t)[Move(j)]
      BY <1>1, <1>5, ReadsAfter, KeysOfRows DEF ViewOf
    <3>2. Counted(ViewOf(t), db, since, n)
      BY <1>1 DEF CountInv
    <3>3. ViewOf(t)[Move(n)] # None => /\ clock \in Int /\ ViewOf(t)[Move(n)].at \in Int
                                       /\ ViewOf(t)[Move(n)].at <= clock
      BY <1>1, MovesRead
    <3>. QED
      BY <3>1, <3>2, <3>3, CountKept
  <2>2. \A j \in Moves : j # m => ViewOf(s)'[Move(j)] = View(s, Move(j))
    <3>1. ASSUME NEW j \in Moves, j # m PROVE View(s, Move(j))' = View(s, Move(j))
      <4>1. Move(j) \notin DOMAIN W
        BY <1>4, <3>1, TableOf
      <4>. QED
        BY <1>1, <1>5, <4>1, ReadsAfter
    <3>. QED
      BY <3>1, KeysOfRows DEF ViewOf
  <2>3. ViewOf(s)'[Move(m)] = row
    <3>1. View(s, Move(m))' = row
      BY <1>1, <1>4, <1>5, ReadsAfter
    <3>. QED
      BY <1>4, <3>1 DEF ViewOf
  <2>4. ASSUME NEW n \in Moves, n # m PROVE Counted(ViewOf(s)', db, since, n)
    <3>1. Counted(ViewOf(s), db, since, n)
      BY <1>1 DEF CountInv
    <3>2. ViewOf(s)[Move(n)] # None => /\ clock \in Int /\ ViewOf(s)[Move(n)].at \in Int
                                       /\ ViewOf(s)[Move(n)].at <= clock
      BY <1>1, MovesRead
    <3>3. \A j \in Moves : ViewOf(s)[Move(j)] = View(s, Move(j))
      BY <1>1, MovesRead
    <3>4. \A j \in Moves : ViewOf(s)[Move(j)] # None => ViewOf(s)'[Move(j)] = ViewOf(s)[Move(j)]
      BY <1>3, <2>2, <3>3
    <3>. QED
      BY <2>2, <2>4, <3>1, <3>2, <3>3, <3>4, CountKept
  <2>5. Counted(ViewOf(s)', db, since, m)
    <3>. SUFFICES ASSUME row.duracao # None
                  PROVE  /\ \A k \in Moves \ {m} : db[Move(k)] # None /\ db[Move(k)].card = row.card
                              => NotBefore(row, db[Move(k)])
                         /\ \E k \in Moves \ {m} :
                              ViewOf(s)'[Move(k)] # None /\ BackTo(row, ViewOf(s)'[Move(k)])
      BY <2>3 DEF Counted
    <3>1. \A k \in Moves : db[Move(k)] # None => View(s, Move(k)) = db[Move(k)]
      BY <1>1, MovesRead
    <3>2. PICK k \in Moves : View(s, Move(k)) # None /\ BackTo(row, View(s, Move(k)))
      BY <1>3
    <3>3. k # m
      BY <1>3, <3>2
    <3>4. \A j \in Moves : db[Move(j)] # None /\ db[Move(j)].card = row.card => NotBefore(row, db[Move(j)])
      BY <1>3, <3>1
    <3>. QED
      BY <2>2, <3>2, <3>3, <3>4
  <2>6. ASSUME NEW t \in Sessions, NEW k \in Moves, Move(k) \in DOMAIN work'[t]
        PROVE  db[Move(k)] = None
    <3>1. Move(k) \in DOMAIN work[t] \/ Move(k) \in DOMAIN W
      BY <1>1, <1>5, <2>6 DEF Statement, Over, TypeInv
    <3>. QED
      BY <1>1, <1>3, <1>4, <3>1 DEF CountInv
  <2>. QED
    BY <1>1, <1>7, <2>1, <2>4, <2>5, <2>6 DEF CountInv
<1>. QED
  BY <1>6, <1>8 DEF BaseInv

LEMMA BaseNext == BaseInv /\ [Next]_vars => BaseInv'
<1>. SUFFICES ASSUME BaseInv, [Next]_vars PROVE BaseInv'
  OBVIOUS
<1>1. TypeInv /\ RowsInv /\ ClockInv /\ CountInv
  BY DEF BaseInv
<1>2. CASE UNCHANGED vars
  <2>1. UNCHANGED <<db, work, tx, choice, clock, since, overlap, manual>>
    BY <1>2 DEF vars
  <2>2. TypeInv'
    BY <1>1, <2>1 DEF TypeInv
  <2>3. RowsInv' /\ ClockInv'
    BY <1>1, <2>1 DEF RowsInv, ClockInv, Good, Keeps
  <2>4. \A t : ViewOf(t)' = ViewOf(t)
    BY <2>1 DEF ViewOf, View
  <2>5. CountInv'
    BY <1>1, <2>1, <2>4 DEF CountInv, Counted, NotBefore, BackTo
  <2>. QED
    BY <2>2, <2>3, <2>5 DEF BaseInv
<1>3. ASSUME NEW s \in Sessions, BeginTx(s) PROVE BaseInv'
  BY <1>3, BaseBegin
<1>4. ASSUME NEW s \in Sessions, CommitTx(s) \/ RollbackTx(s) PROVE BaseInv'
  BY <1>4, BaseEnd
<1>5. ASSUME NEW s \in Sessions, AtendimentoCall(s) PROVE BaseInv'
  <2>1. PICK c \in Cards : \E row :
             /\ WritesRow(s, Card(c), row)
             /\ manual' \in BOOLEAN
             /\ choice' = choice \/ choice' = [choice EXCEPT ![s] = None]
    BY <1>1, <1>5, CardCalls
  <2>2. PICK row :
             /\ WritesRow(s, Card(c), row)
             /\ manual' \in BOOLEAN
             /\ choice' = choice \/ choice' = [choice EXCEPT ![s] = None]
    BY <2>1
  <2> DEFINE W == Only(Card(c), row)
  <2>3. DOMAIN W = {Card(c)} /\ W[Card(c)] = row /\ Card(c) \in Rows /\ Card(c)[1] = "atendimento"
    <3>1. DOMAIN W = {Card(c)} /\ W[Card(c)] = row
      BY OnlyRow
    <3>2. Card(c) \in Rows
      BY KeysOfRows
    <3>3. Card(c)[1] = "atendimento"
      BY TableOf
    <3>. QED
      BY <3>1, <3>2, <3>3
  <2>4. /\ Statement(s, W) /\ Good(Card(c), row)
        /\ View(s, Card(c)) # None => Keeps(Card(c), View(s, Card(c)), row)
    BY <2>2 DEF WritesRow
  <2>. HIDE DEF W
  <2>5. /\ choice' \in [Sessions -> Agents \cup {None}]
        /\ \A t \in Sessions : choice'[t] # choice[t] => t = s
    BY <1>1, <2>2 DEF TypeInv
  <2>6. /\ DOMAIN W \subseteq Rows
        /\ \A r \in DOMAIN W : /\ r[1] # "movimento" /\ Good(r, W[r])
                               /\ View(s, r) # None => Keeps(r, View(s, r), W[r])
    BY <2>3, <2>4
  <2>. QED
    BY <2>2, <2>4, <2>5, <2>6, BaseStatement
<1>6. ASSUME NEW s \in Sessions,
             \/ \E a \in Agents : \/ CriarAtendente(s, a) \/ AtualizarUltimaAtribuicao(s, a)
                                  \/ \E disponivel \in BOOLEAN : AtualizarDisponibilidade(s, a, disponivel)
             \/ MensagemCall(s) \/ ContatoCall(s)
      PROVE  BaseInv'
  <2>1. PICK W : /\ Statement(s, W) /\ DOMAIN W \subseteq Rows
                 /\ \A r \in DOMAIN W : /\ r[1] \notin {"atendimento", "movimento"}
                                        /\ Good(r, W[r])
                                        /\ View(s, r) # None => Keeps(r, View(s, r), W[r])
                 /\ UNCHANGED <<choice, manual>>
    BY <1>1, <1>6, OtherCalls
  <2>2. /\ choice' \in [Sessions -> Agents \cup {None}] /\ manual' \in BOOLEAN
        /\ \A t \in Sessions : choice'[t] = choice[t]
    BY <1>1, <2>1 DEF TypeInv
  <2>. QED
    BY <2>1, <2>2, BaseStatement
<1>7. ASSUME NEW s \in Sessions, MovimentoCall(s) PROVE BaseInv'
  BY <1>7, BaseMovement
<1>8. ASSUME NEW s \in Sessions, NEW a \in Agents, BuscarDisponivelRoundRobin(s, a) PROVE BaseInv'
  BY <1>8, BaseChoice
<1>. QED
  BY <1>2, <1>3, <1>4, <1>5, <1>6, <1>7, <1>8 DEF Next, AtendenteCall

LEMMA BaseInvariant == Spec => []BaseInv
  BY BaseInit, BaseNext, PTL DEF Spec

-----------------------------------------------------------------------------
\* The rows of every table are of its shape, a connection without a transaction holds no
\* work and no choice, and no two transactions hold one row (the locks of UPDATE).
THEOREM RowsAreTyped == Spec => []AttendanceTypeOK
<1>1. BaseInv => AttendanceTypeOK
  <2>. SUFFICES ASSUME BaseInv PROVE AttendanceTypeOK
    OBVIOUS
  <2>1. TypeInv /\ RowsInv
    BY DEF BaseInv
  <2>2. \A r \in Rows : db[r] \in RowOf(r) \cup {None}
    BY <2>1 DEF RowsInv, Good
  <2>3. \A s \in Sessions : \A r \in DOMAIN work[s] : work[s][r] \in RowOf(r)
    BY <2>1 DEF RowsInv, Good
  <2>. QED
    BY <2>1, <2>2, <2>3 DEF TypeInv, AttendanceTypeOK
<1>. QED
  BY <1>1, BaseInvariant, PTL

\* A closed attendance has the time it was closed at, whatever calls followed, and no
\* earlier than its start while transactions follow each other (AtualizarStatus).
THEOREM ClosedAttendancesEnd == Spec => []ClosedHasEnd
<1>1. BaseInv => ClosedHasEnd
  <2>. SUFFICES ASSUME BaseInv, NEW c \in Cards, Stored(Card(c))
       PROVE  /\ db[Card(c)].status \in Closed => db[Card(c)].fim # None
              /\ db[Card(c)].fim # None => overlap \/ db[Card(c)].fim >= db[Card(c)].inicio
    BY DEF ClosedHasEnd
  <2>1. Card(c) \in Rows /\ db[Card(c)] # None /\ RowsInv
    BY DEF BaseInv, Stored
  <2>2. Good(Card(c), db[Card(c)])
    BY <2>1 DEF RowsInv
  <2>. QED
    BY <2>2, GoodRows
<1>. QED
  BY <1>1, BaseInvariant, PTL

\* However transactions interleave, a movement counts no time from before one that was
\* committed when its transaction began, and reaches back to some movement of its
\* attendance, to the half second InSeconds rounds by (CriarMovimento, Duracao).
THEOREM TimeIsCountedOnce == Spec => []TimeCountedOnce
<1>1. BaseInv => TimeCountedOnce
  <2>. SUFFICES ASSUME BaseInv, NEW n \in Moves, db[Move(n)] # None, db[Move(n)].duracao # None
       PROVE  LET row    == db[Move(n)]
                  others == {m \in Moves \ {n} : Stored(Move(m)) /\ db[Move(m)].card = row.card}
                  Gap(m) == row.at - db[Move(m)].at
              IN  /\ \A m \in others :
                        since[m] < row.at => 2 * Second * row.duracao <= 2 * Gap(m) + Second
                  /\ \E m \in others : 2 * Second * row.duracao >= 2 * Gap(m) - Second
    BY DEF TimeCountedOnce, Stored
  <2>1. Counted(db, db, since, n)
    BY DEF BaseInv, CountInv
  <2>2. \A m \in Moves : db[Move(m)] # None => Stored(Move(m))
    BY KeysOfRows DEF Stored
  <2>3. \A m \in Moves : Stored(Move(m)) => db[Move(m)] # None
    BY DEF Stored
  <2>. QED
    BY <2>1, <2>2, <2>3 DEF Counted, NotBefore, BackTo
<1>. QED
  BY <1>1, BaseInvariant, PTL

\* What one transaction did to a row, a later one does not undo: an attendance keeps having
\* an attendant and an end, its bot stays off, a message stays read and answered, and a
\* contact keeps its name, and the latest of its interactions while transactions follow
\* each other.
THEOREM NothingIsUndone == Spec => NothingUndone
<1> DEFINE Kept == \A r \in Rows : Stored(r) =>
                     /\ r[1] = "atendimento" =>
                          /\ db[r].atendente # None => db'[r].atendente # None
                          /\ db[r].fim # None => db'[r].fim # None
                          /\ ~db[r].bot => ~db'[r].bot
                     /\ r[1] = "mensagem" =>
                          /\ db[r].lido => db'[r].lido
                          /\ db[r].respondida => db'[r].respondida
                     /\ r[1] = "contato" =>
                          /\ db[r].nome # None => db'[r].nome # None
                          /\ overlap \/ db'[r].ultima >= db[r].ultima
<1>1. BaseInv /\ [Next]_vars => [Kept]_vars
  <2>. SUFFICES ASSUME BaseInv, Next, NEW r \in Rows, db[r] # None
       PROVE  Keeps(r, db[r], db'[r])
    BY DEF Keeps, Stored
  <2>1. TypeInv /\ RowsInv /\ Good(r, db[r])
    BY DEF BaseInv, RowsInv
  <2>2. CASE db' = db
    BY <2>1, <2>2, KeepsAddUp
  <2>3. ASSUME NEW s \in Sessions, CommitTx(s) PROVE Keeps(r, db[r], db'[r])
    <3>1. db'[r] = View(s, r)
      BY <2>3 DEF CommitTx
    <3>2. CASE r \in DOMAIN work[s]
      BY <2>1, <3>1, <3>2 DEF RowsInv, View
    <3>3. CASE r \notin DOMAIN work[s]
      <4>1. db'[r] = db[r]
        BY <3>1, <3>3 DEF View
      <4>. QED
        BY <2>1, <4>1, KeepsAddUp
    <3>. QED
      BY <3>2, <3>3
  <2>4. (\E s \in Sessions : CommitTx(s)) \/ db' = db
    <3>1. \A s, W : Statement(s, W) => db' = db
      BY DEF Statement
    <3>2. \A s \in Sessions : BeginTx(s) \/ RollbackTx(s) => db' = db
      BY DEF BeginTx, RollbackTx
    <3>3. \A s \in Sessions : AtendimentoCall(s) => db' = db
      BY <2>1, <3>1, CardCalls DEF WritesRow, BaseInv
    <3>4. \A s \in Sessions : AtendenteCall(s) => db' = db
      BY <3>1 DEF AtendenteCall, CriarAtendente, BuscarDisponivelRoundRobin, AtualizarUltimaAtribuicao,
         AtualizarDisponibilidade, Update
    <3>5. \A s \in Sessions : MovimentoCall(s) => db' = db
      BY <3>1 DEF MovimentoCall, CriarMovimento, Insert
    <3>6. \A s \in Sessions : MensagemCall(s) \/ ContatoCall(s) => db' = db
      BY <2>1, <3>1, OtherCalls DEF BaseInv
    <3>. QED
      BY <3>2, <3>3, <3>4, <3>5, <3>6 DEF Next
  <2>. QED
    BY <2>2, <2>3, <2>4
<1>. QED
  BY <1>1, BaseInvariant, PTL DEF Spec, NothingUndone

-----------------------------------------------------------------------------
(***************************************************************************)
(* The limit of an attendant.                                              *)
(***************************************************************************)
LEMMA AtMostLess ==
    ASSUME NEW S, NEW n \in Nat, AtMost(S, n), NEW T, T \subseteq S
    PROVE  AtMost(T, n)
<1>1. IsFiniteSet(S) /\ Cardinality(S) <= n /\ Cardinality(S) \in Nat
  BY FS_CardinalityType DEF AtMost
<1>2. IsFiniteSet(T) /\ Cardinality(T) <= Cardinality(S)
  BY <1>1, FS_Subset
<1>3. Cardinality(T) \in Nat
  BY <1>2, FS_CardinalityType
<1>4. Cardinality(T) <= n
  BY <1>1, <1>2, <1>3
<1>. QED
  BY <1>2, <1>4 DEF AtMost

LEMMA AtMostOneMore ==
    ASSUME NEW S, NEW n \in Nat, IsFiniteSet(S), Cardinality(S) < n, NEW x
    PROVE  AtMost(S \cup {x}, n)
<1>1. Cardinality(S) \in Nat
  BY FS_CardinalityType
<1>2. /\ IsFiniteSet(S \cup {x})
      /\ Cardinality(S \cup {x}) = IF x \in S THEN Cardinality(S) ELSE Cardinality(S) + 1
  BY FS_AddElement
<1>3. Cardinality(S \cup {x}) <= n
  BY <1>1, <1>2
<1>. QED
  BY <1>2, <1>3 DEF AtMost

\* One member in place of another.
LEMMA AtMostSwapped ==
    ASSUME NEW S, NEW n \in Nat, AtMost(S, n), NEW x \in S, NEW y
    PROVE  AtMost((S \ {x}) \cup {y}, n)
<1>1. IsFiniteSet(S) /\ Cardinality(S) <= n /\ Cardinality(S) \in Nat
  BY FS_CardinalityType DEF AtMost
<1>2. IsFiniteSet(S \ {x}) /\ Cardinality(S \ {x}) = Cardinality(S) - 1
  BY <1>1, FS_RemoveElement
<1>3. Cardinality(S \ {x}) < n
  BY <1>1, <1>2
<1>. QED
  BY <1>2, <1>3, AtMostOneMore

\* The attendances and their rows are as many.
LEMMA AtMostCards ==
    ASSUME NEW S, NEW n \in Nat
    PROVE  AtMost(S, n) <=> AtMost({Card(c) : c \in S}, n)
<1> DEFINE T == {Card(c) : c \in S}
           f == [c \in S |-> Card(c)]
           g == [r \in T |-> r[2]]
<1>1. f \in Injection(S, T)
  BY TableOf DEF Injection, IsInjective
<1>2. g \in Injection(T, S)
  BY TableOf DEF Injection, IsInjective
<1>. HIDE DEF T, f, g
<1>3. ASSUME IsFiniteSet(S) PROVE IsFiniteSet(T) /\ Cardinality(T) <= Cardinality(S)
  BY <1>2, <1>3, FS_Injection
<1>4. ASSUME IsFiniteSet(T) PROVE IsFiniteSet(S) /\ Cardinality(S) <= Cardinality(T)
  BY <1>1, <1>4, FS_Injection
<1>5. ASSUME AtMost(S, n) PROVE AtMost(T, n)
  <2>1. IsFiniteSet(S) /\ IsFiniteSet(T) /\ Cardinality(S) <= n /\ Cardinality(T) <= Cardinality(S)
    BY <1>3, <1>5 DEF AtMost
  <2>2. Cardinality(S) \in Nat /\ Cardinality(T) \in Nat
    BY <2>1, FS_CardinalityType
  <2>3. Cardinality(T) <= n
    BY <2>1, <2>2
  <2>. QED
    BY <2>1, <2>3 DEF AtMost
<1>6. ASSUME AtMost(T, n) PROVE AtMost(S, n)
  <2>1. IsFiniteSet(S) /\ IsFiniteSet(T) /\ Cardinality(T) <= n /\ Cardinality(S) <= Cardinality(T)
    BY <1>4, <1>6 DEF AtMost
  <2>2. Cardinality(S) \in Nat /\ Cardinality(T) \in Nat
    BY <2>1, FS_CardinalityType
  <2>3. Cardinality(S) <= n
    BY <2>1, <2>2
  <2>. QED
    BY <2>1, <2>3 DEF AtMost
<1>7. AtMost(S, n) <=> AtMost(T, n)
  BY <1>5, <1>6
<1>. QED
  BY <1>7 DEF T

\* What every connection adds at most, all add at most as many times.
LEMMA AtMostTogether ==
    ASSUME NEW F, \A s \in Sessions : AtMost(F[s], Simultaneos)
    PROVE  AtMost(UNION {F[s] : s \in Sessions}, Limit)
<1> DEFINE n(s) == Cardinality(F[s])
           U == UNION {F[s] : s \in Sessions}
           P == Sessions \X (1 .. Simultaneos)
<1>1. Simultaneos \in Nat /\ IsFiniteSet(Sessions) /\ Cardinality(Sessions) \in Nat
  BY AttendanceAssumption, FS_CardinalityType
<1>2. ASSUME NEW s \in Sessions
      PROVE  /\ n(s) \in Nat /\ n(s) <= Simultaneos
             /\ \E f \in [1 .. n(s) -> F[s]] : \A x \in F[s] : \E k \in 1 .. n(s) : f[k] = x
  <2>1. IsFiniteSet(F[s]) /\ n(s) <= Simultaneos
    BY DEF AtMost
  <2>2. n(s) \in Nat /\ ExistsBijection(1 .. n(s), F[s])
    BY <2>1, FS_CardinalityType
  <2>3. PICK f : f \in Bijection(1 .. n(s), F[s])
    BY <2>2 DEF ExistsBijection
  <2>4. f \in [1 .. n(s) -> F[s]] /\ \A x \in F[s] : \E k \in 1 .. n(s) : f[k] = x
    BY <2>3 DEF Bijection, Surjection
  <2>. QED
    BY <2>1, <2>2, <2>4
<1> DEFINE numbering == [s \in Sessions |-> CHOOSE f \in [1 .. n(s) -> F[s]] :
                            \A x \in F[s] : \E k \in 1 .. n(s) : f[k] = x]
<1>3. ASSUME NEW s \in Sessions, NEW x \in F[s]
      PROVE  \E k \in 1 .. n(s) : numbering[s][k] = x
  BY <1>2
<1>. HIDE DEF numbering
<1>4. ASSUME NEW x \in U PROVE \E p \in P : numbering[p[1]][p[2]] = x
  <2>1. PICK s \in Sessions : x \in F[s]
    OBVIOUS
  <2>2. PICK k \in 1 .. n(s) : numbering[s][k] = x
    BY <1>3, <2>1
  <2>3. k \in 1 .. Simultaneos
    BY <1>1, <1>2
  <2>4. <<s, k>> \in P /\ numbering[<<s, k>>[1]][<<s, k>>[2]] = x
    BY <2>2, <2>3
  <2>. QED
    BY <2>4
<1> DEFINE place == [x \in U |-> CHOOSE p \in P : numbering[p[1]][p[2]] = x]
<1>. HIDE DEF U, P
<1>5. \A x \in U : place[x] \in P /\ numbering[place[x][1]][place[x][2]] = x
  BY <1>4
<1>6. place \in [U -> P]
  BY <1>5
<1>. HIDE DEF place
<1>7. place \in Injection(U, P)
  BY <1>5, <1>6 DEF Injection, IsInjective
<1>8. IsFiniteSet(P) /\ Cardinality(P) = Limit
  <2>1. IsFiniteSet(1 .. Simultaneos) /\ Cardinality(1 .. Simultaneos) = Simultaneos
    <3>1. 1 \in Int /\ Simultaneos \in Int /\ ~(1 > Simultaneos) /\ Simultaneos - 1 + 1 = Simultaneos
      BY AttendanceAssumption
    <3>. QED
      BY <3>1, FS_Interval
  <2>2. IsFiniteSet(P) /\ Cardinality(P) = Cardinality(Sessions) * Simultaneos
    BY <1>1, <2>1, FS_Product DEF P
  <2>3. \A i, j \in Nat : i * j = j * i
    OBVIOUS
  <2>. QED
    BY <1>1, <2>2, <2>3 DEF Limit
<1>9. IsFiniteSet(U) /\ Cardinality(U) <= Limit
  BY <1>7, <1>8, FS_Injection
<1>. QED
  BY <1>9 DEF AtMost, U

LEMMA ClaimsOf ==
    ASSUME NEW X, NEW a
    PROVE  /\ \A c : Card(c) \in Claims(X, a) <=> c \in Cards /\ ActiveIn(X, c, a)
           /\ \A s : Chosen(s) \in Claims(X, a) <=> s \in X /\ choice[s] = a
           /\ \A x \in Claims(X, a) : (\E c \in Cards : x = Card(c)) \/ (\E s \in X : x = Chosen(s))
  BY TableOf DEF Claims, Chosen, Card

LEMMA AddsOf ==
    ASSUME NEW s \in Sessions, NEW a
    PROVE  /\ \A c : Card(c) \in Adds(s, a) <=>
                /\ c \in Cards /\ Card(c) \in DOMAIN work[s]
                /\ IsActive(work[s][Card(c)], a) /\ ~IsActive(db[Card(c)], a)
           /\ Chosen(s) \in Adds(s, a) <=> choice[s] = a
           /\ \A x \in Adds(s, a) : (\E c \in Cards : x = Card(c)) \/ x = Chosen(s)
  BY TableOf DEF Adds, Chosen, Card

LEMMA LimitIsNat == Limit \in Nat /\ Simultaneos \in Nat
<1>1. Cardinality(Sessions) \in Nat /\ Simultaneos \in Nat
  BY AttendanceAssumption, FS_CardinalityType
<1>2. \A i, j \in Nat : i * j \in Nat
  OBVIOUS
<1>. QED
  BY <1>1, <1>2 DEF Limit

\* Steps that claim nothing new.
LEMMA NothingClaimed ==
    ASSUME NEW a, Within(a),
           \A s \in Sessions : Adds(s, a)' \subseteq Adds(s, a),
           \A X \in SUBSET Sessions : \E Y \in SUBSET Sessions : Claims(X, a)' \subseteq Claims(Y, a)
    PROVE  Within(a)'
<1>1. \A s \in Sessions : AtMost(Adds(s, a)', Simultaneos)
  BY LimitIsNat, AtMostLess DEF Within
<1>2. \A X \in SUBSET Sessions : AtMost(Claims(X, a)', Limit)
  BY LimitIsNat, AtMostLess DEF Within
<1>. QED
  BY <1>1, <1>2 DEF Within, AtMost, Limit

\* Whoever writes no attendance and makes no choice ...
LEMMA ClaimsKept ==
    ASSUME NEW a, Within(a), choice' = choice,
           \A c \in Cards : db'[Card(c)] = db[Card(c)],
           \A s \in Sessions : \A c \in Cards :
             /\ Card(c) \in DOMAIN work'[s] <=> Card(c) \in DOMAIN work[s]
             /\ Card(c) \in DOMAIN work[s] => work'[s][Card(c)] = work[s][Card(c)]
    PROVE  Within(a)'
<1>1. \A s \in Sessions : Adds(s, a)' \subseteq Adds(s, a)
  BY DEF Adds, IsActive
<1>2. ASSUME NEW X \in SUBSET Sessions PROVE Claims(X, a)' \subseteq Claims(X, a)
  <2>1. \A c \in Cards : ActiveIn(X, c, a)' => ActiveIn(X, c, a)
    BY DEF ActiveIn, IsActive
  <2>. QED
    BY <2>1 DEF Claims
<1>. QED
  BY <1>1, <1>2, NothingClaimed

\* ... or rolls back, or commits: what a set of transactions then claims, it and the one
\* that committed did before.
LEMMA ClaimsAtEnd ==
    ASSUME TypeInv, NEW a \in Agents, Within(a), NEW s \in Sessions, CommitTx(s) \/ RollbackTx(s)
    PROVE  Within(a)'
<1>1. /\ work'[s] = << >> /\ DOMAIN work'[s] = {} /\ choice'[s] # a
      /\ \A t \in Sessions \ {s} : work'[t] = work[t] /\ choice'[t] = choice[t]
  BY AttendanceAssumption DEF CommitTx, RollbackTx, EndTx, TypeInv
<1>2. \A c \in Cards : Card(c) \in Rows
  BY KeysOfRows
<1>3. \A c \in Cards : Card(c) \notin DOMAIN work[s] => db'[Card(c)] = db[Card(c)]
  BY <1>2 DEF CommitTx, RollbackTx, View
<1>4. ASSUME NEW t \in Sessions PROVE Adds(t, a)' \subseteq Adds(t, a)
  <2>1. CASE t = s
    BY <1>1, <2>1 DEF Adds
  <2>2. CASE t # s
    <3>1. \A c \in Cards : Card(c) \in DOMAIN work[t] => db'[Card(c)] = db[Card(c)]
      BY <1>3, <2>2 DEF TypeInv
    <3>2. work'[t] = work[t] /\ choice'[t] = choice[t]
      BY <1>1, <2>2
    <3>3. \A c \in Cards : Card(c) \in DOMAIN work'[t] /\ IsActive(work'[t][Card(c)], a)
                             /\ ~IsActive(db'[Card(c)], a)
            => Card(c) \in DOMAIN work[t] /\ IsActive(work[t][Card(c)], a) /\ ~IsActive(db[Card(c)], a)
      BY <3>1, <3>2
    <3>4. Adds(t, a)' = {Card(c) : c \in {d \in Cards :
                               /\ Card(d) \in DOMAIN work'[t]
                               /\ IsActive(work'[t][Card(d)], a) /\ ~IsActive(db'[Card(d)], a)}}
                         \cup (IF choice'[t] = a THEN {Chosen(t)} ELSE {})
      BY DEF Adds, IsActive, Chosen
    <3>. QED
      BY <3>2, <3>3, <3>4 DEF Adds
  <2>. QED
    BY <2>1, <2>2
<1>5. ASSUME NEW X \in SUBSET Sessions
      PROVE  \E Y \in SUBSET Sessions : Claims(X, a)' \subseteq Claims(Y, a)
  <2>1. CASE CommitTx(s)
    <3> DEFINE Y == X \cup {s}
    <3>1. \A c \in Cards : db'[Card(c)] = View(s, Card(c))
      BY <1>2, <2>1 DEF CommitTx
    <3>2. ASSUME NEW c \in Cards, ActiveIn(X, c, a)' PROVE ActiveIn(Y, c, a)
      <4>1. CASE \E t \in X : Card(c) \in DOMAIN work'[t] /\ IsActive(work'[t][Card(c)], a)
        <5>1. PICK t \in X : Card(c) \in DOMAIN work'[t] /\ IsActive(work'[t][Card(c)], a)
          BY <4>1
        <5>2. t # s /\ work'[t] = work[t]
          BY <1>1, <5>1
        <5>. QED
          BY <5>1, <5>2 DEF ActiveIn
      <4>2. CASE (\A t \in X : Card(c) \notin DOMAIN work'[t]) /\ IsActive(db'[Card(c)], a)
        <5>1. CASE Card(c) \in DOMAIN work[s]
          <6>1. IsActive(work[s][Card(c)], a)
            BY <3>1, <4>2, <5>1 DEF View
          <6>. QED
            BY <5>1, <6>1 DEF ActiveIn
        <5>2. CASE Card(c) \notin DOMAIN work[s]
          <6>1. IsActive(db[Card(c)], a)
            BY <3>1, <4>2, <5>2 DEF View
          <6>2. \A t \in Y : Card(c) \notin DOMAIN work[t]
            BY <1>1, <4>2, <5>2
          <6>. QED
            BY <6>1, <6>2 DEF ActiveIn
        <5>. QED
          BY <5>1, <5>2
      <4>. QED
        BY <3>2, <4>1, <4>2 DEF ActiveIn, IsActive
    <3>3. \A t \in X : choice'[t] = a => t \in Y /\ choice[t] = a
      BY <1>1
    <3>4. Claims(X, a)' \subseteq Claims(Y, a)
      BY <3>2, <3>3 DEF Claims, Chosen
    <3>. QED
      BY <3>4
  <2>2. CASE RollbackTx(s)
    <3> DEFINE Y == X \ {s}
    <3>1. db' = db
      BY <2>2 DEF RollbackTx
    <3>2. ASSUME NEW c \in Cards, ActiveIn(X, c, a)' PROVE ActiveIn(Y, c, a)
      BY <1>1, <3>1, <3>2 DEF ActiveIn, IsActive
    <3>3. \A t \in X : choice'[t] = a => t \in Y /\ choice[t] = a
      BY <1>1
    <3>4. Claims(X, a)' \subseteq Claims(Y, a)
      BY <3>2, <3>3 DEF Claims, Chosen
    <3>. QED
      BY <3>4
  <2>. QED
    BY <2>1, <2>2
<1>. QED
  BY <1>4, <1>5, NothingClaimed

\* The choice leaves room for what the transaction reads and the attendance to come; the
\* others add what they have added.
LEMMA ClaimsAtChoice ==
    ASSUME TypeInv, NEW a \in Agents, Within(a), NEW s \in Sessions, NEW b \in Agents,
           BuscarDisponivelRoundRobin(s, b)
    PROVE  Within(a)'
<1>1. /\ choice' = [choice EXCEPT ![s] = b] /\ UNCHANGED <<db, work>>
      /\ Eligible(s, b)
  BY DEF BuscarDisponivelRoundRobin
<1>2. choice'[s] = b /\ \A t \in Sessions \ {s} : choice'[t] = choice[t]
  BY <1>1 DEF TypeInv
<1>3. \A X : \A c \in Cards : ActiveIn(X, c, a)' <=> ActiveIn(X, c, a)
  BY <1>1 DEF ActiveIn, IsActive
<1>4. \A t \in Sessions \ {s} : Adds(t, a)' = Adds(t, a)
  BY <1>1, <1>2 DEF Adds, IsActive, Chosen
<1>5. CASE a # b
  <2>1. \A t \in Sessions : Adds(t, a)' \subseteq Adds(t, a)
    BY <1>1, <1>2, <1>5 DEF Adds, IsActive, Chosen
  <2>2. \A X \in SUBSET Sessions : Claims(X, a)' \subseteq Claims(X, a)
    BY <1>2, <1>3, <1>5 DEF Claims, Chosen
  <2>. QED
    BY <2>1, <2>2, NothingClaimed
<1>6. CASE a = b
  <2> DEFINE L == {c \in Cards : /\ Exists(s, Card(c)) /\ View(s, Card(c)).atendente = a
                                 /\ View(s, Card(c)).status \in Active}
             K == {Card(c) : c \in L}
             G == K \cup {Chosen(s)}
             F == [t \in Sessions |-> IF t = s THEN G ELSE Adds(t, a)]
  <2>1. \A c \in Cards : c \in L <=> IsActive(View(s, Card(c)), a)
    BY DEF Exists, IsActive
  <2>2. \A c \in L : ActiveIn({s}, c, a)
    BY <2>1 DEF View, ActiveIn
  <2>3. IsFiniteSet(K) /\ IsFiniteSet(L)
    <3>1. K \subseteq Claims({s}, a)
      BY <2>2 DEF Claims
    <3>2. AtMost(Claims({s}, a), Limit)
      BY DEF Within
    <3>. HIDE DEF L
    <3>3. IsFiniteSet(K)
      BY <3>1, <3>2, LimitIsNat, AtMostLess DEF AtMost
    <3>4. Cardinality(K) \in Nat /\ AtMost(K, Cardinality(K))
      <4>1. Cardinality(K) \in Nat
        BY <3>3, FS_CardinalityType
      <4>2. Cardinality(K) <= Cardinality(K)
        BY <4>1
      <4>. QED
        BY <3>3, <4>1, <4>2 DEF AtMost
    <3>5. AtMost(L, Cardinality(K))
      BY <3>4, AtMostCards
    <3>. QED
      BY <3>3, <3>5 DEF AtMost
  <2>4. Cardinality(L) < Simultaneos
    BY <1>1, <1>6 DEF Eligible, Load
  <2>. HIDE DEF L
  <2>5. Cardinality(K) < Simultaneos
    <3>1. Cardinality(L) \in Nat
      BY <2>3, FS_CardinalityType
    <3>2. AtMost(L, Cardinality(L))
      <4>1. Cardinality(L) <= Cardinality(L)
        BY <3>1
      <4>. QED
        BY <2>3, <4>1 DEF AtMost
    <3>3. Cardinality(K) <= Cardinality(L)
      BY <3>1, <3>2, AtMostCards DEF AtMost
    <3>4. Cardinality(K) \in Nat
      BY <2>3, FS_CardinalityType
    <3>. QED
      BY <2>4, <3>1, <3>3, <3>4, LimitIsNat
  <2>6. AtMost(G, Simultaneos)
    BY <2>3, <2>5, LimitIsNat, AtMostOneMore
  <2>7. \A c \in L : Card(c) \in K
    OBVIOUS
  <2>8. Adds(s, a)' \subseteq G
    <3>1. Adds(s, a)' = {Card(c) : c \in {d \in Cards :
                               /\ Card(d) \in DOMAIN work[s]
                               /\ IsActive(work[s][Card(d)], a) /\ ~IsActive(db[Card(d)], a)}}
                         \cup {Chosen(s)}
      BY <1>1, <1>2, <1>6 DEF Adds, IsActive, Chosen
    <3>2. \A c \in Cards : Card(c) \in DOMAIN work[s] /\ IsActive(work[s][Card(c)], a) => c \in L
      BY <2>1 DEF View
    <3>. QED
      BY <2>7, <3>1, <3>2
  <2>9. \A t \in Sessions : AtMost(Adds(t, a)', Simultaneos)
    BY <1>4, <2>6, <2>8, LimitIsNat, AtMostLess DEF Within
  <2>10. AtMost(UNION {F[t] : t \in Sessions}, Limit)
    <3>1. \A t \in Sessions : AtMost(F[t], Simultaneos)
      BY <2>6 DEF Within
    <3>. HIDE DEF F
    <3>. QED
      BY <3>1, AtMostTogether
  <2>11. ASSUME NEW X \in SUBSET Sessions PROVE AtMost(Claims(X, a)', Limit)
    <3>1. CASE s \notin X
      <4>1. Claims(X, a)' \subseteq Claims(X, a)
        BY <1>2, <1>3, <3>1 DEF Claims, Chosen
      <4>. QED
        BY <4>1, LimitIsNat, AtMostLess DEF Within
    <3>2. CASE s \in X
      <4>1. ASSUME NEW c \in Cards, ActiveIn(X, c, a)
            PROVE  \E t \in Sessions : Card(c) \in F[t]
        <5>1. CASE c \in L
          BY <2>7, <5>1
        <5>2. CASE c \notin L
          <6>1. ~IsActive(View(s, Card(c)), a)
            BY <2>1, <5>2
          <6>2. CASE \E t \in X : Card(c) \in DOMAIN work[t] /\ IsActive(work[t][Card(c)], a)
            <7>1. PICK t \in X : Card(c) \in DOMAIN work[t] /\ IsActive(work[t][Card(c)], a)
              BY <6>2
            <7>2. t # s
              BY <6>1, <7>1 DEF View
            <7>3. Card(c) \notin DOMAIN work[s]
              BY <7>1, <7>2 DEF TypeInv
            <7>4. ~IsActive(db[Card(c)], a)
              BY <6>1, <7>3 DEF View
            <7>5. Card(c) \in Adds(t, a)
              BY <7>1, <7>4, AddsOf
            <7>. QED
              BY <7>2, <7>5
          <6>3. CASE (\A t \in X : Card(c) \notin DOMAIN work[t]) /\ IsActive(db[Card(c)], a)
            BY <3>2, <6>1, <6>3 DEF View
          <6>. QED
            BY <4>1, <6>2, <6>3 DEF ActiveIn
        <5>. QED
          BY <5>1, <5>2
      <4>2. ASSUME NEW t \in X, choice'[t] = a PROVE Chosen(t) \in F[t]
        <5>1. CASE t = s
          BY <5>1
        <5>2. CASE t # s
          <6>1. Chosen(t) \in Adds(t, a)
            BY <1>2, <4>2, <5>2, AddsOf
          <6>. QED
            BY <5>2, <6>1
        <5>. QED
          BY <5>1, <5>2
      <4>3. Claims(X, a)' = {Card(c) : c \in {d \in Cards : ActiveIn(X, d, a)}}
                            \cup {Chosen(t) : t \in {u \in X : choice'[u] = a}}
        BY <1>3 DEF Claims, Chosen
      <4>. HIDE DEF F
      <4>4. Claims(X, a)' \subseteq UNION {F[t] : t \in Sessions}
        BY <4>1, <4>2, <4>3
      <4>. QED
        BY <2>10, <4>4, LimitIsNat, AtMostLess
    <3>. QED
      BY <3>1, <3>2
  <2>. QED
    BY <2>9, <2>11 DEF Within, AtMost, Limit
<1>. QED
  BY <1>5, <1>6

\* A call on attendance c claims it only in place of the choice it uses up.
LEMMA ClaimsAtCard ==
    ASSUME TypeInv, NEW a \in Agents, Within(a), NEW s \in Sessions, NEW c \in Cards, NEW row,
           Statement(s, Only(Card(c), row)),
           \/ choice' = choice /\ (IsActive(row, a) => IsActive(View(s, Card(c)), a))
           \/ choice' = [choice EXCEPT ![s] = None] /\ (IsActive(row, a) => choice[s] = a)
    PROVE  Within(a)'
<1> DEFINE W == Only(Card(c), row)
<1>0. DOMAIN W = {Card(c)} /\ W[Card(c)] = row
  BY OnlyRow
<1>. HIDE DEF W
<1>1. /\ db' = db /\ \A t \in Sessions \ {s} : work'[t] = work[t] /\ Card(c) \notin DOMAIN work[t]
      /\ work'[s] = Over(W, work[s])
  <2>1. Statement(s, W)
    BY DEF W
  <2>. QED
    BY <1>0, <2>1 DEF Statement, TypeInv, Locked
<1>2. /\ DOMAIN work'[s] = {Card(c)} \cup DOMAIN work[s]
      /\ work'[s][Card(c)] = row
      /\ \A r \in DOMAIN work[s] : r # Card(c) => work'[s][r] = work[s][r]
  BY <1>0, <1>1 DEF Over
<1>3. a # None /\ \A t \in Sessions : choice'[t] = a => choice[t] = a
  BY AttendanceAssumption DEF TypeInv
<1>4. \A t \in Sessions \ {s} : choice'[t] = choice[t]
  BY DEF TypeInv
<1>5. \A d \in Cards : d # c => Card(d) # Card(c)
  BY TableOf
<1>6. \A d \in Cards : Card(d) # Chosen(s)
  BY DEF Card, Chosen
<1>7. ASSUME NEW t \in Sessions
      PROVE  Adds(t, a)' = {Card(d) : d \in {e \in Cards :
                               /\ Card(e) \in DOMAIN work'[t]
                               /\ IsActive(work'[t][Card(e)], a) /\ ~IsActive(db[Card(e)], a)}}
                           \cup (IF choice'[t] = a THEN {Chosen(t)} ELSE {})
  BY <1>1 DEF Adds, IsActive, Chosen
<1>8. ASSUME NEW t \in Sessions, t # s PROVE Adds(t, a)' \subseteq Adds(t, a)
  BY <1>1, <1>4, <1>7, <1>8 DEF Adds
\* Of the other attendances s claims what it did.
<1>9. \A d \in Cards : d # c =>
         /\ Card(d) \in DOMAIN work'[s] <=> Card(d) \in DOMAIN work[s]
         /\ Card(d) \in DOMAIN work[s] => work'[s][Card(d)] = work[s][Card(d)]
  BY <1>2, <1>5
<1>10. \A X \in SUBSET Sessions : \A d \in Cards : d # c /\ ActiveIn(X, d, a)' => ActiveIn(X, d, a)
  <2>1. ASSUME NEW X \in SUBSET Sessions, NEW d \in Cards, d # c
        PROVE  ActiveIn(X, d, a)' => ActiveIn(X, d, a)
    <3>1. \A t \in X : /\ Card(d) \in DOMAIN work'[t] <=> Card(d) \in DOMAIN work[t]
                       /\ Card(d) \in DOMAIN work[t] => work'[t][Card(d)] = work[t][Card(d)]
      BY <1>1, <1>9, <2>1
    <3>. QED
      BY <1>1, <3>1 DEF ActiveIn, IsActive
  <2>. QED
    BY <2>1
<1>11. ASSUME NEW X \in SUBSET Sessions, ActiveIn(X, c, a)'
       PROVE  ActiveIn(X, c, a) \/ (s \in X /\ IsActive(row, a))
  <2>1. CASE s \in X
    <3>1. \A t \in X : Card(c) \in DOMAIN work'[t] => t = s
      BY <1>1
    <3>2. IsActive(row, a)
      BY <1>2, <1>11, <2>1, <3>1 DEF ActiveIn, IsActive
    <3>. QED
      BY <2>1, <3>2
  <2>2. CASE s \notin X
    <3>1. \A t \in X : work'[t] = work[t]
      BY <1>1, <2>2
    <3>. QED
      BY <1>1, <1>11, <3>1 DEF ActiveIn, IsActive
  <2>. QED
    BY <2>1, <2>2
<1>12. CASE IsActive(row, a) => IsActive(View(s, Card(c)), a)
  <2>1. Adds(s, a)' \subseteq Adds(s, a)
    <3>1. IsActive(row, a) /\ ~IsActive(db[Card(c)], a)
             => Card(c) \in DOMAIN work[s] /\ IsActive(work[s][Card(c)], a)
      BY <1>12 DEF View
    <3>2. \A d \in Cards : /\ Card(d) \in DOMAIN work'[s] /\ IsActive(work'[s][Card(d)], a)
                           /\ ~IsActive(db[Card(d)], a)
              => Card(d) \in DOMAIN work[s] /\ IsActive(work[s][Card(d)], a)
      BY <1>2, <1>9, <3>1
    <3>. QED
      BY <1>3, <1>7, <3>2 DEF Adds
  <2>2. ASSUME NEW X \in SUBSET Sessions PROVE Claims(X, a)' \subseteq Claims(X, a)
    <3>1. s \in X /\ IsActive(row, a) => ActiveIn(X, c, a)
      <4>. SUFFICES ASSUME s \in X, IsActive(row, a) PROVE ActiveIn(X, c, a)
        OBVIOUS
      <4>1. CASE Card(c) \in DOMAIN work[s]
        BY <1>12, <4>1 DEF ActiveIn, View
      <4>2. CASE Card(c) \notin DOMAIN work[s]
        BY <1>1, <1>12, <4>2 DEF ActiveIn, View
      <4>. QED
        BY <4>1, <4>2
    <3>2. \A d \in Cards : ActiveIn(X, d, a)' => ActiveIn(X, d, a)
      BY <1>10, <1>11, <3>1
    <3>. QED
      BY <1>3, <3>2 DEF Claims, Chosen
  <2>3. \A t \in Sessions : Adds(t, a)' \subseteq Adds(t, a)
    BY <1>8, <2>1
  <2>. QED
    BY <2>2, <2>3, NothingClaimed
<1>13. CASE choice' = [choice EXCEPT ![s] = None] /\ choice[s] = a
  <2>1. choice'[s] # a
    BY <1>3, <1>13 DEF TypeInv
  <2>2. AtMost(Adds(s, a)', Simultaneos)
    <3> DEFINE A == (Adds(s, a) \ {Chosen(s)}) \cup {Card(c)}
    <3>1. AtMost(A, Simultaneos)
      <4>1. AtMost(Adds(s, a), Simultaneos) /\ Chosen(s) \in Adds(s, a)
        BY <1>13, AddsOf DEF Within
      <4>. QED
        BY <4>1, LimitIsNat, AtMostSwapped
    <3>2. Adds(s, a)' \subseteq A
      <4>1. \A d \in Cards : /\ d # c /\ Card(d) \in DOMAIN work'[s] /\ IsActive(work'[s][Card(d)], a)
                             /\ ~IsActive(db[Card(d)], a)
                => Card(d) \in Adds(s, a)
        BY <1>9, AddsOf
      <4>. QED
        BY <1>6, <1>7, <2>1, <4>1
    <3>. QED
      BY <3>1, <3>2, LimitIsNat, AtMostLess
  <2>3. ASSUME NEW X \in SUBSET Sessions PROVE AtMost(Claims(X, a)', Limit)
    <3>1. Claims(X, a)' = {Card(d) : d \in {e \in Cards : ActiveIn(X, e, a)'}}
                          \cup {Chosen(t) : t \in {u \in X : choice'[u] = a}}
      BY DEF Claims, Chosen
    <3>2. AtMost(Claims(X, a), Limit)
      BY DEF Within
    <3>3. CASE s \notin X
      <4>1. \A d \in Cards : ActiveIn(X, d, a)' => ActiveIn(X, d, a)
        BY <1>10, <1>11, <3>3
      <4>2. Claims(X, a)' \subseteq Claims(X, a)
        BY <1>3, <3>1, <4>1 DEF Claims
      <4>. QED
        BY <3>2, <4>2, LimitIsNat, AtMostLess
    <3>4. CASE s \in X
      <4> DEFINE B == (Claims(X, a) \ {Chosen(s)}) \cup {Card(c)}
      <4>1. AtMost(B, Limit)
        <5>1. Chosen(s) \in Claims(X, a)
          BY <1>13, <3>4, ClaimsOf
        <5>. QED
          BY <3>2, <5>1, LimitIsNat, AtMostSwapped
      <4>2. \A d \in Cards : ActiveIn(X, d, a)' => Card(d) \in B
        <5>1. ASSUME NEW d \in Cards, d # c, ActiveIn(X, d, a)' PROVE Card(d) \in B
          <6>1. Card(d) \in Claims(X, a)
            BY <1>10, <5>1, ClaimsOf
          <6>. QED
            BY <1>6, <6>1
        <5>. QED
          BY <5>1
      <4>3. \A t \in X : choice'[t] = a => Chosen(t) \in B
        <5>1. ASSUME NEW t \in X, choice'[t] = a PROVE Chosen(t) \in B
          <6>1. t # s /\ choice[t] = a
            BY <1>3, <2>1, <5>1
          <6>2. Chosen(t) # Chosen(s)
            BY <6>1 DEF Chosen
          <6>3. Chosen(t) \in Claims(X, a)
            BY <6>1, ClaimsOf
          <6>. QED
            BY <6>2, <6>3
        <5>. QED
          BY <5>1
      <4>. HIDE DEF B
      <4>4. Claims(X, a)' \subseteq B
        BY <3>1, <4>2, <4>3
      <4>. QED
        BY <4>1, <4>4, LimitIsNat, AtMostLess
    <3>. QED
      BY <3>3, <3>4
  <2>4. \A t \in Sessions : AtMost(Adds(t, a)', Simultaneos)
    BY <1>8, <2>2, LimitIsNat, AtMostLess DEF Within
  <2>. QED
    BY <2>3, <2>4 DEF Within, AtMost, Limit
<1>14. CASE ~IsActive(row, a)
  BY <1>12, <1>14
<1>. QED
  BY <1>12, <1>13, <1>14

LEMMA LimitInit == Init => LimitInv
<1>. SUFFICES ASSUME Init, NEW a \in Agents PROVE Within(a)
  BY DEF LimitInv
<1>1. /\ \A c \in Cards : db[Card(c)] = OldRow(Card(c))
      /\ \A s \in Sessions : DOMAIN work[s] = {} /\ choice[s] = None
      /\ a # None /\ None \notin Agents
  BY KeysOfRows, AttendanceAssumption DEF Init
<1> DEFINE taken == {c \in DOMAIN Busy : Busy[c] = a}
           T == {Card(c) : c \in taken}
<1>2. \A c \in Cards : IsActive(db[Card(c)], a) => c \in taken
  <2>1. ASSUME NEW c \in Cards, IsActive(db[Card(c)], a) PROVE c \in taken
    <3>1. Card(c) \in Rows /\ db[Card(c)] = OldRow(Card(c)) /\ OldRow(Card(c)) # None
      BY <1>1, <2>1, KeysOfRows DEF IsActive
    <3>2. OldRow(Card(c)) \in {New(0), None} \cup {Taken(Busy[d]) : d \in DOMAIN Busy \cap {c}}
      BY <3>1, OldRowsGood
    <3>3. New(0).atendente = None /\ \A d : Taken(d).atendente = d
      BY DEF New, Taken
    <3>. QED
      BY <1>1, <2>1, <3>1, <3>2, <3>3 DEF IsActive
  <2>. QED
    BY <2>1
<1>3. AtMost(T, Limit)
  <2>1. AtMost(taken, Limit)
    <3>1. CASE a \in OldAgents
      BY <3>1, BusyAssumption DEF AtMost
    <3>2. CASE a \notin OldAgents
      <4>1. taken = {}
        BY <3>2, AttendanceAssumption
      <4>2. 0 <= Limit
        <5>1. \A i \in Nat : 0 <= i
          OBVIOUS
        <5>. QED
          BY <5>1, LimitIsNat
      <4>. QED
        BY <4>1, <4>2, FS_EmptySet DEF AtMost
    <3>. QED
      BY <3>1, <3>2
  <2>. HIDE DEF taken
  <2>. QED
    BY <2>1, AtMostCards, LimitIsNat
<1>4. \A s \in Sessions : AtMost(Adds(s, a), Simultaneos)
  <2>1. \A s \in Sessions : Adds(s, a) = {}
    BY <1>1 DEF Adds
  <2>2. 0 <= Simultaneos
    <3>1. \A i \in Nat : 0 <= i
      OBVIOUS
    <3>. QED
      BY <3>1, LimitIsNat
  <2>. QED
    BY <2>1, <2>2, FS_EmptySet DEF AtMost
<1>5. ASSUME NEW X \in SUBSET Sessions PROVE AtMost(Claims(X, a), Limit)
  <2>1. \A c \in Cards : ActiveIn(X, c, a) => c \in taken
    BY <1>1, <1>2 DEF ActiveIn
  <2>. HIDE DEF taken
  <2>2. Claims(X, a) \subseteq T
    BY <1>1, <2>1 DEF Claims
  <2>. QED
    BY <1>3, <2>2, LimitIsNat, AtMostLess
<1>. QED
  BY <1>4, <1>5 DEF Within

LEMMA LimitNext == IInv /\ [Next]_vars => LimitInv'
<1>. SUFFICES ASSUME BaseInv, LimitInv, [Next]_vars, ~manual', NEW a \in Agents PROVE Within(a)'
  BY DEF LimitInv, IInv
<1>1. TypeInv /\ RowsInv /\ ClockInv
  BY DEF BaseInv
<1>2. ASSUME manual => manual' PROVE Within(a)
  BY <1>2 DEF LimitInv
<1>3. CASE UNCHANGED <<db, work, choice, manual>>
  BY <1>2, <1>3, ClaimsKept
<1>4. ASSUME NEW s \in Sessions, CommitTx(s) \/ RollbackTx(s) PROVE Within(a)'
  <2>1. manual' = manual
    BY <1>4 DEF CommitTx, RollbackTx, EndTx
  <2>. QED
    BY <1>1, <1>2, <1>4, <2>1, ClaimsAtEnd
<1>5. ASSUME NEW s \in Sessions, AtendimentoCall(s) PROVE Within(a)'
  <2>1. PICK c \in Cards : \E row :
             /\ WritesRow(s, Card(c), row)
             /\ manual' \in BOOLEAN /\ (manual => manual')
             /\ \/ /\ choice' = choice
                   /\ \A b \in Agents : manual' \/ (IsActive(row, b) => IsActive(View(s, Card(c)), b))
                \/ /\ choice' = [choice EXCEPT ![s] = None]
                   /\ \A b \in Agents : manual' \/ (IsActive(row, b) => choice[s] = b)
    BY <1>1, <1>5, CardCalls
  <2>2. PICK row :
             /\ WritesRow(s, Card(c), row)
             /\ manual => manual'
             /\ \/ choice' = choice /\ (IsActive(row, a) => IsActive(View(s, Card(c)), a))
                \/ choice' = [choice EXCEPT ![s] = None] /\ (IsActive(row, a) => choice[s] = a)
    BY <2>1
  <2>3. Within(a) /\ Statement(s, Only(Card(c), row))
    BY <1>2, <2>2 DEF WritesRow
  <2>. QED
    BY <1>1, <2>2, <2>3, ClaimsAtCard
<1>6. ASSUME NEW s \in Sessions, NEW W, Statement(s, W), UNCHANGED <<choice, manual>>,
             \A r \in DOMAIN W : r[1] # "atendimento"
      PROVE  Within(a)'
  <2>1. /\ db' = db /\ \A t \in Sessions \ {s} : work'[t] = work[t]
        /\ work'[s] = Over(W, work[s])
    BY <1>1, <1>6 DEF Statement, TypeInv
  <2>2. /\ DOMAIN work'[s] = DOMAIN W \cup DOMAIN work[s]
        /\ \A r \in DOMAIN work'[s] : work'[s][r] = IF r \in DOMAIN W THEN W[r] ELSE work[s][r]
    BY <2>1 DEF Over
  <2>3. \A c \in Cards : Card(c) \notin DOMAIN W
    BY <1>6, TableOf
  <2>. QED
    BY <1>2, <1>6, <2>1, <2>2, <2>3, ClaimsKept
<1>7. ASSUME NEW s \in Sessions,
             \/ \E b \in Agents : \/ CriarAtendente(s, b) \/ AtualizarUltimaAtribuicao(s, b)
                                  \/ \E disponivel \in BOOLEAN : AtualizarDisponibilidade(s, b, disponivel)
             \/ MensagemCall(s) \/ ContatoCall(s)
      PROVE  Within(a)'
  BY <1>1, <1>6, <1>7, OtherCalls
<1>8. ASSUME NEW s \in Sessions, MovimentoCall(s) PROVE Within(a)'
  <2>1. PICK m \in Moves : \E row : WritesRow(s, Move(m), row) /\ UNCHANGED <<choice, manual>>
    BY <1>1, <1>8, MoveCalls
  <2>2. PICK row : WritesRow(s, Move(m), row) /\ UNCHANGED <<choice, manual>>
    BY <2>1
  <2> DEFINE W == Only(Move(m), row)
  <2>3. DOMAIN W = {Move(m)}
    BY OnlyRow
  <2>4. Statement(s, W)
    BY <2>2 DEF WritesRow
  <2>. HIDE DEF W
  <2>. QED
    BY <1>6, <2>2, <2>3, <2>4, TableOf
<1>9. ASSUME NEW s \in Sessions, NEW b \in Agents, BuscarDisponivelRoundRobin(s, b) PROVE Within(a)'
  <2>1. manual' = manual
    BY <1>9 DEF BuscarDisponivelRoundRobin
  <2>. QED
    BY <1>1, <1>2, <1>9, <2>1, ClaimsAtChoice
<1>10. ASSUME NEW s \in Sessions, BeginTx(s) PROVE Within(a)'
  BY <1>3, <1>10 DEF BeginTx
<1>11. CASE UNCHANGED vars
  BY <1>3, <1>11 DEF vars
<1>. QED
  BY <1>4, <1>5, <1>7, <1>8, <1>9, <1>10, <1>11 DEF Next, AtendenteCall

\* As long as attendances go to whom the choice named, an attendant never has more active
\* ones than max_atendimentos_simultaneos times the connections of the pool: the count of
\* BuscarDisponivelRoundRobin bounds what each transaction adds, and nothing bounds it
\* across transactions.
THEOREM LimitHoldsPerSession == Spec => []LimitUpToSessions
<1>1. IInv => LimitUpToSessions
  <2>. SUFFICES ASSUME LimitInv, ~manual, NEW a \in Agents PROVE Cardinality(ActiveCards(a)) <= Limit
    BY DEF IInv, LimitUpToSessions
  <2>1. AtMost(Claims({}, a), Limit)
    BY DEF LimitInv, Within
  <2>2. \A c \in ActiveCards(a) : ActiveIn({}, c, a) /\ c \in Cards
    BY DEF ActiveIn, IsActive, ActiveCards, Stored
  <2>3. {Card(c) : c \in ActiveCards(a)} \subseteq Claims({}, a)
    BY <2>2 DEF Claims
  <2>4. AtMost({Card(c) : c \in ActiveCards(a)}, Limit)
    BY <2>1, <2>3, LimitIsNat, AtMostLess
  <2>. QED
    BY <2>4, LimitIsNat, AtMostCards DEF AtMost
<1>2. Init => IInv
  BY BaseInit, LimitInit DEF IInv
<1>3. IInv /\ [Next]_vars => IInv'
  BY BaseNext, LimitNext DEF IInv
<1>. QED
  BY <1>1, <1>2, <1>3, PTL DEF Spec
=============================================================================
