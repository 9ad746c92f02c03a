---------------------------- MODULE OutboxProofs ----------------------------
(***************************************************************************)
(* Theorems about Outbox for every set of rows, every LIMIT, every set of  *)
(* failures and every bound on their number.                               *)
(***************************************************************************)
EXTENDS Outbox, TLAPS

\* The batch holds unpublished rows, and only while a drain runs.
BatchInv ==
    /\ pc \notin {"rows", "mark"} => batch = {}
    /\ batch \subseteq {r \in Rows : row[r] = "pending"}

\* Between the XADD and the UPDATE the row is on the stream, pending and out
\* of the batch.
SendingInv ==
    /\ pc # "mark" => sending = {}
    /\ \A r, q \in sending : r = q
    /\ sending \subseteq OnStream
    /\ sending \cap batch = {}
    /\ sending \subseteq {r \in Rows : row[r] = "pending"}

\* occurred_at orders a transaction after the commits that preceded it.
ClockInv ==
    \A r \in Rows :
        /\ row[r] = "absent" => earlier[r] = {}
        /\ row[r] # "absent" => occurred_at[r] < clock
        /\ \A q \in earlier[r] : q \in Committed /\ occurred_at[q] < occurred_at[r]

\* The batch is closed under "committed earlier", up to what is on the stream.
BatchClosed == \A r \in batch : earlier[r] \ Poison \subseteq OnStream \cup batch

\* The inductive invariant.
IInv == /\ TypeOK
        /\ BatchInv
        /\ SendingInv
        /\ ClockInv
        /\ BatchClosed
        /\ PublishedOnStream
        /\ StreamIsCommitted
        /\ CausalOrder

-----------------------------------------------------------------------------
\* An XADD adds exactly its row to the set of published events.
LEMMA AppendOnStream ==
    ASSUME NEW r \in Rows, stream \in Seq(Rows), stream' = Append(stream, r)
    PROVE  /\ stream' \in Seq(Rows)
           /\ OnStream' = OnStream \cup {r}
           /\ stream'[Len(stream')] = r
<1>1. /\ stream' \in Seq(Rows)
      /\ Len(stream') = Len(stream) + 1
      /\ DOMAIN stream' = 1 .. Len(stream) + 1
      /\ \A i \in 1 .. Len(stream) : stream'[i] = stream[i]
      /\ stream'[Len(stream) + 1] = r
      /\ DOMAIN stream = 1 .. Len(stream)
      /\ Len(stream) \in Nat
  OBVIOUS
<1>2. OnStream' \subseteq OnStream \cup {r}
  <2> SUFFICES ASSUME NEW i \in DOMAIN stream'
               PROVE  stream'[i] \in OnStream \cup {r}
    BY DEF OnStream
  <2>1. CASE i = Len(stream) + 1
    BY <2>1, <1>1
  <2>2. CASE i # Len(stream) + 1
    <3>1. i \in DOMAIN stream
      BY <2>2, <1>1
    <3>. QED
      BY <3>1, <1>1 DEF OnStream
  <2>. QED
    BY <2>1, <2>2
<1>3. OnStream \cup {r} \subseteq OnStream'
  <2>1. ASSUME NEW i \in DOMAIN stream
        PROVE  stream[i] \in OnStream'
    <3>1. i \in DOMAIN stream' /\ stream'[i] = stream[i]
      BY <1>1
    <3>. QED
      BY <3>1 DEF OnStream
  <2>2. Len(stream) + 1 \in DOMAIN stream'
    BY <1>1
  <2>3. r \in OnStream'
    BY <2>2, <1>1 DEF OnStream
  <2>. QED
    BY <2>1, <2>3 DEF OnStream
<1>. QED
  BY <1>1, <1>2, <1>3

\* A step that leaves the stream alone leaves the set of its events alone.
LEMMA SameStream == stream' = stream => OnStream' = OnStream
  BY DEF OnStream

-----------------------------------------------------------------------------
LEMMA InitIInv == Init => IInv
<1> SUFFICES ASSUME Init PROVE IInv
  OBVIOUS
<1>1. OnStream = {}
  BY DEF Init, OnStream
<1>2. TypeOK
  <2>1. /\ row \in [Rows -> RowState] /\ occurred_at \in [Rows -> Nat]
        /\ earlier \in [Rows -> SUBSET Rows] /\ clock \in Nat /\ notified \in Nat
        /\ pc \in RelayPc /\ batch \in SUBSET Rows /\ sending \in SUBSET Rows
    BY DEF Init, RowState, RelayPc
  <2>2. listening \in BOOLEAN
    BY Zenon DEF Init
  <2>4. stream \in Seq(Rows)
    BY SMT DEF Init
  <2>3. faults \in [FaultKinds -> Nat]
    BY OutboxAssumption DEF Init
  <2>. QED
    BY <2>1, <2>2, <2>3, <2>4 DEF TypeOK
<1>3. BatchInv /\ SendingInv /\ ClockInv /\ BatchClosed
  BY DEF Init, BatchInv, SendingInv, ClockInv, BatchClosed
<1>4. PublishedOnStream /\ StreamIsCommitted /\ CausalOrder
  BY <1>1 DEF Init, PublishedOnStream, StreamIsCommitted, CausalOrder, Published
<1>. QED
  BY <1>2, <1>3, <1>4 DEF IInv

\* The parts of the invariant a step preserves when it touches neither the
\* table, nor the stream, nor what the relay holds in its hands.
LEMMA IdleStep ==
    ASSUME IInv, UNCHANGED <<row, occurred_at, earlier, clock, batch, sending, stream>>,
           notified' \in Nat, listening' \in BOOLEAN, faults' \in [FaultKinds -> Nat],
           pc' \in RelayPc,
           batch # {} => pc' \in {"rows", "mark"},
           sending # {} => pc' = "mark"
    PROVE  IInv'
<1>1. OnStream' = OnStream /\ Committed' = Committed /\ Published' = Published
  BY SameStream DEF Committed, Published
<1>. QED
  BY <1>1 DEF IInv, TypeOK, BatchInv, SendingInv, ClockInv, BatchClosed,
              PublishedOnStream, StreamIsCommitted, CausalOrder

\* Failures stay within their bound.
LEMMA FaultBound ==
    ASSUME NEW kind, Fault(kind), TypeOK
    PROVE  faults' \in [FaultKinds -> Nat]
  BY OutboxAssumption DEF Fault, TypeOK

LEMMA NextIInv == IInv /\ [Next]_vars => IInv'
<1> SUFFICES ASSUME IInv, [Next]_vars PROVE IInv'
  OBVIOUS
<1>0. TypeOK
  BY DEF IInv
<1> USE <1>0
<1>1. ASSUME NEW r \in Rows, BeginTx(r) PROVE IInv'
  <2>1. OnStream' = OnStream
    BY <1>1, SameStream DEF BeginTx, relayVars
  <2>2. Committed' = Committed /\ Published' = Published
    BY <1>1 DEF BeginTx, TypeOK, Committed, Published
  <2>3. TypeOK'
    BY <1>1 DEF BeginTx, TypeOK, RowState, relayVars, Committed
  <2>4. BatchInv' /\ SendingInv'
    BY <1>1, <2>1 DEF BeginTx, TypeOK, IInv, BatchInv, SendingInv, relayVars
  <2>5. ClockInv'
    BY <1>1, <2>2 DEF BeginTx, TypeOK, IInv, ClockInv, Committed
  <2>6. /\ r \notin batch
        /\ r \notin OnStream
    BY <1>1 DEF BeginTx, IInv, BatchInv, StreamIsCommitted, Committed
  <2>7. BatchClosed' /\ CausalOrder'
    BY <1>1, <2>1, <2>6 DEF BeginTx, TypeOK, IInv, BatchClosed, CausalOrder, BatchInv,
                            StreamIsCommitted, Committed, relayVars
  <2>. QED
    BY <2>1, <2>2, <2>3, <2>4, <2>5, <2>7
       DEF IInv, PublishedOnStream, StreamIsCommitted
<1>2. ASSUME NEW r \in Rows, CommitTx(r) PROVE IInv'
  <2>1. OnStream' = OnStream
    BY <1>2, SameStream DEF CommitTx
  <2>2. Committed' = Committed \cup {r} /\ Published' = Published
    BY <1>2 DEF CommitTx, TypeOK, Committed, Published
  <2>3. TypeOK'
    BY <1>2 DEF CommitTx, TypeOK, RowState
  <2>4. BatchInv' /\ SendingInv'
    BY <1>2, <2>1 DEF CommitTx, TypeOK, IInv, BatchInv, SendingInv
  <2>5. ClockInv'
    BY <1>2, <2>2 DEF CommitTx, TypeOK, IInv, ClockInv
  <2>6. BatchClosed' /\ CausalOrder'
    BY <1>2, <2>1 DEF CommitTx, IInv, BatchClosed, CausalOrder
  <2>. QED
    BY <2>1, <2>2, <2>3, <2>4, <2>5, <2>6
       DEF IInv, PublishedOnStream, StreamIsCommitted
<1>3. ASSUME NEW r \in Rows, RollbackTx(r) PROVE IInv'
  <2>1. OnStream' = OnStream
    BY <1>3, SameStream DEF RollbackTx, relayVars
  <2>2. Committed' = Committed /\ Published' = Published
    BY <1>3 DEF RollbackTx, TypeOK, Committed, Published
  <2>3. TypeOK'
    BY <1>3 DEF RollbackTx, TypeOK, RowState, relayVars
  <2>4. BatchInv' /\ SendingInv'
    BY <1>3, <2>1 DEF RollbackTx, TypeOK, IInv, BatchInv, SendingInv, relayVars
  <2>5. ClockInv'
    BY <1>3, <2>2 DEF RollbackTx, TypeOK, IInv, ClockInv
  <2>6. BatchClosed' /\ CausalOrder'
    BY <1>3, <2>1 DEF RollbackTx, IInv, BatchClosed, CausalOrder, relayVars
  <2>. QED
    BY <2>1, <2>2, <2>3, <2>4, <2>5, <2>6
       DEF IInv, PublishedOnStream, StreamIsCommitted
<1>4. CASE StartProcess \/ Listen \/ Recv \/ RecvReconnects \/ Reconnect \/ EndDrain
  <2>1. notified' \in Nat /\ pc' \in RelayPc
    BY <1>4 DEF StartProcess, Listen, Recv, RecvReconnects, Reconnect, EndDrain,
                TypeOK, RelayPc
  <2>3. listening' \in BOOLEAN
    BY <1>4, Zenon DEF StartProcess, Listen, Recv, RecvReconnects, Reconnect, EndDrain,
                TypeOK
  <2>2. /\ UNCHANGED <<row, occurred_at, earlier, clock, batch, sending, stream, faults>>
        /\ batch # {} => pc' \in {"rows", "mark"}
        /\ sending # {} => pc' = "mark"
    BY <1>4 DEF StartProcess, Listen, Recv, RecvReconnects, Reconnect, EndDrain,
                tableVars, IInv, BatchInv, SendingInv
  <2>. QED
    BY <2>1, <2>2, <2>3, IdleStep DEF TypeOK
<1>5. CASE RecvErr \/ ReconnectFails \/ SelectFails \/ LoseListener
  <2>1. faults' \in [FaultKinds -> Nat]
    BY <1>5, FaultBound DEF RecvErr, ReconnectFails, SelectFails, LoseListener, IInv, TypeOK
  <2>2. notified' \in Nat /\ pc' \in RelayPc
    BY <1>5 DEF RecvErr, ReconnectFails, SelectFails, LoseListener, TypeOK, RelayPc
  <2>4. listening' \in BOOLEAN
    BY <1>5, Zenon DEF RecvErr, ReconnectFails, SelectFails, LoseListener, TypeOK
  <2>3. /\ UNCHANGED <<row, occurred_at, earlier, clock, batch, sending, stream>>
        /\ batch # {} => pc' \in {"rows", "mark"}
        /\ sending # {} => pc' = "mark"
    BY <1>5 DEF RecvErr, ReconnectFails, SelectFails, LoseListener,
                tableVars, IInv, BatchInv, SendingInv
  <2>. QED
    BY <2>1, <2>2, <2>3, <2>4, IdleStep
<1>6. CASE SelectPending
  <2>1. PICK S \in SUBSET Rows : /\ OldestVisible(S)
                                 /\ batch' = S
                                 /\ pc' = IF S = {} THEN "recv" ELSE "rows"
    BY <1>6 DEF SelectPending
  <2>2. /\ UNCHANGED <<row, occurred_at, earlier, clock, notified, listening,
                       sending, stream, faults>>
        /\ sending = {}
    BY <1>6 DEF SelectPending, tableVars, IInv, SendingInv
  <2>3. OnStream' = OnStream /\ Committed' = Committed /\ Published' = Published
    BY <2>2, SameStream DEF Committed, Published
  <2>4. TypeOK' /\ BatchInv' /\ SendingInv' /\ ClockInv' /\ CausalOrder'
    BY <2>1, <2>2, <2>3 DEF OldestVisible, Visible, TypeOK, RelayPc, BatchInv,
                            SendingInv, ClockInv, CausalOrder, IInv
  <2>5. BatchClosed'
    <3> SUFFICES ASSUME NEW r \in S, NEW q \in earlier[r] \ Poison, q \notin S
                 PROVE  q \in OnStream
      BY <2>1, <2>2, <2>3 DEF BatchClosed
    <3>1. r \in Rows /\ q \in Rows /\ Visible(r)
      BY <2>1 DEF OldestVisible, TypeOK
    <3>2. q \in Committed /\ occurred_at[q] < occurred_at[r]
      BY <3>1 DEF IInv, ClockInv
    <3>3. ~Visible(q)
      BY <2>1, <3>1, <3>2 DEF OldestVisible, TypeOK
    <3>. QED
      BY <3>1, <3>2, <3>3 DEF Visible, Committed, Published, IInv, PublishedOnStream
  <2>. QED
    BY <2>3, <2>4, <2>5 DEF IInv, PublishedOnStream, StreamIsCommitted
<1>7. ASSUME NEW r \in Rows, SkipPoison(r) PROVE IInv'
  <2>1. OnStream' = OnStream /\ Committed' = Committed /\ Published' = Published
    BY <1>7, SameStream DEF SkipPoison, tableVars, Committed, Published
  <2>2. TypeOK' /\ BatchInv' /\ SendingInv' /\ ClockInv' /\ CausalOrder'
    BY <1>7, <2>1 DEF SkipPoison, tableVars, TypeOK, BatchInv, SendingInv, ClockInv,
                      CausalOrder, IInv
  <2>3. BatchClosed'
    BY <1>7, <2>1 DEF SkipPoison, tableVars, BatchClosed, IInv
  <2>. QED
    BY <2>1, <2>2, <2>3 DEF IInv, PublishedOnStream, StreamIsCommitted
<1>8. ASSUME NEW r \in Rows, First(r), pc = "rows"
      PROVE  /\ row[r] = "pending"
             /\ earlier[r] \ Poison \subseteq OnStream
  <2>1. r \in batch /\ row[r] = "pending"
    BY <1>8 DEF First, IInv, BatchInv
  <2>2. \A q \in batch : q \notin earlier[r]
    <3> SUFFICES ASSUME NEW q \in batch, q \in earlier[r] PROVE FALSE
      OBVIOUS
    <3>1. q \in Rows /\ occurred_at[q] < occurred_at[r]
      BY DEF IInv, ClockInv, TypeOK
    <3>2. occurred_at[r] <= occurred_at[q]
      BY <1>8 DEF First
    <3>. QED
      BY <3>1, <3>2 DEF TypeOK
  <2>. QED
    BY <2>1, <2>2 DEF IInv, BatchClosed
<1>9. ASSUME NEW r \in Rows, First(r), pc = "rows", stream' = Append(stream, r),
             UNCHANGED tableVars
      PROVE  /\ stream' \in Seq(Rows)
             /\ OnStream' = OnStream \cup {r}
             /\ Committed' = Committed /\ Published' = Published
             /\ PublishedOnStream' /\ StreamIsCommitted' /\ CausalOrder'
  <2>1. OnStream' = OnStream \cup {r} /\ stream' \in Seq(Rows)
    BY <1>9, AppendOnStream DEF TypeOK
  <2>2. Committed' = Committed /\ Published' = Published
    BY <1>9 DEF tableVars, Committed, Published
  <2>3. r \in Committed
    BY <1>8, <1>9 DEF Committed
  <2>4. PublishedOnStream' /\ StreamIsCommitted'
    BY <2>1, <2>2, <2>3 DEF IInv, PublishedOnStream, StreamIsCommitted
  <2>5. CausalOrder'
    BY <1>8, <1>9, <2>1 DEF IInv, CausalOrder, tableVars
  <2>. QED
    BY <2>1, <2>2, <2>4, <2>5
<1>10. ASSUME NEW r \in Rows, Publish(r) PROVE IInv'
  <2>1. First(r) /\ pc = "rows" /\ stream' = Append(stream, r) /\ UNCHANGED tableVars
    BY <1>10 DEF Publish
  <2>2. TypeOK'
    BY <1>9, <1>10, <2>1 DEF Publish, tableVars, TypeOK, RelayPc
  <2>3. BatchInv'
    BY <1>10 DEF Publish, tableVars, BatchInv, IInv
  <2>4. SendingInv'
    BY <1>8, <1>9, <1>10, <2>1 DEF Publish, tableVars, SendingInv
  <2>5. ClockInv'
    BY <1>9, <2>1 DEF tableVars, ClockInv, IInv
  <2>6. BatchClosed'
    BY <1>9, <1>10, <2>1 DEF Publish, tableVars, BatchClosed, IInv
  <2>. QED
    BY <1>9, <2>1, <2>2, <2>3, <2>4, <2>5, <2>6 DEF IInv
<1>11. ASSUME NEW r \in Rows, PublishFails(r) PROVE IInv'
  <2>1. First(r) /\ pc = "rows" /\ UNCHANGED tableVars
    BY <1>11 DEF PublishFails
  <2>2. faults' \in [FaultKinds -> Nat]
    BY <1>11, FaultBound DEF PublishFails
  <2>3. /\ stream' \in Seq(Rows)
        /\ Committed' = Committed /\ Published' = Published
        /\ PublishedOnStream' /\ StreamIsCommitted' /\ CausalOrder'
    <3>1. CASE stream' = Append(stream, r)
      BY <1>9, <2>1, <3>1
    <3>2. CASE stream' = stream
      BY <2>1, <3>2, SameStream DEF tableVars, TypeOK, Committed, Published,
         PublishedOnStream, StreamIsCommitted, CausalOrder, IInv
    <3>. QED
      BY <1>11, <3>1, <3>2 DEF PublishFails
  <2>4. sending = {}
    BY <2>1 DEF IInv, SendingInv
  <2>5. TypeOK' /\ BatchInv' /\ SendingInv' /\ ClockInv' /\ BatchClosed'
    BY <1>11, <2>2, <2>3, <2>4 DEF PublishFails, tableVars, TypeOK, RelayPc, BatchInv,
       SendingInv, ClockInv, BatchClosed, IInv
  <2>. QED
    BY <2>3, <2>5 DEF IInv
<1>12. ASSUME UNCHANGED <<occurred_at, earlier, clock, notified, listening, stream>>,
              \/ row' = row
              \/ row' = [r \in Rows |-> IF r \in sending THEN "published" ELSE row[r]]
       PROVE  /\ row' \in [Rows -> RowState]
              /\ OnStream' = OnStream /\ Committed' = Committed
              /\ ClockInv' /\ PublishedOnStream' /\ StreamIsCommitted' /\ CausalOrder'
  <2>1. row' \in [Rows -> RowState]
    BY <1>12 DEF TypeOK, RowState
  <2>2. OnStream' = OnStream
    BY <1>12, SameStream
  <2>3. Committed' = Committed
    BY <1>12 DEF Committed, TypeOK, IInv, SendingInv
  <2>4. Published' \subseteq Published \cup sending
    BY <1>12 DEF Published
  <2>5. ClockInv'
    BY <1>12, <2>3 DEF ClockInv, IInv, SendingInv
  <2>6. PublishedOnStream' /\ StreamIsCommitted' /\ CausalOrder'
    BY <1>12, <2>2, <2>3, <2>4 DEF IInv, PublishedOnStream, StreamIsCommitted,
       CausalOrder, SendingInv
  <2>. QED
    BY <2>1, <2>2, <2>3, <2>5, <2>6
<1>13. CASE Mark
  <2>1. TypeOK' /\ BatchInv' /\ SendingInv' /\ BatchClosed'
    BY <1>12, <1>13 DEF Mark, TypeOK, RelayPc, BatchInv, SendingInv, BatchClosed, IInv
  <2>. QED
    BY <1>12, <1>13, <2>1 DEF Mark, IInv
<1>14. CASE MarkFails
  <2>1. faults' \in [FaultKinds -> Nat]
    BY <1>14, FaultBound DEF MarkFails
  <2>2. TypeOK' /\ BatchInv' /\ SendingInv' /\ BatchClosed'
    BY <1>12, <1>14, <2>1 DEF MarkFails, TypeOK, RelayPc, BatchInv, SendingInv,
       BatchClosed, IInv
  <2>. QED
    BY <1>12, <1>14, <2>2 DEF MarkFails, IInv
<1>15. CASE Crash
  <2>1. faults' \in [FaultKinds -> Nat]
    BY <1>15, FaultBound DEF Crash
  <2>2. OnStream' = OnStream
    BY <1>15, SameStream DEF Crash
  <2>3. Committed' = Committed /\ Published' = Published
    BY <1>15 DEF Crash, Committed, Published, TypeOK
  <2>4. TypeOK' /\ BatchInv' /\ SendingInv' /\ BatchClosed'
    BY <1>15, <2>1 DEF Crash, TypeOK, RowState, RelayPc, BatchInv, SendingInv, BatchClosed
  <2>5. ClockInv'
    BY <1>15, <2>3 DEF Crash, ClockInv, TypeOK, IInv
  <2>6. PublishedOnStream' /\ StreamIsCommitted' /\ CausalOrder'
    BY <1>15, <2>2, <2>3 DEF Crash, IInv, PublishedOnStream, StreamIsCommitted, CausalOrder
  <2>. QED
    BY <2>4, <2>5, <2>6 DEF IInv
<1>16. CASE UNCHANGED vars
  <2>1. OnStream' = OnStream /\ Committed' = Committed /\ Published' = Published
    BY <1>16, SameStream DEF vars, Committed, Published
  <2>. QED
    BY <1>16, <2>1 DEF vars, IInv, TypeOK, BatchInv, SendingInv, ClockInv, BatchClosed,
       PublishedOnStream, StreamIsCommitted, CausalOrder
<1>. QED
  BY <1>1, <1>2, <1>3, <1>4, <1>5, <1>6, <1>7, <1>10, <1>11, <1>13, <1>14, <1>15, <1>16
     DEF Next, RelayStep, Failure, Business

-----------------------------------------------------------------------------
\* The inductive invariant holds in every reachable state of the outbox.
THEOREM Invariance == Spec => []IInv
<1>1. Init => IInv
  BY InitIInv
<1>2. IInv /\ [Next]_vars => IInv'
  BY NextIInv
<1>. QED
  BY <1>1, <1>2, PTL DEF Spec

\* Every variable of the table, the relay and the stream keeps its type.
THEOREM TypeCorrect == Spec => []TypeOK
<1>1. IInv => TypeOK
  BY DEF IInv
<1>. QED
  BY <1>1, Invariance, PTL

\* A row is marked published only if its event is on the stream.
THEOREM MarkedIsOnStream == Spec => []PublishedOnStream
<1>1. IInv => PublishedOnStream
  BY DEF IInv
<1>. QED
  BY <1>1, Invariance, PTL

\* No event is on the stream whose transaction did not commit.
THEOREM StreamHoldsCommitted == Spec => []StreamIsCommitted
<1>1. IInv => StreamIsCommitted
  BY DEF IInv
<1>. QED
  BY <1>1, Invariance, PTL

\* The stream is closed under "committed before this transaction began".
THEOREM StreamIsCausal == Spec => []CausalOrder
<1>1. IInv => CausalOrder
  BY DEF IInv
<1>. QED
  BY <1>1, Invariance, PTL

-----------------------------------------------------------------------------
\* The only steps that write the stream, and what they write.
LEMMA StreamStep ==
    ASSUME IInv, Next, stream' # stream
    PROVE  \E r \in Rows : /\ row[r] = "pending"
                           /\ stream' = Append(stream, r)
                           /\ UNCHANGED tableVars
<1>1. PICK r \in Rows : Publish(r) \/ PublishFails(r)
  BY DEF Next, RelayStep, Failure, Business, StartProcess, Listen, Recv, RecvReconnects,
         Reconnect, SelectPending, EndDrain, Mark, SkipPoison, RecvErr, ReconnectFails,
         SelectFails, MarkFails, LoseListener, Crash, BeginTx, CommitTx, RollbackTx,
         relayVars
<1>2. row[r] = "pending" /\ stream' = Append(stream, r) /\ UNCHANGED tableVars
  BY <1>1 DEF Publish, PublishFails, First, IInv, BatchInv
<1>. QED
  BY <1>2

\* An event whose row is marked is never published again.
THEOREM MarkedIsFinal == Spec => NeverRepublished
<1>1. IInv /\ [Next]_vars
        => [stream' # stream => row[stream'[Len(stream')]] = "pending"]_vars
  <2> SUFFICES ASSUME IInv, Next, stream' # stream
               PROVE  row[stream'[Len(stream')]] = "pending"
    OBVIOUS
  <2>1. PICK r \in Rows : row[r] = "pending" /\ stream' = Append(stream, r)
    BY StreamStep
  <2>2. stream'[Len(stream')] = r
    BY <2>1, AppendOnStream DEF IInv, TypeOK
  <2>. QED
    BY <2>1, <2>2
<1>. QED
  BY <1>1, Invariance, PTL DEF Spec, NeverRepublished

\* The relay implements the at-least-once hop of AtLeastOnce: every step of the
\* outbox offers one committed row, delivers one unmarked event, settles one
\* published row, or leaves the three sets as they are.
THEOREM Refinement == Spec => ImplementsAtLeastOnce
<1>1. Init => Hop!AInit
  BY DEF Init, Hop!AInit, Committed, OnStream, Published
<1>2. IInv /\ [Next]_vars => [Hop!ANext]_(Hop!avars)
  <2> SUFFICES ASSUME IInv, [Next]_vars
               PROVE  [Hop!ANext]_(Hop!avars)
    OBVIOUS
  <2>1. CASE stream' # stream
    <3>1. PICK r \in Rows : /\ row[r] = "pending"
                            /\ stream' = Append(stream, r)
                            /\ UNCHANGED tableVars
      BY <2>1, StreamStep DEF vars
    <3>2. OnStream' = OnStream \cup {r}
      BY <3>1, AppendOnStream DEF IInv, TypeOK
    <3>3. Hop!Deliver(r)
      BY <3>1, <3>2 DEF Hop!Deliver, tableVars, Committed, Published
    <3>. QED
      BY <3>3 DEF Hop!ANext
  <2>2. CASE stream' = stream
    <3>1. OnStream' = OnStream
      BY <2>2, SameStream
    <3>2. CASE row' = row
      BY <3>1, <3>2 DEF Hop!avars, Committed, Published
    <3>3. ASSUME NEW r \in Rows, CommitTx(r) PROVE Hop!Offer(r)
      <4>1. Committed' = Committed \cup {r} /\ Published' = Published
        BY <3>3 DEF CommitTx, Committed, Published, IInv, TypeOK
      <4>. QED
        BY <3>1, <4>1 DEF Hop!Offer
    <3>4. ASSUME \/ \E r \in Rows : BeginTx(r) \/ RollbackTx(r)
                 \/ Crash
          PROVE  UNCHANGED Hop!avars
      <4>1. Committed' = Committed /\ Published' = Published
        BY <3>4 DEF BeginTx, RollbackTx, Crash, Committed, Published, IInv, TypeOK
      <4>. QED
        BY <3>1, <4>1 DEF Hop!avars
    <3>5. ASSUME Mark \/ MarkFails, row' # row
          PROVE  \E r \in Rows : Hop!Settle(r)
      <4>1. row' = [r \in Rows |-> IF r \in sending THEN "published" ELSE row[r]]
        BY <3>5 DEF Mark, MarkFails
      <4>2. PICK r \in Rows : r \in sending
        BY <3>5, <4>1 DEF IInv, TypeOK
      <4>3. sending = {r}
        BY <4>2 DEF IInv, SendingInv
      <4>4. Published' = Published \cup {r} /\ Committed' = Committed
        BY <4>1, <4>3 DEF Committed, Published, IInv, SendingInv
      <4>. QED
        BY <3>1, <4>3, <4>4 DEF Hop!Settle, IInv, SendingInv
    <3>6. CASE UNCHANGED vars
      BY <3>2, <3>6 DEF vars
    <3>7. CASE Next
      BY <3>2, <3>3, <3>4, <3>5, <3>7
         DEF Hop!ANext, Next, RelayStep, Failure, Business, StartProcess, Listen, Recv,
             RecvReconnects, Reconnect, SelectPending, EndDrain, SkipPoison, RecvErr,
             ReconnectFails, SelectFails, LoseListener, Publish, PublishFails, tableVars
    <3>. QED
      BY <3>6, <3>7
  <2>. QED
    BY <2>1, <2>2
<1>. QED
  BY <1>1, <1>2, Invariance, PTL DEF Spec, ImplementsAtLeastOnce, Hop!ASpec
=============================================================================
