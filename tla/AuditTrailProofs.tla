-------------------------- MODULE AuditTrailProofs --------------------------
(***************************************************************************)
(* Theorems about AuditTrail for every set of tenants and of events, every *)
(* LIMIT and MAXLEN, with and without row security, and every number of    *)
(* failures.                                                               *)
(***************************************************************************)
EXTENDS AuditTrail, StreamConsumerProofs

Whos == Tenants \cup {System, "admin"}

AuditTypeInv ==
    /\ said \in [Events -> {"none", "sending", "sent", "lost"}]
    /\ ref \in Seq(Events) /\ Len(ref) = last
    /\ handler \in {"none", "begin", "insert", "commit", "done"}
    /\ trail \in Seq(Events)
    /\ reader \in [who : Whos, offset : Nat \cup {-1}, due : SUBSET Nat]

\* An event is put on the stream once at most.
StreamInv ==
    /\ \A i, k \in 1 .. last : ref[i] = ref[k] => i = k
    /\ \A i \in 1 .. last : said[ref[i]] \in {"sent", "lost"}

\* The consolidation of entry i is over.
Done(i) == Current(i) /\ (pc = "ack" \/ handler = "done")

\* An entry is recorded once in a life of the process at most: not again after it
\* was, unless a start rereads it.
CountInv ==
    /\ handler # "none" => pc = "handle"
    /\ \A k \in DOMAIN trail : \E i \in 1 .. last : ref[i] = trail[k]
    /\ \A i \in 1 .. last :
          /\ Copies(ref[i]) <= 1 + Crashes
          /\ pc \in {"down", "ensure", "pending"} => Copies(ref[i]) <= Crashes
          /\ i \in batch /\ ~Done(i) => Copies(ref[i]) <= Crashes
          /\ i > cursor => Copies(ref[i]) = 0

\* As long as the database answers, a consolidation that is over has recorded its
\* event, unless the table refuses it.
RecordedInv ==
    OnlyFailed(OutsideFaults) =>
        /\ \A i \in handled : Refused(ref[i]) \/ Recorded(i)
        /\ \A i \in Entries : Current(i) /\ handler = "done" /\ i \notin blank =>
              Refused(ref[i]) \/ Recorded(i)

\* How many rows of R are newer than row k.
Rank(R, k) == Cardinality({j \in R : j > k})

\* What the reader has still to see lies beyond its offset.
ReaderInv ==
    reader # Idle =>
        /\ reader.offset \in Nat
        /\ reader.due \subseteq Rows(reader.who)
        /\ \A k \in reader.due : Rank(Rows(reader.who), k) >= reader.offset

\* The inductive invariant.
TrailInv == AuditTypeInv /\ StreamInv /\ CountInv /\ RecordedInv /\ ReaderInv
AuditInv == IInv /\ TrailInv

-----------------------------------------------------------------------------
(***************************************************************************)
(* The reader.                                                             *)
(***************************************************************************)
\* A set of positions has a last one.
LEMMA LastMember ==
    ASSUME NEW n \in Nat, NEW S \in SUBSET (1 .. n), S # {}
    PROVE  \E m \in S : \A k \in S : k <= m
<1> DEFINE T == {n - i : i \in S}
<1>1. T \in SUBSET Nat /\ T # {}
  <2>1. \A i \in 1 .. n : n - i \in Nat
    OBVIOUS
  <2>. QED
    BY <2>1
<1>2. PICK t \in T : \A k \in T : t <= k
  BY <1>1, LeastMember
<1>3. PICK m \in S : t = n - m
  OBVIOUS
<1>4. ASSUME NEW k \in S PROVE k <= m
  <2>1. t <= n - k
    BY <1>2
  <2>. QED
    BY <1>3, <2>1
<1>. QED
  BY <1>4

\* Only finitely many rows are newer.
LEMMA RankFacts ==
    ASSUME NEW n \in Nat, NEW R \in SUBSET (1 .. n), NEW k
    PROVE  IsFiniteSet({j \in R : j > k}) /\ Rank(R, k) \in Nat
<1>1. IsFiniteSet(1 .. n)
  BY FS_Interval
<1>2. IsFiniteSet({j \in R : j > k})
  BY <1>1, FS_Subset
<1>. QED
  BY <1>2, FS_CardinalityType DEF Rank

\* A page is empty only when no row lies beyond its offset.
LEMMA PageOfTheRest ==
    ASSUME NEW n \in Nat, NEW R \in SUBSET (1 .. n), NEW offset \in Nat,
           NEW k \in R, Rank(R, k) >= offset
    PROVE  Page(R, offset) # {}
<1> DEFINE D == {m \in R : Rank(R, m) >= offset}
<1>1. D \in SUBSET (1 .. n) /\ D # {}
  OBVIOUS
<1>2. PICK m \in D : \A x \in D : x <= m
  BY <1>1, LastMember
<1>3. m \in R /\ m \in Nat /\ Rank(R, m) \in Nat /\ Rank(R, m) >= offset
  <2>1. m \in R /\ Rank(R, m) >= offset
    OBVIOUS
  <2>2. m \in 1 .. n
    BY <2>1
  <2>3. m \in Nat
    BY <2>2
  <2>4. Rank(R, m) \in Nat
    BY RankFacts
  <2>. QED
    BY <2>1, <2>3, <2>4
<1>4. Rank(R, m) = offset
  <2> SUFFICES ASSUME Rank(R, m) # offset PROVE FALSE
    OBVIOUS
  <2> DEFINE Above == {j \in R : j > m}
  <2>1. IsFiniteSet(Above) /\ Cardinality(Above) = Rank(R, m)
    BY RankFacts DEF Rank
  <2>2. Above # {}
    BY <1>3, <2>1, FS_EmptySet
  <2>3. PICK j \in Above : \A x \in Above : j <= x
    <3>1. Above \subseteq 1 .. n
      OBVIOUS
    <3>2. 1 .. n \subseteq Nat
      OBVIOUS
    <3>3. Above \in SUBSET Nat
      BY <3>1, <3>2
    <3>. HIDE DEF Above
    <3>. QED
      BY <2>2, <3>3, LeastMember
  <2>4. {x \in R : x > j} = Above \ {j}
    <3>1. ASSUME NEW x \in R, x > j PROVE x \in Above \ {j}
      BY <1>3, <3>1
    <3>2. ASSUME NEW x \in Above \ {j} PROVE x \in R /\ x > j
      BY <2>3
    <3>. QED
      BY <3>1, <3>2
  <2>5. Rank(R, j) = Rank(R, m) - 1
    BY <2>1, <2>4, FS_RemoveElement DEF Rank
  <2>6. Rank(R, j) >= offset
    BY <1>3, <2>5
  <2>7. j \in D /\ j > m /\ j \in Nat
    BY <2>6
  <2>. QED
    BY <1>2, <1>3, <2>7
<1>5. m \in Page(R, offset)
  BY <1>3, <1>4, AuditAssumption DEF Page, Rank
<1>. QED
  BY <1>5

\* The rows a reader asks for stay where they are; a new one is the newest.
LEMMA RowsGrow ==
    ASSUME trail \in Seq(Events), NEW e \in Events, trail' \in {trail, Append(trail, e)}, NEW who
    PROVE  /\ Len(trail) \in Nat /\ Len(trail') \in Nat
           /\ Rows(who) \in SUBSET (1 .. Len(trail)) /\ Rows(who)' \in SUBSET (1 .. Len(trail'))
           /\ Rows(who)' \cap (1 .. Len(trail)) = Rows(who)
<1>1. /\ Len(trail) \in Nat /\ DOMAIN trail = 1 .. Len(trail)
      /\ Len(trail') \in Nat /\ DOMAIN trail' = 1 .. Len(trail')
      /\ 1 .. Len(trail) \subseteq 1 .. Len(trail')
      /\ \A k \in 1 .. Len(trail) : trail'[k] = trail[k]
  <2>1. CASE trail' = trail
    BY <2>1
  <2>2. CASE trail' = Append(trail, e)
    BY <2>2, AppendFacts
  <2>. QED
    BY <2>1, <2>2
<1>2. \A w : /\ VisibleTo(w) \in SUBSET (1 .. Len(trail)) /\ VisibleTo(w)' \in SUBSET (1 .. Len(trail'))
             /\ VisibleTo(w)' \cap (1 .. Len(trail)) = VisibleTo(w)
  BY <1>1 DEF VisibleTo
<1>3. CASE who = System
  <2> DEFINE V == VisibleTo("admin")
  <2>1. V \in SUBSET (1 .. Len(trail)) /\ V' \in SUBSET (1 .. Len(trail')) /\ V' \cap (1 .. Len(trail)) = V
    BY <1>2
  <2>2. /\ Rows(who) = {k \in V : TenantOf[trail[k]] = System}
        /\ Rows(who)' = {k \in V' : TenantOf[trail'[k]] = System}
    <3>1. Rows(who) = GlobalRows /\ Rows(who)' = GlobalRows'
      BY <1>3, AuditAssumption DEF Rows
    <3>. QED
      BY <3>1 DEF GlobalRows
  <2>. HIDE DEF V
  <2>. QED
    BY <1>1, <2>1, <2>2
<1>4. CASE who # System /\ who = "admin"
  BY <1>1, <1>2, <1>4 DEF Rows, AdminRows
<1>5. CASE who # System /\ who # "admin"
  BY <1>1, <1>2, <1>5 DEF Rows, EventRows, TenantRows
<1>. QED
  BY <1>1, <1>3, <1>4, <1>5

\* Rows consolidated meanwhile only push the walk's rows further back.
LEMMA TrailKeepsReader ==
    ASSUME ReaderInv, trail \in Seq(Events), reader' = reader,
           trail' = trail \/ \E e \in Events : trail' = Append(trail, e)
    PROVE  ReaderInv'
<1>1. CASE trail' = trail
  BY <1>1 DEF ReaderInv, Rows, GlobalRows, AdminRows, EventRows, TenantRows, VisibleTo, Rank
<1>2. ASSUME NEW e \in Events, trail' = Append(trail, e), reader # Idle PROVE ReaderInv'
  <2> DEFINE R == Rows(reader.who)
             n == Len(trail)
  <2>1. /\ n \in Nat /\ Len(trail') \in Nat
        /\ R \in SUBSET (1 .. n) /\ R' \in SUBSET (1 .. Len(trail')) /\ R' \cap (1 .. n) = R
    BY <1>2, RowsGrow
  <2>2. ASSUME NEW k \in reader.due PROVE Rank(R', k) >= reader.offset
    <3>1. IsFiniteSet({j \in R' : j > k}) /\ Rank(R', k) \in Nat /\ Rank(R, k) \in Nat
      BY <2>1, RankFacts
    <3>2. {j \in R : j > k} \subseteq {j \in R' : j > k}
      BY <2>1
    <3>3. Rank(R, k) <= Rank(R', k)
      BY <3>1, <3>2, FS_Subset DEF Rank
    <3>4. Rank(R, k) >= reader.offset /\ reader.offset \in Nat
      BY <1>2 DEF ReaderInv
    <3>. HIDE DEF R
    <3>. QED
      BY <3>1, <3>3, <3>4
  <2>3. reader.due \subseteq R'
    BY <1>2, <2>1 DEF ReaderInv
  <2>. QED
    BY <1>2, <2>2, <2>3 DEF ReaderInv
<1>. QED
  BY <1>1, <1>2 DEF ReaderInv

\* A page takes what it shows, and the rest lies beyond the next offset.
LEMMA NextPageFacts ==
    ASSUME AuditTypeInv, ReaderInv, NextPage
    PROVE  /\ ReaderInv'
           /\ reader' = Idle => reader.due = {}
           /\ reader' \in [who : Whos, offset : Nat \cup {-1}, due : SUBSET Nat]
<1> DEFINE R == Rows(reader.who)
           page == Page(R, reader.offset)
<1>1. /\ reader # Idle /\ reader.offset \in Nat /\ reader.due \subseteq R
      /\ \A k \in reader.due : Rank(R, k) >= reader.offset
  BY DEF NextPage, ReaderInv
<1>2. trail \in Seq(Events) /\ trail' = trail
  BY DEF NextPage, AuditTypeInv
<1>3. Len(trail) \in Nat /\ R \in SUBSET (1 .. Len(trail)) /\ R' \in SUBSET (1 .. Len(trail'))
  <2>1. Len(trail) \in Nat /\ DOMAIN trail = 1 .. Len(trail)
    BY <1>2
  <2>2. R \subseteq DOMAIN trail
    BY DEF Rows, GlobalRows, AdminRows, EventRows, TenantRows, VisibleTo
  <2>3. R' \subseteq DOMAIN trail'
    BY DEF Rows, GlobalRows, AdminRows, EventRows, TenantRows, VisibleTo
  <2>. QED
    BY <1>2, <2>1, <2>2, <2>3
<1>4. reader \in [who : Whos, offset : Nat \cup {-1}, due : SUBSET Nat]
  BY DEF AuditTypeInv
<1>5. Idle \in [who : Whos, offset : Nat \cup {-1}, due : SUBSET Nat]
  BY DEF Idle, Whos
<1>6. CASE page = {}
  <2>1. reader' = Idle
    BY <1>6 DEF NextPage
  <2>2. reader.due = {}
    <3> SUFFICES ASSUME NEW k \in reader.due PROVE FALSE
      OBVIOUS
    <3>. QED
      BY <1>1, <1>3, <1>6, PageOfTheRest
  <2>. QED
    BY <1>5, <2>1, <2>2 DEF ReaderInv
<1>7. CASE page # {}
  <2>1. reader' = [reader EXCEPT !.due = reader.due \ page, !.offset = reader.offset + Limit]
    BY <1>7 DEF NextPage
  <2>2. /\ reader'.who = reader.who /\ reader'.due = reader.due \ page
        /\ reader'.offset = reader.offset + Limit
        /\ reader' \in [who : Whos, offset : Nat \cup {-1}, due : SUBSET Nat]
    <3>1. reader.offset + Limit \in Nat /\ reader.due \ page \in SUBSET Nat
      BY <1>1, <1>4, AuditAssumption
    <3>. HIDE DEF page
    <3>. QED
      BY <1>4, <2>1, <3>1
  <2>3. Rows(reader.who)' = R
    BY <1>2, <2>2 DEF Rows, GlobalRows, AdminRows, EventRows, TenantRows, VisibleTo
  <2>4. ASSUME NEW k \in reader'.due PROVE Rank(R, k) >= reader'.offset
    <3>1. k \in R /\ k \notin page /\ Rank(R, k) >= reader.offset /\ Rank(R, k) \in Nat
      BY <1>1, <1>3, <2>2, RankFacts
    <3>2. ~(Rank(R, k) \in reader.offset .. reader.offset + Limit - 1)
      BY <3>1 DEF Page, Rank
    <3> HIDE DEF R
    <3>. QED
      BY <1>1, <2>2, <3>1, <3>2, AuditAssumption
  <2>5. reader'.offset \in Nat /\ reader'.offset # -1
    BY <1>1, <2>2, AuditAssumption
  <2>. QED
    BY <1>1, <2>1, <2>2, <2>3, <2>4, <2>5 DEF ReaderInv, Idle
<1>. QED
  BY <1>6, <1>7

-----------------------------------------------------------------------------
(***************************************************************************)
(* The consumer, under everything that goes on around it.                  *)
(***************************************************************************)
\* Failures only add up; a crash counts.
LEMMA CrashesGrow ==
    ASSUME TypeOK, faults' = faults \/ \E kind \in FaultKinds : Fault(kind)
    PROVE  /\ Crashes \in Nat /\ Crashes' \in Nat /\ Crashes <= Crashes'
           /\ Fault("crash") => Crashes' = Crashes + 1
  BY DEF Crashes, Fault, TypeOK

LEMMA StepFaults == IInv /\ [AuditNext]_allVars =>
    /\ faults' = faults \/ \E kind \in FaultKinds : Fault(kind)
    /\ \A K : OnlyFailed(K)' => OnlyFailed(K)
<1> SUFFICES ASSUME IInv, [AuditNext]_allVars
             PROVE  /\ faults' = faults \/ \E kind \in FaultKinds : Fault(kind)
                    /\ \A K : OnlyFailed(K)' => OnlyFailed(K)
  OBVIOUS
<1>1. faults' = faults \/ \E kind \in FaultKinds : Fault(kind)
  <2>1. CASE Producer
    BY <2>1 DEF Producer, ProducerDies, RejectLogin, LogTenantEvent, LogGlobalEvent, Spawn, Send,
       SendFails, Publish, Fault, vars
  <2>2. CASE ConsumerOther \/ ProcessEnds
    BY <2>2 DEF ConsumerOther, ProcessEnds, StartProcess, EnsureGroup, ReadPending, ReadNew, Wake,
       EnsureGroupFails, ReadPendingFails, ReadNewFails, Crash, Ack, AckFails, Fault
  <2>3. CASE Reader
    BY <2>3 DEF Reader, NextPage, OpenTrail, vars
  <2>4. CASE \E i \in Entries : Consolidation(i) \/ ConsolidateFails(i)
    BY <2>4 DEF Consolidation, Consolidate, BeginTx, InsertTenant, CommitTx, InsertGlobal,
       HandlerReturns, ConsolidateFails, Handle, Fault, vars
  <2>5. CASE UNCHANGED allVars
    BY <2>5 DEF allVars, vars
  <2>. QED
    BY <2>1, <2>2, <2>3, <2>4, <2>5 DEF AuditNext
<1>. QED
  BY <1>1, OnlyFailedBefore DEF IInv

LEMMA StepConsumer == IInv /\ [AuditNext]_allVars => IInv'
<1> SUFFICES ASSUME IInv, [AuditNext]_allVars
             PROVE  IInv'
  OBVIOUS
<1>1. CASE ConsumerOther \/ ProcessEnds \/ \E i \in Entries : HandlerReturns(i)
  <2>1. Next
    BY <1>1 DEF ConsumerOther, ProcessEnds, HandlerReturns, Next, ConsumerStep, Failure
  <2>. QED
    BY <2>1, NextIInv
<1>2. ASSUME NEW e \in Events, Send(e) \/ SendFails(e) PROVE IInv'
  <2>1. CASE Send(e)
    <3>1. Next
      BY <2>1 DEF Send, Next
    <3>. QED
      BY <3>1, NextIInv
  <2>2. CASE SendFails(e)
    <3>1. UNCHANGED <<groupVars, runVars, history>> /\ faults' \in [FaultKinds -> Nat]
      BY <2>2, FaultBound DEF SendFails, IInv
    <3>2. CASE UNCHANGED streamVars
      <4>1. Fault("xadd")
        BY <2>2 DEF SendFails
      <4>. QED
        BY <3>1, <3>2, <4>1, FaultKeepsInv DEF Fault
    <3>3. CASE last < MaxEntries /\ last' = last + 1 /\ first' = first
      <4>1. first' \in first .. last + 1
        BY <3>3 DEF IInv, TypeOK, GroupInv
      <4>. QED
        BY <3>1, <3>3, <4>1, PublishKeepsInv
    <3>. QED
      BY <2>2, <3>2, <3>3 DEF SendFails
  <2>. QED
    BY <1>2, <2>1, <2>2
<1>3. CASE \/ ProducerDies \/ Reader \/ UNCHANGED allVars
           \/ \E e \in Events : RejectLogin(e) \/ LogTenantEvent(e) \/ LogGlobalEvent(e)
           \/ \E i \in Entries : \/ Consolidate(i) \/ BeginTx(i) \/ InsertTenant(i) \/ CommitTx(i)
                                 \/ InsertGlobal(i) \/ ConsolidateFails(i)
  <2>1. UNCHANGED <<streamVars, groupVars, runVars, history>>
    BY <1>3 DEF ProducerDies, Reader, NextPage, OpenTrail, RejectLogin, LogTenantEvent,
       LogGlobalEvent, Spawn, Consolidate, BeginTx, InsertTenant, CommitTx, InsertGlobal,
       ConsolidateFails, allVars, vars, streamVars, groupVars, runVars, history
  <2>. QED
    BY <2>1, StepFaults, FaultKeepsInv
<1>. QED
  BY <1>1, <1>2, <1>3 DEF AuditNext, Producer, Consolidation

-----------------------------------------------------------------------------
(***************************************************************************)
(* The trail.                                                              *)
(***************************************************************************)
LEMMA InitAuditInv == AuditInit => AuditInv
<1> SUFFICES ASSUME AuditInit PROVE AuditInv
  OBVIOUS
<1>1. IInv
  BY InitIInv DEF AuditInit
<1>2. AuditTypeInv
  BY DEF AuditInit, Init, AuditTypeInv, Idle, Whos
<1>3. StreamInv /\ CountInv /\ RecordedInv /\ ReaderInv
  BY DEF AuditInit, Init, StreamInv, CountInv, RecordedInv, ReaderInv, Current
<1>. QED
  BY <1>1, <1>2, <1>3 DEF AuditInv, TrailInv

\* What the consumer's invariant says of the entries of the loop.
LEMMA EntryFacts ==
    ASSUME IInv, AuditTypeInv
    PROVE  /\ last \in Nat /\ DOMAIN ref = 1 .. last
           /\ \A i \in 1 .. last : ref[i] \in Events
           /\ 1 .. last \subseteq Entries
           /\ pel \subseteq 1 .. last /\ batch \subseteq pel /\ handled \subseteq 1 .. last
           /\ \A i \in pel : i <= cursor
<1>1. last \in 0 .. MaxEntries /\ pel \subseteq Entries /\ handled \subseteq Entries
  BY DEF IInv, TypeOK
<1>2. ref \in Seq(Events) /\ Len(ref) = last
  BY DEF AuditTypeInv
<1>3. \A i \in pel \cup handled : i <= cursor /\ cursor <= last
  BY DEF IInv, GroupInv
<1>4. cursor \in Int
  BY DEF IInv, TypeOK
<1>5. DOMAIN ref = 1 .. last /\ \A i \in 1 .. last : ref[i] \in Events
  BY <1>2
<1>6. 1 .. last \subseteq Entries /\ pel \subseteq 1 .. last /\ handled \subseteq 1 .. last
  BY <1>1, <1>3, <1>4, ConsumerAssumption DEF Entries
<1>. QED
  BY <1>1, <1>3, <1>5, <1>6 DEF IInv, RunInv

LEMMA CopiesCounted ==
    ASSUME AuditTypeInv
    PROVE  \A d : Copies(d) \in Nat /\ (Copies(d) > 0 <=> \E k \in DOMAIN trail : trail[k] = d)
<1>1. trail \in Seq(Events)
  BY DEF AuditTypeInv
<1>2. \A d : Copies(d) = Cardinality(Places(trail, d))
  BY DEF Copies, Places
<1>. QED
  BY <1>1, <1>2, PlacesOf

\* Something is said, or lost with its process: the stream and the trail stay.
LEMMA SaidKeepsInv ==
    ASSUME AuditInv, faults' = faults \/ \E kind \in FaultKinds : Fault(kind),
           UNCHANGED <<streamVars, groupVars, runVars, history, ref, handler, trail, reader>>,
           said' \in [Events -> {"none", "sending", "sent", "lost"}],
           \A e \in Events : said[e] \in {"sent", "lost"} => said'[e] = said[e]
    PROVE  TrailInv'
<1>0. /\ IInv /\ TypeOK /\ AuditTypeInv /\ StreamInv /\ CountInv /\ RecordedInv /\ ReaderInv
  BY DEF AuditInv, TrailInv, IInv
<1>1. UNCHANGED <<first, last, cursor, pel, pc, batch, blank, handled, ref, handler, trail, reader>>
  BY DEF streamVars, groupVars, runVars, history
<1>2. Crashes \in Nat /\ Crashes' \in Nat /\ Crashes <= Crashes'
  BY <1>0, CrashesGrow
<1>3. \A d : Copies(d)' = Copies(d)
  BY <1>1 DEF Copies
<1>4. \A d : Copies(d) \in Nat
  BY <1>0, CopiesCounted
<1>5. AuditTypeInv' /\ StreamInv'
  BY <1>0, <1>1, EntryFacts DEF AuditTypeInv, StreamInv
<1>6. CountInv'
  <2>1. \A i : Done(i)' <=> Done(i)
    BY <1>1 DEF Done, Current
  <2>. QED
    BY <1>0, <1>1, <1>2, <1>3, <1>4, <2>1 DEF CountInv
<1>7. RecordedInv'
  <2>1. OnlyFailed(OutsideFaults)' => OnlyFailed(OutsideFaults)
    BY <1>0, OnlyFailedBefore
  <2>2. \A i : Recorded(i)' <=> Recorded(i)
    BY <1>1, <1>3 DEF Recorded
  <2>. QED
    BY <1>0, <1>1, <2>1, <2>2 DEF RecordedInv, Current
<1>8. ReaderInv'
  BY <1>0, <1>1, TrailKeepsReader DEF AuditTypeInv
<1>. QED
  BY <1>5, <1>6, <1>7, <1>8 DEF TrailInv

\* The entry of an event is added: its first, as no event is sent twice.
LEMMA SendKeepsInv ==
    ASSUME AuditInv, NEW e \in Events, said[e] = "sending", NEW s \in {"sent", "lost"},
           said' = [said EXCEPT ![e] = s], ref' = Append(ref, e),
           last' = last + 1, last' \in Entries,
           faults' = faults \/ \E kind \in FaultKinds : Fault(kind),
           UNCHANGED <<groupVars, runVars, history, handler, trail, reader>>
    PROVE  TrailInv'
<1>0. /\ IInv /\ TypeOK /\ AuditTypeInv /\ StreamInv /\ CountInv /\ RecordedInv /\ ReaderInv
  BY DEF AuditInv, TrailInv, IInv
<1>1. UNCHANGED <<cursor, pel, pc, batch, blank, handled, handler, trail, reader>>
  BY DEF groupVars, runVars, history
<1>2. Crashes \in Nat /\ Crashes' \in Nat /\ Crashes <= Crashes'
  BY <1>0, CrashesGrow
<1>3. /\ last \in Nat /\ DOMAIN ref = 1 .. last
      /\ \A i \in 1 .. last : ref[i] \in Events
      /\ handled \subseteq 1 .. last /\ batch \subseteq 1 .. last
  BY <1>0, EntryFacts
<1>4. /\ ref' \in Seq(Events) /\ Len(ref') = last' /\ DOMAIN ref' = 1 .. last + 1
      /\ ref'[last + 1] = e /\ \A i \in 1 .. last : ref'[i] = ref[i]
  BY <1>0 DEF AuditTypeInv
<1>5. \A d : Copies(d)' = Copies(d) /\ Copies(d) \in Nat
  BY <1>0, <1>1, CopiesCounted DEF Copies
<1>6. \A i \in 1 .. last : ref[i] # e
  BY <1>0 DEF StreamInv
<1>7. Copies(e) = 0
  <2>1. ~\E k \in DOMAIN trail : trail[k] = e
    BY <1>0, <1>6 DEF CountInv
  <2>. QED
    BY <1>0, <1>5, <2>1, CopiesCounted
<1>8. \A i \in 1 .. last' : i \in 1 .. last \/ i = last + 1
  BY <1>3
<1>9. AuditTypeInv'
  BY <1>0, <1>1, <1>4 DEF AuditTypeInv
<1>10. StreamInv'
  <2>1. \A i \in 1 .. last : said'[ref'[i]] \in {"sent", "lost"}
    BY <1>0, <1>3, <1>4, <1>6 DEF StreamInv, AuditTypeInv
  <2>2. said'[e] = s
    BY <1>0 DEF AuditTypeInv
  <2>. QED
    BY <1>0, <1>4, <1>6, <1>8, <2>1, <2>2 DEF StreamInv
<1>11. CountInv'
  <2>1. \A i : Done(i)' <=> Done(i)
    BY <1>1 DEF Done, Current
  <2>2. \A k \in DOMAIN trail' : \E i \in 1 .. last' : ref'[i] = trail'[k]
    <3> SUFFICES ASSUME NEW k \in DOMAIN trail PROVE \E i \in 1 .. last' : ref'[i] = trail[k]
      BY <1>1
    <3>1. PICK i \in 1 .. last : ref[i] = trail[k]
      BY <1>0 DEF CountInv
    <3>2. i \in 1 .. last' /\ ref'[i] = trail[k]
      BY <1>3, <1>4, <3>1
    <3>. QED
      BY <3>2
  <2>3. ASSUME NEW i \in 1 .. last
        PROVE  /\ Copies(ref[i])' <= 1 + Crashes'
               /\ pc' \in {"down", "ensure", "pending"} => Copies(ref[i])' <= Crashes'
               /\ i \in batch' /\ ~Done(i)' => Copies(ref[i])' <= Crashes'
               /\ i > cursor' => Copies(ref[i])' = 0
    <3>1. Copies(ref[i])' = Copies(ref[i]) /\ Copies(ref[i]) \in Nat
      BY <1>0, <1>1, <1>4, CopiesCounted DEF Copies
    <3>2. /\ Copies(ref[i]) <= 1 + Crashes
          /\ pc \in {"down", "ensure", "pending"} => Copies(ref[i]) <= Crashes
          /\ i \in batch /\ ~Done(i) => Copies(ref[i]) <= Crashes
          /\ i > cursor => Copies(ref[i]) = 0
      BY <1>0 DEF CountInv
    <3>. QED
      BY <1>1, <1>2, <2>1, <3>1, <3>2
  <2>4. ASSUME NEW i, i = last' PROVE Copies(ref[i])' = 0
    BY <1>1, <1>4, <1>7, <2>4 DEF Copies
  <2>5. \A i \in 1 .. last' : i \in 1 .. last \/ i = last'
    BY <1>8
  <2>6. 0 <= Crashes' /\ 0 <= 1 + Crashes'
    <3>1. \A n \in Nat : 0 <= n /\ 1 + n \in Nat
      OBVIOUS
    <3>2. Crashes' \in Nat /\ 1 + Crashes' \in Nat
      BY <1>2, <3>1
    <3>. QED
      BY <3>1, <3>2
  <2>. QED
    BY <1>0, <1>1, <2>2, <2>3, <2>4, <2>5, <2>6 DEF CountInv
<1>12. RecordedInv'
  <2>1. OnlyFailed(OutsideFaults)' => OnlyFailed(OutsideFaults)
    BY <1>0, OnlyFailedBefore
  <2>2. \A i \in 1 .. last : ref'[i] = ref[i] /\ (Recorded(i)' <=> Recorded(i))
    BY <1>3, <1>4, <1>5 DEF Recorded
  <2>3. \A i : Current(i)' <=> Current(i)
    BY <1>1 DEF Current
  <2>4. \A i : Current(i) => i \in 1 .. last
    BY <1>3 DEF Current
  <2>. QED
    BY <1>0, <1>1, <1>3, <2>1, <2>2, <2>3, <2>4 DEF RecordedInv
<1>13. ReaderInv'
  BY <1>0, <1>1, TrailKeepsReader DEF AuditTypeInv
<1>. QED
  BY <1>9, <1>10, <1>11, <1>12, <1>13 DEF TrailInv

\* The consumer and Redis move on while no consolidation is under way.
LEMMA OtherKeepsInv == AuditInv /\ ConsumerOther => TrailInv'
<1> SUFFICES ASSUME AuditInv, ConsumerOther PROVE TrailInv'
  OBVIOUS
<1>0. /\ IInv /\ TypeOK /\ AuditTypeInv /\ StreamInv /\ CountInv /\ RecordedInv /\ ReaderInv
  BY DEF AuditInv, TrailInv, IInv
<1>1. UNCHANGED <<last, handled, blanked, said, ref, handler, trail, reader>> /\ pc # "handle"
  BY DEF ConsumerOther, auditVars, StartProcess, EnsureGroup, ReadPending, ReadNew, Wake,
     ReadPendingFails, ReadNewFails, Ack, AckFails, streamVars, history
<1>2. handler = "none"
  BY <1>0, <1>1 DEF CountInv
<1>3. Crashes \in Nat /\ Crashes' \in Nat /\ Crashes <= Crashes'
  BY <1>0, StepFaults, CrashesGrow DEF AuditNext
<1>4. \A d : Copies(d)' = Copies(d) /\ Copies(d) \in Nat
  BY <1>0, <1>1, CopiesCounted DEF Copies
<1>5. last \in Nat /\ batch \subseteq 1 .. last /\ cursor \in Int
  BY <1>0, EntryFacts DEF TypeOK
<1>6. AuditTypeInv' /\ StreamInv'
  BY <1>0, <1>1 DEF AuditTypeInv, StreamInv
<1>7. RecordedInv'
  <2>1. OnlyFailed(OutsideFaults)' => OnlyFailed(OutsideFaults)
    BY <1>0, StepFaults DEF AuditNext
  <2>. QED
    BY <1>0, <1>1, <1>2, <1>4, <2>1 DEF RecordedInv, Recorded
<1>8. ASSUME NEW i \in 1 .. last
      PROVE  /\ pc' \in {"down", "ensure", "pending"} => Copies(ref[i]) <= Crashes
             /\ i \in batch' /\ ~Done(i)' => Copies(ref[i]) <= Crashes
             /\ i > cursor' => Copies(ref[i]) = 0
  <2>1. /\ pc \in {"down", "ensure", "pending"} => Copies(ref[i]) <= Crashes
        /\ i \in batch /\ ~Done(i) => Copies(ref[i]) <= Crashes
        /\ i > cursor => Copies(ref[i]) = 0
    BY <1>0 DEF CountInv
  <2>2. pc \notin {"handle", "ack"} => batch = {}
    BY <1>0 DEF IInv, RunInv
  <2>3. CASE StartProcess \/ Wake \/ ReadPendingFails
    BY <2>1, <2>2, <2>3 DEF StartProcess, Wake, ReadPendingFails, groupVars
  <2>4. CASE EnsureGroup
    <3>1. pc = "ensure" /\ batch' = batch /\ cursor' \in {cursor, last}
      BY <2>4 DEF EnsureGroup
    <3>. QED
      BY <1>5, <2>1, <2>2, <3>1
  <2>5. CASE ReadPending
    <3>1. pc = "pending" /\ cursor' = cursor
      BY <2>5 DEF ReadPending, groupVars
    <3>. QED
      BY <2>1, <3>1
  <2>6. CASE ReadNew \/ ReadNewFails
    <3>1. HasGroup /\ pc' \notin {"down", "ensure", "pending"}
      BY <1>0, <2>6 DEF ReadNew, ReadNewFails, Iterate, IInv, GroupInv
    <3>2. CASE UNCHANGED <<cursor, pel>> /\ ReadNewFails
      BY <2>1, <2>2, <3>1, <3>2 DEF ReadNewFails
    <3>3. CASE DeliverNew(Lowest(Undelivered, Batch))
      <4>1. cursor' \in Int /\ cursor <= cursor' /\ \A k \in Lowest(Undelivered, Batch) : cursor < k
        BY <1>0, <3>1, <3>3, Delivery
      <4>2. i \in batch' => i \in Lowest(Undelivered, Batch)
        BY <2>2, <2>6 DEF ReadNew, ReadNewFails, Iterate
      <4>. QED
        BY <1>3, <1>5, <2>1, <3>1, <4>1, <4>2
    <3>. QED
      BY <2>6, <3>2, <3>3 DEF ReadNew, ReadNewFails
  <2>7. ASSUME NEW n \in Entries, Ack(n) \/ AckFails(n)
        PROVE  /\ pc' \notin {"down", "ensure", "pending"} /\ cursor' = cursor
               /\ i \in batch' => i \in batch /\ ~Done(i)
    <3>1. Current(n) /\ batch' = batch \ {n} /\ pc = "ack" /\ cursor' = cursor
      BY <2>7 DEF Ack, AckFails, Iterate, groupVars
    <3>2. pc' \in {"read", "handle"}
      BY <2>7 DEF Ack, AckFails, Iterate
    <3>3. ASSUME i \in batch' PROVE ~Current(i)
      BY <1>0, <3>1, <3>3, CurrentUnique DEF TypeOK, Current
    <3>. QED
      BY <1>2, <3>1, <3>2, <3>3 DEF Done, Current
  <2>. QED
    BY <2>1, <2>3, <2>4, <2>5, <2>6, <2>7 DEF ConsumerOther
<1>9. CountInv'
  <2>1. \A i \in 1 .. last : Copies(ref[i]) <= 1 + Crashes'
    BY <1>0, <1>3, <1>4 DEF CountInv
  <2>2. \A i \in 1 .. last : Copies(ref[i]) <= Crashes => Copies(ref[i]) <= Crashes'
    BY <1>3, <1>4
  <2>3. \A k \in DOMAIN trail : \E i \in 1 .. last : ref[i] = trail[k]
    BY <1>0 DEF CountInv
  <2>. QED
    BY <1>1, <1>2, <1>4, <1>8, <2>1, <2>2, <2>3 DEF CountInv
<1>10. ReaderInv'
  BY <1>0, <1>1, TrailKeepsReader DEF AuditTypeInv
<1>. QED
  BY <1>6, <1>7, <1>9, <1>10 DEF TrailInv

\* The process ends: nothing is under way, and the next start may repeat a row.
LEMMA EndKeepsInv == AuditInv /\ ProcessEnds => TrailInv'
<1> SUFFICES ASSUME AuditInv, ProcessEnds PROVE TrailInv'
  OBVIOUS
<1>0. /\ IInv /\ TypeOK /\ AuditTypeInv /\ StreamInv /\ CountInv /\ RecordedInv /\ ReaderInv
  BY DEF AuditInv, TrailInv, IInv
<1>1. /\ UNCHANGED <<last, cursor, handled, ref, trail, reader>>
      /\ pc' = "down" /\ batch' = {} /\ handler' = "none"
  BY <1>0 DEF ProcessEnds, Crash, EnsureGroupFails, groupVars, streamVars, history, IInv, RunInv
<1>2. faults' = faults \/ \E kind \in FaultKinds : Fault(kind)
  BY <1>0, StepFaults DEF AuditNext
<1>3. Crashes \in Nat /\ Crashes' \in Nat /\ Crashes <= Crashes' /\ (Crash => Crashes' = Crashes + 1)
  BY <1>0, <1>2, CrashesGrow DEF Crash
<1>4. \A d : Copies(d)' = Copies(d) /\ Copies(d) \in Nat
  BY <1>0, <1>1, CopiesCounted DEF Copies
<1>5. said' \in [Events -> {"none", "sending", "sent", "lost"}]
      /\ \A e \in Events : said[e] \in {"sent", "lost"} => said'[e] = said[e]
  BY <1>0 DEF ProcessEnds, Silenced, AuditTypeInv
<1>6. AuditTypeInv'
  BY <1>0, <1>1, <1>5 DEF AuditTypeInv
<1>7. StreamInv'
  BY <1>0, <1>1, <1>5, EntryFacts DEF StreamInv
<1>8. CountInv'
  <2>1. ASSUME NEW i \in 1 .. last
        PROVE  /\ Copies(ref[i]) <= 1 + Crashes' /\ Copies(ref[i]) <= Crashes'
               /\ i > cursor => Copies(ref[i]) = 0
    <3>1. /\ Copies(ref[i]) <= 1 + Crashes /\ Copies(ref[i]) \in Nat
          /\ pc = "ensure" => Copies(ref[i]) <= Crashes
          /\ i > cursor => Copies(ref[i]) = 0
      BY <1>0, <1>4 DEF CountInv
    <3>2. Crash \/ pc = "ensure"
      BY DEF ProcessEnds, EnsureGroupFails
    <3>. QED
      BY <1>3, <3>1, <3>2
  <2>2. \A k \in DOMAIN trail : \E i \in 1 .. last : ref[i] = trail[k]
    BY <1>0 DEF CountInv
  <2>. QED
    BY <1>1, <1>4, <2>1, <2>2 DEF CountInv
<1>9. RecordedInv'
  <2>1. OnlyFailed(OutsideFaults)' => OnlyFailed(OutsideFaults)
    BY <1>0, <1>2, OnlyFailedBefore
  <2>2. \A i : Recorded(i)' <=> Recorded(i)
    BY <1>1, <1>4 DEF Recorded
  <2>. QED
    BY <1>0, <1>1, <2>1, <2>2 DEF RecordedInv, Current
<1>10. ReaderInv'
  BY <1>0, <1>1, TrailKeepsReader DEF AuditTypeInv
<1>. QED
  BY <1>6, <1>7, <1>8, <1>9, <1>10 DEF TrailInv

\* A statement of the consolidation of entry i, which may add the one row.
LEMMA ConsolidationKeepsInv ==
    ASSUME AuditInv, NEW i \in Entries, pc = "handle", Current(i),
           handler \in {"none", "begin", "insert", "commit"},
           handler' \in {"begin", "insert", "commit", "done"},
           UNCHANGED <<streamVars, groupVars, runVars, history, said, ref, reader>>,
           faults' = faults \/ \E kind \in FaultKinds : Fault(kind),
           trail' = trail \/ (trail' = Append(trail, ref[i]) /\ handler' = "done"),
           OnlyFailed(OutsideFaults)' /\ handler' = "done" /\ i \notin blank =>
               Refused(ref[i]) \/ trail' = Append(trail, ref[i])
    PROVE  TrailInv'
<1>0. /\ IInv /\ TypeOK /\ AuditTypeInv /\ StreamInv /\ CountInv /\ RecordedInv /\ ReaderInv
  BY DEF AuditInv, TrailInv, IInv
<1>1. UNCHANGED <<last, cursor, pc, batch, blank, handled, said, ref, reader>>
  BY DEF streamVars, groupVars, runVars, history
<1>2. Crashes \in Nat /\ Crashes' \in Nat /\ Crashes <= Crashes'
  BY <1>0, CrashesGrow
<1>3. /\ i \in 1 .. last /\ ref[i] \in Events /\ i <= cursor /\ DOMAIN ref = 1 .. last
      /\ batch \subseteq Entries /\ handled \subseteq 1 .. last /\ trail \in Seq(Events)
  BY <1>0, EntryFacts DEF Current, AuditTypeInv, TypeOK
<1>4. \A k : Current(k) => k = i
  BY <1>0, <1>3, CurrentUnique DEF Current
<1>5. ~Done(i)
  BY DEF Done
<1>6. \A d : /\ Copies(d) \in Nat
             /\ Copies(d)' = IF trail' # trail /\ d = ref[i] THEN Copies(d) + 1 ELSE Copies(d)
  <2>1. \A d : Copies(d) = Cardinality(Places(trail, d)) /\ Copies(d)' = Cardinality(Places(trail', d))
    BY DEF Copies, Places
  <2>2. \A d : Copies(d) \in Nat
    BY <1>0, CopiesCounted
  <2>3. CASE trail' = trail
    BY <2>1, <2>2, <2>3
  <2>4. CASE trail' = Append(trail, ref[i]) /\ trail' # trail
    BY <1>3, <2>1, <2>2, <2>4, AppendCounts
  <2>. QED
    BY <2>3, <2>4
<1>7. /\ trail' \in Seq(Events)
      /\ \A k \in DOMAIN trail' : (k \in DOMAIN trail /\ trail'[k] = trail[k]) \/ trail'[k] = ref[i]
  <2>1. CASE trail' = trail
    BY <1>3, <2>1
  <2>2. CASE trail' = Append(trail, ref[i])
    BY <1>3, <2>2, AppendFacts
  <2>. QED
    BY <2>1, <2>2
<1>8. AuditTypeInv' /\ StreamInv'
  BY <1>0, <1>1, <1>7 DEF AuditTypeInv, StreamInv
<1>9. CountInv'
  <2>1. ASSUME NEW k \in DOMAIN trail' PROVE \E n \in 1 .. last : ref[n] = trail'[k]
    BY <1>0, <1>3, <1>7 DEF CountInv
  <2>2. ASSUME NEW n \in 1 .. last
        PROVE  /\ Copies(ref[n])' <= 1 + Crashes'
               /\ n \in batch /\ ~Done(n)' => Copies(ref[n])' <= Crashes'
               /\ n > cursor => Copies(ref[n])' = 0
    <3>1. /\ Copies(ref[n]) <= 1 + Crashes
          /\ n \in batch /\ ~Done(n) => Copies(ref[n]) <= Crashes
          /\ n > cursor => Copies(ref[n]) = 0
      BY <1>0 DEF CountInv
    <3>2. CASE Copies(ref[n])' = Copies(ref[n]) /\ n # i
      <4>1. ~Done(n)
        BY <1>4, <3>2 DEF Done
      <4>. QED
        BY <1>2, <1>6, <3>1, <3>2, <4>1
    <3>3. CASE n = i
      <4>1. Copies(ref[i]) <= Crashes /\ Copies(ref[i]) \in Nat
        BY <1>5, <1>6, <3>1, <3>3 DEF Current
      <4>2. Copies(ref[i])' = IF trail' # trail THEN Copies(ref[i]) + 1 ELSE Copies(ref[i])
        BY <1>1, <1>6 DEF Copies
      <4>3. trail' # trail => Done(i)'
        BY <1>1 DEF Done, Current
      <4>4. ~(n > cursor)
        BY <1>0, <1>3, <3>3 DEF TypeOK
      <4>. QED
        BY <1>2, <3>3, <4>1, <4>2, <4>3, <4>4
    <3>4. n # i => Copies(ref[n])' = Copies(ref[n])
      <4> SUFFICES ASSUME n # i PROVE Copies(ref[n])' = Copies(ref[n])
        OBVIOUS
      <4>1. ref[n] # ref[i]
        BY <1>0, <1>3 DEF StreamInv
      <4>2. \A d : d # ref[i] => Copies(d)' = Copies(d)
        BY <1>6
      <4>. QED
        BY <1>1, <4>1, <4>2 DEF Copies
    <3>. QED
      BY <3>2, <3>3, <3>4
  <2>. QED
    BY <1>1, <2>1, <2>2 DEF CountInv
<1>10. RecordedInv'
  <2> SUFFICES ASSUME OnlyFailed(OutsideFaults)'
               PROVE  /\ \A k \in handled : Refused(ref[k]) \/ Recorded(k)'
                      /\ \A k \in Entries : Current(k) /\ handler' = "done" /\ k \notin blank =>
                            Refused(ref[k]) \/ Recorded(k)'
    BY <1>1 DEF RecordedInv, Current, Refused
  <2>1. OnlyFailed(OutsideFaults)
    BY <1>0, OnlyFailedBefore
  <2>2. \A k : Recorded(k) => Recorded(k)'
    BY <1>1, <1>6 DEF Recorded
  <2>3. trail' = Append(trail, ref[i]) => Recorded(i)'
    <3> SUFFICES ASSUME trail' = Append(trail, ref[i]) PROVE Recorded(i)'
      OBVIOUS
    <3>1. trail' # trail
      BY <1>3, AppendFacts
    <3>2. Copies(ref[i])' > 0
      BY <1>1, <1>6, <3>1
    <3>. QED
      BY <1>1, <1>3, <3>2 DEF Recorded
  <2>4. \A k \in handled : Refused(ref[k]) \/ Recorded(k)
    BY <1>0, <2>1 DEF RecordedInv
  <2>. QED
    BY <1>4, <2>2, <2>3, <2>4
<1>11. ReaderInv'
  BY <1>0, <1>1, <1>3, TrailKeepsReader
<1>. QED
  BY <1>8, <1>9, <1>10, <1>11 DEF TrailInv

\* The closure returns: what it has recorded stays recorded.
LEMMA ReturnKeepsInv == ASSUME AuditInv, NEW i \in Entries, HandlerReturns(i) PROVE TrailInv'
<1>0. /\ IInv /\ TypeOK /\ AuditTypeInv /\ StreamInv /\ CountInv /\ RecordedInv /\ ReaderInv
  BY DEF AuditInv, TrailInv, IInv
<1>1. /\ UNCHANGED <<last, cursor, batch, blank, said, ref, trail, reader, faults>>
      /\ pc = "handle" /\ pc' = "ack" /\ handler = "done" /\ handler' = "none" /\ Current(i)
  BY DEF HandlerReturns, Handle, streamVars, groupVars
<1>2. \A d : Copies(d)' = Copies(d)
  BY <1>1 DEF Copies
<1>3. Crashes' = Crashes
  BY <1>1 DEF Crashes
<1>4. \A k : (Done(k)' <=> Done(k)) /\ (Recorded(k)' <=> Recorded(k)) /\ (Current(k)' <=> Current(k))
  BY <1>1, <1>2 DEF Done, Current, Recorded
<1>5. AuditTypeInv' /\ StreamInv' /\ CountInv'
  BY <1>0, <1>1, <1>2, <1>3, <1>4 DEF AuditTypeInv, StreamInv, CountInv
<1>6. RecordedInv'
  <2>1. handled' \subseteq handled \cup {i} /\ (i \in blank => handled' = handled)
    BY DEF HandlerReturns, Handle
  <2>2. OnlyFailed(OutsideFaults)' => OnlyFailed(OutsideFaults)
    BY <1>1 DEF OnlyFailed
  <2>. QED
    BY <1>0, <1>1, <1>4, <2>1, <2>2 DEF RecordedInv, Refused
<1>7. ReaderInv'
  BY <1>0, <1>1, TrailKeepsReader DEF AuditTypeInv
<1>. QED
  BY <1>5, <1>6, <1>7 DEF TrailInv

\* The steps between the start of a consolidation and its end.
LEMMA StatementsKeepInv ==
    ASSUME AuditInv, NEW i \in Entries,
           \/ Consolidate(i) \/ BeginTx(i) \/ InsertTenant(i) \/ CommitTx(i)
           \/ InsertGlobal(i) \/ ConsolidateFails(i)
    PROVE  TrailInv'
<1>0. /\ TypeOK /\ pc = "handle" /\ Current(i)
      /\ faults' = faults \/ \E kind \in FaultKinds : Fault(kind)
      /\ UNCHANGED <<streamVars, groupVars, runVars, history, said, ref, reader>>
  <2>1. TypeOK
    BY DEF AuditInv, IInv
  <2>2. pc = "handle" /\ Current(i)
    BY DEF Consolidate, BeginTx, InsertTenant, CommitTx, InsertGlobal, ConsolidateFails, At
  <2>3. CASE Consolidate(i) \/ BeginTx(i) \/ InsertTenant(i) \/ CommitTx(i) \/ InsertGlobal(i)
    BY <2>1, <2>2, <2>3 DEF Consolidate, BeginTx, InsertTenant, CommitTx, InsertGlobal,
       vars, streamVars, groupVars, runVars, history
  <2>4. CASE ConsolidateFails(i)
    BY <2>1, <2>2, <2>4 DEF ConsolidateFails, Fault
  <2>. QED
    BY <2>3, <2>4
<1>1. CASE Consolidate(i)
  <2>1. /\ handler = "none" /\ trail' = trail
        /\ handler' \in {"done", "insert", "begin"} /\ (handler' = "done" => i \in blank)
    BY <1>1 DEF Consolidate, At
  <2>. QED
    BY <1>0, <2>1, ConsolidationKeepsInv
<1>2. CASE BeginTx(i)
  <2>1. handler = "begin" /\ handler' = "insert" /\ trail' = trail
    BY <1>2 DEF BeginTx, At
  <2>. QED
    BY <1>0, <2>1, ConsolidationKeepsInv
<1>3. CASE InsertTenant(i)
  <2>1. /\ handler = "insert" /\ trail' = trail
        /\ handler' \in {"done", "commit"} /\ (handler' = "done" => Refused(ref[i]))
    BY <1>3 DEF InsertTenant, At
  <2>. QED
    BY <1>0, <2>1, ConsolidationKeepsInv
<1>4. CASE CommitTx(i)
  <2>1. handler = "commit" /\ handler' = "done" /\ trail' = Append(trail, ref[i])
    BY <1>4 DEF CommitTx, At
  <2>. QED
    BY <1>0, <2>1, ConsolidationKeepsInv
<1>5. CASE InsertGlobal(i)
  <2>1. /\ handler = "insert" /\ handler' = "done"
        /\ trail' = trail \/ trail' = Append(trail, ref[i])
        /\ Refused(ref[i]) \/ trail' = Append(trail, ref[i])
    BY <1>5 DEF InsertGlobal, At
  <2>. QED
    BY <1>0, <2>1, ConsolidationKeepsInv
<1>6. CASE ConsolidateFails(i)
  <2>1. /\ handler \in {"begin", "insert", "commit"} /\ handler' = "done"
        /\ trail' = trail \/ trail' = Append(trail, ref[i])
    BY <1>6 DEF ConsolidateFails, At
  <2>2. ~OnlyFailed(OutsideFaults)'
    <3>1. Fault("db") /\ "db" \in FaultKinds \ OutsideFaults
      BY <1>6 DEF ConsolidateFails, Fault, OutsideFaults
    <3>. QED
      BY <1>0, <3>1, FailureCounts
  <2>. QED
    BY <1>0, <2>1, <2>2, ConsolidationKeepsInv
<1>. QED
  BY <1>1, <1>2, <1>3, <1>4, <1>5, <1>6

\* A reader changes nothing but where it stands.
LEMMA ReaderKeepsInv == AuditInv /\ Reader => TrailInv'
<1> SUFFICES ASSUME AuditInv, Reader PROVE TrailInv'
  OBVIOUS
<1>0. /\ AuditTypeInv /\ StreamInv /\ CountInv /\ RecordedInv /\ ReaderInv
  BY DEF AuditInv, TrailInv
<1>1. UNCHANGED <<last, cursor, pc, batch, blank, handled, faults, said, ref, handler, trail>>
  BY DEF Reader, OpenTrail, NextPage, vars
<1>2. StreamInv' /\ CountInv' /\ RecordedInv'
  <2>1. \A d : Copies(d)' = Copies(d)
    BY <1>1 DEF Copies
  <2>2. Crashes' = Crashes /\ (OnlyFailed(OutsideFaults)' <=> OnlyFailed(OutsideFaults))
    BY <1>1 DEF Crashes, OnlyFailed
  <2>3. \A k : (Done(k)' <=> Done(k)) /\ (Recorded(k)' <=> Recorded(k)) /\ (Current(k)' <=> Current(k))
    BY <1>1, <2>1 DEF Done, Current, Recorded
  <2>. QED
    BY <1>0, <1>1, <2>1, <2>2, <2>3 DEF StreamInv, CountInv, RecordedInv, Refused
<1>3. ReaderInv' /\ reader' \in [who : Whos, offset : Nat \cup {-1}, due : SUBSET Nat]
  <2>1. CASE NextPage
    BY <1>0, <2>1, NextPageFacts
  <2>2. ASSUME NEW who \in Whos, OpenTrail(who)
        PROVE  ReaderInv' /\ reader' \in [who : Whos, offset : Nat \cup {-1}, due : SUBSET Nat]
    <3> DEFINE R == Rows(who)
    <3>1. Len(trail) \in Nat /\ DOMAIN trail = 1 .. Len(trail)
      BY <1>0 DEF AuditTypeInv
    <3>2. R \in SUBSET (1 .. Len(trail))
      BY <3>1 DEF Rows, GlobalRows, AdminRows, EventRows, TenantRows, VisibleTo
    <3>3. reader' = [who |-> who, offset |-> 0, due |-> R]
      BY <2>2 DEF OpenTrail
    <3>4. Rows(reader.who)' = R
      BY <1>1, <3>3 DEF Rows, GlobalRows, AdminRows, EventRows, TenantRows, VisibleTo
    <3>. HIDE DEF R
    <3>5. \A k \in R : Rank(R, k) >= 0
      <4>1. \A k \in R : Rank(R, k) \in Nat
        BY <3>1, <3>2, RankFacts
      <4>2. \A n \in Nat : n >= 0
        OBVIOUS
      <4>. QED
        BY <4>1, <4>2
    <3>6. R \in SUBSET Nat
      BY <3>1, <3>2
    <3>. QED
      BY <3>3, <3>4, <3>5, <3>6 DEF ReaderInv
  <2>. QED
    BY <2>1, <2>2 DEF Reader, Whos
<1>. QED
  BY <1>0, <1>1, <1>2, <1>3 DEF TrailInv, AuditTypeInv

\* A producer says an event, sends it, fails to, or dies.
LEMMA ProducerKeepsInv == AuditInv /\ Producer => TrailInv'
<1> SUFFICES ASSUME AuditInv, Producer PROVE TrailInv'
  OBVIOUS
<1>0. /\ IInv /\ AuditTypeInv
      /\ faults' = faults \/ \E kind \in FaultKinds : Fault(kind)
  BY StepFaults DEF AuditInv, TrailInv, AuditNext
<1>1. CASE ProducerDies
  <2>1. UNCHANGED <<streamVars, groupVars, runVars, history, ref, handler, trail, reader>>
    BY <1>1 DEF ProducerDies
  <2>2. /\ said' \in [Events -> {"none", "sending", "sent", "lost"}]
        /\ \A e \in Events : said[e] \in {"sent", "lost"} => said'[e] = said[e]
    BY <1>0, <1>1 DEF ProducerDies, Silenced, AuditTypeInv
  <2>. QED
    BY <1>0, <2>1, <2>2, SaidKeepsInv
<1>2. ASSUME NEW e \in Events, RejectLogin(e) \/ LogTenantEvent(e) \/ LogGlobalEvent(e)
      PROVE  TrailInv'
  <2>1. /\ UNCHANGED <<vars, ref, handler, trail, reader>>
        /\ said[e] = "none" /\ said' = [said EXCEPT ![e] = "sending"]
    BY <1>2 DEF RejectLogin, LogTenantEvent, LogGlobalEvent, Spawn
  <2>2. UNCHANGED <<streamVars, groupVars, runVars, history, ref, handler, trail, reader>>
    BY <2>1 DEF vars, streamVars, groupVars, runVars, history
  <2>3. /\ said' \in [Events -> {"none", "sending", "sent", "lost"}]
        /\ \A d \in Events : said[d] \in {"sent", "lost"} => said'[d] = said[d]
    BY <1>0, <2>1 DEF AuditTypeInv
  <2>. QED
    BY <1>0, <2>2, <2>3, SaidKeepsInv
<1>3. ASSUME NEW e \in Events, Send(e) PROVE TrailInv'
  <2>1. /\ said[e] = "sending" /\ said' = [said EXCEPT ![e] = "sent"] /\ ref' = Append(ref, e)
        /\ last < MaxEntries /\ last' = last + 1
        /\ UNCHANGED <<groupVars, runVars, history, handler, trail, reader>>
    BY <1>3 DEF Send, Publish
  <2>2. last' \in Entries
    BY <1>0, <2>1, ConsumerAssumption DEF IInv, TypeOK, Entries
  <2>. QED
    BY <1>0, <2>1, <2>2, SendKeepsInv
<1>4. ASSUME NEW e \in Events, SendFails(e) PROVE TrailInv'
  <2>1. /\ said[e] = "sending" /\ said' = [said EXCEPT ![e] = "lost"]
        /\ UNCHANGED <<groupVars, runVars, history, handler, trail, reader>>
    BY <1>4 DEF SendFails
  <2>2. CASE UNCHANGED <<streamVars, ref>>
    <3>1. /\ said' \in [Events -> {"none", "sending", "sent", "lost"}]
          /\ \A d \in Events : said[d] \in {"sent", "lost"} => said'[d] = said[d]
      BY <1>0, <2>1 DEF AuditTypeInv
    <3>. QED
      BY <1>0, <2>1, <2>2, <3>1, SaidKeepsInv
  <2>3. CASE last < MaxEntries /\ last' = last + 1 /\ ref' = Append(ref, e)
    <3>1. last' \in Entries
      BY <1>0, <2>3, ConsumerAssumption DEF IInv, TypeOK, Entries
    <3>. QED
      BY <1>0, <2>1, <2>3, <3>1, SendKeepsInv
  <2>. QED
    BY <1>4, <2>2, <2>3 DEF SendFails
<1>. QED
  BY <1>1, <1>2, <1>3, <1>4 DEF Producer

LEMMA NextAuditInv == AuditInv /\ [AuditNext]_allVars => AuditInv'
<1> SUFFICES ASSUME AuditInv, [AuditNext]_allVars PROVE AuditInv'
  OBVIOUS
<1>1. IInv'
  BY StepConsumer DEF AuditInv
<1>2. TrailInv'
  <2>1. CASE UNCHANGED allVars
    <3>1. UNCHANGED <<streamVars, groupVars, runVars, history, faults, said, ref, handler, trail, reader>>
      BY <2>1 DEF allVars, vars, auditVars, streamVars, groupVars, runVars, history
    <3>2. said \in [Events -> {"none", "sending", "sent", "lost"}]
      BY DEF AuditInv, TrailInv, AuditTypeInv
    <3>. QED
      BY <3>1, <3>2, SaidKeepsInv
  <2>2. CASE \E i \in Entries : Consolidation(i) \/ ConsolidateFails(i)
    BY <2>2, StatementsKeepInv, ReturnKeepsInv DEF Consolidation
  <2>. QED
    BY <2>1, <2>2, ProducerKeepsInv, OtherKeepsInv, EndKeepsInv, ReaderKeepsInv DEF AuditNext
<1>. QED
  BY <1>1, <1>2 DEF AuditInv

-----------------------------------------------------------------------------
LEMMA AuditInvariant == AuditSpec => []AuditInv
  BY InitAuditInv, NextAuditInv, PTL DEF AuditSpec

\* Nothing but an end of the process repeats a row of audit_log, and each end
\* repeats it once at most: failed statements, XACKs and reads of Redis do not.
THEOREM RowsRepeatByRestart == AuditSpec => []RepeatedByRestartOnly
<1>1. AuditInv => RepeatedByRestartOnly
  <2> SUFFICES ASSUME AuditInv, NEW e \in Events PROVE Copies(e) <= 1 + Crashes
    BY DEF RepeatedByRestartOnly
  <2>0. IInv /\ TypeOK /\ AuditTypeInv /\ CountInv
    BY DEF AuditInv, TrailInv, IInv
  <2>1. Crashes \in Nat
    BY <2>0 DEF Crashes, TypeOK
  <2>2. Copies(e) \in Nat /\ (Copies(e) > 0 => \E k \in DOMAIN trail : trail[k] = e)
    BY <2>0, CopiesCounted
  <2>3. CASE Copies(e) > 0
    BY <2>0, <2>2, <2>3 DEF CountInv
  <2>4. CASE Copies(e) = 0
    BY <2>1, <2>4
  <2>. QED
    BY <2>2, <2>3, <2>4
<1>. QED
  BY <1>1, AuditInvariant, PTL

\* While the database answers, an event the consumer confirmed is in audit_log:
\* the exceptions are those the table refuses and those trimmed meanwhile, and
\* no crash, lost reply or failed XACK adds another.
THEOREM ConfirmedEventsAreRecorded == AuditSpec => []ConfirmedIsRecorded
<1>1. AuditInv => ConfirmedIsRecorded
  BY DEF AuditInv, TrailInv, RecordedInv, ConfirmedIsRecorded
<1>. QED
  BY <1>1, AuditInvariant, PTL

\* A walk over the pages of a query misses no row that was there when it began,
\* for every LIMIT, though OFFSET counts from the newest row and rows are added
\* between two pages.
THEOREM PagesAreComplete == AuditSpec => PagesMissNothing
<1>1. AuditInv /\ [AuditNext]_allVars => [reader # Idle /\ reader' = Idle => reader.due = {}]_allVars
  <2> SUFFICES ASSUME AuditInv, AuditNext, reader # Idle, reader' = Idle
               PROVE  reader.due = {}
    BY DEF PagesMissNothing
  <2>1. CASE NextPage
    BY <2>1, NextPageFacts DEF AuditInv, TrailInv
  <2>2. CASE Producer \/ ConsumerOther \/ ProcessEnds
             \/ \E i \in Entries : Consolidation(i) \/ ConsolidateFails(i)
    BY <2>2 DEF Producer, ProducerDies, RejectLogin, LogTenantEvent, LogGlobalEvent, Spawn, Send,
       SendFails, ConsumerOther, auditVars, ProcessEnds, Consolidation, Consolidate, BeginTx,
       InsertTenant, CommitTx, InsertGlobal, HandlerReturns, ConsolidateFails
  <2>3. CASE \E who \in Tenants \cup {System, "admin"} : OpenTrail(who)
    BY <2>3 DEF OpenTrail
  <2>. QED
    BY <2>1, <2>2, <2>3 DEF AuditNext, Reader
<1>. QED
  BY <1>1, AuditInvariant, PTL DEF AuditSpec, PagesMissNothing
=============================================================================
