------------------------ MODULE StreamConsumerProofs ------------------------
(***************************************************************************)
(* Theorems about StreamConsumer for every stream length, MAXLEN, COUNT,   *)
(* set of failures and bound on their number.                              *)
(***************************************************************************)
EXTENDS StreamConsumer, Sequences, FiniteSetTheorems, WellFoundedInduction, TLAPS

\* Redis: the group's cursor lies between its creation and the stream's end,
\* and everything the group knows of lies between those two.
GroupInv ==
    /\ HasGroup => start <= cursor /\ cursor <= last
    /\ ~HasGroup => cursor = 0 /\ pc \in {"down", "ensure"}
    /\ \A i \in pel \cup acked \cup handled \cup blanked :
          HasGroup /\ start < i /\ i <= cursor
    /\ pel \cap acked = {}
    /\ first <= last + 1

\* Consumer::run: its loop is over pending entries; the entry whose XACK is
\* due has been through the handler.
RunInv ==
    /\ pc \notin {"handle", "ack"} => batch = {}
    /\ batch \subseteq pel
    /\ \A i \in blank \cup blanked : i < first
    /\ pc = "ack" => \A i \in Entries : Current(i) => i \in handled \cup blanked

\* The inductive invariant.
IInv == TypeOK /\ GroupInv /\ RunInv /\ AckedWasHandled /\ NothingSlips

-----------------------------------------------------------------------------
\* A batch is downward closed: no entry of S below one of its members is left.
LEMMA LowestClosed ==
    ASSUME NEW S \in SUBSET Entries, NEW n \in Nat,
           NEW i \in S, NEW m \in Lowest(S, n), i <= m
    PROVE  i \in Lowest(S, n)
<1> DEFINE Below(k) == {j \in S : j < k}
<1>1. MaxEntries \in Int /\ IsFiniteSet(Entries)
  BY ConsumerAssumption, FS_Interval DEF Entries
<1>2. m \in S /\ Cardinality(Below(m)) < n
  BY DEF Lowest
<1>3. IsFiniteSet(Below(m)) /\ IsFiniteSet(Below(i))
  BY <1>1, FS_Subset
<1>4. Below(i) \subseteq Below(m)
  <2> SUFFICES ASSUME NEW j \in S, j < i PROVE j < m
    OBVIOUS
  <2>1. j \in Int /\ i \in Int /\ m \in Int
    BY <1>1, <1>2 DEF Entries
  <2>. QED
    BY <2>1
<1>5. Cardinality(Below(i)) <= Cardinality(Below(m))
  BY <1>3, <1>4, FS_Subset
<1>6. Cardinality(Below(i)) \in Nat /\ Cardinality(Below(m)) \in Nat
  BY <1>3, FS_CardinalityType
<1>7. Cardinality(Below(i)) < n
  BY <1>2, <1>5, <1>6
<1>. QED
  BY <1>7 DEF Lowest

LEMMA LowestSubset == ASSUME NEW S, NEW n PROVE Lowest(S, n) \subseteq S
  BY DEF Lowest

\* What one XREADGROUP > does to the group.
LEMMA Delivery ==
    ASSUME IInv, HasGroup, DeliverNew(Lowest(Undelivered, Batch))
    PROVE  /\ cursor' \in 0 .. MaxEntries /\ cursor <= cursor' /\ cursor' <= last
           /\ pel' = pel \cup Lowest(Undelivered, Batch)
           /\ Lowest(Undelivered, Batch) \subseteq Entries
           /\ \A i \in Lowest(Undelivered, Batch) :
                 cursor < i /\ i <= cursor' /\ first <= i
           /\ \A i \in cursor + 1 .. cursor' : i \in Lowest(Undelivered, Batch) \/ i < first
<1> DEFINE S == Lowest(Undelivered, Batch)
<1>1. Undelivered \subseteq Entries
  BY ConsumerAssumption DEF Undelivered, Entries, IInv, TypeOK
<1>2. S \subseteq Undelivered /\ S \subseteq Entries
  BY <1>1, LowestSubset
<1>3. PICK m \in S \cup {cursor} : cursor' = m /\ \A i \in S : i <= m
  BY DEF DeliverNew
<1>4. \A i \in S : i \in Int /\ cursor < i /\ i <= last /\ first <= i
  BY <1>2 DEF Undelivered, IInv, TypeOK
<1>5. cursor' \in 0 .. MaxEntries /\ cursor <= cursor' /\ cursor' <= last
  BY <1>3, <1>4, ConsumerAssumption DEF IInv, TypeOK, GroupInv
<1>6. ASSUME NEW i \in cursor + 1 .. cursor', ~(i < first)
      PROVE  i \in S
  <2>1. m \in S /\ i <= m
    BY <1>3, <1>5, <1>6 DEF IInv, TypeOK
  <2>2. i \in Undelivered
    BY <1>5, <1>6 DEF Undelivered, IInv, TypeOK
  <2>. QED
    BY <1>1, <2>1, <2>2, LowestClosed, ConsumerAssumption
<1>. QED
  BY <1>2, <1>3, <1>4, <1>5, <1>6 DEF DeliverNew

\* Failures stay within their bound.
LEMMA FaultBound ==
    ASSUME NEW kind, Fault(kind), TypeOK
    PROVE  faults' \in [FaultKinds -> Nat]
  BY ConsumerAssumption DEF Fault, TypeOK

\* The entry the loop is at is unique.
LEMMA CurrentUnique ==
    ASSUME TypeOK, NEW i \in Entries, NEW j \in Entries, Current(i), Current(j)
    PROVE  i = j
  BY ConsumerAssumption DEF Current, Entries

-----------------------------------------------------------------------------
LEMMA InitIInv == Init => IInv
<1> SUFFICES ASSUME Init PROVE IInv
  OBVIOUS
<1>1. TypeOK
  BY ConsumerAssumption DEF Init, TypeOK, RunPc
<1>2. GroupInv /\ RunInv /\ AckedWasHandled /\ NothingSlips
  BY DEF Init, GroupInv, RunInv, AckedWasHandled, NothingSlips, HasGroup, Owed
<1>. QED
  BY <1>1, <1>2 DEF IInv

-----------------------------------------------------------------------------
\* An entry is added to the stream, whatever is counted of failures.
LEMMA PublishKeepsInv ==
    ASSUME IInv, last < MaxEntries, last' = last + 1, first' \in first .. last + 1,
           UNCHANGED <<groupVars, runVars, history>>, faults' \in [FaultKinds -> Nat]
    PROVE  IInv'
<1> USE ConsumerAssumption DEF groupVars, runVars, history
<1>1. last' \in 0 .. MaxEntries /\ first' \in Nat \ {0} /\ first <= first' /\ first' <= last'
  BY DEF IInv, TypeOK
<1>2. TypeOK'
  BY <1>1 DEF IInv, TypeOK
<1>3. GroupInv'
  BY <1>1 DEF IInv, TypeOK, GroupInv, HasGroup
<1>4. RunInv' /\ AckedWasHandled'
  BY <1>1 DEF IInv, TypeOK, RunInv, Current, AckedWasHandled, Entries
<1>5. NothingSlips'
  <2> SUFFICES ASSUME NEW i \in Owed', i <= cursor'
               PROVE  i \in pel' \/ i \in acked' \/ i < first'
    BY DEF NothingSlips
  <2>1. HasGroup /\ i \in Owed /\ i <= cursor
    BY DEF Owed, HasGroup, IInv, TypeOK, GroupInv
  <2>. QED
    BY <1>1, <2>1 DEF IInv, NothingSlips, Owed, TypeOK
<1>. QED
  BY <1>2, <1>3, <1>4, <1>5 DEF IInv

LEMMA NextIInv == IInv /\ [Next]_vars => IInv'
<1> SUFFICES ASSUME IInv, [Next]_vars
             PROVE  IInv'
  OBVIOUS
<1> USE ConsumerAssumption
<1>1. CASE Publish
  <2>1. /\ last < MaxEntries /\ last' = last + 1 /\ first' \in first .. last + 1
        /\ UNCHANGED <<groupVars, runVars, history>> /\ faults' = faults
    BY <1>1 DEF Publish
  <2>. QED
    BY <2>1, PublishKeepsInv DEF IInv, TypeOK
\* Steps that touch neither Redis nor the history.
<1>2. ASSUME UNCHANGED <<streamVars, groupVars, history>>,
             pc' \in RunPc, faults' \in [FaultKinds -> Nat],
             batch' \subseteq pel, blank' \subseteq Entries,
             \A i \in blank' : i < first,
             pc' \notin {"handle", "ack"} => batch' = {},
             pc' # "ack",
             ~HasGroup => pc' \in {"down", "ensure"}
      PROVE  IInv'
  <2>1. TypeOK'
    BY <1>2 DEF streamVars, groupVars, history, IInv, TypeOK
  <2>2. GroupInv'
    BY <1>2 DEF streamVars, groupVars, history, IInv, GroupInv, HasGroup
  <2>3. RunInv'
    BY <1>2 DEF streamVars, groupVars, history, IInv, RunInv
  <2>4. AckedWasHandled' /\ NothingSlips'
    BY <1>2 DEF streamVars, groupVars, history, IInv, AckedWasHandled, NothingSlips, Owed,
       HasGroup
  <2>. QED
    BY <2>1, <2>2, <2>3, <2>4 DEF IInv
<1>3. CASE StartProcess \/ Wake
  <2>1. HasGroup \/ pc = "down"
    BY <1>3 DEF Wake, StartProcess, IInv, GroupInv
  <2>. QED
    BY <1>2, <1>3, <2>1 DEF StartProcess, Wake, RunPc, IInv, TypeOK, RunInv
<1>4. CASE EnsureGroup
  <2>1. /\ start' \in 0 .. MaxEntries /\ cursor' \in 0 .. MaxEntries
        /\ start' <= cursor' /\ cursor' <= last
        /\ HasGroup => start' = start /\ cursor' = cursor
        /\ ~HasGroup => start' = last /\ cursor' = last
    BY <1>4 DEF EnsureGroup, HasGroup, IInv, TypeOK, GroupInv
  <2>2. /\ UNCHANGED <<streamVars, pel, batch, blank, history, faults>>
        /\ pc' = "pending" /\ batch = {}
    BY <1>4 DEF EnsureGroup, IInv, RunInv
  <2>3. TypeOK'
    BY <2>1, <2>2 DEF streamVars, history, IInv, TypeOK, RunPc
  <2>4. GroupInv'
    BY <2>1, <2>2 DEF streamVars, history, IInv, TypeOK, GroupInv, HasGroup
  <2>5. RunInv' /\ AckedWasHandled'
    BY <2>2 DEF streamVars, history, IInv, RunInv, AckedWasHandled
  <2>6. NothingSlips'
    <3>1. CASE HasGroup
      BY <2>1, <2>2, <3>1 DEF streamVars, history, IInv, NothingSlips, Owed, HasGroup
    <3>2. CASE ~HasGroup
      BY <2>1, <2>2, <3>2 DEF streamVars, IInv, TypeOK, NothingSlips, Owed, HasGroup
    <3>. QED
      BY <3>1, <3>2
  <2>. QED
    BY <2>3, <2>4, <2>5, <2>6 DEF IInv
<1>5. CASE EnsureGroupFails \/ ReadPendingFails \/ Crash
  <2>1. faults' \in [FaultKinds -> Nat]
    BY <1>5, FaultBound DEF EnsureGroupFails, ReadPendingFails, Crash, IInv
  <2>2. pc = "pending" => HasGroup
    BY DEF IInv, GroupInv
  <2>. QED
    BY <1>2, <1>5, <2>1, <2>2 DEF EnsureGroupFails, ReadPendingFails, Crash, RunPc, IInv,
       TypeOK, RunInv
<1>6. CASE ReadPending
  <2>1. Lowest(pel, Batch) \subseteq pel /\ HasGroup
    BY <1>6, LowestSubset DEF ReadPending, IInv, GroupInv
  <2>. QED
    BY <1>2, <1>6, <2>1 DEF ReadPending, Iterate, RunPc, IInv, TypeOK, RunInv
\* Steps that deliver a batch to the group.
<1>7. ASSUME DeliverNew(Lowest(Undelivered, Batch)), HasGroup,
             UNCHANGED <<streamVars, start, history>>,
             pc' \in RunPc \ {"ack"}, faults' \in [FaultKinds -> Nat],
             batch' \subseteq pel', blank' \subseteq blank,
             pc' # "handle" => batch' = {}
      PROVE  IInv'
  <2> DEFINE S == Lowest(Undelivered, Batch)
  <2>1. /\ cursor' \in 0 .. MaxEntries /\ cursor <= cursor' /\ cursor' <= last
        /\ pel' = pel \cup S /\ S \subseteq Entries
        /\ \A i \in S : cursor < i /\ i <= cursor' /\ first <= i
        /\ \A i \in cursor + 1 .. cursor' : i \in S \/ i < first
    BY <1>7, Delivery
  <2> HIDE DEF S
  <2>2. TypeOK'
    BY <1>7, <2>1 DEF streamVars, history, IInv, TypeOK
  <2>3. GroupInv'
    <3>1. \A i \in S : start < i /\ i \notin acked
      BY <1>7, <2>1 DEF IInv, TypeOK, GroupInv, Entries
    <3>2. \A i \in pel \cup acked \cup handled \cup blanked : start < i /\ i <= cursor'
      BY <1>7, <2>1 DEF IInv, TypeOK, GroupInv, Entries
    <3>. QED
      BY <1>7, <2>1, <3>1, <3>2 DEF streamVars, history, IInv, TypeOK, GroupInv, HasGroup,
         Entries
  <2>4. RunInv' /\ AckedWasHandled'
    BY <1>7, <2>1 DEF streamVars, history, IInv, RunInv, AckedWasHandled
  <2>5. NothingSlips'
    <3> SUFFICES ASSUME NEW i \in Owed', i <= cursor'
                 PROVE  i \in pel' \/ i \in acked' \/ i < first'
      BY DEF NothingSlips
    <3>1. i \in Owed /\ i \in Int
      BY <1>7 DEF streamVars, Owed, HasGroup, IInv, TypeOK
    <3>2. CASE i <= cursor
      BY <1>7, <2>1, <3>1, <3>2 DEF streamVars, history, IInv, NothingSlips
    <3>3. CASE ~(i <= cursor)
      BY <1>7, <2>1, <3>1, <3>3 DEF streamVars, IInv, TypeOK
    <3>. QED
      BY <3>2, <3>3
  <2>. QED
    BY <2>2, <2>3, <2>4, <2>5 DEF IInv
<1>8. CASE ReadNew
  <2>1. HasGroup /\ DeliverNew(Lowest(Undelivered, Batch))
    BY <1>8 DEF ReadNew, IInv, GroupInv
  <2>2. pel' = pel \cup Lowest(Undelivered, Batch)
    BY <2>1, Delivery
  <2>. QED
    BY <1>7, <1>8, <2>1, <2>2 DEF ReadNew, Iterate, RunPc, IInv, TypeOK
<1>9. CASE ReadNewFails
  <2>1. HasGroup /\ faults' \in [FaultKinds -> Nat] /\ batch' = {}
    BY <1>9, FaultBound DEF ReadNewFails, IInv, GroupInv, RunInv
  <2>2. CASE UNCHANGED <<cursor, pel>>
    BY <1>2, <1>9, <2>1, <2>2 DEF ReadNewFails, streamVars, groupVars, RunPc, IInv, TypeOK,
       RunInv
  <2>3. CASE DeliverNew(Lowest(Undelivered, Batch))
    BY <1>7, <1>9, <2>1, <2>3 DEF ReadNewFails, RunPc
  <2>. QED
    BY <1>9, <2>2, <2>3 DEF ReadNewFails
<1>10. ASSUME NEW i \in Entries, Handle(i) PROVE IInv'
  <2>1. /\ UNCHANGED <<streamVars, groupVars, batch, blank, acked, faults>>
        /\ pc = "handle" /\ pc' = "ack" /\ i \in pel
        /\ handled \subseteq handled' /\ blanked \subseteq blanked'
        /\ handled' \cup blanked' = handled \cup blanked \cup {i}
        /\ blanked' \subseteq blanked \cup blank
    BY <1>10 DEF Handle, Current, IInv, RunInv
  <2>2. TypeOK'
    BY <2>1 DEF streamVars, groupVars, IInv, TypeOK, RunPc
  <2>3. GroupInv'
    <3>1. \A j \in handled' \cup blanked' : HasGroup /\ start < j /\ j <= cursor
      BY <2>1 DEF IInv, GroupInv
    <3>. QED
      BY <2>1, <3>1 DEF streamVars, groupVars, IInv, GroupInv, HasGroup
  <2>4. RunInv'
    <3>1. \A j \in Entries : Current(j) => j \in handled' \cup blanked'
      BY <1>10, <2>1, CurrentUnique DEF Handle, IInv
    <3>2. \A j \in blank' \cup blanked' : j < first'
      BY <2>1 DEF streamVars, IInv, RunInv
    <3>. QED
      BY <2>1, <3>1, <3>2 DEF streamVars, groupVars, IInv, RunInv, Current
  <2>5. AckedWasHandled' /\ NothingSlips'
    BY <2>1 DEF streamVars, groupVars, IInv, AckedWasHandled, NothingSlips, Owed, HasGroup
  <2>. QED
    BY <2>2, <2>3, <2>4, <2>5 DEF IInv
<1>11. ASSUME NEW i \in Entries, Ack(i) PROVE IInv'
  <2>1. /\ UNCHANGED <<streamVars, start, cursor, blank, handled, blanked, faults>>
        /\ i \in batch /\ i \in pel /\ i \in handled \cup blanked
        /\ pel' = pel \ {i} /\ acked' = acked \cup {i} /\ batch' = batch \ {i}
        /\ pc' \in {"read", "handle"} /\ (pc' = "read" => batch' = {})
    BY <1>11 DEF Ack, Iterate, Current, IInv, RunInv
  <2>2. TypeOK'
    BY <2>1 DEF streamVars, IInv, TypeOK, RunPc
  <2>3. GroupInv'
    BY <2>1 DEF streamVars, IInv, GroupInv, HasGroup
  <2>4. RunInv' /\ AckedWasHandled'
    BY <2>1 DEF streamVars, IInv, RunInv, AckedWasHandled
  <2>5. NothingSlips'
    BY <2>1 DEF streamVars, IInv, NothingSlips, Owed, HasGroup
  <2>. QED
    BY <2>2, <2>3, <2>4, <2>5 DEF IInv
<1>12. ASSUME NEW i \in Entries, AckFails(i) PROVE IInv'
  <2>1. faults' \in [FaultKinds -> Nat] /\ HasGroup
    BY <1>12, FaultBound DEF AckFails, IInv, GroupInv
  <2>. QED
    BY <1>2, <1>12, <2>1 DEF AckFails, Iterate, RunPc, IInv, TypeOK, RunInv
<1>13. CASE UNCHANGED vars
  BY <1>13 DEF vars, IInv, TypeOK, GroupInv, RunInv, HasGroup, Current, AckedWasHandled,
     NothingSlips, Owed
<1>. QED
  BY <1>1, <1>3, <1>4, <1>5, <1>6, <1>8, <1>9, <1>10, <1>11, <1>12, <1>13
     DEF Next, ConsumerStep, Failure

-----------------------------------------------------------------------------
\* The inductive invariant holds in every reachable state of the consumer.
THEOREM Invariance == Spec => []IInv
<1>1. Init => IInv
  BY InitIInv
<1>2. IInv /\ [Next]_vars => IInv'
  BY NextIInv
<1>. QED
  BY <1>1, <1>2, PTL DEF Spec

\* Every variable of Redis and of Consumer::run keeps its type.
THEOREM TypeCorrect == Spec => []TypeOK
<1>1. IInv => TypeOK
  BY DEF IInv
<1>. QED
  BY <1>1, Invariance, PTL

\* An entry confirmed to Redis went through the handler, unless it had been
\* trimmed from the stream: no crash or error loses an event silently.
THEOREM ConfirmedWasHandled == Spec => []AckedWasHandled
<1>1. IInv => AckedWasHandled
  BY DEF IInv
<1>. QED
  BY <1>1, Invariance, PTL

\* Every entry the group's cursor has passed is pending, confirmed or trimmed.
THEOREM GroupLosesNothing == Spec => []NothingSlips
<1>1. IInv => NothingSlips
  BY DEF IInv
<1>. QED
  BY <1>1, Invariance, PTL

\* A confirmed entry never reaches the handler again.
THEOREM ConfirmedIsFinal == Spec => NeverRehandled
<1>1. IInv /\ [Next]_vars
        => [\A i \in Entries : (pc = "handle" /\ pc' = "ack" /\ Current(i)) => i \notin acked]_vars
  BY DEF IInv, RunInv, GroupInv, Current
<1>. QED
  BY <1>1, Invariance, PTL DEF Spec, NeverRehandled

-----------------------------------------------------------------------------
(***************************************************************************)
(* Sets of numbers, and sequences that grow.                               *)
(***************************************************************************)
\* A set of naturals has a least member.
LEMMA LeastMember ==
    ASSUME NEW S \in SUBSET Nat, S # {}
    PROVE  \E m \in S : \A k \in S : m <= k
<1> DEFINE R == OpToRel(<, Nat)
<1>1. IsWellFoundedOn(R, Nat)
  BY NatLessThanWellFounded
<1>2. \A x, y \in Nat : x < y => <<x, y>> \in R
  BY DEF OpToRel
<1>. HIDE DEF R
<1>3. PICK m \in S : \A k \in S : ~(<<k, m>> \in R)
  BY <1>1, WFMin
<1>4. \A k \in S : k \in Nat /\ m \in Nat /\ ~(k < m)
  BY <1>2, <1>3
<1>5. \A k \in S : m <= k
  BY <1>4
<1>. QED
  BY <1>5

LEMMA AppendFacts ==
    ASSUME NEW S, NEW s \in Seq(S), NEW e \in S
    PROVE  /\ Len(s) \in Nat /\ DOMAIN s = 1 .. Len(s)
           /\ Append(s, e) \in Seq(S) /\ DOMAIN Append(s, e) = 1 .. Len(s) + 1
           /\ Append(s, e)[Len(s) + 1] = e
           /\ \A k \in 1 .. Len(s) : Append(s, e)[k] = s[k]
  OBVIOUS

\* The places of d in a sequence, and how an Append changes them.
Places(s, d) == {k \in DOMAIN s : s[k] = d}

LEMMA PlacesOf ==
    ASSUME NEW S, NEW s \in Seq(S), NEW d
    PROVE  /\ IsFiniteSet(Places(s, d)) /\ Cardinality(Places(s, d)) \in Nat
           /\ Cardinality(Places(s, d)) > 0 <=> \E k \in DOMAIN s : s[k] = d
<1>1. IsFiniteSet(1 .. Len(s)) /\ Places(s, d) \subseteq 1 .. Len(s)
  BY FS_Interval DEF Places
<1>2. IsFiniteSet(Places(s, d))
  BY <1>1, FS_Subset
<1>3. Cardinality(Places(s, d)) \in Nat /\ (Cardinality(Places(s, d)) = 0 <=> Places(s, d) = {})
  BY <1>2, FS_CardinalityType, FS_EmptySet
<1>4. Cardinality(Places(s, d)) > 0 <=> Places(s, d) # {}
  BY <1>3
<1>. QED
  BY <1>2, <1>3, <1>4 DEF Places

LEMMA AppendCounts ==
    ASSUME NEW S, NEW s \in Seq(S), NEW e \in S, NEW d
    PROVE  Cardinality(Places(Append(s, e), d))
            = IF d = e THEN Cardinality(Places(s, d)) + 1 ELSE Cardinality(Places(s, d))
<1> DEFINE n == Len(s)
           t == Append(s, e)
<1>1. /\ n \in Nat /\ DOMAIN s = 1 .. n /\ DOMAIN t = 1 .. n + 1 /\ t[n + 1] = e
      /\ \A k \in 1 .. n : t[k] = s[k]
  BY AppendFacts
<1>2. IsFiniteSet(Places(s, d))
  BY PlacesOf
<1>. HIDE DEF n, t
<1>3. CASE d = e
  <2>1. Places(t, d) = Places(s, d) \cup {n + 1} /\ n + 1 \notin Places(s, d)
    BY <1>1, <1>3 DEF Places
  <2>2. Cardinality(Places(s, d) \cup {n + 1}) = Cardinality(Places(s, d)) + 1
    BY <1>2, <2>1, FS_AddElement
  <2>. QED
    BY <1>3, <2>1, <2>2 DEF t
<1>4. CASE d # e
  <2>1. Places(t, d) = Places(s, d)
    BY <1>1, <1>4 DEF Places
  <2>. QED
    BY <1>4, <2>1 DEF t
<1>. QED
  BY <1>3, <1>4

-----------------------------------------------------------------------------
(***************************************************************************)
(* The one reread of a start is enough while the process only crashes.     *)
(***************************************************************************)
\* A set of entries has a last one.
LEMMA LastEntry ==
    ASSUME NEW S \in SUBSET Entries, S # {}
    PROVE  \E m \in S : \A k \in S : k <= m
<1> USE ConsumerAssumption DEF Entries
<1> DEFINE T == {MaxEntries - i : i \in S}
<1>1. T \in SUBSET Nat /\ T # {}
  <2>1. \A i \in 1 .. MaxEntries : MaxEntries - i \in Nat
    OBVIOUS
  <2>. QED
    BY <2>1
<1>2. PICK t \in T : \A k \in T : t <= k
  BY <1>1, LeastMember
<1>3. PICK m \in S : t = MaxEntries - m
  OBVIOUS
<1>4. ASSUME NEW k \in S PROVE k <= m
  <2>1. t <= MaxEntries - k
    BY <1>2
  <2>. QED
    BY <1>3, <2>1
<1>. QED
  BY <1>4

LEMMA FinitelyMany ==
    ASSUME NEW S \in SUBSET Entries
    PROVE  IsFiniteSet(S) /\ Cardinality(S) \in Nat
<1>1. MaxEntries \in Int /\ IsFiniteSet(Entries)
  BY ConsumerAssumption, FS_Interval DEF Entries
<1>. QED
  BY <1>1, FS_Subset, FS_CardinalityType

\* A reply to XREADGROUP has at most COUNT entries ...
LEMMA LowestFits ==
    ASSUME NEW S \in SUBSET Entries, NEW n \in Nat
    PROVE  IsFiniteSet(Lowest(S, n)) /\ Cardinality(Lowest(S, n)) <= n
<1> DEFINE L == Lowest(S, n)
<1>1. IsFiniteSet(L) /\ IsFiniteSet(S) /\ L \subseteq S
  <2>1. L \subseteq S
    BY LowestSubset
  <2>. QED
    BY <2>1, FinitelyMany
<1>2. CASE L = {}
  BY <1>1, <1>2, FS_EmptySet
<1>3. CASE L # {}
  <2>1. PICK m \in L : \A k \in L : k <= m
    BY <1>1, <1>3, LastEntry
  <2> DEFINE Below == {j \in S : j < m}
  <2>2. Cardinality(Below) < n
    BY DEF Lowest
  <2>3. L \ {m} \subseteq Below
    <3> SUFFICES ASSUME NEW k \in L, k # m PROVE k \in S /\ k < m
      OBVIOUS
    <3>1. k \in S /\ m \in S /\ k <= m
      BY <1>1, <2>1
    <3>2. k \in Int /\ m \in Int
      BY <3>1, ConsumerAssumption DEF Entries
    <3>. QED
      BY <3>1, <3>2
  <2>4. IsFiniteSet(Below) /\ Cardinality(L \ {m}) <= Cardinality(Below)
    BY <1>1, <2>3, FS_Subset
  <2>5. Cardinality(L \ {m}) = Cardinality(L) - 1
    BY <1>1, <2>1, FS_RemoveElement
  <2>6. Cardinality(L) \in Nat /\ Cardinality(Below) \in Nat
    BY <1>1, <2>4, FS_CardinalityType
  <2> HIDE DEF L, Below
  <2>7. Cardinality(L) <= n
    BY <2>2, <2>4, <2>5, <2>6
  <2>. QED
    BY <1>1, <2>7 DEF L
<1>. QED
  BY <1>2, <1>3

\* ... and all there are when there are no more.
LEMMA LowestOfFew ==
    ASSUME NEW S \in SUBSET Entries, NEW n \in Nat, Cardinality(S) <= n
    PROVE  Lowest(S, n) = S
<1>1. IsFiniteSet(S) /\ Cardinality(S) \in Nat
  BY FinitelyMany
<1>2. ASSUME NEW i \in S PROVE Cardinality({j \in S : j < i}) < n
  <2> DEFINE Below == {j \in S : j < i}
  <2>1. Below \subseteq S \ {i}
    BY ConsumerAssumption DEF Entries
  <2>2. IsFiniteSet(S \ {i}) /\ Cardinality(S \ {i}) = Cardinality(S) - 1
    BY <1>1, FS_RemoveElement
  <2>3. IsFiniteSet(Below) /\ Cardinality(Below) <= Cardinality(S \ {i})
    BY <2>1, <2>2, FS_Subset
  <2>4. Cardinality(Below) \in Nat
    BY <2>3, FS_CardinalityType
  <2> HIDE DEF Below
  <2>5. Cardinality(Below) < n
    BY <1>1, <2>2, <2>3, <2>4
  <2>. QED
    BY <2>5 DEF Below
<1>. QED
  BY <1>2 DEF Lowest

\* While the process only crashes, the loop is over everything that is pending.
RereadInv ==
    OnlyFailed({"crash", "group"}) =>
        /\ Cardinality(pel) <= Batch
        /\ pc \in {"read", "sleep", "handle", "ack"} => pel = batch

\* Failures are never forgotten.
LEMMA OnlyFailedBefore ==
    ASSUME TypeOK, NEW K, OnlyFailed(K)', faults' = faults \/ \E kind \in FaultKinds : Fault(kind)
    PROVE  OnlyFailed(K)
<1>1. CASE faults' = faults
  BY <1>1 DEF OnlyFailed
<1>2. ASSUME NEW k \in FaultKinds, Fault(k) PROVE OnlyFailed(K)
  <2>1. \A j \in FaultKinds : faults[j] \in Nat /\ faults'[j] = IF j = k THEN faults[k] + 1 ELSE faults[j]
    BY <1>2 DEF Fault, TypeOK
  <2>. QED
    BY <2>1 DEF OnlyFailed
<1>. QED
  BY <1>1, <1>2

\* A failure counts.
LEMMA FailureCounts ==
    ASSUME TypeOK, NEW K, NEW kind \in FaultKinds \ K, Fault(kind)
    PROVE  ~OnlyFailed(K)'
  BY DEF OnlyFailed, Fault, TypeOK

LEMMA InitReread == Init => RereadInv
  BY FS_EmptySet, ConsumerAssumption DEF Init, RereadInv

LEMMA NextReread == IInv /\ RereadInv /\ [Next]_vars => RereadInv'
<1> SUFFICES ASSUME IInv, RereadInv, [Next]_vars, OnlyFailed({"crash", "group"})'
             PROVE  /\ Cardinality(pel') <= Batch
                    /\ pc' \in {"read", "sleep", "handle", "ack"} => pel' = batch'
  BY DEF RereadInv
<1> USE ConsumerAssumption
<1>1. TypeOK
  BY DEF IInv
<1>2. faults' = faults \/ \E kind \in FaultKinds : Fault(kind)
  BY DEF Next, Publish, StartProcess, ConsumerStep, Failure, EnsureGroup, ReadPending, ReadNew,
     Wake, Handle, Ack, EnsureGroupFails, ReadPendingFails, ReadNewFails, Crash, AckFails, Fault, vars
<1>3. OnlyFailed({"crash", "group"})
  BY <1>1, <1>2, OnlyFailedBefore
<1>4. /\ Cardinality(pel) <= Batch
      /\ pc \in {"read", "sleep", "handle", "ack"} => pel = batch
  BY <1>3 DEF RereadInv
<1>5. ~ReadPendingFails /\ ~ReadNewFails /\ \A i \in Entries : ~AckFails(i)
  BY <1>1, FailureCounts DEF ReadPendingFails, ReadNewFails, AckFails, Fault
<1>6. CASE UNCHANGED vars
  BY <1>4, <1>6 DEF vars
<1>7. CASE Publish \/ StartProcess \/ EnsureGroup \/ Wake \/ EnsureGroupFails \/ Crash
  BY <1>4, <1>7 DEF Publish, StartProcess, EnsureGroup, Wake, EnsureGroupFails, Crash,
     groupVars, runVars
<1>8. CASE ReadPending
  <2>1. Lowest(pel, Batch) = pel
    BY <1>1, <1>4, LowestOfFew DEF TypeOK
  <2>. QED
    BY <1>4, <1>8, <2>1 DEF ReadPending, groupVars, Iterate
<1>9. CASE ReadNew
  <2>1. pel = {}
    BY <1>4, <1>9 DEF ReadNew, IInv, RunInv
  <2>2. pel' = Lowest(Undelivered, Batch) /\ batch' = pel'
    BY <1>9, <2>1 DEF ReadNew, DeliverNew, Iterate
  <2>3. Undelivered \in SUBSET Entries
    BY <1>1 DEF Undelivered, Entries, TypeOK
  <2>. QED
    BY <2>2, <2>3, LowestFits
<1>10. ASSUME NEW i \in Entries, Handle(i)
       PROVE  pel' = pel /\ batch' = batch /\ pc = "handle"
  BY <1>10 DEF Handle, groupVars
<1>11. ASSUME NEW i \in Entries, Ack(i)
       PROVE  Cardinality(pel') <= Batch /\ pel' = batch'
  <2>1. pel' = pel \ {i} /\ batch' = batch \ {i} /\ pc = "ack"
    BY <1>11 DEF Ack, Iterate
  <2>2. IsFiniteSet(pel)
    BY <1>1, FinitelyMany DEF TypeOK
  <2>3. Cardinality(pel') <= Cardinality(pel) /\ Cardinality(pel) \in Nat /\ Cardinality(pel') \in Nat
    BY <2>1, <2>2, FS_Subset, FS_CardinalityType
  <2>. QED
    BY <1>4, <2>1, <2>3
<1>. QED
  BY <1>4, <1>5, <1>6, <1>7, <1>8, <1>9, <1>10, <1>11 DEF Next, ConsumerStep, Failure

\* A failure of something else is none of the consumer's steps.
LEMMA FaultKeepsInv ==
    ASSUME IInv, faults' = faults \/ \E kind \in FaultKinds : Fault(kind),
           UNCHANGED <<streamVars, groupVars, runVars, history>>
    PROVE  IInv'
<1> USE DEF streamVars, groupVars, runVars, history
<1>1. TypeOK
  BY DEF IInv
<1>2. TypeOK'
  BY <1>1, FaultBound DEF TypeOK
<1>3. GroupInv' /\ RunInv' /\ AckedWasHandled' /\ NothingSlips'
  BY DEF IInv, GroupInv, RunInv, HasGroup, Current, AckedWasHandled, NothingSlips, Owed
<1>. QED
  BY <1>2, <1>3 DEF IInv

LEMMA FaultKeepsReread ==
    ASSUME IInv, RereadInv, faults' = faults \/ \E kind \in FaultKinds : Fault(kind),
           UNCHANGED <<groupVars, runVars>>
    PROVE  RereadInv'
<1>1. OnlyFailed({"crash", "group"})' => OnlyFailed({"crash", "group"})
  BY OnlyFailedBefore DEF IInv
<1>. QED
  BY <1>1 DEF RereadInv, groupVars, runVars

\* What run() relies on: the entries pending at a start fit its one XREADGROUP 0.
THEOREM RereadIsEnough == Spec => []PelFitsOneBatch
<1>1. IInv /\ RereadInv /\ [Next]_vars => RereadInv'
  BY NextReread
<1>2. RereadInv => PelFitsOneBatch
  BY DEF RereadInv, PelFitsOneBatch
<1>. QED
  BY <1>1, <1>2, InitReread, Invariance, PTL DEF Spec

\* The consumer implements the at-least-once hop of AtLeastOnce: every step of
\* Redis and of Consumer::run offers one entry to the group, delivers one that
\* is not confirmed, settles one delivered, or leaves the three sets alone.
THEOREM Refinement == Spec => ImplementsAtLeastOnce
<1> USE ConsumerAssumption
<1>1. Init => Hop!AInit
  BY DEF Init, Hop!AInit, Owed, HasGroup
<1>2. IInv /\ [Next]_vars => [Hop!ANext]_(Hop!avars)
  <2> SUFFICES ASSUME IInv, [Next]_vars
               PROVE  [Hop!ANext]_(Hop!avars)
    OBVIOUS
  <2>1. CASE Publish
    <3>1. UNCHANGED <<start, handled, blanked, acked>> /\ last' = last + 1 /\ last' \in Entries
      BY <2>1 DEF Publish, groupVars, history, Entries, IInv, TypeOK
    <3>2. CASE HasGroup
      <4>1. Owed' = Owed \cup {last'}
        BY <3>1, <3>2 DEF Owed, HasGroup, IInv, TypeOK, GroupInv
      <4>2. Hop!Offer(last')
        BY <3>1, <4>1 DEF Hop!Offer
      <4>. QED
        BY <3>1, <4>2 DEF Hop!ANext
    <3>3. CASE ~HasGroup
      BY <3>1, <3>3 DEF Hop!avars, Owed, HasGroup
    <3>. QED
      BY <3>2, <3>3
  <2>2. CASE EnsureGroup
    <3>1. UNCHANGED <<last, handled, blanked, acked>>
      BY <2>2 DEF EnsureGroup, streamVars, history
    <3>2. Owed' = Owed
      BY <2>2, <3>1 DEF EnsureGroup, Owed, HasGroup, IInv, TypeOK
    <3>. QED
      BY <3>1, <3>2 DEF Hop!avars
  <2>3. ASSUME NEW i \in Entries, Handle(i) PROVE Hop!Deliver(i)
    <3>1. i \in pel /\ HasGroup /\ start < i /\ i <= cursor /\ cursor <= last
      BY <2>3 DEF Handle, Current, IInv, RunInv, GroupInv
    <3>2. i \in Owed \ acked
      BY <3>1 DEF Owed, Entries, IInv, TypeOK, GroupInv
    <3>3. Owed' = Owed /\ acked' = acked
      BY <2>3 DEF Handle, streamVars, groupVars, Owed, HasGroup
    <3>4. (handled \cup blanked)' = (handled \cup blanked) \cup {i}
      BY <2>3 DEF Handle
    <3>. QED
      BY <3>2, <3>3, <3>4 DEF Hop!Deliver
  <2>4. ASSUME NEW i \in Entries, Ack(i) PROVE Hop!Settle(i)
    <3>1. i \in handled \cup blanked
      BY <2>4 DEF Ack, IInv, RunInv
    <3>2. UNCHANGED <<Owed, handled, blanked>> /\ acked' = acked \cup {i}
      BY <2>4 DEF Ack, streamVars, Owed, HasGroup
    <3>. QED
      BY <3>1, <3>2 DEF Hop!Settle
  <2>5. ASSUME UNCHANGED <<last, start, handled, blanked, acked>>
        PROVE  UNCHANGED Hop!avars
    BY <2>5 DEF Hop!avars, Owed, HasGroup
  <2>6. CASE UNCHANGED vars
    BY <2>5, <2>6 DEF vars
  <2>7. CASE Next
    <3>1. CASE \/ StartProcess \/ ReadPending \/ ReadNew \/ Wake \/ EnsureGroupFails
              \/ ReadPendingFails \/ ReadNewFails \/ Crash
              \/ \E i \in Entries : AckFails(i)
      <4>1. UNCHANGED <<last, start, handled, blanked, acked>>
        BY <3>1 DEF StartProcess, ReadPending, ReadNew, Wake, EnsureGroupFails,
           ReadPendingFails, ReadNewFails, Crash, AckFails, streamVars, groupVars, history
      <4>. QED
        BY <2>5, <4>1
    <3>. QED
      BY <2>1, <2>2, <2>3, <2>4, <2>7, <3>1 DEF Next, ConsumerStep, Failure, Hop!ANext
  <2>. QED
    BY <2>6, <2>7
<1>. QED
  BY <1>1, <1>2, Invariance, PTL DEF Spec, ImplementsAtLeastOnce, Hop!ASpec
=============================================================================
