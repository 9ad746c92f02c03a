--------------------------- MODULE StreamConsumer ---------------------------
(***************************************************************************)
(* transport::bus: one Redis stream, one consumer group and the single     *)
(* consumer that reads it (every group of the system has one consumer, of  *)
(* a fixed name).  Redis itself is modelled from the commands bus.rs sends *)
(* it; Consumer::run is modelled statement by statement.                   *)
(*                                                                         *)
(* Stream entries are numbered 1, 2, 3... in the order of their XADD, so   *)
(* an entry's number is its Redis ID.                                      *)
(***************************************************************************)
EXTENDS Integers, FiniteSets, Functions

CONSTANTS MaxEntries,  \* bound on the number of XADDs
          MaxLen,      \* MAXLEN of the stream (10 000 in the code)
          Batch,       \* COUNT of every XREADGROUP (10 in the code)
          FaultKinds,  \* subset of {"crash", "group", "pending", "read", "ack"}
          MaxFaults    \* bound on the number of failures

ASSUME ConsumerAssumption ==
    /\ MaxEntries \in Nat
    /\ MaxLen \in Nat \ {0}
    /\ Batch \in Nat \ {0}
    /\ MaxFaults \in Nat

VARIABLES
    \* Redis
    first, last,  \* the stream holds the entries first .. last
    start,        \* last entry when the group was created; -1: no group yet
    cursor,       \* the group's last-delivered ID
    pel,          \* the group's pending entries list
    \* Consumer::run
    pc,           \* where it stands
    batch,        \* entries of the current reply not yet confirmed
    blank,        \* those of them that came back without their fields
    \* history
    handled,      \* entries the handler got with their fields
    blanked,      \* entries the handler got without them
    acked,        \* entries removed from the PEL by XACK
    faults        \* faults[kind]: failures of that kind so far

streamVars == <<first, last>>
groupVars  == <<start, cursor, pel>>
runVars    == <<pc, batch, blank>>
history    == <<handled, blanked, acked>>
vars == <<first, last, start, cursor, pel, pc, batch, blank, handled, blanked, acked, faults>>

Entries == 1 .. MaxEntries
RunPc   == {"down", "ensure", "pending", "read", "handle", "ack", "sleep"}

TypeOK ==
    /\ first \in Nat \ {0}
    /\ last \in 0 .. MaxEntries
    /\ start \in -1 .. MaxEntries
    /\ cursor \in 0 .. MaxEntries
    /\ pel \in SUBSET Entries
    /\ pc \in RunPc
    /\ batch \in SUBSET Entries
    /\ blank \in SUBSET Entries
    /\ handled \in SUBSET Entries
    /\ blanked \in SUBSET Entries
    /\ acked \in SUBSET Entries
    /\ faults \in [FaultKinds -> Nat]

HasGroup == start >= 0

\* Everything the group is owed: what was added after its creation.
Owed == IF HasGroup THEN start + 1 .. last ELSE {}

Init ==
    /\ first = 1
    /\ last = 0
    /\ start = -1
    /\ cursor = 0
    /\ pel = {}
    /\ pc = "down"
    /\ batch = {}
    /\ blank = {}
    /\ handled = {}
    /\ blanked = {}
    /\ acked = {}
    /\ faults = [kind \in FaultKinds |-> 0]

Failures == SumFunction(faults)

\* No kind of failure but those of K has happened so far.
OnlyFailed(K) == \A kind \in FaultKinds \ K : faults[kind] = 0

Fault(kind) ==
    /\ kind \in FaultKinds
    /\ Failures < MaxFaults
    /\ faults' = [faults EXCEPT ![kind] = @ + 1]

-----------------------------------------------------------------------------
\* XADD stream MAXLEN ~ n: the new entry is kept; old ones may be trimmed as
\* long as n remain ("~" lets Redis trim fewer).
Publish ==
    /\ last < MaxEntries
    /\ last' = last + 1
    /\ \E f \in first .. last + 1 :
          /\ f = first \/ last' - f + 1 >= MaxLen
          /\ first' = f
    /\ UNCHANGED <<groupVars, runVars, history, faults>>

-----------------------------------------------------------------------------
(***************************************************************************)
(* Consumer::run                                                           *)
(***************************************************************************)

StartProcess ==
    /\ pc = "down"
    /\ pc' = "ensure"
    /\ UNCHANGED <<streamVars, groupVars, batch, blank, history, faults>>

\* A plausible slip: the group is recreated on every start, from the beginning.
EnsureGroupAnew ==
    /\ pc = "ensure"
    /\ start' = 0
    /\ cursor' = 0
    /\ pc' = "pending"
    /\ UNCHANGED <<streamVars, pel, batch, blank, history, faults>>

\* A plausible slip: "$" taken for the ID after the last one.
EnsureGroupAfterLast ==
    /\ pc = "ensure"
    /\ IF HasGroup
       THEN UNCHANGED <<start, cursor>>
       ELSE start' = last + 1 /\ cursor' = last + 1
    /\ pc' = "pending"
    /\ UNCHANGED <<streamVars, pel, batch, blank, history, faults>>

\* XGROUP CREATE stream group $ MKSTREAM: what is already in the stream is not
\* delivered to a new group; BUSYGROUP means the group is there and is kept.
EnsureGroup ==
    /\ pc = "ensure"
    /\ IF HasGroup
       THEN UNCHANGED <<start, cursor>>
       ELSE start' = last /\ cursor' = last
    /\ pc' = "pending"
    /\ UNCHANGED <<streamVars, pel, batch, blank, history, faults>>

\* Any other error: run() returns it, and the process ends.
EnsureGroupFails ==
    /\ pc = "ensure"
    /\ Fault("group")
    /\ pc' = "down"
    /\ UNCHANGED <<streamVars, groupVars, batch, blank, history>>

\* A plausible slip: off by one in COUNT.
LowestPlusOne(S, n) == {i \in S : Cardinality({j \in S : j < i}) <= n}

\* The n lowest members of S (S itself when it has no more than n).
Lowest(S, n) == {i \in S : Cardinality({j \in S : j < i}) < n}

\* The for loop over a reply: its body, or straight on when it is empty.
Iterate(S) ==
    /\ batch' = S
    /\ pc' = IF S = {} THEN "read" ELSE "handle"

\* A plausible slip: startup goes straight to new entries.
ReadPendingSkipped ==
    /\ pc = "pending"
    /\ Iterate({})
    /\ UNCHANGED <<streamVars, groupVars, blank, history, faults>>

\* XREADGROUP ... STREAMS stream 0, once per start: the first entries of the
\* PEL.  A trimmed entry comes back without fields.
ReadPending ==
    /\ pc = "pending"
    /\ Iterate(Lowest(pel, Batch))
    /\ blank' = {i \in Lowest(pel, Batch) : i < first}
    /\ UNCHANGED <<streamVars, groupVars, history, faults>>

\* Only a warning: the pending entries wait for the next start.
ReadPendingFails ==
    /\ pc = "pending"
    /\ Fault("pending")
    /\ pc' = "read"
    /\ UNCHANGED <<streamVars, groupVars, batch, blank, history>>

\* What XREADGROUP ... > would deliver: untrimmed entries beyond the cursor.
Undelivered == {i \in cursor + 1 .. last : i >= first}

\* A plausible slip: the read with NOACK, which keeps no pending entry.
DeliverNoAck(S) ==
    /\ \E m \in S \cup {cursor} : cursor' = m /\ \A i \in S : i <= m
    /\ pel' = pel

\* Redis's side of the read: entries become pending, and the cursor moves to
\* the last of them.
DeliverNew(S) ==
    /\ \E m \in S \cup {cursor} : cursor' = m /\ \A i \in S : i <= m
    /\ pel' = pel \cup S

\* (With nothing to deliver the call blocks for a second and comes back empty.)
ReadNew ==
    /\ pc = "read"
    /\ Undelivered # {}
    /\ DeliverNew(Lowest(Undelivered, Batch))
    /\ Iterate(Lowest(Undelivered, Batch))
    /\ blank' = {}
    /\ UNCHANGED <<streamVars, start, history, faults>>

\* The read fails: two seconds' sleep.  Redis may have executed it, and then
\* its entries are pending though no reply arrived.
ReadNewFails ==
    /\ pc = "read"
    /\ Fault("read")
    /\ \/ UNCHANGED <<cursor, pel>>
       \/ DeliverNew(Lowest(Undelivered, Batch))
    /\ pc' = "sleep"
    /\ UNCHANGED <<streamVars, start, batch, blank, history>>

Wake ==
    /\ pc = "sleep"
    /\ pc' = "read"
    /\ UNCHANGED <<streamVars, groupVars, batch, blank, history, faults>>

\* The entry the loop is at.
Current(i) == i \in batch /\ \A j \in batch : i <= j

\* A plausible slip: confirm first, handle afterwards.
HandleAcksFirst(i) ==
    /\ pc = "handle"
    /\ Current(i)
    /\ pel' = pel \ {i}
    /\ acked' = acked \cup {i}
    /\ pc' = "ack"
    /\ UNCHANGED <<streamVars, start, cursor, batch, blank, handled, blanked, faults>>

\* handler(evento).await: returns (), whatever became of the event.
Handle(i) ==
    /\ pc = "handle"
    /\ Current(i)
    /\ IF i \in blank
       THEN blanked' = blanked \cup {i} /\ handled' = handled
       ELSE handled' = handled \cup {i} /\ blanked' = blanked
    /\ pc' = "ack"
    /\ UNCHANGED <<streamVars, groupVars, batch, blank, acked, faults>>

\* XACK, and on to the next entry of the reply.
Ack(i) ==
    /\ pc = "ack"
    /\ Current(i)
    /\ pel' = pel \ {i}
    /\ acked' = acked \cup {i}
    /\ Iterate(batch \ {i})
    /\ UNCHANGED <<streamVars, start, cursor, blank, handled, blanked, faults>>

\* The error of XACK is dropped (`let _ =`): the entry stays pending.
AckFails(i) ==
    /\ pc = "ack"
    /\ Current(i)
    /\ Fault("ack")
    /\ Iterate(batch \ {i})
    /\ UNCHANGED <<streamVars, groupVars, blank, history>>

Crash ==
    /\ pc # "down"
    /\ Fault("crash")
    /\ pc' = "down"
    /\ batch' = {}
    /\ blank' = {}
    /\ UNCHANGED <<streamVars, groupVars, history>>

-----------------------------------------------------------------------------
ConsumerStep ==
    \/ EnsureGroup \/ ReadPending \/ ReadNew \/ Wake
    \/ \E i \in Entries : Handle(i) \/ Ack(i)

Failure ==
    \/ EnsureGroupFails \/ ReadPendingFails \/ ReadNewFails \/ Crash
    \/ \E i \in Entries : AckFails(i)

Next == Publish \/ StartProcess \/ ConsumerStep \/ Failure

Spec == Init /\ [][Next]_vars

\* The task is polled while the process is up, and every handler of the system
\* returns (its RPCs and connections time out).  Publishers, failures and
\* (re)starts are not forced.
FairSpec == Spec /\ WF_vars(ConsumerStep)

-----------------------------------------------------------------------------
(***************************************************************************)
(* Properties                                                              *)
(***************************************************************************)

\* Confirmed means handled, crash or not; the exception is an entry trimmed
\* while it was pending, which reaches the handler without its fields.
AckedWasHandled ==
    \A i \in acked : i \in handled \/ (i \in blanked /\ i < first)

\* Nothing slips between cursor, PEL and XACK: every entry the group's cursor
\* passed is pending, was confirmed, or was trimmed from the stream.
NothingSlips ==
    \A i \in Owed : i <= cursor => i \in pel \/ i \in acked \/ i < first

\* A confirmed entry is not handled a second time, restarts included.
NeverRehandled ==
    [][\A i \in Entries : (pc = "handle" /\ pc' = "ack" /\ Current(i)) => i \notin acked]_vars

\* While the process only crashes the PEL never outgrows the one batch that a
\* start rereads; this is what the single XREADGROUP 0 of run() relies on.
PelFitsOneBatch == OnlyFailed({"crash", "group"}) => Cardinality(pel) <= Batch

\* Everything published after the group was created reaches the handler, unless
\* it is trimmed first, as long as the process only crashes; and then from its
\* next start on.
OwedIsHandled ==
    []OnlyFailed({"crash", "group"}) =>
        \A i \in Entries : i \in Owed ~> (i \in handled \/ i < first \/ pc = "down")

\* The consumer implements the at-least-once hop: owed, given to the handler,
\* confirmed.
Hop == INSTANCE AtLeastOnce WITH Items <- Entries, offered <- Owed,
                                 delivered <- handled \cup blanked, settled <- acked
ImplementsAtLeastOnce == Hop!ASpec
=============================================================================
