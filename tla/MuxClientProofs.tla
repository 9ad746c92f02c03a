--------------------------- MODULE MuxClientProofs ---------------------------
(***************************************************************************)
(* Theorems about MuxClient for every set of calls, every number of        *)
(* connections, every capacity of their channels and all failures.         *)
(***************************************************************************)
EXTENDS MuxClient, FiniteSetTheorems, TLAPS

\* The frames of call k: one for each try.
Tries(k) == {<<k, 1>>, <<k, 2>>}

TypeInv == TypeOK /\ \A c \in Conns : IsFiniteSet(queue[c])

\* A call is registered from before its frame is sent until it stops waiting.
RegisteredInv ==
    \A k \in Calls : pc[k] \in {"enqueue", "wait"} => on[k] \in Conns /\ Frame(k) \in pendentes[on[k]]

\* No frame of a call is anywhere before the channel accepts one, and none was
\* ever accepted of a call that returns Closed.
UnsentInv ==
    \A k \in Calls : pc[k] \in {"start", "enqueue", "invalidate", "closed"} =>
        /\ executed[k] = 0
        /\ \A f \in Tries(k), c \in Conns :
              f \notin queue[c] /\ <<c, f>> \notin requests /\ <<c, f>> \notin replies

\* One frame of a call at most is on its way to the handler, in a channel or at the
\* server, and only as long as the handler has not run.
OneCopyInv ==
    \A k \in Calls :
        /\ executed[k] \in {0, 1}
        /\ \A f, g \in Tries(k), c, d \in Conns :
              /\ f \in queue[c] => executed[k] = 0 /\ <<d, g>> \notin requests
              /\ <<c, f>> \in requests => executed[k] = 0
              /\ f \in queue[c] /\ g \in queue[d] => f = g /\ c = d
              /\ <<c, f>> \in requests /\ <<d, g>> \in requests => f = g /\ c = d

\* Only connections that were established have a keepalive.
DialedInv == \A c \in Conns : c > dials => keepalive[c] = "off"

\* The inductive invariant.
IInv == TypeInv /\ DialedInv /\ RegisteredInv /\ NoOrphanPending /\ UnsentInv /\ OneCopyInv

\* Err(Closed) says that the handler did not run, and never will.
ClosedNeverRuns == \A k \in Calls : pc[k] = "closed" => executed[k] = 0

-----------------------------------------------------------------------------
LEMMA FrameFacts ==
    ASSUME TypeOK
    PROVE  /\ \A k \in Calls : Frame(k) \in Frames /\ Frame(k) \in Tries(k) /\ Frame(k) # Ping
           /\ \A k, l \in Calls : Frame(k) = Frame(l) => k = l
           /\ \A k, l \in Calls : Tries(k) \cap Tries(l) # {} => k = l
           /\ \A k \in Calls : Ping \notin Tries(k) /\ Tries(k) \subseteq Frames
  BY MuxAssumption DEF TypeOK, Frame, Frames, Tries

LEMMA InitIInv == Init => IInv
<1> SUFFICES ASSUME Init PROVE IInv
  OBVIOUS
<1>1. TypeInv
  <2>1. 1 \in Conns /\ 0 \in Nat
    BY MuxAssumption DEF Conns
  <2>2. \A c \in Conns : IsFiniteSet(queue[c]) /\ Cardinality(queue[c]) <= Capacity
    BY FS_EmptySet, MuxAssumption DEF Init
  <2>3. up \in BOOLEAN
    BY Zenon DEF Init
  <2>. QED
    BY SMTT(30), <2>1, <2>2, <2>3, MuxAssumption DEF Init, TypeInv, TypeOK, Conns, CallPc, Returned
<1>2. DialedInv /\ RegisteredInv /\ NoOrphanPending /\ UnsentInv /\ OneCopyInv
  BY DEF Init, DialedInv, RegisteredInv, NoOrphanPending, UnsentInv, OneCopyInv
<1>. QED
  BY <1>1, <1>2 DEF IInv

\* A step that leaves calls and registrations alone keeps what is said of them.
LEMMA RegistrationsStay ==
    ASSUME IInv, UNCHANGED <<pendentes, keepalive, pc, try, on>>
    PROVE  RegisteredInv' /\ NoOrphanPending'
  BY DEF IInv, RegisteredInv, NoOrphanPending, Frame

\* A step that moves no frame and starts no call keeps what is said of the frames.
LEMMA FramesStay ==
    ASSUME IInv, UNCHANGED <<requests, executed>>, replies' \subseteq replies,
           \A c \in Conns : queue'[c] \subseteq queue[c],
           \A k \in Calls : pc'[k] \in {"start", "enqueue", "invalidate", "closed"}
                               => pc[k] \in {"start", "enqueue", "invalidate", "closed"}
    PROVE  UnsentInv' /\ OneCopyInv'
<1>1. UnsentInv'
  BY DEF IInv, UnsentInv
<1>2. OneCopyInv'
  BY DEF IInv, OneCopyInv
<1>. QED
  BY <1>1, <1>2

\* What a channel accepts when it has room keeps it within its capacity.
LEMMA RoomForOne ==
    ASSUME TypeInv, NEW c \in Conns, NEW f, Cardinality(queue[c]) < Capacity
    PROVE  IsFiniteSet(queue[c] \cup {f}) /\ Cardinality(queue[c] \cup {f}) <= Capacity
<1>1. IsFiniteSet(queue[c]) /\ Cardinality(queue[c]) \in Nat
  BY FS_CardinalityType DEF TypeInv
<1>2. /\ IsFiniteSet(queue[c] \cup {f})
      /\ Cardinality(queue[c] \cup {f}) \in {Cardinality(queue[c]), Cardinality(queue[c]) + 1}
  BY <1>1, FS_AddElement
<1>. QED
  BY <1>1, <1>2, MuxAssumption

LEMMA FewerFrames ==
    ASSUME TypeInv, NEW c \in Conns, NEW S, S \subseteq queue[c]
    PROVE  IsFiniteSet(S) /\ Cardinality(S) <= Capacity
<1>1. IsFiniteSet(S) /\ Cardinality(S) <= Cardinality(queue[c]) /\ Cardinality(S) \in Nat
  BY FS_Subset, FS_CardinalityType DEF TypeInv
<1>2. Cardinality(queue[c]) \in Nat /\ Cardinality(queue[c]) <= Capacity
  BY FS_CardinalityType DEF TypeInv, TypeOK
<1>. QED
  BY <1>1, <1>2, MuxAssumption

-----------------------------------------------------------------------------
(***************************************************************************)
(* Types                                                                   *)
(***************************************************************************)
LEMMA CallKeepsTypes ==
    ASSUME IInv, NEW k \in Calls, CallStep(k)
    PROVE  TypeInv'
<1>. USE DEF IInv, TypeInv
<1>1. TypeOK /\ Frame(k) \in Frames
  BY FrameFacts
<1>. USE <1>1 DEF TypeOK, CallPc, Returned, Conns
<1>2. CASE UseCached(k)
  BY <1>2 DEF UseCached, Usable, Register, clientVars, serverVars
<1>3. CASE Dial(k)
  <2>1. dials + 1 \in Conns
    BY <1>3, MuxAssumption DEF Dial
  <2>2. \A c \in Conns : IsFiniteSet(queue'[c]) /\ Cardinality(queue'[c]) <= Capacity
    BY <1>3 DEF Dial
  <2>3. on' \in [Calls -> 0 .. MaxDials] /\ conexao' \in 0 .. MaxDials
    BY <1>3, <2>1 DEF Dial, Register
  <2>4. pendentes' \in [Conns -> SUBSET Frames] /\ peer' \in [Conns -> {"none", "open", "stalled", "closed"}]
    BY <1>3, <2>1 DEF Dial, Register
  <2>5. keepalive' \in [Conns -> {"idle", "enqueue", "wait", "off"}] /\ pc' \in [Calls -> CallPc]
    BY <1>3, <2>1 DEF Dial, Register
  <2>. QED
    BY <1>3, <2>1, <2>2, <2>3, <2>4, <2>5 DEF Dial
<1>4. CASE DialFails(k)
  BY <1>4 DEF DialFails, clientVars, connVars, serverVars
<1>5. CASE Enqueue(k)
  <2>1. on[k] \in Conns
    BY <1>5 DEF Enqueue, RegisteredInv
  <2>2. \A c \in Conns : IsFiniteSet(queue'[c]) /\ Cardinality(queue'[c]) <= Capacity
    BY <1>5, <2>1, RoomForOne DEF Enqueue
  <2>. QED
    BY <1>5, <2>2 DEF Enqueue, clientVars, serverVars
<1>6. CASE EnqueueClosed(k)
  BY <1>6 DEF EnqueueClosed, clientVars, serverVars
<1>7. CASE Invalidate(k)
  <2>1. conexao' \in 0 .. MaxDials
    BY <1>7, MuxAssumption DEF Invalidate
  <2>2. pc' \in [Calls -> CallPc] /\ try' \in [Calls -> {1, 2}]
    BY <1>7 DEF Invalidate
  <2>. QED
    BY <1>7, <2>1, <2>2 DEF Invalidate, connVars, serverVars
<1>8. CASE Expire(k)
  BY <1>8 DEF Expire, clientVars, connVars, serverVars
<1>9. CASE Unregister(k)
  BY <1>9 DEF Unregister, clientVars, serverVars
<1>. QED
  BY <1>2, <1>3, <1>4, <1>5, <1>6, <1>7, <1>8, <1>9 DEF CallStep

LEMMA TaskKeepsTypes ==
    ASSUME IInv, NEW c \in Conns, WriteLoop(c) \/ ReadLoop(c) \/ KeepaliveStep(c)
    PROVE  TypeInv'
<1>. USE DEF IInv, TypeInv
<1>1. TypeOK /\ Ping \in Frames
  BY DEF Frames
<1>. USE <1>1 DEF TypeOK, CallPc, Returned, Conns
<1>2. CASE Write(c)
  <2>1. \A d \in Conns : IsFiniteSet(queue'[d]) /\ Cardinality(queue'[d]) <= Capacity
    BY SMTT(30), <1>2, FewerFrames DEF Write
  <2>0. PICK f \in queue[c] : queue' = [queue EXCEPT ![c] = @ \ {f}] /\ requests' = requests \cup {<<c, f>>}
    BY <1>2 DEF Write
  <2>2. queue' \in [Conns -> SUBSET Frames]
    BY <2>0
  <2>3. f \in Frames /\ <<c, f>> \in Conns \X Frames
    OBVIOUS
  <2>4. requests' \in SUBSET (Conns \X Frames)
    BY <2>0, <2>3
  <2>. QED
    BY <1>2, <2>1, <2>2, <2>4 DEF Write, clientVars, callVars
<1>3. CASE WriteLost(c)
  <2>1. PICK S \in SUBSET queue[c] : queue' = [queue EXCEPT ![c] = S]
    <3>1. ASSUME NEW f \in queue[c], queue' = [queue EXCEPT ![c] = @ \ {f}]
          PROVE  \E S \in SUBSET queue[c] : queue' = [queue EXCEPT ![c] = S]
      BY <3>1
    <3>. QED
      BY <1>3, <3>1 DEF WriteLost
  <2>2. \A d \in Conns : IsFiniteSet(queue'[d]) /\ Cardinality(queue'[d]) <= Capacity
    BY <2>1, FewerFrames
  <2>3. queue' \in [Conns -> SUBSET Frames]
    BY <2>1
  <2>4. writing' \in SUBSET Conns /\ saudavel' \in SUBSET Conns
    BY <1>3 DEF WriteLost
  <2>. QED
    BY <1>3, <2>2, <2>3, <2>4 DEF WriteLost, clientVars, serverVars, callVars
<1>4. CASE ReadReply(c)
  BY <1>4 DEF ReadReply, clientVars
<1>5. CASE ReadEnds(c)
  BY <1>5 DEF ReadEnds, clientVars, serverVars, callVars
<1>6. CASE Tick(c)
  <2>1. /\ keepalive' \in [Conns -> {"idle", "enqueue", "wait", "off"}]
        /\ pendentes' \in [Conns -> SUBSET Frames]
    <3>1. CASE c \in saudavel
      <4>1. keepalive' = [keepalive EXCEPT ![c] = "enqueue"] /\ pendentes' = [pendentes EXCEPT ![c] = @ \cup {Ping}]
        BY <1>6, <3>1 DEF Tick
      <4>2. pendentes[c] \cup {Ping} \in SUBSET Frames
        OBVIOUS
      <4>. QED
        BY <4>1, <4>2
    <3>2. CASE c \notin saudavel
      BY <1>6, <3>2 DEF Tick
    <3>. QED
      BY <3>1, <3>2
  <2>. QED
    BY <1>6, <2>1 DEF Tick, clientVars, serverVars, callVars
<1>7. CASE EnqueuePing(c)
  <2>1. \A d \in Conns : IsFiniteSet(queue'[d]) /\ Cardinality(queue'[d]) <= Capacity
    BY <1>7, RoomForOne DEF EnqueuePing
  <2>. QED
    BY <1>7, <2>1 DEF EnqueuePing, clientVars, serverVars, callVars
<1>8. CASE NoPong(c)
  BY <1>8 DEF NoPong, clientVars, serverVars, callVars
<1>. QED
  BY <1>2, <1>3, <1>4, <1>5, <1>6, <1>7, <1>8 DEF WriteLoop, ReadLoop, KeepaliveStep

LEMMA EnvironmentKeepsTypes ==
    ASSUME IInv, Environment
    PROVE  TypeInv'
<1>. USE MuxAssumption DEF IInv, TypeInv, TypeOK, CallPc, Returned, Conns, clientVars, connVars, callVars
<1>1. ASSUME NEW c \in Conns, Serve(c) PROVE TypeInv'
  BY SMTT(30), <1>1 DEF Serve
<1>0. ASSUME NEW kind, Fault(kind) PROVE faults' \in 0 .. MaxFaults
  BY <1>0 DEF Fault
<1>2. ASSUME ServerStops PROVE TypeInv'
  <2>1. faults' \in 0 .. MaxFaults
    BY <1>2, <1>0 DEF ServerStops
  <2>2. up' \in BOOLEAN
    BY <1>2, Zenon DEF ServerStops
  <2>. QED
    BY <1>2, <2>1, <2>2 DEF ServerStops
<1>3. ASSUME ServerStarts PROVE TypeInv'
  BY <1>3 DEF ServerStarts
<1>4. ASSUME NEW c \in Conns, Cut(c) \/ Stall(c) PROVE TypeInv'
  <2>1. faults' \in 0 .. MaxFaults
    BY <1>4, <1>0 DEF Cut, Stall
  <2>. QED
    BY <1>4, <2>1 DEF Cut, Stall
<1>. QED
  BY <1>1, <1>2, <1>3, <1>4 DEF Environment

-----------------------------------------------------------------------------
(***************************************************************************)
(* Registrations                                                           *)
(***************************************************************************)
\* A call registers its own frame where it sends it, and removes no other.
LEMMA CallKeepsRegistrations ==
    ASSUME IInv, NEW k \in Calls, CallStep(k)
    PROVE  DialedInv' /\ RegisteredInv' /\ NoOrphanPending'
<1>1. TypeOK
  BY DEF IInv, TypeInv
<1>. USE <1>1, FrameFacts DEF IInv
<1>2. ASSUME NEW c \in Conns, Register(k, c), pc[k] = "start", UNCHANGED try,
             \A d \in Conns : keepalive'[d] = keepalive[d] \/ keepalive[d] = "off"
      PROVE  RegisteredInv' /\ NoOrphanPending'
  <2>1. RegisteredInv'
    BY <1>2 DEF RegisteredInv, Register, TypeOK, Frame
  <2>2. NoOrphanPending'
    BY <1>2 DEF NoOrphanPending, Register, TypeOK, Frame
  <2>. QED
    BY <2>1, <2>2
<1>3. CASE UseCached(k)
  <2>1. conexao \in Conns
    BY <1>3 DEF UseCached, Usable, TypeOK
  <2>. QED
    BY <1>2, <1>3, <2>1 DEF UseCached, DialedInv, clientVars
<1>4. CASE Dial(k)
  <2>1. dials + 1 \in Conns
    BY SMTT(30), <1>4, MuxAssumption DEF Dial, TypeOK, Conns
  <2>2. keepalive[dials + 1] = "off"
    BY <2>1 DEF DialedInv, Conns, TypeOK
  <2>3. keepalive' = [keepalive EXCEPT ![dials + 1] = "idle"] /\ dials' = dials + 1
    BY <1>4 DEF Dial
  <2>4. DialedInv'
    BY <2>3, <2>1 DEF DialedInv, TypeOK, Conns
  <2>. QED
    BY <1>2, <1>4, <2>1, <2>2, <2>3, <2>4 DEF Dial, TypeOK
<1>5. CASE DialFails(k) \/ Enqueue(k) \/ Expire(k)
  <2>1. /\ UNCHANGED <<pendentes, keepalive, try, on, dials>>
        /\ \A l \in Calls \ {k} : pc'[l] = pc[l]
        /\ \/ pc[k] = "start" /\ pc'[k] = "closed"
           \/ pc[k] = "enqueue" /\ pc'[k] = "wait"
           \/ pc[k] = "wait" /\ pc'[k] = "expired"
    <3>1. pc \in [Calls -> CallPc]
      BY DEF TypeOK
    <3>2. UNCHANGED <<pendentes, keepalive, try, on, dials>>
      BY <1>5 DEF DialFails, Enqueue, Expire, clientVars, connVars
    <3>3. \/ pc[k] = "start" /\ pc' = [pc EXCEPT ![k] = "closed"]
          \/ pc[k] = "enqueue" /\ pc' = [pc EXCEPT ![k] = "wait"]
          \/ pc[k] = "wait" /\ pc' = [pc EXCEPT ![k] = "expired"]
      BY <1>5 DEF DialFails, Enqueue, Expire
    <3>. QED
      BY <3>1, <3>2, <3>3
  <2>. QED
    BY <2>1 DEF DialedInv, RegisteredInv, NoOrphanPending, Frame
<1>6. CASE EnqueueClosed(k) \/ Unregister(k)
  <2>1. /\ UNCHANGED <<keepalive, try, on, dials>>
        /\ \A l \in Calls \ {k} : pc'[l] = pc[l]
        /\ pc'[k] \in {"invalidate", "timeout"}
        /\ pendentes' = [pendentes EXCEPT ![on[k]] = @ \ {Frame(k)}]
    BY <1>6 DEF EnqueueClosed, Unregister, clientVars, TypeOK
  <2>2. RegisteredInv'
    BY <2>1 DEF RegisteredInv, TypeOK, Frame
  <2>3. NoOrphanPending'
    BY <2>1 DEF NoOrphanPending, TypeOK, Frame
  <2>. QED
    BY <2>1, <2>2, <2>3 DEF DialedInv
<1>7. CASE Invalidate(k)
  <2>1. /\ UNCHANGED <<pendentes, keepalive, on, dials>>
        /\ \A l \in Calls \ {k} : pc'[l] = pc[l] /\ try'[l] = try[l]
        /\ pc[k] = "invalidate" /\ pc'[k] \in {"start", "closed"}
    BY <1>7 DEF Invalidate, connVars, TypeOK
  <2>. QED
    BY <2>1 DEF DialedInv, RegisteredInv, NoOrphanPending, Frame
<1>. QED
  BY <1>3, <1>4, <1>5, <1>6, <1>7 DEF CallStep

LEMMA TaskKeepsRegistrations ==
    ASSUME IInv, NEW c \in Conns, WriteLoop(c) \/ ReadLoop(c) \/ KeepaliveStep(c)
    PROVE  DialedInv' /\ RegisteredInv' /\ NoOrphanPending'
<1>1. TypeOK
  BY DEF IInv, TypeInv
<1>. USE <1>1, FrameFacts DEF IInv
<1>2. CASE WriteLoop(c) \/ ReadEnds(c)
  BY <1>2, RegistrationsStay DEF WriteLoop, Write, WriteLost, ReadEnds, DialedInv, clientVars, callVars
<1>3. CASE ReadReply(c)
  <2>1. PICK f \in Frames :
           /\ <<c, f>> \in replies
           /\ pendentes' = [pendentes EXCEPT ![c] = @ \ {f}]
           /\ pc' = [k \in Calls |-> IF f = Frame(k) /\ f \in pendentes[c] /\ pc[k] = "wait"
                                     THEN "ok" ELSE pc[k]]
           /\ keepalive' = [keepalive EXCEPT ![c] = IF f = Ping /\ f \in pendentes[c] /\ @ = "wait"
                                                    THEN "idle" ELSE @]
    BY <1>3 DEF ReadReply
  <2>2. UNCHANGED <<try, on, dials>> /\ \A k \in Calls : Frame(k)' = Frame(k)
    BY <1>3 DEF ReadReply, clientVars, Frame
  <2>3. DialedInv'
    BY <2>1, <2>2 DEF DialedInv, TypeOK
  <2>4. RegisteredInv'
    <3> SUFFICES ASSUME NEW k \in Calls, pc'[k] \in {"enqueue", "wait"}
                 PROVE  on[k] \in Conns /\ Frame(k) \in pendentes'[on[k]]
      BY <2>2 DEF RegisteredInv
    <3>1. pc[k] = pc'[k] /\ on[k] \in Conns /\ Frame(k) \in pendentes[on[k]]
      BY <2>1 DEF RegisteredInv
    <3>2. CASE f # Frame(k) \/ c # on[k]
      BY <3>1, <3>2, <2>1 DEF TypeOK
    <3>3. CASE f = Frame(k) /\ c = on[k]
      <4>1. pc[k] = "enqueue"
        BY <2>1, <3>1, <3>3
      <4>. QED
        BY <4>1, <3>3, <2>1 DEF UnsentInv
    <3>. QED
      BY <3>2, <3>3
  <2>5. NoOrphanPending'
    <3> SUFFICES ASSUME NEW d \in Conns, NEW g \in pendentes'[d]
                 PROVE  \/ g = Ping /\ keepalive'[d] \in {"enqueue", "wait"}
                        \/ \E k \in Calls : /\ g = Frame(k) /\ on[k] = d
                                            /\ pc'[k] \in {"enqueue", "wait", "expired"}
      BY <2>2 DEF NoOrphanPending
    <3>1. g \in pendentes[d] /\ (d = c => g # f)
      BY <2>1 DEF TypeOK
    <3>2. CASE g = Ping
      BY <3>1, <3>2, <2>1 DEF NoOrphanPending, TypeOK
    <3>3. CASE g # Ping
      <4>1. PICK k \in Calls : g = Frame(k) /\ on[k] = d /\ pc[k] \in {"enqueue", "wait", "expired"}
        BY <3>1, <3>3 DEF NoOrphanPending
      <4>2. CASE f = Frame(k) /\ f \in pendentes[c]
        BY <4>1, <4>2, <3>1 DEF NoOrphanPending
      <4>3. CASE ~(f = Frame(k) /\ f \in pendentes[c])
        BY <4>1, <4>3, <2>1
      <4>. QED
        BY <4>2, <4>3
    <3>. QED
      BY <3>2, <3>3
  <2>. QED
    BY <2>3, <2>4, <2>5
<1>4. CASE KeepaliveStep(c)
  <2>1. UNCHANGED <<pc, try, on, dials>> /\ \A k \in Calls : Frame(k)' = Frame(k)
    BY <1>4 DEF KeepaliveStep, Tick, EnqueuePing, NoPong, clientVars, callVars, Frame
  <2>2. \/ /\ keepalive[c] = "idle" /\ keepalive' = [keepalive EXCEPT ![c] = "enqueue"]
           /\ pendentes' = [pendentes EXCEPT ![c] = @ \cup {Ping}]
        \/ /\ keepalive[c] = "idle" /\ keepalive' = [keepalive EXCEPT ![c] = "off"]
           /\ pendentes' = pendentes
        \/ /\ keepalive[c] = "enqueue" /\ keepalive' = [keepalive EXCEPT ![c] = "wait"]
           /\ pendentes' = pendentes
        \/ /\ keepalive' = [keepalive EXCEPT ![c] = "off"]
           /\ pendentes' = [pendentes EXCEPT ![c] = @ \ {Ping}]
    BY <1>4 DEF KeepaliveStep, Tick, EnqueuePing, NoPong
  <2>3. DialedInv'
    BY <2>1, <2>2 DEF DialedInv, TypeOK
  <2>4. RegisteredInv'
    BY <2>1, <2>2 DEF RegisteredInv, TypeOK
  <2>5. NoOrphanPending'
    BY <2>1, <2>2 DEF NoOrphanPending, TypeOK
  <2>. QED
    BY <2>3, <2>4, <2>5
<1>. QED
  BY <1>2, <1>3, <1>4 DEF ReadLoop

LEMMA EnvironmentKeepsRegistrations ==
    ASSUME IInv, Environment
    PROVE  DialedInv' /\ RegisteredInv' /\ NoOrphanPending'
<1>1. UNCHANGED <<dials, pendentes, keepalive, pc, try, on>>
  BY DEF Environment, Serve, ServerStops, ServerStarts, Cut, Stall, clientVars, connVars, callVars
<1>. QED
  BY <1>1, RegistrationsStay DEF IInv, DialedInv

-----------------------------------------------------------------------------
(***************************************************************************)
(* Frames                                                                  *)
(***************************************************************************)
\* The channel accepts the only frame there is of a call.
LEMMA CallKeepsFrames ==
    ASSUME IInv, NEW k \in Calls, CallStep(k)
    PROVE  UnsentInv' /\ OneCopyInv'
<1>1. TypeOK
  BY DEF IInv, TypeInv
<1>2. CASE ~Enqueue(k)
  <2>1. /\ UNCHANGED <<queue, requests, replies, executed>>
        /\ \A l \in Calls \ {k} : pc'[l] = pc[l]
        /\ pc'[k] \in {"start", "enqueue", "invalidate", "closed"}
              => pc[k] \in {"start", "enqueue", "invalidate", "closed"}
    <3>1. CASE UseCached(k)
      BY <1>1, <3>1 DEF UseCached, Register, serverVars, TypeOK
    <3>2. CASE Dial(k)
      BY <1>1, <3>2 DEF Dial, Register, TypeOK
    <3>3. CASE DialFails(k)
      BY <1>1, <3>3 DEF DialFails, connVars, serverVars, TypeOK
    <3>4. CASE EnqueueClosed(k)
      BY <1>1, <3>4 DEF EnqueueClosed, serverVars, TypeOK
    <3>5. CASE Invalidate(k)
      BY <1>1, <3>5 DEF Invalidate, connVars, serverVars, TypeOK
    <3>6. CASE Expire(k) \/ Unregister(k)
      BY <1>1, <3>6 DEF Expire, Unregister, connVars, serverVars, TypeOK
    <3>. QED
      BY <1>2, <3>1, <3>2, <3>3, <3>4, <3>5, <3>6 DEF CallStep
  <2>. QED
    BY <2>1, FramesStay
<1>3. CASE Enqueue(k)
  <2>1. /\ pc[k] = "enqueue" /\ on[k] \in Conns
        /\ queue' = [queue EXCEPT ![on[k]] = @ \cup {Frame(k)}]
        /\ pc' = [pc EXCEPT ![k] = "wait"]
        /\ UNCHANGED <<requests, replies, executed>>
    BY <1>3 DEF Enqueue, IInv, RegisteredInv, serverVars
  <2>2. /\ executed[k] = 0
        /\ \A f \in Tries(k), c \in Conns : f \notin queue[c] /\ <<c, f>> \notin requests
    BY <2>1 DEF IInv, UnsentInv
  <2>3. \A c \in Conns : \A f : f \in queue'[c] <=> f \in queue[c] \/ (f = Frame(k) /\ c = on[k])
    <3>1. queue \in [Conns -> SUBSET Frames]
      BY <1>1 DEF TypeOK
    <3>. QED
      BY <2>1, <3>1
  <2>4. UnsentInv'
    BY <1>1, <2>1, <2>3, FrameFacts DEF IInv, UnsentInv, TypeOK
  <2>5. OneCopyInv'
    <3> SUFFICES ASSUME NEW l \in Calls
                 PROVE  /\ executed[l] \in {0, 1}
                        /\ \A f, g \in Tries(l), c, d \in Conns :
                              /\ f \in queue'[c] => executed[l] = 0 /\ <<d, g>> \notin requests
                              /\ <<c, f>> \in requests => executed[l] = 0
                              /\ f \in queue'[c] /\ g \in queue'[d] => f = g /\ c = d
                              /\ <<c, f>> \in requests /\ <<d, g>> \in requests => f = g /\ c = d
      BY <2>1 DEF OneCopyInv
    <3>1. CASE l = k
      BY <2>2, <2>3, <3>1
    <3>2. CASE l # k
      <4>1. Frame(k) \notin Tries(l)
        BY <1>1, <3>2, FrameFacts
      <4>. QED
        BY <2>3, <4>1 DEF IInv, OneCopyInv
    <3>. QED
      BY <3>1, <3>2
  <2>. QED
    BY <2>4, <2>5
<1>. QED
  BY <1>2, <1>3

\* A frame leaves the channel when it reaches the server.
LEMMA TaskKeepsFrames ==
    ASSUME IInv, NEW c \in Conns, WriteLoop(c) \/ ReadLoop(c) \/ KeepaliveStep(c)
    PROVE  UnsentInv' /\ OneCopyInv'
<1>1. TypeOK
  BY DEF IInv, TypeInv
<1>2. CASE Write(c)
  <2>1. PICK f \in queue[c] : queue' = [queue EXCEPT ![c] = @ \ {f}] /\ requests' = requests \cup {<<c, f>>}
    BY <1>2 DEF Write
  <2>2. UNCHANGED <<pc, replies, executed>>
    BY <1>2 DEF Write, callVars
  <2>3. /\ \A d \in Conns : \A g : g \in queue'[d] <=> g \in queue[d] /\ ~(g = f /\ d = c)
        /\ \A d \in Conns : \A g : <<d, g>> \in requests' <=> <<d, g>> \in requests \/ (g = f /\ d = c)
    <3>1. queue \in [Conns -> SUBSET Frames]
      BY <1>1 DEF TypeOK
    <3>. QED
      BY <2>1, <3>1
  <2>4. UnsentInv'
    BY <2>1, <2>2, <2>3 DEF IInv, UnsentInv
  <2>5. OneCopyInv'
    <3> SUFFICES ASSUME NEW l \in Calls
                 PROVE  /\ executed[l] \in {0, 1}
                        /\ \A g, h \in Tries(l), d, e \in Conns :
                              /\ g \in queue'[d] => executed[l] = 0 /\ <<e, h>> \notin requests'
                              /\ <<d, g>> \in requests' => executed[l] = 0
                              /\ g \in queue'[d] /\ h \in queue'[e] => g = h /\ d = e
                              /\ <<d, g>> \in requests' /\ <<e, h>> \in requests' => g = h /\ d = e
      BY <2>2 DEF OneCopyInv
    <3>1. CASE f \in Tries(l)
      BY <2>1, <2>3, <3>1 DEF IInv, OneCopyInv
    <3>2. CASE f \notin Tries(l)
      BY <2>3, <3>2 DEF IInv, OneCopyInv
    <3>. QED
      BY <3>1, <3>2
  <2>. QED
    BY <2>4, <2>5
<1>3. CASE WriteLost(c) \/ ReadEnds(c) \/ Tick(c) \/ NoPong(c)
  <2>1. UNCHANGED <<pc, requests, replies, executed>> /\ \A d \in Conns : queue'[d] \subseteq queue[d]
    BY <1>1, <1>3 DEF WriteLost, ReadEnds, Tick, NoPong, serverVars, callVars, TypeOK
  <2>. QED
    BY <2>1, FramesStay
<1>4. CASE ReadReply(c)
  <2>1. UNCHANGED <<queue, requests, executed>> /\ replies' \subseteq replies
    BY <1>4 DEF ReadReply
  <2>2. \A k \in Calls : pc'[k] \in {pc[k], "ok"}
    BY <1>4 DEF ReadReply
  <2>. QED
    BY <2>1, <2>2, FramesStay
<1>5. CASE EnqueuePing(c)
  <2>1. UNCHANGED <<pc, requests, replies, executed>> /\ queue' = [queue EXCEPT ![c] = @ \cup {Ping}]
    BY <1>5 DEF EnqueuePing, serverVars, callVars
  <2>2. \A k \in Calls : \A f \in Tries(k), d \in Conns : f \in queue'[d] <=> f \in queue[d]
    BY <1>1, <2>1, FrameFacts DEF TypeOK
  <2>3. UnsentInv'
    BY <2>1, <2>2 DEF IInv, UnsentInv
  <2>4. OneCopyInv'
    BY <2>1, <2>2 DEF IInv, OneCopyInv
  <2>. QED
    BY <2>3, <2>4
<1>. QED
  BY <1>2, <1>3, <1>4, <1>5 DEF WriteLoop, ReadLoop, KeepaliveStep

\* The handler runs once for the frame it was given.
LEMMA EnvironmentKeepsFrames ==
    ASSUME IInv, Environment
    PROVE  UnsentInv' /\ OneCopyInv'
<1>1. TypeOK
  BY DEF IInv, TypeInv
<1>2. ASSUME NEW c \in Conns, Serve(c) PROVE UnsentInv' /\ OneCopyInv'
  <2>1. PICK f \in Frames :
           /\ <<c, f>> \in requests
           /\ requests' = requests \ {<<c, f>>}
           /\ executed' = [k \in Calls |-> executed[k] + IF f \in {<<k, 1>>, <<k, 2>>} THEN 1 ELSE 0]
           /\ replies' = IF peer[c] = "open" THEN replies \cup {<<c, f>>} ELSE replies
    BY <1>2 DEF Serve
  <2>2. UNCHANGED <<pc, queue>>
    BY <1>2 DEF Serve, connVars, callVars
  <2>3. \A k \in Calls : executed'[k] = IF f \in Tries(k) THEN executed[k] + 1 ELSE executed[k]
    BY <1>1, <2>1 DEF TypeOK, Tries
  <2>4. \A d \in Conns : \A g : <<d, g>> \in replies' => <<d, g>> \in replies \/ <<d, g>> = <<c, f>>
    BY <2>1
  <2>5. \A d \in Conns : \A g : <<d, g>> \in requests' <=> <<d, g>> \in requests /\ ~(d = c /\ g = f)
    BY <2>1
  <2>6. UnsentInv'
    BY <2>1, <2>2, <2>3, <2>4, <2>5 DEF IInv, UnsentInv
  <2>7. OneCopyInv'
    <3> SUFFICES ASSUME NEW l \in Calls
                 PROVE  /\ executed'[l] \in {0, 1}
                        /\ \A g, h \in Tries(l), d, e \in Conns :
                              /\ g \in queue[d] => executed'[l] = 0 /\ <<e, h>> \notin requests'
                              /\ <<d, g>> \in requests' => executed'[l] = 0
                              /\ g \in queue[d] /\ h \in queue[e] => g = h /\ d = e
                              /\ <<d, g>> \in requests' /\ <<e, h>> \in requests' => g = h /\ d = e
      BY <2>2 DEF OneCopyInv
    <3>1. CASE f \in Tries(l)
      BY <2>1, <2>3, <2>5, <3>1 DEF IInv, OneCopyInv
    <3>2. CASE f \notin Tries(l)
      BY <2>3, <2>5, <3>2 DEF IInv, OneCopyInv
    <3>. QED
      BY <3>1, <3>2
  <2>. QED
    BY <2>6, <2>7
<1>3. ASSUME ServerStops PROVE UnsentInv' /\ OneCopyInv'
  <2>1. requests' = {} /\ UNCHANGED <<queue, replies, executed, pc>>
    BY <1>3 DEF ServerStops, connVars, callVars
  <2>. QED
    <3>1. UnsentInv'
      BY <2>1 DEF IInv, UnsentInv
    <3>2. OneCopyInv'
      <4>1. OneCopyInv
        BY DEF IInv
      <4>2. \A d, g : <<d, g>> \notin requests'
        BY <2>1
      <4>3. queue' = queue /\ executed' = executed
        BY <2>1
      <4>. QED
        BY <4>1, <4>2, <4>3 DEF OneCopyInv
    <3>. QED
      BY <3>1, <3>2
<1>4. CASE ServerStarts \/ \E c \in Conns : Cut(c) \/ Stall(c)
  <2>1. UNCHANGED <<queue, requests, replies, executed, pc>>
    BY <1>4 DEF ServerStarts, Cut, Stall, connVars, callVars
  <2>. QED
    BY <2>1, FramesStay
<1>. QED
  BY <1>2, <1>3, <1>4 DEF Environment

-----------------------------------------------------------------------------
LEMMA NextIInv == IInv /\ [Next]_vars => IInv'
<1> SUFFICES ASSUME IInv, [Next]_vars PROVE IInv'
  OBVIOUS
<1>1. ASSUME NEW k \in Calls, CallStep(k) PROVE IInv'
  BY <1>1, CallKeepsTypes, CallKeepsRegistrations, CallKeepsFrames DEF IInv
<1>2. ASSUME NEW c \in Conns, WriteLoop(c) \/ ReadLoop(c) \/ KeepaliveStep(c) PROVE IInv'
  BY <1>2, TaskKeepsTypes, TaskKeepsRegistrations, TaskKeepsFrames DEF IInv
<1>3. CASE Environment
  BY <1>3, EnvironmentKeepsTypes, EnvironmentKeepsRegistrations, EnvironmentKeepsFrames DEF IInv
<1>4. CASE UNCHANGED vars
  <2>1. TypeInv'
    BY <1>4 DEF vars, IInv, TypeInv, TypeOK
  <2>2. DialedInv' /\ RegisteredInv' /\ NoOrphanPending'
    BY <1>4, RegistrationsStay DEF vars, IInv, DialedInv
  <2>3. UnsentInv' /\ OneCopyInv'
    BY <1>4, FramesStay DEF vars
  <2>. QED
    BY <2>1, <2>2, <2>3 DEF IInv
<1>. QED
  BY <1>1, <1>2, <1>3, <1>4 DEF Next

LEMMA InvariantHolds == Spec => []IInv
  BY InitIInv, NextIInv, PTL DEF Spec

\* Types: in particular no channel ever holds more than its capacity.
THEOREM TypeCorrect == Spec => []TypeOK
<1>1. IInv => TypeOK
  BY DEF IInv, TypeInv
<1>. QED
  BY <1>1, InvariantHolds, PTL

\* A call that waits is registered on its connection: its sender is never dropped, so
\* that the branch of call() for a dropped sender is never taken.
THEOREM WaitingHasSender == Spec => []WaitingIsRegistered
<1>1. IInv => WaitingIsRegistered
  BY DEF IInv, RegisteredInv, WaitingIsRegistered
<1>. QED
  BY <1>1, InvariantHolds, PTL

\* The handler runs at most once for a call, whatever retries, lost connections and
\* late answers there are.
THEOREM RunsAtMostOnce == Spec => []ExecutedAtMostOnce
<1>1. IInv => ExecutedAtMostOnce
  BY DEF IInv, OneCopyInv, ExecutedAtMostOnce
<1>. QED
  BY <1>1, InvariantHolds, PTL

\* A call that returns Closed may be repeated by its caller: the handler has not run.
THEOREM ClosedMeansNotRun == Spec => []ClosedNeverRuns
<1>1. IInv => ClosedNeverRuns
  BY DEF IInv, UnsentInv, ClosedNeverRuns
<1>. QED
  BY <1>1, InvariantHolds, PTL

\* The maps of pending calls hold nothing but calls and pings under way.
THEOREM NothingIsLeftPending == Spec => []NoOrphanPending
<1>1. IInv => NoOrphanPending
  BY DEF IInv
<1>. QED
  BY <1>1, InvariantHolds, PTL
=============================================================================
