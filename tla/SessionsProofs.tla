---------------------------- MODULE SessionsProofs ----------------------------
(***************************************************************************)
(* Theorems about RefreshTokens and Sessions for all sets of requests,     *)
(* tokens, families, logins and users, any TTL, and all failures.          *)
(***************************************************************************)
EXTENDS Sessions, FiniteSetTheorems, TLAPS

(***************************************************************************)
(* The store of refresh tokens, under the requests of RefreshTokens.       *)
(***************************************************************************)
\* Whatever the store and its requests hold was stored once.
CreatedInv ==
    /\ \A t \in Tokens : token[t] # "none" \/ accepted[t] > 0 => t \in created
    /\ \A f \in Families : members[f] \subseteq created
    /\ stored \subseteq created /\ revoked \subseteq created
    /\ \A w \in Workers :
          /\ op[w].cmd \in {"sadd", "expire", "mark"} => op[w].t \in created
          /\ op[w].cmd = "del" => op[w].membros \subseteq created

\* What a revocation has deleted so far stays unusable.
DeletedInv ==
    \A w \in Workers : op[w].cmd = "del" =>
        \A t \in op[w].membros \ op[w].todo : token[t] # "fresh"

\* A token whose rotation was accepted is never found fresh again.
UsedIsNeverFresh == \A t \in Tokens : accepted[t] > 0 => token[t] # "fresh"

\* What the store and the revocations rest on.
StoreInv == TypeOK /\ CreatedInv /\ DeletedInv /\ UsedIsNeverFresh /\ RevokedIsUnusable

-----------------------------------------------------------------------------
\* What the command of a request says of its data.
LEMMA OpFacts ==
    ASSUME TypeOK, NEW w \in Workers
    PROVE  /\ op[w] = Idle <=> op[w].cmd = "idle"
           /\ op[w].cmd \in {"sadd", "expire", "mark"} => op[w].t \in Tokens
           /\ op[w].cmd = "smembers" => op[w].f \in Families
           /\ op[w].cmd = "del" => /\ op[w].f \in Families
                                   /\ op[w].membros \in SUBSET Tokens /\ op[w].todo \in SUBSET Tokens
                                   /\ op[w] = [cmd |-> "del", f |-> op[w].f, membros |-> op[w].membros,
                                               todo |-> op[w].todo]
<1>1. op[w] \in Op
  BY DEF TypeOK
<1>. QED
  BY <1>1 DEF Op, Idle

LEMMA InitStoreInv == Init => StoreInv
<1> SUFFICES ASSUME Init PROVE StoreInv
  OBVIOUS
<1>1. TypeOK
  BY RefreshAssumption DEF Init, TypeOK, Op
<1>2. CreatedInv /\ DeletedInv /\ UsedIsNeverFresh /\ RevokedIsUnusable
  BY DEF Init, CreatedInv, DeletedInv, UsedIsNeverFresh, RevokedIsUnusable, Idle
<1>. QED
  BY <1>1, <1>2 DEF StoreInv

\* A request that only goes on to its next command.
LEMMA GoesOn ==
    ASSUME StoreInv, NEW w \in Workers, NEW o \in Op, Goto(w, o),
           UNCHANGED <<now, tokenVars, familyVars, created, accepted, revoked>>,
           stored' = stored, faults' \in 0 .. MaxFaults,
           o.cmd \in {"sadd", "expire", "mark"} => o.t \in created,
           o.cmd = "del" => o.membros \subseteq created /\ \A t \in o.membros \ o.todo : token[t] # "fresh"
    PROVE  StoreInv'
<1>1. TypeOK'
  BY DEF StoreInv, TypeOK, Goto, tokenVars, familyVars
<1>2. op' = [op EXCEPT ![w] = o] /\ op \in [Workers -> Op]
  BY DEF Goto, StoreInv, TypeOK
<1>3. CreatedInv'
  BY <1>2 DEF StoreInv, CreatedInv, tokenVars, familyVars
<1>4. DeletedInv'
  BY <1>2 DEF StoreInv, DeletedInv, tokenVars
<1>5. UsedIsNeverFresh' /\ RevokedIsUnusable'
  BY DEF StoreInv, UsedIsNeverFresh, RevokedIsUnusable, tokenVars
<1>. QED
  BY <1>1, <1>3, <1>4, <1>5 DEF StoreInv

-----------------------------------------------------------------------------
\* armazenar stores a token that nothing was known of.
LEMMA StoreKeepsInv ==
    ASSUME StoreInv, NEW w \in Workers, NEW t \in Tokens, Store(w, t)
    PROVE  StoreInv'
<1> DEFINE o == [cmd |-> "sadd", t |-> t]
<1>1. TypeOK
  BY DEF StoreInv
<1>2. /\ t \notin created /\ created' = created \cup {t}
      /\ token' = [token EXCEPT ![t] = "fresh"] /\ expires' = [expires EXCEPT ![t] = now + Ttl]
      /\ op' = [op EXCEPT ![w] = o]
      /\ UNCHANGED <<now, members, famExpires, missed, stored, accepted, revoked, faults>>
  BY DEF Store, Goto, familyVars
<1>3. o \in Op /\ now + Ttl \in Nat
  BY <1>1, RefreshAssumption DEF Op, TypeOK
<1>4. TypeOK'
  <2>. HIDE DEF o
  <2>. QED
    BY <1>1, <1>2, <1>3 DEF TypeOK
<1>5. CreatedInv'
  BY <1>1, <1>2 DEF StoreInv, CreatedInv, TypeOK
<1>6. DeletedInv'
  <2> SUFFICES ASSUME NEW v \in Workers, op'[v].cmd = "del", NEW u \in op'[v].membros \ op'[v].todo
               PROVE  token'[u] # "fresh"
    BY DEF DeletedInv
  <2>1. op'[v] = op[v]
    BY <1>1, <1>2 DEF TypeOK
  <2>2. u \in created /\ token[u] # "fresh"
    BY <2>1 DEF StoreInv, CreatedInv, DeletedInv
  <2>. QED
    BY <1>1, <1>2, <2>2 DEF TypeOK
<1>7. UsedIsNeverFresh' /\ RevokedIsUnusable'
  BY <1>1, <1>2 DEF StoreInv, CreatedInv, UsedIsNeverFresh, RevokedIsUnusable, TypeOK
<1>. QED
  BY <1>4, <1>5, <1>6, <1>7 DEF StoreInv

LEMMA IndexKeepsInv ==
    ASSUME StoreInv, NEW w \in Workers, Index(w) \/ RenewFamily(w)
    PROVE  StoreInv'
<1>1. TypeOK /\ op[w].t \in Tokens /\ op[w].t \in created
  BY OpFacts DEF StoreInv, CreatedInv, Index, RenewFamily
<1> DEFINE t == op[w].t
           f == family_id[t]
<1>2. f \in Families /\ Idle \in Op /\ [cmd |-> "expire", t |-> t] \in Op
  BY <1>1, RefreshAssumption DEF Op
<1>3. UNCHANGED <<now, token, expires, missed, created, accepted, revoked, faults>>
  BY DEF Index, RenewFamily, tokenVars, history
<1>4. PICK o \in {Idle, [cmd |-> "expire", t |-> t]} : op' = [op EXCEPT ![w] = o]
  BY DEF Index, RenewFamily, Goto
<1>5. /\ members' \in [Families -> SUBSET Tokens] /\ famExpires' \in [Families -> Nat]
      /\ \A g \in Families : members[g] \subseteq members'[g] /\ members'[g] \subseteq members[g] \cup {t}
      /\ \A g \in Families : members'[g] = {} => famExpires'[g] = 0
      /\ stored' \subseteq stored \cup {t}
  <2>1. CASE Index(w)
    BY <1>1, <1>2, <2>1 DEF Index, TypeOK, history
  <2>2. CASE RenewFamily(w)
    <3>1. famExpires' = [famExpires EXCEPT ![f] = IF members[f] # {} THEN now + Ttl ELSE @]
      BY <2>2 DEF RenewFamily
    <3>2. now + Ttl \in Nat /\ members' = members /\ stored' = stored \cup {t}
      BY <1>1, <2>2, RefreshAssumption DEF RenewFamily, TypeOK
    <3>. QED
      BY <1>1, <1>2, <3>1, <3>2 DEF TypeOK
  <2>. QED
    BY <2>1, <2>2
<1>. HIDE DEF f
<1>6. TypeOK'
  BY <1>1, <1>2, <1>3, <1>4, <1>5 DEF TypeOK
<1>7. CreatedInv'
  BY <1>1, <1>3, <1>4, <1>5 DEF StoreInv, CreatedInv, TypeOK, Idle
<1>8. DeletedInv'
  BY <1>1, <1>3, <1>4 DEF StoreInv, DeletedInv, TypeOK, Idle
<1>9. UsedIsNeverFresh' /\ RevokedIsUnusable'
  BY <1>3 DEF StoreInv, UsedIsNeverFresh, RevokedIsUnusable
<1>. QED
  BY <1>6, <1>7, <1>8, <1>9 DEF StoreInv

LEMMA GetKeepsInv ==
    ASSUME StoreInv, NEW w \in Workers, NEW t \in Tokens, Get(w, t)
    PROVE  StoreInv'
<1>1. TypeOK /\ t \in created
  BY DEF StoreInv, CreatedInv, Get
<1>2. [cmd |-> "smembers", f |-> family_id[t]] \in Op /\ [cmd |-> "mark", t |-> t] \in Op
  BY RefreshAssumption DEF Op
<1>3. UNCHANGED <<now, tokenVars, familyVars, created, accepted, revoked, stored, faults>>
  BY DEF Get, history
<1>4. faults' \in 0 .. MaxFaults
  BY <1>1, <1>3 DEF TypeOK
<1>5. CASE token[t] = "rotated"
  BY <1>2, <1>3, <1>4, <1>5, GoesOn DEF Get
<1>6. CASE token[t] # "rotated"
  BY <1>1, <1>2, <1>3, <1>4, <1>6, GoesOn DEF Get
<1>. QED
  BY <1>5, <1>6

\* A record written back is written as rotated, whatever became of the token.
LEMMA MarkKeepsInv ==
    ASSUME StoreInv, NEW w \in Workers, Mark(w)
    PROVE  StoreInv'
<1>1. TypeOK /\ op[w].t \in Tokens /\ op[w].t \in created /\ Idle \in Op
  BY OpFacts DEF StoreInv, CreatedInv, Mark, Op
<1> DEFINE t == op[w].t
<1>2. /\ token' = [token EXCEPT ![t] = "rotated"]
      /\ expires' = [expires EXCEPT ![t] = IF token[t] = "none" THEN 0 ELSE @]
      /\ op' = [op EXCEPT ![w] = Idle]
      /\ UNCHANGED <<now, members, famExpires, missed, created, stored, revoked>>
  BY DEF Mark, Goto, familyVars
<1>3. accepted' \in [Tokens -> Nat] /\ faults' \in 0 .. MaxFaults /\ \A u \in Tokens \ {t} : accepted'[u] = accepted[u]
  <2>1. CASE accepted' = [accepted EXCEPT ![t] = @ + 1] /\ faults' = faults
    BY <1>1, <2>1 DEF TypeOK
  <2>2. CASE accepted' = accepted /\ Fault
    BY <1>1, <2>2, RefreshAssumption DEF TypeOK, Fault
  <2>. QED
    BY <2>1, <2>2 DEF Mark
<1>. HIDE DEF t
<1>4. t \in Tokens /\ t \in created
  BY <1>1 DEF t
<1>5. TypeOK'
  BY <1>1, <1>2, <1>3, <1>4 DEF TypeOK
<1>6. CreatedInv'
  BY <1>1, <1>2, <1>3, <1>4 DEF StoreInv, CreatedInv, TypeOK, Idle
<1>7. DeletedInv'
  BY <1>1, <1>2, <1>4 DEF StoreInv, DeletedInv, TypeOK, Idle
<1>8. UsedIsNeverFresh' /\ RevokedIsUnusable'
  BY <1>1, <1>2, <1>3, <1>4 DEF StoreInv, UsedIsNeverFresh, RevokedIsUnusable, TypeOK
<1>. QED
  BY <1>5, <1>6, <1>7, <1>8 DEF StoreInv

\* DEL of one token makes none usable.
LEMMA DeletionKeepsInv ==
    ASSUME StoreInv, NEW w \in Workers, NEW t \in Tokens,
           \/ RevokeToken(w, t)
           \/ /\ op[w].cmd = "del" /\ t \in op[w].todo
              /\ token' = [token EXCEPT ![t] = "none"] /\ expires' = [expires EXCEPT ![t] = 0]
              /\ Goto(w, [op[w] EXCEPT !.todo = @ \ {t}])
              /\ UNCHANGED <<now, familyVars, history, faults>>
    PROVE  StoreInv'
<1>1. TypeOK
  BY DEF StoreInv
<1>2. /\ token' = [token EXCEPT ![t] = "none"] /\ expires' = [expires EXCEPT ![t] = 0]
      /\ UNCHANGED <<now, members, famExpires, missed, created, stored, accepted, faults>>
      /\ revoked \subseteq revoked' /\ revoked' \subseteq revoked \cup {t} /\ revoked' \subseteq created
  BY DEF RevokeToken, familyVars, history, StoreInv, CreatedInv
<1>3. /\ op' \in [Workers -> Op]
      /\ \A v \in Workers :
            \/ op'[v] = op[v]
            \/ /\ op'[v].cmd = "del" /\ op[v].cmd = "del" /\ op'[v].membros = op[v].membros
               /\ op'[v].todo = op[v].todo \ {t}
  <2>1. CASE RevokeToken(w, t)
    BY <1>1, <2>1 DEF RevokeToken, TypeOK
  <2>2. CASE op[w].cmd = "del" /\ Goto(w, [op[w] EXCEPT !.todo = @ \ {t}])
    <3> DEFINE o == [op[w] EXCEPT !.todo = @ \ {t}]
    <3>1. /\ o \in Op /\ o.cmd = "del" /\ o.membros = op[w].membros /\ o.todo = op[w].todo \ {t}
      <4>1. /\ op[w] = [cmd |-> "del", f |-> op[w].f, membros |-> op[w].membros, todo |-> op[w].todo]
            /\ op[w].f \in Families /\ op[w].membros \in SUBSET Tokens /\ op[w].todo \in SUBSET Tokens
        BY <1>1, <2>2, OpFacts
      <4>2. o = [cmd |-> "del", f |-> op[w].f, membros |-> op[w].membros, todo |-> op[w].todo \ {t}]
        BY <4>1
      <4>. HIDE DEF o
      <4>. QED
        BY <4>1, <4>2 DEF Op
    <3>2. op' = [op EXCEPT ![w] = o]
      BY <2>2 DEF Goto
    <3>. HIDE DEF o
    <3>. QED
      BY <1>1, <2>2, <3>1, <3>2 DEF TypeOK
  <2>. QED
    BY <2>1, <2>2
<1>4. TypeOK'
  BY <1>1, <1>2, <1>3 DEF TypeOK
<1>5. CreatedInv'
  BY <1>1, <1>2, <1>3 DEF StoreInv, CreatedInv, TypeOK
<1>6. DeletedInv'
  BY <1>1, <1>2, <1>3 DEF StoreInv, DeletedInv, TypeOK
<1>7. UsedIsNeverFresh' /\ RevokedIsUnusable'
  BY <1>1, <1>2 DEF StoreInv, UsedIsNeverFresh, RevokedIsUnusable, TypeOK
<1>. QED
  BY <1>4, <1>5, <1>6, <1>7 DEF StoreInv

\* The set is gone, and every token it had listed was deleted before.
LEMMA DeleteFamilyKeepsInv ==
    ASSUME StoreInv, NEW w \in Workers, DeleteFamily(w)
    PROVE  StoreInv'
<1>1. /\ TypeOK /\ op[w].f \in Families /\ op[w].membros \in SUBSET Tokens /\ Idle \in Op
      /\ op[w].membros \subseteq created /\ \A t \in op[w].membros : token[t] # "fresh"
  BY OpFacts DEF StoreInv, CreatedInv, DeletedInv, DeleteFamily, Op
<1>2. /\ members' = [members EXCEPT ![op[w].f] = {}] /\ famExpires' = [famExpires EXCEPT ![op[w].f] = 0]
      /\ revoked' = revoked \cup op[w].membros
      /\ missed' = missed \cup (members[op[w].f] \ op[w].membros)
      /\ op' = [op EXCEPT ![w] = Idle]
      /\ UNCHANGED <<now, token, expires, created, stored, accepted, faults>>
  BY DEF DeleteFamily, Goto, tokenVars
<1>3. TypeOK'
  BY <1>1, <1>2 DEF TypeOK
<1>4. CreatedInv'
  BY <1>1, <1>2 DEF StoreInv, CreatedInv, TypeOK, Idle
<1>5. DeletedInv'
  BY <1>1, <1>2 DEF StoreInv, DeletedInv, TypeOK, Idle
<1>6. UsedIsNeverFresh' /\ RevokedIsUnusable'
  BY <1>1, <1>2 DEF StoreInv, UsedIsNeverFresh, RevokedIsUnusable, TypeOK
<1>. QED
  BY <1>3, <1>4, <1>5, <1>6 DEF StoreInv

\* Keys expire, which makes nothing usable.
LEMMA TickKeepsInv ==
    ASSUME StoreInv, Tick
    PROVE  StoreInv'
<1>1. /\ TypeOK /\ now' = now + 1 /\ now < MaxTime
      /\ UNCHANGED <<op, created, stored, accepted, revoked, faults>>
      /\ token' = [t \in Tokens |-> IF Gone(expires[t]) THEN "none" ELSE token[t]]
      /\ expires' = [t \in Tokens |-> IF Gone(expires[t]) THEN 0 ELSE expires[t]]
      /\ members' = [f \in Families |-> IF Gone(famExpires[f]) THEN {} ELSE members[f]]
      /\ famExpires' = [f \in Families |-> IF Gone(famExpires[f]) THEN 0 ELSE famExpires[f]]
      /\ missed' = missed \cup {t \in Tokens : Renewing(t) /\ Gone(famExpires[family_id[t]])}
  BY DEF StoreInv, Tick, history
<1>2. TypeOK'
  <2>1. now' \in 0 .. MaxTime
    BY <1>1, RefreshAssumption DEF TypeOK
  <2>2. /\ token' \in [Tokens -> {"none", "fresh", "rotated"}] /\ expires' \in [Tokens -> Nat]
        /\ \A t \in Tokens : token'[t] = "none" => expires'[t] = 0
    BY <1>1 DEF TypeOK
  <2>3. /\ members' \in [Families -> SUBSET Tokens] /\ famExpires' \in [Families -> Nat]
        /\ \A f \in Families : members'[f] = {} => famExpires'[f] = 0
    BY <1>1 DEF TypeOK
  <2>. QED
    BY <1>1, <2>1, <2>2, <2>3 DEF TypeOK
<1>3. CreatedInv'
  BY <1>1 DEF StoreInv, CreatedInv, TypeOK
<1>4. DeletedInv'
  <2>1. \A w \in Workers : op[w].cmd = "del" => op[w].membros \in SUBSET Tokens
    BY <1>1, OpFacts
  <2>. QED
    BY <1>1, <2>1 DEF StoreInv, DeletedInv
<1>5. UsedIsNeverFresh' /\ RevokedIsUnusable'
  BY <1>1 DEF StoreInv, UsedIsNeverFresh, RevokedIsUnusable, TypeOK
<1>. QED
  BY <1>2, <1>3, <1>4, <1>5 DEF StoreInv

\* A failure elsewhere only counts.
LEMMA FaultKeepsInv ==
    ASSUME StoreInv, Fault, UNCHANGED <<now, tokenVars, familyVars, op, history>>
    PROVE  StoreInv'
<1>1. TypeOK'
  BY RefreshAssumption DEF StoreInv, TypeOK, Fault, tokenVars, familyVars, history
<1>2. CreatedInv' /\ DeletedInv' /\ UsedIsNeverFresh' /\ RevokedIsUnusable'
  BY DEF StoreInv, CreatedInv, DeletedInv, UsedIsNeverFresh, RevokedIsUnusable, tokenVars, familyVars, history
<1>. QED
  BY <1>1, <1>2 DEF StoreInv

LEMMA RequestKeepsInv ==
    ASSUME StoreInv, NEW w \in Workers, Request(w) \/ Abandon(w)
    PROVE  StoreInv'
<1>1. TypeOK /\ faults \in 0 .. MaxFaults
  BY DEF StoreInv, TypeOK
<1>2. CASE \E t \in Tokens : Store(w, t) \/ Get(w, t) \/ RevokeToken(w, t)
  BY <1>2, StoreKeepsInv, GetKeepsInv, DeletionKeepsInv
<1>3. ASSUME NEW f \in Families, Revoke(w, f) PROVE StoreInv'
  <2>1. [cmd |-> "smembers", f |-> f] \in Op
    BY DEF Op
  <2>. QED
    BY <1>1, <1>3, <2>1, GoesOn DEF Revoke, history
<1>4. CASE Index(w) \/ RenewFamily(w)
  BY <1>4, IndexKeepsInv
<1>5. CASE Mark(w)
  BY <1>5, MarkKeepsInv
<1>6. CASE ListMembers(w)
  <2> DEFINE o == [cmd |-> "del", f |-> op[w].f, membros |-> members[op[w].f], todo |-> members[op[w].f]]
  <2>1. op[w].f \in Families
    BY <1>1, <1>6, OpFacts DEF ListMembers
  <2>2. o \in Op /\ o.membros \subseteq created
    BY <1>1, <2>1 DEF Op, TypeOK, StoreInv, CreatedInv
  <2>3. Goto(w, o) /\ UNCHANGED <<now, tokenVars, familyVars, created, accepted, revoked, stored, faults>>
    BY <1>6 DEF ListMembers, history
  <2>4. o.cmd = "del" /\ \A t \in o.membros \ o.todo : token[t] # "fresh"
    OBVIOUS
  <2>. HIDE DEF o
  <2>. QED
    BY <1>1, <2>2, <2>3, <2>4, GoesOn
<1>7. CASE DeleteToken(w)
  <2>1. op[w].todo \in SUBSET Tokens
    BY <1>1, <1>7, OpFacts DEF DeleteToken
  <2>. QED
    BY <1>7, <2>1, DeletionKeepsInv DEF DeleteToken
<1>8. CASE DeleteFamily(w)
  BY <1>8, DeleteFamilyKeepsInv
<1>9. CASE Abandon(w)
  <2>1. Idle \in Op /\ Idle.cmd = "idle"
    BY DEF Op, Idle
  <2>2. faults' \in 0 .. MaxFaults
    BY <1>1, <1>9, RefreshAssumption DEF Abandon, Fault
  <2>. QED
    BY <1>9, <2>1, <2>2, GoesOn DEF Abandon, history
<1>. QED
  BY <1>2, <1>3, <1>4, <1>5, <1>6, <1>7, <1>8, <1>9 DEF Request

LEMMA NextStoreInv == StoreInv /\ [Next]_vars => StoreInv'
<1> SUFFICES ASSUME StoreInv, [Next]_vars PROVE StoreInv'
  OBVIOUS
<1>1. CASE UNCHANGED vars
  BY <1>1 DEF vars, StoreInv, TypeOK, CreatedInv, DeletedInv, UsedIsNeverFresh, RevokedIsUnusable
<1>. QED
  BY <1>1, TickKeepsInv, RequestKeepsInv DEF Next

-----------------------------------------------------------------------------
(***************************************************************************)
(* How often a token can be used.                                          *)
(***************************************************************************)
\* The requests that found t fresh and are about to mark it.
Pending(t) == {w \in Workers : op[w].cmd = "mark" /\ op[w].t = t}

UseInv == \A t \in Tokens : accepted[t] + Cardinality(Pending(t)) <= Cardinality(Workers)

LEMMA PendingIsFinite ==
    ASSUME NEW t
    PROVE  /\ IsFiniteSet(Workers) /\ Cardinality(Workers) \in Nat
           /\ IsFiniteSet(Pending(t)) /\ Cardinality(Pending(t)) \in Nat
           /\ Cardinality(Pending(t)) <= Cardinality(Workers)
<1>1. IsFiniteSet(Workers) /\ Pending(t) \subseteq Workers
  BY RefreshAssumption DEF Pending
<1>. QED
  BY <1>1, FS_Subset, FS_CardinalityType

\* Fewer pending marks, and no new use, leave the bound alone.
LEMMA FewerPending ==
    ASSUME TypeOK, UseInv, NEW t \in Tokens, Pending(t)' \subseteq Pending(t), accepted'[t] = accepted[t]
    PROVE  accepted'[t] + Cardinality(Pending(t)') <= Cardinality(Workers)
<1>1. accepted[t] + Cardinality(Pending(t)) <= Cardinality(Workers) /\ accepted[t] \in Nat
  BY DEF UseInv, TypeOK
<1>2. Cardinality(Pending(t)') <= Cardinality(Pending(t)) /\ Cardinality(Pending(t)') \in Nat
  BY PendingIsFinite, FS_Subset, FS_CardinalityType
<1>. QED
  BY <1>1, <1>2, PendingIsFinite

\* A request that reads t while no rotation of it has been accepted.
LEMMA GetKeepsUses ==
    ASSUME StoreInv, UseInv, NEW w \in Workers, NEW u \in Tokens, Get(w, u)
    PROVE  UseInv'
<1> SUFFICES ASSUME NEW t \in Tokens PROVE accepted'[t] + Cardinality(Pending(t)') <= Cardinality(Workers)
  BY DEF UseInv
<1>1. TypeOK /\ accepted' = accepted
  BY DEF StoreInv, Get, history
<1>2. CASE t = u /\ token[u] = "fresh"
  <2>1. accepted[t] = 0
    BY <1>1, <1>2 DEF StoreInv, UsedIsNeverFresh, TypeOK
  <2>2. Cardinality(Pending(t)') \in Nat /\ Cardinality(Pending(t)') <= Cardinality(Workers)
    <3>1. Pending(t)' \subseteq Workers
      BY DEF Pending
    <3>. QED
      BY <3>1, PendingIsFinite, FS_Subset, FS_CardinalityType
  <2>. QED
    BY <1>1, <2>1, <2>2, PendingIsFinite
<1>3. CASE t # u \/ token[u] = "rotated"
  <2>1. Pending(t)' \subseteq Pending(t)
    BY <1>1, <1>3 DEF Pending, Get, Goto, TypeOK
  <2>. QED
    BY <1>1, <2>1, FewerPending
<1>. QED
  BY <1>1, <1>2, <1>3 DEF Get, TypeOK

\* A mark turns one pending use into at most one accepted.
LEMMA MarkKeepsUses ==
    ASSUME StoreInv, UseInv, NEW w \in Workers, Mark(w)
    PROVE  UseInv'
<1> SUFFICES ASSUME NEW t \in Tokens PROVE accepted'[t] + Cardinality(Pending(t)') <= Cardinality(Workers)
  BY DEF UseInv
<1>1. TypeOK /\ op[w].t \in Tokens /\ op' = [op EXCEPT ![w] = Idle] /\ op[w].cmd = "mark"
  BY OpFacts DEF StoreInv, Mark, Goto
<1>2. CASE t = op[w].t
  <2>1. w \in Pending(t) /\ Pending(t)' = Pending(t) \ {w}
    BY <1>1, <1>2 DEF Pending, Idle, TypeOK
  <2>2. Cardinality(Pending(t)') = Cardinality(Pending(t)) - 1
    BY <2>1, PendingIsFinite, FS_RemoveElement
  <2>3. accepted'[t] \in {accepted[t], accepted[t] + 1} /\ accepted[t] \in Nat
    BY <1>1, <1>2 DEF Mark, TypeOK
  <2>4. accepted[t] + Cardinality(Pending(t)) <= Cardinality(Workers)
    BY DEF UseInv
  <2>. QED
    BY <2>2, <2>3, <2>4, PendingIsFinite
<1>3. CASE t # op[w].t
  <2>1. Pending(t)' \subseteq Pending(t) /\ accepted'[t] = accepted[t]
    BY <1>1, <1>3 DEF Pending, Mark, Idle, TypeOK
  <2>. QED
    BY <1>1, <2>1, FewerPending
<1>. QED
  BY <1>2, <1>3

LEMMA NextUses ==
    ASSUME StoreInv, UseInv, [Next]_vars
    PROVE  UseInv'
<1>1. ASSUME UNCHANGED accepted, \A t \in Tokens : Pending(t)' \subseteq Pending(t)
      PROVE  UseInv'
  BY <1>1, FewerPending DEF UseInv, StoreInv
<1>2. ASSUME NEW w \in Workers, NEW o, op' = [op EXCEPT ![w] = o], o.cmd # "mark", UNCHANGED accepted
      PROVE  UseInv'
  BY <1>1, <1>2 DEF Pending, StoreInv, TypeOK
<1>3. CASE UNCHANGED vars \/ Tick
  BY <1>1, <1>3 DEF vars, Tick, history, Pending
<1>4. ASSUME NEW w \in Workers, Request(w) \/ Abandon(w)
      PROVE  UseInv'
  <2>1. ASSUME NEW t \in Tokens, Store(w, t) PROVE UseInv'
    <3> DEFINE o == [cmd |-> "sadd", t |-> t]
    <3>1. op' = [op EXCEPT ![w] = o] /\ accepted' = accepted /\ o.cmd # "mark"
      BY <2>1 DEF Store, Goto
    <3>. HIDE DEF o
    <3>. QED
      BY <1>2, <3>1
  <2>2. ASSUME NEW t \in Tokens, RevokeToken(w, t) PROVE UseInv'
    BY <1>1, <2>2 DEF RevokeToken, Pending
  <2>3. ASSUME NEW f \in Families, Revoke(w, f) PROVE UseInv'
    <3> DEFINE o == [cmd |-> "smembers", f |-> f]
    <3>1. op' = [op EXCEPT ![w] = o] /\ accepted' = accepted /\ o.cmd # "mark"
      BY <2>3 DEF Revoke, Goto, history
    <3>. HIDE DEF o
    <3>. QED
      BY <1>2, <3>1
  <2>4. CASE Index(w) \/ RenewFamily(w)
    BY <1>2, <2>4 DEF Index, RenewFamily, Goto, Idle, history
  <2>5. CASE ListMembers(w)
    <3> DEFINE o == [cmd |-> "del", f |-> op[w].f, membros |-> members[op[w].f], todo |-> members[op[w].f]]
    <3>1. op' = [op EXCEPT ![w] = o] /\ accepted' = accepted /\ o.cmd # "mark"
      BY <2>5 DEF ListMembers, Goto, history
    <3>. HIDE DEF o
    <3>. QED
      BY <1>2, <3>1
  <2>6. CASE DeleteToken(w)
    <3>1. PICK t \in op[w].todo : Goto(w, [op[w] EXCEPT !.todo = @ \ {t}])
      BY <2>6 DEF DeleteToken
    <3>2. [op[w] EXCEPT !.todo = @ \ {t}].cmd # "mark"
      <4>1. op[w] = [cmd |-> "del", f |-> op[w].f, membros |-> op[w].membros, todo |-> op[w].todo]
        BY <2>6, OpFacts DEF DeleteToken, StoreInv
      <4>. QED
        BY <4>1
    <3>. QED
      BY <1>2, <2>6, <3>1, <3>2 DEF DeleteToken, Goto, history
  <2>7. CASE DeleteFamily(w) \/ Abandon(w)
    BY <1>2, <2>7 DEF DeleteFamily, Abandon, Goto, Idle, history
  <2>. QED
    BY <1>4, <2>1, <2>2, <2>3, <2>4, <2>5, <2>6, <2>7, GetKeepsUses, MarkKeepsUses DEF Request
<1>. QED
  BY <1>3, <1>4 DEF Next

-----------------------------------------------------------------------------
(***************************************************************************)
(* Which tokens a revocation of their family finds.                        *)
(***************************************************************************)
Family(t) == family_id[t]

\* A usable token has its TTL.
LifeInv == \A t \in Tokens : token[t] = "fresh" => now < expires[t] /\ expires[t] <= now + Ttl

\* The set of a stored token outlives it.
IndexedInv ==
    \A t \in stored : token[t] = "fresh" =>
        t \in missed \/ (t \in members[Family(t)] /\ expires[t] <= famExpires[Family(t)])

\* So will that of the token a store is about to finish.
RenewInv ==
    \A w \in Workers : op[w].cmd = "expire" /\ token[op[w].t] = "fresh" =>
        op[w].t \in missed \cup members[Family(op[w].t)]

ReachInv == LifeInv /\ IndexedInv /\ RenewInv

\* A step that neither drops members, nor moves a TTL, nor starts an EXPIRE.
LEMMA ReachFrame ==
    ASSUME StoreInv, ReachInv, now' = now, stored' = stored, missed \subseteq missed',
           \A t \in Tokens : token'[t] = "fresh" => token[t] = "fresh" /\ expires'[t] = expires[t],
           \A f \in Families : members[f] \subseteq members'[f],
           UNCHANGED famExpires,
           \A w \in Workers : op'[w].cmd = "expire" => op'[w] = op[w]
    PROVE  ReachInv'
<1>1. /\ stored \subseteq Tokens /\ \A t \in Tokens : Family(t) \in Families
      /\ \A w \in Workers : op[w].cmd = "expire" => op[w].t \in Tokens
  BY OpFacts, RefreshAssumption DEF StoreInv, TypeOK, Family
<1>3. LifeInv'
  BY DEF ReachInv, LifeInv
<1>4. IndexedInv'
  BY <1>1 DEF ReachInv, IndexedInv, Family
<1>5. RenewInv'
  BY <1>1 DEF ReachInv, RenewInv, Family
<1>. QED
  BY <1>3, <1>4, <1>5 DEF ReachInv

LEMMA StoreKeepsReach ==
    ASSUME StoreInv, ReachInv, NEW w \in Workers, NEW t \in Tokens, Store(w, t)
    PROVE  ReachInv'
<1>1. /\ TypeOK /\ t \notin stored /\ \A v \in Workers : op[v].cmd = "expire" => op[v].t \in Tokens \ {t}
      /\ stored \subseteq Tokens
  BY OpFacts DEF StoreInv, CreatedInv, Store, TypeOK
<1>2. /\ token' = [token EXCEPT ![t] = "fresh"] /\ expires' = [expires EXCEPT ![t] = now + Ttl]
      /\ op' = [op EXCEPT ![w] = [cmd |-> "sadd", t |-> t]]
      /\ UNCHANGED <<now, members, famExpires, missed, stored>>
  BY DEF Store, Goto, familyVars
<1>3. LifeInv'
  BY <1>1, <1>2, RefreshAssumption DEF ReachInv, LifeInv, TypeOK
<1>4. IndexedInv'
  BY <1>1, <1>2 DEF ReachInv, IndexedInv, Family, TypeOK
<1>5. RenewInv'
  BY <1>1, <1>2 DEF ReachInv, RenewInv, Family, TypeOK
<1>. QED
  BY <1>3, <1>4, <1>5 DEF ReachInv

LEMMA IndexKeepsReach ==
    ASSUME StoreInv, ReachInv, NEW w \in Workers, Index(w)
    PROVE  ReachInv'
<1> DEFINE t == op[w].t
<1>1. TypeOK /\ t \in Tokens /\ family_id[t] \in Families
  BY OpFacts, RefreshAssumption DEF StoreInv, Index
<1>2. /\ members' = [members EXCEPT ![family_id[t]] = @ \cup {t}]
      /\ op' = [op EXCEPT ![w] = [cmd |-> "expire", t |-> t]]
      /\ UNCHANGED <<now, token, expires, famExpires, missed, stored>>
  BY DEF Index, Goto, tokenVars, history
<1>3. /\ \A f \in Families : members[f] \subseteq members'[f]
      /\ t \in members'[family_id[t]]
  BY <1>1, <1>2 DEF TypeOK
<1>. HIDE DEF t
<1>4. /\ stored \subseteq Tokens /\ \A u \in Tokens : Family(u) \in Families
      /\ \A v \in Workers : op[v].cmd = "expire" => op[v].t \in Tokens
  BY <1>1, OpFacts, RefreshAssumption DEF TypeOK, Family
<1>5. LifeInv'
  BY <1>2 DEF ReachInv, LifeInv
<1>6. IndexedInv'
  BY <1>2, <1>3, <1>4 DEF ReachInv, IndexedInv, Family
<1>7. RenewInv'
  <2> SUFFICES ASSUME NEW v \in Workers, op'[v].cmd = "expire", token'[op'[v].t] = "fresh"
               PROVE  op'[v].t \in missed' \cup members'[Family(op'[v].t)]
    BY DEF RenewInv, Family
  <2>1. CASE v = w
    BY <1>1, <1>2, <1>3, <2>1 DEF Family, TypeOK
  <2>2. CASE v # w
    BY <1>1, <1>2, <1>3, <1>4, <2>2 DEF ReachInv, RenewInv, Family, TypeOK
  <2>. QED
    BY <2>1, <2>2
<1>. QED
  BY <1>5, <1>6, <1>7 DEF ReachInv

\* EXPIRE counts from now: no token of the family lives longer.
LEMMA RenewKeepsReach ==
    ASSUME StoreInv, ReachInv, NEW w \in Workers, RenewFamily(w)
    PROVE  ReachInv'
<1> DEFINE t == op[w].t
           f == family_id[t]
<1>1. TypeOK /\ t \in Tokens /\ f \in Families /\ now \in Nat
  BY OpFacts, RefreshAssumption DEF StoreInv, TypeOK, RenewFamily
<1>2. /\ famExpires' = [famExpires EXCEPT ![f] = IF members[f] # {} THEN now + Ttl ELSE @]
      /\ stored' = stored \cup {t} /\ op' = [op EXCEPT ![w] = Idle]
      /\ UNCHANGED <<now, token, expires, members, missed>>
  BY DEF RenewFamily, Goto, tokenVars
<1>3. token[t] = "fresh" => t \in missed \cup members[f]
  BY DEF ReachInv, RenewInv, RenewFamily, Family
<1>. HIDE DEF t, f
<1>4. /\ stored \subseteq Tokens /\ \A u \in Tokens : Family(u) \in Families
      /\ \A v \in Workers : op[v].cmd = "expire" => op[v].t \in Tokens
  BY <1>1, OpFacts, RefreshAssumption DEF TypeOK, Family
<1>5. LifeInv'
  BY <1>2 DEF ReachInv, LifeInv
<1>6. IndexedInv'
  <2> SUFFICES ASSUME NEW u \in stored \cup {t}, token[u] = "fresh", u \notin missed
               PROVE  u \in members[Family(u)] /\ expires[u] <= famExpires'[Family(u)]
    BY <1>2 DEF IndexedInv, Family
  <2>1. u \in Tokens /\ Family(u) \in Families /\ expires[u] <= now + Ttl
    BY <1>1, <1>4 DEF ReachInv, LifeInv
  <2>2. u \in members[Family(u)]
    <3>1. f = Family(t)
      BY DEF Family, f
    <3>. QED
      BY <1>3, <3>1 DEF ReachInv, IndexedInv
  <2>3. CASE Family(u) = f
    BY <1>1, <1>2, <2>1, <2>2, <2>3 DEF TypeOK
  <2>4. CASE Family(u) # f
    <3>1. u # t
      BY <2>4 DEF Family, f
    <3>. QED
      BY <1>1, <1>2, <2>1, <2>2, <2>4, <3>1 DEF ReachInv, IndexedInv, TypeOK
  <2>. QED
    BY <2>2, <2>3, <2>4
<1>7. RenewInv'
  BY <1>1, <1>2, <1>4 DEF ReachInv, RenewInv, Family, Idle, TypeOK
<1>. QED
  BY <1>5, <1>6, <1>7 DEF ReachInv

\* What the deleted set had, but the revocation had not listed, is missed.
LEMMA DeleteFamilyKeepsReach ==
    ASSUME StoreInv, ReachInv, NEW w \in Workers, DeleteFamily(w)
    PROVE  ReachInv'
<1> DEFINE f == op[w].f
           membros == op[w].membros
<1>1. /\ TypeOK /\ f \in Families /\ \A u \in membros : token[u] # "fresh"
  BY OpFacts DEF StoreInv, DeletedInv, DeleteFamily
<1>2. /\ members' = [members EXCEPT ![f] = {}] /\ famExpires' = [famExpires EXCEPT ![f] = 0]
      /\ missed' = missed \cup (members[f] \ membros)
      /\ op' = [op EXCEPT ![w] = Idle]
      /\ UNCHANGED <<now, token, expires, stored>>
  BY DEF DeleteFamily, Goto, tokenVars
<1>. HIDE DEF f, membros
<1>3. /\ stored \subseteq Tokens /\ \A u \in Tokens : Family(u) \in Families
      /\ \A v \in Workers : op[v].cmd = "expire" => op[v].t \in Tokens
  BY <1>1, OpFacts, RefreshAssumption DEF TypeOK, Family
<1>4. \A u \in Tokens : /\ token[u] = "fresh" /\ u \in missed \cup members[Family(u)]
                        => u \in missed' \/ (Family(u) # f /\ u \in members'[Family(u)])
  BY <1>1, <1>2, <1>3 DEF TypeOK
<1>5. LifeInv'
  BY <1>2 DEF ReachInv, LifeInv
<1>6. IndexedInv'
  <2> SUFFICES ASSUME NEW u \in stored, token[u] = "fresh", u \notin missed'
               PROVE  u \in members'[Family(u)] /\ expires[u] <= famExpires'[Family(u)]
    BY <1>2 DEF IndexedInv, Family
  <2>1. u \in Tokens /\ u \in members[Family(u)] /\ expires[u] <= famExpires[Family(u)]
    BY <1>2, <1>3 DEF ReachInv, IndexedInv
  <2>2. Family(u) # f /\ u \in members'[Family(u)]
    BY <1>4, <2>1
  <2>. QED
    BY <1>1, <1>2, <1>3, <2>1, <2>2 DEF TypeOK
<1>7. RenewInv'
  <2> SUFFICES ASSUME NEW v \in Workers, op'[v].cmd = "expire", token'[op'[v].t] = "fresh"
               PROVE  op'[v].t \in missed' \cup members'[Family(op'[v].t)]
    BY DEF RenewInv, Family
  <2>1. op'[v] = op[v]
    BY <1>1, <1>2 DEF Idle, TypeOK
  <2>2. op[v].t \in Tokens /\ op[v].t \in missed \cup members[Family(op[v].t)] /\ token[op[v].t] = "fresh"
    BY <1>2, <1>3, <2>1 DEF ReachInv, RenewInv
  <2>. QED
    BY <1>4, <2>1, <2>2
<1>. QED
  BY <1>5, <1>6, <1>7 DEF ReachInv

\* A set expires after the stored tokens it lists.
LEMMA TickKeepsReach ==
    ASSUME StoreInv, ReachInv, Tick
    PROVE  ReachInv'
<1>1. /\ TypeOK /\ now' = now + 1 /\ now \in Nat /\ UNCHANGED <<op, stored>>
      /\ token' = [t \in Tokens |-> IF Gone(expires[t]) THEN "none" ELSE token[t]]
      /\ expires' = [t \in Tokens |-> IF Gone(expires[t]) THEN 0 ELSE expires[t]]
      /\ members' = [f \in Families |-> IF Gone(famExpires[f]) THEN {} ELSE members[f]]
      /\ famExpires' = [f \in Families |-> IF Gone(famExpires[f]) THEN 0 ELSE famExpires[f]]
      /\ missed' = missed \cup {t \in Tokens : Renewing(t) /\ Gone(famExpires[family_id[t]])}
  BY RefreshAssumption DEF StoreInv, TypeOK, Tick, history
<1>2. /\ stored \subseteq Tokens /\ \A u \in Tokens : Family(u) \in Families
      /\ \A v \in Workers : op[v].cmd = "expire" => op[v].t \in Tokens
  BY <1>1, OpFacts, RefreshAssumption DEF TypeOK, Family
<1>3. \A u \in Tokens : token'[u] = "fresh" =>
          token[u] = "fresh" /\ ~Gone(expires[u]) /\ expires'[u] = expires[u] /\ now + 1 < expires[u]
  <2> SUFFICES ASSUME NEW u \in Tokens, token'[u] = "fresh"
               PROVE  token[u] = "fresh" /\ ~Gone(expires[u]) /\ expires'[u] = expires[u] /\ now + 1 < expires[u]
    OBVIOUS
  <2>1. token[u] = "fresh" /\ ~Gone(expires[u]) /\ expires'[u] = expires[u]
    BY <1>1
  <2>2. expires[u] \in Nat /\ now < expires[u]
    BY <1>1, <2>1 DEF ReachInv, LifeInv, TypeOK
  <2>. QED
    BY <1>1, <2>1, <2>2 DEF Gone
<1>4. LifeInv'
  <2> SUFFICES ASSUME NEW u \in Tokens, token'[u] = "fresh"
               PROVE  now' < expires'[u] /\ expires'[u] <= now' + Ttl
    BY DEF LifeInv
  <2>1. expires[u] \in Nat /\ expires[u] <= now + Ttl /\ Ttl \in Nat
    BY <1>1, <1>3, RefreshAssumption DEF ReachInv, LifeInv, TypeOK
  <2>. QED
    BY <1>1, <1>3, <2>1
<1>5. IndexedInv'
  <2> SUFFICES ASSUME NEW u \in stored, token'[u] = "fresh", u \notin missed'
               PROVE  u \in members'[Family(u)] /\ expires'[u] <= famExpires'[Family(u)]
    BY <1>1 DEF IndexedInv, Family
  <2>1. /\ u \in Tokens /\ u \notin missed /\ token[u] = "fresh" /\ Family(u) \in Families
        /\ expires'[u] = expires[u] /\ now + 1 < expires[u]
    BY <1>1, <1>2, <1>3
  <2>2. u \in members[Family(u)] /\ expires[u] <= famExpires[Family(u)]
    BY <2>1 DEF ReachInv, IndexedInv
  <2>3. expires[u] \in Nat /\ famExpires[Family(u)] \in Nat
    BY <1>1, <2>1 DEF TypeOK
  <2>4. ~Gone(famExpires[Family(u)])
    BY <1>1, <2>1, <2>2, <2>3 DEF Gone
  <2>. QED
    BY <1>1, <2>1, <2>2, <2>4
<1>6. RenewInv'
  <2> SUFFICES ASSUME NEW v \in Workers, op[v].cmd = "expire", token'[op[v].t] = "fresh"
               PROVE  op[v].t \in missed' \cup members'[Family(op[v].t)]
    BY <1>1 DEF RenewInv, Family
  <2> DEFINE t == op[v].t
  <2>1. t \in Tokens /\ Family(t) \in Families /\ token[t] = "fresh" /\ t \in missed \cup members[Family(t)]
    BY <1>2, <1>3 DEF ReachInv, RenewInv
  <2>2. CASE ~Gone(famExpires[Family(t)])
    BY <1>1, <2>1, <2>2
  <2>3. CASE Gone(famExpires[Family(t)])
    <3>1. op[v] \in Op /\ op[v] = [cmd |-> "expire", t |-> t]
      BY <1>1 DEF TypeOK, Op, Idle
    <3>2. Renewing(t)
      BY <3>1 DEF Renewing
    <3>. QED
      BY <1>1, <2>1, <2>3, <3>2 DEF Family
  <2>. QED
    BY <2>2, <2>3
<1>. QED
  BY <1>4, <1>5, <1>6 DEF ReachInv

LEMMA NextReach ==
    ASSUME StoreInv, ReachInv, [Next]_vars
    PROVE  ReachInv'
<1>0. TypeOK
  BY DEF StoreInv
<1>1. CASE UNCHANGED vars
  BY <1>1, ReachFrame DEF vars
<1>2. CASE Tick
  BY <1>2, TickKeepsReach
<1>3. ASSUME NEW w \in Workers, Request(w) \/ Abandon(w)
      PROVE  ReachInv'
  <2>1. ASSUME NEW o, o.cmd # "expire", op' = [op EXCEPT ![w] = o],
               UNCHANGED <<now, familyVars, stored>>,
               \A t \in Tokens : token'[t] = "fresh" => token[t] = "fresh" /\ expires'[t] = expires[t]
        PROVE  ReachInv'
    BY <1>0, <2>1, ReachFrame DEF familyVars, TypeOK
  <2>2. ASSUME NEW t \in Tokens, Get(w, t) PROVE ReachInv'
    <3>1. PICK o \in {[cmd |-> "smembers", f |-> family_id[t]], [cmd |-> "mark", t |-> t]} :
             op' = [op EXCEPT ![w] = o]
      BY <2>2 DEF Get, Goto
    <3>2. o.cmd # "expire" /\ UNCHANGED <<now, familyVars, stored, token, expires>>
      BY <2>2 DEF Get, tokenVars, history
    <3>. QED
      BY <2>1, <3>1, <3>2
  <2>3. ASSUME NEW t \in Tokens, RevokeToken(w, t) PROVE ReachInv'
    <3>1. \A u \in Tokens : token'[u] = "fresh" => token[u] = "fresh" /\ expires'[u] = expires[u]
      BY <1>0, <2>3 DEF RevokeToken, TypeOK
    <3>. QED
      BY <2>3, <3>1, ReachFrame DEF RevokeToken, familyVars
  <2>4. ASSUME NEW f \in Families, Revoke(w, f) PROVE ReachInv'
    BY <2>1, <2>4 DEF Revoke, Goto, tokenVars, history
  <2>5. CASE Mark(w)
    <3>1. op[w].t \in Tokens
      BY <1>0, <2>5, OpFacts DEF Mark
    <3>2. \A u \in Tokens : token'[u] = "fresh" => token[u] = "fresh" /\ expires'[u] = expires[u]
      BY <1>0, <2>5, <3>1 DEF Mark, TypeOK
    <3>. QED
      BY <2>1, <2>5, <3>2 DEF Mark, Goto, Idle
  <2>6. CASE ListMembers(w)
    BY <2>1, <2>6 DEF ListMembers, Goto, tokenVars, history
  <2>7. CASE DeleteToken(w)
    <3>1. PICK t \in op[w].todo : /\ token' = [token EXCEPT ![t] = "none"]
                                  /\ expires' = [expires EXCEPT ![t] = 0]
                                  /\ Goto(w, [op[w] EXCEPT !.todo = @ \ {t}])
      BY <2>7 DEF DeleteToken
    <3>2. [op[w] EXCEPT !.todo = @ \ {t}].cmd # "expire"
      <4>1. op[w] = [cmd |-> "del", f |-> op[w].f, membros |-> op[w].membros, todo |-> op[w].todo]
        BY <1>0, <2>7, OpFacts DEF DeleteToken
      <4>. QED
        BY <4>1
    <3>3. \A u \in Tokens : token'[u] = "fresh" => token[u] = "fresh" /\ expires'[u] = expires[u]
      BY <1>0, <3>1 DEF TypeOK
    <3>. QED
      BY <2>1, <2>7, <3>1, <3>2, <3>3 DEF DeleteToken, Goto, history
  <2>8. CASE Abandon(w)
    BY <2>1, <2>8 DEF Abandon, Goto, Idle, tokenVars, history
  <2>. QED
    BY <1>3, <2>2, <2>3, <2>4, <2>5, <2>6, <2>7, <2>8, StoreKeepsReach, IndexKeepsReach,
       RenewKeepsReach, DeleteFamilyKeepsReach DEF Request
<1>. QED
  BY <1>1, <1>2, <1>3 DEF Next

-----------------------------------------------------------------------------
\* The inductive invariant of the store.
CoreInv == StoreInv /\ UseInv /\ ReachInv

LEMMA InitCoreInv == Init => CoreInv
<1> SUFFICES ASSUME Init PROVE CoreInv
  OBVIOUS
<1>1. UseInv
  <2> SUFFICES ASSUME NEW t \in Tokens PROVE accepted[t] + Cardinality(Pending(t)) <= Cardinality(Workers)
    BY DEF UseInv
  <2>1. accepted[t] = 0
    BY DEF Init
  <2>. QED
    BY <2>1, PendingIsFinite
<1>2. ReachInv
  BY DEF Init, ReachInv, LifeInv, IndexedInv, RenewInv, Idle
<1>. QED
  BY <1>1, <1>2, InitStoreInv DEF CoreInv

LEMMA NextCoreInv == CoreInv /\ [Next]_vars => CoreInv'
  BY NextStoreInv, NextUses, NextReach DEF CoreInv

\* For the requests of RefreshTokens alone, without the logins:
LEMMA StoreInvariant == Spec => []CoreInv
  BY InitCoreInv, NextCoreInv, PTL DEF Spec

\* No token is rotated more often than there are requests at a time, however many
\* requests there are one after another: a second use is accepted only if it
\* overlaps the first.
THEOREM UsesAreBounded == Spec => []UsesUpToRequests
<1>1. CoreInv => UsesUpToRequests
  <2> SUFFICES ASSUME CoreInv, NEW t \in Tokens PROVE accepted[t] <= Cardinality(Workers)
    BY DEF UsesUpToRequests
  <2>1. accepted[t] \in Nat /\ accepted[t] + Cardinality(Pending(t)) <= Cardinality(Workers)
    BY DEF CoreInv, StoreInv, TypeOK, UseInv
  <2>. QED
    BY <2>1, PendingIsFinite
<1>. QED
  BY <1>1, StoreInvariant, PTL

\* What a completed revocation has deleted is never usable again.
THEOREM RevocationIsFinal == Spec => []RevokedIsUnusable
<1>1. CoreInv => RevokedIsUnusable
  BY DEF CoreInv, StoreInv
<1>. QED
  BY <1>1, StoreInvariant, PTL

-----------------------------------------------------------------------------
(***************************************************************************)
(* The logins, over the store.                                             *)
(***************************************************************************)
Hashes == Passwords \cup {"none"}

LoginTypeInv ==
    /\ password \in [Users -> Hashes]
    /\ login \in [Logins -> [step : Steps, given : Hashes]]
    /\ seen \in [Logins -> Hashes]
    /\ asked \in SUBSET Logins
    /\ held \in [Logins -> SUBSET Hashes]

\* The password a login was verified with, and asked with, was held while it was
\* being verified.
VerifiedInv ==
    \A l \in Logins :
        /\ At(l, "verify") => password[email[l]] \in held[l]
        /\ At(l, "reply") => seen[l] \in held[l]
        /\ At(l, "verified") \/ l \in asked => login[l].given \in held[l]

\* A login's token is stored only because its login asked.
AskedInv ==
    /\ Logins \cap created \subseteq asked
    /\ \A l \in Logins : l \in asked => login[l].step \in {"store", "granted", "failed"}
    /\ \A l \in Logins : At(l, "granted") => l \in stored

\* The inductive invariant.
LoginInv == LoginTypeInv /\ VerifiedInv /\ AskedInv

IInv == CoreInv /\ LoginInv

-----------------------------------------------------------------------------
LEMMA InitIInv == SessionsInit => IInv
<1> SUFFICES ASSUME SessionsInit PROVE IInv
  OBVIOUS
<1>1. CoreInv
  BY InitCoreInv DEF SessionsInit
<1>2. LoginTypeInv
  BY DEF SessionsInit, LoginTypeInv, Hashes, Steps
<1>3. VerifiedInv /\ AskedInv
  BY DEF SessionsInit, Init, VerifiedInv, AskedInv, At
<1>. QED
  BY <1>1, <1>2, <1>3 DEF IInv, LoginInv

\* What a step may do to the store without disturbing a login.
LEMMA StoreGrows ==
    ASSUME LoginInv, UNCHANGED <<password, login, seen, asked, held>>,
           Logins \cap created' \subseteq asked, stored \subseteq stored'
    PROVE  LoginInv'
<1>1. LoginTypeInv' /\ VerifiedInv'
  BY DEF LoginInv, LoginTypeInv, VerifiedInv, At
<1>2. AskedInv'
  BY DEF LoginInv, AskedInv, At
<1>. QED
  BY <1>1, <1>2 DEF LoginInv

\* The requests of data_redis are requests of the store, and a login's token is
\* stored only after its login asked.
LEMMA DataRedisKeepsInv ==
    ASSUME IInv, DataRedis
    PROVE  IInv'
<1>1. /\ UNCHANGED <<password, login, seen, asked, held>>
      /\ Tick \/ \E w \in Workers : Request(w) \/ Abandon(w)
      /\ Logins \cap created' \subseteq asked
  <2>1. Logins \cap created \subseteq asked /\ asked \subseteq Tokens
    BY SessionsAssumption DEF IInv, LoginInv, AskedInv, LoginTypeInv
  <2>2. CASE Tick
    BY <2>1, <2>2 DEF DataRedis, Tick, history
  <2>3. ASSUME NEW w \in Workers, StoreRefreshToken(w)
        PROVE  Request(w) /\ Logins \cap created' \subseteq asked
    <3>1. PICK t \in (Tokens \ Logins) \cup asked : Store(w, t)
      BY <2>3 DEF StoreRefreshToken
    <3>2. t \in Tokens /\ (t \in Logins => t \in asked)
      BY <2>1, <3>1
    <3>3. created' = created \cup {t}
      BY <3>1 DEF Store
    <3>. QED
      BY <2>1, <3>1, <3>2, <3>3 DEF Request
  <2>4. ASSUME NEW w \in Workers,
               \/ ValidateAndRotate(w)
               \/ \E t \in Tokens : RevokeToken(w, t)
               \/ \E f \in Families : Revoke(w, f)
               \/ Index(w) \/ RenewFamily(w) \/ Mark(w)
               \/ ListMembers(w) \/ DeleteToken(w) \/ DeleteFamily(w)
               \/ Abandon(w)
        PROVE  (Request(w) \/ Abandon(w)) /\ created' = created
    <3>1. Request(w) \/ Abandon(w)
      BY <2>4 DEF ValidateAndRotate, Request
    <3>2. created' = created
      BY <2>4 DEF ValidateAndRotate, Get, RevokeToken, Revoke, Index, RenewFamily, Mark, ListMembers,
                  DeleteToken, DeleteFamily, Abandon, history
    <3>. QED
      BY <3>1, <3>2
  <2>5. UNCHANGED <<password, login, seen, asked, held>>
    BY DEF DataRedis
  <2>. QED
    BY <2>1, <2>2, <2>3, <2>4, <2>5 DEF DataRedis
<1>2. CoreInv'
  BY <1>1, NextCoreInv DEF IInv, Next
<1>3. stored \subseteq stored'
  <2>1. CASE Tick
    BY <2>1 DEF Tick, history
  <2>2. ASSUME NEW w \in Workers, Request(w) \/ Abandon(w)
        PROVE  stored \subseteq stored'
    BY <2>2 DEF Request, Abandon, Store, Get, RevokeToken, Revoke, Index, RenewFamily, Mark,
                ListMembers, DeleteToken, DeleteFamily, history
  <2>. QED
    BY <1>1, <2>1, <2>2
<1>. QED
  BY <1>1, <1>2, <1>3, StoreGrows DEF IInv

\* A password that changes is added to those held while a login is being verified.
LEMMA UserChangeKeepsInv ==
    ASSUME IInv, NEW u \in Users, NEW p \in Passwords, CriarUser(u, p) \/ AtualizarSenha(u, p)
    PROVE  IInv'
<1>1. /\ password' = [password EXCEPT ![u] = p]
      /\ held' = [l \in Logins |-> IF email[l] = u /\ At(l, "verify") THEN held[l] \cup {p} ELSE held[l]]
      /\ UNCHANGED <<vars, login, seen, asked>>
  BY DEF CriarUser, AtualizarSenha, HeldBy
<1>2. CoreInv'
  BY <1>1, NextCoreInv DEF IInv
<1>3. LoginTypeInv'
  BY <1>1 DEF IInv, LoginInv, LoginTypeInv, Hashes
<1>4. VerifiedInv'
  BY <1>1, SessionsAssumption DEF IInv, LoginInv, LoginTypeInv, VerifiedInv, At
<1>5. AskedInv'
  BY <1>1 DEF vars, IInv, LoginInv, AskedInv, At
<1>. QED
  BY <1>2, <1>3, <1>4, <1>5 DEF IInv, LoginInv

\* A step of a login that is no failure.
LEMMA LoginKeepsInv ==
    ASSUME IInv, NEW l \in Logins, Login(l), ~LoginFails(l)
    PROVE  IInv'
<1>0. LoginTypeInv /\ VerifiedInv /\ AskedInv
  BY DEF IInv, LoginInv
<1>1. UNCHANGED <<vars, password>>
  BY DEF Login, StartLogin, BuscarPorEmail, VerifyPassword, RefuseLogin, AskStore, Grant
<1>2. CoreInv'
  BY <1>1, NextCoreInv DEF IInv
<1>3. LoginTypeInv' /\ VerifiedInv' /\ AskedInv'
  <2>. USE <1>0, <1>1, SessionsAssumption DEF LoginTypeInv, VerifiedInv, AskedInv, At, Goes, vars
  <2>1. ASSUME NEW p \in Passwords, StartLogin(l, p) PROVE LoginTypeInv' /\ VerifiedInv' /\ AskedInv'
    <3>1. /\ login' = [login EXCEPT ![l] = [step |-> "verify", given |-> p]]
          /\ held' = [held EXCEPT ![l] = {password[email[l]]}] /\ UNCHANGED <<seen, asked>>
          /\ login[l].step = "idle"
      BY <2>1 DEF StartLogin
    <3>2. LoginTypeInv'
      BY <3>1 DEF Steps, Hashes
    <3>3. VerifiedInv'
      BY <3>1
    <3>4. AskedInv'
      BY <3>1
    <3>. QED
      BY <3>2, <3>3, <3>4
  <2>2. CASE BuscarPorEmail(l)
    <3>1. /\ login' = [login EXCEPT ![l].step = "reply"] /\ seen' = [seen EXCEPT ![l] = password[email[l]]]
          /\ login[l].step = "verify" /\ UNCHANGED <<asked, held>>
      BY <2>2 DEF BuscarPorEmail, RowOf
    <3>2. LoginTypeInv'
      BY <3>1 DEF Steps
    <3>3. /\ login'[l].step = "reply" /\ seen'[l] = password[email[l]]
          /\ \A k \in Logins \ {l} : login'[k] = login[k] /\ seen'[k] = seen[k]
      BY <3>1
    <3>4. VerifiedInv'
      BY <3>1, <3>3
    <3>5. AskedInv'
      BY <3>1, <3>3
    <3>. QED
      BY <3>2, <3>4, <3>5
  <2>3. CASE VerifyPassword(l) \/ RefuseLogin(l)
    <3>1. PICK s \in {"verified", "refused"} : Goes(l, s) /\ (s = "verified" => seen[l] = login[l].given)
      BY <2>3 DEF VerifyPassword, RefuseLogin, Verifies
    <3>2. login[l].step = "reply" /\ UNCHANGED <<seen, asked, held>>
      BY <2>3 DEF VerifyPassword, RefuseLogin
    <3>3. LoginTypeInv'
      BY <3>1, <3>2 DEF Steps
    <3>4. /\ login'[l].step = s /\ login'[l].given = login[l].given
          /\ \A k \in Logins \ {l} : login'[k] = login[k]
      BY <3>1
    <3>5. VerifiedInv'
      BY <3>1, <3>2, <3>4
    <3>6. AskedInv'
      BY <3>2, <3>4
    <3>. QED
      BY <3>3, <3>5, <3>6
  <2>4. CASE AskStore(l) \/ Grant(l)
    <3>1. PICK s \in {"store", "granted"} : Goes(l, s) /\ (s = "granted" => l \in stored)
      BY <2>4 DEF AskStore, Grant
    <3>2. /\ login[l].step \in {"verified", "store"} /\ UNCHANGED <<seen, held>>
          /\ asked' = asked \cup {l} /\ login[l].given \in held[l]
      <4>1. CASE AskStore(l)
        BY <4>1 DEF AskStore
      <4>2. CASE Grant(l)
        <5>1. asked' = asked /\ login[l].step = "store" /\ UNCHANGED <<seen, held>>
          BY <4>2 DEF Grant
        <5>2. l \in stored
          BY <4>2 DEF Grant
        <5>3. l \in asked
          BY <5>2, <1>0 DEF IInv, CoreInv, StoreInv, CreatedInv, AskedInv
        <5>. QED
          BY <5>1, <5>3
      <4>. QED
        BY <2>4, <4>1, <4>2
    <3>3. LoginTypeInv'
      BY <3>1, <3>2 DEF Steps
    <3>4. /\ login'[l].step = s /\ login'[l].given = login[l].given
          /\ \A k \in Logins \ {l} : login'[k] = login[k]
      BY <3>1
    <3>5. VerifiedInv'
      <4> SUFFICES ASSUME NEW k \in Logins
                   PROVE  /\ login'[k].step = "verify" => password[email[k]] \in held[k]
                          /\ login'[k].step = "reply" => seen[k] \in held[k]
                          /\ login'[k].step = "verified" \/ k \in asked' => login'[k].given \in held[k]
        BY <3>2
      <4>1. CASE k = l
        BY <3>1, <3>2, <3>4, <4>1
      <4>2. CASE k # l
        BY <3>2, <3>4, <4>2
      <4>. QED
        BY <4>1, <4>2
    <3>6. AskedInv'
      BY <3>1, <3>2, <3>4
    <3>. QED
      BY <3>3, <3>5, <3>6
  <2>. QED
    BY <2>1, <2>2, <2>3, <2>4 DEF Login
<1>. QED
  BY <1>2, <1>3 DEF IInv, LoginInv

\* A login that fails leaves behind whatever it asked for.
LEMMA LoginFailsKeepsInv ==
    ASSUME IInv, NEW l \in Logins, LoginFails(l)
    PROVE  IInv'
<1>1. /\ login' = [login EXCEPT ![l].step = "failed"] /\ login[l].step \in {"verify", "reply", "verified", "store"}
      /\ Fault
      /\ UNCHANGED <<now, tokenVars, familyVars, op, history, password, seen, asked, held>>
  BY DEF LoginFails, Goes
<1>2. CoreInv'
  <2>1. StoreInv'
    BY <1>1, FaultKeepsInv DEF IInv, CoreInv
  <2>2. UseInv'
    BY <1>1 DEF IInv, CoreInv, UseInv, Pending, history
  <2>3. ReachInv'
    BY <1>1, ReachFrame DEF IInv, CoreInv, tokenVars, familyVars, history
  <2>. QED
    BY <2>1, <2>2, <2>3 DEF CoreInv
<1>3. LoginTypeInv'
  BY <1>1 DEF IInv, LoginInv, LoginTypeInv, Steps
<1>4. VerifiedInv' /\ AskedInv'
  BY <1>1 DEF IInv, LoginInv, LoginTypeInv, VerifiedInv, AskedInv, At, history
<1>. QED
  BY <1>2, <1>3, <1>4 DEF IInv, LoginInv

LEMMA NextIInv == IInv /\ [SessionsNext]_allVars => IInv'
<1> SUFFICES ASSUME IInv, [SessionsNext]_allVars PROVE IInv'
  OBVIOUS
<1>1. CASE UNCHANGED allVars
  <2>1. CoreInv'
    BY <1>1, NextCoreInv DEF allVars, IInv
  <2>2. LoginInv'
    BY <1>1 DEF allVars, vars, IInv, LoginInv, LoginTypeInv, VerifiedInv, AskedInv, At
  <2>. QED
    BY <2>1, <2>2 DEF IInv
<1>2. ASSUME NEW l \in Logins, Login(l) PROVE IInv'
  BY <1>2, LoginKeepsInv, LoginFailsKeepsInv
<1>. QED
  BY <1>1, <1>2, DataRedisKeepsInv, UserChangeKeepsInv DEF SessionsNext, UserChange

LEMMA InvariantHolds == SessionsSpec => []IInv
  BY InitIInv, NextIInv, PTL DEF SessionsSpec

\* Types, and what a completed revocation has deleted, hold under the logins as well.
THEOREM StoreUnderLogins == SessionsSpec => [](TypeOK /\ RevokedIsUnusable)
<1>1. IInv => TypeOK /\ RevokedIsUnusable
  BY DEF IInv, CoreInv, StoreInv
<1>. QED
  BY <1>1, InvariantHolds, PTL

\* A refresh token of a login exists only where the password given was the user's at a
\* moment of that login's verification, also when the login failed after asking.
THEOREM StoringNeedsThePassword == SessionsSpec => []StoredKnewPassword
<1>1. IInv => StoredKnewPassword
  BY DEF IInv, LoginInv, VerifiedInv, AskedInv, StoredKnewPassword
<1>. QED
  BY <1>1, InvariantHolds, PTL

\* A usable token, stored or granted, is found by the revocation of its family, but for
\* the two overlaps that UsableIsRevocable names.
THEOREM RevocationReaches == SessionsSpec => []UsableIsRevocable
<1>1. IInv => UsableIsRevocable
  BY DEF IInv, CoreInv, ReachInv, IndexedInv, LoginInv, AskedInv, UsableIsRevocable, Family
<1>. QED
  BY <1>1, InvariantHolds, PTL
=============================================================================
