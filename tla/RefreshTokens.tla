---------------------------- MODULE RefreshTokens ----------------------------
(***************************************************************************)
(* RefreshTokenStore (infrastructure_redis::auth_tokens) under concurrent  *)
(* requests of data_redis.  Each step of an operation is one Redis         *)
(* command; the store takes no lock and uses no MULTI, so the commands of  *)
(* two operations interleave freely, and one may fail between two of them. *)
(*                                                                         *)
(* A token stands for its hash, which the caller draws at random: it is    *)
(* stored once.  A GET that finds no key changes nothing (NotFound).       *)
(***************************************************************************)
EXTENDS Naturals, FiniteSets

CONSTANTS Workers,    \* concurrent requests
          Tokens,
          Families,
          family_id,  \* family_id[t]: the login t derives from
          Ttl,        \* ttl_segundos of every token, in clock ticks
          MaxTime,    \* bound on the clock
          MaxFaults   \* bound on the number of failures

ASSUME RefreshAssumption ==
    /\ IsFiniteSet(Workers)
    /\ family_id \in [Tokens -> Families]
    /\ Ttl \in Nat \ {0}
    /\ MaxTime \in Nat
    /\ MaxFaults \in Nat

VARIABLES
    now,          \* the clock
    token,        \* token[t]: the key refresh:<hash>
    expires,      \* expires[t]: when it expires; 0: no TTL
    members,      \* members[f]: the set that indexes family f
    famExpires,   \* famExpires[f]: when that set expires; 0: no TTL
    missed,       \* history: tokens dropped from their set without being deleted
    op,           \* op[w]: the next command of the request w, and its data
    \* history
    created,      \* tokens whose SET was issued
    stored,       \* tokens whose armazenar returned Ok
    accepted,     \* accepted[t]: times validar_e_rotacionar(t) returned Ok
    revoked,      \* tokens a completed revogar or revogar_familia has deleted
    faults        \* failures so far

tokenVars  == <<token, expires>>
familyVars == <<members, famExpires, missed>>
history    == <<created, stored, accepted, revoked>>
vars == <<now, token, expires, members, famExpires, missed, op, created, stored,
          accepted, revoked, faults>>

Idle == [cmd |-> "idle"]
Op   == {Idle}
        \cup [cmd : {"sadd", "expire", "mark"}, t : Tokens]
        \cup [cmd : {"smembers"}, f : Families]
        \cup [cmd : {"del"}, f : Families, membros : SUBSET Tokens, todo : SUBSET Tokens]

TypeOK ==
    /\ now \in 0 .. MaxTime
    /\ token \in [Tokens -> {"none", "fresh", "rotated"}]
    /\ expires \in [Tokens -> Nat]
    /\ \A t \in Tokens : token[t] = "none" => expires[t] = 0
    /\ members \in [Families -> SUBSET Tokens]
    /\ famExpires \in [Families -> Nat]
    /\ \A f \in Families : members[f] = {} => famExpires[f] = 0
    /\ missed \in SUBSET Tokens
    /\ op \in [Workers -> Op]
    /\ created \in SUBSET Tokens
    /\ stored \in SUBSET Tokens
    /\ accepted \in [Tokens -> Nat]
    /\ revoked \in SUBSET Tokens
    /\ faults \in 0 .. MaxFaults

Init ==
    /\ now = 0
    /\ token = [t \in Tokens |-> "none"]
    /\ expires = [t \in Tokens |-> 0]
    /\ members = [f \in Families |-> {}]
    /\ famExpires = [f \in Families |-> 0]
    /\ missed = {}
    /\ op = [w \in Workers |-> Idle]
    /\ created = {}
    /\ stored = {}
    /\ accepted = [t \in Tokens |-> 0]
    /\ revoked = {}
    /\ faults = 0

Fault == faults < MaxFaults /\ faults' = faults + 1

\* w's request goes on with the command o.
Goto(w, o) == op' = [op EXCEPT ![w] = o]

-----------------------------------------------------------------------------
(***************************************************************************)
(* armazenar: SET key value EX ttl; SADD family hash; EXPIRE family ttl    *)
(***************************************************************************)
Store(w, t) ==
    /\ op[w] = Idle
    /\ t \notin created
    /\ created' = created \cup {t}
    /\ token' = [token EXCEPT ![t] = "fresh"]
    /\ expires' = [expires EXCEPT ![t] = now + Ttl]
    /\ Goto(w, [cmd |-> "sadd", t |-> t])
    /\ UNCHANGED <<now, familyVars, stored, accepted, revoked, faults>>

\* SADD keeps the TTL of an existing set, and gives a new one none.
Index(w) ==
    /\ op[w].cmd = "sadd"
    /\ LET t == op[w].t IN
          /\ members' = [members EXCEPT ![family_id[t]] = @ \cup {t}]
          /\ Goto(w, [cmd |-> "expire", t |-> t])
    /\ UNCHANGED <<now, tokenVars, famExpires, missed, history, faults>>

\* A plausible slip: taking for granted that EXPIRE finds the set.
RenewFamilyBlind(w) ==
    /\ op[w].cmd = "expire"
    /\ LET t == op[w].t IN
          /\ famExpires' = [famExpires EXCEPT ![family_id[t]] = now + Ttl]
          /\ stored' = stored \cup {t}
          /\ Goto(w, Idle)
    /\ UNCHANGED <<now, tokenVars, members, missed, created, accepted, revoked, faults>>

\* A plausible slip: EXPIRE ... NX, which leaves the TTL a set already has.
RenewFamilyOnce(w) ==
    /\ op[w].cmd = "expire"
    /\ LET t == op[w].t
           f == family_id[t]
       IN  /\ famExpires' = [famExpires EXCEPT ![f] =
                                 IF members[f] # {} /\ @ = 0 THEN now + Ttl ELSE @]
           /\ stored' = stored \cup {t}
           /\ Goto(w, Idle)
    /\ UNCHANGED <<now, tokenVars, members, missed, created, accepted, revoked, faults>>

\* EXPIRE (nothing to do when the set is gone: its answer is ignored), and Ok.
RenewFamily(w) ==
    /\ op[w].cmd = "expire"
    /\ LET t == op[w].t
           f == family_id[t]
       IN  /\ famExpires' = [famExpires EXCEPT ![f] = IF members[f] # {} THEN now + Ttl ELSE @]
           /\ stored' = stored \cup {t}
           /\ Goto(w, Idle)
    /\ UNCHANGED <<now, tokenVars, members, missed, created, accepted, revoked, faults>>

-----------------------------------------------------------------------------
(***************************************************************************)
(* validar_e_rotacionar: GET; then SET ... KEEPTTL, or revogar_familia     *)
(***************************************************************************)
Get(w, t) ==
    /\ op[w] = Idle
    /\ token[t] # "none"
    /\ Goto(w, IF token[t] = "rotated" THEN [cmd |-> "smembers", f |-> family_id[t]]
                                       ELSE [cmd |-> "mark", t |-> t])
    /\ UNCHANGED <<now, tokenVars, familyVars, history, faults>>

\* A plausible slip: the record is written back as it was read.
MarkUnrotated(w) ==
    /\ op[w].cmd = "mark"
    /\ LET t == op[w].t IN
          /\ token' = [token EXCEPT ![t] = "fresh"]
          /\ expires' = [expires EXCEPT ![t] = IF token[t] = "none" THEN 0 ELSE @]
          /\ accepted' = [accepted EXCEPT ![t] = @ + 1]
    /\ Goto(w, Idle)
    /\ UNCHANGED <<now, familyVars, created, stored, revoked, faults>>

\* SET key rotated KEEPTTL writes the key whether or not it still exists, and
\* there is no TTL to keep when it does not.  Its answer may be lost.
Mark(w) ==
    /\ op[w].cmd = "mark"
    /\ LET t == op[w].t IN
          /\ token' = [token EXCEPT ![t] = "rotated"]
          /\ expires' = [expires EXCEPT ![t] = IF token[t] = "none" THEN 0 ELSE @]
          /\ \/ accepted' = [accepted EXCEPT ![t] = @ + 1] /\ faults' = faults
             \/ accepted' = accepted /\ Fault
    /\ Goto(w, Idle)
    /\ UNCHANGED <<now, familyVars, created, stored, revoked>>

-----------------------------------------------------------------------------
(***************************************************************************)
(* revogar_familia: SMEMBERS; DEL of each token; DEL of the set            *)
(***************************************************************************)

\* revogar: DEL of one token.
RevokeToken(w, t) ==
    /\ op[w] = Idle
    /\ t \in created
    /\ token' = [token EXCEPT ![t] = "none"]
    /\ expires' = [expires EXCEPT ![t] = 0]
    /\ revoked' = revoked \cup {t}
    /\ UNCHANGED <<now, familyVars, op, created, stored, accepted, faults>>

\* The handler RevokeFamily (logout).
Revoke(w, f) ==
    /\ op[w] = Idle
    /\ Goto(w, [cmd |-> "smembers", f |-> f])
    /\ UNCHANGED <<now, tokenVars, familyVars, history, faults>>

ListMembers(w) ==
    /\ op[w].cmd = "smembers"
    /\ LET f == op[w].f IN
          Goto(w, [cmd |-> "del", f |-> f, membros |-> members[f], todo |-> members[f]])
    /\ UNCHANGED <<now, tokenVars, familyVars, history, faults>>

DeleteToken(w) ==
    /\ op[w].cmd = "del"
    /\ \E t \in op[w].todo :
          /\ token' = [token EXCEPT ![t] = "none"]
          /\ expires' = [expires EXCEPT ![t] = 0]
          /\ Goto(w, [op[w] EXCEPT !.todo = @ \ {t}])
    /\ UNCHANGED <<now, familyVars, history, faults>>

\* A plausible slip: the index is dropped and its tokens are left to expire.
DeleteFamilyFirst(w) ==
    /\ op[w].cmd = "del"
    /\ members' = [members EXCEPT ![op[w].f] = {}]
    /\ famExpires' = [famExpires EXCEPT ![op[w].f] = 0]
    /\ missed' = missed \cup (members[op[w].f] \ op[w].membros)
    /\ revoked' = revoked \cup op[w].membros
    /\ Goto(w, Idle)
    /\ UNCHANGED <<now, tokenVars, created, stored, accepted, faults>>

\* DEL of the set, with what was added to it since SMEMBERS.
DeleteFamily(w) ==
    /\ op[w].cmd = "del"
    /\ op[w].todo = {}
    /\ members' = [members EXCEPT ![op[w].f] = {}]
    /\ famExpires' = [famExpires EXCEPT ![op[w].f] = 0]
    /\ missed' = missed \cup (members[op[w].f] \ op[w].membros)
    /\ revoked' = revoked \cup op[w].membros
    /\ Goto(w, Idle)
    /\ UNCHANGED <<now, tokenVars, created, stored, accepted, faults>>

-----------------------------------------------------------------------------
\* A command fails (`?`), or the process dies between two of them: the rest of
\* the operation does not happen.
Abandon(w) ==
    /\ op[w] # Idle
    /\ Fault
    /\ Goto(w, Idle)
    /\ UNCHANGED <<now, tokenVars, familyVars, history>>

\* Time passes; Redis drops the keys whose TTL is over, among them a set that a
\* store is about to renew (it holds the TTL of an earlier token).
Gone(e) == e # 0 /\ e <= now + 1

Renewing(t) == \E w \in Workers : op[w] = [cmd |-> "expire", t |-> t]

Tick ==
    /\ now < MaxTime
    /\ now' = now + 1
    /\ token' = [t \in Tokens |-> IF Gone(expires[t]) THEN "none" ELSE token[t]]
    /\ expires' = [t \in Tokens |-> IF Gone(expires[t]) THEN 0 ELSE expires[t]]
    /\ members' = [f \in Families |-> IF Gone(famExpires[f]) THEN {} ELSE members[f]]
    /\ famExpires' = [f \in Families |-> IF Gone(famExpires[f]) THEN 0 ELSE famExpires[f]]
    /\ missed' = missed \cup {t \in Tokens : Renewing(t) /\ Gone(famExpires[family_id[t]])}
    /\ UNCHANGED <<op, history, faults>>

Request(w) ==
    \/ \E t \in Tokens : Store(w, t) \/ Get(w, t) \/ RevokeToken(w, t)
    \/ \E f \in Families : Revoke(w, f)
    \/ Index(w) \/ RenewFamily(w) \/ Mark(w)
    \/ ListMembers(w) \/ DeleteToken(w) \/ DeleteFamily(w)

Next == Tick \/ \E w \in Workers : Request(w) \/ Abandon(w)

Spec == Init /\ [][Next]_vars

-----------------------------------------------------------------------------
(***************************************************************************)
(* Properties                                                              *)
(***************************************************************************)

\* Reuse is detected, though not at once: rotations of one token are accepted only if
\* each read it before any of them had marked it, so there are never more than the
\* requests that overlap.  (Two that overlap are both accepted: nothing joins the GET
\* to the SET, and the single use of auth_tokens.rs is kept for requests one after
\* another only.)
UsesUpToRequests == \A t \in Tokens : accepted[t] <= Cardinality(Workers)

\* No token that a completed revogar, or revogar_familia, deleted is usable again.  (A
\* rotation in flight may write it back, but as rotated.)
RevokedIsUnusable == \A t \in revoked : token[t] # "fresh"
=============================================================================
