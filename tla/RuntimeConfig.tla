---------------------------- MODULE RuntimeConfig ----------------------------
(***************************************************************************)
(* The configuration of a tenant: settings of the whole system (table      *)
(* settings_manager_coresettings) under the tenant's own row               *)
(* (tenants_tenantconfig), resolved by two separate reads, and kept by     *)
(* TenantConfigCache until it is invalidated.                              *)
(*                                                                         *)
(* One field stands for each way of resolving one: "own" has no global     *)
(* level, "text" falls back when it is NULL or empty, "number" when it is  *)
(* NULL, "api_key" is sealed with the master key of the process.  0 is the *)
(* empty text, the number zero, and what a global text that is no number   *)
(* is parsed to.                                                           *)
(***************************************************************************)
EXTENDS Naturals

CONSTANTS Tenants, Readers,
          Values,      \* what a field may hold, besides 0
          Masters,     \* values of ENCRYPTION_KEY
          MaxWrites,   \* bound on the writes of settings and rows
          MaxRestarts  \* bound on the restarts of the process

ASSUME ConfigAssumption ==
    /\ Values # {} /\ Values \subseteq Nat \ {0}
    /\ Masters # {}

Fields == {"own", "text", "number", "api_key"}
Global == Fields \ {"own"}

Unsealed == "open"   \* the seal of what is not sealed
Plain(v) == [encrypted |-> FALSE, seal |-> Unsealed, value |-> v]
Bare     == [f \in Fields |-> IF f = "api_key" THEN Plain(0) ELSE {}]

VARIABLES
    core,      \* core[f]: the global setting of f
    row,       \* row[t]: the row of tenant t, where {} is NULL; one that does not exist reads like Bare
    master,    \* the master key of the running process
    cache,     \* cache[t]: Uncached, or the resolved configuration
    reader,    \* the calls of get_config that have missed
    owed,      \* the tenants whose configuration was written since their last invalidation
    writes, restarts

configVars == <<core, row, master, cache, reader, owed, writes, restarts>>

Uncached == [cached |-> FALSE]
Idle == [pc |-> "idle"]

\* The migration puts a value in every global setting but the keys, which are empty.
Seeded == [f \in Global |-> Plain(IF f = "api_key" THEN 0 ELSE CHOOSE v \in Values : TRUE)]

ConfigInit ==
    /\ core = Seeded
    /\ row = [t \in Tenants |-> Bare]
    /\ master \in Masters
    /\ cache = [t \in Tenants |-> Uncached]
    /\ reader = [r \in Readers |-> Idle]
    /\ owed = {}
    /\ writes = 0
    /\ restarts = 0

-----------------------------------------------------------------------------
(***************************************************************************)
(* Secrets at rest                                                         *)
(***************************************************************************)
Encrypt(v) == [encrypted |-> TRUE, seal |-> master, value |-> v]

\* What opens under the master key: its own seals, and a text that was never sealed
\* (a setting marked as encrypted that has not the three parts is taken as it is).
Decrypts(s) == s.seal \in {Unsealed, master}

\* An entry that is absent, or seals the empty text, is the empty text under every key.
ApiKeyOpens(s) == s.value = 0 \/ Decrypts(s)

-----------------------------------------------------------------------------
(***************************************************************************)
(* Resolution                                                              *)
(***************************************************************************)
\* filter(not empty).unwrap_or(global), unwrap_or(global), and decrypt_from_jsonb.
Or(local, global)             == IF local = {} THEN global ELSE CHOOSE v \in local : TRUE
Fallback(local, global)       == Or(local \ {0}, global)
FallbackNumber(local, global) == Or(local, global)
ResolveApiKey(local, global)  == IF local.value = 0 THEN global ELSE local.value

\* A plausible slip: a number that is zero is taken for one that is not set.
ResolvedZero(c, l) ==
    [f \in Fields |-> CASE f = "own"     -> Or(l[f], 0)
                        [] f = "text"    -> Fallback(l[f], c[f].value)
                        [] f = "number"  -> Fallback(l[f], c[f].value)
                        [] f = "api_key" -> ResolveApiKey(l[f], c[f].value)]

Resolved(c, l) ==
    [f \in Fields |-> CASE f = "own"     -> Or(l[f], 0)
                        [] f = "text"    -> Fallback(l[f], c[f].value)
                        [] f = "number"  -> FallbackNumber(l[f], c[f].value)
                        [] f = "api_key" -> ResolveApiKey(l[f], c[f].value)]

\* "Tenant > CoreSettings": the levels that have something to say of f for t, and
\* what is in force.
Local(t, f) ==
    CASE f = "api_key" -> {row[t][f].value} \ {0}
      [] f = "text"    -> row[t][f] \ {0}
      [] OTHER         -> row[t][f]

InForce(t, f) ==
    CHOOSE v \in Values \cup {0} :
        v \in (IF Local(t, f) # {} THEN Local(t, f) ELSE IF f \in Global THEN {core[f].value} ELSE {0})

-----------------------------------------------------------------------------
(***************************************************************************)
(* TenantConfigCache                                                       *)
(***************************************************************************)
\* get_config finds no entry (a hit only reads), and calls resolve_runtime_config;
\* the first read: load_all_settings, which fails when one setting does not open.
LoadAllSettings(r, t) ==
    /\ reader[r] = Idle
    /\ cache[t] = Uncached
    /\ \A f \in Global : Decrypts(core[f])
    /\ reader' = [reader EXCEPT ![r] =
                    [pc |-> "core", tenant |-> t, core |-> core, overlapped |-> FALSE, moved |-> {},
                     seen |-> [f \in Fields |-> {InForce(t, f)}]]]
    /\ UNCHANGED <<core, row, master, cache, owed, writes, restarts>>

\* The second: the row of the tenant, in a transaction of its own; the call fails
\* when the key in it does not open.
ReadRow(r) ==
    /\ reader[r].pc = "core"
    /\ LET t == reader[r].tenant IN
          reader' = [reader EXCEPT ![r] =
                       IF ApiKeyOpens(row[t]["api_key"])
                       THEN [pc |-> "resolved", tenant |-> t, config |-> Resolved(reader[r].core, row[t]),
                             overlapped |-> @.overlapped, moved |-> @.moved, seen |-> @.seen]
                       ELSE Idle]
    /\ UNCHANGED <<core, row, master, cache, owed, writes, restarts>>

InsertConfig(r) ==
    /\ reader[r].pc = "resolved"
    /\ cache' = [cache EXCEPT ![reader[r].tenant] =
                   [config |-> reader[r].config, overlapped |-> reader[r].overlapped]]
    /\ reader' = [reader EXCEPT ![r] = Idle]
    /\ UNCHANGED <<core, row, master, owed, writes, restarts>>

\* The database fails, or the caller goes away.
ResolveFails(r) ==
    /\ reader[r] # Idle
    /\ reader' = [reader EXCEPT ![r] = Idle]
    /\ UNCHANGED <<core, row, master, cache, owed, writes, restarts>>

Overlap(ts) ==
    [r \in Readers |-> IF reader[r] # Idle /\ reader[r].tenant \in ts
                       THEN [reader[r] EXCEPT !.overlapped = TRUE] ELSE reader[r]]

Invalidate(t) ==
    /\ t \in owed \/ cache[t] # Uncached
    /\ cache' = [cache EXCEPT ![t] = Uncached]
    /\ owed' = owed \ {t}
    /\ reader' = Overlap({t})
    /\ UNCHANGED <<core, row, master, writes, restarts>>

\* A plausible slip: a change of a global setting is announced to one tenant.
InvalidateAllOnce ==
    /\ owed # {}
    /\ \E t \in owed : cache' = [cache EXCEPT ![t] = Uncached]
    /\ owed' = {}
    /\ reader' = Overlap(Tenants)
    /\ UNCHANGED <<core, row, master, writes, restarts>>

InvalidateAll ==
    /\ owed # {}
    /\ cache' = [t \in Tenants |-> Uncached]
    /\ owed' = {}
    /\ reader' = Overlap(Tenants)
    /\ UNCHANGED <<core, row, master, writes, restarts>>

-----------------------------------------------------------------------------
(***************************************************************************)
(* Writers, and the process                                                *)
(***************************************************************************)
\* What a call under way has had in force since it began, and what has moved.
Witness(ts, level, f) ==
    LET now == [t \in ts |-> InForce(t, f)'] IN
    reader' = [r \in Readers |->
                 IF reader[r] # Idle /\ reader[r].tenant \in ts
                 THEN [reader[r] EXCEPT !.moved = @ \cup {<<level, f>>},
                                        !.seen[f] = @ \cup {now[reader[r].tenant]}]
                 ELSE reader[r]]

Written(ts) ==
    /\ writes < MaxWrites
    /\ writes' = writes + 1
    /\ owed' = owed \cup ts
    /\ UNCHANGED <<master, cache, restarts>>

\* upsert_setting stores the text as it is given, and whether it is sealed.
UpsertSetting(f, v) ==
    /\ \/ core' = [core EXCEPT ![f] = Plain(v)]
       \/ core' = [core EXCEPT ![f] = [Plain(v) EXCEPT !.encrypted = TRUE]]
       \/ core' = [core EXCEPT ![f] = Encrypt(v)]
    /\ UNCHANGED row
    /\ Written(Tenants)
    /\ Witness(Tenants, "core", f)

\* The row is written by the administration.
WriteRow(t, f, v) ==
    /\ row' = [row EXCEPT ![t][f] = IF f # "api_key" THEN v ELSE IF v = {} THEN Plain(0)
                                         ELSE Encrypt(CHOOSE x \in v : TRUE)]
    /\ UNCHANGED core
    /\ Written({t})
    /\ Witness({t}, "row", f)

\* new_from_env reads the master key at the start; the cache is in memory.
Restart ==
    /\ restarts < MaxRestarts
    /\ restarts' = restarts + 1
    /\ master' \in Masters
    /\ cache' = [t \in Tenants |-> Uncached]
    /\ reader' = [r \in Readers |-> Idle]
    /\ owed' = {}
    /\ UNCHANGED <<core, row, writes>>

ConfigNext ==
    \/ \E r \in Readers : \/ \E t \in Tenants : LoadAllSettings(r, t)
                          \/ ReadRow(r) \/ InsertConfig(r) \/ ResolveFails(r)
    \/ \E t \in Tenants : Invalidate(t)
    \/ InvalidateAll
    \/ \E f \in Global, v \in Values \cup {0} : UpsertSetting(f, v)
    \/ \E t \in Tenants, f \in Fields, v \in {{}} \cup {{x} : x \in Values \cup {0}} : WriteRow(t, f, v)
    \/ Restart

ConfigSpec == ConfigInit /\ [][ConfigNext]_configVars

-----------------------------------------------------------------------------
(***************************************************************************)
(* Properties                                                              *)
(***************************************************************************)
\* The two reads of resolve_runtime_config are not one: still, every field of what
\* they give was in force at some moment since they began, unless both its levels
\* moved in between.
ResolvedWasInForce ==
    \A r \in Readers : reader[r].pc = "resolved" =>
        \A f \in Fields :
            \/ reader[r].config[f] \in reader[r].seen[f]
            \/ {<<"core", f>>, <<"row", f>>} \subseteq reader[r].moved

\* Once every write has been followed by its invalidation, a cached configuration is
\* the one in force, except when it was being resolved while an invalidation ran:
\* get_config inserts it all the same, and it stays until the next one.
CachedIsInForce ==
    \A t \in Tenants : cache[t] # Uncached /\ ~cache[t].overlapped /\ t \notin owed =>
        cache[t].config = [f \in Fields |-> InForce(t, f)]
=============================================================================
