------------------------------ MODULE Sessions ------------------------------
(***************************************************************************)
(* Login.  application::auth::login, called by the handler Login of        *)
(* runtime_api, asks data_postgres to verify the credentials, draws the    *)
(* tokens and asks data_redis to store the refresh token; each call has a  *)
(* deadline of five seconds, and what it asked for may still run after it. *)
(*                                                                         *)
(* This module composes RefreshTokens (the requests data_redis executes)   *)
(* with the logins and with the rows of auth_user, which other callers of  *)
(* the repository change meanwhile.  A login stands for the refresh token  *)
(* it draws.  Its connections and both its calls fail alike: LoginFails.   *)
(***************************************************************************)
EXTENDS RefreshTokens

CONSTANTS Logins,     \* the tokens drawn by logins
          Users,
          Passwords,
          email       \* email[l]: whose login l is, by its address

ASSUME SessionsAssumption ==
    /\ Logins \subseteq Tokens
    /\ email \in [Logins -> Users]

VARIABLES
    password,  \* password[u]: what the hash of u's row verifies, "none" without a row
               \* (nothing of a login reads the column is_active)
    login,     \* login[l]: the login() that draws l: its step, and the password given
    seen,      \* seen[l]: what buscar_por_email found, inside the handler
    asked,     \* logins whose StoreRefreshToken is on its way or executed
    held       \* history: held[l]: passwords of the user while l was being verified

allVars == <<vars, password, login, seen, asked, held>>

Steps == {"idle", "verify", "reply", "verified", "store", "granted", "refused", "failed"}

SessionsInit ==
    /\ Init
    /\ password \in [Users -> Passwords \cup {"none"}]
    /\ login = [l \in Logins |-> [step |-> "idle", given |-> "none"]]
    /\ seen = [l \in Logins |-> "none"]
    /\ asked = {}
    /\ held = [l \in Logins |-> {}]

At(l, step)   == login[l].step = step
Goes(l, step) == login' = [login EXCEPT ![l].step = step]

-----------------------------------------------------------------------------
(***************************************************************************)
(* auth_user: one statement on the pool each                               *)
(***************************************************************************)
HeldBy(u, p) == [l \in Logins |-> IF email[l] = u /\ At(l, "verify") THEN held[l] \cup {p} ELSE held[l]]

\* criar; a second user of that address is refused (UNIQUE).
CriarUser(u, p) ==
    /\ password[u] = "none"
    /\ password' = [password EXCEPT ![u] = p]
    /\ held' = HeldBy(u, p)
    /\ UNCHANGED <<vars, login, seen, asked>>

AtualizarSenha(u, p) ==
    /\ password[u] # "none"
    /\ password' = [password EXCEPT ![u] = p]
    /\ held' = HeldBy(u, p)
    /\ UNCHANGED <<vars, login, seen, asked>>

-----------------------------------------------------------------------------
(***************************************************************************)
(* The handler Login of runtime_api, and login()                           *)
(***************************************************************************)
StartLogin(l, p) ==
    /\ At(l, "idle")
    /\ login' = [login EXCEPT ![l] = [step |-> "verify", given |-> p]]
    /\ held' = [held EXCEPT ![l] = {password[email[l]]}]
    /\ UNCHANGED <<vars, password, seen, asked>>

\* handler_verify_credentials of data_postgres: the row is read ...
RowOf(u) == password[u]

BuscarPorEmail(l) ==
    /\ At(l, "verify")
    /\ seen' = [seen EXCEPT ![l] = RowOf(email[l])]
    /\ Goes(l, "reply")
    /\ UNCHANGED <<vars, password, asked, held>>

\* ... and the hash in it verified: an answer, or an error for login() to hand on.
Verifies(l) == seen[l] # "none" /\ seen[l] = login[l].given

VerifyPassword(l) ==
    /\ At(l, "reply")
    /\ Verifies(l)
    /\ Goes(l, "verified")
    /\ UNCHANGED <<vars, password, seen, asked, held>>

RefuseLogin(l) ==
    /\ At(l, "reply")
    /\ ~Verifies(l)
    /\ Goes(l, "refused")
    /\ UNCHANGED <<vars, password, seen, asked, held>>

\* A plausible slip: the token is stored while the credentials are verified.
AskStoreEarly(l) ==
    /\ login[l].step \in {"verify", "reply", "verified"}
    /\ l \notin asked
    /\ asked' = asked \cup {l}
    /\ IF At(l, "verified") THEN Goes(l, "store") ELSE UNCHANGED login
    /\ UNCHANGED <<vars, password, seen, held>>

\* The tokens are drawn, and StoreRefreshToken is called.
AskStore(l) ==
    /\ At(l, "verified")
    /\ asked' = asked \cup {l}
    /\ Goes(l, "store")
    /\ UNCHANGED <<vars, password, seen, held>>

\* A plausible slip: the answer of StoreRefreshToken is not awaited.
GrantUnstored(l) ==
    /\ At(l, "store")
    /\ Goes(l, "granted")
    /\ UNCHANGED <<vars, password, seen, asked, held>>

\* The answer is Ok; the tokens are the answer of Login.
Grant(l) ==
    /\ At(l, "store")
    /\ l \in stored
    /\ Goes(l, "granted")
    /\ UNCHANGED <<vars, password, seen, asked, held>>

\* A connection fails, a call runs into its deadline, or an error comes back.
LoginFails(l) ==
    /\ login[l].step \in {"verify", "reply", "verified", "store"}
    /\ Fault
    /\ Goes(l, "failed")
    /\ UNCHANGED <<now, tokenVars, familyVars, op, history, password, seen, asked, held>>

-----------------------------------------------------------------------------
(***************************************************************************)
(* data_redis                                                              *)
(***************************************************************************)
\* The handler StoreRefreshToken.  A token that is no login's may be stored by
\* any caller, a login's only by the request of that login.
StoreRefreshToken(w) == \E t \in (Tokens \ Logins) \cup asked : Store(w, t)

\* The handler ValidateAndRotate.
ValidateAndRotate(w) == \E t \in Tokens : Get(w, t)

DataRedis ==
    /\ \/ Tick
       \/ \E w \in Workers :
            \/ StoreRefreshToken(w)
            \/ ValidateAndRotate(w)
            \/ \E t \in Tokens : RevokeToken(w, t)
            \/ \E f \in Families : Revoke(w, f)
            \/ Index(w) \/ RenewFamily(w) \/ Mark(w)
            \/ ListMembers(w) \/ DeleteToken(w) \/ DeleteFamily(w)
            \/ Abandon(w)
    /\ UNCHANGED <<password, login, seen, asked, held>>

Login(l) ==
    \/ \E p \in Passwords : StartLogin(l, p)
    \/ BuscarPorEmail(l) \/ VerifyPassword(l) \/ RefuseLogin(l)
    \/ AskStore(l) \/ Grant(l) \/ LoginFails(l)

UserChange(u) ==
    \E p \in Passwords : CriarUser(u, p) \/ AtualizarSenha(u, p)

SessionsNext ==
    \/ DataRedis
    \/ \E l \in Logins : Login(l)
    \/ \E u \in Users : UserChange(u)

SessionsSpec == SessionsInit /\ [][SessionsNext]_allVars

-----------------------------------------------------------------------------
(***************************************************************************)
(* Properties                                                              *)
(***************************************************************************)
\* No refresh token of a login exists, granted or left over by a call that failed,
\* unless the password given was the user's at some moment of this very login's
\* verification, however the row changed around it.
StoredKnewPassword == \A l \in Logins \cap created : login[l].given \in held[l]

\* Logout and the answer to reuse reach every usable token: one that armazenar has
\* stored, or that a login was granted, is in the set of its family for as long as it
\* can be used.  The exceptions are named: a revocation that overlaps the store deletes
\* the set after listing it, and the set may expire between SADD and EXPIRE, whose
\* answer armazenar ignores.
UsableIsRevocable ==
    \A t \in stored \cup {l \in Logins : At(l, "granted")} :
        token[t] = "fresh" => t \in members[family_id[t]] \cup missed
=============================================================================
