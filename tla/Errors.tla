------------------------------- MODULE Errors -------------------------------
(***************************************************************************)
(* Errors on their way between services (error_core, and the errors of     *)
(* infrastructure_postgres and infrastructure_redis).  AppError has eight  *)
(* kinds and a text; its code is found by looking for words in the text,   *)
(* and it crosses a process boundary as an ErrorEnvelope, from which the   *)
(* next process builds an AppError again, around the whole text.           *)
(*                                                                         *)
(* A text is the set of the words the code looks for ("conexão" and        *)
(* "connection" are one word here, and so on).  The prefix that each kind  *)
(* puts before its text ("Erro de cache: ") contains none of them.         *)
(***************************************************************************)
EXTENDS Naturals

Kinds == {"Database", "Cache", "Storage", "Auth", "Validation", "Conflict",
          "RateLimit", "Internal"}

Words == {"expired", "missing", "scope", "connection", "nao encontrado", "not found",
          "constraint", "unavailable", "upload"}

AppErrors == [kind : Kinds, words : SUBSET Words]

\* AppError::code; the first word found decides.
Code(e) ==
    CASE e.kind = "Auth"     -> (CASE "expired" \in e.words -> "AUTH_EXPIRED_TOKEN"
                                   [] "expired" \notin e.words /\ "missing" \in e.words -> "AUTH_MISSING_TOKEN"
                                   [] e.words \cap {"expired", "missing", "scope"} = {"scope"} -> "AUTH_INSUFFICIENT_SCOPE"
                                   [] OTHER -> "AUTH_INVALID_TOKEN")
      [] e.kind = "Database" -> (IF "connection" \in e.words THEN "DB_CONNECTION_FAILED"
                                 ELSE IF e.words \cap {"nao encontrado", "not found"} # {} THEN "DB_RECORD_NOT_FOUND"
                                 ELSE IF "constraint" \in e.words THEN "DB_CONSTRAINT_VIOLATION"
                                 ELSE "DB_QUERY_FAILED")
      [] e.kind = "Cache"    -> (IF "unavailable" \in e.words THEN "CACHE_UNAVAILABLE" ELSE "CACHE_KEY_NOT_FOUND")
      [] e.kind = "Storage"  -> (IF e.words \cap {"nao encontrado", "not found"} # {} THEN "STORAGE_NOT_FOUND"
                                 ELSE IF "upload" \in e.words THEN "STORAGE_UPLOAD_FAILED"
                                 ELSE "STORAGE_DELETE_FAILED")
      [] e.kind = "Validation" -> "VALIDATION_FAILED"
      [] e.kind = "Conflict"   -> "CONFLICT"
      [] e.kind = "RateLimit"  -> "RATE_LIMIT_EXCEEDED"
      [] e.kind = "Internal"   -> "INTERNAL_ERROR"

AuthCodes     == {"AUTH_INVALID_TOKEN", "AUTH_EXPIRED_TOKEN", "AUTH_MISSING_TOKEN", "AUTH_INSUFFICIENT_SCOPE"}
StorageCodes  == {"STORAGE_NOT_FOUND", "STORAGE_UPLOAD_FAILED", "STORAGE_DELETE_FAILED"}
DatabaseCodes == {"DB_CONNECTION_FAILED", "DB_RECORD_NOT_FOUND", "DB_CONSTRAINT_VIOLATION", "DB_QUERY_FAILED"}
CacheCodes    == {"CACHE_UNAVAILABLE", "CACHE_KEY_NOT_FOUND"}

\* ErrorCode::category
Category(code) ==
    CASE code \in AuthCodes     -> "Auth"
      [] code \in StorageCodes  -> "Storage"
      [] code \in DatabaseCodes -> "Database"
      [] code \in CacheCodes    -> "Cache"
      [] code = "VALIDATION_FAILED"   -> "Validation"
      [] code = "CONFLICT"            -> "Conflict"
      [] code = "RATE_LIMIT_EXCEEDED" -> "RateLimit"
      [] OTHER -> "Internal"

RetryableCodes == {"DB_CONNECTION_FAILED", "CACHE_UNAVAILABLE", "STORAGE_UPLOAD_FAILED", "INTERNAL_ERROR"}

Retryable(e) == Code(e) \in RetryableCodes

Severity(e) ==
    IF \/ e.kind \in {"Auth", "Validation", "Conflict", "RateLimit"}
       \/ e.kind \in {"Storage", "Database", "Cache"} /\ "nao encontrado" \in e.words
    THEN "Warn" ELSE "Error"

\* The contract has no category for three of ours.
ProtoCategory(category) ==
    CASE category = "Storage" -> "NotFound"
      [] category \in {"Database", "Cache"} -> "Internal"
      [] OTHER -> category

\* AppError::to_error_envelope; the text of the message and of the error are the same words.
ToEnvelope(e) ==
    [code |-> Code(e), category |-> ProtoCategory(Category(Code(e))), severity |-> Severity(e),
     words |-> e.words, retryable |-> Retryable(e)]

\* A plausible slip: the codes of the cache are forgotten in the way back.
FromEnvelopeNoCache(env) ==
    [kind |-> CASE env.code \in AuthCodes     -> "Auth"
                [] env.code \in StorageCodes  -> "Storage"
                [] env.code \in DatabaseCodes -> "Database"
                [] env.code = "VALIDATION_FAILED"   -> "Validation"
                [] env.code = "CONFLICT"            -> "Conflict"
                [] env.code = "RATE_LIMIT_EXCEEDED" -> "RateLimit"
                [] OTHER -> "Internal",
     words |-> env.words]

\* AppError::from_envelope
FromEnvelope(env) ==
    [kind |-> CASE env.code \in AuthCodes     -> "Auth"
                [] env.code \in StorageCodes  -> "Storage"
                [] env.code \in DatabaseCodes -> "Database"
                [] env.code \in CacheCodes    -> "Cache"
                [] env.code = "VALIDATION_FAILED"   -> "Validation"
                [] env.code = "CONFLICT"            -> "Conflict"
                [] env.code = "RATE_LIMIT_EXCEEDED" -> "RateLimit"
                [] OTHER -> "Internal",
     words |-> env.words]

-----------------------------------------------------------------------------
(***************************************************************************)
(* DbError and RedisError                                                  *)
(***************************************************************************)
SqlxErrors == {"row not found", "pool", "io", "integrity", "other"}
DbErrors   == SqlxErrors \cup {"migration", "permission denied", "not found", "unique",
                               "crypto", "config"}

\* The words in what sqlx and Postgres say of a failure: a pool that times out
\* waits for a "connection", an integrity error names a "constraint", and other
\* texts may speak of either.  The error of a migration holds the text of the sqlx
\* error that it ran into.
SaidByPostgres(d) ==
    CASE d \in {"integrity", "unique"}  -> {{"constraint"}}
      [] d = "pool"                     -> {{"connection"}}
      [] d = "io"                       -> {{}, {"connection"}}
      [] d \in {"other", "migration"}   -> {{}, {"connection"}, {"constraint"}}
      [] OTHER                          -> {{}}

\* classificar_sqlx
ClassificarSqlx(d) ==
    CASE d = "row not found"   -> "DB_RECORD_NOT_FOUND"
      [] d \in {"pool", "io"}  -> "DB_CONNECTION_FAILED"
      [] d = "integrity"       -> "DB_CONSTRAINT_VIOLATION"
      [] d = "other"           -> "DB_QUERY_FAILED"

\* DbError::code
DbCode(d) ==
    CASE d \in SqlxErrors           -> ClassificarSqlx(d)
      [] d = "migration"            -> "DB_QUERY_FAILED"
      [] d = "permission denied"    -> "AUTH_INSUFFICIENT_SCOPE"
      [] d = "not found"            -> "DB_RECORD_NOT_FOUND"
      [] d = "unique"               -> "DB_CONSTRAINT_VIOLATION"
      [] d \in {"crypto", "config"} -> "INTERNAL_ERROR"

\* Its text: what the variant says, and what Postgres said.
DbText(d, said) ==
    said \cup (CASE d = "permission denied" -> {"scope"}
                 [] d = "not found"         -> {"nao encontrado"}
                 [] OTHER                   -> {})

\* From<DbError> for AppError
FromDbError(d, said) ==
    CASE DbCode(d) = "DB_RECORD_NOT_FOUND"     -> [kind |-> "Database", words |-> {"nao encontrado"}]
      [] DbCode(d) = "DB_CONNECTION_FAILED"    -> [kind |-> "Database", words |-> {"connection"} \cup DbText(d, said)]
      [] DbCode(d) = "DB_CONSTRAINT_VIOLATION" -> [kind |-> "Database", words |-> {"constraint"} \cup DbText(d, said)]
      [] DbCode(d) = "AUTH_INSUFFICIENT_SCOPE" -> [kind |-> "Auth", words |-> {"scope"}]
      [] DbCode(d) = "INTERNAL_ERROR"          -> [kind |-> "Internal", words |-> DbText(d, said)]
      [] DbCode(d) = "DB_QUERY_FAILED"         -> [kind |-> "Database", words |-> DbText(d, said)]

RedisErrors == {"unavailable", "command", "serde", "config", "not found", "reuse"}

\* RedisError::code
RedisCode(d) ==
    CASE d = "unavailable"              -> "CACHE_UNAVAILABLE"
      [] d \in {"command", "not found"} -> "CACHE_KEY_NOT_FOUND"
      [] d \in {"serde", "config"}      -> "INTERNAL_ERROR"
      [] d = "reuse"                    -> "AUTH_INVALID_TOKEN"

\* From<RedisError> for AppError
FromRedisError(d) ==
    LET text == IF d = "not found" THEN {"nao encontrado"} ELSE {} IN
    CASE RedisCode(d) = "CACHE_UNAVAILABLE"   -> [kind |-> "Cache", words |-> {"unavailable"}]
      [] RedisCode(d) = "CACHE_KEY_NOT_FOUND" -> [kind |-> "Cache", words |-> text]
      [] RedisCode(d) = "AUTH_INVALID_TOKEN"  -> [kind |-> "Auth", words |-> {}]
      [] RedisCode(d) = "INTERNAL_ERROR"      -> [kind |-> "Internal", words |-> text]

\* The handlers of data_postgres do not take that bridge: AppError::Database(err.to_string()).
HandlerError(d, said) == [kind |-> "Database", words |-> DbText(d, said)]

=============================================================================
