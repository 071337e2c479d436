----------------------------- MODULE SecretsCache -----------------------------
(***************************************************************************)
(* SecretsCache::get_key_value of src/cache.rs, called by concurrent       *)
(* requests for keys of one secret.  The cache is read under a read lock;  *)
(* on a miss the caller takes the write lock and holds it while it asks    *)
(* the API server.  The value of a key is the version of the secret it was *)
(* read from.                                                              *)
(***************************************************************************)
EXTENDS Integers

CONSTANTS
    Requests,            \* callers, each of which asks once
    Keys,                \* keys of the secret that are asked for
    MaxVersion,          \* bound: times the secret is changed
    KeysAt,              \* [0..MaxVersion -> keys that version has]
    expiration_timeout,  \* in ticks
    MaxTime              \* bound on the clock

ASSUME VersionsAssumption ==
    MaxVersion \in Nat /\ KeysAt \in [0..MaxVersion -> SUBSET Keys]
ASSUME TimeAssumption == expiration_timeout \in Nat /\ MaxTime \in Nat

Version == 0..MaxVersion

Err == -1     \* get_key_value returned an error, or nothing yet

VARIABLES
    version,  \* of the secret in the API server
    now,      \* SystemTime::now()
    cache,    \* the entry of the secret; version Err: there is none
    get,      \* [Requests -> where the call is]
    key,      \* [Requests -> the key it asks for]
    reply,    \* [Requests -> the version the API server answered with]
    value,    \* [Requests -> result]
    newest,   \* history: the newest version that a call returned
    floor     \* history: [Requests -> newest when the call began]

secretVars == <<version, now, cache, get, key, reply, value, newest, floor>>

SecretTypeOK ==
    /\ version \in Version
    /\ now \in 0..MaxTime
    /\ cache \in [version : Version \cup {Err}, expires_at : Nat]
    /\ get \in [Requests -> {"idle", "read", "write", "query", "reply", "done"}]
    /\ key \in [Requests -> Keys]
    /\ reply \in [Requests -> Version \cup {Err}]
    /\ value \in [Requests -> Version \cup {Err}]
    /\ newest \in Version \cup {Err}
    /\ floor \in [Requests -> Version \cup {Err}]

SecretInit ==
    /\ version = 0
    /\ now = 0
    /\ cache = [version |-> Err, expires_at |-> 0]
    /\ get = [r \in Requests |-> "idle"]
    /\ key \in [Requests -> Keys]
    /\ reply = [r \in Requests |-> Err]
    /\ value = [r \in Requests |-> Err]
    /\ newest = Err
    /\ floor = [r \in Requests |-> Err]

-----------------------------------------------------------------------------
(* External: the secret is changed, time passes.                           *)

Rotate ==
    /\ version < MaxVersion
    /\ version' = version + 1
    /\ UNCHANGED <<now, cache, get, key, reply, value, newest, floor>>

Tick ==
    /\ now < MaxTime
    /\ now' = now + 1
    /\ UNCHANGED <<version, cache, get, key, reply, value, newest, floor>>

-----------------------------------------------------------------------------
(* get_key_value.                                                          *)

WriteLocked == \E r \in Requests : get[r] \in {"query", "reply"}

GetKeyValue(r) ==
    /\ get[r] = "idle"
    /\ get' = [get EXCEPT ![r] = "read"]
    /\ floor' = [floor EXCEPT ![r] = newest]
    /\ UNCHANGED <<version, now, cache, key, reply, value, newest>>

Return(r, v) ==
    /\ get' = [get EXCEPT ![r] = "done"]
    /\ value' = [value EXCEPT ![r] = v]
    /\ newest' = IF v > newest THEN v ELSE newest

InCache(r) ==
    /\ cache.version # Err
    /\ cache.expires_at > now
    /\ key[r] \in KeysAt[cache.version]

\* The read lock is held without an await: the look-up is one step.
Lookup(r) ==
    /\ get[r] = "read"
    /\ ~WriteLocked
    /\ \/ /\ InCache(r)
          /\ Return(r, cache.version)
       \/ /\ ~InCache(r)
          /\ get' = [get EXCEPT ![r] = "write"]
          /\ UNCHANGED <<value, newest>>
    /\ UNCHANGED <<version, now, cache, key, reply, floor>>

\* Mutant: the API server is asked without the lock.
TakeLockNever(r) ==
    /\ get[r] = "write"
    /\ get' = [get EXCEPT ![r] = "query"]
    /\ UNCHANGED <<version, now, cache, key, reply, value, newest, floor>>

\* The cache is not looked up again.
TakeLock(r) ==
    /\ get[r] = "write"
    /\ ~WriteLocked
    /\ get' = [get EXCEPT ![r] = "query"]
    /\ UNCHANGED <<version, now, cache, key, reply, value, newest, floor>>

\* External: the API server reads the secret; its answer is on the way.
Answer(r) ==
    /\ get[r] = "query"
    /\ reply' = [reply EXCEPT ![r] = version]
    /\ get' = [get EXCEPT ![r] = "reply"]
    /\ UNCHANGED <<version, now, cache, key, value, newest, floor>>

\* The request fails, or (after Answer) the secret lacks the key: the entry
\* of the cache, expired or not, stays.
QueryFails(r) ==
    /\ \/ get[r] = "query"
       \/ get[r] = "reply" /\ key[r] \notin KeysAt[reply[r]]
    /\ Return(r, Err)
    /\ UNCHANGED <<version, now, cache, key, reply, floor>>

Save(r) ==
    /\ get[r] = "reply"
    /\ key[r] \in KeysAt[reply[r]]
    /\ cache' = [version |-> reply[r], expires_at |-> now + expiration_timeout]
    /\ Return(r, reply[r])
    /\ UNCHANGED <<version, now, key, reply, floor>>

\* The caller is dropped at an await; a lock it holds is released.
Cancel(r) ==
    /\ get' = [get EXCEPT ![r] = "done"]
    /\ UNCHANGED <<version, now, cache, key, reply, value, newest, floor>>

GetStep(r) ==
    Lookup(r) \/ TakeLock(r) \/ Answer(r) \/ QueryFails(r) \/ Save(r)

-----------------------------------------------------------------------------
(* Properties.                                                             *)

\* The cache never goes back in time: a call does not return an older version
\* of the secret than a call that had returned before it began, however their
\* queries overlap, fail or are dropped.
MonotoneReads ==
    \A r \in Requests : get[r] = "done" /\ value[r] # Err => value[r] >= floor[r]
=============================================================================
