-------------------------- MODULE SecretsCacheProofs --------------------------
(***************************************************************************)
(* Lemmas about get_key_value of the SecretsCache, for any number of       *)
(* callers, keys and versions of the secret.  The argument: one caller at  *)
(* a time holds the write lock, so that the answer it waits for is at      *)
(* least as new as the entry it is going to replace, and the entry is      *)
(* always at least as new as anything that was returned.                   *)
(***************************************************************************)
EXTENDS SecretsCache, TLAPS

OneLocks ==
    \A r, q \in Requests :
        get[r] \in {"query", "reply"} /\ get[q] \in {"query", "reply"} => r = q

\* What was returned, what is kept, what is on its way and what the API server has,
\* from the oldest to the newest.
VersionsInOrder ==
    /\ newest <= cache.version
    /\ cache.version <= version
    /\ \A r \in Requests :
          /\ floor[r] <= newest
          /\ get[r] = "reply" => cache.version <= reply[r] /\ reply[r] <= version /\ reply[r] # Err

\* A caller has a value only at its end: one that is not older than what had been
\* returned when it began, and that the secret really had for its key.
ValuesGood ==
    \A r \in Requests :
        /\ get[r] # "done" => value[r] = Err
        /\ value[r] # Err => /\ value[r] >= floor[r] /\ value[r] <= version
                             /\ key[r] \in KeysAt[value[r]]

SecretInv == SecretTypeOK /\ OneLocks /\ VersionsInOrder /\ ValuesGood

SecretStep ==
    \/ Rotate \/ Tick
    \/ \E r \in Requests : GetKeyValue(r) \/ GetStep(r) \/ Cancel(r)

LEMMA SecretInvInit == SecretInit => SecretInv
<1> SUFFICES ASSUME SecretInit PROVE SecretInv
  OBVIOUS
<1>1. SecretTypeOK
  BY VersionsAssumption, TimeAssumption DEF SecretInit, SecretTypeOK, Version, Err
<1>2. OneLocks /\ ValuesGood
  BY DEF SecretInit, OneLocks, ValuesGood
<1>3. VersionsInOrder
  BY DEF SecretInit, VersionsInOrder, Err
<1> QED
  BY <1>1, <1>2, <1>3 DEF SecretInv

\* The secret's own life: a new version, and time that passes.
LEMMA SecretOutside ==
    ASSUME SecretInv, Rotate \/ Tick
    PROVE  SecretInv' /\ version' >= version /\ UNCHANGED <<key, value>>
<1>t. SecretTypeOK
  BY DEF SecretInv
<1>1. /\ version' \in Version /\ version' >= version /\ now' \in 0..MaxTime
      /\ UNCHANGED <<cache, get, key, reply, value, newest, floor>>
  BY <1>t, VersionsAssumption, TimeAssumption DEF Rotate, Tick, SecretTypeOK, Version
<1>2. SecretTypeOK' /\ OneLocks'
  BY <1>1 DEF SecretInv, SecretTypeOK, OneLocks
<1>3. VersionsInOrder'
  BY <1>1, <1>t DEF SecretInv, SecretTypeOK, VersionsInOrder, Version, Err
<1>4. ValuesGood'
  BY <1>1, <1>t DEF SecretInv, SecretTypeOK, ValuesGood, Version, Err
<1> QED
  BY <1>1, <1>2, <1>3, <1>4 DEF SecretInv

\* The steps that return nothing.
LEMMA SecretWaits ==
    ASSUME SecretInv, NEW r \in Requests,
           \/ GetKeyValue(r) \/ TakeLock(r) \/ Answer(r) \/ Cancel(r)
           \/ Lookup(r) /\ ~InCache(r)
    PROVE  SecretInv'
<1>t. /\ version \in Version /\ cache.version \in Version \cup {Err}
      /\ get \in [Requests -> {"idle", "read", "write", "query", "reply", "done"}]
      /\ reply \in [Requests -> Version \cup {Err}] /\ value \in [Requests -> Version \cup {Err}]
      /\ newest \in Version \cup {Err} /\ floor \in [Requests -> Version \cup {Err}]
      /\ OneLocks /\ VersionsInOrder /\ ValuesGood
  BY DEF SecretInv, SecretTypeOK
<1>1. CASE GetKeyValue(r)
  <2>1. /\ get[r] = "idle" /\ get' = [get EXCEPT ![r] = "read"]
        /\ floor' = [floor EXCEPT ![r] = newest]
        /\ UNCHANGED <<version, now, cache, key, reply, value, newest>>
    BY <1>1 DEF GetKeyValue
  <2>2. SecretTypeOK'
    BY <1>t, <2>1 DEF SecretInv, SecretTypeOK
  <2>3. OneLocks'
    BY <1>t, <2>1 DEF OneLocks
  <2>4. VersionsInOrder'
    BY <1>t, <2>1 DEF VersionsInOrder, Version, Err
  <2>5. ValuesGood'
    BY <1>t, <2>1 DEF ValuesGood
  <2> QED
    BY <2>2, <2>3, <2>4, <2>5 DEF SecretInv
<1>2. CASE TakeLock(r)
  <2>1. /\ get[r] = "write" /\ get' = [get EXCEPT ![r] = "query"]
        /\ \A q \in Requests : get[q] \notin {"query", "reply"}
        /\ UNCHANGED <<version, now, cache, key, reply, value, newest, floor>>
    BY <1>2 DEF TakeLock, WriteLocked
  <2>2. SecretTypeOK'
    BY <1>t, <2>1 DEF SecretInv, SecretTypeOK
  <2>3. OneLocks'
    BY <1>t, <2>1 DEF OneLocks
  <2>4. VersionsInOrder' /\ ValuesGood'
    BY <1>t, <2>1 DEF VersionsInOrder, ValuesGood
  <2> QED
    BY <2>2, <2>3, <2>4 DEF SecretInv
<1>3. CASE Answer(r)
  <2>1. /\ get[r] = "query" /\ get' = [get EXCEPT ![r] = "reply"]
        /\ reply' = [reply EXCEPT ![r] = version]
        /\ UNCHANGED <<version, now, cache, key, value, newest, floor>>
    BY <1>3 DEF Answer
  <2>2. SecretTypeOK'
    BY <1>t, <2>1 DEF SecretInv, SecretTypeOK
  <2>3. OneLocks'
    BY <1>t, <2>1 DEF OneLocks
  <2>4. VersionsInOrder'
    BY <1>t, <2>1 DEF VersionsInOrder, Version, Err
  <2>5. ValuesGood'
    BY <1>t, <2>1 DEF ValuesGood
  <2> QED
    BY <2>2, <2>3, <2>4, <2>5 DEF SecretInv
<1>4. CASE Cancel(r)
  <2>1. /\ get' = [get EXCEPT ![r] = "done"]
        /\ UNCHANGED <<version, now, cache, key, reply, value, newest, floor>>
    BY <1>4 DEF Cancel
  <2>2. SecretTypeOK'
    BY <1>t, <2>1 DEF SecretInv, SecretTypeOK
  <2>3. OneLocks' /\ VersionsInOrder' /\ ValuesGood'
    BY <1>t, <2>1 DEF OneLocks, VersionsInOrder, ValuesGood
  <2> QED
    BY <2>2, <2>3 DEF SecretInv
<1>5. CASE Lookup(r) /\ ~InCache(r)
  <2>1. /\ get[r] = "read" /\ get' = [get EXCEPT ![r] = "write"]
        /\ UNCHANGED <<version, now, cache, key, reply, value, newest, floor>>
    BY <1>5 DEF Lookup
  <2>2. SecretTypeOK'
    BY <1>t, <2>1 DEF SecretInv, SecretTypeOK
  <2>3. OneLocks' /\ VersionsInOrder' /\ ValuesGood'
    BY <1>t, <2>1 DEF OneLocks, VersionsInOrder, ValuesGood
  <2> QED
    BY <2>2, <2>3 DEF SecretInv
<1> QED
  BY <1>1, <1>2, <1>3, <1>4, <1>5

\* A step that returns v, which is an error or at least as new as the cache was.
LEMMA SecretReturns ==
    ASSUME SecretInv, NEW r \in Requests, NEW v \in Version \cup {Err}, Return(r, v),
           get[r] # "done",
           v # Err => v <= version /\ key[r] \in KeysAt[v] /\ cache.version <= v,
           cache' \in [version : Version \cup {Err}, expires_at : Nat],
           \/ cache' = cache /\ v \in {Err, cache.version}
           \/ cache'.version = v /\ v # Err /\ get[r] = "reply",
           UNCHANGED <<version, now, key, reply, floor>>
    PROVE  SecretInv'
<1>t. /\ version \in Version /\ cache.version \in Version \cup {Err}
      /\ get \in [Requests -> {"idle", "read", "write", "query", "reply", "done"}]
      /\ reply \in [Requests -> Version \cup {Err}] /\ value \in [Requests -> Version \cup {Err}]
      /\ newest \in Version \cup {Err} /\ floor \in [Requests -> Version \cup {Err}]
      /\ OneLocks /\ VersionsInOrder /\ ValuesGood
  BY DEF SecretInv, SecretTypeOK
<1>1. /\ get' = [get EXCEPT ![r] = "done"] /\ value' = [value EXCEPT ![r] = v]
      /\ newest' = IF v > newest THEN v ELSE newest
  BY DEF Return
<1>2. newest' \in Version \cup {Err} /\ newest <= newest'
  BY <1>1, <1>t DEF Version, Err
<1>3. SecretTypeOK'
  BY <1>1, <1>2, <1>t DEF SecretInv, SecretTypeOK
<1>4. OneLocks'
  BY <1>1, <1>t DEF OneLocks
<1>5. newest' <= cache'.version /\ cache'.version <= version /\ cache.version <= cache'.version
  BY <1>1, <1>t DEF VersionsInOrder, Version, Err
<1>6. ASSUME NEW q \in Requests, get'[q] = "reply" PROVE cache'.version <= reply[q]
  <2>1. q # r /\ get[q] = "reply"
    BY <1>1, <1>6, <1>t
  <2>2. get[r] # "reply"
    BY <1>t, <2>1 DEF OneLocks
  <2> QED
    BY <1>t, <2>1, <2>2 DEF VersionsInOrder
<1>7. VersionsInOrder'
  <2>1. ASSUME NEW q \in Requests
        PROVE  /\ floor[q] <= newest'
               /\ get'[q] = "reply" => /\ cache'.version <= reply[q]
                                       /\ reply[q] <= version /\ reply[q] # Err
    <3>1. floor[q] <= newest'
      BY <1>2, <1>t DEF VersionsInOrder, Version, Err
    <3>2. get'[q] = "reply" => get[q] = "reply"
      BY <1>1, <1>t
    <3> QED
      BY <1>6, <1>t, <3>1, <3>2 DEF VersionsInOrder
  <2> QED
    BY <1>5, <2>1 DEF VersionsInOrder
<1>8. v # Err => v >= floor[r]
  BY <1>t DEF VersionsInOrder, Version, Err
<1>9. ValuesGood'
  BY <1>1, <1>8, <1>t DEF ValuesGood
<1> QED
  BY <1>3, <1>4, <1>7, <1>9 DEF SecretInv

LEMMA SecretInvStep ==
    ASSUME SecretInv, SecretStep \/ UNCHANGED secretVars
    PROVE  SecretInv'
<1>t. /\ version \in Version /\ now \in Nat /\ reply \in [Requests -> Version \cup {Err}]
      /\ cache \in [version : Version \cup {Err}, expires_at : Nat]
      /\ OneLocks /\ VersionsInOrder
  BY TimeAssumption DEF SecretInv, SecretTypeOK
<1>1. ASSUME NEW r \in Requests, Lookup(r), InCache(r) PROVE SecretInv'
  <2>1. /\ get[r] = "read" /\ Return(r, cache.version) /\ cache' = cache
        /\ UNCHANGED <<version, now, key, reply, floor>>
    BY <1>1 DEF Lookup
  <2>2. /\ cache.version \in Version \cup {Err} /\ cache.version <= version
        /\ key[r] \in KeysAt[cache.version] /\ cache.version <= cache.version
    BY <1>1, <1>t DEF InCache, VersionsInOrder, Version, Err
  <2> QED
    BY <1>t, <2>1, <2>2, SecretReturns
<1>2. ASSUME NEW r \in Requests, QueryFails(r) PROVE SecretInv'
  <2>1. /\ get[r] # "done" /\ Return(r, Err) /\ cache' = cache
        /\ UNCHANGED <<version, now, key, reply, floor>>
    BY <1>2 DEF QueryFails
  <2> QED
    BY <1>t, <2>1, SecretReturns
<1>3. ASSUME NEW r \in Requests, Save(r) PROVE SecretInv'
  <2>1. /\ get[r] = "reply" /\ Return(r, reply[r]) /\ key[r] \in KeysAt[reply[r]]
        /\ cache' = [version |-> reply[r], expires_at |-> now + expiration_timeout]
        /\ UNCHANGED <<version, now, key, reply, floor>>
    BY <1>3 DEF Save
  <2>2. /\ reply[r] \in Version \cup {Err} /\ reply[r] # Err /\ reply[r] <= version
        /\ cache.version <= reply[r]
    BY <1>t, <2>1 DEF VersionsInOrder
  <2>3. /\ cache' \in [version : Version \cup {Err}, expires_at : Nat]
        /\ cache'.version = reply[r]
    BY <1>t, <2>1, <2>2, TimeAssumption
  <2> QED
    BY <2>1, <2>2, <2>3, SecretReturns
<1>4. CASE UNCHANGED secretVars
  BY <1>4 DEF secretVars, SecretInv, SecretTypeOK, OneLocks, VersionsInOrder, ValuesGood
<1>5. CASE Rotate \/ Tick
  BY <1>5, SecretOutside
<1>6. ASSUME NEW r \in Requests, GetKeyValue(r) \/ GetStep(r) \/ Cancel(r) PROVE SecretInv'
  BY <1>1, <1>2, <1>3, <1>6, SecretWaits DEF GetStep
<1> QED
  BY <1>4, <1>5, <1>6 DEF SecretStep

LEMMA SecretInvReads == SecretInv => MonotoneReads
BY DEF SecretInv, ValuesGood, MonotoneReads

\* The secret is only ever replaced by a newer version, and a caller never changes the key.
LEMMA SecretGoesOn ==
    ASSUME SecretInv, SecretStep \/ UNCHANGED secretVars
    PROVE  version' >= version /\ UNCHANGED key
<1>1. CASE UNCHANGED secretVars
  BY <1>1 DEF secretVars, SecretInv, SecretTypeOK, Version
<1>2. CASE Rotate \/ Tick
  BY <1>2, SecretOutside
<1>3. ASSUME NEW r \in Requests, GetKeyValue(r) \/ GetStep(r) \/ Cancel(r)
      PROVE  UNCHANGED <<version, key>>
  BY <1>3 DEF GetKeyValue, GetStep, Cancel, Lookup, TakeLock, Answer, QueryFails, Save
<1>4. version \in Int
  BY DEF SecretInv, SecretTypeOK, Version
<1> QED
  BY <1>1, <1>2, <1>3, <1>4 DEF SecretStep
=============================================================================
