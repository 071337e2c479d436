-------------------------- MODULE WebhookFrontProofs --------------------------
(***************************************************************************)
(* Theorems about what stands before the handlers of the webhook server,   *)
(* for any command line, any number of requests and any clock: the start   *)
(* of the server, the layers that limit the rate of requests, and the      *)
(* secrets the requests read.                                              *)
(*                                                                         *)
(* The bound on the cells that one trigger takes of the global limit rests *)
(* on the arrival time that the limit of the trigger keeps: every cell     *)
(* moves it by a period at least, so that after n cells since a it is at   *)
(* a + n * period or later, and a request that would move it further than  *)
(* the burst allows is refused.                                            *)
(***************************************************************************)
EXTENDS WebhookFront, SecretsCacheProofs, FiniteSetTheorems

Serving == server \in {"plain", "encrypted"}

\* The server runs with the limits and the encryption that were asked for.
ServedAsAsked == (Serving => LimitsFine) /\ NeverPlainByMistake

\* A request takes its cell when it comes in.
SeatsInOrder ==
    /\ \A r \in Requests : /\ seat[r] <= now
                           /\ front[r] = "new" \/ ~Serving => seat[r] = Err
                           /\ ~Serving => front[r] = "new"
    /\ IsFiniteSet({r \in Requests : seat[r] # Err})

\* The cells of the global limit that requests for t have taken since a.
CellsSince(t, a) == {r \in Requests : path[r].trigger = t /\ seat[r] # Err /\ seat[r] >= a}

CellsCounted ==
    Serving /\ "Trigger" \in Given =>
        \A t \in Segments : \A a \in Nat : CellsSince(t, a) # {} =>
            /\ <<"Trigger", t>> \in DOMAIN tat
            /\ tat[<<"Trigger", t>>] >=
                  a + Cardinality(CellsSince(t, a)) * Period(options.limits["Trigger"])

\* Behind a key of the source's layer there is a request that passed.
KeysWerePassed ==
    Given = {"Source"} =>
        \A k \in DOMAIN tat : \E q \in Requests :
            /\ front[q] = "passed" /\ path[q].trigger # NoPart
            /\ k = KeyOf("Source", path[q], q)

FrontInv ==
    /\ SecretInv /\ FrontTypeOK /\ ServedAsAsked /\ SeatsInOrder
    /\ CellsCounted /\ GlobalCellsShared
    /\ KeysWerePassed /\ RefusedBySourceOnly

-----------------------------------------------------------------------------
(* The limits.                                                             *)

LEMMA PeriodType ==
    ASSUME NEW limit \in Limit, Valid(limit)
    PROVE  limit.burst \in Nat \ {0} /\ Period(limit) \in Nat
<1>1. limit.burst \in Nat \ {0} /\ limit.seconds \in Nat /\ Second \in Nat
  BY SecondAssumption DEF Limit, Valid
<1> DEFINE product == limit.seconds * Second
<1>2. product \in Nat
  BY <1>1
<1>3. Period(limit) = (2 * limit.seconds * Second + limit.burst) \div (2 * limit.burst)
  BY DEF Period
<1>4. 2 * limit.seconds * Second = 2 * product
  BY <1>1
<1> HIDE DEF product
<1> DEFINE x == 2 * product + limit.burst
           y == 2 * limit.burst
<1>5. x \in Nat /\ y \in Nat \ {0}
  BY <1>1, <1>2
<1>6. \A u \in Nat, v \in Nat \ {0} : u \div v \in Nat
  OBVIOUS
<1> HIDE DEF x, y
<1>7. x \div y \in Nat
  BY <1>5, <1>6
<1> QED
  BY <1>1, <1>3, <1>4, <1>7 DEF x, y

LEMMA LimitsType ==
    ASSUME options \in Options, LimitsFine, NEW l \in Given
    PROVE  options.limits[l].burst \in Nat \ {0} /\ Period(options.limits[l]) \in Nat
<1>1. options.limits[l] \in Limit /\ Valid(options.limits[l])
  BY OptionsAssumption DEF Given, LimitsFine
<1> QED
  BY <1>1, PeriodType

\* Arithmetic of cells and periods.
LEMMA OneMore ==
    ASSUME NEW n \in Nat, NEW P \in Nat
    PROVE  n * P \in Nat /\ (n + 1) * P = n * P + P
OBVIOUS

LEMMA RoomArithmetic ==
    ASSUME NEW n \in Nat, NEW P \in Nat, NEW B \in Nat \ {0}, NEW A \in Nat, NEW b \in Nat,
           NEW a \in Nat, A - b <= (B - 1) * P, A >= a + n * P
    PROVE  A + P >= a + (n + 1) * P /\ (n + 1 - B) * P <= b - a
OBVIOUS

-----------------------------------------------------------------------------
\* Options that the parser lets through and that build_tls_config takes for none.
LEMMA NothingAsked ==
    ASSUME NEW given \in SUBSET TlsOptions, TlsAccepted(given), TlsConfig(given) = "none"
    PROVE  given = {}
<1>1. "secret" \notin given /\ ~({"cert", "key"} \subseteq given)
  BY DEF TlsConfig
<1>2. "cert" \notin given /\ "key" \notin given /\ "namespace" \notin given
  BY <1>1 DEF TlsAccepted
<1> QED
  BY <1>1, <1>2 DEF TlsOptions

LEMMA FrontKinds ==
    ASSUME options \in Options, [FrontNext]_webVars
    PROVE  \/ \E result : /\ StartServer(result)
                          /\ result \in {"plain", "encrypted"} => LimitsFine
                          /\ result = "plain" => options.tls = {}
                          /\ result \in {"plain", "encrypted", "exited", "panicked"}
           \/ \E r \in Requests, p \in Paths : Arrive(r, p)
           \/ UNCHANGED frontVars /\ (SecretStep \/ UNCHANGED secretVars)
<1>1. CASE ParseRefused \/ TlsFails
  BY <1>1 DEF ParseRefused, TlsFails
<1>2. CASE RoutesPanic \/ LimitPanics
  BY <1>2 DEF RoutesPanic, LimitPanics
<1>3. CASE Serve
  <2>1. LimitsFine /\ TlsAccepted(options.tls)
    BY <1>3 DEF Serve, Parsed
  <2>2. StartServer(IF TlsConfig(options.tls) = "none" THEN "plain" ELSE "encrypted")
    BY <1>3 DEF Serve
  <2>3. TlsConfig(options.tls) = "none" => options.tls = {}
    <3>1. options.tls \in SUBSET TlsOptions
      BY OptionsAssumption
    <3> QED
      BY <2>1, <3>1, NothingAsked
  <2> QED
    BY <2>1, <2>2, <2>3
<1>4. CASE UNCHANGED webVars
  BY <1>4 DEF webVars
<1> QED
  BY <1>1, <1>2, <1>3, <1>4 DEF FrontNext, SecretStep

LEMMA FrontReads ==
    ASSUME options \in Options, [FrontNext]_webVars
    PROVE  SecretStep \/ UNCHANGED secretVars
<1>1. ASSUME NEW r \in Requests, NEW p \in Paths, Arrive(r, p)
      PROVE  GetKeyValue(r) \/ UNCHANGED secretVars
  BY <1>1 DEF Arrive, Handle
<1>2. ASSUME NEW result, StartServer(result) PROVE UNCHANGED secretVars
  BY <1>2 DEF StartServer
<1> QED
  BY <1>1, <1>2, FrontKinds DEF SecretStep

LEMMA FrontInvInit == FrontInit => FrontInv
<1> SUFFICES ASSUME FrontInit PROVE FrontInv
  OBVIOUS
<1>1. SecretInv
  BY SecretInvInit DEF FrontInit
<1>2. /\ options \in Options /\ server = "none" /\ \A r \in Requests : seat[r] = Err /\ front[r] = "new"
      /\ DOMAIN tat = {}
  BY DEF FrontInit
<1>3. FrontTypeOK
  BY <1>1 DEF FrontInit, FrontTypeOK, SecretInv, Paths
<1>4. now \in Nat
  BY <1>1, TimeAssumption DEF SecretInv, SecretTypeOK
<1>5. {r \in Requests : seat[r] # Err} = {}
  BY <1>2
<1>6. ServedAsAsked /\ SeatsInOrder
  BY <1>2, <1>4, <1>5, FS_EmptySet DEF ServedAsAsked, Serving, NeverPlainByMistake, SeatsInOrder, Err
<1>7. CellsCounted /\ GlobalCellsShared
  BY <1>2 DEF CellsCounted, Serving, GlobalCellsShared
<1>8. KeysWerePassed /\ RefusedBySourceOnly
  BY <1>2 DEF KeysWerePassed, RefusedBySourceOnly
<1> QED
  BY <1>1, <1>3, <1>6, <1>7, <1>8 DEF FrontInv

\* Everything but the secret: what the steps below have to keep.
FrontRest ==
    /\ ServedAsAsked /\ SeatsInOrder /\ CellsCounted /\ GlobalCellsShared
    /\ KeysWerePassed /\ RefusedBySourceOnly

FrontTypes ==
    /\ options \in Options
    /\ server \in {"none", "plain", "encrypted", "exited", "panicked"}
    /\ path \in [Requests -> Paths]
    /\ front \in [Requests -> {"new", "passed", "refused", "malformed"}]
    /\ \A k \in DOMAIN tat : tat[k] \in Nat
    /\ seat \in [Requests -> Nat \cup {Err}]

LEMMA FrontInvParts ==
    ASSUME FrontInv
    PROVE  /\ SecretInv /\ FrontTypes /\ FrontRest
           /\ now \in Nat
BY TimeAssumption DEF FrontInv, FrontTypeOK, FrontTypes, FrontRest, SecretInv, SecretTypeOK

LEMMA StartStep ==
    ASSUME FrontInv, NEW result, StartServer(result),
           result \in {"plain", "encrypted"} => LimitsFine,
           result = "plain" => options.tls = {},
           result \in {"plain", "encrypted", "exited", "panicked"}
    PROVE  FrontTypes' /\ FrontRest'
<1>1. /\ server = "none" /\ server' = result /\ UNCHANGED <<options, path, front, tat, seat>>
      /\ UNCHANGED now
  BY DEF StartServer, secretVars
<1>t. FrontTypes /\ FrontRest /\ now \in Nat
  BY FrontInvParts
<1>2. FrontTypes'
  BY <1>1, <1>t DEF FrontTypes
<1>3. \A r \in Requests : seat[r] = Err /\ front[r] = "new"
  BY <1>1, <1>t DEF FrontRest, SeatsInOrder, Serving
<1>4. UNCHANGED Given /\ (LimitsFine => LimitsFine')
  BY <1>1 DEF Given, LimitsFine
<1>5. ServedAsAsked'
  BY <1>1, <1>4 DEF ServedAsAsked, Serving, NeverPlainByMistake
<1>6. SeatsInOrder'
  BY <1>1, <1>3, <1>t DEF FrontRest, SeatsInOrder
<1>7. CellsCounted'
  <2>1. \A t, a : CellsSince(t, a)' = {}
    BY <1>1, <1>3 DEF CellsSince
  <2> QED
    BY <2>1 DEF CellsCounted
<1>8. GlobalCellsShared'
  <2> DEFINE limit == options.limits["Trigger"]
             Taken(t, a, b) == {r \in Requests : path[r].trigger = t /\ seat[r] \in a..b}
  <2> SUFFICES ASSUME Serving', "Trigger" \in Given, NEW t \in Segments,
                      NEW a \in 0..now, NEW b \in 0..now, a <= b
               PROVE  (Cardinality(Taken(t, a, b)) - limit.burst) * Period(limit) <= b - a
    BY <1>1, <1>4 DEF GlobalCellsShared, Serving
  <2>1. Taken(t, a, b) = {}
    BY <1>3 DEF Err
  <2>2. Cardinality({}) = 0
    BY FS_EmptySet
  <2>3. limit.burst \in Nat /\ Period(limit) \in Nat
    BY <1>1, <1>t, LimitsType DEF Serving, FrontTypes
  <2> HIDE DEF limit, Taken
  <2>4. (0 - limit.burst) * Period(limit) <= 0 /\ (0 - limit.burst) * Period(limit) \in Int
    BY <2>3
  <2> QED
    BY <1>t, <2>1, <2>2, <2>4
<1>9. KeysWerePassed' /\ RefusedBySourceOnly'
  BY <1>1, <1>4, <1>t DEF FrontRest, KeysWerePassed, RefusedBySourceOnly, KeyOf
<1> QED
  BY <1>2, <1>5, <1>6, <1>7, <1>8, <1>9 DEF FrontRest

\* Time passes, and the secret lives on.
LEMMA QuietStep ==
    ASSUME FrontInv, UNCHANGED frontVars, now' \in Nat, now' = now \/ now' = now + 1
    PROVE  FrontTypes' /\ FrontRest'
<1>1. UNCHANGED <<options, server, path, front, tat, seat>>
  BY DEF frontVars
<1>t. FrontTypes /\ FrontRest /\ now \in Nat
  BY FrontInvParts
<1>2. FrontTypes'
  BY <1>1, <1>t DEF FrontTypes
<1>3. UNCHANGED Given /\ (LimitsFine => LimitsFine') /\ (Serving' <=> Serving)
  BY <1>1 DEF Given, LimitsFine, Serving
<1>4. ServedAsAsked'
  BY <1>1, <1>3, <1>t DEF FrontRest, ServedAsAsked, NeverPlainByMistake
<1>5. \A r \in Requests : seat[r] <= now /\ seat[r] \in Nat \cup {Err}
  BY <1>t DEF FrontRest, SeatsInOrder, FrontTypes
<1>6. \A r \in Requests : seat[r] <= now'
  BY <1>5, <1>t DEF Err
<1>7. SeatsInOrder'
  BY <1>1, <1>3, <1>6, <1>t DEF FrontRest, SeatsInOrder
<1>8. CellsCounted'
  <2>1. \A t, a : CellsSince(t, a)' = CellsSince(t, a)
    BY <1>1 DEF CellsSince
  <2> QED
    BY <1>1, <1>3, <1>t, <2>1 DEF FrontRest, CellsCounted, Period
<1>9. GlobalCellsShared'
  <2> DEFINE limit == options.limits["Trigger"]
             Taken(t, a, b) == {r \in Requests : path[r].trigger = t /\ seat[r] \in a..b}
  <2> SUFFICES ASSUME Serving, "Trigger" \in Given, NEW t \in Segments,
                      NEW a \in 0..now', NEW b \in 0..now', a <= b
               PROVE  (Cardinality(Taken(t, a, b)) - limit.burst) * Period(limit) <= b - a
    BY <1>1, <1>3 DEF GlobalCellsShared, Serving
  <2>1. CASE b \in 0..now
    <3>1. a \in 0..now
      BY <1>t, <2>1
    <3> QED
      BY <1>t, <2>1, <3>1 DEF FrontRest, GlobalCellsShared, Serving
  <2>2. CASE b = now + 1 /\ a \in 0..now
    <3>1. Taken(t, a, b) = Taken(t, a, now)
      BY <1>5, <1>t, <2>2 DEF Err
    <3>2. now \in 0..now /\ a <= now
      BY <1>t, <2>2
    <3>3. (Cardinality(Taken(t, a, now)) - limit.burst) * Period(limit) <= now - a
      BY <1>t, <2>2, <3>2 DEF FrontRest, GlobalCellsShared, Serving
    <3>4. limit.burst \in Nat /\ Period(limit) \in Nat
      BY <1>t, LimitsType DEF FrontTypes, FrontRest, ServedAsAsked
    <3>5. IsFiniteSet(Taken(t, a, now))
      <4>1. Taken(t, a, now) \subseteq {r \in Requests : seat[r] # Err}
        BY <1>t, <2>2 DEF Err
      <4> QED
        BY <1>t, <4>1, FS_Subset DEF FrontRest, SeatsInOrder
    <3>6. Cardinality(Taken(t, a, now)) \in Nat
      BY <3>5, FS_CardinalityType
    <3> HIDE DEF limit, Taken
    <3>7. (Cardinality(Taken(t, a, now)) - limit.burst) * Period(limit) \in Int
      BY <3>4, <3>6
    <3> QED
      BY <1>t, <2>2, <3>1, <3>3, <3>7
  <2>3. CASE b = now + 1 /\ a = now + 1
    <3>1. Taken(t, a, b) = {}
      BY <1>5, <1>t, <2>3 DEF Err
    <3>2. Cardinality({}) = 0
      BY FS_EmptySet
    <3>3. limit.burst \in Nat /\ Period(limit) \in Nat
      BY <1>t, LimitsType DEF FrontTypes, FrontRest, ServedAsAsked
    <3> HIDE DEF limit, Taken
    <3>4. (0 - limit.burst) * Period(limit) <= 0
      BY <3>3
    <3>5. b - a = 0 /\ Cardinality(Taken(t, a, b)) = 0
      BY <1>t, <2>3, <3>1, <3>2
    <3> QED
      BY <3>4, <3>5
  <2> QED
    BY <1>t, <2>1, <2>2, <2>3
<1>10. KeysWerePassed' /\ RefusedBySourceOnly'
  BY <1>1, <1>3, <1>t DEF FrontRest, KeysWerePassed, RefusedBySourceOnly, KeyOf
<1> QED
  BY <1>2, <1>4, <1>7, <1>8, <1>9, <1>10 DEF FrontRest

-----------------------------------------------------------------------------
(* A request comes in.                                                     *)

\* Who is charged has let the request through, and so has everything further out.
LEMMA ChargedLets ==
    ASSUME NEW p, NEW r
    PROVE  /\ Charged(p, r) \subseteq Given
           /\ \A l \in Charged(p, r) : Extractable(l, p) /\ Conforms(l, KeyOf(l, p, r))
           /\ "Global" \in Charged(p, r) /\ "Trigger" \in Given => "Trigger" \in Charged(p, r)
<1>1. /\ LayerOrder["Source"] = 1 /\ LayerOrder["Trigger"] = 2 /\ LayerOrder["Global"] = 3
      /\ Given \subseteq {"Global", "Trigger", "Source"}
  BY DEF LayerOrder, Given, Layers
<1>2. \A m \in Given : LayerOrder[m] <= LayerOrder["Trigger"] => LayerOrder[m] <= LayerOrder["Global"]
  BY <1>1
<1>3. LayerOrder["Trigger"] <= LayerOrder["Global"]
  BY <1>1
<1> DEFINE lets == {l \in Given : Extractable(l, p) /\ Conforms(l, KeyOf(l, p, r))}
<1>4. Charged(p, r) = {l \in lets : \A m \in Given : LayerOrder[m] <= LayerOrder[l] => m \in lets}
  BY DEF Charged
<1>5. ASSUME "Global" \in Charged(p, r), "Trigger" \in Given PROVE "Trigger" \in Charged(p, r)
  <2>1. "Trigger" \in lets
    BY <1>3, <1>4, <1>5
  <2>2. \A m \in Given : LayerOrder[m] <= LayerOrder["Trigger"] => m \in lets
    BY <1>2, <1>4, <1>5
  <2> QED
    BY <1>4, <2>1, <2>2
<1> QED
  BY <1>4, <1>5

LEMMA KeyOfLayer ==
    ASSUME NEW l \in Layers, NEW p, NEW r
    PROVE  KeyOf(l, p, r)[1] = l
BY DEF Layers, KeyOf

LEMMA ArrivalType ==
    ASSUME now \in Nat, \A k \in DOMAIN tat : tat[k] \in Nat, NEW k
    PROVE  /\ Arrival(k) \in Nat /\ Arrival(k) >= now
           /\ k \in DOMAIN tat => Arrival(k) >= tat[k]
           /\ k \notin DOMAIN tat => Arrival(k) = now
BY DEF Arrival

\* What Arrive does to the limiters: arrival times only grow, and each layer that is
\* charged moves its key by a period.
TatMoves(p, r) ==
    /\ \A k \in DOMAIN tat : k \in DOMAIN tat' /\ tat'[k] >= tat[k]
    /\ \A k \in DOMAIN tat' : /\ tat'[k] \in Nat
                              /\ k \in DOMAIN tat \/ \E l \in Charged(p, r) : k = KeyOf(l, p, r)
    /\ \A l \in Charged(p, r) :
          /\ KeyOf(l, p, r) \in DOMAIN tat'
          /\ tat'[KeyOf(l, p, r)] = Arrival(KeyOf(l, p, r)) + Period(options.limits[l])

LEMMA ArriveMoves ==
    ASSUME FrontInv, NEW r \in Requests, NEW p \in Paths, Arrive(r, p)
    PROVE  /\ Serving /\ LimitsFine /\ front[r] = "new" /\ seat[r] = Err
           /\ UNCHANGED <<options, server, now>>
           /\ path' = [path EXCEPT ![r] = p]
           /\ seat' = IF "Global" \in Charged(p, r) THEN [seat EXCEPT ![r] = now] ELSE seat
           /\ TatMoves(p, r)
<1> DEFINE charged == Charged(p, r)
           cells == {KeyOf(l, p, r) : l \in charged}
<1>t. FrontTypes /\ FrontRest /\ now \in Nat
  BY FrontInvParts
<1>1. /\ server \in {"plain", "encrypted"} /\ front[r] = "new" /\ UNCHANGED <<options, server>>
      /\ path' = [path EXCEPT ![r] = p]
      /\ seat' = IF "Global" \in charged THEN [seat EXCEPT ![r] = now] ELSE seat
      /\ tat' = [k \in DOMAIN tat \cup cells |->
                    IF k \in cells THEN Arrival(k) + Period(options.limits[k[1]]) ELSE tat[k]]
  BY DEF Arrive
<1>2. UNCHANGED now
  BY DEF Arrive, Handle, GetKeyValue, secretVars
<1>3. Serving /\ LimitsFine /\ seat[r] = Err
  BY <1>1, <1>t DEF Serving, FrontRest, ServedAsAsked, SeatsInOrder
<1>4. charged \subseteq Given /\ Given \subseteq Layers
  BY ChargedLets DEF Given
<1>5. \A l \in charged : KeyOf(l, p, r)[1] = l /\ Period(options.limits[l]) \in Nat
  BY <1>3, <1>4, <1>t, KeyOfLayer, LimitsType DEF FrontTypes
<1>6. \A k \in DOMAIN tat : tat[k] \in Nat
  BY <1>t DEF FrontTypes
<1>7. \A k : /\ Arrival(k) \in Nat /\ Arrival(k) >= now
             /\ k \in DOMAIN tat => Arrival(k) >= tat[k]
  BY <1>6, <1>t, ArrivalType
<1> HIDE DEF charged
<1>8. \A k \in cells : k \in DOMAIN tat' /\ \E l \in charged :
         /\ k = KeyOf(l, p, r) /\ k[1] = l
         /\ tat'[k] = Arrival(k) + Period(options.limits[l]) /\ Period(options.limits[l]) \in Nat
  BY <1>1, <1>5
<1>9. DOMAIN tat' = DOMAIN tat \cup cells /\ \A k \in DOMAIN tat \ cells : tat'[k] = tat[k]
  BY <1>1
<1>10. \A l \in charged : KeyOf(l, p, r) \in cells
  OBVIOUS
<1>11. \A l \in charged : tat'[KeyOf(l, p, r)] = Arrival(KeyOf(l, p, r)) + Period(options.limits[l])
  BY <1>5, <1>8, <1>10
<1>12. \A k \in cells : \E l \in charged : k = KeyOf(l, p, r)
  OBVIOUS
<1> HIDE DEF cells
<1>13. \A k \in DOMAIN tat : k \in DOMAIN tat' /\ tat'[k] >= tat[k]
  <2> SUFFICES ASSUME NEW k \in DOMAIN tat PROVE k \in DOMAIN tat' /\ tat'[k] >= tat[k]
    OBVIOUS
  <2>1. CASE k \in cells
    <3>1. PICK P \in Nat : tat'[k] = Arrival(k) + P
      BY <1>8, <2>1
    <3> QED
      BY <1>6, <1>7, <1>9, <3>1
  <2>2. CASE k \notin cells
    BY <1>6, <1>9, <2>2
  <2> QED
    BY <2>1, <2>2
<1>14. \A k \in DOMAIN tat' : tat'[k] \in Nat
  <2> SUFFICES ASSUME NEW k \in DOMAIN tat' PROVE tat'[k] \in Nat
    OBVIOUS
  <2>1. CASE k \in cells
    <3>1. PICK P \in Nat : tat'[k] = Arrival(k) + P
      BY <1>8, <2>1
    <3> QED
      BY <1>7, <3>1
  <2>2. CASE k \notin cells
    BY <1>6, <1>9, <2>2
  <2> QED
    BY <2>1, <2>2
<1>15. TatMoves(p, r)
  BY <1>9, <1>10, <1>11, <1>12, <1>13, <1>14 DEF TatMoves, charged
<1> QED
  BY <1>1, <1>2, <1>3, <1>15 DEF charged

\* Who takes a cell of the global limit, and when; seats of others stay.
LEMMA ArriveSeats ==
    ASSUME FrontInv, NEW r \in Requests, NEW p \in Paths, Arrive(r, p)
    PROVE  FrontTypes' /\ ServedAsAsked' /\ SeatsInOrder'
<1>t. FrontTypes /\ FrontRest /\ now \in Nat
  BY FrontInvParts
<1>1. /\ Serving /\ LimitsFine /\ front[r] = "new" /\ seat[r] = Err
      /\ UNCHANGED <<options, server, now>> /\ path' = [path EXCEPT ![r] = p]
      /\ seat' = IF "Global" \in Charged(p, r) THEN [seat EXCEPT ![r] = now] ELSE seat
      /\ TatMoves(p, r)
  BY ArriveMoves
<1>2. \E f \in {"passed", "refused", "malformed"} : front' = [front EXCEPT ![r] = f]
  BY DEF Arrive
<1>3. FrontTypes'
  <2>1. seat' \in [Requests -> Nat \cup {Err}]
    BY <1>1, <1>t DEF FrontTypes
  <2>2. path' \in [Requests -> Paths] /\ front' \in [Requests -> {"new", "passed", "refused", "malformed"}]
    BY <1>1, <1>2, <1>t DEF FrontTypes
  <2>3. \A k \in DOMAIN tat' : tat'[k] \in Nat
    BY <1>1 DEF TatMoves
  <2> QED
    BY <1>1, <1>t, <2>1, <2>2, <2>3 DEF FrontTypes
<1>4. ServedAsAsked'
  BY <1>1, <1>t DEF FrontRest, ServedAsAsked, Serving, LimitsFine, Given, NeverPlainByMistake
<1>5. \A q \in Requests \ {r} : seat'[q] = seat[q] /\ front'[q] = front[q]
  BY <1>1, <1>2, <1>t DEF FrontTypes
<1>6. seat'[r] \in {now, Err} /\ front'[r] # "new" /\ Serving'
  BY <1>1, <1>2, <1>t DEF FrontTypes, Serving
<1>7. IsFiniteSet({q \in Requests : seat'[q] # Err})
  <2> DEFINE before == {q \in Requests : seat[q] # Err}
  <2>1. IsFiniteSet(before \cup {r})
    BY <1>t, FS_AddElement DEF FrontRest, SeatsInOrder
  <2>2. {q \in Requests : seat'[q] # Err} \subseteq before \cup {r}
    BY <1>5
  <2> QED
    BY <2>1, <2>2, FS_Subset
<1>8. \A q \in Requests : /\ seat'[q] <= now /\ (front'[q] = "new" => seat'[q] = Err)
  BY <1>5, <1>6, <1>t DEF FrontRest, SeatsInOrder, Err
<1>9. SeatsInOrder'
  BY <1>1, <1>6, <1>7, <1>8 DEF SeatsInOrder
<1> QED
  BY <1>3, <1>4, <1>9

\* The cells of a trigger are finitely many, and all taken by now.
LEMMA CellsFinite ==
    ASSUME FrontInv, NEW t, NEW a \in Nat
    PROVE  IsFiniteSet(CellsSince(t, a)) /\ Cardinality(CellsSince(t, a)) \in Nat
<1>1. CellsSince(t, a) \subseteq {r \in Requests : seat[r] # Err}
  BY DEF CellsSince
<1>2. IsFiniteSet({r \in Requests : seat[r] # Err})
  BY FrontInvParts DEF FrontRest, SeatsInOrder
<1> QED
  BY <1>1, <1>2, FS_Subset, FS_CardinalityType

\* The limit of the trigger stands behind every cell of the global limit: the cells since a,
\* before a request of the trigger takes one more, leave room for it.
LEMMA RoomForOne ==
    ASSUME FrontInv, Serving, "Trigger" \in Given, NEW t \in Segments, NEW a \in Nat, a <= now,
           Conforms("Trigger", <<"Trigger", t>>)
    PROVE  LET limit == options.limits["Trigger"]
               n == Cardinality(CellsSince(t, a))
           IN /\ Arrival(<<"Trigger", t>>) + Period(limit) >= a + (n + 1) * Period(limit)
              /\ (n + 1 - limit.burst) * Period(limit) <= now - a
<1> DEFINE limit == options.limits["Trigger"]
           P == Period(limit)
           B == limit.burst
           n == Cardinality(CellsSince(t, a))
           k == <<"Trigger", t>>
<1>t. FrontTypes /\ FrontRest /\ now \in Nat
  BY FrontInvParts
<1>1. B \in Nat \ {0} /\ P \in Nat
  BY <1>t, LimitsType DEF FrontTypes, FrontRest, ServedAsAsked
<1>2. n \in Nat /\ IsFiniteSet(CellsSince(t, a))
  BY CellsFinite
<1>3. /\ Arrival(k) \in Nat /\ Arrival(k) >= now
      /\ k \in DOMAIN tat => Arrival(k) >= tat[k] /\ tat[k] \in Nat
  BY <1>t, ArrivalType DEF FrontTypes
<1>4. Arrival(k) - now <= (B - 1) * P
  BY DEF Conforms
<1>5. CellsSince(t, a) # {} => k \in DOMAIN tat /\ tat[k] >= a + n * P
  BY <1>t DEF FrontRest, CellsCounted
<1>6. CellsSince(t, a) = {} => n = 0
  BY FS_EmptySet
<1> HIDE DEF limit, P, B, n, k
<1>7. n * P \in Nat
  BY <1>1, <1>2, OneMore
<1>8. Arrival(k) >= a + n * P
  <2>1. CASE CellsSince(t, a) # {}
    BY <1>3, <1>5, <1>7, <2>1
  <2>2. CASE CellsSince(t, a) = {}
    <3>1. n * P = 0
      BY <1>1, <1>6, <2>2
    <3> QED
      BY <1>3, <1>t, <3>1
  <2> QED
    BY <2>1, <2>2
<1>9. Arrival(k) + P >= a + (n + 1) * P /\ (n + 1 - B) * P <= now - a
  <2> DEFINE A == Arrival(k)
  <2>1. A \in Nat /\ A - now <= (B - 1) * P /\ A >= a + n * P
    BY <1>3, <1>4, <1>8
  <2> HIDE DEF A
  <2>2. A + P >= a + (n + 1) * P /\ (n + 1 - B) * P <= now - a
    BY <1>1, <1>2, <1>t, <2>1, RoomArithmetic
  <2> QED
    BY <2>2 DEF A
<1> QED
  BY <1>9 DEF limit, P, B, n, k

\* Arrive adds its request, if it was given a cell, to the cells of its trigger.
CellTaken(p, r, t) == "Global" \in Charged(p, r) /\ p.trigger = t

LEMMA ArriveCounts ==
    ASSUME FrontInv, NEW r \in Requests, NEW p \in Paths, Arrive(r, p), NEW t, NEW a \in Nat
    PROVE  /\ r \notin CellsSince(t, a)
           /\ CellsSince(t, a)' =
                IF CellTaken(p, r, t) /\ a <= now THEN CellsSince(t, a) \cup {r}
                                                  ELSE CellsSince(t, a)
<1>t. FrontTypes /\ now \in Nat
  BY FrontInvParts
<1>1. /\ seat[r] = Err /\ path' = [path EXCEPT ![r] = p]
      /\ seat' = IF "Global" \in Charged(p, r) THEN [seat EXCEPT ![r] = now] ELSE seat
  BY ArriveMoves
<1>2. \A q \in Requests \ {r} : path'[q] = path[q] /\ seat'[q] = seat[q]
  BY <1>1, <1>t DEF FrontTypes
<1>3. path'[r] = p /\ seat'[r] = IF "Global" \in Charged(p, r) THEN now ELSE Err
  BY <1>1, <1>t DEF FrontTypes
<1>4. now # Err
  BY <1>t DEF Err
<1>5. r \notin CellsSince(t, a)
  BY <1>1 DEF CellsSince
<1>6. CellsSince(t, a)' = {q \in Requests : path'[q].trigger = t /\ seat'[q] # Err /\ seat'[q] >= a}
  BY DEF CellsSince
<1>7. r \in CellsSince(t, a)' <=> CellTaken(p, r, t) /\ a <= now
  BY <1>3, <1>4, <1>6, <1>t DEF CellTaken
<1>8. \A q \in Requests \ {r} : q \in CellsSince(t, a)' <=> q \in CellsSince(t, a)
  BY <1>2, <1>6 DEF CellsSince
<1>9. CellsSince(t, a) \subseteq Requests /\ CellsSince(t, a)' \subseteq Requests
  BY <1>6 DEF CellsSince
<1> QED
  BY <1>5, <1>7, <1>8, <1>9

\* Whoever takes a cell of the global limit took one of its trigger's, where there is such a limit.
LEMMA TakenConforms ==
    ASSUME NEW r \in Requests, NEW p \in Paths, "Trigger" \in Given,
           NEW t \in Segments, CellTaken(p, r, t)
    PROVE  /\ "Trigger" \in Charged(p, r) /\ KeyOf("Trigger", p, r) = <<"Trigger", t>>
           /\ Conforms("Trigger", <<"Trigger", t>>)
<1>1. "Trigger" \in Charged(p, r)
  BY ChargedLets DEF CellTaken
<1>2. KeyOf("Trigger", p, r) = <<"Trigger", t>>
  BY DEF KeyOf, CellTaken
<1>3. Conforms("Trigger", KeyOf("Trigger", p, r))
  BY <1>1, ChargedLets
<1> QED
  BY <1>1, <1>2, <1>3

LEMMA ArriveCounted ==
    ASSUME FrontInv, NEW r \in Requests, NEW p \in Paths, Arrive(r, p)
    PROVE  CellsCounted'
<1> DEFINE limit == options.limits["Trigger"]
           P == Period(limit)
<1>t. FrontTypes /\ FrontRest /\ now \in Nat
  BY FrontInvParts
<1>1. Serving /\ UNCHANGED <<options, server, now>> /\ TatMoves(p, r) /\ LimitsFine
  BY ArriveMoves
<1> SUFFICES ASSUME "Trigger" \in Given, NEW t \in Segments, NEW a \in Nat, CellsSince(t, a)' # {}
             PROVE  /\ <<"Trigger", t>> \in DOMAIN tat'
                    /\ tat'[<<"Trigger", t>>] >= a + Cardinality(CellsSince(t, a)') * P
  BY <1>1 DEF CellsCounted, Given, Period
<1> DEFINE k == <<"Trigger", t>>
           n == Cardinality(CellsSince(t, a))
<1>2. n \in Nat /\ IsFiniteSet(CellsSince(t, a))
  BY CellsFinite
<1>3. P \in Nat
  BY <1>1, <1>t, LimitsType DEF FrontTypes
<1>4. CASE CellTaken(p, r, t) /\ a <= now
  <2>1. CellsSince(t, a)' = CellsSince(t, a) \cup {r} /\ r \notin CellsSince(t, a)
    BY <1>4, ArriveCounts
  <2>2. Cardinality(CellsSince(t, a)') = n + 1
    BY <1>2, <2>1, FS_AddElement
  <2>3. "Trigger" \in Charged(p, r) /\ KeyOf("Trigger", p, r) = k /\ Conforms("Trigger", k)
    BY <1>4, TakenConforms
  <2>4. k \in DOMAIN tat' /\ tat'[k] = Arrival(k) + P
    BY <1>1, <2>3 DEF TatMoves
  <2>5. Arrival(k) + P >= a + (n + 1) * P
    BY <1>1, <1>4, <2>3, RoomForOne
  <2> HIDE DEF k, n, P
  <2>6. k \in DOMAIN tat' /\ tat'[k] >= a + Cardinality(CellsSince(t, a)') * P
    BY <2>2, <2>4, <2>5
  <2> QED
    BY <2>6 DEF k
<1>5. CASE ~(CellTaken(p, r, t) /\ a <= now)
  <2>1. CellsSince(t, a)' = CellsSince(t, a)
    BY <1>5, ArriveCounts
  <2>2. k \in DOMAIN tat /\ tat[k] >= a + n * P
    BY <1>1, <1>t, <2>1 DEF FrontRest, CellsCounted
  <2>3. k \in DOMAIN tat' /\ tat'[k] >= tat[k] /\ tat'[k] \in Nat /\ tat[k] \in Nat
    BY <1>1, <1>t, <2>2 DEF TatMoves, FrontTypes
  <2>4. n * P \in Nat
    BY <1>2, <1>3
  <2> HIDE DEF k, n, P
  <2>5. tat'[k] >= a + n * P
    BY <2>2, <2>3, <2>4
  <2> QED
    BY <2>1, <2>3, <2>5 DEF k, n
<1> QED
  BY <1>4, <1>5

LEMMA ArriveShared ==
    ASSUME FrontInv, NEW r \in Requests, NEW p \in Paths, Arrive(r, p)
    PROVE  GlobalCellsShared'
<1> DEFINE limit == options.limits["Trigger"]
           P == Period(limit)
           B == limit.burst
           Taken(t, a, b) == {q \in Requests : path[q].trigger = t /\ seat[q] \in a..b}
<1>t. FrontTypes /\ FrontRest /\ now \in Nat
  BY FrontInvParts
<1>1. /\ Serving /\ UNCHANGED <<options, server, now>>
      /\ seat[r] = Err /\ path' = [path EXCEPT ![r] = p]
      /\ seat' = IF "Global" \in Charged(p, r) THEN [seat EXCEPT ![r] = now] ELSE seat
  BY ArriveMoves
<1> SUFFICES ASSUME "Trigger" \in Given, NEW t \in Segments, NEW a \in 0..now, NEW b \in 0..now, a <= b
             PROVE  (Cardinality(Taken(t, a, b)') - B) * P <= b - a
  BY <1>1 DEF GlobalCellsShared, Given, Period
<1>2. a \in Nat /\ b \in Nat /\ a <= now /\ b <= now
  BY <1>t
<1>3. \A q \in Requests \ {r} : path'[q] = path[q] /\ seat'[q] = seat[q]
  BY <1>1, <1>t DEF FrontTypes
<1>4. path'[r] = p /\ seat'[r] = IF "Global" \in Charged(p, r) THEN now ELSE Err
  BY <1>1, <1>t DEF FrontTypes
<1>5. CASE CellTaken(p, r, t) /\ b = now
  <2> DEFINE n == Cardinality(CellsSince(t, a))
  <2>1. \A q \in Requests : seat[q] \in Nat \cup {Err} /\ seat[q] <= now
    BY <1>t DEF FrontTypes, FrontRest, SeatsInOrder
  <2>2. Taken(t, a, b)' = CellsSince(t, a) \cup {r}
    <3>1. r \in Taken(t, a, b)'
      BY <1>2, <1>4, <1>5 DEF CellTaken
    <3>2. ASSUME NEW q \in Requests \ {r} PROVE q \in Taken(t, a, b)' <=> q \in CellsSince(t, a)
      <4>1. q \in Taken(t, a, b)' <=> path[q].trigger = t /\ seat[q] \in a..now
        BY <1>3, <1>5
      <4>2. seat[q] \in a..now <=> seat[q] # Err /\ seat[q] >= a
        BY <1>2, <1>t, <2>1 DEF Err
      <4> QED
        BY <4>1, <4>2 DEF CellsSince
    <3>3. Taken(t, a, b)' \subseteq Requests /\ CellsSince(t, a) \subseteq Requests
      BY DEF CellsSince
    <3> HIDE DEF Taken
    <3> QED
      BY <3>1, <3>2, <3>3
  <2>3. n \in Nat /\ IsFiniteSet(CellsSince(t, a)) /\ r \notin CellsSince(t, a)
    BY <1>1, <1>2, CellsFinite DEF CellsSince
  <2>4. Cardinality(Taken(t, a, b)') = n + 1
    BY <2>2, <2>3, FS_AddElement
  <2>5. (n + 1 - B) * P <= now - a
    BY <1>1, <1>2, <1>5, TakenConforms, RoomForOne
  <2>6. b = now
    BY <1>5
  <2> DEFINE c == Cardinality(Taken(t, a, b)')
  <2>7. c = n + 1
    BY <2>4
  <2>8. B \in Nat /\ P \in Nat /\ n \in Nat
    BY <1>1, <1>t, <2>3, LimitsType DEF FrontTypes, FrontRest, ServedAsAsked
  <2> HIDE DEF n, B, P, c
  <2>9. (c - B) * P <= b - a
    BY <2>5, <2>6, <2>7, <2>8
  <2> QED
    BY <2>9 DEF c
<1>6. CASE ~(CellTaken(p, r, t) /\ b = now)
  <2>1. Taken(t, a, b)' = Taken(t, a, b)
    <3>1. r \notin Taken(t, a, b)
      BY <1>1, <1>2 DEF Err
    <3>2. r \notin Taken(t, a, b)'
      <4>1. CASE "Global" \in Charged(p, r)
        <5>1. p.trigger # t \/ b < now
          BY <1>2, <1>6, <1>t, <4>1 DEF CellTaken
        <5> QED
          BY <1>2, <1>4, <1>t, <4>1, <5>1
      <4>2. CASE "Global" \notin Charged(p, r)
        BY <1>2, <1>4, <4>2 DEF Err
      <4> QED
        BY <4>1, <4>2
    <3>3. \A q \in Requests \ {r} : q \in Taken(t, a, b)' <=> q \in Taken(t, a, b)
      BY <1>3
    <3>4. Taken(t, a, b)' \subseteq Requests /\ Taken(t, a, b) \subseteq Requests
      OBVIOUS
    <3> HIDE DEF Taken
    <3> QED
      BY <3>1, <3>2, <3>3, <3>4
  <2>2. (Cardinality(Taken(t, a, b)) - B) * P <= b - a
    BY <1>1, <1>t DEF FrontRest, GlobalCellsShared, Serving
  <2> HIDE DEF Taken, B, P
  <2> QED
    BY <2>1, <2>2
<1> QED
  BY <1>5, <1>6

\* A key that comes in was charged for a request that passed; one that refuses was there before,
\* with a request of the same source behind it.
LEMMA ArriveKeys ==
    ASSUME FrontInv, NEW r \in Requests, NEW p \in Paths, Arrive(r, p)
    PROVE  KeysWerePassed' /\ RefusedBySourceOnly'
<1>t. FrontTypes /\ FrontRest /\ now \in Nat
  BY FrontInvParts
<1>1. /\ Serving /\ LimitsFine /\ front[r] = "new" /\ UNCHANGED <<options, server, now>>
      /\ path' = [path EXCEPT ![r] = p] /\ TatMoves(p, r)
  BY ArriveMoves
<1>2. front' = [front EXCEPT ![r] =
                   IF Charged(p, r) = Given THEN "passed"
                   ELSE IF \A layer \in Given : Extractable(layer, p) THEN "refused"
                   ELSE "malformed"]
  BY DEF Arrive
<1>3. /\ \A q \in Requests \ {r} : path'[q] = path[q] /\ front'[q] = front[q]
      /\ path'[r] = p
      /\ front'[r] = IF Charged(p, r) = Given THEN "passed"
                     ELSE IF \A layer \in Given : Extractable(layer, p) THEN "refused"
                     ELSE "malformed"
  BY <1>1, <1>2, <1>t DEF FrontTypes
<1>4. Given' = Given
  BY <1>1 DEF Given
<1> SUFFICES ASSUME Given = {"Source"} PROVE KeysWerePassed' /\ RefusedBySourceOnly'
  BY <1>4 DEF KeysWerePassed, RefusedBySourceOnly
<1>5. Charged(p, r) \subseteq {"Source"} /\ \A l \in Charged(p, r) : Extractable(l, p)
  BY ChargedLets
<1>6. \A q \in Requests : \A x : KeyOf("Source", x, q)
                               = <<"Source", x.trigger, IF x.source = NoPart THEN q ELSE x.source>>
  BY DEF KeyOf
<1>7. KeysWerePassed'
  <2> SUFFICES ASSUME NEW k \in DOMAIN tat'
               PROVE  \E q \in Requests : /\ front'[q] = "passed" /\ path'[q].trigger # NoPart
                                          /\ k = KeyOf("Source", path'[q], q)
    BY <1>6 DEF KeysWerePassed, KeyOf
  <2>1. CASE k \in DOMAIN tat
    <3>1. PICK q \in Requests : /\ front[q] = "passed" /\ path[q].trigger # NoPart
                                /\ k = KeyOf("Source", path[q], q)
      BY <1>t, <2>1 DEF FrontRest, KeysWerePassed
    <3>2. q # r
      BY <1>1, <3>1
    <3> QED
      BY <1>3, <3>1, <3>2
  <2>2. CASE k \notin DOMAIN tat
    <3>1. PICK l \in Charged(p, r) : k = KeyOf(l, p, r)
      BY <1>1, <2>2 DEF TatMoves
    <3>2. l = "Source" /\ Charged(p, r) = Given /\ Extractable("Source", p)
      BY <1>5
    <3>3. p.trigger # NoPart
      BY <3>2 DEF Extractable
    <3> QED
      BY <1>3, <3>1, <3>2, <3>3
  <2> QED
    BY <2>1, <2>2
<1>8. RefusedBySourceOnly'
  <2>1. ASSUME NEW q \in Requests \ {r}, front'[q] = "refused"
        PROVE  /\ path'[q].source # NoPart
               /\ \E o \in Requests \ {q} : front'[o] = "passed" /\ path'[o] = path'[q]
    <3>1. front[q] = "refused" /\ path'[q] = path[q]
      BY <1>3, <2>1
    <3>2. /\ path[q].source # NoPart
          /\ \E o \in Requests \ {q} : front[o] = "passed" /\ path[o] = path[q]
      BY <1>t, <3>1 DEF FrontRest, RefusedBySourceOnly
    <3>3. PICK o \in Requests \ {q} : front[o] = "passed" /\ path[o] = path[q]
      BY <3>2
    <3>4. o # r
      BY <1>1, <3>3
    <3>5. front'[o] = "passed" /\ path'[o] = path'[q]
      BY <1>3, <3>1, <3>3, <3>4
    <3> QED
      BY <3>1, <3>2, <3>5
  <2>2. ASSUME front'[r] = "refused"
        PROVE  /\ p.source # NoPart
               /\ \E o \in Requests \ {r} : front'[o] = "passed" /\ path'[o] = p
    <3> DEFINE k == KeyOf("Source", p, r)
               limit == options.limits["Source"]
    <3>1. Charged(p, r) # Given /\ Extractable("Source", p)
      BY <1>3, <2>2
    <3>2. ~Conforms("Source", k)
      <4>1. CASE Conforms("Source", k)
        <5>1. "Source" \in Charged(p, r)
          BY <3>1, <4>1 DEF Charged
        <5> QED
          BY <1>5, <3>1, <5>1
      <4> QED
        BY <4>1
    <3>3. limit.burst \in Nat \ {0} /\ Period(limit) \in Nat
      BY <1>1, <1>t, LimitsType DEF FrontTypes
    <3>4. k \in DOMAIN tat
      <4>1. CASE k \notin DOMAIN tat
        <5>1. Arrival(k) = now
          BY <4>1 DEF Arrival
        <5>2. ~(Arrival(k) - now <= (limit.burst - 1) * Period(limit))
          BY <3>2 DEF Conforms
        <5> HIDE DEF k, limit
        <5>3. now - now <= (limit.burst - 1) * Period(limit)
          BY <1>t, <3>3
        <5> QED
          BY <5>1, <5>2, <5>3
      <4> QED
        BY <4>1
    <3>5. PICK o \in Requests : /\ front[o] = "passed" /\ path[o].trigger # NoPart
                                /\ k = KeyOf("Source", path[o], o)
      BY <1>t, <3>4 DEF FrontRest, KeysWerePassed
    <3>6. o # r
      BY <1>1, <3>5
    <3>7. /\ path[o].trigger = p.trigger
          /\ (IF path[o].source = NoPart THEN o ELSE path[o].source)
               = (IF p.source = NoPart THEN r ELSE p.source)
      <4> DEFINE u == IF path[o].source = NoPart THEN o ELSE path[o].source
                 v == IF p.source = NoPart THEN r ELSE p.source
      <4>1. KeyOf("Source", path[o], o) = <<"Source", path[o].trigger, u>>
        BY DEF KeyOf
      <4>2. KeyOf("Source", p, r) = <<"Source", p.trigger, v>>
        BY DEF KeyOf
      <4> HIDE DEF u, v
      <4>3. <<"Source", p.trigger, v>> = <<"Source", path[o].trigger, u>>
        BY <3>5, <4>1, <4>2, Zenon
      <4>4. path[o].trigger = p.trigger /\ u = v
        BY <4>3
      <4> QED
        BY <4>4 DEF u, v
    <3>8. path[o] \in Paths
      BY <1>t DEF FrontTypes
    <3>9. p.trigger # NoPart
      BY <3>1 DEF Extractable
    <3>10. /\ path[o] \in [trigger : Segments, source : Names \cup {NoPart}]
           /\ p \in [trigger : Segments, source : Names \cup {NoPart}]
      BY <3>5, <3>8, <3>9 DEF Paths, NoPath
    <3>11. o \notin Names /\ r \notin Names
      BY PartsAssumption
    <3>12. p.source # NoPart /\ path[o].source = p.source
      BY <3>6, <3>7, <3>10, <3>11
    <3>13. path[o] = p
      BY <3>7, <3>10, <3>12
    <3> QED
      BY <1>3, <3>5, <3>6, <3>12, <3>13
  <2> QED
    BY <1>3, <1>4, <2>1, <2>2 DEF RefusedBySourceOnly
<1> QED
  BY <1>7, <1>8

LEMMA ArriveStep ==
    ASSUME FrontInv, NEW r \in Requests, NEW p \in Paths, Arrive(r, p)
    PROVE  FrontTypes' /\ FrontRest'
BY ArriveSeats, ArriveCounted, ArriveShared, ArriveKeys DEF FrontRest

LEMMA FrontInvStep == FrontInv /\ [FrontNext]_webVars => FrontInv'
<1> SUFFICES ASSUME FrontInv, [FrontNext]_webVars PROVE FrontInv'
  OBVIOUS
<1>1. SecretInv /\ now \in Nat /\ options \in Options
  BY FrontInvParts DEF FrontInv, FrontTypeOK
<1>2. SecretInv'
  BY <1>1, FrontReads, SecretInvStep DEF secretVars
<1>3. now' \in Nat
  BY <1>2, TimeAssumption DEF SecretInv, SecretTypeOK
<1>4. SecretStep \/ UNCHANGED secretVars => now' = now \/ now' = now + 1
  BY DEF SecretStep, Tick, Rotate, GetKeyValue, GetStep, Cancel, secretVars,
         Lookup, TakeLock, Answer, QueryFails, Save
<1>5. FrontTypes' /\ FrontRest'
  <2>1. CASE \E result : /\ StartServer(result)
                         /\ result \in {"plain", "encrypted"} => LimitsFine
                         /\ result = "plain" => options.tls = {}
                         /\ result \in {"plain", "encrypted", "exited", "panicked"}
    BY <2>1, StartStep
  <2>2. CASE \E r \in Requests, p \in Paths : Arrive(r, p)
    BY <2>2, ArriveStep
  <2>3. CASE UNCHANGED frontVars /\ (SecretStep \/ UNCHANGED secretVars)
    BY <1>3, <1>4, <2>3, QuietStep
  <2> QED
    BY <1>1, <2>1, <2>2, <2>3, FrontKinds
<1>6. FrontTypeOK'
  BY <1>2, <1>5 DEF FrontTypeOK, FrontTypes, SecretInv
<1> QED
  BY <1>2, <1>5, <1>6 DEF FrontInv, FrontRest

-----------------------------------------------------------------------------
LEMMA FrontInvAlways == FrontSpec => []FrontInv
<1> QED
  BY FrontInvInit, FrontInvStep, PTL DEF FrontSpec

\* The server, the answers of the layers, the arrival times that a limiter keeps and the
\* entry of the secrets cache keep their types.
THEOREM FrontTypeCorrect == FrontSpec => []FrontTypeOK
<1>1. FrontInv => FrontTypeOK
  BY DEF FrontInv
<1> QED
  BY <1>1, FrontInvAlways, PTL

\* However requests, rotations and the expiry of entries interleave, no reader of a secret
\* gets a value older than one that was given before it asked (get_key_value of src/cache.rs).
THEOREM MonotoneReadsCorrect == FrontSpec => []MonotoneReads
<1>1. FrontInv => MonotoneReads
  BY SecretInvReads DEF FrontInv
<1> QED
  BY <1>1, FrontInvAlways, PTL

\* Between any two times, the requests that spell a trigger in one way take no more cells of
\* the global limit than the burst of the trigger and one for every period (add_rrl_layer, in
\* its order, with the keys of extract_path_key).
THEOREM GlobalCellsSharedCorrect == FrontSpec => []GlobalCellsShared
<1>1. FrontInv => GlobalCellsShared
  BY DEF FrontInv
<1> QED
  BY <1>1, FrontInvAlways, PTL

\* With a limit for sources only, a refused request names a source, and another request for
\* this source of this trigger passed before it (extract_path_key).
THEOREM RefusedBySourceOnlyCorrect == FrontSpec => []RefusedBySourceOnly
<1>1. FrontInv => RefusedBySourceOnly
  BY DEF FrontInv
<1> QED
  BY <1>1, FrontInvAlways, PTL

\* A server without encryption was started without any option of TLS: what the match of
\* build_tls_config passes over is refused by the parser of the command line.
THEOREM NeverPlainByMistakeCorrect == FrontSpec => []NeverPlainByMistake
<1>1. FrontInv => NeverPlainByMistake
  BY DEF FrontInv, ServedAsAsked
<1> QED
  BY <1>1, FrontInvAlways, PTL
=============================================================================
