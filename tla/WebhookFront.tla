----------------------------- MODULE WebhookFront -----------------------------
(***************************************************************************)
(* What stands before the handlers of the webhook server: the command      *)
(* line, from which build_tls_config (src/cli.rs) and build_hooks_web      *)
(* (src/web.rs) make the server, and the layers that limit the rate of     *)
(* requests globally, per trigger and per source of a trigger.  A request  *)
(* that passes goes on to read the trigger's secret (SecretsCache); the    *)
(* rest of the handlers is in Webhooks.                                    *)
(***************************************************************************)
EXTENDS SecretsCache, FiniteSets

CONSTANTS
    Triggers,    \* names of triggers
    Secured,     \* the one whose secret SecretsCache is about
    Segments,    \* how a URI may spell namespace and trigger, percent-encoded or not
    Decode,      \* [Segments -> the trigger that axum's Path makes of it, or NoPart]
    Names,       \* how a URI may spell a source
    Second,      \* ticks of the clock in a second
    Options,     \* command lines: TLS options and the three rate limits
    NoPart       \* stands for what a path or a command line does not have

Layers == {"Global", "Trigger", "Source"}

Limit == [burst : Nat, seconds : Nat]

\* --tls-cert-path, --tls-key-path, --tls-secret-name, --tls-secret-namespace.
TlsOptions == {"cert", "key", "secret", "namespace"}

ASSUME SecuredAssumption == Secured \in Triggers
ASSUME DecodeAssumption == Decode \in [Segments -> Triggers \cup {NoPart}]
ASSUME SecondAssumption == Second \in Nat \ {0}
\* A path has its parts, and no name of a source is a key drawn at random.
ASSUME PartsAssumption ==
    /\ NoPart \notin Triggers \cup Segments \cup Names
    /\ Requests \cap Names = {}
ASSUME OptionsAssumption ==
    \A o \in Options : /\ o.tls \subseteq TlsOptions
                       /\ \A l \in Layers : o.limits[l] \in Limit \cup {NoPart}

\* /namespace/trigger, /namespace/trigger/source, or anything shorter, as the URI
\* spells it.
NoPath == [trigger |-> NoPart, source |-> NoPart]

Paths == [trigger : Segments, source : Names \cup {NoPart}] \cup {NoPath}

VARIABLES
    options,  \* the command line of the process
    server,   \* the web server for webhooks
    path,     \* [Requests -> path of its URI]
    front,    \* [Requests -> what the layers said to it]
    tat,      \* [keys seen so far -> theoretical arrival time of the next cell]
    seat      \* history: [Requests -> when it took a cell of the global limit]

frontVars == <<options, server, path, front, tat, seat>>
webVars == <<secretVars, frontVars>>

FrontTypeOK ==
    /\ SecretTypeOK
    /\ options \in Options
    /\ server \in {"none", "plain", "encrypted", "exited", "panicked"}
    /\ path \in [Requests -> Paths]
    /\ front \in [Requests -> {"new", "passed", "refused", "malformed"}]
    /\ \A k \in DOMAIN tat : tat[k] \in Nat
    /\ seat \in [Requests -> Nat \cup {Err}]

FrontInit ==
    /\ SecretInit
    /\ options \in Options
    /\ server = "none"
    /\ path = [r \in Requests |-> NoPath]
    /\ front = [r \in Requests |-> "new"]
    /\ tat = [k \in {} |-> 0]
    /\ seat = [r \in Requests |-> Err]

-----------------------------------------------------------------------------
(* The start of the server.                                                *)

\* RequestsRateLimitParams::try_from refuses a zero; the period is that of one
\* cell, rounded to the resolution of the clock.
Given == {l \in Layers : options.limits[l] # NoPart}

Valid(limit) == limit.burst # 0 /\ limit.seconds # 0

Period(limit) == (2 * limit.seconds * Second + limit.burst) \div (2 * limit.burst)

StartServer(result) ==
    /\ server = "none"
    /\ server' = result
    /\ UNCHANGED <<secretVars, options, path, front, tat, seat>>

\* Mutant: a certificate without a key, or a key alone, is accepted.
TlsAcceptedAlone(given) ==
    /\ "namespace" \in given => "secret" \in given
    /\ given \cap {"cert", "key"} = {} \/ given \cap {"secret", "namespace"} = {}

\* requires and conflicts_with_all of the arguments.
TlsAccepted(given) ==
    /\ "cert" \in given <=> "key" \in given
    /\ "namespace" \in given => "secret" \in given
    /\ given \cap {"cert", "key"} = {} \/ given \cap {"secret", "namespace"} = {}

\* The match of build_tls_config: what does not fit its first two arms is None.
TlsConfig(given) ==
    IF {"cert", "key"} \subseteq given THEN "files"
    ELSE IF "secret" \in given THEN "secret" ELSE "none"

Parsed == TlsAccepted(options.tls) /\ \A l \in Given : Valid(options.limits[l])

\* clap and rrl_parser: an error of the command line.
ParseRefused == ~Parsed /\ StartServer("exited")

\* No such file, secret or key in it, or nothing that can be used: run returns.
TlsFails ==
    /\ Parsed
    /\ TlsConfig(options.tls) # "none"
    /\ StartServer("exited")

\* External: the router does not take the syntax of the routes.
RoutesPanic == Parsed /\ StartServer("panicked")

\* add_rrl_layer unwraps what GovernorConfigBuilder does not build for a period
\* of zero.
LimitPanics ==
    /\ Parsed
    /\ \E l \in Given : Period(options.limits[l]) = 0
    /\ StartServer("panicked")

LimitsFine == \A l \in Given : Valid(options.limits[l]) /\ Period(options.limits[l]) # 0

\* build_hooks_web binds with the config that it got, or without.
Serve ==
    /\ Parsed
    /\ LimitsFine
    /\ StartServer(IF TlsConfig(options.tls) = "none" THEN "plain" ELSE "encrypted")

-----------------------------------------------------------------------------
(* The layers.                                                             *)

\* Mutant: the layers are added in the opposite order.
LayerOrderReversed == [Global |-> 1, Trigger |-> 2, Source |-> 3]

\* add_rrl_layer of the config, by turns: the layer that is added last is the
\* outermost and comes first.
LayerOrder == [Source |-> 1, Trigger |-> 2, Global |-> 3]

\* extract_path_key, which sees the path as the URI spells it.
Extractable(layer, p) == layer = "Global" \/ p.trigger # NoPart

\* Mutant: requests for all sources share a key of the source's layer.
KeyOfShared(layer, p, r) ==
    CASE layer = "Global"  -> <<layer>>
      [] layer = "Trigger" -> <<layer, p.trigger>>
      [] layer = "Source"  -> <<layer, p.trigger, p.source>>

\* A request for all sources of a trigger has a random key, all its own.
KeyOf(layer, p, r) ==
    CASE layer = "Global"  -> <<layer>>
      [] layer = "Trigger" -> <<layer, p.trigger>>
      [] layer = "Source"  -> <<layer, p.trigger, IF p.source = NoPart THEN r ELSE p.source>>

\* External: the rate limiter (GCRA) of a layer keeps an arrival time for a key.
Arrival(k) == IF k \in DOMAIN tat /\ tat[k] > now THEN tat[k] ELSE now

Conforms(layer, k) ==
    LET limit == options.limits[layer]
    IN Arrival(k) - now <= (limit.burst - 1) * Period(limit)

\* The layers that let a request through and take a cell for it, up to the first
\* one that does not.
Charged(p, r) ==
    LET lets == {l \in Given : Extractable(l, p) /\ Conforms(l, KeyOf(l, p, r))}
    IN {l \in lets : \A m \in Given : LayerOrder[m] <= LayerOrder[l] => m \in lets}

\* The handler gets the decoded path; that of a request for the secured trigger
\* reads its secret.
Handle(r, p) ==
    IF p.trigger \in Segments /\ Decode[p.trigger] = Secured THEN GetKeyValue(r) ELSE UNCHANGED secretVars

Arrive(r, p) ==
    LET charged == Charged(p, r)
        cells == {KeyOf(layer, p, r) : layer \in charged}
    IN /\ server \in {"plain", "encrypted"}
       /\ front[r] = "new"
       /\ path' = [path EXCEPT ![r] = p]
       /\ front' = [front EXCEPT ![r] =
             IF charged = Given THEN "passed"
             ELSE IF \A layer \in Given : Extractable(layer, p) THEN "refused"
             ELSE "malformed"]
       /\ tat' = [k \in DOMAIN tat \cup cells |->
                     IF k \in cells THEN Arrival(k) + Period(options.limits[k[1]]) ELSE tat[k]]
       /\ seat' = IF "Global" \in charged THEN [seat EXCEPT ![r] = now] ELSE seat
       /\ IF charged = Given THEN Handle(r, p) ELSE UNCHANGED secretVars
       /\ UNCHANGED <<options, server>>

-----------------------------------------------------------------------------
FrontNext ==
    \/ ParseRefused \/ TlsFails \/ RoutesPanic \/ LimitPanics \/ Serve
    \/ (Rotate \/ Tick) /\ UNCHANGED frontVars
    \/ \E r \in Requests :
          \/ \E p \in Paths : Arrive(r, p)
          \/ GetStep(r) /\ UNCHANGED frontVars
          \/ get[r] \notin {"idle", "done"} /\ Cancel(r) /\ UNCHANGED frontVars

FrontSpec == FrontInit /\ [][FrontNext]_webVars

-----------------------------------------------------------------------------
(* Properties.                                                             *)

\* One path cannot use up the cells of all: between any two times the requests
\* that spell a trigger in one way take no more cells of the global limit than the
\* limit of a trigger lets through, however many are refused.  The key is the path
\* as the URI spells it, so that the bound is one for each spelling.
GlobalCellsShared ==
    server \in {"plain", "encrypted"} /\ "Trigger" \in Given =>
        \A t \in Segments : \A a, b \in 0..now :
            LET limit == options.limits["Trigger"]
                taken == {r \in Requests : path[r].trigger = t /\ seat[r] \in a..b}
            IN a <= b =>
                  (Cardinality(taken) - limit.burst) * Period(limit) <= b - a

\* A limit of one source holds for nobody else: what is refused although neither
\* the trigger nor all together have a limit follows a request for that source.
RefusedBySourceOnly ==
    Given = {"Source"} =>
        \A r \in Requests : front[r] = "refused" =>
            /\ path[r].source # NoPart
            /\ \E q \in Requests \ {r} : front[q] = "passed" /\ path[q] = path[r]

\* Whoever gives any option of TLS never gets a server without it: the match of
\* build_tls_config takes what it does not know for no TLS at all, and only the
\* parser of the command line keeps such options from it.
NeverPlainByMistake == server = "plain" => options.tls = {}
=============================================================================
