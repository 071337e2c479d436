------------------------------- MODULE Startup -------------------------------
(***************************************************************************)
(* The start of the controller process (run in                             *)
(* src/bin/git-events-runner.rs) and the task that loads the runtime       *)
(* config (src/config.rs).  run spawns detached tasks that set global      *)
(* cells, and goes on to start tasks and servers that unwrap those cells   *)
(* without waiting for them: a task that is polled first panics.  The      *)
(* config task reads the ConfigMap, watches it, and replaces the value     *)
(* that everybody else reads whenever they need it.                        *)
(*                                                                         *)
(* Contents of the ConfigMap are numbered in the order they are written;   *)
(* content 0 stands for the built-in defaults.                             *)
(***************************************************************************)
EXTENDS Integers

CONSTANTS
    MaxContent,  \* bound: times the ConfigMap is written
    Parses,      \* the contents that deserialize into a RuntimeConfig
    MaxDesyncs   \* bound: times the watch of the ConfigMap starts again

ASSUME ContentAssumption == MaxContent \in Nat /\ Parses \subseteq 1..MaxContent
ASSUME DesyncsAssumption == MaxDesyncs \in Nat

Content == 0..MaxContent

Unset == -1      \* a cell that is not set yet

VARIABLES
    cm,           \* content of the ConfigMap in the API server; 0: there is none
    main,         \* where run is
    config_task,  \* RuntimeConfig::init_and_watch
    fetched,      \* content that its initial request returned; 0: none or an error
    delivered,    \* content that its watch delivered last
    desyncs,      \* restarts of the watch so far, up to MaxDesyncs
    config,       \* CONFIG_TX_CHANNEL: Unset or the content it was loaded from
    cache_task,   \* ApiCacheStore::watch, which sets the stores of the ApiCache
    queue_task    \* JobsQueue::init_and_watch

startVars == <<cm, main, config_task, fetched, delivered, desyncs, config, cache_task,
               queue_task>>

StartTypeOK ==
    /\ cm \in Content
    /\ main \in {"spawn", "lease", "queue", "utils", "loop", "exited"}
    /\ config_task \in {"none", "spawned", "get", "reply", "list", "watch"}
    /\ fetched \in Content
    /\ delivered \in Content
    /\ desyncs \in 0..MaxDesyncs
    /\ config \in Content \cup {Unset}
    /\ cache_task \in {"none", "spawned", "running"}
    /\ queue_task \in {"none", "spawned", "running", "panicked"}

StartInit ==
    /\ cm = 0
    /\ main = "spawn"
    /\ config_task = "none"
    /\ fetched = 0
    /\ delivered = 0
    /\ desyncs = 0
    /\ config = Unset
    /\ cache_task = "none"
    /\ queue_task = "none"

-----------------------------------------------------------------------------
(* run, up to its main loop (see Leadership); what the command line gives  *)
(* to the web server is in WebhookFront.                                   *)

\* run goes on to its next part or returns an error, which ends the process.
Continue(from, next) ==
    /\ main = from
    /\ main' = next
    /\ UNCHANGED <<cm, fetched, delivered, desyncs, config>>

Abort(from) ==
    /\ Continue(from, "exited")
    /\ UNCHANGED <<config_task, cache_task, queue_task>>

SpawnDetached ==
    /\ Continue("spawn", "lease")
    /\ config_task' = "spawned"
    /\ cache_task' = "spawned"
    /\ UNCHANGED queue_task

\* The lease manager answers after requests to the API server.  The detached tasks
\* may or may not have been polled by then.
BuildLease ==
    /\ Continue("lease", "queue")
    /\ UNCHANGED <<config_task, cache_task, queue_task>>

LeaseFails == Abort("lease")

SpawnQueue ==
    /\ Continue("queue", "utils")
    /\ queue_task' = "spawned"
    /\ UNCHANGED <<config_task, cache_task>>

\* build_utils_web binds its port before it returns, and panics otherwise; the
\* webhooks are served by a spawned task, which binds its port by itself.
BuildWeb ==
    /\ Continue("utils", "loop")
    /\ UNCHANGED <<config_task, cache_task, queue_task>>

BuildWebFails == Abort("utils")

-----------------------------------------------------------------------------
(* The first poll of the tasks.                                            *)

SetStores ==
    /\ cache_task = "spawned"
    /\ main # "exited"
    /\ cache_task' = "running"
    /\ UNCHANGED <<cm, main, config_task, fetched, delivered, desyncs, config, queue_task>>

\* The queue's cell is set; then the gauges are filled from the config, and unwrap it.
StartQueue ==
    /\ queue_task = "spawned"
    /\ main # "exited"
    /\ queue_task' = IF config = Unset THEN "panicked" ELSE "running"
    /\ UNCHANGED <<cm, main, config_task, fetched, delivered, desyncs, config, cache_task>>

-----------------------------------------------------------------------------
(* RuntimeConfig::init_and_watch.                                          *)

\* Steps of the config task leave everything else alone.
ConfigTask(from) ==
    /\ config_task = from
    /\ main # "exited"
    /\ UNCHANGED <<cm, main, cache_task, queue_task>>

SetCell ==
    /\ ConfigTask("spawned")
    /\ config_task' = "get"
    /\ config' = 0
    /\ UNCHANGED <<fetched, delivered, desyncs>>

\* External: the API server answers, or the request fails.
GetAnswered ==
    /\ ConfigTask("get")
    /\ config_task' = "reply"
    /\ fetched' \in {cm, 0}
    /\ UNCHANGED <<config, delivered, desyncs>>

\* RuntimeConfig::try_from, and what an update that does not parse leaves.
TryFrom(content, otherwise) == IF content \in Parses THEN content ELSE otherwise

LoadInitial ==
    /\ ConfigTask("reply")
    /\ config_task' = "list"
    /\ config' = TryFrom(fetched, 0)
    /\ fetched' = 0
    /\ UNCHANGED <<delivered, desyncs>>

\* Mutant: without a generation the filter takes every later content for the same.
AppliedOnce(content) ==
    /\ delivered' = content
    /\ config' = IF delivered = 0 THEN TryFrom(content, config) ELSE config

\* for_each: an applied object replaces the value if it parses.  A ConfigMap has
\* no generation, so that the filter lets everything pass.
Applied(content) ==
    /\ delivered' = content
    /\ config' = TryFrom(content, config)

\* Mutant: the watch begins while the initial request is still under way, whose
\* answer is then applied last.
ListEarly ==
    /\ \/ ConfigTask("list") /\ config_task' = "watch"
       \/ ConfigTask("reply") /\ UNCHANGED config_task
    /\ Applied(cm)
    /\ UNCHANGED <<fetched, desyncs>>

\* The watcher lists, then delivers the changes one by one.
List ==
    /\ ConfigTask("list")
    /\ config_task' = "watch"
    /\ Applied(cm)
    /\ UNCHANGED <<fetched, desyncs>>

WatchEvent ==
    /\ ConfigTask("watch")
    /\ delivered < cm
    /\ Applied(delivered + 1)
    /\ UNCHANGED <<config_task, fetched, desyncs>>

\* External: the watch is lost; errors in the stream are passed over.
Desync ==
    /\ ConfigTask("watch")
    /\ desyncs < MaxDesyncs
    /\ desyncs' = desyncs + 1
    /\ config_task' = "list"
    /\ UNCHANGED <<config, fetched, delivered>>

\* External: somebody writes the ConfigMap.
WriteConfigMap ==
    /\ cm < MaxContent
    /\ cm' = cm + 1
    /\ UNCHANGED <<main, config_task, fetched, delivered, desyncs, config, cache_task,
                   queue_task>>

-----------------------------------------------------------------------------
Run ==
    \/ SpawnDetached
    \/ BuildLease \/ LeaseFails
    \/ SpawnQueue
    \/ BuildWeb \/ BuildWebFails

LoadConfig ==
    \/ SetCell \/ GetAnswered \/ LoadInitial \/ List \/ WatchEvent

StartNext == Run \/ SetStores \/ StartQueue \/ LoadConfig \/ Desync \/ WriteConfigMap

-----------------------------------------------------------------------------
(* Properties.                                                             *)

\* A replica never falls back to an older content of the ConfigMap, although
\* the initial request and the watch read it independently and the watch may
\* start again.
ConfigNeverGoesBack == [][config # Unset => config' >= config]_startVars

\* A content that parses and stays is loaded, unless the process has ended.
LatestConfigLoads ==
    \A c \in Parses : cm = c /\ config_task # "none" ~>
        config = c \/ cm # c \/ main = "exited"
=============================================================================
