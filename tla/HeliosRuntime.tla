---------------------------- MODULE HeliosRuntime ----------------------------
(***************************************************************************)
(* The embedded Helios light client of NeoMist: its in-process restart      *)
(* (src/helios_manager.rs), the monitor that publishes the first sync       *)
(* (src/main.rs), and the ENS lookups that schedule restarts and wait for   *)
(* the client to recover (src/ens.rs).                                      *)
(*                                                                         *)
(* A client generation is a number: 0 is the client main.rs builds, k the   *)
(* one built by the k-th restart.  Restart k is a task of its own; its pc   *)
(* is task[k].  Each atomic load or store of the code that another task can *)
(* observe is a step of its own.                                            *)
(***************************************************************************)
EXTENDS Naturals, Sequences, FiniteSets

CONSTANTS
    Lookups,        \* the ENS lookups running at the same time
    MaxRestarts     \* bound: how many restarts a behaviour may take

ASSUME MaxRestartsAssumption == MaxRestarts \in Nat

VARIABLES
    hasSynced,      \* AppState.helios_has_synced
    restarting,     \* HeliosRuntime.restarting
    synced,         \* HeliosRuntime.current_client_synced
    syncEpoch,      \* HeliosRuntime.sync_epoch
    notifyCalls,    \* how often sync_notify.notify_waiters() has run
    client,         \* HeliosRuntime.client: the current generation
    rpcHandle,      \* HeliosRuntime.rpc_handle: {g} for Some, {} for None
    trayClient,     \* TrayState.helios_client
    listening,      \* external: generations whose RPC server holds the port
    down,           \* external: generations that were shut down
    ready,          \* external: generations whose wait_synced returned Ok
    taken,          \* how many restarts have been taken
    task,           \* the pc of each restart
    held,           \* old_rpc_handle of each restart
    publishing,     \* how much of mark_current_client_synced each generation ran
    monitor,        \* the pc of the first-sync monitor of main.rs
    follower,       \* the following loop, which waits for the monitor
    raced,          \* ghost: a restart was taken while the monitor was publishing
    lookup,         \* the pc of each lookup
    error,          \* the class of each lookup's error, while that matters
    retried,        \* the lookups that already waited for a recovery
    after,          \* after_epoch of each waiting lookup
    seen            \* notify_waiters() calls before each waiter's notified()

runtimeVars == <<restarting, synced, syncEpoch, notifyCalls, client, rpcHandle>>
externalVars == <<listening, down, ready>>
restartVars == <<taken, task, held, trayClient, raced>>
startupVars == <<hasSynced, monitor, follower>>
waitVars == <<after, seen>>
lookupVars == <<lookup, error, retried, after, seen>>
vars == <<runtimeVars, externalVars, restartVars, startupVars, publishing, lookupVars>>
-----------------------------------------------------------------------------
Restarts == 1..MaxRestarts
Generations == 0..MaxRestarts

\* What a lookup error says, by the patterns of ens.rs: the network is down;
\* Helios lags an hour or more; Helios lags less or says no number; anything else.
ErrorClass == {"offline", "stale", "behind", "other"}

\* Errors after which a cached record may be served.
FallbackError(e) == e \in {"offline", "stale", "behind"}

\* Errors that ask for a restart of the embedded client.
RestartError(e) == e \in {"offline", "stale"}

TaskPc == {"none", "scheduled", "spawned", "stopping", "shutdown", "building",
           "swapping", "storing", "tray", "watching", "publishing",
           "releasing", "failed", "done"}
LookupPc == {"idle", "resolving", "deciding", "scheduling", "clearing", "fallback",
             "loadSynced", "reason", "recheck", "readEpoch", "register", "check",
             "await"}
MonitorPc == {"waiting", "publishing", "signalling", "done", "failed"}

\* A restart is in flight from its compare_exchange to its release of the flag.
InFlight(k) == task[k] \notin {"none", "done"}

\* Mutants of MarkOrder: waiters notified before the epoch they compare moves; the
\* epoch moved before and after the store.
MarkOrderNotifyFirst == <<"notify", "store", "bump">>
MarkOrderBumpTwice == <<"bump", "store", "bump", "notify">>

\* mark_current_client_synced in program order.
MarkOrder == <<"store", "bump", "notify">>

TypeOK ==
    /\ hasSynced \in BOOLEAN /\ restarting \in BOOLEAN
    /\ synced \in BOOLEAN /\ raced \in BOOLEAN
    /\ syncEpoch \in 0..(taken + 1)
    /\ notifyCalls \in 0..(taken + 1)
    /\ client \in 0..taken /\ trayClient \in 0..taken
    /\ rpcHandle \subseteq 0..taken /\ listening \subseteq 0..taken
    /\ down \subseteq 0..taken /\ ready \subseteq 0..taken
    /\ taken \in Generations
    /\ task \in [Restarts -> TaskPc]
    /\ held \in [Restarts -> SUBSET (0..taken)]
    /\ publishing \in [Generations -> 0..3]
    /\ monitor \in MonitorPc
    /\ follower \in {"waiting", "running", "stopped"}
    /\ lookup \in [Lookups -> LookupPc]
    /\ error \in [Lookups -> ErrorClass]
    /\ retried \subseteq Lookups
    /\ after \in [Lookups -> Nat]
    /\ seen \in [Lookups -> Nat]

Init ==
    /\ hasSynced = FALSE
    /\ restarting = FALSE
    /\ synced = FALSE
    /\ syncEpoch = 0
    /\ notifyCalls = 0
    /\ client = 0
    /\ rpcHandle = {0}
    /\ trayClient = 0
    /\ listening = {0}
    /\ down = {}
    /\ ready = {}
    /\ taken = 0
    /\ task = [k \in Restarts |-> "none"]
    /\ held = [k \in Restarts |-> {}]
    /\ publishing = [g \in Generations |-> 0]
    /\ monitor = "waiting"
    /\ follower = "waiting"
    /\ raced = FALSE
    /\ lookup = [p \in Lookups |-> "idle"]
    /\ error = [p \in Lookups |-> "other"]
    /\ retried = {}
    /\ after = [p \in Lookups |-> 0]
    /\ seen = [p \in Lookups |-> 0]
-----------------------------------------------------------------------------
(* mark_current_client_synced, run by the monitor (0) or by restart g's watcher *)

Publish(g) ==
    LET op == MarkOrder[publishing[g] + 1] IN
    /\ publishing[g] < Len(MarkOrder)
    /\ IF g = 0 THEN monitor = "publishing" ELSE task[g] = "publishing"
    /\ synced' = (synced \/ op = "store")
    /\ syncEpoch' = IF op = "bump" THEN syncEpoch + 1 ELSE syncEpoch
    /\ notifyCalls' = IF op = "notify" THEN notifyCalls + 1 ELSE notifyCalls
    /\ publishing' = [publishing EXCEPT ![g] = @ + 1]
    /\ UNCHANGED <<restarting, client, rpcHandle, externalVars, restartVars,
                   startupVars, lookupVars>>

Published(g) == publishing[g] = Len(MarkOrder)
-----------------------------------------------------------------------------
(* The monitor of main.rs and the following loop it releases *)

\* wait_synced returned Ok: helios_has_synced is set before the runtime's flag.
MonitorSynced ==
    /\ monitor = "waiting"
    /\ ready' = ready \union {0}
    /\ hasSynced' = TRUE
    /\ monitor' = "publishing"
    /\ UNCHANGED <<runtimeVars, listening, down, restartVars, follower, publishing, lookupVars>>

\* Mutant: the monitor ends without sending on the sync channel.
MonitorForgetsSignal ==
    /\ monitor = "publishing"
    /\ Published(0)
    /\ monitor' = "done"
    /\ UNCHANGED <<runtimeVars, externalVars, restartVars, hasSynced, follower,
                   publishing, lookupVars>>

MonitorPublished ==
    /\ monitor = "publishing"
    /\ Published(0)
    /\ monitor' = "signalling"
    /\ UNCHANGED <<runtimeVars, externalVars, restartVars, hasSynced, follower,
                   publishing, lookupVars>>

\* wait_synced returned Err: the sender of the sync channel is dropped.
MonitorFails ==
    /\ monitor = "waiting"
    /\ monitor' = "failed"
    /\ UNCHANGED <<runtimeVars, externalVars, restartVars, hasSynced, follower,
                   publishing, lookupVars>>

\* The send and the loop's recv of the only message of the channel.
FollowerStarts ==
    /\ monitor = "signalling"
    /\ monitor' = "done"
    /\ follower' = "running"
    /\ UNCHANGED <<runtimeVars, externalVars, restartVars, hasSynced, publishing, lookupVars>>

\* recv returned None: the loop returns, and nothing starts it again.
FollowerStops ==
    /\ monitor = "failed"
    /\ follower = "waiting"
    /\ follower' = "stopped"
    /\ UNCHANGED <<runtimeVars, externalVars, restartVars, hasSynced, monitor,
                   publishing, lookupVars>>
-----------------------------------------------------------------------------
(* The restart task *)

TaskStep(k, from, to) ==
    /\ task[k] = from
    /\ task' = [task EXCEPT ![k] = to]

\* Mutant: the handle is cloned and left in the mutex.
RestartClonesHandle(k) ==
    /\ TaskStep(k, "spawned", "stopping")
    /\ synced' = FALSE
    /\ held' = [held EXCEPT ![k] = rpcHandle]
    /\ UNCHANGED <<restarting, syncEpoch, notifyCalls, client, rpcHandle, externalVars,
                   taken, trayClient, raced, startupVars, publishing, lookupVars>>

\* The sync flag is cleared again and the RPC handle taken out of its mutex.
RestartTakesHandle(k) ==
    /\ TaskStep(k, "spawned", "stopping")
    /\ synced' = FALSE
    /\ held' = [held EXCEPT ![k] = rpcHandle]
    /\ rpcHandle' = {}
    /\ UNCHANGED <<restarting, syncEpoch, notifyCalls, client, externalVars, taken,
                   trayClient, raced, startupVars, publishing, lookupVars>>

\* Mutant: the handle is dropped without a stop request.
RestartDropsHandle(k) ==
    /\ TaskStep(k, "stopping", "shutdown")
    /\ UNCHANGED <<runtimeVars, externalVars, taken, held, trayClient, raced, startupVars,
                   publishing, lookupVars>>

\* stop() and stopped().await: the old server, if one was running, frees the port.
RestartStopsServer(k) ==
    /\ TaskStep(k, "stopping", "shutdown")
    /\ listening' = listening \ held[k]
    /\ UNCHANGED <<runtimeVars, down, ready, taken, held, trayClient, raced, startupVars,
                   publishing, lookupVars>>

RestartShutsClientDown(k) ==
    /\ TaskStep(k, "shutdown", "building")
    /\ down' = down \union {client}
    /\ UNCHANGED <<runtimeVars, listening, ready, taken, held, trayClient, raced, startupVars,
                   publishing, lookupVars>>

\* A client is built and its server binds the port, which only one server can hold.
RestartStartsServer(k) ==
    /\ TaskStep(k, "building", "swapping")
    /\ listening = {}
    /\ listening' = listening \union {k}
    /\ UNCHANGED <<runtimeVars, down, ready, taken, held, trayClient, raced, startupVars,
                   publishing, lookupVars>>

\* build_helios_client or start_rpc_server returned Err.
RestartFails(k) ==
    /\ TaskStep(k, "building", "failed")
    /\ UNCHANGED <<runtimeVars, externalVars, taken, held, trayClient, raced, startupVars,
                   publishing, lookupVars>>

RestartSwapsClient(k) ==
    /\ TaskStep(k, "swapping", "storing")
    /\ client' = k
    /\ UNCHANGED <<restarting, synced, syncEpoch, notifyCalls, rpcHandle, externalVars,
                   taken, held, trayClient, raced, startupVars, publishing, lookupVars>>

RestartStoresHandle(k) ==
    /\ TaskStep(k, "storing", "tray")
    /\ rpcHandle' = {k}
    /\ UNCHANGED <<restarting, synced, syncEpoch, notifyCalls, client, externalVars,
                   taken, held, trayClient, raced, startupVars, publishing, lookupVars>>

\* The tray gets the client and the task that watches its sync is spawned.
RestartSetsTray(k) ==
    /\ TaskStep(k, "tray", "watching")
    /\ trayClient' = k
    /\ UNCHANGED <<runtimeVars, externalVars, taken, held, raced, startupVars, publishing, lookupVars>>

WatchSynced(k) ==
    /\ TaskStep(k, "watching", "publishing")
    /\ ready' = ready \union {k}
    /\ UNCHANGED <<runtimeVars, listening, down, taken, held, trayClient, raced, startupVars,
                   publishing, lookupVars>>

WatchPublished(k) ==
    /\ Published(k)
    /\ TaskStep(k, "publishing", "releasing")
    /\ UNCHANGED <<runtimeVars, externalVars, taken, held, trayClient, raced, startupVars,
                   publishing, lookupVars>>

\* Mutant: the sync is published whatever wait_synced returned.
WatchPublishesAnyway(k) ==
    /\ TaskStep(k, "watching", "publishing")
    /\ UNCHANGED <<runtimeVars, externalVars, taken, held, trayClient, raced, startupVars,
                   publishing, lookupVars>>

WatchFails(k) ==
    /\ TaskStep(k, "watching", "failed")
    /\ UNCHANGED <<runtimeVars, externalVars, taken, held, trayClient, raced, startupVars,
                   publishing, lookupVars>>

\* Mutant: a restart that failed leaves the flag set.
ReleasesOnSuccess(k) ==
    /\ TaskStep(k, "releasing", "done")
    /\ restarting' = FALSE
    /\ UNCHANGED <<synced, syncEpoch, notifyCalls, client, rpcHandle, externalVars, taken,
                   held, trayClient, raced, startupVars, publishing, lookupVars>>

\* Every way out of a restart stores FALSE in the flag.
RestartReleases(k) ==
    /\ \/ TaskStep(k, "failed", "done")
       \/ TaskStep(k, "releasing", "done")
    /\ restarting' = FALSE
    /\ UNCHANGED <<synced, syncEpoch, notifyCalls, client, rpcHandle, externalVars, taken, held,
                   trayClient, raced, startupVars, publishing, lookupVars>>

RestartBody(k) ==
    \/ RestartTakesHandle(k) \/ RestartStopsServer(k) \/ RestartShutsClientDown(k)
    \/ RestartStartsServer(k) \/ RestartFails(k)
    \/ RestartSwapsClient(k) \/ RestartStoresHandle(k) \/ RestartSetsTray(k)
    \/ WatchPublished(k) \/ RestartReleases(k)

\* wait_synced of the new client returns when Helios makes it return.
WatchReturns(k) == WatchSynced(k) \/ WatchFails(k)
-----------------------------------------------------------------------------
(* An ENS lookup *)

Goto(p, from, to) ==
    /\ lookup[p] = from
    /\ lookup' = [lookup EXCEPT ![p] = to]

\* A step of lookup p that only reads what the other tasks write.
ReadOnly == UNCHANGED <<runtimeVars, externalVars, restartVars, startupVars, publishing>>
OnlyMoves == ReadOnly /\ UNCHANGED <<error, retried, waitVars>>

\* The lookup returns, with a record or an error, and its locals are dropped.
Answers(p, from) ==
    /\ Goto(p, from, "idle")
    /\ error' = [error EXCEPT ![p] = "other"]
    /\ retried' = retried \ {p}
    /\ after' = [after EXCEPT ![p] = 0]
    /\ seen' = [seen EXCEPT ![p] = 0]
    /\ ReadOnly

LookupBegins(p) == Goto(p, "idle", "resolving") /\ OnlyMoves

LookupResolves(p) == Answers(p, "resolving")

\* Bound: an error that may lead to a restart is raised only while one is left to take.
Asking == {p \in Lookups : lookup[p] \in {"deciding", "scheduling"} /\ RestartError(error[p])}

LookupErrs(p, e) ==
    /\ Goto(p, "resolving", "deciding")
    /\ RestartError(e) => taken + Cardinality(Asking) < MaxRestarts
    /\ error' = [error EXCEPT ![p] = e]
    /\ ReadOnly /\ UNCHANGED <<retried, waitVars>>

\* maybe_schedule_helios_restart_for_error
LookupDecides(p) ==
    /\ Goto(p, "deciding", IF hasSynced /\ RestartError(error[p]) THEN "scheduling" ELSE "fallback")
    /\ OnlyMoves

\* Mutant: a plain store instead of the compare_exchange.
FlagIgnored == TRUE

\* The compare_exchange of maybe_schedule_restart succeeds, or finds the flag set.
FlagFree == ~restarting

TakesRestart(p) ==
    /\ FlagFree
    /\ taken < MaxRestarts
    /\ Goto(p, "scheduling", "clearing")
    /\ restarting' = TRUE
    /\ taken' = taken + 1
    /\ task' = [task EXCEPT ![taken + 1] = "scheduled"]
    /\ raced' = (raced \/ (monitor = "publishing" /\ publishing[0] = 0))
    /\ UNCHANGED <<synced, syncEpoch, notifyCalls, client, rpcHandle, externalVars, held,
                   trayClient, startupVars, publishing, error, retried, waitVars>>

LeavesRestart(p) == ~FlagFree /\ Goto(p, "scheduling", "fallback") /\ OnlyMoves

\* The winner clears the sync flag, then spawns the restart task.
SpawnsRestart(p) ==
    /\ Goto(p, "clearing", "fallback")
    /\ \E k \in Restarts : TaskStep(k, "scheduled", "spawned")
    /\ synced' = FALSE
    /\ UNCHANGED <<restarting, syncEpoch, notifyCalls, client, rpcHandle, externalVars,
                   taken, held, trayClient, raced, startupVars, publishing, error,
                   retried, waitVars>>

\* A cached record answers the request; or the caller gives the error up: it does not
\* wait (an address, web3 or follower lookup), or this was the retry.
LookupFallsBack(p) == Answers(p, "fallback")

\* There is a reason to wait; which error it was no longer matters.
Rechecks(p, from) ==
    /\ Goto(p, from, "recheck")
    /\ error' = [error EXCEPT ![p] = "other"]
    /\ ReadOnly /\ UNCHANGED <<retried, waitVars>>

\* wait_for_helios_recovery_and_retry_contenthash, with nothing cached:
\* waiting_for_initial_sync loads helios_has_synced, then the runtime's flag.
LoadsHasSynced(p) ==
    /\ FallbackError(error[p])
    /\ p \notin retried
    /\ Goto(p, "fallback", IF hasSynced THEN "reason" ELSE "loadSynced")
    /\ OnlyMoves

LoadsSynced(p) ==
    \/ synced /\ Goto(p, "loadSynced", "reason") /\ OnlyMoves
    \/ ~synced /\ Rechecks(p, "loadSynced")

\* waiting_for_restart; without either reason to wait the lookup has failed.
WaitsForRestart(p) == (hasSynced /\ error[p] = "offline") \/ error[p] = "stale"
Reasons(p) == WaitsForRestart(p) /\ Rechecks(p, "reason")
NoReason(p) == ~WaitsForRestart(p) /\ Answers(p, "reason")

Retry(p, from) ==
    /\ Goto(p, from, "resolving")
    /\ retried' = retried \union {p}
    /\ after' = [after EXCEPT ![p] = 0]
    /\ seen' = [seen EXCEPT ![p] = 0]
    /\ ReadOnly /\ UNCHANGED error

\* "Helios already recovered": the lookup is retried at once.
AlreadyRecovered(p) == synced /\ Retry(p, "recheck")
NotRecovered(p) == ~synced /\ Goto(p, "recheck", "readEpoch") /\ OnlyMoves

ReadsEpoch(p) ==
    /\ Goto(p, "readEpoch", "register")
    /\ after' = [after EXCEPT ![p] = syncEpoch]
    /\ ReadOnly /\ UNCHANGED <<error, retried, seen>>

\* wait_for_sync_after: the notified() future is made before the condition is read.
Registers(p) ==
    /\ Goto(p, "register", "check")
    /\ seen' = [seen EXCEPT ![p] = notifyCalls]
    /\ ReadOnly /\ UNCHANGED <<error, retried, after>>

Recovered(p) == synced /\ syncEpoch > after[p]
Recovers(p) == Recovered(p) /\ Retry(p, "check")
Awaits(p) == ~Recovered(p) /\ Goto(p, "check", "await") /\ OnlyMoves

\* notified.await returns once notify_waiters has run since the future was made.
Notified(p) == notifyCalls > seen[p]
Wakes(p) == Notified(p) /\ Goto(p, "await", "register") /\ OnlyMoves

\* Mutant: the wait has no timeout.
NeverTimesOut(p) == FALSE

\* The timeout is looked at only when the future it wraps is still pending.
TimesOut(p) == ~Notified(p) /\ Answers(p, "await")

LookupReturnsValue(p) == LookupResolves(p) \/ \E e \in ErrorClass : LookupErrs(p, e)
LookupBody(p) ==
    \/ LookupDecides(p) \/ TakesRestart(p) \/ LeavesRestart(p) \/ SpawnsRestart(p)
    \/ LookupFallsBack(p)
    \/ LoadsHasSynced(p) \/ LoadsSynced(p) \/ Reasons(p) \/ NoReason(p)
    \/ AlreadyRecovered(p) \/ NotRecovered(p) \/ ReadsEpoch(p) \/ Registers(p)
    \/ Recovers(p) \/ Awaits(p) \/ Wakes(p)
-----------------------------------------------------------------------------
MonitorBody == MonitorPublished \/ FollowerStarts \/ FollowerStops

Next ==
    \/ \E g \in Generations : Publish(g)
    \/ MonitorSynced \/ MonitorFails \/ MonitorBody
    \/ \E k \in Restarts : RestartBody(k) \/ WatchReturns(k)
    \/ \E p \in Lookups :
          \/ LookupBegins(p) \/ LookupReturnsValue(p) \/ LookupBody(p)
          \/ TimesOut(p)

\* Tokio runs every task that is ready, a resolution returns (each RPC has a
\* timeout), and a wait has a timer.  Nothing makes wait_synced return, and nothing
\* makes a user ask for a site.
Fairness ==
    /\ \A g \in Generations : WF_vars(Publish(g))
    /\ WF_vars(MonitorBody)
    /\ \A k \in Restarts : WF_vars(RestartBody(k))
    /\ \A p \in Lookups :
          /\ WF_vars(LookupReturnsValue(p))
          /\ WF_vars(LookupBody(p))
          /\ WF_vars(TimesOut(p))

Spec == Init /\ [][Next]_vars
FairSpec == Spec /\ Fairness
-----------------------------------------------------------------------------
(* Properties *)

\* One restart at a time, and `restarting` is set exactly while it runs: whichever way
\* a restart ends, the flag is free again and no second task ever shares it.
RestartExclusive ==
    /\ \A j, k \in Restarts : InFlight(j) /\ InFlight(k) => j = k
    /\ restarting <=> \E k \in Restarts : InFlight(k)

\* The RPC port: outside a restart the runtime holds the handle of every server that
\* is listening, so that the next restart can stop it and bind the port again.
NoOrphanServer ==
    /\ Cardinality(listening) <= 1
    /\ ~restarting => listening = rpcHandle

\* No lost wakeup: while a lookup sleeps though its condition holds, a notify_waiters
\* it will see has run, or the task that publishes the sync has still to call it.
Settled == \A g \in Generations :
    (IF g = 0 THEN monitor = "publishing" ELSE task[g] = "publishing") => Published(g)
NoLostWakeup ==
    Settled => \A p \in Lookups : lookup[p] = "await" /\ Recovered(p) => Notified(p)

\* current_client_synced speaks of the current client: that client has synced, has not
\* been shut down, and its RPC server is the one installed.  The one exception is a
\* restart taken between main.rs's two stores (`raced`).
SyncedFlagIsCurrent ==
    synced /\ ~raced =>
        /\ client \in ready
        /\ client \notin down
        /\ rpcHandle = {client} /\ client \in listening

\* A restart never keeps the flag because of a step of its own: it is released, or
\* waits for nothing but the new client's wait_synced.
RestartSettles == restarting ~> (~restarting \/ \E k \in Restarts : task[k] = "watching")

\* Every lookup is answered.
LookupReturns == \A p \in Lookups :
    lookup[p] = "resolving" ~> lookup[p] = "idle"

\* The following loop never waits for ever (following.rs 10-16): after the first sync it runs
\* from then on; when the monitor fails its sender is dropped and the loop ends, for good,
\* whatever restarts of the client sync later.
FollowerRuns ==
    /\ hasSynced ~> [](follower = "running")
    /\ monitor = "failed" ~> [](follower = "stopped")

\* The runtime implements the handover of HeliosHandover.
Holder == IF \E k \in Restarts : InFlight(k) THEN CHOOSE k \in Restarts : InFlight(k) ELSE 0
Handover == INSTANCE HeliosHandover WITH holder <- Holder, serving <- rpcHandle
HandoverSpec == Handover!Spec

\* What requests read of the flags is what LightClient says they may.
Flags == IF synced THEN "synced" ELSE IF hasSynced THEN "recovering" ELSE "starting"
Client == INSTANCE LightClient WITH helios <- Flags
FlagsAreRead ==
    /\ Client!helios_has_synced <=> hasSynced
    /\ Client!is_current_client_synced <=> synced

\* The runtime keeps both promises, that of its restarts and that of its flags
\* (mark_current_client_synced and restart of helios_manager.rs, the monitor of main.rs).
Promises == HandoverSpec /\ Client!ClientSpec /\ []FlagsAreRead
=============================================================================
