----------------------------- MODULE KuboManager -----------------------------
(***************************************************************************)
(* The Kubo daemon NeoMist uses: adopted when an IPFS API answers, started   *)
(* and managed otherwise (src/ipfs.rs), restarted when the user toggles IPFS *)
(* networking or quits from the tray (src/tray.rs), and stopped by Ctrl+C    *)
(* (src/main.rs).                                                          *)
(*                                                                         *)
(* Runs of the program follow each other.  Daemons outlive the program that  *)
(* spawned them unless it kills them.                                      *)
(***************************************************************************)
EXTENDS Naturals

CONSTANTS
    None,           \* Option::None
    MaxDaemons,     \* bound: how many daemons a behaviour may spawn
    MaxRuns         \* bound: how often the program may be started

ASSUME KuboAssumption == MaxDaemons \in Nat /\ MaxRuns \in Nat /\ None \notin Nat

VARIABLES
    run,            \* how often the program was started
    init,           \* where init_services is, "off" while the program does not run
    managed,        \* KuboManager.ipfs_path is Some
    child,          \* KuboManager.child
    offline,        \* KuboManager.offline
    lock,           \* who holds the mutex of child: "free", "tray" or "signal"
    tray,           \* the pc of the tray thread
    wanted,         \* the mode the toggle in progress asks for
    signal,         \* the pc of the Ctrl+C task
    spawned,        \* how many daemons were spawned
    daemon,         \* external: the state of each daemon
    owner,          \* the run that spawned each daemon
    isOffline,      \* whether each daemon was started with --offline
    external        \* external: an IPFS node of the user answers on the API port

managerVars == <<managed, child, offline, lock>>
threadVars == <<init, tray, wanted, signal>>
daemonVars == <<spawned, daemon, owner, isOffline>>
vars == <<run, managerVars, threadVars, daemonVars, external>>
-----------------------------------------------------------------------------
Daemons == 1..MaxDaemons
DaemonState == {"unborn", "starting", "serving", "dead"}

TypeOK ==
    /\ run \in 0..MaxRuns
    /\ init \in {"off", "checking", "spawning", "waiting", "running"}
    /\ managed \in BOOLEAN /\ offline \in BOOLEAN /\ wanted \in BOOLEAN /\ external \in BOOLEAN
    /\ child \in Daemons \union {None}
    /\ lock \in {"free", "tray", "signal"}
    /\ tray \in {"idle", "toggling", "restarting", "quitting", "exiting"}
    /\ signal \in {"waiting", "stopping", "exiting"}
    /\ spawned \in 0..MaxDaemons
    /\ daemon \in [Daemons -> DaemonState]
    /\ owner \in [Daemons -> 0..MaxRuns]
    /\ isOffline \in [Daemons -> BOOLEAN]

Alive(d) == daemon[d] \in {"starting", "serving"}
Ours == {d \in Daemons : Alive(d) /\ owner[d] = run}

\* check_existing_ipfs: somebody answers on the API port.
ApiAnswers == external \/ \E d \in Daemons : daemon[d] = "serving"

Init ==
    /\ run = 0
    /\ init = "off"
    /\ managed = FALSE
    /\ child = None
    /\ offline = FALSE
    /\ lock = "free"
    /\ tray = "idle"
    /\ wanted = FALSE
    /\ signal = "waiting"
    /\ spawned = 0
    /\ daemon = [d \in Daemons |-> "unborn"]
    /\ owner = [d \in Daemons |-> 0]
    /\ isOffline = [d \in Daemons |-> FALSE]
    /\ external \in BOOLEAN
-----------------------------------------------------------------------------
(* start_kubo_daemon, and the daemons themselves *)

Spawn(mode) ==
    /\ spawned < MaxDaemons
    /\ spawned' = spawned + 1
    /\ daemon' = [daemon EXCEPT ![spawned'] = "starting"]
    /\ owner' = [owner EXCEPT ![spawned'] = run]
    /\ isOffline' = [isOffline EXCEPT ![spawned'] = mode]

\* A daemon gets the lock of the repository and the API port, or exits when another
\* one has them.
DaemonServes(d) ==
    /\ daemon[d] = "starting"
    /\ daemon' = [daemon EXCEPT ![d] = IF ApiAnswers THEN "dead" ELSE "serving"]
    /\ UNCHANGED <<run, managerVars, threadVars, spawned, owner, isOffline, external>>

DaemonDies(d) ==
    /\ Alive(d)
    /\ daemon' = [daemon EXCEPT ![d] = "dead"]
    /\ UNCHANGED <<run, managerVars, threadVars, spawned, owner, isOffline, external>>

ExternalStarts ==
    /\ ~ApiAnswers
    /\ external' = TRUE
    /\ UNCHANGED <<run, managerVars, threadVars, daemonVars>>

ExternalStops ==
    /\ external
    /\ external' = FALSE
    /\ UNCHANGED <<run, managerVars, threadVars, daemonVars>>
-----------------------------------------------------------------------------
(* The program and init_kubo *)

ProgramStarts ==
    /\ init = "off"
    /\ run < MaxRuns
    /\ run' = run + 1
    /\ init' = "checking"
    /\ managed' = FALSE
    /\ child' = None
    /\ offline' = FALSE
    /\ lock' = "free"
    /\ tray' = "idle"
    /\ wanted' = FALSE
    /\ signal' = "waiting"
    /\ UNCHANGED <<daemonVars, external>>

\* The program ends; what it spawned stays.
Exits == init' = "off" /\ UNCHANGED <<run, managerVars, tray, wanted, signal, daemonVars, external>>

\* An error of init_services or of the DNS server, which exit(1), Quit while there is no
\* manager to stop yet, and a crash.
Aborts == init # "off" /\ Exits

\* Mutant: a node that was adopted counts as the daemon that was spawned last.
AdoptsAsManaged ==
    /\ init = "checking"
    /\ ApiAnswers
    /\ init' = "running"
    /\ managed' = TRUE
    /\ child' = spawned
    /\ UNCHANGED <<run, offline, lock, tray, wanted, signal, daemonVars, external>>

\* An IPFS API answers: it is used, whoever runs it.
AdoptsExisting ==
    /\ init = "checking"
    /\ ApiAnswers
    /\ init' = "running"
    /\ UNCHANGED <<run, managerVars, tray, wanted, signal, daemonVars, external>>

FindsNothing ==
    /\ init = "checking"
    /\ ~ApiAnswers
    /\ init' = "spawning"
    /\ UNCHANGED <<run, managerVars, tray, wanted, signal, daemonVars, external>>

\* The binary and the repository are ready; the first daemon is started online.
SpawnsFirst ==
    /\ init = "spawning"
    /\ Spawn(FALSE)
    /\ init' = "waiting"
    /\ UNCHANGED <<run, managerVars, tray, wanted, signal, external>>

\* wait_for_ipfs: the API answers within 20 seconds, else init_kubo fails (Aborts) and
\* leaves the daemon.  The manager is made and given to the tray only now.
ApiReady ==
    /\ init = "waiting"
    /\ ApiAnswers
    /\ init' = "running"
    /\ managed' = TRUE
    /\ child' = spawned
    /\ UNCHANGED <<run, offline, lock, tray, wanted, signal, daemonVars, external>>
-----------------------------------------------------------------------------
(* The tray thread *)

\* The menu item toggles the mode the flag tells; only a managed daemon is restarted.
ToggleBegins ==
    /\ init = "running" /\ managed /\ tray = "idle"
    /\ tray' = "toggling"
    /\ wanted' = ~offline
    /\ UNCHANGED <<run, managerVars, init, signal, daemonVars, external>>

Kill(d) == daemon' = IF d = None THEN daemon ELSE [daemon EXCEPT ![d] = "dead"]

\* Mutant: the old daemon is not killed.
ToggleForgetsOld ==
    /\ init = "running" /\ tray = "toggling" /\ lock = "free"
    /\ lock' = "tray"
    /\ child' = None
    /\ tray' = "restarting"
    /\ UNCHANGED <<run, managed, offline, init, wanted, signal, daemonVars, external>>

\* Under the mutex the old daemon is taken, killed and waited for.
ToggleKillsOld ==
    /\ init = "running" /\ tray = "toggling" /\ lock = "free"
    /\ lock' = "tray"
    /\ Kill(child)
    /\ child' = None
    /\ tray' = "restarting"
    /\ UNCHANGED <<run, managed, offline, init, wanted, signal, spawned, owner, isOffline, external>>

\* The new daemon is started, stored and its mode remembered before the mutex is free.
ToggleStartsNew ==
    /\ init = "running" /\ tray = "restarting"
    /\ Spawn(wanted)
    /\ child' = spawned'
    /\ offline' = wanted
    /\ lock' = "free"
    /\ tray' = "idle"
    /\ UNCHANGED <<run, managed, init, wanted, signal, external>>

\* Mutant: the new mode is remembered before the daemon is started.
ToggleFailsFlagged ==
    /\ init = "running" /\ tray = "restarting"
    /\ offline' = wanted
    /\ lock' = "free"
    /\ tray' = "idle"
    /\ UNCHANGED <<run, managed, child, init, wanted, signal, daemonVars, external>>

\* start_kubo_daemon returned Err: there is no daemon, and the flag tells the old mode.
ToggleFails ==
    /\ init = "running" /\ tray = "restarting"
    /\ lock' = "free"
    /\ tray' = "idle"
    /\ UNCHANGED <<run, managed, child, offline, init, wanted, signal, daemonVars, external>>

QuitChosen ==
    /\ init = "running" /\ tray = "idle"
    /\ tray' = "quitting"
    /\ UNCHANGED <<run, managerVars, init, wanted, signal, daemonVars, external>>

\* stop(): the child is taken, killed and waited for under the mutex.
Stops ==
    /\ init = "running" /\ lock = "free"
    /\ Kill(child)
    /\ child' = None
    /\ UNCHANGED <<run, managed, offline, lock, init, wanted, spawned, owner, isOffline, external>>

QuitStops == tray = "quitting" /\ tray' = "exiting" /\ Stops /\ UNCHANGED signal
QuitExits == tray = "exiting" /\ init = "running" /\ Exits
-----------------------------------------------------------------------------
(* The Ctrl+C task *)

SignalArrives ==
    /\ init = "running" /\ signal = "waiting"
    /\ signal' = "stopping"
    /\ UNCHANGED <<run, managerVars, init, tray, wanted, daemonVars, external>>

SignalStops == signal = "stopping" /\ signal' = "exiting" /\ Stops /\ UNCHANGED tray
SignalExits == signal = "exiting" /\ init = "running" /\ Exits
-----------------------------------------------------------------------------
Program ==
    \/ ProgramStarts \/ Aborts \/ AdoptsExisting \/ FindsNothing \/ SpawnsFirst \/ ApiReady

Tray ==
    \/ ToggleBegins \/ ToggleKillsOld \/ ToggleStartsNew \/ ToggleFails
    \/ QuitChosen \/ QuitStops \/ QuitExits

Signal == SignalArrives \/ SignalStops \/ SignalExits

Next ==
    \/ Program \/ Tray \/ Signal
    \/ ExternalStarts \/ ExternalStops
    \/ \E d \in Daemons : DaemonServes(d) \/ DaemonDies(d)

Spec == Init /\ [][Next]_vars
-----------------------------------------------------------------------------
(* Properties *)

\* Whatever toggles, quits and signals do to each other, the running program never loses
\* a daemon it spawned: it is the child, or the one init_kubo waits for.
NoLostDaemon ==
    /\ init = "running" => Ours \subseteq {child}
    /\ init = "waiting" => Ours \subseteq {spawned}
    /\ init \in {"checking", "spawning"} => Ours = {}

\* Whenever the mutex is free, the flag that the tray shows and the next toggle inverts is
\* the mode of the daemon started last, also after that daemon died and after a toggle that
\* could not start its own: the next toggle then asks once more for the mode that failed.
\* The child is that daemon or none, never one that an earlier toggle replaced.
FlagTellsMode ==
    init = "running" /\ managed /\ lock = "free" =>
        child \in {None, spawned} /\ offline = isOffline[spawned]

\* stop() leaves no daemon of this run behind, also when it had to wait for a toggle.
StopLeavesNothing ==
    [][QuitStops \/ SignalStops => \A d \in Daemons : owner[d] = run => daemon'[d] \in {"unborn", "dead"}]_vars
=============================================================================
