--------------------------- MODULE KuboManagerProofs ---------------------------
(***************************************************************************)
(* Proofs about KuboManager, for every number of daemons and of runs.  The   *)
(* inductive invariant IInv joins the types and the two invariants with      *)
(* what a starting program has not touched yet (Starting), what the tray     *)
(* knows while it holds the mutex (Holding), and that no daemon belongs to a *)
(* run still to come (Owned).                                              *)
(***************************************************************************)
EXTENDS KuboManager, TLAPS

\* Until it runs, the program manages nothing: no child, no toggle, no mode but online.
Starting ==
    /\ init \in {"checking", "spawning", "waiting"} =>
          tray = "idle" /\ lock = "free" /\ child = None /\ ~offline /\ ~managed
    /\ init = "waiting" => spawned \in Daemons /\ ~isOffline[spawned]

\* The tray holds the mutex exactly between the old daemon and the new one, and only of a
\* manager that has a daemon to restart; the flag is that daemon's mode all the while.
Holding ==
    init = "running" =>
        /\ tray = "restarting" <=> lock = "tray"
        /\ tray = "restarting" => child = None
        /\ tray \in {"toggling", "restarting"} => managed
        /\ managed => spawned \in Daemons /\ offline = isOffline[spawned]

Owned == \A d \in Daemons : owner[d] <= run

IInv == TypeOK /\ Starting /\ Holding /\ Owned /\ NoLostDaemon /\ FlagTellsMode

LEMMA InitEstablishes == Init => IInv
<1> SUFFICES ASSUME Init PROVE IInv
  OBVIOUS
<1> USE KuboAssumption
<1>1. TypeOK
  <2>1. 0 \in 0..MaxRuns /\ 0 \in 0..MaxDaemons
    OBVIOUS
  <2>2. daemon \in [Daemons -> DaemonState]
    BY DEF Init, DaemonState
  <2> QED
    BY <2>1, <2>2 DEF Init, TypeOK
<1>2. Starting /\ Holding /\ NoLostDaemon /\ FlagTellsMode
  BY DEF Init, Starting, Holding, NoLostDaemon, FlagTellsMode
<1>3. Owned
  BY DEF Init, Owned
<1> QED
  BY <1>1, <1>2, <1>3 DEF IInv
-----------------------------------------------------------------------------
(* The steps, grouped by what they do to the daemons *)

\* Daemons die or begin to serve; nothing else changes but external.
DaemonsMove ==
    \/ ExternalStarts \/ ExternalStops
    \/ \E d \in Daemons : DaemonServes(d) \/ DaemonDies(d)

\* A new daemon of this run is the next one, and the others stay as they are.
LEMMA SpawnEffect ==
    ASSUME TypeOK, NEW mode \in BOOLEAN, Spawn(mode)
    PROVE  /\ spawned' \in Daemons
           /\ daemon' \in [Daemons -> DaemonState]
           /\ owner' \in [Daemons -> 0..MaxRuns]
           /\ isOffline' \in [Daemons -> BOOLEAN]
           /\ owner'[spawned'] = run
           /\ isOffline'[spawned'] = mode
           /\ \A d \in Daemons : d # spawned' => daemon'[d] = daemon[d] /\ owner'[d] = owner[d]
<1>1. spawned' \in Daemons
  BY KuboAssumption DEF Spawn, TypeOK, Daemons
<1> QED
  BY <1>1 DEF Spawn, TypeOK, DaemonState

\* What is killed is dead, and the others stay as they are.
LEMMA KillEffect ==
    ASSUME TypeOK, Kill(child)
    PROVE  /\ daemon' \in [Daemons -> DaemonState]
           /\ \A d \in Daemons : daemon'[d] = IF d = child THEN "dead" ELSE daemon[d]
BY KuboAssumption DEF Kill, TypeOK, DaemonState, Daemons

LEMMA DaemonsMoveEffect ==
    ASSUME TypeOK, DaemonsMove
    PROVE  /\ daemon' \in [Daemons -> DaemonState] /\ external' \in BOOLEAN
           /\ \A d \in Daemons : daemon'[d] \in {"starting", "serving"} => Alive(d)
           /\ UNCHANGED <<run, managerVars, threadVars, spawned, owner, isOffline>>
<1>1. CASE ExternalStarts \/ ExternalStops
  BY <1>1 DEF ExternalStarts, ExternalStops, daemonVars, TypeOK, Alive
<1>2. ASSUME NEW d \in Daemons, DaemonServes(d) \/ DaemonDies(d)
      PROVE  /\ daemon' \in [Daemons -> DaemonState] /\ external' \in BOOLEAN
             /\ \A e \in Daemons : daemon'[e] \in {"starting", "serving"} => Alive(e)
             /\ UNCHANGED <<run, managerVars, threadVars, spawned, owner, isOffline>>
  BY <1>2 DEF DaemonServes, DaemonDies, TypeOK, DaemonState, Alive
<1> QED
  BY <1>1, <1>2 DEF DaemonsMove
-----------------------------------------------------------------------------
\* Every step preserves the invariant.
LEMMA Step == IInv /\ [Next]_vars => IInv'
<1> SUFFICES ASSUME IInv, [Next]_vars PROVE IInv'
  OBVIOUS
<1> USE KuboAssumption DEF IInv, managerVars, threadVars, daemonVars
<1>0. \A d \in Daemons : d # None
  BY DEF Daemons
<1>1. CASE UNCHANGED vars
  BY <1>1 DEF vars, TypeOK, Starting, Holding, Owned, NoLostDaemon, FlagTellsMode, Ours, Alive
<1>2. CASE DaemonsMove
  <2>1. Ours' \subseteq Ours
    BY <1>2, DaemonsMoveEffect DEF Ours, Alive
  <2> QED
    BY <1>2, <2>1, DaemonsMoveEffect
       DEF TypeOK, Starting, Holding, Owned, NoLostDaemon, FlagTellsMode
<1>3. CASE ProgramStarts
  <2>1. \A d \in Daemons : owner[d] # run' /\ owner[d] <= run'
    BY <1>3 DEF ProgramStarts, Owned, TypeOK
  <2>2. Ours' = {}
    BY <1>3, <2>1 DEF ProgramStarts, Ours
  <2>3. TypeOK'
    <3>1. run' \in 0..MaxRuns
      BY <1>3 DEF ProgramStarts, TypeOK
    <3> QED
      BY <1>3, <3>1 DEF ProgramStarts, TypeOK
  <2> QED
    BY <1>3, <2>1, <2>2, <2>3 DEF ProgramStarts, Starting, Holding, Owned, NoLostDaemon, FlagTellsMode
<1>4. CASE AdoptsExisting \/ FindsNothing \/ Aborts \/ QuitExits \/ SignalExits
  <2>1. Ours' = Ours
    BY <1>4 DEF AdoptsExisting, FindsNothing, Aborts, QuitExits, SignalExits, Exits, Ours, Alive
  <2> QED
    BY <1>4, <2>1 DEF AdoptsExisting, FindsNothing, Aborts, QuitExits, SignalExits, Exits, TypeOK,
       Starting, Holding, Owned, NoLostDaemon, FlagTellsMode
<1>5. CASE SpawnsFirst
  <2>1. /\ Spawn(FALSE) /\ init' = "waiting" /\ Ours = {}
        /\ UNCHANGED <<run, managerVars, tray, wanted, signal, external>>
    BY <1>5 DEF SpawnsFirst, NoLostDaemon
  <2>2. /\ spawned' \in Daemons /\ ~isOffline'[spawned']
        /\ daemon' \in [Daemons -> DaemonState]
        /\ owner' \in [Daemons -> 0..MaxRuns]
        /\ isOffline' \in [Daemons -> BOOLEAN]
        /\ owner'[spawned'] = run
        /\ \A d \in Daemons : d # spawned' => daemon'[d] = daemon[d] /\ owner'[d] = owner[d]
    BY <2>1, SpawnEffect
  <2>3. Ours' \subseteq {spawned'}
    BY <2>1, <2>2 DEF Ours, Alive
  <2>4. run <= run
    BY DEF TypeOK
  <2>5. Owned'
    BY <2>1, <2>2, <2>4 DEF Owned
  <2>6. spawned' \in 0..MaxDaemons
    BY <2>2 DEF Daemons
  <2>7. TypeOK'
    BY <2>1, <2>2, <2>6 DEF TypeOK
  <2> QED
    BY <1>5, <2>1, <2>2, <2>3, <2>5, <2>7 DEF SpawnsFirst, Starting, Holding, NoLostDaemon, FlagTellsMode
<1>6. CASE ApiReady
  <2>1. Ours' = Ours
    BY <1>6 DEF ApiReady, Ours, Alive
  <2> QED
    BY <1>6, <2>1 DEF ApiReady, TypeOK, Starting, Holding, Owned, NoLostDaemon, FlagTellsMode
<1>7. CASE ToggleBegins \/ QuitChosen \/ SignalArrives \/ ToggleFails
  <2>1. Ours' = Ours
    BY <1>7 DEF ToggleBegins, QuitChosen, SignalArrives, ToggleFails, Ours, Alive
  <2>2. Owned' /\ NoLostDaemon' /\ Starting'
    BY <1>7, <2>1 DEF ToggleBegins, QuitChosen, SignalArrives, ToggleFails, Starting, Owned, NoLostDaemon
  <2>3. TypeOK'
    BY <1>7 DEF ToggleBegins, QuitChosen, SignalArrives, ToggleFails, TypeOK
  <2>4. Holding' /\ FlagTellsMode'
    <3>1. CASE ToggleBegins \/ QuitChosen \/ SignalArrives
      BY <3>1 DEF ToggleBegins, QuitChosen, SignalArrives, Holding, FlagTellsMode
    <3>2. CASE ToggleFails
      BY <3>2 DEF ToggleFails, Holding, FlagTellsMode
    <3> QED
      BY <1>7, <3>1, <3>2
  <2> QED
    BY <2>2, <2>3, <2>4
<1>8. CASE ToggleKillsOld \/ QuitStops \/ SignalStops
  <2>1. Kill(child) /\ init = "running" /\ child' = None /\ UNCHANGED <<run, owner, isOffline>>
    BY <1>8 DEF ToggleKillsOld, QuitStops, SignalStops, Stops
  <2>2. Ours' = {}
    BY <2>1, KillEffect DEF Ours, Alive, NoLostDaemon
  <2>3. TypeOK'
    BY <1>8, <2>1, KillEffect DEF ToggleKillsOld, QuitStops, SignalStops, Stops, TypeOK
  <2> QED
    BY <1>8, <2>1, <2>2, <2>3 DEF ToggleKillsOld, QuitStops, SignalStops, Stops,
       Starting, Holding, Owned, NoLostDaemon, FlagTellsMode
<1>9. CASE ToggleStartsNew
  <2>0. wanted \in BOOLEAN
    BY DEF TypeOK
  <2>1. Ours = {}
    BY <1>9, <1>0 DEF ToggleStartsNew, NoLostDaemon, Holding, Ours
  <2>2. Ours' \subseteq {spawned'}
    BY <1>9, <2>0, <2>1, SpawnEffect DEF ToggleStartsNew, Ours, Alive
  <2>3. Owned'
    BY <1>9, <2>0, SpawnEffect DEF ToggleStartsNew, Owned, TypeOK
  <2>4. TypeOK'
    BY <1>9, <2>0, SpawnEffect DEF ToggleStartsNew, TypeOK, Daemons
  <2> QED
    BY <1>9, <2>0, <2>2, <2>3, <2>4, SpawnEffect
       DEF ToggleStartsNew, Starting, Holding, NoLostDaemon, FlagTellsMode
<1> QED
  BY <1>1, <1>2, <1>3, <1>4, <1>5, <1>6, <1>7, <1>8, <1>9
     DEF Next, Program, Tray, Signal, DaemonsMove

\* IInv holds in every reachable state.
LEMMA Inductive == Spec => []IInv
BY InitEstablishes, Step, PTL DEF Spec
-----------------------------------------------------------------------------
(* What follows from the invariant *)

\* The manager, the threads and the daemons keep their types.
THEOREM TypeCorrect == Spec => []TypeOK
<1>1. IInv => TypeOK
  BY DEF IInv
<1> QED
  BY <1>1, Inductive, PTL

\* The running program never loses a daemon it spawned, whatever the tray thread and the
\* Ctrl+C task do under the mutex of the child (ipfs.rs 54-91).
THEOREM NoDaemonLost == Spec => []NoLostDaemon
<1>1. IInv => NoLostDaemon
  BY DEF IInv
<1> QED
  BY <1>1, Inductive, PTL

\* While the mutex is free, the offline flag is the mode of the daemon started last, whatever
\* toggles failed and whatever daemons died since (ipfs.rs 63-91).
THEOREM FlagIsMode == Spec => []FlagTellsMode
<1>1. IInv => FlagTellsMode
  BY DEF IInv
<1> QED
  BY <1>1, Inductive, PTL

\* stop() leaves no daemon of this run behind, for every number of daemons and runs
\* (ipfs.rs 54-61): the only one alive is the child it takes.
THEOREM StopIsComplete == Spec => StopLeavesNothing
<1>1. ASSUME IInv, QuitStops \/ SignalStops, NEW d \in Daemons, owner[d] = run
      PROVE  daemon'[d] \in {"unborn", "dead"}
  <2>1. Kill(child) /\ init = "running"
    BY <1>1 DEF QuitStops, SignalStops, Stops
  <2>2. d # child => ~Alive(d)
    BY <1>1, <2>1 DEF IInv, NoLostDaemon, Ours
  <2> QED
    BY <1>1, <2>1, <2>2, KillEffect DEF IInv, TypeOK, DaemonState, Alive
<1>2. IInv /\ [Next]_vars =>
         [QuitStops \/ SignalStops =>
            \A d \in Daemons : owner[d] = run => daemon'[d] \in {"unborn", "dead"}]_vars
  BY <1>1
<1> QED
  BY <1>2, Inductive, PTL DEF StopLeavesNothing, Spec
=============================================================================
