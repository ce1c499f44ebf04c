--------------------------- MODULE LightClientProofs ---------------------------
(***************************************************************************)
(* Proofs about the light client: about HeliosRuntime, for every set of      *)
(* lookups and every number of restarts, and about Checkpoints, for every     *)
(* set of hashes and tasks and every capacity.                             *)
(*                                                                         *)
(* HeliosRuntime: the inductive invariant IInv joins the types, the order in *)
(* which restarts are taken, the exclusion of restarts, what each step of a  *)
(* restart knows about the RPC server, and the count of published syncs.     *)
(* SyncInv adds what each task knows of the client that is called synced,    *)
(* WakeInv which task still owes a notification, and FlagInv the order in     *)
(* which the flags are first set.                                           *)
(*                                                                         *)
(* Checkpoints: CheckpointInv joins the types, that no copy of the history    *)
(* repeats a checkpoint next to itself, and what a task that has the file     *)
(* for itself knows of the file (Alone).                                    *)
(***************************************************************************)
EXTENDS HeliosRuntime, Checkpoints, FiniteSetTheorems, TLAPS

\* The types alone, without the bounds that need a count.
Types ==
    /\ hasSynced \in BOOLEAN /\ restarting \in BOOLEAN
    /\ synced \in BOOLEAN /\ raced \in BOOLEAN
    /\ syncEpoch \in Nat /\ notifyCalls \in Nat
    /\ client \in 0..taken /\ trayClient \in 0..taken
    /\ rpcHandle \subseteq 0..taken /\ listening \subseteq 0..taken
    /\ down \subseteq 0..taken /\ ready \subseteq 0..taken
    /\ taken \in Generations
    /\ task \in [Restarts -> TaskPc]
    /\ held \in [Restarts -> SUBSET (0..taken)]
    /\ publishing \in [Generations -> 0..3]
    /\ monitor \in MonitorPc
    /\ follower \in {"waiting", "running", "stopped"}
    /\ lookup \in [Lookups -> LookupPc]
    /\ error \in [Lookups -> ErrorClass]
    /\ retried \subseteq Lookups
    /\ after \in [Lookups -> Nat]
    /\ seen \in [Lookups -> Nat]

\* Restarts are taken in the order of their numbers.
TakenInOrder == \A k \in Restarts : task[k] # "none" <=> k <= taken

\* One bump and one notify per generation that published its sync.
Bumped == {g \in Generations : publishing[g] >= 2}
Told == {g \in Generations : publishing[g] = 3}
Counted ==
    /\ \A g \in Generations : publishing[g] > 0 => g <= taken
    /\ syncEpoch = Cardinality(Bumped)
    /\ notifyCalls = Cardinality(Told)

\* What each step of a restart knows about the port and the handle.
ServerAt(k) ==
    /\ task[k] \in {"scheduled", "spawned", "failed"} => listening = rpcHandle
    /\ task[k] = "stopping" => rpcHandle = {} /\ listening = held[k]
    /\ task[k] \in {"shutdown", "building"} => rpcHandle = {} /\ listening = {}
    /\ task[k] \in {"swapping", "storing"} => rpcHandle = {} /\ listening = {k}
    /\ task[k] \in {"tray", "watching", "publishing", "releasing"} =>
          listening = {k} /\ rpcHandle = {k}
ServerInv ==
    /\ \A k \in Restarts : ServerAt(k)
    /\ ~restarting => listening = rpcHandle
    /\ \E g \in Generations : listening \subseteq {g}

IInv == Types /\ TakenInOrder /\ RestartExclusive /\ ServerInv /\ Counted
-----------------------------------------------------------------------------
(* Which variables the steps of a lookup, of the monitor and of Publish leave alone *)

\* The steps of a lookup that neither take nor spawn a restart.
QuietLookup(p) ==
    \/ LookupBegins(p) \/ LookupReturnsValue(p) \/ TimesOut(p)
    \/ LookupDecides(p) \/ LeavesRestart(p) \/ LookupFallsBack(p)
    \/ LoadsHasSynced(p) \/ LoadsSynced(p) \/ Reasons(p) \/ NoReason(p)
    \/ AlreadyRecovered(p) \/ NotRecovered(p) \/ ReadsEpoch(p) \/ Registers(p)
    \/ Recovers(p) \/ Awaits(p) \/ Wakes(p)

\* A lookup changes nothing but its own locals, unless it takes or spawns a restart.
LEMMA QuietLookupFrame ==
    ASSUME NEW p \in Lookups, QuietLookup(p)
    PROVE  ReadOnly
BY DEF QuietLookup, LookupBegins, LookupReturnsValue, LookupResolves, LookupErrs, TimesOut,
       LookupDecides, LeavesRestart, LookupFallsBack, LoadsHasSynced, LoadsSynced, Reasons,
       NoReason, AlreadyRecovered, NotRecovered, ReadsEpoch, Registers, Recovers, Awaits,
       Wakes, OnlyMoves, Answers, Rechecks, Retry

\* Every step of Next, grouped for the case splits below.
LEMMA NextCases ==
    ASSUME Next
    PROVE  \/ \E g \in Generations : Publish(g)
           \/ MonitorSynced \/ MonitorFails \/ MonitorBody
           \/ \E k \in Restarts : RestartBody(k) \/ WatchReturns(k)
           \/ \E p \in Lookups : TakesRestart(p) \/ SpawnsRestart(p) \/ QuietLookup(p)
BY DEF Next, LookupBody, QuietLookup
-----------------------------------------------------------------------------
(* Types and the order of restarts *)

\* The first client runs alone: nothing is taken, one server listens, nothing is published.
LEMMA InitEstablishes == Init => IInv
<1> SUFFICES ASSUME Init PROVE IInv
  OBVIOUS
<1> USE MaxRestartsAssumption DEF Init, Restarts, Generations
<1>1. Types
  <2>1. /\ hasSynced \in BOOLEAN /\ restarting \in BOOLEAN
        /\ synced \in BOOLEAN /\ raced \in BOOLEAN
    OBVIOUS
  <2>2. /\ task \in [Restarts -> TaskPc]
        /\ held \in [Restarts -> SUBSET (0..taken)]
        /\ publishing \in [Generations -> 0..3]
    BY DEF TaskPc
  <2>3. /\ lookup \in [Lookups -> LookupPc]
        /\ error \in [Lookups -> ErrorClass]
        /\ after \in [Lookups -> Nat]
        /\ seen \in [Lookups -> Nat]
    BY DEF LookupPc, ErrorClass
  <2> QED
    <3>1. syncEpoch \in Nat /\ notifyCalls \in Nat /\ taken \in Generations
      OBVIOUS
    <3>2. /\ client \in 0..taken /\ trayClient \in 0..taken
          /\ rpcHandle \subseteq 0..taken /\ listening \subseteq 0..taken
      OBVIOUS
    <3>3. down \subseteq 0..taken /\ ready \subseteq 0..taken /\ retried \subseteq Lookups
      OBVIOUS
    <3>4. monitor \in MonitorPc /\ follower \in {"waiting", "running", "stopped"}
      BY DEF MonitorPc
    <3> QED
      BY <2>1, <2>2, <2>3, <3>1, <3>2, <3>3, <3>4, Zenon DEF Types
<1>2. TakenInOrder
  BY DEF TakenInOrder
<1>3. RestartExclusive
  BY DEF RestartExclusive, InFlight
<1>4. ServerInv
  BY DEF ServerInv, ServerAt
<1>5. Counted
  <2>1. Bumped = {} /\ Told = {}
    BY DEF Bumped, Told
  <2> QED
    BY <2>1, FS_EmptySet DEF Counted
<1> QED
  BY <1>1, <1>2, <1>3, <1>4, <1>5 DEF IInv

\* A step of a restart moves only that restart's pc, and every pc is a TaskPc.
LEMMA TypesRestart ==
    ASSUME Types, TakenInOrder, NEW k \in Restarts, RestartBody(k) \/ WatchReturns(k)
    PROVE  Types' /\ TakenInOrder'
<1> USE MaxRestartsAssumption
    DEF Types, TakenInOrder, Restarts, Generations, TaskPc, TaskStep,
        runtimeVars, externalVars, startupVars, lookupVars
<1>0. k \in 0..taken /\ taken \in 0..MaxRestarts
  BY DEF RestartBody, WatchReturns, RestartTakesHandle, RestartStopsServer, RestartShutsClientDown, RestartStartsServer, RestartFails, RestartSwapsClient, RestartStoresHandle, RestartSetsTray, WatchPublished, RestartReleases, WatchSynced, WatchFails
<1>1. CASE RestartTakesHandle(k)
  BY <1>0, <1>1 DEF RestartTakesHandle
<1>2. CASE RestartStopsServer(k)
  BY <1>0, <1>2 DEF RestartStopsServer
<1>3. CASE RestartShutsClientDown(k)
  BY <1>0, <1>3 DEF RestartShutsClientDown
<1>4. CASE RestartStartsServer(k)
  BY <1>0, <1>4 DEF RestartStartsServer
<1>5. CASE RestartFails(k)
  BY <1>0, <1>5 DEF RestartFails
<1>6. CASE RestartSwapsClient(k)
  BY <1>0, <1>6 DEF RestartSwapsClient
<1>7. CASE RestartStoresHandle(k)
  BY <1>0, <1>7 DEF RestartStoresHandle
<1>8. CASE RestartSetsTray(k)
  BY <1>0, <1>8 DEF RestartSetsTray
<1>9. CASE WatchPublished(k)
  BY <1>0, <1>9 DEF WatchPublished
<1>10. CASE RestartReleases(k)
  BY <1>0, <1>10 DEF RestartReleases
<1>11. CASE WatchSynced(k)
  BY <1>0, <1>11 DEF WatchSynced
<1>12. CASE WatchFails(k)
  BY <1>0, <1>12 DEF WatchFails
<1> QED
  BY <1>1, <1>2, <1>3, <1>4, <1>5, <1>6, <1>7, <1>8, <1>9, <1>10, <1>11, <1>12
     DEF RestartBody, WatchReturns

\* A quiet lookup keeps its own locals well typed.
LEMMA QuietLookupTypes ==
    ASSUME Types, NEW p \in Lookups, QuietLookup(p)
    PROVE  /\ lookup' \in [Lookups -> LookupPc]
           /\ error' \in [Lookups -> ErrorClass]
           /\ retried' \subseteq Lookups
           /\ after' \in [Lookups -> Nat]
           /\ seen' \in [Lookups -> Nat]
<1> USE DEF Types, LookupPc, Goto, waitVars
<1>1. CASE \/ LookupBegins(p) \/ LookupDecides(p) \/ LeavesRestart(p) \/ LoadsHasSynced(p)
           \/ NotRecovered(p) \/ Awaits(p) \/ Wakes(p)
  BY <1>1 DEF LookupBegins, LookupDecides, LeavesRestart, LoadsHasSynced, NotRecovered,
              Awaits, Wakes, OnlyMoves
<1>2. CASE \E e \in ErrorClass : LookupErrs(p, e)
  BY <1>2 DEF LookupErrs
<1>3. CASE LookupResolves(p) \/ TimesOut(p) \/ LookupFallsBack(p) \/ NoReason(p)
  BY <1>3 DEF LookupResolves, TimesOut, LookupFallsBack, NoReason, Answers, ErrorClass
<1>4. CASE LoadsSynced(p) \/ Reasons(p)
  BY <1>4 DEF LoadsSynced, Reasons, Rechecks, OnlyMoves, ErrorClass
<1>5. CASE AlreadyRecovered(p) \/ Recovers(p)
  BY <1>5 DEF AlreadyRecovered, Recovers, Retry
<1>6. CASE ReadsEpoch(p) \/ Registers(p)
  BY <1>6 DEF ReadsEpoch, Registers
<1> QED
  BY <1>1, <1>2, <1>3, <1>4, <1>5, <1>6 DEF QuietLookup, LookupReturnsValue

\* mark_current_client_synced has three steps, in this order.
LEMMA MarkOrderSteps ==
    /\ Len(MarkOrder) = 3
    /\ MarkOrder[1] = "store" /\ MarkOrder[2] = "bump" /\ MarkOrder[3] = "notify"
BY DEF MarkOrder

\* Every step keeps the types, and takes restarts in order.
LEMMA TypesStep ==
    ASSUME Types, TakenInOrder, [Next]_vars
    PROVE  Types' /\ TakenInOrder'
<1> USE MaxRestartsAssumption
    DEF Types, TakenInOrder, Restarts, Generations,
        runtimeVars, externalVars, restartVars, startupVars, lookupVars, waitVars
<1>1. ASSUME NEW g \in Generations, Publish(g)
      PROVE  Types' /\ TakenInOrder'
  <2>1. synced' \in BOOLEAN
    BY <1>1 DEF Publish
  <2>2. syncEpoch' \in Nat /\ notifyCalls' \in Nat
    BY <1>1 DEF Publish
  <2>3. publishing' \in [Generations -> 0..3]
    <3>1. publishing[g] < 3 /\ publishing' = [publishing EXCEPT ![g] = @ + 1]
      BY <1>1, MarkOrderSteps, Zenon DEF Publish
    <3>2. publishing \in [Generations -> 0..3] /\ g \in Generations
      OBVIOUS
    <3> HIDE DEF Types, TakenInOrder, Generations
    <3>3. publishing[g] + 1 \in 0..3
      BY <3>1, <3>2
    <3> QED
      BY <3>1, <3>2, <3>3
  <2>4. UNCHANGED <<restarting, client, rpcHandle, externalVars, restartVars,
                    startupVars, lookupVars>>
    BY <1>1 DEF Publish
  <2> QED
    BY <2>1, <2>2, <2>3, <2>4
<1>2. CASE MonitorSynced
  BY <1>2 DEF MonitorSynced, MonitorPc
<1>8. ASSUME MonitorFails \/ MonitorBody
      PROVE  Types' /\ TakenInOrder'
  <2>1. UNCHANGED <<runtimeVars, externalVars, restartVars, hasSynced, publishing, lookupVars>>
    BY <1>8 DEF MonitorFails, MonitorBody, MonitorPublished, FollowerStarts, FollowerStops
  <2>2. monitor' \in MonitorPc /\ follower' \in {"waiting", "running", "stopped"}
    BY <1>8 DEF MonitorFails, MonitorBody, MonitorPublished, FollowerStarts,
                FollowerStops, MonitorPc
  <2> QED
    BY <2>1, <2>2
<1>3. CASE \E k \in Restarts : RestartBody(k) \/ WatchReturns(k)
  BY <1>3, TypesRestart
<1>4. ASSUME NEW p \in Lookups, TakesRestart(p)
      PROVE  Types' /\ TakenInOrder'
  <2>1. taken + 1 \in Restarts /\ taken' = taken + 1
    BY <1>4 DEF TakesRestart
  <2>2. task' \in [Restarts -> TaskPc] /\ TakenInOrder'
    BY <1>4, <2>1 DEF TakesRestart, TaskPc
  <2>3. lookup' \in [Lookups -> LookupPc]
    BY <1>4 DEF TakesRestart, Goto, LookupPc
  <2>4. 0..taken \subseteq 0..taken'
    BY <2>1
  <2> QED
    BY <1>4, <2>1, <2>2, <2>3, <2>4 DEF TakesRestart
<1>5. ASSUME NEW p \in Lookups, SpawnsRestart(p)
      PROVE  Types' /\ TakenInOrder'
  BY <1>5 DEF SpawnsRestart, Goto, LookupPc, TaskStep, TaskPc
<1>6. ASSUME NEW p \in Lookups, QuietLookup(p)
      PROVE  Types' /\ TakenInOrder'
  BY <1>6, QuietLookupFrame, QuietLookupTypes DEF ReadOnly
<1>7. CASE UNCHANGED vars
  BY <1>7 DEF vars
<1> QED
  BY <1>1, <1>2, <1>3, <1>4, <1>5, <1>6, <1>7, <1>8, NextCases
-----------------------------------------------------------------------------
(* One restart at a time, and what it knows about the port *)

\* The steps that neither take, spawn nor belong to a restart task.
LEMMA SteadyFrame ==
    ASSUME \/ \E g \in Generations : Publish(g)
           \/ MonitorSynced \/ MonitorFails \/ MonitorBody
           \/ \E p \in Lookups : QuietLookup(p)
           \/ UNCHANGED vars
    PROVE  UNCHANGED <<restarting, taken, task, held, rpcHandle, listening>>
<1> USE DEF runtimeVars, externalVars, restartVars, startupVars, lookupVars
<1>1. CASE \E g \in Generations : Publish(g)
  BY <1>1 DEF Publish
<1>2. CASE MonitorSynced \/ MonitorFails \/ MonitorBody
  BY <1>2 DEF MonitorSynced, MonitorFails, MonitorBody, MonitorPublished, FollowerStarts,
              FollowerStops
<1>3. CASE \E p \in Lookups : QuietLookup(p)
  BY <1>3, QuietLookupFrame DEF ReadOnly
<1>4. CASE UNCHANGED vars
  BY <1>4 DEF vars
<1> QED
  BY <1>1, <1>2, <1>3, <1>4

\* What each step of a restart task does to the pcs and to the flag.
LEMMA RestartMoves ==
    ASSUME NEW k \in Restarts, task \in [Restarts -> TaskPc], RestartBody(k) \/ WatchReturns(k)
    PROVE  /\ task[k] \notin {"none", "done", "scheduled"}
           /\ \A j \in Restarts : j # k => task'[j] = task[j]
           /\ task'[k] \notin {"none", "scheduled", "spawned"}
           /\ taken' = taken
           /\ \/ task'[k] # "done" /\ restarting' = restarting
              \/ task'[k] = "done" /\ restarting' = FALSE
<1> USE DEF TaskStep, runtimeVars
<1>1. CASE RestartTakesHandle(k)
  BY <1>1 DEF RestartTakesHandle
<1>2. CASE RestartStopsServer(k)
  BY <1>2 DEF RestartStopsServer
<1>3. CASE RestartShutsClientDown(k)
  BY <1>3 DEF RestartShutsClientDown
<1>4. CASE RestartStartsServer(k)
  BY <1>4 DEF RestartStartsServer
<1>5. CASE RestartFails(k)
  BY <1>5 DEF RestartFails
<1>6. CASE RestartSwapsClient(k)
  BY <1>6 DEF RestartSwapsClient
<1>7. CASE RestartStoresHandle(k)
  BY <1>7 DEF RestartStoresHandle
<1>8. CASE RestartSetsTray(k)
  BY <1>8 DEF RestartSetsTray
<1>9. CASE WatchPublished(k)
  BY <1>9 DEF WatchPublished
<1>10. CASE RestartReleases(k)
  BY <1>10 DEF RestartReleases
<1>11. CASE WatchSynced(k)
  BY <1>11 DEF WatchSynced
<1>12. CASE WatchFails(k)
  BY <1>12 DEF WatchFails
<1> QED
  BY <1>1, <1>2, <1>3, <1>4, <1>5, <1>6, <1>7, <1>8, <1>9, <1>10, <1>11, <1>12
     DEF RestartBody, WatchReturns

\* The compare_exchange lets a restart begin only while none is in flight.
LEMMA ExclusiveStep ==
    ASSUME Types, TakenInOrder, RestartExclusive, [Next]_vars
    PROVE  RestartExclusive'
<1> task \in [Restarts -> TaskPc] /\ taken \in Nat
  BY MaxRestartsAssumption DEF Types, Generations
<1>1. CASE UNCHANGED <<restarting, taken, task, held, rpcHandle, listening>>
  BY <1>1 DEF RestartExclusive, InFlight
<1>2. ASSUME NEW k \in Restarts, RestartBody(k) \/ WatchReturns(k)
      PROVE  RestartExclusive'
  BY <1>2, RestartMoves DEF RestartExclusive, InFlight
<1>3. ASSUME NEW p \in Lookups, TakesRestart(p)
      PROVE  RestartExclusive'
  <2>1. /\ taken + 1 \in Restarts
        /\ task' = [task EXCEPT ![taken + 1] = "scheduled"]
        /\ ~restarting /\ restarting'
    BY <1>3, MaxRestartsAssumption DEF TakesRestart, FlagFree, Restarts
  <2>2. \A k \in Restarts : ~InFlight(k)
    BY <2>1 DEF RestartExclusive
  <2>3. \A k \in Restarts : InFlight(k)' <=> k = taken + 1
    BY <2>1, <2>2 DEF InFlight
  <2> QED
    BY <2>1, <2>3 DEF RestartExclusive
<1>4. ASSUME NEW p \in Lookups, SpawnsRestart(p)
      PROVE  RestartExclusive'
  <2>1. PICK k \in Restarts : TaskStep(k, "scheduled", "spawned")
    BY <1>4 DEF SpawnsRestart
  <2>2. \A j \in Restarts : InFlight(j)' <=> InFlight(j)
    BY <2>1 DEF TaskStep, InFlight
  <2>3. restarting' = restarting
    BY <1>4 DEF SpawnsRestart
  <2> QED
    BY <2>2, <2>3 DEF RestartExclusive
<1> QED
  BY <1>1, <1>2, <1>3, <1>4, NextCases, SteadyFrame

\* A step of restart k keeps what k knows about the port; no other restart is in flight.
LEMMA ServerRestart ==
    ASSUME Types, TakenInOrder, RestartExclusive, ServerInv,
           NEW k \in Restarts, RestartBody(k) \/ WatchReturns(k)
    PROVE  ServerInv'
<1>0. task \in [Restarts -> TaskPc] /\ held \in [Restarts -> SUBSET (0..taken)]
  BY DEF Types
<1>1. ServerAt(k)' /\ (task'[k] = "done" => listening' = rpcHandle')
  <2> USE <1>0 DEF ServerInv, ServerAt, TaskStep, runtimeVars, externalVars
  <2>1. CASE RestartTakesHandle(k)
    BY <2>1 DEF RestartTakesHandle
  <2>2. CASE RestartStopsServer(k)
    BY <2>2 DEF RestartStopsServer
  <2>3. CASE RestartShutsClientDown(k)
    BY <2>3 DEF RestartShutsClientDown
  <2>4. CASE RestartStartsServer(k)
    BY <2>4 DEF RestartStartsServer
  <2>5. CASE RestartFails(k)
    BY <2>5 DEF RestartFails
  <2>6. CASE RestartSwapsClient(k)
    BY <2>6 DEF RestartSwapsClient
  <2>7. CASE RestartStoresHandle(k)
    BY <2>7 DEF RestartStoresHandle
  <2>8. CASE RestartSetsTray(k)
    BY <2>8 DEF RestartSetsTray
  <2>9. CASE WatchPublished(k)
    BY <2>9 DEF WatchPublished
  <2>10. CASE RestartReleases(k)
    BY <2>10 DEF RestartReleases
  <2>11. CASE WatchSynced(k)
    BY <2>11 DEF WatchSynced
  <2>12. CASE WatchFails(k)
    BY <2>12 DEF WatchFails
  <2> QED
    BY <2>1, <2>2, <2>3, <2>4, <2>5, <2>6, <2>7, <2>8, <2>9, <2>10, <2>11, <2>12
       DEF RestartBody, WatchReturns
<1>2. ASSUME NEW j \in Restarts, j # k
      PROVE  ServerAt(j)'
  <2>1. task[j] \in {"none", "done"} /\ task'[j] = task[j]
    BY <1>0, <1>2, RestartMoves DEF RestartExclusive, InFlight
  <2> QED
    BY <2>1 DEF ServerAt
<1>3. ~restarting' => listening' = rpcHandle'
  BY <1>0, <1>1, RestartMoves DEF RestartExclusive, InFlight
<1>4. \E g \in Generations : listening' \subseteq {g}
  <2>1. listening' \subseteq listening \/ listening' \subseteq {k}
    BY DEF RestartBody, WatchReturns, externalVars,
       RestartTakesHandle, RestartStopsServer, RestartShutsClientDown, RestartStartsServer, RestartFails, RestartSwapsClient,
       RestartStoresHandle, RestartSetsTray, WatchPublished, RestartReleases, WatchSynced, WatchFails
  <2>2. k \in Generations
    BY MaxRestartsAssumption DEF Restarts, Generations
  <2> QED
    BY <2>1, <2>2 DEF ServerInv
<1> QED
  BY <1>1, <1>2, <1>3, <1>4 DEF ServerInv

\* Every step keeps what the restarts know about the port.
LEMMA ServerStep ==
    ASSUME Types, TakenInOrder, RestartExclusive, ServerInv, [Next]_vars
    PROVE  ServerInv'
<1>0. task \in [Restarts -> TaskPc] /\ taken \in Nat
  BY MaxRestartsAssumption DEF Types, Generations
<1>1. CASE UNCHANGED <<restarting, taken, task, held, rpcHandle, listening>>
  BY <1>1 DEF ServerInv, ServerAt
<1>2. ASSUME NEW p \in Lookups, TakesRestart(p)
      PROVE  ServerInv'
  <2>1. /\ ~restarting /\ restarting'
        /\ task' = [task EXCEPT ![taken + 1] = "scheduled"]
        /\ UNCHANGED <<listening, rpcHandle, held>>
    BY <1>2 DEF TakesRestart, FlagFree, externalVars
  <2>2. listening = rpcHandle
    BY <2>1 DEF ServerInv
  <2>3. \A k \in Restarts : task'[k] \in {"none", "done", "scheduled"}
    BY <1>0, <2>1 DEF RestartExclusive, InFlight
  <2> QED
    BY <2>1, <2>2, <2>3 DEF ServerInv, ServerAt
<1>3. ASSUME NEW p \in Lookups, SpawnsRestart(p)
      PROVE  ServerInv'
  <2>1. PICK k \in Restarts : TaskStep(k, "scheduled", "spawned")
    BY <1>3 DEF SpawnsRestart
  <2>2. UNCHANGED <<restarting, listening, rpcHandle, held>>
    BY <1>3 DEF SpawnsRestart, externalVars
  <2>3. ASSUME NEW j \in Restarts PROVE ServerAt(j)'
    BY <1>0, <2>1, <2>2 DEF ServerInv, ServerAt, TaskStep
  <2> QED
    BY <2>2, <2>3 DEF ServerInv
<1> QED
  BY <1>1, <1>2, <1>3, NextCases, SteadyFrame, ServerRestart
-----------------------------------------------------------------------------
(* The count of published syncs *)

\* The steps that leave the publications and their counts alone.
LEMMA CountFrame ==
    ASSUME \/ MonitorSynced \/ MonitorFails \/ MonitorBody
           \/ \E k \in Restarts : RestartBody(k) \/ WatchReturns(k)
           \/ \E p \in Lookups : TakesRestart(p) \/ SpawnsRestart(p) \/ QuietLookup(p)
           \/ UNCHANGED vars
    PROVE  /\ UNCHANGED <<publishing, syncEpoch, notifyCalls>>
           /\ taken' = taken \/ taken' = taken + 1
<1> USE DEF runtimeVars, externalVars, restartVars, startupVars, lookupVars
<1>1. CASE MonitorSynced \/ MonitorFails \/ MonitorBody
  BY <1>1 DEF MonitorSynced, MonitorFails, MonitorBody, MonitorPublished, FollowerStarts,
              FollowerStops
<1>2. ASSUME NEW k \in Restarts, RestartBody(k) \/ WatchReturns(k)
      PROVE  UNCHANGED <<publishing, syncEpoch, notifyCalls, taken>>
  BY <1>2 DEF RestartBody, WatchReturns, RestartTakesHandle, RestartStopsServer,
     RestartShutsClientDown, RestartStartsServer, RestartFails, RestartSwapsClient,
     RestartStoresHandle, RestartSetsTray, WatchPublished, RestartReleases, WatchSynced,
     WatchFails
<1>3. ASSUME NEW p \in Lookups, TakesRestart(p) \/ SpawnsRestart(p)
      PROVE  /\ UNCHANGED <<publishing, syncEpoch, notifyCalls>>
             /\ taken' = taken \/ taken' = taken + 1
  BY <1>3 DEF TakesRestart, SpawnsRestart
<1>4. CASE \E p \in Lookups : QuietLookup(p)
  BY <1>4, QuietLookupFrame DEF ReadOnly
<1>5. CASE UNCHANGED vars
  BY <1>5 DEF vars
<1> QED
  BY <1>1, <1>2, <1>3, <1>4, <1>5

\* The generations that bumped or notified are finitely many.
LEMMA PublishedFinite == IsFiniteSet(Generations) /\ IsFiniteSet(Bumped) /\ IsFiniteSet(Told)
<1>1. IsFiniteSet(Generations)
  BY FS_Interval, MaxRestartsAssumption DEF Generations
<1>2. Bumped \subseteq Generations /\ Told \subseteq Generations
  BY DEF Bumped, Told
<1> QED
  BY <1>1, <1>2, FS_Subset

\* Publish(g) adds g to Bumped exactly when it bumps, to Told exactly when it notifies.
LEMMA CountPublish ==
    ASSUME Types, TakenInOrder, Counted, NEW g \in Generations, Publish(g)
    PROVE  Counted'
<1>1. /\ publishing \in [Generations -> 0..3] /\ taken \in Nat
      /\ publishing[g] \in 0..2
      /\ publishing' = [publishing EXCEPT ![g] = @ + 1]
      /\ taken' = taken
  <2>1. publishing[g] < 3 /\ publishing' = [publishing EXCEPT ![g] = @ + 1] /\ taken' = taken
    BY MarkOrderSteps, Zenon DEF Publish, restartVars
  <2>2. publishing \in [Generations -> 0..3] /\ taken \in Nat
    BY MaxRestartsAssumption DEF Types, Generations
  <2> QED
    BY <2>1, <2>2
<1>2. /\ syncEpoch' = IF publishing[g] = 1 THEN syncEpoch + 1 ELSE syncEpoch
      /\ notifyCalls' = IF publishing[g] = 2 THEN notifyCalls + 1 ELSE notifyCalls
  <2> DEFINE op == MarkOrder[publishing[g] + 1]
  <2>1. /\ syncEpoch' = IF op = "bump" THEN syncEpoch + 1 ELSE syncEpoch
        /\ notifyCalls' = IF op = "notify" THEN notifyCalls + 1 ELSE notifyCalls
    BY Zenon DEF Publish
  <2>2. \/ publishing[g] = 0 /\ op = MarkOrder[1]
        \/ publishing[g] = 1 /\ op = MarkOrder[2]
        \/ publishing[g] = 2 /\ op = MarkOrder[3]
    BY <1>1
  <2> HIDE DEF op
  <2> QED
    BY <2>1, <2>2, MarkOrderSteps
<1>3. \A h \in Generations : publishing'[h] = IF h = g THEN publishing[g] + 1 ELSE publishing[h]
  BY <1>1
<1>4. \A h \in Generations : publishing'[h] > 0 => h <= taken'
  <2>1. g <= taken
    <3>1. g = 0 \/ (g # 0 /\ task[g] = "publishing")
      BY Zenon DEF Publish
    <3>2. CASE g = 0
      BY <1>1, <3>2
    <3>3. CASE g # 0 /\ task[g] = "publishing"
      BY <3>3, MaxRestartsAssumption DEF TakenInOrder, Restarts, Generations
    <3> QED
      BY <3>1, <3>2, <3>3
  <2> QED
    BY <1>1, <1>3, <2>1 DEF Counted
<1>5. syncEpoch' = Cardinality(Bumped')
  <2>1. CASE publishing[g] = 1
    <3>1. Bumped' = Bumped \cup {g} /\ g \notin Bumped
      BY <1>1, <1>3, <2>1 DEF Bumped
    <3> QED
      BY <1>2, <2>1, <3>1, PublishedFinite, FS_AddElement DEF Counted
  <2>2. CASE publishing[g] # 1
    <3>1. Bumped' = Bumped
      BY <1>1, <1>3, <2>2 DEF Bumped
    <3> QED
      BY <1>2, <2>2, <3>1 DEF Counted
  <2> QED
    BY <2>1, <2>2
<1>6. notifyCalls' = Cardinality(Told')
  <2>1. CASE publishing[g] = 2
    <3>1. Told' = Told \cup {g} /\ g \notin Told
      BY <1>1, <1>3, <2>1 DEF Told
    <3> QED
      BY <1>2, <2>1, <3>1, PublishedFinite, FS_AddElement DEF Counted
  <2>2. CASE publishing[g] # 2
    <3>1. Told' = Told
      BY <1>1, <1>3, <2>2 DEF Told
    <3> QED
      BY <1>2, <2>2, <3>1 DEF Counted
  <2> QED
    BY <2>1, <2>2
<1> QED
  BY <1>4, <1>5, <1>6 DEF Counted

\* The counts agree with the publications after every step.
LEMMA CountedStep ==
    ASSUME Types, TakenInOrder, Counted, [Next]_vars
    PROVE  Counted'
<1>1. CASE \E g \in Generations : Publish(g)
  BY <1>1, CountPublish
<1>2. ASSUME UNCHANGED <<publishing, syncEpoch, notifyCalls>>,
             taken' = taken \/ taken' = taken + 1
      PROVE  Counted'
  <2>1. Bumped' = Bumped /\ Told' = Told
    BY <1>2 DEF Bumped, Told
  <2>2. taken \in Nat
    BY MaxRestartsAssumption DEF Types, Generations
  <2>3. \A g \in Generations : g \in Nat
    BY DEF Generations
  <2>4. \A g \in Generations : publishing'[g] > 0 => g <= taken'
    BY <1>2, <2>2, <2>3 DEF Counted
  <2> QED
    BY <1>2, <2>1, <2>4 DEF Counted
<1> QED
  BY <1>1, <1>2, CountFrame, NextCases
-----------------------------------------------------------------------------
(* The inductive invariant and what follows from it *)

\* IInv holds in every reachable state.
LEMMA Inductive == Spec => []IInv
<1>1. IInv /\ [Next]_vars => IInv'
  BY TypesStep, ExclusiveStep, ServerStep, CountedStep DEF IInv
<1> QED
  BY InitEstablishes, <1>1, PTL DEF Spec

\* At most one generation per restart taken, and the first client, publishes.
LEMMA CountBound ==
    ASSUME Types, Counted
    PROVE  syncEpoch \in 0..(taken + 1) /\ notifyCalls \in 0..(taken + 1)
<1>1. taken \in Nat
  BY MaxRestartsAssumption DEF Types, Generations
<1>2. Bumped \subseteq 0..taken /\ Told \subseteq 0..taken
  <2>1. \A g \in Generations : g \in Nat /\ publishing[g] \in 0..3
    BY DEF Types, Generations
  <2> QED
    BY <1>1, <2>1 DEF Counted, Bumped, Told
<1>3. IsFiniteSet(0..taken) /\ Cardinality(0..taken) = taken + 1
  BY <1>1, FS_Interval
<1>4. Cardinality(Bumped) \in Nat /\ Cardinality(Told) \in Nat
  BY PublishedFinite, FS_CardinalityType
<1>5. Cardinality(Bumped) <= Cardinality(0..taken) /\ Cardinality(Told) <= Cardinality(0..taken)
  BY <1>2, <1>3, FS_Subset
<1> QED
  BY <1>1, <1>3, <1>4, <1>5 DEF Counted

\* Every variable keeps its type; a sync is published at most once per client, so the
\* epoch and the notify_waiters calls never exceed the clients built so far
\* (mark_current_client_synced, helios_manager.rs 53-57).
THEOREM TypeCorrect == Spec => []TypeOK
<1>1. IInv => TypeOK
  BY CountBound, Zenon DEF IInv, Types, TypeOK
<1> QED
  BY Inductive, <1>1, PTL

\* Restarts exclude one another and `restarting` is set exactly while one runs, for
\* any number of lookups asking for one at once (maybe_schedule_restart and the
\* releases of helios_manager.rs 83-117 and 179-181).
THEOREM ExclusiveRestarts == Spec => []RestartExclusive
<1>1. IInv => RestartExclusive
  BY DEF IInv
<1> QED
  BY Inductive, <1>1, PTL

\* No RPC server is left listening whose handle the runtime has lost, whichever step a
\* restart fails at (restart, helios_manager.rs 119-183).
THEOREM NoOrphans == Spec => []NoOrphanServer
<1>1. ASSUME IInv PROVE NoOrphanServer
  <2>1. PICK g \in Generations : listening \subseteq {g}
    BY <1>1 DEF IInv, ServerInv
  <2>2. IsFiniteSet({g}) /\ Cardinality({g}) = 1
    BY FS_Singleton
  <2>3. Cardinality(listening) <= 1
    BY <2>1, <2>2, FS_Subset
  <2> QED
    BY <1>1, <2>3 DEF IInv, ServerInv, NoOrphanServer
<1> QED
  BY Inductive, <1>1, PTL
-----------------------------------------------------------------------------
(* The runtime implements HeliosHandover *)

\* While restart k is in flight it is the holder; otherwise nobody is.
LEMMA HolderIs ==
    ASSUME RestartExclusive
    PROVE  /\ \A k \in Restarts : InFlight(k) => Holder = k
           /\ (\A k \in Restarts : ~InFlight(k)) => Holder = 0
<1>1. ASSUME NEW k \in Restarts, InFlight(k) PROVE Holder = k
  BY <1>1 DEF RestartExclusive, Holder
<1> QED
  BY <1>1 DEF Holder

\* A step of a restart task retires, installs, ends or changes nothing seen from outside.
LEMMA HandoverRestart ==
    ASSUME IInv, IInv', NEW k \in Restarts, RestartBody(k) \/ WatchReturns(k)
    PROVE  [Handover!Next]_(Handover!vars)
<1>0. /\ task \in [Restarts -> TaskPc] /\ InFlight(k) /\ Holder = k /\ k # 0
      /\ taken' = taken
      /\ \/ InFlight(k)' /\ Holder' = k
         \/ task'[k] = "done" /\ Holder' = 0
  <2>1. task \in [Restarts -> TaskPc]
    BY DEF IInv, Types
  <2>2. InFlight(k) /\ taken' = taken
    BY <2>1, RestartMoves DEF InFlight
  <2>3. Holder = k /\ k # 0
    BY <2>2, HolderIs, MaxRestartsAssumption DEF IInv, Restarts
  <2>4. CASE InFlight(k)'
    <3>1. RestartExclusive'
      BY DEF IInv
    <3> QED
      BY <2>1, <2>2, <2>3, <2>4, <3>1 DEF RestartExclusive, Holder
  <2>5. CASE ~InFlight(k)'
    <3>1. task'[k] = "done"
      BY <2>1, <2>5, RestartMoves DEF InFlight
    <3>2. \A j \in Restarts : ~InFlight(j)'
      BY <2>1, <2>2, <2>5, RestartMoves DEF IInv, RestartExclusive, InFlight
    <3> QED
      BY <2>1, <2>2, <2>3, <3>1, <3>2 DEF Holder
  <2> QED
    BY <2>1, <2>2, <2>3, <2>4, <2>5
<1>1. CASE RestartTakesHandle(k)
  <2>1. rpcHandle' = {} /\ task'[k] # "done"
    BY <1>0, <1>1 DEF RestartTakesHandle, TaskStep
  <2> QED
    BY <1>0, <2>1 DEF Handover!Next, Handover!Retire
<1>2. CASE RestartStoresHandle(k)
  <2>1. rpcHandle' = {k} /\ rpcHandle = {} /\ task'[k] # "done"
    BY <1>0, <1>2 DEF RestartStoresHandle, TaskStep, IInv, ServerInv, ServerAt
  <2> QED
    BY <1>0, <2>1 DEF Handover!Next, Handover!Install
<1>3. ASSUME ~RestartTakesHandle(k), ~RestartStoresHandle(k)
      PROVE  rpcHandle' = rpcHandle
  BY <1>3 DEF RestartBody, WatchReturns, runtimeVars, RestartStopsServer,
     RestartShutsClientDown, RestartStartsServer, RestartFails, RestartSwapsClient,
     RestartSetsTray, WatchPublished, RestartReleases, WatchSynced, WatchFails
<1>4. CASE rpcHandle' = rpcHandle
  BY <1>0, <1>4 DEF Handover!Next, Handover!End, Handover!vars
<1> QED
  BY <1>1, <1>2, <1>3, <1>4

\* The detailed runtime implements the abstract handover: restarts are taken one at a
\* time and in order, and the installed RPC server is retired before a later client's
\* is installed (helios_manager.rs 83-183).
THEOREM ImplementsHandover == Spec => HandoverSpec
<1>1. Init => Handover!Init
  <2> SUFFICES ASSUME Init PROVE Handover!Init
    OBVIOUS
  <2>1. \A k \in Restarts : ~InFlight(k)
    BY DEF Init, InFlight
  <2> QED
    BY <2>1 DEF Init, Handover!Init, Holder
<1>2. ASSUME IInv, IInv', [Next]_vars PROVE [Handover!Next]_(Handover!vars)
  <2>0. task \in [Restarts -> TaskPc] /\ RestartExclusive /\ RestartExclusive'
    BY <1>2 DEF IInv, Types
  <2>1. CASE UNCHANGED <<restarting, taken, task, held, rpcHandle, listening>>
    BY <2>1 DEF Handover!vars, Holder, InFlight
  <2>2. ASSUME NEW k \in Restarts, RestartBody(k) \/ WatchReturns(k)
        PROVE  [Handover!Next]_(Handover!vars)
    BY <1>2, <2>2, HandoverRestart
  <2>3. ASSUME NEW p \in Lookups, TakesRestart(p)
        PROVE  [Handover!Next]_(Handover!vars)
    <3>1. /\ ~restarting /\ taken + 1 \in Restarts /\ taken' = taken + 1
          /\ task' = [task EXCEPT ![taken + 1] = "scheduled"]
          /\ rpcHandle' = rpcHandle
      <4>1. taken \in 0..MaxRestarts
        BY <1>2 DEF IInv, Types, Generations
      <4> QED
        BY <2>3, <4>1, MaxRestartsAssumption DEF TakesRestart, FlagFree, Restarts
    <3>2. Holder = 0
      BY <2>0, <3>1, HolderIs DEF RestartExclusive
    <3>3. PICK k \in Restarts : k = taken + 1
      BY <3>1
    <3>4. InFlight(k)'
      BY <2>0, <3>1, <3>3 DEF InFlight
    <3>5. Holder' = k
      BY <2>0, <3>4 DEF RestartExclusive, Holder
    <3> QED
      BY <3>1, <3>2, <3>3, <3>5 DEF Handover!Next, Handover!Take
  <2>4. ASSUME NEW p \in Lookups, SpawnsRestart(p)
        PROVE  [Handover!Next]_(Handover!vars)
    <3>1. PICK k \in Restarts : TaskStep(k, "scheduled", "spawned")
      BY <2>4 DEF SpawnsRestart
    <3>2. \A j \in Restarts : InFlight(j)' <=> InFlight(j)
      BY <2>0, <3>1 DEF TaskStep, InFlight
    <3>3. taken' = taken /\ rpcHandle' = rpcHandle
      BY <2>4 DEF SpawnsRestart
    <3>4. InFlight(k) /\ InFlight(k)'
      BY <2>0, <3>1 DEF TaskStep, InFlight
    <3>5. Holder = k /\ Holder' = k
      BY <2>0, <3>4 DEF RestartExclusive, Holder
    <3> QED
      BY <3>3, <3>5 DEF Handover!vars
  <2> QED
    BY <1>2, <2>1, <2>2, <2>3, <2>4, NextCases, SteadyFrame
<1> QED
  BY Inductive, <1>1, <1>2, PTL DEF Spec, HandoverSpec, Handover!Spec
-----------------------------------------------------------------------------
(* The sync flag speaks of the current client *)

\* Which client is current while restart k runs, and that the flag is down from the
\* step that clears it to the one that publishes the new sync.
SyncAt(k) ==
    /\ InFlight(k) => k = taken
    /\ task[k] \in {"scheduled", "spawned", "stopping", "shutdown", "building", "swapping"} =>
          client < k
    /\ task[k] \in {"storing", "tray", "watching", "publishing", "releasing"} => client = k
    /\ task[k] \in {"publishing", "releasing"} => k \in ready
    /\ task[k] \in {"stopping", "shutdown", "building", "swapping", "storing", "tray",
                    "watching", "failed"} => ~synced \/ raced

\* No restart is taken before the first sync, and until one is, the first client stays.
FirstSync ==
    /\ hasSynced => monitor \notin {"waiting", "failed"}
    /\ taken > 0 => hasSynced
    /\ \A p \in Lookups : lookup[p] = "scheduling" => hasSynced
    /\ taken = 0 => client = 0 /\ rpcHandle = {0} /\ listening = {0}
    /\ monitor = "publishing" => 0 \in ready
    /\ monitor = "publishing" /\ publishing[0] = 0 /\ taken > 0 => raced

\* Only clients older than the last restart have been shut down.
DownOlder == \A g \in down : g < taken

SyncInv ==
    /\ FirstSync
    /\ DownOlder
    /\ \A k \in Restarts : SyncAt(k)
    /\ SyncedFlagIsCurrent
-----------------------------------------------------------------------------
(* No wakeup is lost *)

\* The tasks that stored the flag and have still to notify.
Unnotified == {g \in Generations : publishing[g] \in {1, 2}}
Publisher(g) == IF g = 0 THEN monitor = "publishing" ELSE task[g] = "publishing"
WakeInv ==
    /\ \A g \in Unnotified : Publisher(g)
    /\ \A p \in Lookups : seen[p] <= notifyCalls
    /\ \A p \in Lookups :
          lookup[p] = "await" /\ Recovered(p) => Notified(p) \/ Unnotified # {}
-----------------------------------------------------------------------------
(* What a step changes of the states these two invariants relate *)

\* A lookup schedules a restart only after the first sync, starts to sleep only while it
\* has not recovered, and otherwise forgets what it has seen or sees the present.
LEMMA QuietLookupMoves ==
    ASSUME Types, NEW p \in Lookups, QuietLookup(p), NEW q \in Lookups
    PROVE  /\ lookup'[q] = "scheduling" => lookup[q] = "scheduling" \/ hasSynced
           /\ seen'[q] \in {seen[q], 0, notifyCalls}
           /\ lookup'[q] = "await" =>
                 /\ after'[q] = after[q] /\ seen'[q] = seen[q]
                 /\ lookup[q] = "await" \/ ~Recovered(q)
<1> USE DEF Types, Goto, waitVars
<1>1. CASE \/ LookupBegins(p) \/ LookupDecides(p) \/ LeavesRestart(p) \/ LoadsHasSynced(p)
           \/ NotRecovered(p) \/ Awaits(p) \/ Wakes(p)
  BY <1>1 DEF LookupBegins, LookupDecides, LeavesRestart, LoadsHasSynced, NotRecovered,
              Awaits, Wakes, OnlyMoves
<1>2. CASE \E e \in ErrorClass : LookupErrs(p, e)
  BY <1>2 DEF LookupErrs
<1>3. CASE LookupResolves(p) \/ TimesOut(p) \/ LookupFallsBack(p) \/ NoReason(p)
  BY <1>3 DEF LookupResolves, TimesOut, LookupFallsBack, NoReason, Answers
<1>4. CASE LoadsSynced(p) \/ Reasons(p)
  BY <1>4 DEF LoadsSynced, Reasons, Rechecks, OnlyMoves
<1>5. CASE AlreadyRecovered(p) \/ Recovers(p)
  BY <1>5 DEF AlreadyRecovered, Recovers, Retry
<1>6. CASE ReadsEpoch(p) \/ Registers(p)
  BY <1>6 DEF ReadsEpoch, Registers
<1> QED
  BY <1>1, <1>2, <1>3, <1>4, <1>5, <1>6 DEF QuietLookup, LookupReturnsValue

\* What each of the three steps of a publication does.
LEMMA PublishSteps ==
    ASSUME Types, NEW g \in Generations, Publish(g)
    PROVE  /\ Publisher(g) /\ publishing[g] \in 0..2
           /\ publishing' = [publishing EXCEPT ![g] = @ + 1]
           /\ synced' = (synced \/ publishing[g] = 0)
           /\ syncEpoch' = IF publishing[g] = 1 THEN syncEpoch + 1 ELSE syncEpoch
           /\ notifyCalls' = IF publishing[g] = 2 THEN notifyCalls + 1 ELSE notifyCalls
<1> DEFINE op == MarkOrder[publishing[g] + 1]
<1>1. publishing[g] < 3 /\ publishing[g] \in 0..3
  BY MarkOrderSteps DEF Publish, Types
<1>2. \/ publishing[g] = 0 /\ op = "store"
      \/ publishing[g] = 1 /\ op = "bump"
      \/ publishing[g] = 2 /\ op = "notify"
  BY <1>1, MarkOrderSteps
<1>3. /\ synced' = (synced \/ op = "store")
      /\ syncEpoch' = IF op = "bump" THEN syncEpoch + 1 ELSE syncEpoch
      /\ notifyCalls' = IF op = "notify" THEN notifyCalls + 1 ELSE notifyCalls
      /\ publishing' = [publishing EXCEPT ![g] = @ + 1]
      /\ Publisher(g)
  BY Zenon DEF Publish, Publisher
<1> HIDE DEF op
<1>4. synced' = (synced \/ publishing[g] = 0)
  BY <1>2, <1>3
<1> QED
  BY <1>1, <1>2, <1>3, <1>4

\* A restart's task ends its publication only when it is complete, and never raises the
\* flag itself.
LEMMA RestartFlags ==
    ASSUME NEW k \in Restarts, task \in [Restarts -> TaskPc], RestartBody(k) \/ WatchReturns(k)
    PROVE  /\ UNCHANGED <<syncEpoch, notifyCalls, publishing, raced, taken>>
           /\ UNCHANGED <<hasSynced, monitor, follower, lookup, after, seen>>
           /\ synced' = synced \/ synced' = FALSE
           /\ task[k] = "publishing" => Published(k)
<1> USE DEF TaskStep, runtimeVars, externalVars, startupVars, lookupVars
<1>1. CASE RestartTakesHandle(k)
  BY <1>1 DEF RestartTakesHandle
<1>2. CASE RestartStopsServer(k) \/ RestartShutsClientDown(k) \/ RestartStartsServer(k)
  BY <1>2 DEF RestartStopsServer, RestartShutsClientDown, RestartStartsServer
<1>3. CASE RestartFails(k) \/ RestartSwapsClient(k) \/ RestartStoresHandle(k)
  BY <1>3 DEF RestartFails, RestartSwapsClient, RestartStoresHandle
<1>4. CASE RestartSetsTray(k) \/ WatchPublished(k) \/ RestartReleases(k)
  BY <1>4 DEF RestartSetsTray, WatchPublished, RestartReleases
<1>5. CASE WatchSynced(k) \/ WatchFails(k)
  BY <1>5 DEF WatchSynced, WatchFails
<1> QED
  BY <1>1, <1>2, <1>3, <1>4, <1>5 DEF RestartBody, WatchReturns

\* The monitor leaves its publication only when it is complete.
LEMMA MonitorFlags ==
    ASSUME MonitorSynced \/ MonitorFails \/ MonitorBody
    PROVE  /\ UNCHANGED <<runtimeVars, listening, down, restartVars, publishing, lookupVars>>
           /\ monitor = "publishing" => Published(0)
<1>1. CASE MonitorSynced
  BY <1>1 DEF MonitorSynced
<1>2. CASE MonitorFails
  BY <1>2 DEF MonitorFails, externalVars
<1>3. CASE MonitorBody
  BY <1>3 DEF MonitorBody, MonitorPublished, FollowerStarts, FollowerStops, externalVars
<1> QED
  BY <1>1, <1>2, <1>3

\* While a lookup sleeps though it has recovered, a task has still to notify it.
LEMMA WakeStep ==
    ASSUME Types, TakenInOrder, WakeInv, [Next]_vars
    PROVE  WakeInv'
<1>0. /\ task \in [Restarts -> TaskPc] /\ publishing \in [Generations -> 0..3]
      /\ taken \in Nat /\ notifyCalls \in Nat /\ syncEpoch \in Nat
      /\ seen \in [Lookups -> Nat] /\ after \in [Lookups -> Nat]
      /\ lookup \in [Lookups -> LookupPc]
  BY MaxRestartsAssumption DEF Types, Generations
<1>1. ASSUME NEW g \in Generations, Publish(g)
      PROVE  WakeInv'
  <2>1. UNCHANGED <<monitor, task, lookup, seen, after>>
    BY <1>1 DEF Publish, restartVars, startupVars, lookupVars, waitVars
  <2>2. /\ Publisher(g) /\ publishing[g] \in 0..2
        /\ publishing' = [publishing EXCEPT ![g] = @ + 1]
        /\ notifyCalls' = IF publishing[g] = 2 THEN notifyCalls + 1 ELSE notifyCalls
    BY <1>1, PublishSteps
  <2>3. \A h \in Unnotified' : h = g \/ h \in Unnotified
    BY <1>0, <2>2 DEF Unnotified
  <2>4. \A h \in Unnotified' : Publisher(h)'
    BY <2>1, <2>2, <2>3 DEF WakeInv, Publisher
  <2>5. \A p \in Lookups : seen'[p] <= notifyCalls'
    BY <1>0, <2>1, <2>2 DEF WakeInv
  <2>6. CASE publishing[g] = 2
    BY <1>0, <2>1, <2>2, <2>4, <2>5, <2>6 DEF WakeInv, Notified
  <2>7. CASE publishing[g] # 2
    <3>1. g \in Unnotified'
      BY <1>0, <2>2, <2>7 DEF Unnotified
    <3> QED
      BY <2>4, <2>5, <3>1 DEF WakeInv
  <2> QED
    BY <2>6, <2>7
<1>2. CASE MonitorSynced \/ MonitorFails \/ MonitorBody
  <2>1. UNCHANGED <<task, publishing, synced, syncEpoch, notifyCalls, lookup, seen, after>>
    BY <1>2, MonitorFlags DEF runtimeVars, restartVars, lookupVars, waitVars
  <2>2. 0 \notin Unnotified
    <3>1. CASE monitor = "publishing"
      BY <1>2, <3>1, MonitorFlags, MarkOrderSteps DEF Published, Unnotified
    <3>2. CASE monitor # "publishing"
      BY <3>2 DEF WakeInv, Publisher
    <3> QED
      BY <3>1, <3>2
  <2>3. Unnotified' = Unnotified
    BY <2>1 DEF Unnotified
  <2>4. \A g \in Unnotified' : Publisher(g)'
    BY <2>1, <2>2, <2>3 DEF WakeInv, Publisher
  <2> QED
    BY <2>1, <2>3, <2>4 DEF WakeInv, Recovered, Notified
<1>3. ASSUME NEW k \in Restarts, RestartBody(k) \/ WatchReturns(k)
      PROVE  WakeInv'
  <2>1. /\ UNCHANGED <<monitor, publishing, syncEpoch, notifyCalls, lookup, seen, after>>
        /\ synced' = synced \/ synced' = FALSE
        /\ task[k] = "publishing" => publishing[k] = 3
        /\ \A j \in Restarts : j # k => task'[j] = task[j]
    BY <1>0, <1>3, RestartFlags, RestartMoves, MarkOrderSteps DEF Published
  <2>2. Unnotified' = Unnotified
    BY <2>1 DEF Unnotified
  <2>3. ASSUME NEW g \in Unnotified PROVE Publisher(g)'
    <3>1. Publisher(g) /\ g \in 0..MaxRestarts /\ publishing[g] # 3
      BY DEF WakeInv, Unnotified, Generations
    <3>2. CASE g = 0
      BY <2>1, <3>1, <3>2 DEF Publisher
    <3>3. CASE g # 0
      <4>1. g \in Restarts /\ g # k
        BY <2>1, <3>1, <3>3, MaxRestartsAssumption DEF Publisher, Restarts
      <4> QED
        BY <2>1, <3>1, <3>3, <4>1 DEF Publisher
    <3> QED
      BY <3>2, <3>3
  <2> QED
    BY <2>1, <2>2, <2>3 DEF WakeInv, Recovered, Notified
<1>4. ASSUME NEW p \in Lookups, TakesRestart(p)
      PROVE  WakeInv'
  <2>1. /\ UNCHANGED <<monitor, publishing, synced, syncEpoch, notifyCalls, seen, after>>
        /\ task' = [task EXCEPT ![taken + 1] = "scheduled"]
        /\ lookup' = [lookup EXCEPT ![p] = "clearing"]
        /\ taken + 1 \in Restarts
    BY <1>0, <1>4, MaxRestartsAssumption
       DEF TakesRestart, startupVars, waitVars, Goto, Restarts
  <2>2. task[taken + 1] = "none"
    BY <1>0, <2>1 DEF TakenInOrder
  <2>3. Unnotified' = Unnotified
    BY <2>1 DEF Unnotified
  <2>4. \A g \in Unnotified : Publisher(g)'
    BY <1>0, <2>1, <2>2 DEF WakeInv, Publisher, Unnotified, Generations, Restarts
  <2>5. \A q \in Lookups : lookup'[q] = "await" => lookup[q] = "await"
    BY <1>0, <2>1
  <2> QED
    BY <2>1, <2>3, <2>4, <2>5 DEF WakeInv, Recovered, Notified
<1>5. ASSUME NEW p \in Lookups, SpawnsRestart(p)
      PROVE  WakeInv'
  <2>1. /\ UNCHANGED <<monitor, publishing, notifyCalls, seen>>
        /\ synced' = FALSE
    BY <1>5 DEF SpawnsRestart, startupVars, waitVars
  <2>2. PICK k \in Restarts : task[k] = "scheduled" /\ task' = [task EXCEPT ![k] = "spawned"]
    BY <1>5 DEF SpawnsRestart, TaskStep
  <2>3. Unnotified' = Unnotified
    BY <2>1 DEF Unnotified
  <2>4. \A g \in Unnotified : Publisher(g)'
    BY <1>0, <2>1, <2>2 DEF WakeInv, Publisher, Unnotified, Generations, Restarts
  <2> QED
    BY <2>1, <2>3, <2>4 DEF WakeInv, Recovered
<1>6. ASSUME NEW p \in Lookups, QuietLookup(p)
      PROVE  WakeInv'
  <2>1. UNCHANGED <<monitor, task, publishing, synced, syncEpoch, notifyCalls>>
    BY <1>6, QuietLookupFrame DEF ReadOnly, runtimeVars, restartVars, startupVars
  <2>2. Unnotified' = Unnotified /\ \A g \in Unnotified : Publisher(g)'
    BY <2>1 DEF WakeInv, Unnotified, Publisher
  <2>3. ASSUME NEW q \in Lookups
        PROVE  /\ seen'[q] <= notifyCalls
               /\ lookup'[q] = "await" /\ Recovered(q)' => Notified(q)' \/ Unnotified # {}
    BY <1>0, <1>6, <2>1, QuietLookupMoves DEF WakeInv, Recovered, Notified
  <2> QED
    BY <2>1, <2>2, <2>3 DEF WakeInv
<1>7. CASE UNCHANGED vars
  BY <1>7 DEF vars, WakeInv, Unnotified, Publisher, Recovered, Notified,
              runtimeVars, restartVars, startupVars, lookupVars, waitVars
<1> QED
  BY <1>1, <1>2, <1>3, <1>4, <1>5, <1>6, <1>7, NextCases

\* No wakeup is lost: a lookup that sleeps though the client has recovered has been
\* notified since it looked, or the task that publishes the sync has still to notify
\* (wait_for_sync_after and mark_current_client_synced, helios_manager.rs 53-81), for any
\* number of lookups and restarts.
THEOREM NoWakeupLost == Spec => []NoLostWakeup
<1>1. Init => WakeInv
  BY MaxRestartsAssumption DEF Init, WakeInv, Unnotified, Generations
<1>2. IInv /\ WakeInv /\ [Next]_vars => WakeInv'
  BY WakeStep DEF IInv
<1>3. ASSUME IInv, WakeInv PROVE NoLostWakeup
  <2> SUFFICES ASSUME Settled PROVE Unnotified = {}
    BY <1>3 DEF WakeInv, NoLostWakeup
  <2>1. \A g \in Generations : Publisher(g) => publishing[g] = 3
    BY MarkOrderSteps DEF Settled, Publisher, Published
  <2> QED
    BY <1>3, <2>1 DEF WakeInv, Unnotified
<1> QED
  BY Inductive, <1>1, <1>2, <1>3, PTL DEF Spec

\* What a restart's steps do to the current client and to what is known of the others.
LEMMA RestartClients ==
    ASSUME NEW k \in Restarts, task \in [Restarts -> TaskPc], RestartBody(k) \/ WatchReturns(k)
    PROVE  /\ client' = client \/ (task[k] = "swapping" /\ task'[k] = "storing" /\ client' = k)
           /\ task[k] = "swapping" => client' = k /\ task'[k] = "storing"
           /\ down' = down \/ (task[k] = "shutdown" /\ down' = down \union {client})
           /\ ready \subseteq ready'
           /\ task'[k] = "publishing" => task[k] = "watching" /\ k \in ready'
           /\ task'[k] = "releasing" => task[k] = "publishing"
           /\ task'[k] = "stopping" => ~synced'
           /\ task'[k] \in {"stopping", "shutdown", "building", "swapping", "failed"} =>
                 task[k] \in {"spawned", "stopping", "shutdown", "building", "watching"}
           /\ task'[k] \in {"shutdown", "building", "swapping"} =>
                 task[k] \in {"stopping", "shutdown", "building"}
           /\ task'[k] = "stopping" => task[k] = "spawned"
           /\ task'[k] = "tray" => task[k] = "storing"
           /\ task'[k] = "watching" => task[k] = "tray"
           /\ task'[k] = "storing" => task[k] = "swapping"
           /\ task'[k] = "failed" => task[k] \in {"building", "watching"}
           /\ task[k] \notin {"publishing", "releasing", "failed"} => task'[k] # "done"
<1> USE DEF TaskStep, runtimeVars, externalVars
<1>1. CASE RestartTakesHandle(k)
  BY <1>1 DEF RestartTakesHandle
<1>2. CASE RestartStopsServer(k)
  BY <1>2 DEF RestartStopsServer
<1>3. CASE RestartShutsClientDown(k)
  BY <1>3 DEF RestartShutsClientDown
<1>4. CASE RestartStartsServer(k)
  BY <1>4 DEF RestartStartsServer
<1>5. CASE RestartFails(k)
  BY <1>5 DEF RestartFails
<1>6. CASE RestartSwapsClient(k)
  BY <1>6 DEF RestartSwapsClient
<1>7. CASE RestartStoresHandle(k)
  BY <1>7 DEF RestartStoresHandle
<1>8. CASE RestartSetsTray(k)
  BY <1>8 DEF RestartSetsTray
<1>9. CASE WatchPublished(k)
  BY <1>9 DEF WatchPublished
<1>10. CASE RestartReleases(k)
  BY <1>10 DEF RestartReleases
<1>11. CASE WatchSynced(k)
  BY <1>11 DEF WatchSynced
<1>12. CASE WatchFails(k)
  BY <1>12 DEF WatchFails
<1> QED
  BY <1>1, <1>2, <1>3, <1>4, <1>5, <1>6, <1>7, <1>8, <1>9, <1>10, <1>11, <1>12
     DEF RestartBody, WatchReturns

\* A restart clears the flag before it touches the client, and publishes only once its
\* own client is current.
LEMMA SyncRestart ==
    ASSUME IInv, IInv', SyncInv, NEW k \in Restarts, RestartBody(k) \/ WatchReturns(k)
    PROVE  SyncInv'
<1>0. /\ task \in [Restarts -> TaskPc] /\ task' \in [Restarts -> TaskPc]
      /\ taken \in Nat /\ client \in 0..taken /\ down \subseteq 0..taken
      /\ k \in Nat /\ k > 0 /\ InFlight(k) /\ k = taken
      /\ task[k] \notin {"none", "done", "scheduled"}
      /\ \A j \in Restarts : j # k => ~InFlight(j) /\ task'[j] = task[j]
  <2>1. task \in [Restarts -> TaskPc] /\ task' \in [Restarts -> TaskPc]
    BY DEF IInv, Types
  <2>2. taken \in Nat /\ client \in 0..taken /\ down \subseteq 0..taken /\ k \in Nat /\ k > 0
    BY MaxRestartsAssumption DEF IInv, Types, Generations, Restarts
  <2>3. task[k] \notin {"none", "done", "scheduled"}
    BY <2>1, RestartMoves
  <2>4. InFlight(k)
    BY <2>3 DEF InFlight
  <2> QED
    BY <2>1, <2>2, <2>3, <2>4, RestartMoves DEF IInv, RestartExclusive, SyncInv, SyncAt
<1>1. /\ UNCHANGED <<publishing, raced, taken, hasSynced, monitor, lookup>>
      /\ synced' = synced \/ synced' = FALSE
  BY <1>0, RestartFlags
<1>2. FirstSync'
  BY <1>0, <1>1, RestartClients DEF SyncInv, FirstSync
<1>3. DownOlder'
  <2>1. task[k] = "shutdown" => client < taken
    BY <1>0 DEF SyncInv, SyncAt
  <2> QED
    BY <1>0, <1>1, <2>1, RestartClients DEF SyncInv, DownOlder
<1>4. SyncAt(k)'
  <2>1. InFlight(k)' => k = taken'
    BY <1>0, <1>1
  <2>2. task'[k] \in {"scheduled", "spawned", "stopping", "shutdown", "building", "swapping"} =>
           client' < k
    BY <1>0, <1>1, RestartClients, RestartMoves DEF SyncInv, SyncAt
  <2>3. task'[k] \in {"storing", "tray", "watching", "publishing", "releasing"} => client' = k
    BY <1>0, <1>1, RestartClients DEF SyncInv, SyncAt
  <2>4. task'[k] \in {"publishing", "releasing"} => k \in ready'
    BY <1>0, <1>1, RestartClients DEF SyncInv, SyncAt
  <2>5. task'[k] \in {"stopping", "shutdown", "building", "swapping", "storing", "tray",
                      "watching", "failed"} => ~synced' \/ raced'
    BY <1>0, <1>1, RestartClients DEF SyncInv, SyncAt
  <2> QED
    BY <2>1, <2>2, <2>3, <2>4, <2>5 DEF SyncAt
<1>5. ASSUME NEW j \in Restarts, j # k PROVE SyncAt(j)'
  <2>1. task'[j] \in {"none", "done"}
    BY <1>0, <1>5 DEF InFlight
  <2> QED
    BY <2>1 DEF SyncAt, InFlight
<1>6. SyncedFlagIsCurrent'
  <2> SUFFICES ASSUME synced', ~raced'
               PROVE  /\ client' \in ready'
                      /\ client' \notin down'
                      /\ rpcHandle' = {client'} /\ client' \in listening'
    BY DEF SyncedFlagIsCurrent
  <2>1. synced /\ ~raced
    BY <1>1
  <2>2. task[k] \in {"publishing", "releasing"}
    <3>1. task[k] # "failed" /\ task'[k] # "stopping"
      BY <2>1, <1>0, RestartClients DEF SyncInv, SyncAt
    <3>2. task[k] = "spawned" => task'[k] = "stopping"
      BY <1>0 DEF TaskStep, RestartBody, WatchReturns, RestartTakesHandle, RestartStopsServer,
                  RestartShutsClientDown, RestartStartsServer, RestartFails,
                  RestartSwapsClient, RestartStoresHandle, RestartSetsTray, WatchPublished,
                  RestartReleases, WatchSynced, WatchFails
    <3> QED
      BY <1>0, <2>1, <3>1, <3>2 DEF SyncInv, SyncAt, TaskPc
  <2>3. client' = client /\ down' = down /\ ready \subseteq ready' /\ client = k
    BY <1>0, <2>2, RestartClients DEF SyncInv, SyncAt
  <2>4. client \in ready /\ client \notin down /\ rpcHandle = {client} /\ client \in listening
    BY <2>1 DEF SyncInv, SyncedFlagIsCurrent
  <2>5. UNCHANGED <<rpcHandle, listening>>
    BY <1>0, <2>2 DEF TaskStep, RestartBody, WatchReturns, RestartTakesHandle,
                  RestartStopsServer, RestartShutsClientDown, RestartStartsServer, RestartFails,
                  RestartSwapsClient, RestartStoresHandle, RestartSetsTray, WatchPublished,
                  RestartReleases, WatchSynced, WatchFails, runtimeVars, externalVars
  <2> QED
    BY <2>3, <2>4, <2>5
<1> QED
  BY <1>2, <1>3, <1>4, <1>5, <1>6 DEF SyncInv

\* Only the task of the current client raises the flag, but for the race `raced` records.
LEMMA SyncPublish ==
    ASSUME IInv, SyncInv, NEW g \in Generations, Publish(g)
    PROVE  SyncInv'
<1>0. /\ Publisher(g) /\ publishing[g] \in 0..2 /\ g \in 0..MaxRestarts
      /\ publishing \in [Generations -> 0..3] /\ taken \in Nat
      /\ publishing' = [publishing EXCEPT ![g] = @ + 1]
      /\ synced' = (synced \/ publishing[g] = 0)
  BY PublishSteps, MaxRestartsAssumption DEF IInv, Types, Generations
<1>1. /\ UNCHANGED <<client, rpcHandle, listening, down, ready, taken, task, raced>>
      /\ UNCHANGED <<hasSynced, monitor, lookup>>
  BY DEF Publish, externalVars, restartVars, startupVars, lookupVars
<1>2. CASE synced' = synced
  BY <1>0, <1>1, <1>2 DEF SyncInv, FirstSync, DownOlder, SyncAt, InFlight, SyncedFlagIsCurrent,
                         Generations
<1>3. CASE synced' # synced
  <2>1. publishing[g] = 0 /\ synced'
    BY <1>0, <1>3 DEF IInv, Types
  <2>2. FirstSync' /\ DownOlder'
    BY <1>0, <1>1 DEF SyncInv, FirstSync, DownOlder, Generations
  <2>3. CASE g = 0
    <3>1. monitor = "publishing" /\ 0 \in ready
      BY <1>0, <2>3 DEF Publisher, SyncInv, FirstSync
    <3>2. CASE taken = 0
      <4>1. client = 0 /\ rpcHandle = {0} /\ listening = {0} /\ down = {}
        BY <1>0, <3>2 DEF SyncInv, FirstSync, DownOlder, IInv, Types
      <4>2. \A k \in Restarts : task[k] = "none"
        BY <3>2, MaxRestartsAssumption DEF IInv, TakenInOrder, Restarts
      <4>3. \A k \in Restarts : SyncAt(k)'
        BY <1>1, <4>2 DEF SyncAt, InFlight
      <4>4. SyncedFlagIsCurrent'
        BY <1>1, <3>1, <4>1 DEF SyncedFlagIsCurrent
      <4> QED
        BY <2>2, <4>3, <4>4 DEF SyncInv
    <3>3. CASE taken # 0
      <4>1. raced
        BY <1>0, <2>1, <2>3, <3>1, <3>3 DEF SyncInv, FirstSync
      <4> QED
        BY <1>1, <2>2, <4>1 DEF SyncInv, SyncAt, InFlight, SyncedFlagIsCurrent
    <3> QED
      BY <3>2, <3>3
  <2>4. CASE g # 0
    <3>1. g \in Restarts /\ task[g] = "publishing"
      BY <1>0, <2>4, MaxRestartsAssumption DEF Publisher, Restarts
    <3>2. /\ client = g /\ g \in ready /\ g = taken
          /\ rpcHandle = {g} /\ listening = {g}
      BY <3>1 DEF SyncInv, SyncAt, InFlight, IInv, ServerInv, ServerAt
    <3>3. g \notin down
      BY <1>0, <3>2 DEF SyncInv, DownOlder
    <3>4. \A k \in Restarts : k # g => task[k] \in {"none", "done"}
      BY <3>1 DEF IInv, RestartExclusive, InFlight
    <3>5. \A k \in Restarts : SyncAt(k)'
      BY <1>1, <3>1, <3>4 DEF SyncInv, SyncAt, InFlight
    <3>6. SyncedFlagIsCurrent'
      BY <1>1, <3>2, <3>3 DEF SyncedFlagIsCurrent
    <3> QED
      BY <2>2, <3>5, <3>6 DEF SyncInv
  <2> QED
    BY <2>3, <2>4
<1> QED
  BY <1>2, <1>3

\* Every step keeps the flag true of the current client.
LEMMA SyncStep ==
    ASSUME IInv, IInv', SyncInv, [Next]_vars
    PROVE  SyncInv'
<1>0. /\ task \in [Restarts -> TaskPc] /\ taken \in Nat /\ client \in 0..taken
      /\ lookup \in [Lookups -> LookupPc] /\ down \subseteq 0..taken
  BY MaxRestartsAssumption DEF IInv, Types, Generations
<1>1. CASE \E g \in Generations : Publish(g)
  BY <1>1, SyncPublish
<1>2. CASE MonitorSynced \/ MonitorFails \/ MonitorBody
  <2>1. /\ UNCHANGED <<client, rpcHandle, listening, down, taken, task, raced>>
        /\ UNCHANGED <<publishing, synced, lookup>>
    BY <1>2, MonitorFlags DEF runtimeVars, restartVars, lookupVars
  <2>2. /\ ready \subseteq ready'
        /\ hasSynced' => monitor' \notin {"waiting", "failed"}
        /\ hasSynced => hasSynced'
        /\ monitor' = "publishing" => (0 \in ready' /\ taken = 0)
    BY <1>0, <1>2 DEF MonitorSynced, MonitorFails, MonitorBody, MonitorPublished,
       FollowerStarts, FollowerStops, SyncInv, FirstSync, externalVars
  <2>3. FirstSync'
    BY <1>0, <2>1, <2>2 DEF SyncInv, FirstSync
  <2>4. ASSUME NEW k \in Restarts PROVE SyncAt(k)'
    BY <2>1, <2>2 DEF SyncInv, SyncAt, InFlight
  <2>5. DownOlder' /\ SyncedFlagIsCurrent'
    BY <2>1, <2>2 DEF SyncInv, DownOlder, SyncedFlagIsCurrent
  <2> QED
    BY <2>3, <2>4, <2>5 DEF SyncInv
<1>3. CASE \E k \in Restarts : RestartBody(k) \/ WatchReturns(k)
  BY <1>3, SyncRestart
<1>4. ASSUME NEW p \in Lookups, TakesRestart(p)
      PROVE  SyncInv'
  <2>1. /\ UNCHANGED <<client, rpcHandle, listening, down, ready, hasSynced>>
        /\ UNCHANGED <<publishing, synced, monitor>>
        /\ taken' = taken + 1 /\ taken + 1 \in Restarts
        /\ task' = [task EXCEPT ![taken + 1] = "scheduled"]
        /\ raced' = (raced \/ (monitor = "publishing" /\ publishing[0] = 0))
        /\ lookup[p] = "scheduling" /\ lookup' = [lookup EXCEPT ![p] = "clearing"]
        /\ ~restarting
    BY <1>0, <1>4, MaxRestartsAssumption
       DEF TakesRestart, FlagFree, startupVars, externalVars, Goto, Restarts
  <2>2. FirstSync'
    <3>1. hasSynced
      BY <2>1 DEF SyncInv, FirstSync
    <3>2. monitor = "publishing" /\ publishing[0] = 0 => raced'
      BY <2>1, Zenon
    <3>3. \A q \in Lookups : lookup'[q] = "scheduling" => hasSynced'
      BY <2>1, <3>1
    <3>4. hasSynced' => monitor' \notin {"waiting", "failed"}
      BY <2>1 DEF SyncInv, FirstSync
    <3>5. taken' > 0 /\ taken' # 0 /\ (taken' > 0 => hasSynced')
      BY <1>0, <2>1, <3>1
    <3>6. monitor' = "publishing" => 0 \in ready'
      BY <2>1 DEF SyncInv, FirstSync
    <3>7. monitor' = "publishing" /\ publishing'[0] = 0 => raced'
      BY <2>1, <3>2, Zenon
    <3> QED
      BY <3>3, <3>4, <3>5, <3>6, <3>7 DEF FirstSync
  <2>3. DownOlder'
    BY <1>0, <2>1 DEF SyncInv, DownOlder
  <2>4. ASSUME NEW k \in Restarts PROVE SyncAt(k)'
    <3>1. task[k] \in {"none", "done"}
      BY <2>1 DEF IInv, RestartExclusive, InFlight
    <3>2. CASE k = taken + 1
      BY <1>0, <2>1, <3>2 DEF SyncAt, InFlight
    <3>3. CASE k # taken + 1
      BY <1>0, <2>1, <3>1, <3>3 DEF SyncAt, InFlight
    <3> QED
      BY <3>2, <3>3
  <2> QED
    BY <2>1, <2>2, <2>3, <2>4 DEF SyncInv, SyncedFlagIsCurrent
<1>5. ASSUME NEW p \in Lookups, SpawnsRestart(p)
      PROVE  SyncInv'
  <2>1. /\ UNCHANGED <<client, rpcHandle, listening, down, ready, hasSynced>>
        /\ UNCHANGED <<publishing, monitor, taken, raced>>
        /\ lookup' = [lookup EXCEPT ![p] = "fallback"]
        /\ synced' = FALSE
    BY <1>5 DEF SpawnsRestart, startupVars, externalVars, Goto
  <2>2. PICK k \in Restarts : task[k] = "scheduled" /\ task' = [task EXCEPT ![k] = "spawned"]
    BY <1>5 DEF SpawnsRestart, TaskStep
  <2>3. FirstSync' /\ DownOlder'
    BY <1>0, <2>1 DEF SyncInv, FirstSync, DownOlder
  <2>4. \A j \in Restarts : SyncAt(j)'
    BY <1>0, <2>1, <2>2 DEF SyncInv, SyncAt, InFlight
  <2> QED
    BY <2>1, <2>3, <2>4 DEF SyncInv, SyncedFlagIsCurrent
<1>6. ASSUME NEW p \in Lookups, QuietLookup(p)
      PROVE  SyncInv'
  <2>1. /\ UNCHANGED <<client, rpcHandle, listening, down, ready, taken, task, raced>>
        /\ UNCHANGED <<publishing, synced, monitor, hasSynced>>
    BY <1>6, QuietLookupFrame
       DEF ReadOnly, runtimeVars, externalVars, restartVars, startupVars
  <2>2. \A q \in Lookups : lookup'[q] = "scheduling" => hasSynced
    BY <1>6, QuietLookupMoves DEF IInv, SyncInv, FirstSync
  <2>3. FirstSync'
    BY <2>1, <2>2 DEF SyncInv, FirstSync
  <2> QED
    BY <2>1, <2>3 DEF SyncInv, DownOlder, SyncAt, InFlight, SyncedFlagIsCurrent
<1>7. CASE UNCHANGED vars
  BY <1>7 DEF vars, runtimeVars, externalVars, restartVars, startupVars, lookupVars,
              SyncInv, FirstSync, DownOlder, SyncAt, InFlight, SyncedFlagIsCurrent
<1> QED
  BY <1>1, <1>2, <1>3, <1>4, <1>5, <1>6, <1>7, NextCases

\* SyncInv holds in every reachable state.
LEMMA SyncInductive == Spec => []SyncInv
<1>1. Init => SyncInv
  BY DEF Init, SyncInv, FirstSync, DownOlder, SyncAt, InFlight, SyncedFlagIsCurrent
<1>2. IInv /\ IInv' /\ SyncInv /\ [Next]_vars => SyncInv'
  BY SyncStep
<1> QED
  BY Inductive, <1>1, <1>2, PTL DEF Spec

\* When the runtime says its client is synced, that client has synced, has not been shut
\* down, and its RPC server is the installed one and listens; the only exception is a
\* restart taken between the two stores of main.rs's monitor (main.rs 453-463,
\* helios_manager.rs 119-183).
THEOREM FlagSpeaksOfCurrent == Spec => []SyncedFlagIsCurrent
<1>1. SyncInv => SyncedFlagIsCurrent
  BY DEF SyncInv
<1> QED
  BY SyncInductive, <1>1, PTL
-----------------------------------------------------------------------------
(* What requests read of the flags *)

\* The runtime's flag is set only after that of the program.
FlagInv ==
    /\ synced => hasSynced
    /\ monitor = "publishing" => hasSynced

\* The ways in which the flags may move.
FlagsMove ==
    \/ synced' = synced /\ hasSynced' = hasSynced
    \/ ~hasSynced /\ hasSynced' /\ ~synced /\ ~synced'
    \/ hasSynced /\ hasSynced' /\ synced # synced'

LEMMA FlagStep ==
    ASSUME IInv, SyncInv, FlagInv, [Next]_vars
    PROVE  FlagInv' /\ FlagsMove
<1>0. /\ hasSynced \in BOOLEAN /\ synced \in BOOLEAN /\ taken \in Nat
      /\ \A k \in Restarts : task[k] # "none" => hasSynced
  <2>1. hasSynced \in BOOLEAN /\ synced \in BOOLEAN /\ taken \in Nat
    BY MaxRestartsAssumption DEF IInv, Types, Generations
  <2>2. ASSUME NEW k \in Restarts, task[k] # "none" PROVE hasSynced
    BY <2>1, <2>2, MaxRestartsAssumption DEF IInv, TakenInOrder, SyncInv, FirstSync, Restarts
  <2> QED
    BY <2>1, <2>2
<1>1. ASSUME UNCHANGED <<synced, hasSynced, monitor>> PROVE FlagInv' /\ FlagsMove
  BY <1>1 DEF FlagInv, FlagsMove
<1>2. ASSUME hasSynced' = hasSynced, monitor' = monitor, synced' = FALSE
      PROVE  FlagInv' /\ FlagsMove
  BY <1>0, <1>2 DEF FlagInv, FlagsMove
<1>3. ASSUME NEW g \in Generations, Publish(g) PROVE FlagInv' /\ FlagsMove
  <2>1. hasSynced' = hasSynced /\ monitor' = monitor
    BY <1>3 DEF Publish, startupVars
  <2>2. hasSynced
    <3>1. CASE g = 0
      BY <1>3, <3>1 DEF Publish, FlagInv
    <3>2. CASE g # 0
      <4>1. g \in Restarts /\ task[g] = "publishing"
        BY <1>3, <3>2, MaxRestartsAssumption DEF Publish, Generations, Restarts
      <4> QED
        BY <1>0, <4>1
    <3> QED
      BY <3>1, <3>2
  <2>3. synced' \in BOOLEAN /\ (synced => synced')
    <3> DEFINE stores == MarkOrder[publishing[g] + 1] = "store"
    <3>1. synced' = (synced \/ stores)
      BY <1>3 DEF Publish
    <3> QED
      BY <1>0, <3>1, Zenon
  <2> QED
    BY <1>0, <2>1, <2>2, <2>3 DEF FlagInv, FlagsMove
<1>4. CASE MonitorSynced
  <2>1. monitor = "waiting" /\ hasSynced' /\ synced' = synced
    BY <1>4 DEF MonitorSynced, runtimeVars
  <2>2. ~hasSynced
    BY <2>1 DEF SyncInv, FirstSync
  <2> QED
    BY <1>0, <2>1, <2>2 DEF FlagInv, FlagsMove
<1>5. CASE MonitorFails \/ MonitorBody
  <2>1. UNCHANGED <<synced, hasSynced>> /\ monitor' # "publishing"
    BY <1>5 DEF MonitorFails, MonitorBody, MonitorPublished, FollowerStarts, FollowerStops,
       runtimeVars
  <2> QED
    BY <2>1 DEF FlagInv, FlagsMove
<1>6. ASSUME NEW k \in Restarts, RestartBody(k) \/ WatchReturns(k)
      PROVE  FlagInv' /\ FlagsMove
  <2>1. CASE RestartTakesHandle(k)
    BY <1>2, <2>1 DEF RestartTakesHandle, startupVars
  <2>2. CASE ~RestartTakesHandle(k)
    <3>1. UNCHANGED <<synced, hasSynced, monitor>>
      BY <1>6, <2>2 DEF RestartBody, WatchReturns, runtimeVars, startupVars,
         RestartStopsServer, RestartShutsClientDown, RestartStartsServer, RestartFails,
         RestartSwapsClient, RestartStoresHandle, RestartSetsTray, WatchPublished,
         RestartReleases, WatchSynced, WatchFails
    <3> QED
      BY <1>1, <3>1
  <2> QED
    BY <2>1, <2>2
<1>7. ASSUME NEW p \in Lookups, TakesRestart(p) \/ SpawnsRestart(p) \/ QuietLookup(p)
      PROVE  FlagInv' /\ FlagsMove
  <2>1. CASE TakesRestart(p)
    BY <1>1, <2>1 DEF TakesRestart, startupVars
  <2>2. CASE SpawnsRestart(p)
    BY <1>2, <2>2 DEF SpawnsRestart, startupVars
  <2>3. CASE QuietLookup(p)
    BY <1>1, <2>3, QuietLookupFrame DEF ReadOnly, runtimeVars, startupVars
  <2> QED
    BY <1>7, <2>1, <2>2, <2>3
<1>8. CASE UNCHANGED vars
  BY <1>1, <1>8 DEF vars, runtimeVars, startupVars
<1> QED
  BY <1>3, <1>4, <1>5, <1>6, <1>7, <1>8, NextCases

\* The runtime implements LightClient, over which the lookups of the handlers are
\* modelled: the program's flag is set first and for good, and the runtime's falls only
\* for a restart and rises only by a sync; the two operators of LightClient read
\* these flags (main.rs 453-463, helios_manager.rs 53-57 and 119-183).
THEOREM ImplementsLightClient == Spec => Client!ClientSpec /\ []FlagsAreRead
<1>1. Init => FlagInv /\ Client!ClientInit
  BY DEF Init, FlagInv, Flags, Client!ClientInit
<1>2. IInv /\ SyncInv /\ FlagInv /\ [Next]_vars => FlagInv' /\ FlagsMove
  BY FlagStep
<1>3. ASSUME FlagInv, FlagInv', FlagsMove, IInv, IInv'
      PROVE  [Client!ClientNext]_Flags
  <2>1. synced \in BOOLEAN /\ hasSynced \in BOOLEAN
        /\ synced' \in BOOLEAN /\ hasSynced' \in BOOLEAN
    BY <1>3 DEF IInv, Types
  <2>2. CASE synced' = synced /\ hasSynced' = hasSynced
    BY <2>2 DEF Flags
  <2>3. CASE ~hasSynced /\ hasSynced' /\ ~synced /\ ~synced'
    BY <2>3 DEF Flags, Client!ClientNext, Client!HeliosStarts
  <2>4. CASE hasSynced /\ hasSynced' /\ synced # synced'
    <3>1. CASE synced /\ ~synced'
      BY <2>4, <3>1 DEF Flags, Client!ClientNext, Client!HeliosRestarts
    <3>2. CASE ~synced /\ synced'
      BY <2>4, <3>2 DEF Flags, Client!ClientNext, Client!HeliosSyncs
    <3> QED
      BY <2>1, <2>4, <3>1, <3>2
  <2> QED
    BY <1>3, <2>2, <2>3, <2>4 DEF FlagsMove
<1>4. ASSUME FlagInv, IInv PROVE FlagsAreRead
  <2>1. synced \in BOOLEAN /\ hasSynced \in BOOLEAN /\ (synced => hasSynced)
    BY <1>4 DEF IInv, Types, FlagInv
  <2> QED
    BY <2>1 DEF FlagsAreRead, Flags, Client!helios_has_synced, Client!is_current_client_synced
<1> QED
  BY Inductive, SyncInductive, <1>1, <1>2, <1>3, <1>4, PTL
     DEF Spec, Client!ClientSpec

\* The runtime keeps the promise of its restarts and that of its flags.
THEOREM KeepsPromises == Spec => Promises
BY ImplementsHandover, ImplementsLightClient, PTL DEF Promises
-----------------------------------------------------------------------------
(* The checkpoint history *)

\* Every copy of the history is without echoes.
Echoless == NoEchoes /\ \A t \in Tasks : NoEcho(snapshot[t])

\* Since the last push had the file for itself, one task at most persists, its copy is
\* the history, and it writes to an empty file; once it is done the file is the history.
Alone ==
    apart =>
        /\ \A t \in Tasks : Persisting(t) =>
              /\ snapshot[t] = history
              /\ \A u \in Tasks : Persisting(u) => u = t
              /\ pc[t] = "writing" => file = <<>>
        /\ (\A t \in Tasks : ~Persisting(t)) => history = Loaded

CheckpointInv == CheckpointTypeOK /\ Echoless /\ Alone
-----------------------------------------------------------------------------
(* Histories *)

\* A history is a function on its first positions, and is never Torn.
LEMMA HistoryShape ==
    ASSUME NEW s \in Histories
    PROVE  /\ Len(s) \in 0..Capacity
           /\ s \in [1..Len(s) -> Hashes]
           /\ s \in Seq(Hashes)
           /\ s # Torn
<1>1. PICK n \in 0..Capacity : s \in [1..n -> Hashes]
  BY DEF Histories
<1>2. s \in Seq(Hashes) /\ Len(s) = n
  BY <1>1, CheckpointsAssumption
<1> QED
  BY <1>1, <1>2, CheckpointsAssumption

LEMMA EmptyHistory == <<>> \in Histories /\ <<>> # Torn /\ NoEcho(<<>>) /\ Len(<<>>) = 0
<1>1. <<>> \in [1..0 -> Hashes] /\ 0 \in 0..Capacity
  BY CheckpointsAssumption
<1>2. <<>> \in Histories
  BY <1>1 DEF Histories
<1> QED
  BY <1>2, HistoryShape DEF NoEcho

\* A push puts the checkpoint in front, moves the others back by one, and keeps at most
\* Capacity of them (checkpoints.rs 85-88).
LEMMA PushedShape ==
    ASSUME history \in Histories, NEW h \in Hashes
    PROVE  \E n \in 1..Capacity :
              /\ n <= Len(history) + 1
              /\ Len(Pushed(h)) = n
              /\ Pushed(h) \in [1..n -> Hashes]
              /\ Pushed(h)[1] = h
              /\ \A i \in 2..n : Pushed(h)[i] = history[i - 1]
<1> DEFINE n == IF Len(history) < Capacity THEN Len(history) + 1 ELSE Capacity
           s == <<h>> \o history
<1>1. /\ Len(history) \in 0..Capacity /\ history \in [1..Len(history) -> Hashes]
      /\ history \in Seq(Hashes)
  BY HistoryShape
<1>2. n \in 1..Capacity /\ n <= Len(history) + 1
  BY <1>1, CheckpointsAssumption
<1>3. /\ s \in Seq(Hashes) /\ Len(s) = Len(history) + 1
      /\ s[1] = h /\ \A i \in 2..Len(s) : s[i] = history[i - 1]
  BY <1>1
<1>4. Pushed(h) = SubSeq(s, 1, n)
  BY DEF Pushed
<1> HIDE DEF n, s
<1>5. Pushed(h) = [i \in 1..n |-> s[i]] /\ Len(Pushed(h)) = n
  BY <1>1, <1>2, <1>3, <1>4, CheckpointsAssumption
<1> QED
  BY <1>1, <1>2, <1>3, <1>5

LEMMA PushedIsHistory ==
    ASSUME history \in Histories, NEW h \in Hashes
    PROVE  Pushed(h) \in Histories
<1>1. PICK n \in 1..Capacity : Pushed(h) \in [1..n -> Hashes]
  BY PushedShape
<1>2. n \in 0..Capacity
  BY CheckpointsAssumption
<1> QED
  BY <1>1, <1>2 DEF Histories

\* A checkpoint that is not in front already makes no echo.
LEMMA PushedEcholess ==
    ASSUME history \in Histories, NEW h \in Hashes, NoEcho(history), ~InFront(h)
    PROVE  NoEcho(Pushed(h))
<1>1. PICK n \in 1..Capacity :
              /\ n <= Len(history) + 1
              /\ Len(Pushed(h)) = n
              /\ Pushed(h)[1] = h
              /\ \A i \in 2..n : Pushed(h)[i] = history[i - 1]
  BY PushedShape
<1>2. Len(history) \in Nat /\ n \in Nat
  BY HistoryShape, CheckpointsAssumption
<1>3. ASSUME NEW i \in 1..(n - 1) PROVE Pushed(h)[i] # Pushed(h)[i + 1]
  <2>1. i \in Nat /\ i >= 1 /\ i + 1 \in 2..n /\ i <= Len(history)
    BY <1>1, <1>2
  <2>2. Pushed(h)[i + 1] = history[i]
    BY <1>1, <2>1
  <2>3. CASE i = 1
    <3>1. history # <<>>
      BY <2>1, <2>3, EmptyHistory
    <3>2. history[1] # h
      BY <3>1, HistoryShape DEF InFront
    <3> QED
      BY <1>1, <2>2, <2>3, <3>2
  <2>4. CASE i # 1
    <3>1. i \in 2..n /\ i - 1 \in 1..(Len(history) - 1) /\ (i - 1) + 1 = i
      BY <1>2, <2>1, <2>4
    <3>2. history[i - 1] # history[i]
      BY <3>1 DEF NoEcho
    <3> QED
      BY <1>1, <2>2, <3>1, <3>2
  <2> QED
    BY <2>3, <2>4
<1> QED
  BY <1>1, <1>3 DEF NoEcho
-----------------------------------------------------------------------------
LEMMA CheckpointsStart == CheckpointInit => CheckpointInv
<1> SUFFICES ASSUME CheckpointInit PROVE CheckpointInv
  OBVIOUS
<1>1. CheckpointTypeOK
  BY EmptyHistory DEF CheckpointInit, CheckpointTypeOK
<1>2. Echoless
  BY EmptyHistory DEF CheckpointInit, Echoless, NoEchoes
<1>3. Alone
  BY EmptyHistory DEF CheckpointInit, Alone, Persisting, Loaded
<1> QED
  BY <1>1, <1>2, <1>3 DEF CheckpointInv

\* What is loaded is a history without echoes.
LEMMA LoadedIsHistory ==
    ASSUME CheckpointTypeOK, NoEchoes
    PROVE  Loaded \in Histories /\ NoEcho(Loaded) /\ Loaded # Torn
BY EmptyHistory, HistoryShape DEF Loaded, CheckpointTypeOK, NoEchoes

\* What a write leaves in the file is the copy, or does not parse.
LEMMA WriteEffect ==
    ASSUME NEW t \in Tasks, Writes(t)
    PROVE  file' \in {snapshot[t], Torn}
BY DEF Writes, Overwritten

\* Every step preserves the invariant.
LEMMA CheckpointStep == CheckpointInv /\ [CheckpointNext]_checkpointVars => CheckpointInv'
<1> SUFFICES ASSUME CheckpointInv, [CheckpointNext]_checkpointVars PROVE CheckpointInv'
  OBVIOUS
<1> USE DEF CheckpointInv
<1>0. /\ history \in Histories /\ history # Torn
      /\ \A t \in Tasks : hash[t] \in Hashes /\ snapshot[t] \in Histories /\ snapshot[t] # Torn
  BY HistoryShape DEF CheckpointTypeOK
<1>1. CASE UNCHANGED checkpointVars
  BY <1>1 DEF checkpointVars, CheckpointTypeOK, Echoless, NoEchoes, Alone, Persisting, Loaded
<1>2. ASSUME NEW t \in Tasks, (\E h \in Hashes : Logged(t, h)) \/ Repeats(t) PROVE CheckpointInv'
  <2>1. /\ pc' \in [Tasks -> {"idle", "spawned", "truncating", "writing"}]
        /\ hash' \in [Tasks -> Hashes]
        /\ \A u \in Tasks : Persisting(u)' = Persisting(u) /\ (Persisting(u) => pc'[u] = pc[u])
        /\ UNCHANGED <<history, file, snapshot, apart>>
    BY <1>2 DEF Logged, Repeats, CheckpointTypeOK, Persisting
  <2>2. CheckpointTypeOK' /\ Echoless'
    BY <2>1 DEF CheckpointTypeOK, Echoless, NoEchoes
  <2>3. Alone'
    BY <2>1 DEF Alone, Loaded
  <2> QED
    BY <2>2, <2>3
<1>3. ASSUME NEW t \in Tasks, Pushes(t) PROVE CheckpointInv'
  <2>1. /\ history' = Pushed(hash[t]) /\ snapshot' = [snapshot EXCEPT ![t] = history']
        /\ pc' = [pc EXCEPT ![t] = "truncating"]
        /\ apart' = (\A u \in Tasks : ~Persisting(u))
        /\ ~InFront(hash[t])
        /\ UNCHANGED <<file, hash>>
    BY <1>3 DEF Pushes
  <2>2. history' \in Histories /\ NoEcho(history')
    BY <1>0, <2>1, PushedIsHistory, PushedEcholess DEF Echoless, NoEchoes
  <2>3. CheckpointTypeOK'
    BY <2>1, <2>2 DEF CheckpointTypeOK
  <2>4. Echoless'
    BY <2>1, <2>2 DEF Echoless, NoEchoes, CheckpointTypeOK
  <2>5. Alone'
    BY <2>1 DEF Alone, Persisting, CheckpointTypeOK
  <2> QED
    BY <2>3, <2>4, <2>5
<1>4. ASSUME NEW t \in Tasks, Truncates(t) PROVE CheckpointInv'
  <2>1. CheckpointTypeOK' /\ Echoless'
    BY <1>4, EmptyHistory DEF Truncates, CheckpointTypeOK, Echoless, NoEchoes
  <2>2. Alone'
    BY <1>4 DEF Truncates, Alone, Persisting, CheckpointTypeOK
  <2> QED
    BY <2>1, <2>2
<1>5. ASSUME NEW t \in Tasks, Writes(t) PROVE CheckpointInv'
  <2>1. file' \in {snapshot[t], Torn}
    BY <1>5, WriteEffect
  <2>2. CheckpointTypeOK' /\ Echoless'
    BY <1>0, <1>5, <2>1, EmptyHistory DEF Writes, CheckpointTypeOK, Echoless, NoEchoes
  <2>3. ASSUME apart PROVE file' = history /\ \A u \in Tasks : ~Persisting(u)'
    <3>1. file = <<>> /\ snapshot[t] = history /\ \A u \in Tasks : Persisting(u) => u = t
      BY <1>5, <2>3 DEF Writes, Alone, Persisting
    <3>2. Len(file) <= Len(snapshot[t]) /\ file # Torn
      BY <1>0, <3>1, EmptyHistory, HistoryShape
    <3> QED
      BY <1>5, <3>1, <3>2 DEF Writes, Overwritten, Persisting, CheckpointTypeOK
  <2>4. Alone'
    BY <1>0, <1>5, <2>3 DEF Writes, Alone, Loaded
  <2> QED
    BY <2>2, <2>4
<1>6. ASSUME NEW t \in Tasks, PersistFails(t) PROVE CheckpointInv'
  <2>1. /\ pc' = [pc EXCEPT ![t] = "idle"] /\ snapshot' = [snapshot EXCEPT ![t] = <<>>]
        /\ file' \in {file, Torn} /\ ~apart' /\ apart' \in BOOLEAN
        /\ UNCHANGED <<history, hash>>
    BY <1>6 DEF PersistFails
  <2> QED
    BY <2>1, EmptyHistory DEF CheckpointTypeOK, Echoless, NoEchoes, Alone
<1>7. CASE ProgramRestarts
  <2>1. CheckpointTypeOK' /\ Echoless'
    BY <1>7, LoadedIsHistory, EmptyHistory DEF ProgramRestarts, CheckpointTypeOK, Echoless, NoEchoes
  <2>2. Alone'
    BY <1>7 DEF ProgramRestarts, Alone, Persisting, Loaded
  <2> QED
    BY <2>1, <2>2
<1> QED
  BY <1>1, <1>2, <1>3, <1>4, <1>5, <1>6, <1>7 DEF CheckpointNext

\* CheckpointInv holds in every reachable state.
LEMMA CheckpointsInductive == CheckpointSpec => []CheckpointInv
BY CheckpointsStart, CheckpointStep, PTL DEF CheckpointSpec
-----------------------------------------------------------------------------
(* What follows from the invariant *)

\* The history, the copies and the file never hold more than Capacity checkpoints.
THEOREM CheckpointTypes == CheckpointSpec => []CheckpointTypeOK
<1>1. CheckpointInv => CheckpointTypeOK
  BY DEF CheckpointInv
<1> QED
  BY <1>1, CheckpointsInductive, PTL

\* No checkpoint stands beside itself in the history or the file (checkpoints.rs 82-84).
THEOREM NeverEchoes == CheckpointSpec => []NoEchoes
<1>1. CheckpointInv => NoEchoes
  BY DEF CheckpointInv, Echoless
<1> QED
  BY <1>1, CheckpointsInductive, PTL

\* After a task that had the file for itself, the file is the history, for every number of
\* tasks that came before or wait (checkpoints.rs 90-93).
THEOREM FileIsHistory == CheckpointSpec => []FileKeepsUp
<1>1. CheckpointInv => FileKeepsUp
  BY DEF CheckpointInv, Alone, FileKeepsUp
<1> QED
  BY <1>1, CheckpointsInductive, PTL
=============================================================================
