--------------------------- MODULE SiteCacheProofs ---------------------------
(***************************************************************************)
(* Proofs about SiteCache, for every set of handlers and contents and every *)
(* probe limit.  The inductive invariant IInv joins the types, what each    *)
(* actor's pc says of its locals (Known), and, until something is cleared,  *)
(* that the stored seconds have no gap from the clock on (Gapless) and what  *)
(* an update in progress knows of the versions (Ahead).                      *)
(***************************************************************************)
EXTENDS SiteCache, TLAPS

\* What an actor's pc says of its locals.
Known(a) ==
    /\ pc[a] \in {"writeMetadata", "resolve", "compare", "readClock", "probe", "copy", "pin"}
          => target[a] \in Targets
    /\ pc[a] \in {"compare", "readClock", "probe", "copy", "enablePin"} => cid[a] \in Cids
    /\ pc[a] \in {"probe", "copy"} => ts[a] \in Stamps /\ ts[a] <= clock + attempts[a]
    /\ pc[a] = "readClock" => attempts[a] = 0
    /\ pc[a] \notin {"probe", "copy", "pin"} => attempts[a] = 0

\* From the clock on, no second is free below one that is taken.
Gapless ==
    \A t \in DOMAIN snapshots, s \in Stamps : clock <= s /\ s <= t => s \in DOMAIN snapshots

\* The version an update compared is there and differs from its content; every second
\* between the clock, the version compared and the second it tries is taken.
Ahead(a) ==
    /\ pc[a] \in {"readClock", "probe", "copy"} /\ latest[a] # Nothing =>
          latest[a] \in DOMAIN snapshots /\ snapshots[latest[a]] # cid[a]
    /\ pc[a] \in {"probe", "copy"} =>
          /\ \A s \in Stamps : clock <= s /\ s < ts[a] => s \in DOMAIN snapshots
          /\ latest[a] # Nothing =>
                \A s \in Stamps : ts[a] <= s /\ s < latest[a] => s \in DOMAIN snapshots

Fresh == cleared \/ (Gapless /\ \A a \in Actors : Ahead(a))

IInv == TypeOK /\ (\A a \in Actors : Known(a)) /\ Fresh
-----------------------------------------------------------------------------
(* The steps of one actor *)

StepOf(a) ==
    \/ Updating(a)
    \/ a \in Handlers /\ (Requesting(a) \/ Enabling(a))
    \/ a = Follower /\ (FollowerFindsSite \/ FollowerReadsFlag \/ Pins)

\* Every step of Next, grouped for the case splits below.
LEMMA NextCases ==
    ASSUME Next
    PROVE  \/ Tick \/ Disables \/ ClearsSite
           \/ \E v \in Stamps : ClearsVersion(v)
           \/ \E a \in Actors : StepOf(a)
BY DEF Next, StepOf, Actors

\* A step that ends, or only moves, an operation of a.
Quiet(a) ==
    \/ \E from \in Pc : OnlyEnds(a, from)
    \/ \E from, to \in Pc : /\ Moves(a, from, to)
                            /\ <<from, to>> \in
                               {<<"idle", "lookup">>, <<"idle", "flag">>, <<"flag", "lookup">>,
                                <<"lookup", "readMetadata">>, <<"readMetadata", "readLatest">>,
                                <<"readLatest", "retry">>, <<"probe", "copy">>}

\* The steps of an actor are quiet but for ten.
LEMMA StepCases ==
    ASSUME NEW a \in Actors, StepOf(a)
    PROVE  \/ Quiet(a)
           \/ LookupFinds(a) \/ WritesMetadata(a) \/ Resolves(a) \/ Differs(a)
           \/ ReadsClock(a) \/ Probes(a) \/ Stores(a)
           \/ a = Follower /\ Pins
           \/ Enables(a) \/ EnableReadsLatest(a) \/ EnablePins(a)
<1> USE DEF Quiet, Pc
<1>1. CASE LookupGivesUp(a) \/ UpToDate(a) \/ ProbeEnds(a) \/ UpdateFails(a)
  BY <1>1 DEF LookupGivesUp, UpToDate, ProbeEnds, UpdateFails
<1>2. CASE Requesting(a)
  BY <1>2 DEF Requesting, RequestBegins, LookupFallsBack, ReadsMetadata, MissesMetadata,
              ReadsLatest, FallbackFails
<1>3. CASE a = Follower /\ (FollowerFindsSite \/ FollowerReadsFlag)
  BY <1>3 DEF FollowerFindsSite, FollowerReadsFlag
<1> QED
  BY <1>1, <1>2, <1>3 DEF StepOf, Updating, Enabling

\* The locals of the other actors are left alone.
Frame(a) ==
    \A b \in Actors : b # a =>
        /\ pc'[b] = pc[b] /\ target'[b] = target[b] /\ cid'[b] = cid[b]
        /\ latest'[b] = latest[b] /\ ts'[b] = ts[b] /\ attempts'[b] = attempts[b]

\* What a step of a does to the locals: they keep their types, and the others' stay.
LocalTypes ==
    /\ pc \in [Actors -> Pc]
    /\ target \in [Actors -> Targets \union {Nothing}]
    /\ cid \in [Actors -> Cids \union {Nothing}]
    /\ latest \in [Actors -> Stamps \union {Nothing}]
    /\ ts \in [Actors -> Stamps \union {Nothing}]
    /\ attempts \in [Actors -> 0..ProbeLimit]

\* An operation that ends leaves no local behind.
LEMMA EndsLocals ==
    ASSUME LocalTypes, NEW a \in Actors, NEW from, Ends(a, from)
    PROVE  /\ LocalTypes' /\ Frame(a) /\ pc[a] = from
           /\ pc'[a] = "idle" /\ attempts'[a] = 0
BY CacheAssumption DEF LocalTypes, Frame, Ends, Goto, Pc

\* A move changes the pc alone.
LEMMA GotoLocals ==
    ASSUME LocalTypes, NEW a \in Actors, NEW from, NEW to \in Pc, Goto(a, from, to)
    PROVE  /\ pc' \in [Actors -> Pc] /\ pc[a] = from /\ pc'[a] = to
           /\ \A b \in Actors : b # a => pc'[b] = pc[b]
BY DEF LocalTypes, Goto

\* Every contenthash is resolved to a content.
LEMMA SnapshotCidType ==
    ASSUME NEW t \in Targets
    PROVE  SnapshotCids(t) \subseteq Cids
BY DEF SnapshotCids, Targets

\* A version that latest_mfs_entry returns is stored.
LEMMA LatestStored == LatestEntries \subseteq DOMAIN snapshots \union {Nothing}
BY DEF LatestEntries

\* A step of a keeps what a's pc says of its locals, and leaves the others alone.
LEMMA KnownStep ==
    ASSUME TypeOK, NEW a \in Actors, Known(a), StepOf(a)
    PROVE  /\ LocalTypes' /\ Frame(a) /\ Known(a)'
           /\ clock' = clock
<1>0. /\ LocalTypes /\ clock \in Seconds /\ MaxClock \in Nat /\ ProbeLimit \in Nat
      /\ attempts[a] \in 0..ProbeLimit
  BY CacheAssumption DEF TypeOK, LocalTypes
<1> USE DEF storeVars, fileVars, localVars
<1>1. CASE Quiet(a)
  <2>1. CASE \E from \in Pc : OnlyEnds(a, from)
    BY <1>0, <2>1, EndsLocals DEF OnlyEnds, Known, Pc
  <2>2. CASE \E from, to \in Pc : Moves(a, from, to) /\ <<from, to>> \in
                {<<"idle", "lookup">>, <<"idle", "flag">>, <<"flag", "lookup">>,
                 <<"lookup", "readMetadata">>, <<"readMetadata", "readLatest">>,
                 <<"readLatest", "retry">>, <<"probe", "copy">>}
    <3>1. PICK from \in Pc, to \in Pc :
             /\ Moves(a, from, to)
             /\ \/ from # "probe" /\ from \in {"idle", "flag", "lookup", "readMetadata", "readLatest"}
                   /\ to \in {"lookup", "flag", "readMetadata", "readLatest", "retry"}
                \/ from = "probe" /\ to = "copy"
      BY <2>2
    <3>2. /\ pc' \in [Actors -> Pc] /\ pc[a] = from /\ pc'[a] = to
          /\ \A b \in Actors : b # a => pc'[b] = pc[b]
      BY <1>0, <3>1, GotoLocals DEF Moves
    <3>3. UNCHANGED <<clock, snapshots, localVars>>
      BY <3>1 DEF Moves
    <3> QED
      BY <1>0, <3>1, <3>2, <3>3 DEF LocalTypes, Frame, Known
  <2> QED
    BY <1>1, <2>1, <2>2 DEF Quiet
<1>2. CASE LookupFinds(a)
  <2>1. PICK from \in {"lookup", "retry"} : Goto(a, from, "writeMetadata")
    BY <1>2 DEF LookupFinds
  <2>2. PICK t \in Targets : target' = [target EXCEPT ![a] = t]
    BY <1>2 DEF LookupFinds
  <2>3. UNCHANGED <<clock, cid, latest, ts, attempts>>
    BY <1>2 DEF LookupFinds
  <2>4. /\ pc' \in [Actors -> Pc] /\ pc'[a] = "writeMetadata" /\ pc[a] = from
        /\ \A b \in Actors : b # a => pc'[b] = pc[b]
    BY <1>0, <2>1, GotoLocals DEF Pc
  <2> QED
    BY <1>0, <2>1, <2>2, <2>3, <2>4 DEF LocalTypes, Frame, Known
<1>3. CASE WritesMetadata(a)
  BY <1>0, <1>3 DEF WritesMetadata, Goto, LocalTypes, Frame, Known, Pc
<1>4. CASE Resolves(a)
  <2>1. PICK c \in SnapshotCids(target[a]) : cid' = [cid EXCEPT ![a] = c]
    BY <1>4 DEF Resolves
  <2>2. c \in Cids
    BY <1>0, <1>4, <2>1, SnapshotCidType DEF Resolves, Goto, Known
  <2> QED
    BY <1>0, <1>4, <2>1, <2>2 DEF Resolves, Goto, LocalTypes, Frame, Known, Pc
<1>5. CASE Differs(a)
  <2>1. PICK t \in LatestEntries : latest' = [latest EXCEPT ![a] = t]
    BY <1>5 DEF Differs
  <2>2. t \in Stamps \union {Nothing}
    BY LatestStored DEF TypeOK
  <2>3. Goto(a, "compare", "readClock") /\ UNCHANGED <<clock, target, cid, ts, attempts>>
    BY <1>5 DEF Differs
  <2> QED
    BY <1>0, <2>1, <2>2, <2>3 DEF Goto, LocalTypes, Frame, Known, Pc
<1>6. CASE ReadsClock(a)
  <2>1. clock \in Stamps /\ clock <= clock + attempts[a]
    BY <1>0 DEF Stamps, Seconds
  <2> QED
    BY <1>0, <1>6, <2>1 DEF ReadsClock, Goto, LocalTypes, Frame, Known, Pc
<1>7. CASE Probes(a)
  <2>1. /\ pc[a] = "probe" /\ attempts[a] < ProbeLimit
        /\ ts' = [ts EXCEPT ![a] = ts[a] + 1]
        /\ attempts' = [attempts EXCEPT ![a] = attempts[a] + 1]
        /\ UNCHANGED <<clock, pc, target, cid, latest>>
    BY <1>7 DEF Probes
  <2>2. /\ ts[a] \in Stamps /\ ts[a] <= clock + attempts[a]
        /\ target[a] \in Targets /\ cid[a] \in Cids
    BY <2>1 DEF Known
  <2>3. /\ ts[a] + 1 \in Stamps /\ ts[a] + 1 <= clock + (attempts[a] + 1)
        /\ attempts[a] + 1 \in 0..ProbeLimit
    BY <1>0, <2>1, <2>2 DEF Stamps, Seconds
  <2>4. LocalTypes' /\ Frame(a)
    BY <1>0, <2>1, <2>3 DEF LocalTypes, Frame
  <2>5. ts'[a] = ts[a] + 1 /\ attempts'[a] = attempts[a] + 1 /\ clock' = clock
    BY <1>0, <2>1 DEF LocalTypes
  <2> QED
    BY <2>1, <2>2, <2>3, <2>4, <2>5 DEF Known
<1>8. CASE Stores(a)
  <2>1. pc[a] = "copy" /\ clock' = clock
    BY <1>8 DEF Stores, Stored
  <2>2. CASE Ends(a, "copy")
    BY <1>0, <2>1, <2>2, EndsLocals DEF Known
  <2>3. CASE Goto(a, "copy", "pin") /\ UNCHANGED localVars
    BY <1>0, <2>1, <2>3 DEF Goto, LocalTypes, Frame, Known, Pc
  <2> QED
    BY <1>8, <2>2, <2>3 DEF Stores, Stored
<1>9. CASE (a = Follower /\ Pins) \/ EnablePins(a)
  <2>1. Ends(a, "pin") \/ Ends(a, "enablePin")
    BY <1>9 DEF Pins, EnablePins
  <2>2. clock' = clock
    BY <1>9 DEF Pins, EnablePins
  <2> QED
    BY <1>0, <2>1, <2>2, EndsLocals DEF Known
<1>10. CASE Enables(a)
  BY <1>0, <1>10 DEF Enables, Goto, LocalTypes, Frame, Known, Pc
<1>11. CASE EnableReadsLatest(a)
  <2>1. PICK t \in LatestEntries :
           IF t = Nothing THEN OnlyEnds(a, "enableLatest")
           ELSE /\ Goto(a, "enableLatest", "enablePin")
                /\ cid' = [cid EXCEPT ![a] = snapshots[t]]
                /\ UNCHANGED <<clock, storeVars, target, latest, ts, attempts>>
    BY <1>11 DEF EnableReadsLatest
  <2>2. CASE t = Nothing
    BY <1>0, <2>1, <2>2, EndsLocals DEF OnlyEnds, Known
  <2>3. CASE t # Nothing
    <3>1. snapshots[t] \in Cids
      BY <2>3, LatestStored DEF TypeOK
    <3> QED
      BY <1>0, <2>1, <2>3, <3>1 DEF Goto, LocalTypes, Frame, Known, Pc
  <2> QED
    BY <2>2, <2>3
<1> QED
  BY <1>1, <1>2, <1>3, <1>4, <1>5, <1>6, <1>7, <1>8, <1>9, <1>10, <1>11, StepCases

\* A step of a stores a version or leaves the versions alone; the other files keep
\* their types.
LEMMA StoreStep ==
    ASSUME TypeOK, NEW a \in Actors, Known(a), StepOf(a)
    PROVE  /\ snapshots' = snapshots \/ Stores(a)
           /\ cleared' = cleared
           /\ metadata' \in Targets \union {Nothing}
           /\ autoseed' \in BOOLEAN /\ pinned' \subseteq Cids
<1> USE DEF storeVars, fileVars
<1>0. /\ metadata \in Targets \union {Nothing} /\ autoseed \in BOOLEAN /\ pinned \subseteq Cids
  BY DEF TypeOK
<1>1. CASE \/ Quiet(a) \/ LookupFinds(a) \/ Resolves(a) \/ Differs(a) \/ ReadsClock(a)
           \/ Probes(a) \/ EnableReadsLatest(a)
  <2>1. UNCHANGED storeVars
    BY <1>1 DEF Quiet, OnlyEnds, Moves, LookupFinds, Resolves, Differs, ReadsClock, Probes,
                EnableReadsLatest
  <2> QED
    BY <1>0, <2>1
<1>2. CASE WritesMetadata(a)
  BY <1>0, <1>2 DEF WritesMetadata, Goto, Known
<1>3. CASE Stores(a)
  BY <1>0, <1>3 DEF Stores, Stored
<1>4. CASE a = Follower /\ Pins
  <2>1. SnapshotCids(target[a]) \subseteq Cids
    BY <1>4, SnapshotCidType DEF Pins, Ends, Goto, Known
  <2> QED
    BY <1>0, <1>4, <2>1 DEF Pins
<1>5. CASE Enables(a)
  BY <1>0, <1>5 DEF Enables
<1>6. CASE EnablePins(a)
  BY <1>0, <1>6 DEF EnablePins, Ends, Goto, Known
<1> QED
  BY <1>1, <1>2, <1>3, <1>4, <1>5, <1>6, StepCases

\* What Stores does to the versions.
LEMMA StoresAdds ==
    ASSUME TypeOK, NEW a \in Actors, Known(a), Stores(a)
    PROVE  /\ ts[a] \in Stamps \ DOMAIN snapshots /\ cid[a] \in Cids
           /\ DOMAIN snapshots' = DOMAIN snapshots \union {ts[a]}
           /\ snapshots'[ts[a]] = cid[a]
           /\ \A t \in DOMAIN snapshots : snapshots'[t] = snapshots[t]
BY DEF Stores, Stored, Known
-----------------------------------------------------------------------------
(* The inductive invariant *)

\* The steps of the world and of the dashboard that belong to no actor.
LEMMA WorldFrame ==
    ASSUME \/ Tick \/ Disables \/ ClearsSite
           \/ \E v \in Stamps : ClearsVersion(v)
    PROVE  UNCHANGED <<pc, target, cid, latest, ts, attempts>>
BY DEF Tick, Disables, ClearsSite, ClearsVersion, localVars

\* Nothing is stored and no actor has begun.
LEMMA InitEstablishes == Init => IInv
<1> SUFFICES ASSUME Init PROVE IInv
  OBVIOUS
<1>1. TypeOK
  <2>1. /\ metadata = Nothing /\ pinned = {}
        /\ autoseed \in BOOLEAN /\ cleared \in BOOLEAN
    BY DEF Init
  <2>3. clock \in Seconds
    BY CacheAssumption DEF Init, Seconds
  <2>4. DOMAIN snapshots = {}
    BY DEF Init
  <2>2. LocalTypes
    BY CacheAssumption DEF Init, LocalTypes, Pc
  <2> QED
    BY <2>1, <2>2, <2>3, <2>4 DEF TypeOK, LocalTypes
<1>2. ASSUME NEW a \in Actors PROVE Known(a) /\ Ahead(a)
  BY DEF Init, Known, Ahead
<1>3. Gapless
  BY DEF Init, Gapless
<1> QED
  BY <1>1, <1>2, <1>3 DEF IInv, Fresh

\* Every step keeps the types and what the pcs say.
LEMMA TypesStep ==
    ASSUME TypeOK, \A a \in Actors : Known(a), [Next]_vars
    PROVE  TypeOK' /\ \A a \in Actors : Known(a)'
<1> USE DEF storeVars, fileVars, localVars
<1>1. ASSUME NEW a \in Actors, StepOf(a)
      PROVE  TypeOK' /\ \A b \in Actors : Known(b)'
  <2>1. /\ LocalTypes' /\ Frame(a) /\ Known(a)' /\ clock' = clock
    BY <1>1, KnownStep
  <2>2. \A b \in Actors : Known(b)'
    BY <2>1 DEF Frame, Known
  <2>3. /\ DOMAIN snapshots' \subseteq Stamps
        /\ \A t \in DOMAIN snapshots' : snapshots'[t] \in Cids
    <3>1. DOMAIN snapshots \subseteq Stamps /\ \A t \in DOMAIN snapshots : snapshots[t] \in Cids
      BY DEF TypeOK
    <3>2. CASE Stores(a)
      BY <3>1, <3>2, StoresAdds
    <3>3. CASE snapshots' = snapshots
      BY <3>1, <3>3
    <3> QED
      BY <1>1, <3>2, <3>3, StoreStep
  <2>4. /\ metadata' \in Targets \union {Nothing}
        /\ autoseed' \in BOOLEAN /\ pinned' \subseteq Cids /\ cleared' \in BOOLEAN
    BY <1>1, StoreStep DEF TypeOK
  <2> QED
    BY <2>1, <2>2, <2>3, <2>4 DEF TypeOK, LocalTypes
<1>2. ASSUME \/ Tick \/ Disables \/ ClearsSite
             \/ \E v \in Stamps : ClearsVersion(v)
      PROVE  TypeOK' /\ \A b \in Actors : Known(b)'
  <2>1. UNCHANGED <<pc, target, cid, latest, ts, attempts>>
    BY <1>2, WorldFrame
  <2>2. clock' \in Seconds /\ clock' >= clock
    <3>1. clock \in Seconds /\ MaxClock \in Nat
      BY CacheAssumption DEF TypeOK
    <3>2. CASE Tick
      BY <3>1, <3>2 DEF Tick, Seconds
    <3>3. CASE Disables \/ ClearsSite \/ \E v \in Stamps : ClearsVersion(v)
      <4>1. clock' = clock
        BY <3>3 DEF Disables, ClearsSite, ClearsVersion
      <4> QED
        BY <3>1, <4>1 DEF Seconds
    <3> QED
      BY <1>2, <3>2, <3>3
  <2>3. /\ DOMAIN snapshots' \subseteq DOMAIN snapshots
        /\ \A t \in DOMAIN snapshots' : snapshots'[t] = snapshots[t]
    BY <1>2 DEF Tick, Disables, ClearsSite, ClearsVersion
  <2>4. /\ metadata' \in {metadata, Nothing} /\ autoseed' \in BOOLEAN
        /\ pinned' = pinned /\ cleared' \in BOOLEAN
    BY <1>2 DEF Tick, Disables, ClearsSite, ClearsVersion, TypeOK
  <2>5. TypeOK'
    BY <2>1, <2>2, <2>3, <2>4 DEF TypeOK
  <2>6. ASSUME NEW b \in Actors PROVE Known(b)'
    <3>1. /\ clock \in Nat /\ clock' \in Nat /\ attempts[b] \in Nat
      BY <2>2, CacheAssumption DEF TypeOK, Seconds
    <3>2. \A t \in Stamps : t \in Nat
      BY CacheAssumption DEF Stamps
    <3> QED
      BY <2>1, <2>2, <3>1, <3>2 DEF Known
  <2> QED
    BY <2>5, <2>6
<1>3. CASE UNCHANGED vars
  BY <1>3 DEF vars, TypeOK, Known
<1> QED
  BY <1>1, <1>2, <1>3, NextCases

\* Until something is cleared, every step keeps the seconds gapless and the updates ahead.
LEMMA FreshStep ==
    ASSUME TypeOK, \A a \in Actors : Known(a), Fresh, [Next]_vars
    PROVE  Fresh'
<1> USE DEF storeVars, fileVars, localVars
<1>0. /\ clock \in Nat /\ DOMAIN snapshots \subseteq Stamps /\ Stamps \subseteq Nat
      /\ LocalTypes
  BY CacheAssumption DEF TypeOK, LocalTypes, Stamps, Seconds
<1>1. CASE ClearsSite \/ \E v \in Stamps : ClearsVersion(v)
  BY <1>1 DEF ClearsSite, ClearsVersion, Fresh
<1>2. CASE Disables \/ UNCHANGED vars
  BY <1>2 DEF Disables, vars, Fresh, Gapless, Ahead
<1>3. CASE Tick
  <2>1. /\ clock' = clock + 1
        /\ UNCHANGED <<snapshots, cleared, pc, cid, latest, ts>>
    BY <1>3 DEF Tick
  <2>2. \A s \in Stamps : clock' <= s => clock <= s
    <3>1. \A s \in Nat, c \in Nat : c + 1 <= s => c <= s
      OBVIOUS
    <3> QED
      BY <1>0, <2>1, <3>1
  <2>3. Gapless => Gapless'
    BY <2>1, <2>2 DEF Gapless
  <2>4. ASSUME NEW a \in Actors, Ahead(a) PROVE Ahead(a)'
    BY <2>1, <2>2, <2>4 DEF Ahead
  <2> QED
    BY <2>1, <2>3, <2>4 DEF Fresh
<1>4. ASSUME NEW a \in Actors, StepOf(a), ~cleared
      PROVE  Gapless' /\ \A b \in Actors : Ahead(b)'
  <2>0. /\ Gapless /\ \A b \in Actors : Ahead(b)
        /\ Frame(a) /\ clock' = clock /\ (snapshots' = snapshots \/ Stores(a))
    BY <1>4, KnownStep, StoreStep DEF Fresh
  <2>1. ASSUME NEW b \in Actors, b # a, snapshots' = snapshots PROVE Ahead(b)'
    BY <2>0, <2>1 DEF Ahead, Frame
  <2>2. CASE Stores(a)
    <3>1. /\ DOMAIN snapshots' = DOMAIN snapshots \union {ts[a]}
          /\ \A t \in DOMAIN snapshots : snapshots'[t] = snapshots[t]
          /\ ts[a] \in Stamps
      BY <2>2, StoresAdds
    <3>2. pc[a] = "copy" /\ pc'[a] \in {"pin", "idle"}
      BY <1>0, <2>2 DEF Stores, Stored, Goto, Ends, LocalTypes
    <3>3. Gapless'
      <4>1. \A s \in Stamps : clock <= s /\ s < ts[a] => s \in DOMAIN snapshots
        BY <2>0, <3>2 DEF Ahead
      <4>2. ASSUME NEW s \in Stamps, s <= ts[a] PROVE s < ts[a] \/ s = ts[a]
        <5>1. s \in Nat /\ ts[a] \in Nat
          BY <1>0, <3>1
        <5> QED
          BY <4>2, <5>1
      <4> QED
        BY <2>0, <3>1, <4>1, <4>2 DEF Gapless
    <3>4. Ahead(a)'
      BY <3>2 DEF Ahead
    <3>5. ASSUME NEW b \in Actors, b # a PROVE Ahead(b)'
      BY <2>0, <3>1, <3>5 DEF Ahead, Frame
    <3> QED
      BY <3>3, <3>4, <3>5
  <2>3. CASE snapshots' = snapshots
    <3>1. Gapless'
      BY <2>0, <2>3 DEF Gapless
    <3>2. Ahead(a)'
      <4>1. CASE Differs(a)
        <5>1. PICK t \in LatestEntries :
                 /\ t # Nothing => snapshots[t] # cid[a]
                 /\ Goto(a, "compare", "readClock")
                 /\ latest' = [latest EXCEPT ![a] = t]
                 /\ UNCHANGED cid
          BY <4>1 DEF Differs
        <5> QED
          BY <1>0, <2>3, <5>1, LatestStored DEF Goto, Ahead, LocalTypes
      <4>2. CASE ReadsClock(a)
        <5>1. /\ pc[a] = "readClock" /\ pc'[a] = "probe" /\ ts'[a] = clock
              /\ UNCHANGED <<latest, cid>>
          BY <1>0, <4>2 DEF ReadsClock, Goto, LocalTypes
        <5>2. latest[a] # Nothing =>
                 latest[a] \in DOMAIN snapshots /\ snapshots[latest[a]] # cid[a]
          BY <2>0, <5>1 DEF Ahead
        <5>3. /\ \A s \in Stamps : ~(clock <= s /\ s < clock)
              /\ latest[a] # Nothing =>
                    \A s \in Stamps : clock <= s /\ s < latest[a] => s \in DOMAIN snapshots
          <6>1. \A s \in Stamps : ~(clock <= s /\ s < clock)
            BY <1>0
          <6>2. ASSUME latest[a] # Nothing, NEW s \in Stamps, clock <= s, s < latest[a]
                PROVE  s \in DOMAIN snapshots
            <7>1. latest[a] \in DOMAIN snapshots
              BY <5>2, <6>2
            <7>2. latest[a] \in Nat /\ s \in Nat
              BY <1>0, <7>1
            <7>3. s <= latest[a]
              BY <6>2, <7>2
            <7> QED
              BY <2>0, <6>2, <7>1, <7>3 DEF Gapless
          <6> QED
            BY <6>1, <6>2
        <5> QED
          BY <2>0, <2>3, <5>1, <5>2, <5>3 DEF Ahead
      <4>3. CASE Probes(a)
        <5>1. /\ pc[a] = "probe" /\ pc'[a] = "probe" /\ ts'[a] = ts[a] + 1
              /\ ts[a] \in DOMAIN snapshots
              /\ UNCHANGED <<latest, cid>>
          BY <1>0, <4>3 DEF Probes, LocalTypes
        <5>2. ts[a] \in Stamps
          BY <5>1 DEF Known
        <5>3. ASSUME NEW s \in Stamps
              PROVE  /\ s < ts[a] + 1 => s < ts[a] \/ s = ts[a]
                     /\ ts[a] + 1 <= s => ts[a] <= s
          <6>1. s \in Nat /\ ts[a] \in Nat
            BY <1>0, <5>2
          <6> QED
            BY <6>1
        <5>4. /\ latest[a] # Nothing =>
                    latest[a] \in DOMAIN snapshots /\ snapshots[latest[a]] # cid[a]
              /\ \A s \in Stamps : clock <= s /\ s < ts[a] => s \in DOMAIN snapshots
              /\ latest[a] # Nothing =>
                    \A s \in Stamps : ts[a] <= s /\ s < latest[a] => s \in DOMAIN snapshots
          BY <2>0, <5>1 DEF Ahead
        <5>5. /\ \A s \in Stamps : clock <= s /\ s < ts[a] + 1 => s \in DOMAIN snapshots
              /\ latest[a] # Nothing =>
                    \A s \in Stamps : ts[a] + 1 <= s /\ s < latest[a] => s \in DOMAIN snapshots
          BY <5>1, <5>3, <5>4
        <5> QED
          BY <2>0, <2>3, <5>1, <5>4, <5>5 DEF Ahead
      <4>4. CASE Moves(a, "probe", "copy")
        <5>1. /\ pc[a] = "probe" /\ pc'[a] = "copy" /\ UNCHANGED <<latest, cid, ts>>
          BY <1>0, <4>4 DEF Moves, Goto, LocalTypes
        <5> QED
          BY <2>0, <2>3, <5>1 DEF Ahead
      <4>5. ASSUME ~Differs(a), ~ReadsClock(a), ~Probes(a), ~Moves(a, "probe", "copy")
            PROVE  pc'[a] \notin {"readClock", "probe", "copy"}
        <5>1. CASE Quiet(a)
          BY <1>0, <4>5, <5>1 DEF Quiet, OnlyEnds, Ends, Moves, Goto, LocalTypes
        <5>2. ASSUME ~Quiet(a)
              PROVE  pc'[a] \in {"writeMetadata", "resolve", "compare", "idle", "pin",
                                 "enableLatest", "enablePin"}
          BY <1>0, <1>4, <4>5, <5>2, StepCases DEF LookupFinds, WritesMetadata, Resolves, Stores,
             Stored, Pins, Enables, EnableReadsLatest, EnablePins, OnlyEnds, Ends, Goto, LocalTypes
        <5> QED
          BY <5>1, <5>2
      <4> QED
        BY <4>1, <4>2, <4>3, <4>4, <4>5 DEF Ahead
    <3> QED
      BY <2>1, <2>3, <3>1, <3>2
  <2> QED
    BY <2>0, <2>2, <2>3
<1> QED
  <2>1. ASSUME NEW a \in Actors, StepOf(a) PROVE Fresh'
    BY <1>4, <2>1, StoreStep DEF Fresh
  <2> QED
    BY <1>1, <1>2, <1>3, <2>1, NextCases
-----------------------------------------------------------------------------
(* What follows from the invariant *)

\* IInv holds in every reachable state.
LEMMA Inductive == Spec => []IInv
<1>1. IInv /\ [Next]_vars => IInv'
  BY TypesStep, FreshStep DEF IInv
<1> QED
  BY InitEstablishes, <1>1, PTL DEF Spec

\* Every file, local and pin keeps its type: in particular an update never tries more
\* than ProbeLimit seconds beyond the clock it read (ens.rs 459-469).
THEOREM TypeCorrect == Spec => []TypeOK
<1>1. IInv => TypeOK
  BY DEF IInv
<1> QED
  BY Inductive, <1>1, PTL

\* While nothing is cleared, no update stores content again beside the version it
\* compared (update_mfs_cache, ens.rs 439-495).
THEOREM NoRepeats == Spec => NoRepeatedVersion
<1>1. ASSUME IInv, NEW a \in Actors, Stores(a), latest[a] # Nothing, ~cleared
      PROVE  snapshots[latest[a]] # cid[a]
  BY <1>1 DEF IInv, Fresh, Ahead, Stores
<1>2. IInv /\ [Next]_vars =>
        [\A a \in Actors :
            Stores(a) /\ latest[a] # Nothing /\ ~cleared => snapshots[latest[a]] # cid[a]]_vars
  BY <1>1
<1> QED
  BY Inductive, <1>2, PTL DEF Spec, NoRepeatedVersion

\* While nothing is cleared and the clock is not set back, a new version is newer than
\* the version its update compared, however many updates run in the same second
\* (update_mfs_cache, ens.rs 439-495).
THEOREM NewestWins == Spec => NewVersionIsNewest
<1>1. ASSUME IInv, NEW a \in Actors, Stores(a), latest[a] # Nothing, ~cleared
      PROVE  latest[a] < ts[a]
  <2>1. /\ ts[a] \in Stamps /\ ts[a] \notin DOMAIN snapshots
        /\ latest[a] \in DOMAIN snapshots /\ latest[a] \in Stamps
        /\ \A s \in Stamps : ts[a] <= s /\ s < latest[a] => s \in DOMAIN snapshots
    BY <1>1 DEF IInv, Known, Fresh, Ahead, Stores, TypeOK
  <2>2. Stamps \subseteq Nat
    BY CacheAssumption DEF Stamps
  <2>3. ts[a] \in Nat /\ latest[a] \in Nat
    BY <2>1, <2>2
  <2>4. ts[a] # latest[a]
    BY <2>1
  <2>5. ~(ts[a] < latest[a])
    BY <2>1, <2>3
  <2> QED
    BY <2>3, <2>4, <2>5
<1>2. IInv /\ [Next]_vars =>
        [\A a \in Actors :
            Stores(a) /\ latest[a] # Nothing /\ ~cleared => latest[a] < ts[a]]_vars
  BY <1>1
<1> QED
  BY Inductive, <1>2, PTL DEF Spec, NewVersionIsNewest

\* The cache of MFS calls implements VersionHistory: whatever the interleaving of
\* requests, follower and dashboard, a stored version never changes and a new one never
\* takes its place (ens.rs 439-495, cache.rs 215-242).
THEOREM ImplementsHistory == Spec => HistorySpec
<1>1. Init => History!Init
  BY DEF Init, History!Init
<1>2. IInv /\ [Next]_vars => [History!Next]_snapshots
  <2> SUFFICES ASSUME IInv, [Next]_vars PROVE [History!Next]_snapshots
    OBVIOUS
  <2> USE DEF storeVars, fileVars
  <2>1. ASSUME NEW a \in Actors, StepOf(a) PROVE [History!Next]_snapshots
    <3>1. snapshots' = snapshots \/ Stores(a)
      BY <2>1, StoreStep DEF IInv
    <3>2. CASE Stores(a)
      <4>1. /\ ts[a] \in DOMAIN snapshots' \ DOMAIN snapshots /\ cid[a] \in Cids
            /\ snapshots' = [s \in DOMAIN snapshots \union {ts[a]} |->
                                IF s = ts[a] THEN cid[a] ELSE snapshots[s]]
        BY <3>2, StoresAdds DEF IInv, Stores, Stored
      <4> QED
        BY <4>1 DEF History!Next, History!Store
    <3> QED
      BY <3>1, <3>2
  <2>2. CASE ClearsSite
    <3>1. snapshots' = [s \in {} |-> snapshots[s]]
      BY <2>2 DEF ClearsSite
    <3> QED
      BY <3>1 DEF History!Next, History!Clear
  <2>3. CASE \E v \in Stamps : ClearsVersion(v)
    BY <2>3 DEF ClearsVersion, History!Next, History!Clear
  <2>4. CASE Tick \/ Disables \/ UNCHANGED vars
    BY <2>4 DEF Tick, Disables, vars
  <2> QED
    BY <2>1, <2>2, <2>3, <2>4, NextCases
<1> QED
  BY Inductive, <1>1, <1>2, PTL DEF Spec, HistorySpec, History!Spec
=============================================================================
