------------------------------ MODULE SiteCache ------------------------------
(***************************************************************************)
(* The version cache of one site, kept in Kubo's MFS under                   *)
(* /neomist-cache/<site>: src/cache.rs, the update and the fallback of       *)
(* src/ens.rs, and the following loop of src/following.rs.                   *)
(*                                                                         *)
(* Kubo calls are steps, so that site requests, the follower and the         *)
(* dashboard's calls interleave between any two of them.  Sites share no     *)
(* directory; the module speaks of one.  Access dates and sizes are left     *)
(* out: nothing is decided by them.                                          *)
(***************************************************************************)
EXTENDS Naturals

CONSTANTS
    Cids,           \* IPFS content identifiers
    Names,          \* IPNS names
    Handlers,       \* HTTP handlers that run at the same time
    Follower,       \* the following loop
    Nothing,        \* Option::None
    MaxClock,       \* bound: the last second of a behaviour
    ProbeLimit      \* how many seconds an update tries beyond the current one (5)

ASSUME CacheAssumption ==
    /\ Cids \intersect Names = {}
    /\ Nothing \notin Cids \union Names \union Nat
    /\ Follower \notin Handlers
    /\ MaxClock \in Nat \ {0} /\ ProbeLimit \in Nat

VARIABLES
    clock,          \* SystemTime::now() in seconds
    snapshots,      \* <site>/<second>: the content of each stored version
    metadata,       \* <site>/contenthash: the last record written, or Nothing
    autoseed,       \* <site>/autoseed exists
    pinned,         \* external: the contents Kubo pins
    pc,             \* the next call of each handler and of the follower
    target,         \* the contenthash each one works with
    cid,            \* resolved_cid
    latest,         \* the version latest_mfs_entry returned, or Nothing
    ts,             \* ts of update_mfs_cache
    attempts,       \* attempts of update_mfs_cache
    cleared         \* ghost: whether anything was cleared so far

fileVars == <<metadata, autoseed, pinned, cleared>>
storeVars == <<snapshots, fileVars>>
localVars == <<target, cid, latest, ts, attempts>>
vars == <<clock, storeVars, pc, localVars>>
-----------------------------------------------------------------------------
Actors == Handlers \union {Follower}
Targets == Cids \union Names
Seconds == 1..MaxClock
Stamps == 1..(MaxClock + ProbeLimit)

Pc == {"idle", "flag", "lookup", "retry", "readMetadata", "readLatest", "writeMetadata",
       "resolve", "compare", "readClock", "probe", "copy", "pin", "enableLatest", "enablePin"}

\* snapshot_cid: the content of a contenthash, an IPNS name being resolved first.  A name
\* may be published anew at any time, so that it resolves to any content.
SnapshotCids(t) == IF t \in Names THEN Cids ELSE {t}

TypeOK ==
    /\ clock \in Seconds
    /\ DOMAIN snapshots \subseteq Stamps
    /\ \A t \in DOMAIN snapshots : snapshots[t] \in Cids
    /\ metadata \in Targets \union {Nothing}
    /\ autoseed \in BOOLEAN /\ cleared \in BOOLEAN
    /\ pinned \subseteq Cids
    /\ pc \in [Actors -> Pc]
    /\ target \in [Actors -> Targets \union {Nothing}]
    /\ cid \in [Actors -> Cids \union {Nothing}]
    /\ latest \in [Actors -> Stamps \union {Nothing}]
    /\ ts \in [Actors -> Stamps \union {Nothing}]
    /\ attempts \in [Actors -> 0..ProbeLimit]

Init ==
    /\ clock = 1
    /\ snapshots = [t \in {} |-> Nothing]
    /\ metadata = Nothing
    /\ autoseed = FALSE
    /\ pinned = {}
    /\ cleared = FALSE
    /\ pc = [a \in Actors |-> "idle"]
    /\ target = [a \in Actors |-> Nothing]
    /\ cid = [a \in Actors |-> Nothing]
    /\ latest = [a \in Actors |-> Nothing]
    /\ ts = [a \in Actors |-> Nothing]
    /\ attempts = [a \in Actors |-> 0]
-----------------------------------------------------------------------------
(* The world outside *)

\* Bound: time stops at MaxClock.  The clock is never set back.
Tick ==
    /\ clock < MaxClock
    /\ clock' = clock + 1
    /\ UNCHANGED <<storeVars, pc, localVars>>
-----------------------------------------------------------------------------
(* Steps of a handler or of the follower *)

Goto(a, from, to) ==
    /\ pc[a] = from
    /\ pc' = [pc EXCEPT ![a] = to]

\* The operation ends, a request with the gateway's answer to it, and its locals are
\* dropped.
Ends(a, from) ==
    /\ Goto(a, from, "idle")
    /\ target' = [target EXCEPT ![a] = Nothing]
    /\ cid' = [cid EXCEPT ![a] = Nothing]
    /\ latest' = [latest EXCEPT ![a] = Nothing]
    /\ ts' = [ts EXCEPT ![a] = Nothing]
    /\ attempts' = [attempts EXCEPT ![a] = 0]

OnlyEnds(a, from) == Ends(a, from) /\ UNCHANGED <<clock, storeVars>>
Moves(a, from, to) == Goto(a, from, to) /\ UNCHANGED <<clock, storeVars, localVars>>

\* latest_mfs_entry: files/ls, then a files/stat of every entry.  An entry counts when
\* its stat succeeds: the result is the newest of those that answered, or None.
LatestEntries ==
    {t \in DOMAIN snapshots : \E answered \in SUBSET DOMAIN snapshots :
        t \in answered /\ \A s \in answered : s <= t} \union {Nothing}
-----------------------------------------------------------------------------
(* The lookup of a request, its fallback, and the pass of the follower *)

RequestBegins(h) == Moves(h, "idle", "lookup")

\* A pass of the follower finds the site in the cache: it has a version.
FollowerFindsSite ==
    /\ DOMAIN snapshots # {}
    /\ Moves(Follower, "idle", "flag")

\* The pass goes on when the site is followed.
FollowerReadsFlag ==
    IF autoseed THEN Moves(Follower, "flag", "lookup") ELSE OnlyEnds(Follower, "flag")

\* The lookup, or its retry, returns a record: the owner of the name may have set any.
LookupFinds(a) ==
    /\ \E from \in {"lookup", "retry"} : Goto(a, from, "writeMetadata")
    /\ \E t \in Targets : target' = [target EXCEPT ![a] = t]
    /\ UNCHANGED <<clock, storeVars, cid, latest, ts, attempts>>

\* There is no record, or an error that no cached record may answer.
LookupGivesUp(a) == \E from \in {"lookup", "retry"} : OnlyEnds(a, from)

\* A fallback error of a request's first lookup.
LookupFallsBack(h) == Moves(h, "lookup", "readMetadata")

\* latest_cached_contenthash: the target of the metadata file is proxied, else the
\* content of the latest version; with neither the lookup may be retried.
ReadsMetadata(h) == metadata # Nothing /\ OnlyEnds(h, "readMetadata")
MissesMetadata(h) == Moves(h, "readMetadata", "readLatest")
ReadsLatest(h) ==
    \E t \in LatestEntries :
        IF t = Nothing THEN Moves(h, "readLatest", "retry") ELSE OnlyEnds(h, "readLatest")

\* A Kubo call of the fallback fails, and the request with it.
FallbackFails(h) == \E from \in {"readMetadata", "readLatest"} : OnlyEnds(h, from)
-----------------------------------------------------------------------------
(* The metadata file and update_mfs_cache *)

\* A failed write of the metadata is logged and ignored.
WritesMetadata(a) ==
    /\ Goto(a, "writeMetadata", "resolve")
    /\ metadata' \in {metadata, target[a]}
    /\ UNCHANGED <<clock, snapshots, autoseed, pinned, cleared, localVars>>

Resolves(a) ==
    /\ Goto(a, "resolve", "compare")
    /\ \E c \in SnapshotCids(target[a]) : cid' = [cid EXCEPT ![a] = c]
    /\ UNCHANGED <<clock, storeVars, target, latest, ts, attempts>>

\* When the latest version holds the content, nothing is stored.
UpToDate(a) ==
    /\ \E t \in LatestEntries \ {Nothing} : snapshots[t] = cid[a]
    /\ OnlyEnds(a, "compare")

\* Mutant: the latest version is not compared.
ComparesNothing(a) ==
    \E t \in LatestEntries :
        /\ Goto(a, "compare", "readClock")
        /\ latest' = [latest EXCEPT ![a] = t]
        /\ UNCHANGED <<clock, storeVars, target, cid, ts, attempts>>

\* Otherwise the version that was compared is kept in mind.
Differs(a) ==
    \E t \in LatestEntries :
        /\ t # Nothing => snapshots[t] # cid[a]
        /\ Goto(a, "compare", "readClock")
        /\ latest' = [latest EXCEPT ![a] = t]
        /\ UNCHANGED <<clock, storeVars, target, cid, ts, attempts>>

ReadsClock(a) ==
    /\ Goto(a, "readClock", "probe")
    /\ ts' = [ts EXCEPT ![a] = clock]
    /\ UNCHANGED <<clock, storeVars, target, cid, latest, attempts>>

\* Mutant: the attempts are not limited.
ProbesOn(a) ==
    /\ pc[a] = "probe"
    /\ ts[a] \in DOMAIN snapshots
    /\ ts' = [ts EXCEPT ![a] = @ + 1]
    /\ attempts' = [attempts EXCEPT ![a] = @ + 1]
    /\ UNCHANGED <<clock, storeVars, pc, target, cid, latest>>

\* Mutant: every attempt skips a second.
ProbesApart(a) ==
    /\ pc[a] = "probe"
    /\ ts[a] \in DOMAIN snapshots
    /\ attempts[a] < ProbeLimit
    /\ ts' = [ts EXCEPT ![a] = @ + 2]
    /\ attempts' = [attempts EXCEPT ![a] = @ + 1]
    /\ UNCHANGED <<clock, storeVars, pc, target, cid, latest>>

\* The second is taken: the next one is tried, ProbeLimit times at most.
Probes(a) ==
    /\ pc[a] = "probe"
    /\ ts[a] \in DOMAIN snapshots
    /\ attempts[a] < ProbeLimit
    /\ ts' = [ts EXCEPT ![a] = @ + 1]
    /\ attempts' = [attempts EXCEPT ![a] = @ + 1]
    /\ UNCHANGED <<clock, storeVars, pc, target, cid, latest>>

\* The second is free, or its stat failed, or no attempt is left.
ProbeEnds(a) == Moves(a, "probe", "copy")

\* The version is there; the follower pins it.  The reply may be lost.
Stored(a) ==
    /\ snapshots' = [t \in DOMAIN snapshots \union {ts[a]} |->
                        IF t = ts[a] THEN cid[a] ELSE snapshots[t]]
    /\ \/ a = Follower /\ Goto(a, "copy", "pin") /\ UNCHANGED localVars
       \/ Ends(a, "copy")
    /\ UNCHANGED <<clock, fileVars>>

\* Mutant: files/cp is told to replace what is there.
StoresForce(a) == pc[a] = "copy" /\ Stored(a)

\* files/cp stores the version; Kubo refuses a target that exists.
Stores(a) == pc[a] = "copy" /\ ts[a] \notin DOMAIN snapshots /\ Stored(a)

\* A Kubo call fails: update_mfs_cache returns the error, which its caller only logs.
\* Resolving calls Kubo for an IPNS name only.
UpdateFails(a) ==
    \/ target[a] \in Names /\ OnlyEnds(a, "resolve")
    \/ OnlyEnds(a, "compare") \/ OnlyEnds(a, "copy")

\* The follower pins the contenthash of the record, resolved once more; it may fail.
Pins ==
    /\ Ends(Follower, "pin")
    /\ pinned' \in {pinned} \union {pinned \union {c} : c \in SnapshotCids(target[Follower])}
    /\ UNCHANGED <<clock, snapshots, metadata, autoseed, cleared>>
-----------------------------------------------------------------------------
(* The dashboard: toggle_autoseed and clear_cache *)

\* Enabling writes the flag, then pins the latest version.
Enables(h) ==
    /\ Goto(h, "idle", "enableLatest")
    /\ autoseed' = TRUE
    /\ UNCHANGED <<clock, snapshots, metadata, pinned, cleared, localVars>>

EnableReadsLatest(h) ==
    \E t \in LatestEntries :
        IF t = Nothing THEN OnlyEnds(h, "enableLatest")
        ELSE /\ Goto(h, "enableLatest", "enablePin")
             /\ cid' = [cid EXCEPT ![h] = snapshots[t]]
             /\ UNCHANGED <<clock, storeVars, target, latest, ts, attempts>>

EnablePins(h) ==
    /\ Ends(h, "enablePin")
    /\ pinned' \in {pinned, pinned \union {cid[h]}}
    /\ UNCHANGED <<clock, snapshots, metadata, autoseed, cleared>>

\* Disabling removes the flag; nothing is unpinned.
Disables ==
    /\ autoseed
    /\ autoseed' = FALSE
    /\ UNCHANGED <<clock, snapshots, metadata, pinned, cleared, pc, localVars>>

\* clear_cache of one version leaves the metadata.
ClearsVersion(v) ==
    /\ v \in DOMAIN snapshots
    /\ snapshots' = [t \in DOMAIN snapshots \ {v} |-> snapshots[t]]
    /\ cleared' = TRUE
    /\ UNCHANGED <<clock, metadata, autoseed, pinned, pc, localVars>>

\* clear_cache of the site removes its directory; nothing is unpinned.
ClearsSite ==
    /\ snapshots' = [t \in {} |-> Nothing]
    /\ metadata' = Nothing
    /\ autoseed' = FALSE
    /\ cleared' = TRUE
    /\ UNCHANGED <<clock, pinned, pc, localVars>>
-----------------------------------------------------------------------------
Updating(a) ==
    \/ LookupFinds(a) \/ LookupGivesUp(a) \/ WritesMetadata(a)
    \/ Resolves(a) \/ UpToDate(a) \/ Differs(a) \/ ReadsClock(a) \/ Probes(a) \/ ProbeEnds(a)
    \/ Stores(a) \/ UpdateFails(a)

Requesting(h) ==
    \/ RequestBegins(h) \/ LookupFallsBack(h)
    \/ ReadsMetadata(h) \/ MissesMetadata(h) \/ ReadsLatest(h) \/ FallbackFails(h)

Enabling(h) == Enables(h) \/ EnableReadsLatest(h) \/ EnablePins(h)

Next ==
    \/ Tick
    \/ \E h \in Handlers : Enabling(h) \/ Requesting(h)
    \/ \E a \in Actors : Updating(a)
    \/ FollowerFindsSite \/ FollowerReadsFlag \/ Pins
    \/ Disables \/ ClearsSite \/ \E v \in Stamps : ClearsVersion(v)

Spec == Init /\ [][Next]_vars
-----------------------------------------------------------------------------
(* Properties *)

\* An update that compared its content with a version never stores it again beside it,
\* whatever other updates store meanwhile; only a clear could make it.
NoRepeatedVersion ==
    [][\A a \in Actors :
          Stores(a) /\ latest[a] # Nothing /\ ~cleared => snapshots[latest[a]] # cid[a]]_vars

\* A new version is newer than the one its update took for the latest, so that the next
\* latest_mfs_entry returns it: seconds that earlier probes borrowed from the future never
\* push a new version behind an old one, while nothing is cleared.
NewVersionIsNewest ==
    [][\A a \in Actors :
          Stores(a) /\ latest[a] # Nothing /\ ~cleared => latest[a] < ts[a]]_vars

\* The cache implements VersionHistory.
History == INSTANCE VersionHistory WITH versions <- snapshots
HistorySpec == History!Spec
=============================================================================
