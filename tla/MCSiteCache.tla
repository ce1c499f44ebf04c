----------------------------- MODULE MCSiteCache -----------------------------
(* Model checking of SiteCache; the bounds are given in the cfg files. *)
EXTENDS SiteCache, TLC

\* Contents are interchangeable.
CidSymmetry == Permutations(Cids)

\* No step and none of the safety properties reads what Kubo pins, which record the
\* metadata file holds, a target that is resolved, or the content that is only pinned.
LiveTarget == [a \in Actors |-> IF pc[a] \in {"writeMetadata", "resolve"} THEN target[a] ELSE Nothing]
LiveCid == [a \in Actors |-> IF pc[a] \in {"compare", "readClock", "probe", "copy"} THEN cid[a] ELSE Nothing]
Live == <<clock, snapshots, metadata = Nothing, autoseed, cleared, pc,
          LiveTarget, LiveCid, latest, ts, attempts>>
=============================================================================
