---------------------------- MODULE VersionHistory ----------------------------
(***************************************************************************)
(* What the site cache of NeoMist promises about one site, without the Kubo *)
(* calls it takes: a set of versions, each a content stored under a second. *)
(* A version never changes, a new one never replaces another, and one goes   *)
(* only when it is cleared.  SiteCache is shown to implement this module.    *)
(***************************************************************************)
CONSTANT Cids       \* content identifiers

VARIABLE versions   \* the stored versions: a function from seconds to content

Init == DOMAIN versions = {}

\* A content is stored under a second that is free.
Store ==
    \E t \in DOMAIN versions' \ DOMAIN versions, c \in Cids :
        versions' = [s \in DOMAIN versions \union {t} |-> IF s = t THEN c ELSE versions[s]]

\* Some versions are cleared, the others stay as they are.
Clear ==
    \E kept \in SUBSET DOMAIN versions : versions' = [s \in kept |-> versions[s]]

Next == Store \/ Clear

Spec == Init /\ [][Next]_versions
=============================================================================
