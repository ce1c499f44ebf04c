--------------------------- MODULE HeliosHandover ---------------------------
(***************************************************************************)
(* What an in-process Helios restart promises to the rest of NeoMist,       *)
(* without its steps: restarts are taken one at a time and in order, and    *)
(* the JSON-RPC server on the loopback port passes from one client          *)
(* generation to a later one, the old one being retired before the new one  *)
(* is installed.  HeliosRuntime is shown to implement this module.          *)
(***************************************************************************)
EXTENDS Naturals

VARIABLES
    holder,     \* the restart in flight, 0 when there is none
    taken,      \* how many restarts have been taken so far
    serving     \* the generation whose RPC server is installed: {g}, or {}

vars == <<holder, taken, serving>>

Init ==
    /\ holder = 0
    /\ taken = 0
    /\ serving = {0}

\* A restart is taken only when none is in flight.
Take ==
    /\ holder = 0
    /\ taken' = taken + 1
    /\ holder' = taken + 1
    /\ UNCHANGED serving

\* The restart in flight retires the server that is installed.
Retire ==
    /\ holder # 0
    /\ serving' = {}
    /\ UNCHANGED <<holder, taken>>

\* It installs a server of its own, once nothing is installed.
Install ==
    /\ holder # 0
    /\ serving = {}
    /\ serving' = {holder}
    /\ UNCHANGED <<holder, taken>>

\* It ends, whatever it achieved.
End ==
    /\ holder # 0
    /\ holder' = 0
    /\ UNCHANGED <<taken, serving>>

Next == Take \/ Retire \/ Install \/ End

Spec == Init /\ [][Next]_vars
=============================================================================
