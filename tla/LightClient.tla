-------------------------------- MODULE LightClient --------------------------------
(***************************************************************************)
(* What the requests read of the embedded light client: helios_has_synced of    *)
(* the program and the flag of the client's runtime (src/state.rs,              *)
(* src/helios_manager.rs).  The lookups are modelled over this; HeliosRuntime,   *)
(* with its tasks and restarts, implements it.                                 *)
(***************************************************************************)
VARIABLE
    helios          \* the two flags, as one state

ClientStates == {"disabled", "starting", "recovering", "synced"}

helios_enabled == helios # "disabled"
helios_has_synced == helios \in {"recovering", "synced"}
is_current_client_synced == helios = "synced"

(* The settings decide at the start of the program whether there is a client.     *)
ClientInit == helios \in {"disabled", "starting"}

(* The monitor of the first sync sets its own flag before that of the runtime.    *)
HeliosStarts ==
    /\ helios = "starting"
    /\ helios' = "recovering"

(* The client published a sync, its first one or one after a restart.             *)
HeliosSyncs ==
    /\ helios = "recovering"
    /\ helios' = "synced"

(* A restart begins, which any lookup of the program may ask for.                 *)
HeliosRestarts ==
    /\ helios = "synced"
    /\ helios' = "recovering"

ClientNext == HeliosStarts \/ HeliosSyncs \/ HeliosRestarts

ClientSpec == ClientInit /\ [][ClientNext]_helios
================================================================================
