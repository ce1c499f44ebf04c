------------------------------- MODULE LiveConfig -------------------------------
(***************************************************************************)
(* The configuration in memory that the gas price, the tray and the RPC proxy    *)
(* read while the program runs, and how a save of the settings reaches them       *)
(* (save_config_handler in src/http_server.rs; ConfigStore has it in full).      *)
(***************************************************************************)
EXTENDS Naturals, SequencesExt

CONSTANTS
    Endpoints,      \* the addresses of RPC servers
    Configs,        \* bound: the configurations that are stored
    None            \* Option::None

ASSUME LiveConfigAssumption ==
    /\ Configs \subseteq [show : BOOLEAN, execution : Seq(Endpoints), consensus : Seq(Endpoints)]
    /\ None \notin Configs /\ None \notin Endpoints

VARIABLES
    config,         \* AppState.config
    show,           \* TrayState.show_gas_price
    saving          \* the configuration that is on disk and not yet in memory

configVars == <<config, show, saving>>

ConfigTypeOK == config \in Configs /\ show \in BOOLEAN /\ saving \in Configs \cup {None}

InitConfig == config \in Configs /\ show = TRUE /\ saving = None

(* config.json is written; the flag of the tray changes before the configuration. *)
SavesFlag ==
    /\ saving = None
    /\ saving' \in Configs
    /\ show' = saving'.show
    /\ UNCHANGED config

SavesConfig ==
    /\ saving # None
    /\ config' = saving
    /\ saving' = None
    /\ UNCHANGED show

(* The page leaves while the handler waits for the lock of the configuration.    *)
SaveDropped ==
    /\ saving # None
    /\ saving' = None
    /\ UNCHANGED <<config, show>>
================================================================================
