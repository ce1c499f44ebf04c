-------------------------------- MODULE Desktop --------------------------------
(***************************************************************************)
(* The gas price, the tray and the RPC proxy of one program, over the settings    *)
(* they share (src/main.rs starts them, src/state.rs is what they share).        *)
(***************************************************************************)
EXTENDS GasTray, RpcProxy

vars == <<configVars, desktopVars, request>>

Init == InitConfig /\ InitDesktop /\ request = NoRequest

(* Quit in the menu, or a start that fails, and the next start, with any file.      *)
Quits ==
    /\ config' \in Configs /\ show' = TRUE /\ saving' = None
    /\ stage' = "starting" /\ kubo' = None /\ poller' = Idle /\ labels' = <<>> /\ tray' = NewTray
    /\ request' = NoRequest

Starting == LoadsConfig \/ KuboReady \/ StartsPolling
Saving == stage = "running" /\ (SavesFlag \/ SavesConfig \/ SaveDropped) /\ UNCHANGED desktopVars
Polling == HiddenTick \/ Polls \/ FifteenSeconds \/ PriceFetched \/ NoPrice
TrayTicks == \E drawn \in BOOLEAN : Ticks(drawn)
Proxies ==
    /\ stage \in {"withKubo", "running"}
    /\ \/ \E to \in Protocols : Arrives(to)
       \/ Succeeds \/ Fails \/ Delivered
    /\ UNCHANGED desktopVars

Next ==
    \/ Quits
    \/ (Starting \/ Polling \/ TrayTicks \/ Toggles) /\ UNCHANGED request
    \/ Saving /\ UNCHANGED request
    \/ Proxies

(* The timers of the task and of the tray run, calls to servers return, and a       *)
(* server that is asked again and again gives a price some time, as the system      *)
(* draws an icon some time.                                                    *)
Fairness ==
    /\ WF_vars(Polls /\ UNCHANGED request)
    /\ WF_vars(FifteenSeconds /\ UNCHANGED request)
    /\ WF_vars(NoPrice /\ UNCHANGED request)
    /\ SF_vars(PriceFetched /\ UNCHANGED request)
    /\ SF_vars(Ticks(TRUE) /\ UNCHANGED request)

Spec == Init /\ [][Next]_vars /\ Fairness

(* The variables have their types.                                            *)
TypeOK == ConfigTypeOK /\ GasTypeOK /\ RpcTypeOK

(* Once the settings and the mode of IPFS stay as they are: a hidden price goes      *)
(* away for good, a price that is shown is from a server of the settings, also when   *)
(* polls failed or the last one began before the save, and the icon tells the mode    *)
(* although drawing it failed (poll_gas_price, run_tray).                         *)
TrayFollows ==
    /\ <>[](stage = "running" /\ ~show) => <>[](tray.title = None)
    /\ \A c \in Configs :
          /\ c.execution # <<>>
          /\ <>[](stage = "running" /\ show /\ config = c)
          => <>[](tray.title \in {c.execution[i] : i \in DOMAIN c.execution})
    /\ \A k \in KuboManagers : <>[](kubo = k) => <>[](tray.icon = (k.managed => ~k.offline))
================================================================================
