-------------------------------- MODULE GasTray --------------------------------
(***************************************************************************)
(* The task that asks for the gas price (src/gas.rs), and the thread of the tray  *)
(* (src/tray.rs) that shows it, with the state of IPFS networking.  They share a   *)
(* flag and a channel.  Ticks of 250 ms are steps of their own; the 15 seconds    *)
(* between two polls are over at any time (FifteenSeconds).                     *)
(***************************************************************************)
EXTENDS LiveConfig

CONSTANT
    Capacity        \* bound: the labels that wait for the tray; the code has none

ASSUME GasTrayAssumption == Capacity \in Nat

VARIABLES
    stage,          \* how far init_services is
    kubo,           \* TrayState.kubo_manager: managed, and offline; or none
    poller,         \* poll_gas_price
    labels,         \* the channel; a label is told apart by the server it is from
    tray            \* what run_tray remembers and shows

gasVars == <<poller, labels>>
desktopVars == <<stage, kubo, gasVars, tray>>

Label == Endpoints \cup {None}
KuboManagers == [managed : BOOLEAN, offline : BOOLEAN]

GasTypeOK ==
    /\ stage \in {"starting", "configured", "withKubo", "running"}
    /\ kubo \in KuboManagers \cup {None}
    /\ poller \in [left : Seq(Endpoints), lastVisible : BOOLEAN, due : BOOLEAN]
    /\ labels \in Seq(Endpoints) /\ Len(labels) <= Capacity
    /\ tray \in [lastShow : BOOLEAN, label : Label, title : Label,
                 p2p : BOOLEAN, icon : BOOLEAN]

Idle == [left |-> <<>>, lastVisible |-> TRUE, due |-> TRUE]
NewTray == [lastShow |-> TRUE, label |-> None, title |-> None, p2p |-> FALSE, icon |-> FALSE]

InitDesktop ==
    /\ stage = "starting" /\ kubo = None /\ poller = Idle /\ labels = <<>>
    /\ tray = NewTray

----------------------------------------------------------------------------
(* init_services, beside the tray.                                           *)

(* The tray may read the flag for the first time before or after it is set.       *)
LoadsConfig ==
    /\ stage = "starting"
    /\ stage' = "configured" /\ show' = config.show
    /\ \/ UNCHANGED tray
       \/ tray = NewTray /\ tray' = [tray EXCEPT !.lastShow = show']
    /\ UNCHANGED <<config, saving, kubo, gasVars>>

KuboReady ==
    /\ stage = "configured"
    /\ stage' = "withKubo"
    /\ kubo' \in {k \in KuboManagers : ~k.offline}
    /\ UNCHANGED <<configVars, gasVars, tray>>

StartsPolling ==
    /\ stage = "withKubo"
    /\ stage' = "running" /\ poller' = [Idle EXCEPT !.lastVisible = show]
    /\ UNCHANGED <<configVars, kubo, labels, tray>>

----------------------------------------------------------------------------
(* poll_gas_price.                                                          *)

Waiting == stage = "running" /\ poller.left = <<>>

HiddenTick ==
    /\ Waiting /\ ~show /\ poller.lastVisible
    /\ poller' = [poller EXCEPT !.lastVisible = FALSE]
    /\ UNCHANGED <<configVars, stage, kubo, labels, tray>>

(* Asked anew after 15 seconds, also when the poll before failed, or at once when   *)
(* the price was hidden.                                                       *)
Polls ==
    /\ Waiting /\ show
    /\ poller.due \/ ~poller.lastVisible
    /\ poller' = [left |-> config.execution, lastVisible |-> TRUE, due |-> FALSE]
    /\ UNCHANGED <<configVars, stage, kubo, labels, tray>>

FifteenSeconds ==
    /\ stage = "running" /\ ~poller.due
    /\ poller' = [poller EXCEPT !.due = TRUE]
    /\ UNCHANGED <<configVars, stage, kubo, labels, tray>>

Fetching == poller.left # <<>>

(* fetch_gas_price: eth_feeHistory, or else eth_gasPrice.                        *)
PriceFetched ==
    /\ Fetching /\ Len(labels) < Capacity
    /\ labels' = Append(labels, Head(poller.left))
    /\ poller' = [poller EXCEPT !.left = <<>>]
    /\ UNCHANGED <<configVars, stage, kubo, tray>>

(* Mutant: a poll that failed says so to the tray.                              *)
NoPriceSaid ==
    /\ Fetching /\ Len(labels) < Capacity
    /\ poller' = [poller EXCEPT !.left = Tail(@)]
    /\ labels' = IF Len(poller.left) = 1 THEN Append(labels, None) ELSE labels
    /\ UNCHANGED <<configVars, stage, kubo, tray>>

(* Neither gives a price: the next server, or none until the next poll.           *)
NoPrice ==
    /\ Fetching
    /\ poller' = [poller EXCEPT !.left = Tail(@)]
    /\ UNCHANGED <<configVars, stage, kubo, labels, tray>>

----------------------------------------------------------------------------
(* run_tray.                                                               *)

resolve_networking_enabled == kubo # None /\ (kubo.managed => ~kubo.offline)

(* Whether the item that toggles can be chosen; with no manager yet, or one that     *)
(* NeoMist does not manage, it cannot.                                         *)
refresh_p2p_menu == kubo # None /\ kubo.managed

(* The title, and on Linux the hover text and a line of the menu with it, is drawn   *)
(* again only when a label came or the flag changed.  None: no price is shown.     *)
Title(label) ==
    IF show THEN (IF labels # <<>> \/ ~tray.lastShow THEN label ELSE tray.title)
    ELSE IF tray.lastShow THEN None ELSE tray.title

(* Mutant: the tick that sees the flag change forgets the price that is shown.      *)
TicksWithoutBlank(drawn) ==
    LET label == IF labels = <<>> THEN tray.label ELSE Last(labels)
    IN  /\ tray' = [lastShow |-> show, label |-> label, title |-> IF show THEN Title(label) ELSE tray.title,
                    p2p |-> refresh_p2p_menu, icon |-> IF drawn THEN resolve_networking_enabled ELSE tray.icon]
        /\ labels' = <<>>
        /\ UNCHANGED <<configVars, stage, kubo, poller>>

(* An icon that cannot be drawn is drawn by a later tick.                       *)
Ticks(drawn) ==
    LET label == IF labels = <<>> THEN tray.label ELSE Last(labels)
    IN  /\ tray' = [lastShow |-> show, label |-> label, title |-> Title(label),
                    p2p |-> refresh_p2p_menu, icon |-> IF drawn THEN resolve_networking_enabled ELSE tray.icon]
        /\ labels' = <<>>
        /\ UNCHANGED <<configVars, stage, kubo, poller>>

(* set_offline restarts the daemon in the thread of the tray; when it does not     *)
(* start, the mode stays what it was (KuboManager).                             *)
Toggles ==
    /\ tray.p2p
    /\ kubo' = [kubo EXCEPT !.offline = ~@]
    /\ UNCHANGED <<configVars, stage, gasVars, tray>>
================================================================================
