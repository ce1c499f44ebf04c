------------------------------ MODULE ConfigStore ------------------------------
(***************************************************************************)
(* The settings: the form of the dashboard that saves itself (Settings in    *)
(* ui/src/App.jsx), the handler that stores what it posts                   *)
(* (save_config_handler in src/http_server.rs), and the four places a setting *)
(* lives in: config.json, the configuration in memory, the gas flag of the   *)
(* tray, and the autostart entry.                                          *)
(*                                                                         *)
(* A configuration is told apart by the two settings that have a copy of     *)
(* their own.  The other settings travel with them.                        *)
(***************************************************************************)
EXTENDS Naturals

CONSTANTS
    Requests,       \* the posts that may be under way at the same time
    Missing,        \* config.json does not exist
    Empty,          \* config.json was truncated
    Torn,           \* config.json holds something that does not parse
    None            \* no configuration

Config == [login : BOOLEAN, gas : BOOLEAN]

ASSUME ConfigStoreAssumption == Config \intersect {Missing, Empty, Torn, None} = {}

VARIABLES
    running,        \* the program runs
    memory,         \* AppState.config
    file,           \* config.json
    tray,           \* TrayState.show_gas_price
    autostart,      \* the autostart entry exists
    form,           \* what the form shows
    initial,        \* initialConfig: what the form believes is stored
    timer,          \* a save of the form is due in 600 ms
    status,         \* what the form says of its last save
    pc,             \* where each post is
    new,            \* new_config of each post
    current,        \* current_config of each post
    quiet           \* ghost: posts never overlapped, none was cut off or left damage

storeVars == <<memory, file, tray, autostart>>
pageVars == <<form, initial, timer, status>>
postVars == <<pc, new, current>>
vars == <<running, storeVars, pageVars, postVars, quiet>>
-----------------------------------------------------------------------------
Default == [login |-> FALSE, gas |-> TRUE]
Maybe == Config \union {None}

TypeOK ==
    /\ running \in BOOLEAN /\ tray \in BOOLEAN /\ autostart \in BOOLEAN
    /\ timer \in BOOLEAN /\ quiet \in BOOLEAN
    /\ memory \in Config
    /\ file \in Config \union {Missing, Empty, Torn}
    /\ form \in Config
    /\ initial \in Maybe
    /\ status \in {"", "success", "error"}
    /\ pc \in [Requests -> {"idle", "sent", "syncing", "truncating", "writing",
                            "showing", "storing", "reverting", "saved", "refused"}]
    /\ new \in [Requests -> Maybe]
    /\ current \in [Requests -> Maybe]

Init ==
    /\ running = FALSE
    /\ memory = Default
    /\ file = Missing
    /\ tray = TRUE
    /\ autostart = FALSE
    /\ form = Default
    /\ initial = None
    /\ timer = FALSE
    /\ status = ""
    /\ pc = [r \in Requests |-> "idle"]
    /\ new = [r \in Requests |-> None]
    /\ current = [r \in Requests |-> None]
    /\ quiet = TRUE

Idle == \A r \in Requests : pc[r] = "idle"
Handled == {r \in Requests : pc[r] \notin {"idle", "saved", "refused"}}
-----------------------------------------------------------------------------
(* The program *)

\* init_services: a file that does not exist is made, one that does not parse is an
\* error that ends the program.
Starts ==
    /\ ~running
    /\ file \in Config \union {Missing}
    /\ running' = TRUE
    /\ file' = IF file = Missing THEN Default ELSE file
    /\ memory' = file'
    /\ tray' = file'.gas
    /\ UNCHANGED <<autostart, pageVars, postVars, quiet>>

\* The program ends; the posts it was handling are never answered.
Ends ==
    /\ running
    /\ running' = FALSE
    /\ pc' = [r \in Requests |-> IF r \in Handled THEN "refused" ELSE pc[r]]
    /\ quiet' = (quiet /\ Handled = {})
    /\ UNCHANGED <<storeVars, pageVars, new, current>>
-----------------------------------------------------------------------------
(* The form *)

\* A page is opened, or loaded again, and shows what is in memory.  Loading it while it
\* waits for answers is left out.
PageLoads ==
    /\ running /\ Idle
    /\ form' = memory
    /\ initial' = memory
    /\ timer' = FALSE
    /\ status' = ""
    /\ UNCHANGED <<running, storeVars, postVars, quiet>>

\* A setting changes: the timer of the effect before is cleared, and a new one is set
\* unless the form shows what it believes is stored.
Edits(c) ==
    /\ initial # None
    /\ c # form
    /\ form' = c
    /\ timer' = (c # initial)
    /\ UNCHANGED <<running, storeVars, initial, status, postVars, quiet>>

TimerFires(r) ==
    /\ timer /\ pc[r] = "idle"
    /\ timer' = FALSE
    /\ status' = ""
    /\ new' = [new EXCEPT ![r] = form]
    /\ pc' = [pc EXCEPT ![r] = IF running THEN "sent" ELSE "refused"]
    /\ quiet' = (quiet /\ Idle)
    /\ UNCHANGED <<running, storeVars, form, initial, current>>

Forgets(r) ==
    /\ pc' = [pc EXCEPT ![r] = "idle"]
    /\ new' = [new EXCEPT ![r] = None]
    /\ current' = [current EXCEPT ![r] = None]

\* Mutant: the form of the moment counts as stored, not the one that was posted.
SavedAnswerForNow(r) ==
    /\ pc[r] = "saved"
    /\ initial' = form
    /\ status' = "success"
    /\ Forgets(r)
    /\ UNCHANGED <<running, storeVars, form, timer, quiet>>

\* "Settings saved.": what was posted counts as stored.  The effect is not run again.
SavedAnswer(r) ==
    /\ pc[r] = "saved"
    /\ initial' = new[r]
    /\ status' = "success"
    /\ Forgets(r)
    /\ UNCHANGED <<running, storeVars, form, timer, quiet>>

RefusedAnswer(r) ==
    /\ pc[r] = "refused"
    /\ status' = "error"
    /\ Forgets(r)
    /\ UNCHANGED <<running, storeVars, form, initial, timer, quiet>>
-----------------------------------------------------------------------------
(* save_config_handler *)

At(r, place) == running /\ pc[r] = place
Goes(r, place) == pc' = [pc EXCEPT ![r] = place]
LoginChanged(r) == new[r].login # current[r].login

ReadsCurrent(r) ==
    /\ At(r, "sent")
    /\ current' = [current EXCEPT ![r] = memory]
    /\ Goes(r, IF new[r].login # memory.login THEN "syncing" ELSE "truncating")
    /\ UNCHANGED <<running, storeVars, pageVars, new, quiet>>

\* sync_start_on_login writes or removes the autostart entry.
SyncsLogin(r) ==
    /\ At(r, "syncing")
    /\ autostart' = new[r].login
    /\ Goes(r, "truncating")
    /\ UNCHANGED <<running, memory, file, tray, pageVars, new, current, quiet>>

SyncFails(r) ==
    /\ At(r, "syncing")
    /\ Goes(r, "refused")
    /\ UNCHANGED <<running, storeVars, pageVars, new, current, quiet>>

\* save_config: fs::write truncates the file and then writes it.
Truncates(r) ==
    /\ At(r, "truncating")
    /\ file' = Empty
    /\ Goes(r, "writing")
    /\ UNCHANGED <<running, memory, tray, autostart, pageVars, new, current, quiet>>

\* The end of a longer configuration that another post wrote since stays behind.
Writes(r) ==
    /\ At(r, "writing")
    /\ file' \in {new[r]} \union (IF file \in {Empty, new[r]} THEN {} ELSE {Torn})
    /\ Goes(r, "showing")
    /\ UNCHANGED <<running, memory, tray, autostart, pageVars, new, current, quiet>>

AfterFailure(r) == IF LoginChanged(r) THEN "reverting" ELSE "refused"

\* The file cannot be opened, and is left as it was.
OpenFails(r) ==
    /\ At(r, "truncating")
    /\ Goes(r, AfterFailure(r))
    /\ UNCHANGED <<running, storeVars, pageVars, new, current, quiet>>

\* The disk is full: the file is truncated, or holds the beginning.
WriteFails(r) ==
    /\ At(r, "writing")
    /\ file' \in {file, Torn}
    /\ Goes(r, AfterFailure(r))
    /\ quiet' = FALSE
    /\ UNCHANGED <<running, memory, tray, autostart, pageVars, new, current>>

\* Mutant: the entry is set to what was posted once more.
RevertsToNew(r) ==
    /\ At(r, "reverting")
    /\ autostart' = new[r].login
    /\ Goes(r, "refused")
    /\ UNCHANGED <<running, memory, file, tray, pageVars, new, current, quiet>>

Reverts(r) ==
    /\ At(r, "reverting")
    /\ autostart' = current[r].login
    /\ Goes(r, "refused")
    /\ UNCHANGED <<running, memory, file, tray, pageVars, new, current, quiet>>

\* Logged, and answered like the failure before it.
RevertFails(r) ==
    /\ At(r, "reverting")
    /\ Goes(r, "refused")
    /\ quiet' = FALSE
    /\ UNCHANGED <<running, storeVars, pageVars, new, current>>

ShowsGas(r) ==
    /\ At(r, "showing")
    /\ tray' = new[r].gas
    /\ Goes(r, "storing")
    /\ UNCHANGED <<running, memory, file, autostart, pageVars, new, current, quiet>>

\* Mutant: the configuration is read back from the file.
StoresFile(r) ==
    /\ At(r, "storing")
    /\ memory' = file
    /\ Goes(r, "saved")
    /\ UNCHANGED <<running, file, tray, autostart, pageVars, new, current, quiet>>

\* Under the write lock, the last step before success is answered.
StoresMemory(r) ==
    /\ At(r, "storing")
    /\ memory' = new[r]
    /\ Goes(r, "saved")
    /\ UNCHANGED <<running, file, tray, autostart, pageVars, new, current, quiet>>
-----------------------------------------------------------------------------
Saves(r) ==
    \/ ReadsCurrent(r) \/ SyncsLogin(r) \/ SyncFails(r) \/ Truncates(r) \/ OpenFails(r)
    \/ Writes(r) \/ WriteFails(r) \/ Reverts(r) \/ RevertFails(r) \/ ShowsGas(r) \/ StoresMemory(r)

Next ==
    \/ Starts \/ Ends
    \/ PageLoads \/ \E c \in Config : Edits(c)
    \/ \E r \in Requests : TimerFires(r) \/ SavedAnswer(r) \/ RefusedAnswer(r) \/ Saves(r)

Spec == Init /\ [][Next]_vars
-----------------------------------------------------------------------------
(* Properties *)

\* Posts that came one at a time, whichever of their steps failed and were undone, leave
\* the four copies of a setting in agreement.
Agreement ==
    running /\ quiet /\ Handled = {} =>
        /\ file = memory
        /\ tray = memory.gas
        /\ autostart = memory.login

\* A form that says its settings are saved believes stored what is stored, whatever was
\* edited while the answer was under way.
BelievedIsStored ==
    quiet /\ Idle /\ status = "success" /\ running => initial = memory

\* What the form says: "Settings saved." means that the settings it shows are stored.
SavedIsShown ==
    quiet /\ Idle /\ ~timer /\ status = "success" /\ running => form = memory
=============================================================================
