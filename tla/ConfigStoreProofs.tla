--------------------------- MODULE ConfigStoreProofs ---------------------------
(***************************************************************************)
(* Proofs about ConfigStore, for every set of posts.  The inductive invariant *)
(* says, for each place a post can be at, which of the four copies of the      *)
(* settings it has already changed: what a failure has to undo from there.     *)
(***************************************************************************)
EXTENDS ConfigStore, TLAPS

\* A post carries a configuration, and from its first step on the one it found in memory.
Begun == {"syncing", "truncating", "writing", "showing", "storing", "reverting"}
Carried ==
    /\ \A r \in Requests : pc[r] # "idle" => new[r] \in Config
    /\ \A r \in Requests : pc[r] \in Begun => current[r] \in Config

\* The steps at which a post has changed some of the copies and not all of them.
Changing == {"truncating", "writing", "showing", "storing", "reverting"}

\* No copy is ahead of another; before the first start there is no file.
Settled ==
    \/ ~running /\ file = Missing /\ autostart = FALSE
    \/ /\ file \in Config
       /\ autostart = file.login
       /\ running => memory = file /\ tray = file.gas

\* Which copies a post that came alone has changed.
CopiesAt(r) ==
    /\ pc[r] \in Begun => running /\ current[r] = memory
    /\ pc[r] \in Changing => autostart = new[r].login
    /\ pc[r] \in {"truncating", "reverting"} => file = memory
    /\ pc[r] = "writing" => file = Empty
    /\ pc[r] \in {"showing", "storing", "saved"} => file = new[r]
    /\ pc[r] \in {"truncating", "writing", "showing", "reverting"} => tray = memory.gas
    /\ pc[r] = "storing" => tray = new[r].gas

QuietInv ==
    quiet =>
        /\ \A r, s \in Requests : pc[r] # "idle" /\ pc[s] # "idle" => r = s
        /\ (\A r \in Requests : pc[r] \notin Changing) => Settled
        /\ \A r \in Requests : CopiesAt(r)
        /\ status = "success" => Idle /\ initial = file /\ initial # None

IInv ==
    /\ TypeOK
    /\ Carried
    /\ ~running => Handled = {}
    /\ QuietInv
-----------------------------------------------------------------------------
(* Types *)

\* A default configuration, an empty disk, a form that has loaded nothing.
LEMMA InitEstablishes == Init => IInv
<1> SUFFICES ASSUME Init PROVE IInv
  OBVIOUS
<1>1. Default \in Config /\ Default.login = FALSE
  BY DEF Default, Config
<1>2. TypeOK
  BY <1>1 DEF Init, TypeOK, Maybe
<1>3. Carried
  BY DEF Init, Carried, Begun
<1>4. ~running => Handled = {}
  BY DEF Init, Handled
<1>5. QuietInv
  BY DEF Init, QuietInv, Settled, CopiesAt, Begun, Changing
<1> QED
  BY <1>2, <1>3, <1>4, <1>5 DEF IInv

\* What each step keeps of the types, of the posts' configurations and of the posts that
\* a program that is not running handles.
Typed == TypeOK /\ Carried /\ (~running => Handled = {})

LEMMA ProgramTypes ==
    ASSUME Typed, Starts \/ Ends
    PROVE  Typed'
<1> USE DEF Typed, TypeOK, Carried, storeVars, pageVars, postVars, Maybe, Begun, Handled
<1>1. CASE Starts
  <2>1. Default \in Config
    BY DEF Default, Config
  <2>2. file' \in Config /\ file'.gas \in BOOLEAN
    BY <1>1, <2>1 DEF Starts, Config
  <2> QED
    BY <1>1, <2>2 DEF Starts
<1>2. CASE Ends
  BY <1>2 DEF Ends
<1> QED
  BY <1>1, <1>2

LEMMA PageTypes ==
    ASSUME Typed, PageLoads \/ \E c \in Config : Edits(c)
    PROVE  Typed'
<1> USE DEF Typed, TypeOK, Carried, storeVars, pageVars, postVars, Maybe, Begun, Handled
<1>1. CASE PageLoads
  BY <1>1 DEF PageLoads
<1>2. ASSUME NEW c \in Config, Edits(c)
      PROVE  Typed'
  <2>1. timer' \in BOOLEAN
    BY <1>2, Zenon DEF Edits
  <2> QED
    BY <1>2, <2>1 DEF Edits
<1> QED
  BY <1>1, <1>2

LEMMA AnswerTypes ==
    ASSUME Typed, NEW r \in Requests, TimerFires(r) \/ SavedAnswer(r) \/ RefusedAnswer(r)
    PROVE  Typed'
<1> USE DEF Typed, TypeOK, Carried, storeVars, pageVars, postVars, Maybe, Begun, Handled
<1>1. CASE TimerFires(r)
  <2>1. quiet' \in BOOLEAN
    BY <1>1, Zenon DEF TimerFires
  <2> QED
    BY <1>1, <2>1 DEF TimerFires
<1>2. CASE SavedAnswer(r)
  BY <1>2 DEF SavedAnswer, Forgets
<1>3. CASE RefusedAnswer(r)
  BY <1>3 DEF RefusedAnswer, Forgets
<1> QED
  BY <1>1, <1>2, <1>3

LEMMA SavesTypes ==
    ASSUME Typed, NEW r \in Requests, Saves(r)
    PROVE  Typed'
<1> USE DEF Typed, TypeOK, Carried, storeVars, pageVars, postVars, Maybe, Begun, Handled,
            At, Goes
<1>0. /\ new[r] \in Config /\ new[r].login \in BOOLEAN /\ new[r].gas \in BOOLEAN
      /\ current[r] \in Config => current[r].login \in BOOLEAN
      /\ running
  BY DEF Config, Saves, ReadsCurrent, SyncsLogin, SyncFails, Truncates, OpenFails, Writes,
         WriteFails, Reverts, RevertFails, ShowsGas, StoresMemory
<1>1. CASE ReadsCurrent(r)
  BY <1>0, <1>1 DEF ReadsCurrent
<1>2. CASE SyncsLogin(r)
  BY <1>0, <1>2 DEF SyncsLogin
<1>3. CASE SyncFails(r)
  BY <1>0, <1>3 DEF SyncFails
<1>4. CASE Truncates(r)
  BY <1>0, <1>4 DEF Truncates
<1>5. CASE OpenFails(r)
  BY <1>0, <1>5 DEF OpenFails, AfterFailure
<1>6. CASE Writes(r)
  BY <1>0, <1>6 DEF Writes
<1>7. CASE WriteFails(r)
  BY <1>0, <1>7 DEF WriteFails, AfterFailure
<1>8. CASE Reverts(r)
  BY <1>0, <1>8 DEF Reverts
<1>9. CASE RevertFails(r)
  BY <1>0, <1>9 DEF RevertFails
<1>10. CASE ShowsGas(r)
  BY <1>0, <1>10 DEF ShowsGas
<1>11. CASE StoresMemory(r)
  BY <1>0, <1>11 DEF StoresMemory
<1> QED
  BY <1>1, <1>2, <1>3, <1>4, <1>5, <1>6, <1>7, <1>8, <1>9, <1>10, <1>11 DEF Saves

LEMMA TypesStep ==
    ASSUME Typed, [Next]_vars
    PROVE  Typed'
<1>1. CASE UNCHANGED vars
  BY <1>1 DEF vars, storeVars, pageVars, postVars, Typed, TypeOK, Carried, Handled
<1> QED
  BY <1>1, ProgramTypes, PageTypes, AnswerTypes, SavesTypes DEF Next
-----------------------------------------------------------------------------
(* The four copies *)

\* While nothing has gone wrong, a post that is under way is alone.
LEMMA Alone ==
    ASSUME QuietInv, quiet, NEW r \in Requests, pc[r] # "idle"
    PROVE  \A s \in Requests : s # r => pc[s] = "idle"
BY DEF QuietInv

\* The program starts on a file that is in agreement with the autostart entry, and ends
\* between two posts.
LEMMA QuietProgram ==
    ASSUME IInv, Starts \/ Ends, quiet'
    PROVE  QuietInv'
<1> USE DEF IInv, QuietInv, CopiesAt, Begun, Changing, Idle, Handled
<1>1. CASE Starts
  <2>1. /\ quiet /\ ~running /\ running'
        /\ UNCHANGED <<pc, new, current, status, initial, autostart>>
        /\ file' = (IF file = Missing THEN Default ELSE file)
        /\ memory' = file' /\ tray' = file'.gas
        /\ file \in Config \union {Missing}
    BY <1>1 DEF Starts, pageVars, postVars
  <2>2. \A r \in Requests : pc[r] \in {"idle", "saved", "refused"}
    BY <2>1
  <2>3. Default \in Config /\ Default.login = FALSE
    BY DEF Default, Config
  <2>4. Settled
    BY <2>1, <2>2
  <2>5. file \in Config => file # Missing
    BY ConfigStoreAssumption
  <2>6. Settled'
    <3>1. CASE file = Missing
      BY <2>1, <2>3, <2>4, <2>5, <3>1 DEF Settled
    <3>2. CASE file # Missing
      BY <2>1, <2>4, <3>2 DEF Settled
    <3> QED
      BY <3>1, <3>2
  <2>7. \A r \in Requests : pc[r] = "saved" => file \in Config
    BY <2>1 DEF Carried
  <2>8. status = "success" => file \in Config
    BY <2>1 DEF TypeOK, Maybe
  <2>9. \A r \in Requests : CopiesAt(r)'
    BY <2>1, <2>2, <2>5, <2>7
  <2>10. status' = "success" => Idle' /\ initial' = file' /\ initial' # None
    BY <2>1, <2>5, <2>8
  <2>11. \A r, s \in Requests : pc'[r] # "idle" /\ pc'[s] # "idle" => r = s
    BY <2>1
  <2> HIDE DEF CopiesAt, Idle
  <2> QED
    BY <2>6, <2>9, <2>10, <2>11
<1>2. CASE Ends
  <2>1. quiet /\ Handled = {} /\ ~running'
    BY <1>2 DEF Ends
  <2>2. pc' = pc /\ \A r \in Requests : pc[r] \in {"idle", "saved", "refused"}
    BY <1>2, <2>1 DEF Ends, TypeOK
  <2>3. UNCHANGED <<file, memory, tray, autostart, status, initial, new, current>>
    BY <1>2 DEF Ends, storeVars, pageVars
  <2> QED
    BY <2>1, <2>2, <2>3 DEF Settled
<1> QED
  BY <1>1, <1>2

\* The form reads the memory; what it shows does not matter to the copies.
LEMMA QuietPage ==
    ASSUME IInv, PageLoads \/ (\E c \in Config : Edits(c)), quiet'
    PROVE  QuietInv'
<1> USE DEF IInv, QuietInv, CopiesAt, Begun, Changing, Idle, Handled
<1>1. CASE PageLoads
  BY <1>1 DEF PageLoads, storeVars, postVars, Settled
<1>2. ASSUME NEW c \in Config, Edits(c)
      PROVE  QuietInv'
  BY <1>2 DEF Edits, storeVars, postVars, Settled
<1> QED
  BY <1>1, <1>2

\* A post is sent while no other is under way, and its answer leaves the copies alone.
LEMMA QuietAnswer ==
    ASSUME IInv, NEW r \in Requests, TimerFires(r) \/ SavedAnswer(r) \/ RefusedAnswer(r), quiet'
    PROVE  QuietInv'
<1> USE DEF IInv, QuietInv, CopiesAt, Begun, Changing, Idle, Handled
<1>1. CASE TimerFires(r)
  <2>1. /\ quiet /\ Idle /\ status' = ""
        /\ pc' = [pc EXCEPT ![r] = IF running THEN "sent" ELSE "refused"]
        /\ UNCHANGED <<running, file, memory, tray, autostart, initial, current>>
    BY <1>1 DEF TimerFires, storeVars
  <2>2. \A s \in Requests : pc'[s] \in {"idle", "sent", "refused"}
    BY <2>1 DEF TypeOK
  <2>3. \A s \in Requests : pc'[s] # "idle" => s = r
    BY <2>1 DEF TypeOK
  <2>4. Settled'
    BY <2>1 DEF Settled
  <2> QED
    BY <2>1, <2>2, <2>3, <2>4
<1>2. CASE SavedAnswer(r)
  <2>1. /\ quiet /\ pc[r] = "saved" /\ initial' = new[r]
        /\ pc' = [pc EXCEPT ![r] = "idle"]
        /\ UNCHANGED <<running, file, memory, tray, autostart>>
    BY <1>2 DEF SavedAnswer, Forgets, storeVars
  <2>2. \A s \in Requests : pc'[s] = "idle"
    BY <2>1, Alone DEF TypeOK
  <2>3. \A s \in Requests : pc[s] \notin Changing
    BY <2>1, Alone
  <2>4. file = new[r] /\ new[r] \in Config
    BY <2>1 DEF Carried
  <2>5. new[r] # None
    BY <2>4, ConfigStoreAssumption
  <2>6. Settled'
    BY <2>1, <2>3 DEF Settled
  <2> QED
    BY <2>1, <2>2, <2>4, <2>5, <2>6
<1>3. CASE RefusedAnswer(r)
  <2>1. /\ quiet /\ pc[r] = "refused" /\ status' = "error"
        /\ pc' = [pc EXCEPT ![r] = "idle"]
        /\ UNCHANGED <<running, file, memory, tray, autostart>>
    BY <1>3 DEF RefusedAnswer, Forgets, storeVars
  <2>2. \A s \in Requests : pc'[s] = "idle"
    BY <2>1, Alone DEF TypeOK
  <2>3. \A s \in Requests : pc[s] \notin Changing
    BY <2>1, Alone
  <2>4. Settled'
    BY <2>1, <2>3 DEF Settled
  <2> QED
    BY <2>1, <2>2, <2>4
<1> QED
  BY <1>1, <1>2, <1>3

\* A handler changes the copies in a fixed order, and undoes what it did when it fails.
LEMMA QuietSaves ==
    ASSUME IInv, NEW r \in Requests, Saves(r), quiet'
    PROVE  QuietInv'
<1>0. /\ quiet /\ running /\ pc[r] \notin {"idle", "saved", "refused"}
      /\ UNCHANGED <<running, status, initial, new>>
      /\ pc' = [pc EXCEPT ![r] = pc'[r]] /\ pc'[r] # "idle"
  <2> USE DEF IInv, TypeOK, At, Goes, storeVars, pageVars, AfterFailure
  <2>1. CASE ReadsCurrent(r) \/ SyncsLogin(r) \/ SyncFails(r)
    BY <2>1 DEF ReadsCurrent, SyncsLogin, SyncFails
  <2>2. CASE Truncates(r) \/ OpenFails(r) \/ Writes(r) \/ WriteFails(r)
    BY <2>2 DEF Truncates, OpenFails, Writes, WriteFails
  <2>3. CASE Reverts(r) \/ RevertFails(r) \/ ShowsGas(r) \/ StoresMemory(r)
    BY <2>3 DEF Reverts, RevertFails, ShowsGas, StoresMemory
  <2> QED
    BY <2>1, <2>2, <2>3 DEF Saves
<1>1. /\ \A s \in Requests : s # r => pc[s] = "idle" /\ pc'[s] = "idle"
      /\ status' # "success"
  BY <1>0, Alone DEF IInv, QuietInv, TypeOK, Idle
<1>2. /\ new[r] \in Config /\ new[r].login \in BOOLEAN
      /\ pc[r] \in Begun => current[r] = memory
      /\ memory \in Config
  BY <1>0 DEF IInv, QuietInv, CopiesAt, Carried, Config, TypeOK
<1>3. pc[r] \notin Changing => Settled
  BY <1>0, <1>1 DEF IInv, QuietInv, Changing
<1>4. CopiesAt(r)
  BY <1>0 DEF IInv, QuietInv
<1>5. CopiesAt(r)' /\ (pc'[r] \notin Changing => Settled')
  <2> USE <1>0, <1>2, <1>3, <1>4
      DEF CopiesAt, Settled, Begun, Changing, At, Goes, storeVars, pageVars
  <2>0. r \in DOMAIN pc /\ r \in DOMAIN current
    BY DEF IInv, TypeOK
  <2>1. CASE ReadsCurrent(r)
    BY <2>0, <2>1 DEF ReadsCurrent
  <2>2. CASE SyncsLogin(r)
    BY <2>0, <2>2 DEF SyncsLogin
  <2>3. CASE SyncFails(r)
    BY <2>0, <2>3 DEF SyncFails
  <2>4. CASE Truncates(r)
    BY <2>0, <2>4 DEF Truncates
  <2>5. CASE OpenFails(r)
    <3>1. /\ pc[r] = "truncating" /\ UNCHANGED <<file, memory, tray, autostart, current>>
          /\ pc'[r] = IF new[r].login # current[r].login THEN "reverting" ELSE "refused"
      BY <2>0, <2>5 DEF OpenFails, AfterFailure, LoginChanged
    <3>2. /\ file = memory /\ tray = memory.gas /\ autostart = new[r].login
          /\ current[r] = memory
      BY <3>1
    <3>3. CASE new[r].login # current[r].login
      BY <3>1, <3>2, <3>3
    <3>4. CASE new[r].login = current[r].login
      BY <3>1, <3>2, <3>4
    <3> QED
      BY <3>3, <3>4
  <2>6. CASE Writes(r)
    BY <2>0, <2>6 DEF Writes
  <2>7. CASE WriteFails(r)
    BY <2>7 DEF WriteFails
  <2>8. CASE Reverts(r)
    BY <2>0, <2>8 DEF Reverts
  <2>9. CASE RevertFails(r)
    BY <2>9 DEF RevertFails
  <2>10. CASE ShowsGas(r)
    BY <2>0, <2>10 DEF ShowsGas
  <2>11. CASE StoresMemory(r)
    BY <2>0, <2>11 DEF StoresMemory
  <2> QED
    BY <2>1, <2>2, <2>3, <2>4, <2>5, <2>6, <2>7, <2>8, <2>9, <2>10, <2>11 DEF Saves
<1>6. \A s \in Requests : s # r => CopiesAt(s)'
  BY <1>1 DEF CopiesAt, Begun, Changing
<1> QED
  BY <1>1, <1>5, <1>6 DEF QuietInv
-----------------------------------------------------------------------------
(* What follows *)

\* IInv holds in every reachable state.
LEMMA Inductive == Spec => []IInv
<1>1. ASSUME IInv, [Next]_vars PROVE IInv'
  <2>1. Typed'
    BY <1>1, TypesStep DEF IInv, Typed
  <2>2. ASSUME quiet' PROVE QuietInv'
    <3>1. CASE UNCHANGED vars
      BY <1>1, <3>1 DEF IInv, QuietInv, vars, storeVars, pageVars, postVars, Settled,
                        CopiesAt, Idle
    <3> QED
      BY <1>1, <2>2, <3>1, QuietProgram, QuietPage, QuietAnswer, QuietSaves DEF Next
  <2>3. QuietInv'
    BY <2>2 DEF QuietInv
  <2> QED
    BY <2>1, <2>3 DEF IInv, Typed
<1> QED
  BY InitEstablishes, <1>1, PTL DEF Spec

\* Every variable keeps its type: whatever fails, what a post stores is a configuration
\* (save_config_handler, http_server.rs).
THEOREM TypeCorrect == Spec => []TypeOK
<1>1. IInv => TypeOK
  BY DEF IInv
<1> QED
  BY Inductive, <1>1, PTL

\* After posts that came one at a time, each of which may have failed at any step it
\* can undo, the file, the memory, the tray and the autostart entry agree, also after a
\* restart of the program in between (save_config_handler and init_services).
THEOREM CopiesAgree == Spec => []Agreement
<1>1. ASSUME IInv PROVE Agreement
  <2> SUFFICES ASSUME running, quiet, Handled = {}
               PROVE  file = memory /\ tray = memory.gas /\ autostart = memory.login
    BY DEF Agreement
  <2>1. \A r \in Requests : pc[r] \notin Changing
    BY DEF Handled, Changing
  <2>2. Settled
    BY <1>1, <2>1 DEF IInv, QuietInv
  <2> QED
    BY <2>2 DEF Settled
<1> QED
  BY Inductive, <1>1, PTL

\* A form that says "Settings saved." believes stored what the program has stored, edits
\* made while the answer was under way notwithstanding (Settings in App.jsx).
THEOREM FormBelievesStored == Spec => []BelievedIsStored
<1>1. ASSUME IInv PROVE BelievedIsStored
  <2> SUFFICES ASSUME quiet, Idle, status = "success", running
               PROVE  initial = memory
    BY DEF BelievedIsStored
  <2>1. \A r \in Requests : pc[r] \notin Changing
    BY DEF Idle, Changing
  <2>2. Settled /\ initial = file
    BY <1>1, <2>1 DEF IInv, QuietInv
  <2> QED
    BY <2>2 DEF Settled
<1> QED
  BY Inductive, <1>1, PTL
================================================================================
