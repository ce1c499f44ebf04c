----------------------------- MODULE DesktopProofs -----------------------------
(***************************************************************************)
(* Proofs about the gas price, the tray and the RPC proxy (Desktop).  The types   *)
(* need one fact that is not a type: the tray enables the item that toggles IPFS   *)
(* networking only for a manager that is there (src/tray.rs), and no manager is     *)
(* taken away while the program runs.  For the proxy, who was asked and who is      *)
(* left are together the list that was read when the request arrived: no save of    *)
(* the settings reaches a request under way (src/rpc_proxy.rs).                  *)
(***************************************************************************)
EXTENDS Desktop, SequenceTheorems, TLAPS

(* The item of the tray can be chosen only when there is a manager.               *)
TrayKnows == tray.p2p => kubo \in KuboManagers

Requests ==
    [to : Protocols \cup {"nobody"}, left : Seq(Endpoints), asked : Seq(Endpoints),
     listed : Seq(Endpoints), answer : [status : {0, 200, 502}, from : Endpoints \cup {None}]]

(* Of a list, the servers asked are the first ones.                              *)
FirstOnes(asked, listed) ==
    /\ Len(asked) <= Len(listed)
    /\ \A i \in 1..Len(asked) : asked[i] = listed[i]

(* Those left are the others.                                                  *)
Others(asked, left, listed) ==
    /\ Len(left) = Len(listed) - Len(asked)
    /\ \A i \in 1..Len(left) : left[i] = listed[Len(asked) + i]

(* What holds of any request: nobody waits for an answer with no server left, and    *)
(* each kind of answer is the one the servers asked so far call for.              *)
Answering(r) ==
    \/ /\ r.answer = NoAnswer
       /\ r.left # <<>> /\ Others(r.asked, r.left, r.listed)
    \/ /\ r.answer.status = 200
       /\ r.asked # <<>> /\ r.answer.from = r.asked[Len(r.asked)]
    \/ r.answer = Failure /\ Len(r.asked) = Len(r.listed)

RequestInv ==
    /\ request \in Requests
    /\ \/ request = NoRequest
       \/ FirstOnes(request.asked, request.listed) /\ Answering(request)

DesktopInv == ConfigTypeOK /\ GasTypeOK /\ TrayKnows /\ RequestInv
----------------------------------------------------------------------------
(* The answers and the requests of the proxy.                                 *)

Answers == [status : {0, 200, 502}, from : Endpoints \cup {None}]

LEMMA AnswersAre ==
    /\ NoAnswer \in Answers /\ Failure \in Answers
    /\ Failure.status = 502 /\ NoAnswer.status = 0 /\ Failure # NoAnswer
    /\ \A e \in Endpoints : /\ [status |-> 200, from |-> e] \in Answers
                            /\ [status |-> 200, from |-> e] # NoAnswer
BY DEF NoAnswer, Failure, Answers

LEMMA NoRequestIs ==
    /\ NoRequest \in Requests /\ NoRequest.answer = NoAnswer
    /\ NoRequest.left = <<>> /\ NoRequest.asked = <<>> /\ NoRequest.listed = <<>>
BY AnswersAre DEF NoRequest, Requests, Answers

\* The servers that are listed for a protocol.
LEMMA ListsAreTyped ==
    ASSUME NEW to \in Protocols, ConfigTypeOK
    PROVE  config[to] \in Seq(Endpoints)
<1>1. config \in [show : BOOLEAN, execution : Seq(Endpoints), consensus : Seq(Endpoints)]
  BY LiveConfigAssumption DEF ConfigTypeOK
<1> QED BY <1>1 DEF Protocols

\* A new request has all the servers left; with none listed, it fails at once.
LEMMA ArrivesKeeps ==
    ASSUME ConfigTypeOK, NEW to \in Protocols, Arrives(to)
    PROVE  RequestInv'
<1> DEFINE L == config[to]
           A == IF L = <<>> THEN Failure ELSE NoAnswer
<1>1. L \in Seq(Endpoints)
  BY ListsAreTyped
<1>2. A \in Answers
  BY AnswersAre
<1>3. request' = [to |-> to, left |-> L, answer |-> A, asked |-> <<>>, listed |-> L]
  BY DEF Arrives, NoRequest
<1>4. (A = Failure /\ L = <<>>) \/ (A = NoAnswer /\ L # <<>>)
  OBVIOUS
<1> HIDE DEF L, A
<1>5. request' \in Requests
  BY <1>1, <1>2, <1>3 DEF Requests, Answers
<1>6. /\ request'.left = L /\ request'.answer = A
      /\ request'.asked = <<>> /\ request'.listed = L
  BY <1>3
<1>7. Len(<<>>) = 0 /\ Len(L) \in Nat /\ (L = <<>> => Len(L) = 0)
  BY <1>1, EmptySeq, LenProperties
<1>8. FirstOnes(<<>>, L) /\ Others(<<>>, L, L)
  BY <1>7 DEF FirstOnes, Others
<1>9. Answering(request')
  BY <1>4, <1>6, <1>7, <1>8 DEF Answering
<1> QED BY <1>5, <1>6, <1>8, <1>9 DEF RequestInv

\* While a request waits, somebody is left to be asked.
LEMMA AskingIs ==
    ASSUME RequestInv, Asking
    PROVE  /\ request \in Requests
           /\ FirstOnes(request.asked, request.listed)
           /\ request.left # <<>>
           /\ Others(request.asked, request.left, request.listed)
BY AnswersAre DEF RequestInv, Asking, Answering, NoAnswer

\* The next server of the list joins those asked, and is no longer left.
LEMMA NextAsked ==
    ASSUME NEW asked \in Seq(Endpoints), NEW left \in Seq(Endpoints),
           NEW listed \in Seq(Endpoints), left # <<>>,
           FirstOnes(asked, listed), Others(asked, left, listed)
    PROVE  /\ Head(left) \in Endpoints /\ Tail(left) \in Seq(Endpoints)
           /\ Append(asked, Head(left)) \in Seq(Endpoints)
           /\ Append(asked, Head(left)) # <<>>
           /\ Append(asked, Head(left))[Len(Append(asked, Head(left)))] = Head(left)
           /\ FirstOnes(Append(asked, Head(left)), listed)
           /\ Others(Append(asked, Head(left)), Tail(left), listed)
           /\ Len(left) = 1 => Len(Append(asked, Head(left))) = Len(listed)
           /\ Len(left) # 1 => Tail(left) # <<>>
<1> DEFINE n == Len(asked)
           m == Len(left)
           T == Tail(left)
           e == Head(left)
           B == Append(asked, Head(left))
<1>1. /\ e \in Endpoints /\ T \in Seq(Endpoints) /\ Len(T) = m - 1
      /\ \A i \in 1..Len(T) : T[i] = left[i + 1]
  BY HeadTailProperties
<1>2. /\ B \in Seq(Endpoints) /\ B # <<>> /\ Len(B) = n + 1
      /\ \A i \in 1..n : B[i] = asked[i]
      /\ B[n + 1] = e
  BY <1>1, AppendProperties
<1>3. n \in Nat /\ m \in Nat \ {0} /\ Len(listed) \in Nat /\ (T = <<>> => Len(T) = 0)
  BY EmptySeq, LenProperties
<1>4. e = left[1]
  OBVIOUS
<1>5. /\ n <= Len(listed) /\ \A i \in 1..n : asked[i] = listed[i]
      /\ m = Len(listed) - n /\ \A i \in 1..m : left[i] = listed[n + i]
  BY DEF FirstOnes, Others
<1> HIDE DEF n, m, T, e, B
<1>6. e = listed[n + 1]
  BY <1>3, <1>4, <1>5
<1>7. \A i \in 1..Len(B) : B[i] = listed[i]
  <2> SUFFICES ASSUME NEW i \in 1..Len(B)
               PROVE  B[i] = listed[i]
    OBVIOUS
  <2>1. CASE i = n + 1
    BY <2>1, <1>2, <1>6
  <2>2. CASE i \in 1..n
    BY <2>2, <1>2, <1>5
  <2> QED BY <2>1, <2>2, <1>2, <1>3
<1>8. FirstOnes(B, listed)
  BY <1>2, <1>3, <1>5, <1>7 DEF FirstOnes
<1>9. \A i \in 1..Len(T) : T[i] = listed[Len(B) + i]
  <2> SUFFICES ASSUME NEW i \in 1..Len(T)
               PROVE  T[i] = listed[Len(B) + i]
    OBVIOUS
  <2>1. i + 1 \in 1..m /\ T[i] = left[i + 1]
    BY <1>1, <1>3
  <2>2. left[i + 1] = listed[n + (i + 1)]
    BY <2>1, <1>5
  <2>3. n + (i + 1) = Len(B) + i
    BY <1>1, <1>2, <1>3
  <2> QED BY <2>1, <2>2, <2>3
<1>10. Others(B, T, listed)
  BY <1>1, <1>2, <1>3, <1>5, <1>9 DEF Others
<1>11. (m = 1 => Len(B) = Len(listed)) /\ (m # 1 => T # <<>>)
  BY <1>1, <1>2, <1>3, <1>5
<1> QED BY <1>1, <1>2, <1>8, <1>10, <1>11 DEF n, m, T, e, B

\* The server asked next answers.
LEMMA SucceedsKeeps ==
    ASSUME RequestInv, Succeeds
    PROVE  RequestInv'
<1>1. /\ request \in Requests /\ request.left # <<>>
      /\ FirstOnes(request.asked, request.listed)
      /\ Others(request.asked, request.left, request.listed)
  BY AskingIs DEF Succeeds
<1> DEFINE e == Head(request.left)
           B == Append(request.asked, e)
           A == [status |-> 200, from |-> e]
<1>2. /\ e \in Endpoints /\ B \in Seq(Endpoints) /\ B # <<>> /\ B[Len(B)] = e
      /\ FirstOnes(B, request.listed)
  BY <1>1, NextAsked DEF Requests
<1>3. A \in Answers /\ A.status = 200 /\ A.from = e
  BY <1>2, AnswersAre
<1>4. request' = [request EXCEPT !.asked = B, !.answer = A]
  BY <1>1 DEF Succeeds, Asked, Requests
<1> HIDE DEF e, B, A
<1>5. request' \in Requests
  BY <1>1, <1>2, <1>3, <1>4 DEF Requests, Answers
<1>6. request'.asked = B /\ request'.answer = A /\ request'.listed = request.listed
  BY <1>1, <1>4 DEF Requests
<1>7. Answering(request')
  BY <1>2, <1>3, <1>6 DEF Answering
<1> QED BY <1>2, <1>5, <1>6, <1>7 DEF RequestInv

\* The server asked next gives no answer; after the last one, the request fails.
LEMMA FailsKeeps ==
    ASSUME RequestInv, Fails
    PROVE  RequestInv'
<1>1. /\ request \in Requests /\ request.left # <<>>
      /\ FirstOnes(request.asked, request.listed)
      /\ Others(request.asked, request.left, request.listed)
  BY AskingIs DEF Fails
<1> DEFINE e == Head(request.left)
           B == Append(request.asked, e)
           T == Tail(request.left)
           m == Len(request.left)
           A == IF m = 1 THEN Failure ELSE NoAnswer
<1>2. /\ B \in Seq(Endpoints) /\ T \in Seq(Endpoints)
      /\ FirstOnes(B, request.listed) /\ Others(B, T, request.listed)
      /\ m = 1 => Len(B) = Len(request.listed)
      /\ m # 1 => T # <<>>
  BY <1>1, NextAsked DEF Requests
<1>3. A \in Answers
  BY AnswersAre
<1>4. request' = [request EXCEPT !.asked = B, !.left = T, !.answer = A]
  BY <1>1 DEF Fails, Asked, Requests
<1>5. (A = Failure /\ m = 1) \/ (A = NoAnswer /\ m # 1)
  OBVIOUS
<1> HIDE DEF e, B, T, m, A
<1>6. request' \in Requests
  BY <1>1, <1>2, <1>3, <1>4 DEF Requests, Answers
<1>7. /\ request'.asked = B /\ request'.left = T /\ request'.answer = A
      /\ request'.listed = request.listed
  BY <1>1, <1>4 DEF Requests
<1>8. Answering(request')
  BY <1>2, <1>5, <1>7 DEF Answering
<1> QED BY <1>2, <1>6, <1>7, <1>8 DEF RequestInv

LEMMA NoRequestKeeps ==
    ASSUME request' = NoRequest
    PROVE  RequestInv'
BY NoRequestIs DEF RequestInv
----------------------------------------------------------------------------
(* The settings, the gas price and the tray.                                  *)

Pollers == [left : Seq(Endpoints), lastVisible : BOOLEAN, due : BOOLEAN]
Trays == [lastShow : BOOLEAN, label : Label, title : Label, p2p : BOOLEAN, icon : BOOLEAN]

\* What the variables of the tray and of the gas price are, with what the tray knows.
DesktopKnown == GasTypeOK /\ TrayKnows

LEMMA SavingKeeps ==
    ASSUME ConfigTypeOK, SavesFlag \/ SavesConfig \/ SaveDropped
    PROVE  ConfigTypeOK'
<1>1. \A c \in Configs : c.show \in BOOLEAN
  BY LiveConfigAssumption
<1>2. CASE SavesFlag
  <2>1. saving' \in Configs /\ show' = saving'.show /\ config' = config
    BY <1>2 DEF SavesFlag
  <2>2. show' \in BOOLEAN
    BY <1>1, <2>1
  <2> QED BY <2>1, <2>2 DEF ConfigTypeOK
<1>3. CASE SavesConfig
  BY <1>3 DEF SavesConfig, ConfigTypeOK
<1>4. CASE SaveDropped
  BY <1>4 DEF SaveDropped, ConfigTypeOK
<1> QED BY <1>2, <1>3, <1>4

LEMMA NewTrayIs ==
    /\ NewTray \in Trays /\ ~NewTray.p2p
    /\ Idle \in Pollers /\ <<>> \in Seq(Endpoints)
BY EmptySeq DEF NewTray, Trays, Label, Idle, Pollers

\* Steps of init_services: a manager comes, and none goes.
LEMMA StartingKeeps ==
    ASSUME ConfigTypeOK, DesktopKnown, Starting
    PROVE  ConfigTypeOK' /\ DesktopKnown'
<1>1. CASE LoadsConfig
  <2>1. /\ config' = config /\ saving' = saving /\ show' = config.show
        /\ stage' = "configured" /\ kubo' = kubo
        /\ poller' = poller /\ labels' = labels
    BY <1>1 DEF LoadsConfig, gasVars
  <2>2. show' \in BOOLEAN
    BY <2>1, LiveConfigAssumption DEF ConfigTypeOK
  <2>3. tray' \in Trays /\ (tray'.p2p <=> tray.p2p)
    <3>1. CASE tray' = tray
      BY <3>1 DEF DesktopKnown, GasTypeOK, Trays
    <3>2. CASE tray = NewTray /\ tray' = [tray EXCEPT !.lastShow = show']
      BY <2>2, <3>2, NewTrayIs DEF Trays
    <3> QED BY <1>1, <3>1, <3>2 DEF LoadsConfig
  <2> QED BY <2>1, <2>2, <2>3 DEF ConfigTypeOK, DesktopKnown, GasTypeOK, TrayKnows, Trays
<1>2. CASE KuboReady
  <2>1. /\ stage' = "withKubo" /\ kubo' \in KuboManagers
        /\ UNCHANGED <<config, show, saving, poller, labels, tray>>
    BY <1>2 DEF KuboReady, gasVars, configVars
  <2> QED BY <2>1 DEF ConfigTypeOK, DesktopKnown, GasTypeOK, TrayKnows
<1>3. CASE StartsPolling
  <2>1. /\ stage' = "running"
        /\ poller' = [Idle EXCEPT !.lastVisible = show]
        /\ UNCHANGED <<config, show, saving, kubo, labels, tray>>
    BY <1>3 DEF StartsPolling, configVars
  <2>2. poller' \in Pollers
    BY <2>1, NewTrayIs DEF Pollers, ConfigTypeOK
  <2> QED BY <2>1, <2>2 DEF ConfigTypeOK, DesktopKnown, GasTypeOK, TrayKnows, Pollers
<1> QED BY <1>1, <1>2, <1>3 DEF Starting

\* Steps of poll_gas_price.
LEMMA PollingKeeps ==
    ASSUME ConfigTypeOK, DesktopKnown, Polling
    PROVE  ConfigTypeOK' /\ DesktopKnown'
<1>1. /\ UNCHANGED <<config, show, saving, stage, kubo, tray>>
  BY DEF Polling, HiddenTick, Polls, FifteenSeconds, PriceFetched, NoPrice, configVars
<1>2. /\ poller \in Pollers /\ labels \in Seq(Endpoints) /\ Len(labels) <= Capacity
      /\ poller.left \in Seq(Endpoints)
  BY DEF DesktopKnown, GasTypeOK, Pollers
<1>3. poller' \in Pollers /\ labels' \in Seq(Endpoints) /\ Len(labels') <= Capacity
  <2>1. CASE HiddenTick
    BY <1>2, <2>1 DEF HiddenTick, Pollers
  <2>2. CASE Polls
    <3>1. config.execution \in Seq(Endpoints)
      BY LiveConfigAssumption DEF ConfigTypeOK
    <3> QED BY <1>2, <2>2, <3>1 DEF Polls, Pollers
  <2>3. CASE FifteenSeconds
    BY <1>2, <2>3 DEF FifteenSeconds, Pollers
  <2>4. CASE PriceFetched
    <3>1. Head(poller.left) \in Endpoints
      BY <1>2, <2>4, HeadTailProperties DEF PriceFetched, Fetching
    <3>2. labels' \in Seq(Endpoints) /\ Len(labels') = Len(labels) + 1
      BY <1>2, <2>4, <3>1, AppendProperties DEF PriceFetched
    <3>3. Len(labels) \in Nat /\ Len(labels) < Capacity
      BY <1>2, <2>4, LenProperties DEF PriceFetched
    <3>4. poller' \in Pollers
      BY <1>2, <2>4, EmptySeq DEF PriceFetched, Pollers
    <3> QED BY <3>2, <3>3, <3>4, GasTrayAssumption
  <2>5. CASE NoPrice
    <3>1. Tail(poller.left) \in Seq(Endpoints)
      BY <1>2, <2>5, HeadTailProperties DEF NoPrice, Fetching
    <3> QED BY <1>2, <2>5, <3>1 DEF NoPrice, Pollers
  <2> QED BY <2>1, <2>2, <2>3, <2>4, <2>5 DEF Polling
<1> QED BY <1>1, <1>3 DEF ConfigTypeOK, DesktopKnown, GasTypeOK, TrayKnows, Pollers

\* A tick of the tray: it enables its item only for a manager that is there.
LEMMA TicksKeep ==
    ASSUME ConfigTypeOK, DesktopKnown, NEW drawn \in BOOLEAN, Ticks(drawn)
    PROVE  ConfigTypeOK' /\ DesktopKnown'
<1> DEFINE L == IF labels = <<>> THEN tray.label ELSE Last(labels)
           I == IF drawn THEN resolve_networking_enabled ELSE tray.icon
<1>1. /\ UNCHANGED <<config, show, saving, stage, kubo, poller>> /\ labels' = <<>>
      /\ tray' = [lastShow |-> show, label |-> L, title |-> Title(L),
                  p2p |-> refresh_p2p_menu, icon |-> I]
  BY DEF Ticks, configVars
<1>2. tray \in Trays /\ labels \in Seq(Endpoints) /\ show \in BOOLEAN
      /\ kubo \in KuboManagers \cup {None}
  BY DEF DesktopKnown, GasTypeOK, Trays, ConfigTypeOK
<1>3. L \in Label
  <2>1. CASE labels = <<>>
    BY <1>2, <2>1 DEF Trays
  <2>2. CASE labels # <<>>
    <3>1. Len(labels) \in 1..Len(labels)
      BY <1>2, <2>2, EmptySeq
    <3>2. labels[Len(labels)] \in Endpoints
      BY <1>2, <3>1, ElementOfSeq
    <3> QED BY <2>2, <3>2 DEF Last, Label
  <2> QED BY <2>1, <2>2
<1>4. Title(L) \in Label
  BY <1>2, <1>3 DEF Title, Trays, Label
<1>5. refresh_p2p_menu \in BOOLEAN /\ (refresh_p2p_menu => kubo \in KuboManagers)
  BY <1>2 DEF refresh_p2p_menu, KuboManagers
<1>6. I \in BOOLEAN
  BY <1>2 DEF resolve_networking_enabled, KuboManagers, Trays
<1> HIDE DEF L, I
<1>7. tray' \in Trays /\ tray'.p2p = refresh_p2p_menu
  BY <1>1, <1>2, <1>3, <1>4, <1>5, <1>6 DEF Trays
<1>8. <<>> \in Seq(Endpoints) /\ Len(<<>>) <= Capacity
  BY EmptySeq, GasTrayAssumption
<1> QED BY <1>1, <1>5, <1>7, <1>8
         DEF ConfigTypeOK, DesktopKnown, GasTypeOK, TrayKnows, Trays

\* What the item does needs a manager, and what is shown says there is one.
LEMMA TogglesKeep ==
    ASSUME ConfigTypeOK, DesktopKnown, Toggles
    PROVE  ConfigTypeOK' /\ DesktopKnown'
<1>1. kubo \in KuboManagers
  BY DEF Toggles, DesktopKnown, TrayKnows
<1>2. kubo' \in KuboManagers
  BY <1>1 DEF Toggles, KuboManagers
<1>3. UNCHANGED <<config, show, saving, stage, poller, labels, tray>>
  BY DEF Toggles, configVars, gasVars
<1> QED BY <1>2, <1>3 DEF ConfigTypeOK, DesktopKnown, GasTypeOK, TrayKnows
----------------------------------------------------------------------------
(* The whole program.                                                        *)

LEMMA DesktopStarts ==
    ASSUME Init
    PROVE  DesktopInv
<1>1. ConfigTypeOK
  BY DEF Init, InitConfig, ConfigTypeOK
<1>2. GasTypeOK /\ TrayKnows
  BY NewTrayIs, EmptySeq, GasTrayAssumption
     DEF Init, InitDesktop, GasTypeOK, TrayKnows, Pollers, Trays
<1>3. RequestInv
  BY NoRequestIs DEF Init, RequestInv
<1> QED BY <1>1, <1>2, <1>3 DEF DesktopInv

\* The program starts anew.
LEMMA QuitsKeeps ==
    ASSUME Quits
    PROVE  DesktopInv'
<1>1. ConfigTypeOK'
  BY DEF Quits, ConfigTypeOK
<1>2. GasTypeOK' /\ TrayKnows'
  BY NewTrayIs, EmptySeq, GasTrayAssumption DEF Quits, GasTypeOK, TrayKnows, Pollers, Trays
<1>3. RequestInv'
  BY NoRequestKeeps DEF Quits
<1> QED BY <1>1, <1>2, <1>3 DEF DesktopInv

LEMMA DesktopStep ==
    ASSUME DesktopInv, [Next]_vars
    PROVE  DesktopInv'
<1>1. ConfigTypeOK /\ DesktopKnown /\ RequestInv
  BY DEF DesktopInv, DesktopKnown
<1>2. ASSUME UNCHANGED request PROVE RequestInv'
  BY <1>1, <1>2 DEF RequestInv
<1>3. ASSUME UNCHANGED desktopVars PROVE DesktopKnown'
  BY <1>1, <1>3 DEF DesktopKnown, GasTypeOK, TrayKnows, desktopVars, gasVars
<1>4. ASSUME UNCHANGED configVars PROVE ConfigTypeOK'
  BY <1>1, <1>4 DEF ConfigTypeOK, configVars
<1>5. CASE Quits
  BY <1>5, QuitsKeeps
<1>6. CASE (Starting \/ Polling \/ TrayTicks \/ Toggles) /\ UNCHANGED request
  <2>1. ConfigTypeOK' /\ DesktopKnown'
    BY <1>1, <1>6, StartingKeeps, PollingKeeps, TicksKeep, TogglesKeep DEF TrayTicks
  <2> QED BY <1>2, <1>6, <2>1 DEF DesktopInv, DesktopKnown
<1>7. CASE Saving /\ UNCHANGED request
  <2>1. ConfigTypeOK'
    BY <1>1, <1>7, SavingKeeps DEF Saving
  <2> QED BY <1>2, <1>3, <1>7, <2>1 DEF Saving, DesktopInv, DesktopKnown
<1>8. CASE Proxies
  <2>1. UNCHANGED desktopVars
    BY <1>8 DEF Proxies
  <2>2. RequestInv' /\ UNCHANGED configVars
    <3>1. CASE \E to \in Protocols : Arrives(to)
      BY <1>1, <3>1, ArrivesKeeps DEF Arrives
    <3>2. CASE Succeeds
      BY <1>1, <3>2, SucceedsKeeps DEF Succeeds
    <3>3. CASE Fails
      BY <1>1, <3>3, FailsKeeps DEF Fails
    <3>4. CASE Delivered
      BY <3>4, NoRequestKeeps DEF Delivered
    <3> QED BY <1>8, <3>1, <3>2, <3>3, <3>4 DEF Proxies
  <2> QED BY <1>3, <1>4, <2>1, <2>2 DEF DesktopInv, DesktopKnown
<1>9. CASE UNCHANGED vars
  BY <1>2, <1>3, <1>4, <1>9 DEF vars, DesktopInv, DesktopKnown
<1> QED BY <1>5, <1>6, <1>7, <1>8, <1>9 DEF Next

\* Of a request that is answered, the invariant says what the light client may rely on.
LEMMA AnswersTell ==
    ASSUME RequestInv
    PROVE  NoServerSkipped
<1> SUFFICES ASSUME request.answer # NoAnswer
             PROVE  /\ IsPrefix(request.asked, request.listed)
                    /\ IF request.answer.status = 200
                       THEN request.answer.from = Last(request.asked)
                       ELSE request.asked = request.listed
  BY DEF NoServerSkipped
<1> DEFINE B == request.asked
           L == request.listed
<1>1. B \in Seq(Endpoints) /\ L \in Seq(Endpoints) /\ FirstOnes(B, L) /\ Answering(request)
  BY NoRequestIs DEF RequestInv, Requests
<1>2. Len(B) \in Nat /\ Len(L) \in Nat /\ Len(B) <= Len(L)
      /\ \A i \in 1..Len(B) : B[i] = L[i]
  BY <1>1, LenProperties DEF FirstOnes
<1>3. SubSeq(L, 1, Len(B)) = B
  <2>1. \A i \in 1..Len(B) : L[i] \in Endpoints
    BY <1>1, <1>2, ElementOfSeq
  <2>2. /\ SubSeq(L, 1, Len(B)) \in Seq(Endpoints)
        /\ Len(SubSeq(L, 1, Len(B))) = Len(B)
        /\ \A i \in 1..Len(B) : SubSeq(L, 1, Len(B))[i] = L[i]
    <3> DEFINE n == Len(B)
    <3>1. n \in Nat /\ \A i \in 1..n : L[i] \in Endpoints
      BY <1>2, <2>1
    <3> HIDE DEF n
    <3>2. /\ SubSeq(L, 1, n) \in Seq(Endpoints)
          /\ Len(SubSeq(L, 1, n)) = IF 1 <= n THEN n - 1 + 1 ELSE 0
          /\ \A i \in 1..(n - 1 + 1) : SubSeq(L, 1, n)[i] = L[1 + i - 1]
      BY <3>1, SubSeqProperties
    <3>3. /\ SubSeq(L, 1, n) \in Seq(Endpoints) /\ Len(SubSeq(L, 1, n)) = n
          /\ \A i \in 1..n : SubSeq(L, 1, n)[i] = L[i]
      BY <3>1, <3>2
    <3> QED BY <3>3 DEF n
  <2> QED BY <1>1, <1>2, <2>2, SeqEqual
<1>4. IsPrefix(B, L)
  BY <1>2, <1>3 DEF IsPrefix
<1>5. CASE request.answer.status = 200
  BY <1>1, <1>4, <1>5, AnswersAre DEF Answering, Last
<1>6. CASE request.answer.status # 200
  <2>1. Len(B) = Len(L)
    BY <1>1, <1>6, AnswersAre DEF Answering
  <2>2. B = L
    BY <1>1, <1>2, <2>1, SeqEqual
  <2> QED BY <1>4, <1>6, <2>2
<1> QED BY <1>5, <1>6

LEMMA TypesFollow ==
    ASSUME DesktopInv
    PROVE  TypeOK
<1>1. RpcTypeOK
  BY DEF DesktopInv, RequestInv, Requests, RpcTypeOK, NoRequest
<1> QED BY <1>1 DEF DesktopInv, TypeOK

LEMMA DesktopInductive == Spec => []DesktopInv
BY DesktopStarts, DesktopStep, PTL DEF Spec

(* The configuration in memory is one that was stored, the labels that wait are at   *)
(* most Capacity and each is from a server, and the tray shows a label that came or   *)
(* none; toggling IPFS networking finds a manager (src/gas.rs, src/tray.rs).       *)
THEOREM TypeCorrect == Spec => []TypeOK
BY DesktopInductive, TypesFollow, PTL

(* For any lists of any length and any saves in the meantime: an answer is that of    *)
(* the first server of the list that gave one, and 502 means that every server that    *)
(* was listed when the request arrived was asked (execution_proxy_handler and         *)
(* consensus_proxy_handler in src/rpc_proxy.rs).                               *)
THEOREM NoServerIsSkipped == Spec => []NoServerSkipped
BY DesktopInductive, AnswersTell, PTL DEF DesktopInv
================================================================================
