--------------------------- MODULE SystemSetupProofs ---------------------------
(***************************************************************************)
(* Proofs about SystemSetup, for every set of ports and any number of         *)
(* generations of certificates.  The inductive invariant says who may act       *)
(* while whom waits, what the certificate files can hold wherever their making  *)
(* or removal was cut off, and what each process may rely on at each of its      *)
(* steps.                                                                    *)
(***************************************************************************)
EXTENDS SystemSetup, TLAPS

(* Where each of the two processes can be.                                      *)
AppPhases == {"off", "checking", "asking", "certs", "cleaning", "creating",
              "clearing", "copying", "policing", "refreshing", "binding", "serving"}
RootPhases == {"off", "certs", "cleaning", "creating", "capping", "clearing", "copying", "policing",
               "refreshing", "choosing", "truncating", "configuring", "reloading", "opening",
               "persisting", "unconfiguring", "unloading", "unpersisting", "unpolicing",
               "unclearing", "unrefreshing", "removing", "installed", "uninstalled", "failed"}

Phases ==
    /\ pc \in [Processes -> AppPhases \cup RootPhases]
    /\ pc["app"] \in AppPhases /\ pc["root"] \in RootPhases

CertTypes == cert \in [Files -> Gens \cup {None, Empty, Old}] /\ gen \in 0..MaxGens
TrustTypes == caFile \in MaybeGen /\ policy \in MaybeGen /\ store \in MaybeGen
DnsTypes ==
    /\ conf \in MaybePort /\ resolver \in MaybePort /\ portFile \in MaybePort \cup {Empty}
    /\ chosen \in MaybePort /\ server \in MaybePort /\ busy \subseteq Ports
FlagTypes == cap \in BOOLEAN /\ neededBind \in BOOLEAN /\ relaunched \in BOOLEAN /\ untouched \in BOOLEAN
Types == Phases /\ CertTypes /\ TrustTypes /\ DnsTypes /\ FlagTypes

(* The app does nothing while a command runs, and one that serves and was left alone  *)
(* since has seen none.                                                        *)
Alone ==
    /\ pc["root"] # "off" => pc["app"] \in {"off", "asking", "serving"}
    /\ pc["app"] = "serving" /\ untouched => pc["root"] = "off"

(* All files are of the newest generation, or still empty, or the version is that of   *)
(* an older program.  The version is written last; while a set is made there is no     *)
(* gap in it.                                                                *)
CertInv ==
    /\ \A f \in Files : cert[f] \in {None, Empty, gen} \/ (f = "version" /\ cert[f] = Old)
    /\ cert["version"] \in Gens => \A f \in Files : cert[f] # Empty
    /\ \A p \in Processes : pc[p] = "creating" =>
          /\ gen \in Gens
          /\ \A i, j \in DOMAIN Order : i < j /\ cert[Order[j]] # None => cert[Order[i]] \in Gens

(* Whoever is past its certificates has them.                                    *)
Secured ==
    \A p \in Processes :
        pc[p] \in {"capping", "clearing", "copying", "policing", "refreshing", "binding"} => HaveBase

(* What the app has done of the trust of its root.                                *)
Trusted ==
    /\ pc["app"] \in {"policing", "refreshing"} => caFile = cert["root"]
    /\ pc["app"] = "refreshing" => policy = cert["root"]
    /\ pc["app"] = "binding" => RootInstalled

(* What a command has done of the routing.                                       *)
Routed ==
    /\ pc["root"] \in {"truncating", "configuring", "reloading", "opening", "persisting"} => chosen \in Ports
    /\ pc["root"] \in {"reloading", "opening", "persisting"} => conf = chosen
    /\ pc["root"] = "installed" => portFile \in Ports /\ conf = portFile

(* An app that is past its checks has what they looked for; one that was started again *)
(* by itself has the capability and asks for other things only.                     *)
Capable ==
    /\ pc["root"] \in {"clearing", "copying", "policing", "refreshing", "choosing", "truncating",
                       "configuring", "reloading", "opening", "persisting", "installed"} => cap
    /\ pc["app"] \in {"certs", "cleaning", "creating", "clearing", "copying", "policing",
                      "refreshing", "binding"} => cap /\ DnsReady
    /\ pc["app"] # "off" /\ relaunched => cap
    /\ pc["app"] = "asking" /\ neededBind => ~relaunched

(* What a removal has removed so far.                                            *)
Removed ==
    LET past(phases) == pc["root"] \in phases \cup {"uninstalled"} IN
    /\ past({"unloading", "unpersisting", "unpolicing", "unclearing", "unrefreshing", "removing"}) =>
          conf = None
    /\ past({"unpersisting", "unpolicing", "unclearing", "unrefreshing", "removing"}) => resolver = None
    /\ past({"unpolicing", "unclearing", "unrefreshing", "removing"}) => portFile = None
    /\ past({"unclearing", "unrefreshing", "removing"}) => policy = None
    /\ past({"unrefreshing", "removing"}) => caFile = None
    /\ past({"removing"}) => store = None
    /\ past({}) => cert = Nothing

IInv ==
    /\ Types
    /\ Alone
    /\ CertInv
    /\ Secured
    /\ Trusted
    /\ Routed
    /\ Capable
    /\ Removed
    /\ ServesWhatIsInstalled
-----------------------------------------------------------------------------
(* Who moves, and who waits.                                                 *)

LEMMA PhaseMoves ==
    ASSUME Phases, NEW p \in Processes, NEW to,
           p = "app" => to \in AppPhases, p = "root" => to \in RootPhases,
           pc' = [pc EXCEPT ![p] = to]
    PROVE  /\ Phases'
           /\ pc'[p] = to
           /\ \A q \in Processes \ {p} : pc'[q] = pc[q]
BY DEF Phases, Processes

(* A step of a command leaves the app where it is, which is at rest or waiting.      *)
LEMMA RootMoves ==
    ASSUME IInv, RootCommand
    PROVE  /\ Phases'
           /\ pc'["app"] = pc["app"] /\ pc["app"] \in {"off", "asking", "serving"}
           /\ UNCHANGED <<server, neededBind, relaunched, busy>>
           /\ pc["app"] = "serving" => ~untouched'
           /\ untouched' \in {untouched, FALSE}
<1>1. Phases /\ Alone
  BY DEF IInv, Types
<1>2. \A to \in RootPhases : pc' = [pc EXCEPT !["root"] = to] =>
          /\ Phases' /\ pc'["app"] = pc["app"]
  BY <1>1, PhaseMoves DEF Processes
<1>3. \E to \in RootPhases : pc' = [pc EXCEPT !["root"] = to]
  <2>1. CASE EnsuresCerts("root")
    BY <1>1, <2>1 DEF EnsuresCerts, KeepsCerts, RejectsCerts, RemovesFile, CreatesAnew, CreatesFile,
                      CertsCreated, AfterCerts, Goes, RootPhases, Phases, Processes
  <2>2. CASE TrustsRoot("root")
    BY <2>2 DEF TrustsRoot, ClearsCaFiles, CopiesRoot, WritesPolicy, RefreshesStore, Goes, RootPhases
  <2>3. CASE RoutesDns
    BY <2>3 DEF RoutesDns, ChoosesPort, TruncatesConf, WritesConf, ReloadsResolver, TruncatesPort,
                PersistsPort, Goes, RootPhases
  <2>4. CASE UserInstalls \/ GrantsCapability \/ RootFails \/ RootExits
    BY <2>4 DEF UserInstalls, GrantsCapability, RootFails, RootExits, Goes, RootPhases
  <2>5. CASE \/ UserUninstalls \/ RemovesConf \/ UnloadsResolver \/ RemovesPort
             \/ RemovesPolicy \/ RemovesCaFiles \/ UnrefreshesStore \/ UninstallEnds
    BY <2>5 DEF UserUninstalls, RemovesConf, UnloadsResolver, RemovesPort,
             RemovesPolicy, RemovesCaFiles, UnrefreshesStore, UninstallEnds, Goes, RootPhases
  <2> QED
    BY <2>1, <2>2, <2>3, <2>4, <2>5 DEF RootCommand
<1>4. /\ UNCHANGED <<server, neededBind, relaunched, busy>>
      /\ \/ pc["root"] # "off" /\ untouched' = untouched
         \/ AppAtRest /\ untouched' = FALSE
  <2>1. CASE EnsuresCerts("root")
    BY <2>1 DEF EnsuresCerts, KeepsCerts, RejectsCerts, RemovesFile, CreatesAnew, CreatesFile,
                CertsCreated, Goes, appVars, systemVars
  <2>2. CASE TrustsRoot("root")
    BY <2>2 DEF TrustsRoot, ClearsCaFiles, CopiesRoot, WritesPolicy, RefreshesStore, Goes, appVars, systemVars
  <2>3. CASE RoutesDns
    BY <2>3 DEF RoutesDns, ChoosesPort, TruncatesConf, WritesConf, ReloadsResolver, TruncatesPort,
                PersistsPort, Goes, appVars, systemVars
  <2>4. CASE UserInstalls \/ GrantsCapability \/ RootFails \/ RootExits
    BY <2>4 DEF UserInstalls, GrantsCapability, RootFails, RootExits, Goes, appVars, systemVars
  <2>5. CASE \/ UserUninstalls \/ RemovesConf \/ UnloadsResolver \/ RemovesPort
             \/ RemovesPolicy \/ RemovesCaFiles \/ UnrefreshesStore \/ UninstallEnds
    BY <2>5 DEF UserUninstalls, RemovesConf, UnloadsResolver, RemovesPort,
             RemovesPolicy, RemovesCaFiles, UnrefreshesStore, UninstallEnds, Goes, appVars, systemVars
  <2> QED
    BY <2>1, <2>2, <2>3, <2>4, <2>5 DEF RootCommand
<1>5. pc["app"] \in {"off", "asking", "serving"}
  BY <1>1, <1>4 DEF Alone, AppAtRest
<1>6. pc["app"] = "serving" => ~untouched'
  BY <1>1, <1>4 DEF Alone
<1>7. Phases' /\ pc'["app"] = pc["app"]
  BY <1>2, <1>3
<1>8. untouched' \in {untouched, FALSE}
  BY <1>4
<1> QED
  BY <1>4, <1>5, <1>6, <1>7, <1>8

(* A step of the app leaves the command where it is, unless it starts one or ends its  *)
(* wait for one; whatever it does to its files or to the trust of its root, it does    *)
(* while there is no command.                                                  *)
LEMMA AppMoves ==
    ASSUME IInv, App
    PROVE  /\ Phases'
           /\ UNCHANGED <<dnsVars, cap, busy, chosen>>
           /\ pc'["root"] # pc["root"] => AsksInstall \/ InstallEnds
           /\ pc'["app"] \notin {"off", "asking"} => pc'["root"] = "off"
           /\ ~UNCHANGED <<certVars, trustVars>> => pc["root"] = "off"
<1>1. Phases /\ Alone
  BY DEF IInv, Types
<1>2. \A to \in AppPhases : pc' = [pc EXCEPT !["app"] = to] => Phases' /\ pc'["app"] = to /\ pc'["root"] = pc["root"]
  BY <1>1, PhaseMoves DEF Processes
<1>3. CASE EnsuresCerts("app")
  <2>1. /\ pc["app"] \in {"certs", "cleaning", "creating", "removing"}
        /\ UNCHANGED <<dnsVars, systemVars>>
    BY <1>3 DEF EnsuresCerts, KeepsCerts, RejectsCerts, RemovesFile, CreatesAnew, CreatesFile, CertsCreated, Goes
  <2>2. \E to \in AppPhases : pc' = [pc EXCEPT !["app"] = to]
    BY <1>1, <1>3 DEF EnsuresCerts, KeepsCerts, RejectsCerts, RemovesFile, CreatesAnew, CreatesFile,
                      CertsCreated, AfterCerts, Goes, AppPhases, Phases, Processes
  <2>3. pc["root"] = "off" /\ pc'["root"] = "off" /\ Phases'
    BY <1>1, <1>2, <2>1, <2>2 DEF Alone
  <2> QED
    BY <2>1, <2>3 DEF systemVars
<1>4. CASE TrustsRoot("app")
  <2>1. /\ pc["app"] \in {"clearing", "copying", "policing", "refreshing"}
        /\ UNCHANGED <<dnsVars, systemVars>>
        /\ \E to \in AppPhases : pc' = [pc EXCEPT !["app"] = to]
    BY <1>4 DEF TrustsRoot, ClearsCaFiles, CopiesRoot, WritesPolicy, RefreshesStore, Goes, AppPhases
  <2>2. pc["root"] = "off" /\ pc'["root"] = "off" /\ Phases'
    BY <1>1, <1>2, <2>1 DEF Alone
  <2> QED
    BY <2>1, <2>2 DEF systemVars
<1>5. CASE AppStarts \/ NothingNeeded \/ Serves
  <2>1. /\ pc["app"] \in {"checking", "binding"} \/ pc["root"] = "off"
        /\ UNCHANGED <<certVars, trustVars, dnsVars, systemVars>>
        /\ \E to \in AppPhases : pc' = [pc EXCEPT !["app"] = to]
    BY <1>5 DEF AppStarts, NothingNeeded, Serves, Goes, AppPhases
  <2>2. pc["root"] = "off" /\ pc'["root"] = "off" /\ Phases'
    BY <1>1, <1>2, <2>1 DEF Alone
  <2> QED
    BY <2>1, <2>2 DEF systemVars
<1>6. CASE AppEnds
  <2>1. /\ UNCHANGED <<certVars, trustVars, dnsVars, systemVars>>
        /\ pc' = [pc EXCEPT !["app"] = "off"] /\ "off" \in AppPhases
    BY <1>6 DEF AppEnds, AppPhases
  <2>2. Phases' /\ pc'["app"] = "off" /\ pc'["root"] = pc["root"]
    BY <1>2, <2>1
  <2> QED
    BY <2>1, <2>2 DEF systemVars
<1>7. CASE AsksInstall \/ InstallEnds
  <2>1. UNCHANGED <<certVars, trustVars, dnsVars, systemVars>>
    BY <1>7 DEF AsksInstall, InstallEnds
  <2>2. Phases' /\ (pc'["app"] = "asking" \/ pc'["root"] = "off")
    BY <1>1, <1>7 DEF AsksInstall, InstallEnds, Phases, Processes, AppPhases, RootPhases
  <2> QED
    BY <1>7, <2>1, <2>2 DEF systemVars
<1> QED
  BY <1>3, <1>4, <1>5, <1>6, <1>7 DEF App

(* The rest of the system changes ports, and while both are off the capability and     *)
(* what systemd-resolved has loaded.                                             *)
LEMMA SystemMoves ==
    ASSUME IInv, PortTaken \/ PortFreed \/ ExecutableReplaced \/ Reboots
    PROVE  /\ UNCHANGED <<pc, certVars, trustVars, conf, portFile, appVars, chosen>>
           /\ busy' \subseteq Ports
           /\ cap' \in {cap, FALSE} /\ (cap' = cap \/ (pc["app"] = "off" /\ pc["root"] = "off"))
           /\ resolver' \in {resolver, conf} /\ (resolver' = resolver \/ pc["root"] = "off")
<1>1. busy \subseteq Ports
  BY DEF IInv, Types, DnsTypes
<1> QED
  BY <1>1 DEF PortTaken, PortFreed, ExecutableReplaced, Reboots, dnsVars, systemVars, Processes
-----------------------------------------------------------------------------
(* The certificate files.                                                    *)

LEMMA OrderIs ==
    /\ DOMAIN Order = 1..5 /\ Order[5] = "version" /\ Order[1] = "root"
    /\ Files = {Order[1], Order[2], Order[3], Order[4], Order[5]}
    /\ \A i, j \in 1..5 : Order[i] = Order[j] => i = j
<1>1. DOMAIN Order = 1..5
  BY DEF Order
<1>2. \A i \in 1..5 : i = 1 \/ i = 2 \/ i = 3 \/ i = 4 \/ i = 5
  OBVIOUS
<1>3. /\ Order[1] = "root" /\ Order[2] = "intermediate" /\ Order[3] = "key"
      /\ Order[4] = "leaf" /\ Order[5] = "version"
  BY DEF Order
<1>4. Files = {Order[1], Order[2], Order[3], Order[4], Order[5]}
  BY <1>1, <1>2 DEF Files
<1>5. \A i, j \in 1..5 : Order[i] = Order[j] => i = j
  BY <1>2, <1>3
<1> QED
  BY <1>1, <1>3, <1>4, <1>5

(* The process beside the one that makes or removes files neither makes any nor        *)
(* relies on them.                                                           *)
LEMMA EnsuringAlone ==
    ASSUME IInv, NEW p \in Processes, EnsuresCerts(p)
    PROVE  /\ pc[p] \in {"certs", "cleaning", "creating", "removing"}
           /\ \A q \in Processes \ {p} : pc[q] \in {"off", "asking", "serving"} /\ pc'[q] = pc[q]
<1>1. pc[p] \in {"certs", "cleaning", "creating", "removing"}
  BY DEF EnsuresCerts, KeepsCerts, RejectsCerts, RemovesFile, CreatesAnew, CreatesFile, CertsCreated, Goes
<1>2. Phases /\ Alone
  BY DEF IInv, Types
<1>3. \A q \in Processes \ {p} : pc'[q] = pc[q]
  BY <1>2 DEF EnsuresCerts, KeepsCerts, RejectsCerts, RemovesFile, CreatesAnew, CreatesFile, CertsCreated,
              Goes, Phases
<1>4. \A q \in Processes \ {p} : pc[q] \in {"off", "asking", "serving"}
  BY <1>1, <1>2 DEF Alone, Processes
<1> QED
  BY <1>1, <1>3, <1>4

(* What the version says is so of all the files.                                  *)
LEMMA BaseIsWhole ==
    ASSUME CertTypes, CertInv, HaveBase
    PROVE  gen \in Gens /\ \A f \in Files : cert[f] = gen
<1>1. cert["version"] \in Gens /\ \A f \in Files : cert[f] # None
  BY DEF HaveBase
<1>2. "version" \in Files /\ cert["version"] = gen
  BY <1>1, OrderIs, SystemSetupAssumption DEF CertInv, Gens
<1>3. \A f \in Files : cert[f] = gen
  BY <1>1, <1>2, SystemSetupAssumption DEF CertInv
<1> QED
  BY <1>1, <1>2, <1>3

LEMMA RemovalKeepsFiles ==
    ASSUME IInv, NEW p \in Processes, RemovesFile(p)
    PROVE  CertTypes' /\ CertInv' /\ Secured'
<1>1. CertTypes /\ CertInv /\ Secured
  BY DEF IInv, Types
<1>2. \A q \in Processes : pc[q] \in {"off", "asking", "serving", "certs", "cleaning", "removing"} /\ pc'[q] = pc[q]
  <2>1. pc' = pc /\ pc[p] \in {"cleaning", "removing"}
    BY DEF RemovesFile
  <2> QED
    BY <2>1, EnsuringAlone DEF EnsuresCerts
<1>3. PICK f \in Files : cert' = [cert EXCEPT ![f] = None]
  BY DEF RemovesFile
<1>4. gen' = gen /\ CertTypes'
  BY <1>1, <1>3 DEF RemovesFile, CertTypes
<1>5. \A g \in Files : cert'[g] = cert[g] \/ cert'[g] = None
  BY <1>1, <1>3 DEF CertTypes
<1>6. \A g \in Files : cert'[g] \in {None, Empty, gen'} \/ (g = "version" /\ cert'[g] = Old)
  BY <1>1, <1>4, <1>5 DEF CertInv
<1>7. ASSUME cert'["version"] \in Gens, NEW g \in Files PROVE cert'[g] # Empty
  <2>1. "version" \in Files /\ None \notin Gens
    BY OrderIs, SystemSetupAssumption DEF Gens
  <2>2. cert["version"] \in Gens /\ cert["version"] # Empty
    BY <1>1, <1>5, <1>7, <2>1 DEF CertInv
  <2> QED
    BY <1>1, <1>5, <2>2, SystemSetupAssumption DEF CertInv
<1>8. CertInv'
  BY <1>2, <1>6, <1>7 DEF CertInv
<1>9. Secured'
  BY <1>2 DEF Secured
<1> QED
  BY <1>4, <1>8, <1>9

(* A new set begins where nothing is left of an older one, and has no gap.           *)
LEMMA CreationKeepsFiles ==
    ASSUME IInv, NEW p \in Processes, CreatesAnew(p) \/ CreatesFile(p)
    PROVE  CertTypes' /\ CertInv' /\ Secured'
<1>1. CertTypes /\ CertInv /\ Phases
  BY DEF IInv, Types
<1>2. /\ pc'[p] = "creating"
      /\ \A q \in Processes \ {p} : pc'[q] \in {"off", "asking", "serving"}
  <2>1. EnsuresCerts(p)
    BY DEF EnsuresCerts
  <2> QED
    BY <1>1, <2>1, EnsuringAlone DEF CreatesAnew, CreatesFile, Goes, Phases
<1>3. Secured'
  BY <1>2 DEF Secured
<1>4. CASE CreatesAnew(p)
  <2>1. /\ cert' = cert /\ gen' = gen + 1 /\ gen' \in Gens
        /\ \A f \in Files : cert[f] = None
    BY <1>1, <1>4, SystemSetupAssumption DEF CreatesAnew, CertTypes, Gens, Nothing
  <2>2. CertTypes'
    BY <1>1, <2>1 DEF CertTypes, Gens
  <2>3. \A i \in DOMAIN Order : Order[i] \in Files
    BY DEF Files
  <2>4. cert'["version"] \notin Gens
    BY <2>1, OrderIs, SystemSetupAssumption DEF Gens
  <2>5. CertInv'
    BY <2>1, <2>3, <2>4 DEF CertInv
  <2> QED
    BY <1>3, <2>2, <2>5
<1>5. CASE CreatesFile(p)
  <2>1. PICK i \in DOMAIN Order :
          /\ \A j \in 1..(i - 1) : cert[Order[j]] \in Gens
          /\ \/ cert[Order[i]] = None /\ cert' = [cert EXCEPT ![Order[i]] = Empty]
             \/ cert[Order[i]] = Empty /\ cert' = [cert EXCEPT ![Order[i]] = gen]
    BY <1>5 DEF CreatesFile
  <2>2. i \in 1..5 /\ Order[i] \in Files /\ \A f \in Files : \E j \in 1..5 : f = Order[j]
    BY OrderIs DEF Files
  <2>3. /\ gen' = gen /\ gen \in Gens /\ pc[p] = "creating"
        /\ \A k, j \in 1..5 : k < j /\ cert[Order[j]] # None => cert[Order[k]] \in Gens
    BY <1>1, <1>5, OrderIs DEF CreatesFile, CertInv
  <2>4. CertTypes'
    BY <1>1, <2>1, <2>2, <2>3 DEF CertTypes
  <2>5. /\ \A f \in Files : f # Order[i] => cert'[f] = cert[f]
        /\ cert'[Order[i]] \in {Empty, gen}
    BY <1>1, <2>1, <2>2 DEF CertTypes
  <2>6. \A f \in Files : cert'[f] \in {None, Empty, gen'} \/ (f = "version" /\ cert'[f] = Old)
    BY <1>1, <2>3, <2>5 DEF CertInv
  <2>7. \A j \in 1..5 : j < i => cert[Order[j]] \in Gens /\ Order[j] # Order[i]
    BY <2>1, <2>2, OrderIs
  <2>8. \A j \in 1..5 : j > i => cert'[Order[j]] = None
    <3> SUFFICES ASSUME NEW j \in 1..5, j > i PROVE cert'[Order[j]] = None
      OBVIOUS
    <3>1. cert[Order[i]] \notin Gens
      BY <2>1, SystemSetupAssumption DEF Gens
    <3>2. cert[Order[j]] = None
      BY <2>2, <2>3, <3>1
    <3>3. Order[j] \in Files /\ Order[j] # Order[i]
      BY <2>2, OrderIs DEF Files
    <3> QED
      BY <2>5, <3>2, <3>3
  <2>9. \A j \in 1..5 : j < i => cert'[Order[j]] \in Gens
    BY <2>5, <2>7, OrderIs DEF Files
  <2>10. \A k, j \in 1..5 : k < j /\ cert'[Order[j]] # None => cert'[Order[k]] \in Gens
    <3> SUFFICES ASSUME NEW k \in 1..5, NEW j \in 1..5, k < j, cert'[Order[j]] # None
                 PROVE  cert'[Order[k]] \in Gens
      OBVIOUS
    <3>1. j <= i
      BY <2>2, <2>8
    <3>2. k < i
      BY <2>2, <3>1
    <3> QED
      BY <2>9, <3>2
  <2>11. ASSUME cert'["version"] \in Gens, NEW f \in Files PROVE cert'[f] # Empty
    <3>1. i = 5
      <4>1. cert'[Order[5]] # None
        BY <2>11, OrderIs, SystemSetupAssumption DEF Gens
      <4> QED
        BY <2>2, <2>8, <4>1
    <3>2. PICK j \in 1..5 : f = Order[j]
      BY <2>2
    <3>3. j < 5 \/ j = 5
      OBVIOUS
    <3>4. cert'[f] \in Gens
      BY <2>9, <2>11, <3>1, <3>2, <3>3, OrderIs
    <3> QED
      BY <3>4, SystemSetupAssumption DEF Gens
  <2>12. CertInv'
    BY <1>2, <2>3, <2>6, <2>10, <2>11, OrderIs DEF CertInv
  <2> QED
    BY <1>3, <2>4, <2>12
<1> QED
  BY <1>4, <1>5

(* A set is complete when its version is written, and then it is what the process has. *)
LEMMA DecisionKeepsFiles ==
    ASSUME IInv, NEW p \in Processes, KeepsCerts(p) \/ RejectsCerts(p) \/ CertsCreated(p)
    PROVE  CertTypes' /\ CertInv' /\ Secured'
<1>1. CertTypes /\ CertInv /\ Phases
  BY DEF IInv, Types
<1>2. /\ UNCHANGED certVars
      /\ pc'[p] # "creating"
      /\ \A q \in Processes \ {p} : pc'[q] \in {"off", "asking", "serving"}
  <2>1. EnsuresCerts(p)
    BY DEF EnsuresCerts
  <2> QED
    BY <1>1, <2>1, EnsuringAlone DEF KeepsCerts, RejectsCerts, CertsCreated, AfterCerts, Goes, Phases
<1>3. CertTypes' /\ CertInv'
  BY <1>1, <1>2 DEF CertTypes, CertInv, certVars
<1>4. CASE KeepsCerts(p)
  <2>1. HaveBase /\ HaveBase'
    BY <1>2, <1>4 DEF KeepsCerts, HaveBase, certVars
  <2> QED
    BY <1>2, <1>3, <2>1 DEF Secured
<1>5. CASE RejectsCerts(p)
  <2>1. pc'[p] = "cleaning"
    BY <1>1, <1>5 DEF RejectsCerts, Goes, Phases
  <2> QED
    BY <1>2, <1>3, <2>1 DEF Secured
<1>6. CASE CertsCreated(p)
  <2>1. /\ cert["version"] = gen /\ gen \in Gens
        /\ \A i, j \in 1..5 : i < j /\ cert[Order[j]] # None => cert[Order[i]] \in Gens
    BY <1>1, <1>6, OrderIs DEF CertsCreated, Goes, CertInv
  <2>2. ASSUME NEW f \in Files PROVE cert[f] # None
    <3>1. PICK i \in 1..5 : f = Order[i]
      BY OrderIs DEF Files
    <3>2. cert[Order[5]] # None
      BY <2>1, OrderIs, SystemSetupAssumption DEF Gens
    <3>3. i < 5 => cert[Order[i]] \in Gens
      BY <2>1, <3>2
    <3>4. i < 5 \/ i = 5
      OBVIOUS
    <3> QED
      BY <3>1, <3>2, <3>3, <3>4, SystemSetupAssumption DEF Gens
  <2>3. HaveBase'
    BY <1>2, <2>1, <2>2 DEF HaveBase, certVars
  <2> QED
    BY <1>2, <1>3, <2>3 DEF Secured
<1> QED
  BY <1>4, <1>5, <1>6

(* Every other step leaves the files alone, and none comes to rely on them.           *)
LEMMA OthersLeaveFiles ==
    ASSUME IInv, Next, ~\E p \in Processes : EnsuresCerts(p)
    PROVE  /\ UNCHANGED certVars
           /\ \A p \in Processes :
                 \/ pc'[p] = pc[p]
                 \/ /\ pc'[p] # "creating"
                    /\ \/ pc'[p] \notin {"capping", "clearing", "copying", "policing", "refreshing", "binding"}
                       \/ pc[p] \in {"capping", "clearing", "copying", "policing", "refreshing", "binding"}
<1>1. Phases /\ ~EnsuresCerts("app") /\ ~EnsuresCerts("root")
  BY DEF IInv, Types, Processes
<1>2. CASE TrustsRoot("root") \/ TrustsRoot("app")
  BY <1>1, <1>2 DEF TrustsRoot, ClearsCaFiles, CopiesRoot, WritesPolicy, RefreshesStore, Goes, Phases, Processes
<1>3. CASE RoutesDns
  BY <1>1, <1>3 DEF RoutesDns, ChoosesPort, TruncatesConf, WritesConf, ReloadsResolver, TruncatesPort,
                    PersistsPort, Goes, Phases, Processes
<1>4. CASE UserInstalls \/ GrantsCapability \/ RootFails \/ RootExits
  BY <1>1, <1>4 DEF UserInstalls, GrantsCapability, RootFails, RootExits, Goes, Phases, Processes
<1>5. CASE \/ UserUninstalls \/ RemovesConf \/ UnloadsResolver \/ RemovesPort
           \/ RemovesPolicy \/ RemovesCaFiles \/ UnrefreshesStore \/ UninstallEnds
  BY <1>1, <1>5 DEF UserUninstalls, RemovesConf, UnloadsResolver, RemovesPort,
           RemovesPolicy, RemovesCaFiles, UnrefreshesStore, UninstallEnds, Goes, Phases, Processes
<1>6. CASE AppStarts \/ NothingNeeded \/ Serves \/ AppEnds
  BY <1>1, <1>6 DEF AppStarts, NothingNeeded, Serves, AppEnds, Goes, Phases, Processes
<1>7. CASE AsksInstall \/ InstallEnds
  BY <1>1, <1>7 DEF AsksInstall, InstallEnds, Phases, Processes
<1>8. CASE PortTaken \/ PortFreed \/ ExecutableReplaced \/ Reboots
  BY <1>8, SystemMoves
<1> QED
  BY <1>1, <1>2, <1>3, <1>4, <1>5, <1>6, <1>7, <1>8 DEF Next, RootCommand, App

LEMMA FilesKept == IInv /\ Next => CertTypes' /\ CertInv' /\ Secured'
<1> SUFFICES ASSUME IInv, Next PROVE CertTypes' /\ CertInv' /\ Secured'
  OBVIOUS
<1>1. ASSUME NEW p \in Processes, EnsuresCerts(p) PROVE CertTypes' /\ CertInv' /\ Secured'
  BY <1>1, RemovalKeepsFiles, CreationKeepsFiles, DecisionKeepsFiles DEF EnsuresCerts
<1>2. CASE ~\E p \in Processes : EnsuresCerts(p)
  <2>1. /\ UNCHANGED certVars
        /\ \A p \in Processes :
              \/ pc'[p] = pc[p]
              \/ /\ pc'[p] # "creating"
                 /\ \/ pc'[p] \notin {"capping", "clearing", "copying", "policing", "refreshing", "binding"}
                    \/ pc[p] \in {"capping", "clearing", "copying", "policing", "refreshing", "binding"}
    BY <1>2, OthersLeaveFiles
  <2>2. CertTypes' /\ CertInv'
    BY <2>1 DEF IInv, Types, CertTypes, CertInv, certVars
  <2>3. Secured'
    BY <2>1 DEF IInv, Secured, HaveBase, certVars
  <2> QED
    BY <2>2, <2>3
<1> QED
  BY <1>1, <1>2
-----------------------------------------------------------------------------
(* The trust of the root certificate.                                          *)

(* A process that installs its root has one to install.                           *)
LEMMA RootIs ==
    ASSUME IInv, NEW p \in Processes,
           pc[p] \in {"capping", "clearing", "copying", "policing", "refreshing", "binding"}
    PROVE  cert["root"] \in Gens
<1>1. HaveBase /\ CertTypes /\ CertInv
  BY DEF IInv, Types, Secured
<1> QED
  BY <1>1, BaseIsWhole, OrderIs

LEMMA TrustTypesKept == IInv /\ Next => TrustTypes'
<1> SUFFICES ASSUME IInv, Next PROVE TrustTypes'
  OBVIOUS
<1>1. TrustTypes
  BY DEF IInv, Types
<1>2. ASSUME NEW p \in Processes, TrustsRoot(p) PROVE TrustTypes'
  BY <1>1, <1>2, RootIs DEF TrustsRoot, ClearsCaFiles, CopiesRoot, WritesPolicy, RefreshesStore, Goes,
                            TrustTypes, MaybeGen
<1>3. CASE RemovesPolicy \/ RemovesCaFiles \/ UnrefreshesStore
  BY <1>1, <1>3 DEF RemovesPolicy, RemovesCaFiles, UnrefreshesStore, TrustTypes, MaybeGen
<1>4. CASE UNCHANGED trustVars
  BY <1>1, <1>4 DEF TrustTypes, trustVars
<1>5. CASE \E p \in Processes : EnsuresCerts(p)
  BY <1>4, <1>5 DEF EnsuresCerts, KeepsCerts, RejectsCerts, RemovesFile, CreatesAnew, CreatesFile, CertsCreated
<1>6. CASE RoutesDns
  BY <1>4, <1>6 DEF RoutesDns, ChoosesPort, TruncatesConf, WritesConf, ReloadsResolver, TruncatesPort, PersistsPort
<1>7. CASE \/ UserInstalls \/ GrantsCapability \/ RootFails \/ RootExits
           \/ UserUninstalls \/ RemovesConf \/ UnloadsResolver \/ RemovesPort \/ UninstallEnds
  BY <1>4, <1>7 DEF UserInstalls, GrantsCapability, RootFails, RootExits,
           UserUninstalls, RemovesConf, UnloadsResolver, RemovesPort, UninstallEnds
<1>8. CASE AppStarts \/ NothingNeeded \/ Serves \/ AppEnds \/ AsksInstall \/ InstallEnds
  BY <1>4, <1>8 DEF AppStarts, NothingNeeded, Serves, AppEnds, AsksInstall, InstallEnds
<1>9. CASE PortTaken \/ PortFreed \/ ExecutableReplaced \/ Reboots
  BY <1>4, <1>9, SystemMoves
<1> QED
  BY <1>2, <1>3, <1>5, <1>6, <1>7, <1>8, <1>9 DEF Next, RootCommand, App, Processes

(* While the app installs its root nobody else does, so what it wrote is what it finds. *)
LEMMA TrustedKept == IInv /\ Next => Trusted'
<1> SUFFICES ASSUME IInv, Next PROVE Trusted'
  OBVIOUS
<1>1. Phases /\ Trusted
  BY DEF IInv, Types
<1>2. CASE RootCommand
  BY <1>2, RootMoves DEF Trusted
<1>3. CASE TrustsRoot("app")
  <2>1. cert["root"] \in Gens /\ cert' = cert
    BY <1>3, RootIs DEF TrustsRoot, ClearsCaFiles, CopiesRoot, WritesPolicy, RefreshesStore, Goes, certVars,
                        Processes
  <2>2. CASE ClearsCaFiles("app")
    BY <1>1, <2>2 DEF ClearsCaFiles, Goes, Trusted, Phases, Processes
  <2>3. CASE CopiesRoot("app")
    BY <1>1, <2>1, <2>3 DEF CopiesRoot, Goes, Trusted, Phases, Processes
  <2>4. CASE WritesPolicy("app")
    BY <1>1, <2>1, <2>4 DEF WritesPolicy, Goes, Trusted, Phases, Processes
  <2>5. CASE RefreshesStore("app")
    BY <1>1, <2>1, <2>5 DEF RefreshesStore, Goes, Trusted, Phases, Processes, RootInstalled
  <2> QED
    BY <1>3, <2>2, <2>3, <2>4, <2>5 DEF TrustsRoot
<1>4. CASE EnsuresCerts("app")
  <2>1. CASE KeepsCerts("app") \/ CertsCreated("app")
    <3>1. /\ UNCHANGED <<cert, caFile, policy>>
          /\ pc'["app"] = IF RootInstalled THEN "binding" ELSE "clearing"
      BY <1>1, <2>1 DEF KeepsCerts, CertsCreated, Goes, AfterCerts, Phases, Processes, certVars, trustVars
    <3> QED
      BY <3>1 DEF Trusted, RootInstalled
  <2>2. CASE RejectsCerts("app") \/ RemovesFile("app") \/ CreatesAnew("app") \/ CreatesFile("app")
    <3>1. pc'["app"] \in {"cleaning", "removing", "creating"}
      BY <1>1, <2>2 DEF RejectsCerts, RemovesFile, CreatesAnew, CreatesFile, Goes, Phases, Processes
    <3> QED
      BY <3>1 DEF Trusted
  <2> QED
    BY <1>4, <2>1, <2>2 DEF EnsuresCerts
<1>5. CASE AppStarts \/ NothingNeeded \/ Serves \/ AppEnds \/ AsksInstall \/ InstallEnds
  <2>1. pc'["app"] \in {"off", "asking", "checking", "certs", "serving"}
    BY <1>1, <1>5 DEF AppStarts, NothingNeeded, Serves, AppEnds, AsksInstall, InstallEnds, Goes, Phases, Processes
  <2> QED
    BY <2>1 DEF Trusted
<1>6. CASE PortTaken \/ PortFreed \/ ExecutableReplaced \/ Reboots
  BY <1>1, <1>6, SystemMoves DEF Trusted, RootInstalled, certVars, trustVars
<1> QED
  BY <1>2, <1>3, <1>4, <1>5, <1>6 DEF Next, App
-----------------------------------------------------------------------------
(* The routing and its removal.                                              *)

LEMMA DnsTypesKept == IInv /\ Next => DnsTypes'
<1> SUFFICES ASSUME IInv, Next PROVE DnsTypes'
  OBVIOUS
<1>1. DnsTypes
  BY DEF IInv, Types
<1>2. CASE RoutesDns
  BY <1>1, <1>2 DEF RoutesDns, ChoosesPort, TruncatesConf, WritesConf, ReloadsResolver, TruncatesPort,
                    PersistsPort, DnsTypes, MaybePort, Available, appVars, systemVars, dnsVars
<1>3. CASE RemovesConf \/ UnloadsResolver \/ RemovesPort
  BY <1>1, <1>3 DEF RemovesConf, UnloadsResolver, RemovesPort, DnsTypes, MaybePort, appVars, systemVars
<1>4. CASE UNCHANGED <<dnsVars, chosen, server, busy>>
  BY <1>1, <1>4 DEF DnsTypes, dnsVars
<1>5. CASE EnsuresCerts("root") \/ EnsuresCerts("app")
  BY <1>4, <1>5 DEF EnsuresCerts, KeepsCerts, RejectsCerts, RemovesFile, CreatesAnew, CreatesFile, CertsCreated,
                    appVars, systemVars
<1>6. CASE TrustsRoot("root") \/ TrustsRoot("app")
  BY <1>4, <1>6 DEF TrustsRoot, ClearsCaFiles, CopiesRoot, WritesPolicy, RefreshesStore, appVars, systemVars
<1>7. CASE \/ UserInstalls \/ GrantsCapability \/ RootExits
           \/ UserUninstalls \/ RemovesPolicy \/ RemovesCaFiles \/ UnrefreshesStore \/ UninstallEnds
  BY <1>4, <1>7 DEF UserInstalls, GrantsCapability, RootExits,
           UserUninstalls, RemovesPolicy, RemovesCaFiles, UnrefreshesStore, UninstallEnds, appVars, systemVars
<1>8. CASE RootFails
  BY <1>1, <1>8 DEF RootFails, DnsTypes, dnsVars, appVars, MaybePort
<1>9. CASE AppStarts \/ NothingNeeded \/ AsksInstall \/ InstallEnds
  BY <1>4, <1>9 DEF AppStarts, NothingNeeded, AsksInstall, InstallEnds, appVars, systemVars
<1>10. CASE Serves \/ AppEnds
  BY <1>1, <1>10, SystemSetupAssumption DEF Serves, AppEnds, DnsPort, DnsTypes, dnsVars, systemVars, MaybePort
<1>11. CASE PortTaken \/ PortFreed \/ ExecutableReplaced \/ Reboots
  BY <1>1, <1>11, SystemMoves DEF DnsTypes, appVars
<1> QED
  BY <1>2, <1>3, <1>5, <1>6, <1>7, <1>8, <1>9, <1>10, <1>11 DEF Next, RootCommand, App

(* What the app and the system do leaves the state of a command as it is.             *)
LEMMA RoutedKept == IInv /\ Next => Routed'
<1> SUFFICES ASSUME IInv, Next PROVE Routed'
  OBVIOUS
<1>1. Phases /\ Routed
  BY DEF IInv, Types
<1>2. CASE RoutesDns
  BY <1>1, <1>2 DEF RoutesDns, ChoosesPort, TruncatesConf, WritesConf, ReloadsResolver, TruncatesPort,
                    PersistsPort, Goes, Routed, Phases, Processes, Available, systemVars, dnsVars
<1>3. CASE EnsuresCerts("root")
  <2>1. pc'["root"] \in {"cleaning", "creating", "capping", "removing"}
    BY <1>1, <1>3 DEF EnsuresCerts, KeepsCerts, RejectsCerts, RemovesFile, CreatesAnew, CreatesFile,
                      CertsCreated, AfterCerts, Goes, Phases, Processes
  <2> QED
    BY <2>1 DEF Routed
<1>4. CASE TrustsRoot("root")
  <2>1. pc'["root"] \in {"copying", "policing", "refreshing", "choosing"}
    BY <1>1, <1>4 DEF TrustsRoot, ClearsCaFiles, CopiesRoot, WritesPolicy, RefreshesStore, Goes, Phases, Processes
  <2> QED
    BY <2>1 DEF Routed
<1>5. CASE UserInstalls \/ GrantsCapability \/ RootFails \/ RootExits
  <2>1. pc'["root"] \in {"certs", "clearing", "failed", "off"}
    BY <1>1, <1>5 DEF UserInstalls, GrantsCapability, RootFails, RootExits, Goes, Phases, Processes
  <2> QED
    BY <2>1 DEF Routed
<1>6. CASE \/ UserUninstalls \/ RemovesConf \/ UnloadsResolver \/ RemovesPort
           \/ RemovesPolicy \/ RemovesCaFiles \/ UnrefreshesStore \/ UninstallEnds
  <2>1. pc'["root"] \in {"unconfiguring", "unloading", "unpersisting", "unpolicing", "unclearing",
                         "unrefreshing", "removing", "uninstalled"}
    BY <1>1, <1>6 DEF UserUninstalls, RemovesConf, UnloadsResolver, RemovesPort,
             RemovesPolicy, RemovesCaFiles, UnrefreshesStore, UninstallEnds, Goes, Phases, Processes
  <2> QED
    BY <2>1 DEF Routed
<1>7. CASE App
  <2>1. UNCHANGED <<dnsVars, chosen>> /\ pc'["root"] \in {pc["root"], "certs", "off"}
    BY <1>1, <1>7, AppMoves DEF AsksInstall, InstallEnds, Phases, Processes
  <2> QED
    BY <1>1, <2>1 DEF Routed, dnsVars
<1>8. CASE PortTaken \/ PortFreed \/ ExecutableReplaced \/ Reboots
  BY <1>1, <1>8, SystemMoves DEF Routed
<1> QED
  BY <1>2, <1>3, <1>4, <1>5, <1>6, <1>7, <1>8 DEF Next, RootCommand

LEMMA RemovedKept == IInv /\ Next => Removed'
<1> SUFFICES ASSUME IInv, Next PROVE Removed'
  OBVIOUS
<1>1. Phases /\ Removed
  BY DEF IInv, Types
<1>2. CASE \/ UserUninstalls \/ RemovesConf \/ UnloadsResolver \/ RemovesPort
           \/ RemovesPolicy \/ RemovesCaFiles \/ UnrefreshesStore \/ UninstallEnds
  BY <1>1, <1>2 DEF UserUninstalls, RemovesConf, UnloadsResolver, RemovesPort,
           RemovesPolicy, RemovesCaFiles, UnrefreshesStore, UninstallEnds, Goes, Phases, Processes,
           Removed, certVars, trustVars, dnsVars
<1>3. CASE EnsuresCerts("root")
  <2>1. CASE RemovesFile("root") /\ pc["root"] = "removing"
    BY <1>1, <2>1 DEF RemovesFile, Removed, trustVars, dnsVars
  <2>2. CASE ~(RemovesFile("root") /\ pc["root"] = "removing")
    <3>1. pc'["root"] \in {"cleaning", "creating", "capping"}
      BY <1>1, <1>3, <2>2 DEF EnsuresCerts, KeepsCerts, RejectsCerts, RemovesFile, CreatesAnew, CreatesFile,
                              CertsCreated, AfterCerts, Goes, Phases, Processes
    <3> QED
      BY <3>1 DEF Removed
  <2> QED
    BY <2>1, <2>2
<1>4. CASE TrustsRoot("root")
  <2>1. pc'["root"] \in {"copying", "policing", "refreshing", "choosing"}
    BY <1>1, <1>4 DEF TrustsRoot, ClearsCaFiles, CopiesRoot, WritesPolicy, RefreshesStore, Goes, Phases, Processes
  <2> QED
    BY <2>1 DEF Removed
<1>5. CASE UserInstalls \/ GrantsCapability \/ RootFails \/ RootExits
  <2>1. pc'["root"] \in {"certs", "clearing", "failed", "off"}
    BY <1>1, <1>5 DEF UserInstalls, GrantsCapability, RootFails, RootExits, Goes, Phases, Processes
  <2> QED
    BY <2>1 DEF Removed
<1>6. CASE RoutesDns
  <2>1. pc'["root"] \in {"opening", "truncating", "configuring", "reloading", "persisting", "installed"}
    BY <1>1, <1>6 DEF RoutesDns, ChoosesPort, TruncatesConf, WritesConf, ReloadsResolver, TruncatesPort,
                      PersistsPort, Goes, Phases, Processes
  <2> QED
    BY <2>1 DEF Removed
<1>7. CASE App
  <2>1. CASE pc'["root"] # pc["root"] \/ pc["root"] = "off"
    <3>1. pc'["root"] \in {"certs", "off"}
      BY <1>1, <1>7, <2>1, AppMoves DEF AsksInstall, InstallEnds, Phases, Processes
    <3> QED
      BY <3>1 DEF Removed
  <2>2. CASE pc'["root"] = pc["root"] /\ pc["root"] # "off"
    <3>1. UNCHANGED <<certVars, trustVars>> /\ UNCHANGED dnsVars
      BY <1>7, <2>2, AppMoves
    <3> QED
      BY <1>1, <2>2, <3>1 DEF Removed, certVars, trustVars, dnsVars
  <2> QED
    BY <2>1, <2>2
<1>8. CASE PortTaken \/ PortFreed \/ ExecutableReplaced \/ Reboots
  <2>1. /\ UNCHANGED <<pc, certVars, trustVars, conf, portFile>>
        /\ resolver' = resolver \/ pc["root"] = "off"
    BY <1>8, SystemMoves
  <2> QED
    BY <1>1, <2>1 DEF Removed, certVars, trustVars
<1> QED
  BY <1>2, <1>3, <1>4, <1>5, <1>6, <1>7, <1>8 DEF Next, RootCommand
-----------------------------------------------------------------------------
(* What the app may rely on.                                                 *)

LEMMA FlagTypesKept == IInv /\ Next => FlagTypes'
<1> SUFFICES ASSUME IInv, Next PROVE FlagTypes'
  OBVIOUS
<1>1. FlagTypes
  BY DEF IInv, Types
<1>2. cap' \in BOOLEAN
  <2>1. CASE App
    BY <1>1, <2>1, AppMoves DEF FlagTypes
  <2>2. CASE PortTaken \/ PortFreed \/ ExecutableReplaced \/ Reboots
    BY <1>1, <2>2, SystemMoves DEF FlagTypes
  <2>3. CASE GrantsCapability
    BY <2>3 DEF GrantsCapability
  <2>4. CASE RootCommand /\ ~GrantsCapability
    <3>1. cap' = cap
      BY <2>4 DEF RootCommand, EnsuresCerts, KeepsCerts, RejectsCerts, RemovesFile, CreatesAnew, CreatesFile,
                  CertsCreated, TrustsRoot, ClearsCaFiles, CopiesRoot, WritesPolicy, RefreshesStore,
                  RoutesDns, ChoosesPort, TruncatesConf, WritesConf, ReloadsResolver, TruncatesPort,
                  PersistsPort, UserInstalls, RootFails, RootExits, UserUninstalls, RemovesConf,
                  UnloadsResolver, RemovesPort, RemovesPolicy, RemovesCaFiles, UnrefreshesStore,
                  UninstallEnds, systemVars
    <3> QED
      BY <1>1, <3>1 DEF FlagTypes
  <2> QED
    BY <2>1, <2>2, <2>3, <2>4 DEF Next
<1>3. neededBind' \in BOOLEAN /\ relaunched' \in BOOLEAN /\ untouched' \in BOOLEAN
  <2>1. CASE RootCommand
    BY <1>1, <2>1, RootMoves DEF FlagTypes
  <2>2. CASE PortTaken \/ PortFreed \/ ExecutableReplaced \/ Reboots
    BY <1>1, <2>2, SystemMoves DEF FlagTypes, appVars
  <2>3. CASE EnsuresCerts("app") \/ TrustsRoot("app") \/ NothingNeeded
    BY <1>1, <2>3 DEF EnsuresCerts, KeepsCerts, RejectsCerts, RemovesFile, CreatesAnew, CreatesFile,
                      CertsCreated, TrustsRoot, ClearsCaFiles, CopiesRoot, WritesPolicy, RefreshesStore,
                      NothingNeeded, FlagTypes, appVars
  <2>4. CASE AppStarts \/ AppEnds \/ Serves
    BY <1>1, <2>4 DEF AppStarts, AppEnds, Serves, FlagTypes
  <2>5. CASE AsksInstall
    <3>1. neededBind' \in BOOLEAN
      BY <2>5 DEF AsksInstall
    <3>2. relaunched' = relaunched /\ untouched' = untouched
      BY <2>5 DEF AsksInstall
    <3> QED
      BY <1>1, <3>1, <3>2 DEF FlagTypes
  <2>6. CASE InstallEnds
    <3>1. relaunched' \in BOOLEAN
      BY <2>6 DEF InstallEnds
    <3>2. neededBind' = neededBind /\ untouched' = untouched
      BY <2>6 DEF InstallEnds
    <3> QED
      BY <1>1, <3>1, <3>2 DEF FlagTypes
  <2> QED
    BY <2>1, <2>2, <2>3, <2>4, <2>5, <2>6 DEF Next, App
<1> QED
  BY <1>2, <1>3 DEF FlagTypes

LEMMA AloneKept == IInv /\ Next => Alone'
<1> SUFFICES ASSUME IInv, Next PROVE Alone'
  OBVIOUS
<1>1. Alone
  BY DEF IInv
<1>2. CASE RootCommand
  <2>1. pc'["app"] = pc["app"] /\ pc["app"] \in {"off", "asking", "serving"}
    BY <1>2, RootMoves
  <2>2. pc["app"] = "serving" => ~untouched'
    BY <1>2, RootMoves
  <2>3. pc'["app"] = "serving" => ~untouched'
    BY <2>1, <2>2
  <2> QED
    BY <2>1, <2>3 DEF Alone
<1>3. CASE App
  BY <1>3, AppMoves DEF Alone
<1>4. CASE PortTaken \/ PortFreed \/ ExecutableReplaced \/ Reboots
  <2>1. pc' = pc /\ untouched' = untouched
    BY <1>4, SystemMoves DEF appVars
  <2> QED
    BY <1>1, <2>1 DEF Alone
<1> QED
  BY <1>2, <1>3, <1>4 DEF Next

(* The capability is granted early by a command and is lost only while nobody runs.     *)
LEMMA RootCapable ==
    ASSUME IInv, RootCommand
    PROVE  /\ cap => cap'
           /\ pc'["root"] \in {"clearing", "copying", "policing", "refreshing", "choosing", "truncating",
                               "configuring", "reloading", "opening", "persisting", "installed"} => cap'
<1>1. Phases /\ Capable
  BY DEF IInv, Types
<1>2. CASE GrantsCapability
  BY <1>2 DEF GrantsCapability
<1>3. CASE RoutesDns
  BY <1>1, <1>3 DEF RoutesDns, ChoosesPort, TruncatesConf, WritesConf, ReloadsResolver, TruncatesPort,
                    PersistsPort, Goes, Phases, Processes, Capable, systemVars
<1>4. CASE TrustsRoot("root")
  BY <1>1, <1>4 DEF TrustsRoot, ClearsCaFiles, CopiesRoot, WritesPolicy, RefreshesStore, Goes, Phases,
                    Processes, Capable, systemVars
<1>5. CASE EnsuresCerts("root")
  <2>1. pc'["root"] \in {"cleaning", "creating", "capping", "removing"} /\ cap' = cap
    BY <1>1, <1>5 DEF EnsuresCerts, KeepsCerts, RejectsCerts, RemovesFile, CreatesAnew, CreatesFile,
                      CertsCreated, AfterCerts, Goes, Phases, Processes, systemVars
  <2> QED
    BY <2>1
<1>6. CASE UserInstalls \/ RootFails \/ RootExits
  BY <1>1, <1>6 DEF UserInstalls, RootFails, RootExits, Goes, Phases, Processes, systemVars
<1>7. CASE \/ UserUninstalls \/ RemovesConf \/ UnloadsResolver \/ RemovesPort
           \/ RemovesPolicy \/ RemovesCaFiles \/ UnrefreshesStore \/ UninstallEnds
  BY <1>1, <1>7 DEF UserUninstalls, RemovesConf, UnloadsResolver, RemovesPort,
           RemovesPolicy, RemovesCaFiles, UnrefreshesStore, UninstallEnds, Goes, Phases, Processes, systemVars
<1> QED
  BY <1>2, <1>3, <1>4, <1>5, <1>6, <1>7 DEF RootCommand

(* What the app looked for at its start stays so until it serves.                     *)
LEMMA AppCapable ==
    ASSUME IInv, App
    PROVE  Capable'
<1>1. Phases /\ Capable /\ Routed /\ FlagTypes
  BY DEF IInv, Types
<1>2. /\ UNCHANGED <<cap, conf, portFile>>
      /\ DnsReady' = DnsReady
      /\ pc'["root"] \in {pc["root"], "certs", "off"}
  <2>1. UNCHANGED <<dnsVars, cap>> /\ pc'["root"] \in {pc["root"], "certs", "off"}
    BY <1>1, AppMoves DEF AsksInstall, InstallEnds, Phases, Processes
  <2> QED
    BY <2>1 DEF dnsVars, DnsReady, DnsPort
<1>3. pc'["root"] \in {"clearing", "copying", "policing", "refreshing", "choosing", "truncating",
                       "configuring", "reloading", "opening", "persisting", "installed"} => cap'
  BY <1>1, <1>2 DEF Capable
<1>4. CASE EnsuresCerts("app") \/ TrustsRoot("app") \/ NothingNeeded
  <2>1. UNCHANGED <<neededBind, relaunched>>
    BY <1>4 DEF EnsuresCerts, KeepsCerts, RejectsCerts, RemovesFile, CreatesAnew, CreatesFile,
                CertsCreated, TrustsRoot, ClearsCaFiles, CopiesRoot, WritesPolicy, RefreshesStore,
                NothingNeeded, appVars
  <2>2. CASE EnsuresCerts("app") \/ TrustsRoot("app")
    <3>1. /\ pc["app"] \in {"certs", "cleaning", "creating", "clearing", "copying", "policing", "refreshing"}
          /\ pc'["app"] # "asking"
      BY <1>1, <2>2 DEF EnsuresCerts, KeepsCerts, RejectsCerts, RemovesFile, CreatesAnew, CreatesFile,
                CertsCreated, TrustsRoot, ClearsCaFiles, CopiesRoot, WritesPolicy, RefreshesStore,
                Goes, AfterCerts, Phases, Processes, AppPhases
    <3> QED
      BY <1>1, <1>2, <1>3, <2>1, <3>1 DEF Capable
  <2>3. CASE NothingNeeded
    <3>1. cap /\ DnsReady /\ pc'["app"] = "certs"
      BY <1>1, <2>3 DEF NothingNeeded, Goes, Phases, Processes
    <3> QED
      BY <1>2, <1>3, <3>1 DEF Capable
  <2> QED
    BY <1>4, <2>2, <2>3
<1>5. CASE AppStarts \/ AppEnds
  <2>1. pc'["app"] = "off" \/ (pc'["app"] = "checking" /\ ~relaunched')
    BY <1>1, <1>5 DEF AppStarts, AppEnds, Goes, Phases, Processes
  <2> QED
    BY <1>3, <2>1 DEF Capable
<1>6. CASE Serves
  <2>1. pc["app"] = "binding" /\ pc'["app"] = "serving"
    BY <1>1, <1>6 DEF Serves, Goes, Phases, Processes
  <2> QED
    BY <1>1, <1>2, <1>3, <2>1 DEF Capable
<1>7. CASE AsksInstall
  <2>1. pc["app"] = "checking" /\ pc'["app"] = "asking" /\ (neededBind' <=> ~cap) /\ relaunched' = relaunched
    BY <1>1, <1>7 DEF AsksInstall, Phases, Processes
  <2>2. relaunched => cap
    BY <1>1, <2>1 DEF Capable
  <2> QED
    BY <1>2, <1>3, <2>1, <2>2 DEF Capable
<1>8. CASE InstallEnds
  <2>1. pc["root"] = "installed" /\ pc'["app"] \in {"checking", "certs"}
    BY <1>1, <1>8 DEF InstallEnds, Phases, Processes
  <2>2. cap /\ portFile \in Ports /\ conf = portFile
    BY <1>1, <2>1 DEF Capable, Routed
  <2>3. DnsReady
    BY <2>2, SystemSetupAssumption DEF DnsReady, DnsPort
  <2> QED
    BY <1>2, <1>3, <2>1, <2>2, <2>3 DEF Capable
<1> QED
  BY <1>4, <1>5, <1>6, <1>7, <1>8 DEF App

LEMMA CapableKept == IInv /\ Next => Capable'
<1> SUFFICES ASSUME IInv, Next PROVE Capable'
  OBVIOUS
<1>1. Phases /\ Capable
  BY DEF IInv, Types
<1>2. CASE RootCommand
  <2>1. /\ pc'["app"] = pc["app"] /\ pc["app"] \in {"off", "asking", "serving"}
        /\ UNCHANGED <<neededBind, relaunched>>
    BY <1>2, RootMoves
  <2>2. /\ cap => cap'
        /\ pc'["root"] \in {"clearing", "copying", "policing", "refreshing", "choosing", "truncating",
                            "configuring", "reloading", "opening", "persisting", "installed"} => cap'
    BY <1>2, RootCapable
  <2>3. pc'["app"] # "off" /\ relaunched' => cap'
    BY <1>1, <2>1, <2>2 DEF Capable
  <2>4. pc'["app"] = "asking" /\ neededBind' => ~relaunched'
    BY <1>1, <2>1 DEF Capable
  <2> QED
    BY <2>1, <2>2, <2>3, <2>4 DEF Capable
<1>3. CASE App
  BY <1>3, AppCapable
<1>4. CASE PortTaken \/ PortFreed \/ ExecutableReplaced \/ Reboots
  <2>1. /\ UNCHANGED <<pc, conf, portFile, neededBind, relaunched>>
        /\ cap' = cap \/ (pc["app"] = "off" /\ pc["root"] = "off")
    BY <1>4, SystemMoves DEF appVars
  <2>2. DnsReady' = DnsReady
    BY <2>1 DEF DnsReady, DnsPort
  <2>3. CASE cap' = cap
    BY <1>1, <2>1, <2>2, <2>3 DEF Capable
  <2>4. CASE pc["app"] = "off" /\ pc["root"] = "off"
    BY <2>1, <2>4 DEF Capable
  <2> QED
    BY <2>1, <2>3, <2>4
<1> QED
  BY <1>2, <1>3, <1>4 DEF Next

(* An app begins to serve with all that its steps made sure of.                     *)
LEMMA ServingKept == IInv /\ Next => ServesWhatIsInstalled'
<1> SUFFICES ASSUME IInv, Next PROVE ServesWhatIsInstalled'
  OBVIOUS
<1>1. Phases /\ ServesWhatIsInstalled
  BY DEF IInv, Types
<1>2. CASE RootCommand
  <2>1. pc'["app"] = pc["app"]
    BY <1>2, RootMoves
  <2>2. pc["app"] = "serving" => ~untouched'
    BY <1>2, RootMoves
  <2>3. pc'["app"] = "serving" => ~untouched'
    BY <2>1, <2>2
  <2> QED
    BY <2>3 DEF ServesWhatIsInstalled
<1>3. CASE Serves
  <2>1. /\ pc["app"] = "binding" /\ server' = DnsPort
        /\ UNCHANGED <<certVars, trustVars, dnsVars, cap>>
    BY <1>3 DEF Serves, Goes, systemVars
  <2>2. cap /\ DnsReady /\ HaveBase /\ RootInstalled
    BY <2>1 DEF IInv, Capable, Secured, Trusted, Processes
  <2>3. conf = DnsPort
    BY <2>2 DEF DnsReady
  <2>4. /\ DnsPort' = DnsPort /\ conf' = conf /\ cap' = cap
        /\ HaveBase' = HaveBase /\ RootInstalled' = RootInstalled
    BY <2>1 DEF certVars, trustVars, dnsVars, DnsPort, HaveBase, RootInstalled
  <2> QED
    BY <2>1, <2>2, <2>3, <2>4 DEF ServesWhatIsInstalled
<1>4. CASE App /\ ~Serves
  <2>1. pc'["app"] # "serving"
    <3>1. CASE EnsuresCerts("app") \/ TrustsRoot("app")
      BY <1>1, <3>1 DEF EnsuresCerts, KeepsCerts, RejectsCerts, RemovesFile, CreatesAnew, CreatesFile,
                CertsCreated, TrustsRoot, ClearsCaFiles, CopiesRoot, WritesPolicy, RefreshesStore,
                Goes, AfterCerts, Phases, Processes
    <3>2. CASE AppStarts \/ NothingNeeded \/ AsksInstall \/ InstallEnds \/ AppEnds
      BY <1>1, <3>2 DEF AppStarts, NothingNeeded, AsksInstall, InstallEnds, AppEnds, Goes, Phases, Processes
    <3> QED
      BY <1>4, <3>1, <3>2 DEF App
  <2> QED
    BY <2>1 DEF ServesWhatIsInstalled
<1>5. CASE PortTaken \/ PortFreed \/ ExecutableReplaced \/ Reboots
  <2>1. /\ UNCHANGED <<pc, certVars, trustVars, conf, portFile, appVars>>
        /\ cap' = cap \/ pc["app"] = "off"
    BY <1>5, SystemMoves
  <2>2. /\ pc' = pc /\ DnsPort' = DnsPort /\ conf' = conf /\ server' = server /\ untouched' = untouched
        /\ HaveBase' = HaveBase /\ RootInstalled' = RootInstalled
    BY <2>1 DEF certVars, trustVars, appVars, DnsPort, HaveBase, RootInstalled
  <2> QED
    BY <1>1, <2>1, <2>2 DEF ServesWhatIsInstalled
<1> QED
  BY <1>2, <1>3, <1>4, <1>5 DEF Next
-----------------------------------------------------------------------------
(* The invariant is inductive.                                               *)

LEMMA InitHolds == Init => IInv
<1> SUFFICES ASSUME Init PROVE IInv
  OBVIOUS
<1>1. pc = [p \in Processes |-> "off"] /\ pc["app"] = "off" /\ pc["root"] = "off"
  BY DEF Init, Processes
<1>2. Phases
  BY <1>1 DEF Phases, AppPhases, RootPhases
<1>3. 1 \in Gens /\ 0 \in 0..MaxGens /\ 1 \in 0..MaxGens
  BY SystemSetupAssumption DEF Gens
<1>4. CertTypes
  BY <1>3, OrderIs DEF Init, CertTypes, Nothing
<1>5. TrustTypes
  BY <1>3 DEF Init, TrustTypes, MaybeGen
<1>6. DnsTypes
  BY SystemSetupAssumption DEF Init, DnsTypes, MaybePort
<1>7. FlagTypes
  BY DEF Init, FlagTypes
<1>8. CertInv
  <2>1. CASE cert = Nothing
    BY <1>1, <2>1, SystemSetupAssumption, OrderIs DEF CertInv, Nothing, Gens
  <2>2. CASE cert = [[f \in Files |-> 1] EXCEPT !["version"] = Old] /\ gen = 1
    <3>1. \A f \in Files : (f = "version" => cert[f] = Old) /\ (f # "version" => cert[f] = 1)
      BY <2>2
    <3>2. cert["version"] \notin Gens
      BY <3>1, OrderIs, SystemSetupAssumption DEF Gens
    <3> QED
      BY <1>1, <2>2, <3>1, <3>2 DEF CertInv
  <2> QED
    BY <2>1, <2>2 DEF Init
<1>9. Alone /\ Secured /\ Trusted /\ Routed /\ Capable /\ Removed /\ ServesWhatIsInstalled
  BY <1>1 DEF Alone, Secured, Trusted, Routed, Capable, Removed, ServesWhatIsInstalled
<1> QED
  BY <1>2, <1>4, <1>5, <1>6, <1>7, <1>8, <1>9 DEF IInv, Types

LEMMA Inductive == IInv /\ [Next]_vars => IInv'
<1> SUFFICES ASSUME IInv, [Next]_vars PROVE IInv'
  OBVIOUS
<1>1. CASE Next
  <2>1. Phases'
    <3>1. CASE PortTaken \/ PortFreed \/ ExecutableReplaced \/ Reboots
      BY <3>1, SystemMoves DEF IInv, Types, Phases
    <3> QED
      BY <1>1, <3>1, RootMoves, AppMoves DEF Next
  <2> QED
    BY <1>1, <2>1, FilesKept, TrustTypesKept, DnsTypesKept, FlagTypesKept, AloneKept, TrustedKept,
       RoutedKept, CapableKept, RemovedKept, ServingKept DEF IInv, Types
<1>2. CASE UNCHANGED vars
  <2>1. UNCHANGED <<pc, cert, gen, caFile, policy, store, cap, conf, resolver, portFile, chosen, server,
                    busy, neededBind, relaunched, untouched>>
    BY <1>2 DEF vars, certVars, trustVars, dnsVars, appVars, systemVars
  <2>2. Types' /\ Alone' /\ CertInv' /\ Secured'
    BY <2>1 DEF IInv, Types, Phases, CertTypes, TrustTypes, DnsTypes, FlagTypes, Alone, CertInv, Secured, HaveBase
  <2>3. Trusted' /\ Routed' /\ Capable' /\ Removed' /\ ServesWhatIsInstalled'
    BY <2>1 DEF IInv, Trusted, RootInstalled, Routed, Capable, DnsReady, DnsPort, Removed,
                ServesWhatIsInstalled, HaveBase
  <2> QED
    BY <2>2, <2>3 DEF IInv
<1> QED
  BY <1>1, <1>2

THEOREM Invariance == Spec => []IInv
BY InitHolds, Inductive, PTL DEF Spec
-----------------------------------------------------------------------------

(* The variables keep their types: what is installed as the root certificate is always *)
(* one that was written whole.                                                  *)
THEOREM TypeCorrect == Spec => []TypeOK
<1>1. ASSUME IInv PROVE TypeOK
  <2>1. Phases /\ CertTypes /\ TrustTypes /\ DnsTypes /\ FlagTypes
    BY <1>1 DEF IInv, Types
  <2> QED
    BY <2>1 DEF TypeOK, Phases, AppPhases, RootPhases, CertTypes, TrustTypes, DnsTypes, FlagTypes
<1> QED
  BY <1>1, Invariance, PTL

(* For any number of generations: certificates that ensure_certs accepts belong        *)
(* together and are whole, wherever an earlier run of it or a removal was cut off.     *)
THEOREM CertsTogether == Spec => []CertsBelongTogether
<1>1. ASSUME IInv PROVE CertsBelongTogether
  BY <1>1, BaseIsWhole DEF IInv, Types, CertsBelongTogether
<1> QED
  BY <1>1, Invariance, PTL

(* For every set of ports: an app that serves and was left alone since listens on the   *)
(* port that is configured and presents certificates whose root is the one installed.  *)
THEOREM ServesInstalled == Spec => []ServesWhatIsInstalled
<1>1. IInv => ServesWhatIsInstalled
  BY DEF IInv
<1> QED
  BY <1>1, Invariance, PTL

(* A removal that ends well leaves nothing behind.                                *)
THEOREM UninstallClean == Spec => []UninstallLeavesNothing
<1>1. IInv => UninstallLeavesNothing
  BY DEF IInv, Removed, UninstallLeavesNothing
<1> QED
  BY <1>1, Invariance, PTL

(* An app that was started again by itself does not ask for the capability once more.   *)
THEOREM RelaunchedOnce == Spec => RelaunchesOnce
<1>1. IInv /\ [Next]_vars => [InstallEnds /\ neededBind => ~relaunched]_vars
  BY DEF IInv, Capable, InstallEnds
<1> QED
  BY <1>1, Invariance, PTL DEF Spec, RelaunchesOnce
=============================================================================
