------------------------------ MODULE SystemSetup ------------------------------
(***************************************************************************)
(* System integration on Linux (src/app_setup.rs, src/dns.rs, src/certs.rs   *)
(* and the system commands of src/main.rs): the certificate files, the trust *)
(* of the root certificate, the routing of .eth and .wei to the local DNS    *)
(* server, and the capability to bind port 443.                             *)
(*                                                                         *)
(* Two processes take the steps: the app when it starts, and a root command, *)
(* system install or uninstall, which the app asks for or the user types.    *)
(* Any step may be the last one of its process.  Commands of the user do not  *)
(* overlap with each other or with the start of the app.                     *)
(***************************************************************************)
EXTENDS Naturals

CONSTANTS
    Ports,          \* UDP ports
    DefaultPort,    \* DEFAULT_DNS_PORT
    None,           \* no file, no port
    Empty,          \* a file that was opened and not yet written
    Old,            \* the version file of an older program
    MaxGens         \* bound: how many sets of certificates are made

Gens == 1..MaxGens

ASSUME SystemSetupAssumption ==
    /\ DefaultPort \in Ports
    /\ None # Empty /\ {None, Empty} \intersect Ports = {}
    /\ MaxGens \in Nat \ {0}
    /\ {None, Empty, Old} \intersect Nat = {}

VARIABLES
    pc,             \* where the app and the root command are
    cert,           \* what each certificate file holds: the generation it belongs to
    gen,            \* the newest generation
    caFile,         \* the generation whose root certificate is in CA_CERT_DIR
    policy,         \* the generation the policy of Firefox names
    store,          \* external: the generation the CA store of the system trusts
    cap,            \* the executable has CAP_NET_BIND_SERVICE
    conf,           \* the port in SYSTEMD_RESOLVED_CONF
    resolver,       \* external: the port systemd-resolved sends .eth and .wei to
    portFile,       \* the port in dns-port
    chosen,         \* the port an installation has selected
    server,         \* the port the DNS server is bound to
    busy,           \* external: the ports of other programs
    neededBind,     \* needs_https_bind of the app that asked
    relaunched,     \* ghost: the app was started by itself
    untouched       \* ghost: no command was run since the app serves

certVars == <<cert, gen>>
trustVars == <<caFile, policy, store>>
dnsVars == <<conf, resolver, portFile>>
appVars == <<server, neededBind, relaunched, untouched>>
systemVars == <<cap, busy, chosen>>
vars == <<pc, certVars, trustVars, dnsVars, appVars, systemVars>>
-----------------------------------------------------------------------------
Processes == {"app", "root"}

\* The files in the order in which they are made; an intermediate stands for both of
\* them and their keys.
Order == <<"root", "intermediate", "key", "leaf", "version">>
Files == {Order[i] : i \in DOMAIN Order}
Nothing == [f \in Files |-> None]

MaybePort == Ports \union {None}
MaybeGen == Gens \union {None}

TypeOK ==
    /\ pc \in [Processes -> {"off", "checking", "asking", "certs", "cleaning", "creating",
                             "capping", "clearing", "copying", "policing", "refreshing", "choosing",
                             "truncating", "configuring", "reloading", "opening", "persisting", "binding", "serving",
                             "unconfiguring", "unloading", "unpersisting", "unpolicing",
                             "unclearing", "unrefreshing", "removing",
                             "installed", "uninstalled", "failed"}]
    /\ cert \in [Files -> Gens \union {None, Empty, Old}]
    /\ gen \in 0..MaxGens
    /\ caFile \in MaybeGen /\ policy \in MaybeGen /\ store \in MaybeGen
    /\ conf \in MaybePort /\ resolver \in MaybePort
    /\ portFile \in MaybePort \union {Empty}
    /\ chosen \in MaybePort /\ server \in MaybePort
    /\ busy \subseteq Ports
    /\ {cap, neededBind, relaunched, untouched} \subseteq BOOLEAN

\* Nothing is installed, or all of it by a program with an older certificate schema.
Init ==
    /\ pc = [p \in Processes |-> "off"]
    /\ \/ /\ cert = Nothing /\ gen = 0 /\ caFile = None /\ policy = None /\ store = None
          /\ cap = FALSE /\ conf = None /\ resolver = None /\ portFile = None
       \/ /\ cert = [[f \in Files |-> 1] EXCEPT !["version"] = Old]
          /\ gen = 1 /\ caFile = 1 /\ policy = 1 /\ store = 1
          /\ cap = TRUE /\ conf = DefaultPort /\ resolver = DefaultPort /\ portFile = DefaultPort
    /\ chosen = None /\ server = None
    /\ busy = {}
    /\ neededBind = FALSE /\ relaunched = FALSE /\ untouched = FALSE
-----------------------------------------------------------------------------
(* What the code asks of the system *)

\* ensure_certs: every file exists and the schema is the one of this program.
HaveBase == (\A f \in Files : cert[f] # None) /\ cert["version"] \in Gens

\* is_root_installed_linux: a file named for the fingerprint, and a policy that names it.
RootInstalled == cert["root"] \in Gens /\ caFile = cert["root"] /\ policy = caFile

\* dns_port and dns_ready; a port file that does not parse is an error to both.
DnsPort == IF portFile = None THEN DefaultPort ELSE portFile
DnsReady == portFile # Empty /\ conf = DnsPort
Available == {port \in Ports \ busy : port # server}

Goes(p, here, there) == pc[p] = here /\ pc' = [pc EXCEPT ![p] = there]
-----------------------------------------------------------------------------
(* ensure_certs *)

AfterCerts(p) == IF p = "root" THEN "capping" ELSE IF RootInstalled THEN "binding" ELSE "clearing"

\* Mutant: files are kept without a look at them.
KeepsAnything(p) ==
    /\ Goes(p, "certs", AfterCerts(p))
    /\ UNCHANGED <<certVars, trustVars, dnsVars, appVars, systemVars>>

\* What is complete is kept, anything else is removed first.
KeepsCerts(p) ==
    /\ HaveBase
    /\ Goes(p, "certs", AfterCerts(p))
    /\ UNCHANGED <<certVars, trustVars, dnsVars, appVars, systemVars>>

RejectsCerts(p) ==
    /\ ~HaveBase
    /\ Goes(p, "certs", "cleaning")
    /\ UNCHANGED <<certVars, trustVars, dnsVars, appVars, systemVars>>

\* remove_dir_all takes the files in the order of the directory.
RemovesFile(p) ==
    /\ pc[p] \in {"cleaning", "removing"}
    /\ \E f \in Files : cert[f] # None /\ cert' = [cert EXCEPT ![f] = None]
    /\ UNCHANGED <<pc, gen, trustVars, dnsVars, appVars, systemVars>>

\* Mutant: files that exist are kept.
CreatesMissing(p) ==
    /\ gen < MaxGens
    /\ Goes(p, "cleaning", "creating")
    /\ gen' = gen + 1
    /\ UNCHANGED <<cert, trustVars, dnsVars, appVars, systemVars>>

CreatesAnew(p) ==
    /\ cert = Nothing
    /\ gen < MaxGens
    /\ Goes(p, "cleaning", "creating")
    /\ gen' = gen + 1
    /\ UNCHANGED <<cert, trustVars, dnsVars, appVars, systemVars>>

\* write_pem_file opens and truncates a file, and then writes it.
CreatesFile(p) ==
    /\ pc[p] = "creating"
    /\ \E i \in DOMAIN Order :
          /\ \A j \in 1..(i - 1) : cert[Order[j]] \in Gens
          /\ \/ cert[Order[i]] = None /\ cert' = [cert EXCEPT ![Order[i]] = Empty]
             \/ cert[Order[i]] = Empty /\ cert' = [cert EXCEPT ![Order[i]] = gen]
    /\ UNCHANGED <<pc, gen, trustVars, dnsVars, appVars, systemVars>>

CertsCreated(p) ==
    /\ cert["version"] = gen
    /\ Goes(p, "creating", AfterCerts(p))
    /\ UNCHANGED <<certVars, trustVars, dnsVars, appVars, systemVars>>

EnsuresCerts(p) ==
    KeepsCerts(p) \/ RejectsCerts(p) \/ RemovesFile(p) \/ CreatesAnew(p) \/ CreatesFile(p) \/ CertsCreated(p)
-----------------------------------------------------------------------------
(* install_root_linux *)

ClearsCaFiles(p) ==
    /\ Goes(p, "clearing", "copying")
    /\ caFile' = None
    /\ UNCHANGED <<certVars, policy, store, dnsVars, appVars, systemVars>>

CopiesRoot(p) ==
    /\ Goes(p, "copying", "policing")
    /\ caFile' = cert["root"]
    /\ UNCHANGED <<certVars, policy, store, dnsVars, appVars, systemVars>>

WritesPolicy(p) ==
    /\ Goes(p, "policing", "refreshing")
    /\ policy' = cert["root"]
    /\ UNCHANGED <<certVars, caFile, store, dnsVars, appVars, systemVars>>

RefreshesStore(p) ==
    /\ Goes(p, "refreshing", IF p = "root" THEN "choosing" ELSE "binding")
    /\ store' = caFile
    /\ UNCHANGED <<certVars, caFile, policy, dnsVars, appVars, systemVars>>

TrustsRoot(p) == ClearsCaFiles(p) \/ CopiesRoot(p) \/ WritesPolicy(p) \/ RefreshesStore(p)
-----------------------------------------------------------------------------
(* ensure_dns_setup_noninteractive *)

Preferred == IF portFile \in Ports THEN portFile ELSE DefaultPort

\* Mutant: a configuration that exists is taken to route.
ChoosesAndKeepsConf ==
    /\ \E port \in Available :
          /\ Preferred \in Available => port = Preferred
          /\ chosen' = port
          /\ Goes("root", "choosing", IF conf # None THEN "opening" ELSE "truncating")
    /\ UNCHANGED <<certVars, trustVars, dnsVars, appVars, cap, busy>>

\* selected_dns_port_for_install; a port that routes already needs no new file.
ChoosesPort ==
    /\ \E port \in Available :
          /\ Preferred \in Available => port = Preferred
          /\ chosen' = port
          /\ Goes("root", "choosing", IF conf = port THEN "opening" ELSE "truncating")
    /\ UNCHANGED <<certVars, trustVars, dnsVars, appVars, cap, busy>>

\* fs::write truncates the file and then writes it; an empty one routes nothing.
TruncatesConf ==
    /\ Goes("root", "truncating", "configuring")
    /\ conf' = None
    /\ UNCHANGED <<certVars, trustVars, resolver, portFile, appVars, systemVars>>

WritesConf ==
    /\ Goes("root", "configuring", "reloading")
    /\ conf' = chosen
    /\ UNCHANGED <<certVars, trustVars, resolver, portFile, appVars, systemVars>>

ReloadsResolver ==
    /\ Goes("root", "reloading", "opening")
    /\ resolver' = conf
    /\ UNCHANGED <<certVars, trustVars, conf, portFile, appVars, systemVars>>

TruncatesPort ==
    /\ Goes("root", "opening", "persisting")
    /\ portFile' = Empty
    /\ UNCHANGED <<certVars, trustVars, conf, resolver, appVars, systemVars>>

\* "NeoMist system integration installed."
PersistsPort ==
    /\ Goes("root", "persisting", "installed")
    /\ portFile' = chosen
    /\ chosen' = None
    /\ UNCHANGED <<certVars, trustVars, conf, resolver, appVars, cap, busy>>

RoutesDns ==
    ChoosesPort \/ TruncatesConf \/ WritesConf \/ ReloadsResolver \/ TruncatesPort \/ PersistsPort
-----------------------------------------------------------------------------
(* The root command *)

\* The app starts no command but the one it asks for; the user starts one while the app
\* is off or serves.
AppAtRest == pc["app"] \in {"off", "serving"}

UserInstalls ==
    /\ AppAtRest
    /\ Goes("root", "off", "certs")
    /\ untouched' = FALSE
    /\ UNCHANGED <<certVars, trustVars, dnsVars, server, neededBind, relaunched, systemVars>>

UserUninstalls ==
    /\ AppAtRest
    /\ Goes("root", "off", "unconfiguring")
    /\ untouched' = FALSE
    /\ UNCHANGED <<certVars, trustVars, dnsVars, server, neededBind, relaunched, systemVars>>

\* Mutant: setcap is left to whoever makes the certificates.
SkipsCapability ==
    /\ Goes("root", "capping", "clearing")
    /\ cap' = (cap \/ caFile = None)
    /\ UNCHANGED <<certVars, trustVars, dnsVars, appVars, busy, chosen>>

GrantsCapability ==
    /\ Goes("root", "capping", "clearing")
    /\ cap' = TRUE
    /\ UNCHANGED <<certVars, trustVars, dnsVars, appVars, busy, chosen>>

RemovesConf ==
    /\ Goes("root", "unconfiguring", "unloading")
    /\ conf' = None
    /\ UNCHANGED <<certVars, trustVars, resolver, portFile, appVars, systemVars>>

UnloadsResolver ==
    /\ Goes("root", "unloading", "unpersisting")
    /\ resolver' = conf
    /\ UNCHANGED <<certVars, trustVars, conf, portFile, appVars, systemVars>>

RemovesPort ==
    /\ Goes("root", "unpersisting", "unpolicing")
    /\ portFile' = None
    /\ UNCHANGED <<certVars, trustVars, conf, resolver, appVars, systemVars>>

RemovesPolicy ==
    /\ Goes("root", "unpolicing", "unclearing")
    /\ policy' = None
    /\ UNCHANGED <<certVars, caFile, store, dnsVars, appVars, systemVars>>

\* Mutant: only the policy of Firefox forgets the root.
RemovesCaFilesLate ==
    /\ Goes("root", "unclearing", "unrefreshing")
    /\ UNCHANGED <<certVars, trustVars, dnsVars, appVars, systemVars>>

RemovesCaFiles ==
    /\ Goes("root", "unclearing", "unrefreshing")
    /\ caFile' = None
    /\ UNCHANGED <<certVars, policy, store, dnsVars, appVars, systemVars>>

UnrefreshesStore ==
    /\ Goes("root", "unrefreshing", "removing")
    /\ store' = caFile
    /\ UNCHANGED <<certVars, caFile, policy, dnsVars, appVars, systemVars>>

\* "Uninstall complete"
UninstallEnds ==
    /\ cert = Nothing
    /\ Goes("root", "removing", "uninstalled")
    /\ UNCHANGED <<certVars, trustVars, dnsVars, appVars, systemVars>>

\* A step fails or the command is killed.
RootFails ==
    /\ pc["root"] \notin {"off", "installed", "uninstalled", "failed"}
    /\ pc' = [pc EXCEPT !["root"] = "failed"]
    /\ chosen' = None
    /\ UNCHANGED <<certVars, trustVars, dnsVars, appVars, cap, busy>>

\* Nobody waits for the command.
RootExits ==
    /\ pc["root"] \in {"installed", "uninstalled", "failed"} /\ pc["app"] # "asking"
    /\ pc' = [pc EXCEPT !["root"] = "off"]
    /\ UNCHANGED <<certVars, trustVars, dnsVars, appVars, systemVars>>

RootCommand ==
    \/ UserInstalls \/ EnsuresCerts("root") \/ GrantsCapability \/ TrustsRoot("root") \/ RoutesDns
    \/ UserUninstalls \/ RemovesConf \/ UnloadsResolver \/ RemovesPort
    \/ RemovesPolicy \/ RemovesCaFiles \/ UnrefreshesStore \/ UninstallEnds
    \/ RootFails \/ RootExits
-----------------------------------------------------------------------------
(* The app *)

AppStarts ==
    /\ pc["root"] = "off"
    /\ Goes("app", "off", "checking")
    /\ relaunched' = FALSE
    /\ UNCHANGED <<certVars, trustVars, dnsVars, server, neededBind, untouched, systemVars>>

\* maybe_install_linux_system_integration finds nothing to do, nor does maybe_install_dns.
NothingNeeded ==
    /\ cap /\ DnsReady /\ RootInstalled
    /\ Goes("app", "checking", "certs")
    /\ UNCHANGED <<certVars, trustVars, dnsVars, appVars, systemVars>>

\* The user agrees, and the app waits for system install.
AsksInstall ==
    /\ pc["app"] = "checking" /\ pc["root"] = "off"
    /\ ~(cap /\ DnsReady /\ RootInstalled)
    /\ pc' = [pc EXCEPT !["app"] = "asking", !["root"] = "certs"]
    /\ neededBind' = ~cap
    /\ UNCHANGED <<certVars, trustVars, dnsVars, server, relaunched, untouched, systemVars>>

\* The command ended well.  The app is started again when it needed the capability, and
\* else goes on to its certificates: maybe_install_dns finds DNS ready.
InstallEnds ==
    /\ pc["app"] = "asking" /\ pc["root"] = "installed"
    /\ pc' = [app |-> IF neededBind THEN "checking" ELSE "certs", root |-> "off"]
    /\ relaunched' = (relaunched \/ neededBind)
    /\ UNCHANGED <<certVars, trustVars, dnsVars, server, neededBind, untouched, systemVars>>

\* An error that ends the app, which is what a command that failed is to it, and Quit.
AppEnds ==
    /\ pc["app"] # "off"
    /\ pc' = [pc EXCEPT !["app"] = "off"]
    /\ server' = None
    /\ neededBind' = FALSE
    /\ untouched' = FALSE
    /\ UNCHANGED <<certVars, trustVars, dnsVars, relaunched, systemVars>>

\* run_dns_server binds the port of the file; a port in use ends the app (AppEnds).
Serves ==
    /\ portFile # Empty /\ DnsPort \notin busy
    /\ Goes("app", "binding", "serving")
    /\ server' = DnsPort
    /\ untouched' = TRUE
    /\ UNCHANGED <<certVars, trustVars, dnsVars, neededBind, relaunched, systemVars>>

App ==
    \/ AppStarts \/ NothingNeeded \/ AsksInstall \/ InstallEnds \/ EnsuresCerts("app")
    \/ TrustsRoot("app") \/ Serves \/ AppEnds
-----------------------------------------------------------------------------
(* The system *)

PortTaken ==
    /\ \E port \in Ports \ busy : port # server /\ busy' = busy \union {port}
    /\ UNCHANGED <<pc, certVars, trustVars, dnsVars, appVars, cap, chosen>>

PortFreed ==
    /\ \E port \in busy : busy' = busy \ {port}
    /\ UNCHANGED <<pc, certVars, trustVars, dnsVars, appVars, cap, chosen>>

\* A new version replaces the executable, and file capabilities go with the old one.
ExecutableReplaced ==
    /\ pc["app"] = "off" /\ pc["root"] = "off"
    /\ cap' = FALSE
    /\ UNCHANGED <<pc, certVars, trustVars, dnsVars, appVars, busy, chosen>>

\* systemd-resolved reads its configuration when the machine starts.
Reboots ==
    /\ pc = [p \in Processes |-> "off"]
    /\ resolver' = conf
    /\ UNCHANGED <<pc, certVars, trustVars, conf, portFile, appVars, systemVars>>

Next == RootCommand \/ App \/ PortTaken \/ PortFreed \/ ExecutableReplaced \/ Reboots

Spec == Init /\ [][Next]_vars
-----------------------------------------------------------------------------
(* Properties *)

\* Certificates that ensure_certs accepts belong together and are whole, wherever an
\* earlier run of it or a removal was cut off.
CertsBelongTogether == HaveBase => \A f, g \in Files : cert[f] = cert[g] /\ cert[f] \in Gens

\* An app that serves, and was left alone since, listens on the port that is configured,
\* and presents certificates whose root is the one installed, whatever earlier
\* installations, removals and starts were cut off before it.
ServesWhatIsInstalled ==
    pc["app"] = "serving" /\ untouched =>
        /\ cap
        /\ conf = server /\ DnsPort = server
        /\ HaveBase /\ RootInstalled

\* A removal that ends well leaves nothing behind, not even in what the system has loaded.
UninstallLeavesNothing ==
    pc["root"] = "uninstalled" =>
        /\ cert = Nothing
        /\ caFile = None /\ policy = None /\ store = None
        /\ conf = None /\ resolver = None /\ portFile = None

\* An app that was started again by itself does not ask for the capability once more.
RelaunchesOnce == [][InstallEnds /\ neededBind => ~relaunched]_vars

\* What system install says when it ends: "NeoMist system integration installed.", and
\* .eth and .wei are routed to the port that the app will listen on.
InstalledIsRouted == pc["root"] = "installed" => resolver = DnsPort
=============================================================================
