------------------------------- MODULE HttpsServer -------------------------------
(***************************************************************************)
(* The HTTPS server on the loopback interface (src/http_server.rs): browsers    *)
(* resolve a name, connect, agree on a certificate that is made when a name is  *)
(* seen for the first time (src/certs.rs), and send requests one after the      *)
(* other, which go by their host to the dashboard and its RPC endpoint, to Kubo, *)
(* or to the site handler (RequestHandlers has that one in full).               *)
(*                                                                         *)
(* A wildcard certificate is checked for, created and read in single steps of   *)
(* the file system, in which handshakes interleave and the program may end.      *)
(***************************************************************************)
EXTENDS LocalHosts, FiniteSets

CONSTANTS
    Connections,    \* the connections that may be open at the same time
    Talkers,        \* bound: the connections that go on to send requests
    Hosts,          \* bound: the hosts a browser asks for
    Pages           \* bound: the hosts of the pages that requests come from

ASSUME HttpsServerAssumption ==
    /\ Talkers \subseteq Connections /\ Pages \subseteq Hosts
    /\ Hosts \subseteq Seq(STRING) \ {<<>>}

VARIABLES
    conn,           \* each connection
    leaf,           \* the file of each wildcard certificate
    damaged         \* ghost: a creation of it was cut off or failed

vars == <<conn, leaf, damaged>>

Patterns == {base_domain_pattern(name) : name \in {n \in {ServerName(h) : h \in Hosts} : ChainKind(n) = "wildcard"}}

NoHost == <<>>
NoLeaf == Leaf({}, {})              \* what is read of a leaf that is still empty
NoRequest == [path |-> "none", host |-> NoHost]
NoResponse == [status |-> 0, by |-> "nobody", readable |-> FALSE]
Closed == [phase |-> "closed", host |-> NoHost, leaf |-> NoLeaf, excused |-> FALSE,
           request |-> NoRequest, response |-> NoResponse]

(* Origins: https pages, one that is not, and none at all.                        *)
NoOrigin == [https |-> FALSE, host |-> NoHost]
Origins == {NoOrigin} \cup [https : BOOLEAN, host : Pages]

(* What the handlers tell apart.  "change": the POSTs that change something;       *)
(* "webui": /webui of Kubo; "page": anything else.  The router goes by the host     *)
(* that the request names; an old client names none.                             *)
Requests(host) ==
    [path : {"rpc", "preflight", "change"}, origin : Origins, host : {host}]
        \cup [path : {"webui", "page"}, origin : {NoOrigin}, host : {host, NoHost}, html : BOOLEAN]

Init ==
    /\ conn = [c \in Connections |-> Closed]
    /\ leaf = [p \in Patterns |-> "absent"]
    /\ damaged = [p \in Patterns |-> FALSE]

At(c, phase) == conn[c].phase = phase
Becomes(c, phase) == conn' = [conn EXCEPT ![c].phase = phase]
Pattern(c) == base_domain_pattern(ServerName(conn[c].host))

----------------------------------------------------------------------------
(* From the name to the connection.                                          *)

(* The system asks the DNS server for .eth and .wei; localhost it knows itself.   *)
LivesHere(h) == IsDnsName(h) /\ (ServerName(h)[1] = "localhost" \/ matches_zone(h))

Resolves(c) ==
    /\ At(c, "closed")
    /\ \E h \in Hosts :
          conn' = [conn EXCEPT ![c] =
              [Closed EXCEPT !.phase = IF LivesHere(h) THEN "connected" ELSE "elsewhere", !.host = h]]
    /\ UNCHANGED <<leaf, damaged>>

(* A peer that is not on the loopback interface is turned away.                   *)
Rejects(c) ==
    /\ At(c, "connected")
    /\ Becomes(c, "rejected")
    /\ UNCHANGED <<leaf, damaged>>

----------------------------------------------------------------------------
(* The handshake: CertResolver, get_chain_for_host, load_or_create_wildcard.  A    *)
(* browser asks for the name without the root's dot (RFC 6066).                  *)

Offers(c, l, excused) ==
    conn' = [conn EXCEPT ![c].phase = "offered", ![c].leaf = l, ![c].excused = excused]

OffersLocal(c) ==
    /\ At(c, "connected") /\ ChainKind(ServerName(conn[c].host)) = "local"
    /\ Offers(c, LocalLeaf, FALSE)
    /\ UNCHANGED <<leaf, damaged>>

NoCertificate(c) ==
    /\ At(c, "connected") /\ ChainKind(ServerName(conn[c].host)) = "unsupported"
    /\ Becomes(c, "refused")
    /\ UNCHANGED <<leaf, damaged>>

LooksForLeaf(c) ==
    /\ At(c, "connected") /\ ChainKind(ServerName(conn[c].host)) = "wildcard"
    /\ Becomes(c, IF leaf[Pattern(c)] = "absent" THEN "creating" ELSE "loading")
    /\ UNCHANGED <<leaf, damaged>>

Truncates(c) ==
    /\ At(c, "creating")
    /\ leaf' = [leaf EXCEPT ![Pattern(c)] = "empty"]
    /\ Becomes(c, "writing")
    /\ UNCHANGED damaged

(* Whoever writes last writes a certificate for the same names and the same key.   *)
Writes(c) ==
    /\ At(c, "writing")
    /\ leaf' = [leaf EXCEPT ![Pattern(c)] = "whole"]
    /\ Becomes(c, "loading")
    /\ UNCHANGED damaged

(* The signer or the key cannot be read, or the disk is full.                     *)
CreationFails(c) ==
    /\ conn[c].phase \in {"creating", "writing"}
    /\ conn' = [conn EXCEPT ![c].phase = "refused", ![c].excused = TRUE]
    /\ damaged' = [damaged EXCEPT ![Pattern(c)] = @ \/ At(c, "writing")]
    /\ UNCHANGED leaf

(* An empty file parses as no certificate: the chain begins with the intermediate. *)
LoadsLeaf(c) ==
    /\ At(c, "loading") /\ leaf[Pattern(c)] # "absent"
    /\ Offers(c, IF leaf[Pattern(c)] = "whole" THEN WildcardLeaf(Pattern(c)) ELSE NoLeaf,
              \/ damaged[Pattern(c)]
              \/ \E d \in Connections : At(d, "writing") /\ Pattern(d) = Pattern(c))
    /\ UNCHANGED <<leaf, damaged>>

(* A file of the chain, or the key, cannot be read.                              *)
CannotLoad(c) ==
    /\ At(c, "loading") \/ (At(c, "connected") /\ ChainKind(ServerName(conn[c].host)) = "local")
    /\ conn' = [conn EXCEPT ![c].phase = "refused", ![c].excused = TRUE]
    /\ UNCHANGED <<leaf, damaged>>

(* The browser accepts a leaf that covers the host.                              *)
Verifies(c) ==
    /\ At(c, "offered")
    /\ IF Covers(conn[c].leaf, ServerName(conn[c].host))
       THEN conn' = [conn EXCEPT ![c] = [Closed EXCEPT !.phase = "open", !.host = conn[c].host]]
       ELSE Becomes(c, "refused")
    /\ UNCHANGED <<leaf, damaged>>

----------------------------------------------------------------------------
(* Requests.                                                                *)

Sends(c) ==
    /\ At(c, "open") /\ c \in Talkers
    /\ \E r \in Requests(conn[c].host) :
          conn' = [conn EXCEPT ![c].phase = "asked", ![c].request = r]
    /\ UNCHANGED <<leaf, damaged>>

Answers(c, status, by, readable) ==
    /\ conn' = [conn EXCEPT ![c].phase = "answered",
                            ![c].response = [status |-> status, by |-> by, readable |-> readable]]
    /\ UNCHANGED <<leaf, damaged>>

Asks(c, to, paths) == At(c, "asked") /\ route(conn[c].request.host) = to /\ conn[c].request.path \in paths
Origin(c) == conn[c].request.origin

(* url_header_matches_host.                                                  *)
MatchesUi(origin) == origin.https /\ origin.host = Neomist
MatchesRpc(origin) == origin.https /\ is_allowed_rpc_origin_host(origin.host)

UnknownHost(c) ==
    /\ At(c, "asked") /\ route(conn[c].request.host) = "unknown"
    /\ Answers(c, 404, "server", FALSE)

UiAnswers(c) ==
    /\ Asks(c, "ui", {"webui", "page"})
    /\ \E status \in {200, 404} : Answers(c, status, "dashboard", FALSE)

(* require_neomist_ui_request, with the origin or else the page that refers.      *)
ChangeAnswered(c) ==
    /\ Asks(c, "ui", {"change"})
    /\ \E referer \in Origins, done \in {200, 400, 500} :
          Answers(c, IF MatchesUi(IF Origin(c) # NoOrigin THEN Origin(c) ELSE referer) THEN done ELSE 403,
                  "dashboard", FALSE)

(* A configuration that is no JSON does not come to the handler.                  *)
ChangeMalformed(c) ==
    /\ Asks(c, "ui", {"change"})
    /\ \E status \in {400, 415, 422} : Answers(c, status, "server", FALSE)

(* Mutant: the route of /rpc has no handler of OPTIONS.                           *)
PreflightUnrouted(c) ==
    /\ Asks(c, "ui", {"preflight"})
    /\ Answers(c, 405, "rpc", FALSE)

PreflightAnswered(c) ==
    /\ Asks(c, "ui", {"preflight"})
    /\ IF MatchesRpc(Origin(c)) THEN Answers(c, 204, "rpc", TRUE) ELSE Answers(c, 403, "rpc", FALSE)

(* A body that is too large does not come to the handler.                        *)
RpcTooLarge(c) ==
    /\ Asks(c, "ui", {"rpc"})
    /\ Answers(c, 413, "server", FALSE)

(* rpc_cors_origin.  A program that sends no origin is not a page.                *)
RpcRefuses(c) ==
    /\ Asks(c, "ui", {"rpc"})
    /\ Origin(c) # NoOrigin /\ ~MatchesRpc(Origin(c))
    /\ Answers(c, 403, "rpc", FALSE)

(* Mutant: build_rpc_response is given no origin where Helios is out of reach.     *)
RpcAnswersBare(c) ==
    /\ Asks(c, "ui", {"rpc"})
    /\ Origin(c) = NoOrigin \/ MatchesRpc(Origin(c))
    /\ \E status \in {200, 400, 502} :
          Answers(c, status, "rpc", Origin(c) # NoOrigin /\ status # 502)

(* The answer of Helios, or 502 when it is out of reach or its answer breaks off.  *)
RpcAnswers(c) ==
    /\ Asks(c, "ui", {"rpc"})
    /\ Origin(c) = NoOrigin \/ MatchesRpc(Origin(c))
    /\ \E status \in {200, 400, 502} : Answers(c, status, "rpc", Origin(c) # NoOrigin)

(* ens_lookup adds the headers that let the dashboard read the answer.            *)
SiteAnswers(c) ==
    /\ At(c, "asked") /\ route(conn[c].request.host) = "site"
    /\ \E status \in {200, 404, 502} : Answers(c, status, "site", MatchesUi(Origin(c)))

WebuiRedirects(c) ==
    /\ Asks(c, "api", {"webui"})
    /\ Answers(c, 307, "server", FALSE)

(* proxy_ipfs_request.  Only the gateway has error pages; what cannot be read,     *)
(* sent or received is answered by the proxy itself.                             *)
KuboAnswers(c) ==
    /\ \/ Asks(c, "gateway", {"webui", "page", "rpc", "preflight", "change"})
       \/ Asks(c, "api", {"page", "rpc", "preflight", "change"})
    /\ LET gateway == route(conn[c].request.host) = "gateway"
           html == gateway /\ conn[c].request.path \in {"webui", "page"} /\ conn[c].request.html
       IN  \/ Answers(c, 400, "server", gateway /\ MatchesUi(Origin(c)))
           \/ \E status \in {500, 502} :
                 Answers(c, status, IF html THEN "errorPage" ELSE "server", gateway /\ MatchesUi(Origin(c)))
           \/ \E status \in {200, 404, 500} :
                 Answers(c, status, IF html /\ status >= 400 THEN "errorPage" ELSE "kubo",
                         gateway /\ MatchesUi(Origin(c)))

Handles(c) ==
    \/ UnknownHost(c) \/ UiAnswers(c) \/ ChangeAnswered(c) \/ ChangeMalformed(c) \/ PreflightAnswered(c)
    \/ RpcTooLarge(c) \/ RpcRefuses(c) \/ RpcAnswers(c) \/ SiteAnswers(c) \/ WebuiRedirects(c) \/ KuboAnswers(c)

(* The connection is kept for the next request.                                  *)
Received(c) ==
    /\ At(c, "answered")
    /\ conn' = [conn EXCEPT ![c].phase = "open", ![c].request = NoRequest, ![c].response = NoResponse]
    /\ UNCHANGED <<leaf, damaged>>

Closes(c) ==
    /\ conn[c].phase \in {"elsewhere", "rejected", "refused", "open"}
    /\ conn' = [conn EXCEPT ![c] = Closed]
    /\ UNCHANGED <<leaf, damaged>>

(* The program ends and starts again: a creation is cut off where it is; when the   *)
(* base certificates are made anew the others are removed.                       *)
Restarts ==
    /\ \E c \in Connections : ~At(c, "closed")
    /\ conn' = [c \in Connections |-> Closed]
    /\ \/ /\ damaged' = [p \in Patterns |->
                 damaged[p] \/ \E c \in Connections : At(c, "writing") /\ Pattern(c) = p]
          /\ UNCHANGED leaf
       \/ /\ leaf' = [p \in Patterns |-> "absent"]
          /\ damaged' = [p \in Patterns |-> FALSE]

Handshakes(c) ==
    \/ OffersLocal(c) \/ NoCertificate(c) \/ LooksForLeaf(c) \/ Truncates(c) \/ Writes(c)
    \/ CreationFails(c) \/ LoadsLeaf(c) \/ CannotLoad(c) \/ Verifies(c)

Next ==
    \/ Restarts
    \/ \E c \in Connections :
          Resolves(c) \/ Rejects(c) \/ Handshakes(c) \/ Sends(c) \/ Handles(c) \/ Received(c) \/ Closes(c)

Spec == Init /\ [][Next]_vars

----------------------------------------------------------------------------

(* The variables have their types.                                           *)
TypeOK ==
    /\ leaf \in [Patterns -> {"absent", "empty", "whole"}]
    /\ damaged \in [Patterns -> BOOLEAN]
    /\ DOMAIN conn = Connections
    /\ \A c \in Connections :
          /\ conn[c].phase \in {"closed", "connected", "elsewhere", "rejected", "creating", "writing",
                                "loading", "offered", "refused", "open", "asked", "answered"}
          /\ conn[c].host \in Hosts \cup {NoHost}
          /\ conn[c].leaf \in {NoLeaf, LocalLeaf} \cup {WildcardLeaf(p) : p \in Patterns}
          /\ conn[c].request \in Requests(conn[c].host) \cup {NoRequest}
          /\ conn[c].response.status \in {0, 200, 204, 307, 400, 403, 404, 413, 415, 422, 500, 502}

(* What the DNS server says lives here does: a browser that resolved a .eth or      *)
(* .wei name is given a certificate that covers it, unless the name is two labels    *)
(* below the registered one, a file could not be made or read, or it was read while  *)
(* another handshake wrote it or after a creation that was cut off; and it reaches   *)
(* the site handler, unless it spells the name with the root's dot, which DNS and    *)
(* certificate take and the router does not: that is an unknown host (matches_zone,  *)
(* base_domain_pattern, load_or_create_wildcard, is_ens_host).                    *)
ResolvedIsServed ==
    \A c \in Connections :
        LET host == conn[c].host IN
        matches_zone(host) =>
            /\ At(c, "refused") => conn[c].excused \/ Len(ServerName(host)) > 3
            /\ At(c, "answered") /\ conn[c].request.host # NoHost =>
                  conn[c].response.by = IF IsAbsolute(host) THEN "server" ELSE "site"

(* A page may use the RPC endpoint if and only if this server serves it, as the     *)
(* dashboard or as a site, and can then read every answer of its handler, also that  *)
(* Helios is out of reach; a preflight promises what the request then keeps          *)
(* (rpc_cors_origin, build_rpc_response, proxy_rpc_preflight).                    *)
ServedPagesReadRpc ==
    \A c \in Connections :
        At(c, "answered") /\ conn[c].response.by = "rpc" /\ Origin(c) # NoOrigin =>
            LET served == Origin(c).https /\ route(Origin(c).host) \in {"ui", "site"}
            IN  /\ conn[c].response.readable = served
                /\ conn[c].response.status = 403 <=> ~served
================================================================================
