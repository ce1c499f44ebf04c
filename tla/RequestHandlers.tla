----------------------------- MODULE RequestHandlers -----------------------------
(***************************************************************************)
(* The two handlers of the HTTPS server that look up names, one request at a   *)
(* time, with the state that lasts from one request to the next: the cached    *)
(* record and version of a site, and the state of the light client.            *)
(*                                                                         *)
(* Fairness: every call of a handler returns, and the wait for the light       *)
(* client ends at its timeout.  The HTTP client of the program has no timeout, *)
(* so the first is an assumption about the other side and not about the code.   *)
(* The light client is not assumed to recover.                                *)
(***************************************************************************)
EXTENDS SiteRequest, Web3Request

vars == <<lookupVars, requestVars, siteVars, web3Vars>>

Init ==
    /\ LookupInit /\ SiteInit /\ Web3Init
    /\ pc = "idle" /\ request = NoRequest /\ response = NoResponse

SiteArrives == SiteReceives /\ UNCHANGED web3Vars
Web3Arrives == (Web3Receives \/ Follows) /\ UNCHANGED siteVars

(* The browser has read the answer; what the handler knew of it is gone.         *)
Delivered ==
    /\ pc = "answered"
    /\ pc' = "idle" /\ request' = NoRequest /\ response' = NoResponse
    /\ heard' = Pending /\ target' = NoContent
    /\ location' = NoPath
    /\ UNCHANGED <<lookupVars, stored, snapshot>>

Handles ==
    \/ LookupSteps /\ UNCHANGED <<requestVars, siteVars, web3Vars>>
    \/ SiteSteps /\ UNCHANGED web3Vars
    \/ Web3Steps /\ UNCHANGED siteVars

HeliosChanges == HeliosSteps /\ UNCHANGED <<requestVars, siteVars, web3Vars>>

Next == SiteArrives \/ Web3Arrives \/ Delivered \/ Handles \/ HeliosChanges

Spec == Init /\ [][Next]_vars /\ WF_vars(Handles)

----------------------------------------------------------------------------

(* The variables have their types.                                           *)
TypeOK ==
    /\ LookupTypeOK /\ SiteTypeOK /\ Web3TypeOK
    /\ request \in {NoRequest} \cup SiteRequests \cup Web3Requests
    /\ response \in {NoResponse} \cup {Own(s) : s \in {307, 400, 404, 405, 502}}
                        \cup SiteResponses \cup Documents

Stops(bytes) == {i \in DOMAIN bytes : ~Continues(bytes[i])}
Spelled(bytes) ==
    LET sum[i \in 0..Len(bytes)] ==
            IF i = 0 THEN 0 ELSE sum[i - 1] + LowBits(bytes[i]) * TwoTo[GroupBits * (i - 1)]
    IN  sum

(* A prefix of at most Width bits decodes to exactly the number its groups      *)
(* spell and to the place after it; a longer one never reaches past the width,  *)
(* and one that takes all the bytes is refused (decode_varint, ens.rs).         *)
PrefixDecodesExactly ==
    step = "decode" =>
        LET last == CHOOSE i \in Stops(answer) : \A j \in Stops(answer) : i <= j
        IN  decode_varint(answer) =
                IF Stops(answer) = {} \/ last = Len(answer) \/ GroupBits * (last - 1) >= Width
                THEN Undecodable
                ELSE [value |-> Spelled(answer)[last] % TwoTo[Width], index |-> last]

(* A record is said to come from CCIP-read if and only if a gateway answered in *)
(* the attempt that found it, whatever earlier attempts did (ens.rs).           *)
ResolutionIsTrue ==
    outcome.kind = "found" =>
        (outcome.resolution = "ccip-read" <=> fetched = attempt)

(* What the chain says of a name outranks the cache: content is served of the   *)
(* record just found, and of the cache only after a lookup that failed; and     *)
(* NeoMist says that a site has no record only when the chain said so.          *)
AnswerOutranksCache ==
    request.handler = "site" =>
        /\ response.by \in {"kubo", "page"} =>
              IF heard.kind = "found" THEN heard.record = Supported(response.of)
              ELSE heard.kind = "failed" /\ is_cached_contenthash_fallback_lookup_error(heard.error)
        /\ response = Own(404) => heard.kind = "found" /\ heard.record = Record("missing")

(* How often a path is redirected at most, and the contract, chain and page that *)
(* it names.                                                                  *)
Nested(path) == IF path.form = "handler" THEN path.layers ELSE IF path.form = "short" THEN 1 ELSE 0
Named(path) == <<path.host, path.chain, IF path.form = "short" THEN "root" ELSE path.resource>>

(* Redirects settle: one within the gateway leads to a path that is redirected    *)
(* fewer times than the one asked for, and that names the same contract, chain   *)
(* and page; so a browser that follows them comes to an end, and to what was     *)
(* asked for (parse_local_request, web3.rs).                                   *)
RedirectsSettle ==
    location \notin {NoPath, Dashboard} =>
        Nested(location) < Nested(request.path) /\ Named(location) = Named(request.path)

(* Every request is answered, however resolvers redirect, gateways fail and the *)
(* light client stays away.                                                   *)
RequestAnswered == request # NoRequest ~> pc = "answered"
================================================================================
