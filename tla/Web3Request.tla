------------------------------- MODULE Web3Request -------------------------------
(***************************************************************************)
(* A request to the web3 gateway at neomist.localhost/web3 (src/web3.rs): the  *)
(* redirects to the canonical path, the checks of the authority, the address  *)
(* of the contract, and the document it renders by one of two modes.           *)
(***************************************************************************)
EXTENDS LocalRequest

CONSTANT
    MaxLayers       \* bound: web3:// URLs within one another in a path; the code has none

ASSUME Web3Assumption == MaxLayers \in Nat

VARIABLES
    location        \* where the answer redirects to

web3Vars == <<location>>

(* form: "bare" is /web3 or /web3/; "canonical" <authority>/<resource>, without  *)
(* the slash "short"; "handler" an encoded web3:// URL after the prefix, or one   *)
(* of several layers: the authority of the URL is an encoded "web3:" again, and  *)
(* what is named is encoded once more in each.  A "garbled" resource makes a     *)
(* path that is no UTF-8 once it is decoded.                                    *)
(* A port of a URL has 16 bits; a chain id in a path has 64.                     *)
NoChain == -1
BigChain == 65536
NotNumeric == -2
NoPath == [form |-> "none"]
Resources == {"root", "page", "garbled"}
Hosts == {"ens", "wei", "address", "other"}
Chains == {NoChain, 1, 5, BigChain, NotNumeric}
CanonicalPaths == [form : {"canonical"}, host : Hosts, chain : Chains, resource : Resources]
ShortPaths == [form : {"short"}, host : Hosts, chain : {NoChain, 5, NotNumeric}]
HandlerPaths ==
    [form : {"handler"}, layers : 1..MaxLayers, host : Hosts, chain : Chains, resource : Resources]
WebPaths == {[form |-> "bare"]} \cup HandlerPaths \cup CanonicalPaths \cup ShortPaths
Dashboard == [form |-> "dashboard"]

Methods == {"GET", "HEAD", "other"}
Web3Requests == [handler : {"web3"}, method : Methods, path : WebPaths]

Redirect(path) == [status |-> 307, to |-> path]
Invalid == [status |-> 400]
Target == [status |-> 0]

Short(host, chain) == [form |-> "short", host |-> host, chain |-> chain]
Canonical(host, chain, resource) ==
    [form |-> "canonical", host |-> host, chain |-> chain, resource |-> resource]

(* Mutant: the slash after the authority is left to the next request.           *)
decode_protocol_handler_target_bare(path) ==
    IF path.layers > 1 THEN Redirect([path EXCEPT !.layers = @ - 1])
    ELSE IF path.chain \in {BigChain, NotNumeric} THEN Invalid
    ELSE Redirect(IF path.resource = "root" THEN Short(path.host, path.chain)
                  ELSE Canonical(path.host, path.chain, path.resource))

(* One layer is taken off.  The port is the innermost URL's.                     *)
decode_protocol_handler_target(path) ==
    IF path.layers > 1 THEN Redirect([path EXCEPT !.layers = @ - 1])
    ELSE IF path.chain \in {BigChain, NotNumeric} THEN Invalid
    ELSE Redirect(Canonical(path.host, path.chain, path.resource))

parse_canonical_target(path) ==
    IF path.form = "short" THEN Redirect(Canonical(path.host, path.chain, "root"))
    ELSE IF path.resource = "garbled" \/ path.host = "other" \/ path.chain = NotNumeric THEN Invalid
    ELSE Target

parse_local_request(path) ==
    CASE path.form = "bare" -> Redirect(Dashboard)
      [] path.form = "handler" -> decode_protocol_handler_target(path)
      [] OTHER -> parse_canonical_target(path)

Web3Init == location = NoPath

Web3Receives ==
    /\ pc = "idle"
    /\ \E r \in Web3Requests : Receives(r, "web3")
    /\ UNCHANGED <<lookupVars, web3Vars>>

(* The browser follows a redirect that stays in the gateway.                     *)
Follows ==
    /\ pc = "answered" /\ location \notin {NoPath, Dashboard}
    /\ Receives([request EXCEPT !.path = location], "web3")
    /\ location' = NoPath
    /\ UNCHANGED lookupVars

Rejects(status) ==
    /\ pc = "web3"
    /\ Responds(Own(status))
    /\ UNCHANGED <<lookupVars, web3Vars>>

Parsed == parse_local_request(request.path)

MethodNotAllowed == Rejects(405) /\ request.method = "other"

Redirects ==
    /\ pc = "web3" /\ request.method # "other" /\ Parsed.status = 307
    /\ Responds(Own(307))
    /\ location' = Parsed.to
    /\ UNCHANGED lookupVars

(* Only mainnet is supported.                                                  *)
InvalidTarget ==
    /\ Rejects(400)
    /\ request.method # "other"
    /\ \/ Parsed = Invalid
       \/ Parsed = Target /\ request.path.chain \notin {NoChain, 1}

OnMainnet == request.method # "other" /\ Parsed = Target /\ request.path.chain \in {NoChain, 1}

(* resolve_contract_address: an address is taken as it is, a name looked up.     *)
AddressGiven ==
    /\ Moves("web3", "mode")
    /\ OnMainnet /\ request.path.host = "address"
    /\ UNCHANGED <<lookupVars, web3Vars>>

AddressOfName ==
    /\ Moves("web3", "web3Lookup")
    /\ OnMainnet /\ request.path.host # "address"
    /\ \E name \in NamesFor("address") :
          /\ name.tld = IF request.path.host = "wei" THEN "wei" ELSE "eth"
          /\ LookupBegins(name)
    /\ UNCHANGED web3Vars

AddressFound ==
    /\ step = "ended" /\ outcome.kind = "found" /\ outcome.record = Address
    /\ Moves("web3Lookup", "mode")
    /\ LookupTaken
    /\ UNCHANGED <<helios, web3Vars>>

AddressMissing ==
    /\ pc = "web3Lookup" /\ step = "ended"
    /\ IF outcome.kind = "found" THEN outcome.record = NoAddress /\ Responds(Own(404))
       ELSE Responds(Own(502))
    /\ LookupTaken
    /\ UNCHANGED <<helios, web3Vars>>

(* render_web3_content.  A failure of resolveMode counts as "not ERC-5219".      *)
ReadsMode ==
    /\ pc = "mode"
    /\ \/ Moves("mode", "request")
       \/ Moves("mode", IF request.path.resource = "root" THEN "html" ELSE "failed")
    /\ UNCHANGED <<lookupVars, web3Vars>>

(* request() chooses its status and headers, html() is cached for ever.         *)
Document(status, mode) ==
    [status |-> status, by |-> "contract", mode |-> mode, body |-> request.method # "HEAD",
     immutable |-> mode = "html"]

Renders ==
    /\ pc \in {"request", "html"}
    /\ \E status \in IF pc = "request" THEN {200, 404} ELSE {200} : Responds(Document(status, pc))
    /\ UNCHANGED <<lookupVars, web3Vars>>

(* The call failed, or returned what is no answer, or there is no page in this   *)
(* mode, which the message says with the requested path in it.  The words of any *)
(* of them may ask for a restart of the light client.                          *)
RenderFails ==
    /\ pc \in {"request", "html", "failed"}
    /\ Responds(Own(502))
    /\ \E e \in Errors : maybe_schedule_helios_restart_for_error(e)
    /\ UNCHANGED <<asked, step, attempt, redirects, untried, answer, outcome, fetched, web3Vars>>

Web3Parses == MethodNotAllowed \/ Redirects \/ InvalidTarget
Web3Resolves == AddressGiven \/ AddressOfName \/ AddressFound \/ AddressMissing
Web3Renders == ReadsMode \/ Renders \/ RenderFails
Web3Steps == Web3Parses \/ Web3Resolves \/ Web3Renders

Documents == [status : {200, 404}, by : {"contract"}, mode : {"request", "html"}, body : BOOLEAN,
              immutable : BOOLEAN]

Web3TypeOK == location \in WebPaths \cup {NoPath, Dashboard}
================================================================================
