------------------------------- MODULE SiteRequest -------------------------------
(***************************************************************************)
(* A request for a page of a .eth or .wei site (proxy_request of src/ens.rs):  *)
(* the lookup of the name, the fallback to what is cached when the backend    *)
(* seems to be unavailable, the wait for the light client and the second      *)
(* lookup, the refresh of the cache, and the request to the IPFS gateway.      *)
(* SiteCache has the cache in single Kubo calls and with other writers.        *)
(***************************************************************************)
EXTENDS LocalRequest

VARIABLES
    heard,          \* the outcome of the last lookup of this request
    target,         \* the contenthash it serves
    stored,         \* the contenthash metadata of the site
    snapshot        \* the CID of the latest version in the cache

siteVars == <<heard, target, stored, snapshot>>

NoCid == <<>>

(* html: the headers ask for a page, so that an error is one too.  The access   *)
(* date that a request for a page renews is left out.                          *)
SiteRequests == [handler : {"site"}, name : NamesFor("contenthash"), html : BOOLEAN]

SiteInit ==
    /\ heard = Pending
    /\ target = NoContent
    /\ stored = NoContent
    /\ snapshot = NoCid

SiteReceives ==
    /\ pc = "idle"
    /\ \E r \in SiteRequests : Receives(r, "siteLookup") /\ LookupBegins(r.name)
    /\ UNCHANGED siteVars

(* latest_cached_contenthash: the metadata, else the latest version.             *)
latest_cached_contenthash ==
    IF stored # NoContent THEN stored
    ELSE IF snapshot # NoCid THEN [protocol |-> "ipfs", target |-> snapshot] ELSE NoContent

(* Mutant: for a record that cannot be read it serves what is cached.           *)
contenthash_lookup_outcome_falling_back(record) ==
    CASE record.kind = "supported" ->
            pc' = "writeMetadata" /\ target' = record.content /\ UNCHANGED <<request, response>>
      [] record.kind # "supported" /\ latest_cached_contenthash # NoContent ->
            pc' = "forward" /\ target' = latest_cached_contenthash /\ UNCHANGED <<request, response>>
      [] OTHER -> Responds(Own(IF record.kind = "missing" THEN 404 ELSE 502)) /\ UNCHANGED target

(* contenthash_lookup_outcome: only a supported record goes on.                 *)
contenthash_lookup_outcome(record) ==
    CASE record.kind = "supported" ->
            /\ pc' = "writeMetadata" /\ target' = record.content
            /\ UNCHANGED <<request, response>>
      [] record.kind = "missing" -> Responds(Own(404)) /\ UNCHANGED target
      [] OTHER -> Responds(Own(502)) /\ UNCHANGED target

TakesOutcome ==
    /\ step = "ended"
    /\ heard' = outcome
    /\ LookupTaken
    /\ UNCHANGED <<stored, snapshot, helios>>

LookupAnswered ==
    /\ pc \in {"siteLookup", "siteRetry"} /\ outcome.kind = "found"
    /\ TakesOutcome
    /\ contenthash_lookup_outcome(outcome.record)

(* Only the first lookup may fall back to the cache.                            *)
LookupFailed ==
    /\ pc = "siteLookup" /\ outcome.kind = "failed"
    /\ TakesOutcome
    /\ UNCHANGED target
    /\ IF is_cached_contenthash_fallback_lookup_error(outcome.error)
       THEN pc' = "fallback" /\ UNCHANGED <<request, response>>
       ELSE Responds(Own(502))

RetryFailed ==
    /\ pc = "siteRetry" /\ outcome.kind = "failed"
    /\ TakesOutcome
    /\ UNCHANGED target
    /\ Responds(Own(502))

ReadsCache ==
    /\ IF latest_cached_contenthash # NoContent
       THEN Moves("fallback", "forward") /\ target' = latest_cached_contenthash
       ELSE Moves("fallback", "recover") /\ UNCHANGED target
    /\ UNCHANGED <<lookupVars, heard, stored, snapshot>>

CacheUnreadable ==
    /\ pc = "fallback"
    /\ Responds(Own(502))
    /\ UNCHANGED <<lookupVars, siteVars>>

(* wait_for_helios_recovery_and_retry_contenthash.                              *)
WaitsFor(e) ==
    /\ helios_enabled
    /\ \/ ~helios_has_synced /\ ~is_current_client_synced
       \/ helios_has_synced /\ is_offline_lookup_error(e)
       \/ BadlyBehind(e)

NothingToWaitFor ==
    /\ pc = "recover" /\ ~WaitsFor(heard.error)
    /\ Responds(Own(502))
    /\ UNCHANGED <<lookupVars, siteVars>>

LooksUpAgain ==
    /\ LookupBegins(request.name)
    /\ UNCHANGED siteVars

AlreadyRecovered ==
    /\ Moves("recover", "siteRetry")
    /\ WaitsFor(heard.error) /\ is_current_client_synced
    /\ LooksUpAgain

WaitBegins ==
    /\ Moves("recover", "waiting")
    /\ WaitsFor(heard.error) /\ ~is_current_client_synced
    /\ UNCHANGED <<lookupVars, siteVars>>

Recovered ==
    /\ is_current_client_synced
    /\ Moves("waiting", "siteRetry")
    /\ LooksUpAgain

WaitTimesOut ==
    /\ pc = "waiting"
    /\ Responds(Own(502))
    /\ UNCHANGED <<lookupVars, siteVars>>

(* A failure of either write is logged, and the request goes on.                *)
WritesMetadata ==
    /\ Moves("writeMetadata", "update")
    /\ stored' \in {stored, target}
    /\ UNCHANGED <<lookupVars, heard, target, snapshot>>

(* An IPNS name is resolved to any CID by Kubo.                                  *)
UpdatesCache ==
    /\ Moves("update", "forward")
    /\ snapshot' \in {snapshot} \cup IF target.protocol = "ipfs" THEN {target.target} ELSE Cids
    /\ UNCHANGED <<lookupVars, heard, target, stored>>

BodyUnreadable ==
    /\ pc = "forward"
    /\ Responds(Own(400))
    /\ UNCHANGED <<lookupVars, siteVars>>

GatewayUnreachable ==
    /\ pc = "forward"
    /\ Responds(Own(502))
    /\ UNCHANGED <<lookupVars, siteVars>>

(* An error of Kubo keeps its status, on a page of NeoMist when a page is due.   *)
GatewayResponds ==
    /\ pc = "forward"
    /\ \E status \in {200, 404, 500} :
          Responds([status |-> status, of |-> target,
                    by |-> IF status >= 400 /\ request.html THEN "page" ELSE "kubo"])
    /\ UNCHANGED <<lookupVars, siteVars>>

SiteLookupEnds == LookupAnswered \/ LookupFailed \/ RetryFailed
SiteFallsBack == ReadsCache \/ CacheUnreadable
SiteRecovers == NothingToWaitFor \/ AlreadyRecovered \/ WaitBegins \/ Recovered \/ WaitTimesOut
SiteForwards == BodyUnreadable \/ GatewayUnreachable \/ GatewayResponds
SiteSteps ==
    \/ SiteLookupEnds \/ SiteFallsBack \/ SiteRecovers
    \/ WritesMetadata \/ UpdatesCache \/ SiteForwards

SiteResponses == [status : {200, 404, 500}, of : Contents, by : {"kubo", "page"}]

SiteTypeOK ==
    /\ heard \in Outcomes
    /\ target \in Contents \cup {NoContent}
    /\ stored \in Contents \cup {NoContent}
    /\ snapshot \in Cids \cup {NoCid}
================================================================================
