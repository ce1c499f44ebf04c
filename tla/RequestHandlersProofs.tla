-------------------------- MODULE RequestHandlersProofs --------------------------
(***************************************************************************)
(* Proofs about RequestHandlers, for every set of CIDs, of records and of lags.  *)
(* The inductive invariant follows a lookup through its attempts, and a request   *)
(* through what its handler knows at each of its steps.                          *)
(* The handlers are modelled over LightClient, which HeliosRuntime implements       *)
(* (LightClientProofs); here it is shown that they ask no more of it.              *)
(* The last part is about the codec of prefixes, for bytes of any length: induction  *)
(* over the places of the bytes, by the smallest place where a claim fails.         *)
(***************************************************************************)
EXTENDS RequestHandlers, WellFoundedInduction, TLAPS

(* In an attempt that has asked a gateway for an answer and got one there was a       *)
(* redirect; an attempt begins with none.                                       *)
LookupInv ==
    /\ fetched <= attempt
    /\ step \in {"registry", "probe", "direct"} => redirects = 0 /\ fetched < attempt
    /\ step \in {"resolve", "decode"} => (redirects > 0 <=> fetched = attempt)
    /\ step = "gateway" => redirects > 0
    /\ step = "decode" /\ asked.what = "contenthash" => answer \in Payloads
    /\ step # "ended" => outcome = Pending
    /\ ResolutionIsTrue

SitePhases == {"siteLookup", "siteRetry", "fallback", "recover", "waiting", "writeMetadata", "update", "forward"}
Web3Phases == {"web3", "web3Lookup", "mode", "request", "html", "failed"}
Answers == {Own(s) : s \in {307, 400, 404, 405, 502}} \cup SiteResponses \cup Documents

(* A handler works on a request of its own, and answers once.                     *)
RequestInv ==
    /\ pc \in {"idle", "answered"} \cup SitePhases \cup Web3Phases
    /\ pc = "idle" => request = NoRequest
    /\ pc = "answered" => request \in SiteRequests \cup Web3Requests /\ response \in Answers
    /\ pc \in SitePhases => request \in SiteRequests
    /\ pc \in Web3Phases => request \in Web3Requests
    /\ pc # "answered" => response = NoResponse

(* A redirect is an answer to its request, which still says what was asked for.      *)
LocationInv ==
    /\ location \in {NoPath, Dashboard} \cup WebPaths
    /\ location # NoPath => pc = "answered" /\ request \in Web3Requests
    /\ RedirectsSettle

(* What a site is served of is the record just found, or the lookup failed in a way   *)
(* that allows for what is cached.                                             *)
FailedButCached == heard.kind = "failed" /\ is_cached_contenthash_fallback_lookup_error(heard.error)
ServedOf(content) ==
    /\ content \in Contents
    /\ IF heard.kind = "found" THEN heard.record = Supported(content) ELSE FailedButCached
SiteInv ==
    /\ pc \in {"writeMetadata", "update", "forward"} => ServedOf(target)
    /\ pc \in {"fallback", "recover", "waiting"} => FailedButCached
    /\ pc = "answered" => AnswerOutranksCache

IInv ==
    /\ LookupTypeOK /\ LookupInv
    /\ RequestInv
    /\ LocationInv
    /\ SiteTypeOK /\ SiteInv

----------------------------------------------------------------------------
(* What the values of the lookup are.                                        *)

LEMMA ErrorsAre == AnswerError \in Errors
  BY DEF Errors, AnswerError, Error

LEMMA PendingIs == Pending \in Outcomes /\ Pending.kind = "pending"
  BY DEF Outcomes, Pending

LEMMA FailedIs ==
    ASSUME NEW e \in Errors
    PROVE  Failed(e) \in Outcomes /\ Failed(e).kind = "failed" /\ Failed(e).error = e
  BY DEF Outcomes, Failed

LEMMA FoundIs ==
    ASSUME NEW r \in Records \cup {NoAddress, Address}, NEW s \in {"onchain", "ccip-read"}
    PROVE  /\ Found(r, s) \in Outcomes
           /\ Found(r, s).kind = "found"
           /\ Found(r, s).record = r
           /\ Found(r, s).resolution = s
<1>1. Found(r, s) \in Outcomes
  BY DEF Outcomes
<1>. QED
  BY <1>1 DEF Found

LEMMA OutcomeOf ==
    ASSUME NEW o \in Outcomes
    PROVE  /\ o.kind \in {"pending", "failed", "found"}
           /\ o.kind = "failed" => o.error \in Errors
           /\ o.kind = "found" => o.record \in Records \cup {NoAddress, Address}
<1>1. CASE o = Pending
  BY <1>1, PendingIs
<1>2. ASSUME NEW e \in Errors, o = Failed(e)
      PROVE  o.kind = "failed" /\ o.error \in Errors
  BY <1>2, FailedIs
<1>3. ASSUME NEW r \in Records \cup {NoAddress, Address}, NEW s \in {"onchain", "ccip-read"}, o = Found(r, s)
      PROVE  o.kind = "found" /\ o.record \in Records \cup {NoAddress, Address}
  BY <1>3, FoundIs
<1>. QED
  BY <1>1, <1>2, <1>3 DEF Outcomes

LEMMA RecordIs ==
    ASSUME NEW kind
    PROVE  Record(kind).kind = kind /\ Record(kind).content = NoContent
  BY DEF Record

LEMMA SupportedIs ==
    ASSUME NEW c
    PROVE  Supported(c).kind = "supported" /\ Supported(c).content = c
  BY DEF Supported

(* A record is known by its kind, and a supported one by its content.            *)
LEMMA RecordOf ==
    ASSUME NEW r \in Records \cup {NoAddress, Address}
    PROVE  /\ r.kind = "supported" => r.content \in Contents /\ r = Supported(r.content)
           /\ r.kind = "missing" => r = Record("missing")
<1>1. ASSUME NEW c \in Contents, r = Supported(c)
      PROVE  r.kind = "supported" /\ r.content = c
  BY <1>1, SupportedIs
<1>2. ASSUME NEW kind \in {"missing", "unsupported", "invalid", "noAddress", "address"}, r = Record(kind)
      PROVE  r.kind = kind
  BY <1>2, RecordIs
<1>3. \/ \E c \in Contents : r = Supported(c)
      \/ \E kind \in {"missing", "unsupported", "invalid", "noAddress", "address"} : r = Record(kind)
  BY DEF Records, NoAddress, Address
<1>. QED
  BY <1>1, <1>2, <1>3

(* Whatever bytes the chain returns, what is made of them is a record.            *)
LEMMA InspectIsRecord ==
    ASSUME NEW bytes
    PROVE  inspect_contenthash(bytes) \in Records
<1>. DEFINE prefix == decode_varint(bytes)
            payload == SubSeq(bytes, prefix.index + 1, Len(bytes))
            protocol == IF prefix.value = IPFS_CODEC THEN "ipfs" ELSE "ipns"
            content == [protocol |-> protocol, target |-> payload]
<1>1. payload \in Cids => Supported(content) \in Records
  <2>1. payload \in Cids => content \in Contents
    BY DEF Contents
  <2>. QED
    BY <2>1 DEF Records
<1>2. \A kind \in {"missing", "unsupported", "invalid"} : Record(kind) \in Records
  BY DEF Records
<1>3. \/ inspect_contenthash(bytes) \in {Record("missing"), Record("unsupported"), Record("invalid")}
      \/ payload \in Cids /\ inspect_contenthash(bytes) = Supported(content)
  BY DEF inspect_contenthash
<1>. QED
  BY <1>1, <1>2, <1>3

----------------------------------------------------------------------------
(* The lookup.  Begun, taken by its caller, or in one of its attempts.            *)

LookupGood == LookupTypeOK /\ LookupInv

LEMMA NamesAre ==
    ASSUME NEW what \in {"contenthash", "address"}, NEW name \in NamesFor(what)
    PROVE  /\ name \in [what : {"nothing", "contenthash", "address"}, tld : {"eth", "wei"}, encodable : BOOLEAN]
           /\ name.tld \in {"eth", "wei"} /\ name.what = what
<1>1. \A tld \in {"eth", "wei"} : \A encodable \in BOOLEAN :
         /\ Name(what, tld, encodable) \in
               [what : {"nothing", "contenthash", "address"}, tld : {"eth", "wei"}, encodable : BOOLEAN]
         /\ Name(what, tld, encodable).tld = tld
         /\ Name(what, tld, encodable).what = what
  BY DEF Name
<1>2. \E tld \in {"eth", "wei"} : \E encodable \in BOOLEAN : name = Name(what, tld, encodable)
  BY Zenon DEF NamesFor
<1>. QED
  BY <1>1, <1>2

LEMMA IdleIs == Idle \in [what : {"nothing", "contenthash", "address"}, tld : {"eth", "wei"}, encodable : BOOLEAN]
  BY DEF Idle, Name

LEMMA LookupStarts == LookupInit => LookupGood
<1>. SUFFICES ASSUME LookupInit PROVE LookupGood
  OBVIOUS
<1>1. LookupTypeOK
  BY EnsLookupAssumption, IdleIs, PendingIs
     DEF LookupInit, LookupTypeOK, MaxAttempts, MAX_CCIP_REDIRECTS, ClientInit, ClientStates
<1>2. LookupInv
  BY PendingIs DEF LookupInit, LookupInv, ResolutionIsTrue
<1>. QED
  BY <1>1, <1>2 DEF LookupGood

LEMMA BeginsWell ==
    ASSUME LookupGood, NEW what \in {"contenthash", "address"}, NEW name \in NamesFor(what), LookupBegins(name)
    PROVE  LookupGood'
<1>1. step' \in {"registry", "direct"}
  BY NamesAre DEF LookupBegins, FirstStep
<1>2. LookupTypeOK'
  BY <1>1, EnsLookupAssumption, NamesAre, PendingIs
  DEF LookupGood, LookupBegins, LookupTypeOK, MaxAttempts, MAX_CCIP_REDIRECTS
<1>3. LookupInv'
  BY <1>1, PendingIs DEF LookupBegins, LookupInv, ResolutionIsTrue
<1>. QED
  BY <1>2, <1>3 DEF LookupGood

LEMMA TakenWell ==
    ASSUME LookupGood, LookupTaken, helios' = helios
    PROVE  LookupGood'
<1>1. LookupTypeOK'
  BY EnsLookupAssumption, IdleIs, PendingIs
  DEF LookupGood, LookupTaken, LookupTypeOK, MaxAttempts, MAX_CCIP_REDIRECTS
<1>2. LookupInv'
  BY PendingIs DEF LookupTaken, LookupInv, ResolutionIsTrue
<1>. QED
  BY <1>1, <1>2 DEF LookupGood

(* Only the light client changes.                                            *)
LEMMA HeliosAlone ==
    ASSUME LookupGood, helios' \in ClientStates,
           UNCHANGED <<asked, step, attempt, redirects, untried, answer, outcome, fetched>>
    PROVE  LookupGood'
  BY DEF LookupGood, LookupTypeOK, LookupInv, ResolutionIsTrue

LEMMA LookupStutters == LookupGood /\ UNCHANGED lookupVars => LookupGood'
  BY DEF LookupGood, LookupTypeOK, LookupInv, ResolutionIsTrue, lookupVars

LEMMA RestartIsScheduled ==
    ASSUME LookupGood, NEW e, maybe_schedule_helios_restart_for_error(e)
    PROVE  helios' \in ClientStates
  BY DEF LookupGood, LookupTypeOK, maybe_schedule_helios_restart_for_error, ClientStates

(* An attempt that fails is followed by one that has seen no redirect yet, or by the   *)
(* end of the lookup with the error.                                          *)
LEMMA FailsWell ==
    ASSUME LookupGood, step \in {"registry", "probe", "resolve", "gateway", "direct"},
           NEW e \in Errors, AttemptFails(e)
    PROVE  LookupGood'
<1>1. outcome = Pending /\ fetched <= attempt
  BY DEF LookupGood, LookupInv
<1>2. CASE is_retryable_lookup_error(e) /\ attempt < MaxAttempts
  <2>1. /\ attempt' = attempt + 1 /\ redirects' = 0 /\ untried' = 0
        /\ step' = FirstStep(asked.tld)
        /\ UNCHANGED <<asked, answer, fetched, outcome, helios>>
    BY <1>2 DEF AttemptFails
  <2>2. step' \in {"registry", "direct"}
    BY <2>1 DEF FirstStep
  <2>3. LookupTypeOK'
    BY <1>2, <2>1, <2>2, EnsLookupAssumption DEF LookupGood, LookupTypeOK, MaxAttempts, MAX_CCIP_REDIRECTS
  <2>4. LookupInv'
    BY <1>1, <2>1, <2>2, PendingIs DEF LookupGood, LookupTypeOK, LookupInv, ResolutionIsTrue, MaxAttempts
  <2>. QED
    BY <2>3, <2>4 DEF LookupGood
<1>3. CASE ~(is_retryable_lookup_error(e) /\ attempt < MaxAttempts)
  <2>1. /\ step' = "ended" /\ outcome' = Failed(e)
        /\ maybe_schedule_helios_restart_for_error(e)
        /\ UNCHANGED <<asked, answer, fetched, attempt, redirects, untried>>
    BY <1>3 DEF AttemptFails
  <2>2. helios' \in ClientStates
    BY <2>1, RestartIsScheduled
  <2>3. LookupTypeOK'
    BY <2>1, <2>2, FailedIs DEF LookupGood, LookupTypeOK
  <2>4. LookupInv'
    BY <1>1, <2>1, FailedIs DEF LookupInv, ResolutionIsTrue
  <2>. QED
    BY <2>3, <2>4 DEF LookupGood
<1>. QED
  BY <1>2, <1>3

(* A call follows another one in the same attempt.                             *)
LEMMA GoesWell ==
    ASSUME LookupGood, NEW next, GoesTo(next),
           \/ step = "registry" /\ next = "probe"
           \/ step = "probe" /\ next \in {"direct", "resolve"}
    PROVE  LookupGood'
<1>1. LookupTypeOK'
  BY DEF LookupGood, LookupTypeOK, GoesTo
<1>2. LookupInv'
  BY PendingIs DEF LookupGood, LookupInv, LookupTypeOK, ResolutionIsTrue, GoesTo, MaxAttempts
<1>. QED
  BY <1>1, <1>2 DEF LookupGood

LEMMA SucceedsWell ==
    ASSUME LookupGood, NEW record \in Records \cup {NoAddress, Address},
           NEW resolution \in {"onchain", "ccip-read"}, Succeeds(record, resolution),
           answer' \in {answer, <<>>},
           resolution = "ccip-read" <=> fetched = attempt
    PROVE  LookupGood'
<1>1. LookupTypeOK'
  BY FoundIs DEF LookupGood, LookupTypeOK, Succeeds
<1>2. LookupInv'
  BY FoundIs DEF LookupGood, LookupInv, ResolutionIsTrue, Succeeds
<1>. QED
  BY <1>1, <1>2 DEF LookupGood

LEMMA DecodesWell == LookupGood /\ Decodes => LookupGood'
<1>. SUFFICES ASSUME LookupGood, Decodes PROVE LookupGood'
  OBVIOUS
<1>. DEFINE record == IF asked.what = "contenthash" THEN Decoded[answer]
                      ELSE IF answer = <<>> THEN NoAddress ELSE Address
            resolution == IF redirects > 0 THEN "ccip-read" ELSE "onchain"
<1>1. step = "decode" /\ Succeeds(record, resolution) /\ answer' = <<>>
  BY DEF Decodes
<1>2. asked.what = "contenthash" => Decoded[answer] \in Records
  BY <1>1, InspectIsRecord DEF LookupGood, LookupInv, Decoded
<1>3. record \in Records \cup {NoAddress, Address}
  BY <1>2
<1>4. resolution \in {"onchain", "ccip-read"} /\ (resolution = "ccip-read" <=> fetched = attempt)
  BY <1>1 DEF LookupGood, LookupInv
<1>. HIDE DEF record, resolution
<1>. QED
  BY <1>1, <1>3, <1>4, SucceedsWell

(* A lookup says "ccip-read" of an answer if a gateway gave it.                    *)
LEMMA LookupSound == LookupGood /\ LookupSteps => LookupGood'
<1>. SUFFICES ASSUME LookupGood, LookupSteps PROVE LookupGood'
  OBVIOUS
<1>. USE ErrorsAre
<1>1. CASE BackendFails
  BY <1>1, FailsWell DEF BackendFails
<1>2. CASE RegistryAnswers
  <2>1. step = "registry" /\ fetched < attempt
    BY <1>2 DEF RegistryAnswers, LookupGood, LookupInv
  <2>2. CASE GoesTo("probe")
    BY <2>1, <2>2, GoesWell
  <2>3. CASE Succeeds(IF asked.what = "address" THEN NoAddress ELSE Record("missing"), "onchain") /\ UNCHANGED answer
    <3>. DEFINE record == IF asked.what = "address" THEN NoAddress ELSE Record("missing")
    <3>1. record \in Records \cup {NoAddress, Address}
      BY DEF Records
    <3>2. fetched # attempt
      BY <2>1 DEF LookupGood, LookupTypeOK, MaxAttempts
    <3>. HIDE DEF record
    <3>. QED
      BY <2>3, <3>1, <3>2, SucceedsWell DEF record
  <2>. QED
    BY <1>2, <2>2, <2>3 DEF RegistryAnswers
<1>3. CASE ProbeAnswers
  BY <1>3, GoesWell, FailsWell DEF ProbeAnswers
<1>4. CASE CallReturns
  <2>1. step \in {"resolve", "direct"}
    BY <1>4 DEF CallReturns
  <2>2. CASE AttemptFails(AnswerError)
    BY <2>1, <2>2, FailsWell
  <2>3. CASE /\ answer' \in IF asked.what = "address" THEN {<<>>, <<1>>} ELSE Payloads
             /\ step' = "decode"
             /\ UNCHANGED <<asked, attempt, redirects, untried, outcome, helios, fetched>>
    <3>1. LookupTypeOK'
      BY <2>3 DEF LookupGood, LookupTypeOK
    <3>2. LookupInv'
      BY <2>1, <2>3, PendingIs DEF LookupGood, LookupInv, LookupTypeOK, ResolutionIsTrue, MaxAttempts, MAX_CCIP_REDIRECTS
    <3>. QED
      BY <3>1, <3>2 DEF LookupGood
  <2>. QED
    BY <1>4, <2>2, <2>3 DEF CallReturns
<1>5. CASE Decodes
  BY <1>5, DecodesWell
<1>6. CASE OffchainLookup
  <2>1. CASE redirects = MAX_CCIP_REDIRECTS
    BY <1>6, <2>1, FailsWell DEF OffchainLookup
  <2>2. CASE redirects # MAX_CCIP_REDIRECTS
    <3>1. /\ step = "resolve" /\ step' = "gateway" /\ redirects' = redirects + 1
          /\ untried' \in 0..MaxUrls
          /\ UNCHANGED <<asked, attempt, answer, outcome, helios, fetched>>
      BY <1>6, <2>2 DEF OffchainLookup
    <3>2. LookupTypeOK'
      BY <2>2, <3>1 DEF LookupGood, LookupTypeOK, MAX_CCIP_REDIRECTS
    <3>3. LookupInv'
      BY <3>1, PendingIs DEF LookupGood, LookupInv, LookupTypeOK, ResolutionIsTrue, MAX_CCIP_REDIRECTS
    <3>. QED
      BY <3>2, <3>3 DEF LookupGood
  <2>. QED
    BY <2>1, <2>2
<1>7. CASE GatewayAnswers
  <2>1. LookupTypeOK'
    BY <1>7, EnsLookupAssumption DEF GatewayAnswers, LookupGood, LookupTypeOK, MaxAttempts
  <2>2. LookupInv'
    BY <1>7, PendingIs DEF GatewayAnswers, LookupGood, LookupInv, LookupTypeOK, ResolutionIsTrue, MaxAttempts
  <2>. QED
    BY <2>1, <2>2 DEF LookupGood
<1>8. CASE GatewayFails
  <2>1. CASE untried > 1
    <3>1. /\ step = "gateway" /\ untried' = untried - 1
          /\ UNCHANGED <<asked, step, attempt, redirects, answer, outcome, helios, fetched>>
      BY <1>8, <2>1 DEF GatewayFails
    <3>2. LookupTypeOK'
      BY <2>1, <3>1, EnsLookupAssumption DEF LookupGood, LookupTypeOK
    <3>3. LookupInv'
      BY <3>1 DEF LookupGood, LookupInv, ResolutionIsTrue
    <3>. QED
      BY <3>2, <3>3 DEF LookupGood
  <2>2. CASE ~(untried > 1)
    BY <1>8, <2>2, FailsWell DEF GatewayFails
  <2>. QED
    BY <2>1, <2>2
<1>9. CASE NoGateways
  BY <1>9, FailsWell DEF NoGateways
<1>. QED
  BY <1>1, <1>2, <1>3, <1>4, <1>5, <1>6, <1>7, <1>8, <1>9 DEF LookupSteps

----------------------------------------------------------------------------
(* The handlers: requests and answers.                                        *)

HandlersGood == RequestInv /\ LocationInv /\ SiteTypeOK /\ SiteInv

LEMMA HandlerOf ==
    /\ NoRequest.handler = "none"
    /\ \A r \in SiteRequests : r.handler = "site" /\ r.name \in NamesFor("contenthash")
    /\ \A r \in Web3Requests : r.handler = "web3" /\ r.path \in WebPaths
  BY DEF NoRequest, SiteRequests, Web3Requests

LEMMA OwnIs ==
    ASSUME NEW s \in {307, 400, 404, 405, 502}
    PROVE  /\ Own(s) \in Answers
           /\ Own(s).by = "neomist" /\ Own(s).status = s
<1>1. Own(s) \in Answers
  BY DEF Answers
<1>. QED
  BY <1>1 DEF Own

(* Where an answer of NeoMist itself leaves what is promised of answers.           *)
LEMMA OwnAnswer ==
    ASSUME NEW s \in {307, 400, 404, 405, 502}, response' = Own(s),
           s = 404 => heard'.kind = "found" /\ heard'.record = Record("missing")
    PROVE  AnswerOutranksCache'
<1>1. response'.by = "neomist" /\ response'.status = s
  BY OwnIs
<1>2. response' = Own(404) => s = 404
  BY <1>1, OwnIs
<1>. QED
  BY <1>1, <1>2 DEF AnswerOutranksCache

(* A handler goes on, with the request it has; it answers, once.                  *)
LEMMA HandlerMoves ==
    ASSUME RequestInv, LocationInv, NEW phases \in {SitePhases, Web3Phases},
           pc \in phases, pc' \in phases, UNCHANGED <<request, response, location>>
    PROVE  RequestInv' /\ LocationInv' /\ pc' # "answered"
<1>1. pc # "answered" /\ pc # "idle" /\ pc' # "answered" /\ pc' # "idle"
  BY DEF SitePhases, Web3Phases
<1>2. RequestInv'
  BY <1>1 DEF RequestInv, SitePhases, Web3Phases
<1>3. LocationInv'
  BY <1>1 DEF LocationInv, RedirectsSettle
<1>. QED
  BY <1>1, <1>2, <1>3

LEMMA HandlerAnswers ==
    ASSUME RequestInv, LocationInv, NEW r \in Answers, Responds(r),
           pc \in SitePhases \cup Web3Phases, UNCHANGED location
    PROVE  /\ RequestInv' /\ LocationInv'
           /\ pc' = "answered" /\ request' = request /\ response' = r
<1>1. pc' = "answered" /\ request' = request /\ response' = r
  BY DEF Responds
<1>2. RequestInv'
  BY <1>1 DEF RequestInv, SitePhases, Web3Phases
<1>3. LocationInv'
  BY <1>1 DEF LocationInv, RedirectsSettle, SitePhases, Web3Phases
<1>. QED
  BY <1>1, <1>2, <1>3

LEMMA HandlersStutter == HandlersGood /\ UNCHANGED <<requestVars, siteVars, web3Vars>> => HandlersGood'
  BY DEF HandlersGood, RequestInv, LocationInv, RedirectsSettle, SiteTypeOK, SiteInv, ServedOf, FailedButCached,
         AnswerOutranksCache, requestVars, siteVars, web3Vars

----------------------------------------------------------------------------
(* A request for a page of a site.                                            *)

LEMMA LatestCached ==
    ASSUME SiteTypeOK, latest_cached_contenthash # NoContent
    PROVE  latest_cached_contenthash \in Contents
  BY DEF SiteTypeOK, latest_cached_contenthash, Contents

LEMMA PhasesApart ==
    /\ \A phase \in SitePhases : phase \notin {"idle", "answered"} \cup Web3Phases
    /\ \A phase \in Web3Phases : phase \notin {"idle", "answered"} \cup SitePhases
  BY DEF SitePhases, Web3Phases

(* The handler answers by itself, and knows what it knew.                        *)
LEMMA OwnAnswers ==
    ASSUME HandlersGood, NEW s \in {307, 400, 405, 502}, Responds(Own(s)),
           pc \in SitePhases, UNCHANGED <<siteVars, web3Vars>>
    PROVE  HandlersGood'
<1>1. RequestInv' /\ LocationInv' /\ pc' = "answered" /\ response' = Own(s)
  BY OwnIs, HandlerAnswers DEF HandlersGood, web3Vars
<1>2. AnswerOutranksCache'
  BY <1>1, OwnAnswer
<1>3. SiteTypeOK'
  BY DEF HandlersGood, SiteTypeOK, siteVars
<1>4. SiteInv'
  BY <1>1, <1>2 DEF SiteInv
<1>. QED
  BY <1>1, <1>3, <1>4 DEF HandlersGood

LEMMA OutcomeTaken ==
    ASSUME LookupGood, HandlersGood, TakesOutcome
    PROVE  /\ heard' = outcome /\ heard' \in Outcomes
           /\ stored' \in Contents \cup {NoContent} /\ snapshot' \in Cids \cup {NoCid}
  BY DEF LookupGood, LookupTypeOK, HandlersGood, SiteTypeOK, TakesOutcome

(* The record that was found is what is served, or its absence what is said.        *)
LEMMA AnsweredWell ==
    ASSUME LookupGood, HandlersGood, LookupAnswered, UNCHANGED web3Vars
    PROVE  HandlersGood'
<1>. DEFINE record == outcome.record
<1>1. /\ pc \in SitePhases
      /\ heard' = outcome /\ heard'.kind = "found" /\ heard'.record = record
      /\ contenthash_lookup_outcome(record)
      /\ heard' \in Outcomes
      /\ stored' \in Contents \cup {NoContent} /\ snapshot' \in Cids \cup {NoCid}
  BY OutcomeTaken DEF LookupAnswered, SitePhases
<1>2. record \in Records \cup {NoAddress, Address}
  BY <1>1, OutcomeOf
<1>3. target \in Contents \cup {NoContent}
  BY DEF HandlersGood, SiteTypeOK
<1>. HIDE DEF record
<1>4. CASE record.kind = "supported"
  <2>1. /\ pc' = "writeMetadata" /\ target' = record.content
        /\ UNCHANGED <<request, response>>
    BY <1>1, <1>4 DEF contenthash_lookup_outcome
  <2>2. record.content \in Contents /\ record = Supported(record.content)
    BY <1>2, <1>4, RecordOf
  <2>3. RequestInv' /\ LocationInv'
    BY <1>1, <2>1, HandlerMoves DEF HandlersGood, web3Vars, SitePhases
  <2>4. SiteTypeOK'
    BY <1>1, <2>1, <2>2 DEF SiteTypeOK
  <2>5. SiteInv'
    BY <1>1, <2>1, <2>2 DEF SiteInv, ServedOf
  <2>. QED
    BY <2>3, <2>4, <2>5 DEF HandlersGood
<1>5. CASE record.kind = "missing"
  <2>1. Responds(Own(404)) /\ UNCHANGED target
    BY <1>1, <1>5 DEF contenthash_lookup_outcome
  <2>2. record = Record("missing")
    BY <1>2, <1>5, RecordOf
  <2>3. RequestInv' /\ LocationInv' /\ pc' = "answered" /\ response' = Own(404)
    BY <1>1, <2>1, OwnIs, HandlerAnswers DEF HandlersGood, web3Vars
  <2>4. AnswerOutranksCache'
    BY <1>1, <2>2, <2>3, OwnAnswer
  <2>5. SiteTypeOK' /\ SiteInv'
    BY <1>1, <1>3, <2>1, <2>3, <2>4 DEF SiteTypeOK, SiteInv
  <2>. QED
    BY <2>3, <2>5 DEF HandlersGood
<1>6. CASE record.kind \notin {"supported", "missing"}
  <2>1. Responds(Own(502)) /\ UNCHANGED target
    BY <1>1, <1>6 DEF contenthash_lookup_outcome
  <2>3. RequestInv' /\ LocationInv' /\ pc' = "answered" /\ response' = Own(502)
    BY <1>1, <2>1, OwnIs, HandlerAnswers DEF HandlersGood, web3Vars
  <2>4. AnswerOutranksCache'
    BY <2>3, OwnAnswer
  <2>5. SiteTypeOK' /\ SiteInv'
    BY <1>1, <1>3, <2>1, <2>3, <2>4 DEF SiteTypeOK, SiteInv
  <2>. QED
    BY <2>3, <2>5 DEF HandlersGood
<1>. QED
  BY <1>4, <1>5, <1>6

LEMMA FailureWell ==
    ASSUME LookupGood, HandlersGood, LookupFailed \/ RetryFailed, UNCHANGED web3Vars
    PROVE  HandlersGood'
<1>1. /\ pc \in SitePhases
      /\ heard' = outcome /\ heard'.kind = "failed"
      /\ heard' \in Outcomes
      /\ stored' \in Contents \cup {NoContent} /\ snapshot' \in Cids \cup {NoCid}
      /\ target' = target
  BY OutcomeTaken DEF LookupFailed, RetryFailed, SitePhases
<1>2. SiteTypeOK'
  BY <1>1 DEF HandlersGood, SiteTypeOK
<1>3. CASE Responds(Own(502))
  <2>1. RequestInv' /\ LocationInv' /\ pc' = "answered" /\ response' = Own(502)
    BY <1>1, <1>3, OwnIs, HandlerAnswers DEF HandlersGood, web3Vars
  <2>2. AnswerOutranksCache'
    BY <2>1, OwnAnswer
  <2>. QED
    BY <1>2, <2>1, <2>2 DEF SiteInv, HandlersGood
<1>4. CASE /\ pc' = "fallback" /\ UNCHANGED <<request, response>>
           /\ is_cached_contenthash_fallback_lookup_error(outcome.error)
  <2>1. RequestInv' /\ LocationInv'
    BY <1>1, <1>4, HandlerMoves DEF HandlersGood, web3Vars, SitePhases
  <2>2. SiteInv'
    BY <1>1, <1>4 DEF SiteInv, FailedButCached, is_cached_contenthash_fallback_lookup_error,
       is_offline_lookup_error, is_helios_sync_lookup_error
  <2>. QED
    BY <1>2, <2>1, <2>2 DEF HandlersGood
<1>. QED
  BY <1>3, <1>4 DEF LookupFailed, RetryFailed

(* What is cached is read after such a failure only.                            *)
LEMMA CacheWell ==
    ASSUME HandlersGood, ReadsCache, UNCHANGED web3Vars
    PROVE  HandlersGood'
<1>1. /\ pc = "fallback" /\ pc' \in {"forward", "recover"}
      /\ UNCHANGED <<request, response, heard, stored, snapshot>>
      /\ pc' = "forward" => target' \in Contents
      /\ pc' = "recover" => target' = target
  BY LatestCached DEF HandlersGood, ReadsCache, Moves
<1>2. FailedButCached
  BY <1>1 DEF HandlersGood, SiteInv
<1>3. FailedButCached' /\ heard'.kind # "found"
  BY <1>1, <1>2 DEF FailedButCached, is_cached_contenthash_fallback_lookup_error,
     is_offline_lookup_error, is_helios_sync_lookup_error
<1>4. RequestInv' /\ LocationInv'
  BY <1>1, HandlerMoves DEF HandlersGood, web3Vars, SitePhases
<1>5. SiteTypeOK' /\ SiteInv'
  BY <1>1, <1>3 DEF HandlersGood, SiteTypeOK, SiteInv, ServedOf
<1>. QED
  BY <1>4, <1>5 DEF HandlersGood

(* The wait for the light client, and the lookup after it.                        *)
LEMMA RecoversWell ==
    ASSUME HandlersGood, SiteRecovers, UNCHANGED web3Vars
    PROVE  HandlersGood'
<1>1. CASE NothingToWaitFor \/ WaitTimesOut
  <2>1. pc \in SitePhases /\ Responds(Own(502)) /\ UNCHANGED siteVars
    BY <1>1 DEF NothingToWaitFor, WaitTimesOut, SitePhases
  <2>. QED
    BY <2>1, OwnAnswers
<1>2. CASE AlreadyRecovered \/ WaitBegins \/ Recovered
  <2>1. /\ pc \in {"recover", "waiting"} /\ pc' \in {"waiting", "siteRetry"}
        /\ UNCHANGED <<request, response, siteVars>>
    BY <1>2 DEF AlreadyRecovered, WaitBegins, Recovered, LooksUpAgain, Moves
  <2>2. RequestInv' /\ LocationInv'
    BY <2>1, HandlerMoves DEF HandlersGood, web3Vars, SitePhases
  <2>3. FailedButCached
    BY <2>1 DEF HandlersGood, SiteInv
  <2>4. FailedButCached'
    BY <2>1, <2>3 DEF FailedButCached, siteVars
  <2>5. SiteTypeOK' /\ SiteInv'
    BY <2>1, <2>4 DEF HandlersGood, SiteTypeOK, SiteInv, siteVars
  <2>. QED
    BY <2>2, <2>5 DEF HandlersGood
<1>. QED
  BY <1>1, <1>2 DEF SiteRecovers

(* The cache follows what is served.                                          *)
LEMMA RefreshesWell ==
    ASSUME HandlersGood, WritesMetadata \/ UpdatesCache, UNCHANGED web3Vars
    PROVE  HandlersGood'
<1>1. /\ pc \in {"writeMetadata", "update"} /\ pc' \in {"update", "forward"}
      /\ UNCHANGED <<request, response, heard, target>>
  BY DEF WritesMetadata, UpdatesCache, Moves
<1>2. ServedOf(target) /\ target \in Contents
  BY <1>1 DEF HandlersGood, SiteInv, ServedOf
<1>3. ServedOf(target)'
  BY <1>1, <1>2 DEF ServedOf, FailedButCached
<1>4. RequestInv' /\ LocationInv'
  BY <1>1, HandlerMoves DEF HandlersGood, web3Vars, SitePhases
<1>5. target.target \in Cids
  BY <1>2 DEF Contents
<1>6. stored' \in Contents \cup {NoContent} /\ snapshot' \in Cids \cup {NoCid}
  BY <1>2, <1>5 DEF HandlersGood, SiteTypeOK, WritesMetadata, UpdatesCache
<1>7. SiteTypeOK' /\ SiteInv'
  BY <1>1, <1>3, <1>6 DEF HandlersGood, SiteTypeOK, SiteInv
<1>. QED
  BY <1>4, <1>7 DEF HandlersGood

LEMMA ForwardsWell ==
    ASSUME HandlersGood, SiteForwards, UNCHANGED web3Vars
    PROVE  HandlersGood'
<1>1. pc = "forward" /\ pc \in SitePhases /\ UNCHANGED siteVars
  BY DEF SiteForwards, BodyUnreadable, GatewayUnreachable, GatewayResponds, SitePhases
<1>2. CASE BodyUnreadable \/ GatewayUnreachable
  BY <1>1, <1>2, OwnAnswers DEF BodyUnreadable, GatewayUnreachable
<1>3. CASE GatewayResponds
  <2>1. ServedOf(target)
    BY <1>1 DEF HandlersGood, SiteInv
  <2>2. PICK status \in {200, 404, 500} :
           Responds([status |-> status, of |-> target,
                     by |-> IF status >= 400 /\ request.html THEN "page" ELSE "kubo"])
    BY <1>3 DEF GatewayResponds
  <2>. DEFINE by == IF status >= 400 /\ request.html THEN "page" ELSE "kubo"
              answered == [status |-> status, of |-> target, by |-> by]
  <2>3. by \in {"kubo", "page"}
    OBVIOUS
  <2>. HIDE DEF by
  <2>4. answered \in SiteResponses /\ answered.of = target /\ answered.by = by
    BY <2>1, <2>3 DEF SiteResponses, ServedOf
  <2>5. answered \in Answers
    BY <2>4 DEF Answers
  <2>6. answered # Own(404)
    BY <2>3, <2>4, OwnIs
  <2>7. Responds(answered)
    BY <2>2 DEF by
  <2>. HIDE DEF answered
  <2>8. /\ RequestInv' /\ LocationInv'
        /\ pc' = "answered" /\ request' = request /\ response' = answered
    BY <1>1, <2>5, <2>7, HandlerAnswers DEF HandlersGood, web3Vars
  <2>9. IF heard'.kind = "found" THEN heard'.record = Supported(target)
        ELSE heard'.kind = "failed" /\ is_cached_contenthash_fallback_lookup_error(heard'.error)
    BY <1>1, <2>1 DEF ServedOf, FailedButCached, siteVars
  <2>10. AnswerOutranksCache'
    BY <2>4, <2>6, <2>8, <2>9 DEF AnswerOutranksCache
  <2>11. SiteTypeOK' /\ SiteInv'
    BY <1>1, <2>8, <2>10 DEF HandlersGood, SiteTypeOK, SiteInv, siteVars
  <2>. QED
    BY <2>8, <2>11 DEF HandlersGood
<1>. QED
  BY <1>2, <1>3 DEF SiteForwards

LEMMA SiteSound ==
    ASSUME LookupGood, HandlersGood, SiteSteps, UNCHANGED web3Vars
    PROVE  LookupGood' /\ HandlersGood'
<1>1. CASE SiteLookupEnds
  <2>1. LookupGood'
    BY <1>1, TakenWell DEF SiteLookupEnds, LookupAnswered, LookupFailed, RetryFailed, TakesOutcome
  <2>. QED
    BY <1>1, <2>1, AnsweredWell, FailureWell DEF SiteLookupEnds
<1>2. CASE SiteFallsBack
  <2>1. LookupGood'
    BY <1>2, LookupStutters DEF SiteFallsBack, ReadsCache, CacheUnreadable
  <2>2. CASE CacheUnreadable
    BY <2>1, <2>2, OwnAnswers DEF CacheUnreadable, SitePhases
  <2>. QED
    BY <1>2, <2>1, <2>2, CacheWell DEF SiteFallsBack
<1>3. CASE SiteRecovers
  <2>1. CASE AlreadyRecovered \/ Recovered
    <3>1. pc \in SitePhases /\ LookupBegins(request.name)
      BY <2>1 DEF AlreadyRecovered, Recovered, LooksUpAgain, Moves, SitePhases
    <3>2. request.name \in NamesFor("contenthash")
      BY <3>1, HandlerOf DEF HandlersGood, RequestInv
    <3>. QED
      BY <1>3, <3>1, <3>2, BeginsWell, RecoversWell
  <2>2. CASE NothingToWaitFor \/ WaitBegins \/ WaitTimesOut
    <3>1. UNCHANGED lookupVars
      BY <2>2 DEF NothingToWaitFor, WaitBegins, WaitTimesOut
    <3>. QED
      BY <1>3, <3>1, LookupStutters, RecoversWell
  <2>. QED
    BY <1>3, <2>1, <2>2 DEF SiteRecovers
<1>4. CASE WritesMetadata \/ UpdatesCache
  BY <1>4, LookupStutters, RefreshesWell DEF WritesMetadata, UpdatesCache
<1>5. CASE SiteForwards
  BY <1>5, LookupStutters, ForwardsWell
  DEF SiteForwards, BodyUnreadable, GatewayUnreachable, GatewayResponds
<1>. QED
  BY <1>1, <1>2, <1>3, <1>4, <1>5 DEF SiteSteps

----------------------------------------------------------------------------
(* A request to the web3 gateway.                                             *)

(* What a path is made of.                                                    *)
LEMMA CanonicalIs ==
    ASSUME NEW host \in Hosts, NEW chain \in Chains, NEW resource \in Resources
    PROVE  LET path == Canonical(host, chain, resource) IN
           /\ path \in WebPaths
           /\ Nested(path) = 0
           /\ Named(path) = <<host, chain, resource>>
<1>. DEFINE path == Canonical(host, chain, resource)
<1>1. path \in CanonicalPaths
  BY DEF Canonical, CanonicalPaths
<1>2. path.form = "canonical" /\ path.host = host /\ path.chain = chain /\ path.resource = resource
  BY DEF Canonical
<1>. HIDE DEF path
<1>3. path \in WebPaths
  BY <1>1 DEF WebPaths
<1>4. Nested(path) = 0 /\ Named(path) = <<host, chain, resource>>
  BY <1>2 DEF Nested, Named
<1>. QED
  BY <1>3, <1>4 DEF path

(* A redirect leads to the dashboard, or takes one layer off.                     *)
Unwraps(to, path) ==
    to \in WebPaths /\ Nested(to) < Nested(path) /\ Named(to) = Named(path)

LEMMA HandlerUnwraps ==
    ASSUME NEW path \in HandlerPaths, parse_local_request(path).status = 307
    PROVE  Unwraps(parse_local_request(path).to, path)
<1>1. /\ path.form = "handler" /\ path.layers \in 1..MaxLayers
      /\ path.host \in Hosts /\ path.chain \in Chains /\ path.resource \in Resources
  BY DEF HandlerPaths
<1>2. parse_local_request(path) = decode_protocol_handler_target(path)
  BY <1>1 DEF parse_local_request
<1>3. Nested(path) = path.layers /\ Named(path) = <<path.host, path.chain, path.resource>>
  BY <1>1 DEF Nested, Named
<1>4. CASE path.layers > 1
  <2>. DEFINE inner == [path EXCEPT !.layers = path.layers - 1]
  <2>1. parse_local_request(path).to = inner
    BY <1>2, <1>4 DEF decode_protocol_handler_target, Redirect
  <2>2. inner \in HandlerPaths
    BY <1>1, <1>4, Web3Assumption DEF HandlerPaths
  <2>3. /\ inner.form = "handler" /\ inner.layers = path.layers - 1
        /\ inner.host = path.host /\ inner.chain = path.chain /\ inner.resource = path.resource
    BY <1>1 DEF HandlerPaths
  <2>. HIDE DEF inner
  <2>4. Nested(inner) < Nested(path)
    BY <1>1, <1>3, <2>3 DEF Nested
  <2>5. Named(inner) = Named(path)
    BY <1>3, <2>3 DEF Named
  <2>. QED
    BY <2>1, <2>2, <2>4, <2>5 DEF Unwraps, WebPaths
<1>5. CASE ~(path.layers > 1)
  <2>. DEFINE settled == Canonical(path.host, path.chain, path.resource)
  <2>1. Invalid.status # 307
    BY DEF Invalid
  <2>2. parse_local_request(path).to = settled
    BY <1>2, <1>5, <2>1 DEF decode_protocol_handler_target, Redirect
  <2>3. settled \in WebPaths /\ Nested(settled) = 0 /\ Named(settled) = Named(path)
    BY <1>1, <1>3, CanonicalIs
  <2>4. Nested(settled) < Nested(path)
    BY <1>1, <1>3, <2>3
  <2>. QED
    BY <2>2, <2>3, <2>4 DEF Unwraps
<1>. QED
  BY <1>4, <1>5

LEMMA ShortUnwraps ==
    ASSUME NEW path \in ShortPaths
    PROVE  Unwraps(parse_local_request(path).to, path)
<1>. DEFINE settled == Canonical(path.host, path.chain, "root")
<1>1. path.form = "short" /\ path.host \in Hosts /\ path.chain \in Chains
  BY DEF ShortPaths, Chains
<1>2. parse_local_request(path).to = settled
  BY <1>1 DEF parse_local_request, parse_canonical_target, Redirect
<1>3. settled \in WebPaths /\ Nested(settled) = 0 /\ Named(settled) = <<path.host, path.chain, "root">>
  BY <1>1, CanonicalIs DEF Resources
<1>4. Nested(path) = 1 /\ Named(path) = <<path.host, path.chain, "root">>
  BY <1>1 DEF Nested, Named
<1>. QED
  BY <1>2, <1>3, <1>4 DEF Unwraps

LEMMA RedirectTarget ==
    ASSUME NEW path \in WebPaths, parse_local_request(path).status = 307
    PROVE  LET to == parse_local_request(path).to IN to = Dashboard \/ Unwraps(to, path)
<1>1. CASE path.form = "bare"
  BY <1>1 DEF parse_local_request, Redirect
<1>2. CASE path \in HandlerPaths
  BY <1>2, HandlerUnwraps
<1>3. CASE path \in ShortPaths
  BY <1>3, ShortUnwraps
<1>4. CASE path \in CanonicalPaths
  <2>1. path.form = "canonical"
    BY <1>4 DEF CanonicalPaths
  <2>2. parse_local_request(path) \in {Invalid, Target}
    BY <2>1 DEF parse_local_request, parse_canonical_target
  <2>3. Invalid.status # 307 /\ Target.status # 307
    BY DEF Invalid, Target
  <2>. QED
    BY <2>2, <2>3
<1>. QED
  BY <1>1, <1>2, <1>3, <1>4 DEF WebPaths

(* Nothing is said of a site.                                                 *)
LEMMA Web3Quiet ==
    ASSUME HandlersGood, UNCHANGED siteVars, request' \in Web3Requests,
           pc' \in Web3Phases \cup {"answered"}
    PROVE  SiteTypeOK' /\ SiteInv'
<1>1. SiteTypeOK'
  BY DEF HandlersGood, SiteTypeOK, siteVars
<1>2. AnswerOutranksCache'
  BY HandlerOf DEF AnswerOutranksCache
<1>3. SiteInv'
  BY <1>2 DEF SiteInv, Web3Phases
<1>. QED
  BY <1>1, <1>3

LEMMA Web3Answers ==
    ASSUME HandlersGood, pc \in Web3Phases, NEW r \in Answers, Responds(r),
           UNCHANGED <<siteVars, web3Vars>>
    PROVE  HandlersGood'
<1>1. /\ RequestInv' /\ LocationInv'
      /\ pc' = "answered" /\ request' = request
  BY HandlerAnswers DEF HandlersGood, web3Vars
<1>2. request \in Web3Requests
  BY DEF HandlersGood, RequestInv
<1>. QED
  BY <1>1, <1>2, Web3Quiet DEF HandlersGood

LEMMA Web3Moves ==
    ASSUME HandlersGood, pc \in Web3Phases, pc' \in Web3Phases, UNCHANGED <<request, response>>,
           UNCHANGED <<siteVars, web3Vars>>
    PROVE  HandlersGood'
<1>1. RequestInv' /\ LocationInv'
  BY HandlerMoves DEF HandlersGood, web3Vars
<1>2. request \in Web3Requests
  BY DEF HandlersGood, RequestInv
<1>. QED
  BY <1>1, <1>2, Web3Quiet DEF HandlersGood

(* A redirect leads to where parse_local_request says.                           *)
LEMMA RedirectsWell ==
    ASSUME HandlersGood, Redirects, UNCHANGED siteVars
    PROVE  HandlersGood'
<1>1. /\ pc = "web3" /\ Parsed.status = 307 /\ Responds(Own(307)) /\ location' = Parsed.to
  BY DEF Redirects
<1>2. request \in Web3Requests
  BY <1>1 DEF HandlersGood, RequestInv, Web3Phases
<1>3. location' = Dashboard \/ Unwraps(location', request.path)
  BY <1>1, <1>2, HandlerOf, RedirectTarget DEF Parsed
<1>4. pc' = "answered" /\ request' = request /\ response' = Own(307)
  BY <1>1 DEF Responds
<1>5. RequestInv'
  BY <1>2, <1>4, OwnIs DEF RequestInv, SitePhases, Web3Phases
<1>6. LocationInv'
  BY <1>2, <1>3, <1>4 DEF LocationInv, RedirectsSettle, Unwraps
<1>. QED
  BY <1>2, <1>4, <1>5, <1>6, Web3Quiet DEF HandlersGood

LEMMA RendersWell ==
    ASSUME HandlersGood, Renders, UNCHANGED siteVars
    PROVE  HandlersGood'
<1>1. pc \in {"request", "html"} /\ pc \in Web3Phases
  BY DEF Renders, Web3Phases
<1>2. PICK status \in {200, 404} : Responds(Document(status, pc))
  BY <1>1 DEF Renders
<1>. DEFINE body == request.method # "HEAD"
            immutable == pc = "html"
<1>3. body \in BOOLEAN /\ immutable \in BOOLEAN
  OBVIOUS
<1>4. Document(status, pc) =
        [status |-> status, by |-> "contract", mode |-> pc, body |-> body, immutable |-> immutable]
  BY Zenon DEF Document
<1>. HIDE DEF body, immutable
<1>5. Document(status, pc) \in Documents
  BY <1>1, <1>3, <1>4 DEF Documents
<1>6. Document(status, pc) \in Answers
  BY <1>5 DEF Answers
<1>. QED
  BY <1>1, <1>2, <1>6, Web3Answers DEF Renders

LEMMA Web3Sound ==
    ASSUME LookupGood, HandlersGood, Web3Steps, UNCHANGED siteVars
    PROVE  LookupGood' /\ HandlersGood'
<1>1. CASE Redirects
  BY <1>1, LookupStutters, RedirectsWell DEF Redirects, lookupVars
<1>2. CASE MethodNotAllowed \/ InvalidTarget
  <2>1. PICK s \in {400, 405} : Rejects(s)
    BY <1>2 DEF MethodNotAllowed, InvalidTarget
  <2>. QED
    BY <2>1, OwnIs, LookupStutters, Web3Answers DEF Rejects, Web3Phases
<1>3. CASE AddressGiven \/ ReadsMode
  <2>1. /\ pc \in Web3Phases /\ pc' \in Web3Phases
        /\ UNCHANGED <<request, response>> /\ UNCHANGED <<lookupVars, web3Vars>>
    BY <1>3 DEF AddressGiven, ReadsMode, Moves, Web3Phases
  <2>. QED
    BY <2>1, LookupStutters, Web3Moves
<1>4. CASE AddressOfName
  <2>1. /\ pc \in Web3Phases /\ pc' \in Web3Phases
        /\ UNCHANGED <<request, response>> /\ UNCHANGED web3Vars
    BY <1>4 DEF AddressOfName, Moves, Web3Phases
  <2>2. PICK name \in NamesFor("address") : LookupBegins(name)
    BY <1>4 DEF AddressOfName
  <2>3. LookupGood'
    BY <2>2, BeginsWell
  <2>. QED
    BY <2>1, <2>3, Web3Moves
<1>5. CASE AddressFound
  <2>1. /\ pc \in Web3Phases /\ pc' \in Web3Phases
        /\ UNCHANGED <<request, response>> /\ UNCHANGED <<helios, web3Vars>> /\ LookupTaken
    BY <1>5 DEF AddressFound, Moves, Web3Phases
  <2>. QED
    BY <2>1, TakenWell, Web3Moves
<1>6. CASE AddressMissing
  <2>1. PICK s \in {404, 502} : Responds(Own(s))
    BY <1>6 DEF AddressMissing
  <2>2. pc \in Web3Phases /\ LookupTaken /\ UNCHANGED <<helios, web3Vars>>
    BY <1>6 DEF AddressMissing, Web3Phases
  <2>. QED
    BY <2>1, <2>2, OwnIs, TakenWell, Web3Answers
<1>7. CASE Renders
  BY <1>7, LookupStutters, RendersWell DEF Renders
<1>8. CASE RenderFails
  <2>1. pc \in Web3Phases /\ Responds(Own(502)) /\ UNCHANGED web3Vars
    BY <1>8 DEF RenderFails, Web3Phases
  <2>2. \E e : maybe_schedule_helios_restart_for_error(e)
    BY <1>8 DEF RenderFails
  <2>3. LookupGood'
    BY <1>8, <2>2, RestartIsScheduled, HeliosAlone DEF RenderFails
  <2>. QED
    BY <2>1, <2>3, OwnIs, Web3Answers
<1>. QED
  BY <1>1, <1>2, <1>3, <1>4, <1>5, <1>6, <1>7, <1>8
  DEF Web3Steps, Web3Parses, Web3Resolves, Web3Renders

----------------------------------------------------------------------------
(* Requests come and go.                                                      *)

LEMMA SiteArrivesWell ==
    ASSUME LookupGood, HandlersGood, SiteArrives
    PROVE  LookupGood' /\ HandlersGood'
<1>1. PICK r \in SiteRequests : Receives(r, "siteLookup") /\ LookupBegins(r.name)
  BY DEF SiteArrives, SiteReceives
<1>2. LookupGood'
  BY <1>1, HandlerOf, BeginsWell
<1>3. /\ pc = "idle" /\ pc' = "siteLookup" /\ request' = r /\ response' = NoResponse
      /\ UNCHANGED <<siteVars, web3Vars>>
  BY <1>1 DEF SiteArrives, SiteReceives, Receives
<1>4. RequestInv'
  BY <1>3 DEF RequestInv, SitePhases, Web3Phases
<1>5. LocationInv'
  BY <1>3 DEF HandlersGood, LocationInv, RedirectsSettle, web3Vars
<1>6. SiteTypeOK' /\ SiteInv'
  BY <1>3 DEF HandlersGood, SiteTypeOK, SiteInv, siteVars
<1>. QED
  BY <1>2, <1>4, <1>5, <1>6 DEF HandlersGood

LEMMA Web3ArrivesWell ==
    ASSUME LookupGood, HandlersGood, Web3Arrives
    PROVE  LookupGood' /\ HandlersGood'
<1>1. UNCHANGED lookupVars /\ UNCHANGED siteVars
  BY DEF Web3Arrives, Web3Receives, Follows
<1>2. /\ location' = NoPath /\ pc' = "web3" /\ response' = NoResponse
      /\ request' \in Web3Requests
  <2>1. CASE Web3Receives
    BY <2>1 DEF Web3Receives, Receives, HandlersGood, LocationInv, RedirectsSettle, web3Vars
  <2>2. CASE Follows
    <3>1. request \in Web3Requests /\ location \in WebPaths
      BY <2>2 DEF Follows, HandlersGood, LocationInv, RedirectsSettle
    <3>2. \A r \in Web3Requests : \A path \in WebPaths : [r EXCEPT !.path = path] \in Web3Requests
      BY DEF Web3Requests
    <3>. QED
      BY <2>2, <3>1, <3>2 DEF Follows, Receives
  <2>. QED
    BY <2>1, <2>2 DEF Web3Arrives
<1>3. pc' \in Web3Phases
  BY <1>2 DEF Web3Phases
<1>4. RequestInv'
  BY <1>2, <1>3, PhasesApart DEF RequestInv
<1>5. LocationInv'
  BY <1>2 DEF LocationInv, RedirectsSettle
<1>6. SiteTypeOK' /\ SiteInv'
  BY <1>1, <1>2, <1>3, Web3Quiet
<1>. QED
  BY <1>1, <1>4, <1>5, <1>6, LookupStutters DEF HandlersGood

LEMMA DeliveredWell ==
    ASSUME LookupGood, HandlersGood, Delivered
    PROVE  LookupGood' /\ HandlersGood'
<1>1. LookupGood'
  BY LookupStutters DEF Delivered
<1>2. RequestInv'
  BY DEF Delivered, RequestInv, SitePhases, Web3Phases
<1>3. LocationInv'
  BY DEF Delivered, LocationInv, RedirectsSettle
<1>4. SiteTypeOK' /\ SiteInv'
  BY PendingIs DEF Delivered, HandlersGood, SiteTypeOK, SiteInv
<1>. QED
  BY <1>1, <1>2, <1>3, <1>4 DEF HandlersGood

----------------------------------------------------------------------------
(* The theorems.                                                             *)

LEMMA GoodIsInv == IInv <=> LookupGood /\ HandlersGood
  BY DEF IInv, LookupGood, HandlersGood

LEMMA InvStarts == Init => IInv
<1>. SUFFICES ASSUME Init PROVE IInv
  OBVIOUS
<1>1. LookupGood
  BY LookupStarts DEF Init
<1>2. RequestInv
  BY DEF Init, RequestInv, SitePhases, Web3Phases
<1>3. LocationInv
  BY DEF Init, Web3Init, LocationInv, RedirectsSettle
<1>4. SiteTypeOK /\ SiteInv
  BY PendingIs DEF Init, SiteInit, SiteTypeOK, SiteInv
<1>. QED
  BY <1>1, <1>2, <1>3, <1>4, GoodIsInv DEF HandlersGood

LEMMA InvStep == IInv /\ [Next]_vars => IInv'
<1>. SUFFICES ASSUME IInv, [Next]_vars PROVE LookupGood' /\ HandlersGood'
  BY DEF IInv, LookupGood, HandlersGood
<1>. USE GoodIsInv
<1>1. CASE SiteArrives
  BY <1>1, SiteArrivesWell
<1>2. CASE Web3Arrives
  BY <1>2, Web3ArrivesWell
<1>3. CASE Delivered
  BY <1>3, DeliveredWell
<1>4. CASE LookupSteps /\ UNCHANGED <<requestVars, siteVars, web3Vars>>
  BY <1>4, LookupSound, HandlersStutter
<1>5. CASE SiteSteps /\ UNCHANGED web3Vars
  BY <1>5, SiteSound
<1>6. CASE Web3Steps /\ UNCHANGED siteVars
  BY <1>6, Web3Sound
<1>7. CASE HeliosChanges
  <2>1. helios' \in ClientStates
    BY <1>7 
       DEF HeliosChanges, HeliosSteps, ClientNext, HeliosStarts, HeliosSyncs, HeliosRestarts,
           ClientStates
  <2>2. LookupGood'
    BY <1>7, <2>1, HeliosAlone DEF HeliosChanges, HeliosSteps
  <2>. QED
    BY <1>7, <2>2, HandlersStutter DEF HeliosChanges
<1>8. CASE UNCHANGED vars
  BY <1>8, LookupStutters, HandlersStutter DEF vars
<1>. QED
  BY <1>1, <1>2, <1>3, <1>4, <1>5, <1>6, <1>7, <1>8 DEF Next, Handles

(* The inductive invariant holds of every behaviour of the handlers.              *)
THEOREM Invariance == Spec => []IInv
  BY InvStarts, InvStep, PTL DEF Spec

(* The lookup, both handlers and their answers keep their types: what any payload of  *)
(* the chain is decoded to is a record, and what is answered one of the few answers.   *)
THEOREM TypeCorrect == Spec => []TypeOK
<1>1. IInv => TypeOK
  <2>. SUFFICES ASSUME IInv PROVE TypeOK
    OBVIOUS
  <2>1. LookupTypeOK /\ SiteTypeOK
    BY DEF IInv
  <2>2. Web3TypeOK
    BY DEF IInv, LocationInv, RedirectsSettle, Web3TypeOK
  <2>3. request \in {NoRequest} \cup SiteRequests \cup Web3Requests
    BY DEF IInv, RequestInv
  <2>4. response \in {NoResponse} \cup Answers
    BY DEF IInv, RequestInv
  <2>. QED
    BY <2>1, <2>2, <2>3, <2>4 DEF TypeOK, Answers
<1>. QED
  BY <1>1, Invariance, PTL

(* A record is said to come from CCIP-read if and only if a gateway answered in the    *)
(* attempt that found it, however the attempts before it ended (src/ens.rs).          *)
THEOREM ResolutionTrue == Spec => []ResolutionIsTrue
<1>1. IInv => ResolutionIsTrue
  BY DEF IInv, LookupInv
<1>. QED
  BY <1>1, Invariance, PTL

(* Content is served of the record just found, and of the cache only after a lookup    *)
(* that failed in a way that allows for it (proxy_request, src/ens.rs).               *)
THEOREM AnswerOutranks == Spec => []AnswerOutranksCache
<1>1. IInv => AnswerOutranksCache
  <2>. SUFFICES ASSUME IInv PROVE AnswerOutranksCache
    OBVIOUS
  <2>1. CASE pc = "answered"
    BY <2>1 DEF IInv, SiteInv
  <2>2. CASE pc # "answered"
    <3>1. response = NoResponse
      BY <2>2 DEF IInv, RequestInv
    <3>2. NoResponse.by = "nobody" /\ Own(404).by = "neomist"
      BY DEF NoResponse, Own
    <3>. QED
      BY <3>1, <3>2 DEF AnswerOutranksCache
  <2>. QED
    BY <2>1, <2>2
<1>. QED
  BY <1>1, Invariance, PTL

(* What a step of the handlers may do to the light client: nothing, or ask for a        *)
(* restart.                                                                    *)
AsksAtMost == helios' = helios \/ HeliosRestarts

LEMMA ScheduleAsks ==
    ASSUME NEW e, maybe_schedule_helios_restart_for_error(e)
    PROVE  AsksAtMost
BY DEF maybe_schedule_helios_restart_for_error, is_current_client_synced, AsksAtMost, HeliosRestarts

LEMMA LookupAsks ==
    ASSUME LookupSteps
    PROVE  AsksAtMost
<1>1. ASSUME NEW e, AttemptFails(e) PROVE AsksAtMost
  BY <1>1, ScheduleAsks DEF AttemptFails, AsksAtMost
<1>2. CASE BackendFails \/ GatewayFails \/ NoGateways
  BY <1>1, <1>2 DEF BackendFails, GatewayFails, NoGateways, AsksAtMost
<1>3. CASE RegistryAnswers \/ Decodes \/ GatewayAnswers
  BY <1>3 DEF RegistryAnswers, Decodes, GatewayAnswers, GoesTo, Succeeds, AsksAtMost
<1>4. CASE ProbeAnswers
  BY <1>1, <1>4 DEF ProbeAnswers, GoesTo, AsksAtMost
<1>5. CASE CallReturns
  BY <1>1, <1>5 DEF CallReturns, AsksAtMost
<1>6. CASE OffchainLookup
  BY <1>1, <1>6 DEF OffchainLookup, AsksAtMost
<1>. QED
  BY <1>2, <1>3, <1>4, <1>5, <1>6 DEF LookupSteps

LEMMA SiteAsks ==
    ASSUME SiteSteps
    PROVE  AsksAtMost
<1>1. CASE SiteLookupEnds
  BY <1>1 DEF SiteLookupEnds, LookupAnswered, LookupFailed, RetryFailed, TakesOutcome, AsksAtMost
<1>2. CASE SiteFallsBack \/ SiteForwards
  BY <1>2 DEF SiteFallsBack, ReadsCache, CacheUnreadable, SiteForwards, BodyUnreadable,
     GatewayUnreachable, GatewayResponds, lookupVars, AsksAtMost
<1>3. CASE SiteRecovers
  BY <1>3 DEF SiteRecovers, NothingToWaitFor, AlreadyRecovered, WaitBegins, Recovered,
     WaitTimesOut, LooksUpAgain, LookupBegins, lookupVars, AsksAtMost
<1>4. CASE WritesMetadata \/ UpdatesCache
  BY <1>4 DEF WritesMetadata, UpdatesCache, lookupVars, AsksAtMost
<1>. QED
  BY <1>1, <1>2, <1>3, <1>4 DEF SiteSteps

LEMMA Web3Asks ==
    ASSUME Web3Steps
    PROVE  AsksAtMost
<1>1. CASE Web3Parses
  BY <1>1 DEF Web3Parses, MethodNotAllowed, Redirects, InvalidTarget, Rejects, lookupVars, AsksAtMost
<1>2. CASE Web3Resolves
  BY <1>2 DEF Web3Resolves, AddressGiven, AddressOfName, AddressFound, AddressMissing,
     LookupBegins, lookupVars, AsksAtMost
<1>3. CASE ReadsMode \/ Renders
  BY <1>3 DEF ReadsMode, Renders, lookupVars, AsksAtMost
<1>4. CASE RenderFails
  BY <1>4, ScheduleAsks DEF RenderFails
<1>. QED
  BY <1>1, <1>2, <1>3, <1>4 DEF Web3Steps, Web3Renders

(* The requests, whatever they meet, change the light client only as LightClient says:   *)
(* they may ask for a restart of a client that is synced, and nothing else              *)
(* (maybe_schedule_helios_restart_for_error, src/ens.rs).  HeliosRuntime implements     *)
(* LightClient in turn.                                                         *)
THEOREM HandlersKeepToLightClient == Spec => ClientSpec
<1>1. Init => ClientInit
  BY DEF Init, LookupInit
<1>2. ASSUME [Next]_vars PROVE [ClientNext]_helios
  <2>1. ASSUME AsksAtMost PROVE [ClientNext]_helios
    BY <2>1 DEF AsksAtMost, ClientNext
  <2>2. CASE SiteArrives
    BY <2>2 DEF SiteArrives, SiteReceives, LookupBegins
  <2>3. CASE Web3Arrives \/ Delivered
    BY <2>3 DEF Web3Arrives, Web3Receives, Follows, Delivered, lookupVars
  <2>4. CASE Handles
    BY <2>1, <2>4, LookupAsks, SiteAsks, Web3Asks DEF Handles
  <2>5. CASE HeliosChanges
    BY <2>5 DEF HeliosChanges, HeliosSteps
  <2>6. CASE UNCHANGED vars
    BY <2>6 DEF vars, lookupVars
  <2>. QED
    BY <1>2, <2>2, <2>3, <2>4, <2>5, <2>6 DEF Next
<1>. QED
  BY <1>1, <1>2, PTL DEF Spec, ClientSpec

(* However many layers of web3:// URLs a path has, a redirect within the gateway takes  *)
(* one of them off and changes nothing that is named, so that a chain of redirects ends *)
(* at the contract, chain and page that were asked for (parse_local_request,           *)
(* src/web3.rs).                                                                *)
THEOREM RedirectsSettled == Spec => []RedirectsSettle
<1>1. IInv => RedirectsSettle
  BY DEF IInv, LocationInv, RedirectsSettle
<1>. QED
  BY <1>1, Invariance, PTL
----------------------------------------------------------------------------
(* Induction on the turns of a loop: the library states it for an operator; here   *)
(* it is a set that has a smallest counterexample.                             *)

LEMMA SmallestIs ==
    ASSUME NEW S, S \subseteq Nat, S # {}
    PROVE  \E x \in S : \A y \in S : x <= y
<1>. DEFINE Less == OpToRel(<, Nat)
<1>1. IsWellFoundedOn(Less, Nat)
  BY NatLessThanWellFounded
<1>. HIDE DEF Less
<1>2. \E x \in S : \A y \in S : ~ (<<y, x>> \in Less)
  BY <1>1, WFMin
<1>3. PICK x \in S : \A y \in S : ~ (<<y, x>> \in Less)
  BY <1>2
<1>4. ASSUME NEW y \in S
      PROVE  x <= y
  <2>1. x \in Nat /\ y \in Nat
    OBVIOUS
  <2>2. y < x => <<y, x>> \in Less
    BY <2>1 DEF Less, OpToRel
  <2>. QED
    BY <1>3, <2>1, <2>2
<1>. QED
  BY <1>4

LEMMA AllTurns ==
    ASSUME NEW T, 0 \in T, \A n \in Nat : n \in T => n + 1 \in T
    PROVE  Nat \subseteq T
<1>1. SUFFICES ASSUME Nat \ T # {} PROVE FALSE
  OBVIOUS
<1>2. PICK x \in Nat \ T : \A y \in Nat \ T : x <= y
  BY <1>1, SmallestIs
<1>3. x # 0 /\ x - 1 \in Nat /\ (x - 1) + 1 = x
  BY <1>2
<1>4. x - 1 \notin T
  BY <1>3
<1>. QED
  BY <1>2, <1>3, <1>4

(* The first n turns of a loop whose turn i takes a value v to turn[i][v].         *)
Turned(f, n, V, start, turn) ==
    /\ f \in [0..n -> V]
    /\ f[0] = start
    /\ \A i \in 1..n : f[i] = turn[i][f[i - 1]]

Computes(f, V, start, turn) ==
    /\ f \in [Nat -> V]
    /\ f[0] = start
    /\ \A i \in Nat \ {0} : f[i] = turn[i][f[i - 1]]

LEMMA TurnsAgree ==
    ASSUME NEW V, NEW start \in V, NEW turn \in [Nat -> [V -> V]],
           NEW f, NEW g, NEW m \in Nat, NEW n \in Nat,
           Turned(f, m, V, start, turn), Turned(g, n, V, start, turn)
    PROVE  \A k \in Nat : k <= m /\ k <= n => f[k] = g[k]
<1>. DEFINE T == {k \in Nat : k <= m /\ k <= n => f[k] = g[k]}
<1>1. 0 \in T
  BY DEF Turned
<1>2. ASSUME NEW k \in Nat, k \in T
      PROVE  k + 1 \in T
  <2>1. SUFFICES ASSUME k + 1 <= m, k + 1 <= n
                 PROVE  f[k + 1] = g[k + 1]
    OBVIOUS
  <2>2. k + 1 \in 1..m /\ k + 1 \in 1..n /\ (k + 1) - 1 = k /\ k <= m /\ k <= n
    BY <2>1
  <2>3. f[k] = g[k]
    BY <1>2, <2>2
  <2>. QED
    BY <2>2, <2>3 DEF Turned
<1>. HIDE DEF T
<1>3. Nat \subseteq T
  BY <1>1, <1>2, AllTurns
<1>. QED
  BY <1>3 DEF T

LEMMA TurnedSoFar ==
    ASSUME NEW V, NEW start \in V, NEW turn \in [Nat -> [V -> V]]
    PROVE  \A n \in Nat : \E f : Turned(f, n, V, start, turn)
<1>. DEFINE T == {n \in Nat : \E f : Turned(f, n, V, start, turn)}
<1>1. 0 \in T
  <2>1. Turned([i \in 0..0 |-> start], 0, V, start, turn)
    BY DEF Turned
  <2>. QED
    BY <2>1
<1>2. ASSUME NEW n \in Nat, n \in T
      PROVE  n + 1 \in T
  <2>1. PICK f : Turned(f, n, V, start, turn)
    BY <1>2
  <2>. DEFINE g == [i \in 0..n + 1 |-> IF i = n + 1 THEN turn[n + 1][f[n]] ELSE f[i]]
  <2>2. f[n] \in V
    BY <2>1 DEF Turned
  <2>3. turn[n + 1][f[n]] \in V
    BY <2>2
  <2>4. g \in [0..n + 1 -> V]
    BY <2>1, <2>3 DEF Turned
  <2>5. g[0] = start
    BY <2>1 DEF Turned
  <2>6. ASSUME NEW i \in 1..n + 1
        PROVE  g[i] = turn[i][g[i - 1]]
    <3>1. CASE i = n + 1
      BY <3>1
    <3>2. CASE i # n + 1
      <4>1. i \in 1..n /\ i - 1 \in 0..n
        BY <3>2
      <4>2. g[i] = f[i] /\ g[i - 1] = f[i - 1]
        BY <4>1
      <4>. QED
        BY <2>1, <4>1, <4>2 DEF Turned
    <3>. QED
      BY <3>1, <3>2
  <2>. HIDE DEF g
  <2>7. Turned(g, n + 1, V, start, turn)
    BY <2>4, <2>5, <2>6 DEF Turned
  <2>. QED
    BY <2>7
<1>. HIDE DEF T
<1>3. Nat \subseteq T
  BY <1>1, <1>2, AllTurns
<1>. QED
  BY <1>3 DEF T

(* A recursive definition over the naturals defines a function.                   *)
LEMMA TurnsExist ==
    ASSUME NEW V, NEW start \in V, NEW turn \in [Nat -> [V -> V]]
    PROVE  \E f : Computes(f, V, start, turn)
<1>. DEFINE upTo == [n \in Nat |-> CHOOSE f : Turned(f, n, V, start, turn)]
            F == [n \in Nat |-> upTo[n][n]]
<1>1. ASSUME NEW n \in Nat PROVE Turned(upTo[n], n, V, start, turn)
  BY TurnedSoFar
<1>. HIDE DEF upTo
<1>2. F \in [Nat -> V]
  BY <1>1 DEF Turned
<1>3. F[0] = start
  BY <1>1 DEF Turned
<1>4. ASSUME NEW i \in Nat \ {0}
      PROVE  F[i] = turn[i][F[i - 1]]
  <2>1. i - 1 \in Nat /\ i \in 1..i /\ i - 1 <= i
    OBVIOUS
  <2>2. upTo[i][i] = turn[i][upTo[i][i - 1]]
    BY <1>1, <2>1 DEF Turned
  <2>3. upTo[i][i - 1] = upTo[i - 1][i - 1]
    BY <1>1, <2>1, TurnsAgree
  <2>. QED
    BY <2>1, <2>2, <2>3
<1>. HIDE DEF F
<1>. QED
  BY <1>2, <1>3, <1>4 DEF Computes

LEMMA PowersAre ==
    /\ TwoTo \in [Nat -> Nat \ {0}]
    /\ TwoTo[0] = 1
    /\ \A n \in Nat : TwoTo[n + 1] = 2 * TwoTo[n]
<1>1. TwoTo = [n \in Nat |-> IF n = 0 THEN 1 ELSE 2 * TwoTo[n - 1]]
  <2>. DEFINE start == 1
              V == Nat
              turn == [i \in Nat |-> [v \in Nat |-> 2 * v]]
              Is(f) == f = [n \in Nat |-> IF n = 0 THEN 1 ELSE 2 * f[n - 1]]
  <2>1. start \in V /\ turn \in [Nat -> [V -> V]]
    OBVIOUS
  <2>. HIDE DEF start, turn, V
  <2>2. PICK f : Computes(f, V, start, turn)
    BY <2>1, TurnsExist
  <2>. USE DEF start, turn, V
  <2>3. \A n \in Nat \ {0} : n - 1 \in Nat /\ f[n] = turn[n][f[n - 1]] /\ f[n - 1] \in Nat
    BY <2>2 DEF Computes
  <2>4. \A n \in Nat : f[n] = IF n = 0 THEN 1 ELSE 2 * f[n - 1]
    BY <2>2, <2>3 DEF Computes
  <2>5. Is(f)
    BY <2>2, <2>4 DEF Computes
  <2>6. TwoTo = CHOOSE g : Is(g)
    BY DEF TwoTo
  <2>. HIDE DEF Is
  <2>7. Is(TwoTo)
    BY <2>5, <2>6
  <2>. QED
    BY <2>7 DEF Is
<1>. DEFINE T == {n \in Nat : TwoTo[n] \in Nat \ {0}}
<1>2. TwoTo[0] = 1
  BY <1>1
<1>3. ASSUME NEW n \in Nat
      PROVE  TwoTo[n + 1] = 2 * TwoTo[n]
  <2>. DEFINE next == n + 1
  <2>1. next \in Nat /\ next # 0 /\ next - 1 = n
    OBVIOUS
  <2>. HIDE DEF next
  <2>2. TwoTo[next] = 2 * TwoTo[n]
    BY <2>1, <1>1
  <2>. QED
    BY <2>2 DEF next
<1>4. 0 \in T
  BY <1>2
<1>5. ASSUME NEW n \in Nat, n \in T
      PROVE  n + 1 \in T
  BY <1>3, <1>5
<1>. HIDE DEF T
<1>6. Nat \subseteq T
  BY <1>4, <1>5, AllTurns
<1>7. \A n \in Nat : TwoTo[n] \in Nat \ {0}
  BY <1>6 DEF T
<1>8. TwoTo \in [Nat -> Nat \ {0}]
  BY <1>1, <1>7
<1>. QED
  BY <1>2, <1>3, <1>8

LEMMA TurnedToEnd ==
    ASSUME NEW V, NEW start \in V, NEW n \in Nat, NEW turn \in [1..n -> [V -> V]]
    PROVE  \E f : Turned(f, n, V, start, turn)
<1>. DEFINE on == [i \in Nat |-> IF i \in 1..n THEN turn[i] ELSE [v \in V |-> v]]
<1>1. on \in [Nat -> [V -> V]]
  OBVIOUS
<1>2. \A i \in 1..n : on[i] = turn[i]
  OBVIOUS
<1>. HIDE DEF on
<1>3. PICK f : Turned(f, n, V, start, on)
  BY <1>1, TurnedSoFar
<1>4. Turned(f, n, V, start, turn)
  BY <1>2, <1>3 DEF Turned
<1>. QED
  BY <1>4

(* The accumulator of the loop of decode_varint.                                 *)
States == {"reading", "ended", "overlong"}
Accumulators == [value : Nat, shift : Nat, index : Nat, state : States]

LEMMA GroupsAre ==
    /\ GroupBits \in Nat /\ GroupBits > 0
    /\ Width \in Nat /\ Width >= GroupBits
    /\ TwoTo[Width] \in Nat /\ TwoTo[Width] > 0
    /\ TwoTo[GroupBits] \in Nat /\ TwoTo[GroupBits] > 0
<1>1. GroupBits \in Nat /\ GroupBits > 0 /\ Width \in Nat /\ Width >= GroupBits
  BY ContenthashAssumption
<1>2. TwoTo[Width] \in Nat /\ TwoTo[Width] > 0 /\ TwoTo[GroupBits] \in Nat /\ TwoTo[GroupBits] > 0
  BY <1>1, PowersAre
<1>. QED
  BY <1>1, <1>2

LEMMA LowBitsAre ==
    ASSUME NEW byte \in Nat
    PROVE  LowBits(byte) \in Nat /\ LowBits(byte) < TwoTo[GroupBits]
<1>. DEFINE m == TwoTo[GroupBits]
<1>1. m \in Nat /\ m > 0
  BY GroupsAre
<1>. HIDE DEF m
<1>2. byte % m \in 0..m - 1
  BY <1>1
<1>. QED
  BY <1>1, <1>2 DEF LowBits, m

(* A turn while reading, and afterwards.                                        *)
Read(acc, byte) == (acc.value + LowBits(byte) * TwoTo[acc.shift]) % TwoTo[Width]

LEMMA ReadIsNatural ==
    ASSUME NEW acc \in Accumulators, NEW byte \in Nat
    PROVE  Read(acc, byte) \in Nat
<1>. DEFINE low == LowBits(byte)
            weight == TwoTo[acc.shift]
            m == TwoTo[Width]
            sum == acc.value + low * weight
<1>1. low \in Nat /\ weight \in Nat /\ m \in Nat /\ m > 0 /\ acc.value \in Nat
  BY GroupsAre, LowBitsAre, PowersAre DEF Accumulators
<1>2. Read(acc, byte) = sum % m
  BY DEF Read
<1>. HIDE DEF low, weight, m
<1>3. sum \in Nat
  <2>1. low * weight \in Nat
    BY <1>1
  <2>. QED
    BY <1>1, <2>1
<1>. HIDE DEF sum
<1>. QED
  BY <1>1, <1>2, <1>3

LEMMA AddGroupIs ==
    ASSUME NEW acc \in Accumulators, NEW byte \in Nat
    PROVE  /\ acc.state # "reading" => AddGroup(acc, byte) = acc
           /\ acc.state = "reading" =>
                 AddGroup(acc, byte) =
                    IF ~Continues(byte)
                    THEN [value |-> Read(acc, byte), shift |-> acc.shift, index |-> acc.index + 1, state |-> "ended"]
                    ELSE IF acc.shift + GroupBits > Width - 1
                    THEN [value |-> Read(acc, byte), shift |-> acc.shift, index |-> acc.index + 1, state |-> "overlong"]
                    ELSE [value |-> Read(acc, byte), shift |-> acc.shift + GroupBits, index |-> acc.index + 1,
                          state |-> "reading"]
           /\ AddGroup(acc, byte) \in Accumulators
<1>1. Read(acc, byte) \in Nat /\ acc.shift \in Nat /\ acc.index + 1 \in Nat /\ acc.shift + GroupBits \in Nat
  BY ReadIsNatural, GroupsAre DEF Accumulators
<1>2. acc.state # "reading" => AddGroup(acc, byte) = acc
  BY DEF AddGroup
<1>. DEFINE next == IF ~Continues(byte)
                    THEN [value |-> Read(acc, byte), shift |-> acc.shift, index |-> acc.index + 1, state |-> "ended"]
                    ELSE IF acc.shift + GroupBits > Width - 1
                    THEN [value |-> Read(acc, byte), shift |-> acc.shift, index |-> acc.index + 1, state |-> "overlong"]
                    ELSE [value |-> Read(acc, byte), shift |-> acc.shift + GroupBits, index |-> acc.index + 1,
                          state |-> "reading"]
<1>3. acc.state = "reading" => AddGroup(acc, byte) = next
  <2>. DEFINE value == Read(acc, byte)
              index == acc.index + 1
              read == [acc EXCEPT !.value = value, !.index = index]
  <2>1. acc.state = "reading" =>
           AddGroup(acc, byte) = IF ~Continues(byte) THEN [read EXCEPT !.state = "ended"]
                                 ELSE IF acc.shift + GroupBits > Width - 1 THEN [read EXCEPT !.state = "overlong"]
                                 ELSE [read EXCEPT !.shift = @ + GroupBits]
    BY DEF AddGroup, Read
  <2>. HIDE DEF value, index
  <2>2. acc.state = "reading" => read = [value |-> value, shift |-> acc.shift, index |-> index, state |-> "reading"]
    <3>1. value \in Nat /\ index \in Nat
      BY <1>1 DEF value, index
    <3>2. read \in Accumulators
      BY <3>1 DEF Accumulators
    <3>3. read.value = value /\ read.index = index /\ read.shift = acc.shift /\ read.state = acc.state
      BY <3>1 DEF Accumulators
    <3>. HIDE DEF read
    <3>4. read = [value |-> read.value, shift |-> read.shift, index |-> read.index, state |-> read.state]
      BY <3>2 DEF Accumulators
    <3>. QED
      BY <3>3, <3>4
  <2>. HIDE DEF read
  <2>3. ASSUME acc.state = "reading"
        PROVE  /\ [read EXCEPT !.state = "ended"]
                     = [value |-> value, shift |-> acc.shift, index |-> index, state |-> "ended"]
               /\ [read EXCEPT !.state = "overlong"]
                     = [value |-> value, shift |-> acc.shift, index |-> index, state |-> "overlong"]
               /\ [read EXCEPT !.shift = @ + GroupBits]
                     = [value |-> value, shift |-> acc.shift + GroupBits, index |-> index, state |-> "reading"]
    BY <2>2, <2>3
  <2>. QED
    BY <2>1, <2>3 DEF value, index
<1>4. next \in Accumulators
  BY <1>1 DEF Accumulators, States
<1>. QED
  BY <1>2, <1>3, <1>4

LEMMA TurnsAre ==
    ASSUME NEW bytes \in Seq(Nat)
    PROVE  /\ \A i \in 0..Len(bytes) : Turns(bytes)[i] \in Accumulators
           /\ Turns(bytes)[0] = BeforeLoop
           /\ \A i \in 1..Len(bytes) : Turns(bytes)[i] = AddGroup(Turns(bytes)[i - 1], bytes[i])
<1>. DEFINE n == Len(bytes)
            turn == [i \in 1..n |-> [v \in Accumulators |-> AddGroup(v, bytes[i])]]
            Is(f) == f = [i \in 0..n |-> IF i = 0 THEN BeforeLoop ELSE AddGroup(f[i - 1], bytes[i])]
<1>0. n \in Nat /\ \A i \in 1..n : bytes[i] \in Nat
  OBVIOUS
<1>1. BeforeLoop \in Accumulators
  BY DEF BeforeLoop, Accumulators, States
<1>2. turn \in [1..n -> [Accumulators -> Accumulators]]
  BY <1>0, AddGroupIs
<1>3. \A i \in 1..n, v \in Accumulators : turn[i][v] = AddGroup(v, bytes[i])
  OBVIOUS
<1>4. Turns(bytes) = CHOOSE f : Is(f)
  BY DEF Turns
<1>. HIDE DEF n, turn
<1>5. PICK f : Turned(f, n, Accumulators, BeforeLoop, turn)
  BY <1>0, <1>1, <1>2, TurnedToEnd
<1>6. ASSUME NEW i \in 1..n
      PROVE  f[i] = AddGroup(f[i - 1], bytes[i])
  <2>1. i - 1 \in 0..n
    BY <1>0
  <2>2. f[i - 1] \in Accumulators
    BY <1>5, <2>1 DEF Turned
  <2>. QED
    BY <1>3, <1>5, <2>2 DEF Turned
<1>7. Is(f)
  <2>1. \A i \in 0..n : f[i] = IF i = 0 THEN BeforeLoop ELSE AddGroup(f[i - 1], bytes[i])
    BY <1>0, <1>5, <1>6 DEF Turned
  <2>. QED
    BY <1>5, <2>1 DEF Turned
<1>. HIDE DEF Is
<1>8. Is(Turns(bytes))
  BY <1>4, <1>7
<1>. DEFINE t == Turns(bytes)
<1>9. t = [i \in 0..n |-> IF i = 0 THEN BeforeLoop ELSE AddGroup(t[i - 1], bytes[i])]
  BY <1>8 DEF Is
<1>. HIDE DEF t
<1>10. t[0] = BeforeLoop /\ \A i \in 1..n : t[i] = AddGroup(t[i - 1], bytes[i])
  BY <1>0, <1>9
<1>. DEFINE T == {i \in Nat : i <= n => t[i] \in Accumulators}
<1>11. 0 \in T
  BY <1>1, <1>10
<1>12. ASSUME NEW i \in Nat, i \in T
       PROVE  i + 1 \in T
  <2>1. SUFFICES ASSUME i + 1 <= n PROVE t[i + 1] \in Accumulators
    OBVIOUS
  <2>2. i + 1 \in 1..n /\ (i + 1) - 1 = i /\ i <= n
    BY <1>0, <2>1
  <2>3. t[i + 1] = AddGroup(t[i], bytes[i + 1])
    BY <1>10, <2>2
  <2>4. t[i] \in Accumulators /\ bytes[i + 1] \in Nat
    BY <1>0, <1>12, <2>2
  <2>. QED
    BY <2>3, <2>4, AddGroupIs
<1>. HIDE DEF T
<1>13. Nat \subseteq T
  BY <1>11, <1>12, AllTurns
<1>14. \A i \in 0..n : t[i] \in Accumulators
  BY <1>0, <1>13 DEF T
<1>. QED
  BY <1>10, <1>14 DEF t, n

LEMMA SpelledAre ==
    ASSUME NEW bytes \in Seq(Nat)
    PROVE  /\ \A i \in 0..Len(bytes) : Spelled(bytes)[i] \in Nat
           /\ Spelled(bytes)[0] = 0
           /\ \A i \in 1..Len(bytes) :
                 Spelled(bytes)[i] = Spelled(bytes)[i - 1] + LowBits(bytes[i]) * TwoTo[GroupBits * (i - 1)]
<1>. DEFINE n == Len(bytes)
            V == Nat
            start == 0
            add(i) == LowBits(bytes[i]) * TwoTo[GroupBits * (i - 1)]
            turn == [i \in 1..n |-> [v \in V |-> v + add(i)]]
            Is(f) == f = [i \in 0..n |-> IF i = 0 THEN 0 ELSE f[i - 1] + add(i)]
<1>0. n \in Nat /\ \A i \in 1..n : bytes[i] \in Nat
  OBVIOUS
<1>1. ASSUME NEW i \in 1..n
      PROVE  add(i) \in Nat
  <2>. DEFINE low == LowBits(bytes[i])
              before == i - 1
              place == GroupBits * before
              weight == TwoTo[place]
  <2>0. bytes[i] \in Nat
    BY <1>0
  <2>1. low \in Nat /\ before \in Nat /\ GroupBits \in Nat
    <3>1. low \in Nat
      BY <2>0, LowBitsAre
    <3>2. before \in Nat
      BY <1>0
    <3>. QED
      BY <3>1, <3>2, GroupsAre
  <2>. HIDE DEF before
  <2>2. place \in Nat
    BY <2>1
  <2>. HIDE DEF place
  <2>3. weight \in Nat
    BY <2>2, PowersAre
  <2>. HIDE DEF low, weight
  <2>4. low * weight \in Nat
    BY <2>1, <2>3
  <2>. QED
    BY <2>4 DEF low, weight, place, before
<1>2. Spelled(bytes) = CHOOSE f : Is(f)
  BY DEF Spelled
<1>. HIDE DEF add
<1>3. start \in V /\ turn \in [1..n -> [V -> V]] /\ \A i \in 1..n, v \in V : turn[i][v] = v + add(i)
  BY <1>1
<1>. HIDE DEF n, V, start, turn
<1>4. PICK f : Turned(f, n, V, start, turn)
  BY <1>0, <1>3, TurnedToEnd
<1>5. ASSUME NEW i \in 1..n
      PROVE  f[i] = f[i - 1] + add(i)
  <2>1. i - 1 \in 0..n
    BY <1>0
  <2>2. f[i - 1] \in V
    BY <1>4, <2>1 DEF Turned
  <2>. QED
    BY <1>3, <1>4, <2>2 DEF Turned
<1>6. Is(f)
  <2>1. \A i \in 0..n : f[i] = IF i = 0 THEN 0 ELSE f[i - 1] + add(i)
    BY <1>0, <1>4, <1>5 DEF Turned, start
  <2>. QED
    BY <1>4, <2>1 DEF Turned
<1>. HIDE DEF Is
<1>7. Is(Spelled(bytes))
  BY <1>2, <1>6
<1>. DEFINE t == Spelled(bytes)
<1>8. t = [i \in 0..n |-> IF i = 0 THEN 0 ELSE t[i - 1] + add(i)]
  BY <1>7 DEF Is
<1>. HIDE DEF t
<1>9. t[0] = 0 /\ \A i \in 1..n : t[i] = t[i - 1] + add(i)
  BY <1>0, <1>8
<1>. DEFINE T == {i \in Nat : i <= n => t[i] \in Nat}
<1>10. 0 \in T
  BY <1>9
<1>11. ASSUME NEW i \in Nat, i \in T
       PROVE  i + 1 \in T
  <2>1. SUFFICES ASSUME i + 1 <= n PROVE t[i + 1] \in Nat
    OBVIOUS
  <2>2. i + 1 \in 1..n /\ (i + 1) - 1 = i /\ i <= n
    BY <1>0, <2>1
  <2>3. t[i + 1] = t[i] + add(i + 1) /\ add(i + 1) \in Nat /\ t[i] \in Nat
    BY <1>1, <1>9, <1>11, <2>2
  <2>. QED
    BY <2>3
<1>. HIDE DEF T
<1>12. Nat \subseteq T
  BY <1>10, <1>11, AllTurns
<1>13. \A i \in 0..n : t[i] \in Nat
  BY <1>0, <1>12 DEF T
<1>. QED
  BY <1>9, <1>13 DEF t, n, add

LEMMA DivMod ==
    ASSUME NEW q \in Nat, NEW r \in Nat, NEW m \in Nat, m > r
    PROVE  (m * q + r) % m = r
  OBVIOUS

LEMMA ModAdds ==
    ASSUME NEW a \in Nat, NEW b \in Nat, NEW m \in Nat, m > 0
    PROVE  ((a % m) + b) % m = (a + b) % m
<1>. DEFINE q == a \div m
            r == a % m
            q2 == (r + b) \div m
            r2 == (r + b) % m
<1>1. q \in Nat /\ r \in Nat /\ r < m /\ a = m * q + r
  OBVIOUS
<1>. HIDE DEF q, r
<1>2. q2 \in Nat /\ r2 \in Nat /\ r2 < m /\ r + b = m * q2 + r2
  BY <1>1
<1>. HIDE DEF q2
<1>. DEFINE q3 == q + q2
<1>3. q3 \in Nat
  BY <1>1, <1>2
<1>4. a + b = m * q3 + r2
  <2>1. m * q3 = m * q + m * q2
    BY <1>1, <1>2
  <2>. HIDE DEF q3, r2
  <2>. QED
    BY <1>1, <1>2, <2>1
<1>. HIDE DEF q3, r2
<1>5. (m * q3 + r2) % m = r2
  BY <1>2, <1>3, DivMod
<1>6. (a + b) % m = r2
  BY <1>4, <1>5
<1>. QED
  BY <1>6 DEF r, r2

(* After i bytes: all of them continue and the loop reads on, or is too long; or the *)
(* first that does not continue has ended it.                                    *)
AllContinue(bytes, i) == \A j \in 1..i : Continues(bytes[j])
LoopInv(bytes, i) ==
    /\ AllContinue(bytes, i) =>
          IF GroupBits * i < Width
          THEN Turns(bytes)[i] = [value |-> Spelled(bytes)[i] % TwoTo[Width], shift |-> GroupBits * i,
                                  index |-> i, state |-> "reading"]
          ELSE Turns(bytes)[i].state = "overlong"
    /\ ~AllContinue(bytes, i) => Turns(bytes)[i].state # "reading"
    /\ \A l \in 1..i :
          AllContinue(bytes, l - 1) /\ ~Continues(bytes[l]) =>
              IF GroupBits * (l - 1) < Width
              THEN /\ Turns(bytes)[i].state = "ended"
                   /\ Turns(bytes)[i].value = Spelled(bytes)[l] % TwoTo[Width]
                   /\ Turns(bytes)[i].index = l
              ELSE Turns(bytes)[i].state = "overlong"

LEMMA LoopStep ==
    ASSUME NEW bytes \in Seq(Nat), NEW i \in Nat, i + 1 <= Len(bytes), LoopInv(bytes, i)
    PROVE  LoopInv(bytes, i + 1)
<1>. DEFINE n == Len(bytes)
            k == i + 1
            t == Turns(bytes)
            s == Spelled(bytes)
            m == TwoTo[Width]
            byte == bytes[k]
            shift == GroupBits * i
<1>1. n \in Nat /\ k \in 1..n /\ k \in Nat /\ i \in 0..n /\ k - 1 = i /\ k = i + 1 /\ byte \in Nat
  OBVIOUS
<1>2. t[i] \in Accumulators /\ t[k] = AddGroup(t[i], byte)
  <2>. HIDE DEF k, byte
  <2>1. \A j \in 0..n : t[j] \in Accumulators
    BY TurnsAre
  <2>2. \A j \in 1..n : t[j] = AddGroup(t[j - 1], bytes[j])
    BY TurnsAre
  <2>. HIDE DEF t, n
  <2>. QED
    BY <1>1, <2>1, <2>2 DEF byte
<1>3. s[i] \in Nat /\ s[k] = s[i] + LowBits(byte) * TwoTo[shift]
  <2>. HIDE DEF k, byte
  <2>1. \A j \in 0..n : s[j] \in Nat
    BY SpelledAre
  <2>2. \A j \in 1..n : s[j] = s[j - 1] + LowBits(bytes[j]) * TwoTo[GroupBits * (j - 1)]
    BY SpelledAre
  <2>. HIDE DEF s, n
  <2>3. s[k] = s[k - 1] + LowBits(bytes[k]) * TwoTo[GroupBits * (k - 1)]
    BY <1>1, <2>2
  <2>. QED
    BY <1>1, <2>1, <2>3 DEF byte
<1>4. shift \in Nat /\ GroupBits * k = shift + GroupBits /\ GroupBits * (k - 1) = shift
  BY GroupsAre
<1>5. AllContinue(bytes, k) <=> AllContinue(bytes, i) /\ Continues(byte)
  <2>1. \A j : j \in 1..k <=> j \in 1..i \/ j = k
    BY <1>1
  <2>. HIDE DEF k
  <2>. QED
    BY <2>1 DEF AllContinue
<1>6. \A l \in 1..k : l \in 1..i \/ l = k
  BY <1>1
<1>. HIDE DEF k, byte, t, s, n, shift, m
<1>7. /\ AllContinue(bytes, i) =>
            IF shift < Width THEN t[i] = [value |-> s[i] % m, shift |-> shift, index |-> i, state |-> "reading"]
            ELSE t[i].state = "overlong"
      /\ ~AllContinue(bytes, i) => t[i].state # "reading"
  BY DEF LoopInv, t, s, m, shift
<1>8. \A l \in 1..i :
          AllContinue(bytes, l - 1) /\ ~Continues(bytes[l]) =>
              IF GroupBits * (l - 1) < Width
              THEN t[i].state = "ended" /\ t[i].value = s[l] % m /\ t[i].index = l
              ELSE t[i].state = "overlong"
  BY DEF LoopInv, t, s, m
<1>9. SUFFICES
        /\ AllContinue(bytes, k) =>
              IF shift + GroupBits < Width
              THEN t[k] = [value |-> s[k] % m, shift |-> shift + GroupBits, index |-> k, state |-> "reading"]
              ELSE t[k].state = "overlong"
        /\ ~AllContinue(bytes, k) => t[k].state # "reading"
        /\ \A l \in 1..k :
              AllContinue(bytes, l - 1) /\ ~Continues(bytes[l]) =>
                  IF GroupBits * (l - 1) < Width
                  THEN t[k].state = "ended" /\ t[k].value = s[l] % m /\ t[k].index = l
                  ELSE t[k].state = "overlong"
  <2>1. LoopInv(bytes, k)
    BY <1>4, <1>9 DEF LoopInv, t, s, m
  <2>. QED
    BY <2>1 DEF k
<1>10. t[i].state # "reading" => t[k] = t[i]
  BY <1>1, <1>2, AddGroupIs
<1>11. CASE ~AllContinue(bytes, i)
  <2>1. t[k] = t[i] /\ t[i].state # "reading"
    BY <1>7, <1>10, <1>11
  <2>2. \A l \in 1..k : AllContinue(bytes, l - 1) => l \in 1..i
    BY <1>1, <1>6, <1>11
  <2>. QED
    BY <1>5, <1>8, <1>11, <2>1, <2>2
<1>12. CASE AllContinue(bytes, i) /\ ~(shift < Width)
  <2>1. t[k] = t[i] /\ t[i].state = "overlong"
    BY <1>7, <1>10, <1>12
  <2>2. ~(shift + GroupBits < Width)
    BY <1>4, <1>12, GroupsAre
  <2>3. \A l \in 1..k : ~Continues(bytes[l]) => l = k
    BY <1>6, <1>12 DEF AllContinue
  <2>. QED
    BY <1>4, <1>12, <2>1, <2>2, <2>3
<1>13. CASE AllContinue(bytes, i) /\ shift < Width
  <2>1. t[i] = [value |-> s[i] % m, shift |-> shift, index |-> i, state |-> "reading"]
    BY <1>7, <1>13
  <2>2. t[i].value = s[i] % m /\ t[i].shift = shift /\ t[i].index + 1 = k /\ t[i].state = "reading"
    BY <1>1, <2>1
  <2>3. Read(t[i], byte) = s[k] % m
    <3>. DEFINE low == LowBits(byte) * TwoTo[shift]
    <3>1. m \in Nat /\ m > 0
      BY GroupsAre DEF m
    <3>2. low \in Nat
      <4>. DEFINE a == LowBits(byte)
                  b == TwoTo[shift]
      <4>1. a \in Nat /\ b \in Nat
        BY <1>1, <1>4, LowBitsAre, PowersAre
      <4>. HIDE DEF a, b
      <4>2. a * b \in Nat
        BY <4>1
      <4>. QED
        BY <4>2 DEF a, b
    <3>3. Read(t[i], byte) = ((s[i] % m) + low) % m
      BY <2>2 DEF Read, m
    <3>4. s[k] = s[i] + low
      BY <1>3
    <3>. HIDE DEF low
    <3>. DEFINE before == s[i]
    <3>5. before \in Nat
      BY <1>3
    <3>. HIDE DEF before
    <3>6. ((before % m) + low) % m = (before + low) % m
      BY <3>1, <3>2, <3>5, ModAdds
    <3>. QED
      BY <3>3, <3>4, <3>6 DEF before
  <2>4. ~Continues(byte) => t[k].state = "ended" /\ t[k].value = s[k] % m /\ t[k].index = k
    BY <1>1, <1>2, <2>2, <2>3, AddGroupIs
  <2>5. Continues(byte) =>
           IF shift + GroupBits < Width
           THEN t[k] = [value |-> s[k] % m, shift |-> shift + GroupBits, index |-> k, state |-> "reading"]
           ELSE t[k].state = "overlong"
    <3>1. shift + GroupBits > Width - 1 <=> ~(shift + GroupBits < Width)
      BY <1>4, GroupsAre
    <3>. DEFINE acc == t[i]
                value == Read(acc, byte)
    <3>2. acc \in Accumulators /\ acc.state = "reading" /\ byte \in Nat
      BY <1>1, <1>2, <2>2
    <3>. HIDE DEF acc
    <3>3. Continues(byte) =>
             AddGroup(acc, byte) =
                IF acc.shift + GroupBits > Width - 1
                THEN [value |-> value, shift |-> acc.shift, index |-> acc.index + 1, state |-> "overlong"]
                ELSE [value |-> value, shift |-> acc.shift + GroupBits, index |-> acc.index + 1, state |-> "reading"]
      BY <3>2, AddGroupIs
    <3>4. acc.shift = shift /\ acc.index + 1 = k /\ value = s[k] % m /\ t[k] = AddGroup(acc, byte)
      BY <1>2, <2>2, <2>3 DEF acc
    <3>. HIDE DEF value
    <3>. QED
      BY <3>1, <3>3, <3>4
  <2>6. \A l \in 1..k : ~Continues(bytes[l]) => l = k
    BY <1>6, <1>13 DEF AllContinue
  <2>. QED
    BY <1>4, <1>5, <1>13, <2>4, <2>5, <2>6 DEF byte
<1>. QED
  BY <1>11, <1>12, <1>13

LEMMA LoopTurns ==
    ASSUME NEW bytes \in Seq(Nat)
    PROVE  LoopInv(bytes, Len(bytes))
<1>. DEFINE n == Len(bytes)
            T == {i \in Nat : i <= n => LoopInv(bytes, i)}
<1>0. n \in Nat
  OBVIOUS
<1>1. LoopInv(bytes, 0)
  <2>1. Turns(bytes)[0] = BeforeLoop /\ Spelled(bytes)[0] = 0
    BY TurnsAre, SpelledAre
  <2>2. GroupBits * 0 = 0 /\ 0 < Width /\ 0 % TwoTo[Width] = 0
    BY GroupsAre
  <2>. QED
    BY <2>1, <2>2 DEF LoopInv, BeforeLoop, AllContinue
<1>2. 0 \in T
  BY <1>1
<1>3. ASSUME NEW i \in Nat, i \in T
      PROVE  i + 1 \in T
  <2>1. SUFFICES ASSUME i + 1 <= n PROVE LoopInv(bytes, i + 1)
    OBVIOUS
  <2>2. i <= n
    BY <1>0, <2>1
  <2>3. LoopInv(bytes, i)
    BY <1>3, <2>2
  <2>. QED
    BY <2>1, <2>3, LoopStep
<1>. HIDE DEF T
<1>4. Nat \subseteq T
  BY <1>2, <1>3, AllTurns
<1>. QED
  BY <1>0, <1>4 DEF T

(* What decode_varint makes of any sequence of bytes.                             *)
DecodesExactly(bytes) ==
    LET last == CHOOSE i \in Stops(bytes) : \A j \in Stops(bytes) : i <= j
    IN  decode_varint(bytes) =
            IF Stops(bytes) = {} \/ last = Len(bytes) \/ GroupBits * (last - 1) >= Width
            THEN Undecodable
            ELSE [value |-> Spelled(bytes)[last] % TwoTo[Width], index |-> last]

LEMMA VarintExact ==
    ASSUME NEW bytes \in Seq(Nat)
    PROVE  DecodesExactly(bytes)
<1>. DEFINE n == Len(bytes)
            end == Turns(bytes)[n]
            last == CHOOSE i \in Stops(bytes) : \A j \in Stops(bytes) : i <= j
            decoded == IF end.state = "overlong" \/ end.index = 0 \/ end.index >= n THEN Undecodable
                       ELSE [value |-> end.value, index |-> end.index]
            exact == IF Stops(bytes) = {} \/ last = n \/ GroupBits * (last - 1) >= Width THEN Undecodable
                     ELSE [value |-> Spelled(bytes)[last] % TwoTo[Width], index |-> last]
<1>1. n \in Nat /\ DOMAIN bytes = 1..n
  OBVIOUS
<1>2. decode_varint(bytes) = decoded
  BY DEF decode_varint
<1>3. \A i : i \in Stops(bytes) <=> i \in 1..n /\ ~Continues(bytes[i])
  BY <1>1 DEF Stops
<1>4. /\ AllContinue(bytes, n) =>
            end.state = "overlong" \/ end.index = n
      /\ \A l \in 1..n :
          AllContinue(bytes, l - 1) /\ ~Continues(bytes[l]) =>
              IF GroupBits * (l - 1) < Width
              THEN /\ end.state = "ended"
                   /\ end.value = Spelled(bytes)[l] % TwoTo[Width]
                   /\ end.index = l
              ELSE end.state = "overlong"
  <2>1. LoopInv(bytes, n)
    BY LoopTurns
  <2>. HIDE DEF n
  <2>. QED
    BY <2>1 DEF LoopInv
<1>5. SUFFICES decoded = exact
  BY <1>2 DEF DecodesExactly
<1>. HIDE DEF n, last
<1>6. CASE Stops(bytes) = {}
  <2>1. AllContinue(bytes, n)
    BY <1>3, <1>6 DEF AllContinue
  <2>2. end.state = "overlong" \/ end.index = n
    BY <1>4, <2>1
  <2>. HIDE DEF end
  <2>. QED
    BY <1>1, <1>6, <2>2
<1>7. CASE Stops(bytes) # {}
  <2>1. Stops(bytes) \subseteq Nat
    BY <1>1, <1>3
  <2>2. \E i \in Stops(bytes) : \A j \in Stops(bytes) : i <= j
    BY <1>7, <2>1, SmallestIs
  <2>3. last \in Stops(bytes) /\ \A j \in Stops(bytes) : last <= j
    BY <2>2 DEF last
  <2>4. last \in 1..n /\ ~Continues(bytes[last])
    BY <1>3, <2>3
  <2>5. AllContinue(bytes, last - 1)
    <3>1. \A j \in 1..last - 1 : j \in 1..n /\ ~(last <= j)
      BY <1>1, <2>4
    <3>. QED
      BY <1>3, <2>3, <3>1 DEF AllContinue
  <2>6. IF GroupBits * (last - 1) < Width
        THEN /\ end.state = "ended"
             /\ end.value = Spelled(bytes)[last] % TwoTo[Width]
             /\ end.index = last
        ELSE end.state = "overlong"
    BY <1>4, <2>4, <2>5
  <2>. DEFINE place == GroupBits * (last - 1)
              value == Spelled(bytes)[last] % TwoTo[Width]
  <2>7. place \in Int /\ Width \in Nat
    BY <1>1, <2>4, GroupsAre
  <2>. HIDE DEF place, end, value
  <2>8. IF place < Width THEN end.state = "ended" /\ end.value = value /\ end.index = last
        ELSE end.state = "overlong"
    BY <2>6 DEF place, value
  <2>9. exact = IF last = n \/ place >= Width THEN Undecodable ELSE [value |-> value, index |-> last]
    BY <1>7 DEF place, value
  <2>. QED
    BY <1>1, <2>4, <2>7, <2>8, <2>9
<1>. QED
  BY <1>6, <1>7

(* A prefix that fits decodes to the number that its groups spell and to the place      *)
(* after it; one that is too long, or takes all the bytes, is refused (decode_varint,  *)
(* src/ens.rs).                                                               *)
THEOREM PrefixesExact == Spec => []PrefixDecodesExactly
<1>1. IInv => PrefixDecodesExactly
  <2>. SUFFICES ASSUME IInv PROVE PrefixDecodesExactly
    OBVIOUS
  <2>1. <<>> \in Seq(Nat) /\ <<1>> \in Seq(Nat)
    OBVIOUS
  <2>2. answer \in Seq(Nat)
    BY <2>1, EnsLookupAssumption DEF IInv, LookupTypeOK
  <2>3. DecodesExactly(answer)
    BY <2>2, VarintExact
  <2>. QED
    BY <2>3 DEF DecodesExactly, PrefixDecodesExactly
<1>. QED
  BY <1>1, Invariance, PTL

LEMMA PowersMultiply ==
    ASSUME NEW a \in Nat
    PROVE  \A b \in Nat : TwoTo[a + b] = TwoTo[a] * TwoTo[b]
<1>. DEFINE T == {b \in Nat : TwoTo[a + b] = TwoTo[a] * TwoTo[b]}
            x == TwoTo[a]
<1>1. x \in Nat /\ TwoTo[0] = 1 /\ a + 0 = a
  BY PowersAre
<1>2. 0 \in T
  <2>1. x * 1 = x
    BY <1>1
  <2>. QED
    BY <1>1, <2>1
<1>3. ASSUME NEW b \in Nat, b \in T
      PROVE  b + 1 \in T
  <2>. DEFINE y == TwoTo[b]
              c == a + b
  <2>1. y \in Nat /\ c \in Nat /\ TwoTo[c] = x * y
    BY <1>3, PowersAre
  <2>2. a + (b + 1) = c + 1
    OBVIOUS
  <2>3. TwoTo[b + 1] = 2 * y
    BY PowersAre
  <2>. HIDE DEF c
  <2>4. TwoTo[c + 1] = 2 * TwoTo[c]
    BY <2>1, PowersAre
  <2>. HIDE DEF x, y
  <2>5. 2 * (x * y) = x * (2 * y)
    BY <1>1, <2>1
  <2>6. TwoTo[a + (b + 1)] = x * TwoTo[b + 1]
    BY <2>1, <2>2, <2>3, <2>4, <2>5
  <2>. QED
    BY <2>6 DEF x
<1>. HIDE DEF T
<1>4. Nat \subseteq T
  BY <1>2, <1>3, AllTurns
<1>. QED
  BY <1>4 DEF T

(* While the loop reads, what it has read is smaller than the weight of the next      *)
(* group: the bits it adds with "or" are not set yet (decode_varint, src/ens.rs).     *)
THEOREM GroupsDisjoint ==
    ASSUME NEW bytes \in Seq(Nat), NEW i \in 0..Len(bytes), Turns(bytes)[i].state = "reading"
    PROVE  Turns(bytes)[i].value < TwoTo[Turns(bytes)[i].shift]
<1>. DEFINE n == Len(bytes)
            t == Turns(bytes)
            T == {k \in Nat : k <= n /\ t[k].state = "reading" => t[k].value < TwoTo[t[k].shift]}
<1>0. n \in Nat
  OBVIOUS
<1>1. n \in Nat /\ i \in Nat /\ i <= n /\ \A k \in 1..n : bytes[k] \in Nat
  OBVIOUS
<1>2. /\ \A k \in 0..n : t[k] \in Accumulators
      /\ t[0] = BeforeLoop
      /\ \A k \in 1..n : t[k] = AddGroup(t[k - 1], bytes[k])
  BY TurnsAre
<1>3. t[i].state = "reading"
  OBVIOUS
<1>. HIDE DEF n, t
<1>4. 0 \in T
  <2>1. BeforeLoop.value = 0 /\ BeforeLoop.shift = 0 /\ TwoTo[0] = 1
    BY PowersAre DEF BeforeLoop
  <2>. QED
    BY <1>2, <2>1
<1>5. ASSUME NEW k \in Nat, k \in T
      PROVE  k + 1 \in T
  <2>. DEFINE next == k + 1
              acc == t[k]
              byte == bytes[next]
              low == LowBits(byte)
              weight == TwoTo[acc.shift]
              base == TwoTo[GroupBits]
              sum == acc.value + low * weight
              m == TwoTo[Width]
  <2>1. SUFFICES ASSUME next <= n, t[next].state = "reading"
                 PROVE  t[next].value < TwoTo[t[next].shift]
    OBVIOUS
  <2>2. next \in 1..n /\ next - 1 = k /\ k \in 0..n /\ k <= n
    <3>1. k + 1 <= n
      BY <2>1
    <3>. QED
      BY <1>0, <3>1
  <2>3. acc \in Accumulators /\ byte \in Nat /\ t[next] = AddGroup(acc, byte)
    <3>. HIDE DEF next
    <3>. QED
      BY <1>1, <1>2, <2>2
  <2>4. acc.value < weight \/ acc.state # "reading"
    BY <1>5, <2>2
  <2>. HIDE DEF next, acc, byte
  <2>5. /\ acc.state = "reading"
        /\ t[next].value = Read(acc, byte) /\ t[next].shift = acc.shift + GroupBits
    <3>1. acc.state = "reading"
      BY <2>1, <2>3, AddGroupIs
    <3>2. Continues(byte) /\ ~(acc.shift + GroupBits > Width - 1)
      <4>1. ~Continues(byte) => AddGroup(acc, byte).state = "ended"
        BY <2>3, <3>1, AddGroupIs
      <4>2. Continues(byte) /\ acc.shift + GroupBits > Width - 1 => AddGroup(acc, byte).state = "overlong"
        BY <2>3, <3>1, AddGroupIs
      <4>. QED
        BY <2>1, <2>3, <4>1, <4>2
    <3>. QED
      BY <2>3, <3>1, <3>2, AddGroupIs
  <2>6. /\ low \in Nat /\ low < base /\ acc.value \in Nat /\ weight \in Nat /\ base \in Nat /\ m \in Nat /\ m > 0
        /\ TwoTo[acc.shift + GroupBits] = weight * base
    <3>1. low \in Nat /\ low < base
      BY <2>3, LowBitsAre
    <3>2. acc.value \in Nat /\ acc.shift \in Nat
      BY <2>3 DEF Accumulators
    <3>3. GroupBits \in Nat
      BY GroupsAre
    <3>. QED
      BY <3>1, <3>2, <3>3, GroupsAre, PowersAre, PowersMultiply
  <2>7. Read(acc, byte) = sum % m
    BY DEF Read
  <2>8. acc.value < weight
    BY <2>4, <2>5
  <2>. DEFINE value == acc.value
  <2>. HIDE DEF low, weight, base, m, value
  <2>9. value + low * weight < weight * base
    <3>1. value \in Nat /\ value < weight
      BY <2>6, <2>8 DEF value
    <3>2. (low + 1) * weight <= base * weight
      BY <2>6
    <3>3. (low + 1) * weight = low * weight + weight
      BY <2>6
    <3>4. base * weight = weight * base
      BY <2>6
    <3>. DEFINE x == low * weight
                y == weight * base
                z == base * weight
    <3>5. x \in Nat /\ y \in Nat /\ z \in Nat
      BY <2>6
    <3>6. x + weight <= z /\ z = y
      BY <3>2, <3>3, <3>4
    <3>. HIDE DEF x, y, z
    <3>7. value + x < y
      BY <2>6, <3>1, <3>5, <3>6
    <3>. QED
      BY <3>7 DEF x, y
  <2>10. sum \in Nat /\ sum < weight * base
    <3>1. low * weight \in Nat
      BY <2>6
    <3>. QED
      BY <2>6, <2>9, <3>1 DEF value
  <2>. HIDE DEF sum
  <2>11. sum % m <= sum
    BY <2>6, <2>10
  <2>12. sum % m \in Nat /\ weight * base \in Nat
    BY <2>6, <2>10
  <2>. QED
    BY <2>5, <2>6, <2>7, <2>10, <2>11, <2>12
<1>. HIDE DEF T
<1>6. Nat \subseteq T
  BY <1>4, <1>5, AllTurns
<1>. QED
  BY <1>1, <1>3, <1>6 DEF T, t, n
----------------------------------------------------------------------------
(* How many steps a handler still has before it answers.                       *)

Looking == {"siteLookup", "siteRetry", "web3Lookup"}

(* A lookup is under way exactly while a handler waits for one.                     *)
LookupIsAsked == pc \in Looking <=> step # "idle"

PerRedirect == MaxUrls + 2
RedirectsCost(r) == (MAX_CCIP_REDIRECTS - r) * PerRedirect
PerAttempt == RedirectsCost(0) + 5
AttemptsCost(a) == (MaxAttempts - a) * PerAttempt
MostCalls == AttemptsCost(0)

LookupPlaces == {"idle", "registry", "probe", "resolve", "gateway", "direct", "decode", "ended"}

(* In an attempt that is at step s, followed r redirects and has u gateways to try.    *)
Calls(s, r, u) ==
    IF s = "registry" THEN RedirectsCost(0) + 4
    ELSE IF s = "probe" THEN RedirectsCost(0) + 3
    ELSE IF s = "resolve" THEN RedirectsCost(r) + 2
    ELSE IF s = "gateway" THEN RedirectsCost(r) + 3 + u
    ELSE IF s = "direct" THEN 2
    ELSE IF s = "decode" THEN 1
    ELSE 0

(* In the lookup: those of this attempt, and of the attempts after it.               *)
CallsLeft == AttemptsCost(attempt) + Calls(step, redirects, untried)

StepsAt(place, calls) ==
    IF place \in {"forward", "request", "html", "failed"} THEN 1
    ELSE IF place \in {"update", "mode"} THEN 2
    ELSE IF place = "writeMetadata" THEN 3
    ELSE IF place \in {"siteRetry", "web3Lookup"} THEN 4 + calls
    ELSE IF place \in {"waiting", "web3"} THEN 4 + MostCalls
    ELSE IF place = "recover" THEN 5 + MostCalls
    ELSE IF place = "fallback" THEN 6 + MostCalls
    ELSE IF place = "siteLookup" THEN 7 + MostCalls + calls
    ELSE 0

StepsLeft == StepsAt(pc, CallsLeft)

LEMMA CostsAre ==
    /\ PerRedirect \in Nat /\ PerRedirect = MaxUrls + 2
    /\ \A r \in 0..4 : RedirectsCost(r) \in Nat
    /\ \A r \in 0..3 : RedirectsCost(r) = RedirectsCost(r + 1) + PerRedirect
    /\ \A r \in 1..4 : RedirectsCost(r) + PerRedirect <= RedirectsCost(0)
<1>1. PerRedirect \in Nat /\ PerRedirect = MaxUrls + 2
  BY EnsLookupAssumption DEF PerRedirect
<1>2. /\ RedirectsCost(0) = 4 * PerRedirect /\ RedirectsCost(1) = 3 * PerRedirect
      /\ RedirectsCost(2) = 2 * PerRedirect /\ RedirectsCost(3) = PerRedirect
      /\ RedirectsCost(4) = 0
  BY <1>1 DEF RedirectsCost, MAX_CCIP_REDIRECTS
<1>3. \A r \in 0..4 : r \in {0, 1, 2, 3, 4}
  OBVIOUS
<1>. QED
  BY <1>1, <1>2, <1>3

LEMMA AttemptsAre ==
    /\ PerAttempt \in Nat /\ PerAttempt = RedirectsCost(0) + 5
    /\ \A a \in 0..3 : AttemptsCost(a) \in Nat
    /\ \A a \in 1..2 : AttemptsCost(a) = AttemptsCost(a + 1) + PerAttempt
    /\ \A a \in 1..3 : AttemptsCost(a) + PerAttempt <= MostCalls
    /\ MostCalls \in Nat
<1>1. PerAttempt \in Nat /\ PerAttempt = RedirectsCost(0) + 5
  BY CostsAre DEF PerAttempt
<1>2. /\ AttemptsCost(0) = 3 * PerAttempt /\ AttemptsCost(1) = 2 * PerAttempt
      /\ AttemptsCost(2) = PerAttempt /\ AttemptsCost(3) = 0
  BY <1>1 DEF AttemptsCost, MaxAttempts
<1>3. \A a \in 0..3 : a \in {0, 1, 2, 3}
  OBVIOUS
<1>. QED
  BY <1>1, <1>2, <1>3 DEF MostCalls

(* Less is left than what the attempts can take together.                         *)
LEMMA CallsAreBounded ==
    ASSUME NEW s \in LookupPlaces, NEW r \in 0..4, NEW u \in 0..MaxUrls, NEW a \in 1..3,
           s = "gateway" => r \in 1..4
    PROVE  /\ Calls(s, r, u) \in 0..(PerAttempt - 1)
           /\ s \notin {"idle", "ended"} => Calls(s, r, u) > 0
           /\ AttemptsCost(a) + Calls(s, r, u) \in 0..(MostCalls - 1)
<1>2. /\ RedirectsCost(0) \in Nat /\ RedirectsCost(r) \in Nat
      /\ RedirectsCost(r) <= RedirectsCost(0)
      /\ s = "gateway" => RedirectsCost(r) + PerRedirect <= RedirectsCost(0)
  <2>1. CASE r = 0
    BY <2>1, CostsAre
  <2>2. CASE r \in 1..4
    BY <2>2, CostsAre
  <2>. QED
    BY <2>1, <2>2
<1>3. PerAttempt = RedirectsCost(0) + 5 /\ PerRedirect = MaxUrls + 2 /\ MaxUrls \in Nat
  BY AttemptsAre, CostsAre, EnsLookupAssumption
<1>4. /\ Calls(s, r, u) \in 0..(PerAttempt - 1)
      /\ s \notin {"idle", "ended"} => Calls(s, r, u) > 0
  BY <1>2, <1>3 DEF Calls, LookupPlaces
<1>. HIDE DEF Calls
<1>5. AttemptsCost(a) + Calls(s, r, u) \in 0..(MostCalls - 1)
  <2>. DEFINE c == Calls(s, r, u)
              k == AttemptsCost(a)
  <2>1. c \in 0..(PerAttempt - 1) /\ k \in Nat /\ k + PerAttempt <= MostCalls
        /\ PerAttempt \in Nat /\ MostCalls \in Nat
    BY <1>4, AttemptsAre
  <2>. HIDE DEF c, k
  <2>2. k + c \in 0..(MostCalls - 1)
    BY <2>1
  <2>. QED
    BY <2>2 DEF c, k
<1>. QED
  BY <1>4, <1>5

(* The same of a state, and of the one after it.                                  *)
LookupBounded ==
    /\ step \in LookupPlaces /\ redirects \in 0..4 /\ untried \in 0..MaxUrls
    /\ attempt \in 1..3
    /\ step = "gateway" => redirects \in 1..4

LEMMA CallsOfStates ==
    ASSUME LookupGood, LookupGood'
    PROVE  /\ LookupBounded /\ LookupBounded'
           /\ Calls(step, redirects, untried) \in 0..(PerAttempt - 1)
           /\ Calls(step', redirects', untried') \in 0..(PerAttempt - 1)
           /\ step \notin {"idle", "ended"} => Calls(step, redirects, untried) > 0
           /\ CallsLeft \in 0..(MostCalls - 1)
           /\ CallsLeft' \in 0..(MostCalls - 1)
<1>1. LookupBounded
  BY DEF LookupBounded, LookupPlaces, LookupGood, LookupTypeOK, LookupInv, MaxAttempts, MAX_CCIP_REDIRECTS
<1>2. LookupBounded'
  BY DEF LookupBounded, LookupPlaces, LookupGood, LookupTypeOK, LookupInv, MaxAttempts, MAX_CCIP_REDIRECTS
<1>3. /\ Calls(step, redirects, untried) \in 0..(PerAttempt - 1)
      /\ step \notin {"idle", "ended"} => Calls(step, redirects, untried) > 0
      /\ AttemptsCost(attempt) + Calls(step, redirects, untried) \in 0..(MostCalls - 1)
  BY <1>1, CallsAreBounded DEF LookupBounded
<1>4. /\ Calls(step', redirects', untried') \in 0..(PerAttempt - 1)
      /\ AttemptsCost(attempt') + Calls(step', redirects', untried') \in 0..(MostCalls - 1)
  BY <1>2, CallsAreBounded DEF LookupBounded
<1>. QED
  BY <1>1, <1>2, <1>3, <1>4 DEF CallsLeft

(* An attempt that fails leaves one attempt less, or nothing.                      *)
LEMMA FailingTakes ==
    ASSUME LookupGood, LookupGood', step \in {"registry", "probe", "resolve", "gateway", "direct"},
           NEW e, AttemptFails(e)
    PROVE  CallsLeft' < CallsLeft /\ step' # "idle"
<1>0. /\ Calls(step, redirects, untried) \in Nat /\ Calls(step, redirects, untried) > 0
      /\ Calls(step', redirects', untried') \in 0..(PerAttempt - 1)
      /\ attempt \in 1..3 /\ PerAttempt \in Nat
  BY CallsOfStates, AttemptsAre DEF LookupBounded
<1>1. CASE is_retryable_lookup_error(e) /\ attempt < MaxAttempts
  <2>1. attempt \in 1..2 /\ attempt' = attempt + 1 /\ step' = FirstStep(asked.tld)
    BY <1>0, <1>1 DEF AttemptFails, MaxAttempts
  <2>2. AttemptsCost(attempt) = AttemptsCost(attempt + 1) + PerAttempt
        /\ AttemptsCost(attempt + 1) \in Nat
    BY <2>1, AttemptsAre
  <2>. QED
    BY <1>0, <2>1, <2>2 DEF CallsLeft, FirstStep
<1>2. CASE ~(is_retryable_lookup_error(e) /\ attempt < MaxAttempts)
  <2>1. attempt' = attempt /\ step' = "ended"
    BY <1>2 DEF AttemptFails
  <2>2. AttemptsCost(attempt) \in Nat
    BY <1>0, AttemptsAre
  <2>3. Calls(step, redirects, untried)' = 0
    BY <2>1 DEF Calls
  <2>. QED
    BY <1>0, <2>1, <2>2, <2>3 DEF CallsLeft
<1>. QED
  BY <1>1, <1>2

(* Whatever the chain and the gateways answer, a step of a lookup brings its end nearer. *)
LEMMA LookupTakes ==
    ASSUME LookupGood, LookupGood', LookupSteps
    PROVE  CallsLeft' < CallsLeft /\ step # "idle" /\ step' # "idle"
<1>0. /\ attempt \in 1..3 /\ AttemptsCost(attempt) \in Nat
      /\ redirects \in 0..4 /\ untried \in 0..MaxUrls /\ MaxUrls \in Nat
      /\ RedirectsCost(redirects) \in Nat /\ RedirectsCost(0) \in Nat
  <2>1. LookupBounded
    BY CallsOfStates
  <2>2. RedirectsCost(redirects) \in Nat /\ RedirectsCost(0) \in Nat
    BY <2>1, CostsAre DEF LookupBounded
  <2>3. AttemptsCost(attempt) \in Nat
    BY <2>1, AttemptsAre DEF LookupBounded
  <2>. QED
    BY <2>1, <2>2, <2>3, EnsLookupAssumption DEF LookupBounded
<1>1. ASSUME NEW e, AttemptFails(e), step \in {"registry", "probe", "resolve", "gateway", "direct"}
      PROVE  CallsLeft' < CallsLeft /\ step # "idle" /\ step' # "idle"
  BY <1>1, FailingTakes
<1>2. ASSUME attempt' = attempt,
             Calls(step, redirects, untried) \in Nat,
             Calls(step, redirects, untried)' \in Nat,
             Calls(step, redirects, untried)' < Calls(step, redirects, untried)
      PROVE  CallsLeft' < CallsLeft
  BY <1>0, <1>2 DEF CallsLeft
<1>3. /\ Calls(step, redirects, untried) \in Nat
      /\ Calls(step, redirects, untried)' \in Nat
  BY CallsOfStates, AttemptsAre
<1>4. CASE BackendFails
  BY <1>1, <1>4 DEF BackendFails
<1>5. CASE RegistryAnswers
  <2>1. step = "registry" /\ step' \in {"probe", "ended"} /\ attempt' = attempt
    BY <1>5 DEF RegistryAnswers, GoesTo, Succeeds
  <2>2. Calls(step, redirects, untried)' < Calls(step, redirects, untried)
    BY <1>0, <2>1 DEF Calls
  <2>. QED
    BY <1>2, <1>3, <2>1, <2>2
<1>6. CASE ProbeAnswers
  <2>1. step = "probe"
    BY <1>6 DEF ProbeAnswers
  <2>2. CASE AttemptFails(AnswerError)
    BY <1>1, <2>1, <2>2
  <2>3. CASE GoesTo("direct") \/ GoesTo("resolve")
    <3>1. /\ step' \in {"direct", "resolve"} /\ attempt' = attempt /\ redirects' = redirects
          /\ redirects = 0
      BY <2>1, <2>3 DEF GoesTo, LookupGood, LookupInv
    <3>2. Calls(step, redirects, untried)' < Calls(step, redirects, untried)
      BY <1>0, <2>1, <3>1 DEF Calls
    <3>. QED
      BY <1>2, <1>3, <2>1, <3>1, <3>2
  <2>. QED
    BY <1>6, <2>2, <2>3 DEF ProbeAnswers
<1>7. CASE CallReturns
  <2>1. step \in {"resolve", "direct"}
    BY <1>7 DEF CallReturns
  <2>2. CASE AttemptFails(AnswerError)
    BY <1>1, <2>1, <2>2
  <2>3. CASE step' = "decode" /\ attempt' = attempt
    <3>1. Calls(step, redirects, untried)' < Calls(step, redirects, untried)
      BY <1>0, <2>1, <2>3 DEF Calls
    <3>. QED
      BY <1>2, <1>3, <2>1, <2>3, <3>1
  <2>. QED
    BY <1>7, <2>2, <2>3 DEF CallReturns
<1>8. CASE Decodes
  <2>1. step = "decode" /\ step' = "ended" /\ attempt' = attempt
    BY <1>8 DEF Decodes, Succeeds
  <2>2. Calls(step, redirects, untried)' < Calls(step, redirects, untried)
    BY <2>1 DEF Calls
  <2>. QED
    BY <1>2, <1>3, <2>1, <2>2
<1>9. CASE OffchainLookup
  <2>1. step = "resolve"
    BY <1>9 DEF OffchainLookup
  <2>2. CASE redirects = MAX_CCIP_REDIRECTS
    BY <1>1, <1>9, <2>1, <2>2 DEF OffchainLookup
  <2>3. CASE redirects # MAX_CCIP_REDIRECTS
    <3>1. /\ step' = "gateway" /\ redirects' = redirects + 1 /\ untried' \in 0..MaxUrls
          /\ attempt' = attempt /\ redirects \in 0..3
      BY <1>0, <1>9, <2>3 DEF OffchainLookup, MAX_CCIP_REDIRECTS
    <3>2. /\ RedirectsCost(redirects) = RedirectsCost(redirects + 1) + PerRedirect
          /\ RedirectsCost(redirects + 1) \in Nat /\ PerRedirect = MaxUrls + 2
      BY <3>1, CostsAre
    <3>3. Calls(step, redirects, untried)' < Calls(step, redirects, untried)
      BY <1>0, <2>1, <3>1, <3>2 DEF Calls
    <3>. QED
      BY <1>2, <1>3, <2>1, <3>1, <3>3
  <2>. QED
    BY <2>2, <2>3
<1>10. CASE GatewayAnswers
  <2>1. step = "gateway" /\ step' = "resolve" /\ attempt' = attempt /\ redirects' = redirects
    BY <1>10 DEF GatewayAnswers
  <2>2. Calls(step, redirects, untried)' < Calls(step, redirects, untried)
    BY <1>0, <2>1 DEF Calls
  <2>. QED
    BY <1>2, <1>3, <2>1, <2>2
<1>11. CASE GatewayFails
  <2>1. step = "gateway"
    BY <1>11 DEF GatewayFails
  <2>2. CASE untried > 1
    <3>1. /\ untried' = untried - 1
          /\ step' = step /\ attempt' = attempt /\ redirects' = redirects
      BY <1>11, <2>2 DEF GatewayFails
    <3>2. Calls(step, redirects, untried)' < Calls(step, redirects, untried)
      BY <1>0, <2>1, <3>1 DEF Calls
    <3>. QED
      BY <1>2, <1>3, <2>1, <3>1, <3>2
  <2>3. CASE ~(untried > 1)
    BY <1>1, <1>11, <2>1, <2>3 DEF GatewayFails
  <2>. QED
    BY <2>2, <2>3
<1>12. CASE NoGateways
  BY <1>1, <1>12 DEF NoGateways
<1>. QED
  BY <1>4, <1>5, <1>6, <1>7, <1>8, <1>9, <1>10, <1>11, <1>12 DEF LookupSteps

(* From which places a handler goes where.                                       *)
GoesOn(from, to) ==
    \/ from \in {"siteLookup", "siteRetry"} /\ to \in {"writeMetadata", "answered"}
    \/ from \in {"siteLookup"} /\ to \in {"fallback"}
    \/ from \in {"fallback"} /\ to \in {"forward", "recover", "answered"}
    \/ from \in {"recover", "waiting"} /\ to \in {"siteRetry", "answered"}
    \/ from \in {"recover"} /\ to \in {"waiting"}
    \/ from \in {"writeMetadata"} /\ to \in {"update"}
    \/ from \in {"update"} /\ to \in {"forward"}
    \/ from \in {"forward"} /\ to \in {"answered"}
    \/ from \in {"web3", "web3Lookup"} /\ to \in {"mode", "answered"}
    \/ from \in {"web3"} /\ to \in {"web3Lookup"}
    \/ from \in {"mode"} /\ to \in {"request", "html", "failed"}
    \/ from \in {"request", "html", "failed"} /\ to \in {"answered"}

LEMMA PlacesTake ==
    ASSUME NEW from, NEW to, GoesOn(from, to),
           NEW c \in 0..(MostCalls - 1), NEW d \in 0..(MostCalls - 1)
    PROVE  StepsAt(to, d) < StepsAt(from, c)
<1>1. MostCalls \in Nat
  BY AttemptsAre
<1>. QED
  BY <1>1 DEF GoesOn, StepsAt

LEMMA LookingTakes ==
    ASSUME NEW place \in Looking, NEW c \in 0..(MostCalls - 1), NEW d \in 0..(MostCalls - 1), d < c
    PROVE  StepsAt(place, d) < StepsAt(place, c)
<1>1. MostCalls \in Nat
  BY AttemptsAre
<1>. QED
  BY <1>1 DEF StepsAt, Looking

LEMMA MoveTakes ==
    ASSUME LookupGood, LookupGood', GoesOn(pc, pc')
    PROVE  StepsLeft' < StepsLeft
<1>1. CallsLeft \in 0..(MostCalls - 1) /\ CallsLeft' \in 0..(MostCalls - 1)
  BY CallsOfStates
<1>2. StepsLeft' = StepsAt(pc', CallsLeft')
  BY DEF StepsLeft
<1>. QED
  BY <1>1, <1>2, PlacesTake DEF StepsLeft

LEMMA BeginsAsked ==
    ASSUME NEW name, LookupBegins(name)
    PROVE  step' # "idle"
BY DEF LookupBegins, FirstStep

LEMMA SiteTakes ==
    ASSUME LookupGood, LookupGood', LookupIsAsked, SiteSteps
    PROVE  LookupIsAsked' /\ StepsLeft' < StepsLeft
<1>1. CASE LookupAnswered
  <2>1. pc \in {"siteLookup", "siteRetry"} /\ step' = "idle"
    BY <1>1 DEF LookupAnswered, TakesOutcome, LookupTaken
  <2>2. pc' \in {"writeMetadata", "answered"}
    BY <1>1 DEF LookupAnswered, contenthash_lookup_outcome, Responds
  <2>. QED
    BY <2>1, <2>2, MoveTakes DEF GoesOn, LookupIsAsked, Looking
<1>2. CASE LookupFailed
  <2>1. pc = "siteLookup" /\ pc' \in {"fallback", "answered"} /\ step' = "idle"
    BY <1>2 DEF LookupFailed, TakesOutcome, LookupTaken, Responds
  <2>. QED
    BY <2>1, MoveTakes DEF GoesOn, LookupIsAsked, Looking
<1>3. CASE RetryFailed
  <2>1. pc = "siteRetry" /\ pc' = "answered" /\ step' = "idle"
    BY <1>3 DEF RetryFailed, TakesOutcome, LookupTaken, Responds
  <2>. QED
    BY <2>1, MoveTakes DEF GoesOn, LookupIsAsked, Looking
<1>4. CASE SiteFallsBack
  <2>1. pc = "fallback" /\ pc' \in {"forward", "recover", "answered"} /\ step' = step
    BY <1>4 DEF SiteFallsBack, ReadsCache, CacheUnreadable, Moves, Responds, lookupVars
  <2>. QED
    BY <2>1, MoveTakes DEF GoesOn, LookupIsAsked, Looking
<1>5. CASE AlreadyRecovered \/ Recovered
  <2>1. pc \in {"recover", "waiting"} /\ pc' = "siteRetry"
    BY <1>5 DEF AlreadyRecovered, Recovered, Moves
  <2>2. step' # "idle"
    BY <1>5, BeginsAsked DEF AlreadyRecovered, Recovered, LooksUpAgain
  <2>. QED
    BY <2>1, <2>2, MoveTakes DEF GoesOn, LookupIsAsked, Looking
<1>6. CASE NothingToWaitFor \/ WaitBegins \/ WaitTimesOut
  <2>1. /\ step' = step
        /\ \/ pc \in {"recover", "waiting"} /\ pc' = "answered"
           \/ pc = "recover" /\ pc' = "waiting"
    BY <1>6 DEF NothingToWaitFor, WaitBegins, WaitTimesOut, Moves, Responds, lookupVars
  <2>. QED
    BY <2>1, MoveTakes DEF GoesOn, LookupIsAsked, Looking
<1>7. CASE WritesMetadata \/ UpdatesCache
  <2>1. /\ step' = step
        /\ \/ pc = "writeMetadata" /\ pc' = "update"
           \/ pc = "update" /\ pc' = "forward"
    BY <1>7 DEF WritesMetadata, UpdatesCache, Moves, lookupVars
  <2>. QED
    BY <2>1, MoveTakes DEF GoesOn, LookupIsAsked, Looking
<1>8. CASE SiteForwards
  <2>1. pc = "forward" /\ pc' = "answered" /\ step' = step
    BY <1>8 DEF SiteForwards, BodyUnreadable, GatewayUnreachable, GatewayResponds, Responds, lookupVars
  <2>. QED
    BY <2>1, MoveTakes DEF GoesOn, LookupIsAsked, Looking
<1>. QED
  BY <1>1, <1>2, <1>3, <1>4, <1>5, <1>6, <1>7, <1>8 DEF SiteSteps, SiteLookupEnds, SiteRecovers

LEMMA Web3Takes ==
    ASSUME LookupGood, LookupGood', LookupIsAsked, Web3Steps
    PROVE  LookupIsAsked' /\ StepsLeft' < StepsLeft
<1>1. CASE Web3Parses
  <2>1. pc = "web3" /\ pc' = "answered" /\ step' = step
    BY <1>1 DEF Web3Parses, MethodNotAllowed, Redirects, InvalidTarget, Rejects, Responds, lookupVars
  <2>. QED
    BY <2>1, MoveTakes DEF GoesOn, LookupIsAsked, Looking
<1>2. CASE AddressGiven
  <2>1. pc = "web3" /\ pc' = "mode" /\ step' = step
    BY <1>2 DEF AddressGiven, Moves, lookupVars
  <2>. QED
    BY <2>1, MoveTakes DEF GoesOn, LookupIsAsked, Looking
<1>3. CASE AddressOfName
  <2>1. pc = "web3" /\ pc' = "web3Lookup"
    BY <1>3 DEF AddressOfName, Moves
  <2>2. step' # "idle"
    BY <1>3, BeginsAsked DEF AddressOfName
  <2>. QED
    BY <2>1, <2>2, MoveTakes DEF GoesOn, LookupIsAsked, Looking
<1>4. CASE AddressFound \/ AddressMissing
  <2>1. pc = "web3Lookup" /\ pc' \in {"mode", "answered"} /\ step' = "idle"
    BY <1>4 DEF AddressFound, AddressMissing, Moves, Responds, LookupTaken
  <2>. QED
    BY <2>1, MoveTakes DEF GoesOn, LookupIsAsked, Looking
<1>5. CASE ReadsMode
  <2>1. pc = "mode" /\ pc' \in {"request", "html", "failed"} /\ step' = step
    BY <1>5 DEF ReadsMode, Moves, lookupVars
  <2>. QED
    BY <2>1, MoveTakes DEF GoesOn, LookupIsAsked, Looking
<1>6. CASE Renders \/ RenderFails
  <2>1. pc \in {"request", "html", "failed"} /\ pc' = "answered" /\ step' = step
    BY <1>6 DEF Renders, RenderFails, Responds, lookupVars
  <2>. QED
    BY <2>1, MoveTakes DEF GoesOn, LookupIsAsked, Looking
<1>. QED
  BY <1>1, <1>2, <1>3, <1>4, <1>5, <1>6 DEF Web3Steps, Web3Resolves, Web3Renders

(* Each step of a handler takes at least one of the steps that are left; what the light  *)
(* client does takes and gives none.                                             *)
WindsDown ==
    /\ Handles => StepsLeft' < StepsLeft
    /\ HeliosChanges => StepsLeft' = StepsLeft

LEMMA HandlersTake ==
    ASSUME LookupGood, LookupGood', LookupIsAsked, Handles
    PROVE  LookupIsAsked' /\ StepsLeft' < StepsLeft
<1>1. CASE LookupSteps /\ UNCHANGED <<requestVars, siteVars, web3Vars>>
  <2>1. CallsLeft' < CallsLeft /\ step # "idle" /\ step' # "idle" /\ pc' = pc
    BY <1>1, LookupTakes DEF requestVars
  <2>2. pc \in Looking
    BY <2>1 DEF LookupIsAsked
  <2>3. CallsLeft \in 0..(MostCalls - 1) /\ CallsLeft' \in 0..(MostCalls - 1)
    BY CallsOfStates
  <2>4. StepsLeft = StepsAt(pc, CallsLeft) /\ StepsLeft' = StepsAt(pc, CallsLeft')
    BY <2>1 DEF StepsLeft
  <2>5. StepsLeft' < StepsLeft
    BY <2>1, <2>2, <2>3, <2>4, LookingTakes
  <2>. QED
    BY <2>1, <2>2, <2>5 DEF LookupIsAsked
<1>. QED
  BY <1>1, SiteTakes, Web3Takes DEF Handles

LEMMA LookupIsAskedStep == IInv /\ LookupIsAsked /\ [Next]_vars => LookupIsAsked' /\ WindsDown
<1>. SUFFICES ASSUME IInv, LookupIsAsked, [Next]_vars PROVE LookupIsAsked' /\ WindsDown
  OBVIOUS
<1>0. LookupGood /\ LookupGood'
  BY InvStep DEF IInv, LookupGood
<1>1. ASSUME Handles PROVE LookupIsAsked' /\ StepsLeft' < StepsLeft
  BY <1>0, <1>1, HandlersTake
<1>2. ASSUME HeliosChanges PROVE LookupIsAsked' /\ StepsLeft' = StepsLeft
  BY <1>2 DEF HeliosChanges, HeliosSteps, requestVars, LookupIsAsked, StepsLeft, StepsAt, CallsLeft
<1>3. CASE SiteArrives
  <2>1. pc' = "siteLookup" /\ step' # "idle"
    BY <1>3, BeginsAsked DEF SiteArrives, SiteReceives, Receives
  <2>. QED
    BY <2>1, <1>1, <1>2 DEF LookupIsAsked, Looking, WindsDown
<1>4. CASE Web3Arrives \/ Delivered
  <2>1. step' = step /\ pc \in {"idle", "answered"} /\ pc' \in {"web3", "idle"}
    BY <1>4 DEF Web3Arrives, Web3Receives, Follows, Delivered, Receives, lookupVars
  <2>. QED
    BY <2>1, <1>1, <1>2 DEF LookupIsAsked, Looking, WindsDown
<1>5. CASE UNCHANGED vars
  <2>1. LookupIsAsked'
    BY <1>5 DEF vars, lookupVars, requestVars, LookupIsAsked
  <2>. QED
    BY <2>1, <1>1, <1>2 DEF WindsDown
<1>6. CASE Handles \/ HeliosChanges
  BY <1>1, <1>2, <1>6 DEF WindsDown
<1>. QED
  BY <1>3, <1>4, <1>5, <1>6 DEF Next

(* However resolvers redirect, gateways fail and errors are retried, a request is        *)
(* answered after at most as many steps of its handler as StepsLeft says, and that never  *)
(* goes up while it is handled: of RequestAnswered only the fairness of Handles is left   *)
(* to TLC (resolve_with_offchain, with_lookup_retries and proxy_request, src/ens.rs).     *)
THEOREM RequestsWindDown ==
    Spec => /\ [][WindsDown]_vars
            /\ [](StepsLeft \in 0..(6 + 2 * MostCalls) /\ (StepsLeft = 0 <=> pc \in {"idle", "answered"}))
<1>1. Init => LookupIsAsked
  BY DEF Init, LookupInit, LookupIsAsked, Looking
<1>2. IInv /\ IInv' /\ [Next]_vars /\ LookupIsAsked => LookupIsAsked' /\ WindsDown
  BY LookupIsAskedStep
<1>3. IInv => StepsLeft \in 0..(6 + 2 * MostCalls) /\ (StepsLeft = 0 <=> pc \in {"idle", "answered"})
  <2>. SUFFICES ASSUME IInv
                PROVE  StepsLeft \in 0..(6 + 2 * MostCalls) /\ (StepsLeft = 0 <=> pc \in {"idle", "answered"})
    OBVIOUS
  <2>1. LookupBounded
    BY DEF LookupBounded, LookupPlaces, IInv, LookupTypeOK, LookupInv, MaxAttempts, MAX_CCIP_REDIRECTS
  <2>2. MostCalls \in Nat /\ CallsLeft \in 0..(MostCalls - 1)
    BY <2>1, CallsAreBounded, AttemptsAre DEF LookupBounded, CallsLeft
  <2>3. pc \in {"idle", "answered"} \cup SitePhases \cup Web3Phases
    BY DEF IInv, RequestInv
  <2>. QED
    BY <2>2, <2>3 DEF StepsLeft, StepsAt, SitePhases, Web3Phases
<1>. QED
  BY <1>1, <1>2, <1>3, Invariance, PTL DEF Spec
==================================================================================
