-------------------------------- MODULE EnsLookup --------------------------------
(***************************************************************************)
(* The lookup of a contenthash or an address of a name (src/ens.rs): up to     *)
(* three attempts; for .eth the registry, the probe for ENSIP-10 and either a *)
(* plain call or the loop of CCIP-read, for .wei a single call.  The chain and *)
(* the gateways answer whatever they like.                                   *)
(*                                                                         *)
(* An error is described by what the patterns over its messages see in it:    *)
(* whether one of the offline patterns matches, a number of seconds behind,    *)
(* an out-of-sync pattern.  The patterns look for words anywhere in a message,  *)
(* and what the chain, a gateway or a requested path says is part of it.       *)
(* The delays between attempts are only time and are left out.                *)
(***************************************************************************)
EXTENDS Contenthash, LightClient

CONSTANTS
    Lags,           \* seconds behind that an error may name
    Payloads,       \* bytes that a contenthash call may return
    MaxUrls         \* bound: gateway URLs in one OffchainLookup

ASSUME EnsLookupAssumption == MaxUrls \in Nat /\ Payloads \subseteq Seq(Nat)

VARIABLES
    asked,          \* the name: what is looked up, its TLD, whether dns_encode_name takes it
    step,           \* the call under way, "idle" or "ended"
    attempt,        \* 1..MaxAttempts
    redirects,      \* OffchainLookups followed in this attempt
    untried,        \* gateway URLs not tried yet
    answer,         \* the bytes of the value that is being decoded
    outcome,        \* what the lookup returns
    fetched         \* history: the last attempt in which a gateway answered, or 0

lookupVars == <<asked, step, attempt, redirects, untried, answer, outcome, helios, fetched>>

MAX_CCIP_REDIRECTS == 4
MaxAttempts == 3                        \* LOOKUP_RETRY_DELAYS_MS has two delays
HELIOS_MAX_RETRYABLE_SYNC_LAG_SECS == 300
HELIOS_RESTART_SYNC_LAG_SECS == 3600

----------------------------------------------------------------------------
(* Errors.                                                                 *)

NoLag == -1
Error(offline, lag, sync) == [offline |-> offline, lag |-> lag, sync |-> sync]

(* A message that says how many seconds also matches "seconds behind".         *)
Errors == {e \in [offline : BOOLEAN, lag : {NoLag} \cup Lags, sync : BOOLEAN] : e.lag # NoLag => e.sync}

(* The code's own words on an answer that it cannot use match nothing.          *)
AnswerError == Error(FALSE, NoLag, FALSE)

is_offline_lookup_error(e) == e.offline
is_helios_sync_lookup_error(e) == e.sync
is_cached_contenthash_fallback_lookup_error(e) ==
    is_offline_lookup_error(e) \/ is_helios_sync_lookup_error(e)
is_retryable_lookup_error(e) ==
    \/ is_offline_lookup_error(e)
    \/ IF e.lag # NoLag THEN e.lag <= HELIOS_MAX_RETRYABLE_SYNC_LAG_SECS
       ELSE is_helios_sync_lookup_error(e)
BadlyBehind(e) == e.lag # NoLag /\ e.lag >= HELIOS_RESTART_SYNC_LAG_SECS

----------------------------------------------------------------------------
(* The light client.                                                       *)

(* A restart that is asked for clears the flag at once, unless one is in flight.  *)
maybe_schedule_helios_restart_for_error(e) ==
    helios' \in IF is_current_client_synced /\ (BadlyBehind(e) \/ is_offline_lookup_error(e))
                THEN {"synced", "recovering"} ELSE {helios}

HeliosSteps ==
    /\ ClientNext
    /\ UNCHANGED <<asked, step, attempt, redirects, untried, answer, outcome, fetched>>

----------------------------------------------------------------------------
(* Outcomes.                                                               *)

Pending == [kind |-> "pending"]
Failed(e) == [kind |-> "failed", error |-> e]
Found(record, resolution) == [kind |-> "found", record |-> record, resolution |-> resolution]
NoAddress == Record("noAddress")
Address == Record("address")
Outcomes == {Pending} \cup {Failed(e) : e \in Errors}
    \cup {Found(r, s) : r \in Records \cup {NoAddress, Address}, s \in {"onchain", "ccip-read"}}

FirstStep(tld) == IF tld = "eth" THEN "registry" ELSE "direct"

(* dns_encode_name refuses an empty label and one of more than 63 bytes.        *)
Name(what, tld, encodable) == [what |-> what, tld |-> tld, encodable |-> encodable]
NamesFor(what) == {Name(what, "eth", TRUE), Name(what, "eth", FALSE), Name(what, "wei", TRUE)}
Idle == Name("nothing", "eth", TRUE)

LookupInit ==
    /\ asked = Idle
    /\ step = "idle" /\ attempt = 1 /\ redirects = 0 /\ untried = 0
    /\ answer = <<>>
    /\ outcome = Pending
    /\ ClientInit
    /\ fetched = 0

(* Part of the caller's action.                                              *)
LookupBegins(name) ==
    /\ asked' = name
    /\ step' = FirstStep(name.tld)
    /\ attempt' = 1 /\ redirects' = 0 /\ untried' = 0
    /\ outcome' = Pending
    /\ fetched' = 0
    /\ UNCHANGED <<answer, helios>>

(* The caller takes the outcome.                                              *)
LookupTaken ==
    /\ asked' = Idle
    /\ step' = "idle" /\ attempt' = 1 /\ redirects' = 0 /\ untried' = 0
    /\ outcome' = Pending
    /\ fetched' = 0
    /\ UNCHANGED answer

(* Mutant: what the last attempt followed is kept.                             *)
AttemptFailsKeepingRedirects(e) ==
    /\ UNCHANGED <<asked, answer, fetched, redirects>>
    /\ IF is_retryable_lookup_error(e) /\ attempt < MaxAttempts
       THEN attempt' = attempt + 1 /\ step' = FirstStep(asked.tld) /\ untried' = 0
            /\ UNCHANGED <<outcome, helios>>
       ELSE step' = "ended" /\ outcome' = Failed(e) /\ maybe_schedule_helios_restart_for_error(e)
            /\ UNCHANGED <<attempt, untried>>

(* Mutant: a retryable error is retried for ever.                              *)
AttemptFailsForever(e) ==
    /\ UNCHANGED <<asked, answer, fetched>>
    /\ IF is_retryable_lookup_error(e)
       THEN attempt' \in {attempt, attempt + 1} \cap 1..MaxAttempts
            /\ step' = FirstStep(asked.tld) /\ redirects' = 0 /\ untried' = 0
            /\ UNCHANGED <<outcome, helios>>
       ELSE step' = "ended" /\ outcome' = Failed(e) /\ maybe_schedule_helios_restart_for_error(e)
            /\ UNCHANGED <<attempt, redirects, untried>>

(* The attempt ends with an error: another one, or the error is returned.      *)
AttemptFails(e) ==
    /\ UNCHANGED <<asked, answer, fetched>>
    /\ IF is_retryable_lookup_error(e) /\ attempt < MaxAttempts
       THEN /\ attempt' = attempt + 1
            /\ step' = FirstStep(asked.tld) /\ redirects' = 0 /\ untried' = 0
            /\ UNCHANGED <<outcome, helios>>
       ELSE /\ step' = "ended"
            /\ outcome' = Failed(e)
            /\ maybe_schedule_helios_restart_for_error(e)
            /\ UNCHANGED <<attempt, redirects, untried>>

Succeeds(record, resolution) ==
    /\ step' = "ended"
    /\ outcome' = Found(record, resolution)
    /\ UNCHANGED <<asked, attempt, redirects, untried, helios, fetched>>

GoesTo(next) ==
    /\ step' = next
    /\ UNCHANGED <<asked, attempt, redirects, untried, answer, outcome, helios, fetched>>

BackendFails ==
    /\ step \in {"registry", "probe", "resolve", "direct"}
    /\ \E e \in Errors : AttemptFails(e)

RegistryAnswers ==
    /\ step = "registry"
    /\ \/ GoesTo("probe")
       \/ /\ Succeeds(IF asked.what = "address" THEN NoAddress ELSE Record("missing"), "onchain")
          /\ UNCHANGED answer                           \* the zero address: no resolver

(* supportsInterface returns a truth value, or no data at all, which is no.    *)
ProbeAnswers ==
    /\ step = "probe"
    /\ \/ GoesTo("direct")
       \/ asked.encodable /\ GoesTo("resolve")
       \/ ~asked.encodable /\ AttemptFails(AnswerError)

(* A call returned data.  What is no answer of the expected type is an error.  *)
CallReturns ==
    /\ step \in {"resolve", "direct"}
    /\ \/ AttemptFails(AnswerError)
       \/ /\ answer' \in IF asked.what = "address" THEN {<<>>, <<1>>} ELSE Payloads
          /\ step' = "decode"
          /\ UNCHANGED <<asked, attempt, redirects, untried, outcome, helios, fetched>>

Decoded == [bytes \in Payloads |-> inspect_contenthash(bytes)]

Decodes ==
    /\ step = "decode"
    /\ Succeeds(IF asked.what = "contenthash" THEN Decoded[answer]
                ELSE IF answer = <<>> THEN NoAddress ELSE Address,
                IF redirects > 0 THEN "ccip-read" ELSE "onchain")
    /\ answer' = <<>>

(* Mutant: the last turn of the loop looks for no limit.                        *)
OffchainLookupUnchecked ==
    /\ step = "resolve" /\ redirects <= MAX_CCIP_REDIRECTS
    /\ step' = "gateway"
    /\ redirects' = redirects + 1
    /\ untried' \in 0..MaxUrls
    /\ UNCHANGED <<asked, attempt, answer, outcome, helios, fetched>>

(* The call reverts with OffchainLookup.                                       *)
OffchainLookup ==
    /\ step = "resolve"
    /\ IF redirects = MAX_CCIP_REDIRECTS THEN AttemptFails(AnswerError)
       ELSE /\ step' = "gateway"
            /\ redirects' = redirects + 1
            /\ untried' \in 0..MaxUrls
            /\ UNCHANGED <<asked, attempt, answer, outcome, helios, fetched>>

(* The response of the first gateway that has one goes into the callback.      *)
GatewayAnswers ==
    /\ step = "gateway" /\ untried > 0
    /\ step' = "resolve"
    /\ untried' = 0
    /\ fetched' = attempt
    /\ UNCHANGED <<asked, attempt, redirects, answer, outcome, helios>>

GatewayFails ==
    /\ step = "gateway" /\ untried > 0
    /\ IF untried > 1
       THEN /\ untried' = untried - 1
            /\ UNCHANGED <<asked, step, attempt, redirects, answer, outcome, helios, fetched>>
       ELSE \E e \in Errors : AttemptFails(e)

NoGateways ==
    /\ step = "gateway" /\ untried = 0
    /\ AttemptFails(AnswerError)

LookupSteps ==
    \/ BackendFails \/ RegistryAnswers \/ ProbeAnswers \/ CallReturns \/ Decodes
    \/ OffchainLookup \/ GatewayAnswers \/ GatewayFails \/ NoGateways

LookupTypeOK ==
    /\ asked \in [what : {"nothing", "contenthash", "address"}, tld : {"eth", "wei"}, encodable : BOOLEAN]
    /\ step \in {"idle", "registry", "probe", "resolve", "gateway", "direct", "decode", "ended"}
    /\ attempt \in 1..MaxAttempts
    /\ redirects \in 0..MAX_CCIP_REDIRECTS
    /\ untried \in 0..MaxUrls
    /\ answer \in Payloads \cup {<<>>, <<1>>}
    /\ outcome \in Outcomes
    /\ helios \in ClientStates
    /\ fetched \in 0..MaxAttempts
================================================================================
