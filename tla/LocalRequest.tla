------------------------------ MODULE LocalRequest ------------------------------
(***************************************************************************)
(* A request of the browser that a handler behind the HTTPS server answers:    *)
(* what the handlers of SiteRequest and Web3Request share.                     *)
(***************************************************************************)
EXTENDS EnsLookup

VARIABLES
    pc,             \* where the handler is; "idle", or "answered" with a response to read
    request,        \* the request it answers
    response        \* its answer

requestVars == <<pc, request, response>>

NoRequest == [handler |-> "none"]
NoResponse == [status |-> 0, by |-> "nobody"]

(* By NeoMist itself, or handed on from Kubo or a contract.                     *)
Own(status) == [status |-> status, by |-> "neomist"]

Responds(r) ==
    /\ response' = r
    /\ pc' = "answered"
    /\ UNCHANGED request

Moves(from, to) ==
    /\ pc = from
    /\ pc' = to
    /\ UNCHANGED <<request, response>>

Receives(r, next) ==
    /\ pc' = next
    /\ request' = r
    /\ response' = NoResponse
================================================================================
