-------------------------------- MODULE RpcProxy --------------------------------
(***************************************************************************)
(* The proxy between the light client and the RPC servers of the settings        *)
(* (src/rpc_proxy.rs).  The light client keeps the address of the proxy for as    *)
(* long as the program runs, and the settings change behind it.                 *)
(***************************************************************************)
EXTENDS LiveConfig

VARIABLE
    request         \* a request of the light client

NoAnswer == [status |-> 0, from |-> None]
NoRequest == [to |-> "nobody", left |-> <<>>, answer |-> NoAnswer, asked |-> <<>>, listed |-> <<>>]
Protocols == {"execution", "consensus"}

RpcTypeOK ==
    /\ DOMAIN request = DOMAIN NoRequest
    /\ request.to \in Protocols \cup {"nobody"}
    /\ request.left \in Seq(Endpoints) /\ request.asked \in Seq(Endpoints)
    /\ request.answer \in [status : {0, 200, 502}, from : Endpoints \cup {None}]

Failure == [NoAnswer EXCEPT !.status = 502]

(* The list is read once, and is not locked while the servers are asked.  asked     *)
(* and listed are ghosts: who was asked, and who was listed when it arrived.      *)
Arrives(to) ==
    /\ request = NoRequest
    /\ request' = [NoRequest EXCEPT !.to = to, !.left = config[to], !.listed = config[to],
                                    !.answer = IF config[to] = <<>> THEN Failure ELSE NoAnswer]
    /\ UNCHANGED configVars

Asking == request # NoRequest /\ request.answer = NoAnswer
Asked(e) == [request EXCEPT !.asked = Append(@, e)]

(* A body that breaks off is answered as an empty one, with the status of success. *)
Succeeds ==
    /\ Asking
    /\ request' = [Asked(Head(request.left)) EXCEPT !.answer = [status |-> 200, from |-> Head(request.left)]]
    /\ UNCHANGED configVars

(* Mutant: the list is read under the lock for each server, by its position.      *)
FailsReadingAgain ==
    /\ Asking
    /\ LET next == Len(request.asked) + 2
           left == SubSeq(config[request.to], next, Len(config[request.to]))
       IN  request' = [Asked(Head(request.left)) EXCEPT
                          !.left = left, !.answer = IF left = <<>> THEN Failure ELSE NoAnswer]
    /\ UNCHANGED configVars

(* It cannot be reached, or answers with another status than success.            *)
Fails ==
    /\ Asking
    /\ request' = [Asked(Head(request.left)) EXCEPT
                      !.left = Tail(@), !.answer = IF Len(request.left) = 1 THEN Failure ELSE NoAnswer]
    /\ UNCHANGED configVars

Delivered ==
    /\ request.answer # NoAnswer
    /\ request' = NoRequest
    /\ UNCHANGED configVars

(* Whatever is saved in the meantime: an answer is that of the first server of the  *)
(* list that gave one, and 502 means that every server of the list was asked         *)
(* (execution_proxy_handler and consensus_proxy_handler).                        *)
NoServerSkipped ==
    request.answer # NoAnswer =>
        /\ IsPrefix(request.asked, request.listed)
        /\ IF request.answer.status = 200
           THEN request.answer.from = Last(request.asked)
           ELSE request.asked = request.listed
================================================================================
