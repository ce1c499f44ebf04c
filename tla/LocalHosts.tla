------------------------------- MODULE LocalHosts -------------------------------
(***************************************************************************)
(* Host names, and what four parts of the program make of one: the DNS server  *)
(* (matches_zone in src/dns_server.rs), the router of the HTTPS server and its  *)
(* check of origins (src/http_server.rs), and the certificate manager           *)
(* (src/certs.rs).  A host is the sequence of its labels with the top-level one *)
(* first; names are lower case, for all four fold the case first.  A name can   *)
(* be spelled with the dot of the root at its end, <<EmptyLabel, "eth", "name">>  *)
(* for "name.eth.": DNS and TLS make no difference, and the requests keep it.   *)
(***************************************************************************)
EXTENDS Naturals, Sequences, SequencesExt

Tlds == {"eth", "wei"}
Neomist == <<"localhost", "neomist">>
Ipfs == <<"localhost", "ipfs">>

(* What is between two dots, or before the first one.                           *)
EmptyLabel == ""

(* An ending ".eth" leaves something before it, if only an empty label.          *)
EndsInTld(host) == Len(host) >= 2 /\ host[1] \in Tlds

(* The name without the root's dot, as it is in DNS and in a handshake.           *)
IsAbsolute(host) == host # <<>> /\ host[1] = EmptyLabel
ServerName(host) == IF IsAbsolute(host) THEN Tail(host) ELSE host

(* DNS has no other empty labels than the root's, so no other name is looked up.  *)
IsDnsName(host) == ServerName(host) # <<>> /\ \A i \in DOMAIN ServerName(host) : ServerName(host)[i] # EmptyLabel

(* A question names the absolute name, however the browser's user spelled it.     *)
matches_zone(host) == EndsInTld(ServerName(host))

is_ens_host(host) ==
    EndsInTld(host) \/ (Len(host) >= 3 /\ host[1] = "localhost" /\ host[2] \in Tlds)

is_ipfs_gateway_host(host) == Len(host) = 3 /\ IsPrefix(Ipfs, host) /\ host[3] # EmptyLabel

route(host) ==
    CASE host = Neomist -> "ui"
      [] host = Ipfs -> "api"
      [] is_ipfs_gateway_host(host) -> "gateway"
      [] is_ens_host(host) -> "site"
      [] OTHER -> "unknown"

is_allowed_rpc_origin_host(host) == host = Neomist \/ is_ens_host(host)

----------------------------------------------------------------------------
(* Certificates.  A leaf names hosts, and those one label below some of them.    *)

NoPattern == <<>>

(* The places of the labels before the top-level one, empty ones aside.           *)
Labels(host) == {i \in 2..Len(host) : host[i] # EmptyLabel}

(* Mutant: the label the host begins with, not the one beside the TLD.            *)
base_domain_pattern_first(host) ==
    IF Labels(host) = {} THEN NoPattern ELSE <<host[1], host[Max(Labels(host))]>>

base_domain_pattern(host) ==
    IF Labels(host) = {} THEN NoPattern ELSE <<host[1], host[Min(Labels(host))]>>

Leaf(named, below) == [named |-> named, below |-> below]
LocalLeaf == Leaf({Neomist, Ipfs}, {Ipfs})
WildcardLeaf(pattern) == Leaf({pattern}, {pattern})
Covers(leaf, host) ==
    \/ host \in leaf.named
    \/ Len(host) > 1 /\ Front(host) \in leaf.below /\ Last(host) # EmptyLabel

(* get_chain_for_host: the certificate files of a host.                           *)
ChainKind(host) ==
    IF host \in LocalLeaf.named \/ is_ipfs_gateway_host(host) THEN "local"
    ELSE IF EndsInTld(host) /\ base_domain_pattern(host) # NoPattern THEN "wildcard"
    ELSE "unsupported"
================================================================================
