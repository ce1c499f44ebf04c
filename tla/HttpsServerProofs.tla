--------------------------- MODULE HttpsServerProofs ---------------------------
(***************************************************************************)
(* Proofs about HttpsServer, for every set of connections, of hosts and of      *)
(* pages.  The inductive invariant says what is known of a connection at each    *)
(* of its phases, and who is to blame for a certificate file that is empty.      *)
(***************************************************************************)
EXTENDS HttpsServer, SequenceTheorems, TLAPS

(* What the records of the model are made of.                                   *)
Phases == {"closed", "connected", "elsewhere", "rejected", "creating", "writing",
           "loading", "offered", "refused", "open", "asked", "answered"}
Statuses == {0, 200, 204, 307, 400, 403, 404, 413, 415, 422, 500, 502}
Leaves == {NoLeaf, LocalLeaf} \cup {WildcardLeaf(p) : p \in Patterns}
Answerers == {"nobody", "server", "dashboard", "rpc", "site", "kubo", "errorPage"}
Responses == [status : Statuses, by : Answerers, readable : BOOLEAN]
AllRequests == {NoRequest} \cup (UNION {Requests(h) : h \in Hosts})
Connection == [phase : Phases, host : Hosts \cup {NoHost}, leaf : Leaves, excused : BOOLEAN,
               request : AllRequests, response : Responses]

Types ==
    /\ leaf \in [Patterns -> {"absent", "empty", "whole"}]
    /\ damaged \in [Patterns -> BOOLEAN]
    /\ conn \in [Connections -> Connection]

(* A file is empty only while somebody writes it, or after a write was cut off.   *)
EmptyLeaf ==
    \A p \in Patterns :
        leaf[p] = "empty" => damaged[p] \/ \E d \in Connections : At(d, "writing") /\ Pattern(d) = p

(* A name that resolves here and whose certificate must cover it.                *)
Certifiable(name) ==
    /\ EndsInTld(name) /\ Len(name) <= 3
    /\ \A i \in DOMAIN name : name[i] # EmptyLabel

(* What is known of a connection up to the end of the handshake.                  *)
HandshakeAt(c) ==
    /\ conn[c].phase # "closed" => conn[c].host \in Hosts
    /\ conn[c].phase \notin {"closed", "elsewhere"} => IsDnsName(conn[c].host)
    /\ conn[c].phase \in {"creating", "writing", "loading"} => ChainKind(ServerName(conn[c].host)) = "wildcard"
    /\ At(c, "offered") /\ ChainKind(ServerName(conn[c].host)) = "wildcard" =>
          conn[c].excused \/ conn[c].leaf = WildcardLeaf(Pattern(c))
    /\ At(c, "offered") => ChainKind(ServerName(conn[c].host)) \in {"local", "wildcard"}
    /\ At(c, "refused") /\ Certifiable(ServerName(conn[c].host)) => conn[c].excused

(* What is known of a request and of its answer.                                 *)
RpcTrue(c) ==
    conn[c].response.by = "rpc" /\ Origin(c) # NoOrigin =>
        /\ conn[c].response.readable = MatchesRpc(Origin(c))
        /\ conn[c].response.status = 403 <=> ~MatchesRpc(Origin(c))
RequestAt(c) ==
    /\ conn[c].phase \in {"asked", "answered"} => conn[c].request \in Requests(conn[c].host)
    /\ conn[c].phase \notin {"asked", "answered"} => conn[c].request = NoRequest
    /\ At(c, "answered") =>
          /\ route(conn[c].request.host) = "site" => conn[c].response.by = "site"
          /\ route(conn[c].request.host) = "unknown" => conn[c].response.by = "server"
          /\ conn[c].response.by = "rpc" => conn[c].request.path \in {"rpc", "preflight"}
          /\ RpcTrue(c)

IInv ==
    /\ Types
    /\ EmptyLeaf
    /\ \A c \in Connections : HandshakeAt(c) /\ RequestAt(c)
----------------------------------------------------------------------------
(* Hosts.                                                                   *)

(* A name under .eth or .wei is neither of the two that are on localhost.         *)
LEMMA ZoneIsForeign ==
    ASSUME NEW h \in Seq(STRING), h[1] \in Tlds
    PROVE  h # Neomist /\ h # Ipfs /\ ~is_ipfs_gateway_host(h)
<1>1. h[1] # "localhost"
  BY DEF Tlds
<1>2. Neomist[1] = "localhost" /\ Ipfs[1] = "localhost" /\ Len(Ipfs) = 2
  BY DEF Neomist, Ipfs
<1>3. ~is_ipfs_gateway_host(h)
  <2> SUFFICES ASSUME IsPrefix(Ipfs, h), Len(h) = 3 PROVE FALSE
    BY DEF is_ipfs_gateway_host
  <2>1. SubSeq(h, 1, 2) = SubSeq(Ipfs, 1, 2)
    BY <1>2 DEF IsPrefix
  <2>2. SubSeq(h, 1, 2)[1] = h[1] /\ SubSeq(Ipfs, 1, 2)[1] = "localhost"
    BY <1>2 DEF Ipfs
  <2> QED
    BY <1>1, <2>1, <2>2
<1> QED
  BY <1>1, <1>2, <1>3

(* A spelling without its root's dot is a name again.                             *)
LEMMA ServerNameIs ==
    ASSUME NEW h \in Seq(STRING)
    PROVE  ServerName(h) \in Seq(STRING)
<1>1. CASE IsAbsolute(h)
  BY <1>1 DEF ServerName, IsAbsolute
<1>2. CASE ~IsAbsolute(h)
  BY <1>2 DEF ServerName
<1> QED
  BY <1>1, <1>2

(* A name under .eth or .wei is routed to the site handler; it has a wildcard        *)
(* certificate if there is a label before the top-level one.                      *)
LEMMA ZoneHost ==
    ASSUME NEW h \in Seq(STRING), EndsInTld(h)
    PROVE  /\ route(h) = "site"
           /\ Labels(h) # {} => ChainKind(h) = "wildcard"
<1>1. h[1] \in Tlds /\ Len(h) >= 2
  BY DEF EndsInTld
<1>2. h # Neomist /\ h # Ipfs /\ ~is_ipfs_gateway_host(h) /\ is_ens_host(h)
  BY <1>1, ZoneIsForeign DEF is_ens_host, EndsInTld
<1>3. route(h) = "site"
  BY <1>2 DEF route
<1>4. ASSUME Labels(h) # {} PROVE ChainKind(h) = "wildcard"
  <2>1. base_domain_pattern(h) # NoPattern
    BY <1>4 DEF base_domain_pattern, NoPattern
  <2> QED
    BY <1>1, <1>2, <2>1 DEF ChainKind, LocalLeaf, Leaf, EndsInTld
<1> QED
  BY <1>3, <1>4

(* The router knows no host that is spelled with the root's dot.                   *)
LEMMA EmptyLabelIs == EmptyLabel \notin {"localhost", "eth", "wei"}
  BY DEF EmptyLabel

LEMMA AbsoluteUnknown ==
    ASSUME NEW h \in Seq(STRING), IsAbsolute(h)
    PROVE  route(h) = "unknown"
<1>1. h[1] \notin {"localhost", "eth", "wei"}
  BY EmptyLabelIs DEF IsAbsolute
<1>2. h # Neomist /\ h # Ipfs
  BY <1>1 DEF Neomist, Ipfs
<1>3. ~is_ens_host(h)
  BY <1>1 DEF is_ens_host, EndsInTld, Tlds
<1>4. ASSUME IsPrefix(Ipfs, h), Len(h) = 3 PROVE FALSE
  <2>1. Len(Ipfs) = 2 /\ Ipfs[1] = "localhost"
    BY DEF Ipfs
  <2>2. SubSeq(h, 1, 2) = SubSeq(Ipfs, 1, 2)
    BY <1>4, <2>1 DEF IsPrefix
  <2>3. SubSeq(h, 1, 2)[1] = h[1] /\ SubSeq(Ipfs, 1, 2)[1] = "localhost"
    BY <1>4, <2>1 DEF Ipfs
  <2> QED
    BY <1>1, <2>2, <2>3
<1> QED
  BY <1>2, <1>3, <1>4 DEF route, is_ipfs_gateway_host

(* A name under .eth or .wei that DNS can be asked for has a label before the TLD.    *)
LEMMA CertifiableIs ==
    ASSUME NEW name \in Seq(STRING), Certifiable(name)
    PROVE  EndsInTld(name) /\ Labels(name) # {}
<1>1. Len(name) >= 2 /\ EndsInTld(name)
  BY DEF Certifiable, EndsInTld
<1>2. 2 \in DOMAIN name /\ 2 \in 2..Len(name)
  BY <1>1
<1>3. name[2] # EmptyLabel
  BY <1>2 DEF Certifiable
<1> QED
  BY <1>1, <1>2, <1>3 DEF Labels

(* A host of two labels, and the first two labels of a host.                       *)
LEMMA TwoLabels ==
    ASSUME NEW h \in Seq(STRING), Len(h) = 2
    PROVE  h = <<h[1], h[2]>>
OBVIOUS

LEMMA FirstTwo ==
    ASSUME NEW h \in Seq(STRING), Len(h) >= 2
    PROVE  SubSeq(h, 1, 2) = <<h[1], h[2]>>
<1>1. /\ SubSeq(h, 1, 2) \in Seq(STRING) /\ Len(SubSeq(h, 1, 2)) = 2
      /\ SubSeq(h, 1, 2)[1] = h[1] /\ SubSeq(h, 1, 2)[2] = h[2]
  BY \A i \in 1..2 : h[i] \in STRING, SubSeqProperties
<1>2. SubSeq(h, 1, 2) = <<SubSeq(h, 1, 2)[1], SubSeq(h, 1, 2)[2]>>
  BY <1>1, TwoLabels
<1> QED
  BY <1>1, <1>2

(* The certificate that is made for a name at most one label below the registered one *)
(* covers it.                                                                *)
LEMMA CertifiableCovered ==
    ASSUME NEW h \in Seq(STRING), Certifiable(h)
    PROVE  Covers(WildcardLeaf(base_domain_pattern(h)), h)
<1> DEFINE n == Len(h)
<1>1. n \in Nat /\ DOMAIN h = 1..n
  OBVIOUS
<1>2. n >= 2 /\ n <= 3
  BY DEF Certifiable, EndsInTld
<1>3. \A i \in 1..n : h[i] # EmptyLabel
  BY <1>1 DEF Certifiable
<1>4. Labels(h) = 2..n
  BY <1>1, <1>3 DEF Labels
<1> HIDE DEF n
<1>5. Min(Labels(h)) = 2
  BY <1>1, <1>2, <1>4 DEF Min
<1>6. base_domain_pattern(h) = <<h[1], h[2]>>
  BY <1>5, CertifiableIs DEF base_domain_pattern
<1>7. CASE n = 2
  <2>1. h = <<h[1], h[2]>>
    BY <1>7, TwoLabels DEF n
  <2> QED
    BY <1>6, <2>1 DEF Covers, WildcardLeaf, Leaf
<1>8. CASE n = 3
  <2>1. Front(h) = <<h[1], h[2]>>
    <3>1. Front(h) = SubSeq(h, 1, n - 1) /\ n - 1 = 2 /\ Len(h) >= 2
      BY <1>2, <1>8 DEF Front, n
    <3> QED
      BY <3>1, FirstTwo
  <2>2. Last(h) # EmptyLabel
    BY <1>1, <1>3, <1>8 DEF Last, n
  <2>3. Len(h) > 1
    BY <1>2 DEF n
  <2> QED
    BY <1>6, <2>1, <2>2, <2>3 DEF Covers, WildcardLeaf, Leaf
<1> QED
  BY <1>1, <1>2, <1>7, <1>8

(* The hosts that may use the RPC endpoint are those that the server serves.       *)
LEMMA AllowedIsServed ==
    ASSUME NEW h \in Seq(STRING)
    PROVE  is_allowed_rpc_origin_host(h) <=> route(h) \in {"ui", "site"}
<1>1. CASE h = Neomist
  <2>1. h # Ipfs /\ ~is_ipfs_gateway_host(h) /\ ~is_ens_host(h)
    BY <1>1 DEF is_ipfs_gateway_host, is_ens_host, EndsInTld, Neomist, Ipfs, Tlds
  <2> QED
    BY <1>1, <2>1 DEF is_allowed_rpc_origin_host, route
<1>2. CASE h # Neomist /\ is_ens_host(h)
  <2>1. h # Ipfs /\ ~is_ipfs_gateway_host(h)
    <3>1. CASE EndsInTld(h)
      BY <3>1, ZoneIsForeign DEF EndsInTld
    <3>2. CASE Len(h) >= 3 /\ h[1] = "localhost" /\ h[2] \in Tlds
      <4>1. h[2] # "ipfs" /\ h # Ipfs
        BY <3>2 DEF Tlds, Ipfs
      <4>2. ASSUME IsPrefix(Ipfs, h) PROVE FALSE
        <5>1. SubSeq(h, 1, 2) = SubSeq(Ipfs, 1, 2)
          BY <4>2 DEF IsPrefix, Ipfs
        <5>2. SubSeq(h, 1, 2)[2] = h[2] /\ SubSeq(Ipfs, 1, 2)[2] = "ipfs"
          BY <3>2 DEF Ipfs
        <5> QED
          BY <4>1, <5>1, <5>2
      <4> QED
        BY <4>1, <4>2 DEF is_ipfs_gateway_host
    <3> QED
      BY <1>2, <3>1, <3>2 DEF is_ens_host
  <2> QED
    BY <1>2, <2>1 DEF is_allowed_rpc_origin_host, route
<1>3. CASE h # Neomist /\ ~is_ens_host(h)
  BY <1>3 DEF is_allowed_rpc_origin_host, route
<1> QED
  BY <1>1, <1>2, <1>3
----------------------------------------------------------------------------
(* The handshake.                                                           *)

(* A connection that is closed is one of the records of the model.                *)
LEMMA ClosedIs ==
    /\ Closed \in Connection
    /\ Closed.phase = "closed" /\ Closed.request = NoRequest
    /\ NoRequest \in AllRequests /\ NoResponse \in Responses
<1>1. NoLeaf \in Leaves /\ NoRequest \in AllRequests /\ NoHost \in Hosts \cup {NoHost}
  BY DEF Leaves, AllRequests
<1>2. NoResponse \in Responses
  <2>1. 0 \in Statuses /\ "nobody" \in Answerers
    BY DEF Statuses, Answerers
  <2> QED
    BY <2>1 DEF NoResponse, Responses
<1>3. "closed" \in Phases /\ FALSE \in BOOLEAN
  BY DEF Phases
<1> QED
  BY <1>1, <1>2, <1>3 DEF Closed, Connection

(* The pattern of a host that has a wildcard certificate is one of the patterns.    *)
LEMMA PatternIs ==
    ASSUME NEW c \in Connections, conn[c].host \in Hosts, ChainKind(ServerName(conn[c].host)) = "wildcard"
    PROVE  Pattern(c) \in Patterns /\ WildcardLeaf(Pattern(c)) \in Leaves
<1>1. Pattern(c) \in Patterns
  BY DEF Pattern, Patterns
<1> QED
  BY <1>1 DEF Leaves

(* A step of connection c changes c alone and keeps what is known of it.           *)
Keeps(c) ==
    /\ conn'[c] \in Connection
    /\ conn' = [conn EXCEPT ![c] = conn'[c]]
    /\ HandshakeAt(c)' /\ RequestAt(c)'

LEMMA MovedIs ==
    ASSUME NEW k \in Connection, NEW to \in Phases, NEW e \in BOOLEAN
    PROVE  [k EXCEPT !.phase = to, !.excused = e] \in Connection
BY DEF Connection

(* A connection that goes on to another phase of the handshake keeps its host.      *)
LEMMA PhaseMoves ==
    ASSUME Types, NEW c \in Connections, RequestAt(c),
           conn[c].phase \notin {"asked", "answered"}, IsDnsName(conn[c].host),
           NEW to \in {"creating", "writing", "loading", "rejected", "refused"},
           NEW excused \in BOOLEAN,
           conn' = [conn EXCEPT ![c] = [conn[c] EXCEPT !.phase = to, !.excused = excused]],
           conn[c].host \in Hosts,
           to \in {"creating", "writing", "loading"} => ChainKind(ServerName(conn[c].host)) = "wildcard",
           to = "refused" /\ Certifiable(ServerName(conn[c].host)) => excused = TRUE
    PROVE  Keeps(c)
<1>1. /\ conn[c] \in Connection /\ conn'[c] = [conn[c] EXCEPT !.phase = to, !.excused = excused]
      /\ conn' = [conn EXCEPT ![c] = conn'[c]]
  BY DEF Types
<1>2. /\ conn'[c].phase = to /\ conn'[c].host = conn[c].host /\ conn'[c].excused = excused
      /\ conn'[c].request = conn[c].request
      /\ conn'[c] \in Connection
  <2>1. to \in Phases
    BY DEF Phases
  <2>2. conn'[c] \in Connection
    <3>1. \A k \in Connection : [k EXCEPT !.phase = to, !.excused = excused] \in Connection
      BY <2>1, MovedIs
    <3> QED
      BY <1>1, <3>1
  <2>3. conn'[c].phase = to
    BY <1>1 DEF Connection
  <2>4. conn'[c].host = conn[c].host
    BY <1>1 DEF Connection
  <2>5. conn'[c].request = conn[c].request
    BY <1>1 DEF Connection
  <2>6. conn'[c].excused = excused
    BY <1>1 DEF Connection
  <2> QED
    BY <2>2, <2>3, <2>4, <2>5, <2>6
<1>3. conn[c].request = NoRequest
  BY DEF RequestAt
<1>4. HandshakeAt(c)'
  BY <1>2 DEF HandshakeAt, At
<1>5. RequestAt(c)'
  BY <1>2, <1>3 DEF RequestAt, At
<1> QED
  BY <1>1, <1>2, <1>4, <1>5 DEF Keeps

LEMMA BecomesKeeps ==
    ASSUME Types, NEW c \in Connections, HandshakeAt(c), RequestAt(c),
           NEW to \in {"creating", "writing", "loading", "rejected", "refused"},
           conn' = [conn EXCEPT ![c].phase = to],
           conn[c].phase \notin {"closed", "elsewhere", "asked", "answered"},
           to \in {"creating", "writing", "loading"} => ChainKind(ServerName(conn[c].host)) = "wildcard",
           to = "refused" /\ Certifiable(ServerName(conn[c].host)) => conn[c].excused = TRUE
    PROVE  Keeps(c)
<1>1. conn[c] \in Connection /\ conn[c].excused \in BOOLEAN
  BY DEF Types, Connection
<1>2. conn' = [conn EXCEPT ![c] = [conn[c] EXCEPT !.phase = to, !.excused = conn[c].excused]]
  BY <1>1 DEF Types, Connection
<1>3. conn[c].host \in Hosts /\ IsDnsName(conn[c].host)
  BY DEF HandshakeAt
<1> QED
  BY <1>1, <1>2, <1>3, PhaseMoves

(* Each step before the handshake, and each that looks for a certificate or makes one. *)
LEMMA HandshakeKeeps ==
    ASSUME Types, NEW c \in Connections, HandshakeAt(c), RequestAt(c),
           \/ Rejects(c) \/ NoCertificate(c) \/ LooksForLeaf(c) \/ Truncates(c) \/ Writes(c)
           \/ CreationFails(c) \/ CannotLoad(c)
    PROVE  Keeps(c)
<1>0. conn[c] \in Connection /\ conn[c].excused \in BOOLEAN
  BY DEF Types, Connection
<1>2. CASE Rejects(c)
  BY <1>2, BecomesKeeps DEF Rejects, Becomes, At
<1>3. CASE NoCertificate(c)
  <2>1. ServerName(conn[c].host) \in Seq(STRING)
    BY <1>3, HttpsServerAssumption, ServerNameIs DEF NoCertificate, At, HandshakeAt
  <2>2. ~Certifiable(ServerName(conn[c].host))
    BY <1>3, <2>1, CertifiableIs, ZoneHost DEF NoCertificate
  <2> QED
    BY <1>3, <2>2, BecomesKeeps DEF NoCertificate, Becomes, At
<1>4. CASE LooksForLeaf(c)
  BY <1>4, BecomesKeeps DEF LooksForLeaf, Becomes, At
<1>5. CASE Truncates(c)
  BY <1>5, BecomesKeeps DEF Truncates, Becomes, At, HandshakeAt
<1>6. CASE Writes(c)
  BY <1>6, BecomesKeeps DEF Writes, Becomes, At, HandshakeAt
<1>7. CASE CreationFails(c) \/ CannotLoad(c)
  <2>1. /\ conn[c].phase \in {"creating", "writing", "loading", "connected"}
        /\ conn' = [conn EXCEPT ![c].phase = "refused", ![c].excused = TRUE]
    BY <1>7 DEF CreationFails, CannotLoad, At
  <2>2. conn' = [conn EXCEPT ![c] = [conn[c] EXCEPT !.phase = "refused", !.excused = TRUE]]
    BY <1>0, <2>1 DEF Types, Connection
  <2>3. conn[c].host \in Hosts /\ IsDnsName(conn[c].host)
    BY <2>1 DEF HandshakeAt
  <2> QED
    BY <2>1, <2>2, <2>3, PhaseMoves
<1> QED
  BY <1>2, <1>3, <1>4, <1>5, <1>6, <1>7

(* What is offered is whole, or somebody is to blame that it is not.               *)
LEMMA OffersKeeps ==
    ASSUME Types, EmptyLeaf, NEW c \in Connections, HandshakeAt(c), RequestAt(c),
           OffersLocal(c) \/ LoadsLeaf(c)
    PROVE  Keeps(c)
<1>0. conn[c] \in Connection
  BY DEF Types
<1>1. ASSUME NEW l \in Leaves, NEW excused \in BOOLEAN, Offers(c, l, excused),
             conn[c].host \in Hosts, conn[c].phase \notin {"closed", "elsewhere", "asked", "answered"},
             \/ ChainKind(ServerName(conn[c].host)) = "local"
             \/ ChainKind(ServerName(conn[c].host)) = "wildcard" /\ (excused \/ l = WildcardLeaf(Pattern(c)))
      PROVE  Keeps(c)
  <2>1. /\ conn'[c] = [conn[c] EXCEPT !.phase = "offered", !.leaf = l, !.excused = excused]
        /\ conn' = [conn EXCEPT ![c] = conn'[c]]
    BY <1>0, <1>1 DEF Types, Offers, Connection
  <2>2. /\ conn'[c].phase = "offered" /\ conn'[c].host = conn[c].host /\ conn'[c].leaf = l
        /\ conn'[c].excused = excused /\ conn'[c].request = conn[c].request
        /\ conn'[c] \in Connection
    BY <1>0, <2>1 DEF Connection, Phases
  <2>3. HandshakeAt(c)'
    BY <1>1, <2>2 DEF HandshakeAt, At, Pattern
  <2>4. RequestAt(c)'
    BY <1>1, <2>2 DEF RequestAt, At
  <2> QED
    BY <2>1, <2>2, <2>3, <2>4 DEF Keeps
<1>2. CASE OffersLocal(c)
  BY <1>1, <1>2 DEF OffersLocal, At, HandshakeAt, Leaves
<1>3. CASE LoadsLeaf(c)
  <2> DEFINE p == Pattern(c)
             writing == \E d \in Connections : At(d, "writing") /\ Pattern(d) = p
             l == IF leaf[p] = "whole" THEN WildcardLeaf(p) ELSE NoLeaf
  <2>1. /\ conn[c].host \in Hosts /\ ChainKind(ServerName(conn[c].host)) = "wildcard"
        /\ conn[c].phase = "loading" /\ leaf[p] # "absent"
        /\ Offers(c, l, damaged[p] \/ writing)
    BY <1>3 DEF LoadsLeaf, At, HandshakeAt
  <2>2. p \in Patterns /\ WildcardLeaf(p) \in Leaves /\ NoLeaf \in Leaves
    BY <2>1, PatternIs DEF Leaves
  <2>3. leaf[p] \in {"whole", "empty"} /\ damaged[p] \in BOOLEAN
    BY <2>1, <2>2 DEF Types
  <2>4. leaf[p] = "empty" => damaged[p] \/ writing
    BY <2>2 DEF EmptyLeaf
  <2> HIDE DEF p, writing
  <2>5. l \in Leaves /\ (damaged[p] \/ writing) \in BOOLEAN
    BY <2>2
  <2>6. (damaged[p] \/ writing) \/ l = WildcardLeaf(p)
    BY <2>3, <2>4
  <2> HIDE DEF l
  <2> QED
    BY <1>1, <2>1, <2>5, <2>6 DEF p
<1> QED
  BY <1>2, <1>3

(* A connection that begins, or whose handshake succeeded.                       *)
LEMMA OpensKeeps ==
    ASSUME Types, NEW c \in Connections, NEW h \in Hosts, NEW to \in {"connected", "elsewhere", "open"},
           to # "elsewhere" => IsDnsName(h),
           conn' = [conn EXCEPT ![c] = [Closed EXCEPT !.phase = to, !.host = h]]
    PROVE  Keeps(c)
<1>1. to \in Phases
  BY DEF Phases
<1>2. \A k \in Connection : [k EXCEPT !.phase = to, !.host = h] \in Connection
  BY <1>1 DEF Connection
<1>3. /\ conn'[c] = [Closed EXCEPT !.phase = to, !.host = h]
      /\ conn' = [conn EXCEPT ![c] = conn'[c]]
  BY DEF Types
<1>4. conn'[c] \in Connection
  BY <1>2, <1>3, ClosedIs
<1>5. conn'[c].phase = to
  BY <1>3 DEF Closed
<1>6. conn'[c].host = h
  BY <1>3 DEF Closed
<1>7. conn'[c].request = NoRequest
  BY <1>3 DEF Closed
<1>8. HandshakeAt(c)'
  BY <1>5, <1>6 DEF HandshakeAt, At
<1>9. RequestAt(c)'
  BY <1>5, <1>7 DEF RequestAt, At
<1> QED
  BY <1>3, <1>4, <1>8, <1>9 DEF Keeps

(* A leaf that is whole covers a name that must be covered, so it is accepted.      *)
LEMMA VerifiesKeeps ==
    ASSUME Types, NEW c \in Connections, HandshakeAt(c), RequestAt(c), Verifies(c)
    PROVE  Keeps(c)
<1>1. /\ conn[c].phase = "offered" /\ conn[c].host \in Hosts /\ IsDnsName(conn[c].host)
      /\ ServerName(conn[c].host) \in Seq(STRING)
  BY HttpsServerAssumption, ServerNameIs DEF Verifies, At, HandshakeAt
<1>2. CASE Covers(conn[c].leaf, ServerName(conn[c].host))
  BY <1>1, <1>2, OpensKeeps DEF Verifies
<1>3. CASE ~Covers(conn[c].leaf, ServerName(conn[c].host))
  <2>1. conn' = [conn EXCEPT ![c].phase = "refused"]
    BY <1>3 DEF Verifies, Becomes
  <2>2. ASSUME Certifiable(ServerName(conn[c].host)) PROVE conn[c].excused = TRUE
    <3>1. ChainKind(ServerName(conn[c].host)) = "wildcard"
      BY <1>1, <2>2, CertifiableIs, ZoneHost
    <3>2. Covers(WildcardLeaf(Pattern(c)), ServerName(conn[c].host))
      BY <1>1, <2>2, CertifiableCovered DEF Pattern
    <3>3. conn[c].excused
      BY <1>1, <1>3, <3>1, <3>2 DEF HandshakeAt, At
    <3>4. conn[c].excused \in BOOLEAN
      BY DEF Types, Connection
    <3> QED
      BY <3>3, <3>4
  <2> QED
    BY <1>1, <2>1, <2>2, BecomesKeeps
<1> QED
  BY <1>2, <1>3

LEMMA ResolvesKeeps ==
    ASSUME Types, NEW c \in Connections, Resolves(c)
    PROVE  Keeps(c)
<1>1. PICK h \in Hosts :
        conn' = [conn EXCEPT ![c] =
            [Closed EXCEPT !.phase = IF LivesHere(h) THEN "connected" ELSE "elsewhere", !.host = h]]
  BY DEF Resolves
<1>2. CASE LivesHere(h)
  BY <1>1, <1>2, OpensKeeps DEF LivesHere
<1>3. CASE ~LivesHere(h)
  BY <1>1, <1>3, OpensKeeps
<1> QED
  BY <1>2, <1>3
----------------------------------------------------------------------------
(* Requests.                                                                *)

(* A request names the host of its connection or none; those to the RPC endpoint    *)
(* have an origin.                                                           *)
LEMMA RequestIs ==
    ASSUME NEW h \in Hosts, NEW r \in Requests(h)
    PROVE  /\ r \in AllRequests
           /\ r.host \in {h, NoHost}
           /\ r.path \in {"rpc", "preflight"} => r.origin \in Origins
<1>1. r \in AllRequests
  BY DEF AllRequests
<1>2. CASE r \in [path : {"rpc", "preflight", "change"}, origin : Origins, host : {h}]
  BY <1>1, <1>2
<1>3. CASE r \in [path : {"webui", "page"}, origin : {NoOrigin}, host : {h, NoHost}, html : BOOLEAN]
  BY <1>1, <1>3
<1> QED
  BY <1>2, <1>3 DEF Requests

LEMMA SendsKeeps ==
    ASSUME Types, NEW c \in Connections, HandshakeAt(c), RequestAt(c), Sends(c)
    PROVE  Keeps(c)
<1>1. conn[c].phase = "open" /\ conn[c].host \in Hosts /\ conn[c] \in Connection
  BY DEF Sends, At, HandshakeAt, Types
<1>2. PICK r \in Requests(conn[c].host) : conn' = [conn EXCEPT ![c].phase = "asked", ![c].request = r]
  BY DEF Sends
<1>3. r \in AllRequests /\ "asked" \in Phases
  BY <1>1, RequestIs DEF Phases
<1>4. /\ conn'[c] = [conn[c] EXCEPT !.phase = "asked", !.request = r]
      /\ conn' = [conn EXCEPT ![c] = conn'[c]]
  BY <1>2 DEF Types
<1>5. \A k \in Connection : [k EXCEPT !.phase = "asked", !.request = r] \in Connection
  BY <1>3 DEF Connection
<1>6. conn'[c] \in Connection
  BY <1>1, <1>4, <1>5
<1>7. conn'[c].phase = "asked"
  BY <1>1, <1>4 DEF Connection
<1>8. conn'[c].host = conn[c].host
  BY <1>1, <1>4 DEF Connection
<1>9. conn'[c].request = r
  BY <1>1, <1>4 DEF Connection
<1>10. HandshakeAt(c)'
  BY <1>1, <1>7, <1>8 DEF HandshakeAt, At
<1>11. RequestAt(c)'
  BY <1>2, <1>7, <1>8, <1>9 DEF RequestAt, At
<1> QED
  BY <1>4, <1>6, <1>10, <1>11 DEF Keeps

LEMMA AnswerIs ==
    ASSUME NEW status \in Statuses, NEW by \in Answerers, NEW readable \in BOOLEAN
    PROVE  [status |-> status, by |-> by, readable |-> readable] \in Responses
BY DEF Responses

LEMMA AnswerReplaces ==
    ASSUME conn \in [Connections -> Connection], NEW c \in Connections, NEW answer \in Responses,
           conn' = [conn EXCEPT ![c].phase = "answered", ![c].response = answer]
    PROVE  /\ conn'[c] = [conn[c] EXCEPT !.phase = "answered", !.response = answer]
           /\ conn' = [conn EXCEPT ![c] = conn'[c]]
           /\ conn'[c] \in Connection
<1>1. "answered" \in Phases
  BY DEF Phases
<1>2. \A k \in Connection : [k EXCEPT !.phase = "answered", !.response = answer] \in Connection
  BY <1>1 DEF Connection
<1>3. /\ conn'[c] = [conn[c] EXCEPT !.phase = "answered", !.response = answer]
      /\ conn' = [conn EXCEPT ![c] = conn'[c]]
  OBVIOUS
<1> QED
  BY <1>2, <1>3

(* An answer that is true of its request is kept as such.                         *)
LEMMA AnswersKeep ==
    ASSUME Types, NEW c \in Connections, HandshakeAt(c), RequestAt(c), At(c, "asked"),
           NEW status \in Statuses, NEW by \in Answerers, NEW readable \in BOOLEAN,
           Answers(c, status, by, readable),
           route(conn[c].request.host) = "site" => by = "site",
           route(conn[c].request.host) = "unknown" => by = "server",
           by = "rpc" =>
               /\ conn[c].request.path \in {"rpc", "preflight"}
               /\ Origin(c) # NoOrigin =>
                     /\ readable = MatchesRpc(Origin(c))
                     /\ status = 403 <=> ~MatchesRpc(Origin(c))
    PROVE  Keeps(c)
<1> DEFINE answer == [status |-> status, by |-> by, readable |-> readable]
<1>1. conn[c] \in Connection /\ conn[c].phase = "asked" /\ conn[c].host \in Hosts
  BY DEF At, HandshakeAt, Types
<1>2. conn' = [conn EXCEPT ![c].phase = "answered", ![c].response = answer]
  BY DEF Answers
<1>3. answer \in Responses
  BY AnswerIs
<1>4. answer.status = status /\ answer.by = by /\ answer.readable = readable
  OBVIOUS
<1> HIDE DEF answer
<1>5. /\ conn'[c] = [conn[c] EXCEPT !.phase = "answered", !.response = answer]
      /\ conn' = [conn EXCEPT ![c] = conn'[c]]
      /\ conn'[c] \in Connection
  BY <1>2, <1>3, AnswerReplaces DEF Types
<1>9. conn'[c].phase = "answered"
  BY <1>1, <1>5 DEF Connection
<1>10. conn'[c].host = conn[c].host
  BY <1>1, <1>5 DEF Connection
<1>11. conn'[c].request = conn[c].request
  BY <1>1, <1>5 DEF Connection
<1>12. conn'[c].response = answer
  BY <1>1, <1>5 DEF Connection
<1>13. HandshakeAt(c)'
  BY <1>1, <1>9, <1>10 DEF HandshakeAt, At
<1>14. RequestAt(c)'
  <2>1. conn[c].request \in Requests(conn[c].host)
    BY <1>1 DEF RequestAt
  <2>2. RpcTrue(c)'
    BY <1>4, <1>11, <1>12 DEF RpcTrue, Origin
  <2> QED
    BY <1>4, <1>9, <1>10, <1>11, <1>12, <2>1, <2>2 DEF RequestAt, At
<1> QED
  BY <1>5, <1>13, <1>14 DEF Keeps

(* Each handler answers truly: a site by the site handler, and the RPC endpoint     *)
(* readably for the pages that may use it.                                      *)
LEMMA HandlesKeep ==
    ASSUME Types, NEW c \in Connections, HandshakeAt(c), RequestAt(c), Handles(c)
    PROVE  Keeps(c)
<1>0. At(c, "asked")
  BY DEF Handles, UnknownHost, UiAnswers, ChangeAnswered, ChangeMalformed, PreflightAnswered, RpcTooLarge, RpcRefuses,
         RpcAnswers, SiteAnswers, WebuiRedirects, KuboAnswers, Asks
(* Answers that are not of the RPC endpoint.                                     *)
<1>1. ASSUME NEW status \in Statuses, NEW by \in Answerers \ {"rpc"}, NEW readable \in BOOLEAN,
             Answers(c, status, by, readable),
             route(conn[c].request.host) = "site" => by = "site",
             route(conn[c].request.host) = "unknown" => by = "server"
      PROVE  Keeps(c)
  BY <1>0, <1>1, AnswersKeep
(* Answers that are.                                                         *)
<1>2. ASSUME NEW status \in Statuses, NEW readable \in BOOLEAN, Answers(c, status, "rpc", readable),
             Asks(c, "ui", {"rpc", "preflight"}),
             Origin(c) # NoOrigin =>
                 /\ readable = MatchesRpc(Origin(c))
                 /\ status = 403 <=> ~MatchesRpc(Origin(c))
      PROVE  Keeps(c)
  <2>1. "rpc" \in Answerers /\ route(conn[c].request.host) = "ui" /\ conn[c].request.path \in {"rpc", "preflight"}
    BY <1>2 DEF Answerers, Asks
  <2> QED
    BY <1>0, <1>2, <2>1, AnswersKeep
<1>3. /\ \A status \in {200, 204, 307, 400, 403, 404, 413, 415, 422, 500, 502} : status \in Statuses
      /\ \A by \in {"server", "dashboard", "site", "kubo", "errorPage"} : by \in Answerers \ {"rpc"}
      /\ FALSE \in BOOLEAN /\ TRUE \in BOOLEAN
  BY DEF Statuses, Answerers
<1>11. CASE ChangeMalformed(c)
  <2>1. PICK status \in {400, 415, 422} : Answers(c, status, "server", FALSE)
    BY <1>11 DEF ChangeMalformed
  <2>2. status \in Statuses /\ "server" \in Answerers \ {"rpc"} /\ route(conn[c].request.host) = "ui"
    BY <1>3, <1>11 DEF ChangeMalformed, Asks
  <2> QED
    BY <1>1, <2>1, <2>2
<1>4. CASE UnknownHost(c) \/ RpcTooLarge(c) \/ WebuiRedirects(c)
  <2>1. PICK status \in {404, 413, 307} :
          Answers(c, status, "server", FALSE) /\ route(conn[c].request.host) # "site"
    BY <1>4 DEF UnknownHost, RpcTooLarge, WebuiRedirects, Asks
  <2>2. status \in Statuses /\ "server" \in Answerers \ {"rpc"}
    BY <1>3
  <2> QED
    BY <1>1, <2>1, <2>2
<1>5. CASE UiAnswers(c) \/ ChangeAnswered(c)
  <2>1. route(conn[c].request.host) = "ui"
    BY <1>5 DEF UiAnswers, ChangeAnswered, Asks
  <2>2. PICK status \in {200, 400, 403, 404, 500} : Answers(c, status, "dashboard", FALSE)
    <3>1. CASE UiAnswers(c)
      <4>1. PICK status \in {200, 404} : Answers(c, status, "dashboard", FALSE)
        BY <3>1 DEF UiAnswers
      <4>2. status \in {200, 400, 403, 404, 500}
        OBVIOUS
      <4> QED
        BY <4>1, <4>2
    <3>2. CASE ChangeAnswered(c)
      <4>1. PICK referer \in Origins, done \in {200, 400, 500} :
              Answers(c, IF MatchesUi(IF Origin(c) # NoOrigin THEN Origin(c) ELSE referer) THEN done ELSE 403,
                      "dashboard", FALSE)
        BY <3>2 DEF ChangeAnswered
      <4>2. CASE MatchesUi(IF Origin(c) # NoOrigin THEN Origin(c) ELSE referer)
        <5>1. Answers(c, done, "dashboard", FALSE)
          BY <4>1, <4>2
        <5>2. done \in {200, 400, 403, 404, 500}
          OBVIOUS
        <5> QED
          BY <5>1, <5>2
      <4>3. CASE ~MatchesUi(IF Origin(c) # NoOrigin THEN Origin(c) ELSE referer)
        BY <4>1, <4>3
      <4> QED
        BY <4>2, <4>3
    <3> QED
      BY <1>5, <3>1, <3>2
  <2>3. status \in Statuses /\ "dashboard" \in Answerers \ {"rpc"}
    BY <1>3
  <2> QED
    BY <1>1, <2>1, <2>2, <2>3
<1>6. CASE PreflightAnswered(c)
  <2>1. Asks(c, "ui", {"rpc", "preflight"}) /\ 204 \in Statuses /\ 403 \in Statuses
    BY <1>3, <1>6 DEF PreflightAnswered, Asks
  <2>2. CASE MatchesRpc(Origin(c))
    <3> DEFINE status == 204
               readable == TRUE
    <3>1. Answers(c, status, "rpc", readable)
      BY <1>6, <2>2 DEF PreflightAnswered
    <3>2. status \in Statuses /\ readable \in BOOLEAN
      BY <2>1
    <3>3. readable = MatchesRpc(Origin(c))
      BY <2>2 DEF MatchesRpc
    <3>4. status = 403 <=> ~MatchesRpc(Origin(c))
      BY <2>2
    <3> HIDE DEF status, readable
    <3> QED
      BY <1>2, <2>1, <3>1, <3>2, <3>3, <3>4
  <2>3. CASE ~MatchesRpc(Origin(c))
    <3>1. Answers(c, 403, "rpc", FALSE)
      BY <1>6, <2>3 DEF PreflightAnswered
    <3>2. FALSE = MatchesRpc(Origin(c))
      BY <2>3 DEF MatchesRpc
    <3> QED
      BY <1>2, <2>1, <2>3, <3>1, <3>2
  <2> QED
    BY <2>2, <2>3
<1>7. CASE RpcRefuses(c)
  <2>1. Asks(c, "ui", {"rpc", "preflight"}) /\ ~MatchesRpc(Origin(c)) /\ 403 \in Statuses
    BY <1>3, <1>7 DEF RpcRefuses, Asks
  <2>2. Answers(c, 403, "rpc", FALSE)
    BY <1>7 DEF RpcRefuses
  <2>3. FALSE = MatchesRpc(Origin(c))
    BY <2>1 DEF MatchesRpc
  <2> QED
    BY <1>2, <1>3, <2>1, <2>2, <2>3
<1>8. CASE RpcAnswers(c)
  <2>1. Asks(c, "ui", {"rpc", "preflight"}) /\ (Origin(c) # NoOrigin => MatchesRpc(Origin(c)))
    BY <1>8 DEF RpcAnswers, Asks
  <2> DEFINE readable == Origin(c) # NoOrigin
  <2>2. PICK status \in {200, 400, 502} : Answers(c, status, "rpc", readable)
    BY <1>8 DEF RpcAnswers
  <2>3. status \in Statuses /\ status # 403
    BY <1>3
  <2>4. readable \in BOOLEAN
    OBVIOUS
  <2>5. Origin(c) # NoOrigin => readable = MatchesRpc(Origin(c))
    BY <2>1 DEF MatchesRpc
  <2> HIDE DEF readable
  <2> QED
    BY <1>2, <2>1, <2>2, <2>3, <2>4, <2>5
<1>9. CASE SiteAnswers(c)
  <2>1. PICK status \in {200, 404, 502} : Answers(c, status, "site", MatchesUi(Origin(c)))
    BY <1>9 DEF SiteAnswers
  <2>2. MatchesUi(Origin(c)) \in BOOLEAN
    BY DEF MatchesUi
  <2>3. status \in Statuses /\ "site" \in Answerers \ {"rpc"}
    BY <1>3
  <2>4. route(conn[c].request.host) # "unknown"
    BY <1>9 DEF SiteAnswers
  <2> QED
    BY <1>1, <2>1, <2>2, <2>3, <2>4
<1>10. CASE KuboAnswers(c)
  <2> DEFINE gateway == route(conn[c].request.host) = "gateway"
             readable == gateway /\ MatchesUi(Origin(c))
  <2>1. readable \in BOOLEAN
    OBVIOUS
  <2>2. route(conn[c].request.host) \notin {"site", "unknown"}
    BY <1>10 DEF KuboAnswers, Asks
  <2>3. PICK status \in {200, 400, 404, 500, 502}, by \in {"server", "errorPage", "kubo"} :
            Answers(c, status, by, readable)
    BY <1>10 DEF KuboAnswers
  <2> HIDE DEF readable
  <2>4. status \in Statuses /\ by \in Answerers \ {"rpc"}
    BY <1>3
  <2> QED
    BY <1>1, <2>1, <2>2, <2>3, <2>4
<1> QED
  BY <1>11, <1>4, <1>5, <1>6, <1>7, <1>8, <1>9, <1>10 DEF Handles

LEMMA EndsKeep ==
    ASSUME Types, NEW c \in Connections, HandshakeAt(c), RequestAt(c), Received(c) \/ Closes(c)
    PROVE  Keeps(c)
<1>1. CASE Received(c)
  <2>1. conn[c].phase = "answered" /\ conn[c].host \in Hosts /\ conn[c] \in Connection
    BY <1>1 DEF Received, At, HandshakeAt, Types
  <2>2. conn' = [conn EXCEPT ![c].phase = "open", ![c].request = NoRequest, ![c].response = NoResponse]
    BY <1>1 DEF Received
  <2>3. /\ conn'[c] = [conn[c] EXCEPT !.phase = "open", !.request = NoRequest, !.response = NoResponse]
        /\ conn' = [conn EXCEPT ![c] = conn'[c]]
    BY <2>2 DEF Types
  <2>4. "open" \in Phases /\ NoRequest \in AllRequests /\ NoResponse \in Responses
    BY ClosedIs DEF Phases
  <2>5. \A k \in Connection :
            [k EXCEPT !.phase = "open", !.request = NoRequest, !.response = NoResponse] \in Connection
    BY <2>4 DEF Connection
  <2>6. conn'[c] \in Connection
    BY <2>1, <2>3, <2>5
  <2>7. conn'[c].phase = "open"
    BY <2>1, <2>3 DEF Connection
  <2>8. conn'[c].host = conn[c].host
    BY <2>1, <2>3 DEF Connection
  <2>9. conn'[c].request = NoRequest
    BY <2>1, <2>3 DEF Connection
  <2>10. HandshakeAt(c)'
    BY <2>1, <2>7, <2>8 DEF HandshakeAt, At
  <2>11. RequestAt(c)'
    BY <2>7, <2>9 DEF RequestAt, At
  <2> QED
    BY <2>3, <2>6, <2>10, <2>11 DEF Keeps
<1>2. CASE Closes(c)
  <2>1. conn'[c] = Closed /\ conn' = [conn EXCEPT ![c] = conn'[c]]
    BY <1>2 DEF Closes, Types
  <2>2. HandshakeAt(c)' /\ RequestAt(c)'
    BY <2>1, ClosedIs DEF HandshakeAt, RequestAt, At
  <2> QED
    BY <2>1, <2>2, ClosedIs DEF Keeps
<1> QED
  BY <1>1, <1>2
----------------------------------------------------------------------------
(* The files of the certificates.                                            *)

LeafTypes ==
    /\ leaf \in [Patterns -> {"absent", "empty", "whole"}]
    /\ damaged \in [Patterns -> BOOLEAN]

Step(c) == Resolves(c) \/ Rejects(c) \/ Handshakes(c) \/ Sends(c) \/ Handles(c) \/ Received(c) \/ Closes(c)

(* A step of a connection that writes no file leaves it to blame who was.           *)
LEMMA OthersKeepLeaf ==
    ASSUME LeafTypes, EmptyLeaf, NEW c \in Connections, UNCHANGED <<leaf, damaged>>,
           conn \in [Connections -> Connection],
           conn[c].phase # "writing", conn' = [conn EXCEPT ![c] = conn'[c]]
    PROVE  LeafTypes' /\ EmptyLeaf'
<1>1. LeafTypes'
  BY DEF LeafTypes
<1>2. ASSUME NEW p \in Patterns, leaf'[p] = "empty", ~damaged'[p]
      PROVE  \E d \in Connections : At(d, "writing")' /\ Pattern(d)' = p
  <2>1. PICK d \in Connections : At(d, "writing") /\ Pattern(d) = p
    BY <1>2 DEF EmptyLeaf
  <2>2. d # c /\ conn'[d] = conn[d]
    BY <2>1 DEF At
  <2> QED
    BY <2>1, <2>2 DEF At, Pattern
<1> QED
  BY <1>1, <1>2 DEF EmptyLeaf

(* The steps that do write: an empty file has its writer, a whole one needs none, and  *)
(* a creation that fails has damaged it.                                         *)
LEMMA WritersKeepLeaf ==
    ASSUME LeafTypes, EmptyLeaf, NEW c \in Connections, conn \in [Connections -> Connection],
           HandshakeAt(c), Truncates(c) \/ Writes(c) \/ CreationFails(c)
    PROVE  LeafTypes' /\ EmptyLeaf'
<1>1. Pattern(c) \in Patterns /\ conn[c] \in Connection
  <2>1. conn[c].phase \in {"creating", "writing"}
    BY DEF Truncates, Writes, CreationFails, At
  <2> QED
    BY <2>1, PatternIs DEF HandshakeAt
<1>2. ASSUME NEW d \in Connections \ {c}
      PROVE  conn'[d] = conn[d]
  BY <1>2 DEF Truncates, Writes, CreationFails, Becomes
<1>3. CASE Truncates(c)
  <2>1. leaf' = [leaf EXCEPT ![Pattern(c)] = "empty"] /\ damaged' = damaged
    BY <1>3 DEF Truncates
  <2>2. LeafTypes'
    BY <1>1, <2>1 DEF LeafTypes
  <2>3. conn'[c] = [conn[c] EXCEPT !.phase = "writing"]
    BY <1>3 DEF Truncates, Becomes
  <2>4. conn'[c].phase = "writing"
    BY <1>1, <2>3 DEF Connection
  <2>5. conn'[c].host = conn[c].host
    BY <1>1, <2>3 DEF Connection
  <2>6. At(c, "writing")' /\ Pattern(c)' = Pattern(c) /\ ~At(c, "writing")
    BY <1>3, <2>4, <2>5 DEF At, Pattern, Truncates
  <2>7. ASSUME NEW p \in Patterns, leaf'[p] = "empty", ~damaged'[p]
        PROVE  \E d \in Connections : At(d, "writing")' /\ Pattern(d)' = p
    <3>1. CASE p = Pattern(c)
      BY <2>6, <3>1
    <3>2. CASE p # Pattern(c)
      <4>1. leaf[p] = "empty" /\ ~damaged[p]
        BY <1>1, <2>1, <2>7, <3>2 DEF LeafTypes
      <4>2. PICK d \in Connections : At(d, "writing") /\ Pattern(d) = p
        BY <4>1 DEF EmptyLeaf
      <4>3. d # c /\ conn'[d] = conn[d]
        BY <1>2, <2>6, <4>2
      <4> QED
        BY <4>2, <4>3 DEF At, Pattern
    <3> QED
      BY <3>1, <3>2
  <2> QED
    BY <2>2, <2>7 DEF EmptyLeaf
<1>4. CASE Writes(c)
  <2>1. leaf' = [leaf EXCEPT ![Pattern(c)] = "whole"] /\ damaged' = damaged
    BY <1>4 DEF Writes
  <2>2. LeafTypes'
    BY <1>1, <2>1 DEF LeafTypes
  <2>3. ASSUME NEW p \in Patterns, leaf'[p] = "empty", ~damaged'[p]
        PROVE  \E d \in Connections : At(d, "writing")' /\ Pattern(d)' = p
    <3>1. p # Pattern(c) /\ leaf[p] = "empty" /\ ~damaged[p]
      BY <1>1, <2>1, <2>3 DEF LeafTypes
    <3>2. PICK d \in Connections : At(d, "writing") /\ Pattern(d) = p
      BY <3>1 DEF EmptyLeaf
    <3>3. d # c /\ conn'[d] = conn[d]
      BY <1>2, <3>1, <3>2
    <3> QED
      BY <3>2, <3>3 DEF At, Pattern
  <2> QED
    BY <2>2, <2>3 DEF EmptyLeaf
<1>5. CASE CreationFails(c)
  <2>1. leaf' = leaf /\ damaged' = [damaged EXCEPT ![Pattern(c)] = @ \/ At(c, "writing")]
    BY <1>5 DEF CreationFails
  <2>2. LeafTypes'
    <3>1. (damaged[Pattern(c)] \/ At(c, "writing")) \in BOOLEAN
      OBVIOUS
    <3> QED
      BY <1>1, <2>1, <3>1 DEF LeafTypes
  <2>3. ASSUME NEW p \in Patterns, leaf'[p] = "empty", ~damaged'[p]
        PROVE  \E d \in Connections : At(d, "writing")' /\ Pattern(d)' = p
    <3>1. leaf[p] = "empty" /\ ~damaged[p] /\ ~(p = Pattern(c) /\ At(c, "writing"))
      BY <1>1, <2>1, <2>3 DEF LeafTypes
    <3>2. PICK d \in Connections : At(d, "writing") /\ Pattern(d) = p
      BY <3>1 DEF EmptyLeaf
    <3>3. d # c /\ conn'[d] = conn[d]
      BY <1>2, <3>1, <3>2
    <3> QED
      BY <3>2, <3>3 DEF At, Pattern
  <2> QED
    BY <2>2, <2>3 DEF EmptyLeaf
<1> QED
  BY <1>3, <1>4, <1>5
----------------------------------------------------------------------------
(* The invariant is inductive.                                               *)

LEMMA StepKeeps ==
    ASSUME IInv, NEW c \in Connections, Step(c)
    PROVE  Keeps(c)
<1>1. Types /\ EmptyLeaf /\ HandshakeAt(c) /\ RequestAt(c)
  BY DEF IInv
<1>2. CASE Resolves(c)
  BY <1>1, <1>2, ResolvesKeeps
<1>3. CASE \/ Rejects(c) \/ NoCertificate(c) \/ LooksForLeaf(c) \/ Truncates(c) \/ Writes(c)
           \/ CreationFails(c) \/ CannotLoad(c)
  BY <1>1, <1>3, HandshakeKeeps
<1>4. CASE OffersLocal(c) \/ LoadsLeaf(c)
  BY <1>1, <1>4, OffersKeeps
<1>5. CASE Verifies(c)
  BY <1>1, <1>5, VerifiesKeeps
<1>6. CASE Sends(c)
  BY <1>1, <1>6, SendsKeeps
<1>7. CASE Handles(c)
  BY <1>1, <1>7, HandlesKeep
<1>8. CASE Received(c) \/ Closes(c)
  BY <1>1, <1>8, EndsKeep
<1> QED
  BY <1>2, <1>3, <1>4, <1>5, <1>6, <1>7, <1>8 DEF Step, Handshakes

LEMMA StepKeepsLeaf ==
    ASSUME IInv, NEW c \in Connections, Step(c), Keeps(c)
    PROVE  LeafTypes' /\ EmptyLeaf'
<1>1. /\ LeafTypes /\ EmptyLeaf /\ HandshakeAt(c) /\ conn \in [Connections -> Connection]
      /\ conn' = [conn EXCEPT ![c] = conn'[c]]
  BY DEF IInv, Types, LeafTypes, Keeps
<1>2. CASE Truncates(c) \/ Writes(c) \/ CreationFails(c)
  BY <1>1, <1>2, WritersKeepLeaf
<1>3. CASE ~(Truncates(c) \/ Writes(c) \/ CreationFails(c))
  <2>1. UNCHANGED <<leaf, damaged>>
    <3>1. CASE Handles(c)
      BY <3>1 DEF Handles, UnknownHost, UiAnswers, ChangeAnswered, ChangeMalformed, PreflightAnswered, RpcTooLarge,
                  RpcRefuses, RpcAnswers, SiteAnswers, WebuiRedirects, KuboAnswers, Answers
    <3>2. CASE ~Handles(c)
      BY <1>3, <3>2 DEF Step, Resolves, Rejects, Handshakes, OffersLocal, NoCertificate, LooksForLeaf,
                        LoadsLeaf, CannotLoad, Verifies, Sends, Received, Closes
    <3> QED
      BY <3>1, <3>2
  <2>2. conn[c].phase # "writing"
    <3>1. CASE Handles(c)
      BY <3>1 DEF Handles, UnknownHost, UiAnswers, ChangeAnswered, ChangeMalformed, PreflightAnswered, RpcTooLarge,
                  RpcRefuses, RpcAnswers, SiteAnswers, WebuiRedirects, KuboAnswers, Asks, At
    <3>2. CASE ~Handles(c)
      BY <1>3, <3>2 DEF Step, Resolves, Rejects, Handshakes, OffersLocal, NoCertificate, LooksForLeaf,
                        LoadsLeaf, CannotLoad, Verifies, Sends, Received, Closes, At
    <3> QED
      BY <3>1, <3>2
  <2> QED
    BY <1>1, <2>1, <2>2, OthersKeepLeaf
<1> QED
  BY <1>2, <1>3

(* A restart closes every connection and blames the creations that it cut off.      *)
LEMMA RestartKeeps ==
    ASSUME IInv, Restarts
    PROVE  IInv'
<1>1. /\ LeafTypes /\ EmptyLeaf /\ conn \in [Connections -> Connection]
      /\ conn' = [c \in Connections |-> Closed]
  BY DEF IInv, Types, LeafTypes, Restarts
<1>2. conn' \in [Connections -> Connection]
  BY <1>1, ClosedIs
<1>3. ASSUME NEW c \in Connections PROVE HandshakeAt(c)' /\ RequestAt(c)'
  <2>1. conn'[c] = Closed
    BY <1>1
  <2> QED
    BY <2>1, ClosedIs DEF HandshakeAt, RequestAt, At
<1>4. LeafTypes' /\ EmptyLeaf'
  <2>1. CASE /\ damaged' = [p \in Patterns |->
                   damaged[p] \/ \E c \in Connections : At(c, "writing") /\ Pattern(c) = p]
             /\ leaf' = leaf
    <3>1. \A p \in Patterns :
              (damaged[p] \/ \E c \in Connections : At(c, "writing") /\ Pattern(c) = p) \in BOOLEAN
      OBVIOUS
    <3>2. LeafTypes'
      BY <1>1, <2>1, <3>1 DEF LeafTypes
    <3>3. ASSUME NEW p \in Patterns, leaf'[p] = "empty" PROVE damaged'[p]
      BY <1>1, <2>1, <3>3 DEF EmptyLeaf
    <3> QED
      BY <3>2, <3>3 DEF EmptyLeaf
  <2>2. CASE leaf' = [p \in Patterns |-> "absent"] /\ damaged' = [p \in Patterns |-> FALSE]
    BY <2>2 DEF LeafTypes, EmptyLeaf
  <2> QED
    BY <2>1, <2>2 DEF Restarts
<1> QED
  BY <1>2, <1>3, <1>4 DEF IInv, Types, LeafTypes

LEMMA InitHolds == Init => IInv
<1> SUFFICES ASSUME Init PROVE IInv
  OBVIOUS
<1>1. \A c \in Connections : conn[c] = Closed
  BY DEF Init
<1>2. conn \in [Connections -> Connection]
  BY ClosedIs DEF Init
<1>3. ASSUME NEW c \in Connections PROVE HandshakeAt(c) /\ RequestAt(c)
  BY <1>1, ClosedIs DEF HandshakeAt, RequestAt, At
<1>4. /\ leaf \in [Patterns -> {"absent", "empty", "whole"}]
      /\ damaged \in [Patterns -> BOOLEAN]
      /\ EmptyLeaf
  BY DEF Init, EmptyLeaf
<1> QED
  BY <1>2, <1>3, <1>4 DEF IInv, Types

LEMMA Inductive == IInv /\ [Next]_vars => IInv'
<1> SUFFICES ASSUME IInv, [Next]_vars PROVE IInv'
  OBVIOUS
<1>1. CASE Restarts
  BY <1>1, RestartKeeps
<1>2. ASSUME NEW c \in Connections, Step(c) PROVE IInv'
  <2>1. Keeps(c)
    BY <1>2, StepKeeps
  <2>2. LeafTypes' /\ EmptyLeaf'
    BY <1>2, <2>1, StepKeepsLeaf
  <2>3. conn' = [conn EXCEPT ![c] = conn'[c]] /\ conn'[c] \in Connection
    BY <2>1 DEF Keeps
  <2>4. conn' \in [Connections -> Connection]
    BY <2>3 DEF IInv, Types
  <2>5. ASSUME NEW d \in Connections PROVE HandshakeAt(d)' /\ RequestAt(d)'
    <3>1. CASE d = c
      BY <2>1, <3>1 DEF Keeps
    <3>2. CASE d # c
      <4>1. conn'[d] = conn[d]
        BY <2>3, <3>2 DEF IInv, Types
      <4>2. HandshakeAt(d) /\ RequestAt(d)
        BY DEF IInv
      <4>3. HandshakeAt(d)'
        BY <4>1, <4>2 DEF HandshakeAt, At, Pattern
      <4>4. RequestAt(d)'
        BY <4>1, <4>2 DEF RequestAt, RpcTrue, Origin, At
      <4> QED
        BY <4>3, <4>4
    <3> QED
      BY <3>1, <3>2
  <2> QED
    BY <2>2, <2>4, <2>5 DEF IInv, Types, LeafTypes
<1>3. CASE UNCHANGED vars
  BY <1>3 DEF vars, IInv, Types, EmptyLeaf, HandshakeAt, RequestAt, RpcTrue, Origin, At, Pattern
<1> QED
  BY <1>1, <1>2, <1>3 DEF Next, Step

THEOREM Invariance == Spec => []IInv
BY InitHolds, Inductive, PTL DEF Spec
----------------------------------------------------------------------------

(* The variables keep their types: a request is one that the host of its connection *)
(* may be asked, and a leaf is one that the certificate manager can make.           *)
THEOREM TypeCorrect == Spec => []TypeOK
<1>1. ASSUME IInv PROVE TypeOK
  <2>1. Types /\ DOMAIN conn = Connections
    BY <1>1 DEF IInv, Types
  <2>2. ASSUME NEW c \in Connections
        PROVE  /\ conn[c].phase \in Phases /\ conn[c].host \in Hosts \cup {NoHost}
               /\ conn[c].leaf \in Leaves /\ conn[c].response.status \in Statuses
               /\ conn[c].request \in Requests(conn[c].host) \cup {NoRequest}
    <3>1. conn[c] \in Connection /\ RequestAt(c)
      BY <1>1 DEF IInv, Types
    <3>2. conn[c].phase \in Phases
      BY <3>1 DEF Connection
    <3>3. conn[c].host \in Hosts \cup {NoHost}
      BY <3>1 DEF Connection
    <3>4. conn[c].leaf \in Leaves
      BY <3>1 DEF Connection
    <3>5. conn[c].response \in Responses
      BY <3>1 DEF Connection
    <3>6. conn[c].response.status \in Statuses
      BY <3>5 DEF Responses
    <3>7. conn[c].request \in Requests(conn[c].host) \cup {NoRequest}
      BY <3>1 DEF RequestAt
    <3> QED
      BY <3>2, <3>3, <3>4, <3>6, <3>7
  <2> QED
    BY <2>1, <2>2 DEF TypeOK, Types, Phases, Leaves, Statuses
<1> QED
  BY <1>1, Invariance, PTL

(* For every set of hosts, however they are spelled: a browser that resolved a .eth   *)
(* or .wei name is given a certificate that covers it, unless the name is deeper than  *)
(* a wildcard reaches or a file could not be made or read; its requests go to the site *)
(* handler, but those for a name with the root's dot to nobody (is_ens_host).         *)
THEOREM ResolvedServed == Spec => []ResolvedIsServed
<1>1. ASSUME IInv PROVE ResolvedIsServed
  <2> SUFFICES ASSUME NEW c \in Connections, matches_zone(conn[c].host)
               PROVE  /\ At(c, "refused") => conn[c].excused \/ Len(ServerName(conn[c].host)) > 3
                      /\ At(c, "answered") /\ conn[c].request.host # NoHost =>
                            conn[c].response.by = IF IsAbsolute(conn[c].host) THEN "server" ELSE "site"
    BY DEF ResolvedIsServed
  <2>1. conn[c] \in Connection /\ HandshakeAt(c) /\ RequestAt(c)
    BY <1>1 DEF IInv, Types
  <2>2. /\ conn[c].phase # "closed" => conn[c].host \in Hosts /\ conn[c].host \in Seq(STRING)
        /\ conn[c].phase # "closed" => ServerName(conn[c].host) \in Seq(STRING)
    BY <2>1, HttpsServerAssumption, ServerNameIs DEF HandshakeAt
  <2>3. ASSUME At(c, "refused"), ~conn[c].excused
        PROVE  Len(ServerName(conn[c].host)) > 3
    <3>1. IsDnsName(conn[c].host) /\ ~Certifiable(ServerName(conn[c].host))
      BY <2>1, <2>3 DEF HandshakeAt, At
    <3>2. ~(Len(ServerName(conn[c].host)) <= 3)
      BY <3>1 DEF Certifiable, IsDnsName, matches_zone
    <3>3. Len(ServerName(conn[c].host)) \in Nat
      BY <2>2, <2>3 DEF At
    <3> QED
      BY <3>2, <3>3
  <2>4. ASSUME At(c, "answered"), conn[c].request.host # NoHost
        PROVE  conn[c].response.by = IF IsAbsolute(conn[c].host) THEN "server" ELSE "site"
    <3>1. conn[c].host \in Hosts /\ conn[c].host \in Seq(STRING)
      BY <2>2, <2>4 DEF At
    <3>2. conn[c].request \in Requests(conn[c].host)
      BY <2>1, <2>4 DEF RequestAt, At
    <3>3. conn[c].request.host = conn[c].host
      BY <2>4, <3>1, <3>2, RequestIs
    <3>4. CASE IsAbsolute(conn[c].host)
      BY <2>1, <2>4, <3>1, <3>3, <3>4, AbsoluteUnknown DEF RequestAt
    <3>5. CASE ~IsAbsolute(conn[c].host)
      <4>1. EndsInTld(conn[c].host)
        BY <3>5 DEF matches_zone, ServerName
      <4>2. route(conn[c].host) = "site"
        BY <3>1, <4>1, ZoneHost
      <4> QED
        BY <2>1, <2>4, <3>3, <3>5, <4>2 DEF RequestAt
    <3> QED
      BY <3>4, <3>5
  <2> QED
    BY <2>3, <2>4
<1> QED
  BY <1>1, Invariance, PTL

(* For every set of pages: a page may use the RPC endpoint if and only if this      *)
(* server serves it, and can then read every answer of the handler.               *)
THEOREM RpcReadable == Spec => []ServedPagesReadRpc
<1>1. ASSUME IInv PROVE ServedPagesReadRpc
  <2> SUFFICES ASSUME NEW c \in Connections,
                      At(c, "answered"), conn[c].response.by = "rpc", Origin(c) # NoOrigin
               PROVE  LET served == Origin(c).https /\ route(Origin(c).host) \in {"ui", "site"}
                      IN  /\ conn[c].response.readable = served
                          /\ conn[c].response.status = 403 <=> ~served
    BY DEF ServedPagesReadRpc
  <2> DEFINE served == Origin(c).https /\ route(Origin(c).host) \in {"ui", "site"}
  <2>1. HandshakeAt(c) /\ RequestAt(c)
    BY <1>1 DEF IInv
  <2>2. conn[c].host \in Hosts /\ conn[c].request \in Requests(conn[c].host)
    BY <2>1 DEF HandshakeAt, RequestAt, At
  <2>3. conn[c].request.path \in {"rpc", "preflight"} /\ RpcTrue(c)
    BY <2>1 DEF RequestAt
  <2>4. Origin(c) \in Origins
    BY <2>2, <2>3, RequestIs DEF Origin
  <2>5. Origin(c).host \in Seq(STRING)
    <3>1. Origin(c) \in [https : BOOLEAN, host : Pages]
      BY <2>4 DEF Origins
    <3>2. Origin(c).host \in Pages
      BY <3>1
    <3> QED
      BY <3>2, HttpsServerAssumption
  <2>6. MatchesRpc(Origin(c)) = served
    BY <2>5, AllowedIsServed DEF MatchesRpc
  <2> HIDE DEF served
  <2>7. /\ conn[c].response.readable = served
        /\ conn[c].response.status = 403 <=> ~served
    BY <2>3, <2>6 DEF RpcTrue
  <2> QED
    BY <2>7 DEF served
<1> QED
  BY <1>1, Invariance, PTL
================================================================================
