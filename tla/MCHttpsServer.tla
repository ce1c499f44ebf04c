----------------------------- MODULE MCHttpsServer -----------------------------
(* A name of each TLD, names below it, names with an empty label and with the     *)
(* root's dot, and what is on localhost.                                        *)
EXTENDS HttpsServer
MCHosts == {<<"eth", "name">>, <<"eth", "name", "www">>, <<"eth", "name", "www", "cdn">>, <<"eth">>,
    <<"wei", "name">>, <<"eth", "name", "", "www">>, <<"eth", "">>, <<"">>, <<"", "eth", "name">>,
    <<"", "eth", "name", "www">>, Neomist, Ipfs, <<"", "localhost", "neomist">>,
    <<"localhost", "ipfs", "cid">>, <<"localhost", "ipfs", "cid", "x">>, <<"localhost", "eth", "name">>,
    <<"localhost", "node">>, <<"com", "other">>}
MCPages == {<<"eth", "name">>, Neomist, <<"localhost", "ipfs", "cid">>, <<"localhost", "eth", "name">>,
    <<"", "eth", "name">>, <<"com", "other">>}
================================================================================
