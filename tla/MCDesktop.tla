------------------------------- MODULE MCDesktop -------------------------------
EXTENDS Desktop
CONSTANTS a, b
(* Two servers: saves that take one away, hide the price, or list no server at all. *)
MCConfigs == {[show |-> TRUE, execution |-> <<a, b>>, consensus |-> <<>>],
              [show |-> TRUE, execution |-> <<b>>, consensus |-> <<a>>],
              [show |-> FALSE, execution |-> <<>>, consensus |-> <<b>>]}
================================================================================
