-------------------------------- MODULE MCHub --------------------------------
(* Small instances of the hub: the connections are numbered. *)
EXTENDS Hub, TLC

(* Two members, each with a connection to the same board. *)
Pair == <<"b1", "b1">>
PairUsers == <<"ann", "bob">>

(* A single connection. *)
Single == <<"b1">>
SingleUser == <<"ann">>
=============================================================================
