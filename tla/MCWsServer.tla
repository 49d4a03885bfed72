----------------------------- MODULE MCWsServer -----------------------------
(* An instance of WsServer for TLC: connections from one address of the    *)
(* network, one at a time, and from the machine itself.                    *)
EXTENDS WsServer
CONSTANTS phone, local, lan, lo
Ips == [s \in Socket |-> IF s = local THEN lo ELSE lan]
=============================================================================
