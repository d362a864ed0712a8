------------------------------ MODULE MCCarriers ------------------------------
(***************************************************************************)
(* Two sockets that compete for one place, with any carrier.               *)
(***************************************************************************)
EXTENDS Carriers

CONSTANTS s1, s2

Itself == [s \in Socket |-> s]
=============================================================================
