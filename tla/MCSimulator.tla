---------------------------- MODULE MCSimulator ----------------------------
(***************************************************************************)
(* Small instances of Simulator.  Party 1 comes first in the vector, so    *)
(* the first task polled, and the link that carries an any-receive's       *)
(* timer, differ from the lowest sender id.                                *)
(***************************************************************************)
EXTENDS Simulator

MCPartyOrder == <<1, 0>>
=============================================================================
