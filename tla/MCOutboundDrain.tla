-------------------------- MODULE MCOutboundDrain --------------------------
(* Instances of OutboundDrain for TLC. *)
EXTENDS OutboundDrain
=============================================================================
