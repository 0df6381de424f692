-------------------------- MODULE MCSessionRegistry --------------------------
EXTENDS SessionRegistry
=============================================================================
