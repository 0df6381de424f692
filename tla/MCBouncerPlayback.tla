-------------------------- MODULE MCBouncerPlayback --------------------------
EXTENDS BouncerPlayback
=============================================================================
