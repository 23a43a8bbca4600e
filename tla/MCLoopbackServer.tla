---------------------------- MODULE MCLoopbackServer ----------------------------
EXTENDS LoopbackServer
=============================================================================
