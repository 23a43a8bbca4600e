------------------------------- MODULE MCRunners -------------------------------
EXTENDS Runners

MCMagnets == {<<"http", "other", "udp">>, <<"other">>, <<"udp", "udp", "udp", "udp">>}
=============================================================================
