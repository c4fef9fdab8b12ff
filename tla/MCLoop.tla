------------------------------- MODULE MCLoop -------------------------------
EXTENDS Loop

MCFds == 0 .. 4
=============================================================================
