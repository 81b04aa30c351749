---------------------------- MODULE MCRuntimeConfig ----------------------------
\* RuntimeConfig for TLC: the processes that change settings are alike.
EXTENDS RuntimeConfig, TLC

Alike == Permutations(Clients)
=============================================================================
