---------------------------- MODULE MCIntuneClient ----------------------------
\* The cfgs give every constant its value.  Callers are interchangeable, but
\* no symmetry is used: the runs check liveness or are tiny.
EXTENDS IntuneClient
==============================================================================
