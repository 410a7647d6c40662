------------------------------- MODULE MCBuilder -------------------------------
EXTENDS Builder

MCDefaultTargets == <<"linux", "windows">>
==============================================================================
