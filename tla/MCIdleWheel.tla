---------------------------- MODULE MCIdleWheel ----------------------------
\* Instances of IdleWheel for TLC.
EXTENDS IdleWheel
=============================================================================
