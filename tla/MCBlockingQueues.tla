-------------------------- MODULE MCBlockingQueues --------------------------
\* Instances of BlockingQueues for TLC.
EXTENDS BlockingQueues
=============================================================================
