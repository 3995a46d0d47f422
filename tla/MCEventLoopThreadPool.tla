----------------------- MODULE MCEventLoopThreadPool -----------------------
\* Instances of EventLoopThreadPool for TLC.
EXTENDS EventLoopThreadPool
=============================================================================
