---------------------------- MODULE MCTcpClient ----------------------------
\* Instances of TcpClient for TLC.
EXTENDS TcpClient
=============================================================================
