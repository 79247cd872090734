------------------------------ MODULE MCSppBridge ------------------------------
EXTENDS SppBridge

CONSTANTS local, remote,  \* localTcpClient_thread and remoteTcpClient_thread
          m1, m2
=============================================================================
