------------------------ MODULE MCRealtimeConnection ------------------------
EXTENDS RealtimeConnection
=============================================================================
