-------------------------- MODULE MCRemoteAttention -------------------------
EXTENDS RemoteAttention

CONSTANTS r1, r2

OwnUuids == [r \in Request |-> r]
OneUuid == [r \in Request |-> "u"]     \* two prompts of one API call
=============================================================================
