---------------------------- MODULE MCPrefixCache ----------------------------
EXTENDS PrefixCache

\* Two requests with a common prefix and a third one without
SharedPrefix == <<<<1, 1, 2, 2>>, <<1, 1, 2, 2, 1, 1>>, <<2, 2, 2, 2>>>>
SharedPrefixLen == <<3, 6, 2>>

\* A prompt in three chunks and a short request that outgrows its block
LongAndShort == <<<<1, 1, 1, 1, 1, 1>>, <<2, 2>>>>
LongAndShortLen == <<6, 1>>

LastFirst == [r \in Request |-> 3 - r]
=============================================================================
