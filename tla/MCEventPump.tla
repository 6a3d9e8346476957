---------------------------- MODULE MCEventPump ----------------------------
EXTENDS EventPump

\* The whole stream, and a task's stream with holes at its start and middle.
MCScopes == {1..MaxSeq, {2, 4}}
MCStarts == {0, 2}
=============================================================================
