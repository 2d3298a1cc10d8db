--------------------------- MODULE MCStreamSettings ---------------------------
EXTENDS StreamSettings

MCDefault == [target |-> 60, minimum |-> 30, tidy |-> TRUE]
=============================================================================
