---------------------------- MODULE MCApplication ----------------------------
EXTENDS Application

MCValue == 1 .. MaxStarts

=============================================================================
