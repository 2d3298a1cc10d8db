------------------------- MODULE MCConnectionManager -------------------------
EXTENDS ConnectionManager

CONSTANTS a, b, c

\* Two computers that call each other and a third that calls one of them.
MCThird == {<<a, b, 1>>, <<b, a, 1>>, <<c, a, 1>>}
=============================================================================
