---------------------------- MODULE MCForwardPcie ----------------------------
EXTENDS ForwardPcie

\* 0xfedcba9876543210 in the code; small distinct bytes here.
MCDummyValue == [i \in Lane |-> i + 1]

MCWindows == {32, 40}
=============================================================================
