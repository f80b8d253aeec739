-------------------------- MODULE MCSerialTransport --------------------------
EXTENDS SerialTransport
MCLens     == {1, 2}
MCTimeouts == {0, 4, -1}
=============================================================================
