----------------------------- MODULE MCHandshake -----------------------------
EXTENDS Handshake
=============================================================================
