---------------------------- MODULE MCChannelOutbox ----------------------------
EXTENDS ChannelOutbox, TLC
=============================================================================
