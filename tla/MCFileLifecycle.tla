-------------------------- MODULE MCFileLifecycle --------------------------
EXTENDS FileLifecycle
=============================================================================
