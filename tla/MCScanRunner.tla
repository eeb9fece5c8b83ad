---------------------------- MODULE MCScanRunner ----------------------------
EXTENDS ScanRunner, TLC
=============================================================================
