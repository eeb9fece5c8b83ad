---------------------------- MODULE MCChannelStore ----------------------------
EXTENDS ChannelStore, TLC

Symmetry == Permutations(Batches) \union Permutations(Packages)
=============================================================================
