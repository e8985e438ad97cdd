-------------------------- MODULE MCChannelMessages --------------------------
EXTENDS ChannelMessages, TLC

Symmetry == Permutations(Workers)
=============================================================================
