---------------------------- MODULE MCBufferText ----------------------------
EXTENDS BufferText, TLC

CONSTANTS a, c, mark, adv

\* The characters can be exchanged: no definition tells one from another.
Perms == Permutations(Char)
=============================================================================
