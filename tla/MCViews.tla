------------------------------- MODULE MCViews --------------------------------
EXTENDS Views, TLC

CONSTANTS c1, c2

MCCallers == {c1, c2}
MCBufs == 1..10
Symmetry == Permutations(MCCallers)
MCData == {<<1>>, <<1, 2, 3>>}
MCPeerData == {<<1, 2, 3>>}
MCEncodings == {<<1, 2, 3>>}
MCLengths == {2}
===============================================================================
