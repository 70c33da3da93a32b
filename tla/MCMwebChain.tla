---------------------------- MODULE MCMwebChain ----------------------------
EXTENDS MwebChain
CONSTANTS o1, o2
MCOutputs == {o1, o2}
MCSymmetry == Permutations(MCOutputs)
=============================================================================
