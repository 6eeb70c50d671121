------------------------ MODULE MC_MultiProducerRing ------------------------
EXTENDS MultiProducerRing, TLC

CONSTANTS p1, p2, r1, r2

\* sound where no reader is resident and the producers are all blocking or all not
Symmetry == Permutations({p1, p2}) \union Permutations({r1, r2})
=============================================================================
