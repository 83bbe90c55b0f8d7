------------------------ MODULE MCVerificationPipeline ------------------------
EXTENDS VerificationPipeline, TLC
CONSTANTS n1, n2, n3, k1, k2, v1, v2
MCSymmetry == UNION {Permutations(S) : S \in {Run, Field, Reviewer} \ {{}}}
=============================================================================
