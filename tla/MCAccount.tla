------------------------------- MODULE MCAccount -------------------------------
EXTENDS Account, TLC

CONSTANTS r1, r2, s1, s2, s3, s4, c1, c2, c3, t1, t2

MCSymmetry == Permutations({r1, r2}) \union Permutations({s1, s2, s3, s4})
              \union Permutations({c1, c2, c3})
              \union Permutations({t1, t2})
=============================================================================
