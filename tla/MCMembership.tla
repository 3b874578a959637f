---------------------------- MODULE MCMembership ----------------------------
EXTENDS Membership
CONSTANTS a, b, c
Leaving == Permutations({a, b})
=============================================================================
