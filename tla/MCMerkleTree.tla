---------------------------- MODULE MCMerkleTree ----------------------------
(* Instances of MerkleTree for TLC.                                        *)
EXTENDS MerkleTree

CONSTANTS c1, c2

\* Packages of at most MaxChunks chunks with two contents: all equal, all
\* different from their neighbour, and one that is neither.
MCPackageFiles ==
    {f \in UNION {[0 .. m - 1 -> {c1, c2}] : m \in 1 .. MaxChunks} :
        \/ \A i \in DOMAIN f : f[i] = IF i % 2 = 0 THEN c1 ELSE c2
        \/ \A i \in DOMAIN f : f[i] = IF i = 2 THEN c2 ELSE c1}

\* What the allocator fills new memory with: it covers no offset.
Filled == {<<99, 99>>}

\* Filled, zeros, or a range that covers everything.
Anything == {<<99, 99>>, <<0, 0>>, <<0, 99>>}

=============================================================================
