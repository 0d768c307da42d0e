-------------------------- MODULE MCChainFollower --------------------------
\* The instance of ChainFollower that TLC checks: a chain of three blocks,
\* a rewrite of its tip, and one that forks off below.
EXTENDS ChainFollower

B(hash, number, parent) == [hash |-> hash, number |-> number, parent |-> parent]

a1 == B("1a", 1, "0")
a2 == B("2a", 2, "1a")
a3 == B("3a", 3, "2a")
b3 == B("3b", 3, "2a")
c2 == B("2c", 2, "1a")
c3 == B("3c", 3, "2c")

MCBlocks == {a1, a2, a3, b3, c2, c3}
MCForks == << <<a1, a2, a3>>, <<a1, a2, b3>>, <<a1, c2, c3>> >>

=============================================================================
