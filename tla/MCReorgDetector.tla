-------------------------- MODULE MCReorgDetector --------------------------
\* The instance of ReorgDetector that TLC checks: a trunk of five blocks with a
\* fork of one block, a fork that outgrows the trunk, and a fork at the root.
EXTENDS ReorgDetector

B(hash, number, parent) == [hash |-> hash, number |-> number, parent |-> parent]

MCBlocks ==
    {B("1a", 1, "0"), B("2a", 2, "1a"), B("3a", 3, "2a"), B("4a", 4, "3a"), B("5a", 5, "4a"),
     B("2b", 2, "1a"),
     B("3c", 3, "2a"), B("4c", 4, "3c"), B("5c", 5, "4c"), B("6c", 6, "5c"),
     B("1d", 1, "0"), B("2d", 2, "1d")}

=============================================================================
