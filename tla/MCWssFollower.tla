--------------------------- MODULE MCWssFollower ---------------------------
\* The instance of WssFollower that TLC checks: three blocks, the last of which
\* is replaced by one with the same transaction.
EXTENDS WssFollower

B(hash, number, parent) == [hash |-> hash, number |-> number, parent |-> parent]

a1 == B("1a", 1, "0")
a2 == B("2a", 2, "1a")
a3 == B("3a", 3, "2a")
b3 == B("3b", 3, "2a")

MCBlocks == {a1, a2, a3, b3}
MCForks == << <<a1, a2, a3>>, <<a1, a2, b3>> >>
MCBodyOf == [b \in MCBlocks |-> IF b = b3 THEN "3a" ELSE b.hash]

\* The bootstrap ends at the first block.
Start == WssInit /\ height = 1 /\ current.block # NoBlock /\ current.seen # {}

StartSpec == Start /\ [][WssNext]_wssVars /\ WssFairness

=============================================================================
