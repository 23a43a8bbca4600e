------------------------- MODULE MCTransferRegistry -------------------------
(* Small instances of TransferRegistry.                                    *)
EXTENDS TransferRegistry, TLC

\* Two destinations: "file" and "file.quiver-part", which the partial file of
\* the first collides with.
MCKeysOf == [p \in Paths |-> IF p = "file" THEN {"file", "file.quiver-part"}
                             ELSE {p, "x"}]

Symmetric == Permutations(Ids)
=============================================================================
