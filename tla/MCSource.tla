------------------------------ MODULE MCSource ------------------------------
EXTENDS SourceResearch, TLC

CONSTANTS c1, c2, pinA, pinB, callA, callB, callC

MCPinOf == (callA :> pinA) @@ (callB :> pinA) @@ (callC :> pinB)
MCBatches == {{callA, callB}, {callC}}
MCStale == {pinB}
MCPrograms == {c1, c2}
MCPins == {pinA, pinB}
MCSymbols == {callA, callB, callC}
\* A process that dies without the capacity lease leaves the store as one
\* whose deadline passes.
Deaths == crashes' # crashes => ~Free(Capacity) /\ holder'[Capacity] = None

Symmetry == Permutations(MCPrograms) \union Permutations({callA, callB})
=============================================================================
