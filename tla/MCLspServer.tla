----------------------------- MODULE MCLspServer -----------------------------
EXTENDS LspServer

CONSTANTS a, b

Pair(x, y) == [old |-> x, new |-> y]

MCBatches == {<<Pair(a, b)>>, <<Pair(b, a)>>}
==============================================================================
