--------------------------- MODULE MCResolverCache ---------------------------
EXTENDS ResolverCache

CONSTANTS r1

MCRootLists == {<<>>, <<r1>>}
==============================================================================
