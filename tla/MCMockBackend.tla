--------------------------- MODULE MCMockBackend ---------------------------
EXTENDS MockBackend

MCIds == {"i1", "null"}
MCPks == {"p", "q"}
MCNullPks == {"p"}
MCThrottledOps == {"query_items"}
=============================================================================
