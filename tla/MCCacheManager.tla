------------------------- MODULE MCCacheManager -------------------------
(* A small instance of CacheManager: a read past the end of the handles    *)
(* may return every value of a handle.                                     *)
EXTENDS CacheManager

MCPastEnd == [in_use : BOOLEAN, num_blocks : 0 .. Word - 1]

=============================================================================
