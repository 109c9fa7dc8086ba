--------------------------- MODULE MCWriteStream ---------------------------
EXTENDS WriteStream
=============================================================================
