--------------------------- MODULE MCBenchPublish ---------------------------
EXTENDS BenchPublish
=============================================================================
