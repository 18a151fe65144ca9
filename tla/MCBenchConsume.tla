--------------------------- MODULE MCBenchConsume ---------------------------
EXTENDS BenchConsume
=============================================================================
