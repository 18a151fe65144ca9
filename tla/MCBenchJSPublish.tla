-------------------------- MODULE MCBenchJSPublish --------------------------
EXTENDS BenchJSPublish
=============================================================================
