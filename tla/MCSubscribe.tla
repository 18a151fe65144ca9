---------------------------- MODULE MCSubscribe ----------------------------
EXTENDS Subscribe
=============================================================================
