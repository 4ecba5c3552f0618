---------------------------- MODULE MCRetryables ----------------------------
EXTENDS Retryables, TLC
=============================================================================
