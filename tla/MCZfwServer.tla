---------------------------- MODULE MCZfwServer ----------------------------
EXTENDS ZfwServer

CONSTANTS allow, starter, half, r1, r2
=============================================================================
