----------------------------- MODULE MCRingQueue -----------------------------
EXTENDS RingQueue
CONSTANTS v1, v2, v3, v4, v5, v6
MCVectors == {v1, v2, v3, v4, v5, v6}
===============================================================================
