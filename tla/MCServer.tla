------------------------------ MODULE MCServer ------------------------------
EXTENDS Server

CONSTANTS k1, k2, p1, p2, w1, w2, run, once, trade

MCRow == {trade}
MCFirstVersions == {0, 3, 4, 6, 7, 8, 11}
Never == {FALSE}
=============================================================================
