------------------------------ MODULE MCWavefront ------------------------------
EXTENDS Wavefront

CONSTANTS v1, v2, v3, w1, w2, none

MCVec == {v1, v2, v3}
MCMatrix == {w1, w2}
=============================================================================
