------------------------------- MODULE MCGRUCell -------------------------------
EXTENDS GRUCell

CONSTANTS h1, m1, none

MCVec == {h1, m1}
MCMatrix == {"none", "W_r", "W_z", "W_hn", "W_in"}
=============================================================================
