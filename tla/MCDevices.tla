------------------------------ MODULE MCDevices ------------------------------
EXTENDS Devices

MCData == {<<1>>, <<0, 1>>}

\* A sub-device that overlaps the blocks, and one with the upper bound 0, which
\* is documented as unlimited and transfers nothing.
MCBounds == {<<1, 3>>, <<2, 0>>}
=============================================================================
