---------------------------- MODULE MCPoolBuffer ----------------------------
(* A pool of two blocks, one writer of each kind and two readers.          *)
EXTENDS PoolBuffer

CONSTANTS w, d, r1, r2, i1, i2

MCCopyWriter == {w}
MCDirectWriter == {d}
MCReader == {r1, r2}
MCItem == {i1, i2}
=============================================================================
