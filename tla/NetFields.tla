------------------------------- MODULE NetFields -------------------------------
(***************************************************************************)
(* The tables by which the codec of CompressedMessage goes through the     *)
(* fields of an entity and of a player: for each field, in the order of    *)
(* transmission, the number of its bits.  0 marks a float, a negative      *)
(* width a signed number.  Names and offsets of the fields are left out: a *)
(* field is its place in the table.                                        *)
(***************************************************************************)
EXTENDS Integers, Sequences

GENTITYNUM_BITS == 10
MAX_GENTITIES   == 2 ^ GENTITYNUM_BITS
FLOAT_INT_BITS  == 13
FLOAT_INT_BIAS  == 2 ^ (FLOAT_INT_BITS - 1)

LOCAL N == GENTITYNUM_BITS

entityStateFields ==
  <<32, 0, 0, 0, 0, 0, 0, 0, 8, 0, 0, 0, 0, 0, 8, 8, 16, 16, 32, 32, 32, 8,
    N, 8, 0, 0, 24, 2, 10, 8, 8, 0, N, 0, 32, 8, 8, N, 8, N, N, 8, 8, 8, 0,
    0, -16, 32, 0, 0, 1, 0, N, 0, 8, 8, 0, 1, 16, N, 0, 32, 1, N, 32, 32, 1,
    0, 6, 10, 1, 2, 9, 10, 16, 32, 10, 16, 8, 8, 8, 1, 0, 16, 0, 16, 8, 6, 8,
    32, 9, 8, 16, N, 16, 32, 10, 1, 1, 6, N, 6, 9, 8, 8, 8, 32, 6, 6, 6, 0,
    0, 0, 0, 0, 0, 0, 0, 0, 0, 1, 1, 1, 1, 1, 1, 1, 1, 1, 1, 1, 1>>

playerStateFields ==
  <<32, 0, 0, 0, 0, 0, 0, 0, 0, 8, -16, 16, 0, 16, 16, 16, N, 32, 8, 16, 16,
    16, -8, 4, N, 4, 32, 10, 10, 8, 4, N, 8, 4, 32, 10, 10, -16, 16, 8, 8,
    -16, 8, N, N, 8, 16, 8, 16, 1, 0, 32, 2, 32, 8, 1, 10, 8, 8, 1, 8, 2, 4,
    8, 8, -16, N, 32, 32, 1, 8, 32, 6, 32, 0, 16, 1, 8, 2, 32, 8, 2, 32, 8,
    N, 8, 10, 1, 1, 16, 2, 32, 32, 8, 1, 0, 32, 32, 16, 16, 0, 16, 0, 10, 16,
    0, 1, 32, 16, 2, N, 1, N, 32, 1, 1, 1, 1, 32, 1, 1, 6, N, 10, 16, 1, 1,
    1, 1, 1, 1, 1, 1, 1, 1, 1, 1>>

pilotPlayerStateFields ==
  <<32, 0, 0, 0, 0, 0, -16, 16, 16, 32, 16, N, 10, 10, 4, 16, -16, N, 8, 16,
    0, 10, 8, 8, 8, -16, 32, 32, 32, 0, 32, N, 8, 10, 16, 16, 16, 16, 8, 8,
    1, 32, 1, 1, 32, 1, 32, 1, 16, 16, 16, 16, 1, 2, 32, 8, 0, 0, 0, 8, 0, N,
    -8, 4, 4, 32, 8, 4, N, 8, 32, 10, 10, -16, 8, N, 8, 16, 32, 2, 8, 8, 8,
    1, 2, 4, N, 0, 0, 8, 0, 6, 32, 2, 16, 1, 8, 8, 2, 8, 10, 16, 2, 32, 32,
    8, 1, 0, 32, 0, 0, 0, 32, 16, N, 1, N, 1, 1, 1, 1, 32, 1, 1, 6, N, 10,
    16, 1, 1, 1, 1, 1, 1, 1, 1, 1, 1, 1, 1>>

vehPlayerStateFields ==
  <<32, 0, 0, 0, 0, 0, 0, 0, 0, -16, 16, 0, 16, 16, N, 32, 16, 16, N, 10, 10,
    4, 16, -16, N, 16, 8, 16, 0, 10, 8, 8, 8, -16, 0, 0, 0, 0, 0, 0, 32, 32,
    16, 32, N, 32, 32, 8, 1, 32, 10, 0, 1, N, 16, 0, 0, 1, 1, 1, 1, 1, 1, 1,
    1, 1, 1, 1, 1>>
================================================================================
