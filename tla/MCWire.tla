--------------------------------- MODULE MCWire ---------------------------------
(***************************************************************************)
(* A small instance of Wire for TLC.                                       *)
(***************************************************************************)
EXTENDS Wire

\* Every message starts with the tag 8 of its type.  A line feed, a byte of three
\* digits, negative bytes of one to three digits.
MCMessages == {<<8, 10>>, <<8, -3, 101>>, <<8, -61, -128>>}
=============================================================================
