---------------------------- MODULE MCCbcTopology -----------------------------
(***************************************************************************)
(* A cartridge and two services; fields that are good, of an old revision, *)
(* or no hexadecimal.                                                      *)
(***************************************************************************)
EXTENDS CbcTopology

MCFields ==
    {<<2, 0, 1, 3, 7, 0, 0, 0>>, <<3, 0, 1, 4, 7, 0, 0, 0>>,
     <<2, 0, 1, NotHex, 7, 0, 0, 0>>}
=============================================================================
