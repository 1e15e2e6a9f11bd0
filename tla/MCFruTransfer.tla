---------------------------- MODULE MCFruTransfer -----------------------------
(***************************************************************************)
(* EEPROMs of a page of three bytes, and FRUs of up to two pages.          *)
(***************************************************************************)
EXTENDS FruTransfer

AllKinds == [bytes : {1, 2}, advances : BOOLEAN, flat : BOOLEAN, next : BOOLEAN]
=============================================================================
