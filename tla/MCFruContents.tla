---------------------------- MODULE MCFruContents -----------------------------
(***************************************************************************)
(* Two areas and multirecords in FRU blocks of four bytes, cache blocks of *)
(* eight.  All bytes behind the header are the same.                       *)
(***************************************************************************)
EXTENDS FruContents

Header(a, b, m) == <<1, a, b, m>>

ImageAt(where, header, rest) ==
    [pos \in 0..2 * Limit |->
        IF pos = 0 /\ where # 0 THEN 2
        ELSE IF pos \in where..where + FruBlock - 1 THEN header[pos - where + 1]
        ELSE rest]

MCImages ==
    {ImageAt(where, Header(a, b, m), rest) :
        where \in {0, OtherBase}, a \in 0..2, b \in 0..3, m \in {0, 3}, rest \in 0..2}
=============================================================================
