----------------------------- MODULE MCMarshall -----------------------------
(***************************************************************************)
(* Bytes of two bits, a buffer one byte longer than the header, and the    *)
(* ends of the range of every type.                                        *)
(***************************************************************************)
EXTENDS Marshall

LongString == 60     \* more than twice the first capacity

MCValues ==
    [type \in Type |->
        IF type \in {"string", "vector"}
        THEN {<<>>, <<1>>, [i \in 1..LongString |-> i % Base]}
        ELSE {0, Power[Width[type]] - 1} \cup {i \in {Power[3] + 2} : Width[type] > 3}]

MCReqHeader == {<<1, 2, UintMod - 1, 3, 0>>, <<UintMod - 1, 0, 1, 0, UintMod - 2>>}

MCRet == {0, UintMod - 1}
=============================================================================
