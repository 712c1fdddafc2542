----------------------------- MODULE MCSession -----------------------------
(* An MBC3 with clock, battery and one cell of RAM, and an MBC1 whose ROM    *)
(* file lacks the last of its four banks.                                    *)
EXTENDS Session

TwoRoms == {"clock", "plain"}

Headers == [r \in TwoRoms |->
  IF r = "clock" THEN [type |-> 16, romCode |-> 0, ramCode |-> 2, file |-> 2]
                 ELSE [type |-> 1,  romCode |-> 1, ramCode |-> 0, file |-> 3]]

Byte1(b, v) == [block |-> b, bit8 |-> FALSE, a |-> 0, val |-> v]

Programs == [r \in TwoRoms |->
  IF r = "clock" THEN {Byte1(0, 10), Byte1(10, 1)}
                 ELSE {Byte1(2, 3)}]

Ticked == [r \in TwoRoms |->
  IF r = "clock" THEN {[ram |-> [i \in {0} |-> 0], rtc |-> <<[i \in 0 .. 4 |-> 1]>>]}
                 ELSE {}]
=============================================================================
