------------------------------- MODULE MCWire -------------------------------
(***************************************************************************)
(* Wire for TLC, with bytes of 0 to 7: labels have one or two bytes, 3 to  *)
(* 5 are no lengths, and 6 and 7 begin pointers to the offsets 0 to 15.    *)
(***************************************************************************)
EXTENDS Wire, TLC

\* One record: its owner plain, pointing forward, back or at itself; its data
\* whatever fits into three bytes, with a name before it to point to.
Owners == {<<0>>, <<1, 5, 0>>, <<6, 2>>, <<6, 1>>, <<1, 5, 6, 2>>, <<6, 3, 6, 2>>, <<2, 4, 4, 1, 5, 0>>,
           <<2, 4, 4, 2, 5, 5, 0>>}
Datas == [1 .. 3 -> {0, 1, 2, 6, 7}]
MCMessages ==
  {[buf |-> <<0, 0>> \o o \o <<type, length>> \o d, count |-> 1] :
     o \in Owners, type \in {1, 2}, length \in 1 .. 4, d \in Datas}
  \cup {[buf |-> <<0, 0, 1, 5, 0>> \o <<type, 2, 6, 2>> \o <<6, 2, type, length>> \o d, count |-> 2] :
          type \in {1, 2}, length \in 1 .. 4, d \in Datas}
  \cup {[buf |-> <<0, 0>> \o <<1, 5, 0, 1, 3, 4, 4, 4>> \o <<1, 4, 0, 1, 0>> \o o \o <<2, 3>> \o d, count |-> 3] :
          o \in {<<1, 4, 0>>, <<7, 2>>, <<6, 2>>}, d \in Datas}

MCQuestions == {<<>>, <<<<5>>>>, <<<<4, 4>>, <<5>>>>}
=============================================================================
