---------------------------- MODULE MCYaoWorkers ----------------------------
(* Instances of YaoWorkers.  Registers have 2 bits, `few' gates are fewer  *)
(* than 4, the evaluator shares out 6 gates or more, the garbler 5 or 6.   *)
EXTENDS YaoWorkers

Ins(o, r, u) ==
    [op |-> o, repeat |-> r, upto |-> u, out |-> [i \in DOMAIN u |-> 100 * i],
     left |-> [i \in DOMAIN u |-> 100 * i + 10], right |-> [i \in DOMAIN u |-> 100 * i + 20]]

(* Few gates, one vector longer than a register; not few; shared out with  *)
(* splits of different sizes; a vector longer than a register; ANDRS; and  *)
(* XORS with fewer and with as many tuples as the threshold.               *)
MCInstructions ==
    { Ins("and", TRUE, <<3>>), Ins("and", FALSE, <<1, 5>>), Ins("and", FALSE, <<2, 3, 6>>),
      Ins("and", TRUE, <<2, 4, 6, 7>>),
      Ins("xor", FALSE, <<1, 2>>), Ins("xor", FALSE, <<1, 4, 5, 6, 7>>) }

(* ANDRS on a vector longer than a register, garbled by the loops of and_. *)
WideAndrs == {Ins("and", TRUE, <<4>>), Ins("and", TRUE, <<3, 6>>)}
=============================================================================
