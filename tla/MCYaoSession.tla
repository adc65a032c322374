---------------------------- MODULE MCYaoSession ----------------------------
(* Small programs for YaoSession.                                          *)
EXTENDS YaoSession

op(name)         == [op |-> name]
branch(n)        == [op |-> "branch", to |-> n]
run_tape(t, i)   == [op |-> "run_tape", thread |-> t, tape |-> i]
join(t)          == [op |-> "join_tape", thread |-> t]

Session(c, v, tapes) == [continuous |-> c, variant |-> v, tapes |-> tapes]

Tapes(main, child) == [i \in {0, 1} |-> IF i = 0 THEN main ELSE child]

(* All straight-line programs up to a length, and all of one length whose  *)
(* second instruction is a reveal and third a branch over the next.        *)
Ops == {op("and"), op("inputb"), op("reveal")}
Straight(n) == UNION {[1 .. m -> Ops] : m \in 0 .. n}
Branching == {<<op("and"), op("reveal"), branch(5), b, c>> : b \in Ops, c \in Ops}

Single(p) == [i \in {0} |-> p]

OneThread ==
    {Session(TRUE, v, Single(p)) : v \in Variants, p \in Straight(4) \union Branching}
    \union {Session(FALSE, "oprf", Single(p)) : p \in Straight(4) \union Branching}

(* Programs of two threads.  The main tape starts the child tape once or   *)
(* twice, with a reveal between; joins it or not; branches around it.      *)
Mains ==
    {<<op("and"), run_tape(1, 1), a, join(1), b>> : a \in Ops, b \in Ops}
    \union {<<run_tape(1, 1), op("reveal"), run_tape(1, 1), op("and"), join(1), join(1)>>,
            <<op("reveal"), branch(4), run_tape(1, 1), op("and")>>,
            <<run_tape(1, 1)>>}

(* In one-shot mode the child is evaluated after the whole garbling, so a  *)
(* program must have made the evaluator's inputs before it joins.          *)
InputsFirst(p) == \A i, j \in DOMAIN p : p[i].op = "join_tape" /\ p[j].op = "inputb" => j < i

TwoThreads ==
    {Session(TRUE, v, Tapes(p, c)) : v \in {"oprf", "init"}, p \in Mains,
        c \in {<<op("and"), op("reveal")>>, <<op("inputb"), op("and"), op("and")>>}}
    \union {Session(TRUE, "reconstruct", Tapes(p, <<op("reveal")>>)) : p \in Mains}
    \union {Session(FALSE, "oprf", Tapes(p, c)) : p \in {q \in Mains : InputsFirst(q)},
        c \in {<<op("and"), op("reveal")>>, <<op("inputb"), op("and"), op("and")>>}}

MCSessions == OneThread \union TwoThreads

(* One-shot garbling with the Init phase.                                  *)
OneShotInit == {Session(FALSE, "init", Single(<<op("inputb"), op("and"), op("reveal")>>))}

(* Two parallel sections without a reveal between them.                    *)
TwoSections == {Session(TRUE, v, Tapes(<<run_tape(1, 1), join(1), op("and"),
                                        run_tape(1, 1), join(1), op("and")>>, <<op("and")>>)) :
                v \in {"oprf", "init"}}
=============================================================================
