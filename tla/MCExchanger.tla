---------------------------- MODULE MCExchanger -----------------------------
(***************************************************************************)
(* Exchanges of two and three players over connections of three bytes.     *)
(***************************************************************************)
EXTENDS Exchanger

Conf(n, broadcast, ssl, same, spare, leaves, lens) ==
    [n |-> n, broadcast |-> broadcast, offset |-> 1, ssl |-> ssl,
     same |-> same, leaves |-> leaves, len |-> lens,
     mxlen |-> [p \in 0 .. n - 1 |->
                  Max({lens[t][q] : t \in DOMAIN lens, q \in 0 .. n - 1}) + spare]]

Lens(n, longest) == [0 .. n - 1 -> 0 .. longest]

(* Two exchanges of two players, in every way the players do them; the     *)
(* second shows that the first left the sockets in order.                  *)
TwoPlayers ==
    {Conf(2, FALSE, ssl, same, 1, FALSE, <<l1, l2>>) :
        ssl \in BOOLEAN, same \in BOOLEAN, l1 \in Lens(2, 3), l2 \in {[p \in 0 .. 1 |-> 1]}}
TwoLeave ==
    {Conf(2, FALSE, ssl, same, 1, TRUE, <<l1>>) :
        ssl \in BOOLEAN, same \in BOOLEAN, l1 \in Lens(2, 2)}
ThreePlayers ==
    {Conf(3, FALSE, ssl, same, 1, FALSE, <<l>>) :
        ssl \in BOOLEAN, same \in BOOLEAN, l \in Lens(3, 2)}
(* Twice, when the streams are separate or the lengths equal.              *)
ThreeTwice ==
    {Conf(3, FALSE, FALSE, FALSE, 1, FALSE,
          <<[p \in 0 .. 2 |-> IF p = 0 THEN 4 ELSE 1], [p \in 0 .. 2 |-> 1]>>)}
  \cup {Conf(3, FALSE, ssl, TRUE, 1, FALSE, <<[p \in 0 .. 2 |-> 2], [p \in 0 .. 2 |-> 1]>>) :
          ssl \in BOOLEAN}
Broadcasts ==
    {Conf(2, TRUE, FALSE, FALSE, 1, leaves, <<l>>) : leaves \in BOOLEAN, l \in Lens(2, 2)}
  \cup {Conf(3, TRUE, FALSE, FALSE, 1, FALSE, <<l>>) : l \in Lens(3, 1)}

(* SSL streams go through an exchanger only when one stream is used.       *)
MCConfs ==
    {c \in TwoPlayers \cup TwoLeave \cup ThreePlayers
                \cup ThreeTwice \cup Broadcasts :
        c.ssl => c.same}

(* Three players pass around twice, with one stream for both directions    *)
(* and messages of different lengths.                                      *)
RingConfs ==
    {Conf(3, FALSE, FALSE, TRUE, 1, FALSE,
          <<[p \in 0 .. 2 |-> IF p = 0 THEN 4 ELSE 1], [p \in 0 .. 2 |-> 1]>>)}

(* One stream for both directions, filled to its capacity.                 *)
FullConfs == {Conf(2, FALSE, FALSE, TRUE, 0, FALSE, <<[p \in 0 .. 1 |-> 3]>>)}
=============================================================================
