--------------------------- MODULE MCCryptoPlayer ---------------------------
(***************************************************************************)
(* Handshakes among up to seven parties, and operations of two and three.  *)
(***************************************************************************)
EXTENDS CryptoPlayer

Around(offset) == [type |-> "pass_around", offset |-> offset]
AroundInPlace(offset) == [type |-> "pass_around_in_place", offset |-> offset]
On(channels) == [type |-> "send_receive_all", channels |-> channels]
Broadcast(n) == On({<<p, q>> \in (0 .. n - 1) \X (0 .. n - 1) : p # q})
Between(type, a, b) == [type |-> type, a |-> a, b |-> b]

Threaded ==
    { [n |-> 2, ops |-> <<Between("exchange", 0, 1), Broadcast(2), Between("send_to", 1, 0),
                          Between("exchange_in_place", 0, 1), Between("exchange", 0, 1)>>],
      [n |-> 3, ops |-> <<Around(1), On({<<0, 1>>, <<2, 1>>})>>],
      [n |-> 3, ops |-> <<Between("send_to", 0, 2), Around(2), AroundInPlace(1), AroundInPlace(1)>>] }

(* The handshakes only.                                                    *)
Handshaking == {[n |-> n, ops |-> <<>>] : n \in 2 .. 7}

MCGames == Threaded \cup Handshaking
=============================================================================
