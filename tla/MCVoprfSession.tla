--------------------------- MODULE MCVoprfSession ---------------------------
(* Small instances of VoprfSession: circuits of two input bits.            *)
EXTENDS VoprfSession

Bit == [x1 |-> <<FALSE, TRUE>>, x2 |-> <<TRUE, TRUE>>, x3 |-> <<FALSE, FALSE>>]

MCH1 == [x \in Xs |-> [j \in W |-> Bit[x][j + 1]]]

Started(sm, cm, n, online) ==
    [server_m |-> sm, client_m |-> cm, n_ot |-> n, tables_online |-> online]

(* Any m on each side, any n that is large enough for the client.          *)
Fitting == {Started(sm, cm, n * PerCircuit, o) :
              sm \in 1 .. 2, cm \in 1 .. 2, n \in 1 .. 2, o \in BOOLEAN}

MCSessions == {s \in Fitting : s.client_m * PerCircuit <= s.n_ot}

(* `-m' is given and `-n' is left at its default, here one circuit's worth. *)
DefaultN == {Started(2, 2, PerCircuit, FALSE)}
=============================================================================
