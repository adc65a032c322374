---------------------------- MODULE VoprfSession ----------------------------
(***************************************************************************)
(* A run of voprf_e2e: run_server() garbles m circuits for its OPRF key    *)
(* and proves the first one well-formed; run_client() obtains the labels   *)
(* of its shared inputs by oblivious transfer, verifies, evaluates every   *)
(* circuit, compares with F_k and reports its verdict.  The two exchange   *)
(* blobs over one socket and check little of each other's configuration.   *)
(*                                                                         *)
(* A label is represented by the circuit, wire, share and bit it stands    *)
(* for; GarbledCircuit shows what such labels compute.                     *)
(***************************************************************************)
EXTENDS Naturals, Sequences

CONSTANTS NWires,      \* evaluator input bits of a circuit (128)
          Xs,          \* OPRF inputs
          H1,          \* the input bits of the circuit for each of them
          Keys,        \* OPRF keys
          Sessions     \* how the two programs may be started

W == 0 .. NWires - 1
PerCircuit == 2 * NWires     \* transfers per circuit (256)

ASSUME InputsOK == NWires \in Nat \ {0} /\ H1 \in [Xs -> [W -> BOOLEAN]]

(* The command lines: each side's `-m', and `-n' and `-tables'.  The last   *)
(* two are options of each program, too, but here both are given the same  *)
(* value.                                                                  *)
ASSUME SessionsOK ==
    \A s \in Sessions : s \in [server_m : Nat \ {0}, client_m : Nat \ {0}, n_ot : Nat,
                               tables_online : BOOLEAN]

VARIABLES session,     \* the configuration
          key,         \* the server's OPRF key
          server,      \* [at, vok]: where run_server() is, the verdict received
          client,      \* [at, i]: where run_client() is, the circuit reached
          xs,          \* the client's inputs ...
          shares,      \* ... and all_shares, one bit per transfer
          got,         \* what the client has received, by name
          verdict,     \* [stark_ok, bind_ok, plaintext_ok, plain_match]
          ys,          \* the client's outputs
          toClient, toServer

vars == <<session, key, server, client, xs, shares, got, verdict, ys, toClient, toServer>>

Gone == {"exit", "error"}

Init ==
    /\ session \in Sessions
    /\ key \in Keys
    /\ server = [at |-> "base_ot", vok |-> FALSE]
    /\ client = [at |-> "base_ot", i |-> 0]
    /\ xs = <<>> /\ shares = <<>> /\ ys = <<>>
    /\ got = [cm |-> <<>>, hashes |-> <<>>, tables |-> <<>>, masks |-> <<>>,
              key_labels |-> <<>>, proof |-> <<>>, key |-> <<>>]
    /\ verdict = [stark_ok |-> FALSE, bind_ok |-> FALSE, plaintext_ok |-> TRUE, plain_match |-> 0]
    /\ toClient = <<>> /\ toServer = <<>>
-----------------------------------------------------------------------------
gc_hash(i) == <<"gc_hash", i>>

(* Sequences of one blob per circuit.                                      *)
Blobs(type, m, Data(_)) == [i \in 1 .. m |-> [type |-> type, data |-> Data(i - 1)]]

table_blobs(m) == LET T(i) == [gc |-> i, gc_hash |-> gc_hash(i)]
                  IN  Blobs("tables", m, T)

Blob(type, data) == << [type |-> type, data |-> data] >>

(* A recv waits for its blob, and throws if there is none and the peer is  *)
(* gone; main() then ends the program.  The code takes any blob for the    *)
(* one it expects.  Here a program would wait for ever at one of another   *)
(* type; since every session ends (Completes), there never is one.         *)
Expects(chan, type) == chan # <<>> /\ Head(chan).type = type

ServerThrows ==
    /\ server.at \in {"base_ot2", "pong", "ot", "vok"}
    /\ toServer = <<>> /\ client.at \in Gone
    /\ server' = [server EXCEPT !.at = "error"]
    /\ UNCHANGED <<session, key, client, xs, shares, got, verdict, ys, toClient, toServer>>

ClientThrows ==
    /\ client.at \in {"base_ot", "cm", "meta", "tables", "ping", "masks", "key_labels",
                     "proof", "key"}
    /\ toClient = <<>> /\ server.at \in Gone
    /\ client' = [client EXCEPT !.at = "error"]
    /\ UNCHANGED <<session, key, server, xs, shares, got, verdict, ys, toClient, toServer>>
-----------------------------------------------------------------------------
(* run_server()                                                            *)

Server_base_ot ==
    /\ server.at = "base_ot"
    /\ toClient' = toClient \o Blob("base_ot", <<>>)
    /\ server' = [server EXCEPT !.at = "base_ot2"]
    /\ UNCHANGED <<session, key, client, xs, shares, got, verdict, ys, toServer>>

(* Garble, prove (the prover may fail), send the offline part and ping.    *)
Server_offline ==
    /\ server.at = "base_ot2" /\ Expects(toServer, "base_ot")
    /\ toServer' = Tail(toServer)
    /\ \/ /\ toClient' = toClient
               \o Blob("cm", <<"cm", key>>)
               \o Blob("meta", [m |-> session.server_m, hashes |-> [i \in 1 .. session.server_m |-> gc_hash(i - 1)]])
               \o (IF session.tables_online THEN <<>> ELSE table_blobs(session.server_m))
               \o Blob("ping", <<>>)
          /\ server' = [server EXCEPT !.at = "pong"]
       \/ server' = [server EXCEPT !.at = "error"] /\ UNCHANGED toClient
    /\ UNCHANGED <<session, key, client, xs, shares, got, verdict, ys>>

(* The answer to the ping, then the check of n_ot.                         *)
Server_pong ==
    /\ server.at = "pong" /\ Expects(toServer, "ping")
    /\ toServer' = Tail(toServer)
    /\ server' = [server EXCEPT !.at = IF session.n_ot # session.server_m * PerCircuit
                                       THEN "error" ELSE "ot"]
    /\ UNCHANGED <<session, key, client, xs, shares, got, verdict, ys, toClient>>

(* Mutant: the two shares of a wire are masked with the pads of adjacent   *)
(* wires.                                                                  *)
mask_adjacent(m) ==
    [idx \in 0 .. m * PerCircuit - 1 |->
       [bit \in BOOLEAN |-> [gc |-> idx \div PerCircuit, wire |-> (idx % PerCircuit) % NWires,
                             share |-> (idx % PerCircuit) \div NWires, bit |-> bit]]]

(* The pair of labels masked for transfer idx = i * 256 + 2 * j + share.   *)
mask(m) ==
    [idx \in 0 .. m * PerCircuit - 1 |->
       [bit \in BOOLEAN |-> [gc |-> idx \div PerCircuit, wire |-> (idx % PerCircuit) \div 2,
                             share |-> idx % 2, bit |-> bit]]]

(* The transfers, then everything that is sent online.                     *)
Server_online ==
    /\ server.at = "ot" /\ Expects(toServer, "ot")
    /\ toServer' = Tail(toServer)
    /\ LET K(i) == [gc |-> i, key |-> key] IN
       toClient' = toClient \o Blob("masks", mask(session.server_m))
                   \o (IF session.tables_online THEN table_blobs(session.server_m) ELSE <<>>)
                   \o Blobs("key_labels", session.server_m, K)
                   \o Blob("proof", [gc_hash |-> gc_hash(0)])
                   \o Blob("key", key)
    /\ server' = [server EXCEPT !.at = "vok"]
    /\ UNCHANGED <<session, key, client, xs, shares, got, verdict, ys>>

Server_vok ==
    /\ server.at = "vok" /\ Expects(toServer, "vok")
    /\ toServer' = Tail(toServer)
    /\ server' = [at |-> "exit", vok |-> Head(toServer).data]
    /\ UNCHANGED <<session, key, client, xs, shares, got, verdict, ys, toClient>>
-----------------------------------------------------------------------------
(* run_client()                                                            *)

(* Receive a blob of the given type, keep it and go on.                    *)
Take(type) == Expects(toClient, type) /\ toClient' = Tail(toClient)

Client_base_ot ==
    /\ client.at = "base_ot" /\ Take("base_ot")
    /\ toServer' = toServer \o Blob("base_ot", <<>>)
    /\ client' = [client EXCEPT !.at = "cm"]
    /\ UNCHANGED <<session, key, server, xs, shares, got, verdict, ys>>

Client_cm ==
    /\ client.at = "cm" /\ Take("cm")
    /\ got' = [got EXCEPT !.cm = Head(toClient).data]
    /\ client' = [client EXCEPT !.at = "meta"]
    /\ UNCHANGED <<session, key, server, xs, shares, verdict, ys, toServer>>

(* Mutant: the number of circuits is not compared.                         *)
Client_meta_unchecked ==
    /\ client.at = "meta" /\ Take("meta")
    /\ client' = [client EXCEPT !.at = IF session.tables_online THEN "ping" ELSE "tables"]
    /\ got' = [got EXCEPT !.hashes = Head(toClient).data.hashes]
    /\ UNCHANGED <<session, key, server, xs, shares, verdict, ys, toServer>>

(* The client exits if the server garbles another number of circuits.      *)
Client_meta ==
    /\ client.at = "meta" /\ Take("meta")
    /\ client' = [client EXCEPT !.at = IF Head(toClient).data.m # session.client_m THEN "error"
                                       ELSE IF session.tables_online THEN "ping" ELSE "tables"]
    /\ got' = [got EXCEPT !.hashes = Head(toClient).data.hashes]
    /\ UNCHANGED <<session, key, server, xs, shares, verdict, ys, toServer>>

Client_tables ==
    /\ client.at = "tables" /\ Take("tables")
    /\ got' = [got EXCEPT !.tables = Append(@, Head(toClient).data)]
    /\ client' = [client EXCEPT !.at = IF Len(got'.tables) < session.client_m THEN "tables"
                                       ELSE IF session.tables_online THEN "key_labels" ELSE "ping"]
    /\ UNCHANGED <<session, key, server, xs, shares, verdict, ys, toServer>>

(* The ping is answered, and the inputs are sampled and shared.  Nothing   *)
(* has compared n_ot with m yet: copying the shares of the last circuit    *)
(* overruns all_shares if n_ot is too small.                               *)
Client_encode ==
    /\ client.at = "ping" /\ Take("ping")
    /\ toServer' = toServer \o Blob("ping", <<>>)
    /\ \E x \in [1 .. session.client_m -> Xs], r \in [0 .. session.client_m * NWires - 1 -> BOOLEAN] :
         /\ xs' = x
         /\ shares' = [idx \in 0 .. session.n_ot - 1 |->
              IF idx >= session.client_m * PerCircuit THEN FALSE
              ELSE IF idx % 2 = 0 THEN r[idx \div 2]
              ELSE r[idx \div 2] # H1[x[idx \div PerCircuit + 1]][(idx % PerCircuit) \div 2]]
    /\ client' = [client EXCEPT !.at = IF session.client_m * PerCircuit > session.n_ot
                                       THEN "overrun" ELSE "ot"]
    /\ UNCHANGED <<session, key, server, got, verdict, ys>>

Client_ot ==
    /\ client.at = "ot"
    /\ toServer' = toServer \o Blob("ot", <<>>)
    /\ client' = [client EXCEPT !.at = "masks"]
    /\ UNCHANGED <<session, key, server, xs, shares, got, verdict, ys, toClient>>

(* The label of each transfer's chosen bit is unmasked.                    *)
Client_masks ==
    /\ client.at = "masks" /\ Take("masks")
    /\ got' = [got EXCEPT !.masks =
                 [idx \in 0 .. session.n_ot - 1 |-> Head(toClient).data[idx][shares[idx]]]]
    /\ client' = [client EXCEPT !.at = IF session.tables_online THEN "tables" ELSE "key_labels"]
    /\ UNCHANGED <<session, key, server, xs, shares, verdict, ys, toServer>>

Client_key_labels ==
    /\ client.at = "key_labels" /\ Take("key_labels")
    /\ got' = [got EXCEPT !.key_labels = Append(@, Head(toClient).data)]
    /\ client' = [client EXCEPT !.at = IF Len(got'.key_labels) < session.client_m
                                       THEN "key_labels" ELSE "proof"]
    /\ UNCHANGED <<session, key, server, xs, shares, verdict, ys, toServer>>

Client_proof ==
    /\ client.at = "proof" /\ Take("proof")
    /\ got' = [got EXCEPT !.proof = Head(toClient).data]
    /\ client' = [client EXCEPT !.at = "key"]
    /\ UNCHANGED <<session, key, server, xs, shares, verdict, ys, toServer>>

(* The key, with which the client checks its results, is the last blob.    *)
(* Then the verifier runs (and may reject, or not run at all) and the      *)
(* proof is compared with the tables and the announced hash.               *)
Client_verify ==
    /\ client.at = "key" /\ Take("key")
    /\ got' = [got EXCEPT !.key = Head(toClient).data]
    /\ \E stark_ok \in BOOLEAN :
         verdict' = [verdict EXCEPT
            !.stark_ok = stark_ok,
            !.bind_ok = /\ stark_ok
                        /\ got.proof.gc_hash = got.tables[1].gc_hash
                        /\ got.proof.gc_hash = got.hashes[1]]
    /\ client' = [client EXCEPT !.at = "eval"]
    /\ UNCHANGED <<session, key, server, xs, shares, ys, toServer>>

(* What the circuit with tables gc computes from key labels kl and the     *)
(* share labels: AES of the bits the labels stand for if they are labels   *)
(* of this circuit, and otherwise nothing that is related to it.           *)
Evaluate(gc, kl, lab) ==
    IF kl.gc = gc /\ \A j \in W : \A s \in {0, 1} :
                        lab[2 * j + s].gc = gc /\ lab[2 * j + s].wire = j /\ lab[2 * j + s].share = s
    THEN <<"AES", kl.key, [j \in W |-> lab[2 * j].bit # lab[2 * j + 1].bit]>>
    ELSE <<"garbage">>

H2(x, z) == <<"H2", x, z>>

F_k(k, x) == H2(x, <<"AES", k, H1[x]>>)

Client_eval ==
    LET i  == client.i
        tm == got.tables[i + 1]
        lab == [l \in 0 .. PerCircuit - 1 |-> got.masks[i * PerCircuit + l]]
        y  == H2(xs[i + 1], Evaluate(tm.gc, got.key_labels[i + 1], lab))
        ok == y = F_k(got.key, xs[i + 1])
    IN
    /\ client.at = "eval"
    /\ i < session.client_m /\ verdict.stark_ok /\ verdict.bind_ok
    /\ IF tm.gc_hash # got.hashes[i + 1]
       THEN /\ verdict' = [verdict EXCEPT !.plaintext_ok = FALSE]
            /\ client' = [client EXCEPT !.at = "report"]
            /\ UNCHANGED ys
       ELSE /\ ys' = Append(ys, y)
            /\ verdict' = [verdict EXCEPT !.plaintext_ok = @ /\ ok,
                                          !.plain_match = IF ok THEN @ + 1 ELSE @]
            /\ client' = [client EXCEPT !.i = @ + 1]
    /\ UNCHANGED <<session, key, server, xs, shares, got, toClient, toServer>>

(* Mutant: the verdict is that no comparison failed.                       *)
Client_report_no_mismatch ==
    /\ \/ client.at = "report"
       \/ client.at = "eval" /\ ~(client.i < session.client_m /\ verdict.stark_ok /\ verdict.bind_ok)
    /\ toServer' = toServer \o Blob("vok", verdict.plaintext_ok)
    /\ client' = [client EXCEPT !.at = "exit"]
    /\ UNCHANGED <<session, key, server, xs, shares, got, verdict, ys, toClient>>

Client_report ==
    /\ \/ client.at = "report"
       \/ client.at = "eval" /\ ~(client.i < session.client_m /\ verdict.stark_ok /\ verdict.bind_ok)
    /\ LET vok == /\ verdict.stark_ok /\ verdict.bind_ok /\ verdict.plaintext_ok
                  /\ verdict.plain_match = session.client_m
       IN  toServer' = toServer \o Blob("vok", vok)
    /\ client' = [client EXCEPT !.at = "exit"]
    /\ UNCHANGED <<session, key, server, xs, shares, got, verdict, ys, toClient>>

Ended == server.at \in Gone /\ client.at \in Gone

Next ==
    \/ Server_base_ot \/ Server_offline \/ Server_pong \/ Server_online \/ Server_vok
    \/ ServerThrows
    \/ Client_base_ot \/ Client_cm \/ Client_meta \/ Client_tables \/ Client_encode
    \/ Client_ot \/ Client_masks \/ Client_key_labels \/ Client_proof \/ Client_verify
    \/ Client_eval \/ Client_report \/ ClientThrows

(* Each program runs on as long as it can.                                 *)
Spec == Init /\ [][Next]_vars /\ WF_vars(Next)
-----------------------------------------------------------------------------
ServerPlaces == {"base_ot", "base_ot2", "pong", "ot", "vok"} \union Gone
ClientPlaces == {"base_ot", "cm", "meta", "tables", "ping", "ot", "masks", "key_labels",
                 "proof", "key", "eval", "report", "overrun"} \union Gone

TypeOK ==
    /\ key \in Keys
    /\ server \in [at : ServerPlaces, vok : BOOLEAN]
    /\ client \in [at : ClientPlaces, i : 0 .. session.client_m]
    /\ xs \in {<<>>} \union [1 .. session.client_m -> Xs]
    /\ shares \in {<<>>} \union [0 .. session.n_ot - 1 -> BOOLEAN]
    /\ Len(got.tables) <= session.client_m /\ Len(got.key_labels) <= session.client_m
    /\ verdict \in [stark_ok : BOOLEAN, bind_ok : BOOLEAN, plaintext_ok : BOOLEAN,
                    plain_match : 0 .. session.client_m]
    /\ Len(ys) <= session.client_m

(***************************************************************************)
(* When the server prints `check: pass', the client has the value of F_k   *)
(* at each of its inputs, for as many circuits as the server garbled.      *)
(***************************************************************************)
VerdictSound ==
    server.vok => /\ session.client_m = session.server_m
                  /\ ys = [i \in 1 .. session.client_m |-> F_k(key, xs[i])]

(***************************************************************************)
(* Two programs that run to their end fail the check only if the verifier  *)
(* did not accept: the labels that went through shares, transfers and      *)
(* masks are those of the circuit that is evaluated with them.             *)
(***************************************************************************)
VerdictComplete == server.at = "exit" => (server.vok <=> verdict.stark_ok)

(* Copying the shares of m circuits stays within all_shares.               *)
SharesFit == client.at # "overrun"

(***************************************************************************)
(* Both programs end, whatever fails: the prover, the comparison of m or   *)
(* the check of n_ot on one side ends the other one too.                   *)
(***************************************************************************)
Completes == <>Ended
=============================================================================
