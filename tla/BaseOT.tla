------------------------------- MODULE BaseOT -------------------------------
(***************************************************************************)
(* OT/BaseOT.cpp: nOT oblivious transfers between two parties, by the      *)
(* Kyber protocol of OT/KyberOT.c (BaseOT::exec_base) or in the clear      *)
(* (FakeOT::exec_base), followed by BaseOT::check().  Each party is        *)
(* sender, receiver or both, and the other one has the inverse role.       *)
(*                                                                         *)
(* Random strings and keys are drawn fresh: Fresh(p, i, k) is the k-th     *)
(* draw of party p for transfer i.  The lattice keys are a group: the      *)
(* integers modulo Q, a public key being the same number as its secret     *)
(* key.  Encryption (indcpa_enc) is perfect: it opens under the secret key *)
(* that belongs to the public key, and anything else comes out as Noise.   *)
(***************************************************************************)
EXTENDS Integers, Sequences, FiniteSets

CONSTANTS nOT,        \* number of transfers
          Q,          \* order of the group of keys, more than are drawn
          Protocols,  \* "kyber", "fake", or another that is not modelled here
          H(_)        \* pkHash, a key for a key

VARIABLES
    conf,             \* the protocol, party 0's role, new_receiver_inputs
    pc,
    receiver_inputs,  \* choice bits
    sender_inputs,    \* pairs of strings
    receiver_outputs, \* strings
    recver,           \* KyberOTRecver: choice bit and secret key
    Sr_pack,          \* Sr_pack[p][0]: the ciphertexts p made, [1]: those it got
    os,               \* os[p][0]: what p is to send, os[p][1]: what it received
    chan,             \* chan[p]: messages on their way to p
    at                \* at[p]: the transfer p is checking

made == <<sender_inputs, receiver_outputs, recver, Sr_pack>>
vars == <<conf, pc, receiver_inputs, made, os, chan, at>>

Parties == 0 .. 1
Transfers == 0 .. nOT - 1
Bit == 0 .. 1

INV_ROLE(role) ==
    CASE role = "RECEIVER" -> "SENDER" [] role = "SENDER" -> "RECEIVER" [] OTHER -> "BOTH"
ot_role(p) == IF p = 0 THEN conf.role ELSE INV_ROLE(conf.role)
IsSender(p) == ot_role(p) \in {"SENDER", "BOTH"}
IsReceiver(p) == ot_role(p) \in {"RECEIVER", "BOTH"}

Fresh(p, i, k) == 2 * (p * nOT + i) + k + 1
Random(p, i, k) == <<"string", Fresh(p, i, k)>>
Noise == <<"noise", 0>>
Uninitialized == [key |-> -1, text |-> Noise]

Init ==
    /\ conf \in [protocol : Protocols, role : {"SENDER", "RECEIVER", "BOTH"},
                 fresh_inputs : BOOLEAN]
    /\ pc = [p \in Parties |-> "start"]
    /\ receiver_inputs \in [Parties -> [Transfers -> Bit]]
    /\ \A p \in Parties : ~IsReceiver(p) => receiver_inputs[p] = [i \in Transfers |-> 0]
    /\ sender_inputs = [p \in Parties |-> [i \in Transfers |-> [j \in Bit |-> Noise]]]
    /\ receiver_outputs = [p \in Parties |-> [i \in Transfers |-> Noise]]
    /\ recver = [p \in Parties |-> [b |-> 0, secretKey |-> -1]]
    /\ Sr_pack = [p \in Parties |-> [d \in Bit |-> [i \in Transfers |->
                    [j \in Bit |-> Uninitialized]]]]
    /\ os = [p \in Parties |-> [d \in Bit |-> <<>>]]
    /\ chan = [p \in Parties |-> <<>>]
    /\ at = [p \in Parties |-> 0]
-----------------------------------------------------------------------------
(* OT/KyberOT.c.                                                           *)
pkPlus(a, b) == (a + b) % Q
pkMinus(a, b) == (a - b + Q) % Q
indcpa_enc(m, pk) == [key |-> pk, text |-> m]
indcpa_dec(c, sk) == IF c.key = sk THEN c.text ELSE Noise

(* The public keys for choice bit b: the receiver knows the secret key     *)
(* only of what pkPlus makes of the one for b.                             *)
KyberReceiverMessage(b, sk, random) ==
    LET mine == pkMinus(sk, H(random)) IN
    IF b = 0 THEN <<mine, random>> ELSE <<random, mine>>

(* Mutant: both strings are encrypted under the key of the first.          *)
KyberSenderMessage_one_key(sot, keys) ==
    [j \in Bit |-> indcpa_enc(sot[j], pkPlus(keys[1], H(keys[2])))]

KyberSenderMessage(sot, keys) ==
    [j \in Bit |-> indcpa_enc(sot[j], pkPlus(keys[j + 1], H(keys[2 - j])))]

KyberReceiverStrings(r, sm) == indcpa_dec(sm[r.b], r.secretKey)
-----------------------------------------------------------------------------
(* Sending.  The party that has the given side sends os[0], the other one  *)
(* receives into os[1], a party with both does both.                       *)
SendOrNot(p, sends, sent, then, otherwise) ==
    /\ chan' = IF sends THEN [chan EXCEPT ![1 - p] = Append(@, sent)] ELSE chan
    /\ pc' = [pc EXCEPT ![p] = IF sends THEN then ELSE otherwise]

Receive(p) ==
    /\ chan[p] # <<>>
    /\ chan' = [chan EXCEPT ![p] = Tail(@)]
    /\ os' = [os EXCEPT ![p][1] = Head(chan[p])]

(* exec_base, first part: the receiver's keys, all in one message.  The    *)
(* variable recver is that of the last transfer then.                      *)
MakeKeys(p) ==
    /\ pc[p] = "start" /\ conf.protocol = "kyber"
    /\ IF IsReceiver(p)
         THEN \E inputs \in IF conf.fresh_inputs THEN [Transfers -> Bit] ELSE {receiver_inputs[p]} :
                /\ receiver_inputs' = [receiver_inputs EXCEPT ![p] = inputs]
                /\ recver' = [recver EXCEPT ![p] =
                     [b |-> inputs[nOT - 1], secretKey |-> Fresh(p, nOT - 1, 0)]]
                /\ os' = [os EXCEPT ![p][0] = [i \in 1 .. nOT |->
                     KyberReceiverMessage(inputs[i - 1], Fresh(p, i - 1, 0), Fresh(p, i - 1, 1))]]
         ELSE UNCHANGED <<receiver_inputs, recver, os>>
    /\ pc' = [pc EXCEPT ![p] = "send_if_ot_receiver"]
    /\ UNCHANGED <<conf, sender_inputs, receiver_outputs, Sr_pack, chan, at>>

SendKeys(p) ==
    /\ pc[p] = "send_if_ot_receiver"
    /\ SendOrNot(p, IsReceiver(p), os[p][0], IF IsSender(p) THEN "get_keys" ELSE "encrypt", "get_keys")
    /\ UNCHANGED <<conf, receiver_inputs, made, os, at>>

GetKeys(p) ==
    /\ pc[p] = "get_keys"
    /\ Receive(p)
    /\ pc' = [pc EXCEPT ![p] = "encrypt"]
    /\ UNCHANGED <<conf, receiver_inputs, made, at>>

(* "Received invalid length in base OT": exit(1).                          *)
Exit(p) == pc' = [pc EXCEPT ![p] = "exit"]

(* A pack of keys is a pair of numbers, one of ciphertexts is a function;  *)
(* the code tells them apart by their length.                              *)
LengthsWrong(packs, domain) ==
    \/ Len(packs) < nOT
    \/ \E i \in 1 .. nOT : DOMAIN packs[i] # domain

(* Mutant: os[0] still holds the keys when the ciphertexts are stored.     *)
Packed_after_keys(p, packs) == os[p][0] \o [i \in 1 .. nOT |-> packs[i - 1]]

(* os[0].reset_write_head() and the loop of store_bytes().                 *)
Packed(p, packs) == [i \in 1 .. nOT |-> packs[i - 1]]

Encrypt(p) ==
    LET keys == os[p][1]
        strings(i) == [j \in Bit |-> Random(p, i, j)]
        packs == [i \in Transfers |-> KyberSenderMessage(strings(i), keys[i + 1])] IN
    /\ pc[p] = "encrypt"
    /\ IF ~IsSender(p)
         THEN /\ os' = [os EXCEPT ![p][0] = <<>>]
              /\ pc' = [pc EXCEPT ![p] = "send_if_ot_sender"]
              /\ UNCHANGED <<sender_inputs, Sr_pack>>
         ELSE IF LengthsWrong(keys, 1 .. 2)
         THEN Exit(p) /\ UNCHANGED <<sender_inputs, Sr_pack, os>>
         ELSE /\ sender_inputs' = [sender_inputs EXCEPT ![p] = [i \in Transfers |-> strings(i)]]
              /\ Sr_pack' = [Sr_pack EXCEPT ![p][0] = packs]
              /\ os' = [os EXCEPT ![p][0] = Packed(p, packs)]
              /\ pc' = [pc EXCEPT ![p] = "send_if_ot_sender"]
    /\ UNCHANGED <<conf, receiver_inputs, receiver_outputs, recver, chan, at>>

(* FakeOT::exec_base draws both and sends the strings themselves.          *)
MakeStrings(p) ==
    /\ pc[p] = "start" /\ conf.protocol = "fake"
    /\ \E inputs \in IF conf.fresh_inputs /\ IsReceiver(p) THEN [Transfers -> Bit]
                     ELSE {receiver_inputs[p]} :
         receiver_inputs' = [receiver_inputs EXCEPT ![p] = inputs]
    /\ IF IsSender(p)
         THEN LET strings == [i \in Transfers |-> [j \in Bit |-> Random(p, i, j)]] IN
              /\ sender_inputs' = [sender_inputs EXCEPT ![p] = strings]
              /\ os' = [os EXCEPT ![p][0] = Packed(p, strings)]
         ELSE UNCHANGED <<sender_inputs, os>>
    /\ pc' = [pc EXCEPT ![p] = "send_if_ot_sender"]
    /\ UNCHANGED <<conf, receiver_outputs, recver, Sr_pack, chan, at>>

send_if_ot_sender(p) ==
    /\ pc[p] = "send_if_ot_sender"
    /\ SendOrNot(p, IsSender(p), os[p][0], IF IsReceiver(p) THEN "get" ELSE "hash", "get")
    /\ UNCHANGED <<conf, receiver_inputs, made, os, at>>

Get(p) ==
    /\ pc[p] = "get"
    /\ Receive(p)
    /\ pc' = [pc EXCEPT ![p] = "outputs"]
    /\ UNCHANGED <<conf, receiver_inputs, made, at>>

(* The last loop of exec_base: the message is unpacked into Sr_pack[1],    *)
(* but what is decrypted is Sr_pack[0], with the one recver there is.      *)
Decrypt(p) ==
    LET packs == os[p][1] IN
    /\ pc[p] = "outputs" /\ conf.protocol = "kyber"
    /\ IF LengthsWrong(packs, Bit)
         THEN Exit(p) /\ UNCHANGED <<Sr_pack, receiver_outputs>>
         ELSE /\ Sr_pack' = [Sr_pack EXCEPT ![p][1] = [i \in Transfers |-> packs[i + 1]]]
              /\ receiver_outputs' = [receiver_outputs EXCEPT ![p] = [i \in Transfers |->
                   KyberReceiverStrings(recver[p], Sr_pack[p][0][i])]]
              /\ pc' = [pc EXCEPT ![p] = "hash"]
    /\ UNCHANGED <<conf, receiver_inputs, sender_inputs, recver, os, chan, at>>

Choose(p) ==
    /\ pc[p] = "outputs" /\ conf.protocol = "fake"
    /\ receiver_outputs' = [receiver_outputs EXCEPT ![p] =
         [i \in Transfers |-> os[p][1][i + 1][receiver_inputs[p][i]]]]
    /\ pc' = [pc EXCEPT ![p] = "hash"]
    /\ UNCHANGED <<conf, receiver_inputs, sender_inputs, recver, Sr_pack, os, chan, at>>

(* hash_with_id() (Kyber only), then set_seeds() and extend_length(): every *)
(* string is replaced by what a generator makes of it.                     *)
hash_with_id(s, i) == IF conf.protocol = "kyber" THEN <<"hash", s, i>> ELSE s
Extended(s) == <<"prg", s>>

Hash(p) ==
    /\ pc[p] = "hash"
    /\ sender_inputs' = IF IsSender(p)
         THEN [sender_inputs EXCEPT ![p] = [i \in Transfers |-> [j \in Bit |->
                 Extended(hash_with_id(@[i][j], i))]]]
         ELSE sender_inputs
    /\ receiver_outputs' = IF IsReceiver(p)
         THEN [receiver_outputs EXCEPT ![p] = [i \in Transfers |->
                 Extended(hash_with_id(@[i], i))]]
         ELSE receiver_outputs
    /\ pc' = [pc EXCEPT ![p] = "check"]
    /\ UNCHANGED <<conf, receiver_inputs, recver, Sr_pack, os, chan, at>>
-----------------------------------------------------------------------------
(* BaseOT::check(), one transfer after the other: the sender reveals its   *)
(* strings and the receiver compares.                                      *)
CheckNext(p) ==
    IF at[p] + 1 < nOT
      THEN pc' = [pc EXCEPT ![p] = "check"] /\ at' = [at EXCEPT ![p] = @ + 1]
      ELSE pc' = [pc EXCEPT ![p] = "done"] /\ UNCHANGED at

Reveal(p) ==
    /\ pc[p] = "check"
    /\ IF IsSender(p)
         THEN chan' = [chan EXCEPT ![1 - p] = Append(@, sender_inputs[p][at[p]])]
         ELSE UNCHANGED chan
    /\ IF IsReceiver(p) THEN pc' = [pc EXCEPT ![p] = "compare"] /\ UNCHANGED at
       ELSE CheckNext(p)
    /\ UNCHANGED <<conf, receiver_inputs, made, os>>

Compare(p) ==
    LET i == at[p] IN
    /\ pc[p] = "compare" /\ chan[p] # <<>>
    /\ chan' = [chan EXCEPT ![p] = Tail(@)]
    /\ IF Head(chan[p])[receiver_inputs[p][i]] = receiver_outputs[p][i]
         THEN CheckNext(p) ELSE Exit(p) /\ UNCHANGED at
    /\ UNCHANGED <<conf, receiver_inputs, made, os>>

Party(p) ==
    \/ MakeKeys(p) \/ SendKeys(p) \/ GetKeys(p) \/ Encrypt(p)
    \/ MakeStrings(p) \/ send_if_ot_sender(p) \/ Get(p)
    \/ Decrypt(p) \/ Choose(p) \/ Hash(p) \/ Reveal(p) \/ Compare(p)

Next == \E p \in Parties : Party(p)

(* Each party is a running process.                                        *)
Fairness == \A p \in Parties : WF_vars(Party(p))

Spec == Init /\ [][Next]_vars /\ Fairness
-----------------------------------------------------------------------------
(* The type invariant, as far as the messages go: what a party receives is *)
(* what it expects next; no length is wrong (BaseOT.cpp:498, 587).         *)
TypeOK ==
    /\ receiver_inputs \in [Parties -> [Transfers -> Bit]]
    /\ at \in [Parties -> Transfers]
    /\ \A p \in Parties :
         /\ pc[p] = "encrypt" /\ IsSender(p) => ~LengthsWrong(os[p][1], 1 .. 2)
         /\ pc[p] = "outputs" => ~LengthsWrong(os[p][1], Bit)

(* The ciphertexts of transfer i that reach a receiver open under the      *)
(* secret key it made for transfer i exactly for its choice: the arithmetic *)
(* of the keys fits on the two sides and the transfers are not mixed up    *)
(* (KyberOT.c:41-84, BaseOT.cpp:448-569).                                  *)
OneOfTwo ==
    \A p \in Parties : pc[p] = "outputs" /\ conf.protocol = "kyber" =>
        \A i \in Transfers, j \in Bit :
            LET opened == indcpa_dec(os[p][1][i + 1][j], Fresh(p, i, 0)) IN
            IF j = receiver_inputs[p][i] THEN opened = Random(1 - p, i, j) ELSE opened = Noise

(* The transfers a party ends up with: "Receiver outputs (according to     *)
(* choice bits)" (BaseOT.h:46).                                            *)
OutputsChosen(protocol) ==
    conf.protocol = protocol /\ (\A p \in Parties : pc[p] \in {"check", "compare", "done", "exit"}) =>
        \A p \in Parties, i \in Transfers : IsReceiver(p) =>
            receiver_outputs[p][i] = sender_inputs[1 - p][i][receiver_inputs[p][i]]

FakeOutputsChosen == OutputsChosen("fake")
KyberOutputsChosen == OutputsChosen("kyber")

(* The transfers in the clear end, and their check passes, whatever the    *)
(* roles (BaseOT.cpp:679-762).                                             *)
FakePasses == conf.protocol = "fake" => <>(\A p \in Parties : pc[p] = "done")
=============================================================================
