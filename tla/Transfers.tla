------------------------------ MODULE Transfers -----------------------------
(***************************************************************************)
(* The oblivious transfers of two parties as they follow each other on one *)
(* connection.  Party 0 is the sender of the extensions and the receiver   *)
(* of the base transfers, whose choice bits become delta.  The sessions:   *)
(*                                                                         *)
(* - the garbler and the evaluator of Yao's protocol.                      *)
(*   OTExtensionWithMatrix::setup carries out Kyber base transfers for a   *)
(*   given delta, gives their strings to the generators                    *)
(*   (OTExtension::init), and the extensions (OTExtension) go on from      *)
(*   there, always passive and in one slice;                               *)
(* - the machine for oblivious transfers, ot.x, with one direction: base   *)
(*   transfers of either protocol for bits it draws, then init().  Its     *)
(*   extensions are another protocol's and not modelled;                   *)
(* - base transfers in other roles, followed by their check;               *)
(* - extensions on top of base transfers that keep their promise, which is *)
(*   no session of the code: what the Yao parties could rely on if the     *)
(*   base transfers were as their interface says.                          *)
(***************************************************************************)
EXTENDS OTExtension

CONSTANTS Q, Protocols, H(_)   \* see BaseOT

VARIABLES conf, pc, receiver_inputs, sender_inputs, receiver_outputs, recver,
          Sr_pack, os, chan, at

base == INSTANCE BaseOT WITH nOT <- K

made == <<sender_inputs, receiver_outputs, recver, Sr_pack>>
basevars == <<conf, pc, receiver_inputs, made, os, chan, at>>
allvars == <<basevars, vars>>

Garbler == 0
Evaluator == 1
Parties == {Garbler, Evaluator}

(* Keys are numbers modulo Q, more than are drawn, and pkHash makes keys of *)
(* keys.  It does not happen by chance that the secret key of a transfer   *)
(* opens what is encrypted under the random key, too: NoCollision, which   *)
(* the size of the lattice makes overwhelmingly likely.  The padding is    *)
(* made of bits.                                                           *)
ASSUME KeysAssumption ==
    /\ Q \in Nat /\ 4 * K < Q
    /\ \A k \in 0 .. Q - 1 : H(k) \in 0 .. Q - 1

NoCollision(sk, random) == base!pkPlus(random, H(base!pkMinus(sk, H(random)))) # sk

ASSUME NoCollisionAssumption ==
    \A p \in Parties, i \in 0 .. K - 1 : NoCollision(base!Fresh(p, i, 0), base!Fresh(p, i, 1))

ASSUME PaddingAssumption ==
    \A P \in Programs : \A e \in DOMAIN P.n : \A i \in 1 .. rounded(P.n[e]) + 2 * K :
        padding(e, i) \in BOOLEAN

(* The sessions that give their strings to OTExtension::init, and those    *)
(* of them whose choice bits are given: set_receiver_inputs(delta), with   *)
(* the signal bit that YaoGarbleMaster sets in delta.                      *)
IsSetup == conf.role = "RECEIVER"
IsYao == IsSetup /\ ~conf.fresh_inputs

SessionOK ==
    CASE conf.protocol = "promised" -> IsYao
      [] conf.protocol = "fake" -> ~IsYao
      [] OTHER -> passive /\ nsubloops = 1

TransfersInit ==
    /\ base!Init
    /\ Start
    /\ SessionOK
    /\ IF IsYao THEN receiver_inputs[Garbler][0] = 1
       ELSE passive /\ nsubloops = 1 /\ program.n = <<>>
    /\ delta = {}
    /\ G_sender = [j \in Bits |-> [c \in 0 .. 1 |-> <<>>]]
    /\ G_receiver = [j \in Bits |-> <<>>]

(* exec_base, and check() where setup() is not what calls it.              *)
Base(p) ==
    /\ ~(IsSetup /\ pc[p] = "check")
    /\ base!Party(p)
    /\ UNCHANGED vars

choice(p) == {j \in Bits : receiver_inputs[p][j] = 1}

(* OTExtension::init: the strings of the base transfers become seeds, and  *)
(* the choice bits delta.                                                  *)
(* Mutant: the garbler takes the strings for what it would have sent.      *)
SetSeeds_sent(p) ==
    IF p = Garbler
      THEN G_receiver' = [j \in Bits |-> sender_inputs[p][j][0]] /\ delta' = choice(p)
             /\ UNCHANGED G_sender
      ELSE G_sender' = sender_inputs[p] /\ UNCHANGED <<G_receiver, delta>>

SetSeeds(p) ==
    IF p = Garbler
      THEN G_receiver' = receiver_outputs[p] /\ delta' = choice(p) /\ UNCHANGED G_sender
      ELSE G_sender' = sender_inputs[p] /\ UNCHANGED <<G_receiver, delta>>

SetPromised(p) ==
    IF p = Garbler
      THEN G_receiver' = Chosen(choice(p)) /\ delta' = choice(p) /\ UNCHANGED G_sender
      ELSE G_sender' = PromisedStrings /\ UNCHANGED <<G_receiver, delta>>

Setup(p) ==
    /\ IF conf.protocol = "promised" THEN pc[p] = "start" /\ SetPromised(p)
       ELSE IsSetup /\ pc[p] = "check" /\ SetSeeds(p)
    /\ pc' = [pc EXCEPT ![p] = "extend"]
    /\ UNCHANGED <<conf, receiver_inputs, made, os, chan, at>>
    /\ UNCHANGED <<passive, program, receiver, sender, to_s, to_r>>

Extend(p) ==
    /\ pc[p] = "extend"
    /\ IF p = Garbler THEN Sender ELSE Receiver
    /\ UNCHANGED basevars

TransfersNext == \E p \in Parties : Base(p) \/ Setup(p) \/ Extend(p)

(* The two parties are running processes.                                  *)
TransfersFairness == \A p \in Parties : WF_allvars(Base(p) \/ Setup(p) \/ Extend(p))

TransfersSpec == TransfersInit /\ [][TransfersNext]_allvars /\ TransfersFairness
-----------------------------------------------------------------------------
(* The type invariant of both parts.  The receiver of the base transfers   *)
(* finds the keys and ciphertexts it expects (BaseOT.cpp:498, 587).        *)
TransfersTypeOK == TypeOK /\ base!TypeOK

(* The ciphertexts that reach a receiver open for its choice only.         *)
OneOfTwo == base!OneOfTwo

(* Base transfers in the clear give the chosen strings in every role, and  *)
(* as the seeds of ot.x they keep the promise extensions rest on           *)
(* (BaseOT.cpp:736-762, OTMachine.cpp:236-246, OTExtension.h:40-71).       *)
SeedsChosen ==
    /\ base!FakeOutputsChosen
    /\ conf.protocol = "fake" /\ (\A p \in Parties : pc[p] = "extend") => Promised

(* Neither party waits for ever.  The base transfers end, and those in the *)
(* clear pass their check.  After a setup the labels of all inputs arrive, *)
(* or the evaluator aborts at one with the wrong signal; if the seeds are  *)
(* as promised, all arrive, whatever the number of slices, and with the    *)
(* correlation check or without (YaoEvalInput.h:25-36,                     *)
(* YaoEvalWire.cpp:147-214, YaoGarbler.cpp:154-171).                       *)
AllArrive ==
    /\ IF IsSetup THEN <>(\A p \in Parties : pc[p] = "extend") ELSE base!FakePasses
    /\ IsYao => <>(Len(wires) = Len(program.n) \/ (conf.protocol = "kyber" /\ r.pc = "aborts"))
=============================================================================
