# TLA+ models of simple-OPRF

simple-OPRF evaluates an oblivious pseudorandom function with Yao garbled
circuits: a server holding a key garbles AES, a client obtains the labels of its
input by oblivious transfer and evaluates. The repository does this twice:

* `voprf-bench/` is a self-contained pair of programs (`voprf_e2e.cpp`) with
  their own half-gate garbling (`gc_mmo.hpp`), a shared encoding of the client's
  input (`probe_resilient.hpp`) and a STARK proof of the first circuit;
* `MP-SPDZ-master/` is a modified MP-SPDZ whose Yao virtual machine
  (`Yao/`, `GC/`) runs compiled programs on two parties, with a PPSS phase
  (Init or Reconstruct) spliced into the end of a tape. The top-level
  `Yao*.cpp` files are the versions of `YaoGarbler.cpp` and `YaoEvaluator.cpp`
  for the phases `oprf`, `init` and `reconstruct`.

Paths below are relative to `src/`; Yao and GC are under `MP-SPDZ-master/`.

## Inventory

| component | state | operations | interacts with | hard behaviour |
|---|---|---|---|---|
| MMO half-gate garbling (`gc_mmo.hpp`, `probe_resilient.hpp`) | delta, zero labels, tables, decoding bits; active labels | garble a gate, select labels, evaluate a gate, decode | called by `voprf_e2e` | two loops count AND gates independently; half of the random labels exercise each branch of point-and-permute |
| `voprf_e2e` session | configuration, key, inputs, shares, received blobs, verdict | base OT, offline, ping, OT, masks, tables, key labels, proof, verify, evaluate, report | garbling, STARK program, libOTe, one socket | one side fails or differs in configuration while the other waits |
| Yao parties (`YaoGarbler`, `YaoEvaluator`, wires) | gates and masks buffers, input keys, store, taint flag, registers, PC | AND, input, reveal, branch, run_tape, batch send and receive, DONE | tape threads, OT extension, sockets | batches carry no position; exceptions used as control flow; two modes |
| Tape threads (`GC/Thread`, `ThreadMaster`, `Machine`, `Program`) | tape schedule, done queue | start, join, stop, execute | Yao parties | threads of one party advance independently of the peer's |
| AND workers (`YaoAndJob`, `Worker`, `WaitQueue`) | jobs, wait queues, gate numbers | split, dispatch, wait | Yao parties | condition variables, gate numbers that must not repeat |
| `ReceivedMsgStore` (`Tools/FlexBuffer`) | memory slots, files | push, pop | evaluator in one-shot mode | order across the two storages |
| Base OT (`OT/BaseOT.cpp`, `OT/KyberOT.c`) | choice bits, strings, keys, ciphertexts, two streams | make keys, encrypt, decrypt, hash, check | OT extension, sockets | streams and buffers reused, either party in either role |
| OT extension (`OT/OTExtensionWithMatrix.cpp`, `OTCorrelator.hpp`, `OTExtension.cpp`) | generators of the seeds, matrices | expand, correlate, check, mask keys | Yao parties | both sides must have used as much of each generator; rounding, padding, slices |
| PPSS (`YaoEvaluator.init.cpp`, `.reconstruct.cpp`, `YaoGarbler.*.cpp`) | shares, masks, commitment | share, mask, commit, interpolate | end of a tape | arithmetic on vectors of machine words |
| STARK program (`voprf-bench/stark-garble`) | witness, trace, proof, public file | check the witness, build the trace, prove, verify | `voprf_e2e` via the shell | padding, constraints that must agree with the direct check |
| Start of the parties (`Networking/Server`, `ServerSocket`, `Player`; `GC/Thread`) | addresses, sockets by id, clients and used ids | connect, accept, identify, wait for an id | everything with a connection | several threads of both parties at one port; objects under construction |
| Exchange (`Networking/Exchanger.h`) | sent, received, lengths, streams | construct, round | players | buffers of the operating system, one stream for both directions |
| Encrypted connections (`Networking/CryptoPlayer`, `Sender`, `Receiver`) | two connections and two threads per peer | handshake, request, wait | players | order of handshakes, streams shared with threads |

What makes each correct: labels compute what the circuit computes; the verdict of
`voprf_e2e` is right and both programs end; the two Yao parties consume each
gate, mask and key at the instruction it was made for, branch alike, leave
nothing over and both exit; an instruction that is shared out among workers makes
the gates it would have made alone; the store gives batches back in order; a
transfer gives the chosen string and an extension correlated rows; shares
determine the secret and reconstruct it; an honest proof verifies and a changed
one does not; connections are paired, deliver what was sent, and nobody waits for
ever. The hazards in `PROJECT.json` list, line by line,
where this could go wrong.

## Modules

`Labels` (blocks as sets of bit positions, XOR as symmetric difference, bit 0 the
signal bit), `Circuits` (Bristol circuits, what it means that one is well formed)
and `HalfGates` (MMO hash, tables, evaluation of an AND gate) are the vocabulary.

**`PlainCircuit`** is `eval_circuit_plain()`: the abstract specification. One
action per gate, one to read the outputs.

**`GarbledCircuit`** is `garble_circuit()`, the choice of labels by the server
(`label_for_bit`) and by two transfers of shares (`make_share_labels`,
`encode_shares`, `reconstruct_label`), `eval_circuit_labels()` and
`decode_outputs()`. `k` and `and_id` are the loops' counters. Random blocks are
existentially quantified; the permutation and the tweaks are constants of which
only the type is known, so nothing rests on a property of AES. It implements
`PlainCircuit` under the mapping *bit of wire i = active label differs from zero
label*.

**`VoprfSession`** is `run_server()` and `run_client()` of `voprf_e2e.cpp`: the
state of each is the place it has reached, one action per message, and what is
computed between two messages belongs to the action of the first. A label is the
record of circuit, wire, share and bit it stands for; `Evaluate` yields AES of the
bits only if all labels are labels of the evaluated circuit, in their places.
`session` is the pair of command lines; `-n` and `-tables`, which each program has as an
option of its own, have one value for both, since the client is told neither. A program
waits for a blob of the type it expects, where the code would take any other for it
(`Expects`); as all sessions end, that does not happen for these command lines. A
program whose peer has ended throws in its next receive (`ServerThrows`,
`ClientThrows`). The prover and the verifier are choices.

**`YaoSession`** is a run of `yao-party.x` on both sides. Each party has
`NThreads` tape threads and a master. `th[p][t]` holds where a thread is, the
tape, PC, gate count, taint flag and the revealed bit; `gates`, `masks`, `keys`,
`store` are the buffers of the same names; `chan` and `ot` are the connections
`P` and `player`. A gate, mask or key is the position (tape run and PC) it was
made for, which the program does not send: the properties compare positions, the
actions never do. `Clean` is the handler of `needs_cleaning`. `session` fixes the
tapes, the mode (`-O` or not) and the phase. Failures (reading past a batch,
taking one message for another, refusing to branch) are recorded in `failure`. A transfer
hands over the key it is asked for, as its interface says; the labels that the code's
Kyber transfers lead to are the subject of `Transfers`.

**`WaitQueue`** holds the operators of `Tools/WaitQueue.h`: a queue, its `running`
flag and where the popping thread is with respect to the condition variable. `push`
and `stop` are one step, under the mutex; `pop` is two when it waits, and after the
wait it does not look at the queue again.

**`YaoWorkers`** is one tape thread of one party executing `ANDS`, `ANDRS` and `XORS`
with its workers. `conf` says which party and on what machine; `main` is the tape
thread's place and local variables, `jobs`, `input`, `output`, `wpc` the workers,
their queues and places. A worker executes its job tuple by tuple, so the writes of
two workers interleave. `gates` is the buffer with a generation number: when it moves,
pointers into the old one are dead. A gate is the names of its operands, its result
and its id; `op`, `garble` and `eval` are the three loops of the code that make gates
(`Processor::and_`, `YaoGarbleWire::and_`, `YaoEvalWire::and_`). `ran` and `asked` are
for the properties only: how often each tuple was executed and which gates
`Processor::and_` would have made. The splits of `get_splits` are found one at a time
(`is_split`) where the loop uses them.

**`MsgQueue`** is the abstract queue; **`ReceivedMsgStore`** is `Tools/FlexBuffer.cpp`,
the ring `mem` (`start`, `mem_size`) and the list `files`, with the temporary files
themselves in `disk`. The store is used through the caller's buffer `msg`, which is
moved from by a push to memory and copied by a push to a file.

**`Exchanger`** is `Networking/Exchanger.h` under its callers: one exchanger per
player with rounds that may block (`exchange`, `pass_around`), or one per other player
with rounds that never do (`Broadcast_Receive`). A connection holds `Buffer` bytes; a
non-blocking call moves any part of what it could. `conf` fixes the players, whether
one stream serves both directions, its capacity, and the lengths of the messages of
successive exchanges. A byte carries whose it is, of which exchange and where in it;
the program looks only at the number in a length. `moved` is whether the shared stream
was reallocated since `data` was read; bytes sent through `data` then are junk.

**`PartyStart`** is how parties come up: `Server::start` in player 0,
`Names::setup_names`, `ServerSocket` (accepting, reading ids,
`clients`, `used`, the waiting threads), `PlainPlayer::setup_sockets` from several
threads, and the construction of the tape threads. `vptr` is what an object is so far
(`base` while the constructor of `GC::Thread` runs, `derived` after), `pre` whose
`pre_run()` its thread called. `jobs` are the connections whose id the server has not
read: the accept thread reads it if it is there and leaves it to a thread of its own
otherwise, so ids are read in any order. An attempt to connect or a wait for a client
may run out of time; a party that throws ends, and its connections close.

**`CryptoPlayer`** is the constructor's handshakes, two per peer one after the other,
each of which ends when both have begun it, then operations as sequences of requests
to the sender and receiver threads and waits for them. A message is what its stream
holds when the thread sends it. The queues of the threads are those of `WaitQueue`,
here taken to be FIFO. `exchange` and `pass_around` with one stream for both directions
go without the threads (`InPlace`). There the code calls `send_non_blocking`, which over
TLS is `write_some` and waits for room (`ssl_sockets.h:85-88`), as `Write` does; that a
long message is written and read in parts is left to `Exchanger`.

**`BaseOT`** is `exec_base` of `BaseOT` and `FakeOT`, `set_seeds`, `extend_length` and
`check`. Keys are integers modulo `Q`, a public key being its secret key, with
`pkPlus`, `pkMinus` and the hash `H` the operations of the lattice; an encryption
opens under its key and is noise under any other. `recver` and `Sr_pack` are the
variables of these names, one `recver` for all transfers as in the code.

**`OTExtension`** is `extend_correlated` with `OTCorrelator` and `check_correlation`
on both sides, as `process_receiver_inputs` and `YaoEvalInput` use it: `r_used` and
`s_used` count how far the generators are used. A matrix row is a block of `Labels`;
`PRG` is any function. The least bit of a label is its signal: 0 in the garbler's labels
for zero (`YaoGarbleWire.h:115`), 1 in delta (`YaoGarbleMaster.cpp:24`). The evaluator
asserts that the signal of each label it unhides is its input
(`YaoEvalWire.cpp:210-214`) and aborts otherwise (`RefuseLabels`). The properties of the
extensions hold if the sender has the seed of its choice (`Promised`).

**`Transfers`** composes the two. Its sessions (`SessionOK`):

* Yao's parties, as `OTExtensionWithMatrix::setup` starts them: Kyber base transfers with
  the garbler as the receiver and delta as its choice bits (`IsYao`); the strings become
  the generators' seeds (`SetSeeds`), and the extensions follow, always passive and in one
  slice. One party may be in its first extension while the other is still in the base
  transfers.
* `ot.x` in one direction (`Machines/OTMachine.cpp:230-333`): Kyber with `-r`, transfers in
  the clear without, for bits drawn at random; then `OTExtension::init`. Its extensions are
  SoftSpokenOT unless it is built with `USE_KOS`, and not modelled.
* Base transfers in the other roles, followed by their `check()`.
* Extensions on seeds that are as the base transfers' interface says (`BaseOT.h:46`,
  `SetPromised`): no session of the code, which has no protocol that keeps that promise
  where `setup()` uses it, but the assumption under which the extension can be judged by
  itself. Only here the extensions are also checked actively and in two slices.

**`PPSS`** is the secret sharing around the circuits, in the variants `init` and
`reconstruct`. A value is two lanes, since the compiler's `+` and `*` on `__m128i` are
those of two 64-bit words; a lane is a number modulo `M`. `Dealt`, `Quotient`, `One`
and `Basis` follow the code's operators, including `^`.

**`StarkGarble`** is the Rust program `stark-garble` and the files it reads: witness,
check, trace, constraints over a field of order `P`, assertions, binding hash. The
library is `Accepts`: the constraints hold in all rows but the last, and so do the
assertions. `Change` alters one thing between two steps, as the negative tests do.

| code | module and actions |
|---|---|
| `gc_mmo.hpp` `garble_circuit` | `GarbledCircuit`: `GarbleInputs`, `GarbleFree`, `GarbleAnd`, `GarbleOutputs` |
| label choice, shares | `SelectLabels`, `share_label` |
| `eval_circuit_labels`, `decode_outputs` | `EvalFree`, `EvalAnd`, `decode_outputs` |
| `voprf_e2e.cpp` `run_server` | `VoprfSession`: `Server_*` |
| `voprf_e2e.cpp` `run_client` | `VoprfSession`: `Client_*` |
| `YaoGarbler.cpp`, `YaoGarbleWire.cpp` | `YaoSession`: `Garble_*`, `send`, `process_receiver_inputs`, `Garbler_finish`, `post_run` |
| `YaoEvaluator.cpp`, `YaoEvalWire.cpp` | `receive_to_store`, `receive`, `pop_store`, `Eval_*`, `Evaluator_finish` |
| `GC/Thread.hpp`, `GC/Machine.hpp` | `StartTape`, `EndTape`, `EndThread`, `join_tape`, `Schedule` |
| `GC/ThreadMaster.hpp` | `MasterStart`, `MasterStop`, `MasterJoin`, `MasterSync` |
| `Tools/WaitQueue.h` | `WaitQueue`: `push`, `stop`, `wait`, `pop` |
| `YaoGarbleWire.cpp`, `YaoEvalWire.cpp` `and_*`, `YaoCommon.hpp` | `YaoWorkers`: `And_few`, `And_singlethread`, `And_multithread`, `Split` |
| `YaoWire.hpp` `xors` | `Xor_few`, `Xor_multithread`, `Xor_dispatch`, `Xor_rest` |
| `YaoCommon.h`, `YaoAndJob.h`, `Tools/Worker.h` | `Wait_*`, `Destroy`, `Stop_worker`, `Join_worker`, `Worker_*` |
| `Tools/FlexBuffer.cpp` `ReceivedMsgStore` | `ReceivedMsgStore`: `Push_*`, `Pop_*`, `Destroy` |
| `Networking/Exchanger.h`, `sockets.h` | `Exchanger`: `Construct`, `Send`, `ReceiveData`, `ReceiveLength`, `EndRound`, `SendFails`, `ReceiveFails` |
| `Networking/Server.cpp`, `ServerSocket.cpp`, `Player.cpp` | `PartyStart`: `Begin`, `ConnectNames`, `Coordinator*`, `Accept`, `GetSocket`, `Connect`, `Timeout`, `PeerClosed` |
| `GC/Thread.hpp`, `GC/ThreadMaster.hpp`, constructors of the Yao parties | `Construct`, `Derive`, `BeginOT`, `EndOT`, `PreRun`, `Join` |
| `Networking/CryptoPlayer.cpp` | `CryptoPlayer`: `Connect`, `Calls`, `NextOperation` |
| `Networking/Sender.cpp`, `Receiver.cpp` | `Request*`, `Wait*`, `Sender*`, `Receiver*` |
| `OT/BaseOT.cpp`, `OT/KyberOT.c` | `BaseOT`: `MakeKeys`, `SendKeys`, `Encrypt`, `Decrypt`, `MakeStrings`, `Choose`, `Hash`, `Reveal`, `Compare` |
| `OT/OTExtensionWithMatrix.cpp`, `OTCorrelator.hpp`, `OTExtension.cpp` | `OTExtension`: `ReceiverBegins`, `ReceiverSlice`, `ReceiverCheck`, `SenderBegins`, `SenderSlice`, `SenderCheck`, `SendLabels`, `GetLabels`, `RefuseLabels` |
| `OTExtensionWithMatrix::setup`, `OTMachine`, `OTExtension::init` | `Transfers`: `Base`, `Setup`, `Extend` |
| `YaoEvaluator.init.cpp`, `.reconstruct.cpp`, `YaoGarbler.*.cpp` | `PPSS`: `Share`, `RunCircuits`, `Mask`, `SendStored`, `ReceiveStored`, `Basis`, `Interpolate`, `Commit`, `ServerReceives` |
| `stark-garble/src/main.rs` | `StarkGarble`: `Garble`, `Prove`, `Verify` |

Operators whose name adds a suffix to another's and whose comment begins with
`Mutant:` are faulty versions used to test that the properties can fail.

## Runs

**`garbled_circuit`** (`MCGarbledCircuit.cfg`): all circuits of two gates over one
bit of each party, and one of three gates with a NOT read twice; blocks of two
bits, the signal bit and one more, which is the least for which a label carries
anything besides its signal; a key of its own for each of the two permutations. On two
bits every permutation is affine, so TLC alone could not exclude that labels are right
because masks happen to cancel; the theorems of `GarbledCircuitProofs` hold for every
permutation. `TypeOK`, `TablesInStep`, `ActiveLabels` and the refinement
`EvaluatesPlain`. The evaluation ends, so deadlock is not checked.

**`yao_session`** (`MCYaoSession.cfg`): with one tape thread, every straight-line program of
up to four instructions and every program of five with a reveal and a branch, in
continuous mode with each phase and in one-shot mode. Batches of two gates, so
that batches end by count, by reveal, by the tape's end and by two of these at
once; connections of two messages, so that senders block. It checks `InStep`,
`SameBranch`, `OnlyBranchingFails`, `Drained`, `Completes` and, through the
deadlock check, that nobody waits for ever before that.

With two tape threads: main tapes that start the child once or twice, join it or not,
and branch around it, with a child that reveals and one that asks for input. In
one-shot mode the main tape makes its inputs before it joins: the child's inputs are
answered by a garbler thread that has ended its tapes, and a main tape that joined first
would wait for it (`InputsFirst`). Between two `run_tape` there is a reveal (see Known
deviations).

**`voprf_session`** (`MCVoprfSession.cfg`): circuits of two input wires, one or two
circuits on each side, equal or not, `n` for one or two circuits as long as the
client's shares fit, both table modes, three inputs, two keys. `VerdictSound`,
`VerdictComplete`, `Completes`. Two circuits of two wires distinguish the circuit,
the wire and the share in an index. The programs end, so deadlock is not checked
(`Completes` says that they end properly).

**`yao_workers`** (`MCYaoWorkers.cfg`): every pair of six instructions, of sizes for
each path (few gates, single-threaded, shared out, XORs below and above the threshold),
on either party, with one to three workers and a garbler's threshold equal to the
evaluator's or below it. Registers have two bits instead of 64, and the thresholds 1024
and 10 become 4 to 6 and 4, so that vectors span registers and splits have different
sizes; two instructions are enough for a job to be reused and a batch to end between.
`JobsFit`, `OneJobEach`, `InOrder` and `Finishes`. A program may end after any
instruction, so deadlock is not checked; `Finishes` says nobody is stuck inside one.
No `ANDRS` in it is both longer than a register and garbled by the loops of `and_` (see
Known deviations).

**`received_msg_store`** (`MCReceivedMsgStore.cfg`): a ring of two slots, so that it
wraps around (the code has one), three file names (interchangeable, hence symmetric),
two contents and two read positions. `FilesAccounted` and the refinement `IsQueue`.
The store is destroyed at some point, so deadlock is not checked.

**`exchanger`** (`MCExchanger.cfg`): two and three players on connections of three
bytes, with lengths of two bytes; messages of zero to three bytes between two players
and up to two in a ring, and one of four in a ring with separate streams, so that
messages fit, just fit and do not. Every exchange of two players is followed by a
second, which would find what the first left on the socket. Streams have room for one
byte more than the longest message, and rings with one stream and unequal lengths are
exchanged once (see Known deviations for both). A player may leave in some
configurations. `Delivered`, `UnsentIntact`, `Completes`, `PeerLossNoticed`. The exchanges
end, so deadlock is not checked; `Completes` covers it.

**`party_start`** (`MCPartyStart.cfg`): two parties with one tape thread each, whose
master, tape thread and transfers make three sets of connections through the same server
sockets; player 0 sharing the coordinator's port, and on one of its own; attempts and
waits that may run out of time at any point. `Paired`, `NobodyThrows`, `StartsOrEnds`.

**`crypto_player`** (`MCCryptoPlayer.cfg`): `NoLockup` for the handshakes of two to seven
parties, which has every remainder and parity that the order of handshakes distinguishes
up to offset three. The operations are of two and three parties, on connections that
hold one message, and follow each other so that a stream is filled again while a peer is
behind. `Delivered`, `NobodyThrows`, `NothingPending`, `Completes`.

**`transfers`** (`MCTransfers.cfg`): two base transfers, the least for which they can be
mixed up, in all roles and by both protocols, with blocks of two bits, all deltas with the
signal bit and all inputs; sequences of extensions smaller than, equal to and larger than a
block and of none, on promised seeds in one slice and in two. `OneOfTwo` for the
ciphertexts of Kyber, `SeedsChosen` for the transfers in the clear and the seeds of `ot.x`,
`Correlated`, `LabelsOfInputs`, and `AllArrive`. What the Kyber transfers leave in the
receiver's outputs is the subject of `kyber_ot`. The extensions of Yao's parties run on
them, so on seeds that do not match: the labels are then noise, and `AllArrive` says of
them that either the evaluator aborts at a signal bit or every label happened to have the
right one. That all labels arrive, and are right, is claimed for promised seeds
(`Promised` in `Correlated` and `LabelsOfInputs`, the protocol in `AllArrive`), where an
abort is excluded. Nor does an active sender's check ever fail (`throws`), since the labels would not arrive.

**`stark_garble`** (`MCStarkGarble.cfg`): up to two gates of three bits, so that traces
are filled up from three rows and from six to eight; a field of order seven, in which
the polynomials of degree three in bits do not wrap to a wrong bit.
`HonestVerifies`, `Arithmetized`, `ChangesNoticed`.

In the last four the programs end, so deadlock is not checked.

Two runs state what a comment of the repository says and show the code doing otherwise:

* **`kyber_ot`** (`MCKyberOT.cfg`): `receiver_outputs` are documented as according to the
  choice bits; the Kyber receiver decrypts the wrong buffer, with the key of the last
  transfer.
* **`ppss_reconstruct`** (`MCReconstruct.cfg`): the comments describe Shamir sharing and
  Lagrange interpolation; the operators compute something else, and the secret that is
  reconstructed is not the one dealt. `t = 3` and `n = 5`
  are the values in the code; lanes have two bits.

## Known deviations

The configurations below are kept beside the project's runs (the first is a run with
another set of sessions, `PreRunOfParty` a further invariant of one). Each shows, on a small
instance, the code doing something else than a document or a check of the repository
says; the passing runs avoid these cases, as noted there.

| configuration | property | what it shows |
|---|---|---|
| `MCYaoSession.cfg` with `Sessions <- OneShotInit` | `Completes` | MP-SPDZ's README (lines 769-771) offers `-O` on both sides. With the Init phase compiled in, the garbler waits for the client's Init message (`YaoGarbler.cpp:112`) before `post_run()` sends DONE, and the client waits for DONE before it evaluates. |
| `MCYaoTwoSections.cfg` (`MCYaoSession`) | `EnoughData` | `run_tapes` clears the taint flag before the start of the tapes on the garbler and after it on the evaluator (`YaoEvalWire.cpp:265`). At a second `run_tape` with no reveal in between the garbler ends its batch and the evaluator reads on, which `check_buffer()` reports as "not enough data in buffer" (`FlexBuffer.h:236`). |
| `MCVoprfDefaultN.cfg` (`MCVoprfSession`) | `SharesFit` | `n_ot` is commented as `m * 256` (`voprf_e2e.cpp:129`) and is an option of its own; with `-m` above 128 and no `-n` the client copies past `all_shares` (line 379). |
| `MCWideAndrs.cfg` (`MCYaoWorkers`) | `SingleOperand` | The compiler documents the second operand of `andrs` as a single bit (`Compiler/GC/instructions.py:148-154`); the garbler's loop takes it from register `j` (`YaoGarbleWire.cpp:138`), the evaluator from register 0. |
| `MCExchangeInPlace.cfg` (`MCExchanger`) | `Delivered` | An exchange in one stream is documented as "overwriting current content" (`octetStream.h:248`). If the stream is full, the resize at `Exchanger.h:128` moves it, and the rest is sent from the old memory, read at line 38. |
| `MCPassAroundTwice.cfg` (`MCExchanger`) | `Completes` | `pass_around` with one stream ("The buffer is reused", `Player.h:322-324`) asks for `sent - received` bytes (`Exchanger.h:91`), which in a ring of three with messages of unequal lengths may include the length of the next message. |
| `MCPartyStart.cfg` with that invariant | `PreRunOfParty` | The thread started in the constructor of `GC::Thread` (`Thread.hpp:36`) may call the base class's empty `pre_run()`; the evaluator then never receives the circuits in one-shot mode. `ServerSocket.cpp:74` warns of this: "must not call virtual init() method in constructor". |
| `MCDealing.cfg` (`MCPPSS`) | `OneSecret` | `points[j]^i` (`YaoEvaluator.init.cpp:145`) is XOR, not a power ("Degree t", line 132): the matrix for `t = 2` has an even determinant, and different secrets have the same shares at all servers. |

`MCPPSS.cfg` holds what does hold of `PPSS`, for `t = 2` and `n = 3` as in
`YaoEvaluator.init.cpp` and lanes of one bit: what the server stores opens to the dealt shares and the commitment
covers it (`StoredOpens`), unmasking gives the shares back (`SharesKept`), and a session
ends (`Ends`).

Most modules also have a type invariant `TypeOK`; the runs check those of
`GarbledCircuit`, `YaoSession`, and of `BaseOT` and `OTExtension` together
(`TransfersTypeOK`), which also says that messages are what the receiver expects. The
others are there for proofs, as in `ReceivedMsgStoreProofs`.

**Fairness.** `YaoSession` and `VoprfSession` assume `WF_vars(Next)`: as long as
some thread can take a step, one does. Operating-system threads and TCP give at
least this. It is enough because programs are finite, so no thread can run for
ever while another is kept from running, and weaker than fairness to each thread.
`YaoWorkers` assumes weak fairness for the tape thread inside an instruction and for
each worker: each is an operating-system thread, and one that has been signalled runs
eventually. Beginning the next instruction or ending the program is not assumed.
`CryptoPlayer` assumes the same as `YaoSession`, for the same reason. `PartyStart` assumes
it of all steps but running out of time while everybody is alive: whoever waits for a
party that is gone does run out of time. `Exchanger` assumes weak fairness for each
player, and that what can be sent or received is, in part at least, each time it is
tried: TCP makes progress. Leaving is never assumed. `BaseOT`, `OTExtension`,
`Transfers` and `PPSS` assume weak fairness for each party, a process of its own.

## Proofs

`GarbledCircuitProofs` begins with the algebra: XOR of blocks, the two halves of a half
gate (`GarblerHalf`, `EvaluatorHalf`), and `HalfGate`: for any two active labels of
the input wires, `and_eval` on `and_table` gives the output label of their
conjunction. `FreeXor` and `FreeNot` say the same of free gates.

It then proves, for every set of well-formed circuits, every block
length, permutation and tweaks (assumptions `HashOK`, `CircuitsOK` and the others
named in the modules):

* `Invariance`: `Spec => []IInv`, with `TypeCorrect`, `TablesCorrect`
  (`TablesInStep`) and `LabelsCorrect` (`ActiveLabels`) as consequences;
* `Refinement`: `Spec => EvaluatesPlain`.

`ActiveLabels` is not inductive: that the label computed for an AND gate is one of
the output wire's two depends on the table and on the zero labels that the garbler
wrote for it many steps before. `IInv` therefore says that every gate the garbler
has passed satisfies its garbling equation (`GateGarbled`), which stays true
because a well-formed circuit writes each wire once; that both counters are the
number of AND gates before `k` (`CountersOK`); and that delta has its signal bit
set and the decoding bits are those of the final zero labels (`PhaseOK`). Each
conjunct has its own step lemma. The refinement then needs, per evaluated gate,
that the bit of the new label is the gate's function of the bits of the old ones.

`ReceivedMsgStoreProofs` proves, for every ring size `N > 0` (`NOK`) and any messages
and names, `Invariance` (the type invariant and `FilesAccounted`, which is inductive
with it), `FilesCorrect` and `StoreIsQueue`: `Spec => IsQueue`. The queue is the ring read from
`start`, then the files; the work is in the arithmetic modulo `N` (`RingStep`,
`RingDistinct`): a push fills the slot behind the last one and disturbs no other, a
pop shifts every index by one. `FilesAccounted` is needed so that a new file's name is
none of those stored, and that removing a popped file leaves the others.

`YaoWorkersProofs` proves `JobsAlwaysFit`: `Spec => []JobsFit`, for every set of
instructions, thresholds and numbers of workers (`InstructionsOK`, `BoundsOK`,
`XorThresholdOK`). `JobsFit` is not inductive: after some splits nothing in it says that
the rest fits the remaining workers. `SharingInv` adds that the tuples split off so far
hold at least `i_thread * max_gates_per_thread` gates (every split but the last is
large enough), and since `n_workers * max_gates_per_thread` is at least the number of gates,
tuples are left only while a worker is. For `XORS` it adds that the start is
`i_thread * batch`, and that a job stays within the tuples of its instruction.

The same module proves `JobsOneAtATime` (`OneJobEach`) and `GatesInOrder` (`InOrder`).
For the first, `HandoverOK` follows a job through the two queues: which of the two
condition variables is signalled, what each queue holds and where the worker is are tied
to whether the tape thread still waits for that worker. For the second, `RanOK` says which
tuples have been executed and which are in a job, the jobs lying side by side in the order
of their workers, and `GatesOK` that the buffer holds the right gates wherever it was
written, each job knowing its place in the buffer and its first gate id. The garbler's
loops make other gates than `processor.and_` for a repeated AND wider than a register
(`MCWideAndrs.cfg`); `GatesInOrder` therefore has the hypothesis `NarrowAndrs` on the
program, and `EvaluatorInOrder` shows that the evaluator needs none.

`VoprfSessionProofs` proves `VerdictIsSound` and `VerdictIsComplete`, for every circuit
size, number of circuits, `-n`, input and place of the tables (`InputsOK`, `SessionsOK`).
The blobs on the socket carry no number or type: the client takes each for what its
program asks for next. The invariant `SessionInv` compares the socket with the script of a
complete run: what is under way is what follows in the script the blobs that the client
has consumed, what each program has computed is what the script says of the place it is
at, and the program that ended early left a prefix.

`TransfersProofs` proves, for every number of base transfers, all generators, hashes and
programs of extensions (`OTExtensionAssumption`) and all sessions, `RowsCorrelated`
(`Correlated`), `LabelsArriveRight` (`LabelsOfInputs`), `SeedsAreChosen`
(`SeedsChosen`), `TransfersTypes` (`TransfersTypeOK`) and `ChoiceOpens` (`OneOfTwo`).
No message says to which extension, slice or row it belongs, and a generator's output is
used up as the extensions go. `ExtensionInv` therefore counts: the steps and rows each
party has done and the messages between them add up (`LagOK`), and rows, messages and
labels are those of their numbers (`ReceiverOK`, `SenderOK`, `MessagesOK`, `WiresOK`).
`LabelsUnhidden` says that a label that came, unhidden with its row, is the one of the
input, from which it follows that the signals agree and nobody aborts.
`Correlated` and `LabelsOfInputs` rest on seeds that are as `Promised`; `SeedsInv`
(`BaseTypes`, `ClearOK`, `SeedsOK`) shows that transfers in the clear make the seeds of
`ot.x` so. For the Kyber transfers nothing tells keys from
ciphertexts from strings revealed for the check but their order: `KyberOK` derives from the
places of the two parties how many keys (`KeysToCome`) and ciphertexts are under way, and
says that they are made of choice bits that no longer change. `TransfersInv` puts it
together with the others and gives `TransfersTypes`, in which no length is ever wrong.
`ChoiceOpens` adds the arithmetic of the keys (`KeysAssumption`); that the secret key does
not by chance open the other ciphertext, too, is the assumption `NoCollisionAssumption` on
the hash, which TLC evaluates for the hash of the run. `PaddingAssumption` says that the
padding is made of bits. That the labels are right behind *Kyber* transfers is not claimed
anywhere: the code decrypts the wrong ciphertexts (run `kyber_ot`).

`ExchangerProofs` proves, for any number of players, lengths, buffer sizes and records
(`ConfsOK`), `UnsentKept` (`UnsentIntact`) and `ExchangesDeliver`: `Delivered` in every
configuration that is `SharingSafe`. A receiver takes the next bytes for a length and as
many after it as that says for a message, so the second is about positions. The bytes a
player ever writes to a connection are one fixed sequence, and the connection holds what
lies between the receiver's place in it and the sender's (`Flow`). Where in that sequence
an exchange begins is a sum over the exchanges before it; a recursive definition would call
for an induction, so the invariant carries the places (`IsStart`) and each new exchange adds
one. `SharingSafe` is `TRUE` for separate streams and for broadcasts. For one stream in both
directions it asks for a capacity above every length, and for pairs, or one exchange, or
equal lengths: what `MCExchangeInPlace.cfg` and `MCPassAroundTwice.cfg` show to be needed.
The part that is hardest is `NotTooMuch`: with a shared stream, the receiver bounds what it
takes by what it has sent and not by the length it was told, and it is the absence of a
next message on the connection that keeps it from taking too much. In a pair, that follows
from the other direction: the peer cannot be an exchange ahead of a player that has not
sent everything (`FlowAhead`).

`YaoSessionProofs` proves `YaoTypes` (`TypeOK`) for every session, and for every session
of one tape (`OneTape`: no `run_tape` in the main tape, and one-shot mode without the
Reconstruct phase, whose stand-in no one-shot evaluator reads) `YaoStaysInStep`
(`InStep`), `YaoBranchesAgree` (`SameBranch`), `YaoFailsOnlyOnBranches`
(`OnlyBranchingFails`) and `YaoDrains` (`Drained`). The tape is any sequence of
instructions, with branches to any place; batch size, capacity and number of threads are
any positive numbers (`BoundsOK`, `SessionsOK`).

No message between the parties names an instruction, and with branches on revealed bits
the sequence of instructions is not known before it has been executed. The invariant
`YaoInv` therefore says that there is a path `tr[1 .. n]` of configurations
(program counter, revealed bit, gates counted in the batch, numbers of the gates, outputs
and inputs so far, number of batches), each a successor of the one before (`Succ`, which
says where a batch ends), and for each batch the numbers with which it begins (`PathOK`).
The garbler is at the end of the path (`GarblerOn`), the evaluator at a place `i` of it
(`EvaluatorOn`), and everything between them is what the path says: the batch being made
(`Unsent`), those in the connection and the store (`UnderWay`), what is left of the batch
being evaluated (`Unused`), keys and transfers (`TransfersOn`), messages to the garbler
(`Answers`). An action of the garbler appends a configuration, one of the evaluator moves
`i`. Between the two there is no reveal but the one the garbler is waiting for
(`RevealsOn`); so it is the evaluator, at the end of the path then, that decides the bit in
the last configuration (`PathBit`), before the garbler learns it. In one-shot mode no bit
is needed, as no branch is executed (`Succ`). The lemmas up to the first of the two state
predicates `Link` and `Scheduling` are about paths and sequences alone; those after it say
for each action which of them applies. `Scheduled` and `Idle` account for the
master threads and the tape threads that get no tape.

`PartyStartProofs` proves, for any number of players and tape threads, `StartPaired`
(`Paired`) and `StartThrowsNothing` (`NobodyThrows`). Neither is inductive: `Paired`
speaks of two players' sockets and says nothing of the connection that a server has
identified and not yet handed out, and that no id is asked for twice depends on where all
threads of a process are. An id stands for a base and a player, and a base for one thread
(`Owns`); connections that were opened, identified or handed out are all of the thread
that owns their base (`ConnectionsOK`). `ProcessOK` says that a thread at one of its
connections has asked for none of that base from there on (`Fresh`), that the ids of the
tape threads and objects to come are unused, and which those are, by the place of the
master (`Ahead`). The ids themselves are strings put together with `\o` and `ToString`,
which the prover does not know. That they differ is `IdsAssumption`; TLC evaluates it for
the run, and it holds for all numbers, since no base contains a `P` and the two kinds of
bases begin with `T` and `t`.

Only model-checked are:

* all liveness (`Completes`, `Finishes`, `PeerLossNoticed`, `StartsOrEnds`, `AllArrive`),
  which is outside the prover's reach; that the correlation check passes is part of
  `AllArrive` and the algebra of sums of rows;
* `YaoSession` with more than one tape, apart from its types. With two `run_tape` and no
  reveal between them the parties do get out of step (`MCYaoTwoSections.cfg`);
* `CryptoPlayer`: what an operation has to deliver is unfolded from a recursive program
  (`Loop`), which calls for an induction over data. `StarkGarble`: the same, over the
  trace;
* `PPSS`, which needs bitwise operators, which the prover does not know either.

## Not modelled

Most of the repository is MP-SPDZ as its authors publish it: other protocols
(`BMR/`, `Protocols/`, `FHE/`, `FHEOffline/`, `ECDSA/`, `SimpleOT`), the compiler, the virtual
machines for arithmetic circuits (`Processor/`, `Math/`), and vendored libraries
(`deps/`). None of it runs when simple-OPRF's programs do, or it is a library below
them; the models cover the code that does and has state of its own, which is a small
share of all lines.

Within that code:

* networking: the statistics, certificates and what TLS does apart from the rendezvous
  of its handshake, the receive timeout of the sockets, the coordinator's check whether
  parties are on one host. `YaoSession` and `VoprfSession` take a connection to be a FIFO
  queue, which `Exchanger` and `CryptoPlayer` are about;
* oblivious transfer: lattice arithmetic (keys are a group, encryption is perfect), the
  transposition of matrices, random and hashed extensions, which Yao does not use, what
  `ot.x` and `OTTripleSetup` do with their base transfers after `init()` or the check, the
  generators (`GlobalPRNG`, `PRNG`), which are any functions. `nsubloops` is assumed to
  divide the blocks. The top-level `OTExtensionWithMatrix.cpp` is a snapshot that is not
  built; in its `setup()` the base transfers get the role of the extension and not its
  inverse;
* STARK: the library winterfell (a proof is its trace) and randomness of the proofs;
* PPSS: hashes are any functions; what the server sends in Reconstruct is a stand-in in
  the code, too;
* Yao: registers and wires of the virtual machine apart from the revealed bit, private
  outputs, timing. The part of a gate id that tells the tape threads of a party apart is
  left out, as are worker instructions that use no worker (`andm`);
* threads: `pthread_cond_wait` is taken to return only when signalled;
* benchmarks and dumps are loops around the components above.

## Plan

1. Garbling, plain evaluation and their refinement, with proofs (done).
2. Yao session: both parties, threads, modes and phases (done).
3. `voprf_e2e` session (done).
4. AND and XOR workers: `WaitQueue` and `Worker` under interleaving, splits, gate
   buffer, repeated ANDs (done). Theorems: splits fit the workers, one job each, gates in
   order (done).
5. `ReceivedMsgStore` as a refinement of the queue `YaoSession` uses, with its proof (done).
6. Base transfers, extension and their composition (done).
7. PPSS and STARK (done); networking: start, exchange, encrypted connections (done).
8. Proofs beyond those of 1, 4 and 5: the verdicts of `VoprfSession`, the extensions,
   types, seeds and Kyber ciphertexts of `Transfers`, the deliveries of `Exchanger`, the
   ends and ids of the connections of `PartyStart`, the types of `YaoSession` and, for
   sessions of one tape, that its parties stay in step (done). Left: `InStep` for sessions
   of several tapes. `PPSS`, `StarkGarble` and `CryptoPlayer` stay with TLC.
