----------------------- MODULE ReceivedMsgStoreProofs -----------------------
(* The store is a queue, for every size of its ring.                       *)
EXTENDS ReceivedMsgStore, SequenceTheorems, TLAPS

Inv == TypeOK /\ FilesAccounted

LEMMA NoMsgIsMessage == NoMsg \in Messages
BY DEF Messages

(* Indices into the ring stay below twice its size.                        *)
LEMMA Wrap ==
    ASSUME NEW a \in 0 .. 2 * N - 1
    PROVE  /\ a % N = IF a < N THEN a ELSE a - N
           /\ a % N \in Slots
<1>1. CASE a < N
  BY <1>1, NOK DEF Slots
<1>2. CASE ~(a < N)
  <2>1. a - N \in 0 .. N - 1 /\ a = N * 1 + (a - N)
    BY <1>2, NOK
  <2>2. a % N = a - N
    BY <2>1, NOK, SMTT(30)
  <2> QED BY <2>1, <2>2, <1>2 DEF Slots
<1> QED BY <1>1, <1>2

LEMMA RingStep ==
    ASSUME NEW s \in Slots, NEW i \in 0 .. N - 1
    PROVE  (((s + 1) % N) + i) % N = (s + i + 1) % N
<1>1. CASE s + 1 < N
  <2>1. (s + 1) % N = s + 1
    BY <1>1, NOK, Wrap DEF Slots
  <2> QED BY <2>1, <1>1, NOK DEF Slots
<1>2. CASE s + 1 = N
  <2>1. (s + 1) % N = 0
    BY <1>2, NOK, Wrap DEF Slots
  <2>2. (0 + i) % N = i /\ (s + i + 1) % N = i
    BY <1>2, NOK, Wrap DEF Slots
  <2> QED BY <2>1, <2>2
<1> QED BY <1>1, <1>2, NOK DEF Slots

LEMMA RingDistinct ==
    ASSUME NEW s \in Slots, NEW i \in 0 .. N - 1, NEW j \in 0 .. N - 1, i # j
    PROVE  (s + i) % N # (s + j) % N
<1>1. s + i \in 0 .. 2 * N - 1 /\ s + j \in 0 .. 2 * N - 1
  BY NOK DEF Slots
<1> QED BY <1>1, Wrap, NOK DEF Slots
-----------------------------------------------------------------------------
(* The store's variables keep their types and every temporary file is      *)
(* accounted for: none is lost before its message was popped.              *)
THEOREM Invariance == Spec => []Inv
<1>1. Init => Inv
  <2> SUFFICES ASSUME Init PROVE Inv
    OBVIOUS
  <2>1. DOMAIN disk = {} /\ files = <<>> /\ Len(files) = 0 /\ files \in Seq(Names)
    BY DEF Init
  <2>2. mem \in [Slots -> Messages] /\ start \in Slots /\ mem_size \in 0 .. N
    BY NOK, NoMsgIsMessage DEF Init, Slots
  <2>3. msg \in Messages /\ state = "live"
    BY NoMsgIsMessage DEF Init
  <2>4. result \in BOOLEAN
    BY Zenon DEF Init
  <2>5. FilesAccounted
    BY <2>1, <2>3 DEF FilesAccounted
  <2> QED BY <2>1, <2>2, <2>3, <2>4, <2>5 DEF Inv, TypeOK
<1>2. Inv /\ [Next]_vars => Inv'
  <2> SUFFICES ASSUME Inv, [Next]_vars PROVE Inv'
    OBVIOUS
  <2> USE DEF Inv
  <2>1. CASE \E m \in Messages : Fill(m)
    BY <2>1 DEF Fill, TypeOK, FilesAccounted
  <2>2. CASE Push_memory
    <3>1. (start + mem_size) % N \in Slots /\ mem_size + 1 \in 0 .. N
      BY <2>2, Wrap, NOK DEF Push_memory, InMemory, TypeOK, Slots
    <3> QED BY <2>2, <3>1, NoMsgIsMessage DEF Push_memory, TypeOK, FilesAccounted
  <2>3. CASE Push_file
    <3>1. PICK f \in Names \ DOMAIN disk :
             /\ disk' = [g \in DOMAIN disk \union {f} |-> IF g = f THEN msg ELSE disk[g]]
             /\ files' = Append(files, f)
      BY <2>3 DEF Push_file
    <3>2. UNCHANGED <<mem, start, mem_size, msg, result, state>> /\ state = "live"
      BY <2>3 DEF Push_file
    <3>3. DOMAIN disk' = DOMAIN disk \union {f}
      BY <3>1
    <3>4. /\ files' \in Seq(Names) /\ Len(files') = Len(files) + 1
          /\ files'[Len(files) + 1] = f
          /\ \A i \in 1 .. Len(files) : files'[i] = files[i]
      BY <3>1 DEF TypeOK
    <3>5. TypeOK'
      BY <3>1, <3>2, <3>3, <3>4 DEF TypeOK
    <3>6. DOMAIN disk = {files[i] : i \in 1 .. Len(files)}
      BY <3>2 DEF FilesAccounted
    <3>7. Len(files) \in Nat
      BY DEF TypeOK
    <3>8. {files'[i] : i \in 1 .. Len(files')} = DOMAIN disk \union {f}
      BY <3>4, <3>6, <3>7
    <3>9. \A i, j \in 1 .. Len(files') : files'[i] = files'[j] => i = j
      BY <3>1, <3>4, <3>6, <3>7 DEF FilesAccounted
    <3> QED BY <3>2, <3>3, <3>5, <3>8, <3>9 DEF FilesAccounted
  <2>4. CASE Push_fails
    <3>1. PICK D \in SUBSET Names : 
             /\ DOMAIN disk' = DOMAIN disk \union D
             /\ \A g \in DOMAIN disk' : disk'[g] \in Messages
      <4>1. CASE UNCHANGED disk
        BY <4>1 DEF TypeOK
      <4>2. CASE \E f \in Names \ DOMAIN disk :
             disk' = [g \in DOMAIN disk \union {f} |-> IF g = f THEN NoMsg ELSE disk[g]]
        BY <4>2, NoMsgIsMessage DEF TypeOK
      <4> QED BY <2>4, <4>1, <4>2 DEF Push_fails
    <3> QED BY <2>4, <3>1 DEF Push_fails, TypeOK, FilesAccounted
  <2>5. CASE Pop_memory
    <3>1. start \in Slots /\ (start + 1) % N \in Slots /\ mem_size - 1 \in 0 .. N
      BY <2>5, Wrap, NOK DEF Pop_memory, TypeOK, Slots
    <3>2. mem[start] \in Messages
      BY <3>1 DEF TypeOK
    <3> QED BY <2>5, <3>1, <3>2, NoMsgIsMessage DEF Pop_memory, TypeOK, FilesAccounted
  <2>6. CASE Pop_file
    <3>1. /\ state = "live" /\ files # <<>> /\ msg' = disk[files[1]] /\ files' = Tail(files)
          /\ disk' = [g \in DOMAIN disk \ {files[1]} |-> disk[g]]
          /\ result' = TRUE
          /\ UNCHANGED <<mem, start, mem_size, state>>
      BY <2>6 DEF Pop_file, TypeOK
    <3>2. /\ Len(files) \in Nat \ {0} /\ files' \in Seq(Names) /\ Len(files') = Len(files) - 1
          /\ \A i \in 1 .. Len(files') : files'[i] = files[i + 1]
      BY <3>1 DEF TypeOK
    <3>3. DOMAIN disk = {files[i] : i \in 1 .. Len(files)} /\ DOMAIN disk' = DOMAIN disk \ {files[1]}
      BY <3>1 DEF FilesAccounted
    <3>4. TypeOK'
      BY <3>1, <3>2, <3>3 DEF TypeOK
    <3>5. {files'[i] : i \in 1 .. Len(files')} = DOMAIN disk \ {files[1]}
      <4>1. ASSUME NEW i \in 1 .. Len(files') PROVE files'[i] \in DOMAIN disk \ {files[1]}
        BY <4>1, <3>2, <3>3 DEF FilesAccounted
      <4>2. ASSUME NEW g \in DOMAIN disk \ {files[1]} PROVE \E i \in 1 .. Len(files') : g = files'[i]
        <5>1. PICK k \in 1 .. Len(files) : g = files[k]
          BY <3>3
        <5>2. k - 1 \in 1 .. Len(files') /\ files'[k - 1] = files[k]
          BY <5>1, <3>2, <4>2
        <5> QED BY <5>1, <5>2
      <4> QED BY <4>1, <4>2
    <3>6. \A i, j \in 1 .. Len(files') : files'[i] = files'[j] => i = j
      BY <3>2 DEF FilesAccounted
    <3> QED BY <3>1, <3>3, <3>4, <3>5, <3>6 DEF FilesAccounted
  <2>7. CASE Pop_nothing
    <3>1. result' \in BOOLEAN
      BY <2>7, Zenon DEF Pop_nothing
    <3>2. UNCHANGED <<mem, start, mem_size, files, disk, msg, state>>
      BY <2>7, Zenon DEF Pop_nothing
    <3> QED BY <3>1, <3>2 DEF TypeOK, FilesAccounted
  <2>8. CASE Destroy
    BY <2>8, NOK, NoMsgIsMessage DEF Destroy, TypeOK, FilesAccounted, Slots
  <2>9. CASE UNCHANGED vars
    BY <2>9 DEF vars, TypeOK, FilesAccounted
  <2>10. CASE Pop_fails
    <3>1. /\ files # <<>> /\ files' = Tail(files) /\ msg' \in Messages /\ state' = "failed"
          /\ UNCHANGED <<mem, start, mem_size, disk, result>>
      BY <2>10 DEF Pop_fails
    <3>2. /\ Len(files) \in Nat \ {0} /\ files' \in Seq(Names) /\ Len(files') = Len(files) - 1
          /\ \A i \in 1 .. Len(files') : files'[i] = files[i + 1]
      BY <3>1 DEF TypeOK
    <3>3. \A i, j \in 1 .. Len(files') : files'[i] = files'[j] => i = j
      BY <3>2 DEF FilesAccounted
    <3> QED BY <3>1, <3>2, <3>3 DEF TypeOK, FilesAccounted
  <2> QED BY <2>1, <2>2, <2>3, <2>4, <2>5, <2>6, <2>7, <2>8, <2>9, <2>10 DEF Next, Push, Pop
<1> QED BY <1>1, <1>2, PTL DEF Spec

(* No file is listed twice, and while the store works the files on disk    *)
(* are the listed ones.                                                    *)
THEOREM FilesCorrect == Spec => []FilesAccounted
BY Invariance, PTL DEF Inv

-----------------------------------------------------------------------------
(* What is stored, as a sequence.                                          *)
LEMMA StoredType ==
    ASSUME TypeOK
    PROVE  /\ mem_size \in Nat /\ Len(files) \in Nat
           /\ DOMAIN Stored = 1 .. mem_size + Len(files)
BY NOK DEF TypeOK, Stored

LEMMA StoredSeq ==
    ASSUME TypeOK, FilesAccounted, state = "live"
    PROVE  /\ Stored \in Seq(Messages)
           /\ Len(Stored) = mem_size + Len(files)
<1>1. ASSUME NEW i \in 1 .. mem_size + Len(files) PROVE Stored[i] \in Messages
  <2>1. CASE i <= mem_size
    <3>1. start + i - 1 \in 0 .. 2 * N - 1
      BY <2>1, NOK, StoredType DEF TypeOK, Slots
    <3>2. (start + i - 1) % N \in Slots
      BY <3>1, Wrap
    <3> QED BY <2>1, <3>2 DEF Stored, TypeOK
  <2>2. CASE ~(i <= mem_size)
    <3>1. i - mem_size \in 1 .. Len(files)
      BY <2>2, StoredType
    <3>2. files[i - mem_size] \in DOMAIN disk
      BY <3>1 DEF FilesAccounted
    <3> QED BY <2>2, <3>2 DEF Stored, TypeOK
  <2> QED BY <2>1, <2>2
<1>2. Stored = [i \in 1 .. mem_size + Len(files) |-> Stored[i]]
  BY DEF Stored
<1> QED BY <1>1, <1>2, StoredType

(* A function that agrees with Append(s, e), or with Tail(s), is that.     *)
LEMMA IsAppend ==
    ASSUME NEW S, NEW s \in Seq(S), NEW e \in S, NEW n \in Nat, n = Len(s) + 1,
           NEW F, F = [i \in 1 .. n |-> F[i]],
           \A i \in 1 .. Len(s) : F[i] = s[i], F[n] = e
    PROVE  F = Append(s, e)
<1>1. Len(s) \in Nat /\ \A i \in 1 .. Len(s) : s[i] \in S
  BY LenProperties
<1>2. \A i \in 1 .. n : F[i] \in S
  <2> TAKE i \in 1 .. n
  <2>1. i \in 1 .. Len(s) \/ i = n
    BY <1>1
  <2> QED BY <1>1, <2>1
<1>3. F \in Seq(S) /\ Len(F) = n
  BY <1>2
<1>4. Append(s, e) \in Seq(S) /\ Len(Append(s, e)) = n
  BY <1>1
<1>5. \A i \in 1 .. n : F[i] = Append(s, e)[i]
  BY <1>1
<1> QED BY <1>3, <1>4, <1>5, SeqEqual

LEMMA IsTail ==
    ASSUME NEW S, NEW s \in Seq(S), s # <<>>, NEW n \in Nat, n = Len(s) - 1,
           NEW F, F = [i \in 1 .. n |-> F[i]],
           \A i \in 1 .. n : F[i] = s[i + 1]
    PROVE  F = Tail(s)
<1>1. /\ Tail(s) \in Seq(S) /\ Len(Tail(s)) = n
      /\ \A i \in 1 .. n : Tail(s)[i] = s[i + 1]
  BY HeadTailProperties
<1>2. \A i \in 1 .. n : F[i] \in S
  <2>1. Len(s) \in Nat /\ \A i \in 1 .. Len(s) : s[i] \in S
    BY LenProperties
  <2> QED BY <2>1
<1>3. F \in Seq(S) /\ Len(F) = n
  BY <1>2
<1> QED BY <1>1, <1>3, SeqEqual

(* Every step of the store is a step of the queue or leaves it alone: the  *)
(* store hands messages out in the order it got them, for every N.         *)
THEOREM StoreIsQueue == Spec => IsQueue
<1>1. Init => Queue!Init
  <2> SUFFICES ASSUME Init PROVE Queue!Init
    OBVIOUS
  <2>1. Stored = <<>>
    BY DEF Init, Stored
  <2> QED BY <2>1, Zenon DEF Init, Queue!Init
<1>2. Inv /\ [Next]_vars => [Queue!Next]_Queue!vars
  <2> SUFFICES ASSUME Inv, [Next]_vars PROVE [Queue!Next]_Queue!vars
    OBVIOUS
  <2> USE DEF Inv
  <2>1. CASE \E m \in Messages : Fill(m)
    <3>1. Stored' = Stored /\ Queue!Fill /\ state = "live"
      BY <2>1 DEF Fill, Stored, Queue!Fill
    <3> QED BY <3>1 DEF Queue!Next
  <2>2. CASE Push_memory
    <3>1. /\ state = "live" /\ mem_size # N /\ files = <<>> /\ msg' = NoMsg
          /\ mem' = [mem EXCEPT ![(start + mem_size) % N] = msg] /\ mem_size' = mem_size + 1
          /\ UNCHANGED <<start, files, disk>>
      BY <2>2 DEF Push_memory, InMemory
    <3>2. mem_size \in 0 .. N - 1 /\ start \in Slots /\ Len(files) = 0
      BY <3>1, NOK DEF TypeOK
    <3>3. ASSUME NEW i \in 1 .. mem_size + 1
          PROVE  mem'[(start + i - 1) % N] = IF i = mem_size + 1 THEN msg ELSE mem[(start + i - 1) % N]
      <4>1. i - 1 \in 0 .. N - 1 /\ start + (i - 1) = start + i - 1
        BY <3>2, NOK DEF Slots
      <4>2. start + (i - 1) \in 0 .. 2 * N - 1 /\ start + mem_size \in 0 .. 2 * N - 1
        BY <3>2, <4>1, NOK DEF Slots
      <4>3. (start + (i - 1)) % N \in Slots /\ (start + mem_size) % N \in Slots
        BY <4>2, Wrap
      <4>4. i # mem_size + 1 => (start + (i - 1)) % N # (start + mem_size) % N
        BY <4>1, <3>2, RingDistinct
      <4>5. i = mem_size + 1 => start + i - 1 = start + mem_size
        BY <3>2 DEF Slots
      <4> QED BY <3>1, <4>1, <4>3, <4>4, <4>5 DEF TypeOK
    <3>4. Stored \in Seq(Messages) /\ Len(Stored) = mem_size
      BY <3>1, <3>2, StoredSeq
    <3>5. Stored' = [i \in 1 .. mem_size + 1 |-> mem'[(start + i - 1) % N]]
      BY <3>1, <3>2 DEF Stored
    <3>6. Stored = [i \in 1 .. mem_size |-> mem[(start + i - 1) % N]]
      BY <3>1, <3>2 DEF Stored
    <3>7. msg \in Messages /\ mem_size + 1 \in Nat
      BY <3>2 DEF TypeOK
    <3>8. Stored' = Append(Stored, msg)
      <4>1. Stored' = [i \in 1 .. mem_size + 1 |-> Stored'[i]]
        BY <3>5
      <4>2. mem_size + 1 \in 1 .. mem_size + 1
        BY <3>2
      <4>3. Stored'[mem_size + 1] = msg
        BY <3>3, <3>5, <4>2
      <4>4. \A i \in 1 .. Len(Stored) : Stored'[i] = Stored[i]
        <5> TAKE i \in 1 .. Len(Stored)
        <5>1. i \in 1 .. mem_size /\ i \in 1 .. mem_size + 1 /\ i # mem_size + 1
          BY <3>2, <3>4
        <5> QED BY <5>1, <3>3, <3>5, <3>6
      <4> QED BY <4>1, <4>3, <4>4, <3>4, <3>7, IsAppend
    <3>9. UNCHANGED <<result, state>>
      BY <2>2 DEF Push_memory
    <3> QED BY <3>1, <3>8, <3>9 DEF Queue!Next, Queue!Push
  <2>3. CASE Push_file
    <3>1. PICK f \in Names \ DOMAIN disk :
             /\ disk' = [g \in DOMAIN disk \union {f} |-> IF g = f THEN msg ELSE disk[g]]
             /\ files' = Append(files, f)
      BY <2>3 DEF Push_file
    <3>2. UNCHANGED <<mem, start, mem_size, msg, result, state>> /\ state = "live"
      BY <2>3 DEF Push_file
    <3>3. /\ Len(files') = Len(files) + 1 /\ files'[Len(files) + 1] = f
          /\ \A i \in 1 .. Len(files) : files'[i] = files[i]
      BY <3>1 DEF TypeOK
    <3>4. \A i \in 1 .. Len(files) : disk'[files'[i]] = disk[files[i]]
      <4> TAKE i \in 1 .. Len(files)
      <4>1. files[i] \in DOMAIN disk /\ files[i] # f
        BY <3>1, <3>2 DEF FilesAccounted
      <4> QED BY <4>1, <3>1, <3>3
    <3>5. disk'[f] = msg
      BY <3>1
    <3>6. Stored \in Seq(Messages) /\ Len(Stored) = mem_size + Len(files)
      BY <3>2, StoredSeq
    <3>7. mem_size \in Nat /\ Len(files) \in Nat
      BY StoredType
    <3>8. msg \in Messages /\ mem_size + Len(files) + 1 \in Nat
      BY <3>7 DEF TypeOK
    <3>9. Stored' = Append(Stored, msg)
      <4>1. Stored' = [i \in 1 .. mem_size + Len(files) + 1 |->
               IF i <= mem_size THEN mem[(start + i - 1) % N] ELSE disk'[files'[i - mem_size]]]
        BY <3>2, <3>3, <3>7 DEF Stored
      <4>2. ASSUME NEW i \in 1 .. mem_size + Len(files) + 1, ~(i <= mem_size)
            PROVE  disk'[files'[i - mem_size]] = IF i = mem_size + Len(files) + 1 THEN msg
                                                 ELSE disk[files[i - mem_size]]
        <5>1. CASE i = mem_size + Len(files) + 1
          BY <5>1, <3>3, <3>5, <3>7
        <5>2. CASE i # mem_size + Len(files) + 1
          <6>1. i - mem_size \in 1 .. Len(files)
            BY <5>2, <4>2, <3>7
          <6> QED BY <6>1, <5>2, <3>4
        <5> QED BY <5>1, <5>2
      <4>3. \A i \in 1 .. mem_size + Len(files) : Stored[i] =
               IF i <= mem_size THEN mem[(start + i - 1) % N] ELSE disk[files[i - mem_size]]
        BY DEF Stored
      <4>4. Stored' = [i \in 1 .. mem_size + Len(files) + 1 |-> Stored'[i]]
        BY <4>1
      <4>5. Stored'[mem_size + Len(files) + 1] = msg
        BY <4>1, <4>2, <3>7
      <4>6. \A i \in 1 .. mem_size + Len(files) : Stored'[i] = Stored[i]
        <5> TAKE i \in 1 .. mem_size + Len(files)
        <5>1. i \in 1 .. mem_size + Len(files) + 1 /\ i # mem_size + Len(files) + 1
          BY <3>7
        <5> QED BY <5>1, <4>1, <4>2, <4>3
      <4> QED BY <4>4, <4>5, <4>6, <3>6, <3>8, IsAppend
    <3> QED BY <3>2, <3>9 DEF Queue!Next, Queue!Push
  <2>4. CASE Push_fails
    <3>1. state = "live" /\ state' = "failed" /\ UNCHANGED <<mem, start, mem_size, files, msg, result>>
      BY <2>4 DEF Push_fails
    <3>2. \A i \in 1 .. Len(files) : disk'[files[i]] = disk[files[i]]
      <4> TAKE i \in 1 .. Len(files)
      <4>1. files[i] \in DOMAIN disk
        BY <3>1 DEF FilesAccounted
      <4> QED BY <4>1, <2>4 DEF Push_fails
    <3>3. Stored' = Stored
      BY <3>1, <3>2, StoredType DEF Stored
    <3> QED BY <3>1, <3>3 DEF Queue!Next, Queue!PushFails
  <2>5. CASE Pop_memory
    <3>1. /\ state = "live" /\ mem_size # 0 /\ msg' = mem[start]
          /\ mem' = [mem EXCEPT ![start] = NoMsg]
          /\ start' = (start + 1) % N /\ mem_size' = mem_size - 1
          /\ UNCHANGED <<files, disk, state>>
      BY <2>5 DEF Pop_memory
    <3>2. mem_size \in 1 .. N /\ start \in Slots /\ Len(files) \in Nat
      BY <3>1, NOK, StoredType DEF TypeOK
    <3>3. Stored \in Seq(Messages) /\ Len(Stored) = mem_size + Len(files)
      BY <3>1, StoredSeq
    <3>4. Stored # <<>> /\ Head(Stored) = mem[start]
      <4>1. start + 1 - 1 = start /\ start % N = start
        BY <3>2, NOK, Wrap DEF Slots
      <4> QED BY <3>2, <3>3, <4>1 DEF Stored
    <3>5. mem_size - 1 + Len(files) \in Nat /\ mem_size - 1 + Len(files) = Len(Stored) - 1
      BY <3>2, <3>3
    <3>6. ASSUME NEW i \in 1 .. mem_size - 1
          PROVE  mem'[(start' + i - 1) % N] = mem[(start + (i + 1) - 1) % N]
      <4>1. i \in 0 .. N - 1 /\ i - 1 \in 0 .. N - 1 /\ start + (i - 1) + 1 = start + i /\ i # 0
        BY <3>2, NOK DEF Slots
      <4>2. (start' + (i - 1)) % N = (start + i) % N
        BY <3>1, <3>2, <4>1, RingStep
      <4>3. (start + i) % N \in Slots
        BY <3>2, <4>1, Wrap, NOK DEF Slots
      <4>4. (start + i) % N # start
        <5>1. (start + i) % N # (start + 0) % N
          BY <3>2, <4>1, RingDistinct, NOK
        <5> QED BY <5>1, <3>2, NOK DEF Slots
      <4>5. start' \in Nat /\ start' + (i - 1) = start' + i - 1 /\ start + (i + 1) - 1 = start + i
        BY <3>1, <3>2, Wrap, NOK DEF Slots
      <4> QED BY <3>1, <4>2, <4>3, <4>4, <4>5 DEF TypeOK
    <3>7. Stored' = [i \in 1 .. mem_size - 1 + Len(files) |->
             IF i <= mem_size - 1 THEN mem'[(start' + i - 1) % N] ELSE disk[files[i - (mem_size - 1)]]]
      BY <3>1 DEF Stored
    <3>8. ASSUME NEW i \in 1 .. mem_size - 1 + Len(files)
          PROVE  Stored[i + 1] = IF i <= mem_size - 1 THEN mem[(start + (i + 1) - 1) % N]
                                 ELSE disk[files[i - (mem_size - 1)]]
      <4>1. i + 1 \in 1 .. mem_size + Len(files) /\ (i + 1 <= mem_size <=> i <= mem_size - 1)
            /\ (i + 1) - mem_size = i - (mem_size - 1)
        BY <3>2
      <4> QED BY <4>1 DEF Stored
    <3>9. Stored' = Tail(Stored)
      <4>1. Stored' = [i \in 1 .. mem_size - 1 + Len(files) |-> Stored'[i]]
        BY <3>7
      <4>2. \A i \in 1 .. mem_size - 1 + Len(files) : Stored'[i] = Stored[i + 1]
        <5> TAKE i \in 1 .. mem_size - 1 + Len(files)
        <5>1. i <= mem_size - 1 => i \in 1 .. mem_size - 1
          BY <3>2
        <5> QED BY <5>1, <3>6, <3>7, <3>8
      <4> QED BY <4>1, <4>2, <3>3, <3>4, <3>5, IsTail
    <3>10. result' = TRUE /\ UNCHANGED state
      BY <2>5 DEF Pop_memory
    <3> QED BY <3>1, <3>4, <3>9, <3>10 DEF Queue!Next, Queue!Pop
  <2>6. CASE Pop_file
    <3>1. /\ state = "live" /\ mem_size = 0 /\ files # <<>> /\ msg' = disk[files[1]]
          /\ files' = Tail(files)
          /\ disk' = [g \in DOMAIN disk \ {files[1]} |-> disk[g]]
          /\ UNCHANGED <<mem, start, mem_size, state>>
      BY <2>6 DEF Pop_file, TypeOK
    <3>2. /\ Len(files) \in Nat \ {0} /\ Len(files') = Len(files) - 1
          /\ \A i \in 1 .. Len(files') : files'[i] = files[i + 1]
      BY <3>1 DEF TypeOK
    <3>3. Stored \in Seq(Messages) /\ Len(Stored) = Len(files)
      BY <3>1, <3>2, StoredSeq
    <3>4. Stored = [i \in 1 .. Len(files) |-> disk[files[i]]]
      BY <3>1, <3>2 DEF Stored
    <3>5. Stored # <<>> /\ Head(Stored) = disk[files[1]]
      BY <3>2, <3>3, <3>4
    <3>6. Tail(Stored) = [i \in 1 .. Len(files) - 1 |-> disk[files[i + 1]]]
      BY <3>2, <3>3, <3>4, <3>5
    <3>7. Stored' = [i \in 1 .. Len(files) - 1 |-> disk'[files'[i]]]
      BY <3>1, <3>2 DEF Stored
    <3>8. ASSUME NEW i \in 1 .. Len(files) - 1 PROVE disk'[files'[i]] = disk[files[i + 1]]
      <4>1. files'[i] = files[i + 1] /\ files[i + 1] \in DOMAIN disk /\ files[i + 1] # files[1]
        BY <3>1, <3>2 DEF FilesAccounted
      <4> QED BY <4>1, <3>1
    <3>9. Stored' = Tail(Stored)
      BY <3>6, <3>7, <3>8
    <3>10. result' = TRUE /\ UNCHANGED state
      BY <2>6 DEF Pop_file
    <3> QED BY <3>1, <3>5, <3>9, <3>10 DEF Queue!Next, Queue!Pop
  <2>7. CASE Pop_nothing
    <3>1. UNCHANGED <<mem, start, mem_size, files, disk, msg, state>> /\ mem_size = 0 /\ files = <<>>
      BY <2>7, Zenon DEF Pop_nothing
    <3>2. state = "live" /\ result' = FALSE
      BY <2>7, Zenon DEF Pop_nothing
    <3>3. Stored' = Stored /\ Stored = <<>>
      BY <3>1 DEF Stored
    <3>4. Queue!PopNothing
      BY <3>1, <3>2, <3>3, Zenon DEF Queue!PopNothing
    <3> QED BY <3>2, <3>4, Zenon DEF Queue!Next
  <2>8. CASE Destroy
    <3>1. state = "live" /\ state' = "gone" /\ UNCHANGED <<msg, result>>
      BY <2>8 DEF Destroy
    <3>2. Stored' = <<>>
      BY <2>8 DEF Destroy, Stored
    <3> QED BY <3>1, <3>2 DEF Queue!Next, Queue!Discard
  <2>9. CASE UNCHANGED vars
    BY <2>9 DEF vars, Queue!vars, Stored
  <2>10. CASE Pop_fails
    <3>1. /\ state = "live" /\ mem_size = 0 /\ files # <<>> /\ files' = Tail(files)
          /\ msg' \in Messages /\ state' = "failed"
          /\ UNCHANGED <<mem, start, mem_size, disk, result>>
      BY <2>10 DEF Pop_fails
    <3>2. /\ Len(files) \in Nat \ {0} /\ Len(files') = Len(files) - 1
          /\ \A i \in 1 .. Len(files') : files'[i] = files[i + 1]
      BY <3>1 DEF TypeOK
    <3>3. Stored \in Seq(Messages) /\ Len(Stored) = Len(files)
      BY <3>1, <3>2, StoredSeq
    <3>4. Stored = [i \in 1 .. Len(files) |-> disk[files[i]]] /\ Stored # <<>>
      BY <3>1, <3>2, <3>3 DEF Stored
    <3>5. Tail(Stored) = [i \in 1 .. Len(files) - 1 |-> disk[files[i + 1]]]
      BY <3>2, <3>3, <3>4
    <3>6. Stored' = [i \in 1 .. Len(files) - 1 |-> disk[files'[i]]]
      BY <3>1, <3>2 DEF Stored
    <3>7. Stored' = Tail(Stored)
      BY <3>2, <3>5, <3>6
    <3> QED BY <3>1, <3>4, <3>7 DEF Queue!Next, Queue!PopFails
  <2> QED BY <2>1, <2>2, <2>3, <2>4, <2>5, <2>6, <2>7, <2>8, <2>9, <2>10 DEF Next, Push, Pop
<1> QED BY <1>1, <1>2, Invariance, PTL DEF Spec, IsQueue, Queue!Spec
=============================================================================
