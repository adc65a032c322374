-------------------------- MODULE ReceivedMsgStore --------------------------
(***************************************************************************)
(* Tools/FlexBuffer.cpp: the store in which a one-shot evaluator keeps the *)
(* batches until it runs.  The first N messages stay in memory, in a ring  *)
(* (N is 1 in the code); the others go to a temporary file each.  To keep  *)
(* the order, a message goes to a file as long as there is one, even if    *)
(* the ring has room again.                                                *)
(*                                                                         *)
(* A message in memory is moved, so the caller's buffer is left empty; one *)
(* that goes to a file is copied.                                          *)
(***************************************************************************)
EXTENDS Integers, Sequences

CONSTANTS N,         \* slots of the ring
          Data,      \* contents of a message
          NoData,    \* none: the content of a reset buffer
          Ptrs,      \* read positions in a message
          Names      \* file names mkstemp may come up with

ASSUME NOK == N \in Nat \ {0}

(* A ReceivedMsg: its bytes and how far they were read (ptr - buf).        *)
NoMsg == [data |-> NoData, ptr |-> 0]
Messages == [data : Data, ptr : Ptrs] \union {NoMsg}

VARIABLES mem, start, mem_size, files,
          disk,      \* the temporary files: name -> content
          msg,       \* the caller's buffer
          result,    \* what the last pop returned
          state      \* "live", "failed" after an exception, "gone" once destroyed

vars == <<mem, start, mem_size, files, disk, msg, result, state>>

Slots == 0 .. N - 1

Init ==
    /\ mem = [s \in Slots |-> NoMsg]
    /\ start = 0
    /\ mem_size = 0
    /\ files = <<>>
    /\ disk = [f \in {} |-> NoMsg]
    /\ msg = NoMsg
    /\ result = FALSE
    /\ state = "live"

(* YaoEvaluator::receive fills the buffer the next push is called with.    *)
Fill(m) ==
    /\ state = "live"
    /\ msg' = m
    /\ UNCHANGED <<mem, start, mem_size, files, disk, result, state>>

(* Mutant: the ring is used whenever it has room.                          *)
InMemory_always == mem_size # N

InMemory == mem_size # N /\ files = <<>>

(* FlexBuffer::operator= moves.                                            *)
Push_memory ==
    /\ state = "live"
    /\ InMemory
    /\ mem' = [mem EXCEPT ![(start + mem_size) % N] = msg]
    /\ mem_size' = mem_size + 1
    /\ msg' = NoMsg
    /\ UNCHANGED <<start, files, disk, result, state>>

Push_file ==
    /\ state = "live"
    /\ ~InMemory
    /\ \E f \in Names \ DOMAIN disk :
          /\ disk' = [g \in DOMAIN disk \union {f} |-> IF g = f THEN msg ELSE disk[g]]
          /\ files' = Append(files, f)
    /\ UNCHANGED <<mem, start, mem_size, msg, result, state>>

(* The file cannot be opened, or it can but not be written: push throws    *)
(* and the file, if any, is not in `files'.  Nobody catches the exception. *)
Push_fails ==
    /\ state = "live"
    /\ ~InMemory
    /\ \/ UNCHANGED disk
       \/ \E f \in Names \ DOMAIN disk :
             disk' = [g \in DOMAIN disk \union {f} |-> IF g = f THEN NoMsg ELSE disk[g]]
    /\ state' = "failed"
    /\ UNCHANGED <<mem, start, mem_size, files, msg, result>>

Pop_memory ==
    /\ state = "live"
    /\ mem_size # 0
    /\ msg' = mem[start]
    /\ mem' = [mem EXCEPT ![start] = NoMsg]
    /\ start' = (start + 1) % N
    /\ mem_size' = mem_size - 1
    /\ result' = TRUE
    /\ UNCHANGED <<files, disk, state>>

(* Mutant: the file stays.                                                 *)
Pop_file_keeps ==
    /\ state = "live"
    /\ mem_size = 0
    /\ files # <<>>
    /\ msg' = disk[Head(files)]
    /\ files' = Tail(files)
    /\ result' = TRUE
    /\ UNCHANGED <<mem, start, mem_size, disk, state>>

Pop_file ==
    /\ state = "live"
    /\ mem_size = 0
    /\ files # <<>>
    /\ msg' = disk[Head(files)]
    /\ files' = Tail(files)
    /\ disk' = [g \in DOMAIN disk \ {Head(files)} |-> disk[g]]
    /\ result' = TRUE
    /\ UNCHANGED <<mem, start, mem_size, state>>

(* The file cannot be opened again, or is shorter than it says: what is in *)
(* the caller's buffer is open, and the file is neither in `files' nor     *)
(* removed.                                                                *)
Pop_fails ==
    /\ state = "live"
    /\ mem_size = 0
    /\ files # <<>>
    /\ files' = Tail(files)
    /\ msg' \in Messages
    /\ state' = "failed"
    /\ UNCHANGED <<mem, start, mem_size, disk, result>>

Pop_nothing ==
    /\ state = "live"
    /\ mem_size = 0
    /\ files = <<>>
    /\ result' = FALSE
    /\ UNCHANGED <<mem, start, mem_size, files, disk, msg, state>>

(* ~ReceivedMsgStore removes the files that were never popped; the ring    *)
(* and the list of files are destroyed with it.                            *)
Destroy ==
    /\ state = "live"
    /\ disk' = [g \in DOMAIN disk \ {files[i] : i \in 1 .. Len(files)} |-> disk[g]]
    /\ files' = <<>>
    /\ mem' = [s \in Slots |-> NoMsg]
    /\ mem_size' = 0
    /\ state' = "gone"
    /\ UNCHANGED <<start, msg, result>>

Push == Push_memory \/ Push_file \/ Push_fails
Pop == Pop_memory \/ Pop_file \/ Pop_fails \/ Pop_nothing

Next == (\E m \in Messages : Fill(m)) \/ Push \/ Pop \/ Destroy

Spec == Init /\ [][Next]_vars
-----------------------------------------------------------------------------
(* The messages in the ring, oldest first, and then those in files.        *)
Stored ==
    [i \in 1 .. mem_size + Len(files) |->
        IF i <= mem_size THEN mem[(start + i - 1) % N] ELSE disk[files[i - mem_size]]]

TypeOK ==
    /\ mem \in [Slots -> Messages]
    /\ start \in Slots
    /\ mem_size \in 0 .. N
    /\ files \in Seq(Names)
    /\ DOMAIN disk \subseteq Names
    /\ \A f \in DOMAIN disk : disk[f] \in Messages
    /\ msg \in Messages
    /\ result \in BOOLEAN
    /\ state \in {"live", "failed", "gone"}

(* While the store is in use, the temporary files are the ones waiting to  *)
(* be popped, each once; none is left once it is destroyed (pop removes    *)
(* the file it read, the destructor the others).                           *)
FilesAccounted ==
    /\ \A i, j \in 1 .. Len(files) : files[i] = files[j] => i = j
    /\ state = "live" => DOMAIN disk = {files[i] : i \in 1 .. Len(files)}
    /\ state = "gone" => DOMAIN disk = {}

(* The store is a queue: what pop returns is the oldest message pushed,    *)
(* with its read position, and nothing is lost between ring and files.     *)
Queue == INSTANCE MsgQueue WITH queue <- Stored

IsQueue == Queue!Spec
=============================================================================
