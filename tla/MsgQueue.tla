------------------------------ MODULE MsgQueue ------------------------------
(***************************************************************************)
(* What a ReceivedMsgStore promises: a queue of messages.  push takes the  *)
(* caller's message, which may or may not be left in the caller's buffer;  *)
(* pop gives back the oldest one and TRUE, or FALSE if there is none.  An  *)
(* exception ends the use of the store, and so does destroying it; what is *)
(* in the caller's buffer after one in pop is open.                        *)
(***************************************************************************)
EXTENDS Sequences

CONSTANTS Messages,   \* contents of a ReceivedMsg
          NoMsg       \* that of a buffer that was moved from

VARIABLES queue,      \* the messages in the store
          msg,        \* the caller's buffer
          result,     \* what the last pop returned
          state       \* "live", "failed" after an exception, "gone" once destroyed

vars == <<queue, msg, result, state>>

Init == queue = <<>> /\ msg = NoMsg /\ result = FALSE /\ state = "live"

(* The caller receives or builds its next message.                         *)
Fill == msg' \in Messages /\ UNCHANGED <<queue, result, state>>

Push ==
    /\ queue' = Append(queue, msg)
    /\ msg' \in {msg, NoMsg}
    /\ UNCHANGED <<result, state>>

Pop ==
    /\ queue # <<>>
    /\ msg' = Head(queue)
    /\ queue' = Tail(queue)
    /\ result' = TRUE
    /\ UNCHANGED state

PopNothing ==
    /\ queue = <<>>
    /\ result' = FALSE
    /\ UNCHANGED <<queue, msg, state>>

PushFails == state' = "failed" /\ UNCHANGED <<queue, msg, result>>

PopFails ==
    /\ queue # <<>>
    /\ queue' = Tail(queue)
    /\ msg' \in Messages
    /\ state' = "failed"
    /\ UNCHANGED result

Discard == state' = "gone" /\ queue' = <<>> /\ UNCHANGED <<msg, result>>

Next ==
    /\ state = "live"
    /\ \/ Fill \/ Push \/ Pop \/ PopNothing
       \/ PushFails \/ PopFails \/ Discard

Spec == Init /\ [][Next]_vars
=============================================================================
