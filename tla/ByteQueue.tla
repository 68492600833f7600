------------------------------ MODULE ByteQueue ------------------------------
(***************************************************************************)
(* What the serial driver promises to the code that reads a UART: a        *)
(* bounded first-in first-out queue of bytes that, when it is full, makes  *)
(* room for a new byte by giving up the oldest one.  UartRx is shown to    *)
(* implement this specification.                                           *)
(***************************************************************************)
EXTENDS Naturals, Sequences

CONSTANTS
  Byte,  \* the values a byte can have
  Cap    \* how many bytes the queue can hold

VARIABLES
  queue, \* the bytes received and not yet read, oldest first
  out    \* the byte the application read last

vars == <<queue, out>>

Init ==
  /\ queue = <<>>
  /\ out \in Byte

\* A byte arrives; a full queue gives up its oldest byte.
Put(b) ==
  /\ queue' = IF Len(queue) = Cap THEN Append(Tail(queue), b)
                                  ELSE Append(queue, b)
  /\ UNCHANGED out

\* The application takes the oldest byte.
Take ==
  /\ queue # <<>>
  /\ out' = Head(queue)
  /\ queue' = Tail(queue)

\* Somebody else takes the oldest byte.
Discard ==
  /\ queue # <<>>
  /\ queue' = Tail(queue)
  /\ UNCHANGED out

Next ==
  \/ \E b \in Byte : Put(b)
  \/ Take
  \/ Discard

Spec == Init /\ [][Next]_vars
=============================================================================
