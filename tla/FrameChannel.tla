---------------------------- MODULE FrameChannel ----------------------------
(***************************************************************************)
(* What the socket promises its users, in whole frames: frames come out in *)
(* the order they went in and unchanged, and the receiver is told of the   *)
(* sender's end only after everything the sender was told is sent.         *)
(***************************************************************************)
EXTENDS Naturals, Sequences

VARIABLES
  channel,    \* the frames in flight
  taken,      \* frames put in so far
  received,   \* what has come out
  sender,     \* "open" or "closed"
  receiver    \* "open", "eof" once told of the sender's end, or "closed"

vars == <<channel, taken, received, sender, receiver>>

Init ==
  /\ channel = <<>>
  /\ taken = 0
  /\ received = <<>>
  /\ sender = "open"
  /\ receiver = "open"

\* The next frame goes in; frames are known by their number.
Put ==
  /\ sender = "open"
  /\ taken' = taken + 1
  /\ channel' = Append(channel, taken')
  /\ UNCHANGED <<received, sender, receiver>>

Get ==
  /\ receiver = "open"
  /\ channel # <<>>
  /\ channel' = Tail(channel)
  /\ received' = Append(received, Head(channel))
  /\ UNCHANGED <<taken, sender, receiver>>

\* The sender gives up, at any time.
SenderEnds ==
  /\ sender = "open"
  /\ sender' = "closed"
  /\ UNCHANGED <<channel, taken, received, receiver>>

Eof ==
  /\ receiver = "open"
  /\ sender = "closed"
  /\ channel = <<>>
  /\ receiver' = "eof"
  /\ UNCHANGED <<channel, taken, received, sender>>

\* The receiver gives up, at any time; what is in flight never comes out.
ReceiverEnds ==
  /\ receiver # "closed"
  /\ receiver' = "closed"
  /\ UNCHANGED <<channel, taken, received, sender>>

Next == Put \/ Get \/ SenderEnds \/ Eof \/ ReceiverEnds

Spec == Init /\ [][Next]_vars

============================================================================
