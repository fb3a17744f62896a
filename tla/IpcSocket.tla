------------------------------ MODULE IpcSocket -----------------------------
(***************************************************************************)
(* The byte loops of ipc_socket_send and ipc_socket_recv.                  *)
(*                                                                         *)
(* The stream has no frame boundaries: send() may accept and read() may    *)
(* return any part of what it is given, the buffers between them hold less *)
(* or more than a frame, and both functions give up with half a frame done *)
(* on any error, EINTR included.  Bytes are numbered through the whole     *)
(* stream, frame n being bytes (n-1)*FrameSize+1 to n*FrameSize, so that a *)
(* frame put together from the wrong bytes shows.                          *)
(***************************************************************************)
EXTENDS Integers, Sequences

CONSTANTS
  FrameSize,    \* sizeof(ipc_frame_t)
  WireCap,      \* bytes the socket buffers hold
  MaxFrames     \* bound: frames sent

ASSUME SizeAssumption == FrameSize \in Nat \ {0} /\ WireCap \in Nat \ {0}

ASSUME MaxFramesAssumption == MaxFrames \in Nat

VARIABLES
  sender,     \* "idle", "sending" inside ipc_socket_send, "closed"
  cur,        \* the frame ipc_socket_send was last called with
  sent,       \* bytes of it that send() has accepted
  wire,       \* the bytes in the socket buffers
  receiver,   \* "open" inside ipc_socket_recv, "eof", "failed", "closed"
  buf,        \* the bytes of the next frame read so far
  received    \* the frames ipc_socket_recv has returned

vars == <<sender, cur, sent, wire, receiver, buf, received>>

\* Places and counters have their types, and no buffer overflows.
TypeOK ==
  /\ sender \in {"idle", "sending", "closed"}
  /\ cur \in 0..MaxFrames
  /\ sent \in 0..FrameSize
  /\ wire \in Seq(Nat) /\ Len(wire) <= WireCap
  /\ receiver \in {"open", "eof", "failed", "closed"}
  /\ buf \in Seq(Nat) /\ Len(buf) < FrameSize
  /\ received \in Seq(Seq(Nat))

Init ==
  /\ sender = "idle"
  /\ cur = 0
  /\ sent = FrameSize
  /\ wire = <<>>
  /\ receiver = "open"
  /\ buf = <<>>
  /\ received = <<>>

\* Byte i of frame n, and the whole frame.
Byte(n, i) == (n - 1) * FrameSize + i

Frame(n) == [i \in 1..FrameSize |-> Byte(n, i)]

----------------------------------------------------------------------------
(* ipc_socket_send, called by one handler after the other. *)

sending == <<sender, cur, sent>>
receiving == <<receiver, buf, received>>

SendFrame ==
  /\ sender = "idle"
  /\ cur < MaxFrames
  /\ sender' = "sending"
  /\ cur' = cur + 1
  /\ sent' = 0
  /\ UNCHANGED <<wire, receiving>>

\* Fault-seeded variant: every send() is given a whole frame.
OfferedAlways == FrameSize

\* What send() is given: the rest of the frame.
Offered == FrameSize - sent

\* Fault-seeded variant: no loop, whatever send() accepts passes for a frame.
SendOnce(k) ==
  /\ sender = "sending"
  /\ receiver # "closed"
  /\ k <= Offered /\ Len(wire) + k <= WireCap
  /\ wire' = wire \o [i \in 1..k |-> Byte(cur, sent + i)]
  /\ sent' = FrameSize
  /\ sender' = "idle"
  /\ UNCHANGED <<cur, receiving>>

\* send() accepts k bytes, and blocks while there is room for none; the call
\* returns 0 once the whole frame is out.
SendSome(k) ==
  /\ sender = "sending"
  /\ receiver # "closed"
  /\ k <= Offered /\ Len(wire) + k <= WireCap
  /\ wire' = wire \o [i \in 1..k |-> Byte(cur, sent + i)]
  /\ sent' = sent + k
  /\ sender' = IF sent' = FrameSize THEN "idle" ELSE "sending"
  /\ UNCHANGED <<cur, receiving>>

\* Fault-seeded variant: a failed send() is tried again.
SendRetries ==
  /\ sender = "sending"
  /\ UNCHANGED vars

\* send() fails: EPIPE once the peer has closed, or an interrupt.  The caller
\* closes the connection (on_ui_disconnected), maybe within a frame.
SendFails ==
  /\ sender = "sending"
  /\ sender' = "closed"
  /\ UNCHANGED <<cur, sent, wire, receiving>>

\* The daemon closes the connection between two frames, or dies.
DaemonEnds ==
  /\ sender # "closed"
  /\ sender' = "closed"
  /\ UNCHANGED <<cur, sent, wire, receiving>>

----------------------------------------------------------------------------
(* ipc_socket_recv, called in a loop by ui_ipc_recv_thread. *)

\* Fault-seeded variant: every read() asks for a whole frame.
WantedAlways == FrameSize

\* What read() is asked for: the rest of the frame.
Wanted == FrameSize - Len(buf)

\* Fault-seeded variant: no loop, whatever read() returns passes for a frame.
TakeOnce(bytes) ==
  /\ received' = Append(received, buf \o bytes)
  /\ buf' = <<>>

\* The bytes go behind what is in the buffer; a full buffer is a frame, which the
\* thread turns into an event before it calls again.
Take(bytes) ==
  IF Len(buf) + Len(bytes) >= FrameSize
  THEN received' = Append(received, buf \o bytes) /\ buf' = <<>>
  ELSE buf' = buf \o bytes /\ UNCHANGED received

\* read() returns k bytes of those that are there.
ReadSome(k) ==
  /\ receiver = "open"
  /\ k <= Wanted /\ k <= Len(wire)
  /\ Take(SubSeq(wire, 1, k))
  /\ wire' = SubSeq(wire, k + 1, Len(wire))
  /\ UNCHANGED <<sending, receiver>>

\* read() returns 0: the peer has closed and everything is read.  A frame that
\* has been read in part is given up.
ReadEof ==
  /\ receiver = "open"
  /\ sender = "closed"
  /\ wire = <<>>
  /\ receiver' = "eof"
  /\ UNCHANGED <<sending, wire, buf, received>>

\* read() fails, by an interrupt say: the thread gives up for good.
ReadFails ==
  /\ receiver = "open"
  /\ receiver' = "failed"
  /\ UNCHANGED <<sending, wire, buf, received>>

\* main() closes the connection at the end, or the UI dies.
UiEnds ==
  /\ receiver # "closed"
  /\ receiver' = "closed"
  /\ UNCHANGED <<sending, wire, buf, received>>

----------------------------------------------------------------------------
Chunks == 1..FrameSize

Next ==
  \/ SendFrame \/ SendFails \/ DaemonEnds
  \/ \E k \in Chunks : SendSome(k)
  \/ ReadEof \/ ReadFails \/ UiEnds
  \/ \E k \in Chunks : ReadSome(k)

Spec == Init /\ [][Next]_vars

\* The kernel moves bytes and reports the end: a system call that can return does.
\* Nobody has to send, fail, close or die, except that send() fails on a
\* connection the peer has closed.
Fairness ==
  /\ WF_vars(\E k \in Chunks : SendSome(k))
  /\ WF_vars(receiver = "closed" /\ SendFails)
  /\ WF_vars(\E k \in Chunks : ReadSome(k))
  /\ WF_vars(ReadEof)

FairSpec == Spec /\ Fairness

----------------------------------------------------------------------------
\* Every frame that ipc_socket_recv returns is, byte for byte, the frame sent in
\* its turn, however the stream was cut up by the two loops.
FramesWhole == \A n \in 1..Len(received) : received[n] = Frame(n)

\* The frames for which ipc_socket_send has returned 0.
Complete == IF sent = FrameSize THEN cur ELSE cur - 1

\* The number of the frame b is, or 0 if it is none.
NumberOf(b) ==
  IF \E n \in 1..MaxFrames : b = Frame(n)
  THEN CHOOSE n \in 1..MaxFrames : b = Frame(n) ELSE 0

Channel == INSTANCE FrameChannel WITH
  channel <- [i \in 1..(Complete - Len(received)) |-> Len(received) + i],
  taken <- Complete,
  received <- [i \in 1..Len(received) |-> NumberOf(received[i])],
  sender <- IF sender = "closed" THEN "closed" ELSE "open",
  receiver <- IF receiver = "failed" THEN "closed" ELSE receiver

\* The loops implement a channel of whole frames: none is lost, repeated, mixed or
\* reordered, half a frame is never delivered, and the end of file is reported
\* only after every complete frame.
ChannelSpec == Channel!Spec

\* A frame for which ipc_socket_send has returned 0 arrives, unless the receiver
\* gives up: a partial send or read never leaves a frame stuck half way.
FrameGetsThrough ==
  \A n \in 1..MaxFrames :
    Complete >= n ~> (Len(received) >= n \/ receiver \in {"failed", "closed"})

\* ipc_socket_send returns, unless the receiver has stopped reading without
\* closing: a UI that goes away never holds the daemon's handler for ever.
SendReturns == sender = "sending" ~> (sender # "sending" \/ receiver = "failed")

============================================================================
