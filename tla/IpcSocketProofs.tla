-------------------------- MODULE IpcSocketProofs --------------------------
(***************************************************************************)
(* Framing, for every size of frame and buffers: what ipc_socket_recv      *)
(* returns is what ipc_socket_send was given.                              *)
(***************************************************************************)
EXTENDS IpcSocket, SequenceTheorems, TLAPS

\* A frame is being sent only after the first call.
CallsCounted == sender = "sending" => cur > 0

LEMMA TypeInit == Init => TypeOK /\ CallsCounted
BY SizeAssumption, MaxFramesAssumption DEF Init, TypeOK, CallsCounted

\* A read never takes more than the frame lacks, so that the buffer does not overflow.
LEMMA ReadKeepsTypes ==
  ASSUME TypeOK, NEW k \in Chunks, ReadSome(k)
  PROVE  TypeOK'
<1> USE SizeAssumption
<1> DEFINE bytes == SubSeq(wire, 1, k)
<1>1. k \in 1..FrameSize /\ k <= FrameSize - Len(buf) /\ k <= Len(wire)
  BY DEF ReadSome, Wanted, Chunks
<1>2. bytes \in Seq(Nat) /\ Len(bytes) = k
  BY <1>1 DEF TypeOK
<1>3. wire' \in Seq(Nat) /\ Len(wire') = Len(wire) - k
  BY <1>1 DEF TypeOK, ReadSome
<1>4. buf \o bytes \in Seq(Nat) /\ Len(buf \o bytes) = Len(buf) + k
  BY <1>2 DEF TypeOK
<1>5. Take(bytes) /\ UNCHANGED <<sending, receiver>>
  BY DEF ReadSome
<1> HIDE DEF bytes
<1>6. buf' \in Seq(Nat) /\ Len(buf') < FrameSize /\ received' \in Seq(Seq(Nat))
  <2>1. CASE Len(buf) + Len(bytes) >= FrameSize
    <3>1. received' = Append(received, buf \o bytes) /\ buf' = <<>>
      BY <1>5, <2>1 DEF Take
    <3>2. received' \in Seq(Seq(Nat))
      BY <1>4, <3>1 DEF TypeOK
    <3> QED BY <3>1, <3>2
  <2>2. CASE ~(Len(buf) + Len(bytes) >= FrameSize)
    <3>1. buf' = buf \o bytes /\ received' = received
      BY <1>5, <2>2 DEF Take
    <3>2. Len(buf') = Len(buf) + Len(bytes)
      BY <1>2, <1>4, <3>1
    <3>3. Len(buf) \in Nat /\ Len(bytes) \in Nat
      BY <1>2 DEF TypeOK
    <3> QED BY <1>4, <2>2, <3>1, <3>2, <3>3 DEF TypeOK
  <2> QED BY <2>1, <2>2
<1> QED BY <1>1, <1>3, <1>5, <1>6 DEF TypeOK, sending

\* A send never offers more than the rest of the frame.
LEMMA SendKeepsTypes ==
  ASSUME TypeOK, CallsCounted, NEW k \in Chunks, SendSome(k)
  PROVE  TypeOK'
<1> USE SizeAssumption, MaxFramesAssumption
<1> DEFINE bytes == [i \in 1..k |-> Byte(cur, sent + i)]
<1>1. /\ k \in 1..FrameSize /\ k <= FrameSize - sent /\ Len(wire) + k <= WireCap
      /\ wire' = wire \o bytes /\ sent' = sent + k
      /\ sender' \in {"idle", "sending"} /\ UNCHANGED <<cur, receiving>>
  BY DEF SendSome, Offered, Chunks
<1>2. \A i \in 1..k : Byte(cur, sent + i) \in Nat
  <2> SUFFICES ASSUME NEW i \in 1..k PROVE Byte(cur, sent + i) \in Nat
    OBVIOUS
  <2>1. cur - 1 \in Nat /\ FrameSize \in Nat /\ sent + i \in Nat
    BY <1>1 DEF TypeOK, CallsCounted, SendSome
  <2>2. (cur - 1) * FrameSize \in Nat
    BY <2>1
  <2> QED BY <2>1, <2>2 DEF Byte
<1>3. bytes \in Seq(Nat) /\ Len(bytes) = k
  <2>1. k \in Nat
    BY <1>1
  <2> QED BY <1>2, <2>1
<1> HIDE DEF bytes
<1>4. wire' \in Seq(Nat) /\ Len(wire') <= WireCap
  <2>1. wire \in Seq(Nat)
    BY DEF TypeOK
  <2>2. wire \o bytes \in Seq(Nat) /\ Len(wire \o bytes) = Len(wire) + Len(bytes)
    BY <2>1, <1>3
  <2> QED BY <2>2, <1>1, <1>3
<1>5. sent' \in 0..FrameSize
  BY <1>1 DEF TypeOK
<1> QED BY <1>1, <1>4, <1>5 DEF TypeOK, receiving

LEMMA TypeStep == TypeOK /\ CallsCounted /\ [Next]_vars => TypeOK' /\ CallsCounted'
<1> SUFFICES ASSUME TypeOK, CallsCounted, [Next]_vars PROVE TypeOK' /\ CallsCounted'
  OBVIOUS
<1> USE SizeAssumption, MaxFramesAssumption
<1>1. ASSUME NEW k \in Chunks, SendSome(k) PROVE TypeOK' /\ CallsCounted'
  BY <1>1, SendKeepsTypes DEF CallsCounted, SendSome
<1>2. ASSUME NEW k \in Chunks, ReadSome(k) PROVE TypeOK' /\ CallsCounted'
  BY <1>2, ReadKeepsTypes DEF CallsCounted, ReadSome, sending
<1>3. CASE SendFrame
  BY <1>3 DEF SendFrame, receiving, TypeOK, CallsCounted
<1>4. CASE SendFails
  BY <1>4 DEF SendFails, receiving, TypeOK, CallsCounted
<1>5. CASE DaemonEnds
  BY <1>5 DEF DaemonEnds, receiving, TypeOK, CallsCounted
<1>6. CASE ReadEof \/ ReadFails \/ UiEnds
  BY <1>6 DEF ReadEof, ReadFails, UiEnds, sending, TypeOK, CallsCounted
<1>7. CASE UNCHANGED vars
  BY <1>7 DEF vars, TypeOK, CallsCounted
<1> QED BY <1>1, <1>2, <1>3, <1>4, <1>5, <1>6, <1>7 DEF Next

\* Types, for every size of frame and buffers: no buffer overflows, however the
\* kernel cuts the stream.
THEOREM TypeCorrect == Spec => []TypeOK
<1>1. Init => TypeOK /\ CallsCounted
  BY TypeInit
<1>2. TypeOK /\ CallsCounted /\ [Next]_vars => TypeOK' /\ CallsCounted'
  BY TypeStep
<1> QED BY <1>1, <1>2, PTL DEF Spec

----------------------------------------------------------------------------
(* Framing: where each byte of the stream is. *)

\* The bytes that make up the frames already returned, and those sent.
Returned == Len(received) * FrameSize
Accepted == (cur - 1) * FrameSize + sent

\* Between two calls of ipc_socket_send the frame is out.
SentWhenIdle == sender = "idle" => sent = FrameSize

\* No byte is lost or made up: what was accepted is returned, read or in flight.
BytesCounted == Returned + Len(buf) + Len(wire) = Accepted

\* The buffer holds the next frame from its first byte on, and the bytes in
\* flight go on where the buffer ends.
BufInOrder == \A i \in 1..Len(buf) : buf[i] = Returned + i
WireInOrder == \A i \in 1..Len(wire) : wire[i] = Returned + Len(buf) + i

\* The inductive invariant.
Framing ==
  /\ TypeOK /\ CallsCounted
  /\ SentWhenIdle /\ BytesCounted /\ BufInOrder /\ WireInOrder
  /\ FramesWhole

\* Bytes that change places are still counted.
LEMMA BytesMove ==
  ASSUME NEW r \in Int, NEW b \in Int, NEW w \in Int, NEW a \in Int, NEW d \in Int,
         r + b + w = a
  PROVE  r + b + (w + d) = a + d /\ r + (b + d) + (w - d) = a
OBVIOUS

\* Where the elements of a concatenation come from.
LEMMA Joins ==
  ASSUME NEW S, NEW s \in Seq(S), NEW t \in Seq(S)
  PROVE  /\ s \o t \in Seq(S) /\ Len(s \o t) = Len(s) + Len(t)
         /\ \A i \in 1..Len(s \o t) :
              (s \o t)[i] = IF i <= Len(s) THEN s[i] ELSE t[i - Len(s)]
BY ConcatProperties

LEMMA FramingTypes ==
  ASSUME TypeOK
  PROVE  /\ Len(received) \in Nat /\ Len(buf) \in Nat /\ Len(wire) \in Nat
         /\ Returned \in Nat /\ Accepted \in Int
<1> USE SizeAssumption, MaxFramesAssumption
<1>1. Len(received) \in Nat /\ Len(buf) \in Nat /\ Len(wire) \in Nat
  BY DEF TypeOK
<1>2. Returned \in Nat
  BY <1>1 DEF Returned
<1>3. cur - 1 \in Int /\ FrameSize \in Int /\ sent \in Int
  BY DEF TypeOK
<1>4. (cur - 1) * FrameSize \in Int
  BY <1>3
<1> QED BY <1>1, <1>2, <1>3, <1>4 DEF Accepted

LEMMA FramingInit == Init => Framing
<1> SUFFICES ASSUME Init PROVE Framing
  OBVIOUS
<1> USE SizeAssumption, MaxFramesAssumption
<1>1. TypeOK /\ CallsCounted
  BY TypeInit
<1>2. Returned = 0
  BY DEF Init, Returned
<1>3. Accepted = 0
  BY DEF Init, Accepted
<1>4. Len(buf) = 0 /\ Len(wire) = 0 /\ Len(received) = 0
  BY DEF Init
<1> QED BY <1>1, <1>2, <1>3, <1>4
        DEF Init, Framing, SentWhenIdle, BytesCounted, BufInOrder, WireInOrder, FramesWhole

\* Whatever part of the frame send() accepts continues the stream in flight.
LEMMA SendKeepsFraming ==
  ASSUME Framing, NEW k \in Chunks, SendSome(k)
  PROVE  SentWhenIdle' /\ BytesCounted' /\ BufInOrder' /\ WireInOrder' /\ FramesWhole'
<1> USE SizeAssumption, MaxFramesAssumption
<1> DEFINE bytes == [i \in 1..k |-> Byte(cur, sent + i)]
<1>1. TypeOK /\ CallsCounted /\ BytesCounted /\ WireInOrder
  BY DEF Framing
<1>2. /\ k \in Nat /\ wire' = wire \o bytes /\ sent' = sent + k
      /\ sender' = (IF sent' = FrameSize THEN "idle" ELSE "sending")
      /\ cur' = cur /\ buf' = buf /\ received' = received
  BY DEF SendSome, Chunks, receiving
<1>3. /\ Len(received) \in Nat /\ Len(buf) \in Nat /\ Len(wire) \in Nat
      /\ Returned \in Nat /\ Accepted \in Int
  BY <1>1, FramingTypes
<1>4. Returned' = Returned /\ Accepted' = Accepted + k
  <2>1. (cur - 1) * FrameSize \in Int /\ sent \in Int
    BY <1>1 DEF TypeOK
  <2> QED BY <1>2, <2>1 DEF Returned, Accepted
<1>5. \A i \in 1..k : bytes[i] = Accepted + i
  <2> SUFFICES ASSUME NEW i \in 1..k PROVE bytes[i] = Accepted + i
    OBVIOUS
  <2>1. (cur - 1) * FrameSize \in Int /\ sent \in Int /\ i \in Int
    BY <1>1, <1>2 DEF TypeOK
  <2>2. bytes[i] = (cur - 1) * FrameSize + (sent + i)
    BY DEF Byte
  <2> QED BY <2>1, <2>2 DEF Accepted
<1>6. Len(bytes) = k /\ bytes \in Seq(Int)
  <2>1. \A i \in 1..k : bytes[i] \in Int
    BY <1>2, <1>3, <1>5
  <2> QED BY <1>2, <2>1
<1> HIDE DEF bytes
<1>7. wire \in Seq(Int)
  BY <1>1 DEF TypeOK
<1>8. /\ Len(wire') = Len(wire) + k
      /\ \A i \in 1..Len(wire') :
           wire'[i] = IF i <= Len(wire) THEN wire[i] ELSE bytes[i - Len(wire)]
  BY <1>2, <1>6, <1>7, Joins
<1>9. BytesCounted'
  <2>1. Len(buf') = Len(buf) /\ Len(wire') = Len(wire) + k
    BY <1>2, <1>8
  <2>2. Returned + Len(buf) + (Len(wire) + k) = Accepted + k
    <3>1. Returned + Len(buf) + Len(wire) = Accepted
      BY <1>1 DEF BytesCounted
    <3>2. k \in Int
      BY <1>2
    <3> QED BY <1>3, <3>1, <3>2, BytesMove
  <2> QED BY <1>4, <2>1, <2>2 DEF BytesCounted
<1>10. WireInOrder'
  <2> SUFFICES ASSUME NEW i \in 1..Len(wire')
               PROVE  wire'[i] = Returned + Len(buf) + i
    BY <1>2, <1>4 DEF WireInOrder
  <2>1. CASE i <= Len(wire)
    BY <1>1, <1>3, <1>8, <2>1 DEF WireInOrder
  <2>2. CASE ~(i <= Len(wire))
    <3>1. i - Len(wire) \in 1..k
      BY <1>2, <1>3, <1>8, <2>2
    <3>2. wire'[i] = Accepted + (i - Len(wire))
      BY <1>5, <1>8, <2>2, <3>1
    <3> QED BY <1>1, <1>3, <3>2 DEF BytesCounted
  <2> QED BY <2>1, <2>2
<1>11. SentWhenIdle' /\ BufInOrder' /\ FramesWhole'
  BY <1>2, <1>4 DEF Framing, SentWhenIdle, BufInOrder, FramesWhole
<1> QED BY <1>9, <1>10, <1>11

\* Whatever part of the frame read() returns continues the buffer, and a buffer
\* that is full is the next frame.
LEMMA ReadKeepsFraming ==
  ASSUME Framing, NEW k \in Chunks, ReadSome(k)
  PROVE  SentWhenIdle' /\ BytesCounted' /\ BufInOrder' /\ WireInOrder' /\ FramesWhole'
<1> USE SizeAssumption, MaxFramesAssumption
<1> DEFINE bytes == SubSeq(wire, 1, k)
<1> DEFINE joined == buf \o bytes
<1>1. /\ TypeOK /\ BytesCounted /\ BufInOrder /\ WireInOrder /\ FramesWhole
      /\ SentWhenIdle
  BY DEF Framing
<1>2. /\ k \in 1..FrameSize /\ k <= FrameSize - Len(buf) /\ k <= Len(wire)
      /\ Take(bytes) /\ wire' = SubSeq(wire, k + 1, Len(wire))
      /\ sender' = sender /\ cur' = cur /\ sent' = sent
  BY DEF ReadSome, Wanted, Chunks, sending
<1>3. /\ Len(received) \in Nat /\ Len(buf) \in Nat /\ Len(wire) \in Nat
      /\ Returned \in Nat /\ Accepted \in Int
  BY <1>1, FramingTypes
<1>4. Accepted' = Accepted /\ SentWhenIdle'
  BY <1>1, <1>2 DEF Accepted, SentWhenIdle
<1>5. /\ Len(bytes) = k /\ bytes \in Seq(Nat)
      /\ \A i \in 1..k : bytes[i] = wire[i]
  BY <1>1, <1>2, <1>3 DEF TypeOK
<1>6. /\ Len(wire') = Len(wire) - k
      /\ \A i \in 1..Len(wire') : wire'[i] = wire[k + i]
  BY <1>1, <1>2, <1>3 DEF TypeOK
<1> HIDE DEF bytes
<1>7. /\ joined \in Seq(Nat) /\ Len(joined) = Len(buf) + k
      /\ \A i \in 1..Len(joined) :
           joined[i] = IF i <= Len(buf) THEN buf[i] ELSE bytes[i - Len(buf)]
  <2>1. buf \in Seq(Nat)
    BY <1>1 DEF TypeOK
  <2> QED BY <1>5, <2>1, Joins
<1>8. \A i \in 1..Len(joined) : joined[i] = Returned + i
  <2> SUFFICES ASSUME NEW i \in 1..Len(joined) PROVE joined[i] = Returned + i
    OBVIOUS
  <2>1. CASE i <= Len(buf)
    BY <1>1, <1>3, <1>7, <2>1 DEF BufInOrder
  <2>2. CASE ~(i <= Len(buf))
    <3>1. i - Len(buf) \in 1..k
      BY <1>2, <1>3, <1>7, <2>2
    <3>2. joined[i] = wire[i - Len(buf)]
      BY <1>5, <1>7, <2>2, <3>1
    <3>3. i - Len(buf) \in 1..Len(wire)
      BY <1>2, <1>3, <3>1
    <3>4. wire[i - Len(buf)] = Returned + Len(buf) + (i - Len(buf))
      BY <1>1, <3>3 DEF WireInOrder
    <3> QED BY <1>3, <1>7, <3>2, <3>4
  <2> QED BY <2>1, <2>2
<1>9. \A i \in 1..Len(wire') : wire'[i] = Returned + Len(joined) + i
  <2> SUFFICES ASSUME NEW i \in 1..Len(wire')
               PROVE  wire'[i] = Returned + Len(joined) + i
    OBVIOUS
  <2>1. k + i \in 1..Len(wire)
    BY <1>2, <1>3, <1>6
  <2>2. wire'[i] = Returned + Len(buf) + (k + i)
    BY <1>1, <1>6, <2>1 DEF WireInOrder
  <2> QED BY <1>2, <1>3, <1>6, <1>7, <2>2
<1> HIDE DEF joined
<1>10. CASE Len(buf) + Len(bytes) >= FrameSize
  <2>1. received' = Append(received, joined) /\ buf' = <<>>
    BY <1>2, <1>10 DEF Take, joined
  <2>2. Len(joined) = FrameSize
    <3>1. Len(buf) + k >= FrameSize
      BY <1>5, <1>10
    <3>2. Len(joined) >= FrameSize /\ Len(joined) <= FrameSize
      BY <1>2, <1>3, <1>7, <3>1
    <3>3. Len(joined) \in Int /\ FrameSize \in Int
      BY <1>7
    <3> QED BY <3>2, <3>3
  <2>3. Len(received') = Len(received) + 1 /\ Len(buf') = 0
    BY <1>1, <1>7, <2>1 DEF TypeOK
  <2>4. Returned' = Returned + FrameSize
    <3>1. (Len(received) + 1) * FrameSize = Len(received) * FrameSize + FrameSize
      BY <1>3
    <3> QED BY <2>3, <3>1 DEF Returned
  <2>5. BytesCounted'
    <3>1. (Returned + FrameSize) + 0 + (Len(wire) - k) = Accepted
      <4>1. Returned + Len(buf) + Len(wire) = Accepted /\ k \in Int
        BY <1>1, <1>2 DEF BytesCounted
      <4>2. FrameSize = Len(buf) + k /\ Returned + FrameSize + 0 = Returned + FrameSize
        BY <1>3, <1>7, <2>2
      <4> QED BY <1>3, <4>1, <4>2, BytesMove
    <3> QED BY <1>4, <1>6, <2>3, <2>4, <3>1 DEF BytesCounted
  <2>6. WireInOrder'
    BY <1>3, <1>9, <2>2, <2>3, <2>4 DEF WireInOrder
  <2>7. joined = Frame(Len(received) + 1)
    <3>1. \A i \in 1..FrameSize : Byte(Len(received) + 1, i) = Returned + i
      BY <1>3 DEF Byte, Returned
    <3>2. joined = [i \in 1..FrameSize |-> joined[i]]
      BY <1>7, <2>2
    <3>3. \A i \in 1..FrameSize : joined[i] = Byte(Len(received) + 1, i)
      BY <1>8, <2>2, <3>1
    <3> QED BY <3>2, <3>3 DEF Frame
  <2>8. FramesWhole'
    <3> SUFFICES ASSUME NEW n \in 1..Len(received') PROVE received'[n] = Frame(n)
      BY DEF FramesWhole, Frame, Byte
    <3>1. CASE n = Len(received) + 1
      BY <1>1, <1>7, <2>1, <2>7, <3>1 DEF TypeOK
    <3>2. CASE n # Len(received) + 1
      <4>1. n \in 1..Len(received)
        BY <1>3, <2>3, <3>2
      <4>2. received'[n] = received[n]
        BY <1>1, <1>7, <2>1, <4>1 DEF TypeOK
      <4> QED BY <1>1, <4>1, <4>2 DEF FramesWhole
    <3> QED BY <3>1, <3>2
  <2>9. BufInOrder'
    BY <2>3 DEF BufInOrder
  <2> QED BY <1>4, <2>5, <2>6, <2>8, <2>9
<1>11. CASE ~(Len(buf) + Len(bytes) >= FrameSize)
  <2>1. buf' = joined /\ received' = received
    BY <1>2, <1>11 DEF Take, joined
  <2>2. Returned' = Returned
    BY <2>1 DEF Returned
  <2>3. BytesCounted'
    <3>1. Returned + (Len(buf) + k) + (Len(wire) - k) = Accepted
      <4>1. Returned + Len(buf) + Len(wire) = Accepted /\ k \in Int
        BY <1>1, <1>2 DEF BytesCounted
      <4> QED BY <1>3, <4>1, BytesMove
    <3> QED BY <1>4, <1>6, <1>7, <2>1, <2>2, <3>1 DEF BytesCounted
  <2>4. BufInOrder' /\ WireInOrder'
    BY <1>8, <1>9, <2>1, <2>2 DEF BufInOrder, WireInOrder
  <2>5. FramesWhole'
    BY <1>1, <2>1 DEF FramesWhole, Frame, Byte
  <2> QED BY <1>4, <2>3, <2>4, <2>5
<1> QED BY <1>10, <1>11

LEMMA FramingStep == Framing /\ [Next]_vars => Framing'
<1> SUFFICES ASSUME Framing, [Next]_vars PROVE Framing'
  OBVIOUS
<1> USE SizeAssumption, MaxFramesAssumption
<1>1. TypeOK' /\ CallsCounted'
  BY TypeStep DEF Framing
<1>2. ASSUME NEW k \in Chunks, SendSome(k) PROVE Framing'
  BY <1>1, <1>2, SendKeepsFraming DEF Framing
<1>3. ASSUME NEW k \in Chunks, ReadSome(k) PROVE Framing'
  BY <1>1, <1>3, ReadKeepsFraming DEF Framing
<1>4. CASE SendFrame
  <2>1. /\ cur' = cur + 1 /\ sent' = 0 /\ sender' = "sending" /\ sent = FrameSize
        /\ wire' = wire /\ buf' = buf /\ received' = received
    BY <1>4 DEF SendFrame, receiving, Framing, SentWhenIdle
  <2>2. cur \in Int /\ FrameSize \in Int
    BY DEF Framing, TypeOK
  <2>3. (cur - 1) * FrameSize + FrameSize = cur * FrameSize + 0 /\ (cur + 1) - 1 = cur
    BY <2>2
  <2>4. Accepted' = Accepted /\ Returned' = Returned
    BY <2>1, <2>3 DEF Accepted, Returned
  <2> QED BY <1>1, <2>1, <2>4
          DEF Framing, SentWhenIdle, BytesCounted, BufInOrder, WireInOrder,
              FramesWhole, Frame, Byte
<1>5. CASE SendFails \/ DaemonEnds \/ ReadEof \/ ReadFails \/ UiEnds \/ UNCHANGED vars
  <2>1. UNCHANGED <<cur, sent, wire, buf, received>> /\ sender' \in {sender, "closed"}
    BY <1>5 DEF SendFails, DaemonEnds, ReadEof, ReadFails, UiEnds, sending, receiving, vars
  <2>2. Accepted' = Accepted /\ Returned' = Returned
    BY <2>1 DEF Accepted, Returned
  <2> QED BY <1>1, <2>1, <2>2
          DEF Framing, SentWhenIdle, BytesCounted, BufInOrder, WireInOrder,
              FramesWhole, Frame, Byte
<1> QED BY <1>2, <1>3, <1>4, <1>5 DEF Next

\* Framing, for every size of frame and buffers: what ipc_socket_recv returns is,
\* frame by frame, what ipc_socket_send was given.
THEOREM FramesCorrect == Spec => []FramesWhole
<1>1. Init => Framing
  BY FramingInit
<1>2. Framing /\ [Next]_vars => Framing'
  BY FramingStep
<1>3. Framing => FramesWhole
  BY DEF Framing
<1> QED BY <1>1, <1>2, <1>3, PTL DEF Spec

----------------------------------------------------------------------------
(* The loops implement a channel of whole frames. *)

\* Dividing by the size of a frame.
LEMMA WholeFrames ==
  ASSUME NEW f \in Nat \ {0}, NEW a \in Int, NEW b \in Int, NEW s \in 0..(f - 1),
         a * f <= b * f + s
  PROVE  a <= b
<1> SUFFICES ASSUME b + 1 <= a PROVE FALSE
  OBVIOUS
<1>1. PICK d \in Nat : a = b + 1 + d
  <2>1. a - (b + 1) \in Nat /\ a = b + 1 + (a - (b + 1))
    OBVIOUS
  <2> QED BY <2>1
<1>2. (b + 1 + d) * f = b * f + f + d * f
  OBVIOUS
<1>3. d * f \in Nat /\ b * f \in Int
  OBVIOUS
<1>4. b * f + f + d * f <= b * f + s
  BY <1>1, <1>2
<1> QED BY <1>3, <1>4

\* A frame is known by its bytes.
LEMMA FrameNumber ==
  ASSUME NEW n \in 1..MaxFrames
  PROVE  NumberOf(Frame(n)) = n
<1> USE SizeAssumption, MaxFramesAssumption
<1>1. ASSUME NEW m \in 1..MaxFrames, Frame(m) = Frame(n)
      PROVE  m = n
  <2>1. Frame(m)[1] = (m - 1) * FrameSize + 1 /\ Frame(n)[1] = (n - 1) * FrameSize + 1
    BY DEF Frame, Byte
  <2>2. (m - 1) * FrameSize \in Int /\ (n - 1) * FrameSize \in Int
    OBVIOUS
  <2>3. (m - 1) * FrameSize = (n - 1) * FrameSize
    BY <1>1, <2>1, <2>2
  <2>4. m - 1 \in Int /\ n - 1 \in Int /\ 0 \in 0..(FrameSize - 1)
    OBVIOUS
  <2>5. m - 1 <= n - 1
    BY <2>2, <2>3, <2>4, WholeFrames
  <2>6. n - 1 <= m - 1
    BY <2>2, <2>3, <2>4, WholeFrames
  <2> QED BY <2>5, <2>6
<1> QED BY <1>1 DEF NumberOf

\* What has come out is complete, and what is complete and has not come out is in the
\* buffers.
LEMMA FramesComplete ==
  ASSUME Framing
  PROVE  /\ Complete \in 0..MaxFrames /\ Len(received) \in 0..Complete
         /\ wire = <<>> => Complete = Len(received)
<1> USE SizeAssumption, MaxFramesAssumption
<1>1. /\ Len(received) \in Nat /\ Len(buf) \in Nat /\ Len(wire) \in Nat
      /\ Returned \in Nat /\ Accepted \in Int
  BY FramingTypes DEF Framing
<1>2. cur \in 0..MaxFrames /\ sent \in 0..FrameSize /\ Len(buf) \in 0..(FrameSize - 1)
  BY <1>1 DEF Framing, TypeOK
<1>3. Returned + Len(buf) + Len(wire) = Accepted
  BY DEF Framing, BytesCounted
<1>4. PICK r \in Int : r = Len(received) * FrameSize
  BY <1>1 DEF Returned
<1>5. PICK t \in 0..(FrameSize - 1) :
        Complete \in Int /\ Accepted = Complete * FrameSize + t
  <2>1. CASE sent = FrameSize
    <3>1. (cur - 1) * FrameSize + FrameSize = cur * FrameSize + 0 /\ 0 \in 0..(FrameSize - 1)
      BY <1>2
    <3> QED BY <1>2, <2>1, <3>1 DEF Complete, Accepted
  <2>2. CASE sent # FrameSize
    <3>1. sent \in 0..(FrameSize - 1) /\ cur - 1 \in Int
      BY <1>2, <2>2
    <3> QED BY <2>2, <3>1 DEF Complete, Accepted
  <2> QED BY <2>1, <2>2
<1>6. PICK c \in Int : c = Complete * FrameSize
  BY <1>5
<1>7. r + Len(buf) + Len(wire) = c + t
  BY <1>3, <1>4, <1>5, <1>6 DEF Returned
<1>8. r <= c + t
  BY <1>1, <1>7
<1>9. Len(received) <= Complete
  BY <1>1, <1>4, <1>5, <1>6, <1>8, WholeFrames
<1>10. wire = <<>> => Complete <= Len(received)
  <2> SUFFICES ASSUME wire = <<>> PROVE Complete <= Len(received)
    OBVIOUS
  <2>1. Len(wire) = 0
    OBVIOUS
  <2>2. c <= r + Len(buf)
    BY <1>1, <1>7, <2>1
  <2> QED BY <1>1, <1>2, <1>4, <1>5, <1>6, <2>2, WholeFrames
<1>11. Complete <= MaxFrames
  BY <1>2 DEF Complete
<1> QED BY <1>1, <1>5, <1>9, <1>10, <1>11

\* The frames in flight and those that came out, as FrameChannel sees them.
Flying == [i \in 1..(Complete - Len(received)) |-> Len(received) + i]
Numbers == [i \in 1..Len(received) |-> NumberOf(received[i])]

LEMMA NumbersInTurn ==
  ASSUME Framing
  PROVE  Numbers = [i \in 1..Len(received) |-> i]
<1>1. \A i \in 1..Len(received) : NumberOf(received[i]) = i
  <2> TAKE i \in 1..Len(received)
  <2>1. i \in 1..MaxFrames
    BY FramesComplete, MaxFramesAssumption
  <2> QED BY <2>1, FrameNumber DEF Framing, FramesWhole
<1> QED BY <1>1 DEF Numbers

\* The same of the state a step leads to.
LEMMA AfterStep ==
  Framing' => /\ (Len(received) <= Complete)'
              /\ (Numbers = [i \in 1..Len(received) |-> i])'
<1>1. Framing => Len(received) <= Complete /\ Numbers = [i \in 1..Len(received) |-> i]
  <2> SUFFICES ASSUME Framing
               PROVE  Len(received) <= Complete /\ Numbers = [i \in 1..Len(received) |-> i]
    OBVIOUS
  <2>1. Len(received) \in 0..Complete /\ Complete \in 0..MaxFrames
    BY FramesComplete
  <2>2. Len(received) <= Complete
    BY <2>1, MaxFramesAssumption
  <2> QED BY <2>2, NumbersInTurn
<1> QED BY <1>1, PTL

\* The next frame goes behind those in flight.
LEMMA FlyingPut ==
  ASSUME NEW r \in Nat, NEW c \in Nat, r <= c
  PROVE  [i \in 1..(c + 1 - r) |-> r + i] = Append([i \in 1..(c - r) |-> r + i], c + 1)
<1> DEFINE q == [i \in 1..(c - r) |-> r + i]
<1> DEFINE p == [i \in 1..(c + 1 - r) |-> r + i]
<1>1. c - r \in Nat /\ c + 1 - r = (c - r) + 1 /\ c + 1 - r \in Nat
  OBVIOUS
<1>2. q \in Seq(Nat) /\ Len(q) = c - r
  BY <1>1
<1>3. p \in Seq(Nat) /\ Len(p) = (c - r) + 1
  BY <1>1
<1>4. \A i \in 1..(c - r) : q[i] = r + i
  OBVIOUS
<1>5. \A i \in 1..((c - r) + 1) : p[i] = r + i
  BY <1>1
<1> HIDE DEF q, p
<1>6. Append(q, c + 1) \in Seq(Nat) /\ Len(Append(q, c + 1)) = (c - r) + 1
  BY <1>2
<1>7. \A i \in 1..((c - r) + 1) : Append(q, c + 1)[i] = r + i
  <2> TAKE i \in 1..((c - r) + 1)
  <2>1. CASE i \in 1..(c - r)
    BY <1>2, <1>4, <2>1
  <2>2. CASE i = (c - r) + 1
    <3>1. Append(q, c + 1)[Len(q) + 1] = c + 1
      BY <1>2
    <3> QED BY <1>2, <2>2, <3>1
  <2>3. i \in 1..(c - r) \/ i = (c - r) + 1
    BY <1>1
  <2> QED BY <2>1, <2>2, <2>3
<1>8. p = Append(q, c + 1)
  BY <1>3, <1>5, <1>6, <1>7
<1> QED BY <1>8 DEF p, q

\* The oldest of those in flight is the next to come out.
LEMMA FlyingGet ==
  ASSUME NEW r \in Nat, NEW c \in Nat, r + 1 <= c
  PROVE  /\ [i \in 1..(c - r) |-> r + i] # <<>>
         /\ Head([i \in 1..(c - r) |-> r + i]) = r + 1
         /\ [i \in 1..(c - (r + 1)) |-> (r + 1) + i] = Tail([i \in 1..(c - r) |-> r + i])
<1> DEFINE q == [i \in 1..(c - r) |-> r + i]
<1> DEFINE p == [i \in 1..(c - (r + 1)) |-> (r + 1) + i]
<1>1. c - r \in Nat /\ c - (r + 1) = (c - r) - 1 /\ c - (r + 1) \in Nat /\ 1 \in 1..(c - r)
  OBVIOUS
<1>2. q \in Seq(Nat) /\ Len(q) = c - r
  BY <1>1
<1>3. p \in Seq(Nat) /\ Len(p) = (c - r) - 1
  BY <1>1
<1>4. \A i \in 1..(c - r) : q[i] = r + i
  OBVIOUS
<1>5. \A i \in 1..((c - r) - 1) : p[i] = r + i + 1
  BY <1>1
<1> HIDE DEF q, p
<1>6. q # <<>> /\ Head(q) = r + 1
  BY <1>1, <1>2, <1>4
<1>7. /\ Tail(q) \in Seq(Nat) /\ Len(Tail(q)) = (c - r) - 1
      /\ \A i \in 1..((c - r) - 1) : Tail(q)[i] = q[i + 1]
  BY <1>2, <1>6
<1>8. \A i \in 1..((c - r) - 1) : Tail(q)[i] = r + i + 1
  <2> TAKE i \in 1..((c - r) - 1)
  <2>1. i + 1 \in 1..(c - r)
    BY <1>1
  <2>2. q[i + 1] = r + (i + 1)
    BY <1>4, <2>1
  <2> QED BY <1>7, <2>2
<1>9. p = Tail(q)
  BY <1>3, <1>5, <1>7, <1>8, SeqEqual
<1> QED BY <1>6, <1>9 DEF p, q

\* A channel in which nothing is in flight.
LEMMA NothingFlying ==
  ASSUME Complete = Len(received), Len(received) \in Nat
  PROVE  Flying = <<>>
<1>1. 1..(Complete - Len(received)) = {}
  OBVIOUS
<1> QED BY <1>1 DEF Flying

\* What ChannelSpec puts in place of FrameChannel's ends.
SenderEnd == IF sender = "closed" THEN "closed" ELSE "open"
ReceiverEnd == IF receiver = "failed" THEN "closed" ELSE receiver

LEMMA ChannelInit == Init => Channel!Init
<1> SUFFICES ASSUME Init PROVE Channel!Init
  OBVIOUS
<1>1. Complete = 0 /\ Len(received) = 0 /\ received = <<>>
  BY DEF Init, Complete
<1>2. Flying = <<>>
  BY <1>1, NothingFlying
<1>3. Numbers = <<>>
  BY <1>1 DEF Numbers
<1>4. SenderEnd = "open" /\ ReceiverEnd = "open"
  BY DEF Init, SenderEnd, ReceiverEnd
<1> QED BY <1>1, <1>2, <1>3, <1>4 DEF Channel!Init, Flying, Numbers, SenderEnd, ReceiverEnd

\* send() finishes a frame, or a part of one, which the channel does not see.
LEMMA SendPuts ==
  ASSUME Framing, NEW k \in Chunks, SendSome(k)
  PROVE  Channel!Put \/ UNCHANGED Channel!vars
<1> USE SizeAssumption, MaxFramesAssumption
<1>1. /\ sender = "sending" /\ sent' = sent + k /\ cur' = cur
      /\ sender' = (IF sent' = FrameSize THEN "idle" ELSE "sending")
      /\ receiver' = receiver /\ received' = received
  BY DEF SendSome, receiving
<1>2. sent \in Int /\ cur \in Int /\ k \in 1..FrameSize /\ k <= FrameSize - sent
  BY DEF SendSome, Offered, Chunks, Framing, TypeOK
<1>3. Complete = cur - 1 /\ Complete \in Nat /\ Len(received) \in Nat /\ Len(received) <= Complete
  <2>1. sent # FrameSize
    BY <1>2
  <2>2. Complete = cur - 1
    BY <2>1 DEF Complete
  <2> QED BY <2>2, FramesComplete
<1>4. /\ Numbers' = Numbers /\ SenderEnd' = SenderEnd /\ ReceiverEnd' = ReceiverEnd
      /\ SenderEnd = "open"
  BY <1>1 DEF Numbers, NumberOf, Frame, Byte, SenderEnd, ReceiverEnd
<1>5. CASE sent' = FrameSize
  <2>1. Complete' = Complete + 1
    BY <1>1, <1>2, <1>3, <1>5 DEF Complete
  <2>2. Flying' = Append(Flying, Complete + 1)
    BY <1>1, <1>3, <2>1, FlyingPut DEF Flying
  <2> QED BY <1>4, <2>1, <2>2 DEF Channel!Put, Flying, Numbers, SenderEnd, ReceiverEnd
<1>6. CASE sent' # FrameSize
  <2>1. Complete' = Complete
    BY <1>1, <1>3, <1>6 DEF Complete
  <2>2. Flying' = Flying
    BY <1>1, <2>1 DEF Flying
  <2> QED BY <1>4, <2>1, <2>2 DEF Channel!vars, Flying, Numbers, SenderEnd, ReceiverEnd
<1> QED BY <1>5, <1>6

\* read() finishes a frame, or a part of one.
LEMMA ReadGets ==
  ASSUME Framing, Framing', NEW k \in Chunks, ReadSome(k)
  PROVE  Channel!Get \/ UNCHANGED Channel!vars
<1> USE SizeAssumption, MaxFramesAssumption
<1>1. /\ receiver = "open" /\ receiver' = receiver
      /\ sender' = sender /\ cur' = cur /\ sent' = sent
      /\ \/ received' = received
         \/ \E b : received' = Append(received, b)
  BY DEF ReadSome, Take, sending
<1>2. Complete' = Complete /\ SenderEnd' = SenderEnd /\ ReceiverEnd' = ReceiverEnd
  BY <1>1 DEF Complete, SenderEnd, ReceiverEnd
<1>3. /\ Complete \in Nat /\ Len(received) \in Nat
      /\ Len(received') <= Complete'
  <2>1. Len(received') <= Complete'
    BY AfterStep
  <2> QED BY <2>1, FramesComplete
<1>4. CASE received' = received
  <2>1. Numbers' = Numbers /\ Flying' = Flying
    BY <1>2, <1>4 DEF Numbers, NumberOf, Frame, Byte, Flying
  <2> QED BY <1>2, <2>1 DEF Channel!vars, Flying, Numbers, SenderEnd, ReceiverEnd
<1>5. ASSUME NEW b, received' = Append(received, b) PROVE Channel!Get
  <2>1. Len(received') = Len(received) + 1
    <3>1. received \in Seq(Seq(Nat)) /\ received' \in Seq(Seq(Nat))
      BY DEF Framing, TypeOK
    <3> QED BY <1>5, <3>1
  <2>2. Len(received) + 1 <= Complete
    BY <1>2, <1>3, <2>1
  <2>3. /\ Flying # <<>> /\ Head(Flying) = Len(received) + 1
        /\ Flying' = Tail(Flying)
    BY <1>2, <1>3, <2>1, <2>2, FlyingGet DEF Flying
  <2>4. Numbers' = Append(Numbers, Len(received) + 1)
    <3>1. Numbers = [i \in 1..Len(received) |-> i]
      BY NumbersInTurn
    <3>2. Numbers' = [i \in 1..(Len(received) + 1) |-> i]
      <4>1. Numbers' = [i \in 1..Len(received') |-> i]
        BY AfterStep
      <4> QED BY <2>1, <4>1
    <3>3. [i \in 1..(Len(received) + 1) |-> i] = Append([i \in 1..Len(received) |-> i], Len(received) + 1)
      BY <1>3, FlyingPut
    <3> QED BY <3>1, <3>2, <3>3
  <2>5. ReceiverEnd = "open"
    BY <1>1 DEF ReceiverEnd
  <2> QED BY <1>2, <2>3, <2>4, <2>5 DEF Channel!Get, Flying, Numbers, SenderEnd, ReceiverEnd
<1> QED BY <1>1, <1>4, <1>5

LEMMA ChannelStep ==
  Framing /\ Framing' /\ [Next]_vars => [Channel!Next]_(Channel!vars)
<1> SUFFICES ASSUME Framing, Framing', [Next]_vars
             PROVE  Channel!Next \/ UNCHANGED Channel!vars
  OBVIOUS
<1> USE SizeAssumption, MaxFramesAssumption
<1>1. ASSUME NEW k \in Chunks, SendSome(k) PROVE Channel!Next \/ UNCHANGED Channel!vars
  BY <1>1, SendPuts DEF Channel!Next
<1>2. ASSUME NEW k \in Chunks, ReadSome(k) PROVE Channel!Next \/ UNCHANGED Channel!vars
  BY <1>2, ReadGets DEF Channel!Next
<1>3. ASSUME UNCHANGED <<received, wire>>, Complete' = Complete
      PROVE  Numbers' = Numbers /\ Flying' = Flying
  BY <1>3 DEF Numbers, NumberOf, Frame, Byte, Flying
<1>4. CASE SendFrame
  <2>1. sent = FrameSize /\ sent' = 0 /\ cur' = cur + 1 /\ cur \in Int /\ FrameSize # 0
    BY <1>4 DEF SendFrame, Framing, SentWhenIdle, TypeOK
  <2>2. Complete' = Complete
    BY <2>1 DEF Complete
  <2>3. /\ UNCHANGED <<received, wire>>
        /\ SenderEnd' = SenderEnd /\ ReceiverEnd' = ReceiverEnd
    BY <1>4 DEF SendFrame, receiving, SenderEnd, ReceiverEnd
  <2> QED BY <1>3, <2>2, <2>3 DEF Channel!vars, Flying, Numbers, SenderEnd, ReceiverEnd
<1>5. CASE SendFails \/ DaemonEnds
  <2>1. UNCHANGED <<received, wire, cur, sent, receiver>> /\ sender # "closed" /\ sender' = "closed"
    BY <1>5 DEF SendFails, DaemonEnds, receiving
  <2>2. Complete' = Complete
    BY <2>1 DEF Complete
  <2>3. SenderEnd = "open" /\ SenderEnd' = "closed" /\ ReceiverEnd' = ReceiverEnd
    BY <2>1 DEF SenderEnd, ReceiverEnd
  <2>4. Channel!SenderEnds
    BY <1>3, <2>1, <2>2, <2>3 DEF Channel!SenderEnds, Flying, Numbers, SenderEnd, ReceiverEnd
  <2> QED BY <2>4 DEF Channel!Next
<1>6. CASE ReadEof
  <2>1. /\ UNCHANGED <<received, wire, cur, sent, sender>>
        /\ receiver = "open" /\ receiver' = "eof" /\ sender = "closed" /\ wire = <<>>
    BY <1>6 DEF ReadEof, sending
  <2>2. Complete' = Complete
    BY <2>1 DEF Complete
  <2>3. Flying = <<>>
    BY <2>1, FramesComplete, NothingFlying
  <2>4. SenderEnd = "closed" /\ SenderEnd' = "closed" /\ ReceiverEnd = "open" /\ ReceiverEnd' = "eof"
    BY <2>1 DEF SenderEnd, ReceiverEnd
  <2>5. Channel!Eof
    BY <1>3, <2>1, <2>2, <2>3, <2>4 DEF Channel!Eof, Flying, Numbers, SenderEnd, ReceiverEnd
  <2> QED BY <2>5 DEF Channel!Next
<1>7. CASE ReadFails \/ UiEnds
  <2>1. /\ UNCHANGED <<received, wire, cur, sent, sender>>
        /\ receiver # "closed" /\ receiver' \in {"failed", "closed"}
    BY <1>7 DEF ReadFails, UiEnds, sending
  <2>2. Complete' = Complete
    BY <2>1 DEF Complete
  <2>3. SenderEnd' = SenderEnd /\ ReceiverEnd' = "closed"
    BY <2>1 DEF SenderEnd, ReceiverEnd
  <2>4. CASE ReceiverEnd # "closed"
    <3>1. Channel!ReceiverEnds
      BY <1>3, <2>1, <2>2, <2>3, <2>4
         DEF Channel!ReceiverEnds, Flying, Numbers, SenderEnd, ReceiverEnd
    <3> QED BY <3>1 DEF Channel!Next
  <2>5. CASE ReceiverEnd = "closed"
    BY <1>3, <2>1, <2>2, <2>3, <2>5 DEF Channel!vars, Flying, Numbers, SenderEnd, ReceiverEnd
  <2> QED BY <2>4, <2>5
<1>8. CASE UNCHANGED vars
  <2>1. UNCHANGED <<received, wire, cur, sent, sender, receiver>>
    BY <1>8 DEF vars
  <2>2. Complete' = Complete /\ SenderEnd' = SenderEnd /\ ReceiverEnd' = ReceiverEnd
    BY <2>1 DEF Complete, SenderEnd, ReceiverEnd
  <2> QED BY <1>3, <2>1, <2>2 DEF Channel!vars, Flying, Numbers, SenderEnd, ReceiverEnd
<1> QED BY <1>1, <1>2, <1>4, <1>5, <1>6, <1>7, <1>8 DEF Next

\* Both loops together are a channel of whole frames that loses, repeats, mixes and
\* reorders none, for every size of frame and buffers.
THEOREM ChannelCorrect == Spec => ChannelSpec
<1>1. Init => Framing
  BY FramingInit
<1>2. Framing /\ [Next]_vars => Framing'
  BY FramingStep
<1> QED BY <1>1, <1>2, ChannelInit, ChannelStep, PTL DEF Spec, ChannelSpec, Channel!Spec

============================================================================
