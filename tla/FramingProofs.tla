--------------------------- MODULE FramingProofs ---------------------------
(***************************************************************************)
(* What the frames of the command channel keep of a packet: building and   *)
(* parsing are inverse to each other, a frame that lost or gained a byte   *)
(* is refused, and a register write reaches the device as it was meant.    *)
(***************************************************************************)
EXTENDS Framing, SequenceTheorems, TLAPS

\* The fields of a packet.
LEMMA PacketType ==
  ASSUME NEW pkt \in Packets
  PROVE  /\ pkt.type \in Nat
         /\ pkt.data \in Seq(Byte) /\ pkt.data \in Seq(Nat)
         /\ Len(pkt.data) \in Nat /\ Len(pkt.data) <= DataMax
         /\ pkt = [type |-> pkt.type, data |-> pkt.data]
<1>1. Byte \subseteq Nat
  BY DEF Byte
<1> DEFINE Fits == {d \in Seq(Byte) : Len(d) <= DataMax}
<1>2. pkt \in [type : Byte, data : Fits]
  BY DEF Packets
<1>3. /\ pkt.type \in Byte /\ pkt.data \in Fits
      /\ pkt = [type |-> pkt.type, data |-> pkt.data]
  <2> HIDE DEF Fits
  <2> QED BY <1>2
<1>4. pkt.data \in Seq(Byte) /\ Len(pkt.data) <= DataMax
  BY <1>3
<1> QED
  BY <1>1, <1>3, <1>4, LenProperties, SeqMonotonic

\* The elements of a frame, one by one.
LEMMA FrameElements ==
  ASSUME NEW pkt \in Packets
  PROVE  /\ Serialize(pkt) \in Seq(Nat)
         /\ Len(Serialize(pkt)) = 2 + Len(pkt.data)
         /\ Serialize(pkt)[1] = pkt.type
         /\ Serialize(pkt)[2] = Len(pkt.data)
         /\ \A i \in 1 .. Len(pkt.data) : Serialize(pkt)[i + 2] = pkt.data[i]
<1> DEFINE head == <<pkt.type, Len(pkt.data)>>
<1>1. pkt.type \in Nat /\ pkt.data \in Seq(Byte) /\ Len(pkt.data) \in Nat
  BY PacketType
<1>2. pkt.data \in Seq(Nat)
  BY PacketType
<1>3. /\ head \in Seq(Nat) /\ Len(head) = 2
      /\ head[1] = pkt.type /\ head[2] = Len(pkt.data)
  BY <1>1
<1> HIDE DEF head
<1>4. /\ head \o pkt.data \in Seq(Nat)
      /\ Len(head \o pkt.data) = Len(head) + Len(pkt.data)
      /\ \A i \in 1 .. Len(head) + Len(pkt.data) :
           (head \o pkt.data)[i] = IF i <= Len(head) THEN head[i]
                                   ELSE pkt.data[i - Len(head)]
  BY <1>2, <1>3, ConcatProperties
<1>5. Serialize(pkt) = head \o pkt.data
  BY DEF Serialize, head
<1> QED
  BY <1>1, <1>3, <1>4, <1>5

\* A packet whose data fits is a frame the parser accepts, and the parser
\* gives the packet back (pakon_packet_serialize, pakon_packet_parse).
THEOREM RoundTrip ==
  ASSUME NEW pkt \in Packets
  PROVE  WellFramed(Serialize(pkt)) /\ Parse(Serialize(pkt)) = pkt
<1> DEFINE raw == Serialize(pkt)
<1>1. /\ raw \in Seq(Nat) /\ Len(raw) = 2 + Len(pkt.data)
      /\ raw[1] = pkt.type /\ raw[2] = Len(pkt.data)
      /\ \A i \in 1 .. Len(pkt.data) : raw[i + 2] = pkt.data[i]
  BY FrameElements
<1>2. pkt.data \in Seq(Byte) /\ Len(pkt.data) \in Nat /\ Len(pkt.data) <= DataMax
  BY PacketType
<1> HIDE DEF raw
<1>3. WellFramed(raw)
  BY <1>1, <1>2 DEF WellFramed
<1>4. SubSeq(raw, 3, Len(raw)) = pkt.data
  <2> DEFINE rest == SubSeq(raw, 3, Len(raw))
  <2>1. /\ rest \in Seq(Nat) /\ Len(rest) = Len(pkt.data)
        /\ \A i \in 1 .. Len(rest) : rest[i] = raw[3 + i - 1]
    BY <1>1, <1>2, SubSeqProperties
  <2> HIDE DEF rest
  <2>2. \A i \in 1 .. Len(rest) : rest[i] = pkt.data[i]
    BY <1>1, <1>2, <2>1
  <2> QED
    BY <1>2, <2>1, <2>2, SeqEqual DEF rest, Byte
<1>5. pkt = [type |-> pkt.type, data |-> pkt.data]
  BY PacketType
<1> QED
  BY <1>1, <1>3, <1>4, <1>5 DEF Parse, Build, raw

\* Whatever the parser accepts is a packet, and that packet's own frame: two
\* frames never give the same packet, nor one frame two.
THEOREM ParsedAgain ==
  ASSUME NEW raw \in Seq(Byte), WellFramed(raw)
  PROVE  Parse(raw) \in Packets /\ Serialize(Parse(raw)) = raw
<1> DEFINE d == SubSeq(raw, 3, Len(raw))
           pkt == Parse(raw)
<1>1. Len(raw) \in Nat /\ Len(raw) >= 2 /\ raw[2] <= DataMax /\ Len(raw) = 2 + raw[2]
  BY LenProperties DEF WellFramed
<1>2. \A i \in 1 .. Len(raw) : raw[i] \in Byte
  BY ElementOfSeq
<1>3. /\ d \in Seq(Byte) /\ Len(d) = raw[2]
      /\ \A i \in 1 .. Len(d) : d[i] = raw[i + 2]
  <2>1. /\ d \in Seq(Byte)
        /\ Len(d) = IF 3 <= Len(raw) THEN Len(raw) - 3 + 1 ELSE 0
        /\ \A i \in 1 .. Len(raw) - 3 + 1 : d[i] = raw[3 + i - 1]
    BY <1>1, <1>2, SubSeqProperties
  <2>2. raw[2] \in Nat
    <3>1. 2 \in 1 .. Len(raw)
      BY <1>1
    <3>2. raw[2] \in Byte
      BY <1>2, <3>1
    <3>3. Byte \subseteq Nat
      BY DEF Byte
    <3> QED
      BY <3>2, <3>3
  <2> HIDE DEF d
  <2> QED
    BY <1>1, <2>1, <2>2
<1> HIDE DEF d
<1>4. pkt = [type |-> raw[1], data |-> d]
  BY DEF Parse, Build, d
<1>5. pkt \in Packets
  <2>1. raw[1] \in Byte
    BY <1>1, <1>2
  <2>2. d \in {e \in Seq(Byte) : Len(e) <= DataMax}
    BY <1>1, <1>3
  <2> QED
    BY <1>4, <2>1, <2>2 DEF Packets
<1>6. pkt.type = raw[1] /\ pkt.data = d
  BY <1>4
<1> HIDE DEF pkt
<1>7. Serialize(pkt) = raw
  <2> DEFINE out == Serialize(pkt)
  <2>1. /\ out \in Seq(Nat) /\ Len(out) = 2 + Len(d)
        /\ out[1] = raw[1] /\ out[2] = Len(d)
        /\ \A i \in 1 .. Len(d) : out[i + 2] = d[i]
    BY <1>5, <1>6, FrameElements
  <2> HIDE DEF out
  <2>2. raw \in Seq(Nat)
    <3>1. Byte \subseteq Nat
      BY DEF Byte
    <3> QED
      BY <3>1, SeqMonotonic
  <2>3. Len(out) = Len(raw)
    BY <1>1, <1>3, <2>1
  <2>4. ASSUME NEW i \in 1 .. Len(out)
        PROVE  out[i] = raw[i]
    <3>1. CASE i = 1
      BY <2>1, <3>1
    <3>2. CASE i = 2
      BY <1>3, <2>1, <3>2
    <3>3. CASE i > 2
      <4>1. i - 2 \in 1 .. Len(d)
        BY <1>1, <1>3, <2>1, <2>3, <3>3
      <4>2. out[(i - 2) + 2] = d[i - 2] /\ d[i - 2] = raw[(i - 2) + 2]
        BY <1>3, <2>1, <4>1
      <4>3. (i - 2) + 2 = i
        BY <1>1, <2>3
      <4> QED
        BY <4>2, <4>3
    <3> QED
      BY <1>1, <2>3, <3>1, <3>2, <3>3
  <2> QED
    BY <2>1, <2>2, <2>3, <2>4, SeqEqual DEF out
<1> QED
  BY <1>5, <1>7 DEF pkt

\* A frame that is cut short, or that the next bytes of the stream have run
\* into, is refused: the parser never takes the length it was given for the
\* length the frame states.
THEOREM TornFrameRefused ==
  ASSUME NEW pkt \in Packets, NEW raw \in Seq(Byte),
         Len(raw) # Len(Serialize(pkt)),
         Len(raw) >= 2 => raw[2] = Serialize(pkt)[2]
  PROVE  ~ WellFramed(raw)
<1>1. Len(raw) \in Nat
  BY LenProperties
<1>2. Len(Serialize(pkt)) = 2 + Len(pkt.data) /\ Serialize(pkt)[2] = Len(pkt.data)
  BY FrameElements
<1> QED
  BY <1>1, <1>2 DEF WellFramed

\* Two bytes carry a word.
LEMMA WordBytes ==
  ASSUME NEW v \in Word
  PROVE  /\ v % 256 \in Byte /\ (v \div 256) % 256 \in Byte
         /\ (v % 256) + 256 * ((v \div 256) % 256) = v
<1> DEFINE q == v \div 256
<1>1. v \in Int /\ v >= 0 /\ v <= 65535
  BY DEF Word, WordMax
<1>2. q \in Int /\ 256 * q <= v /\ v < 256 * q + 256 /\ v % 256 = v - 256 * q
  BY <1>1, SMTT(30)
<1> HIDE DEF q
<1>3. q >= 0 /\ q <= 255
  BY <1>1, <1>2
<1>4. q % 256 = q
  BY <1>2, <1>3
<1> QED
  BY <1>1, <1>2, <1>3, <1>4 DEF Byte, q

\* And two bytes are a word.
LEMMA WordOfBytes ==
  /\ 0 \in Word
  /\ \A a, b \in Byte : a + 256 * b \in Word
<1>1. /\ WordMax \in Int /\ 0 <= WordMax
      /\ \A a, b \in Byte :
           a + 256 * b \in Int /\ 0 <= a + 256 * b /\ a + 256 * b <= WordMax
  BY DEF Byte, WordMax
<1> QED
  BY <1>1 DEF Word

\* A register write is a packet, of these bytes.
LEMMA WritePacket ==
  ASSUME NEW w \in [bank : Byte, reg : Byte, value : Word]
  PROVE  /\ BuildWrite(w) \in Packets
         /\ BuildWrite(w).type = 2 /\ Len(BuildWrite(w).data) = 6
         /\ BuildWrite(w).data[1] = 36 /\ BuildWrite(w).data[2] = 3
         /\ BuildWrite(w).data[3] = w.bank /\ BuildWrite(w).data[4] = w.reg
         /\ BuildWrite(w).data[5] + 256 * BuildWrite(w).data[6] = w.value
<1> DEFINE d == <<36, 3, w.bank, w.reg, w.value % 256, (w.value \div 256) % 256>>
           pkt == BuildWrite(w)
<1>1. w.bank \in Byte /\ w.reg \in Byte /\ w.value \in Word
  OBVIOUS
<1>2. /\ w.value % 256 \in Byte /\ (w.value \div 256) % 256 \in Byte
      /\ (w.value % 256) + 256 * ((w.value \div 256) % 256) = w.value
  BY <1>1, WordBytes
<1>3. d \in Seq(Byte) /\ Len(d) = 6
  <2>1. 36 \in Byte /\ 3 \in Byte
    BY DEF Byte
  <2>2. \A a, b \in Byte : <<36, 3, w.bank, w.reg, a, b>> \in Seq(Byte)
    BY <1>1, <2>1
  <2> QED
    BY <1>2, <2>2
<1>4. /\ d[1] = 36 /\ d[2] = 3 /\ d[3] = w.bank /\ d[4] = w.reg
      /\ d[5] = w.value % 256 /\ d[6] = (w.value \div 256) % 256
  OBVIOUS
<1>5. pkt = [type |-> 2, data |-> d]
  BY DEF BuildWrite, Build
<1> HIDE DEF d
<1>6. pkt \in Packets
  <2>1. 2 \in Byte
    BY DEF Byte
  <2>2. 6 <= DataMax
    BY DEF DataMax
  <2>3. d \in {e \in Seq(Byte) : Len(e) <= DataMax}
    BY <1>3, <2>2
  <2> QED
    BY <1>5, <2>1, <2>3 DEF Packets
<1>7. pkt.data = d /\ pkt.type = 2
  BY <1>5
<1> HIDE DEF pkt
<1>8. pkt.data[5] + 256 * pkt.data[6] = w.value
  BY <1>2, <1>4, <1>7
<1> QED
  BY <1>3, <1>4, <1>6, <1>7, <1>8 DEF pkt

\* A register write of 16 bits: the scanner, parsing the frame, finds bank,
\* register and value as the calibration meant them (the value low byte
\* first), addressed to the front end.
THEOREM WriteDecodes ==
  ASSUME NEW w \in [bank : Byte, reg : Byte, value : Word]
  PROVE  LET p == Parse(Serialize(BuildWrite(w)))
         IN  /\ WellFramed(Serialize(BuildWrite(w)))
             /\ Addr(p) = 36 /\ p.data[3] = w.bank /\ p.data[4] = w.reg
             /\ p.data[5] + 256 * p.data[6] = w.value
<1> DEFINE pkt == BuildWrite(w)
<1>1. /\ pkt \in Packets /\ Len(pkt.data) = 6 /\ pkt.data[1] = 36
      /\ pkt.data[3] = w.bank /\ pkt.data[4] = w.reg
      /\ pkt.data[5] + 256 * pkt.data[6] = w.value
  BY WritePacket
<1> HIDE DEF pkt
<1>2. WellFramed(Serialize(pkt)) /\ Parse(Serialize(pkt)) = pkt
  BY <1>1, RoundTrip
<1> QED
  BY <1>1, <1>2 DEF Addr, pkt

\* A reply too short to carry a status has the status of a success (0), so
\* that the steps that ask for success take it for one.
THEOREM ShortReplyLooksGood ==
  ASSUME NEW pkt \in Packets, Len(pkt.data) < 2
  PROVE  WellFramed(Serialize(pkt)) /\ Status(Parse(Serialize(pkt))) = 0
<1>1. WellFramed(Serialize(pkt)) /\ Parse(Serialize(pkt)) = pkt
  BY RoundTrip
<1>2. Len(pkt.data) \in Nat
  BY PacketType
<1> QED
  BY <1>1, <1>2 DEF Status

=============================================================================
