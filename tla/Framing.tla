------------------------------ MODULE Framing ------------------------------
(***************************************************************************)
(* The wire frame of the command channel (src/pakon_proto.c): a type, a    *)
(* count, and that many bytes, the first of which is the address.  A       *)
(* packet is a record; its count is the length of its data.                *)
(***************************************************************************)
EXTENDS Integers, Sequences

Byte    == 0 .. 255
WordMax == 65535
Word    == 0 .. WordMax
DataMax == 34            \* PAKON_DATA_MAX

Packets == [type : Byte, data : {d \in Seq(Byte) : Len(d) <= DataMax}]

\* pakon_packet_build, for data that fits.
Build(type, data) == [type |-> type, data |-> data]

Serialize(pkt) == <<pkt.type, Len(pkt.data)>> \o pkt.data

\* What pakon_packet_parse accepts: a frame that is as long as it says.
WellFramed(raw) ==
  /\ Len(raw) >= 2
  /\ raw[2] <= DataMax
  /\ Len(raw) = 2 + raw[2]

Parse(raw) == Build(raw[1], SubSeq(raw, 3, Len(raw)))

\* Both give 0 for a packet too short to have one.
Addr(pkt)   == IF Len(pkt.data) >= 1 THEN pkt.data[1] ELSE 0
Status(pkt) == IF Len(pkt.data) >= 2 THEN pkt.data[2] ELSE 0

\* pakon_calib_build_write: one register write, low byte first.
BuildWrite(w) ==
  Build(2, <<36, 3, w.bank, w.reg, w.value % 256, (w.value \div 256) % 256>>)

=============================================================================
