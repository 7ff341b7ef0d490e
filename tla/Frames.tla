------------------------------- MODULE Frames -------------------------------
(***************************************************************************)
(* The frames of the websocket (internal/control, connection.go): the      *)
(* header that announces a payload and how it is read back.                *)
(*                                                                         *)
(* What is on the wire is a sequence of items: the bytes of headers, and   *)
(* whole payloads and masks, of which only the length matters.             *)
(***************************************************************************)
EXTENDS Integers, Sequences, SequencesExt

FinalText == 129        \* 0x81: a final frame, and its opcode 1

\* So many bytes that are not looked at.
Block(length) == [bytes |-> length]

\* binary.BigEndian: a number as two or eight bytes, and back from a place on the wire.
PutUint16(number) == <<(number \div 256) % 256, number % 256>>
PutUint32(number) == PutUint16(number \div 65536) \o PutUint16(number)
PutUint64(number) == PutUint32((number \div 65536) \div 65536) \o PutUint32(number)

Uint16(wire, at) == 256 * wire[at] + wire[at + 1]
Uint32(wire, at) == 65536 * Uint16(wire, at) + Uint16(wire, at + 2)
Uint64(wire, at) == 65536 * (65536 * Uint32(wire, at)) + Uint32(wire, at + 4)

\* The lengths an int holds, of 64 bits: so the length of every slice of bytes.
Lengths == {n \in Nat : ((n \div 65536) \div 65536) \div 65536 < 32768}

\* Seeded fault: two bytes for a length they do not hold.
AppendLengthOffByOne(length, masked) ==
    LET prefix == IF masked THEN 128 ELSE 0
    IN IF length < 126 THEN <<prefix + length>>
       ELSE IF length <= 65536 THEN <<prefix + 126>> \o PutUint16(length)
       ELSE <<prefix + 127>> \o PutUint64(length)

\* appendLength: seven bits, or 126 and two bytes, or 127 and eight.
AppendLength(length, masked) ==
    LET prefix == IF masked THEN 128 ELSE 0
    IN IF length < 126 THEN <<prefix + length>>
       ELSE IF length <= 65535 THEN <<prefix + 126>> \o PutUint16(length)
       ELSE <<prefix + 127>> \o PutUint64(length)

\* writeText: every frame of the client is masked.
WriteText(length) ==
    <<FinalText>> \o AppendLength(length, TRUE) \o <<Block(4)>> \o <<Block(length)>>

\* A frame of the app server: masked or not, with any opcode, 1 for a text.
ServerFrame(opcode, length, masked) ==
    <<128 + opcode>> \o AppendLength(length, masked)
        \o (IF masked THEN <<Block(4)>> ELSE <<>>) \o <<Block(length)>>

\* frameLength: how long the payload is, and how many bytes told so; an error, -1, for a
\* length no int holds.
FrameLength(wire) ==
    LET short == wire[2] % 128
    IN IF short < 126 THEN [length |-> short, used |-> 0]
       ELSE IF short = 126 THEN [length |-> Uint16(wire, 3), used |-> 2]
       ELSE IF wire[3] >= 128 THEN [length |-> -1, used |-> 8]
       ELSE [length |-> Uint64(wire, 3), used |-> 8]

\* frameMask: whether four bytes of mask follow the length.
FrameMask(second) == second >= 128

\* readFrame: the opcode, the payload's length and what is left on the wire.
ReadFrame(wire) ==
    LET length == FrameLength(wire)
        payload == 3 + length.used + (IF FrameMask(wire[2]) THEN 1 ELSE 0)
    IN [opcode |-> wire[1] % 16, length |-> length.length,
        payload |-> wire[payload], rest |-> SubSeq(wire, payload + 1, Len(wire))]

\* Whatever the lengths of two frames, masked or not, the first is read as it was
\* written and the second is where the reader goes on (writeText, readFrame).
Aligned(opcode, length, masked, next) ==
    LET first == ServerFrame(opcode, length, masked)
        second == WriteText(next)
        read == ReadFrame(first \o second)
    IN /\ read.opcode = opcode
       /\ read.length = length
       /\ read.payload = Block(length)
       /\ read.rest = second
       /\ LET last == ReadFrame(second)
          IN last.opcode = 1 /\ last.length = next /\ last.rest = <<>>
=============================================================================
