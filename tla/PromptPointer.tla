--------------------------- MODULE PromptPointer ---------------------------
(***************************************************************************)
(* The prompt of a work item: the text at a JSON pointer in the payload    *)
(* (internal/config, payload_text.go).                                     *)
(*                                                                         *)
(* A string is a sequence of bytes.  A JSON value is a record: a text with *)
(* its bytes, a map with a function from its keys, an array with the       *)
(* sequence of its elements, or something else.                            *)
(***************************************************************************)
EXTENDS Integers, Sequences, SequencesExt

Byte == 0..255
Space == 32
Spaces == 9..13 \cup {Space}
Plus == 43
Minus == 45
Slash == 47
Zero == 48
One == 49
Digits == Zero..(Zero + 9)
Tilde == 126

\* strings.TrimSpace leaves nothing; the spaces beyond ASCII are left out.
Blank(text) == \A i \in DOMAIN text : text[i] \in Spaces

Missing == [kind |-> "missing"]

\* Seeded fault: one replacement after the other, "~0" first.
DecodedInTurn(raw) ==
    LET replaced(text, digit, byte) ==
            FoldLeft(LAMBDA done, b :
                         IF b = digit /\ done # <<>> /\ Last(done) = Tilde
                         THEN Append(Front(done), byte) ELSE Append(done, b),
                     <<>>, text)
    IN replaced(replaced(raw, Zero, Tilde), One, Slash)

\* decodePointerSegment: both replacements in one pass from left to right.  The pass is
\* open after a "~" that the next byte may turn into something else.
Replace(pass, byte) ==
    CASE pass.open /\ byte = Zero -> [text |-> pass.text, open |-> FALSE]
      [] pass.open /\ byte = One  -> [text |-> Append(Front(pass.text), Slash), open |-> FALSE]
      [] OTHER -> [text |-> Append(pass.text, byte), open |-> byte = Tilde]

Decoding(raw) ==
    LET pass[n \in 0..Len(raw)] ==
            IF n = 0 THEN [text |-> <<>>, open |-> FALSE] ELSE Replace(pass[n - 1], raw[n])
    IN pass[Len(raw)]

Decoded(raw) == Decoding(raw).text

\* strings.Split at each slash.
Cut(segments, byte) ==
    IF byte = Slash THEN Append(segments, <<>>)
    ELSE Append(Front(segments), Append(Last(segments), byte))

Split(text) ==
    LET segments[n \in 0..Len(text)] ==
            IF n = 0 THEN <<<<>>>> ELSE Cut(segments[n - 1], text[n])
    IN segments[Len(text)]

\* strconv.Atoi: an optional sign and digits; -1 stands for every refusal.
Value(number) ==
    LET value[n \in 0..Len(number)] ==
            IF n = 0 THEN 0 ELSE 10 * value[n - 1] + (number[n] - Zero)
    IN value[Len(number)]

Index(segment) ==
    LET signed == segment # <<>> /\ Head(segment) \in {Plus, Minus}
        number == IF signed THEN Tail(segment) ELSE segment
    IN IF \/ number = <<>> \/ ToSet(number) \ Digits # {}
          \/ Head(segment) = Minus /\ Value(number) > 0
       THEN -1 ELSE Value(number)

PointerStep(current, segment) ==
    CASE current.kind = "map" /\ segment \in DOMAIN current.child -> current.child[segment]
      [] current.kind = "array" /\ Index(segment) \in 0..(Len(current.child) - 1) ->
            current.child[Index(segment) + 1]
      [] OTHER -> Missing

ValueAtPointer(value, pointer) ==
    LET raw == Split(Tail(pointer))
        current[n \in 0..Len(raw)] ==
            IF n = 0 THEN value ELSE PointerStep(current[n - 1], Decoded(raw[n]))
    IN IF pointer = <<>> \/ Head(pointer) # Slash THEN Missing ELSE current[Len(raw)]

\* The prompt, or the empty string for an invalid payload.
ExtractPromptText(payload, pointer) ==
    LET value == ValueAtPointer(payload, pointer)
    IN IF value.kind = "text" /\ ~Blank(value.text) THEN value.text ELSE <<>>

-----------------------------------------------------------------------------
(* What a pointer is, by the children it passes (RFC 6901).                *)

Escape(byte) ==
    CASE byte = Tilde -> <<Tilde, Zero>> [] byte = Slash -> <<Tilde, One>> [] OTHER -> <<byte>>

Escaped(key) ==
    LET text[n \in 0..Len(key)] == IF n = 0 THEN <<>> ELSE text[n - 1] \o Escape(key[n])
    IN text[Len(key)]

\* An index without leading zeros.
Numeral(index) ==
    LET text[n \in 0..index] ==
            IF n < 10 THEN <<Zero + n>> ELSE Append(text[n \div 10], Zero + (n % 10))
    IN text[index]

\* The keys of a map are strings, and an array has its elements in a row.
IsJson(value) ==
    /\ value.kind = "map" => DOMAIN value.child \subseteq Seq(Byte)
    /\ value.kind = "array" => value.child \in Seq(ToSet(value.child))

\* The children of a value, each with its segment of a pointer.
Children(value) ==
    CASE value.kind = "map"   -> {<<Escaped(k), value.child[k]>> : k \in DOMAIN value.child}
      [] value.kind = "array" -> {<<Numeral(i - 1), value.child[i]>> : i \in DOMAIN value.child}
      [] OTHER                -> {}

Pointer(segments) ==
    LET text[n \in 0..Len(segments)] ==
            IF n = 0 THEN <<>> ELSE text[n - 1] \o <<Slash>> \o segments[n]
    IN text[Len(segments)]

Found(payload, segments, value) ==
    /\ ValueAtPointer(payload, Pointer(segments)) = value
    /\ ExtractPromptText(payload, Pointer(segments))
          = IF value.kind = "text" /\ ~Blank(value.text) THEN value.text ELSE <<>>

\* Every value of a payload is found at its pointer, whatever is in the keys on the way,
\* and it is the prompt if it is a text that is not blank (ExtractPromptText).
Reaches(payload) ==
    \A c \in Children(payload) :
        /\ Found(payload, <<c[1]>>, c[2])
        /\ \A d \in Children(c[2]) : Found(payload, <<c[1], d[1]>>, d[2])
=============================================================================
