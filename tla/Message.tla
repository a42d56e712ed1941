-------------------------------- MODULE Message --------------------------------
(***************************************************************************)
(* Net::Message (Message.h): a body of bytes that is used as a stack of    *)
(* values, and the size of the body in the header.  Message_converter      *)
(* packs its Server_data the same way.                                     *)
(*                                                                         *)
(* A value of a standard layout type is the sequence of its bytes, a       *)
(* string that of its characters.  A container size is stored in           *)
(* sizeof(Size_type) bytes, the least significant first.                   *)
(***************************************************************************)
EXTENDS Integers, Sequences

CONSTANTS
    ByteValues,    \* values of a byte, 256 in the code
    SizeWidth,     \* sizeof(Size_type), 8 in the code
    MaxBody,       \* the largest body: numeric_limits and vector::max_size
    Data,          \* the values that are pushed, not the strings
    Strings        \* the strings that are pushed

Byte == 0 .. ByteValues - 1

\* How many numbers n bytes can hold.
Power[n \in Nat] == IF n = 0 THEN 1 ELSE ByteValues * Power[n - 1]

\* A Size_type can hold the size of every body: Header_size_type is no wider.
ASSUME MessageAssumption ==
    /\ ByteValues \in Nat \ {0, 1}
    /\ SizeWidth \in Nat \ {0}
    /\ MaxBody \in 0 .. Power[SizeWidth] - 1
    /\ Data \subseteq Seq(Byte) \ {<<>>}
    /\ Strings \subseteq Seq(Byte)

VARIABLES
    m_body,
    m_size,     \* m_header.m_size
    items,      \* what the body holds: the values pushed and not extracted yet
    result,     \* what the last extract returned, or <<>>
    thrown      \* what the last call threw, or "none"

vars == <<m_body, m_size, items, result, thrown>>

Exceptions == {"none", "length_error", "out_of_range"}

\* Raw bytes are left where a call failed half way, or extracted another type than
\* was pushed.
Item == [kind: {"data", "string", "raw"}, bytes: Seq(Byte)]

\* Every variable has its type, and no call leaves a body that the size in the header
\* cannot express.
TypeOK ==
    /\ m_body \in Seq(Byte) /\ Len(m_body) <= MaxBody
    /\ m_size \in 0 .. MaxBody
    /\ items \in Seq(Item)
    /\ result \in Seq(Byte)
    /\ thrown \in Exceptions

Init ==
    /\ m_body = <<>>
    /\ m_size = 0
    /\ items = <<>>
    /\ result = <<>>
    /\ thrown = "none"
-------------------------------------------------------------------------------
\* A Size_type as bytes, and back.
Encode(n) == [i \in 1 .. SizeWidth |-> (n \div Power[i - 1]) % ByteValues]

Decode(bytes) == CHOOSE n \in 0 .. Power[SizeWidth] - 1 : Encode(n) = bytes

\* Each call yields the body and the size in the header that it leaves, what it extracted
\* and what it threw.
Outcome(body, size, out, exception) ==
    [body |-> body, size |-> size, out |-> out, thrown |-> exception]

\* The end of both transfers: the size of the body goes into the header, unless
\* checked_cast finds that it does not fit.
SetSize(body, size, out) ==
    IF Len(body) <= MaxBody THEN Outcome(body, Len(body), out, "none")
    ELSE Outcome(body, size, <<>>, "length_error")

\* Variant of push_back_buffer that puts the bytes in front.
PushFrontBuffer(body, size, bytes) ==
    IF Len(body) + Len(bytes) > MaxBody THEN Outcome(body, size, <<>>, "length_error")
    ELSE IF bytes = <<>> THEN Outcome(body, size, <<>>, "out_of_range")
    ELSE SetSize(bytes \o body, size, <<>>)

\* Variant of push_back_buffer that tests the length of the new bytes alone.
PushTestsBytes(body, size, bytes) ==
    IF Len(bytes) > MaxBody THEN Outcome(body, size, <<>>, "length_error")
    ELSE IF bytes = <<>> THEN Outcome(body, size, <<>>, "out_of_range")
    ELSE SetSize(body \o bytes, size, <<>>)

\* The body is resized, and the bytes are copied to m_body.at(size), which throws when
\* there are none: then it is one past the end.
push_back_buffer(body, size, bytes) ==
    LET resized == body \o bytes IN
    IF Len(body) + Len(bytes) > MaxBody THEN Outcome(body, size, <<>>, "length_error")
    ELSE IF bytes = <<>> THEN Outcome(resized, size, <<>>, "out_of_range")
    ELSE SetSize(resized, size, <<>>)

\* Variant of push_back_string that takes the characters back with resize_body, which
\* leaves the header alone, if their number does not fit.
StringTakenBack(body, size, string) ==
    LET chars == push_back_buffer(body, size, string)
        both == push_back_buffer(chars.body, chars.size, Encode(Len(string)))
    IN  IF chars.thrown # "none" THEN chars
        ELSE IF both.thrown # "none" THEN Outcome(body, chars.size, <<>>, both.thrown) ELSE both

\* The characters, and then their number.  If that does not fit, the characters stay.
push_back_string(body, size, string) ==
    LET chars == push_back_buffer(body, size, string) IN
    IF chars.thrown # "none" THEN chars
    ELSE push_back_buffer(chars.body, chars.size, Encode(Len(string)))

\* m_body.at(new_size) throws when there is nothing to copy; the body is resized after it.
extract_to_buffer(body, size, buffer_size) ==
    LET new_size == Len(body) - buffer_size IN
    IF buffer_size > Len(body) THEN Outcome(body, size, <<>>, "length_error")
    ELSE IF buffer_size = 0 THEN Outcome(body, size, <<>>, "out_of_range")
    ELSE SetSize(SubSeq(body, 1, new_size), size, SubSeq(body, new_size + 1, Len(body)))

\* The number, and then the characters.  If these are not there, the number is lost.
extract_string(body, size) ==
    LET number == extract_to_buffer(body, size, SizeWidth) IN
    IF number.thrown # "none" THEN number
    ELSE extract_to_buffer(number.body, number.size, Decode(number.out))
-------------------------------------------------------------------------------
\* A call of the program, with what it leaves in the two members.
Does(outcome) ==
    /\ m_body' = outcome.body
    /\ m_size' = outcome.size
    /\ result' = outcome.out
    /\ thrown' = outcome.thrown

Raw(body) == IF body = <<>> THEN <<>> ELSE <<[kind |-> "raw", bytes |-> body]>>

Pushed(item, outcome) ==
    items' = IF outcome.thrown = "none" THEN Append(items, item)
             ELSE IF outcome.body = m_body THEN items ELSE Raw(outcome.body)

\* The last item is of this kind and size.
IsLast(kind, size) ==
    /\ items # <<>>
    /\ items[Len(items)].kind = kind
    /\ kind = "string" \/ Len(items[Len(items)].bytes) = size

Extracted(kind, size, outcome) ==
    items' = IF IsLast(kind, size) THEN SubSeq(items, 1, Len(items) - 1)
             ELSE IF outcome.body = m_body THEN items ELSE Raw(outcome.body)

push_back(data) ==
    LET outcome == push_back_buffer(m_body, m_size, data) IN
    Does(outcome) /\ Pushed([kind |-> "data", bytes |-> data], outcome)

PushString(string) ==
    LET outcome == push_back_string(m_body, m_size, string) IN
    Does(outcome) /\ Pushed([kind |-> "string", bytes |-> string], outcome)

extract(size) ==
    LET outcome == extract_to_buffer(m_body, m_size, size) IN
    Does(outcome) /\ Extracted("data", size, outcome)

ExtractString ==
    LET outcome == extract_string(m_body, m_size) IN
    Does(outcome) /\ Extracted("string", 0, outcome)

clear == Does(Outcome(<<>>, 0, <<>>, "none")) /\ items' = <<>>

Next ==
    \/ \E data \in Data : push_back(data)
    \/ \E string \in Strings : PushString(string)
    \/ \E data \in Data : extract(Len(data))
    \/ ExtractString
    \/ clear

Spec == Init /\ [][Next]_vars
-------------------------------------------------------------------------------
\* The header announces exactly the bytes of the body, also after a call that threw
\* between its change of the body and its change of the header, or in the second of two
\* transfers: the peer reads the body by this size.
HeaderMatchesBody == m_size = Len(m_body)

\* A value that is extracted as the type it was pushed as is the value that was pushed.
RoundTrip ==
    [][/\ \A data \in Data :
              extract(Len(data)) /\ IsLast("data", Len(data)) =>
                  thrown' = "none" /\ result' = items[Len(items)].bytes
       /\ ExtractString /\ IsLast("string", 0) =>
              thrown' = "none" /\ result' = items[Len(items)].bytes]_vars

\* push_back throws only if the data is too large.
PushThrowsOnlyTooLarge ==
    [][(\E string \in Strings :
            PushString(string) /\ Len(m_body) + Len(string) + SizeWidth <= MaxBody) =>
           thrown' = "none"]_vars
===============================================================================
