----------------------------- MODULE FixMessage -----------------------------
(***************************************************************************)
(* The functions of fix_utils.hpp.  A text is a sequence of bytes, because *)
(* what can go wrong here is that a tag is found inside another text; only *)
(* the BeginString is kept whole.  Positions count from 1; 0 is npos.      *)
(***************************************************************************)
EXTENDS Integers, Sequences, FiniteSetsExt, SequencesExt

SOH == 1
BAR == 124
EQ  == 61
Digits == 48..57

\* std::to_string of a number
Decimal[n \in Nat] ==
    IF n < 10 THEN <<48 + n>> ELSE Append(Decimal[n \div 10], 48 + (n % 10))

\* std::stoi of a text that begins with a digit: the number it begins with.
LeadingDigits(text) == Max({k \in 0..Len(text) : \A i \in 1..k : text[i] \in Digits})
IsInt(text) == LeadingDigits(text) > 0
Stoi(text) ==
    LET number[k \in 0..Len(text)] == IF k = 0 THEN 0 ELSE 10 * number[k - 1] + text[k] - 48
    IN  number[LeadingDigits(text)]

\* std::string::find
Found(pattern, text, from) ==
    {i \in from..(Len(text) - Len(pattern) + 1) :
        \A j \in 1..Len(pattern) : text[i + j - 1] = pattern[j]}
Find(pattern, text, from) ==
    LET found == Found(pattern, text, from)
    IN  IF found = {} THEN 0 ELSE Min(found)

\* Where a text that begins at "from" ends: before the first of these bytes.
EndAt(byte, text, from) == Find(<<byte>>, text, from) - 1

Prefix(tag) == Append(Decimal[tag], EQ)
BeginString(version) == <<56, 61, 70, 73, 88, 46, 52, 46, 48 + version, SOH>>

ToSoh(text)  == [i \in DOMAIN text |-> IF text[i] = BAR THEN SOH ELSE text[i]]
ToPipe(text) == [i \in DOMAIN text |-> IF text[i] = SOH THEN BAR ELSE text[i]]
-----------------------------------------------------------------------------
\* The bytes before the first "10=", or all of them.
Summed(text) ==
    LET end == Find(Prefix(10), text, 1)
    IN  IF end = 0 THEN text ELSE SubSeq(text, 1, end - 1)

ByteSum(bytes) ==
    LET sum[i \in 0..Len(bytes)] == IF i = 0 THEN 0 ELSE (sum[i - 1] + bytes[i]) % 256
    IN  sum[Len(bytes)]

BugNoChecksum(text) == <<48, 48, 48>>
CalculateChecksum(text) ==
    LET sum == ByteSum(Summed(text))
    IN  <<48 + sum \div 100, 48 + ((sum \div 10) % 10), 48 + (sum % 10)>>

\* Tags 8, 9 and 10 are left out; whoever builds a message passes none.
Body(fields) ==
    FlattenSeq([i \in DOMAIN fields |->
        IF fields[i].tag \in {8, 9, 10} THEN <<>>
        ELSE Prefix(fields[i].tag) \o fields[i].value \o <<SOH>>])

BugLastSohNotCounted(body) == Decimal[Len(body) - 1]
BodyLength(body) == Decimal[Len(body)]

BuildMessage(fields) ==
    LET body == Body(fields)
        text == BeginString(4) \o Prefix(9) \o BodyLength(body) \o <<SOH>> \o body
    IN  text \o Prefix(10) \o CalculateChecksum(text) \o <<SOH>>
-----------------------------------------------------------------------------
\* substr(at, 3), which may be shorter at the end of the text.
Received(text, at) == SubSeq(text, at, Min({at + 2, Len(text)}))

ValidateMessage(raw) ==
    LET text   == IF BAR \in ToSet(raw) /\ SOH \notin ToSet(raw) THEN ToSoh(raw) ELSE raw
        length == Find(Prefix(9), text, 1) + 2
        end    == EndAt(SOH, text, length)
        check  == Find(Prefix(10), text, end + 2)
    IN  /\ Len(text) >= 25
        /\ SubSeq(text, 1, 10) \in {BeginString(4), BeginString(2)}
        /\ length > 2 /\ end >= 0
        /\ IsInt(SubSeq(text, length, end))
        /\ check > 0
        /\ check - (end + 2) = Stoi(SubSeq(text, length, end))
        /\ Received(text, check + 3) = CalculateChecksum(text)

\* The tag is looked for once: if the first place is not the beginning of a
\* field, there is no field.
BugAnyPlace(text, at) == TRUE
BeginsField(text, at) == at = 1 \/ text[at - 1] \in {SOH, BAR}

GetField(text, tag) ==
    LET at    == Find(Prefix(tag), text, 1)
        start == at + Len(Prefix(tag))
        ends  == IF Find(<<SOH>>, text, start) > 0 THEN EndAt(SOH, text, start)
                 ELSE IF Find(<<BAR>>, text, start) > 0 THEN EndAt(BAR, text, start)
                 ELSE Len(text)
    IN  IF at = 0 \/ ~BeginsField(text, at) THEN <<>> ELSE SubSeq(text, start, ends)
=============================================================================
