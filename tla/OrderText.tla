----------------------------- MODULE OrderText -----------------------------
(***************************************************************************)
(* An order as text: typed in a browser, posted as JSON, taken apart by    *)
(* extract_json_field, built into a FIX message, damaged or joined to      *)
(* another on its way, validated and reported by the exchange.  Or a line  *)
(* of generate_fix_data.py, with '|' for SOH.  And the samples of which    *)
(* the benchmark draws percentiles, the other computation of this program  *)
(* that is a pure function.                                                *)
(***************************************************************************)
EXTENDS FixMessage, BenchStats

CONSTANTS
    Typed,       \* for symbol, side, qty and price: the texts that are typed
    Id,          \* the ClOrdID the web server gives
    Other,       \* another message
    Bytes,       \* bytes that may take the place of another on the way
    Latencies,   \* what a measurement may take
    MaxSamples   \* bound: measurements

Key == {"symbol", "side", "qty", "price"}

\* A request of another client than the page may leave a key out.
NoKey == <<0>>

\* The bytes a text can be typed with: a quote or a backslash would be escaped.
Plain == 32..255 \ {34, 92}

\* The web server's ClOrdID is "ORDM" and a number; a message may begin only
\* at the first byte of another message.
ASSUME TextAssumption ==
    /\ DOMAIN Typed = Key
    /\ \A k \in Key : Typed[k] \subseteq Seq(Plain) \cup {NoKey}
    /\ Id \in Seq(Plain \ {EQ, BAR}) /\ Id # <<>>
    /\ Other \in Seq(0..255)
    /\ \A v \in {2, 4} : Found(BeginString(v), ToSoh(Other), 2) = {}
    /\ Bytes \subseteq 0..255
    /\ Latencies \subseteq Int

VARIABLES
    stage,     \* how far the order has come
    typed,     \* what was typed
    order,     \* what the web server or the generator makes a message of
    message,   \* the message that was sent
    wire,      \* what the exchange gets of it
    report,    \* what the exchange answers
    samples    \* measured so far

textVars == <<stage, typed, order, message, wire, report, samples>>

Keys == <<"symbol", "side", "qty", "price">>
Tag == [symbol |-> 55, side |-> 54, qty |-> 38, price |-> 44]
-----------------------------------------------------------------------------
(***************************************************************************)
(* JSON.stringify and extract_json_field.  A key is one byte.              *)
(***************************************************************************)
QUOTE == 34
COMMA == 44
COLON == 58
OPEN == 123
CLOSE == 125
SPACE == 32

KeyByte == [symbol |-> 121, side |-> 105, qty |-> 113, price |-> 112]
Quoted(text) == <<QUOTE>> \o text \o <<QUOTE>>

\* A key that is left out has no member; a comma stands between two members.
Comma(v, i) == IF \E j \in i + 1..4 : v[Keys[j]] # NoKey THEN <<COMMA>> ELSE <<>>
Member(v, i) ==
    IF v[Keys[i]] = NoKey THEN <<>>
    ELSE Quoted(<<KeyByte[Keys[i]]>>) \o <<COLON>> \o Quoted(v[Keys[i]]) \o Comma(v, i)
Stringify(v) ==
    <<OPEN>> \o Member(v, 1) \o Member(v, 2) \o Member(v, 3) \o Member(v, 4) \o <<CLOSE>>

\* The first place, from here on, of a byte in the set; behind the end if none.
NextOf(set, text, from) ==
    Min({i \in from..Len(text) : text[i] \in set} \cup {Len(text) + 1})

\* The key is looked for as a quoted text, wherever that is; values are strings.
BugFirstColon(json, at) == Find(<<COLON>>, json, 1)
ColonOf(json, at) == Find(<<COLON>>, json, at)

ExtractJsonField(json, key) ==
    LET at    == Find(Quoted(<<key>>), json, 1)
        start == NextOf(0..255 \ {SPACE, QUOTE}, json, ColonOf(json, at) + 1)
        end   == NextOf({QUOTE}, json, start)
    IN  IF at = 0 \/ ColonOf(json, at) = 0 THEN <<>> ELSE SubSeq(json, start, end - 1)
-----------------------------------------------------------------------------
(***************************************************************************)
(* Messages and reports                                                    *)
(***************************************************************************)
Field(tag, value) == [tag |-> tag, value |-> value]

OrderFields(v) ==
    << Field(35, <<68>>), Field(11, Id), Field(21, <<49>>), Field(55, v.symbol),
       Field(54, v.side), Field(38, v.qty), Field(40, <<50>>), Field(44, v.price) >>

\* The numbers the exchange gives are constant here; MockBist is about them.
ReportFields(id, v) ==
    << Field(35, <<56>>), Field(11, id), Field(37, <<79, 49>>), Field(17, <<69, 49>>),
       Field(150, <<50>>), Field(39, <<50>>), Field(55, v.symbol), Field(54, v.side),
       Field(38, v.qty), Field(44, v.price), Field(151, <<48>>), Field(14, v.qty) >>

UnknownId == <<85, 78>>
ReadId(text) == IF GetField(text, 11) = <<>> THEN UnknownId ELSE GetField(text, 11)
ReadOrder(text) == [k \in Key |-> GetField(text, Tag[k])]
-----------------------------------------------------------------------------
Entries ==
    {[symbol |-> a, side |-> b, qty |-> c, price |-> d] :
        a \in Typed["symbol"], b \in Typed["side"], c \in Typed["qty"], d \in Typed["price"]}

None == [k \in Key |-> <<>>]

TextInit ==
    /\ stage = "start"
    /\ typed = None /\ order = None
    /\ message = <<>> /\ wire = <<>> /\ report = <<>>
    /\ samples = <<>>

Type ==
    /\ stage = "start" /\ samples = <<>>
    /\ typed' \in Entries
    /\ stage' = "typed"
    /\ UNCHANGED <<order, message, wire, report, samples>>

Sends(v, text) ==
    /\ order' = v
    /\ message' = text /\ wire' = text
    /\ stage' = "sent"

\* send_single_order takes the four fields out of the request ...
Taken == [k \in Key |-> ExtractJsonField(Stringify(typed), KeyByte[k])]

\* ... and rejects it if one is empty.
Missing(v) == \E k \in Key : v[k] = <<>>

Reject ==
    /\ stage = "typed" /\ Missing(Taken)
    /\ stage' = "rejected"
    /\ UNCHANGED <<typed, order, message, wire, report, samples>>

Post ==
    /\ stage = "typed" /\ ~Missing(Taken)
    /\ Sends(Taken, BuildMessage(OrderFields(Taken)))
    /\ UNCHANGED <<typed, report, samples>>

\* The generator's values are never empty and hold neither '|' nor '='.
Generated ==
    {v \in Entries : \A k \in Key :
        v[k] \notin {<<>>, NoKey} /\ {BAR, EQ} \cap ToSet(v[k]) = {}}

WriteLine ==
    /\ stage = "start" /\ samples = <<>>
    /\ \E v \in Generated : Sends(v, ToPipe(BuildMessage(OrderFields(v))))
    /\ UNCHANGED <<typed, report, samples>>
-----------------------------------------------------------------------------
(***************************************************************************)
(* What a message may meet, once                                           *)
(***************************************************************************)
Becomes(what, text) ==
    /\ stage = "sent"
    /\ wire' = text
    /\ stage' = what
    /\ UNCHANGED <<typed, order, message, report, samples>>

Alter == \E i \in DOMAIN wire, b \in Bytes : Becomes("altered", [wire EXCEPT ![i] = b])
Cut   == \E n \in 0..Len(wire) - 1 : Becomes("cut", SubSeq(wire, 1, n))

\* Part of another message comes in the same read, behind or before.
Join   == \E n \in DOMAIN Other : Becomes("joined", wire \o SubSeq(Other, 1, n))
Follow == \E n \in 2..Len(Other) : Becomes("behind", SubSeq(Other, n, Len(Other)) \o wire)

\* The exchange changes '|' into SOH, validates, warns, and reports in any case.
Text == ToSoh(wire)
Accepted == ValidateMessage(Text)

Process ==
    /\ stage \in {"sent", "altered", "cut", "joined", "behind"} /\ report = <<>>
    /\ GetField(Text, 35) = <<68>>
    /\ report' = BuildMessage(ReportFields(ReadId(Text), ReadOrder(Text)))
    /\ UNCHANGED <<stage, typed, order, message, wire, samples>>

\* One more latency for the vector the benchmark sorts.
Measure ==
    /\ stage = "start" /\ Len(samples) < MaxSamples
    /\ \E x \in Latencies : samples' = Append(samples, x)
    /\ UNCHANGED <<stage, typed, order, message, wire, report>>

TextNext ==
    \/ Type \/ Reject \/ Post \/ WriteLine
    \/ Alter \/ Cut \/ Join \/ Follow \/ Process
    \/ Measure

TextSpec == TextInit /\ [][TextNext]_textVars
-----------------------------------------------------------------------------
Sent == stage \notin {"start", "typed", "rejected"}

(***************************************************************************)
(* The web server orders what was typed, field by field, exactly when no   *)
(* key is left out or empty, no text begins with a blank, which is         *)
(* skipped, and none is the name of a later key: extract_json_field takes  *)
(* the first such text for the key, and what comes next for its value.     *)
(***************************************************************************)
TakenFor(i) ==
    \E j \in i + 1..4 :
        /\ typed[Keys[i]] = <<KeyByte[Keys[j]]>>
        /\ \A h \in 1..i - 1 : typed[Keys[h]] # typed[Keys[i]]
        /\ typed[Keys[i + 1]] # typed[Keys[j]]

OrderAsTyped ==
    Sent /\ typed # None => (order = typed <=> \A i \in 1..4 :
        /\ typed[Keys[i]] \notin {<<>>, NoKey}
        /\ typed[Keys[i]][1] # SPACE
        /\ ~TakenFor(i))

(***************************************************************************)
(* Build and validate agree: a message that arrives as it was sent, with   *)
(* SOH or with '|', is accepted exactly when no value holds a "10=" and    *)
(* the '|' in them, each of which becomes a SOH and makes the sum 123      *)
(* smaller, are a multiple of 256: none, for an order anybody would type.  *)
(***************************************************************************)
Holds(text, tag) == Found(Prefix(tag), text, 1) # {}

Bars(text) == Cardinality({i \in DOMAIN text : text[i] = BAR})
AllBars(v) == Bars(v["symbol"]) + Bars(v["side"]) + Bars(v["qty"]) + Bars(v["price"])

AcceptedUnlessTagInside ==
    stage = "sent" =>
        (Accepted <=> (\A k \in Key : ~Holds(order[k], 10)) /\ AllBars(order) % 256 = 0)

(***************************************************************************)
(* Whatever happens to such a message on the way, what arrives is accepted *)
(* exactly when it begins with the message as it was sent (whose last byte *)
(* may be another or missing): one altered byte, a cut, or the rest of an  *)
(* earlier message in front are all found out.                             *)
(***************************************************************************)
AcceptedIffWhole ==
    Sent /\ ValidateMessage(ToSoh(message)) =>
        (Accepted <=> IsPrefix(Front(ToSoh(message)), Text))

(***************************************************************************)
(* The report has each value of the order or, where an earlier value holds *)
(* its tag, nothing; never a piece of another value.  (With no '|', which  *)
(* the exchange takes for the end of a field.)                             *)
(***************************************************************************)
Shadowed(i) == \E j \in 1..i - 1 : Holds(order[Keys[j]], Tag[Keys[i]])

EchoedOrNothing ==
    stage = "sent" /\ report # <<>> /\ (\A k \in Key : BAR \notin ToSet(order[k])) =>
        \A i \in 1..4 :
            GetField(report, Tag[Keys[i]]) = IF Shadowed(i) THEN <<>> ELSE order[Keys[i]]

(***************************************************************************)
(* Whatever was typed, and whatever follows in the same read, the exchange *)
(* takes the message for an order and reports it under its own ClOrdID.    *)
(***************************************************************************)
IdEchoed ==
    stage \in {"sent", "joined"} =>
        /\ GetField(Text, 35) = <<68>> /\ ReadId(Text) = Id
        /\ report # <<>> => GetField(report, 11) = Id

\* Both: the report is about the order, and of the order.
ReportEchoes == EchoedOrNothing /\ IdEchoed

(***************************************************************************)
(* A percentile is a quantile of the samples: at least the fraction of     *)
(* them is no larger, and at least the rest no smaller.                    *)
(***************************************************************************)
IsQuantile ==
    samples # <<>> => \A p \in Permille : QuantileOf(samples, p, Percentile(samples, p))

(***************************************************************************)
(* An order with an empty value is not sent, as the web server's document  *)
(* has it.                                                                 *)
(***************************************************************************)
EmptyIsRejected == Sent /\ typed # None => \A k \in Key : typed[k] # <<>>
=============================================================================
