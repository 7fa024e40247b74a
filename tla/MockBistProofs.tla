--------------------------- MODULE MockBistProofs ---------------------------
(***************************************************************************)
(* Proofs about MockBist, for any connections, loads and mixture of        *)
(* programs that wait for their answers and programs that do not.          *)
(***************************************************************************)
EXTENDS MockBist, ByteLemmas, FiniteSetTheorems, WellFoundedInduction, TLAPS

-----------------------------------------------------------------------------
(***************************************************************************)
(* The inductive invariant of the exchange, in parts.                      *)
(***************************************************************************)
Token == [msg : Nat, part : {"head", "type", "torn", "id", "rest", "tail"}, order : BOOLEAN]
Id == [msg : Nat, whole : BOOLEAN]
Begun == [id : Id, valid : BOOLEAN]
Numbered == [id : Id, valid : BOOLEAN, exec : Nat]
Report == [id : Id, valid : BOOLEAN, exec : Nat, ord : Nat]

\* The report in the making has the fields that are filled at this point.
CurInv ==
    \A c \in Conn :
        /\ hnd[c] \in {"read", "done"} => cur[c] = <<>>
        /\ hnd[c] = "load" => cur[c] \in Begun
        /\ hnd[c] \in {"store", "again"} => cur[c] \in Numbered
        /\ hnd[c] = "write" => cur[c] \in IF proc = "up" THEN Report ELSE Report \cup {<<>>}

StateInv ==
    /\ load \in [Conn -> Nat]
    /\ hnd \in [Conn -> {"read", "load", "store", "again", "write", "done"}]
    /\ cur \in [Conn -> {<<>>} \cup Begun \cup Numbered \cup Report]
    /\ counter \in Nat /\ proc \in {"up", "sigpipe"} /\ overlap \in BOOLEAN
    /\ closed \subseteq Conn /\ rst \subseteq closed

SeqInv ==
    /\ in \in [Conn -> Seq(Token)] /\ buffer \in [Conn -> Seq(Token)]
    /\ sent \in [Conn -> Seq(BOOLEAN)]
    /\ out \in [Conn -> Seq(Report)] /\ reports \in [Conn -> Seq(Report)]
    /\ received \in [Conn -> Nat]

\* How many tokens of its stream a connection's handler has had, and the k-th.
Taken(c) == 4 * Len(sent[c]) - Len(in[c])
TokenAt(c, k) ==
    LET m == (k - 1) \div 4 + 1
    IN  [msg |-> m, part |-> Part[((k - 1) % 4) + 1], order |-> sent[c][m]]

\* A token, or what a read that ended inside of it has left.
Fits(t, u) ==
    /\ t.msg = u.msg /\ t.order = u.order
    /\ t.part = u.part \/ (u.part = "head" /\ t.part \in {"type", "torn"})

\* What waits to be read is the end of the stream that was sent.
StreamAt(c) ==
    /\ Len(in[c]) <= 4 * Len(sent[c]) /\ Len(buffer[c]) <= 4 * Len(sent[c])
    /\ \A k \in 1..Len(in[c]) : Fits(in[c][k], TokenAt(c, Taken(c) + k))
StreamInv == \A c \in Conn : StreamAt(c)

ReadOrders(c) == {n \in Orders(c) : 4 * (n - 1) < Taken(c)}
Pending(c) == IF cur[c] = <<>> THEN 0 ELSE 1
CountAt(c) ==
    /\ Len(reports[c]) + Pending(c) <= Cardinality(ReadOrders(c))
    /\ received[c] + Len(out[c]) <= Len(reports[c])
    /\ c \in rst => reports[c] # <<>>
CountInv == \A c \in Conn : CountAt(c)

\* A ClOrdID that was read is that of a message whose second token was read.
Named(c, id) == id = Unknown \/ (id.msg >= 1 /\ 4 * (id.msg - 1) + 2 <= Taken(c))
Before(a, b) == a = Unknown \/ b = Unknown \/ a.msg < b.msg
NameAt(c) ==
    /\ \A i \in 1..Len(reports[c]) : Named(c, reports[c][i].id)
    /\ \A i, j \in 1..Len(reports[c]) : i < j => Before(reports[c][i].id, reports[c][j].id)
    /\ cur[c] # <<>> =>
         /\ Named(c, cur[c].id)
         /\ \A i \in 1..Len(reports[c]) : Before(reports[c][i].id, cur[c].id)
NameInv == \A c \in Conn : NameAt(c)

\* The numbers that a connection has used: those of its reports, and of the one
\* that waits to be written.
AtCounter(c) == hnd[c] \in {"store", "again"}
Writing(c) == hnd[c] = "write" /\ cur[c] # <<>>
Used(c) == 1..(Len(reports[c]) + IF Writing(c) THEN 1 ELSE 0)
Number(c, i) == IF i <= Len(reports[c]) THEN reports[c][i] ELSE cur[c]

\* While no two handlers have met at the counter each number is used once, and a
\* handler at the counter is alone there, with the next number or the last.
NumberInv ==
    ~overlap =>
        /\ \A c \in Conn : \A i \in Used(c) :
             Number(c, i).ord = Number(c, i).exec /\ Number(c, i).exec <= counter
        /\ \A c, d \in Conn : \A i \in Used(c), j \in Used(d) :
             Number(c, i).exec = Number(d, j).exec => c = d /\ i = j
        /\ \A c, d \in Conn : AtCounter(c) /\ AtCounter(d) => c = d
        /\ \A c \in Conn : hnd[c] = "store" => cur[c].exec = counter + 1
        /\ \A c \in Conn : hnd[c] = "again" =>
             /\ cur[c].exec = counter
             /\ \A d \in Conn : \A i \in Used(d) : Number(d, i).exec < counter

IInv ==
    /\ StateInv /\ CurInv /\ SeqInv /\ StreamInv /\ CountInv /\ NameInv /\ NumberInv
    /\ OneOrderNeverKills

-----------------------------------------------------------------------------
\* A nonempty set of naturals has a least element.
LEMMA LeastOf ==
    ASSUME NEW S, S \subseteq Nat, S # {}
    PROVE  \E m \in S : \A n \in S : m <= n
<1>1. PICK m \in S : \A n \in S : ~ (<<n, m>> \in OpToRel(<, Nat))
    BY NatLessThanWellFounded, WFMin
<1>2. \A n \in S : ~ (n < m)
    BY <1>1 DEF OpToRel
<1> QED
    BY <1>2, SMT

\* get_field finds a place with the tag, if it finds any.
LEMMA FirstIs ==
    ASSUME NEW parts, NEW text, Len(text) \in Nat
    PROVE  \/ FirstOf(parts, text) = 0
           \/ FirstOf(parts, text) \in 1..Len(text) /\ text[FirstOf(parts, text)].part \in parts
<1> DEFINE I == {i \in 1..Len(text) : text[i].part \in parts}
<1>1. FirstOf(parts, text) = IF I # {} THEN Min(I) ELSE 0
    BY DEF FirstOf, SelectInSeq
<1>2. I \subseteq Nat
    BY SMT
<1> HIDE DEF I
<1>3. I # {} => \E m \in I : \A n \in I : m <= n
    BY <1>2, LeastOf
<1>4. I # {} => Min(I) \in I
    BY <1>3 DEF Min
<1> QED
    BY <1>1, <1>4 DEF I

\* What a report is made of, and that it is not the empty one.
LEMMA ReportParts ==
    /\ \A e \in Begun \cup Numbered \cup Report :
         e # <<>> /\ e.id \in Id /\ e.valid \in BOOLEAN
    /\ \A e \in Numbered \cup Report : e.exec \in Nat
    /\ \A e \in Report : e.ord \in Nat
BY DEF Begun, Numbered, Report

\* The ClOrdID that the handler finds.
LEMMA ClOrdIDType ==
    ASSUME NEW text \in Seq(Token)
    PROVE  ClOrdID(text) \in Id
<1>0. Len(text) \in Nat
    OBVIOUS
<1> DEFINE i == FirstOf({"id"}, text)
<1>1. i = 0 \/ i \in 1..Len(text)
    BY <1>0, FirstIs
<1> HIDE DEF i
<1>2. i \in 1..Len(text) => text[i].msg \in Nat
    <2>1. i \in 1..Len(text) => text[i] \in Token
        BY ElementOfSeq
    <2> QED
        BY <2>1 DEF Token
<1>3. Unknown \in Id
    BY DEF Unknown, Id
<1>4. ClOrdID(text) = IF i = 0 THEN Unknown ELSE [msg |-> text[i].msg, whole |-> i < Len(text)]
    BY DEF ClOrdID, i
<1> QED
    BY <1>1, <1>2, <1>3, <1>4 DEF Id

\* The two pieces of what is read in part.
LEMMA CutInTwo ==
    ASSUME NEW S, NEW s \in Seq(S), NEW n \in 0..Len(s)
    PROVE  /\ SubSeq(s, 1, n) \in Seq(S) /\ Len(SubSeq(s, 1, n)) = n
           /\ \A i \in 1..n : SubSeq(s, 1, n)[i] = s[i]
           /\ SubSeq(s, n + 1, Len(s)) \in Seq(S) /\ Len(SubSeq(s, n + 1, Len(s))) = Len(s) - n
           /\ \A i \in 1..(Len(s) - n) : SubSeq(s, n + 1, Len(s))[i] = s[n + i]
<1>1. Len(s) \in Nat /\ n \in Nat
    BY LenProperties
<1>2. \A i \in 1..n : SubSeq(s, 1, n)[i] = s[i]
    BY <1>1, SubSeqProperties
<1>3. \A i \in 1..(Len(s) - n) : SubSeq(s, n + 1, Len(s))[i] = s[n + i]
    BY <1>1, SubSeqProperties
<1> QED
    BY <1>2, <1>3, CutAndJoin

\* Replacing one value of a function leaves the others'.
LEMMA OneChanges ==
    ASSUME NEW S, NEW T, NEW f \in [S -> T], NEW c \in S, NEW x
    PROVE  /\ [f EXCEPT ![c] = x][c] = x
           /\ \A d \in S : d # c => [f EXCEPT ![c] = x][d] = f[d]
           /\ x \in T => [f EXCEPT ![c] = x] \in [S -> T]
OBVIOUS

\* What a read leaves: a token less for each that it took, and perhaps a head
\* that has lost its beginning.
LEMMA RestsFit ==
    ASSUME NEW s \in Seq(Token), NEW rest \in Rests(s)
    PROVE  /\ rest \in Seq(Token) /\ Len(rest) = Len(s)
           /\ \A k \in 1..Len(s) : Fits(rest[k], s[k])
<1>l. PICK l \in Nat : l = Len(s) /\ s \in [1..l -> Token]
    BY LenProperties
<1>1. CASE rest = s
    BY <1>1 DEF Fits
<1>2. CASE rest # s
    <2>1. PICK p \in {"type", "torn"} :
            s # <<>> /\ s[1].part = "head" /\ rest = [s EXCEPT ![1].part = p]
        BY <1>2 DEF Rests
    <2>2. 1 \in 1..l
        BY <1>l, <2>1, EmptySeq
    <2>3. s[1] \in Token
        BY <1>l, <2>2
    <2>4. [s[1] EXCEPT !.part = p] \in Token /\ Fits([s[1] EXCEPT !.part = p], s[1])
        BY <2>1, <2>3 DEF Token, Fits
    <2>5. PICK t \in Token : t = [s[1] EXCEPT !.part = p] /\ Fits(t, s[1])
        BY <2>4
    <2>6. rest = [s EXCEPT ![1] = t]
        BY <2>1, <2>5
    <2>7. /\ rest \in [1..l -> Token] /\ rest[1] = t
          /\ \A k \in 1..l : k # 1 => rest[k] = s[k]
        BY <1>l, <2>2, <2>6, OneChanges
    <2>8. rest \in Seq(Token) /\ Len(rest) = l
        BY <2>7, SeqDef, LenProperties
    <2>9. ASSUME NEW k \in 1..l PROVE Fits(rest[k], s[k])
        <3>1. CASE k = 1
            BY <2>5, <2>7, <3>1
        <3>2. CASE k # 1
            BY <2>7, <3>2 DEF Fits
        <3> QED
            BY <3>1, <3>2
    <2> QED
        BY <1>l, <2>8, <2>9
<1> QED
    BY <1>1, <1>2

\* A read of n whole tokens, whatever it does to the next.
ReadOf(c, n, rest) ==
    LET text == SubSeq(in[c], 1, n) IN
    /\ in' = [in EXCEPT ![c] = rest]
    /\ buffer' = [buffer EXCEPT ![c] = Overlay(text, @)]
    /\ IF IsOrder(text)
       THEN /\ hnd' = [hnd EXCEPT ![c] = "load"]
            /\ cur' = [cur EXCEPT ![c] = [id |-> ClOrdID(text), valid |-> Valid(text)]]
       ELSE UNCHANGED <<hnd, cur>>

LEMMA ReadTakesTokens ==
    ASSUME SeqInv, NEW c \in Conn, Read(c)
    PROVE  \E n \in 0..Len(in[c]), rest \in Seq(Token) :
               /\ ReadOf(c, n, rest)
               /\ Len(rest) = Len(in[c]) - n
               /\ \A k \in 1..(Len(in[c]) - n) : Fits(rest[k], in[c][n + k])
<1>0. PICK n \in 0..Len(in[c]) :
        \E rest \in Rests(SubSeq(in[c], n + 1, Len(in[c]))) : ReadOf(c, n, rest)
    BY DEF Read, ReadOf, Text
<1>1. PICK rest \in Rests(SubSeq(in[c], n + 1, Len(in[c]))) : ReadOf(c, n, rest)
    BY <1>0
<1>2. in[c] \in Seq(Token)
    BY DEF SeqInv
<1>s. PICK s \in Seq(Token) :
        /\ s = SubSeq(in[c], n + 1, Len(in[c])) /\ Len(s) = Len(in[c]) - n
        /\ \A k \in 1..(Len(in[c]) - n) : s[k] = in[c][n + k]
    <2>1. PICK u \in Seq(Token) : u = in[c] /\ n \in 0..Len(u)
        BY <1>2
    <2>2. /\ SubSeq(u, n + 1, Len(u)) \in Seq(Token) /\ Len(SubSeq(u, n + 1, Len(u))) = Len(u) - n
          /\ \A k \in 1..(Len(u) - n) : SubSeq(u, n + 1, Len(u))[k] = u[n + k]
        BY <2>1, CutInTwo
    <2> QED
        BY <2>1, <2>2, Zenon
<1>3. rest \in Rests(s)
    BY <1>1, <1>s
<1>4. rest \in Seq(Token) /\ Len(rest) = Len(s) /\ \A k \in 1..Len(s) : Fits(rest[k], s[k])
    BY <1>3, RestsFit
<1>5. Len(rest) = Len(in[c]) - n
    BY <1>4, <1>s
<1>6. \A k \in 1..(Len(in[c]) - n) : Fits(rest[k], in[c][n + k])
    <2>1. ASSUME NEW k \in 1..(Len(in[c]) - n) PROVE Fits(rest[k], in[c][n + k])
        <3>1. k \in 1..Len(s) /\ s[k] = in[c][n + k]
            BY <1>s
        <3>2. Fits(rest[k], s[k])
            BY <1>4, <3>1
        <3> QED
            BY <3>1, <3>2, Zenon
    <2> QED
        BY <2>1
<1> QED
    BY <1>1, <1>4, <1>5, <1>6

\* A read leaves no more in the array than the longest text it ever held.
LEMMA OverlayFits ==
    ASSUME NEW S, NEW chunk \in Seq(S), NEW old \in Seq(S)
    PROVE  /\ Overlay(chunk, old) \in Seq(S)
           /\ Len(Overlay(chunk, old)) = IF Len(chunk) < Len(old) THEN Len(old) ELSE Len(chunk)
<1> DEFINE n == Len(chunk)
           r == SubSeq(old, n + 1, Len(old))
<1>1. n \in Nat /\ Len(old) \in Nat
    BY LenProperties
<1> HIDE DEF n
<1>2. r \in Seq(S) /\ Len(r) = IF n < Len(old) THEN Len(old) - n ELSE 0
    BY <1>1, SubSeqProperties, ElementOfSeq
<1> HIDE DEF r
<1>3. chunk \o r \in Seq(S) /\ Len(chunk \o r) = n + Len(r)
    BY <1>2, ConcatLength DEF n
<1> QED
    BY <1>1, <1>2, <1>3 DEF Overlay, n, r
-----------------------------------------------------------------------------
(***************************************************************************)
(* The server starts in a state with the invariant.                        *)
(***************************************************************************)
LEMMA InitIInv == Init => IInv
<1> SUFFICES ASSUME Init PROVE IInv
    OBVIOUS
<1>0. load \in [Conn -> Nat]
    BY BistAssumption DEF Init
<1>1. StateInv
    <2>1. /\ hnd \in [Conn -> {"read", "load", "store", "again", "write", "done"}]
          /\ cur \in [Conn -> {<<>>} \cup Begun \cup Numbered \cup Report]
        BY DEF Init
    <2>2. overlap \in BOOLEAN
        BY Zenon DEF Init
    <2> QED
        BY <1>0, <2>1, <2>2 DEF Init, StateInv
<1>2. CurInv
    BY DEF Init, CurInv
<1>3. \A c \in Conn : /\ in[c] = <<>> /\ buffer[c] = <<>> /\ sent[c] = <<>>
                      /\ out[c] = <<>> /\ reports[c] = <<>> /\ received[c] = 0
                      /\ cur[c] = <<>>
    BY DEF Init
<1>4. SeqInv
    <2>1. <<>> \in Seq(Token) /\ <<>> \in Seq(BOOLEAN) /\ <<>> \in Seq(Report)
        BY EmptySeq
    <2> QED
        BY <2>1 DEF Init, SeqInv
<1>5. StreamInv
    BY <1>3 DEF StreamInv, StreamAt
<1>6. CountInv
    <2>1. ASSUME NEW c \in Conn PROVE ReadOrders(c) = {}
        <3>1. sent[c] = <<>> /\ DOMAIN <<>> = {}
            BY <1>3
        <3>2. Orders(c) = {}
            BY <3>1 DEF Orders
        <3> QED
            BY <3>2 DEF ReadOrders
    <2>2. Cardinality({}) = 0 /\ rst = {}
        BY FS_EmptySet DEF Init
    <2>3. ASSUME NEW c \in Conn PROVE CountAt(c)
        <3>1. reports[c] = <<>> /\ out[c] = <<>> /\ received[c] = 0 /\ Len(<<>>) = 0
            BY <1>3
        <3>2. Pending(c) = 0 /\ Cardinality(ReadOrders(c)) = 0
            BY <1>3, <2>1, <2>2 DEF Pending
        <3> QED
            BY <2>2, <3>1, <3>2 DEF CountAt
    <2> QED
        BY <2>3 DEF CountInv
<1>7. NameInv
    BY <1>3 DEF NameInv, NameAt
<1>8. NumberInv
    BY <1>3 DEF NumberInv, AtCounter, Used, Writing, Init
<1>9. OneOrderNeverKills
    BY DEF Init, OneOrderNeverKills
<1> QED
    BY <1>1, <1>2, <1>4, <1>5, <1>6, <1>7, <1>8, <1>9 DEF IInv

(***************************************************************************)
(* What every step changes: the handler it belongs to, the report it has   *)
(* in hand, the shared counter, and the process.                           *)
(***************************************************************************)
LEMMA StateStep ==
    ASSUME StateInv, CurInv, SeqInv, StreamInv, Next
    PROVE  StateInv' /\ CurInv'
<1>1. PICK c \in Conn : Handle(c) \/ Send(c) \/ Receive(c) \/ Close(c) \/ Reset(c)
    BY DEF Next
<1>2. CASE Read(c)
    <2>1. PICK n \in 0..Len(in[c]), rest \in Seq(Token) : ReadOf(c, n, rest)
        BY <1>2, ReadTakesTokens
    <2> DEFINE text == SubSeq(in[c], 1, n)
    <2>2. n \in 0..Len(in[c]) /\ in[c] \in Seq(Token)
        BY DEF SeqInv
    <2>3. text \in Seq(Token)
        BY <2>2, CutInTwo
    <2> DEFINE r == [id |-> ClOrdID(text), valid |-> Valid(text)]
    <2>4. r \in Begun
        BY <2>3, ClOrdIDType DEF Begun, Valid
    <2>5. \/ UNCHANGED <<hnd, cur>>
          \/ hnd' = [hnd EXCEPT ![c] = "load"] /\ cur' = [cur EXCEPT ![c] = r]
        BY <2>1 DEF ReadOf
    <2> HIDE DEF r, text
    <2>6. hnd[c] = "read" /\ UNCHANGED <<load, counter, overlap, closed, rst, proc>>
        BY <1>2 DEF Read, UnchangedByHandler
    <2> QED
        BY <2>4, <2>5, <2>6 DEF StateInv, CurInv
<1>3. CASE ReadEnds(c)
    BY <1>3 DEF ReadEnds, UnchangedByHandler, StateInv, CurInv
<1>4. CASE Load(c)
    <2> DEFINE r == [id |-> cur[c].id, valid |-> cur[c].valid, exec |-> Increment(counter)]
    <2>1. cur[c] \in Begun
        BY <1>4 DEF Load, CurInv
    <2>2. r \in Numbered
        BY <2>1, ReportParts DEF StateInv, Increment, Numbered
    <2>3. hnd' = [hnd EXCEPT ![c] = "store"] /\ cur' = [cur EXCEPT ![c] = r]
        BY <1>4 DEF Load
    <2>4. overlap' \in BOOLEAN
        BY <1>4, Zenon DEF Load
    <2> HIDE DEF r
    <2>5. UNCHANGED <<load, counter, closed, rst, proc>>
        BY <1>4 DEF Load, UnchangedByHandler
    <2> QED
        BY <2>2, <2>3, <2>4, <2>5 DEF StateInv, CurInv
<1>5. CASE Store(c)
    <2>1. cur[c].exec \in Nat
        BY <1>5, ReportParts DEF Store, CurInv
    <2> QED
        BY <1>5, <2>1 DEF Store, UnchangedByHandler, StateInv, CurInv
<1>6. CASE LoadAgain(c)
    <2>1. PICK n \in {counter, cur[c].exec} :
            cur' = [cur EXCEPT ![c] = [id |-> cur[c].id, valid |-> cur[c].valid,
                                       exec |-> cur[c].exec, ord |-> n]]
        BY <1>6 DEF LoadAgain
    <2> DEFINE r == [id |-> cur[c].id, valid |-> cur[c].valid, exec |-> cur[c].exec, ord |-> n]
    <2>2. cur[c] \in Numbered
        BY <1>6 DEF LoadAgain, CurInv
    <2>3. r \in Report
        BY <2>2, ReportParts DEF StateInv, Report
    <2>4. hnd' = [hnd EXCEPT ![c] = "write"] /\ cur' = [cur EXCEPT ![c] = r]
        BY <1>6, <2>1 DEF LoadAgain
    <2> HIDE DEF r
    <2>5. UNCHANGED <<load, counter, overlap, closed, rst, proc>> /\ proc = "up"
        BY <1>6 DEF LoadAgain, UnchangedByHandler
    <2> QED
        BY <2>3, <2>4, <2>5 DEF StateInv, CurInv
<1>7. CASE Write(c) \/ WriteFails(c)
    <2>1. /\ hnd' = [hnd EXCEPT ![c] = "read"] /\ cur' = [cur EXCEPT ![c] = <<>>]
          /\ UNCHANGED <<load, counter, overlap, closed, rst, proc>>
        BY <1>7 DEF Write, WriteFails, AfterReport, Reported, UnchangedByHandler
    <2> QED
        BY <2>1 DEF StateInv, CurInv
<1>8. CASE WriteKills(c)
    BY <1>8 DEF WriteKills, Reported, StateInv, CurInv
<1>9. CASE Send(c) \/ Receive(c) \/ Close(c) \/ Reset(c)
    BY <1>9 DEF Send, Receive, Close, Reset, UnchangedByProgram, StateInv, CurInv
<1> QED
    BY <1>1, <1>2, <1>3, <1>4, <1>5, <1>6, <1>7, <1>8, <1>9 DEF Handle
-----------------------------------------------------------------------------
\* The four tokens of a message.
LEMMA MessageTokens ==
    ASSUME NEW n \in Nat, NEW order \in BOOLEAN
    PROVE  /\ Message(n, order) \in Seq(Token) /\ Len(Message(n, order)) = 4
           /\ \A i \in 1..4 : Message(n, order)[i] = [msg |-> n, part |-> Part[i], order |-> order]
<1>1. \A i \in 1..4 : Part[i] \in {"head", "id", "rest", "tail"}
    BY DEF Part
<1>2. \A i \in 1..4 : [msg |-> n, part |-> Part[i], order |-> order] \in Token
    BY <1>1 DEF Token
<1> HIDE DEF Token
<1>3. Message(n, order) \in [1..4 -> Token]
    BY <1>2 DEF Message
<1> QED
    BY <1>3, SeqDef, LenProperties DEF Message

\* The sequences keep their types.
LEMMA SeqStep ==
    ASSUME StateInv, CurInv, SeqInv, Next
    PROVE  SeqInv'
<1>1. PICK c \in Conn : Handle(c) \/ Send(c) \/ Receive(c) \/ Close(c) \/ Reset(c)
    BY DEF Next
<1>2. CASE Read(c)
    <2>1. PICK n \in 0..Len(in[c]), rest \in Seq(Token) :
            /\ in' = [in EXCEPT ![c] = rest]
            /\ buffer' = [buffer EXCEPT ![c] = Overlay(SubSeq(in[c], 1, n), @)]
        BY <1>2, ReadTakesTokens DEF ReadOf
    <2>2. in[c] \in Seq(Token) /\ buffer[c] \in Seq(Token)
        BY DEF SeqInv
    <2>5. Overlay(SubSeq(in[c], 1, n), buffer[c]) \in Seq(Token)
        <3>1. SubSeq(in[c], 1, n) \in Seq(Token)
            BY <2>2, CutInTwo
        <3> QED
            BY <2>2, <3>1, OverlayFits
    <2>6. in' \in [Conn -> Seq(Token)] /\ buffer' \in [Conn -> Seq(Token)]
        BY <2>1, <2>5, OneChanges, Zenon DEF SeqInv
    <2>7. UNCHANGED <<sent, out, reports, received>>
        BY <1>2 DEF Read, UnchangedByHandler
    <2> QED
        BY <2>6, <2>7 DEF SeqInv
<1>r. CASE ReadEnds(c)
    <2>1. buffer' \in [Conn -> Seq(Token)]
        BY <1>r, EmptySeq, OneChanges, Zenon DEF ReadEnds, SeqInv
    <2>2. UNCHANGED <<in, sent, out, reports, received>>
        BY <1>r DEF ReadEnds, UnchangedByHandler
    <2> QED
        BY <2>1, <2>2 DEF SeqInv
<1>3. CASE Load(c) \/ Store(c) \/ LoadAgain(c) \/ Close(c)
    <2>1. UNCHANGED <<in, buffer, sent, out, reports, received>>
        BY <1>3 DEF Load, Store, LoadAgain, Close, UnchangedByHandler, UnchangedByProgram
    <2> QED
        BY <2>1 DEF SeqInv
<1>4. CASE Write(c) \/ WriteFails(c) \/ WriteKills(c)
    <2>1. cur[c] \in Report
        BY <1>4 DEF Write, WriteFails, WriteKills, CurInv
    <2>2. /\ reports' = [reports EXCEPT ![c] = Append(@, cur[c])]
          /\ UNCHANGED <<in, buffer, sent, received>>
          /\ out' = [out EXCEPT ![c] = Append(@, cur[c])] \/ out' = out
        BY <1>4 DEF Write, WriteFails, WriteKills, Reported, UnchangedByHandler
    <2>3. reports[c] \in Seq(Report) /\ out[c] \in Seq(Report)
        BY DEF SeqInv
    <2>4. Append(reports[c], cur[c]) \in Seq(Report) /\ Append(out[c], cur[c]) \in Seq(Report)
        BY <2>1, <2>3, AppendProperties
    <2>5. reports \in [Conn -> Seq(Report)] /\ out \in [Conn -> Seq(Report)]
        BY DEF SeqInv
    <2>6. reports' \in [Conn -> Seq(Report)]
        BY <2>2, <2>4, <2>5, OneChanges, Zenon
    <2>7. [out EXCEPT ![c] = Append(@, cur[c])] \in [Conn -> Seq(Report)]
        BY <2>4, <2>5, OneChanges, Zenon
    <2>8. out' \in [Conn -> Seq(Report)]
        BY <2>2, <2>5, <2>7, Zenon
    <2> QED
        BY <2>2, <2>6, <2>8 DEF SeqInv
<1>5. CASE Send(c)
    <2>1. PICK order \in BOOLEAN :
            /\ sent' = [sent EXCEPT ![c] = Append(@, order)]
            /\ in' = [in EXCEPT ![c] = @ \o Message(Len(sent[c]) + 1, order)]
        BY <1>5, BistAssumption DEF Send
    <2>2. sent[c] \in Seq(BOOLEAN) /\ in[c] \in Seq(Token)
        BY DEF SeqInv
    <2>3. Append(sent[c], order) \in Seq(BOOLEAN)
        BY <2>2, AppendProperties
    <2>4. in[c] \o Message(Len(sent[c]) + 1, order) \in Seq(Token)
        <3>1. Len(sent[c]) + 1 \in Nat
            BY <2>2, LenProperties
        <3>2. Message(Len(sent[c]) + 1, order) \in Seq(Token)
            BY <3>1, MessageTokens
        <3> QED
            BY <2>2, <3>2, ConcatLength
    <2>5. sent' \in [Conn -> Seq(BOOLEAN)] /\ in' \in [Conn -> Seq(Token)]
        BY <2>1, <2>3, <2>4, OneChanges, Zenon DEF SeqInv
    <2>6. UNCHANGED <<buffer, out, reports, received>>
        BY <1>5 DEF Send, UnchangedByProgram
    <2> QED
        BY <2>5, <2>6 DEF SeqInv
<1>6. CASE Receive(c)
    <2>1. out[c] \in Seq(Report) /\ out[c] # <<>>
        BY <1>6 DEF SeqInv, Receive
    <2>2. Tail(out[c]) \in Seq(Report)
        BY <2>1, HeadTailProperties
    <2>3. received[c] + 1 \in Nat
        BY DEF SeqInv
    <2>4. out' \in [Conn -> Seq(Report)] /\ received' \in [Conn -> Nat]
        BY <1>6, <2>2, <2>3, OneChanges, Zenon DEF Receive, SeqInv
    <2>5. UNCHANGED <<in, buffer, sent, reports>>
        BY <1>6 DEF Receive, UnchangedByProgram
    <2> QED
        BY <2>4, <2>5 DEF SeqInv
<1>7. CASE Reset(c)
    <2>1. in' \in [Conn -> Seq(Token)]
        BY <1>7, EmptySeq, OneChanges, Zenon DEF Reset, SeqInv
    <2>2. UNCHANGED <<buffer, sent, out, reports, received>>
        BY <1>7 DEF Reset, UnchangedByProgram
    <2> QED
        BY <2>1, <2>2 DEF SeqInv
<1> QED
    BY <1>1, <1>2, <1>r, <1>3, <1>4, <1>5, <1>6, <1>7 DEF Handle

\* A handler moves on in its stream, and never back (a reset skips the rest).
LEMMA TakenGrows ==
    ASSUME StateInv, SeqInv, StreamInv, Next, NEW c \in Conn
    PROVE  Taken(c) \in Nat /\ Taken(c)' \in Int /\ Taken(c)' >= Taken(c)
<1>1. Len(in[c]) \in Nat /\ Len(sent[c]) \in Nat /\ Len(in[c]) <= 4 * Len(sent[c])
    BY LenProperties DEF SeqInv, StreamInv, StreamAt
<1>2. \/ Len(in'[c]) <= Len(in[c]) /\ Len(in'[c]) \in Nat /\ sent'[c] = sent[c]
      \/ Len(in'[c]) = Len(in[c]) + 4 /\ Len(sent'[c]) = Len(sent[c]) + 1
    <2>1. PICK d \in Conn : Handle(d) \/ Send(d) \/ Receive(d) \/ Close(d) \/ Reset(d)
        BY DEF Next
    <2>2. CASE Read(d)
        <3>1. PICK n \in 0..Len(in[d]), rest \in Seq(Token) :
                in' = [in EXCEPT ![d] = rest] /\ Len(rest) = Len(in[d]) - n
            BY <2>2, ReadTakesTokens DEF ReadOf
        <3>2. in[d] \in Seq(Token) /\ in \in [Conn -> Seq(Token)] /\ sent' = sent
            BY <2>2 DEF SeqInv, Read, UnchangedByHandler
        <3>3. Len(in[d]) \in Nat
            BY <3>2, LenProperties
        <3>5. in'[c] = IF c = d THEN rest ELSE in[c]
            BY <3>1, <3>2, Zenon
        <3> QED
            BY <1>1, <3>1, <3>2, <3>3, <3>5
    <2>3. CASE Send(d)
        <3>1. PICK order \in BOOLEAN :
                /\ sent' = [sent EXCEPT ![d] = Append(@, order)]
                /\ in' = [in EXCEPT ![d] = @ \o Message(Len(sent[d]) + 1, order)]
            BY <2>3, BistAssumption DEF Send
        <3>2. in[d] \in Seq(Token) /\ sent[d] \in Seq(BOOLEAN)
            BY DEF SeqInv
        <3>3. Len(Append(sent[d], order)) = Len(sent[d]) + 1
            BY <3>2, AppendProperties
        <3>4. Len(in[d] \o Message(Len(sent[d]) + 1, order)) = Len(in[d]) + 4
            <4>1. Len(sent[d]) + 1 \in Nat
                BY <3>2, LenProperties
            <4>2. /\ Message(Len(sent[d]) + 1, order) \in Seq(Token)
                  /\ Len(Message(Len(sent[d]) + 1, order)) = 4
                BY <4>1, MessageTokens
            <4> QED
                BY <3>2, <4>2, ConcatLength
        <3>5. c = d => /\ in'[c] = in[d] \o Message(Len(sent[d]) + 1, order)
                       /\ sent'[c] = Append(sent[d], order)
            BY <3>1, Zenon DEF SeqInv
        <3>6. c # d => in'[c] = in[c] /\ sent'[c] = sent[c]
            BY <3>1, Zenon DEF SeqInv
        <3> QED
            <4>1. CASE c = d
                BY <3>3, <3>4, <3>5, <4>1
            <4>2. CASE c # d
                BY <1>1, <3>6, <4>2
            <4> QED
                BY <4>1, <4>2
    <2>4. CASE Reset(d)
        <3>1. in'[c] = in[c] \/ in'[c] = <<>>
            BY <2>4 DEF Reset, SeqInv
        <3> QED
            BY <1>1, <2>4, <3>1 DEF Reset
    <2>5. CASE Receive(d) \/ Close(d) \/ (Handle(d) /\ ~Read(d))
        <3>1. in' = in /\ sent' = sent
            BY <2>5 DEF Receive, Close, UnchangedByProgram, Handle, ReadEnds, Load, Store,
                        LoadAgain, Write, WriteFails, WriteKills, UnchangedByHandler
        <3> QED
            BY <1>1, <3>1
    <2> QED
        BY <2>1, <2>2, <2>3, <2>4, <2>5
<1>3. Taken(c) = 4 * Len(sent[c]) - Len(in[c]) /\ Taken(c)' = 4 * Len(sent'[c]) - Len(in'[c])
    BY DEF Taken
<1>4. CASE Len(in'[c]) <= Len(in[c]) /\ Len(in'[c]) \in Nat /\ sent'[c] = sent[c]
    BY <1>1, <1>3, <1>4
<1>5. CASE Len(in'[c]) = Len(in[c]) + 4 /\ Len(sent'[c]) = Len(sent[c]) + 1
    BY <1>1, <1>3, <1>5
<1> QED
    BY <1>2, <1>4, <1>5
-----------------------------------------------------------------------------
\* The elements of a concatenation.
LEMMA ConcatElements ==
    ASSUME NEW S, NEW s \in Seq(S), NEW t \in Seq(S)
    PROVE  /\ \A k \in 1..Len(s) : (s \o t)[k] = s[k]
           /\ \A k \in 1..Len(t) : (s \o t)[Len(s) + k] = t[k]
<1>1. \A i \in 1 .. Len(s) + Len(t) : (s \o t)[i] = IF i <= Len(s) THEN s[i] ELSE t[i - Len(s)]
    BY ConcatProperties
<1>2. Len(s) \in Nat /\ Len(t) \in Nat
    BY LenProperties
<1> QED
    BY <1>1, <1>2

\* A connection whose stream is not touched.
LEMMA StreamSame ==
    ASSUME NEW c \in Conn, StreamAt(c), in'[c] = in[c], buffer'[c] = buffer[c], sent'[c] = sent[c]
    PROVE  StreamAt(c)'
BY DEF StreamAt, TokenAt, Taken

\* Only one connection's stream is touched by a step.
LEMMA StreamOthers ==
    ASSUME SeqInv, NEW d \in Conn, Handle(d) \/ Send(d) \/ Receive(d) \/ Close(d) \/ Reset(d),
           NEW c \in Conn, c # d
    PROVE  in'[c] = in[c] /\ buffer'[c] = buffer[c] /\ sent'[c] = sent[c]
<1>1. CASE Read(d)
    BY <1>1 DEF Read, UnchangedByHandler, SeqInv
<1>2. CASE Send(d)
    BY <1>2 DEF Send, UnchangedByProgram, SeqInv
<1>3. CASE Reset(d)
    BY <1>3 DEF Reset, UnchangedByProgram, SeqInv
<1>4. CASE ReadEnds(d)
    BY <1>4 DEF ReadEnds, UnchangedByHandler, SeqInv
<1>5. CASE Receive(d) \/ Close(d) \/ (Handle(d) /\ ~Read(d) /\ ~ReadEnds(d))
    BY <1>5 DEF Receive, Close, UnchangedByProgram, Handle, Load, Store,
                LoadAgain, Write, WriteFails, WriteKills, UnchangedByHandler
<1> QED
    BY <1>1, <1>2, <1>3, <1>4, <1>5

(***************************************************************************)
(* What waits for the handler stays the end of what was sent, however it   *)
(* is cut into reads.                                                      *)
(***************************************************************************)
LEMMA StreamStep ==
    ASSUME StateInv, SeqInv, StreamInv, Next
    PROVE  StreamInv'
<1>1. PICK c \in Conn : Handle(c) \/ Send(c) \/ Receive(c) \/ Close(c) \/ Reset(c)
    BY DEF Next
<1>2. ASSUME NEW d \in Conn, d # c PROVE StreamAt(d)'
    <2>1. StreamAt(d)
        BY DEF StreamInv
    <2> QED
        BY <1>1, <1>2, <2>1, StreamOthers, StreamSame
<1>3. StreamAt(c)'
    <2>0. StreamAt(c)
        BY DEF StreamInv
    <2>f. /\ in \in [Conn -> Seq(Token)] /\ buffer \in [Conn -> Seq(Token)]
          /\ sent \in [Conn -> Seq(BOOLEAN)]
        BY DEF SeqInv
    <2>1. in[c] \in Seq(Token)
        BY <2>f
    <2>2. sent[c] \in Seq(BOOLEAN)
        BY <2>f
    <2>r. buffer[c] \in Seq(Token)
        BY <2>f
    <2>l. PICK l \in Nat : l = Len(in[c])
        BY <2>1, LenProperties
    <2>m. PICK m \in Nat : m = Len(sent[c])
        BY <2>2, LenProperties
    <2>b. PICK b \in Nat : b = Len(buffer[c])
        BY <2>r, LenProperties
    <2>3. l <= 4 * m /\ b <= 4 * m
        BY <2>0, <2>l, <2>m, <2>b DEF StreamAt
    <2>4. Taken(c) = 4 * m - l
        BY <2>l, <2>m DEF Taken
    <2>5. CASE Read(c)
        <3>1. PICK n \in 0..Len(in[c]), rest \in Seq(Token) :
                /\ in' = [in EXCEPT ![c] = rest]
                /\ buffer' = [buffer EXCEPT ![c] = Overlay(SubSeq(in[c], 1, n), @)]
                /\ Len(rest) = Len(in[c]) - n
                /\ \A k \in 1..(Len(in[c]) - n) : Fits(rest[k], in[c][n + k])
            BY <2>5, ReadTakesTokens DEF ReadOf
        <3>2. n \in 0..l
            BY <2>l, <3>1
        <3>3. in'[c] = rest /\ buffer'[c] = Overlay(SubSeq(in[c], 1, n), buffer[c])
            BY <2>f, <3>1, Zenon
        <3>4. sent'[c] = sent[c]
            BY <2>5 DEF Read, UnchangedByHandler
        <3>5. Len(in'[c]) = l - n
            BY <2>l, <3>1, <3>3
        <3>6. \A k \in 1..(l - n) : Fits(in'[c][k], in[c][n + k])
            BY <2>l, <3>1, <3>3
        <3>7. Len(buffer'[c]) <= 4 * m
            <4>0. SubSeq(in[c], 1, n) \in Seq(Token) /\ Len(SubSeq(in[c], 1, n)) = n
                BY <2>1, <2>l, <3>2, CutInTwo
            <4>1. PICK chunk \in Seq(Token) : chunk = SubSeq(in[c], 1, n) /\ Len(chunk) = n
                BY <4>0
            <4>2. PICK old \in Seq(Token) : old = buffer[c] /\ Len(old) = b
                BY <2>r, <2>b
            <4>a. Len(Overlay(chunk, old)) = IF Len(chunk) < Len(old) THEN Len(old) ELSE Len(chunk)
                BY ONLY <4>1, <4>2, OverlayFits
            <4>4. Len(Overlay(chunk, old)) = IF n < b THEN b ELSE n
                BY ONLY <4>1, <4>2, <4>a
            <4>5. buffer'[c] = Overlay(chunk, old)
                BY <3>3, <4>1, <4>2, Zenon
            <4>3. n <= 4 * m
                BY <2>3, <3>2
            <4>6. Len(buffer'[c]) \in {b, n} /\ b <= 4 * m
                BY <2>3, <4>4, <4>5
            <4> QED
                BY ONLY <4>3, <4>6, SMTT(40)
        <3>8. Taken(c)' = Taken(c) + n
            <4>1. Taken(c)' = 4 * m - (l - n)
                BY <2>m, <3>4, <3>5 DEF Taken
            <4> QED
                BY <2>4, <3>2, <4>1
        <3>9. ASSUME NEW k \in 1..(l - n) PROVE Fits(in'[c][k], TokenAt(c, Taken(c) + k)')
            <4>1. n + k \in 1..l /\ Taken(c) + (n + k) = Taken(c)' + k
                BY <2>4, <3>2, <3>8
            <4>2. Fits(in[c][n + k], TokenAt(c, Taken(c) + (n + k)))
                BY <2>0, <2>l, <4>1 DEF StreamAt
            <4>3. TokenAt(c, Taken(c) + k)' = TokenAt(c, Taken(c)' + k)
                BY <3>4 DEF TokenAt
            <4>4. TokenAt(c, Taken(c) + k)' = TokenAt(c, Taken(c) + (n + k))
                BY <4>1, <4>3
            <4>5. Fits(in'[c][k], in[c][n + k])
                BY <3>6
            <4> HIDE DEF TokenAt
            <4> QED
                BY <4>2, <4>4, <4>5 DEF Fits
        <3> QED
            <4>1. l - n <= 4 * m
                BY <2>3, <3>2
            <4> QED
                BY <2>m, <3>4, <3>5, <3>7, <3>9, <4>1 DEF StreamAt
    <2>6. CASE Send(c)
        <3>1. PICK order \in BOOLEAN :
                /\ sent' = [sent EXCEPT ![c] = Append(@, order)]
                /\ in' = [in EXCEPT ![c] = @ \o Message(Len(sent[c]) + 1, order)]
            BY <2>6, BistAssumption DEF Send
        <3> DEFINE w == Message(m + 1, order)
        <3>2. sent'[c] = Append(sent[c], order) /\ in'[c] = in[c] \o w
            BY <2>f, <2>m, <3>1, Zenon
        <3>3. /\ w \in Seq(Token) /\ Len(w) = 4
              /\ \A i \in 1..4 : w[i] = [msg |-> m + 1, part |-> Part[i], order |-> order]
            BY MessageTokens
        <3> HIDE DEF w
        <3>s. Len(sent'[c]) = m + 1
            BY <2>2, <2>m, <3>2, AppendProperties
        <3>4. /\ sent'[c][m + 1] = order
              /\ \A i \in 1..m : sent'[c][i] = sent[c][i]
            BY <2>2, <2>m, <3>2, AppendProperties
        <3>w. w \in Seq(Token) /\ Len(w) = 4
            BY <3>3
        <3>5. Len(in'[c]) = l + 4
            BY <2>1, <2>l, <3>2, <3>w, ConcatLength, ZenonT(40)
        <3>6. /\ \A k \in 1..l : in'[c][k] = in[c][k]
              /\ \A k \in 1..4 : in'[c][l + k] = w[k]
            <4>1. /\ \A k \in 1..Len(in[c]) : (in[c] \o w)[k] = in[c][k]
                  /\ \A k \in 1..Len(w) : (in[c] \o w)[Len(in[c]) + k] = w[k]
                BY <2>1, <3>w, ConcatElements
            <4> QED
                BY <2>l, <3>2, <3>w, <4>1
        <3>7. Taken(c)' = Taken(c)
            <4>1. Taken(c)' = 4 * (m + 1) - (l + 4)
                BY <3>s, <3>5 DEF Taken
            <4> QED
                BY <2>4, <4>1
        <3>8. ASSUME NEW k \in 1..(l + 4) PROVE Fits(in'[c][k], TokenAt(c, Taken(c) + k)')
            <4> DEFINE t == Taken(c) + k
                       q == (t - 1) \div 4 + 1
            <4>0. t \in 1..(4 * m + 4) /\ k \in Int /\ t = 4 * m - l + k
                BY <2>3, <2>4
            <4>1. TokenAt(c, Taken(c) + k)' = [msg |-> q, part |-> Part[((t - 1) % 4) + 1], order |-> sent'[c][q]]
                BY <3>7 DEF TokenAt
            <4>2. CASE k \in 1..l
                <5>1. t \in 1..(4 * m)
                    BY <2>3, <4>0, <4>2
                <5>2. q \in 1..m
                    BY <2>3, <5>1
                <5>3. Fits(in[c][k], [msg |-> q, part |-> Part[((t - 1) % 4) + 1], order |-> sent[c][q]])
                    BY <2>0, <2>l, <4>2 DEF StreamAt, TokenAt
                <5> QED
                    BY <3>4, <3>6, <4>1, <4>2, <5>2, <5>3
            <4>3. CASE k \in (l + 1)..(l + 4)
                <5>1. PICK i \in 1..4 : k = l + i
                    <6>1. k - l \in 1..4 /\ k = l + (k - l)
                        BY <2>3, <4>3
                    <6> QED
                        BY <6>1
                <5>2. t = 4 * m + i
                    BY <2>3, <4>0, <5>1
                <5>3. q = m + 1 /\ ((t - 1) % 4) + 1 = i
                    BY <2>3, <5>2
                <5>4. in'[c][k] = [msg |-> m + 1, part |-> Part[i], order |-> order]
                    BY <3>3, <3>6, <5>1
                <5>5. in'[c][k] = TokenAt(c, Taken(c) + k)'
                    BY <3>4, <4>1, <5>3, <5>4
                <5> QED
                    BY <5>5 DEF Fits
            <4> QED
                BY <2>3, <4>0, <4>2, <4>3
        <3>9. buffer'[c] = buffer[c]
            BY <2>6 DEF Send, UnchangedByProgram
        <3> QED
            <4>1. l + 4 <= 4 * (m + 1) /\ b <= 4 * (m + 1)
                BY <2>3
            <4> QED
                BY <2>b, <3>s, <3>5, <3>8, <3>9, <4>1 DEF StreamAt
    <2>7. CASE Reset(c)
        <3>1. in'[c] = <<>> /\ sent'[c] = sent[c] /\ buffer'[c] = buffer[c]
            BY <2>f, <2>7 DEF Reset, UnchangedByProgram
        <3>2. Len(in'[c]) = 0
            BY <3>1
        <3> QED
            BY <2>m, <2>b, <2>3, <3>1, <3>2 DEF StreamAt
    <2>e. CASE ReadEnds(c)
        <3>1. in'[c] = in[c] /\ sent'[c] = sent[c] /\ buffer'[c] = <<>>
            BY <2>f, <2>e DEF ReadEnds, UnchangedByHandler
        <3>2. Len(buffer'[c]) <= 4 * m
            BY <3>1
        <3> QED
            BY <2>0, <2>m, <3>1, <3>2 DEF StreamAt, TokenAt, Taken
    <2>8. CASE Receive(c) \/ Close(c) \/ (Handle(c) /\ ~Read(c) /\ ~ReadEnds(c))
        <3>1. in' = in /\ sent' = sent /\ buffer' = buffer
            BY <2>8 DEF Receive, Close, UnchangedByProgram, Handle, Load, Store,
                        LoadAgain, Write, WriteFails, WriteKills, UnchangedByHandler
        <3> QED
            BY <2>0, <3>1, StreamSame
    <2> QED
        BY <1>1, <2>5, <2>6, <2>7, <2>e, <2>8
<1> QED
    BY <1>2, <1>3 DEF StreamInv
-----------------------------------------------------------------------------
\* The messages of a stream that are orders and begin before a place are finitely many.
LEMMA FinitelyMany ==
    ASSUME NEW s \in Seq(BOOLEAN), NEW t
    PROVE  IsFiniteSet({n \in {k \in DOMAIN s : s[k]} : 4 * (n - 1) < t})
<1> DEFINE R == {n \in {k \in DOMAIN s : s[k]} : 4 * (n - 1) < t}
<1>1. Len(s) \in Nat /\ DOMAIN s = 1..Len(s)
    BY LenProperties
<1>2. IsFiniteSet(1..Len(s))
    BY <1>1, FS_Interval
<1>3. R \in SUBSET (1..Len(s))
    BY <1>1
<1> HIDE DEF R
<1>4. IsFiniteSet(R)
    BY <1>2, <1>3, FS_Subset
<1> QED
    BY <1>4 DEF R

\* What was sent stays sent.
LEMMA SentGrows ==
    ASSUME SeqInv, Next, NEW c \in Conn
    PROVE  /\ sent'[c] \in Seq(BOOLEAN) /\ Len(sent[c]) <= Len(sent'[c])
           /\ \A n \in 1..Len(sent[c]) : sent'[c][n] = sent[c][n]
<1>1. PICK d \in Conn : Handle(d) \/ Send(d) \/ Receive(d) \/ Close(d) \/ Reset(d)
    BY DEF Next
<1>2. sent[c] \in Seq(BOOLEAN) /\ sent[d] \in Seq(BOOLEAN) /\ sent \in [Conn -> Seq(BOOLEAN)]
    BY DEF SeqInv
<1>3. Len(sent[c]) \in Nat
    BY <1>2, LenProperties
<1>4. CASE Send(d)
    <2>1. PICK order \in BOOLEAN : sent' = [sent EXCEPT ![d] = Append(@, order)]
        BY <1>4, BistAssumption DEF Send
    <2>2. sent'[c] = IF c = d THEN Append(sent[c], order) ELSE sent[c]
        BY <1>2, <2>1, Zenon
    <2>3. /\ Append(sent[c], order) \in Seq(BOOLEAN)
          /\ Len(Append(sent[c], order)) = Len(sent[c]) + 1
          /\ \A n \in 1..Len(sent[c]) : Append(sent[c], order)[n] = sent[c][n]
        BY <1>2, AppendProperties
    <2>4. CASE c = d
        BY <1>3, <2>2, <2>3, <2>4
    <2>5. CASE c # d
        BY <1>2, <1>3, <2>2, <2>5
    <2> QED
        BY <2>4, <2>5
<1>5. CASE sent' = sent
    BY <1>2, <1>3, <1>5
<1>6. CASE Handle(d) \/ Receive(d) \/ Close(d) \/ Reset(d)
    BY <1>5, <1>6 DEF Handle, Read, ReadEnds, Load, Store, LoadAgain, Write, WriteFails, WriteKills,
                      Receive, Close, Reset, UnchangedByHandler
<1> QED
    BY <1>1, <1>4, <1>6

\* The orders whose head has been read grow in number only.
LEMMA OrdersGrow ==
    ASSUME StateInv, SeqInv, StreamInv, Next, NEW c \in Conn
    PROVE  /\ IsFiniteSet(ReadOrders(c)) /\ IsFiniteSet(ReadOrders(c)')
           /\ ReadOrders(c) \subseteq ReadOrders(c)'
           /\ Cardinality(ReadOrders(c)) \in Nat /\ Cardinality(ReadOrders(c)') \in Nat
           /\ Cardinality(ReadOrders(c)) <= Cardinality(ReadOrders(c)')
<1>1. sent[c] \in Seq(BOOLEAN) /\ sent'[c] \in Seq(BOOLEAN)
    BY SentGrows DEF SeqInv
<1>2. IsFiniteSet(ReadOrders(c))
    BY <1>1, FinitelyMany DEF ReadOrders, Orders
<1>3. IsFiniteSet(ReadOrders(c)')
    <2>1. ReadOrders(c)' = {n \in {k \in DOMAIN sent'[c] : sent'[c][k]} : 4 * (n - 1) < Taken(c)'}
        BY DEF ReadOrders, Orders
    <2> QED
        BY <1>1, <2>1, FinitelyMany
<1>4. ReadOrders(c) \subseteq ReadOrders(c)'
    <2> SUFFICES ASSUME NEW n \in ReadOrders(c) PROVE n \in ReadOrders(c)'
        OBVIOUS
    <2>1. n \in DOMAIN sent[c] /\ sent[c][n] /\ 4 * (n - 1) < Taken(c)
        BY DEF ReadOrders, Orders
    <2>2. DOMAIN sent[c] = 1..Len(sent[c]) /\ Len(sent[c]) \in Nat
        BY <1>1, LenProperties
    <2>3. DOMAIN sent'[c] = 1..Len(sent'[c]) /\ Len(sent'[c]) \in Nat
        BY <1>1, LenProperties
    <2>4. n \in DOMAIN sent'[c] /\ sent'[c][n]
        BY <2>1, <2>2, <2>3, SentGrows
    <2>5. 4 * (n - 1) < Taken(c)'
        <3>1. Taken(c) \in Int /\ Taken(c)' \in Int /\ Taken(c)' >= Taken(c)
            BY TakenGrows
        <3> QED
            BY <2>1, <2>2, <3>1
    <2> QED
        BY <2>4, <2>5 DEF ReadOrders, Orders
<1> QED
    BY <1>2, <1>3, <1>4, FS_Subset, FS_CardinalityType

\* The orders that were read are some of those that were sent.
LEMMA FiniteOrders ==
    ASSUME SeqInv, NEW c \in Conn
    PROVE  /\ Cardinality(ReadOrders(c)) <= Cardinality(Orders(c))
           /\ Cardinality(ReadOrders(c)) \in Nat /\ Cardinality(Orders(c)) \in Nat
<1>1. sent[c] \in Seq(BOOLEAN)
    BY DEF SeqInv
<1>2. Len(sent[c]) \in Nat /\ DOMAIN sent[c] = 1..Len(sent[c])
    BY <1>1, LenProperties
<1>3. IsFiniteSet(1..Len(sent[c]))
    <2>1. 1 \in Int /\ Len(sent[c]) \in Int
        BY <1>2
    <2> QED
        BY <2>1, FS_Interval
<1>4. Orders(c) \in SUBSET (1..Len(sent[c])) /\ ReadOrders(c) \in SUBSET Orders(c)
    BY <1>2 DEF Orders, ReadOrders
<1>5. IsFiniteSet(Orders(c))
    BY <1>3, <1>4, FS_Subset
<1> QED
    BY <1>4, <1>5, FS_Subset, FS_CardinalityType
-----------------------------------------------------------------------------
\* What a token that fits a place of a message says of that place.
LEMMA FitsAt ==
    ASSUME NEW t, NEW m, NEW r \in 0..3, NEW b,
           Fits(t, [msg |-> m, part |-> Part[r + 1], order |-> b])
    PROVE  /\ t.msg = m /\ t.order = b
           /\ t.part \in {"head", "type"} => r = 0
           /\ t.part = "id" => r = 1
<1>1. /\ t.msg = m /\ t.order = b
      /\ t.part = Part[r + 1] \/ (Part[r + 1] = "head" /\ t.part \in {"type", "torn"})
    BY DEF Fits
<1>2. Part[1] = "head" /\ Part[2] = "id" /\ Part[3] = "rest" /\ Part[4] = "tail"
    BY DEF Part
<1>3. r = 0 \/ r = 1 \/ r = 2 \/ r = 3
    OBVIOUS
<1>4. CASE r = 0
    BY <1>1, <1>2, <1>4
<1>5. CASE r = 1
    BY <1>1, <1>2, <1>5
<1>6. CASE r = 2
    BY <1>1, <1>2, <1>6
<1>7. CASE r = 3
    BY <1>1, <1>2, <1>7
<1> QED
    BY <1>3, <1>4, <1>5, <1>6, <1>7

\* The tokens of what a read returns: which message each is of, and which part.
LEMMA TextTokens ==
    ASSUME SeqInv, StreamInv, NEW c \in Conn, NEW n \in 0..Len(in[c]), NEW i \in 1..n
    PROVE  \E m \in 1..Len(sent[c]), r \in 0..3 :
               /\ Fits(SubSeq(in[c], 1, n)[i], [msg |-> m, part |-> Part[r + 1], order |-> sent[c][m]])
               /\ Taken(c) + i - 1 = 4 * (m - 1) + r
<1>1. in[c] \in Seq(Token)
    BY DEF SeqInv
<1>2. sent[c] \in Seq(BOOLEAN)
    BY DEF SeqInv
<1>l. PICK l \in Nat : l = Len(in[c])
    BY <1>1, LenProperties
<1>m. PICK m \in Nat : m = Len(sent[c])
    BY <1>2, LenProperties
<1>3. l <= 4 * m /\ i \in 1..l /\ n \in 0..l /\ i \in Nat
    BY <1>l, <1>m DEF StreamInv, StreamAt
<1>4. SubSeq(in[c], 1, n)[i] = in[c][i]
    BY <1>1, <1>l, <1>3, CutInTwo
<1>6. Taken(c) = 4 * m - l
    BY <1>l, <1>m DEF Taken
<1>k. PICK k \in Nat : k = Taken(c) + i /\ k >= 1 /\ k <= 4 * m
    BY <1>3, <1>6
<1>5. Fits(in[c][i], TokenAt(c, k))
    BY <1>l, <1>3, <1>k DEF StreamInv, StreamAt
<1>q. PICK q \in 1..m : q = (k - 1) \div 4 + 1
    BY <1>k
<1>r. PICK r \in 0..3 : r = (k - 1) % 4
    BY <1>k
<1>8. k - 1 = 4 * (q - 1) + r
    <2>1. \A x \in Nat : x = 4 * (x \div 4) + (x % 4)
        BY SMT
    <2>2. k - 1 \in Nat
        BY <1>k
    <2>3. k - 1 = 4 * ((k - 1) \div 4) + ((k - 1) % 4)
        BY <2>1, <2>2
    <2> QED
        BY <2>3, <1>q, <1>r
<1>9. TokenAt(c, k) = [msg |-> q, part |-> Part[r + 1], order |-> sent[c][q]]
    BY <1>q, <1>r DEF TokenAt
<1>10. Taken(c) + i - 1 = 4 * (q - 1) + r
    BY <1>6, <1>8, <1>k
<1> QED
    BY <1>4, <1>5, <1>9, <1>10, <1>m

\* A read takes its bytes off the stream.
LEMMA ReadTakes ==
    ASSUME SeqInv, NEW c \in Conn, NEW n \in 0..Len(in[c]), NEW rest,
           Len(rest) = Len(in[c]) - n, in' = [in EXCEPT ![c] = rest], sent' = sent
    PROVE  Taken(c) \in Int /\ Taken(c)' = Taken(c) + n
<1>1. in \in [Conn -> Seq(Token)]
    BY DEF SeqInv
<1>2. in[c] \in Seq(Token)
    BY <1>1
<1>l. PICK l \in Nat : l = Len(in[c])
    BY <1>2, LenProperties
<1>m. PICK m \in Nat : m = Len(sent[c])
    BY LenProperties DEF SeqInv
<1>3. in'[c] = rest
    BY <1>1, Zenon
<1>4. Len(in'[c]) = l - n
    BY <1>3, <1>l
<1>5. Taken(c)' = 4 * m - (l - n) /\ Taken(c) = 4 * m - l
    BY <1>4, <1>l, <1>m DEF Taken
<1> QED
    BY <1>5, <1>l

\* What a read may newly take: an order's head, and a ClOrdID.
FreshOrder(c) ==
    \E m \in 1..Len(sent[c]) :
        sent[c][m] /\ Taken(c) <= 4 * (m - 1) /\ 4 * (m - 1) < Taken(c)'
FreshName(c, id) ==
    \/ id = Unknown
    \/ /\ id.msg \in Nat \ {0}
       /\ Taken(c) < 4 * (id.msg - 1) + 2 /\ 4 * (id.msg - 1) + 2 <= Taken(c)'

(***************************************************************************)
(* A read that makes a report takes the head of an order that no read had  *)
(* reached, and a ClOrdID that none had, if it finds one: what a stream is *)
(* cut into does not let an order or a ClOrdID be taken twice.             *)
(***************************************************************************)
LEMMA ReadIsFresh ==
    ASSUME StateInv, SeqInv, StreamInv, NEW c \in Conn, Read(c)
    PROVE  \/ cur' = cur
           \/ \E e \in Begun : /\ cur' = [cur EXCEPT ![c] = e]
                               /\ FreshOrder(c) /\ FreshName(c, e.id)
<1>1. PICK n \in 0..Len(in[c]), rest \in Seq(Token) :
        ReadOf(c, n, rest) /\ Len(rest) = Len(in[c]) - n
    BY ReadTakesTokens
<1>2. in[c] \in Seq(Token)
    BY DEF SeqInv
<1>t. PICK text \in Seq(Token) : text = SubSeq(in[c], 1, n) /\ Len(text) = n
    <2>1. SubSeq(in[c], 1, n) \in Seq(Token) /\ Len(SubSeq(in[c], 1, n)) = n
        BY <1>2, CutInTwo
    <2> QED
        BY <2>1
<1>4. Taken(c) \in Int /\ Taken(c)' = Taken(c) + n
    <2>1. sent' = sent
        BY DEF Read, UnchangedByHandler
    <2> QED
        BY <1>1, <2>1, ReadTakes DEF ReadOf
<1>5. CASE ~IsOrder(text)
    BY <1>1, <1>t, <1>5 DEF ReadOf
<1>6. CASE IsOrder(text)
    <2>1. cur' = [cur EXCEPT ![c] = [id |-> ClOrdID(text), valid |-> Valid(text)]]
        BY <1>1, <1>t, <1>6 DEF ReadOf
    <2>2. [id |-> ClOrdID(text), valid |-> Valid(text)] \in Begun
        BY ClOrdIDType DEF Begun, Valid
    <2>3. n \in Nat /\ Len(text) \in Nat
        BY <1>2, <1>t, LenProperties
    <2>4. FreshOrder(c)
        <3>1. PICK i \in 1..n : text[i].part \in {"head", "type"} /\ text[i].order
            <4>1. FirstOf(WithType, text) > 0 /\ text[FirstOf(WithType, text)].order
                BY <1>6 DEF IsOrder
            <4>2. \/ FirstOf(WithType, text) = 0
                  \/ /\ FirstOf(WithType, text) \in 1..n
                     /\ text[FirstOf(WithType, text)].part \in {"head", "type"}
                BY <1>t, <2>3, FirstIs DEF WithType
            <4> QED
                BY <4>1, <4>2
        <3>2. PICK m \in 1..Len(sent[c]), r \in 0..3 :
                /\ Fits(text[i], [msg |-> m, part |-> Part[r + 1], order |-> sent[c][m]])
                /\ Taken(c) + i - 1 = 4 * (m - 1) + r
            BY <1>t, TextTokens
        <3>3. r = 0 /\ sent[c][m]
            BY <3>1, <3>2, FitsAt
        <3>5. Taken(c) <= 4 * (m - 1) /\ 4 * (m - 1) < Taken(c)'
            <4>1. Taken(c) + i - 1 = 4 * (m - 1) /\ i \in 1..n /\ m \in Int
                BY <3>2, <3>3
            <4>2. Taken(c) \in Int /\ Taken(c)' = Taken(c) + n /\ n \in Nat
                BY <1>4, <2>3
            <4> QED
                BY ONLY <4>1, <4>2, SMTT(40)
        <3> QED
            BY <3>3, <3>5 DEF FreshOrder
    <2>5. FreshName(c, ClOrdID(text))
        <3> DEFINE i == FirstOf({"id"}, text)
        <3>1. ClOrdID(text) = IF i = 0 THEN Unknown ELSE [msg |-> text[i].msg, whole |-> i < Len(text)]
            BY DEF ClOrdID
        <3>2. i = 0 \/ (i \in 1..n /\ text[i].part = "id")
            <4>1. i = 0 \/ (i \in 1..Len(text) /\ text[i].part \in {"id"})
                BY <2>3, FirstIs
            <4> HIDE DEF i
            <4> QED
                BY <1>t, <4>1
        <3> HIDE DEF i
        <3>3. CASE i = 0
            BY <3>1, <3>3 DEF FreshName
        <3>4. CASE i # 0
            <4>1. i \in 1..n /\ text[i].part = "id"
                BY <3>2, <3>4
            <4>2. PICK m \in 1..Len(sent[c]), r \in 0..3 :
                    /\ Fits(text[i], [msg |-> m, part |-> Part[r + 1], order |-> sent[c][m]])
                    /\ Taken(c) + i - 1 = 4 * (m - 1) + r
                BY <1>t, <4>1, TextTokens
            <4>3. r = 1
                BY <4>1, <4>2, FitsAt
            <4>a. text[i].msg = m
                BY <4>2, FitsAt
            <4>4. ClOrdID(text).msg = m
                BY ONLY <3>1, <3>4, <4>a
            <4>5. Taken(c) < 4 * (m - 1) + 2 /\ 4 * (m - 1) + 2 <= Taken(c)'
                BY <1>4, <2>3, <4>1, <4>2, <4>3, SMTT(40)
            <4> QED
                BY <4>4, <4>5 DEF FreshName
        <3> QED
            BY <3>3, <3>4
    <2> QED
        BY <2>1, <2>2, <2>4, <2>5
<1> QED
    BY <1>5, <1>6
-----------------------------------------------------------------------------
\* A step of another connection leaves a connection's reports alone.
LEMMA ReportsOthers ==
    ASSUME StateInv, SeqInv, NEW d \in Conn, Handle(d) \/ Send(d) \/ Receive(d) \/ Close(d) \/ Reset(d),
           NEW c \in Conn, c # d
    PROVE  /\ reports'[c] = reports[c] /\ cur'[c] = cur[c] /\ hnd'[c] = hnd[c]
           /\ out'[c] = out[c] /\ received'[c] = received[c]
           /\ c \in rst' <=> c \in rst
<1>1. CASE Handle(d)
    BY <1>1 DEF Handle, Read, ReadEnds, Load, Store, LoadAgain, Write, WriteFails, WriteKills,
                Reported, UnchangedByHandler, SeqInv, StateInv
<1>2. CASE Send(d) \/ Receive(d) \/ Close(d) \/ Reset(d)
    BY <1>2 DEF Send, Receive, Close, Reset, UnchangedByProgram, SeqInv
<1> QED
    BY <1>1, <1>2

\* Whether a report is in hand changes with the handler only.
LEMMA CountSame ==
    ASSUME StateInv, SeqInv, StreamInv, Next, NEW c \in Conn, CountAt(c),
           reports'[c] = reports[c], Pending(c)' <= Pending(c), Pending(c)' \in Nat,
           received'[c] + Len(out'[c]) = received[c] + Len(out[c]),
           c \in rst' => c \in rst \/ out[c] # <<>>
    PROVE  CountAt(c)'
<1>1. reports[c] \in Seq(Report) /\ received[c] \in Nat
    BY DEF SeqInv
<1>2. out[c] \in Seq(Report)
    BY DEF SeqInv
<1>3. Len(reports[c]) \in Nat /\ Len(out[c]) \in Nat
    BY <1>1, <1>2, LenProperties
<1>4. /\ Len(reports[c]) + Pending(c) <= Cardinality(ReadOrders(c))
      /\ received[c] + Len(out[c]) <= Len(reports[c])
      /\ c \in rst => reports[c] # <<>>
    BY DEF CountAt
<1>5. c \in rst' => reports[c] # <<>>
    <2>1. out[c] # <<>> => Len(out[c]) > 0
        BY <1>2, EmptySeq
    <2>2. Len(reports[c]) > 0 => reports[c] # <<>>
        BY EmptySeq
    <2> QED
        BY <1>1, <1>3, <1>4, <2>1, <2>2
<1>6. Len(reports'[c]) + Pending(c)' <= Cardinality(ReadOrders(c)')
    <2>1. /\ Cardinality(ReadOrders(c)) \in Nat /\ Cardinality(ReadOrders(c)') \in Nat
          /\ Cardinality(ReadOrders(c)) <= Cardinality(ReadOrders(c)')
        BY OrdersGrow
    <2>2. Pending(c) \in Nat
        BY DEF Pending
    <2> QED
        BY <1>3, <1>4, <2>1, <2>2
<1> QED
    BY <1>4, <1>5, <1>6 DEF CountAt

(***************************************************************************)
(* The reports made and in hand never outnumber the orders read.           *)
(***************************************************************************)
LEMMA CountStep ==
    ASSUME StateInv, CurInv, SeqInv, StreamInv, CountInv, Next
    PROVE  CountInv'
<1>1. PICK c \in Conn : Handle(c) \/ Send(c) \/ Receive(c) \/ Close(c) \/ Reset(c)
    BY DEF Next
<1>p. \A d \in Conn : Pending(d) \in {0, 1} /\ Pending(d)' \in {0, 1}
    BY DEF Pending
<1>2. ASSUME NEW d \in Conn, d # c PROVE CountAt(d)'
    <2>1. /\ reports'[d] = reports[d] /\ cur'[d] = cur[d]
          /\ out'[d] = out[d] /\ received'[d] = received[d]
          /\ d \in rst' <=> d \in rst
        BY <1>1, <1>2, ReportsOthers
    <2>2. Pending(d)' = Pending(d)
        BY <2>1 DEF Pending
    <2>3. Pending(d) \in Nat
        BY <1>p
    <2>4. CountAt(d)
        BY DEF CountInv
    <2> QED
        BY <2>1, <2>2, <2>3, <2>4, CountSame
<1>3. CountAt(c)'
    <2>0. CountAt(c)
        BY DEF CountInv
    <2>r. reports[c] \in Seq(Report) /\ reports \in [Conn -> Seq(Report)]
        BY DEF SeqInv
    <2>o. out[c] \in Seq(Report) /\ out \in [Conn -> Seq(Report)]
        BY DEF SeqInv
    <2>n. received[c] \in Nat /\ received \in [Conn -> Nat]
        BY DEF SeqInv
    <2>c. cur \in [Conn -> {<<>>} \cup Begun \cup Numbered \cup Report]
        BY DEF StateInv
    <2>l. Len(reports[c]) \in Nat /\ Len(out[c]) \in Nat
        BY <2>r, <2>o, LenProperties
    <2>p. Pending(c) \in Nat /\ Pending(c)' \in Nat
        BY <1>p
    <2>g. /\ IsFiniteSet(ReadOrders(c)') /\ ReadOrders(c) \subseteq ReadOrders(c)'
          /\ Cardinality(ReadOrders(c)) \in Nat /\ Cardinality(ReadOrders(c)') \in Nat
          /\ Cardinality(ReadOrders(c)) <= Cardinality(ReadOrders(c)')
        BY OrdersGrow
    <2>1. CASE Read(c)
        <3>1. UNCHANGED <<out, reports, received, rst>>
            BY <2>1 DEF Read, UnchangedByHandler
        <3>2. CASE cur' = cur
            <4>1. Pending(c)' = Pending(c)
                BY <3>2 DEF Pending
            <4> QED
                BY <2>0, <2>p, <3>1, <4>1, CountSame
        <3>3. ASSUME FreshOrder(c) PROVE CountAt(c)'
            <4>1. PICK m \in 1..Len(sent[c]) :
                    sent[c][m] /\ Taken(c) <= 4 * (m - 1) /\ 4 * (m - 1) < Taken(c)'
                BY <3>3 DEF FreshOrder
            <4>2. m \notin ReadOrders(c)
                <5>1. Taken(c) \in Int
                    BY TakenGrows
                <5>2. Len(sent[c]) \in Nat
                    BY LenProperties DEF SeqInv
                <5> QED
                    BY <4>1, <5>1, <5>2 DEF ReadOrders
            <4>3. m \in ReadOrders(c)'
                <5>1. sent'[c] = sent[c] /\ sent[c] \in Seq(BOOLEAN)
                    BY <2>1 DEF Read, UnchangedByHandler, SeqInv
                <5>2. m \in DOMAIN sent'[c] /\ sent'[c][m]
                    BY <4>1, <5>1, LenProperties
                <5> QED
                    BY <4>1, <5>2 DEF ReadOrders, Orders
            <4>4. Cardinality(ReadOrders(c)) + 1 <= Cardinality(ReadOrders(c)')
                <5>1. IsFiniteSet(ReadOrders(c)) /\ IsFiniteSet(ReadOrders(c)')
                    BY OrdersGrow
                <5>2. Cardinality(ReadOrders(c) \cup {m}) = Cardinality(ReadOrders(c)) + 1
                    BY <4>2, <5>1, FS_AddElement
                <5>3. ReadOrders(c) \cup {m} \in SUBSET (ReadOrders(c)')
                    BY <2>g, <4>3
                <5>4. Cardinality(ReadOrders(c) \cup {m}) <= Cardinality(ReadOrders(c)')
                    BY <5>1, <5>3, FS_Subset
                <5> QED
                    BY <5>2, <5>4
            <4>5. Pending(c) = 0 /\ Pending(c)' <= 1
                BY <1>p, <2>1 DEF Read, CurInv, Pending
            <4>6. Len(reports[c]) <= Cardinality(ReadOrders(c))
                BY <2>0, <2>l, <4>5 DEF CountAt
            <4>7. Len(reports'[c]) + Pending(c)' <= Cardinality(ReadOrders(c)')
                BY <2>l, <2>g, <2>p, <3>1, <4>4, <4>5, <4>6
            <4> QED
                BY <2>0, <3>1, <4>7 DEF CountAt
        <3> QED
            BY <2>1, <3>2, <3>3, ReadIsFresh
    <2>2. CASE ReadEnds(c) \/ Load(c) \/ Store(c) \/ LoadAgain(c) \/ Send(c) \/ Close(c)
        <3>1. UNCHANGED <<out, reports, received, rst>>
            BY <2>2 DEF ReadEnds, Load, Store, LoadAgain, Send, Close, UnchangedByHandler, UnchangedByProgram
        <3>2. Pending(c)' <= Pending(c)
            <4>1. CASE Load(c) \/ LoadAgain(c)
                <5>1. cur[c] # <<>>
                    BY <4>1, ReportParts DEF Load, LoadAgain, CurInv
                <5> QED
                    BY <1>p, <5>1 DEF Pending
            <4>2. CASE ~(Load(c) \/ LoadAgain(c))
                <5>1. cur' = cur
                    BY <2>2, <4>2 DEF ReadEnds, Store, Send, Close, UnchangedByProgram
                <5> QED
                    BY <2>p, <5>1 DEF Pending
            <4> QED
                BY <4>1, <4>2
        <3> QED
            BY <2>0, <2>p, <3>1, <3>2, CountSame
    <2>3. CASE Write(c) \/ WriteFails(c) \/ WriteKills(c)
        <3>1. cur[c] \in Report /\ cur[c] # <<>>
            BY <2>3, ReportParts DEF Write, WriteFails, WriteKills, CurInv
        <3>2. /\ reports' = [reports EXCEPT ![c] = Append(@, cur[c])]
              /\ cur' = [cur EXCEPT ![c] = <<>>]
              /\ UNCHANGED <<received, rst>>
              /\ out' = [out EXCEPT ![c] = Append(@, cur[c])] \/ out' = out
            BY <2>3 DEF Write, WriteFails, WriteKills, Reported, UnchangedByHandler
        <3>3. reports'[c] = Append(reports[c], cur[c]) /\ cur'[c] = <<>>
            BY <2>r, <2>c, <3>2, Zenon
        <3>4. out'[c] = Append(out[c], cur[c]) \/ out'[c] = out[c]
            BY <2>o, <3>2, Zenon
        <3>5. Len(reports'[c]) = Len(reports[c]) + 1
            BY <2>r, <3>1, <3>3, AppendProperties
        <3>6. Len(out'[c]) <= Len(out[c]) + 1 /\ Len(out'[c]) \in Nat
            <4>1. Len(Append(out[c], cur[c])) = Len(out[c]) + 1
                BY <2>o, <3>1, AppendProperties
            <4> QED
                BY <2>l, <3>4, <4>1
        <3>7. Pending(c) = 1 /\ Pending(c)' = 0
            BY <3>1, <3>3 DEF Pending
        <3>8. reports'[c] # <<>>
            BY <2>l, <3>5
        <3>9. /\ Len(reports[c]) + 1 <= Cardinality(ReadOrders(c))
              /\ received[c] + Len(out[c]) <= Len(reports[c])
            BY <2>0, <3>7 DEF CountAt
        <3>10. Len(reports'[c]) + Pending(c)' <= Cardinality(ReadOrders(c)')
            BY <2>l, <2>g, <3>5, <3>7, <3>9
        <3>11. received'[c] + Len(out'[c]) <= Len(reports'[c])
            BY <2>l, <2>n, <3>2, <3>5, <3>6, <3>9
        <3> QED
            BY <3>8, <3>10, <3>11 DEF CountAt
    <2>4. CASE Receive(c)
        <3>1. UNCHANGED <<reports, cur, rst>>
            BY <2>4 DEF Receive, UnchangedByProgram
        <3>2. out'[c] = Tail(out[c]) /\ received'[c] = received[c] + 1 /\ out[c] # <<>>
            BY <2>4, <2>o, <2>n, Zenon DEF Receive
        <3>3. Len(out'[c]) = Len(out[c]) - 1
            BY <2>o, <3>2, HeadTailProperties
        <3>4. received'[c] + Len(out'[c]) = received[c] + Len(out[c])
            BY <2>l, <2>n, <3>2, <3>3
        <3>5. Pending(c)' = Pending(c)
            BY <3>1 DEF Pending
        <3> QED
            BY <2>0, <2>p, <3>1, <3>4, <3>5, CountSame
    <2>5. CASE Reset(c)
        <3>1. UNCHANGED <<out, received, reports, cur>> /\ out[c] # <<>>
            BY <2>5 DEF Reset, UnchangedByProgram
        <3>2. Pending(c)' = Pending(c)
            BY <3>1 DEF Pending
        <3> QED
            BY <2>0, <2>p, <3>1, <3>2, CountSame
    <2> QED
        BY <1>1, <2>1, <2>2, <2>3, <2>4, <2>5 DEF Handle
<1> QED
    BY <1>2, <1>3 DEF CountInv
-----------------------------------------------------------------------------
\* A ClOrdID that was read stays one that was read.
LEMMA NamedStays ==
    ASSUME StateInv, SeqInv, StreamInv, Next, NEW c \in Conn, NEW id \in Id, Named(c, id)
    PROVE  Named(c, id)'
<1>1. Taken(c) \in Int /\ Taken(c)' \in Int /\ Taken(c)' >= Taken(c)
    BY TakenGrows
<1>2. id = Unknown \/ (id.msg \in Nat /\ id.msg >= 1 /\ 4 * (id.msg - 1) + 2 <= Taken(c))
    BY DEF Named, Id
<1>3. id.msg \in Nat /\ 4 * (id.msg - 1) + 2 <= Taken(c) => 4 * (id.msg - 1) + 2 <= Taken(c)'
    BY <1>1
<1> QED
    BY <1>2, <1>3 DEF Named

\* The ClOrdIDs of the reports of a connection.
LEMMA ReportIds ==
    ASSUME SeqInv, NEW c \in Conn
    PROVE  Len(reports[c]) \in Nat /\ \A i \in 1..Len(reports[c]) : reports[c][i].id \in Id
<1>1. reports[c] \in Seq(Report)
    BY DEF SeqInv
<1>2. \A i \in 1..Len(reports[c]) : reports[c][i] \in Report
    BY <1>1, ElementOfSeq
<1> QED
    BY <1>1, <1>2, ReportParts, LenProperties

\* Nothing is made of a connection in this step.
LEMMA NameSame ==
    ASSUME StateInv, SeqInv, StreamInv, Next, NEW c \in Conn, NameAt(c),
           reports'[c] = reports[c],
           cur'[c] # <<>> => cur[c] # <<>> /\ cur'[c].id = cur[c].id /\ cur[c].id \in Id
    PROVE  NameAt(c)'
<1>1. \A i \in 1..Len(reports[c]) : reports[c][i].id \in Id
    BY ReportIds
<1>2. \A i \in 1..Len(reports[c]) : Named(c, reports[c][i].id)'
    <2> SUFFICES ASSUME NEW i \in 1..Len(reports[c]) PROVE Named(c, reports[c][i].id)'
        OBVIOUS
    <2>1. PICK id \in Id : id = reports[c][i].id
        BY <1>1
    <2>2. Named(c, id)
        BY <2>1 DEF NameAt
    <2>3. Named(c, id)'
        BY <2>2, NamedStays
    <2>4. reports'[c][i].id = id
        BY <2>1
    <2> QED
        BY <2>3, <2>4 DEF Named
<1>3. cur'[c] # <<>> => Named(c, cur[c].id)'
    <2> SUFFICES ASSUME cur'[c] # <<>> PROVE Named(c, cur[c].id)'
        OBVIOUS
    <2>1. PICK id \in Id : id = cur[c].id
        OBVIOUS
    <2>2. Named(c, id)
        BY <2>1 DEF NameAt
    <2>3. Named(c, id)'
        BY <2>2, NamedStays
    <2>4. cur'[c].id = id
        BY <2>1
    <2> QED
        BY <2>3, <2>4 DEF Named
<1> QED
    BY <1>2, <1>3 DEF NameAt, Named, Before
(***************************************************************************)
(* Reports name the messages of a connection in the order they were sent,  *)
(* and none twice.                                                         *)
(***************************************************************************)
LEMMA NameStep ==
    ASSUME StateInv, CurInv, SeqInv, StreamInv, NameInv, Next
    PROVE  NameInv'
<1>1. PICK c \in Conn : Handle(c) \/ Send(c) \/ Receive(c) \/ Close(c) \/ Reset(c)
    BY DEF Next
<1>c. \A d \in Conn : cur[d] # <<>> => cur[d].id \in Id
    BY ReportParts DEF StateInv
<1>2. ASSUME NEW d \in Conn, d # c PROVE NameAt(d)'
    <2>1. reports'[d] = reports[d] /\ cur'[d] = cur[d]
        BY <1>1, <1>2, ReportsOthers
    <2>2. NameAt(d)
        BY DEF NameInv
    <2> QED
        BY <1>c, <2>1, <2>2, NameSame
<1>3. NameAt(c)'
    <2>0. NameAt(c)
        BY DEF NameInv
    <2>c. cur \in [Conn -> {<<>>} \cup Begun \cup Numbered \cup Report]
        BY DEF StateInv
    <2>1. CASE Read(c)
        <3>1. reports' = reports
            BY <2>1 DEF Read, UnchangedByHandler
        <3>2. CASE cur' = cur
            BY <1>c, <2>0, <3>1, <3>2, NameSame
        <3>3. ASSUME NEW e \in Begun, cur' = [cur EXCEPT ![c] = e], FreshName(c, e.id)
              PROVE  NameAt(c)'
            <4>1. cur'[c] = e
                BY <2>c, <3>3
            <4>2. PICK id \in Id : id = e.id
                BY ReportParts
            <4>3. Taken(c) \in Int /\ Taken(c)' \in Int
                BY TakenGrows
            <4>4. Named(c, cur[c].id)'
                BY <3>3, <4>1, <4>2 DEF Named, FreshName
            <4>5. ASSUME NEW i \in 1..Len(reports[c]) PROVE Before(reports[c][i].id, id)
                <5>1. PICK old \in Id : old = reports[c][i].id
                    BY ReportIds
                <5>2. old = Unknown \/ (old.msg \in Nat /\ 4 * (old.msg - 1) + 2 <= Taken(c))
                    BY <2>0, <5>1 DEF NameAt, Named, Id
                <5>3. id = Unknown \/ (id.msg \in Nat /\ Taken(c) < 4 * (id.msg - 1) + 2)
                    BY <3>3, <4>2 DEF FreshName
                <5>4. old = Unknown \/ id = Unknown \/ old.msg < id.msg
                    BY <4>3, <5>2, <5>3
                <5> QED
                    BY <5>1, <5>4 DEF Before
            <4>6. \A i \in 1..Len(reports[c]) : Before(reports[c][i].id, cur[c].id)'
                BY <3>1, <4>1, <4>2, <4>5 DEF Before
            <4>7. hnd[c] = "read" /\ cur[c] = <<>>
                BY <2>1 DEF Read, CurInv
            <4>8. \A i \in 1..Len(reports[c]) : Named(c, reports[c][i].id)'
                <5> SUFFICES ASSUME NEW i \in 1..Len(reports[c]) PROVE Named(c, reports[c][i].id)'
                    OBVIOUS
                <5>1. PICK old \in Id : old = reports[c][i].id
                    BY ReportIds
                <5>2. Named(c, old)
                    BY <2>0, <5>1 DEF NameAt
                <5>3. Named(c, old)'
                    BY <5>2, NamedStays
                <5>4. reports'[c][i].id = old
                    BY <3>1, <5>1
                <5> QED
                    BY <5>3, <5>4 DEF Named
            <4> QED
                BY <2>0, <3>1, <4>4, <4>6, <4>8 DEF NameAt, Before
        <3> QED
            BY <2>1, <3>2, <3>3, ReadIsFresh
    <2>2. CASE Load(c) \/ LoadAgain(c)
        <3>1. reports' = reports
            BY <2>2 DEF Load, LoadAgain, UnchangedByHandler
        <3>2. cur[c] # <<>> /\ cur[c].id \in Id
            BY <2>2, ReportParts DEF Load, LoadAgain, CurInv
        <3>3. cur'[c].id = cur[c].id
            BY <2>2, <2>c DEF Load, LoadAgain
        <3> QED
            BY <2>0, <3>1, <3>2, <3>3, NameSame
    <2>3. CASE ReadEnds(c) \/ Store(c) \/ Send(c) \/ Receive(c) \/ Close(c) \/ Reset(c)
        <3>1. reports' = reports /\ cur' = cur
            BY <2>3 DEF ReadEnds, Store, Send, Receive, Close, Reset, UnchangedByHandler, UnchangedByProgram
        <3> QED
            BY <1>c, <2>0, <3>1, NameSame
    <2>4. CASE Write(c) \/ WriteFails(c) \/ WriteKills(c)
        <3>1. cur[c] \in Report /\ cur[c] # <<>>
            BY <2>4, ReportParts DEF Write, WriteFails, WriteKills, CurInv
        <3>2. /\ reports' = [reports EXCEPT ![c] = Append(@, cur[c])]
              /\ cur' = [cur EXCEPT ![c] = <<>>]
              /\ UNCHANGED <<in, sent>>
            BY <2>4 DEF Write, WriteFails, WriteKills, Reported, UnchangedByHandler
        <3>3. reports[c] \in Seq(Report) /\ reports \in [Conn -> Seq(Report)]
            BY DEF SeqInv
        <3>4. reports'[c] = Append(reports[c], cur[c]) /\ cur'[c] = <<>>
            BY <2>c, <3>2, <3>3, Zenon
        <3>l. PICK l \in Nat : l = Len(reports[c])
            BY <3>3, LenProperties
        <3>5. /\ Len(reports'[c]) = l + 1 /\ reports'[c][l + 1] = cur[c]
              /\ \A i \in 1..l : reports'[c][i] = reports[c][i]
            BY <3>1, <3>3, <3>4, <3>l, AppendProperties
        <3>6. \A i \in 1..(l + 1) : Named(c, reports'[c][i].id)
            <4>1. Named(c, reports'[c][l + 1].id)
                BY <2>0, <3>1, <3>5 DEF NameAt
            <4>2. \A i \in 1..l : Named(c, reports'[c][i].id)
                BY <2>0, <3>5, <3>l DEF NameAt
            <4>3. \A i \in 1..(l + 1) : i = l + 1 \/ i \in 1..l
                OBVIOUS
            <4> QED
                BY <4>1, <4>2, <4>3
        <3>7. \A i, j \in 1..(l + 1) : i < j => Before(reports'[c][i].id, reports'[c][j].id)
            <4> SUFFICES ASSUME NEW i \in 1..(l + 1), NEW j \in 1..(l + 1), i < j
                         PROVE  Before(reports'[c][i].id, reports'[c][j].id)
                OBVIOUS
            <4>1. i \in 1..l
                OBVIOUS
            <4>2. CASE j = l + 1
                BY <2>0, <3>1, <3>5, <3>l, <4>1, <4>2 DEF NameAt
            <4>3. CASE j \in 1..l
                BY <2>0, <3>5, <3>l, <4>1, <4>3 DEF NameAt
            <4> QED
                BY <4>2, <4>3
        <3>8. \A i \in 1..(l + 1) : Named(c, reports[c][i].id)'
            <4> SUFFICES ASSUME NEW i \in 1..(l + 1) PROVE Named(c, reports[c][i].id)'
                OBVIOUS
            <4>1. Named(c, reports'[c][i].id)
                BY <3>6
            <4> QED
                BY <3>2, <4>1 DEF Named, Taken
        <3> QED
            BY <3>4, <3>5, <3>7, <3>8 DEF NameAt, Before
    <2> QED
        BY <1>1, <2>1, <2>2, <2>3, <2>4 DEF Handle
<1> QED
    BY <1>2, <1>3 DEF NameInv
-----------------------------------------------------------------------------

(***************************************************************************)
(* Steps that use no new number, and bring no handler to the counter, keep *)
(* the numbers apart (all of handle_client but the two uses of             *)
(* exec_counter; a write gives a number from the handler to the report).   *)
(***************************************************************************)
LEMMA KeepsNumbers ==
    ASSUME NumberInv, counter' = counter, overlap' = overlap,
           \A d \in Conn : Used(d)' = Used(d),
           \A d \in Conn : \A i \in Used(d) : Number(d, i)' = Number(d, i),
           \A d \in Conn : AtCounter(d)' => hnd'[d] = hnd[d] /\ cur'[d] = cur[d]
    PROVE  NumberInv'
<1> SUFFICES ASSUME ~overlap' PROVE NumberInv'
    BY DEF NumberInv
<1>0. ~overlap
    OBVIOUS
<1>1. \A d \in Conn : AtCounter(d)' => AtCounter(d)
    BY DEF AtCounter
<1>2. \A d \in Conn : \A i \in Used(d)' : i \in Used(d) /\ Number(d, i)' = Number(d, i)
    OBVIOUS
<1>3. \A c \in Conn : \A i \in Used(c)' : Number(c, i)'.ord = Number(c, i)'.exec /\ Number(c, i)'.exec <= counter'
    BY <1>0, <1>2 DEF NumberInv
<1>4. \A c, d \in Conn : \A i \in Used(c)', j \in Used(d)' :
        Number(c, i)'.exec = Number(d, j)'.exec => c = d /\ i = j
    BY <1>0, <1>2 DEF NumberInv
<1>5. \A c, d \in Conn : AtCounter(c)' /\ AtCounter(d)' => c = d
    BY <1>0, <1>1 DEF NumberInv
<1>6. \A c \in Conn : hnd'[c] = "store" => cur'[c].exec = counter' + 1
    BY <1>0 DEF NumberInv, AtCounter
<1>7. \A c \in Conn : hnd'[c] = "again" =>
        /\ cur'[c].exec = counter'
        /\ \A d \in Conn : \A i \in Used(d)' : Number(d, i)'.exec < counter'
    BY <1>0, <1>2 DEF NumberInv, AtCounter
<1> QED
    BY <1>3, <1>4, <1>5, <1>6, <1>7 DEF NumberInv
\* The numbers in use are numbers.
LEMMA UsedNumber ==
    ASSUME StateInv, CurInv, SeqInv, NEW c \in Conn, NEW i \in Used(c)
    PROVE  Number(c, i).exec \in Nat
<1>1. reports[c] \in Seq(Report)
    BY DEF SeqInv
<1>l. PICK l \in Nat : l = Len(reports[c])
    BY <1>1, LenProperties
<1>2. \A k \in 1..l : reports[c][k] \in Report
    BY <1>1, <1>l, ElementOfSeq
<1>3. CASE i \in 1..l
    BY <1>2, <1>3, <1>l, ReportParts DEF Number
<1>4. CASE i \notin 1..l
    <2>1. Writing(c) /\ i = l + 1
        <3>1. CASE Writing(c)
            <4>1. Used(c) = 1..(l + 1)
                BY <3>1, <1>l DEF Used
            <4> QED
                BY <1>4, <3>1, <4>1
        <3>2. CASE ~Writing(c)
            <4>1. Used(c) = 1..l
                BY <3>2, <1>l DEF Used
            <4> QED
                BY <1>4, <4>1
        <3> QED
            BY <3>1, <3>2
    <2>2. cur[c] \in Report
        BY <2>1 DEF Writing, CurInv
    <2> QED
        BY <2>1, <2>2, <1>l, ReportParts DEF Number
<1> QED
    BY <1>3, <1>4

\* The numbers in use do not exceed the counter, while handlers are alone there.
LEMMA LoadKeepsNumbers ==
    ASSUME StateInv, CurInv, SeqInv, NumberInv, NEW c \in Conn, Load(c)
    PROVE  NumberInv'
<1> SUFFICES ASSUME ~overlap' PROVE NumberInv'
    BY DEF NumberInv
<1>1. ~overlap /\ \A d \in Conn : ~AtCounter(d)
    BY DEF Load, AtCounter
<1>2. \A d \in Conn : hnd'[d] = IF d = c THEN "store" ELSE hnd[d]
    BY DEF Load, StateInv
<1>3. \A d \in Conn : d # c => cur'[d] = cur[d]
    BY DEF Load, StateInv
<1>4. cur'[c].exec = counter + 1
    BY DEF Load, StateInv, Increment
<1>5. reports' = reports /\ counter' = counter
    BY DEF Load, UnchangedByHandler
<1>6. \A d \in Conn : Writing(d)' <=> Writing(d)
    BY <1>2, <1>3 DEF Writing, Load
<1>7. \A d \in Conn : Used(d)' = Used(d)
    BY <1>5, <1>6 DEF Used
<1>8. ASSUME NEW d \in Conn, NEW i \in Used(d) PROVE Number(d, i)' = Number(d, i)
    <2>1. CASE d = c
        <3>1. ~Writing(c)
            BY DEF Load, Writing
        <3>2. i <= Len(reports[c])
            BY <1>8, <2>1, <3>1, LenProperties DEF Used, SeqInv
        <3> QED
            BY <1>5, <2>1, <3>2 DEF Number
    <2>2. CASE d # c
        BY <1>3, <1>5, <2>2 DEF Number
    <2> QED
        BY <2>1, <2>2
<1>9. \A d \in Conn : AtCounter(d)' => d = c
    BY <1>1, <1>2 DEF AtCounter
<1>10. /\ \A d \in Conn : \A i \in Used(d)' :
            Number(d, i)'.ord = Number(d, i)'.exec /\ Number(d, i)'.exec <= counter'
       /\ \A d, e \in Conn : \A i \in Used(d)', j \in Used(e)' :
            Number(d, i)'.exec = Number(e, j)'.exec => d = e /\ i = j
    BY <1>1, <1>5, <1>7, <1>8 DEF NumberInv
<1>11. \A d \in Conn : hnd'[d] = "store" => cur'[d].exec = counter' + 1
    BY <1>4, <1>5, <1>9 DEF AtCounter
<1>12. \A d \in Conn : hnd'[d] # "again"
    BY <1>1, <1>2 DEF AtCounter
<1> QED
    BY <1>9, <1>10, <1>11, <1>12 DEF NumberInv

\* The number that is stored is above all that are in use.
LEMMA StoreKeepsNumbers ==
    ASSUME StateInv, CurInv, SeqInv, NumberInv, NEW c \in Conn, Store(c)
    PROVE  NumberInv'
<1> SUFFICES ASSUME ~overlap' PROVE NumberInv'
    BY DEF NumberInv
<1>1. ~overlap /\ AtCounter(c) /\ \A d \in Conn : AtCounter(d) => d = c
    BY DEF Store, AtCounter, NumberInv
<1>2. \A d \in Conn : hnd'[d] = IF d = c THEN "again" ELSE hnd[d]
    BY DEF Store, StateInv
<1>3. counter \in Nat /\ counter' = counter + 1 /\ cur'[c].exec = counter'
    BY <1>1 DEF Store, NumberInv, StateInv
<1>5. reports' = reports /\ cur' = cur
    BY DEF Store, UnchangedByHandler
<1>6. \A d \in Conn : Writing(d)' <=> Writing(d)
    BY <1>2, <1>5 DEF Writing, Store
<1>7. \A d \in Conn : Used(d)' = Used(d)
    BY <1>5, <1>6 DEF Used
<1>8. \A d \in Conn : \A i \in Used(d) : Number(d, i)' = Number(d, i)
    BY <1>5 DEF Number
<1>9. \A d \in Conn : AtCounter(d)' => d = c
    BY <1>1, <1>2 DEF AtCounter
<1>10. \A d \in Conn : \A i \in Used(d) :
         Number(d, i).ord = Number(d, i).exec /\ Number(d, i).exec <= counter
    BY <1>1 DEF NumberInv
<1>11. \A d \in Conn : \A i \in Used(d)' :
         Number(d, i)'.ord = Number(d, i)'.exec /\ Number(d, i)'.exec < counter'
    <2> SUFFICES ASSUME NEW d \in Conn, NEW i \in Used(d)
                 PROVE  Number(d, i).ord = Number(d, i).exec /\ Number(d, i).exec < counter'
        BY <1>7, <1>8
    <2>1. Number(d, i).exec \in Nat
        BY <1>1, UsedNumber
    <2> QED
        BY <1>3, <1>10, <2>1
<1>12. \A d, e \in Conn : \A i \in Used(d)', j \in Used(e)' :
         Number(d, i)'.exec = Number(e, j)'.exec => d = e /\ i = j
    BY <1>1, <1>7, <1>8 DEF NumberInv
<1>13. \A d \in Conn : hnd'[d] # "store"
    BY <1>1, <1>2 DEF AtCounter
<1>14. \A d \in Conn : \A i \in Used(d)' : Number(d, i)'.exec <= counter'
    <2> SUFFICES ASSUME NEW d \in Conn, NEW i \in Used(d) PROVE Number(d, i).exec <= counter'
        BY <1>7, <1>8
    <2>1. Number(d, i).exec \in Nat
        BY <1>1, UsedNumber
    <2> QED
        BY <1>3, <1>10, <2>1
<1>15. \A d \in Conn : hnd'[d] = "again" =>
        /\ cur'[d].exec = counter'
        /\ \A e \in Conn : \A i \in Used(e)' : Number(e, i)'.exec < counter'
    BY <1>3, <1>9, <1>11 DEF AtCounter
<1>16. \A d, e \in Conn : AtCounter(d)' /\ AtCounter(e)' => d = e
    BY <1>9
<1>17. \A d \in Conn : \A i \in Used(d)' :
         Number(d, i)'.ord = Number(d, i)'.exec /\ Number(d, i)'.exec <= counter'
    BY <1>11, <1>14
<1> QED
    BY <1>12, <1>13, <1>15, <1>16, <1>17 DEF NumberInv

\* The OrderID is the ExecID, which nobody else has.
LEMMA AgainKeepsNumbers ==
    ASSUME StateInv, CurInv, SeqInv, NumberInv, NEW c \in Conn, LoadAgain(c)
    PROVE  NumberInv'
<1> SUFFICES ASSUME ~overlap' PROVE NumberInv'
    BY DEF NumberInv
<1>1. ~overlap /\ hnd[c] = "again" /\ \A d \in Conn : AtCounter(d) => d = c
    BY DEF LoadAgain, AtCounter, NumberInv
<1>2. \A d \in Conn : hnd'[d] = IF d = c THEN "write" ELSE hnd[d]
    BY DEF LoadAgain, StateInv
<1>3. counter' = counter /\ reports' = reports /\ counter \in Nat
    BY DEF LoadAgain, StateInv
<1>4. \A d \in Conn : d # c => cur'[d] = cur[d]
    BY DEF LoadAgain, StateInv
<1>5. cur[c].exec = counter
    BY <1>1 DEF NumberInv
<1>6. cur'[c].exec = counter /\ cur'[c].ord = counter /\ cur'[c] # <<>>
    <2>1. PICK n \in {counter, cur[c].exec} :
            cur' = [cur EXCEPT ![c] = [id |-> cur[c].id, valid |-> cur[c].valid,
                                       exec |-> cur[c].exec, ord |-> n]]
        BY DEF LoadAgain
    <2>2. n = counter
        BY <1>5, <2>1
    <2>3. cur'[c] = [id |-> cur[c].id, valid |-> cur[c].valid, exec |-> cur[c].exec, ord |-> n]
        BY <2>1 DEF StateInv
    <2> QED
        BY <1>5, <2>2, <2>3
<1>l. PICK l \in Nat : l = Len(reports[c])
    BY LenProperties DEF SeqInv
<1>7. Used(c) = 1..l /\ Used(c)' = 1..(l + 1)
    <2>1. ~Writing(c)
        BY <1>1 DEF Writing
    <2>2. Writing(c)'
        BY <1>2, <1>6 DEF Writing
    <2> QED
        BY <1>3, <1>l, <2>1, <2>2 DEF Used
<1>8. \A d \in Conn : d # c => Used(d)' = Used(d)
    BY <1>2, <1>3, <1>4 DEF Used, Writing
<1>9. \A d \in Conn : \A i \in Used(d) : Number(d, i)' = Number(d, i)
    <2> SUFFICES ASSUME NEW d \in Conn, NEW i \in Used(d) PROVE Number(d, i)' = Number(d, i)
        OBVIOUS
    <2>1. CASE d = c
        BY <1>3, <1>7, <1>l, <2>1 DEF Number
    <2>2. CASE d # c
        BY <1>3, <1>4, <2>2 DEF Number
    <2> QED
        BY <2>1, <2>2
<1>10. Number(c, l + 1)' = cur'[c]
    BY <1>3, <1>l DEF Number
<1>11. \A d \in Conn : \A i \in Used(d)' : i \in Used(d) \/ (d = c /\ i = l + 1)
    BY <1>7, <1>8
<1>12. \A d \in Conn : \A i \in Used(d) :
         /\ Number(d, i)'.ord = Number(d, i)'.exec /\ Number(d, i)'.exec < counter
         /\ Number(d, i)'.exec \in Nat
    BY <1>1, <1>9, UsedNumber DEF NumberInv
<1>13. \A d \in Conn : \A i \in Used(d)' :
         Number(d, i)'.ord = Number(d, i)'.exec /\ Number(d, i)'.exec <= counter'
    BY <1>3, <1>6, <1>10, <1>11, <1>12
<1>14. \A d, e \in Conn : \A i \in Used(d)', j \in Used(e)' :
         Number(d, i)'.exec = Number(e, j)'.exec => d = e /\ i = j
    <2> SUFFICES ASSUME NEW d \in Conn, NEW e \in Conn, NEW i \in Used(d)', NEW j \in Used(e)',
                        Number(d, i)'.exec = Number(e, j)'.exec
                 PROVE  d = e /\ i = j
        OBVIOUS
    <2>1. CASE i \in Used(d) /\ j \in Used(e)
        BY <1>1, <1>9, <2>1 DEF NumberInv
    <2>2. CASE (d = c /\ i = l + 1) /\ j \in Used(e)
        BY <1>3, <1>6, <1>10, <1>12, <2>2
    <2>3. CASE i \in Used(d) /\ (e = c /\ j = l + 1)
        BY <1>3, <1>6, <1>10, <1>12, <2>3
    <2>4. CASE (d = c /\ i = l + 1) /\ (e = c /\ j = l + 1)
        BY <2>4
    <2> QED
        BY <1>11, <2>1, <2>2, <2>3, <2>4
<1>15. \A d \in Conn : ~AtCounter(d)'
    BY <1>1, <1>2 DEF AtCounter
<1>16. \A d \in Conn : hnd'[d] \notin {"store", "again"}
    BY <1>15 DEF AtCounter
<1> QED
    BY <1>13, <1>14, <1>15, <1>16 DEF NumberInv

(***************************************************************************)
(* While no two handlers have met at the counter, every step keeps the     *)
(* numbers apart.                                                          *)
(***************************************************************************)
LEMMA NumberStep ==
    ASSUME StateInv, CurInv, SeqInv, NumberInv, Next
    PROVE  NumberInv'
<1>1. PICK c \in Conn : Handle(c) \/ Send(c) \/ Receive(c) \/ Close(c) \/ Reset(c)
    BY DEF Next
<1>2. CASE Send(c) \/ Receive(c) \/ Close(c) \/ Reset(c)
    <2>1. UNCHANGED <<hnd, cur, counter, overlap, reports>>
        BY <1>2 DEF Send, Receive, Close, Reset, UnchangedByProgram
    <2>2. \A d \in Conn : Used(d)' = Used(d)
        BY <2>1 DEF Used, Writing
    <2>3. \A d \in Conn : \A i \in Used(d) : Number(d, i)' = Number(d, i)
        BY <2>1 DEF Number
    <2> QED
        BY <2>1, <2>2, <2>3, KeepsNumbers
<1>3. CASE Read(c) \/ ReadEnds(c)
    <2>1. UNCHANGED <<counter, overlap, reports>> /\ hnd[c] = "read"
        BY <1>3 DEF Read, ReadEnds, UnchangedByHandler
    <2>2. hnd'[c] \in {"read", "load", "done"} /\ \A d \in Conn : d # c => hnd'[d] = hnd[d] /\ cur'[d] = cur[d]
        BY <1>3 DEF Read, ReadEnds, StateInv
    <2>3. \A d \in Conn : Writing(d)' <=> Writing(d)
        BY <2>1, <2>2 DEF Writing
    <2>4. \A d \in Conn : Used(d)' = Used(d)
        BY <2>1, <2>3 DEF Used
    <2>5. \A d \in Conn : \A i \in Used(d) : Number(d, i)' = Number(d, i)
        <3> SUFFICES ASSUME NEW d \in Conn, NEW i \in Used(d) PROVE Number(d, i)' = Number(d, i)
            OBVIOUS
        <3>1. CASE d = c
            <4>1. ~Writing(c)
                BY <2>1 DEF Writing
            <4>2. i <= Len(reports[c])
                BY <3>1, <4>1, LenProperties DEF Used, SeqInv
            <4> QED
                BY <2>1, <3>1, <4>2 DEF Number
        <3>2. CASE d # c
            BY <2>1, <2>2, <3>2 DEF Number
        <3> QED
            BY <3>1, <3>2
    <2>6. \A d \in Conn : AtCounter(d)' => hnd'[d] = hnd[d] /\ cur'[d] = cur[d]
        BY <2>2 DEF AtCounter
    <2> QED
        BY <2>1, <2>4, <2>5, <2>6, KeepsNumbers
<1>4. CASE Write(c) \/ WriteFails(c) \/ WriteKills(c)
    <2>1. /\ reports' = [reports EXCEPT ![c] = Append(@, cur[c])]
          /\ cur' = [cur EXCEPT ![c] = <<>>]
          /\ UNCHANGED <<counter, overlap>> /\ hnd[c] = "write"
        BY <1>4 DEF Write, WriteFails, WriteKills, Reported, UnchangedByHandler
    <2>2. cur[c] \in Report /\ cur[c] # <<>>
        BY <1>4, ReportParts DEF Write, WriteFails, WriteKills, CurInv
    <2>3. hnd'[c] \in {"read", "write"} /\ \A d \in Conn : d # c => hnd'[d] = hnd[d]
        BY <1>4 DEF Write, WriteFails, WriteKills, AfterReport, StateInv
    <2>4. cur'[c] = <<>> /\ \A d \in Conn : d # c => cur'[d] = cur[d]
        BY <2>1 DEF StateInv
    <2>5. reports[c] \in Seq(Report) /\ reports \in [Conn -> Seq(Report)]
        BY DEF SeqInv
    <2>6. reports'[c] = Append(reports[c], cur[c])
        BY <2>1, <2>5, Zenon
    <2>7. \A d \in Conn : d # c => reports'[d] = reports[d]
        BY <2>1, <2>5, Zenon
    <2>l. PICK l \in Nat : l = Len(reports[c])
        BY <2>5, LenProperties
    <2>8. /\ Len(reports'[c]) = l + 1 /\ reports'[c][l + 1] = cur[c]
          /\ \A i \in 1..l : reports'[c][i] = reports[c][i]
        BY <2>2, <2>5, <2>6, <2>l, AppendProperties
    <2>9. Writing(c) /\ ~Writing(c)'
        BY <2>1, <2>2, <2>4 DEF Writing
    <2>10. Used(c) = 1..(l + 1) /\ Used(c)' = 1..(l + 1)
        BY <2>8, <2>9, <2>l DEF Used
    <2>11. \A d \in Conn : d # c => Used(d)' = Used(d)
        BY <2>3, <2>4, <2>7 DEF Used, Writing
    <2>12. ASSUME NEW i \in 1..(l + 1) PROVE Number(c, i)' = Number(c, i)
        <3>1. Number(c, i)' = reports'[c][i]
            BY <2>8 DEF Number
        <3>2. CASE i = l + 1
            BY <2>8, <2>l, <3>1, <3>2 DEF Number
        <3>3. CASE i \in 1..l
            BY <2>8, <2>l, <3>1, <3>3 DEF Number
        <3> QED
            BY <3>2, <3>3
    <2>13. \A d \in Conn : d # c => \A i \in Used(d) : Number(d, i)' = Number(d, i)
        BY <2>4, <2>7 DEF Number
    <2>14. \A d \in Conn : AtCounter(d)' => hnd'[d] = hnd[d] /\ cur'[d] = cur[d]
        BY <2>3, <2>4 DEF AtCounter
    <2>15. \A d \in Conn : Used(d)' = Used(d)
        BY <2>10, <2>11
    <2>16. \A d \in Conn : \A i \in Used(d) : Number(d, i)' = Number(d, i)
        BY <2>10, <2>12, <2>13
    <2> QED
        BY <2>1, <2>14, <2>15, <2>16, KeepsNumbers
<1> QED
    BY <1>1, <1>2, <1>3, <1>4, LoadKeepsNumbers, StoreKeepsNumbers, AgainKeepsNumbers DEF Handle
-----------------------------------------------------------------------------
(***************************************************************************)
(* A write that kills the exchange is the second report, at least, of its  *)
(* connection: the first is what the reset answered.                       *)
(***************************************************************************)
LEMMA KillStep ==
    ASSUME StateInv, CurInv, SeqInv, StreamInv, CountInv, OneOrderNeverKills, Next
    PROVE  OneOrderNeverKills'
<1> SUFFICES ASSUME proc' = "sigpipe" PROVE \E c \in closed' : Cardinality(Orders(c)') > 1
    BY DEF OneOrderNeverKills
<1>1. PICK c \in Conn : Handle(c) \/ Send(c) \/ Receive(c) \/ Close(c) \/ Reset(c)
    BY DEF Next
<1>2. CASE WriteKills(c)
    <2>1. c \in rst /\ c \in closed /\ closed' = closed /\ sent' = sent /\ cur[c] # <<>>
        BY <1>2, ReportParts DEF WriteKills, StateInv, CurInv
    <2>2. Len(reports[c]) + 1 <= Cardinality(ReadOrders(c)) /\ reports[c] # <<>>
        BY <2>1 DEF CountInv, CountAt, Pending
    <2>3. Len(reports[c]) \in Nat /\ Len(reports[c]) > 0
        <3>1. reports[c] \in Seq(Report)
            BY DEF SeqInv
        <3> QED
            BY <2>2, <3>1, EmptySeq, LenProperties
    <2>4. Cardinality(ReadOrders(c)) <= Cardinality(Orders(c)) /\ Cardinality(Orders(c)) \in Nat
        BY FiniteOrders
    <2>5. Cardinality(ReadOrders(c)) \in Nat
        BY FiniteOrders
    <2>6. Orders(c)' = Orders(c)
        BY <2>1 DEF Orders
    <2> QED
        BY <2>1, <2>2, <2>3, <2>4, <2>5, <2>6
<1>3. CASE ~WriteKills(c)
    <2>1. proc' = proc
        BY <1>1, <1>3 DEF Handle, Read, ReadEnds, Load, Store, LoadAgain, Write, WriteFails, Send,
                     Receive, Close, Reset, UnchangedByHandler, UnchangedByProgram
    <2>2. PICK d \in closed : Cardinality(Orders(d)) > 1
        BY <2>1 DEF OneOrderNeverKills
    <2>3. d \in closed' /\ sent'[d] = sent[d]
        BY <1>1, <2>2 DEF Handle, Read, ReadEnds, Load, Store, LoadAgain, Write, WriteFails, WriteKills,
                     Send, Receive, Close, Reset, UnchangedByHandler, SeqInv, StateInv
    <2>4. Orders(d)' = Orders(d)
        BY <2>3 DEF Orders
    <2> QED
        BY <2>2, <2>3, <2>4
<1> QED
    BY <1>2, <1>3

(***************************************************************************)
(* Every step keeps the invariant.                                         *)
(***************************************************************************)
LEMMA StepIInv == IInv /\ [Next]_vars => IInv'
<1> SUFFICES ASSUME IInv, [Next]_vars PROVE IInv'
    OBVIOUS
<1>0. StateInv /\ CurInv /\ SeqInv /\ StreamInv /\ CountInv /\ NameInv /\ NumberInv /\ OneOrderNeverKills
    BY DEF IInv
<1>1. CASE Next
    BY <1>0, <1>1, StateStep, SeqStep, StreamStep, CountStep, NameStep, NumberStep, KillStep DEF IInv
<1>2. CASE UNCHANGED vars
    <2>1. StateInv' /\ CurInv' /\ SeqInv'
        BY <1>0, <1>2 DEF vars, StateInv, CurInv, SeqInv
    <2>2. StreamInv'
        BY <1>0, <1>2 DEF vars, StreamInv, StreamAt, TokenAt, Taken
    <2>3. CountInv'
        BY <1>0, <1>2 DEF vars, CountInv, CountAt, Pending, ReadOrders, Orders, Taken
    <2>4. NameInv'
        BY <1>0, <1>2 DEF vars, NameInv, NameAt, Named, Before, Taken
    <2>5. NumberInv'
        <3>1. \A d \in Conn : Used(d)' = Used(d)
            BY <1>2 DEF vars, Used, Writing
        <3>2. \A d \in Conn : \A i \in Used(d) : Number(d, i)' = Number(d, i)
            BY <1>2 DEF vars, Number
        <3> QED
            BY <1>0, <1>2, <3>1, <3>2, KeepsNumbers DEF vars
    <2>6. OneOrderNeverKills'
        BY <1>0, <1>2 DEF vars, OneOrderNeverKills, Orders
    <2> QED
        BY <2>1, <2>2, <2>3, <2>4, <2>5, <2>6 DEF IInv
<1> QED
    BY <1>1, <1>2

(***************************************************************************)
(* The invariant of the exchange, whatever is sent to it and in whatever   *)
(* pieces it is read.                                                      *)
(***************************************************************************)
THEOREM Invariance == Spec => []IInv
BY InitIInv, StepIInv, PTL DEF Spec

(***************************************************************************)
(* Type correctness: no array, queue or history grows beyond what was      *)
(* sent, and a report is in the making exactly while its handler says so.  *)
(***************************************************************************)
THEOREM TypeCorrect == Spec => []TypeOK
<1>1. IInv => TypeOK
    <2> SUFFICES ASSUME IInv PROVE TypeOK
        OBVIOUS
    <2>1. ASSUME NEW c \in Conn
          PROVE  /\ Len(in[c]) <= 4 * Len(sent[c]) /\ Len(buffer[c]) <= 4 * Len(sent[c])
                 /\ received[c] + Len(out[c]) <= Len(reports[c])
                 /\ proc = "up" =>
                      (hnd[c] \in {"load", "store", "again", "write"}) = (cur[c] # <<>>)
        <3>1. StreamAt(c) /\ CountAt(c)
            BY DEF IInv, StreamInv, CountInv
        <3>2. proc = "up" => (hnd[c] \in {"load", "store", "again", "write"} <=> cur[c] # <<>>)
            BY ReportParts DEF IInv, CurInv, StateInv
        <3> QED
            BY <3>1, <3>2 DEF StreamAt, CountAt
    <2> QED
        BY <2>1 DEF IInv, StateInv, TypeOK
<1> QED
    BY <1>1, Invariance, PTL

(***************************************************************************)
(* However the stream of a connection is cut into reads, it gets no more   *)
(* reports than it sent orders, and they name its messages in order, none  *)
(* twice.                                                                  *)
(***************************************************************************)
THEOREM ReportsAreOfOrders == Spec => []ReportsMatchOrders
<1>1. IInv => ReportsMatchOrders
    <2> SUFFICES ASSUME IInv PROVE ReportsMatchOrders
        OBVIOUS
    <2>0. StateInv /\ SeqInv
        BY DEF IInv
    <2>1. ASSUME NEW c \in Conn PROVE Len(reports[c]) <= Cardinality(Orders(c))
        <3>1. Len(reports[c]) + Pending(c) <= Cardinality(ReadOrders(c))
            BY DEF IInv, CountInv, CountAt
        <3>2. /\ Cardinality(ReadOrders(c)) <= Cardinality(Orders(c))
              /\ Cardinality(ReadOrders(c)) \in Nat /\ Cardinality(Orders(c)) \in Nat
            BY <2>0, FiniteOrders
        <3>3. Len(reports[c]) \in Nat /\ Pending(c) \in Nat
            BY <2>0, LenProperties DEF SeqInv, Pending
        <3> QED
            BY <3>1, <3>2, <3>3
    <2>2. ASSUME NEW c \in Conn, NEW i \in DOMAIN reports[c], NEW j \in DOMAIN reports[c],
                 i < j, reports[c][i].id # Unknown, reports[c][j].id # Unknown
          PROVE  reports[c][i].id.msg < reports[c][j].id.msg
        <3>1. DOMAIN reports[c] = 1..Len(reports[c])
            BY <2>0, LenProperties DEF SeqInv
        <3>2. Before(reports[c][i].id, reports[c][j].id)
            BY <2>2, <3>1 DEF IInv, NameInv, NameAt
        <3> QED
            BY <2>2, <3>2 DEF Before
    <2> QED
        BY <2>1, <2>2 DEF ReportsMatchOrders, NoMoreReportsThanOrders, FilledOnceInOrder
<1> QED
    BY <1>1, Invariance, PTL

(***************************************************************************)
(* SIGPIPE ends the exchange only if a connection that has closed had sent *)
(* more than one order.                                                    *)
(***************************************************************************)
THEOREM OneOrderIsSafe == Spec => []OneOrderNeverKills
<1>1. IInv => OneOrderNeverKills
    BY DEF IInv
<1> QED
    BY <1>1, Invariance, PTL

(***************************************************************************)
(* Two reports share an ExecID or an OrderID only if two handlers were at  *)
(* exec_counter at one time.                                               *)
(***************************************************************************)
THEOREM SharedIdCause == Spec => []SharedIdNeedsOverlap
<1>1. IInv => SharedIdNeedsOverlap
    <2> SUFFICES ASSUME IInv, ~overlap,
                        NEW x \in Issued, NEW y \in Issued, x # y
                 PROVE  /\ reports[x[1]][x[2]].exec # reports[y[1]][y[2]].exec
                        /\ reports[x[1]][x[2]].ord # reports[y[1]][y[2]].ord
        BY DEF SharedIdNeedsOverlap, UniqueIds
    <2>0. SeqInv /\ NumberInv
        BY DEF IInv
    <2>c. PICK c \in Conn : \E i \in DOMAIN reports[c] : x = <<c, i>>
        BY DEF Issued
    <2>1. PICK i \in DOMAIN reports[c] : x = <<c, i>>
        BY <2>c
    <2>d. PICK d \in Conn : \E j \in DOMAIN reports[d] : y = <<d, j>>
        BY DEF Issued
    <2>2. PICK j \in DOMAIN reports[d] : y = <<d, j>>
        BY <2>d
    <2>3. \A e \in Conn : \A k \in DOMAIN reports[e] : k \in Used(e) /\ Number(e, k) = reports[e][k]
        <3> SUFFICES ASSUME NEW e \in Conn, NEW k \in DOMAIN reports[e]
                     PROVE  k \in Used(e) /\ Number(e, k) = reports[e][k]
            OBVIOUS
        <3>1. PICK l \in Nat : l = Len(reports[e]) /\ DOMAIN reports[e] = 1..l
            <4>1. Len(reports[e]) \in Nat /\ DOMAIN reports[e] = 1..Len(reports[e])
                BY <2>0, LenProperties DEF SeqInv
            <4> QED
                BY <4>1
        <3>2. k \in 1..l /\ k <= l
            BY <3>1
        <3>3. Used(e) = 1..(l + 1) \/ Used(e) = 1..l
            <4>1. Writing(e) => Used(e) = 1..(l + 1)
                BY <3>1 DEF Used
            <4>2. ~Writing(e) => Used(e) = 1..l
                BY <3>1 DEF Used
            <4> QED
                BY <4>1, <4>2
        <3> QED
            BY <3>1, <3>2, <3>3 DEF Number
    <2>4. /\ i \in Used(c) /\ Number(c, i) = reports[c][i]
          /\ j \in Used(d) /\ Number(d, j) = reports[d][j]
        BY <2>3
    <2>5. ~(c = d /\ i = j)
        BY <2>1, <2>2
    <2>6. reports[c][i].exec # reports[d][j].exec
        BY <2>0, <2>4, <2>5 DEF NumberInv
    <2>7. reports[c][i].ord = reports[c][i].exec /\ reports[d][j].ord = reports[d][j].exec
        BY <2>0, <2>4 DEF NumberInv
    <2>8. x[1] = c /\ x[2] = i /\ y[1] = d /\ y[2] = j
        BY <2>1, <2>2
    <2> QED
        BY <2>6, <2>7, <2>8
<1> QED
    BY <1>1, Invariance, PTL
=============================================================================
