------------------------------ MODULE MockBist ------------------------------
(***************************************************************************)
(* The simulated exchange, MockBistServer: one handle_client thread per    *)
(* connection and the counter of execution numbers they share.             *)
(*                                                                         *)
(* TCP carries a stream, read() returns any piece of it, and the handler   *)
(* takes what one read() returned for one message.  A message is four      *)
(* tokens: its head (tags 8, 9 and 35), its ClOrdID up to the middle of    *)
(* the value, the rest of that value with the fields after it, and the     *)
(* checksum.  A read may end between two tokens or inside one.             *)
(***************************************************************************)
EXTENDS Integers, Sequences, FiniteSets, SequencesExt

CONSTANTS
    Conn,      \* the connections
    Polite,    \* those whose program sends an order when the last is answered
    Kinds,     \* what the other programs send: TRUE an order (35=D), FALSE not
    Loads      \* bounds: messages of each connection; of none, it is not there

ASSUME BistAssumption ==
    Polite \subseteq Conn /\ Kinds \subseteq BOOLEAN /\ Loads \subseteq [Conn -> Nat]

VARIABLES
    load,     \* the load of this behaviour
    hnd,      \* where handle_client of each connection stands
    buffer,   \* its char array: tokens of this read over those of earlier ones
    cur,      \* the ExecutionReport being made
    counter,  \* exec_counter
    in,       \* sent by the program and not yet read
    out,      \* reports written and not yet received
    closed,   \* the connections whose program has closed
    rst,      \* the connections that were reset
    proc,     \* the process
    sent,     \* history: the messages sent, as kinds
    reports,  \* history: the reports that write() was called with
    received, \* history: how many of them the program has received
    overlap,  \* history: two threads were at exec_counter at one time
    cuts      \* history: the worst that reads did to a connection's messages

vars == <<load, hnd, buffer, cur, counter, in, out, closed, rst, proc, sent, reports, received, overlap, cuts>>

Part == <<"head", "id", "rest", "tail">>
Message(n, order) == [i \in 1..4 |-> [msg |-> n, part |-> Part[i], order |-> order]]
-----------------------------------------------------------------------------
(***************************************************************************)
(* What the handler makes of the text that one read() returned.            *)
(***************************************************************************)
Overlay(chunk, old) == chunk \o SubSeq(old, Len(chunk) + 1, Len(old))

\* buffer[bytes_read] = '\0', and std::string(buffer) ends there.
BugNoTerminator(chunk, old) == Overlay(chunk, old)
Text(chunk, old) == chunk

\* fix::validate_message: what follows the first checksum is not looked at.
Valid(text) ==
    /\ Len(text) >= 4
    /\ \A i \in 1..4 : text[i].part = Part[i] /\ text[i].msg = text[1].msg

\* fix::get_field finds the first occurrence of a tag, in whatever message.
FirstOf(parts, text) == SelectInSeq(text, LAMBDA t : t.part \in parts)

\* Tag 35 is in a head, also in one that has lost its beginning.
WithType == {"head", "type"}

BugEveryReadIsOrder(text) == TRUE
IsOrder(text) == FirstOf(WithType, text) > 0 /\ text[FirstOf(WithType, text)].order

Unknown == [msg |-> 0, whole |-> TRUE]
ClOrdID(text) ==
    LET i == FirstOf({"id"}, text) IN
    IF i = 0 THEN Unknown ELSE [msg |-> text[i].msg, whole |-> i < Len(text)]

BugNoIncrement(n) == n
Increment(n) == n + 1

BugWritesAgain == "write"
BugOneOrderPerConnection == "done"
AfterReport == "read"
-----------------------------------------------------------------------------
Init ==
    /\ load \in Loads
    /\ hnd = [c \in Conn |-> IF load[c] = 0 THEN "done" ELSE "read"]
    /\ buffer = [c \in Conn |-> <<>>]
    /\ cur = [c \in Conn |-> <<>>]
    /\ counter = 1000
    /\ in = [c \in Conn |-> <<>>] /\ out = [c \in Conn |-> <<>>]
    /\ closed = {c \in Conn : load[c] = 0} /\ rst = {} /\ proc = "up"
    /\ sent = [c \in Conn |-> <<>>]
    /\ reports = [c \in Conn |-> <<>>]
    /\ received = [c \in Conn |-> 0]
    /\ overlap = FALSE
    /\ cuts = [c \in Conn |-> "none"]
-----------------------------------------------------------------------------
(***************************************************************************)
(* handle_client                                                           *)
(***************************************************************************)
UnchangedByHandler == UNCHANGED <<load, closed, rst, proc, sent, received>>

\* What a read may leave of the stream s that follows its last whole token.  It can
\* end inside a head: before tag 35, which the next read then begins with, or
\* within it, so that neither read finds it.  A cut inside another token reports
\* what one before or after that token does.
Rests(s) ==
    {s} \cup {[s EXCEPT ![1].part = p] :
                  p \in IF s # <<>> /\ s[1].part = "head" THEN {"type", "torn"} ELSE {}}

\* "cut": a read ended inside a message.  "lost": inside its tag 35.
Worst(past, rest) ==
    IF past = "lost" \/ rest = <<>> \/ rest[1].part = "head" THEN past
    ELSE IF rest[1].part = "torn" THEN "lost" ELSE "cut"

\* read() returns any piece of what is there.  Validation and the type check: an
\* invalid message is only logged.
Read(c) ==
    /\ proc = "up" /\ hnd[c] = "read" /\ c \notin rst
    /\ \E n \in 0..Len(in[c]) : \E rest \in Rests(SubSeq(in[c], n + 1, Len(in[c]))) :
         LET chunk == SubSeq(in[c], 1, n)
             text  == Text(chunk, buffer[c])
         IN  /\ rest # in[c]
             /\ in' = [in EXCEPT ![c] = rest]
             /\ buffer' = [buffer EXCEPT ![c] = Overlay(chunk, @)]
             /\ cuts' = [cuts EXCEPT ![c] = Worst(@, rest)]
             /\ IF IsOrder(text)
                THEN /\ hnd' = [hnd EXCEPT ![c] = "load"]
                     /\ cur' = [cur EXCEPT ![c] = [id |-> ClOrdID(text), valid |-> Valid(text)]]
                ELSE UNCHANGED <<hnd, cur>>
    /\ UNCHANGED <<counter, out, reports, overlap>> /\ UnchangedByHandler

ReadEnds(c) ==
    /\ proc = "up" /\ hnd[c] = "read"
    /\ c \in rst \/ (c \in closed /\ in[c] = <<>>)
    /\ hnd' = [hnd EXCEPT ![c] = "done"]
    /\ buffer' = [buffer EXCEPT ![c] = <<>>]
    /\ UNCHANGED <<cur, counter, in, out, reports, overlap, cuts>> /\ UnchangedByHandler

\* ++exec_counter is a load and a store, and other threads are at it too.
Load(c) ==
    /\ proc = "up" /\ hnd[c] = "load"
    /\ cur' = [cur EXCEPT ![c] = [id |-> @.id, valid |-> @.valid, exec |-> Increment(counter)]]
    /\ hnd' = [hnd EXCEPT ![c] = "store"]
    /\ overlap' = (overlap \/ \E d \in Conn : hnd[d] \in {"store", "again"})
    /\ UNCHANGED <<buffer, counter, in, out, reports, cuts>> /\ UnchangedByHandler

Store(c) ==
    /\ proc = "up" /\ hnd[c] = "store"
    /\ counter' = cur[c].exec
    /\ hnd' = [hnd EXCEPT ![c] = "again"]
    /\ UNCHANGED <<buffer, cur, in, out, reports, overlap, cuts>> /\ UnchangedByHandler

\* The OrderID is made from exec_counter again, from memory or a register.
LoadAgain(c) ==
    /\ proc = "up" /\ hnd[c] = "again"
    /\ \E n \in {counter, cur[c].exec} :
         cur' = [cur EXCEPT ![c] = [id |-> @.id, valid |-> @.valid, exec |-> @.exec, ord |-> n]]
    /\ hnd' = [hnd EXCEPT ![c] = "write"]
    /\ UNCHANGED <<buffer, counter, in, out, reports, overlap, cuts>> /\ UnchangedByHandler

Reported(c) ==
    /\ reports' = [reports EXCEPT ![c] = Append(@, cur[c])]
    /\ cur' = [cur EXCEPT ![c] = <<>>]

Write(c) ==
    /\ proc = "up" /\ hnd[c] = "write"
    /\ c \notin rst
    /\ Reported(c)
    /\ out' = [out EXCEPT ![c] = Append(@, cur[c])]
    /\ hnd' = [hnd EXCEPT ![c] = AfterReport]
    /\ UNCHANGED <<buffer, counter, in, overlap, cuts>> /\ UnchangedByHandler

\* write() to a connection that was reset fails, which is ignored, ...
WriteFails(c) ==
    /\ proc = "up" /\ hnd[c] = "write"
    /\ c \in rst
    /\ Reported(c)
    /\ hnd' = [hnd EXCEPT ![c] = AfterReport]
    /\ UNCHANGED <<buffer, counter, in, out, overlap, cuts>> /\ UnchangedByHandler

\* ... or raises SIGPIPE, which is not.
WriteKills(c) ==
    /\ proc = "up" /\ hnd[c] = "write"
    /\ c \in rst
    /\ Reported(c)
    /\ proc' = "sigpipe"
    /\ UNCHANGED <<load, hnd, buffer, counter, in, out, closed, rst, sent, received, overlap, cuts>>
-----------------------------------------------------------------------------
(***************************************************************************)
(* The programs (or proxies) that connect, and TCP                         *)
(***************************************************************************)
UnchangedByProgram == UNCHANGED <<load, hnd, buffer, cur, counter, proc, reports, overlap, cuts>>

Send(c) ==
    /\ c \notin closed /\ Len(sent[c]) < load[c]
    /\ c \in Polite => received[c] = Len(sent[c])
    /\ \E order \in IF c \in Polite THEN {TRUE} ELSE Kinds :
         /\ sent' = [sent EXCEPT ![c] = Append(@, order)]
         /\ in' = [in EXCEPT ![c] = @ \o Message(Len(sent[c]) + 1, order)]
    /\ UNCHANGED <<out, closed, rst, received>> /\ UnchangedByProgram

Receive(c) ==
    /\ c \notin closed /\ out[c] # <<>>
    /\ out' = [out EXCEPT ![c] = Tail(@)]
    /\ received' = [received EXCEPT ![c] = @ + 1]
    /\ UNCHANGED <<in, closed, rst, sent>> /\ UnchangedByProgram

Close(c) ==
    /\ c \notin closed
    /\ closed' = closed \cup {c}
    /\ UNCHANGED <<in, out, rst, sent, received>> /\ UnchangedByProgram

\* A report that a closed socket did not read is answered by a reset, which
\* discards what was still to be read.
Reset(c) ==
    /\ c \in closed \ rst /\ out[c] # <<>> /\ hnd[c] # "done"
    /\ rst' = rst \cup {c}
    /\ in' = [in EXCEPT ![c] = <<>>]
    /\ UNCHANGED <<out, closed, sent, received>> /\ UnchangedByProgram
-----------------------------------------------------------------------------
Handle(c) ==
    \/ Read(c) \/ ReadEnds(c)
    \/ Load(c) \/ Store(c) \/ LoadAgain(c)
    \/ Write(c) \/ WriteFails(c) \/ WriteKills(c)

Next ==
    \E c \in Conn : Handle(c) \/ Send(c) \/ Receive(c) \/ Close(c) \/ Reset(c)

Spec == Init /\ [][Next]_vars

\* Handlers run when they can, and programs read the reports that are there.
FairSpec ==
    /\ Spec
    /\ \A c \in Conn : WF_vars(Handle(c)) /\ WF_vars(Receive(c))
-----------------------------------------------------------------------------
Orders(c) == {n \in DOMAIN sent[c] : sent[c][n]}

(***************************************************************************)
(* Type correctness of the handlers' state; what is sent is either read or *)
(* waiting, whole or in pieces.                                            *)
(***************************************************************************)
TypeOK ==
    /\ hnd \in [Conn -> {"read", "load", "store", "again", "write", "done"}]
    /\ counter \in Nat
    /\ closed \subseteq Conn /\ rst \subseteq closed
    /\ proc \in {"up", "sigpipe"}
    /\ \A c \in Conn :
         /\ Len(in[c]) <= 4 * Len(sent[c]) /\ Len(buffer[c]) <= 4 * Len(sent[c])
         /\ received[c] + Len(out[c]) <= Len(reports[c])
         /\ proc = "up" =>
              (hnd[c] \in {"load", "store", "again", "write"}) = (cur[c] # <<>>)

(***************************************************************************)
(* However its stream is cut into reads, a connection gets no more reports *)
(* than it has sent orders, so a count of reports never overstates what    *)
(* was traded (the 35=D test of handle_client).                            *)
(***************************************************************************)
NoMoreReportsThanOrders ==
    \A c \in Conn : Len(reports[c]) <= Cardinality(Orders(c))

(***************************************************************************)
(* No order is filled twice under its own ClOrdID, and the reports of a    *)
(* connection name its messages in the order they were sent: what one read *)
(* left in the buffer is never parsed again.                               *)
(***************************************************************************)
FilledOnceInOrder ==
    \A c \in Conn : \A i, j \in DOMAIN reports[c] :
        i < j /\ reports[c][i].id # Unknown /\ reports[c][j].id # Unknown =>
            reports[c][i].id.msg < reports[c][j].id.msg

\* Both: what is reported is what was ordered, at most once.
ReportsMatchOrders == NoMoreReportsThanOrders /\ FilledOnceInOrder

(***************************************************************************)
(* The exchange survives clients that give up: SIGPIPE ends it only when a *)
(* connection that has closed had sent more than one order.  The web       *)
(* server and the benchmark send one per connection.                       *)
(***************************************************************************)
OneOrderNeverKills ==
    proc = "sigpipe" => \E c \in closed : Cardinality(Orders(c)) > 1

(***************************************************************************)
(* A program that waits for each answer gets one for each order: if no     *)
(* read() ended inside one of its messages, its n-th report is for its     *)
(* n-th order, under the whole ClOrdID, and made of a message that passed  *)
(* validation.  Orders that were cut are answered too, though perhaps      *)
(* under a part of their ClOrdID or none, unless it is tag 35 that was     *)
(* cut: that order is lost, and its program waits for ever.                *)
(***************************************************************************)
Answered(c, n) == Len(reports[c]) >= n
Filled(c, n) ==
    Answered(c, n) /\ reports[c][n].valid /\ reports[c][n].id = [msg |-> n, whole |-> TRUE]

PoliteIsAnswered ==
    \A c \in Polite : \A n \in UNION {1..l[c] : l \in Loads} :
        (Len(sent[c]) >= n) ~>
            \/ IF cuts[c] = "none" THEN Filled(c, n) ELSE Answered(c, n)
            \/ cuts[c] = "lost" \/ c \in closed \/ proc # "up"

(***************************************************************************)
(* ExecID and OrderID are unique over all connections: the exchange's      *)
(* document calls them so.  It holds for one connection at a time; with    *)
(* two, exec_counter is read and written without a lock.                   *)
(***************************************************************************)
Issued == UNION {{<<c, i>> : i \in DOMAIN reports[c]} : c \in Conn}

UniqueIds ==
    \A x, y \in Issued :
        x # y => /\ reports[x[1]][x[2]].exec # reports[y[1]][y[2]].exec
                 /\ reports[x[1]][x[2]].ord # reports[y[1]][y[2]].ord

(***************************************************************************)
(* Two reports share a number only if two handlers were between the load   *)
(* and the last use of exec_counter at one time, ever: orders that do not  *)
(* overlap there, on however many connections, get numbers of their own.   *)
(***************************************************************************)
SharedIdNeedsOverlap == ~overlap => UniqueIds
=============================================================================
