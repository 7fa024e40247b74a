------------------------------ MODULE WebOrder ------------------------------
(***************************************************************************)
(* POST /api/send_single_order of the web server: a thread per request     *)
(* numbers an order, sends it through the TLS proxy and then through the   *)
(* PQC proxy, waits a second at most for each answer, and makes up what it *)
(* did not get.  Behind each proxy the exchange fills what reaches it, in  *)
(* its own time, whether or not the request still waits.                   *)
(***************************************************************************)
EXTENDS Integers, Sequences, FiniteSets

CONSTANTS Request   \* requests with all their fields; others are turned away

Path == {"tls", "pqc"}

VARIABLES
    pc,       \* where the handler of a request stands
    seq,      \* order_seq
    num,      \* the number in the request's ClOrdID
    link,     \* the attempt on each path
    got,      \* per path: what the read() of the attempt returned
    mock,     \* the numbers in a report that was made up: OrderID and ExecID
    filled,   \* history: <<request, path>> of the orders the exchange filled
    overlap   \* history: one request took a number between the load and the
              \* store of another

vars == <<pc, seq, num, link, got, mock, filled, overlap>>

\* ++order_seq, in two halves.
BugNoIncrement(n) == n
Increment(n) == n + 1

\* measure_latency_and_get_response sets SO_RCVTIMEO.
BugNoTimeout == FALSE
HasTimeout == TRUE

\* What the user is shown: the report of the TLS path, else of the PQC path, else
\* one that is made up.
BugNeedsBoth(r) == IF \A p \in Path : got[r][p] = "report" THEN "tls" ELSE "mock"
Shown(r) ==
    IF got[r]["tls"] = "report" THEN "tls"
    ELSE IF got[r]["pqc"] = "report" THEN "pqc" ELSE "mock"

Init ==
    /\ pc = [r \in Request |-> "start"]
    /\ seq = 2000
    /\ num = [r \in Request |-> 0]
    /\ link = [r \in Request |-> [p \in Path |-> "none"]]
    /\ got = [r \in Request |-> [p \in Path |-> "none"]]
    /\ mock = [r \in Request |-> <<>>]
    /\ filled = {} /\ overlap = FALSE
-----------------------------------------------------------------------------
Goes(r, from, to) == pc[r] = from /\ pc' = [pc EXCEPT ![r] = to]

\* A request without one of its fields ends at once.
Reject(r) ==
    /\ Goes(r, "start", "rejected")
    /\ UNCHANGED <<seq, num, link, got, mock, filled, overlap>>

LoadSeq(r) ==
    /\ Goes(r, "start", "store")
    /\ num' = [num EXCEPT ![r] = Increment(seq)]
    /\ overlap' = (overlap \/ \E s \in Request \ {r} : pc[s] = "store")
    /\ UNCHANGED <<seq, link, got, mock, filled>>

StoreSeq(r) ==
    /\ Goes(r, "store", "tls")
    /\ seq' = num[r]
    /\ UNCHANGED <<num, link, got, mock, filled, overlap>>

\* measure_latency_and_get_response, for one path after the other.
After(p) == IF p = "tls" THEN "pqc" ELSE "answer"

Connect(r, p) ==
    /\ pc[r] = p /\ link[r][p] = "none"
    /\ link' = [link EXCEPT ![r][p] = "sent"]
    /\ UNCHANGED <<pc, seq, num, got, mock, filled, overlap>>

\* The proxy is not running.
ConnectFails(r, p) ==
    /\ link[r][p] = "none"
    /\ Goes(r, p, After(p))
    /\ link' = [link EXCEPT ![r][p] = "refused"]
    /\ got' = [got EXCEPT ![r][p] = "nothing"]
    /\ UNCHANGED <<seq, num, mock, filled, overlap>>

ReadReport(r, p) ==
    /\ link[r][p] = "filled"
    /\ Goes(r, p, After(p))
    /\ got' = [got EXCEPT ![r][p] = "report"]
    /\ UNCHANGED <<seq, num, link, mock, filled, overlap>>

\* The connection ends before an answer has come.
ReadEnds(r, p) ==
    /\ link[r][p] = "broken"
    /\ Goes(r, p, After(p))
    /\ got' = [got EXCEPT ![r][p] = "nothing"]
    /\ UNCHANGED <<seq, num, link, mock, filled, overlap>>

\* A second passes; an answer may be on its way.
ReadTimesOut(r, p) ==
    /\ HasTimeout
    /\ link[r][p] \in {"sent", "filled"}
    /\ Goes(r, p, After(p))
    /\ got' = [got EXCEPT ![r][p] = "nothing"]
    /\ UNCHANGED <<seq, num, link, mock, filled, overlap>>

\* A latency is made up for a path without an answer, and the whole report when
\* there is none from either: OrderID and ExecID each read order_seq again.
Answer(r) ==
    /\ Shown(r) # "mock"
    /\ Goes(r, "answer", "done")
    /\ UNCHANGED <<seq, num, link, got, mock, filled, overlap>>

MakeUpOrderId(r) ==
    /\ Shown(r) = "mock"
    /\ Goes(r, "answer", "execid")
    /\ mock' = [mock EXCEPT ![r] = <<seq>>]
    /\ UNCHANGED <<seq, num, link, got, filled, overlap>>

MakeUpExecId(r) ==
    /\ Goes(r, "execid", "done")
    /\ mock' = [mock EXCEPT ![r] = Append(@, seq)]
    /\ UNCHANGED <<seq, num, link, got, filled, overlap>>
-----------------------------------------------------------------------------
(***************************************************************************)
(* Behind the proxies                                                      *)
(***************************************************************************)
Fill(r, p) ==
    /\ link[r][p] = "sent"
    /\ link' = [link EXCEPT ![r][p] = "filled"]
    /\ filled' = filled \cup {<<r, p>>}
    /\ UNCHANGED <<pc, seq, num, got, mock, overlap>>

\* A proxy or the exchange ends, or the exchange was not there; the order may
\* have been filled.
Break(r, p) ==
    /\ link[r][p] \in {"sent", "filled"}
    /\ link' = [link EXCEPT ![r][p] = "broken"]
    /\ UNCHANGED <<pc, seq, num, got, mock, filled, overlap>>
-----------------------------------------------------------------------------
Attempt(r, p) ==
    \/ Connect(r, p) \/ ConnectFails(r, p)
    \/ ReadReport(r, p) \/ ReadEnds(r, p) \/ ReadTimesOut(r, p)

Serve(r) ==
    \/ Reject(r) \/ LoadSeq(r) \/ StoreSeq(r)
    \/ \E p \in Path : Attempt(r, p)
    \/ Answer(r) \/ MakeUpOrderId(r) \/ MakeUpExecId(r)

Next == \E r \in Request : Serve(r) \/ \E p \in Path : Fill(r, p) \/ Break(r, p)

Spec == Init /\ [][Next]_vars

\* The threads of the web server run; of the proxies and the exchange nothing is
\* asked.
FairSpec == Spec /\ \A r \in Request : WF_vars(Serve(r))
-----------------------------------------------------------------------------
Numbered(r) == pc[r] \notin {"start", "rejected", "store"}

(***************************************************************************)
(* Two orders share a ClOrdID only if one request loaded order_seq while   *)
(* another was about to store it: numbers are lost to nothing else.        *)
(***************************************************************************)
CollisionNeedsOverlap ==
    ~overlap => \A r, s \in Request :
        r # s /\ Numbered(r) /\ Numbered(s) => num[r] # num[s]

(***************************************************************************)
(* The report shown is what the exchange said: a real one belongs to an    *)
(* order it filled, and one is made up only when no path brought any, even *)
(* if just one proxy works.                                                *)
(***************************************************************************)
ShowsWhatCame ==
    \A r \in Request : pc[r] = "done" =>
        IF Shown(r) = "mock"
        THEN \A p \in Path : got[r][p] = "nothing"
        ELSE <<r, Shown(r)>> \in filled

(***************************************************************************)
(* The inductive invariant behind the two: without an overlap the one      *)
(* request that has not stored its number holds the next one, and all the  *)
(* others have smaller ones; and what an attempt has read was on its link. *)
(***************************************************************************)
NumberInv ==
    ~overlap =>
        /\ \A r, s \in Request : pc[r] = "store" /\ pc[s] = "store" => r = s
        /\ \A r \in Request : pc[r] = "store" => num[r] = seq + 1
        /\ \A r \in Request : Numbered(r) => num[r] <= seq
        /\ CollisionNeedsOverlap

AttemptInv ==
    \A r \in Request :
        /\ \A p \in Path : link[r][p] = "filled" \/ got[r][p] = "report" => <<r, p>> \in filled
        /\ pc[r] \in {"pqc", "answer", "execid", "done"} => got[r]["tls"] # "none"
        /\ pc[r] \in {"answer", "execid", "done"} => got[r]["pqc"] # "none"

StateInv ==
    /\ pc \in [Request -> Path \cup {"start", "rejected", "store", "answer", "execid", "done"}]
    /\ seq \in Nat /\ num \in [Request -> Nat] /\ overlap \in BOOLEAN
    /\ link \in [Request -> [Path -> {"none", "refused", "sent", "filled", "broken"}]]
    /\ got \in [Request -> [Path -> {"none", "nothing", "report"}]]

IInv == StateInv /\ NumberInv /\ AttemptInv

(***************************************************************************)
(* Every request is answered, though the proxies or the exchange may be    *)
(* silent for ever.                                                        *)
(***************************************************************************)
RequestIsAnswered ==
    \A r \in Request : (pc[r] = "store") ~> (pc[r] = "done")
=============================================================================
