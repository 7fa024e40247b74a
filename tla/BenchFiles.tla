----------------------------- MODULE BenchFiles -----------------------------
(***************************************************************************)
(* POST /api/upload_orders and what draws the charts: each upload writes   *)
(* uploaded_orders.txt and waits for a benchmark process, which reads the  *)
(* file, sends every order through both proxies and writes                 *)
(* benchmark_results.csv and tail_latency.json, from which the    *)
(* charts are drawn.  The files are shared and nobody locks them.          *)
(*                                                                         *)
(* A file is a sequence of blocks, one for each write() of a stream's      *)
(* buffer; every open file has an offset of its own.                       *)
(***************************************************************************)
EXTENDS Integers, Sequences, FiniteSets

CONSTANTS
    Upload,    \* the browsers that upload, each the same body over and over
    Blocks,    \* how many blocks each body has; 0 if it has no orders
    Orders     \* the uploads of which every line is an order (35=D)

ASSUME BenchAssumption ==
    Upload # {} /\ Blocks \in [Upload -> Nat] /\ Orders \subseteq Upload

VARIABLES
    input, csv, tail,  \* the three files
    pc,        \* where the request of each upload, or its child, stands
    pos,       \* how far it has written, read or measured
    orders,    \* what its benchmark has read
    up,        \* whether proxies and exchange are running
    alone,     \* history: the latest upload, if no other has run since it came
    crossed    \* history: two uploads have run at one time

files == <<input, csv, tail>>
vars == <<files, pc, pos, orders, up, alone, crossed>>

Torn == [of |-> "torn"]
Block(u, i) == [of |-> u, i |-> i]
Whole(u, n) == [i \in 1..n |-> Block(u, i)]

Ended == {"done", "failed"}
Active == {u \in Upload : pc[u] \notin {"idle"} \cup Ended}

\* An ofstream empties its file when it is opened.
BugAppends(file) == file
Opened(file) == <<>>

\* write() at the stream's own offset.  What is skipped is filled with zeros; a
\* last, short block leaves the end of a block that is there already.
Put(file, b, last) ==
    LET end == IF b.i > Len(file) THEN b.i ELSE Len(file)
        new == IF last /\ b.i <= Len(file) THEN {b, Torn} ELSE {b}
    IN  {[i \in 1..end |-> IF i = b.i THEN x ELSE IF i <= Len(file) THEN file[i] ELSE Torn] : x \in new}

\* The exchange answers orders only; nobody else ends a read without timeout.
Answers(b) == b.of \in Orders

\* measure_real_latency is -1 where there is no proxy, and a made-up latency used.
BugNeedsProxy(u) == up /\ \A i \in DOMAIN orders[u] : Answers(orders[u][i])
CanMeasure(u) == up => \A i \in DOMAIN orders[u] : Answers(orders[u][i])
-----------------------------------------------------------------------------
Init ==
    /\ input = <<>> /\ csv = <<>> /\ tail = <<>>
    /\ pc = [u \in Upload |-> "idle"]
    /\ pos = [u \in Upload |-> 1]
    /\ orders = [u \in Upload |-> <<>>]
    /\ up \in BOOLEAN
    /\ alone = {} /\ crossed = FALSE
-----------------------------------------------------------------------------
(***************************************************************************)
(* The upload_orders handler                                               *)
(***************************************************************************)
Goes(u, where, p) == pc' = [pc EXCEPT ![u] = where] /\ pos' = [pos EXCEPT ![u] = p]
History == UNCHANGED <<alone, crossed>>

OpenInput(u) ==
    /\ u \notin Active
    /\ Goes(u, "upload", 1)
    /\ input' = Opened(input)
    /\ alone' = IF Active = {} THEN {u} ELSE {}
    /\ crossed' = (crossed \/ Active # {})
    /\ UNCHANGED <<csv, tail, orders, up>>

WriteInput(u) ==
    /\ pc[u] = "upload" /\ pos[u] <= Blocks[u]
    /\ input' \in Put(input, Block(u, pos[u]), pos[u] = Blocks[u])
    /\ Goes(u, "upload", pos[u] + 1)
    /\ UNCHANGED <<csv, tail, orders, up>> /\ History

Exec(u) ==
    /\ pc[u] = "upload" /\ pos[u] > Blocks[u]
    /\ Goes(u, "read", 1)
    /\ UNCHANGED <<files, orders, up>> /\ History

\* popen() fails: the exception becomes a 500.
ExecFails(u) ==
    /\ pc[u] = "upload" /\ pos[u] > Blocks[u]
    /\ Goes(u, "failed", 1)
    /\ UNCHANGED <<files, orders, up>> /\ History
-----------------------------------------------------------------------------
(***************************************************************************)
(* main of benchmark.cpp                                                   *)
(***************************************************************************)
\* Of a torn block nobody knows whether the exchange answers its lines.
ReadInput(u) ==
    /\ pc[u] = "read" /\ pos[u] <= Len(input)
    /\ \E b \in IF input[pos[u]] = Torn THEN {[of |-> x] : x \in {"torn"} \cup Orders}
                ELSE {input[pos[u]]} :
         orders' = [orders EXCEPT ![u] = Append(@, b)]
    /\ Goes(u, "read", pos[u] + 1)
    /\ UNCHANGED <<files, up>> /\ History

ReadInputEnds(u) ==
    /\ pc[u] = "read" /\ pos[u] > Len(input)
    /\ Goes(u, "measure", 1)
    /\ UNCHANGED <<files, orders, up>> /\ History

\* With no results it exits with an error, which nobody looks at.
NoResults(u) ==
    /\ pc[u] = "measure" /\ orders[u] = <<>>
    /\ Goes(u, "done", 1)
    /\ UNCHANGED <<files, orders, up>> /\ History

\* Every order goes through both proxies; then the results are written.
OpenCsv(u) ==
    /\ pc[u] = "measure" /\ orders[u] # <<>> /\ CanMeasure(u)
    /\ Goes(u, "rows", 1)
    /\ csv' = Opened(csv)
    /\ UNCHANGED <<input, tail, orders, up>> /\ History

WriteRows(u) ==
    /\ pc[u] = "rows" /\ pos[u] <= Len(orders[u])
    /\ csv' \in Put(csv, Block(u, pos[u]), pos[u] = Len(orders[u]))
    /\ Goes(u, "rows", pos[u] + 1)
    /\ UNCHANGED <<input, tail, orders, up>> /\ History

OpenTail(u) ==
    /\ pc[u] = "rows" /\ pos[u] > Len(orders[u])
    /\ Goes(u, "tail", 1)
    /\ tail' = Opened(tail)
    /\ UNCHANGED <<input, csv, orders, up>> /\ History

\* ... and the process ends.
WriteTail(u) ==
    /\ pc[u] = "tail"
    /\ tail' \in Put(tail, Block(u, 1), TRUE)
    /\ Goes(u, "done", 1)
    /\ orders' = [orders EXCEPT ![u] = <<>>]
    /\ UNCHANGED <<input, csv, up>> /\ History
-----------------------------------------------------------------------------
\* benchmark_data and academic_data read whatever is there; a torn row is no
\* number, and std::stod's exception becomes a 500.
BenchmarkData == IF Torn \in {csv[i] : i \in DOMAIN csv} THEN <<"error">> ELSE csv
AcademicData == tail

\* The scripts stop and start proxies and exchange.
Proxies ==
    /\ up' = ~up
    /\ UNCHANGED <<files, pc, pos, orders>> /\ History
-----------------------------------------------------------------------------
Request(u) ==
    \/ WriteInput(u) \/ Exec(u) \/ ExecFails(u)
    \/ ReadInput(u) \/ ReadInputEnds(u) \/ NoResults(u)
    \/ OpenCsv(u) \/ WriteRows(u) \/ OpenTail(u) \/ WriteTail(u)

Next ==
    \/ \E u \in Upload : OpenInput(u) \/ Request(u)
    \/ Proxies

Spec == Init /\ [][Next]_vars
FairSpec == Spec /\ \A u \in Upload : WF_vars(Request(u))
-----------------------------------------------------------------------------
(***************************************************************************)
(* When an upload with orders is answered, and nothing ran beside it or    *)
(* came after it, both result files are those of its own orders, whatever  *)
(* mixture earlier uploads that ran at one time had left in them.          *)
(***************************************************************************)
OwnResults ==
    \A u \in Upload :
        pc[u] = "done" /\ alone = {u} /\ Blocks[u] > 0 =>
            csv = Whole(u, Blocks[u]) /\ tail = Whole(u, 1)

(***************************************************************************)
(* Unless two uploads ran at one time, the charts never show a mixture:    *)
(* what the two requests answer is the beginning of one run's results,     *)
(* even while a benchmark writes, and when none does both are of the same  *)
(* run, complete.                                                          *)
(***************************************************************************)
Shows(u, n, m) == BenchmarkData = Whole(u, n) /\ AcademicData = Whole(u, m)

ChartsOfOneRun ==
    ~crossed =>
        /\ \E u \in Upload : \E n \in 0..Blocks[u] : BenchmarkData = Whole(u, n)
        /\ (\A u \in Upload : pc[u] \notin {"rows", "tail"}) =>
               \E u \in Upload : Shows(u, Blocks[u], 1) \/ Shows(u, 0, 0)

(***************************************************************************)
(* Every upload is answered, whether or not proxies and exchange run,      *)
(* unless its benchmark reads an answer that does not come.  That takes a  *)
(* line that is no order, of its own or from an upload beside it.          *)
(***************************************************************************)
Unanswered(u) ==
    /\ up /\ pc[u] = "measure"
    /\ \E i \in DOMAIN orders[u] : ~Answers(orders[u][i])
    /\ u \in Orders => crossed

UploadEnds ==
    \A u \in Upload : (u \in Active) ~> (pc[u] \in Ended \/ Unanswered(u))
=============================================================================
