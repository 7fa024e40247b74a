--------------------------- MODULE WebOrderProofs ---------------------------
(***************************************************************************)
(* Proofs about WebOrder, for any number of requests.                      *)
(***************************************************************************)
EXTENDS WebOrder, TLAPS

(***************************************************************************)
(* The web server starts in a state with the invariant.                    *)
(***************************************************************************)
LEMMA InitIInv == Init => IInv
<1> SUFFICES ASSUME Init PROVE IInv
    OBVIOUS
<1>1. StateInv
  <2>1. [p \in Path |-> "none"] \in [Path -> {"none", "refused", "sent", "filled", "broken"}]
        /\ [p \in Path |-> "none"] \in [Path -> {"none", "nothing", "report"}]
    OBVIOUS
  <2>2. pc \in [Request -> Path \cup {"start", "rejected", "store", "answer", "execid", "done"}]
    BY DEF Init
  <2>3. seq \in Nat /\ num \in [Request -> Nat]
    BY DEF Init
  <2>6. overlap \in BOOLEAN
    BY Zenon DEF Init
  <2>4. link \in [Request -> [Path -> {"none", "refused", "sent", "filled", "broken"}]]
    BY <2>1, Zenon DEF Init
  <2>5. got \in [Request -> [Path -> {"none", "nothing", "report"}]]
    BY <2>1, Zenon DEF Init
  <2> QED
    BY <2>2, <2>3, <2>4, <2>5, <2>6 DEF StateInv
<1>2. NumberInv
    BY DEF Init, NumberInv, Numbered, CollisionNeedsOverlap
<1>3. AttemptInv
    BY DEF Init, AttemptInv
<1> QED
    BY <1>1, <1>2, <1>3 DEF IInv

(***************************************************************************)
(* Steps that take and store no number keep the numbers apart, whichever   *)
(* request they belong to (all of send_single_order but ++order_seq).      *)
(***************************************************************************)
LEMMA KeepsNumbers ==
    ASSUME StateInv, NumberInv, NEW r \in Request,
           NEW to \in {"rejected", "pqc", "answer", "execid", "done"},
           seq' = seq, num' = num, overlap' = overlap,
           pc' = [pc EXCEPT ![r] = to],
           pc[r] # "store",
           pc[r] \in {"start", "rejected"} => to = "rejected"
    PROVE  NumberInv'
<1>1. \A s \in Request : pc'[s] = IF s = r THEN to ELSE pc[s]
    BY DEF StateInv
<1>2. \A s \in Request : pc'[s] = "store" <=> pc[s] = "store"
    BY <1>1
<1>3. \A s \in Request : Numbered(s)' => Numbered(s)
    BY <1>1 DEF Numbered
<1> QED
    BY <1>2, <1>3 DEF NumberInv, CollisionNeedsOverlap

(***************************************************************************)
(* The first half of ++order_seq: without an overlap nobody else is        *)
(* between the halves.                                                     *)
(***************************************************************************)
LEMMA LoadKeepsNumbers ==
    ASSUME StateInv, NumberInv, NEW r \in Request, LoadSeq(r)
    PROVE  NumberInv'
<1> SUFFICES ASSUME ~overlap' PROVE NumberInv'
    BY DEF NumberInv
<1>1. ~overlap /\ \A s \in Request \ {r} : pc[s] # "store"
    BY DEF LoadSeq
<1>2. \A s \in Request : /\ pc'[s] = IF s = r THEN "store" ELSE pc[s]
                         /\ num'[s] = IF s = r THEN seq + 1 ELSE num[s]
    BY DEF LoadSeq, Goes, Increment, StateInv
<1>3. \A s \in Request : Numbered(s)' => s # r /\ Numbered(s)
    BY <1>2 DEF Numbered
<1>4. seq' = seq
    BY DEF LoadSeq
<1> QED
    BY <1>1, <1>2, <1>3, <1>4 DEF NumberInv, CollisionNeedsOverlap

(***************************************************************************)
(* The second half: the number stored is one above all that were stored.   *)
(***************************************************************************)
LEMMA StoreKeepsNumbers ==
    ASSUME StateInv, NumberInv, NEW r \in Request, StoreSeq(r)
    PROVE  NumberInv'
<1> SUFFICES ASSUME ~overlap' PROVE NumberInv'
    BY DEF NumberInv
<1>1. ~overlap /\ num' = num
    BY DEF StoreSeq
<1>2. pc[r] = "store" /\ num[r] = seq + 1 /\ seq' = seq + 1
    BY <1>1 DEF StoreSeq, Goes, NumberInv
<1>3. \A s \in Request : pc'[s] = IF s = r THEN "tls" ELSE pc[s]
    BY DEF StoreSeq, Goes, StateInv
<1>4. \A s \in Request : pc'[s] # "store"
    BY <1>1, <1>2, <1>3 DEF NumberInv
<1>5. \A s \in Request : Numbered(s)' => s = r \/ Numbered(s)
    BY <1>3 DEF Numbered
<1>6. \A s \in Request : Numbered(s) => num[s] <= seq
    BY <1>1 DEF NumberInv
<1>7. seq \in Nat /\ \A s \in Request : num[s] \in Nat
    BY DEF StateInv
<1>8. \A s \in Request : Numbered(s)' => num'[s] <= seq'
    BY <1>1, <1>2, <1>5, <1>6, <1>7
<1>9. CollisionNeedsOverlap'
    BY <1>1, <1>2, <1>5, <1>6, <1>7 DEF NumberInv, CollisionNeedsOverlap
<1> QED
    BY <1>4, <1>8, <1>9 DEF NumberInv

(***************************************************************************)
(* The end of an attempt, however it ends: got is set on its path and the  *)
(* handler goes on, with the link as it was or refused.                    *)
(***************************************************************************)
LEMMA AttemptEnds ==
    ASSUME StateInv, AttemptInv, NEW r \in Request, NEW p \in Path, NEW what \in {"nothing", "report"},
           Goes(r, p, After(p)),
           got' = [got EXCEPT ![r][p] = what],
           what = "report" => <<r, p>> \in filled,
           link' = link \/ link' = [link EXCEPT ![r][p] = "refused"],
           UNCHANGED <<seq, num, filled, overlap>>
    PROVE  StateInv' /\ AttemptInv'
<1>1. \A s \in Request : pc'[s] = IF s = r THEN After(p) ELSE pc[s]
    BY DEF Goes, StateInv
<1>2. \A s \in Request, x \in Path : got'[s][x] = IF s = r /\ x = p THEN what ELSE got[s][x]
    BY DEF StateInv
<1>3. \A s \in Request, x \in Path : link'[s][x] = "filled" => link[s][x] = "filled"
  <2>1. CASE link' = link
    BY <2>1
  <2>2. CASE link' = [link EXCEPT ![r][p] = "refused"]
    BY <2>2 DEF StateInv
  <2> QED
    BY <2>1, <2>2
<1>4. StateInv'
  <2>1. After(p) \in {"pqc", "answer"}
    BY DEF After
  <2>2. pc' \in [Request -> Path \cup {"start", "rejected", "store", "answer", "execid", "done"}]
    BY <2>1 DEF StateInv, Goes, Path
  <2>3. got' \in [Request -> [Path -> {"none", "nothing", "report"}]]
    BY DEF StateInv
  <2>4. link' \in [Request -> [Path -> {"none", "refused", "sent", "filled", "broken"}]]
    <3>1. CASE link' = link
      BY <3>1 DEF StateInv
    <3>2. CASE link' = [link EXCEPT ![r][p] = "refused"]
      BY <3>2 DEF StateInv
    <3> QED
      BY <3>1, <3>2
  <2> QED
    BY <2>2, <2>3, <2>4 DEF StateInv
<1>5. AttemptInv'
  <2> SUFFICES ASSUME NEW s \in Request
               PROVE  /\ \A x \in Path : link'[s][x] = "filled" \/ got'[s][x] = "report" => <<s, x>> \in filled'
                      /\ pc'[s] \in {"pqc", "answer", "execid", "done"} => got'[s]["tls"] # "none"
                      /\ pc'[s] \in {"answer", "execid", "done"} => got'[s]["pqc"] # "none"
    BY DEF AttemptInv
  <2>1. \A x \in Path : link'[s][x] = "filled" \/ got'[s][x] = "report" => <<s, x>> \in filled'
    BY <1>2, <1>3 DEF AttemptInv
  <2>2. CASE s # r
    BY <1>1, <1>2, <2>1, <2>2 DEF AttemptInv, Path
  <2>3. CASE s = r
    BY <1>1, <1>2, <2>1, <2>3 DEF AttemptInv, Path, After, Goes
  <2> QED
    BY <2>2, <2>3
<1> QED
    BY <1>4, <1>5

(***************************************************************************)
(* The steps on a link: an order is filled, a link breaks, a connection is *)
(* made.                                                                   *)
(***************************************************************************)
LEMMA LinkChanges ==
    ASSUME StateInv, AttemptInv, NEW r \in Request, NEW p \in Path, NEW to \in {"sent", "filled", "broken"},
           link' = [link EXCEPT ![r][p] = to],
           filled \subseteq filled',
           to = "filled" => <<r, p>> \in filled',
           UNCHANGED <<pc, seq, num, got, overlap>>
    PROVE  StateInv' /\ AttemptInv'
<1>1. \A s \in Request, x \in Path : link'[s][x] = IF s = r /\ x = p THEN to ELSE link[s][x]
    BY DEF StateInv
<1>2. link' \in [Request -> [Path -> {"none", "refused", "sent", "filled", "broken"}]]
    BY DEF StateInv
<1>3. StateInv'
    BY <1>2 DEF StateInv
<1>4. AttemptInv'
    BY <1>1 DEF AttemptInv
<1> QED
    BY <1>3, <1>4

(***************************************************************************)
(* Every step of the web server, the proxies and the exchange keeps the    *)
(* invariant.                                                              *)
(***************************************************************************)
LEMMA StepIInv == IInv /\ [Next]_vars => IInv'
<1> SUFFICES ASSUME IInv, [Next]_vars PROVE IInv'
    OBVIOUS
<1> USE DEF IInv
<1>1. CASE UNCHANGED vars
  <2>1. StateInv' /\ AttemptInv'
    BY <1>1 DEF vars, StateInv, AttemptInv
  <2>2. NumberInv'
    BY <1>1 DEF vars, NumberInv, Numbered, CollisionNeedsOverlap
  <2> QED
    BY <2>1, <2>2
<1>2. ASSUME NEW r \in Request, Reject(r) PROVE IInv'
  <2>1. NumberInv'
    <3>1. pc' = [pc EXCEPT ![r] = "rejected"] /\ pc[r] = "start"
      BY <1>2 DEF Reject, Goes
    <3> QED
      BY <1>2, <3>1, KeepsNumbers DEF Reject
  <2>2. StateInv' /\ AttemptInv'
    BY <1>2 DEF Reject, Goes, StateInv, AttemptInv
  <2> QED
    BY <2>1, <2>2
<1>3. ASSUME NEW r \in Request, LoadSeq(r) PROVE IInv'
  <2>1. NumberInv'
    BY <1>3, LoadKeepsNumbers
  <2>2. StateInv'
    <3>1. overlap' \in BOOLEAN
      BY <1>3, Zenon DEF LoadSeq
    <3> QED
      BY <1>3, <3>1 DEF LoadSeq, Goes, Increment, StateInv
  <2>3. AttemptInv'
    BY <1>3 DEF LoadSeq, Goes, StateInv, AttemptInv
  <2> QED
    BY <2>1, <2>2, <2>3
<1>4. ASSUME NEW r \in Request, StoreSeq(r) PROVE IInv'
  <2>1. NumberInv'
    BY <1>4, StoreKeepsNumbers
  <2>2. StateInv'
    BY <1>4 DEF StoreSeq, Goes, StateInv, Path
  <2>3. AttemptInv'
    BY <1>4 DEF StoreSeq, Goes, StateInv, AttemptInv
  <2> QED
    BY <2>1, <2>2, <2>3
<1>5. ASSUME NEW r \in Request, NEW p \in Path, Attempt(r, p) PROVE IInv'
  <2>1. CASE Connect(r, p)
    <3>1. StateInv' /\ AttemptInv'
      BY <2>1, LinkChanges DEF Connect
    <3>2. NumberInv'
      BY <2>1 DEF Connect, NumberInv, Numbered, CollisionNeedsOverlap
    <3> QED
      BY <3>1, <3>2
  <2>2. ASSUME Goes(r, p, After(p)), UNCHANGED <<seq, num, overlap>>
        PROVE  NumberInv'
    <3>1. p \notin {"start", "store", "rejected"} /\ After(p) \in {"pqc", "answer"}
      BY DEF Path, After
    <3> QED
      BY <2>2, <3>1, KeepsNumbers DEF Goes
  <2>3. CASE ConnectFails(r, p)
    BY <2>2, <2>3, AttemptEnds DEF ConnectFails
  <2>4. CASE ReadReport(r, p)
    <3>1. <<r, p>> \in filled
      BY <2>4 DEF ReadReport, AttemptInv
    <3> QED
      BY <2>2, <2>4, <3>1, AttemptEnds DEF ReadReport
  <2>5. CASE ReadEnds(r, p)
    BY <2>2, <2>5, AttemptEnds DEF ReadEnds
  <2>6. CASE ReadTimesOut(r, p)
    BY <2>2, <2>6, AttemptEnds DEF ReadTimesOut
  <2> QED
    BY <1>5, <2>1, <2>3, <2>4, <2>5, <2>6 DEF Attempt
<1>6. ASSUME NEW r \in Request, Answer(r) \/ MakeUpOrderId(r) \/ MakeUpExecId(r) PROVE IInv'
  <2>1. PICK to \in {"execid", "done"} :
            /\ pc[r] \in {"answer", "execid"} /\ pc' = [pc EXCEPT ![r] = to]
            /\ UNCHANGED <<seq, num, link, got, filled, overlap>>
    BY <1>6 DEF Answer, MakeUpOrderId, MakeUpExecId, Goes
  <2>2. NumberInv'
    BY <2>1, KeepsNumbers
  <2>3. StateInv' /\ AttemptInv'
    BY <2>1 DEF StateInv, AttemptInv
  <2> QED
    BY <2>2, <2>3
<1>7. ASSUME NEW r \in Request, NEW p \in Path, Fill(r, p) \/ Break(r, p) PROVE IInv'
  <2>1. StateInv' /\ AttemptInv'
    BY <1>7, LinkChanges DEF Fill, Break
  <2>2. NumberInv'
    BY <1>7 DEF Fill, Break, NumberInv, Numbered, CollisionNeedsOverlap
  <2> QED
    BY <2>1, <2>2
<1> QED
    BY <1>1, <1>2, <1>3, <1>4, <1>5, <1>6, <1>7 DEF Next, Serve

(***************************************************************************)
(* The invariant of send_single_order, for any set of requests.            *)
(***************************************************************************)
THEOREM Invariance == Spec => []IInv
BY InitIInv, StepIInv, PTL DEF Spec

(***************************************************************************)
(* However many requests are served at once, two orders share a ClOrdID    *)
(* only if two threads were inside ++order_seq together.                   *)
(***************************************************************************)
THEOREM CollisionCause == Spec => []CollisionNeedsOverlap
<1>1. IInv => CollisionNeedsOverlap
    BY DEF IInv, NumberInv, CollisionNeedsOverlap
<1> QED
    BY <1>1, Invariance, PTL

(***************************************************************************)
(* A report that is shown and not made up is one the exchange sent for     *)
(* that very order, and one is made up only if no path brought any.        *)
(***************************************************************************)
THEOREM HonestAnswer == Spec => []ShowsWhatCame
<1>1. IInv => ShowsWhatCame
    BY DEF IInv, StateInv, AttemptInv, ShowsWhatCame, Shown, Path
<1> QED
    BY <1>1, Invariance, PTL
=============================================================================
