-------------------------- MODULE HttpServerProofs --------------------------
(***************************************************************************)
(* Proofs about HttpServer, for any number of connections, threads,        *)
(* descriptors and places in the backlog.                                  *)
(***************************************************************************)
EXTENDS HttpServer, FiniteSetTheorems, SequenceTheorems, TLAPS

-----------------------------------------------------------------------------
(***************************************************************************)
(* The inductive invariant of server and pool, in parts.                   *)
(***************************************************************************)
Place == {"none", "backlog", "jobs", "served", "closed", "reset"}
Stand == {"none", "free", "wait", "woken", "keepalive", "handle", "close", "done"}
Busy == {"keepalive", "handle", "close"}

StateInv ==
    /\ main \in {"accept", "notify", "join", "returned", "aborted"}
    /\ shutdown \in BOOLEAN /\ burst \in BOOLEAN
    /\ thr \in [Thread -> Stand]
    /\ serves \in [Thread -> Conn \cup {NoConn}]
    /\ link \in [Conn -> Place]
    /\ jobs \in Seq(Conn) /\ backlog \in Seq(Conn)

\* A queue holds exactly the connections that stand in it, each once.
In(x, s) == \E k \in 1..Len(s) : s[k] = x
Distinct(s) == \A k, l \in 1..Len(s) : s[k] = s[l] => k = l
Holds(s, place) == Distinct(s) /\ \A c \in Conn : link[c] = place <=> In(c, s)
QueueInv == Holds(backlog, "backlog") /\ Holds(jobs, "jobs")

\* A busy thread has a connection of its own, and no other thread has any.
ServesInv ==
    /\ \A t \in Thread : serves[t] # NoConn <=> thr[t] \in Busy
    /\ \A t \in Thread : serves[t] # NoConn => link[serves[t]] = "served"
    /\ \A t, u \in Thread : serves[t] = serves[u] /\ serves[t] # NoConn => t = u
    /\ \A c \in Conn : link[c] = "served" => \E t \in Thread : serves[t] = c

Standing(S) == {t \in Thread : thr[t] \in S}
Waiting == {"wait", "woken"}
Available == {"free", "wait", "woken"}
CountInv == idle = Cardinality(Standing(Waiting)) /\ Cardinality(Open) <= FdLimit

\* The pool shuts down with the loop; a fixed thread only leaves when that has come
\* and no job is left.
EndInv ==
    /\ shutdown <=> main \in {"join", "returned"}
    /\ \A t \in Base : thr[t] # "none" /\ (thr[t] = "done" => shutdown /\ jobs = <<>>)
    /\ main = "returned" => Live = {}

\* Without a burst a job has a thread that can take it, or there are no more.
BurstInv == burst \/ jobs = <<>> \/ Live = Thread \/ Len(jobs) <= Cardinality(Standing(Available))

IInv == StateInv /\ QueueInv /\ ServesInv /\ CountInv /\ EndInv /\ BurstInv
-----------------------------------------------------------------------------
(***************************************************************************)
(* Queues without repetition.                                              *)
(***************************************************************************)
\* The head of such a queue is not in its rest.
LEMMA TailIsDistinct ==
    ASSUME NEW S, NEW s \in Seq(S), s # <<>>, Distinct(s)
    PROVE  /\ Tail(s) \in Seq(S) /\ Distinct(Tail(s))
           /\ Len(Tail(s)) = Len(s) - 1 /\ Len(s) >= 1
           /\ Head(s) \in S /\ In(Head(s), s) /\ ~In(Head(s), Tail(s))
           /\ \A x : In(x, s) <=> x = Head(s) \/ In(x, Tail(s))
<1>1. /\ Tail(s) \in Seq(S) /\ Head(s) \in S /\ Head(s) = s[1]
      /\ Len(Tail(s)) = Len(s) - 1
      /\ \A k \in 1..Len(s) - 1 : Tail(s)[k] = s[k + 1]
  BY HeadTailProperties
<1>2. PICK n \in Nat : n = Len(s) /\ n >= 1
  BY EmptySeq, LenProperties
<1> DEFINE t == Tail(s)
<1>4. Len(t) = n - 1 /\ \A k \in 1..(n - 1) : t[k] = s[k + 1]
  BY <1>1, <1>2
<1>5. \A k, l \in 1..n : s[k] = s[l] => k = l
  BY <1>2 DEF Distinct
<1>6. \A k \in 1..(n - 1) : k + 1 \in 1..n /\ k + 1 # 1
  BY <1>2
<1>7. 1 \in 1..n /\ \A k \in 1..n : k = 1 \/ (k - 1 \in 1..(n - 1) /\ (k - 1) + 1 = k)
  BY <1>2
<1> HIDE DEF t
<1>8. Distinct(t)
  <2>1. \A k, l \in 1..(n - 1) : k + 1 = l + 1 => k = l
    BY <1>2
  <2> QED BY <2>1, <1>4, <1>5, <1>6 DEF Distinct
<1>9. ~In(Head(s), t)
  <2>1. \A k \in 1..(n - 1) : s[k + 1] # s[1]
    BY <1>5, <1>6, <1>7
  <2> QED BY <2>1, <1>1, <1>4 DEF In
<1>10. In(Head(s), s)
  BY <1>1, <1>2, <1>7 DEF In
<1>11. ASSUME NEW x PROVE In(x, s) <=> x = Head(s) \/ In(x, t)
  <2>1. ASSUME In(x, s), x # Head(s) PROVE In(x, t)
    <3>1. PICK k \in 1..n : s[k] = x
      BY <2>1, <1>2 DEF In
    <3>2. k # 1
      BY <3>1, <2>1, <1>1
    <3>3. k - 1 \in 1..(n - 1) /\ t[k - 1] = x
      BY <3>1, <3>2, <1>4, <1>7
    <3> QED BY <3>3, <1>4 DEF In
  <2>2. ASSUME In(x, t) PROVE In(x, s)
    <3>1. PICK k \in 1..(n - 1) : t[k] = x
      BY <2>2, <1>4 DEF In
    <3>2. k + 1 \in 1..n /\ s[k + 1] = x
      BY <3>1, <1>4, <1>6
    <3> QED BY <3>2, <1>2 DEF In
  <2> QED BY <2>1, <2>2, <1>10
<1> QED BY <1>1, <1>2, <1>8, <1>9, <1>10, <1>11 DEF t

\* A newcomer leaves it without repetition.
LEMMA AppendIsDistinct ==
    ASSUME NEW S, NEW s \in Seq(S), NEW c \in S, Distinct(s), ~In(c, s)
    PROVE  /\ Append(s, c) \in Seq(S) /\ Distinct(Append(s, c))
           /\ Len(Append(s, c)) = Len(s) + 1 /\ Len(s) \in Nat
           /\ \A x : In(x, Append(s, c)) <=> x = c \/ In(x, s)
<1>1. PICK n \in Nat : n = Len(s)
  BY LenProperties
<1> DEFINE t == Append(s, c)
<1>2. /\ t \in Seq(S) /\ Len(t) = n + 1 /\ t[n + 1] = c
      /\ \A k \in 1..n : t[k] = s[k]
  BY <1>1, AppendProperties
<1> HIDE DEF t
<1>3. /\ \A k, l \in 1..n : s[k] = s[l] => k = l
      /\ \A k \in 1..n : s[k] # c
  BY <1>1 DEF Distinct, In
<1>4. /\ \A k \in 1..(n + 1) : k \in 1..n \/ k = n + 1
      /\ \A k \in 1..n : k \in 1..(n + 1)
      /\ n + 1 \in 1..(n + 1)
  BY <1>1
<1>5. Distinct(t)
  BY <1>2, <1>3, <1>4 DEF Distinct
<1>6. \A x : In(x, t) <=> x = c \/ In(x, s)
  BY <1>1, <1>2, <1>4 DEF In
<1> QED BY <1>1, <1>2, <1>5, <1>6 DEF t

\* Nothing is in an empty queue, and only in that one is nothing.
LEMMA EmptyHasNone ==
    /\ Distinct(<<>>) /\ \A x : ~In(x, <<>>)
    /\ \A S : \A s \in Seq(S) : (\A x \in S : ~In(x, s)) => s = <<>>
<1>1. Distinct(<<>>) /\ \A x : ~In(x, <<>>)
  BY DEF Distinct, In
<1>2. ASSUME NEW S, NEW s \in Seq(S), s # <<>> PROVE \E x \in S : In(x, s)
  <2>1. 1 \in 1..Len(s)
    BY <1>2, EmptySeq, LenProperties
  <2> QED BY <2>1, ElementOfSeq DEF In
<1> QED BY <1>1, <1>2

-----------------------------------------------------------------------------
(***************************************************************************)
(* Threads and how many stand where.                                       *)
(***************************************************************************)
\* The threads that stand somewhere are finitely many.
LEMMA StandingFinite ==
    ASSUME NEW S
    PROVE  IsFiniteSet(Standing(S)) /\ Cardinality(Standing(S)) \in Nat
<1>1. Standing(S) \in SUBSET Thread
  BY DEF Standing
<1>2. IsFiniteSet(Thread)
  BY HttpAssumption DEF Thread
<1> QED BY <1>1, <1>2, FS_Subset, FS_CardinalityType

\* What the move of one thread does to them.
LEMMA ThreadMoves ==
    ASSUME StateInv, NEW t \in Thread, NEW s \in Stand, thr' = [thr EXCEPT ![t] = s], NEW S
    PROVE  /\ thr' \in [Thread -> Stand]
           /\ \A u \in Thread : thr'[u] = IF u = t THEN s ELSE thr[u]
           /\ s \in S /\ thr[t] \in S => Standing(S)' = Standing(S)
           /\ s \notin S /\ thr[t] \notin S => Standing(S)' = Standing(S)
           /\ s \in S /\ thr[t] \notin S =>
                Cardinality(Standing(S)') = Cardinality(Standing(S)) + 1
           /\ s \notin S /\ thr[t] \in S =>
                Cardinality(Standing(S)') = Cardinality(Standing(S)) - 1
<1>1. thr \in [Thread -> Stand]
  BY DEF StateInv
<1> HIDE DEF Stand
<1>2. thr' \in [Thread -> Stand] /\ \A u \in Thread : thr'[u] = IF u = t THEN s ELSE thr[u]
  BY <1>1
<1>3. /\ Standing(S)' = {u \in Thread : thr'[u] \in S}
      /\ Standing(S) = {u \in Thread : thr[u] \in S}
  BY DEF Standing
<1>4. /\ s \in S => Standing(S)' = Standing(S) \cup {t}
      /\ s \notin S => Standing(S)' = Standing(S) \ {t}
      /\ t \in Standing(S) <=> thr[t] \in S
  BY <1>2, <1>3
<1>5. IsFiniteSet(Standing(S)) /\ Cardinality(Standing(S)) \in Nat
  BY StandingFinite
<1>6. /\ Cardinality(Standing(S) \cup {t}) =
           IF t \in Standing(S) THEN Cardinality(Standing(S)) ELSE Cardinality(Standing(S)) + 1
      /\ Cardinality(Standing(S) \ {t}) =
           IF t \in Standing(S) THEN Cardinality(Standing(S)) - 1 ELSE Cardinality(Standing(S))
  BY <1>5, FS_AddElement, FS_RemoveElement
<1> QED BY <1>2, <1>4, <1>6

\* Nobody's move in or out of a set of places leaves the set of threads there.
LEMMA StandingSame ==
    ASSUME NEW S, \A t \in Thread : thr'[t] \in S <=> thr[t] \in S
    PROVE  Standing(S)' = Standing(S)
BY DEF Standing

\* The live threads are those that are somewhere.
LEMMA LiveIs ==
    /\ Live = Thread \ Standing({"none", "done"})
    /\ Live \subseteq Thread
    /\ \A t \in Thread : t \in Live <=> thr[t] \notin {"none", "done"}
    /\ IsFiniteSet(Live) /\ IsFiniteSet(Thread)
    /\ Cardinality(Live) \in Nat /\ Cardinality(Thread) \in Nat
    /\ Cardinality(Live) <= Cardinality(Thread)
    /\ Cardinality(Live) = Cardinality(Thread) <=> Live = Thread
<1>1. /\ Live = Thread \ Standing({"none", "done"})
      /\ \A t \in Thread : t \in Live <=> thr[t] \notin {"none", "done"}
  BY DEF Live, Standing
<1>2. IsFiniteSet(Thread)
  BY HttpAssumption DEF Thread
<1>3. Live \in SUBSET Thread
  BY DEF Live
<1> QED BY <1>1, <1>2, <1>3, FS_Subset, FS_CardinalityType

\* The open connections are finitely many.
LEMMA OpenFinite == IsFiniteSet(Conn) /\ IsFiniteSet(Open) /\ Cardinality(Open) \in Nat
<1>1. IsFiniteSet(Conn)
  <2>1. 1 \in Int /\ Connections \in Int
    BY HttpAssumption
  <2> QED BY <2>1, FS_Interval DEF Conn
<1>2. Open \in SUBSET Conn
  BY DEF Open
<1> QED BY <1>1, <1>2, FS_Subset, FS_CardinalityType
-----------------------------------------------------------------------------
(***************************************************************************)
(* The steps that move no connection between the queues and the threads.   *)
(***************************************************************************)
\* The queues and the owners stay as they are while no busy thread starts or ends.
LEMMA QuietKeeps ==
    ASSUME IInv, UNCHANGED <<link, jobs, backlog, shutdown, serves, burst>>,
           main' \in {"accept", "notify", "join", "returned", "aborted"},
           thr' \in [Thread -> Stand],
           \A t \in Thread : thr'[t] \in Busy <=> thr[t] \in Busy,
           idle' = Cardinality(Standing(Waiting)'), EndInv', BurstInv'
    PROVE  IInv'
<1>1. StateInv' /\ QueueInv' /\ ServesInv'
  <2>1. StateInv /\ QueueInv /\ ServesInv
    BY DEF IInv
  <2>2. StateInv'
    BY <2>1 DEF StateInv, Stand, Place
  <2>3. QueueInv'
    BY <2>1 DEF QueueInv, Holds
  <2>4. ServesInv'
    BY <2>1 DEF ServesInv, Busy
  <2> QED BY <2>2, <2>3, <2>4
<1>2. CountInv'
  <2>1. Open' = Open
    BY DEF Open
  <2> QED BY <2>1 DEF IInv, CountInv, Waiting
<1> QED BY <1>1, <1>2 DEF IInv

\* No thread becomes busy or idle, comes or goes.
Plain ==
    /\ UNCHANGED <<link, jobs, backlog, shutdown, serves, burst, idle>>
    /\ thr' \in [Thread -> Stand]
    /\ \A t \in Thread : \/ thr'[t] = thr[t]
                         \/ thr[t] \in Busy /\ thr'[t] \in Busy
                         \/ thr[t] \in Waiting /\ thr'[t] \in Waiting
    /\ \/ main' = main
       \/ main = "accept" /\ main' = "aborted"
       \/ main = "notify" /\ main' = "accept"
       \/ main = "join" /\ main' = "returned" /\ Live = {}

LEMMA PlainKeeps ==
    ASSUME IInv, Plain
    PROVE  IInv'
<1>1. StateInv /\ CountInv /\ EndInv /\ BurstInv
  BY DEF IInv
<1>2. /\ link' = link /\ jobs' = jobs /\ backlog' = backlog /\ shutdown' = shutdown
      /\ serves' = serves /\ burst' = burst /\ idle' = idle /\ thr' \in [Thread -> Stand]
  BY DEF Plain
<1>3. \A t \in Thread : /\ thr'[t] \in Busy <=> thr[t] \in Busy
                        /\ thr'[t] \in Waiting <=> thr[t] \in Waiting
                        /\ thr'[t] \in Available <=> thr[t] \in Available
                        /\ thr'[t] \in {"none", "done"} <=> thr[t] \in {"none", "done"}
                        /\ thr'[t] = "none" <=> thr[t] = "none"
                        /\ thr'[t] = "done" <=> thr[t] = "done"
  BY DEF Plain, Busy, Waiting, Available
<1>4. /\ Standing(Waiting)' = Standing(Waiting)
      /\ Standing(Available)' = Standing(Available)
      /\ Standing({"none", "done"})' = Standing({"none", "done"})
  BY <1>3 DEF Standing, Waiting, Available
<1>5. Live' = Live
  BY <1>3 DEF Live
<1>6. main' \in {"accept", "notify", "join", "returned", "aborted"}
  BY <1>1 DEF Plain, StateInv
<1>7. EndInv'
  <2>1. shutdown' <=> main' \in {"join", "returned"}
    BY <1>1, <1>2 DEF EndInv, Plain
  <2>2. \A t \in Base : t \in Thread
    BY DEF Thread
  <2>3. main' = "returned" => Live' = {}
    BY <1>1, <1>5 DEF EndInv, Plain
  <2> QED BY <2>1, <2>2, <2>3, <1>1, <1>2, <1>3 DEF EndInv
<1>8. BurstInv'
  BY <1>1, <1>2, <1>4, <1>5 DEF BurstInv
<1>9. idle' = Cardinality(Standing(Waiting)')
  BY <1>1, <1>2, <1>4 DEF CountInv
<1> QED BY <1>2, <1>3, <1>6, <1>7, <1>8, <1>9, QuietKeeps

\* A busy thread goes on in its work.
LEMMA BusyIsPlain ==
    ASSUME IInv, NEW t \in Thread, NEW s \in Busy, thr[t] \in Busy, Goes(t, s),
           UNCHANGED <<link, jobs, backlog, shutdown, serves, burst, idle, main>>
    PROVE  IInv'
<1>1. s \in Stand /\ StateInv
  BY DEF Busy, Stand, IInv
<1>2. thr' \in [Thread -> Stand] /\ \A u \in Thread : thr'[u] = IF u = t THEN s ELSE thr[u]
  BY <1>1, ThreadMoves DEF Goes
<1>3. Plain
  BY <1>2 DEF Plain
<1> QED BY <1>3, PlainKeeps

\* The exception of a thread that cannot be made ends the process.
LEMMA SpawnFailsKeeps ==
    ASSUME IInv, SpawnFails
    PROVE  IInv'
<1>1. Plain
  BY DEF SpawnFails, Plain, IInv, StateInv, net, pool
<1> QED BY <1>1, PlainKeeps

\* notify_one wakes a waiting thread, if there is any.
LEMMA NotifyKeeps ==
    ASSUME IInv, Notify
    PROVE  IInv'
<1>1. StateInv
  BY DEF IInv
<1>2. CASE thr' = thr
  <2>1. Plain
    BY <1>1, <1>2 DEF Notify, Plain, StateInv, net, pool
  <2> QED BY <2>1, PlainKeeps
<1>3. CASE \E t \in ToWake : thr' = [thr EXCEPT ![t] = "woken"]
  <2>1. PICK t \in ToWake : thr' = [thr EXCEPT ![t] = "woken"]
    BY <1>3
  <2>2. t \in Thread /\ thr[t] = "wait" /\ "woken" \in Stand
    BY DEF ToWake, Stand
  <2>3. thr' \in [Thread -> Stand] /\ \A u \in Thread : thr'[u] = IF u = t THEN "woken" ELSE thr[u]
    BY <1>1, <2>1, <2>2, ThreadMoves
  <2>4. Plain
    BY <2>2, <2>3 DEF Notify, Plain, Waiting, net, pool
  <2> QED BY <2>4, PlainKeeps
<1> QED BY <1>2, <1>3 DEF Notify

\* listen returns when the threads are joined.
LEMMA JoinKeeps ==
    ASSUME IInv, Join
    PROVE  IInv'
<1>1. Plain
  BY DEF Join, Plain, IInv, StateInv, net, pool
<1> QED BY <1>1, PlainKeeps

\* A thread finds something to read.
LEMMA ReadyKeeps ==
    ASSUME IInv, NEW t \in Thread, Ready(t)
    PROVE  IInv'
BY BusyIsPlain DEF Ready, Serving, Busy, net, pool

\* It finds that the browser has closed.
LEMMA EndedKeeps ==
    ASSUME IInv, NEW t \in Thread, Ended(t)
    PROVE  IInv'
BY BusyIsPlain DEF Ended, Serving, Busy, net, pool

\* It has waited long enough for a request.
LEMMA KeepAliveTimesOutKeeps ==
    ASSUME IInv, NEW t \in Thread, KeepAliveTimesOut(t)
    PROVE  IInv'
BY BusyIsPlain DEF KeepAliveTimesOut, Serving, Busy, net, pool

\* It answers a request.
LEMMA AnswerKeeps ==
    ASSUME IInv, NEW t \in Thread, Answer(t, {"quick", "upload"})
    PROVE  IInv'
<1>1. /\ thr[t] \in Busy
      /\ Goes(t, "keepalive") \/ Goes(t, "close")
      /\ UNCHANGED <<link, jobs, backlog, shutdown, serves, burst, idle, main>>
  BY DEF Answer, Serving, Busy, net, pool
<1>2. "keepalive" \in Busy /\ "close" \in Busy
  BY DEF Busy
<1> QED BY <1>1, <1>2, BusyIsPlain

\* What a browser sends, and that it leaves, changes nothing here.
LEMMA BrowserKeeps ==
    ASSUME IInv, NEW c \in Conn, Send(c) \/ Leave(c)
    PROVE  IInv'
<1>1. Plain
  BY DEF Send, Leave, Plain, IInv, StateInv, pool
<1> QED BY <1>1, PlainKeeps

\* A thread waits for a job.
LEMMA WaitKeeps ==
    ASSUME IInv, NEW t \in Thread, Wait(t)
    PROVE  IInv'
<1>1. StateInv /\ CountInv /\ EndInv
  BY DEF IInv
<1>2. /\ link' = link /\ jobs' = jobs /\ backlog' = backlog /\ shutdown' = shutdown
      /\ serves' = serves /\ burst' = burst /\ main' = main
      /\ thr[t] \in {"free", "woken"} /\ jobs = <<>> /\ ~shutdown
      /\ thr' = [thr EXCEPT ![t] = "wait"]
      /\ idle' = idle + 1 - (IF thr[t] \in {"wait", "woken"} THEN 1 ELSE 0)
  BY DEF Wait, net, Counted
<1>3. "wait" \in Stand
  BY DEF Stand
<1>4. thr' \in [Thread -> Stand] /\ \A u \in Thread : thr'[u] = IF u = t THEN "wait" ELSE thr[u]
  BY <1>1, <1>2, <1>3, ThreadMoves
<1>5. \A u \in Thread : /\ thr'[u] \in Busy <=> thr[u] \in Busy
                        /\ thr'[u] = "none" <=> thr[u] = "none"
                        /\ thr'[u] = "done" <=> thr[u] = "done"
  BY <1>2, <1>4 DEF Busy
<1>6. idle' = Cardinality(Standing(Waiting)')
  <2>1. /\ thr[t] \in Waiting => Standing(Waiting)' = Standing(Waiting)
        /\ thr[t] \notin Waiting =>
             Cardinality(Standing(Waiting)') = Cardinality(Standing(Waiting)) + 1
    <3>1. "wait" \in Waiting
      BY DEF Waiting
    <3> QED BY <3>1, <1>1, <1>2, <1>3, ThreadMoves
  <2>2. Cardinality(Standing(Waiting)) \in Nat
    BY StandingFinite
  <2> QED BY <2>1, <2>2, <1>1, <1>2 DEF CountInv, Waiting
<1>7. EndInv'
  <2>1. Live' = Live
    BY <1>5 DEF Live
  <2>2. \A u \in Base : u \in Thread
    BY DEF Thread
  <2> QED BY <2>1, <2>2, <1>1, <1>2, <1>5 DEF EndInv
<1>8. BurstInv'
  BY <1>2 DEF BurstInv
<1>9. main' \in {"accept", "notify", "join", "returned", "aborted"}
  BY <1>1, <1>2 DEF StateInv
<1> QED BY <1>2, <1>4, <1>5, <1>6, <1>7, <1>8, <1>9, QuietKeeps

\* A thread leaves the pool: a fixed one only with the last job gone.
LEMMA QuitKeeps ==
    ASSUME IInv, NEW t \in Thread, Quit(t)
    PROVE  IInv'
<1>1. StateInv /\ CountInv /\ EndInv
  BY DEF IInv
<1>2. /\ link' = link /\ jobs' = jobs /\ backlog' = backlog /\ shutdown' = shutdown
      /\ serves' = serves /\ burst' = burst /\ main' = main
      /\ thr[t] \in {"free", "woken", "wait"} /\ jobs = <<>>
      /\ shutdown \/ t \in Dynamic
      /\ thr' = [thr EXCEPT ![t] = "done"]
      /\ idle' = idle - (IF thr[t] \in {"wait", "woken"} THEN 1 ELSE 0)
  BY DEF Quit, Awake, MayQuit, InVain, net, Counted
<1>3. "done" \in Stand
  BY DEF Stand
<1>4. thr' \in [Thread -> Stand] /\ \A u \in Thread : thr'[u] = IF u = t THEN "done" ELSE thr[u]
  BY <1>1, <1>2, <1>3, ThreadMoves
<1>5. \A u \in Thread : thr'[u] \in Busy <=> thr[u] \in Busy
  BY <1>2, <1>4 DEF Busy
<1>6. idle' = Cardinality(Standing(Waiting)')
  <2>1. /\ thr[t] \notin Waiting => Standing(Waiting)' = Standing(Waiting)
        /\ thr[t] \in Waiting =>
             Cardinality(Standing(Waiting)') = Cardinality(Standing(Waiting)) - 1
    <3>1. "done" \notin Waiting
      BY DEF Waiting
    <3> QED BY <3>1, <1>1, <1>2, <1>3, ThreadMoves
  <2>2. Cardinality(Standing(Waiting)) \in Nat
    BY StandingFinite
  <2> QED BY <2>1, <2>2, <1>1, <1>2 DEF CountInv, Waiting
<1>7. EndInv'
  <2>1. Live' \subseteq Live
    BY <1>4 DEF Live
  <2>2. \A u \in Base : u \in Thread /\ u \notin Dynamic
    BY HttpAssumption DEF Thread
  <2>3. ASSUME NEW u \in Base PROVE thr'[u] # "none" /\ (thr'[u] = "done" => shutdown)
    BY <2>2, <1>1, <1>2, <1>4 DEF EndInv
  <2> QED BY <2>1, <2>3, <1>1, <1>2 DEF EndInv
<1>8. BurstInv'
  BY <1>2 DEF BurstInv
<1>9. main' \in {"accept", "notify", "join", "returned", "aborted"}
  BY <1>1, <1>2 DEF StateInv
<1> QED BY <1>2, <1>4, <1>5, <1>6, <1>7, <1>8, <1>9, QuietKeeps
-----------------------------------------------------------------------------
(***************************************************************************)
(* The steps that move a connection.                                       *)
(***************************************************************************)
\* Both queues hold who stands in them after one connection has moved on.
LEMMA QueuesAfter ==
    ASSUME StateInv, QueueInv, NEW c \in Conn, NEW p \in Place, link[c] # p,
           link' = [link EXCEPT ![c] = p],
           backlog' \in Seq(Conn), Distinct(backlog'), jobs' \in Seq(Conn), Distinct(jobs'),
           \A x \in Conn : In(x, backlog') <=> (x = c /\ p = "backlog") \/ (x # c /\ In(x, backlog)),
           \A x \in Conn : In(x, jobs') <=> (x = c /\ p = "jobs") \/ (x # c /\ In(x, jobs))
    PROVE  /\ link' \in [Conn -> Place] /\ QueueInv'
           /\ \A x \in Conn : link'[x] = IF x = c THEN p ELSE link[x]
<1>1. link \in [Conn -> Place]
  BY DEF StateInv
<1> HIDE DEF Place
<1>2. link' \in [Conn -> Place] /\ \A x \in Conn : link'[x] = IF x = c THEN p ELSE link[x]
  BY <1>1
<1>3. \A x \in Conn : /\ link[x] = "backlog" <=> In(x, backlog)
                      /\ link[x] = "jobs" <=> In(x, jobs)
  BY DEF QueueInv, Holds
<1>4. Holds(backlog, "backlog")'
  BY <1>2, <1>3 DEF Holds
<1>5. Holds(jobs, "jobs")'
  BY <1>2, <1>3 DEF Holds
<1> QED BY <1>2, <1>4, <1>5 DEF QueueInv

\* How many connections are open after one has moved.
LEMMA OpenAfter ==
    ASSUME NEW c \in Conn, NEW p, \A x \in Conn : link'[x] = IF x = c THEN p ELSE link[x]
    PROVE  /\ p \in {"jobs", "served"} /\ link[c] \in {"jobs", "served"} => Open' = Open
           /\ p \notin {"jobs", "served"} => Cardinality(Open') <= Cardinality(Open)
           /\ Cardinality(Open') <= Cardinality(Open) + 1
           /\ Cardinality(Open') \in Nat
<1>1. Open' = {x \in Conn : link'[x] \in {"jobs", "served"}}
      /\ Open = {x \in Conn : link[x] \in {"jobs", "served"}}
  BY DEF Open, Conn
<1>2. /\ p \in {"jobs", "served"} => Open' = Open \cup {c}
      /\ p \notin {"jobs", "served"} => Open' = Open \ {c}
      /\ c \in Open <=> link[c] \in {"jobs", "served"}
  BY <1>1
<1>3. /\ Cardinality(Open \cup {c}) = IF c \in Open THEN Cardinality(Open) ELSE Cardinality(Open) + 1
      /\ Cardinality(Open \ {c}) = IF c \in Open THEN Cardinality(Open) - 1 ELSE Cardinality(Open)
      /\ IsFiniteSet(Open \cup {c}) /\ IsFiniteSet(Open \ {c})
  BY OpenFinite, FS_AddElement, FS_RemoveElement
<1>4. Cardinality(Open) \in Nat
  BY OpenFinite
<1>5. Cardinality(Open') \in Nat
  BY <1>2, <1>3, FS_CardinalityType
<1>6. CASE p \in {"jobs", "served"}
  <2>1. Open' = Open \cup {c}
    BY <1>2, <1>6
  <2>2. Cardinality(Open') <= Cardinality(Open) + 1
    BY <2>1, <1>3, <1>4
  <2>3. link[c] \in {"jobs", "served"} => Open' = Open
    BY <2>1, <1>2
  <2> QED BY <2>2, <2>3, <1>5, <1>6
<1>7. CASE p \notin {"jobs", "served"}
  <2>1. Open' = Open \ {c}
    BY <1>2, <1>7
  <2>2. Cardinality(Open') <= Cardinality(Open)
    BY <2>1, <1>3, <1>4
  <2> QED BY <2>2, <1>4, <1>5, <1>7
<1> QED BY <1>6, <1>7

\* A browser connects, and waits in the backlog or is reset.
LEMMA ConnectKeeps ==
    ASSUME IInv, NEW c \in Conn, Connect(c)
    PROVE  IInv'
<1>1. StateInv /\ QueueInv /\ ServesInv /\ CountInv /\ EndInv /\ BurstInv
  BY DEF IInv
<1>2. /\ main' = main /\ jobs' = jobs /\ shutdown' = shutdown /\ idle' = idle /\ thr' = thr
      /\ serves' = serves /\ burst' = burst /\ link[c] = "none"
  BY DEF Connect, pool
<1>3. PICK p \in {"backlog", "reset"} :
        /\ link' = [link EXCEPT ![c] = p]
        /\ p = "backlog" => backlog' = Append(backlog, c)
        /\ p = "reset" => backlog' = backlog
  BY DEF Connect
<1>4. /\ backlog \in Seq(Conn) /\ Distinct(backlog) /\ jobs \in Seq(Conn) /\ Distinct(jobs)
      /\ ~In(c, backlog) /\ ~In(c, jobs)
  BY <1>1, <1>2 DEF StateInv, QueueInv, Holds
<1>5. /\ backlog' \in Seq(Conn) /\ Distinct(backlog')
      /\ \A x \in Conn : In(x, backlog') <=> (x = c /\ p = "backlog") \/ (x # c /\ In(x, backlog))
  <2>1. CASE p = "backlog"
    <3>1. backlog' = Append(backlog, c)
      BY <1>3, <2>1
    <3>2. /\ Append(backlog, c) \in Seq(Conn) /\ Distinct(Append(backlog, c))
          /\ \A x : In(x, Append(backlog, c)) <=> x = c \/ In(x, backlog)
      BY <1>4, AppendIsDistinct
    <3> QED BY <3>1, <3>2, <1>4, <2>1
  <2>2. CASE p = "reset"
    BY <1>3, <1>4, <2>2
  <2> QED BY <2>1, <2>2
<1>6. \A x \in Conn : In(x, jobs') <=> (x = c /\ p = "jobs") \/ (x # c /\ In(x, jobs))
  BY <1>2, <1>4
<1>7. /\ link' \in [Conn -> Place] /\ QueueInv'
      /\ \A x \in Conn : link'[x] = IF x = c THEN p ELSE link[x]
  <2>1. p \in Place
    BY DEF Place
  <2>2. link[c] # p /\ jobs' \in Seq(Conn) /\ Distinct(jobs')
    BY <1>2, <1>4
  <2>3. link' = [link EXCEPT ![c] = p]
    BY <1>3
  <2> QED BY <2>1, <2>2, <2>3, <1>1, <1>5, <1>6, QueuesAfter
<1>8. StateInv'
  BY <1>1, <1>2, <1>4, <1>5, <1>7 DEF StateInv, Stand, Place
<1>9. ServesInv'
  <2>1. \A x \in Conn : link'[x] = "served" <=> link[x] = "served"
    BY <1>2, <1>7
  <2>2. \A t \in Thread : serves[t] # NoConn => serves[t] \in Conn
    BY <1>1 DEF StateInv
  <2> QED BY <2>1, <2>2, <1>1, <1>2 DEF ServesInv, Busy
<1>10. CountInv'
  <2>1. Cardinality(Open') <= Cardinality(Open)
    BY <1>7, OpenAfter
  <2>2. Standing(Waiting)' = Standing(Waiting)
    BY <1>2 DEF Standing, Waiting
  <2>3. Cardinality(Open') \in Nat /\ Cardinality(Open) \in Nat /\ FdLimit \in Nat
    BY <1>7, OpenAfter, OpenFinite, HttpAssumption
  <2> QED BY <2>1, <2>2, <2>3, <1>1, <1>2 DEF CountInv
<1>11. EndInv' /\ BurstInv'
  <2>1. Live' = Live /\ Standing(Available)' = Standing(Available)
    BY <1>2 DEF Live, Standing, Available
  <2> QED BY <2>1, <1>1, <1>2 DEF EndInv, BurstInv
<1> QED BY <1>7, <1>8, <1>9, <1>10, <1>11 DEF IInv

\* A thread takes the job at the head of the queue.
LEMMA TakeKeeps ==
    ASSUME IInv, NEW t \in Thread, Take(t)
    PROVE  IInv'
<1>1. StateInv /\ QueueInv /\ ServesInv /\ CountInv /\ EndInv /\ BurstInv
  BY DEF IInv
<1> DEFINE c == Head(jobs)
<1>2. /\ main' = main /\ backlog' = backlog /\ shutdown' = shutdown
      /\ jobs # <<>> /\ jobs' = Tail(jobs)
      /\ thr[t] \in {"free", "woken", "wait"}
      /\ thr' = [thr EXCEPT ![t] = "keepalive"]
      /\ serves' = [serves EXCEPT ![t] = c]
      /\ link' = [link EXCEPT ![c] = "served"]
      /\ idle' = idle - (IF thr[t] \in {"wait", "woken"} THEN 1 ELSE 0)
      /\ burst' = (burst /\ Len(jobs) > 1)
      /\ main # "aborted"
  BY DEF Take, Up, Awake, net, Counted
<1>3. /\ backlog \in Seq(Conn) /\ Distinct(backlog) /\ jobs \in Seq(Conn) /\ Distinct(jobs)
  BY <1>1 DEF StateInv, QueueInv, Holds
<1>4. /\ jobs' \in Seq(Conn) /\ Distinct(jobs') /\ Len(jobs') = Len(jobs) - 1
      /\ Len(jobs) \in Nat /\ Len(jobs) >= 1
      /\ c \in Conn /\ In(c, jobs) /\ ~In(c, jobs')
      /\ \A x : In(x, jobs) <=> x = c \/ In(x, jobs')
  BY <1>2, <1>3, TailIsDistinct, LenProperties
<1> HIDE DEF c
<1>5. link[c] = "jobs"
  BY <1>1, <1>4 DEF QueueInv, Holds
<1>6. /\ link' \in [Conn -> Place] /\ QueueInv'
      /\ \A x \in Conn : link'[x] = IF x = c THEN "served" ELSE link[x]
  <2>1. PICK p \in Place : p = "served"
    BY DEF Place
  <2>2. PICK e \in Conn : e = c
    BY <1>4
  <2>3. \A x \in Conn : In(x, backlog') <=> (x = e /\ p = "backlog") \/ (x # e /\ In(x, backlog))
    <3>1. ~In(c, backlog)
      BY <1>1, <1>4, <1>5 DEF QueueInv, Holds
    <3> QED BY <3>1, <1>2, <2>1, <2>2
  <2>4. \A x \in Conn : In(x, jobs') <=> (x = e /\ p = "jobs") \/ (x # e /\ In(x, jobs))
    BY <1>4, <2>1, <2>2
  <2>5. link[e] # p /\ link' = [link EXCEPT ![e] = p]
    BY <1>2, <1>5, <2>1, <2>2
  <2>6. backlog' \in Seq(Conn) /\ Distinct(backlog') /\ jobs' \in Seq(Conn) /\ Distinct(jobs')
    BY <1>2, <1>3, <1>4
  <2>7. /\ link' \in [Conn -> Place] /\ QueueInv'
        /\ \A x \in Conn : link'[x] = IF x = e THEN p ELSE link[x]
    BY <2>3, <2>4, <2>5, <2>6, <1>1, QueuesAfter, ZenonT(40) DEF Place
  <2> QED BY <2>1, <2>2, <2>7
<1>7. /\ serves' \in [Thread -> Conn \cup {NoConn}]
      /\ \A u \in Thread : serves'[u] = IF u = t THEN c ELSE serves[u]
  <2>1. serves \in [Thread -> Conn \cup {NoConn}]
    BY <1>1 DEF StateInv
  <2> QED BY <2>1, <1>2, <1>4
<1>8. /\ thr' \in [Thread -> Stand]
      /\ \A u \in Thread : thr'[u] = IF u = t THEN "keepalive" ELSE thr[u]
      /\ thr[t] \notin Waiting => Standing(Waiting)' = Standing(Waiting)
      /\ thr[t] \in Waiting => Cardinality(Standing(Waiting)') = Cardinality(Standing(Waiting)) - 1
      /\ Cardinality(Standing(Available)') = Cardinality(Standing(Available)) - 1
  <2>1. "keepalive" \in Stand /\ "keepalive" \notin Waiting /\ "keepalive" \notin Available
        /\ thr[t] \in Available
    BY <1>2 DEF Stand, Waiting, Available
  <2> QED BY <2>1, <1>1, <1>2, ThreadMoves
<1>9. StateInv'
  <2>1. burst' \in BOOLEAN
    BY <1>2
  <2> QED BY <2>1, <1>1, <1>2, <1>3, <1>4, <1>6, <1>7, <1>8 DEF StateInv, Stand, Place
<1>10. ServesInv'
  <2>1. NoConn \notin Conn /\ c # NoConn
    BY <1>4 DEF NoConn, Conn
  <2>2. \A u \in Thread : serves[u] # NoConn => serves[u] \in Conn /\ serves[u] # c
    BY <1>1, <1>5 DEF StateInv, ServesInv
  <2>3. serves[t] = NoConn
    BY <1>1, <1>2 DEF ServesInv, Busy
  <2>4. \A u \in Thread : serves'[u] # NoConn <=> thr'[u] \in Busy
    BY <2>1, <1>1, <1>7, <1>8 DEF ServesInv, Busy
  <2>5. \A u \in Thread : serves'[u] # NoConn => link'[serves'[u]] = "served"
    BY <2>2, <1>1, <1>4, <1>6, <1>7 DEF ServesInv
  <2>6. \A u, v \in Thread : serves'[u] = serves'[v] /\ serves'[u] # NoConn => u = v
    BY <2>2, <2>1, <1>1, <1>7 DEF ServesInv
  <2>7. ASSUME NEW x \in Conn, link'[x] = "served" PROVE \E u \in Thread : serves'[u] = x
    <3>1. CASE x = c
      BY <3>1, <1>7
    <3>2. CASE x # c
      <4>1. link[x] = "served"
        BY <2>7, <3>2, <1>6
      <4>2. PICK u \in Thread : serves[u] = x
        BY <4>1, <1>1 DEF ServesInv
      <4>3. u # t
        <5>1. x # NoConn
          BY <2>1
        <5> QED BY <5>1, <2>3, <4>2
      <4> QED BY <4>2, <4>3, <1>7
    <3> QED BY <3>1, <3>2
  <2> QED BY <2>4, <2>5, <2>6, <2>7 DEF ServesInv, Busy
<1>11. CountInv'
  <2>1. Open' = Open
    BY <1>4, <1>5, <1>6, OpenAfter
  <2>2. Cardinality(Standing(Waiting)) \in Nat
    BY StandingFinite
  <2>3. idle' = Cardinality(Standing(Waiting)')
    BY <2>2, <1>1, <1>2, <1>8 DEF CountInv, Waiting
  <2> QED BY <2>1, <2>3, <1>1 DEF CountInv, Waiting
<1>12. Live' = Live
  BY <1>2, <1>8 DEF Live
<1>13. EndInv'
  <2>1. \A u \in Base : u \in Thread
    BY DEF Thread
  <2>2. \A u \in Thread : /\ thr'[u] = "none" <=> thr[u] = "none"
                          /\ thr'[u] = "done" <=> thr[u] = "done"
    BY <1>2, <1>8
  <2>3. \A u \in Base : thr[u] # "done"
    BY <1>1, <1>2 DEF EndInv
  <2> QED BY <2>1, <2>2, <2>3, <1>1, <1>2, <1>12 DEF EndInv
<1>14. BurstInv'
  <2>1. CASE Len(jobs) = 1
    <3>1. \A x \in Conn : ~In(x, jobs')
      <4>1. Len(jobs') = 0
        BY <2>1, <1>4
      <4> QED BY <4>1 DEF In
    <3> QED BY <3>1, <1>4, EmptyHasNone DEF BurstInv
  <2>2. CASE Len(jobs) # 1
    <3>1. burst' = burst
      BY <2>2, <1>1, <1>2, <1>4 DEF StateInv
    <3>2. Cardinality(Standing(Available)) \in Nat
      BY StandingFinite
    <3>3. Len(jobs) <= Cardinality(Standing(Available)) =>
            Len(jobs') <= Cardinality(Standing(Available)')
      BY <3>2, <1>4, <1>8
    <3> QED BY <3>1, <3>3, <1>1, <1>2, <1>12 DEF BurstInv
  <2> QED BY <2>1, <2>2
<1> QED BY <1>6, <1>9, <1>10, <1>11, <1>13, <1>14 DEF IInv

\* A thread closes its connection's socket and is free.
LEMMA CloseSocketKeeps ==
    ASSUME IInv, NEW t \in Thread, CloseSocket(t)
    PROVE  IInv'
<1>1. StateInv /\ QueueInv /\ ServesInv /\ CountInv /\ EndInv /\ BurstInv
  BY DEF IInv
<1> DEFINE c == serves[t]
<1>2. /\ main' = main /\ backlog' = backlog /\ shutdown' = shutdown /\ jobs' = jobs
      /\ idle' = idle /\ burst' = burst /\ thr[t] = "close"
      /\ thr' = [thr EXCEPT ![t] = "free"]
      /\ serves' = [serves EXCEPT ![t] = NoConn]
      /\ link' = [link EXCEPT ![c] = "closed"]
  BY DEF CloseSocket, Serving, Goes, pool
<1>3. c # NoConn /\ c \in Conn /\ link[c] = "served"
  BY <1>1, <1>2 DEF ServesInv, StateInv, Busy
<1> HIDE DEF c
<1>4. /\ backlog \in Seq(Conn) /\ Distinct(backlog) /\ jobs \in Seq(Conn) /\ Distinct(jobs)
      /\ ~In(c, backlog) /\ ~In(c, jobs)
  BY <1>1, <1>3 DEF StateInv, QueueInv, Holds
<1>5. /\ link' \in [Conn -> Place] /\ QueueInv'
      /\ \A x \in Conn : link'[x] = IF x = c THEN "closed" ELSE link[x]
  <2>1. PICK p \in Place : p = "closed"
    BY DEF Place
  <2>2. \A x \in Conn : In(x, backlog') <=> (x = c /\ p = "backlog") \/ (x # c /\ In(x, backlog))
    BY <1>2, <1>4, <2>1
  <2>3. \A x \in Conn : In(x, jobs') <=> (x = c /\ p = "jobs") \/ (x # c /\ In(x, jobs))
    BY <1>2, <1>4, <2>1
  <2>4. link[c] # p /\ link' = [link EXCEPT ![c] = p]
    BY <1>2, <1>3, <2>1
  <2>5. backlog' \in Seq(Conn) /\ Distinct(backlog') /\ jobs' \in Seq(Conn) /\ Distinct(jobs')
    BY <1>2, <1>4
  <2> QED BY <2>1, <2>2, <2>3, <2>4, <2>5, <1>1, <1>3, QueuesAfter
<1>6. /\ serves' \in [Thread -> Conn \cup {NoConn}]
      /\ \A u \in Thread : serves'[u] = IF u = t THEN NoConn ELSE serves[u]
  <2>1. serves \in [Thread -> Conn \cup {NoConn}]
    BY <1>1 DEF StateInv
  <2> QED BY <2>1, <1>2
<1>7. /\ thr' \in [Thread -> Stand]
      /\ \A u \in Thread : thr'[u] = IF u = t THEN "free" ELSE thr[u]
      /\ Standing(Waiting)' = Standing(Waiting)
      /\ Cardinality(Standing(Available)') = Cardinality(Standing(Available)) + 1
  <2>1. "free" \in Stand /\ "free" \notin Waiting /\ "free" \in Available
        /\ thr[t] \notin Available /\ thr[t] \notin Waiting
    BY <1>2 DEF Stand, Waiting, Available
  <2> QED BY <2>1, <1>1, <1>2, ThreadMoves
<1>8. StateInv'
  BY <1>1, <1>2, <1>4, <1>5, <1>6, <1>7 DEF StateInv, Stand, Place
<1>9. ServesInv'
  <2>1. \A u \in Thread : u # t /\ serves[u] # NoConn => serves[u] \in Conn /\ serves[u] # c
    BY <1>1, <1>3 DEF StateInv, ServesInv, c
  <2>2. \A u \in Thread : serves'[u] # NoConn <=> thr'[u] \in Busy
    BY <1>1, <1>6, <1>7 DEF ServesInv, Busy
  <2>3. \A u \in Thread : serves'[u] # NoConn => link'[serves'[u]] = "served"
    BY <2>1, <1>1, <1>5, <1>6 DEF ServesInv
  <2>4. \A u, v \in Thread : serves'[u] = serves'[v] /\ serves'[u] # NoConn => u = v
    BY <1>1, <1>6 DEF ServesInv
  <2>5. ASSUME NEW x \in Conn, link'[x] = "served" PROVE \E u \in Thread : serves'[u] = x
    <3>1. x # c /\ link[x] = "served"
      BY <2>5, <1>5
    <3>2. PICK u \in Thread : serves[u] = x
      BY <3>1, <1>1 DEF ServesInv
    <3>3. u # t
      BY <3>1, <3>2 DEF c
    <3> QED BY <3>2, <3>3, <1>6
  <2> QED BY <2>2, <2>3, <2>4, <2>5 DEF ServesInv, Busy
<1>10. CountInv'
  <2>1. Cardinality(Open') <= Cardinality(Open)
    <3>1. PICK p : p = "closed"
      OBVIOUS
    <3>2. \A x \in Conn : link'[x] = IF x = c THEN p ELSE link[x]
      BY <3>1, <1>5
    <3>3. p \notin {"jobs", "served"} => Cardinality(Open') <= Cardinality(Open)
      BY <3>2, <1>3, OpenAfter
    <3> QED BY <3>1, <3>3
  <2>2. Cardinality(Open') \in Nat /\ Cardinality(Open) \in Nat /\ FdLimit \in Nat
    BY <1>3, <1>5, OpenAfter, OpenFinite, HttpAssumption
  <2> QED BY <2>1, <2>2, <1>1, <1>2, <1>7 DEF CountInv
<1>11. Live' = Live
  BY <1>2, <1>7 DEF Live
<1>12. EndInv'
  <2>1. \A u \in Base : u \in Thread
    BY DEF Thread
  <2>2. \A u \in Thread : /\ thr'[u] = "none" <=> thr[u] = "none"
                          /\ thr'[u] = "done" <=> thr[u] = "done"
    BY <1>2, <1>7
  <2> QED BY <2>1, <2>2, <1>1, <1>2, <1>11 DEF EndInv
<1>13. BurstInv'
  <2>1. Cardinality(Standing(Available)) \in Nat /\ Len(jobs) \in Nat
    BY <1>4, StandingFinite, LenProperties
  <2>2. Len(jobs) <= Cardinality(Standing(Available)) =>
          Len(jobs') <= Cardinality(Standing(Available)')
    BY <2>1, <1>2, <1>7
  <2> QED BY <2>2, <1>1, <1>2, <1>11 DEF BurstInv
<1> QED BY <1>5, <1>8, <1>9, <1>10, <1>12, <1>13 DEF IInv

\* The loop ends: the backlog is reset and every waiting thread is woken.
LEMMA AcceptFailsKeeps ==
    ASSUME IInv, AcceptFails
    PROVE  IInv'
<1>1. StateInv /\ QueueInv /\ ServesInv /\ CountInv /\ EndInv /\ BurstInv
  BY DEF IInv
<1>2. /\ main = "accept" /\ main' = "join" /\ shutdown' = TRUE /\ backlog' = <<>>
      /\ jobs' = jobs /\ idle' = idle /\ serves' = serves /\ burst' = burst
      /\ thr' = [t \in Thread |-> IF t \in ToWake THEN "woken" ELSE thr[t]]
      /\ link' = [c \in Conn |-> IF link[c] = "backlog" THEN "reset" ELSE link[c]]
  BY DEF AcceptFails
<1>3. /\ thr' \in [Thread -> Stand]
      /\ \A t \in Thread : thr'[t] = IF thr[t] = "wait" THEN "woken" ELSE thr[t]
  <2>1. thr \in [Thread -> Stand]
    BY <1>1 DEF StateInv
  <2> QED BY <2>1, <1>2 DEF ToWake, Stand
<1>4. /\ link' \in [Conn -> Place]
      /\ \A c \in Conn : link'[c] = IF link[c] = "backlog" THEN "reset" ELSE link[c]
  <2>1. link \in [Conn -> Place]
    BY <1>1 DEF StateInv
  <2> QED BY <2>1, <1>2 DEF Place
<1>5. StateInv'
  <2>1. backlog' \in Seq(Conn) /\ shutdown' \in BOOLEAN
    BY <1>2
  <2> QED BY <2>1, <1>1, <1>2, <1>3, <1>4 DEF StateInv, Stand, Place
<1>6. QueueInv'
  <2>1. Holds(jobs, "jobs") /\ Holds(backlog, "backlog")
    BY <1>1 DEF QueueInv
  <2>2. Holds(jobs, "jobs")'
    BY <2>1, <1>2, <1>4 DEF Holds
  <2>3. Holds(backlog, "backlog")'
    <3>1. \A c \in Conn : link'[c] # "backlog"
      BY <1>4
    <3> QED BY <3>1, <1>2, EmptyHasNone DEF Holds
  <2> QED BY <2>2, <2>3 DEF QueueInv
<1>7. \A c \in Conn : /\ link'[c] = "served" <=> link[c] = "served"
                      /\ link'[c] = "jobs" <=> link[c] = "jobs"
  BY <1>4
<1>8. ServesInv'
  <2>1. \A t \in Thread : serves[t] # NoConn => serves[t] \in Conn
    BY <1>1 DEF StateInv
  <2>2. \A t \in Thread : thr'[t] \in Busy <=> thr[t] \in Busy
    BY <1>3 DEF Busy
  <2> QED BY <2>1, <2>2, <1>1, <1>2, <1>7 DEF ServesInv, Busy
<1>9. CountInv'
  <2>1. Open' = Open
    BY <1>7 DEF Open, Conn
  <2>2. \A t \in Thread : thr'[t] \in Waiting <=> thr[t] \in Waiting
    BY <1>3 DEF Waiting
  <2>3. Standing(Waiting)' = Standing(Waiting)
    BY <2>2 DEF Standing, Waiting
  <2> QED BY <2>1, <2>3, <1>1, <1>2 DEF CountInv
<1>10. EndInv'
  <2>1. \A t \in Base : t \in Thread
    BY DEF Thread
  <2> QED BY <2>1, <1>1, <1>2, <1>3 DEF EndInv
<1>11. BurstInv'
  <2>1. \A t \in Thread : /\ thr'[t] \in Available <=> thr[t] \in Available
                          /\ thr'[t] \in {"none", "done"} <=> thr[t] \in {"none", "done"}
    BY <1>3 DEF Available
  <2>2. Standing(Available)' = Standing(Available)
    BY <2>1 DEF Standing, Available
  <2>3. Live' = Live
    BY <2>1 DEF Live
  <2> QED BY <2>2, <2>3, <1>1, <1>2 DEF BurstInv
<1> QED BY <1>5, <1>6, <1>8, <1>9, <1>10, <1>11 DEF IInv

\* What the threads are after a connection has been accepted: a free one more, or the
\* same as before.
LEMMA SpawnedThreads ==
    ASSUME StateInv, EndInv, Accept
    PROVE  /\ thr' \in [Thread -> Stand]
           /\ \A t \in Thread : /\ thr'[t] \in Busy <=> thr[t] \in Busy
                                /\ thr'[t] \in Waiting <=> thr[t] \in Waiting
           /\ \A t \in Base : thr'[t] = thr[t]
           /\ ~Spawns => thr' = thr
           /\ Spawns => Cardinality(Standing(Available)') = Cardinality(Standing(Available)) + 1
<1>1. thr \in [Thread -> Stand]
  BY DEF StateInv
<1>2. CASE Spawns
  <2>1. PICK new \in Dynamic \ Live :
          thr' = [t \in Thread |-> CASE t = new -> "free"
                                     [] t \in Dynamic \ (Live \cup {new}) -> "none"
                                     [] OTHER -> thr[t]]
    BY <1>2 DEF Accept
  <2>2. new \in Thread /\ new \notin Base /\ thr[new] \in {"none", "done"}
    BY HttpAssumption, LiveIs DEF Thread
  <2>3. \A t \in Thread : \/ t = new /\ thr'[t] = "free"
                          \/ t # new /\ t \in Dynamic /\ thr[t] \in {"none", "done"} /\ thr'[t] = "none"
                          \/ t # new /\ (t \in Live \/ t \notin Dynamic) /\ thr'[t] = thr[t]
    <3>1. ASSUME NEW t \in Thread, t = new PROVE thr'[t] = "free"
      BY <2>1, <3>1
    <3>2. ASSUME NEW t \in Thread, t # new, t \in Dynamic, t \notin Live
          PROVE  thr'[t] = "none" /\ thr[t] \in {"none", "done"}
      BY <2>1, <3>2, LiveIs
    <3>3. ASSUME NEW t \in Thread, t # new, t \in Live \/ t \notin Dynamic PROVE thr'[t] = thr[t]
      BY <2>1, <3>3
    <3> QED BY <3>1, <3>2, <3>3
  <2>4. thr' \in [Thread -> Stand]
    <3>1. \A t \in Thread : thr'[t] \in Stand
      BY <1>1, <2>3 DEF Stand
    <3>2. thr' = [t \in Thread |-> thr'[t]]
      BY <2>1
    <3> HIDE DEF Stand
    <3> QED BY <3>1, <3>2
  <2>5. \A t \in Thread : /\ thr'[t] \in Busy <=> thr[t] \in Busy
                          /\ thr'[t] \in Waiting <=> thr[t] \in Waiting
    BY <2>2, <2>3 DEF Busy, Waiting
  <2>6. \A t \in Base : thr'[t] = thr[t]
    <3>1. \A t \in Base : t \in Thread /\ t \notin Dynamic /\ t # new
      BY <2>2, HttpAssumption DEF Thread
    <3> QED BY <3>1, <2>3
  <2>7. Standing(Available)' = Standing(Available) \cup {new} /\ new \notin Standing(Available)
    <3>1. \A t \in Thread : thr'[t] \in Available <=> thr[t] \in Available \/ t = new
      BY <2>2, <2>3 DEF Available
    <3>2. thr[new] \notin Available
      BY <2>2 DEF Available
    <3> QED BY <3>1, <3>2, <2>2 DEF Standing, Available
  <2>8. Cardinality(Standing(Available)') = Cardinality(Standing(Available)) + 1
    <3>1. IsFiniteSet(Standing(Available))
      BY StandingFinite
    <3> QED BY <3>1, <2>7, FS_AddElement
  <2> QED BY <2>4, <2>5, <2>6, <2>8, <1>2
<1>3. CASE ~Spawns
  <2>1. thr' = thr
    BY <1>3 DEF Accept
  <2> QED BY <2>1, <1>1, <1>3
<1> QED BY <1>2, <1>3

\* A connection is accepted: it is queued, and a thread made for it if none is idle.
LEMMA AcceptKeeps ==
    ASSUME IInv, Accept
    PROVE  IInv'
<1>1. StateInv /\ QueueInv /\ ServesInv /\ CountInv /\ EndInv /\ BurstInv
  BY DEF IInv
<1> DEFINE c == Head(backlog)
<1>2. /\ main = "accept" /\ main' = "notify" /\ shutdown' = shutdown /\ idle' = idle
      /\ serves' = serves /\ backlog # <<>> /\ backlog' = Tail(backlog)
      /\ jobs' = Append(jobs, c) /\ link' = [link EXCEPT ![c] = "jobs"]
      /\ burst' = (burst \/ (idle # 0 /\ Len(jobs) >= idle))
      /\ Cardinality(Open) < FdLimit
  BY DEF Accept
<1>3. /\ backlog \in Seq(Conn) /\ Distinct(backlog) /\ jobs \in Seq(Conn) /\ Distinct(jobs)
  BY <1>1 DEF StateInv, QueueInv, Holds
<1>4. /\ backlog' \in Seq(Conn) /\ Distinct(backlog')
      /\ c \in Conn /\ In(c, backlog) /\ ~In(c, backlog')
      /\ \A x : In(x, backlog) <=> x = c \/ In(x, backlog')
  BY <1>2, <1>3, TailIsDistinct
<1> HIDE DEF c
<1>5. link[c] = "backlog" /\ ~In(c, jobs)
  BY <1>1, <1>4 DEF QueueInv, Holds
<1>6. /\ jobs' \in Seq(Conn) /\ Distinct(jobs')
      /\ Len(jobs') = Len(jobs) + 1 /\ Len(jobs) \in Nat
      /\ \A x : In(x, jobs') <=> x = c \/ In(x, jobs)
  BY <1>2, <1>3, <1>4, <1>5, AppendIsDistinct
<1>7. /\ link' \in [Conn -> Place] /\ QueueInv'
      /\ \A x \in Conn : link'[x] = IF x = c THEN "jobs" ELSE link[x]
  <2>1. PICK p \in Place : p = "jobs"
    BY DEF Place
  <2>2. \A x \in Conn : In(x, backlog') <=> (x = c /\ p = "backlog") \/ (x # c /\ In(x, backlog))
    BY <1>4, <2>1
  <2>3. \A x \in Conn : In(x, jobs') <=> (x = c /\ p = "jobs") \/ (x # c /\ In(x, jobs))
    BY <1>6, <2>1
  <2>4. link[c] # p /\ link' = [link EXCEPT ![c] = p]
    BY <1>2, <1>5, <2>1
  <2> QED BY <2>1, <2>2, <2>3, <2>4, <1>1, <1>4, <1>6, QueuesAfter
<1>8. /\ thr' \in [Thread -> Stand]
      /\ \A t \in Thread : /\ thr'[t] \in Busy <=> thr[t] \in Busy
                           /\ thr'[t] \in Waiting <=> thr[t] \in Waiting
      /\ \A t \in Base : thr'[t] = thr[t]
      /\ ~Spawns => thr' = thr
      /\ Spawns => Cardinality(Standing(Available)') = Cardinality(Standing(Available)) + 1
  BY <1>1, SpawnedThreads
<1>9. StateInv'
  <2>1. burst' \in BOOLEAN
    BY <1>2
  <2> QED BY <2>1, <1>1, <1>2, <1>4, <1>6, <1>7, <1>8 DEF StateInv, Stand, Place
<1>10. ServesInv'
  <2>1. \A x \in Conn : link'[x] = "served" <=> link[x] = "served"
    BY <1>5, <1>7
  <2>2. \A t \in Thread : serves[t] # NoConn => serves[t] \in Conn
    BY <1>1 DEF StateInv
  <2> QED BY <2>1, <2>2, <1>1, <1>2, <1>8 DEF ServesInv, Busy
<1>11. Standing(Waiting)' = Standing(Waiting)
  BY <1>8 DEF Standing, Waiting
<1>12. CountInv'
  <2>1. Cardinality(Open') <= Cardinality(Open) + 1
    <3>1. PICK p : p = "jobs"
      OBVIOUS
    <3>2. \A x \in Conn : link'[x] = IF x = c THEN p ELSE link[x]
      BY <3>1, <1>7
    <3> QED BY <3>2, <1>4, OpenAfter
  <2>2. Cardinality(Open) \in Nat /\ FdLimit \in Nat
    BY OpenFinite, HttpAssumption
  <2>3. Cardinality(Open') \in Nat
    BY <1>4, <1>7, OpenAfter
  <2> QED BY <2>1, <2>2, <2>3, <1>1, <1>2, <1>11 DEF CountInv
<1>13. EndInv'
  <2>1. ~shutdown
    BY <1>1, <1>2 DEF EndInv
  <2> QED BY <2>1, <1>1, <1>2, <1>8 DEF EndInv
<1>14. BurstInv'
  <2>0. Cardinality(Standing(Available)) \in Nat /\ Cardinality(Standing(Waiting)) \in Nat
    BY StandingFinite
  <2>1. CASE Spawns
    <3>1. Live # Thread
      BY <2>1, LiveIs DEF Spawns
    <3>2. jobs = <<>> => Len(jobs) = 0
      OBVIOUS
    <3>3. Len(jobs) <= Cardinality(Standing(Available)) \/ burst
      BY <3>1, <3>2, <2>0, <1>1 DEF BurstInv
    <3>4. Len(jobs') <= Cardinality(Standing(Available)') \/ burst'
      <4>1. CASE burst
        BY <4>1, <1>2
      <4>2. CASE Len(jobs) <= Cardinality(Standing(Available))
        <5>1. Cardinality(Standing(Available)') = Cardinality(Standing(Available)) + 1
          BY <2>1, <1>8
        <5>2. Len(jobs') = Len(jobs) + 1 /\ Len(jobs) \in Nat
          BY <1>6
        <5>3. Len(jobs') <= Cardinality(Standing(Available)')
          BY <4>2, <5>1, <5>2, <2>0
        <5> QED BY <5>3
      <4> QED BY <3>3, <4>1, <4>2
    <3> QED BY <3>4 DEF BurstInv
  <2>2. CASE ~Spawns /\ idle = 0
    <3>1. Live = Thread
      BY <2>2, LiveIs DEF Spawns
    <3>2. Live' = Live
      BY <2>2, <1>8 DEF Live
    <3> QED BY <3>1, <3>2 DEF BurstInv, Thread
  <2>3. CASE idle # 0 /\ Len(jobs) < idle
    <3>1. thr' = thr
      BY <2>3, <1>8 DEF Spawns
    <3>2. Cardinality(Standing(Waiting)) <= Cardinality(Standing(Available))
      <4>1. Standing(Waiting) \in SUBSET Standing(Available)
        BY DEF Standing, Waiting, Available
      <4>2. IsFiniteSet(Standing(Available))
        BY StandingFinite
      <4> QED BY <4>1, <4>2, FS_Subset
    <3>3. Len(jobs) < Cardinality(Standing(Available))
      BY <3>2, <2>0, <2>3, <1>1, <1>6 DEF CountInv
    <3>4. Standing(Available)' = Standing(Available)
      BY <3>1 DEF Standing, Available
    <3>5. Len(jobs') <= Cardinality(Standing(Available)')
      BY <3>3, <3>4, <2>0, <1>6
    <3> QED BY <3>5 DEF BurstInv
  <2>4. CASE idle # 0 /\ ~(Len(jobs) < idle)
    <3>1. Len(jobs) >= idle
      BY <2>0, <2>4, <1>1, <1>6 DEF CountInv
    <3>2. burst'
      BY <3>1, <2>4, <1>2
    <3> QED BY <3>2 DEF BurstInv
  <2> QED BY <2>1, <2>2, <2>3, <2>4
<1> QED BY <1>7, <1>9, <1>10, <1>12, <1>13, <1>14 DEF IInv
-----------------------------------------------------------------------------
(***************************************************************************)
(* The theorems.                                                           *)
(***************************************************************************)
\* The invariant holds at the start.
LEMMA InitHolds ==
    ASSUME Init
    PROVE  IInv
<1>1. /\ main = "accept" /\ backlog = <<>> /\ jobs = <<>> /\ shutdown = FALSE /\ idle = 0
      /\ thr = [t \in Thread |-> IF t \in Base THEN "free" ELSE "none"]
      /\ serves = [t \in Thread |-> NoConn] /\ link = [c \in Conn |-> "none"]
      /\ burst = FALSE
  BY DEF Init
<1>2. StateInv
  <2>1. backlog \in Seq(Conn) /\ jobs \in Seq(Conn)
    BY <1>1
  <2> QED BY <2>1, <1>1 DEF StateInv, Stand, Place
<1>3. QueueInv
  BY <1>1, EmptyHasNone DEF QueueInv, Holds
<1>4. ServesInv
  BY <1>1 DEF ServesInv, Busy
<1>5. CountInv
  <2>1. Standing(Waiting) = {}
    BY <1>1 DEF Standing, Waiting
  <2>2. Open = {}
    BY <1>1 DEF Open
  <2>3. FdLimit \in Nat
    BY HttpAssumption
  <2> QED BY <2>1, <2>2, <2>3, <1>1, FS_EmptySet DEF CountInv
<1>6. EndInv /\ BurstInv
  BY <1>1 DEF EndInv, BurstInv, Thread
<1> QED BY <1>2, <1>3, <1>4, <1>5, <1>6 DEF IInv

\* Every step keeps the invariant.
LEMMA NextKeeps ==
    ASSUME IInv, [Next]_vars
    PROVE  IInv'
<1>1. CASE UNCHANGED vars
  <2>1. Plain
    BY <1>1 DEF vars, net, pool, Plain, IInv, StateInv
  <2> QED BY <2>1, PlainKeeps
<1>2. ASSUME NEW t \in Thread, Work(t) PROVE IInv'
  BY <1>2, TakeKeeps, WaitKeeps, QuitKeeps, ReadyKeeps, EndedKeeps, KeepAliveTimesOutKeeps,
     CloseSocketKeeps DEF Work
<1>3. ASSUME Listen PROVE IInv'
  BY <1>3, AcceptKeeps, SpawnFailsKeeps, NotifyKeeps, JoinKeeps DEF Listen
<1> QED
  BY <1>1, <1>2, <1>3, AcceptFailsKeeps, AnswerKeeps, ConnectKeeps, BrowserKeeps DEF Next

\* The invariant holds in every reachable state, for any number of connections, fixed
\* and dynamic threads and descriptors.
THEOREM Invariance == Spec => []IInv
BY InitHolds, NextKeeps, PTL DEF Spec

\* idle_thread_count_ is exact, every accepted connection is once in the queue or with
\* one thread, and there is a descriptor for each.
THEOREM TypeCorrect == Spec => []TypeOK
<1>1. ASSUME IInv PROVE TypeOK
  <2>1. StateInv /\ QueueInv /\ ServesInv /\ CountInv
    BY <1>1 DEF IInv
  <2>2. idle = Cardinality({t \in Thread : thr[t] \in {"wait", "woken"}})
    BY <2>1 DEF CountInv, Standing, Waiting
  <2>3. ASSUME NEW c \in Conn
        PROVE  Cardinality({i \in DOMAIN jobs : jobs[i] = c}) = IF link[c] = "jobs" THEN 1 ELSE 0
    <3> DEFINE D == {i \in DOMAIN jobs : jobs[i] = c}
    <3>1. DOMAIN jobs = 1..Len(jobs)
      BY <2>1, LenProperties DEF StateInv
    <3>2. Distinct(jobs) /\ (link[c] = "jobs" <=> In(c, jobs))
      BY <2>1 DEF QueueInv, Holds
    <3>3. CASE link[c] = "jobs"
      <4>1. PICK k \in 1..Len(jobs) : jobs[k] = c
        BY <3>2, <3>3 DEF In
      <4>2. D = {k}
        BY <3>1, <3>2, <4>1 DEF Distinct
      <4> QED BY <3>3, <4>2, FS_Singleton
    <3>4. CASE link[c] # "jobs"
      <4>1. D = {}
        BY <3>1, <3>2, <3>4 DEF In
      <4> QED BY <3>4, <4>1, FS_EmptySet
    <3> QED BY <3>3, <3>4
  <2>4. ASSUME NEW c \in Conn
        PROVE  Cardinality({t \in Thread : serves[t] = c}) = IF link[c] = "served" THEN 1 ELSE 0
    <3> DEFINE D == {t \in Thread : serves[t] = c}
    <3>1. c # NoConn
      BY DEF Conn, NoConn
    <3>2. CASE link[c] = "served"
      <4>1. PICK t \in Thread : serves[t] = c
        BY <2>1, <3>2 DEF ServesInv
      <4>2. D = {t}
        BY <2>1, <3>1, <4>1 DEF ServesInv
      <4> QED BY <3>2, <4>2, FS_Singleton
    <3>3. CASE link[c] # "served"
      <4>1. D = {}
        BY <2>1, <3>1, <3>3 DEF ServesInv
      <4> QED BY <3>3, <4>1, FS_EmptySet
    <3> QED BY <3>2, <3>3
  <2>5. \A c \in Conn : link[c] \in Place
    BY <2>1 DEF StateInv
  <2>6. /\ main \in {"accept", "notify", "join", "returned", "aborted"}
        /\ thr \in [Thread -> Stand] /\ Cardinality(Open) <= FdLimit
    BY <2>1 DEF StateInv, CountInv
  <2> QED BY <2>2, <2>3, <2>4, <2>5, <2>6 DEF TypeOK, Place, Stand
<1> QED BY <1>1, Invariance, PTL

\* A connection waits for busy threads although one more could be made only after a
\* burst: otherwise there is a waiting or free thread for each job.
THEOREM OnlyBurstsStrand == Spec => []StrandedOnlyByBurst
<1>1. ASSUME IInv PROVE StrandedOnlyByBurst
  <2>1. SUFFICES ASSUME jobs # <<>>, Cardinality(Live) < Cardinality(Thread),
                        \A t \in Live : thr[t] \in {"keepalive", "handle"}
                 PROVE  burst
    BY DEF StrandedOnlyByBurst
  <2>2. Standing(Available) = {}
    <3>1. \A t \in Thread : thr[t] \notin Available
      <4>1. \A t \in Thread : t \in Live <=> thr[t] \notin {"none", "done"}
        BY LiveIs
      <4> QED BY <2>1, <4>1 DEF Available
    <3> QED BY <3>1 DEF Standing
  <2>3. Cardinality(Standing(Available)) = 0
    BY <2>2, FS_EmptySet
  <2>4. ~(Len(jobs) <= 0)
    <3>1. jobs \in Seq(Conn)
      BY <1>1 DEF IInv, StateInv
    <3> QED BY <2>1, <3>1, EmptySeq, LenProperties
  <2>5. Live # Thread
    BY <2>1, LiveIs
  <2> QED BY <1>1, <2>1, <2>3, <2>4, <2>5 DEF IInv, BurstInv
<1> QED BY <1>1, Invariance, PTL

\* When listen returns no connection is left, neither in the queue nor with a thread:
\* the last fixed thread left only after the last job.
THEOREM ReturnsDrained == Spec => []Drained
<1>1. ASSUME IInv PROVE Drained
  <2>1. SUFFICES ASSUME main = "returned" PROVE Open = {} /\ \A t \in Thread : serves[t] = NoConn
    BY DEF Drained
  <2>2. StateInv /\ QueueInv /\ ServesInv /\ EndInv
    BY <1>1 DEF IInv
  <2>3. Live = {} /\ \A t \in Thread : thr[t] \in {"none", "done"}
    BY <2>1, <2>2, LiveIs DEF EndInv
  <2>4. \A t \in Thread : serves[t] = NoConn
    BY <2>2, <2>3 DEF ServesInv, Busy
  <2>5. jobs = <<>>
    <3>1. PICK t \in Base : t \in Thread
      BY HttpAssumption DEF Thread
    <3> QED BY <2>2, <2>3, <3>1 DEF EndInv
  <2>6. \A c \in Conn : link[c] # "jobs"
    BY <2>2, <2>5, EmptyHasNone DEF QueueInv, Holds
  <2>7. \A c \in Conn : link[c] # "served"
    <3>1. NoConn \notin Conn
      BY DEF NoConn, Conn
    <3> QED BY <2>2, <2>4, <3>1 DEF ServesInv
  <2> QED BY <2>4, <2>6, <2>7 DEF Open
<1> QED BY <1>1, Invariance, PTL
=============================================================================
