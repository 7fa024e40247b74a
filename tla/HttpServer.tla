----------------------------- MODULE HttpServer -----------------------------
(***************************************************************************)
(* How the web server runs its handlers: the accept loop of                *)
(* httplib::Server, its ThreadPool with a fixed and a dynamic part, and    *)
(* the keep-alive loop of a connection.  Every block of code that the      *)
(* pool's mutex protects is one action here.                               *)
(***************************************************************************)
EXTENDS Integers, Sequences, FiniteSets

CONSTANTS
    Connections,   \* how many connections browsers make
    Base,          \* threads_: the threads the pool is made with
    Dynamic,       \* names for dynamic_threads_, as many as may be added
    FdLimit,       \* how many connections the process has descriptors for
    Backlog,       \* how many connections wait in the listening socket
    KeepAliveMax,  \* keep_alive_max_count_
    MaxRequests    \* bound: requests a browser sends on each connection

ASSUME HttpAssumption ==
    /\ Base # {} /\ Base \cap Dynamic = {} /\ IsFiniteSet(Base \cup Dynamic)
    /\ {FdLimit, Backlog, KeepAliveMax} \subseteq Nat \ {0} /\ Connections \in Nat
    /\ MaxRequests \in [1..Connections -> Nat]

VARIABLES
    main,      \* where listen_internal stands
    backlog,   \* connections made and not yet accepted
    jobs,      \* jobs_: accepted connections waiting for a thread
    shutdown,  \* shutdown_
    idle,      \* idle_thread_count_
    thr,       \* where each thread stands
    serves,    \* the connection whose job a thread runs
    link,      \* the server's side of each connection
    req,       \* the request that is on the connection and not answered
    gone,      \* the connections that their browser has closed first
    answered,  \* how many requests of each connection its thread has answered
    burst      \* history: since the queue was last empty, a connection came when
               \* the idle threads were all needed for those before it

net  == <<backlog, gone>>
pool == <<jobs, shutdown, idle>>
vars == <<main, net, pool, thr, serves, link, req, answered, burst>>

Conn == 1..Connections  \* in the order they come
Thread == Base \cup Dynamic
NoConn == 0

Live == {t \in Thread : thr[t] \notin {"none", "done"}}
Spawns == idle = 0 /\ Cardinality(Live) < Cardinality(Thread)
Listening == main \in {"accept", "notify"}
Open == {c \in Conn : link[c] \in {"jobs", "served"}}

\* A worker takes the mutex: for the first time, after a notification, or, in
\* the dynamic part, when its time to wait is over.
Awake(t) == thr[t] \in {"free", "woken"} \/ (t \in Dynamic /\ thr[t] = "wait")
\* A worker that leaves cond_.wait is no longer counted as idle.
BugStaysCounted(t) == 0
Counted(t) == IF thr[t] \in {"wait", "woken"} THEN 1 ELSE 0

\* A worker leaves when the pool shuts down and nothing is left to do, a dynamic
\* one also when it has waited in vain.
BugQuitsWithJobs == shutdown
MayQuit == shutdown /\ jobs = <<>>
BugWaitsInVain == ~shutdown
InVain == jobs = <<>> /\ ~shutdown

\* Who waits for a job or for the end: notify_one wakes one of them, notify_all all.
BugWakesNobody == {}
ToWake == {t \in Thread : thr[t] = "wait"}

\* An idle connection is kept for keep_alive_timeout_sec_.
BugNoTimeout == FALSE
KeepAliveEnds == TRUE
-----------------------------------------------------------------------------
Init ==
    /\ main = "accept" /\ backlog = <<>>
    /\ jobs = <<>> /\ shutdown = FALSE /\ idle = 0
    /\ thr = [t \in Thread |-> IF t \in Base THEN "free" ELSE "none"]
    /\ serves = [t \in Thread |-> NoConn]
    /\ link = [c \in Conn |-> "none"]
    /\ req = [c \in Conn |-> "none"] /\ gone = {}
    /\ answered = [c \in Conn |-> 0]
    /\ burst = FALSE
-----------------------------------------------------------------------------
(***************************************************************************)
(* listen_internal and ThreadPool::enqueue.  With the table of descriptors *)
(* full accept fails and is tried again: Accept waits.                     *)
(***************************************************************************)
Accept ==
    /\ main = "accept" /\ backlog # <<>>
    /\ Cardinality(Open) < FdLimit
    /\ main' = "notify"
    /\ backlog' = Tail(backlog)
    /\ link' = [link EXCEPT ![Head(backlog)] = "jobs"]
    /\ jobs' = Append(jobs, Head(backlog))
    /\ burst' = (burst \/ (idle # 0 /\ Len(jobs) >= idle))
    /\ IF Spawns
       THEN \E new \in Dynamic \ Live :
              thr' = [t \in Thread |-> CASE t = new -> "free"
                                         [] t \in Dynamic \ (Live \cup {new}) -> "none"
                                         [] OTHER -> thr[t]]
       ELSE UNCHANGED thr
    /\ UNCHANGED <<shutdown, idle, serves, req, gone, answered>>

\* No thread can be made for the job: nothing catches the exception.
SpawnFails ==
    /\ main = "accept" /\ backlog # <<>>
    /\ Cardinality(Open) < FdLimit /\ Spawns
    /\ main' = "aborted"
    /\ UNCHANGED <<net, pool, thr, serves, link, req, answered, burst>>

\* cond_.notify_one(), after the mutex is released.
Notify ==
    /\ main = "notify"
    /\ main' = "accept"
    /\ IF ToWake = {} THEN UNCHANGED thr
       ELSE \E t \in ToWake : thr' = [thr EXCEPT ![t] = "woken"]
    /\ UNCHANGED <<net, pool, serves, link, req, answered, burst>>

\* Any other error of accept ends the loop, and the pool is shut down.
AcceptFails ==
    /\ main = "accept"
    /\ main' = "join"
    /\ shutdown' = TRUE
    /\ thr' = [t \in Thread |-> IF t \in ToWake THEN "woken" ELSE thr[t]]
    /\ backlog' = <<>>
    /\ link' = [c \in Conn |-> IF link[c] = "backlog" THEN "reset" ELSE link[c]]
    /\ UNCHANGED <<jobs, idle, serves, req, gone, answered, burst>>

Join ==
    /\ main = "join" /\ Live = {}
    /\ main' = "returned"
    /\ UNCHANGED <<net, pool, thr, serves, link, req, answered, burst>>
-----------------------------------------------------------------------------
(***************************************************************************)
(* ThreadPool::worker                                                      *)
(***************************************************************************)
Up == main # "aborted"

Take(t) ==
    /\ Up /\ Awake(t) /\ jobs # <<>>
    /\ idle' = idle - Counted(t)
    /\ jobs' = Tail(jobs)
    /\ thr' = [thr EXCEPT ![t] = "keepalive"]
    /\ serves' = [serves EXCEPT ![t] = Head(jobs)]
    /\ link' = [link EXCEPT ![Head(jobs)] = "served"]
    /\ burst' = (burst /\ Len(jobs) > 1)
    /\ UNCHANGED <<main, net, shutdown, req, answered>>

Wait(t) ==
    /\ Up /\ thr[t] \in {"free", "woken"} /\ jobs = <<>> /\ ~shutdown
    /\ idle' = idle + 1 - Counted(t)
    /\ thr' = [thr EXCEPT ![t] = "wait"]
    /\ UNCHANGED <<main, net, jobs, shutdown, serves, link, req, answered, burst>>

Quit(t) ==
    /\ Up /\ Awake(t)
    /\ MayQuit \/ (t \in Dynamic /\ thr[t] # "free" /\ InVain)
    /\ idle' = idle - Counted(t)
    /\ thr' = [thr EXCEPT ![t] = "done"]
    /\ UNCHANGED <<main, net, jobs, shutdown, serves, link, req, answered, burst>>
-----------------------------------------------------------------------------
(***************************************************************************)
(* process_and_close_socket with its keep-alive loop                       *)
(***************************************************************************)
Serving(t, where) == Up /\ thr[t] = where
Goes(t, where) == thr' = [thr EXCEPT ![t] = where]

\* select() says that there is something to read: a request ...
Ready(t) ==
    /\ Serving(t, "keepalive") /\ req[serves[t]] # "none"
    /\ Goes(t, "handle")
    /\ UNCHANGED <<main, net, pool, serves, link, req, answered, burst>>

\* ... or the end of the stream, which process_request takes for its last.
Ended(t) ==
    /\ Serving(t, "keepalive") /\ req[serves[t]] = "none" /\ serves[t] \in gone
    /\ Goes(t, "close")
    /\ UNCHANGED <<main, net, pool, serves, link, req, answered, burst>>

KeepAliveTimesOut(t) ==
    /\ Serving(t, "keepalive") /\ req[serves[t]] = "none"
    /\ KeepAliveEnds
    /\ Goes(t, "close")
    /\ UNCHANGED <<main, net, pool, serves, link, req, answered, burst>>

\* The handler returns, or throws, and the response is written.  With the
\* browser gone that may be an error, never a signal.
Answer(t, kinds) ==
    LET c == serves[t] IN
    /\ Serving(t, "handle") /\ req[c] \in kinds
    /\ req' = [req EXCEPT ![c] = "none"]
    /\ answered' = [answered EXCEPT ![c] = @ + 1]
    /\ \/ answered'[c] < KeepAliveMax /\ Goes(t, "keepalive")
       \/ (answered'[c] = KeepAliveMax \/ c \in gone) /\ Goes(t, "close")
    /\ UNCHANGED <<main, net, pool, serves, link, burst>>

CloseSocket(t) ==
    /\ Serving(t, "close")
    /\ Goes(t, "free")
    /\ serves' = [serves EXCEPT ![t] = NoConn]
    /\ link' = [link EXCEPT ![serves[t]] = "closed"]
    /\ answered' = [answered EXCEPT ![serves[t]] = 0]
    /\ gone' = gone \ {serves[t]}
    /\ UNCHANGED <<main, backlog, pool, req, burst>>
-----------------------------------------------------------------------------
(***************************************************************************)
(* The browsers.  An upload is answered when its benchmark ends, which may *)
(* be never; every other handler returns.                                  *)
(***************************************************************************)
Connect(c) ==
    /\ link[c] = "none" /\ \A b \in 1..(c - 1) : link[b] # "none"
    /\ \/ /\ Listening /\ Len(backlog) < Backlog
          /\ backlog' = Append(backlog, c)
          /\ link' = [link EXCEPT ![c] = "backlog"]
       \/ /\ ~Listening
          /\ link' = [link EXCEPT ![c] = "reset"]
          /\ UNCHANGED backlog
    /\ UNCHANGED <<main, pool, thr, serves, req, gone, answered, burst>>

Send(c) ==
    /\ link[c] \in {"backlog", "jobs", "served"} /\ c \notin gone
    /\ req[c] = "none" /\ answered[c] < MaxRequests[c]
    /\ \E kind \in {"quick", "upload"} : req' = [req EXCEPT ![c] = kind]
    /\ UNCHANGED <<main, backlog, gone, pool, thr, serves, link, answered, burst>>

Leave(c) ==
    /\ link[c] \in {"backlog", "jobs", "served"} /\ c \notin gone
    /\ gone' = gone \cup {c}
    /\ UNCHANGED <<main, backlog, pool, thr, serves, link, req, answered, burst>>
-----------------------------------------------------------------------------
Listen == Accept \/ SpawnFails \/ Notify \/ Join
Work(t) ==
    \/ Take(t) \/ Wait(t) \/ Quit(t)
    \/ Ready(t) \/ Ended(t) \/ KeepAliveTimesOut(t) \/ CloseSocket(t)

Next ==
    \/ Listen \/ AcceptFails
    \/ \E t \in Thread : Work(t) \/ Answer(t, {"quick", "upload"})
    \/ \E c \in Conn : Connect(c) \/ Send(c) \/ Leave(c)

Spec == Init /\ [][Next]_vars

\* Threads run when they can and handlers return, but uploads need not.
FairSpec ==
    /\ Spec
    /\ WF_vars(Listen)
    /\ \A t \in Thread : WF_vars(Work(t)) /\ WF_vars(Answer(t, {"quick"}))
-----------------------------------------------------------------------------
(***************************************************************************)
(* Type correctness of server and pool: idle_thread_count_ counts exactly  *)
(* the waiting threads, every accepted connection is either in the queue,  *)
(* once, or with one thread, and there are descriptors for all of them.    *)
(***************************************************************************)
TypeOK ==
    /\ main \in {"accept", "notify", "join", "returned", "aborted"}
    /\ thr \in [Thread -> {"none", "free", "wait", "woken", "keepalive", "handle", "close", "done"}]
    /\ idle = Cardinality({t \in Thread : thr[t] \in {"wait", "woken"}})
    /\ \A c \in Conn :
         /\ link[c] \in {"none", "backlog", "jobs", "served", "closed", "reset"}
         /\ Cardinality({i \in DOMAIN jobs : jobs[i] = c}) = IF link[c] = "jobs" THEN 1 ELSE 0
         /\ Cardinality({t \in Thread : serves[t] = c}) = IF link[c] = "served" THEN 1 ELSE 0
    /\ Cardinality(Open) <= FdLimit

(***************************************************************************)
(* A connection waits for a busy thread although one more could be made    *)
(* only after a burst: it, or one queued with it, came while every idle    *)
(* thread was already needed (enqueue looks at idle_thread_count_, which   *)
(* counts threads that were notified and did not run yet).                 *)
(***************************************************************************)
StrandedOnlyByBurst ==
    jobs # <<>> /\ Cardinality(Live) < Cardinality(Thread)
      /\ (\A t \in Live : thr[t] \in {"keepalive", "handle"})
    => burst

(***************************************************************************)
(* When listen returns every connection that was accepted has had its      *)
(* turn: shutdown() lets the queue run empty and joins all threads.        *)
(***************************************************************************)
Drained == main = "returned" => Open = {} /\ \A t \in Thread : serves[t] = NoConn

(***************************************************************************)
(* A request that was sent before its connection had a thread is answered, *)
(* also when descriptors or threads were used up, unless it is an upload   *)
(* that does not return, all the pool's threads are in such uploads, or a  *)
(* burst left it stranded: idle browsers alone never keep it waiting.      *)
(***************************************************************************)
Uploading(t) == thr[t] = "handle" /\ req[serves[t]] = "upload"

Served ==
    \A c \in Conn :
        (link[c] \in {"backlog", "jobs"} /\ req[c] # "none") ~>
            \/ req[c] = "none" \/ link[c] = "reset" \/ ~Up
            \/ \A t \in Thread : Uploading(t)
            \/ \E t \in Thread : Uploading(t) /\ (burst \/ serves[t] = c)

(***************************************************************************)
(* A server whose accept loop has ended comes to its end, too: no thread   *)
(* of the pool and no idle browser keep it from returning, only an upload. *)
(***************************************************************************)
ShutdownEnds ==
    (main = "join") ~> (main = "returned" \/ \E t \in Thread : Uploading(t))
=============================================================================
