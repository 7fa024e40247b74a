----------------------------- MODULE TcpServer -----------------------------
(***************************************************************************)
(* TcpServer::run with the process around it: the accept loops of its      *)
(* servers, a detached thread per client running handle_client, and the    *)
(* table of descriptors and the threads they all draw on.  The exchange    *)
(* and the PQC proxy have one server; the TLS proxy has two, and the       *)
(* handlers of the first (entry, the main thread) are the clients of the   *)
(* second (decrypt, a detached thread).  What goes through a connection is *)
(* in PqcTunnel, TlsTunnel and MockBist.                                   *)
(***************************************************************************)
EXTENDS Integers, FiniteSets, Sequences, SequencesExt

CONSTANTS
    Programs,  \* the programs: how many servers, whether a handler opens a
               \* second connection, which clients come, and how many
               \* descriptors and client threads the process may have
    Backlog    \* how many connections wait in a listening socket

ASSUME ServerAssumption ==
    /\ \A p \in Programs :
        /\ p.servers \in 1..2 /\ p.proxy \in BOOLEAN /\ (p.servers = 2 => p.proxy)
        /\ p.fds \in Nat \ {0} /\ p.threads \in Nat
    /\ Backlog \in Nat \ {0}

VARIABLES
    program, \* which program runs
    process, \* whether it still does
    loop,    \* where each server's run() and its caller stand
    queue,   \* connections made to a server and not yet accepted
    conn,    \* what became of each client's connection to each server
    fds,     \* the open descriptors: <<server, whose, which>>
    peak,    \* history: the most handlers that ran at one time
    leaks,   \* history: how often a socket was left to nobody
    broken   \* history: the servers whose accept() failed with room in the table

vars == <<program, process, loop, queue, conn, fds, peak, leaks, broken>>

Server == 1..program.servers
Client == program.clients
LastServer == program.servers
Handlers == Server \X Client

Listener(i) == <<i, "server", "listen">>
ClientFd(i, c) == <<i, c, "client">>
Up(i, c) == <<i, c, "up">>

\* The handlers that have a thread.
Live == {"accepted", "handling", "connecting", "handshake", "shaken", "relay"}
At(S) == {h \in Handlers : conn[h[1]][h[2]] \in S}
Served == At(Live)
\* A proxy's handler makes two more threads for its relay.
Threads == Cardinality(Served) + IF program.proxy THEN 2 * Cardinality(At({"relay"})) ELSE 0
Running == process = "up"
FdLeft == Cardinality(fds) < program.fds
Larger(a, b) == IF a < b THEN b ELSE a

Becomes(i, c, s) == conn' = [conn EXCEPT ![i][c] = s]
\* What every client sees when the process ends.
CutAll == conn' = [i \in Server |-> [c \in Client |->
                     IF conn[i][c] \in Live THEN "cut"
                     ELSE IF conn[i][c] = "queued" THEN "reset" ELSE conn[i][c]]]

\* handle_client closes its descriptors when it returns.
BugLeavesUpstream(i, c) == {ClientFd(i, c)}
BugClosesListener(i, c) == {ClientFd(i, c), Up(i, c), Listener(i)}
Closes(i, c) == {ClientFd(i, c), Up(i, c)}

\* A handler that was refused upstream, or that throws, closes the client's descriptor only.
BugRefusedClosesNone(i, c) == {}
RefusedCloses(i, c) == {ClientFd(i, c)}

\* accept() can have a descriptor.
CanAccept == FdLeft

\* The threads are detached: run() returns without waiting for them.
BugJoinsHandlers(i) == \A c \in Client : conn[i][c] \notin Live
MayReturn(i) == TRUE
-----------------------------------------------------------------------------
Init ==
    /\ program \in Programs
    /\ process = "up"
    /\ loop = [i \in Server |-> "init"]
    /\ queue = [i \in Server |-> <<>>]
    /\ conn = [i \in Server |-> [c \in Client |-> "none"]]
    /\ fds = {} /\ peak = 0 /\ leaks = 0 /\ broken = {}

\* init() makes the listening socket ...
Listen(i) ==
    /\ Running /\ loop[i] = "init" /\ FdLeft
    /\ loop' = [loop EXCEPT ![i] = "accept"]
    /\ fds' = fds \cup {Listener(i)}
    /\ UNCHANGED <<program, process, queue, conn, peak, leaks, broken>>

\* ... or throws (no descriptor, the port is taken).
ListenFails(i) ==
    /\ Running /\ loop[i] = "init"
    /\ loop' = [loop EXCEPT ![i] = "failed"]
    /\ UNCHANGED <<program, process, queue, conn, fds, peak, leaks, broken>>

\* accept() succeeds and a detached thread takes the connection.
Accept(i) ==
    /\ Running /\ loop[i] = "accept" /\ queue[i] # <<>>
    /\ CanAccept /\ Threads < program.threads
    /\ queue' = [queue EXCEPT ![i] = Tail(@)]
    /\ Becomes(i, Head(queue[i]), "accepted")
    /\ fds' = fds \cup {ClientFd(i, Head(queue[i]))}
    /\ peak' = Larger(peak, Cardinality(Served) + 1)
    /\ UNCHANGED <<program, process, loop, leaks, broken>>

\* accept() fails for want of a descriptor, at once or when a client comes (the
\* kernels differ): the loop is left and run() returns.
AcceptFails(i) ==
    /\ Running /\ loop[i] = "accept"
    /\ ~CanAccept
    /\ loop' = [loop EXCEPT ![i] = "returned"]
    /\ UNCHANGED <<program, process, queue, conn, fds, peak, leaks, broken>>

\* Or it fails for another reason, at any time and with any clients waiting: one that
\* has gone before it was accepted, an error that is pending on its connection, or
\* descriptors or buffers that the whole system has run out of.  The loop is left just
\* the same.  (Where the client at the head is lost with the error, it is among those
\* that the destructor's close() resets.)
AcceptErrs(i) ==
    /\ Running /\ loop[i] = "accept"
    /\ CanAccept
    /\ loop' = [loop EXCEPT ![i] = "returned"]
    /\ broken' = broken \cup {i}
    /\ UNCHANGED <<program, process, queue, conn, fds, peak, leaks>>

\* No thread can be made for the accepted client: the exception leaves run(), and
\* the accepted socket stays open with nobody to read it.
AcceptThrows(i) ==
    /\ Running /\ loop[i] = "accept" /\ queue[i] # <<>>
    /\ CanAccept /\ Threads >= program.threads
    /\ loop' = [loop EXCEPT ![i] = "returned"]
    /\ queue' = [queue EXCEPT ![i] = Tail(@)]
    /\ Becomes(i, Head(queue[i]), "orphan")
    /\ fds' = fds \cup {ClientFd(i, Head(queue[i]))}
    /\ leaks' = leaks + 1
    /\ UNCHANGED <<program, process, peak, broken>>

\* The destructor of the server: stop() closes the listening socket.
Stop(i) ==
    /\ Running /\ loop[i] = "returned" /\ MayReturn(i)
    /\ loop' = [loop EXCEPT ![i] = "stopped"]
    /\ queue' = [queue EXCEPT ![i] = <<>>]
    /\ conn' = [conn EXCEPT ![i] = [c \in Client |->
                  IF conn[i][c] = "queued" THEN "reset" ELSE conn[i][c]]]
    /\ fds' = fds \ {Listener(i)}
    /\ UNCHANGED <<program, process, peak, leaks, broken>>

\* The first server runs in main: when it has gone main returns, and with it every
\* detached thread ends.  The second has a thread of its own that only logs its end.
Exit ==
    /\ Running /\ loop[1] \in {"stopped", "failed"}
    /\ process' = "exited"
    /\ CutAll
    /\ queue' = [i \in Server |-> <<>>] /\ fds' = {}
    /\ UNCHANGED <<program, loop, peak, leaks, broken>>

Abort ==
    /\ process' = "aborted"
    /\ CutAll
    /\ queue' = [i \in Server |-> <<>>] /\ fds' = {}
    /\ UNCHANGED <<program, loop, peak, leaks, broken>>
-----------------------------------------------------------------------------
(***************************************************************************)
(* handle_client, as far as descriptors and threads go                     *)
(***************************************************************************)
Fails(i, c, closed) ==
    /\ Becomes(i, c, "failed")
    /\ fds' = fds \ closed
    /\ UNCHANGED <<program, process, loop, queue, peak, broken>>

Enter(i, c) ==
    /\ Running /\ conn[i][c] = "accepted"
    /\ Becomes(i, c, IF program.proxy THEN "handling" ELSE "relay")
    /\ UNCHANGED <<program, process, loop, queue, fds, peak, leaks, broken>>

\* The handler's thread may outlive the server object it was given: the call of
\* handle_client and the use of the SSL context are then undefined, and may crash
\* the process or go on as if nothing were amiss (the other actions).
UsesGoneServer(i, c) ==
    /\ Running /\ loop[i] = "stopped"
    /\ conn[i][c] = "accepted" \/ (i < LastServer /\ conn[i][c] = "connecting")
    /\ Abort

\* The decrypt server makes its second socket after the handshake, the others at once.
OpenUpstream(i, c) ==
    /\ Running /\ program.proxy /\ conn[i][c] = IF i = 2 THEN "shaken" ELSE "handling"
    /\ \/ /\ FdLeft
          /\ Becomes(i, c, "connecting")
          /\ fds' = fds \cup {Up(i, c)}
          /\ UNCHANGED <<program, process, loop, queue, peak, leaks, broken>>
       \* socket() fails, and so does the connect() on its result.
       \/ ~FdLeft /\ Fails(i, c, RefusedCloses(i, c)) /\ UNCHANGED leaks

UpstreamRefused(i, c) ==
    /\ Running /\ conn[i][c] = "connecting"
    /\ i < LastServer => Listener(i + 1) \notin fds
    /\ Fails(i, c, RefusedCloses(i, c))
    /\ leaks' = leaks + 1

\* The entry server connects to the decrypt server's backlog, and waits while it is full.
Dial(i, c) ==
    /\ Running /\ conn[i][c] = "connecting"
    /\ i < LastServer /\ Listener(i + 1) \in fds /\ Len(queue[i + 1]) < Backlog
    /\ conn' = [conn EXCEPT ![i][c] = "handshake", ![i + 1][c] = "queued"]
    /\ queue' = [queue EXCEPT ![i + 1] = Append(@, c)]
    /\ UNCHANGED <<program, process, loop, fds, peak, leaks, broken>>

\* SSL_connect and SSL_accept wait for each other, without a timeout.
Shake(c) ==
    /\ Running /\ LastServer = 2
    /\ conn[1][c] = "handshake" /\ conn[2][c] = "handling"
    /\ conn' = [conn EXCEPT ![1][c] = "shaken", ![2][c] = "shaken"]
    /\ UNCHANGED <<program, process, loop, queue, fds, peak, leaks, broken>>

\* SSL_connect fails, on its own or because the other end of it has gone.
ConnectShakeFails(c) ==
    /\ Running /\ LastServer = 2
    /\ conn[1][c] = "handshake" /\ conn[2][c] \in {"handling", "failed", "reset"}
    /\ Fails(1, c, Closes(1, c)) /\ UNCHANGED leaks

\* SSL_accept fails: the second socket has not been made yet.
AcceptShakeFails(c) ==
    /\ Running /\ LastServer = 2
    /\ conn[2][c] = "handling" /\ conn[1][c] \in {"handshake", "failed"}
    /\ Fails(2, c, {ClientFd(2, c)}) /\ UNCHANGED leaks

\* Everything is connected and the two threads of the relay are made ...
ReadyToRelay(i, c) == Running /\ program.proxy
                      /\ conn[i][c] = IF i < LastServer THEN "shaken" ELSE "connecting"
Relay(i, c) ==
    /\ ReadyToRelay(i, c) /\ Threads + 2 <= program.threads
    /\ Becomes(i, c, "relay")
    /\ UNCHANGED <<program, process, loop, queue, fds, peak, leaks, broken>>

\* ... or the first cannot be: the exception is caught around handle_client, where
\* only the client's descriptor is known.
RelayThrows(i, c) ==
    /\ ReadyToRelay(i, c) /\ Threads >= program.threads
    /\ Fails(i, c, RefusedCloses(i, c))
    /\ leaks' = leaks + 1

\* The second cannot: the first is destroyed unjoined, and std::terminate called.
RelayAborts(i, c) ==
    /\ ReadyToRelay(i, c) /\ Threads + 1 = program.threads
    /\ Abort

Finish(i, c) ==
    /\ Running /\ conn[i][c] = "relay"
    /\ Becomes(i, c, "done")
    /\ fds' = fds \ Closes(i, c)
    /\ UNCHANGED <<program, process, loop, queue, peak, leaks, broken>>

\* A client connects to the first server: the kernel queues it, or nobody listens.
Arrive(c) ==
    /\ conn[1][c] = "none"
    /\ \/ /\ Listener(1) \in fds /\ Len(queue[1]) < Backlog
          /\ queue' = [queue EXCEPT ![1] = Append(@, c)]
          /\ Becomes(1, c, "queued")
       \/ /\ Listener(1) \notin fds
          /\ Becomes(1, c, "reset")
          /\ UNCHANGED queue
    /\ UNCHANGED <<program, process, loop, fds, peak, leaks, broken>>
-----------------------------------------------------------------------------
Run(i) == Listen(i) \/ ListenFails(i) \/ Accept(i) \/ AcceptFails(i) \/ AcceptThrows(i) \/ Stop(i)
HandleClient(i, c) ==
    \/ Enter(i, c) \/ UsesGoneServer(i, c) \/ OpenUpstream(i, c) \/ UpstreamRefused(i, c)
    \/ Dial(i, c) \/ Relay(i, c) \/ RelayThrows(i, c) \/ RelayAborts(i, c)
Handshake(c) == Shake(c) \/ ConnectShakeFails(c) \/ AcceptShakeFails(c)

Next ==
    \/ \E i \in Server : Run(i) \/ AcceptErrs(i)
    \/ Exit
    \/ \E i \in Server, c \in Client : HandleClient(i, c) \/ Finish(i, c)
    \/ \E c \in Client : Handshake(c) \/ Arrive(c)

Spec == Init /\ [][Next]_vars

Clients == UNION {p.clients : p \in Programs}

\* Threads run when they can; a relay may last as long as its client likes, and
\* accept() need never fail while it can have a descriptor.
FairSpec ==
    /\ Spec
    /\ WF_vars(Exit)
    /\ \A i \in 1..2 :
        /\ WF_vars(i \in Server /\ Run(i))
        /\ \A c \in Clients : WF_vars(<<i, c>> \in Handlers /\ HandleClient(i, c))
    /\ \A c \in Clients : WF_vars(c \in Client /\ Handshake(c))
-----------------------------------------------------------------------------
(***************************************************************************)
(* Type correctness: the table is never over its limit, and a listening    *)
(* socket is open from init() to the destructor, whatever its handlers do. *)
(***************************************************************************)
TypeOK ==
    /\ program \in Programs
    /\ process \in {"up", "exited", "aborted"}
    /\ loop \in [Server -> {"init", "accept", "returned", "stopped", "failed"}]
    /\ queue \in [Server -> Seq(Client)]
    /\ conn \in [Server -> [Client -> Live \cup {"none", "queued", "orphan", "done",
                                                 "failed", "reset", "cut"}]]
    /\ fds \subseteq {Listener(i) : i \in Server}
                     \cup {ClientFd(h[1], h[2]) : h \in Handlers}
                     \cup {Up(h[1], h[2]) : h \in Handlers}
    /\ Cardinality(fds) <= program.fds
    /\ Running => \A i \in Server : Listener(i) \in fds <=> loop[i] \in {"accept", "returned"}
    /\ peak \in Nat /\ leaks \in Nat /\ broken \subseteq Server

(***************************************************************************)
(* Every open descriptor has an owner, but for one for each time a handler *)
(* that had made its second socket was refused upstream, or no thread      *)
(* could be made for a client or its relay: those nobody will ever close.  *)
(* In particular neither end of a failed TLS handshake leaves one.         *)
(***************************************************************************)
HasUp(i) == IF i < LastServer THEN {"connecting", "handshake", "shaken", "relay"}
            ELSE {"connecting", "relay"}
Owned ==
    {Listener(i) : i \in {j \in Server : loop[j] \in {"accept", "returned"}}}
    \cup {ClientFd(h[1], h[2]) : h \in Served}
    \cup {Up(h[1], h[2]) : h \in {g \in Handlers : program.proxy /\ conn[g[1]][g[2]] \in HasUp(g[1])}}

LeaksAreFailures ==
    Running =>
        /\ Owned \subseteq fds
        /\ Cardinality(fds \ Owned) = leaks

(***************************************************************************)
(* A server that has started leaves its loop only if its own accept() met  *)
(* an error from outside the program, or if the program had been made to   *)
(* run too many handlers at one time for its threads, or for the           *)
(* descriptors that failed connections have left it.  An error of the      *)
(* other server's accept() does not end it, nor do handlers that fail, and *)
(* the program aborts only after one of these.                             *)
(***************************************************************************)
FdsPerHandler == IF program.proxy THEN 2 ELSE 1
ThreadsPerHandler == IF program.proxy THEN 3 ELSE 1
Full ==
    \/ program.servers + peak * FdsPerHandler + leaks >= program.fds
    \/ peak * ThreadsPerHandler >= program.threads

GoesOnlyWhenFullOrBroken ==
    /\ process = "aborted" => Full \/ broken # {}
    /\ \A i \in Server : loop[i] \in {"returned", "stopped"} => Full \/ i \in broken

(***************************************************************************)
(* A client that has connected does not wait for another client to leave,  *)
(* nor a handler for a server of its own process that has gone: who stands *)
(* in a backlog is accepted or reset, and whoever was accepted gets        *)
(* through its connect and its handshake, or fails, also while the decrypt *)
(* server goes away and the entry server goes on.  The one exception is a  *)
(* connection that was accepted and then given to no thread: that socket   *)
(* stays open, nobody reads it, and SSL_connect waits on it for ever.      *)
(***************************************************************************)
SettingUp == (Live \ {"relay"}) \cup {"queued"}

Where(i, c) == IF <<i, c>> \in Handlers THEN conn[i][c] ELSE "none"

SetUpEnds ==
    \A i \in 1..2, c \in Clients :
        (Where(i, c) \in SettingUp)
            ~> (Where(i, c) \notin SettingUp \/ (i = 1 /\ Where(2, c) = "orphan"))
=============================================================================
