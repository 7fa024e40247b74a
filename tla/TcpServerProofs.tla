--------------------------- MODULE TcpServerProofs --------------------------
(***************************************************************************)
(* Proofs about TcpServer, for any programs of one or two servers, any     *)
(* clients, and any limits of descriptors, threads and backlog.            *)
(***************************************************************************)
EXTENDS TcpServer, FiniteSetTheorems, SequenceTheorems, TLAPS

-----------------------------------------------------------------------------
(***************************************************************************)
(* The inductive invariant of the accept loops and handlers, in parts.     *)
(***************************************************************************)
Fate == Live \cup {"none", "queued", "orphan", "done", "failed", "reset", "cut"}

StateInv ==
    /\ program \in Programs
    /\ process \in {"up", "exited", "aborted"}
    /\ loop \in [Server -> {"init", "accept", "returned", "stopped", "failed"}]
    /\ queue \in [Server -> Seq(Client)]
    /\ conn \in [Server -> [Client -> Fate]]
    /\ peak \in Nat /\ leaks \in Nat /\ broken \subseteq Server

\* Only proxies connect on, and a client is new to the second server until the
\* first has connected to it.
ChainInv ==
    /\ ~program.proxy =>
         \A i \in Server, c \in Client :
             conn[i][c] \notin {"handling", "connecting", "handshake", "shaken"}
    /\ LastServer = 2 =>
         \A c \in Client :
             conn[1][c] \in {"none", "queued", "accepted", "handling", "connecting"} =>
                 conn[2][c] = "none"

\* Who stands in a backlog does so once, and is not served yet.
QueueAt(i) ==
    /\ \A k \in 1..Len(queue[i]) : conn[i][queue[i][k]] = "queued"
    /\ \A k, l \in 1..Len(queue[i]) : queue[i][k] = queue[i][l] => k = l
QueueInv == \A i \in Server : QueueAt(i)

\* Which descriptors are open: those that are owned, the socket of an orphan, and
\* perhaps the second socket of a handler that failed.
HasOpened(i, c) == program.proxy /\ conn[i][c] \in HasUp(i)
ListenerAt(i) == Listener(i) \in fds <=> loop[i] \in {"accept", "returned"}
FdAt(i, c) ==
    /\ ClientFd(i, c) \in fds <=> conn[i][c] \in Live \cup {"orphan"}
    /\ HasOpened(i, c) => Up(i, c) \in fds
    /\ Up(i, c) \in fds => HasOpened(i, c) \/ conn[i][c] = "failed"
Names ==
    {Listener(i) : i \in Server}
    \cup {ClientFd(h[1], h[2]) : h \in Handlers}
    \cup {Up(h[1], h[2]) : h \in Handlers}
FdInv ==
    Running =>
        /\ fds \subseteq Names
        /\ \A i \in Server : ListenerAt(i)
        /\ \A i \in Server, c \in Client : FdAt(i, c)

\* The descriptors that nobody will close.
Leaked ==
    {x \in fds : \E i \in Server, c \in Client :
        \/ x = ClientFd(i, c) /\ conn[i][c] = "orphan"
        \/ x = Up(i, c) /\ conn[i][c] = "failed"}

\* How many descriptors and handlers there are.
CountInv ==
    /\ IsFiniteSet(fds) /\ Cardinality(fds) <= program.fds
    /\ IsFiniteSet(Served) /\ Cardinality(Served) <= peak
    /\ Running => Cardinality(Leaked) = leaks
    /\ ~Running => fds = {}

IInv == StateInv /\ ChainInv /\ QueueInv /\ FdInv /\ CountInv /\ GoesOnlyWhenFullOrBroken
-----------------------------------------------------------------------------
(***************************************************************************)
(* Names of descriptors, and the sets they are counted by.                 *)
(***************************************************************************)
\* The descriptors of different servers, clients and purposes are different.
LEMMA FdNames ==
    ASSUME NEW i, NEW c, NEW j, NEW d
    PROVE  /\ Listener(i) = Listener(j) <=> i = j
           /\ ClientFd(i, c) = ClientFd(j, d) <=> i = j /\ c = d
           /\ Up(i, c) = Up(j, d) <=> i = j /\ c = d
           /\ Listener(i) # ClientFd(j, d) /\ Listener(i) # Up(j, d)
           /\ ClientFd(i, c) # Up(j, d)
BY DEF Listener, ClientFd, Up

\* What the assumption says of the program that runs.
LEMMA ProgramFacts ==
    ASSUME StateInv
    PROVE  /\ program.servers \in 1..2 /\ program.proxy \in BOOLEAN
           /\ program.servers = 2 => program.proxy
           /\ program.fds \in Nat \ {0} /\ program.threads \in Nat
           /\ 1 \in Server /\ Server \subseteq 1..2 /\ LastServer = program.servers
           /\ \A i \in Server : i < LastServer => i = 1 /\ LastServer = 2
           /\ \A i \in Server : i \in Nat
           /\ LastServer = 2 => 2 \in Server
BY ServerAssumption DEF StateInv, Server, LastServer

\* The type of what became of a connection.
LEMMA ConnType ==
    ASSUME StateInv, NEW i \in Server, NEW c \in Client
    PROVE  conn[i] \in [Client -> Fate] /\ conn[i][c] \in Fate
BY DEF StateInv

\* A handler stands in a set of places if its connection does.
LEMMA AtIs ==
    ASSUME NEW S, NEW i \in Server, NEW c \in Client
    PROVE  <<i, c>> \in At(S) <=> conn[i][c] \in S
BY DEF At, Handlers

\* The descriptors that have an owner, by owner.
LEMMA OwnedIs ==
    ASSUME NEW x
    PROVE  x \in Owned <=>
             \/ \E i \in Server : x = Listener(i) /\ loop[i] \in {"accept", "returned"}
             \/ \E i \in Server, c \in Client : x = ClientFd(i, c) /\ conn[i][c] \in Live
             \/ \E i \in Server, c \in Client : x = Up(i, c) /\ HasOpened(i, c)
<1>1. x \in {Listener(i) : i \in {j \in Server : loop[j] \in {"accept", "returned"}}} <=>
        \E i \in Server : x = Listener(i) /\ loop[i] \in {"accept", "returned"}
  OBVIOUS
<1>2. x \in {ClientFd(h[1], h[2]) : h \in Served} <=>
        \E i \in Server, c \in Client : x = ClientFd(i, c) /\ conn[i][c] \in Live
  <2>1. ASSUME NEW h \in Served, x = ClientFd(h[1], h[2])
        PROVE  \E i \in Server, c \in Client : x = ClientFd(i, c) /\ conn[i][c] \in Live
    <3>1. h[1] \in Server /\ h[2] \in Client /\ conn[h[1]][h[2]] \in Live
      BY DEF Served, At, Handlers
    <3> QED BY <3>1, <2>1
  <2>2. ASSUME NEW i \in Server, NEW c \in Client, x = ClientFd(i, c), conn[i][c] \in Live
        PROVE  \E h \in Served : x = ClientFd(h[1], h[2])
    <3>1. <<i, c>> \in Served
      BY <2>2, AtIs DEF Served
    <3> QED BY <3>1, <2>2
  <2> QED BY <2>1, <2>2
<1>3. x \in {Up(h[1], h[2]) : h \in {g \in Handlers : program.proxy /\ conn[g[1]][g[2]] \in HasUp(g[1])}} <=>
        \E i \in Server, c \in Client : x = Up(i, c) /\ HasOpened(i, c)
  <2> DEFINE G == {g \in Handlers : program.proxy /\ conn[g[1]][g[2]] \in HasUp(g[1])}
  <2>1. ASSUME NEW h \in G, x = Up(h[1], h[2])
        PROVE  \E i \in Server, c \in Client : x = Up(i, c) /\ HasOpened(i, c)
    <3>1. h[1] \in Server /\ h[2] \in Client /\ HasOpened(h[1], h[2])
      BY DEF Handlers, HasOpened
    <3> QED BY <3>1, <2>1
  <2>2. ASSUME NEW i \in Server, NEW c \in Client, x = Up(i, c), HasOpened(i, c)
        PROVE  \E h \in G : x = Up(h[1], h[2])
    <3>1. <<i, c>> \in G
      BY <2>2 DEF Handlers, HasOpened
    <3> HIDE DEF G
    <3> QED BY <3>1, <2>2
  <2> HIDE DEF G
  <2>3. x \in {Up(h[1], h[2]) : h \in G} <=>
          \E i \in Server, c \in Client : x = Up(i, c) /\ HasOpened(i, c)
    BY <2>1, <2>2
  <2> QED BY <2>3 DEF G
<1> QED BY <1>1, <1>2, <1>3 DEF Owned

\* The open descriptors that have no owner are the leaked ones.
LEMMA LeakedIsUnowned ==
    ASSUME StateInv, FdInv, Running
    PROVE  fds \ Owned = Leaked
<1>n. \A i, c, j, d :
        /\ Listener(i) # ClientFd(j, d) /\ Listener(i) # Up(j, d)
        /\ ClientFd(i, c) # Up(j, d)
        /\ ClientFd(i, c) = ClientFd(j, d) <=> i = j /\ c = d
        /\ Up(i, c) = Up(j, d) <=> i = j /\ c = d
        /\ Listener(i) = Listener(j) <=> i = j
  BY FdNames
<1>o. \A x : x \in Owned <=>
        \/ \E i \in Server : x = Listener(i) /\ loop[i] \in {"accept", "returned"}
        \/ \E i \in Server, c \in Client : x = ClientFd(i, c) /\ conn[i][c] \in Live
        \/ \E i \in Server, c \in Client : x = Up(i, c) /\ HasOpened(i, c)
  BY OwnedIs
<1>m. \A x \in fds :
        \/ \E i \in Server : x = Listener(i) /\ loop[i] \in {"accept", "returned"}
        \/ \E i \in Server, c \in Client :
             x = ClientFd(i, c) /\ (conn[i][c] \in Live \/ conn[i][c] = "orphan")
        \/ \E i \in Server, c \in Client :
             x = Up(i, c) /\ (HasOpened(i, c) \/ conn[i][c] = "failed")
  <2>1. \A x \in Names : \/ \E i \in Server : x = Listener(i)
                         \/ \E i \in Server, c \in Client : x = ClientFd(i, c) \/ x = Up(i, c)
    BY DEF Names, Handlers
  <2> QED BY <2>1 DEF FdInv, FdAt, ListenerAt
<1>e. "orphan" \notin Live /\ \A i : "failed" \notin HasUp(i)
  BY DEF Live, HasUp
<1>1. ASSUME NEW x \in fds \ Owned PROVE x \in Leaked
  BY <1>o, <1>m DEF Leaked
<1>2. ASSUME NEW x \in Leaked PROVE x \in fds \ Owned
  <2>1. PICK i \in Server, c \in Client :
          \/ x = ClientFd(i, c) /\ conn[i][c] = "orphan"
          \/ x = Up(i, c) /\ conn[i][c] = "failed"
    BY DEF Leaked
  <2>2. x \in fds
    BY DEF Leaked
  <2>3. ~HasOpened(i, c) \/ conn[i][c] # "failed"
    BY <1>e DEF HasOpened
  <2> QED BY <1>o, <1>n, <1>e, <2>1, <2>2, <2>3, SMTT(40)
<1> QED BY <1>1, <1>2

\* What is open follows from what is owned and what has leaked.
LEMMA OwnedIsOpen ==
    ASSUME StateInv, FdInv, Running
    PROVE  Owned \subseteq fds
<1>o. \A x \in Owned :
        \/ \E i \in Server : x = Listener(i) /\ loop[i] \in {"accept", "returned"}
        \/ \E i \in Server, c \in Client : x = ClientFd(i, c) /\ conn[i][c] \in Live
        \/ \E i \in Server, c \in Client : x = Up(i, c) /\ HasOpened(i, c)
  BY DEF Owned, Served, At, Handlers, HasOpened
<1> QED BY <1>o DEF FdInv, FdAt, ListenerAt

\* The image of a finite set under a function is not larger than the set.
LEMMA ImageIsNoLarger ==
    ASSUME NEW S, IsFiniteSet(S), NEW f, NEW T,
           f \in [S -> T], \A t \in T : \E s \in S : f[s] = t
    PROVE  IsFiniteSet(T) /\ Cardinality(T) <= Cardinality(S)
<1>1. f \in Surjection(S, T)
  BY DEF Surjection
<1> QED BY <1>1, FS_Surjection

\* A union is not larger than its parts together.
LEMMA UnionIsNoLarger ==
    ASSUME NEW S, IsFiniteSet(S), NEW T, IsFiniteSet(T)
    PROVE  IsFiniteSet(S \cup T) /\ Cardinality(S \cup T) <= Cardinality(S) + Cardinality(T)
<1>1. IsFiniteSet(S \cap T)
  <2>1. S \cap T \in SUBSET S
    OBVIOUS
  <2> QED BY <2>1, FS_Subset
<1>2. Cardinality(S \cap T) \in Nat /\ Cardinality(S) \in Nat /\ Cardinality(T) \in Nat
  BY <1>1, FS_CardinalityType
<1>3. /\ IsFiniteSet(S \cup T)
      /\ Cardinality(S \cup T) = Cardinality(S) + Cardinality(T) - Cardinality(S \cap T)
  BY FS_Union
<1> QED BY <1>2, <1>3

\* The owned descriptors: one for each server and at most two for each handler.
LEMMA OwnedCount ==
    ASSUME StateInv, IsFiniteSet(Served)
    PROVE  /\ IsFiniteSet(Owned)
           /\ Cardinality(Owned) <= program.servers + Cardinality(Served) * FdsPerHandler
<1> DEFINE Up_ == {j \in Server : loop[j] \in {"accept", "returned"}}
           Opened == {g \in Handlers : program.proxy /\ conn[g[1]][g[2]] \in HasUp(g[1])}
           L == {Listener(i) : i \in Up_}
           C == {ClientFd(h[1], h[2]) : h \in Served}
           U == {Up(h[1], h[2]) : h \in Opened}
<1>s. IsFiniteSet(Server) /\ Cardinality(Server) = program.servers
  <2>1. 1 \in Int /\ program.servers \in Int /\ program.servers >= 1
    BY ProgramFacts
  <2> QED BY <2>1, FS_Interval DEF Server
<1>u. IsFiniteSet(Up_) /\ Cardinality(Up_) <= program.servers
  <2>1. Up_ \in SUBSET Server
    OBVIOUS
  <2> QED BY <2>1, <1>s, FS_Subset
<1>p. IsFiniteSet(Opened) /\ Cardinality(Opened) <= Cardinality(Served)
  <2>1. Opened \in SUBSET Served
    BY DEF Served, At, HasUp, Live
  <2> HIDE DEF Opened
  <2> QED BY <2>1, FS_Subset
<1>n. ~program.proxy => Opened = {}
  OBVIOUS
<1>o. Owned = L \cup C \cup U
  BY DEF Owned
<1> HIDE DEF Up_, Opened
<1>1. IsFiniteSet(L) /\ Cardinality(L) <= Cardinality(Up_)
  <2> DEFINE f == [i \in Up_ |-> Listener(i)]
  <2>1. f \in [Up_ -> L]
    OBVIOUS
  <2>2. \A t \in L : \E s \in Up_ : f[s] = t
    OBVIOUS
  <2> HIDE DEF f, L
  <2> QED BY <2>1, <2>2, <1>u, ImageIsNoLarger
<1>2. IsFiniteSet(C) /\ Cardinality(C) <= Cardinality(Served)
  <2> DEFINE f == [h \in Served |-> ClientFd(h[1], h[2])]
  <2>1. f \in [Served -> C]
    OBVIOUS
  <2>2. \A t \in C : \E s \in Served : f[s] = t
    OBVIOUS
  <2> HIDE DEF f, C
  <2> QED BY <2>1, <2>2, ImageIsNoLarger
<1>3. IsFiniteSet(U) /\ Cardinality(U) <= Cardinality(Opened)
  <2> DEFINE f == [h \in Opened |-> Up(h[1], h[2])]
  <2>1. f \in [Opened -> U]
    OBVIOUS
  <2>2. \A t \in U : \E s \in Opened : f[s] = t
    OBVIOUS
  <2> HIDE DEF f, U
  <2> QED BY <2>1, <2>2, <1>p, ImageIsNoLarger
<1> HIDE DEF L, C, U
<1>4. IsFiniteSet(L \cup C) /\ Cardinality(L \cup C) <= Cardinality(L) + Cardinality(C)
  BY <1>1, <1>2, UnionIsNoLarger
<1>5. /\ IsFiniteSet(L \cup C \cup U)
      /\ Cardinality(L \cup C \cup U) <= Cardinality(L \cup C) + Cardinality(U)
  BY <1>3, <1>4, UnionIsNoLarger
<1>6. /\ Cardinality(L) \in Nat /\ Cardinality(C) \in Nat /\ Cardinality(U) \in Nat
      /\ Cardinality(L \cup C) \in Nat /\ Cardinality(L \cup C \cup U) \in Nat
      /\ Cardinality(Up_) \in Nat /\ Cardinality(Opened) \in Nat
      /\ Cardinality(Served) \in Nat /\ program.servers \in Nat
  BY <1>1, <1>2, <1>3, <1>4, <1>5, <1>u, <1>p, FS_CardinalityType, ProgramFacts
<1>7. CASE program.proxy
  BY <1>7, <1>o, <1>1, <1>2, <1>3, <1>4, <1>5, <1>6, <1>u, <1>p DEF FdsPerHandler
<1>8. CASE ~program.proxy
  <2>1. Cardinality(Opened) = 0
    BY <1>8, <1>n, FS_EmptySet
  <2> QED
    BY <1>8, <2>1, <1>o, <1>1, <1>2, <1>3, <1>4, <1>5, <1>6, <1>u DEF FdsPerHandler
<1> QED BY <1>7, <1>8

\* How many threads the handlers have.
LEMMA ThreadCount ==
    ASSUME StateInv, IsFiniteSet(Served)
    PROVE  /\ Cardinality(Served) \in Nat /\ Threads \in Nat
           /\ Threads <= Cardinality(Served) * ThreadsPerHandler
           /\ program.proxy /\ Served # At({"relay"}) =>
                Threads + 2 <= Cardinality(Served) * ThreadsPerHandler
<1> DEFINE R == At({"relay"})
<1>1. R \in SUBSET Served
  BY DEF Served, At, Live
<1>2. IsFiniteSet(R) /\ Cardinality(R) <= Cardinality(Served)
      /\ (Cardinality(Served) = Cardinality(R) => Served = R)
  BY <1>1, FS_Subset
<1>3. Cardinality(R) \in Nat /\ Cardinality(Served) \in Nat
  BY <1>2, FS_CardinalityType
<1>4. Threads = Cardinality(Served) + IF program.proxy THEN 2 * Cardinality(R) ELSE 0
  BY DEF Threads
<1>r. Served # At({"relay"}) <=> Served # R
  OBVIOUS
<1> HIDE DEF R
<1>5. CASE program.proxy
  <2>1. Threads = Cardinality(Served) + 2 * Cardinality(R) /\ ThreadsPerHandler = 3
    BY <1>4, <1>5 DEF ThreadsPerHandler
  <2>2. Served # R => Cardinality(R) + 1 <= Cardinality(Served)
    BY <1>2, <1>3
  <2>3. PICK n \in Nat : n = Cardinality(Served)
    BY <1>3
  <2>4. PICK r \in Nat : r = Cardinality(R)
    BY <1>3
  <2>5. /\ n * ThreadsPerHandler = 3 * n /\ Threads = n + 2 * r
        /\ r <= n /\ (Served # R => r + 1 <= n)
    BY <2>1, <2>2, <2>3, <2>4, <1>2
  <2>6. /\ Threads \in Nat /\ Threads <= n * ThreadsPerHandler
        /\ Served # R => Threads + 2 <= n * ThreadsPerHandler
    BY <2>5
  <2> QED BY <2>3, <2>6, <1>r
<1>6. CASE ~program.proxy
  <2>1. Threads = Cardinality(Served) /\ ThreadsPerHandler = 1
    BY <1>3, <1>4, <1>6 DEF ThreadsPerHandler
  <2> QED BY <2>1, <1>3, <1>6
<1> QED BY <1>5, <1>6
-----------------------------------------------------------------------------
(***************************************************************************)
(* What a step that moves one connection leaves as it was.                 *)
(***************************************************************************)
Moved(i, c, s) ==
    \A j \in Server, d \in Client : conn'[j][d] = IF j = i /\ d = c THEN s ELSE conn[j][d]

\* One connection moves, the others stay.
LEMMA Moves ==
    ASSUME StateInv, NEW i \in Server, NEW c \in Client, NEW s \in Fate, Becomes(i, c, s)
    PROVE  Moved(i, c, s) /\ conn' \in [Server -> [Client -> Fate]]
<1>1. conn \in [Server -> [Client -> Fate]]
  BY DEF StateInv
<1> HIDE DEF Fate
<1>2. conn' = [conn EXCEPT ![i][c] = s]
  BY DEF Becomes
<1>3. conn' \in [Server -> [Client -> Fate]]
  BY <1>1, <1>2
<1>4. Moved(i, c, s)
  BY <1>1, <1>2 DEF Moved
<1> QED BY <1>3, <1>4

\* The names of servers and clients go with the program.
LEMMA SameNames ==
    ASSUME program' = program
    PROVE  /\ Server' = Server /\ Client' = Client /\ LastServer' = LastServer
           /\ Handlers' = Handlers
           /\ FdsPerHandler' = FdsPerHandler /\ ThreadsPerHandler' = ThreadsPerHandler
           /\ \A i : HasUp(i)' = HasUp(i)
BY DEF Server, Client, LastServer, Handlers, FdsPerHandler, ThreadsPerHandler, HasUp

\* The backlogs stay in order while they do not change and nobody leaves them.
LEMMA QueueStays ==
    ASSUME StateInv, QueueInv, program' = program, queue' = queue,
           \A j \in Server, d \in Client : conn[j][d] = "queued" => conn'[j][d] = "queued"
    PROVE  QueueInv'
<1>1. Server' = Server
  BY SameNames
<1>2. ASSUME NEW j \in Server PROVE QueueAt(j)'
  <2>1. QueueAt(j) /\ queue[j] \in Seq(Client)
    BY DEF QueueInv, StateInv
  <2>2. \A k \in 1..Len(queue[j]) : queue[j][k] \in Client
    BY <2>1, ElementOfSeq
  <2> QED BY <2>1, <2>2 DEF QueueAt
<1> QED BY <1>1, <1>2 DEF QueueInv

\* Which handlers have a thread after one connection has moved.
LEMMA ServedMoves ==
    ASSUME NEW i \in Server, NEW c \in Client, NEW s, Moved(i, c, s), program' = program
    PROVE  /\ s \in Live => Served' = Served \cup {<<i, c>>}
           /\ s \notin Live => Served' = Served \ {<<i, c>>}
<1>1. Handlers' = Handlers /\ Handlers = Server \X Client
  BY SameNames DEF Handlers
<1>2. Served' = {h \in Handlers : conn'[h[1]][h[2]] \in Live}
  BY <1>1 DEF Served, At, Live
<1>3. Served = {h \in Handlers : conn[h[1]][h[2]] \in Live}
  BY DEF Served, At
<1>4. ASSUME NEW h \in Handlers
      PROVE  conn'[h[1]][h[2]] = IF h = <<i, c>> THEN s ELSE conn[h[1]][h[2]]
  <2>1. h[1] \in Server /\ h[2] \in Client /\ (h = <<i, c>> <=> h[1] = i /\ h[2] = c)
    BY <1>1
  <2> QED BY <2>1 DEF Moved
<1>5. <<i, c>> \in Handlers
  BY <1>1
<1> QED BY <1>2, <1>3, <1>4, <1>5

\* The handlers with a thread are counted on when one connection moves.
LEMMA ServedCount ==
    ASSUME NEW i \in Server, NEW c \in Client, NEW s, Moved(i, c, s), program' = program,
           IsFiniteSet(Served)
    PROVE  /\ IsFiniteSet(Served')
           /\ Cardinality(Served) \in Nat /\ Cardinality(Served') \in Nat
           /\ Cardinality(Served') <= Cardinality(Served) + 1
           /\ s \notin Live \/ conn[i][c] \in Live => Cardinality(Served') <= Cardinality(Served)
<1>1. /\ s \in Live => Served' = Served \cup {<<i, c>>}
      /\ s \notin Live => Served' = Served \ {<<i, c>>}
  BY ServedMoves
<1>2. conn[i][c] \in Live => <<i, c>> \in Served
  BY AtIs DEF Served
<1>3. /\ IsFiniteSet(Served \cup {<<i, c>>})
      /\ Cardinality(Served \cup {<<i, c>>}) =
           IF <<i, c>> \in Served THEN Cardinality(Served) ELSE Cardinality(Served) + 1
  BY FS_AddElement
<1>4. /\ IsFiniteSet(Served \ {<<i, c>>})
      /\ Cardinality(Served \ {<<i, c>>}) <= Cardinality(Served)
  <2>1. Served \ {<<i, c>>} \in SUBSET Served
    OBVIOUS
  <2> QED BY <2>1, FS_Subset
<1>5. Cardinality(Served) \in Nat
  BY FS_CardinalityType
<1>6. IsFiniteSet(Served') => Cardinality(Served') \in Nat
  BY FS_CardinalityType
<1>7. CASE s \in Live
  <2>1. Served' = Served \cup {<<i, c>>}
    BY <1>1, <1>7
  <2>2. IsFiniteSet(Served') /\ Cardinality(Served') =
           IF <<i, c>> \in Served THEN Cardinality(Served) ELSE Cardinality(Served) + 1
    BY <2>1, <1>3
  <2> QED BY <2>2, <1>2, <1>5, <1>6, <1>7
<1>8. CASE s \notin Live
  <2>1. Served' = Served \ {<<i, c>>}
    BY <1>1, <1>8
  <2>2. IsFiniteSet(Served') /\ Cardinality(Served') <= Cardinality(Served)
    BY <2>1, <1>4
  <2> QED BY <2>2, <1>5, <1>6
<1> QED BY <1>7, <1>8

\* Nothing leaks, and nothing that leaked is closed, while no connection fails or is
\* orphaned and the descriptors of those that are stay open.
LEMMA LeakedStays ==
    ASSUME program' = program,
           \A j \in Server, d \in Client :
              /\ conn'[j][d] = "orphan" <=> conn[j][d] = "orphan"
              /\ conn[j][d] = "orphan" => (ClientFd(j, d) \in fds' <=> ClientFd(j, d) \in fds)
              /\ conn[j][d] = "failed" => (Up(j, d) \in fds' <=> Up(j, d) \in fds)
              /\ conn'[j][d] = "failed" <=> conn[j][d] = "failed"
    PROVE  Leaked' = Leaked
<1>1. Server' = Server /\ Client' = Client
  BY SameNames
<1>2. \A x : x \in Leaked <=> x \in fds /\ \E j \in Server, d \in Client :
        \/ x = ClientFd(j, d) /\ conn[j][d] = "orphan"
        \/ x = Up(j, d) /\ conn[j][d] = "failed"
  BY DEF Leaked
<1>3. \A x : x \in Leaked' <=> x \in fds' /\ \E j \in Server, d \in Client :
        \/ x = ClientFd(j, d) /\ conn'[j][d] = "orphan"
        \/ x = Up(j, d) /\ conn'[j][d] = "failed"
  BY <1>1 DEF Leaked, ClientFd, Up
<1> QED BY <1>2, <1>3

\* What one connection that fails, or is given to no thread, adds to it.
LEMMA LeakedMoves ==
    ASSUME NEW i \in Server, NEW c \in Client, NEW s, Moved(i, c, s), program' = program,
           conn[i][c] \notin {"orphan", "failed"},
           \A x : x \notin {ClientFd(i, c), Up(i, c)} => (x \in fds' <=> x \in fds)
    PROVE  /\ s \notin {"orphan", "failed"} => Leaked' = Leaked
           /\ s = "orphan" /\ ClientFd(i, c) \in fds' =>
                Leaked' = Leaked \cup {ClientFd(i, c)} /\ ClientFd(i, c) \notin Leaked
           /\ s = "failed" /\ Up(i, c) \notin fds' => Leaked' = Leaked
           /\ s = "failed" /\ Up(i, c) \in fds' =>
                Leaked' = Leaked \cup {Up(i, c)} /\ Up(i, c) \notin Leaked
<1>1. Server' = Server /\ Client' = Client
  BY SameNames
<1>2. \A x : x \in Leaked <=> x \in fds /\ \E j \in Server, d \in Client :
        \/ x = ClientFd(j, d) /\ conn[j][d] = "orphan"
        \/ x = Up(j, d) /\ conn[j][d] = "failed"
  BY DEF Leaked
<1>3. \A x : x \in Leaked' <=> x \in fds' /\ \E j \in Server, d \in Client :
        \/ x = ClientFd(j, d) /\ conn'[j][d] = "orphan"
        \/ x = Up(j, d) /\ conn'[j][d] = "failed"
  BY <1>1 DEF Leaked, ClientFd, Up
<1>4. \A j, d : /\ ClientFd(j, d) # Up(i, c) /\ Up(j, d) # ClientFd(i, c)
                /\ ClientFd(j, d) = ClientFd(i, c) <=> j = i /\ d = c
                /\ Up(j, d) = Up(i, c) <=> j = i /\ d = c
  BY FdNames
<1>5. ClientFd(i, c) \notin Leaked /\ Up(i, c) \notin Leaked
  BY <1>2, <1>4
<1>6. ASSUME NEW x, x \notin {ClientFd(i, c), Up(i, c)} PROVE x \in Leaked' <=> x \in Leaked
  BY <1>2, <1>3, <1>6 DEF Moved
<1>7. /\ ClientFd(i, c) \in Leaked' <=> ClientFd(i, c) \in fds' /\ s = "orphan"
      /\ Up(i, c) \in Leaked' <=> Up(i, c) \in fds' /\ s = "failed"
  BY <1>3, <1>4 DEF Moved
<1> QED BY <1>5, <1>6, <1>7

\* Once full, the history stays so.
LEMMA FullStays ==
    ASSUME StateInv, Full, program' = program,
           peak' \in Nat, peak' >= peak, leaks' \in Nat, leaks' >= leaks
    PROVE  Full'
<1>1. /\ program.servers \in Nat /\ program.fds \in Nat /\ program.threads \in Nat
      /\ peak \in Nat /\ leaks \in Nat
  BY ProgramFacts DEF StateInv
<1>2. FdsPerHandler' = FdsPerHandler /\ ThreadsPerHandler' = ThreadsPerHandler
  BY SameNames
<1>3. FdsPerHandler \in {1, 2} /\ ThreadsPerHandler \in {1, 3}
  BY DEF FdsPerHandler, ThreadsPerHandler
<1>m. ASSUME NEW k \in 1..3
      PROVE  /\ peak * k <= peak' * k /\ peak * k \in Nat /\ peak' * k \in Nat
  <2>1. k = 1 \/ k = 2 \/ k = 3
    OBVIOUS
  <2>2. \A a, b \in Nat : a <= b => a * 1 <= b * 1 /\ a * 2 <= b * 2 /\ a * 3 <= b * 3
    OBVIOUS
  <2>3. \A a \in Nat : a * 1 \in Nat /\ a * 2 \in Nat /\ a * 3 \in Nat
    OBVIOUS
  <2>4. peak \in Nat /\ peak' \in Nat /\ peak <= peak'
    BY <1>1
  <2> QED BY <2>1, <2>2, <2>3, <2>4
<1>4. /\ peak * FdsPerHandler <= peak' * FdsPerHandler
      /\ peak * FdsPerHandler \in Nat /\ peak' * FdsPerHandler \in Nat
  <2>1. FdsPerHandler \in 1..3
    BY <1>3
  <2> QED BY <2>1, <1>m
<1>5. /\ peak * ThreadsPerHandler <= peak' * ThreadsPerHandler
      /\ peak * ThreadsPerHandler \in Nat /\ peak' * ThreadsPerHandler \in Nat
  <2>1. ThreadsPerHandler \in 1..3
    BY <1>3
  <2> QED BY <2>1, <1>m
<1> QED BY <1>1, <1>2, <1>4, <1>5 DEF Full

\* What goes in a step went before it, or goes because the program is full or because
\* an accept() met an error; neither is ever undone.
LEMMA GoesStays ==
    ASSUME StateInv, GoesOnlyWhenFullOrBroken, program' = program,
           peak' \in Nat, peak' >= peak, leaks' \in Nat, leaks' >= leaks,
           broken \subseteq broken',
           process' = "aborted" => process = "aborted" \/ Full \/ broken # {},
           \A i \in Server : loop'[i] \in {"returned", "stopped"} =>
               loop[i] \in {"returned", "stopped"} \/ Full \/ i \in broken'
    PROVE  GoesOnlyWhenFullOrBroken'
<1>1. Server' = Server
  BY SameNames
<1>2. Full => Full'
  BY FullStays
<1>3. process' = "aborted" => Full' \/ broken' # {}
  <2>1. process = "aborted" => Full \/ broken # {}
    BY DEF GoesOnlyWhenFullOrBroken
  <2> QED BY <2>1, <1>2
<1>4. ASSUME NEW i \in Server, loop'[i] \in {"returned", "stopped"}
      PROVE  Full' \/ i \in broken'
  <2>1. loop[i] \in {"returned", "stopped"} => Full \/ i \in broken
    BY DEF GoesOnlyWhenFullOrBroken
  <2> QED BY <2>1, <1>2, <1>4
<1> QED BY <1>1, <1>3, <1>4 DEF GoesOnlyWhenFullOrBroken
-----------------------------------------------------------------------------
(***************************************************************************)
(* The steps of handle_client keep the invariant.                          *)
(***************************************************************************)
\* What a handler's step that moves its connection from one place to another asks of
\* the descriptors, and what it adds to the leaks.
Early == {"none", "queued", "accepted", "handling", "connecting"}
HandlerMoves(i, c, s) ==
    /\ Running /\ conn[i][c] \in Live /\ s \in Live \cup {"failed", "done"}
    /\ Becomes(i, c, s)
    /\ s \in {"handling", "connecting", "handshake", "shaken"} => program.proxy
    /\ i = 1 /\ s \in Early => conn[i][c] \in Early
    /\ UNCHANGED <<program, process, loop, queue, peak, broken>>
HandlerFds(i, c, s) ==
    /\ \A x : x \notin {ClientFd(i, c), Up(i, c)} => (x \in fds' <=> x \in fds)
    /\ ClientFd(i, c) \in fds' <=> s \in Live
    /\ program.proxy /\ s \in HasUp(i) => Up(i, c) \in fds'
    /\ Up(i, c) \in fds' => (program.proxy /\ s \in HasUp(i)) \/ s = "failed"
    /\ IsFiniteSet(fds') /\ Cardinality(fds') <= program.fds
    /\ leaks' = IF s = "failed" /\ Up(i, c) \in fds' THEN leaks + 1 ELSE leaks

\* Such a step keeps the types, the chain and the backlogs ...
LEMMA HandlerKeepsStates ==
    ASSUME IInv, NEW i \in Server, NEW c \in Client, NEW s,
           HandlerMoves(i, c, s), HandlerFds(i, c, s)
    PROVE  StateInv' /\ ChainInv' /\ QueueInv' /\ Moved(i, c, s)
<1>1. StateInv /\ ChainInv /\ QueueInv
  BY DEF IInv
<1>2. /\ program' = program /\ process' = process /\ loop' = loop /\ queue' = queue
      /\ peak' = peak /\ broken' = broken
      /\ conn[i][c] \in Live /\ s \in Fate /\ s \in Live \cup {"failed", "done"}
      /\ Becomes(i, c, s)
  BY DEF HandlerMoves, Fate
<1>3. Moved(i, c, s) /\ conn' \in [Server -> [Client -> Fate]]
  BY <1>1, <1>2, Moves
<1>4. Server' = Server /\ Client' = Client /\ LastServer' = LastServer
  BY <1>2, SameNames
<1>5. StateInv'
  <2>1. leaks' \in Nat
    BY <1>1 DEF StateInv, HandlerFds
  <2> QED BY <2>1, <1>1, <1>2, <1>3, <1>4 DEF StateInv, Fate, Live
<1>6. ChainInv'
  <2>1. ASSUME ~program.proxy, NEW j \in Server, NEW d \in Client
        PROVE  conn'[j][d] \notin {"handling", "connecting", "handshake", "shaken"}
    BY <2>1, <1>1, <1>3 DEF ChainInv, HandlerMoves, Moved
  <2>2. ASSUME LastServer = 2, NEW d \in Client, conn'[1][d] \in Early PROVE conn'[2][d] = "none"
    <3>1. 1 \in Server /\ 2 \in Server
      BY <1>1, <2>2, ProgramFacts
    <3>2. conn[1][d] \in Early => conn[2][d] = "none"
      BY <1>1, <2>2 DEF ChainInv, Early
    <3>3. "none" \notin Live
      BY DEF Live
    <3> QED BY <3>1, <3>2, <3>3, <2>2, <1>2, <1>3 DEF HandlerMoves, Moved
  <2> QED BY <2>1, <2>2, <1>2, <1>4 DEF ChainInv, Early
<1>7. QueueInv'
  <2>1. \A j \in Server, d \in Client : conn[j][d] = "queued" => conn'[j][d] = "queued"
    BY <1>2, <1>3 DEF Moved, Live
  <2> QED BY <2>1, <1>1, <1>2, QueueStays
<1> QED BY <1>3, <1>5, <1>6, <1>7

\* ... and the descriptors, and what is counted.
LEMMA HandlerKeeps ==
    ASSUME IInv, NEW i \in Server, NEW c \in Client, NEW s,
           HandlerMoves(i, c, s), HandlerFds(i, c, s)
    PROVE  IInv'
<1>1. StateInv /\ FdInv /\ CountInv /\ GoesOnlyWhenFullOrBroken
  BY DEF IInv
<1>2. StateInv' /\ ChainInv' /\ QueueInv' /\ Moved(i, c, s)
  BY HandlerKeepsStates
<1>3. /\ program' = program /\ process' = process /\ loop' = loop /\ peak' = peak
      /\ broken' = broken /\ conn[i][c] \in Live /\ s \in Live \cup {"failed", "done"} /\ Running
  BY DEF HandlerMoves
<1>4. /\ Server' = Server /\ Client' = Client /\ LastServer' = LastServer /\ Handlers' = Handlers
      /\ \A j : HasUp(j)' = HasUp(j)
  BY <1>3, SameNames
<1>l. \A x : x \in Live => x \notin {"orphan", "failed", "done", "queued", "none"}
  BY DEF Live
<1>5. FdInv'
  <2>1. fds' \subseteq Names
    <3>1. ClientFd(i, c) \in Names /\ Up(i, c) \in Names
      <4>1. <<i, c>> \in Handlers /\ <<i, c>>[1] = i /\ <<i, c>>[2] = c
        BY DEF Handlers
      <4> QED BY <4>1 DEF Names
    <3>2. fds \subseteq Names
      BY <1>1, <1>3 DEF FdInv
    <3> QED BY <3>1, <3>2 DEF HandlerFds
  <2>2. Names' = Names
    BY <1>4 DEF Names, Listener, ClientFd, Up
  <2>3. ASSUME NEW j \in Server PROVE ListenerAt(j)'
    <3>1. Listener(j) \in fds' <=> Listener(j) \in fds
      BY FdNames DEF HandlerFds
    <3>2. ListenerAt(j)
      BY <1>1, <1>3 DEF FdInv
    <3> QED BY <3>1, <3>2, <1>3 DEF ListenerAt, Listener
  <2>4. ASSUME NEW j \in Server, NEW d \in Client PROVE FdAt(j, d)'
    <3>1. conn'[j][d] = IF j = i /\ d = c THEN s ELSE conn[j][d]
      BY <1>2 DEF Moved
    <3>2. CASE j = i /\ d = c
      BY <3>1, <3>2, <1>3, <1>4, <1>l DEF HandlerFds, FdAt, HasOpened, ClientFd, Up
    <3>3. CASE ~(j = i /\ d = c)
      <4>1. FdAt(j, d)
        BY <1>1, <1>3 DEF FdInv
      <4>2. ClientFd(j, d) \notin {ClientFd(i, c), Up(i, c)} /\ Up(j, d) \notin {ClientFd(i, c), Up(i, c)}
        BY <3>3, FdNames
      <4>3. /\ ClientFd(j, d) \in fds' <=> ClientFd(j, d) \in fds
            /\ Up(j, d) \in fds' <=> Up(j, d) \in fds
        BY <4>2 DEF HandlerFds
      <4>4. conn'[j][d] = conn[j][d] /\ (HasOpened(j, d)' <=> HasOpened(j, d))
        BY <3>1, <3>3, <1>3, <1>4 DEF HasOpened
      <4>5. ClientFd(j, d)' = ClientFd(j, d) /\ Up(j, d)' = Up(j, d) /\ Live' = Live
        BY DEF ClientFd, Up, Live
      <4> QED BY <4>1, <4>3, <4>4, <4>5 DEF FdAt
    <3> QED BY <3>2, <3>3
  <2> QED BY <2>1, <2>2, <2>3, <2>4, <1>3, <1>4 DEF FdInv, Running
<1>6. CountInv'
  <2>1. /\ IsFiniteSet(Served') /\ Cardinality(Served') \in Nat /\ Cardinality(Served) \in Nat
        /\ Cardinality(Served') <= Cardinality(Served)
    BY <1>1, <1>2, <1>3, ServedCount DEF CountInv
  <2>2. Cardinality(Served') <= peak'
    BY <2>1, <1>1, <1>3 DEF CountInv, StateInv
  <2>3. Cardinality(Leaked') = leaks'
    <3>1. /\ s \notin {"orphan", "failed"} => Leaked' = Leaked
          /\ s = "failed" /\ Up(i, c) \notin fds' => Leaked' = Leaked
          /\ s = "failed" /\ Up(i, c) \in fds' =>
                Leaked' = Leaked \cup {Up(i, c)} /\ Up(i, c) \notin Leaked
      BY <1>2, <1>3, <1>l, LeakedMoves DEF HandlerFds
    <3>2. IsFiniteSet(Leaked) /\ Cardinality(Leaked) = leaks /\ Cardinality(Leaked) \in Nat
      <4>1. Leaked \in SUBSET fds
        BY DEF Leaked
      <4>2. IsFiniteSet(Leaked)
        BY <4>1, <1>1, FS_Subset DEF CountInv
      <4> QED BY <4>2, <1>1, <1>3, FS_CardinalityType DEF CountInv
    <3>3. Cardinality(Leaked \cup {Up(i, c)}) =
             IF Up(i, c) \in Leaked THEN Cardinality(Leaked) ELSE Cardinality(Leaked) + 1
      BY <3>2, FS_AddElement
    <3>4. leaks' = IF s = "failed" /\ Up(i, c) \in fds' THEN leaks + 1 ELSE leaks
      BY DEF HandlerFds
    <3>5. s # "orphan"
      BY <1>3, <1>l
    <3> QED BY <3>1, <3>2, <3>3, <3>4, <3>5
  <2> QED BY <2>1, <2>2, <2>3, <1>3 DEF CountInv, HandlerFds, Running
<1>7. GoesOnlyWhenFullOrBroken'
  <2>1. leaks' \in Nat /\ leaks' >= leaks /\ peak' \in Nat /\ peak' >= peak
    BY <1>1, <1>3 DEF StateInv, HandlerFds
  <2> QED BY <2>1, <1>1, <1>3, GoesStays
<1> QED BY <1>2, <1>5, <1>6, <1>7 DEF IInv
\* The table of descriptors keeps to its limit: one more only if one is left.
LEMMA FdsCount ==
    ASSUME StateInv, CountInv, NEW x, NEW S
    PROVE  /\ IsFiniteSet(fds \ S) /\ Cardinality(fds \ S) <= program.fds
           /\ IsFiniteSet(fds \cup {x})
           /\ FdLeft => Cardinality(fds \cup {x}) <= program.fds
           /\ IsFiniteSet(fds) /\ Cardinality(fds) <= program.fds
<1>1. IsFiniteSet(fds) /\ Cardinality(fds) <= program.fds
  BY DEF CountInv
<1>2. Cardinality(fds) \in Nat /\ program.fds \in Nat
  BY <1>1, FS_CardinalityType, ProgramFacts
<1>3. IsFiniteSet(fds \ S) /\ Cardinality(fds \ S) <= Cardinality(fds)
      /\ Cardinality(fds \ S) \in Nat
  <2>1. fds \ S \in SUBSET fds
    OBVIOUS
  <2> QED BY <2>1, <1>1, FS_Subset, FS_CardinalityType
<1>4. /\ IsFiniteSet(fds \cup {x})
      /\ Cardinality(fds \cup {x}) = IF x \in fds THEN Cardinality(fds) ELSE Cardinality(fds) + 1
  BY <1>1, FS_AddElement
<1> QED BY <1>1, <1>2, <1>3, <1>4 DEF FdLeft

\* What the invariant says of the descriptors of one handler.
LEMMA HandlerFacts ==
    ASSUME IInv, Running, NEW i \in Server, NEW c \in Client
    PROVE  /\ ClientFd(i, c) \in fds <=> conn[i][c] \in Live \cup {"orphan"}
           /\ program.proxy /\ conn[i][c] \in HasUp(i) => Up(i, c) \in fds
           /\ Up(i, c) \in fds => (program.proxy /\ conn[i][c] \in HasUp(i)) \/ conn[i][c] = "failed"
           /\ conn[i][c] \in {"handling", "connecting", "handshake", "shaken"} => program.proxy
           /\ ClientFd(i, c) # Up(i, c)
           /\ leaks \in Nat
<1>1. FdAt(i, c) /\ leaks \in Nat /\ ClientFd(i, c) # Up(i, c)
  BY FdNames DEF IInv, FdInv, StateInv
<1>2. conn[i][c] \in {"handling", "connecting", "handshake", "shaken"} => program.proxy
  BY DEF IInv, ChainInv
<1> QED BY <1>1, <1>2 DEF FdAt, HasOpened

\* The thread of an accepted client begins.
LEMMA EnterKeeps ==
    ASSUME IInv, NEW i \in Server, NEW c \in Client, Enter(i, c)
    PROVE  IInv'
<1>1. Running /\ conn[i][c] = "accepted" /\ fds' = fds /\ leaks' = leaks
  BY DEF Enter
<1> DEFINE s == IF program.proxy THEN "handling" ELSE "relay"
<1>2. HandlerMoves(i, c, s)
  BY DEF Enter, HandlerMoves, Live, Early
<1>3. HandlerFds(i, c, s)
  <2>1. IsFiniteSet(fds') /\ Cardinality(fds') <= program.fds
    BY <1>1, FdsCount DEF IInv
  <2> QED BY <1>1, <2>1, HandlerFacts DEF HandlerFds, Live, HasUp
<1> QED BY <1>2, <1>3, HandlerKeeps

\* A handler makes its second socket, or cannot and gives up the first.
LEMMA OpenUpstreamKeeps ==
    ASSUME IInv, NEW i \in Server, NEW c \in Client, OpenUpstream(i, c)
    PROVE  IInv'
<1>1. /\ Running /\ program.proxy /\ leaks' = leaks
      /\ conn[i][c] = IF i = 2 THEN "shaken" ELSE "handling"
  BY DEF OpenUpstream
<1>2. i \in 1..2 /\ LastServer \in 1..2 /\ i <= LastServer
  BY ProgramFacts DEF IInv, Server
<1>u. Up(i, c) \notin fds
  BY <1>1, <1>2, HandlerFacts DEF HasUp
<1>3. CASE FdLeft /\ Becomes(i, c, "connecting") /\ fds' = fds \cup {Up(i, c)}
  <2>1. HandlerMoves(i, c, "connecting")
    BY <1>1, <1>3 DEF OpenUpstream, HandlerMoves, Live, Early, Fails
  <2>2. IsFiniteSet(fds') /\ Cardinality(fds') <= program.fds
    BY <1>3, FdsCount DEF IInv
  <2>3. HandlerFds(i, c, "connecting")
    BY <1>1, <1>3, <2>2, HandlerFacts DEF HandlerFds, Live, HasUp
  <2> QED BY <2>1, <2>3, HandlerKeeps
<1>4. CASE Fails(i, c, RefusedCloses(i, c))
  <2>1. HandlerMoves(i, c, "failed")
    BY <1>1, <1>4 DEF HandlerMoves, Live, Early, Fails
  <2>2. IsFiniteSet(fds') /\ Cardinality(fds') <= program.fds
    BY <1>4, FdsCount DEF IInv, Fails
  <2>3. HandlerFds(i, c, "failed")
    BY <1>1, <1>4, <1>u, <2>2, HandlerFacts DEF HandlerFds, Live, HasUp, Fails, RefusedCloses
  <2> QED BY <2>1, <2>3, HandlerKeeps
<1> QED BY <1>3, <1>4 DEF OpenUpstream

\* A refused handler leaves its second socket: one more leak.
LEMMA UpstreamRefusedKeeps ==
    ASSUME IInv, NEW i \in Server, NEW c \in Client, UpstreamRefused(i, c)
    PROVE  IInv'
<1>1. /\ Running /\ conn[i][c] = "connecting" /\ leaks' = leaks + 1
      /\ Fails(i, c, RefusedCloses(i, c))
  BY DEF UpstreamRefused
<1>2. HandlerMoves(i, c, "failed")
  BY <1>1 DEF HandlerMoves, Live, Early, Fails
<1>3. HandlerFds(i, c, "failed")
  <2>1. IsFiniteSet(fds') /\ Cardinality(fds') <= program.fds
    BY <1>1, FdsCount DEF IInv, Fails
  <2> QED BY <1>1, <2>1, HandlerFacts DEF HandlerFds, Live, HasUp, Fails, RefusedCloses
<1> QED BY <1>2, <1>3, HandlerKeeps

\* The connecting end of a failed handshake closes both of its sockets.
LEMMA ConnectShakeFailsKeeps ==
    ASSUME IInv, NEW c \in Client, ConnectShakeFails(c)
    PROVE  IInv'
<1>1. /\ Running /\ conn[1][c] = "handshake" /\ leaks' = leaks
      /\ Fails(1, c, Closes(1, c))
  BY DEF ConnectShakeFails
<1>i. 1 \in Server
  BY ProgramFacts DEF IInv
<1>2. HandlerMoves(1, c, "failed")
  BY <1>1 DEF HandlerMoves, Live, Early, Fails
<1>3. HandlerFds(1, c, "failed")
  <2>1. IsFiniteSet(fds') /\ Cardinality(fds') <= program.fds
    BY <1>1, FdsCount DEF IInv, Fails
  <2> QED BY <1>1, <1>i, <2>1, HandlerFacts DEF HandlerFds, Live, HasUp, Fails, Closes
<1> QED BY <1>2, <1>3, <1>i, HandlerKeeps

\* The accepting end of one has not made its second socket yet.
LEMMA AcceptShakeFailsKeeps ==
    ASSUME IInv, NEW c \in Client, AcceptShakeFails(c)
    PROVE  IInv'
<1>1. /\ Running /\ conn[2][c] = "handling" /\ leaks' = leaks /\ LastServer = 2
      /\ Fails(2, c, {ClientFd(2, c)})
  BY DEF AcceptShakeFails
<1>i. 2 \in Server
  BY <1>1, ProgramFacts DEF IInv
<1>2. HandlerMoves(2, c, "failed")
  BY <1>1 DEF HandlerMoves, Live, Early, Fails
<1>u. Up(2, c) \notin fds
  BY <1>1, <1>i, HandlerFacts DEF HasUp
<1>3. HandlerFds(2, c, "failed")
  <2>1. IsFiniteSet(fds') /\ Cardinality(fds') <= program.fds
    BY <1>1, FdsCount DEF IInv, Fails
  <2> QED BY <1>1, <1>i, <1>u, <2>1, HandlerFacts DEF HandlerFds, Live, HasUp, Fails
<1> QED BY <1>2, <1>3, <1>i, HandlerKeeps

\* A relay gets its threads.
LEMMA RelayKeeps ==
    ASSUME IInv, NEW i \in Server, NEW c \in Client, Relay(i, c)
    PROVE  IInv'
<1>1. /\ Running /\ program.proxy /\ fds' = fds /\ leaks' = leaks /\ Becomes(i, c, "relay")
      /\ conn[i][c] = IF i < LastServer THEN "shaken" ELSE "connecting"
  BY DEF Relay, ReadyToRelay
<1>2. HandlerMoves(i, c, "relay")
  BY <1>1 DEF Relay, HandlerMoves, Live, Early
<1>3. HandlerFds(i, c, "relay")
  <2>1. IsFiniteSet(fds') /\ Cardinality(fds') <= program.fds
    BY <1>1, FdsCount DEF IInv
  <2> QED BY <1>1, <2>1, HandlerFacts DEF HandlerFds, Live, HasUp
<1> QED BY <1>2, <1>3, HandlerKeeps

\* A relay that gets none leaves its second socket: one more leak.
LEMMA RelayThrowsKeeps ==
    ASSUME IInv, NEW i \in Server, NEW c \in Client, RelayThrows(i, c)
    PROVE  IInv'
<1>1. /\ Running /\ program.proxy /\ leaks' = leaks + 1
      /\ Fails(i, c, RefusedCloses(i, c))
      /\ conn[i][c] = IF i < LastServer THEN "shaken" ELSE "connecting"
  BY DEF RelayThrows, ReadyToRelay
<1>2. HandlerMoves(i, c, "failed")
  BY <1>1 DEF HandlerMoves, Live, Early, Fails
<1>3. HandlerFds(i, c, "failed")
  <2>1. IsFiniteSet(fds') /\ Cardinality(fds') <= program.fds
    BY <1>1, FdsCount DEF IInv, Fails
  <2> QED BY <1>1, <2>1, HandlerFacts DEF HandlerFds, Live, HasUp, Fails, RefusedCloses
<1> QED BY <1>2, <1>3, HandlerKeeps

\* A relay that is over closes both of its sockets.
LEMMA FinishKeeps ==
    ASSUME IInv, NEW i \in Server, NEW c \in Client, Finish(i, c)
    PROVE  IInv'
<1>1. /\ Running /\ conn[i][c] = "relay" /\ leaks' = leaks /\ Becomes(i, c, "done")
      /\ fds' = fds \ Closes(i, c)
  BY DEF Finish
<1>2. HandlerMoves(i, c, "done")
  BY <1>1 DEF Finish, HandlerMoves, Live, Early
<1>3. HandlerFds(i, c, "done")
  <2>1. IsFiniteSet(fds') /\ Cardinality(fds') <= program.fds
    BY <1>1, FdsCount DEF IInv
  <2> QED BY <1>1, <2>1, HandlerFacts DEF HandlerFds, Live, HasUp, Closes
<1> QED BY <1>2, <1>3, HandlerKeeps
-----------------------------------------------------------------------------
(***************************************************************************)
(* A program without a descriptor or a thread left has been made full.     *)
(***************************************************************************)
\* No descriptor is left: those of the servers, of the handlers and the leaked ones
\* are all there are.
LEMMA FullOfFds ==
    ASSUME IInv, Running, ~FdLeft
    PROVE  Full
<1>1. StateInv /\ FdInv /\ CountInv
  BY DEF IInv
<1>2. fds = Owned \cup Leaked
  BY <1>1, LeakedIsUnowned, OwnedIsOpen
<1>3. /\ IsFiniteSet(Owned)
      /\ Cardinality(Owned) <= program.servers + Cardinality(Served) * FdsPerHandler
  BY <1>1, OwnedCount DEF CountInv
<1>4. IsFiniteSet(Leaked) /\ Cardinality(Leaked) = leaks
  <2>1. Leaked \in SUBSET fds
    BY DEF Leaked
  <2> QED BY <2>1, <1>1, FS_Subset DEF CountInv
<1>5. Cardinality(fds) <= Cardinality(Owned) + leaks
  BY <1>2, <1>3, <1>4, UnionIsNoLarger
<1>6. /\ Cardinality(fds) \in Nat /\ Cardinality(Owned) \in Nat /\ Cardinality(Served) \in Nat
      /\ program.fds \in Nat /\ program.servers \in Nat /\ peak \in Nat /\ leaks \in Nat
      /\ Cardinality(Served) <= peak
  BY <1>1, <1>3, FS_CardinalityType, ProgramFacts DEF CountInv, StateInv
<1>7. Cardinality(fds) >= program.fds
  BY <1>6 DEF FdLeft
<1>8. PICK n \in Nat : n = Cardinality(Served)
  BY <1>6
<1>9. FdsPerHandler \in {1, 2}
  BY DEF FdsPerHandler
<1>10. n * FdsPerHandler <= peak * FdsPerHandler
       /\ n * FdsPerHandler \in Nat /\ peak * FdsPerHandler \in Nat
  <2>1. \A a, b \in Nat : a <= b => a * 1 <= b * 1 /\ a * 2 <= b * 2
    OBVIOUS
  <2>2. \A a \in Nat : a * 1 \in Nat /\ a * 2 \in Nat
    OBVIOUS
  <2> QED BY <2>1, <2>2, <1>6, <1>8, <1>9
<1> QED BY <1>3, <1>5, <1>6, <1>7, <1>8, <1>10 DEF Full

\* No thread is left: each handler has at most three, and there have been enough
\* handlers at one time.
LEMMA FullOfThreads ==
    ASSUME IInv,
           Threads >= program.threads \/
               (program.proxy /\ Served # At({"relay"}) /\ Threads + 1 = program.threads)
    PROVE  Full
<1>1. StateInv /\ CountInv
  BY DEF IInv
<1>2. /\ Cardinality(Served) \in Nat /\ Threads \in Nat
      /\ Threads <= Cardinality(Served) * ThreadsPerHandler
      /\ program.proxy /\ Served # At({"relay"}) =>
           Threads + 2 <= Cardinality(Served) * ThreadsPerHandler
  BY <1>1, ThreadCount DEF CountInv
<1>3. program.threads \in Nat /\ peak \in Nat /\ Cardinality(Served) <= peak
  BY <1>1, ProgramFacts DEF CountInv, StateInv
<1>4. PICK n \in Nat : n = Cardinality(Served)
  BY <1>2
<1>5. ThreadsPerHandler \in {1, 3}
  BY DEF ThreadsPerHandler
<1>6. n * ThreadsPerHandler <= peak * ThreadsPerHandler
       /\ n * ThreadsPerHandler \in Nat /\ peak * ThreadsPerHandler \in Nat
  <2>1. \A a, b \in Nat : a <= b => a * 1 <= b * 1 /\ a * 3 <= b * 3
    OBVIOUS
  <2>2. \A a \in Nat : a * 1 \in Nat /\ a * 3 \in Nat
    OBVIOUS
  <2> QED BY <2>1, <2>2, <1>3, <1>4, <1>5
<1>7. Threads + 1 = program.threads => Threads + 2 > program.threads
  BY <1>2, <1>3
<1>8. n * ThreadsPerHandler >= program.threads
  BY <1>2, <1>3, <1>4, <1>6
<1> QED BY <1>3, <1>6, <1>8 DEF Full
-----------------------------------------------------------------------------
(***************************************************************************)
(* The steps of run(), init() and stop() keep the invariant.               *)
(***************************************************************************)
\* A server's loop goes on to t, and its clients stay where they are.
LoopMoves(i, t) ==
    /\ Running /\ loop' = [loop EXCEPT ![i] = t]
    /\ UNCHANGED <<program, process, queue, conn, peak, leaks>>
    /\ broken' = broken \/ (broken' = broken \cup {i} /\ t = "returned")
    /\ \/ t = "accept" /\ loop[i] = "init" /\ FdLeft /\ fds' = fds \cup {Listener(i)}
       \/ t = "failed" /\ loop[i] = "init" /\ fds' = fds
       \/ t = "returned" /\ loop[i] = "accept" /\ fds' = fds /\ (Full \/ i \in broken')

\* A step of a server's loop on its own keeps the invariant.
LEMMA LoopKeeps ==
    ASSUME IInv, NEW i \in Server, NEW t, LoopMoves(i, t)
    PROVE  IInv'
<1>1. StateInv /\ ChainInv /\ QueueInv /\ FdInv /\ CountInv /\ GoesOnlyWhenFullOrBroken
  BY DEF IInv
<1>2. /\ program' = program /\ process' = process /\ queue' = queue /\ conn' = conn
      /\ peak' = peak /\ leaks' = leaks /\ Running
      /\ loop' = [loop EXCEPT ![i] = t]
  BY DEF LoopMoves
<1>3. /\ Server' = Server /\ Client' = Client /\ LastServer' = LastServer /\ Handlers' = Handlers
      /\ \A j : HasUp(j)' = HasUp(j)
  BY <1>2, SameNames
<1>4. /\ t \in {"accept", "failed", "returned"} /\ loop[i] \in {"init", "accept"}
      /\ fds' = fds \/ (fds' = fds \cup {Listener(i)} /\ FdLeft)
      /\ t = "returned" => Full \/ i \in broken'
      /\ broken \subseteq broken' /\ broken' \subseteq broken \cup {i}
  BY DEF LoopMoves
<1>5. loop' \in [Server -> {"init", "accept", "returned", "stopped", "failed"}]
      /\ \A j \in Server : loop'[j] = IF j = i THEN t ELSE loop[j]
  <2>1. loop \in [Server -> {"init", "accept", "returned", "stopped", "failed"}]
    BY <1>1 DEF StateInv
  <2> QED BY <2>1, <1>2, <1>4
<1>6. StateInv'
  <2>1. broken' \subseteq Server
    BY <1>1, <1>4 DEF StateInv
  <2> QED BY <2>1, <1>1, <1>2, <1>3, <1>5 DEF StateInv, Fate, Live
<1>7. ChainInv'
  BY <1>1, <1>2, <1>3 DEF ChainInv
<1>8. QueueInv'
  BY <1>1, <1>2, QueueStays
<1>9. FdInv'
  <2>1. fds' \subseteq Names
    <3>1. Listener(i) \in Names
      BY DEF Names
    <3> QED BY <3>1, <1>1, <1>2, <1>4 DEF FdInv
  <2>2. Names' = Names
    BY <1>3 DEF Names, Listener, ClientFd, Up
  <2>3. ASSUME NEW j \in Server PROVE ListenerAt(j)'
    <3>1. ListenerAt(j)
      BY <1>1, <1>2 DEF FdInv
    <3>2. Listener(j) \in fds' <=> (Listener(j) \in fds \/ (j = i /\ t = "accept"))
      BY FdNames, <1>4 DEF LoopMoves
    <3> QED BY <3>1, <3>2, <1>4, <1>5 DEF ListenerAt, Listener, LoopMoves
  <2>4. ASSUME NEW j \in Server, NEW d \in Client PROVE FdAt(j, d)'
    <3>1. FdAt(j, d)
      BY <1>1, <1>2 DEF FdInv
    <3>2. /\ ClientFd(j, d) \in fds' <=> ClientFd(j, d) \in fds
          /\ Up(j, d) \in fds' <=> Up(j, d) \in fds
      BY <1>4, FdNames
    <3>3. HasOpened(j, d)' <=> HasOpened(j, d)
      BY <1>2, <1>3 DEF HasOpened
    <3>4. ClientFd(j, d)' = ClientFd(j, d) /\ Up(j, d)' = Up(j, d) /\ Live' = Live
      BY DEF ClientFd, Up, Live
    <3> QED BY <3>1, <3>2, <3>3, <3>4, <1>2 DEF FdAt
  <2> QED BY <2>1, <2>2, <2>3, <2>4, <1>2, <1>3 DEF FdInv, Running
<1>10. CountInv'
  <2>1. IsFiniteSet(fds') /\ Cardinality(fds') <= program.fds
    BY <1>1, <1>4, FdsCount
  <2>2. Served' = Served
    BY <1>2, <1>3 DEF Served, At, Live
  <2>3. Leaked' = Leaked
    <3>1. \A j, d : /\ ClientFd(j, d) \in fds' <=> ClientFd(j, d) \in fds
                    /\ Up(j, d) \in fds' <=> Up(j, d) \in fds
      BY <1>4, FdNames
    <3> QED BY <3>1, <1>2, LeakedStays
  <2> QED BY <2>1, <2>2, <2>3, <1>1, <1>2 DEF CountInv, Running
<1>11. GoesOnlyWhenFullOrBroken'
  <2>1. peak \in Nat /\ leaks \in Nat
    BY <1>1 DEF StateInv
  <2>2. peak' >= peak /\ leaks' >= leaks
    BY <2>1, <1>2
  <2> QED BY <2>1, <2>2, <1>1, <1>2, <1>4, <1>5, GoesStays
<1> QED BY <1>6, <1>7, <1>8, <1>9, <1>10, <1>11 DEF IInv

\* init() makes the listening socket.
LEMMA ListenKeeps ==
    ASSUME IInv, NEW i \in Server, Listen(i)
    PROVE  IInv'
<1>1. LoopMoves(i, "accept")
  BY DEF Listen, LoopMoves
<1> QED BY <1>1, LoopKeeps

\* init() throws.
LEMMA ListenFailsKeeps ==
    ASSUME IInv, NEW i \in Server, ListenFails(i)
    PROVE  IInv'
<1>1. LoopMoves(i, "failed")
  BY DEF ListenFails, LoopMoves
<1> QED BY <1>1, LoopKeeps

\* accept() finds no room in the table, which is full then.
LEMMA AcceptFailsKeeps ==
    ASSUME IInv, NEW i \in Server, AcceptFails(i)
    PROVE  IInv'
<1>1. Full
  BY FullOfFds DEF AcceptFails, CanAccept
<1>2. LoopMoves(i, "returned")
  BY <1>1 DEF AcceptFails, LoopMoves
<1> QED BY <1>2, LoopKeeps

\* accept() meets an error that the program has no part in.
LEMMA AcceptErrsKeeps ==
    ASSUME IInv, NEW i \in Server, AcceptErrs(i)
    PROVE  IInv'
<1>1. LoopMoves(i, "returned")
  BY DEF AcceptErrs, LoopMoves
<1> QED BY <1>1, LoopKeeps
\* A connection leaves the backlog: with a thread, or with nobody to read it.
Takes(i, c, s) ==
    /\ Running /\ queue[i] # <<>> /\ c = Head(queue[i]) /\ FdLeft
    /\ queue' = [queue EXCEPT ![i] = Tail(@)]
    /\ Becomes(i, c, s)
    /\ fds' = fds \cup {ClientFd(i, c)}
    /\ UNCHANGED <<program, process, broken>>
    /\ \/ /\ s = "accepted" /\ loop' = loop /\ leaks' = leaks
          /\ peak' = Larger(peak, Cardinality(Served) + 1)
       \/ /\ s = "orphan" /\ loop[i] = "accept" /\ loop' = [loop EXCEPT ![i] = "returned"]
          /\ leaks' = leaks + 1 /\ peak' = peak /\ Full

\* The head of a backlog is a client that waits in it.
LEMMA HeadWaits ==
    ASSUME StateInv, QueueInv, NEW i \in Server, queue[i] # <<>>
    PROVE  Head(queue[i]) \in Client /\ conn[i][Head(queue[i])] = "queued"
<1>1. queue[i] \in Seq(Client) /\ QueueAt(i)
  BY DEF StateInv, QueueInv
<1>2. 1 \in 1..Len(queue[i]) /\ Head(queue[i]) = queue[i][1]
  BY <1>1, EmptySeq, LenProperties
<1> QED BY <1>1, <1>2, ElementOfSeq DEF QueueAt

\* Taking the head leaves a backlog in order: no other place in it is the head's.
LEMMA TakeKeepsQueue ==
    ASSUME StateInv, QueueInv, NEW i \in Server, NEW c \in Client, NEW s, Takes(i, c, s),
           Moved(i, c, s)
    PROVE  queue' \in [Server -> Seq(Client)] /\ QueueInv'
<1>1. queue \in [Server -> Seq(Client)] /\ queue' = [queue EXCEPT ![i] = Tail(@)]
  BY DEF StateInv, Takes
<1>2. queue[i] \in Seq(Client) /\ queue[i] # <<>> /\ c = Head(queue[i]) /\ QueueAt(i)
  BY DEF Takes, StateInv, QueueInv
<1>3. /\ Tail(queue[i]) \in Seq(Client) /\ Len(Tail(queue[i])) = Len(queue[i]) - 1
      /\ Len(queue[i]) \in Nat /\ Len(queue[i]) >= 1
      /\ \A k \in 1..Len(queue[i]) - 1 : Tail(queue[i])[k] = queue[i][k + 1]
      /\ c = queue[i][1]
  BY <1>2, HeadTailProperties, EmptySeq, LenProperties
<1>4. queue' \in [Server -> Seq(Client)]
  BY <1>1, <1>3
<1>5. \A j \in Server : queue'[j] = IF j = i THEN Tail(queue[i]) ELSE queue[j]
  BY <1>1, Zenon
<1>6. Server' = Server
  BY SameNames DEF Takes
<1>7. ASSUME NEW j \in Server PROVE QueueAt(j)'
  <2>1. CASE j = i
    <3>1. queue'[j] = Tail(queue[i])
      BY <1>5, <2>1
    <3>2. \A k \in 1..Len(queue[i]) - 1 :
            queue[i][k + 1] # c /\ queue[i][k + 1] \in Client
      <4>1. \A k \in 1..Len(queue[i]) - 1 : k + 1 \in 1..Len(queue[i]) /\ k + 1 # 1
        BY <1>3
      <4>2. 1 \in 1..Len(queue[i])
        BY <1>3
      <4> QED BY <4>1, <4>2, <1>2, <1>3, ElementOfSeq DEF QueueAt
    <3>3. \A k \in 1..Len(queue[i]) - 1 : conn'[i][queue[i][k + 1]] = "queued"
      <4>1. \A k \in 1..Len(queue[i]) - 1 : conn[i][queue[i][k + 1]] = "queued"
        <5>1. \A k \in 1..Len(queue[i]) - 1 : k + 1 \in 1..Len(queue[i])
          BY <1>3
        <5> QED BY <5>1, <1>2 DEF QueueAt
      <4> QED BY <4>1, <3>2 DEF Moved
    <3>4. \A k, l \in 1..Len(queue[i]) - 1 :
             queue[i][k + 1] = queue[i][l + 1] => k = l
      <4>1. \A k, l \in 1..Len(queue[i]) - 1 :
              k + 1 \in 1..Len(queue[i]) /\ l + 1 \in 1..Len(queue[i]) /\ (k + 1 = l + 1 => k = l)
        BY <1>3
      <4> QED BY <4>1, <1>2 DEF QueueAt
    <3> QED BY <3>1, <3>3, <3>4, <1>3, <2>1 DEF QueueAt
  <2>2. CASE j # i
    <3>1. QueueAt(j) /\ queue'[j] = queue[j] /\ queue[j] \in Seq(Client)
      BY <1>1, <1>5, <2>2 DEF QueueInv
    <3>2. \A k \in 1..Len(queue[j]) : queue[j][k] \in Client
      BY <3>1, ElementOfSeq
    <3>3. \A d \in Client : conn'[j][d] = conn[j][d]
      BY <2>2 DEF Moved
    <3> QED BY <3>1, <3>2, <3>3 DEF QueueAt
  <2> QED BY <2>1, <2>2
<1> QED BY <1>4, <1>6, <1>7 DEF QueueInv

\* A connection that leaves the backlog keeps the invariant.
LEMMA TakeKeeps ==
    ASSUME IInv, NEW i \in Server, NEW c, NEW s, Takes(i, c, s)
    PROVE  IInv'
<1>1. StateInv /\ ChainInv /\ QueueInv /\ FdInv /\ CountInv /\ GoesOnlyWhenFullOrBroken
  BY DEF IInv
<1>2. /\ program' = program /\ process' = process /\ broken' = broken /\ Running /\ FdLeft
      /\ s \in {"accepted", "orphan"} /\ s \in Fate /\ Becomes(i, c, s)
      /\ fds' = fds \cup {ClientFd(i, c)}
  BY DEF Takes, Fate, Live
<1>c. c \in Client /\ conn[i][c] = "queued"
  BY <1>1, HeadWaits DEF Takes
<1>3. Moved(i, c, s) /\ conn' \in [Server -> [Client -> Fate]]
  BY <1>1, <1>2, <1>c, Moves
<1>4. /\ Server' = Server /\ Client' = Client /\ LastServer' = LastServer /\ Handlers' = Handlers
      /\ \A j : HasUp(j)' = HasUp(j)
  BY <1>2, SameNames
<1>5. queue' \in [Server -> Seq(Client)] /\ QueueInv'
  BY <1>1, <1>3, <1>c, TakeKeepsQueue
<1>6. /\ loop' \in [Server -> {"init", "accept", "returned", "stopped", "failed"}]
      /\ \A j \in Server : \/ loop'[j] = loop[j]
                           \/ loop[j] = "accept" /\ loop'[j] = "returned" /\ Full
  <2>1. loop \in [Server -> {"init", "accept", "returned", "stopped", "failed"}]
    BY <1>1 DEF StateInv
  <2> QED BY <2>1 DEF Takes
<1>7. /\ Cardinality(Served) \in Nat /\ Cardinality(Served') \in Nat /\ IsFiniteSet(Served')
      /\ Cardinality(Served') <= Cardinality(Served) + 1
      /\ s \notin Live => Cardinality(Served') <= Cardinality(Served)
  BY <1>1, <1>2, <1>3, <1>c, ServedCount DEF CountInv
<1>t. \/ s = "accepted" /\ leaks' = leaks /\ peak' = Larger(peak, Cardinality(Served) + 1)
      \/ s = "orphan" /\ leaks' = leaks + 1 /\ peak' = peak
  BY Zenon DEF Takes
<1>8. /\ peak \in Nat /\ peak' \in Nat /\ peak' >= peak /\ leaks' \in Nat /\ leaks' >= leaks
      /\ Cardinality(Served') <= peak'
  <2>1. peak \in Nat /\ leaks \in Nat /\ Cardinality(Served) <= peak
    BY <1>1 DEF StateInv, CountInv
  <2>2. PICK n \in Nat : n = Cardinality(Served)
    BY <1>7
  <2>3. PICK m \in Nat : m = Cardinality(Served')
    BY <1>7
  <2>4. s \notin Live => m <= n
    BY <2>2, <2>3, <1>7
  <2>5. "orphan" \notin Live
    BY DEF Live
  <2>6. CASE s = "accepted"
    <3>1. peak' = Larger(peak, n + 1) /\ leaks' = leaks
      BY <1>t, <2>2, <2>6
    <3>2. m <= n + 1
      BY <2>2, <2>3, <1>7
    <3> QED BY <3>1, <3>2, <2>1, <2>3 DEF Larger
  <2>7. CASE s = "orphan"
    <3>1. peak' = peak /\ leaks' = leaks + 1
      BY <1>t, <2>7
    <3> QED BY <3>1, <2>1, <2>2, <2>3, <2>4, <2>5, <2>7
  <2> QED BY <2>6, <2>7, <1>2
<1>9. StateInv'
  BY <1>1, <1>2, <1>3, <1>4, <1>5, <1>6, <1>8 DEF StateInv, Fate, Live
<1>10. ChainInv'
  <2>1. ASSUME ~program.proxy, NEW j \in Server, NEW d \in Client
        PROVE  conn'[j][d] \notin {"handling", "connecting", "handshake", "shaken"}
    BY <2>1, <1>1, <1>2, <1>3 DEF ChainInv, Moved
  <2>2. ASSUME LastServer = 2, NEW d \in Client, conn'[1][d] \in Early PROVE conn'[2][d] = "none"
    <3>1. 1 \in Server /\ 2 \in Server
      BY <1>1, <2>2, ProgramFacts
    <3>2. conn[1][d] \in Early => conn[2][d] = "none"
      BY <1>1, <2>2 DEF ChainInv, Early
    <3>3. /\ conn'[1][d] = IF 1 = i /\ d = c THEN s ELSE conn[1][d]
          /\ conn'[2][d] = IF 2 = i /\ d = c THEN s ELSE conn[2][d]
      BY <3>1, <1>3 DEF Moved
    <3>4. conn[1][d] \in Early
      BY <3>3, <2>2, <1>c DEF Early
    <3> QED BY <3>2, <3>3, <3>4, <1>c
  <2> QED BY <2>1, <2>2, <1>2, <1>4 DEF ChainInv, Early
<1>11. FdInv'
  <2>1. fds' \subseteq Names
    <3>1. ClientFd(i, c) \in Names
      <4>1. <<i, c>> \in Handlers /\ <<i, c>>[1] = i /\ <<i, c>>[2] = c
        BY <1>c DEF Handlers
      <4> QED BY <4>1 DEF Names
    <3> QED BY <3>1, <1>1, <1>2 DEF FdInv
  <2>2. Names' = Names
    BY <1>4 DEF Names, Listener, ClientFd, Up
  <2>3. ASSUME NEW j \in Server PROVE ListenerAt(j)'
    <3>1. Listener(j) \in fds' <=> Listener(j) \in fds
      BY FdNames, <1>2
    <3>2. ListenerAt(j)
      BY <1>1, <1>2 DEF FdInv
    <3> QED BY <3>1, <3>2, <1>6 DEF ListenerAt, Listener
  <2>4. ASSUME NEW j \in Server, NEW d \in Client PROVE FdAt(j, d)'
    <3>1. FdAt(j, d)
      BY <1>1, <1>2 DEF FdInv
    <3>2. /\ ClientFd(j, d) \in fds' <=> ClientFd(j, d) \in fds \/ (j = i /\ d = c)
          /\ Up(j, d) \in fds' <=> Up(j, d) \in fds
      BY <1>2, FdNames
    <3>3. conn'[j][d] = IF j = i /\ d = c THEN s ELSE conn[j][d]
      BY <1>3, <1>c DEF Moved
    <3>4. ClientFd(j, d)' = ClientFd(j, d) /\ Up(j, d)' = Up(j, d) /\ Live' = Live
      BY DEF ClientFd, Up, Live
    <3>5. "queued" \notin HasUp(j) /\ s \notin HasUp(j) /\ s \in Live \cup {"orphan"} /\ s # "failed"
      BY <1>2 DEF HasUp, Live
    <3>6. HasOpened(j, d)' <=> HasOpened(j, d)
      BY <3>3, <3>5, <1>c, <1>2, <1>4 DEF HasOpened
    <3> QED BY <3>1, <3>2, <3>3, <3>4, <3>5, <3>6, <1>c DEF FdAt
  <2> QED BY <2>1, <2>2, <2>3, <2>4, <1>2, <1>4 DEF FdInv, Running
<1>12. CountInv'
  <2>1. IsFiniteSet(fds') /\ Cardinality(fds') <= program.fds
    BY <1>1, <1>2, FdsCount
  <2>2. Cardinality(Leaked') = leaks'
    <3>1. /\ s \notin {"orphan", "failed"} => Leaked' = Leaked
          /\ s = "orphan" /\ ClientFd(i, c) \in fds' =>
                Leaked' = Leaked \cup {ClientFd(i, c)} /\ ClientFd(i, c) \notin Leaked
      BY <1>2, <1>3, <1>c, LeakedMoves
    <3>2. IsFiniteSet(Leaked) /\ Cardinality(Leaked) = leaks /\ leaks \in Nat
      <4>1. Leaked \in SUBSET fds
        BY DEF Leaked
      <4> QED BY <4>1, <1>1, <1>2, FS_Subset DEF CountInv, StateInv
    <3>3. Cardinality(Leaked \cup {ClientFd(i, c)}) =
             IF ClientFd(i, c) \in Leaked THEN Cardinality(Leaked) ELSE Cardinality(Leaked) + 1
      BY <3>2, FS_AddElement
    <3>4. leaks' = IF s = "orphan" THEN leaks + 1 ELSE leaks
      BY <1>t
    <3>5. ClientFd(i, c) \in fds'
      BY <1>2
    <3>6. CASE s = "accepted"
      BY <3>1, <3>2, <3>4, <3>6
    <3>7. CASE s = "orphan"
      <4>1. Leaked' = Leaked \cup {ClientFd(i, c)} /\ ClientFd(i, c) \notin Leaked
        BY <3>1, <3>5, <3>7
      <4>2. Cardinality(Leaked') = Cardinality(Leaked) + 1
        BY <4>1, <3>3
      <4> QED BY <4>2, <3>2, <3>4, <3>7
    <3> QED BY <3>6, <3>7, <1>2
  <2> QED BY <2>1, <2>2, <1>2, <1>7, <1>8 DEF CountInv, Running
<1>13. GoesOnlyWhenFullOrBroken'
  BY <1>1, <1>2, <1>6, <1>8, GoesStays
<1> QED BY <1>5, <1>9, <1>10, <1>11, <1>12, <1>13 DEF IInv

\* A client is accepted and gets a thread.
LEMMA AcceptKeeps ==
    ASSUME IInv, NEW i \in Server, Accept(i)
    PROVE  IInv'
<1>1. Takes(i, Head(queue[i]), "accepted")
  BY DEF Accept, CanAccept, Takes
<1> QED BY <1>1, TakeKeeps

\* A client is accepted and gets none, which only too many threads can cause.
LEMMA AcceptThrowsKeeps ==
    ASSUME IInv, NEW i \in Server, AcceptThrows(i)
    PROVE  IInv'
<1>1. Full
  BY FullOfThreads DEF AcceptThrows
<1>2. Takes(i, Head(queue[i]), "orphan")
  BY <1>1 DEF AcceptThrows, CanAccept, Takes
<1> QED BY <1>2, TakeKeeps
\* stop() resets who waits in the backlog, and closes the listening socket.
LEMMA StopKeeps ==
    ASSUME IInv, NEW i \in Server, Stop(i)
    PROVE  IInv'
<1>1. StateInv /\ ChainInv /\ QueueInv /\ FdInv /\ CountInv /\ GoesOnlyWhenFullOrBroken
  BY DEF IInv
<1>2. /\ program' = program /\ process' = process /\ peak' = peak /\ leaks' = leaks /\ Running
      /\ broken' = broken
      /\ loop[i] = "returned" /\ loop' = [loop EXCEPT ![i] = "stopped"]
      /\ queue' = [queue EXCEPT ![i] = <<>>]
      /\ fds' = fds \ {Listener(i)}
      /\ conn' = [conn EXCEPT ![i] = [c \in Client |->
                     IF conn[i][c] = "queued" THEN "reset" ELSE conn[i][c]]]
  BY DEF Stop
<1>3. /\ Server' = Server /\ Client' = Client /\ LastServer' = LastServer /\ Handlers' = Handlers
      /\ \A j : HasUp(j)' = HasUp(j)
  BY <1>2, SameNames
<1>4. /\ loop' \in [Server -> {"init", "accept", "returned", "stopped", "failed"}]
      /\ \A j \in Server : loop'[j] = IF j = i THEN "stopped" ELSE loop[j]
  <2>1. loop \in [Server -> {"init", "accept", "returned", "stopped", "failed"}]
    BY <1>1 DEF StateInv
  <2> QED BY <2>1, <1>2
<1>5. /\ conn' \in [Server -> [Client -> Fate]]
      /\ \A j \in Server, d \in Client :
            conn'[j][d] = IF j = i /\ conn[j][d] = "queued" THEN "reset" ELSE conn[j][d]
  <2> DEFINE g == [c \in Client |-> IF conn[i][c] = "queued" THEN "reset" ELSE conn[i][c]]
  <2>1. conn \in [Server -> [Client -> Fate]]
    BY <1>1 DEF StateInv
  <2>2. g \in [Client -> Fate]
    <3>1. "reset" \in Fate /\ \A c \in Client : conn[i][c] \in Fate
      BY <1>1, ConnType DEF Fate
    <3> HIDE DEF Fate
    <3> QED BY <3>1
  <2>3. \A d \in Client : g[d] = IF conn[i][d] = "queued" THEN "reset" ELSE conn[i][d]
    OBVIOUS
  <2>4. conn' = [conn EXCEPT ![i] = g]
    BY <1>2
  <2> HIDE DEF g, Fate
  <2> QED BY <2>1, <2>2, <2>3, <2>4
<1>6. /\ queue' \in [Server -> Seq(Client)]
      /\ queue'[i] = <<>> /\ \A j \in Server : j # i => queue'[j] = queue[j]
  <2>1. queue \in [Server -> Seq(Client)]
    BY <1>1 DEF StateInv
  <2>2. <<>> \in Seq(Client)
    OBVIOUS
  <2> QED BY <2>1, <2>2, <1>2
<1>7. StateInv'
  BY <1>1, <1>2, <1>3, <1>4, <1>5, <1>6 DEF StateInv, Fate, Live
<1>8. ChainInv'
  <2>1. ASSUME ~program.proxy, NEW j \in Server, NEW d \in Client
        PROVE  conn'[j][d] \notin {"handling", "connecting", "handshake", "shaken"}
    BY <2>1, <1>1, <1>5 DEF ChainInv
  <2>2. ASSUME LastServer = 2, NEW d \in Client, conn'[1][d] \in Early PROVE conn'[2][d] = "none"
    <3>1. 1 \in Server /\ 2 \in Server
      BY <1>1, <2>2, ProgramFacts
    <3>2. conn[1][d] \in Early
      BY <3>1, <2>2, <1>5 DEF Early
    <3>3. conn[2][d] = "none"
      BY <3>2, <1>1, <2>2 DEF ChainInv, Early
    <3> QED BY <3>1, <3>3, <1>5
  <2> QED BY <2>1, <2>2, <1>2, <1>3 DEF ChainInv, Early
<1>9. QueueInv'
  <2>1. ASSUME NEW j \in Server PROVE QueueAt(j)'
    <3>1. CASE j = i
      BY <1>6, <3>1 DEF QueueAt
    <3>2. CASE j # i
      <4>1. QueueAt(j) /\ queue'[j] = queue[j] /\ queue[j] \in Seq(Client)
        BY <1>1, <1>6, <3>2 DEF QueueInv, StateInv
      <4>2. \A k \in 1..Len(queue[j]) : queue[j][k] \in Client
        BY <4>1, ElementOfSeq
      <4>3. \A d \in Client : conn'[j][d] = conn[j][d]
        BY <1>5, <3>2
      <4> QED BY <4>1, <4>2, <4>3 DEF QueueAt
    <3> QED BY <3>1, <3>2
  <2> QED BY <2>1, <1>3 DEF QueueInv
<1>10. FdInv'
  <2>1. fds' \subseteq Names /\ Names' = Names
    BY <1>1, <1>2, <1>3 DEF FdInv, Names, Listener, ClientFd, Up
  <2>2. ASSUME NEW j \in Server PROVE ListenerAt(j)'
    <3>1. Listener(j) \in fds' <=> Listener(j) \in fds /\ j # i
      BY FdNames, <1>2
    <3>2. ListenerAt(j)
      BY <1>1, <1>2 DEF FdInv
    <3> QED BY <3>1, <3>2, <1>2, <1>4 DEF ListenerAt, Listener
  <2>3. ASSUME NEW j \in Server, NEW d \in Client PROVE FdAt(j, d)'
    <3>1. FdAt(j, d)
      BY <1>1, <1>2 DEF FdInv
    <3>2. /\ ClientFd(j, d) \in fds' <=> ClientFd(j, d) \in fds
          /\ Up(j, d) \in fds' <=> Up(j, d) \in fds
      BY <1>2, FdNames
    <3>3. ClientFd(j, d)' = ClientFd(j, d) /\ Up(j, d)' = Up(j, d) /\ Live' = Live
      BY DEF ClientFd, Up, Live
    <3>4. \/ conn'[j][d] = conn[j][d]
          \/ conn[j][d] = "queued" /\ conn'[j][d] = "reset"
      BY <1>5
    <3>5. \A x \in {"queued", "reset"} : x \notin HasUp(j) /\ x \notin Live \cup {"orphan"} /\ x # "failed"
      BY DEF HasUp, Live
    <3>6. HasOpened(j, d)' <=> HasOpened(j, d)
      BY <3>4, <3>5, <1>2, <1>3 DEF HasOpened
    <3> QED BY <3>1, <3>2, <3>3, <3>4, <3>5, <3>6 DEF FdAt
  <2> QED BY <2>1, <2>2, <2>3, <1>2, <1>3 DEF FdInv, Running
<1>11. CountInv'
  <2>1. IsFiniteSet(fds') /\ Cardinality(fds') <= program.fds
    BY <1>1, <1>2, FdsCount
  <2>2. Served' = Served
    <3>1. \A h \in Handlers : conn'[h[1]][h[2]] \in Live <=> conn[h[1]][h[2]] \in Live
      <4>1. \A h \in Handlers : h[1] \in Server /\ h[2] \in Client
        BY DEF Handlers
      <4> QED BY <4>1, <1>5 DEF Live
    <3> QED BY <3>1, <1>3 DEF Served, At, Live
  <2>3. Leaked' = Leaked
    <3>1. \A j, d : /\ ClientFd(j, d) \in fds' <=> ClientFd(j, d) \in fds
                    /\ Up(j, d) \in fds' <=> Up(j, d) \in fds
      BY <1>2, FdNames
    <3> QED BY <3>1, <1>2, <1>5, LeakedStays
  <2> QED BY <2>1, <2>2, <2>3, <1>1, <1>2 DEF CountInv, Running
<1>12. GoesOnlyWhenFullOrBroken'
  <2>1. peak \in Nat /\ leaks \in Nat
    BY <1>1 DEF StateInv
  <2>2. peak' >= peak /\ leaks' >= leaks
    BY <2>1, <1>2
  <2>3. \A j \in Server : loop'[j] \in {"returned", "stopped"} => loop[j] \in {"returned", "stopped"}
    BY <1>2, <1>4
  <2> QED BY <2>1, <2>2, <2>3, <1>1, <1>2, GoesStays
<1> QED BY <1>7, <1>8, <1>9, <1>10, <1>11, <1>12 DEF IInv
-----------------------------------------------------------------------------
(***************************************************************************)
(* The end of the process keeps the invariant.                             *)
(***************************************************************************)
\* The process exits, or is aborted after it was full or an accept() met an error.
Ends ==
    /\ \/ process' = "exited"
       \/ process' = "aborted" /\ (Full \/ broken # {} \/ process = "aborted")
    /\ CutAll
    /\ queue' = [i \in Server |-> <<>>] /\ fds' = {}
    /\ UNCHANGED <<program, loop, peak, leaks, broken>>

\* The end of the process leaves no descriptor and no handler.
LEMMA EndsKeeps ==
    ASSUME IInv, Ends
    PROVE  IInv'
<1>1. StateInv /\ ChainInv /\ GoesOnlyWhenFullOrBroken
  BY DEF IInv
<1>2. /\ program' = program /\ loop' = loop /\ peak' = peak /\ leaks' = leaks
      /\ broken' = broken
      /\ queue' = [i \in Server |-> <<>>] /\ fds' = {}
      /\ process' \in {"exited", "aborted"}
      /\ process' = "aborted" => process = "aborted" \/ Full \/ broken # {}
  BY DEF Ends
<1>3. /\ Server' = Server /\ Client' = Client /\ LastServer' = LastServer /\ Handlers' = Handlers
  BY <1>2, SameNames
<1>4. \A j \in Server, d \in Client :
        conn'[j][d] = IF conn[j][d] \in Live THEN "cut"
                      ELSE IF conn[j][d] = "queued" THEN "reset" ELSE conn[j][d]
  BY DEF Ends, CutAll
<1>5. conn' \in [Server -> [Client -> Fate]]
  <2>1. \A j \in Server, d \in Client :
           (IF conn[j][d] \in Live THEN "cut"
            ELSE IF conn[j][d] = "queued" THEN "reset" ELSE conn[j][d]) \in Fate
    <3>1. "cut" \in Fate /\ "reset" \in Fate
      BY DEF Fate
    <3>2. \A j \in Server, d \in Client : conn[j][d] \in Fate
      BY <1>1, ConnType
    <3> HIDE DEF Fate
    <3> QED BY <3>1, <3>2
  <2> HIDE DEF Fate, Live
  <2> QED BY <2>1 DEF Ends, CutAll
<1>6. \A j \in Server, d \in Client : conn'[j][d] \notin Live \cup {"queued"}
  BY <1>4 DEF Live
<1>7. StateInv'
  <2>1. queue' \in [Server -> Seq(Client)]
    <3>1. <<>> \in Seq(Client)
      OBVIOUS
    <3> QED BY <3>1, <1>2
  <2> QED BY <2>1, <1>1, <1>2, <1>3, <1>5 DEF StateInv, Fate, Live
<1>8. ChainInv'
  <2>1. \A j \in Server, d \in Client :
          conn'[j][d] \notin {"handling", "connecting", "handshake", "shaken"}
    BY <1>6 DEF Live
  <2>2. ASSUME LastServer = 2, NEW d \in Client, conn'[1][d] \in Early PROVE conn'[2][d] = "none"
    <3>1. 1 \in Server /\ 2 \in Server
      BY <1>1, <2>2, ProgramFacts
    <3>2. conn'[1][d] = "none"
      BY <3>1, <1>6, <2>2 DEF Early, Live
    <3>3. conn[1][d] = "none"
      BY <3>1, <3>2, <1>4
    <3>4. conn[2][d] = "none"
      BY <3>3, <1>1, <2>2 DEF ChainInv
    <3> QED BY <3>1, <3>4, <1>4 DEF Live
  <2> QED BY <2>1, <2>2, <1>2, <1>3 DEF ChainInv, Early
<1>9. QueueInv'
  <2>1. \A j \in Server : queue'[j] = <<>>
    BY <1>2
  <2> QED BY <2>1, <1>3 DEF QueueInv, QueueAt
<1>10. ~Running'
  BY <1>2 DEF Running
<1>11. FdInv'
  BY <1>10 DEF FdInv
<1>12. CountInv'
  <2>1. Served' = {}
    <3>1. \A h \in Handlers : conn'[h[1]][h[2]] \notin Live
      <4>1. \A h \in Handlers : h[1] \in Server /\ h[2] \in Client
        BY DEF Handlers
      <4> QED BY <4>1, <1>6
    <3> QED BY <3>1, <1>3 DEF Served, At, Live
  <2>2. peak \in Nat /\ program.fds \in Nat
    BY <1>1, ProgramFacts DEF StateInv
  <2> QED BY <2>1, <2>2, <1>2, <1>10, FS_EmptySet DEF CountInv
<1>13. GoesOnlyWhenFullOrBroken'
  <2>1. peak \in Nat /\ leaks \in Nat
    BY <1>1 DEF StateInv
  <2>2. peak' >= peak /\ leaks' >= leaks
    BY <2>1, <1>2
  <2> QED BY <2>1, <2>2, <1>1, <1>2, GoesStays
<1> QED BY <1>7, <1>8, <1>9, <1>11, <1>12, <1>13 DEF IInv

\* main returns.
LEMMA ExitKeeps ==
    ASSUME IInv, Exit
    PROVE  IInv'
<1>1. Ends
  BY DEF Exit, Ends
<1> QED BY <1>1, EndsKeeps

\* A handler outlives its server only after the server stopped, so after it was full or
\* its accept() met an error.
LEMMA UsesGoneServerKeeps ==
    ASSUME IInv, NEW i \in Server, NEW c \in Client, UsesGoneServer(i, c)
    PROVE  IInv'
<1>1. Full \/ broken # {}
  BY DEF UsesGoneServer, IInv, GoesOnlyWhenFullOrBroken
<1>2. Ends
  BY <1>1 DEF UsesGoneServer, Abort, Ends
<1> QED BY <1>2, EndsKeeps

\* The handler that could make only one of its two threads is one of those counted.
LEMMA RelayAbortsKeeps ==
    ASSUME IInv, NEW i \in Server, NEW c \in Client, RelayAborts(i, c)
    PROVE  IInv'
<1>1. /\ program.proxy /\ Threads + 1 = program.threads
      /\ conn[i][c] \in {"shaken", "connecting"}
  BY DEF RelayAborts, ReadyToRelay
<1>2. <<i, c>> \in Served /\ <<i, c>> \notin At({"relay"})
  BY <1>1, AtIs DEF Served, Live
<1>3. Full
  BY <1>1, <1>2, FullOfThreads
<1>4. Ends
  BY <1>3 DEF RelayAborts, Abort, Ends
<1> QED BY <1>4, EndsKeeps
-----------------------------------------------------------------------------
(***************************************************************************)
(* Connecting and the handshake keep the invariant.                        *)
(***************************************************************************)
\* Connections move between places that hold the same descriptors.
LEMMA SameFdsKeep ==
    ASSUME IInv, UNCHANGED <<program, process, loop, fds, peak, leaks, broken>>,
           \A j \in Server, d \in Client :
              /\ conn'[j][d] \in Live <=> conn[j][d] \in Live
              /\ conn'[j][d] \in HasUp(j) <=> conn[j][d] \in HasUp(j)
              /\ conn'[j][d] = "orphan" <=> conn[j][d] = "orphan"
              /\ conn'[j][d] = "failed" <=> conn[j][d] = "failed"
    PROVE  FdInv' /\ CountInv' /\ GoesOnlyWhenFullOrBroken'
<1>1. StateInv /\ FdInv /\ CountInv /\ GoesOnlyWhenFullOrBroken
  BY DEF IInv
<1>2. /\ program' = program /\ process' = process /\ loop' = loop /\ fds' = fds
      /\ peak' = peak /\ leaks' = leaks /\ broken' = broken
  OBVIOUS
<1>3. /\ Server' = Server /\ Client' = Client /\ LastServer' = LastServer /\ Handlers' = Handlers
      /\ \A j : HasUp(j)' = HasUp(j)
  BY <1>2, SameNames
<1>4. Live' = Live /\ \A j, d : /\ ClientFd(j, d)' = ClientFd(j, d) /\ Up(j, d)' = Up(j, d)
                                /\ Listener(j)' = Listener(j)
  BY DEF ClientFd, Up, Listener, Live
<1>5. FdInv'
  <2>1. Names' = Names
    BY <1>3 DEF Names, Listener, ClientFd, Up
  <2>2. ASSUME NEW j \in Server, Running PROVE ListenerAt(j)'
    BY <1>1, <1>2, <1>4, <2>2 DEF FdInv, ListenerAt
  <2>3. ASSUME NEW j \in Server, NEW d \in Client, Running PROVE FdAt(j, d)'
    <3>1. FdAt(j, d)
      BY <1>1, <2>3 DEF FdInv
    <3>2. HasOpened(j, d)' <=> HasOpened(j, d)
      BY <1>2, <1>3 DEF HasOpened
    <3> QED BY <3>1, <3>2, <1>2, <1>4 DEF FdAt
  <2> QED BY <2>1, <2>2, <2>3, <1>1, <1>2, <1>3 DEF FdInv, Running
<1>6. CountInv'
  <2>1. Served' = Served
    <3>1. \A h \in Handlers : conn'[h[1]][h[2]] \in Live <=> conn[h[1]][h[2]] \in Live
      <4>1. \A h \in Handlers : h[1] \in Server /\ h[2] \in Client
        BY DEF Handlers
      <4> QED BY <4>1
    <3> QED BY <3>1, <1>3, <1>4 DEF Served, At
  <2>2. Leaked' = Leaked
    BY <1>2, LeakedStays
  <2> QED BY <2>1, <2>2, <1>1, <1>2 DEF CountInv, Running
<1>7. GoesOnlyWhenFullOrBroken'
  <2>1. peak \in Nat /\ leaks \in Nat
    BY <1>1 DEF StateInv
  <2>2. peak' >= peak /\ leaks' >= leaks
    BY <2>1, <1>2
  <2> QED BY <2>1, <2>2, <1>1, <1>2, GoesStays
<1> QED BY <1>5, <1>6, <1>7

\* A client that joins a backlog was not in it.
LEMMA AppendKeepsQueue ==
    ASSUME StateInv, QueueInv, program' = program, NEW i \in Server, NEW c \in Client,
           conn[i][c] # "queued", conn'[i][c] = "queued",
           \A j \in Server, d \in Client : conn[j][d] = "queued" => conn'[j][d] = "queued",
           queue' = [queue EXCEPT ![i] = Append(@, c)]
    PROVE  queue' \in [Server -> Seq(Client)] /\ QueueInv'
<1>1. queue \in [Server -> Seq(Client)] /\ queue[i] \in Seq(Client) /\ QueueAt(i)
  BY DEF StateInv, QueueInv
<1>2. PICK n \in Nat : n = Len(queue[i])
  BY <1>1, LenProperties
<1>3. /\ Append(queue[i], c) \in Seq(Client) /\ Len(Append(queue[i], c)) = n + 1
      /\ \A k \in 1..n : Append(queue[i], c)[k] = queue[i][k]
      /\ Append(queue[i], c)[n + 1] = c
  BY <1>1, <1>2, AppendProperties
<1>4. queue' \in [Server -> Seq(Client)]
  BY <1>1, <1>3
<1>5. \A j \in Server : queue'[j] = IF j = i THEN Append(queue[i], c) ELSE queue[j]
  BY <1>1, Zenon
<1>6. Server' = Server
  BY SameNames
<1>7. ASSUME NEW j \in Server PROVE QueueAt(j)'
  <2>1. CASE j = i
    <3>1. queue'[j] = Append(queue[i], c)
      BY <1>5, <2>1
    <3>2. \A k \in 1..n : queue[i][k] \in Client /\ conn[i][queue[i][k]] = "queued"
      BY <1>1, <1>2, ElementOfSeq DEF QueueAt
    <3>3. \A k \in 1..n : queue[i][k] # c /\ conn'[i][queue[i][k]] = "queued"
      BY <3>2
    <3>4. \A k, l \in 1..n : queue[i][k] = queue[i][l] => k = l
      BY <1>1, <1>2 DEF QueueAt
    <3>5. \A k \in 1..(n + 1) : k \in 1..n \/ k = n + 1
      OBVIOUS
    <3>6. \A k \in 1..(n + 1) : conn'[i][Append(queue[i], c)[k]] = "queued"
      BY <1>3, <3>3, <3>5
    <3>7. \A k, l \in 1..(n + 1) :
             Append(queue[i], c)[k] = Append(queue[i], c)[l] => k = l
      BY <1>3, <3>3, <3>4, <3>5
    <3> QED BY <3>1, <3>6, <3>7, <1>3, <2>1 DEF QueueAt
  <2>2. CASE j # i
    <3>1. QueueAt(j) /\ queue'[j] = queue[j] /\ queue[j] \in Seq(Client)
      BY <1>1, <1>5, <2>2 DEF QueueInv
    <3>2. \A k \in 1..Len(queue[j]) : queue[j][k] \in Client
      BY <3>1, ElementOfSeq
    <3> QED BY <3>1, <3>2 DEF QueueAt
  <2> QED BY <2>1, <2>2
<1> QED BY <1>4, <1>6, <1>7 DEF QueueInv

\* Both connections of a client move in one step.
PairTo(c, s, t) == conn' = [conn EXCEPT ![1][c] = s, ![2][c] = t]

\* The value of conn after that.
LEMMA PairMoves ==
    ASSUME StateInv, LastServer = 2, NEW c \in Client, NEW s \in Fate, NEW t \in Fate,
           PairTo(c, s, t)
    PROVE  /\ conn' \in [Server -> [Client -> Fate]]
           /\ \A j \in Server, d \in Client :
                conn'[j][d] = IF d = c /\ j = 1 THEN s ELSE IF d = c /\ j = 2 THEN t ELSE conn[j][d]
<1> HIDE DEF Fate
<1>1. conn \in [Server -> [Client -> Fate]] /\ 1 \in Server /\ 2 \in Server
  BY ProgramFacts DEF StateInv
<1>2. conn' = [conn EXCEPT ![1][c] = s, ![2][c] = t]
  BY DEF PairTo
<1>3. conn' \in [Server -> [Client -> Fate]]
  BY <1>1, <1>2
<1>4. \A j \in Server, d \in Client :
         conn'[j][d] = IF d = c /\ j = 1 THEN s ELSE IF d = c /\ j = 2 THEN t ELSE conn[j][d]
  BY <1>1, <1>2
<1> QED BY <1>3, <1>4

\* The entry server's handler joins the decrypt server's backlog.
LEMMA DialKeeps ==
    ASSUME IInv, NEW i \in Server, NEW c \in Client, Dial(i, c)
    PROVE  IInv'
<1>1. StateInv /\ ChainInv /\ QueueInv
  BY DEF IInv
<1>2. i = 1 /\ LastServer = 2 /\ 1 \in Server /\ 2 \in Server /\ i + 1 = 2 /\ program.proxy
  <2>1. i = 1 /\ LastServer = 2
    BY <1>1, ProgramFacts DEF Dial
  <2> QED BY <2>1, <1>1, ProgramFacts
<1>3. /\ program' = program /\ process' = process /\ loop' = loop /\ fds' = fds
      /\ peak' = peak /\ leaks' = leaks /\ broken' = broken
      /\ conn[1][c] = "connecting"
      /\ conn' = [conn EXCEPT ![1][c] = "handshake", ![2][c] = "queued"]
      /\ queue' = [queue EXCEPT ![2] = Append(@, c)]
  BY <1>2 DEF Dial
<1>4. conn[2][c] = "none"
  BY <1>1, <1>2, <1>3 DEF ChainInv
<1>5. /\ conn' \in [Server -> [Client -> Fate]]
      /\ \A j \in Server, d \in Client :
           conn'[j][d] = IF d = c /\ j = 1 THEN "handshake"
                         ELSE IF d = c /\ j = 2 THEN "queued" ELSE conn[j][d]
  <2>1. "handshake" \in Fate /\ "queued" \in Fate
    BY DEF Fate, Live
  <2>2. PairTo(c, "handshake", "queued")
    BY <1>3 DEF PairTo
  <2> QED BY <2>1, <2>2, <1>1, <1>2, PairMoves
<1>6. /\ Server' = Server /\ Client' = Client /\ LastServer' = LastServer
  BY <1>3, SameNames
<1>7. queue' \in [Server -> Seq(Client)] /\ QueueInv'
  <2>1. conn[2][c] # "queued" /\ conn'[2][c] = "queued"
    BY <1>2, <1>4, <1>5
  <2>2. \A j \in Server, d \in Client : conn[j][d] = "queued" => conn'[j][d] = "queued"
    BY <1>3, <1>5
  <2> QED BY <2>1, <2>2, <1>1, <1>2, <1>3, AppendKeepsQueue
<1>8. StateInv'
  BY <1>1, <1>3, <1>5, <1>6, <1>7 DEF StateInv, Fate, Live
<1>9. ChainInv'
  BY <1>1, <1>2, <1>3, <1>5, <1>6 DEF ChainInv
<1>10. FdInv' /\ CountInv' /\ GoesOnlyWhenFullOrBroken'
  <2>1. HasUp(1) = {"connecting", "handshake", "shaken", "relay"} /\ HasUp(2) = {"connecting", "relay"}
    BY <1>2 DEF HasUp
  <2>2. \A j \in Server, d \in Client :
              /\ conn'[j][d] \in Live <=> conn[j][d] \in Live
              /\ conn'[j][d] \in HasUp(j) <=> conn[j][d] \in HasUp(j)
              /\ conn'[j][d] = "orphan" <=> conn[j][d] = "orphan"
              /\ conn'[j][d] = "failed" <=> conn[j][d] = "failed"
    BY <2>1, <1>3, <1>4, <1>5 DEF Live
  <2> QED BY <2>2, <1>3, SameFdsKeep
<1> QED BY <1>7, <1>8, <1>9, <1>10 DEF IInv

\* The handshake between the two servers' handlers succeeds.
LEMMA ShakeKeeps ==
    ASSUME IInv, NEW c \in Client, Shake(c)
    PROVE  IInv'
<1>1. StateInv /\ ChainInv /\ QueueInv
  BY DEF IInv
<1>2. LastServer = 2 /\ 1 \in Server /\ 2 \in Server /\ program.proxy
  BY <1>1, ProgramFacts DEF Shake
<1>3. /\ program' = program /\ process' = process /\ loop' = loop /\ fds' = fds
      /\ peak' = peak /\ leaks' = leaks /\ broken' = broken /\ queue' = queue
      /\ conn[1][c] = "handshake" /\ conn[2][c] = "handling"
      /\ conn' = [conn EXCEPT ![1][c] = "shaken", ![2][c] = "shaken"]
  BY DEF Shake
<1>4. /\ conn' \in [Server -> [Client -> Fate]]
      /\ \A j \in Server, d \in Client :
           conn'[j][d] = IF d = c /\ j = 1 THEN "shaken"
                         ELSE IF d = c /\ j = 2 THEN "shaken" ELSE conn[j][d]
  <2>1. "shaken" \in Fate
    BY DEF Fate, Live
  <2>2. PairTo(c, "shaken", "shaken")
    BY <1>3 DEF PairTo
  <2> QED BY <2>1, <2>2, <1>1, <1>2, PairMoves
<1>5. /\ Server' = Server /\ Client' = Client /\ LastServer' = LastServer
  BY <1>3, SameNames
<1>6. QueueInv'
  <2>1. \A j \in Server, d \in Client : conn[j][d] = "queued" => conn'[j][d] = "queued"
    BY <1>3, <1>4
  <2> QED BY <2>1, <1>1, <1>3, QueueStays
<1>7. StateInv'
  BY <1>1, <1>3, <1>4, <1>5 DEF StateInv, Fate, Live
<1>8. ChainInv'
  BY <1>1, <1>2, <1>3, <1>4, <1>5 DEF ChainInv
<1>9. FdInv' /\ CountInv' /\ GoesOnlyWhenFullOrBroken'
  <2>1. HasUp(1) = {"connecting", "handshake", "shaken", "relay"} /\ HasUp(2) = {"connecting", "relay"}
    BY <1>2 DEF HasUp
  <2>2. \A j \in Server, d \in Client :
              /\ conn'[j][d] \in Live <=> conn[j][d] \in Live
              /\ conn'[j][d] \in HasUp(j) <=> conn[j][d] \in HasUp(j)
              /\ conn'[j][d] = "orphan" <=> conn[j][d] = "orphan"
              /\ conn'[j][d] = "failed" <=> conn[j][d] = "failed"
    BY <2>1, <1>3, <1>4 DEF Live
  <2> QED BY <2>2, <1>3, SameFdsKeep
<1> QED BY <1>6, <1>7, <1>8, <1>9 DEF IInv

\* A client joins the first server's backlog, or is reset.
LEMMA ArriveKeeps ==
    ASSUME IInv, NEW c \in Client, Arrive(c)
    PROVE  IInv'
<1>1. StateInv /\ ChainInv /\ QueueInv /\ 1 \in Server
  BY ProgramFacts DEF IInv
<1>2. /\ program' = program /\ process' = process /\ loop' = loop /\ fds' = fds
      /\ peak' = peak /\ leaks' = leaks /\ broken' = broken /\ conn[1][c] = "none"
  BY DEF Arrive
<1>3. PICK s \in {"queued", "reset"} :
         /\ Becomes(1, c, s)
         /\ s = "queued" => queue' = [queue EXCEPT ![1] = Append(@, c)]
         /\ s = "reset" => queue' = queue
  BY DEF Arrive
<1>4. Moved(1, c, s) /\ conn' \in [Server -> [Client -> Fate]]
  <2>1. s \in Fate
    BY DEF Fate
  <2> QED BY <2>1, <1>1, <1>3, Moves
<1>5. /\ Server' = Server /\ Client' = Client /\ LastServer' = LastServer
  BY <1>2, SameNames
<1>6. \A j \in Server, d \in Client : conn[j][d] = "queued" => conn'[j][d] = "queued"
  BY <1>2, <1>4 DEF Moved
<1>7. queue' \in [Server -> Seq(Client)] /\ QueueInv'
  <2>1. CASE s = "queued"
    <3>1. conn[1][c] # "queued" /\ conn'[1][c] = "queued"
      BY <1>1, <1>2, <1>4, <2>1 DEF Moved
    <3>2. queue' = [queue EXCEPT ![1] = Append(@, c)]
      BY <1>3, <2>1
    <3> QED BY <3>1, <3>2, <1>1, <1>2, <1>6, AppendKeepsQueue
  <2>2. CASE s = "reset"
    <3>1. queue' = queue
      BY <1>3, <2>2
    <3> QED BY <3>1, <1>1, <1>2, <1>6, QueueStays DEF StateInv
  <2> QED BY <2>1, <2>2
<1>8. StateInv'
  BY <1>1, <1>2, <1>4, <1>5, <1>7 DEF StateInv, Fate, Live
<1>9. ChainInv'
  <2>1. ASSUME ~program.proxy, NEW j \in Server, NEW d \in Client
        PROVE  conn'[j][d] \notin {"handling", "connecting", "handshake", "shaken"}
    BY <2>1, <1>1, <1>4 DEF ChainInv, Moved
  <2>2. ASSUME LastServer = 2, NEW d \in Client, conn'[1][d] \in Early PROVE conn'[2][d] = "none"
    <3>1. 2 \in Server
      BY <1>1, <2>2, ProgramFacts
    <3>2. conn[1][d] \in Early
      BY <1>1, <1>2, <1>4, <2>2 DEF Moved, Early
    <3>3. conn[2][d] = "none"
      BY <3>2, <1>1, <2>2 DEF ChainInv, Early
    <3> QED BY <3>1, <3>3, <1>4 DEF Moved
  <2> QED BY <2>1, <2>2, <1>2, <1>5 DEF ChainInv, Early
<1>10. FdInv' /\ CountInv' /\ GoesOnlyWhenFullOrBroken'
  <2>1. \A x \in {"none", "queued", "reset"} : \A j : x \notin HasUp(j) /\ x \notin Live
                                             /\ x # "orphan" /\ x # "failed"
    BY DEF HasUp, Live
  <2>2. \A j \in Server, d \in Client :
              /\ conn'[j][d] \in Live <=> conn[j][d] \in Live
              /\ conn'[j][d] \in HasUp(j) <=> conn[j][d] \in HasUp(j)
              /\ conn'[j][d] = "orphan" <=> conn[j][d] = "orphan"
              /\ conn'[j][d] = "failed" <=> conn[j][d] = "failed"
    BY <2>1, <1>2, <1>4, SMTT(40) DEF Moved
  <2> QED BY <2>2, <1>2, SameFdsKeep
<1> QED BY <1>7, <1>8, <1>9, <1>10 DEF IInv
-----------------------------------------------------------------------------
(***************************************************************************)
(* The theorems.                                                           *)
(***************************************************************************)
\* The invariant holds at the start.
LEMMA InitHolds ==
    ASSUME Init
    PROVE  IInv
<1>1. /\ program \in Programs /\ process = "up" /\ loop = [i \in Server |-> "init"]
      /\ queue = [i \in Server |-> <<>>]
      /\ conn = [i \in Server |-> [c \in Client |-> "none"]]
      /\ fds = {} /\ peak = 0 /\ leaks = 0 /\ broken = {}
  BY DEF Init
<1>2. StateInv
  <2>1. queue \in [Server -> Seq(Client)]
    <3>1. <<>> \in Seq(Client)
      OBVIOUS
    <3> QED BY <3>1, <1>1
  <2>2. conn \in [Server -> [Client -> Fate]]
    BY <1>1 DEF Fate
  <2> HIDE DEF Fate
  <2> QED BY <2>1, <2>2, <1>1 DEF StateInv
<1>3. \A i \in Server, c \in Client : conn[i][c] = "none"
  BY <1>1
<1>4. ChainInv
  <2>1. LastServer = 2 => 2 \in Server
    BY <1>2, ProgramFacts
  <2> QED BY <2>1, <1>3 DEF ChainInv
<1>5. QueueInv
  BY <1>1 DEF QueueInv, QueueAt
<1>6. FdInv
  <2>1. \A j : "none" \notin HasUp(j) \cup Live
    BY DEF HasUp, Live
  <2> QED BY <2>1, <1>1, <1>3 DEF FdInv, ListenerAt, FdAt, HasOpened
<1>7. CountInv
  <2>1. Served = {} /\ Leaked = {}
    <3>1. \A h \in Handlers : conn[h[1]][h[2]] \notin Live
      <4>1. \A h \in Handlers : h[1] \in Server /\ h[2] \in Client
        BY DEF Handlers
      <4> QED BY <4>1, <1>3 DEF Live
    <3> QED BY <3>1, <1>1 DEF Served, At, Leaked
  <2>2. program.fds \in Nat
    BY <1>2, ProgramFacts
  <2> QED BY <2>1, <2>2, <1>1, FS_EmptySet DEF CountInv
<1>8. GoesOnlyWhenFullOrBroken
  BY <1>1 DEF GoesOnlyWhenFullOrBroken
<1> QED BY <1>2, <1>4, <1>5, <1>6, <1>7, <1>8 DEF IInv

\* Every step keeps the invariant.
LEMMA NextKeeps ==
    ASSUME IInv, [Next]_vars
    PROVE  IInv'
<1>1. ASSUME NEW i \in Server, Run(i) PROVE IInv'
  BY <1>1, ListenKeeps, ListenFailsKeeps, AcceptKeeps, AcceptFailsKeeps, AcceptThrowsKeeps,
     StopKeeps DEF Run
<1>2. ASSUME NEW i \in Server, NEW c \in Client, HandleClient(i, c) PROVE IInv'
  BY <1>2, EnterKeeps, UsesGoneServerKeeps, OpenUpstreamKeeps, UpstreamRefusedKeeps,
     DialKeeps, RelayKeeps, RelayThrowsKeeps, RelayAbortsKeeps DEF HandleClient
<1>3. ASSUME NEW c \in Client, Handshake(c) PROVE IInv'
  BY <1>3, ShakeKeeps, ConnectShakeFailsKeeps, AcceptShakeFailsKeeps DEF Handshake
<1>4. CASE UNCHANGED vars
  <2>1. /\ program' = program /\ process' = process /\ loop' = loop /\ queue' = queue
        /\ conn' = conn /\ fds' = fds /\ peak' = peak /\ leaks' = leaks /\ broken' = broken
    BY <1>4 DEF vars
  <2>2. StateInv /\ ChainInv /\ QueueInv
    BY DEF IInv
  <2>3. Server' = Server /\ Client' = Client /\ LastServer' = LastServer
    BY <2>1, SameNames
  <2>4. StateInv' /\ ChainInv'
    BY <2>1, <2>2, <2>3 DEF StateInv, ChainInv, Fate, Live
  <2>5. QueueInv'
    BY <2>1, <2>2, QueueStays
  <2>6. FdInv' /\ CountInv' /\ GoesOnlyWhenFullOrBroken'
    BY <2>1, SameFdsKeep
  <2> QED BY <2>4, <2>5, <2>6 DEF IInv
<1> QED
  BY <1>1, <1>2, <1>3, <1>4, AcceptErrsKeeps, ExitKeeps, FinishKeeps, ArriveKeeps DEF Next

\* The invariant holds in every reachable state: for any programs, any clients, any
\* number of descriptors and threads, and a backlog of any length.
THEOREM Invariance == Spec => []IInv
BY InitHolds, NextKeeps, PTL DEF Spec

\* Types are respected, and the table of descriptors is never over its limit.
THEOREM TypeCorrect == Spec => []TypeOK
<1>1. ASSUME IInv PROVE TypeOK
  <2>1. fds \subseteq {Listener(i) : i \in Server}
                     \cup {ClientFd(h[1], h[2]) : h \in Handlers}
                     \cup {Up(h[1], h[2]) : h \in Handlers}
    <3>1. CASE Running
      BY <1>1, <3>1 DEF IInv, FdInv, Names
    <3>2. CASE ~Running
      BY <1>1, <3>2 DEF IInv, CountInv
    <3> QED BY <3>1, <3>2
  <2>2. Cardinality(fds) <= program.fds
    BY <1>1 DEF IInv, CountInv
  <2>3. Running => \A i \in Server : Listener(i) \in fds <=> loop[i] \in {"accept", "returned"}
    BY <1>1 DEF IInv, FdInv, ListenerAt
  <2> QED BY <1>1, <2>1, <2>2, <2>3 DEF IInv, StateInv, TypeOK, Fate
<1> QED BY <1>1, Invariance, PTL

\* While the process runs, every open descriptor has an owner that will close it, but
\* for exactly one for each set-up that failed after the second socket was made and
\* for each client that could be given no thread.
THEOREM LeaksAreFailed == Spec => []LeaksAreFailures
<1>1. ASSUME IInv PROVE LeaksAreFailures
  <2>1. ASSUME Running PROVE Owned \subseteq fds /\ Cardinality(fds \ Owned) = leaks
    <3>1. StateInv /\ FdInv /\ CountInv
      BY <1>1 DEF IInv
    <3>2. fds \ Owned = Leaked /\ Owned \subseteq fds
      BY <2>1, <3>1, LeakedIsUnowned, OwnedIsOpen
    <3> QED BY <2>1, <3>1, <3>2 DEF CountInv
  <2> QED BY <2>1 DEF LeaksAreFailures
<1> QED BY <1>1, Invariance, PTL

\* A server leaves its loop only after its own accept() met an error from outside, or
\* after the program ran as many handlers at one time as its threads allow, or as the
\* descriptors allow that failed set-ups have left.  The program aborts only after one
\* of these.
THEOREM OnlyFullOrBrokenGoes == Spec => []GoesOnlyWhenFullOrBroken
<1>1. ASSUME IInv PROVE GoesOnlyWhenFullOrBroken
  BY <1>1 DEF IInv
<1> QED BY <1>1, Invariance, PTL
=============================================================================
