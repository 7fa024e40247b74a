----------------------------- MODULE PqcTunnel -----------------------------
(***************************************************************************)
(* One tunnel of the PQC proxy: PqcProxyServer::handle_client, the two     *)
(* forward_data threads it starts, the two sockets between which they copy *)
(* and the two programs at the far ends of those sockets.                  *)
(*                                                                         *)
(* Bytes travel in two directions, "req" (client to BIST) and "rsp" (BIST  *)
(* to client).  On its way a byte of direction d is first in inq[d] (sent  *)
(* by the source, not yet read by the thread: the source's send buffer,    *)
(* the wire and the proxy's receive buffer taken together), then in buf[d] *)
(* (the thread's local vectors), then in outq[d] (written by the thread,   *)
(* not yet read by the sink), and finally in got[d].                       *)
(*                                                                         *)
(* The unit of data is whatever the reader wants a byte to be; nothing in  *)
(* the proxy looks at it.                                                  *)
(***************************************************************************)
EXTENDS Integers, Sequences, SequencesExt

CONSTANTS
    Unit,      \* what is sent: bytes
    BufSize,   \* sizeof(buffer) of forward_data, in units
    Cap,       \* what a socket holds before a blocking write waits, in units
    MaxSent    \* bound: how many units each end sends, [Dir -> Nat]

Dir == {"req", "rsp"}
End == {"client", "bist"}

ASSUME TunnelAssumption ==
    /\ BufSize \in Nat \ {0}
    /\ Cap \in Nat \ {0}
    /\ MaxSent \in [Dir -> Nat]

VARIABLES
    hand,   \* handle_client: connecting, joining its threads, returned
    thr,    \* where the forward_data thread of each direction stands
    buf,    \* what that thread has read and not yet written
    inq,    \* per direction: sent by the source, not yet read by the proxy
    outq,   \* per direction: written by the proxy, not yet read by the sink
    peer,   \* the program at each end: open, closed, or not yet connected
    rst,    \* at each end: the proxy's socket has received a reset
    fds,    \* the descriptors handle_client owns that are open
    proc,   \* the proxy process: running, killed by SIGPIPE, or stopped
    sent,   \* history: all that the source of a direction sent
    got,    \* history: all that the sink of a direction received
    eof     \* history: the sink of a direction has read the end of the stream

tunnelVars == <<hand, thr, buf, inq, outq, rst, fds, proc>>
endVars    == <<peer, sent, got, eof>>
vars       == <<tunnelVars, endVars>>

Src(d) == IF d = "req" THEN "client" ELSE "bist"
Dst(d) == IF d = "req" THEN "bist" ELSE "client"
Toward(e) == IF e = "bist" THEN "req" ELSE "rsp"   \* the direction e is the sink of
From(e)   == IF e = "client" THEN "req" ELSE "rsp" \* the direction e is the source of

Least(a, b) == IF a <= b THEN a ELSE b
Take(s, n) == SubSeq(s, 1, n)
BugDropKeepsOne(s, n) == SubSeq(s, n, Len(s))
Drop(s, n) == SubSeq(s, n + 1, Len(s))

(***************************************************************************)
(* The conditions the steps turn on.  A definition named Bug... is what    *)
(* the one after it would be if the code had the mistake its name says; no *)
(* module uses it.  It is there to show that the properties notice.        *)
(***************************************************************************)

\* Both threads have ended, so join() returns.
BugJoinsOneThread == thr["req"] = "done"
Joined == \A d \in Dir : thr[d] = "done"

\* The thread has read all that was queued.
BugEndsWithDataQueued(d) == Len(inq[d]) < 2
Drained(d) == inq[d] = <<>>

\* How much the socket to the sink still takes.
Room(d) == Cap - Len(outq[d])

\* Where the thread stands when write() has copied n units.
AfterWrite(d, n) == IF n = Len(buf[d]) THEN "read" ELSE "copy"

\* write() finds its connection broken.
BugFullIsBroken(d) == Len(outq[d]) = Cap
Broke(d) == rst[Dst(d)]

\* The sink of d has been told that nothing more comes: by shutdown(dst_fd,
\* SHUT_WR) when the thread ends, or because the descriptor is closed.
BugNoShutdown(d) == Dst(d) \notin fds
Told(d) == thr[d] = "done" \/ Dst(d) \notin fds
-----------------------------------------------------------------------------
(***************************************************************************)
(* simulate_crypto: a chunk is sealed with AES-GCM and unsealed again with *)
(* the same key and nonce before it is written.  Both steps work unit by   *)
(* unit with the key stream of that key at that position.                  *)
(***************************************************************************)
KEY == "zero key and nonce"
Garbage == CHOOSE u : u \notin Unit

Seal(key, chunk) ==
    [i \in 1..Len(chunk) |-> [plain |-> chunk[i], key |-> key, at |-> i]]

Unseal(key, cipher) ==
    [i \in 1..Len(cipher) |->
        IF cipher[i].key = key /\ cipher[i].at = i THEN cipher[i].plain
                                                   ELSE Garbage]

SimulateCrypto(chunk) == Unseal(KEY, Seal(KEY, chunk))
-----------------------------------------------------------------------------
Init ==
    /\ hand = "connect"
    /\ thr  = [d \in Dir |-> "idle"]
    /\ buf  = [d \in Dir |-> <<>>]
    /\ inq  = [d \in Dir |-> <<>>]
    /\ outq = [d \in Dir |-> <<>>]
    /\ peer = [e \in End |-> IF e = "client" THEN "open" ELSE "absent"]
    /\ rst  = [e \in End |-> FALSE]
    /\ fds  = {"client"}
    /\ proc = "up"
    /\ sent = [d \in Dir |-> <<>>]
    /\ got  = [d \in Dir |-> <<>>]
    /\ eof  = [d \in Dir |-> FALSE]
-----------------------------------------------------------------------------
(***************************************************************************)
(* handle_client                                                           *)
(***************************************************************************)

\* socket() and connect() to BIST succeed; both threads start.
Connect ==
    /\ proc = "up" /\ hand = "connect"
    /\ hand' = "relay"
    /\ thr'  = [d \in Dir |-> "read"]
    /\ fds'  = fds \cup {"bist"}
    /\ peer' = [peer EXCEPT !["bist"] = "open"]
    /\ UNCHANGED <<buf, inq, outq, rst, proc, sent, got, eof>>

\* connect() fails: the client's descriptor is closed, and the socket made for
\* BIST is not.
ConnectRefused ==
    /\ proc = "up" /\ hand = "connect"
    /\ hand' = "refused"
    /\ fds'  = (fds \cup {"bist"}) \ {"client"}
    /\ UNCHANGED <<thr, buf, inq, outq, rst, proc, endVars>>

\* Both join()s have returned: the descriptors are closed.
Join ==
    /\ proc = "up" /\ hand = "relay"
    /\ Joined
    /\ hand' = "done"
    /\ fds'  = {}
    /\ UNCHANGED <<thr, buf, inq, outq, rst, proc, endVars>>
-----------------------------------------------------------------------------
(***************************************************************************)
(* forward_data                                                            *)
(***************************************************************************)

\* read() returns between one unit and a full buffer, which goes through
\* simulate_crypto.
Read(d) ==
    /\ proc = "up" /\ thr[d] = "read"
    /\ \E n \in 1 .. Least(Len(inq[d]), BufSize) :
         /\ buf' = [buf EXCEPT ![d] = SimulateCrypto(Take(inq[d], n))]
         /\ inq' = [inq EXCEPT ![d] = Drop(inq[d], n)]
    /\ thr' = [thr EXCEPT ![d] = "write"]
    /\ UNCHANGED <<hand, outq, rst, fds, proc, endVars>>

\* read() returns 0 (the source has closed) or -1 (its connection was reset):
\* the loop ends and the sink is told by shutdown(dst_fd, SHUT_WR).
ReadEnds(d) ==
    /\ proc = "up" /\ thr[d] = "read"
    /\ Drained(d)
    /\ peer[Src(d)] = "closed" \/ rst[Src(d)]
    /\ thr' = [thr EXCEPT ![d] = "done"]
    /\ UNCHANGED <<hand, buf, inq, outq, rst, fds, proc, endVars>>

\* write() copies as much as the socket takes.  It returns when all of the
\* chunk is copied and waits, in state "copy", while some is left.
Write(d) ==
    /\ proc = "up" /\ thr[d] \in {"write", "copy"}
    /\ ~Broke(d)
    /\ LET n == Least(Room(d), Len(buf[d])) IN
         /\ n > 0
         /\ outq' = [outq EXCEPT ![d] = @ \o Take(buf[d], n)]
         /\ buf'  = [buf EXCEPT ![d] = Drop(@, n)]
         /\ thr'  = [thr EXCEPT ![d] = AfterWrite(d, n)]
    /\ UNCHANGED <<hand, inq, rst, fds, proc, endVars>>

\* write() to a connection that was reset: an error, or the short count of a
\* write that had begun.  forward_data looks at neither and reads on.
WriteFails(d) ==
    /\ proc = "up" /\ thr[d] \in {"write", "copy"}
    /\ Broke(d)
    /\ buf' = [buf EXCEPT ![d] = <<>>]
    /\ thr' = [thr EXCEPT ![d] = "read"]
    /\ UNCHANGED <<hand, inq, outq, rst, fds, proc, endVars>>

\* What the kernel does with the sockets of a process that ends: they close,
\* and of what was still to be delivered the sinks receive some prefix.
ProcessEnds(cause) ==
    /\ proc' = cause
    /\ fds'  = {}
    /\ \E n \in [Dir -> 0..Cap] :
         /\ \A d \in Dir : n[d] <= Len(outq[d])
         /\ outq' = [d \in Dir |-> Take(outq[d], n[d])]
    /\ UNCHANGED <<hand, thr, buf, inq, rst, endVars>>

\* The proxy does not ignore SIGPIPE: a write() to a connection whose error has
\* been reported already, or that was closed before the reset, ends the process.
WriteKills(d) ==
    /\ proc = "up" /\ thr[d] = "write"
    /\ Broke(d)
    /\ ProcessEnds("sigpipe")

\* An operator stops the proxy (stop_prod.sh kills the process).
Stop ==
    /\ proc = "up"
    /\ ProcessEnds("stopped")
-----------------------------------------------------------------------------
(***************************************************************************)
(* The programs at the ends, and TCP between them and the proxy.           *)
(***************************************************************************)
Send(e) ==
    LET d == From(e) IN
    /\ peer[e] = "open"
    /\ Len(inq[d]) < Cap /\ Len(sent[d]) < MaxSent[d]
    /\ \E u \in Unit :
         /\ inq'  = [inq EXCEPT ![d] = Append(@, u)]
         /\ sent' = [sent EXCEPT ![d] = Append(@, u)]
    /\ UNCHANGED <<hand, thr, buf, outq, rst, fds, proc, peer, got, eof>>

Receive(e) ==
    LET d == Toward(e) IN
    /\ peer[e] = "open"
    /\ outq[d] # <<>>
    /\ got'  = [got EXCEPT ![d] = Append(@, Head(outq[d]))]
    /\ outq' = [outq EXCEPT ![d] = Tail(@)]
    /\ UNCHANGED <<hand, thr, buf, inq, rst, fds, proc, peer, sent, eof>>

\* The end of the stream reaches a sink that has read all before it: the
\* thread has shut its side down, or the descriptor was closed.
ReceiveEnd(e) ==
    LET d == Toward(e) IN
    /\ peer[e] = "open" /\ ~eof[d]
    /\ outq[d] = <<>>
    /\ Told(d)
    /\ eof' = [eof EXCEPT ![d] = TRUE]
    /\ UNCHANGED <<tunnelVars, peer, sent, got>>

\* A program closes its socket, at any time: a client that has its answer, one
\* that ran into its timeout, one that crashed.
Close(e) ==
    /\ peer[e] = "open"
    /\ peer' = [peer EXCEPT ![e] = "closed"]
    /\ UNCHANGED <<tunnelVars, sent, got, eof>>

\* Data that a closed socket did not read is answered by a reset; the closed
\* end may then not send all it still had in its own buffer.
Reset(e) ==
    /\ peer[e] = "closed" /\ ~rst[e]
    /\ outq[Toward(e)] # <<>>
    /\ e \in fds
    /\ rst' = [rst EXCEPT ![e] = TRUE]
    /\ \E n \in 0 .. Len(inq[From(e)]) :
         inq' = [inq EXCEPT ![From(e)] = Take(@, n)]
    /\ UNCHANGED <<hand, thr, buf, outq, fds, proc, endVars>>
-----------------------------------------------------------------------------
Handle  == Connect \/ ConnectRefused \/ Join
Forward(d) == Read(d) \/ ReadEnds(d) \/ Write(d) \/ WriteFails(d) \/ WriteKills(d)
Program(e) == Send(e) \/ Receive(e) \/ ReceiveEnd(e) \/ Close(e) \/ Reset(e)

Next ==
    \/ Handle
    \/ \E d \in Dir : Forward(d)
    \/ Stop
    \/ \E e \in End : Program(e)

Spec == Init /\ [][Next]_vars

(***************************************************************************)
(* Fairness: the handler and its threads run when they can; TCP delivers   *)
(* resets; the BIST server reads on unless it is blocked writing a reply,  *)
(* and closes once it has read the end of the stream.  Nothing is asked of *)
(* the client: the load generator of tests/ never reads a reply.           *)
(***************************************************************************)
BistReads  == Len(inq["rsp"]) < Cap /\ Receive("bist")
BistCloses == eof["req"] /\ Close("bist")

FairSpec ==
    /\ Spec
    /\ WF_vars(Handle)
    /\ \A d \in Dir : WF_vars(Forward(d))
    /\ \A e \in End : WF_vars(Reset(e))
    /\ WF_vars(BistReads)
    /\ WF_vars(ReceiveEnd("bist"))
    /\ WF_vars(BistCloses)

\* What a property may ask of the client: that it reads what comes, as the web
\* server and the benchmark do.
ClientReads == WF_vars(Receive("client")) /\ WF_vars(ReceiveEnd("client"))
-----------------------------------------------------------------------------
(***************************************************************************)
(* Type correctness of the tunnel's state (handle_client, forward_data):   *)
(* no socket holds more than it can, and a thread's loop has ended with    *)
(* nothing left to read and nothing left to write.                         *)
(***************************************************************************)
Types ==
    /\ hand \in {"connect", "relay", "refused", "done"}
    /\ thr  \in [Dir -> {"idle", "read", "write", "copy", "done"}]
    /\ buf  \in [Dir -> Seq(Unit)]
    /\ inq  \in [Dir -> Seq(Unit)]
    /\ outq \in [Dir -> Seq(Unit)]
    /\ \A d \in Dir : Len(outq[d]) <= Cap
    /\ peer \in [End -> {"absent", "open", "closed"}]
    /\ rst  \in [End -> BOOLEAN]
    /\ fds  \subseteq End
    /\ proc \in {"up", "sigpipe", "stopped"}
    /\ sent \in [Dir -> Seq(Unit)]
    /\ got  \in [Dir -> Seq(Unit)]
    /\ eof  \in [Dir -> BOOLEAN]

TypeOK ==
    /\ Types
    /\ \A d \in Dir : thr[d] = "done" => inq[d] = <<>> /\ buf[d] = <<>>

(***************************************************************************)
(* The tunnel is a pipe in each direction: whatever an end has received is *)
(* a prefix of what the other end sent.  No loss, reordering, duplication  *)
(* or corruption inside what was received, whatever closes, is reset or    *)
(* ends, and although write()'s short counts are ignored.                  *)
(***************************************************************************)
Ordered == \A d \in Dir : IsPrefix(got[d], sent[d])

(***************************************************************************)
(* While the proxy runs and neither connection was reset, every unit sent  *)
(* is received or on its way, in order: the copying loop of forward_data   *)
(* drops nothing that somebody could still read.                           *)
(***************************************************************************)
Intact(d) == proc = "up" /\ ~rst[Src(d)] /\ ~rst[Dst(d)]

Written(d) == got[d] \o outq[d]
Unwritten(d) == buf[d] \o inq[d]

Conserved == \A d \in Dir : Intact(d) => sent[d] = Written(d) \o Unwritten(d)

\* Both: nothing is made up, and nothing is lost that could have arrived.
DataKept == Ordered /\ Conserved

(***************************************************************************)
(* An end that reads the end of the stream while the proxy runs has        *)
(* received all that the other end sent, and the other end has closed: the *)
(* SHUT_WR of forward_data never overtakes data.  (When the BIST cannot be *)
(* connected, or the source's connection is reset, the end of the stream   *)
(* is no such promise.)                                                    *)
(***************************************************************************)
EndMeansComplete ==
    \A d \in Dir :
        eof[d] /\ proc = "up" /\ hand # "refused" /\ ~rst[Src(d)] =>
            got[d] = sent[d] /\ peer[Src(d)] = "closed"

(***************************************************************************)
(* The process dies of SIGPIPE only when some end closed before it had     *)
(* received everything that was sent to it.  A client that waits for all   *)
(* its answers and a BIST that reads to the end never bring the proxy down *)
(* (the write() in forward_data, with SIGPIPE not ignored).                *)
(***************************************************************************)
SigPipeOnlyAfterEarlyClose ==
    proc = "sigpipe" =>
        \E d \in Dir : peer[Dst(d)] = "closed" /\ got[d] # sent[d]

(***************************************************************************)
(* handle_client closes its descriptors only when nobody needs them:  once *)
(* it has returned from an open tunnel both programs have closed, so no    *)
(* reply is cut off by close().                                            *)
(***************************************************************************)
DoneOnlyWhenBothClosed ==
    hand = "done" => \A e \in End : peer[e] = "closed"

(***************************************************************************)
(* The inductive invariant behind the safety properties above.  Control    *)
(* relates the program counters of handle_client and of its threads to the *)
(* descriptors, buffers and peers; Flow says what is kept of Conserved     *)
(* when a reset or the end of the process has cut a direction short.       *)
(***************************************************************************)
HandlerInv ==
    /\ hand = "connect" => peer["bist"] = "absent"
    /\ hand = "done" => \A d \in Dir : thr[d] = "done"
    /\ proc = "up" /\ hand = "connect" => fds = {"client"}
    /\ proc = "up" /\ hand = "relay" => fds = End

ThreadInv(d) ==
    /\ thr[d] = "idle" <=> hand \in {"connect", "refused"}
    /\ thr[d] \notin {"write", "copy"} => buf[d] = <<>>
    /\ thr[d] = "done" => inq[d] = <<>> /\ peer[Src(d)] = "closed"
    /\ eof[d] /\ proc = "up" /\ hand # "refused" =>
           thr[d] = "done" /\ outq[d] = <<>> /\ ~rst[Dst(d)]

ResetInv(d) ==
    rst[Dst(d)] => peer[Dst(d)] = "closed" /\ Len(got[d]) < Len(sent[d])

Control == HandlerInv /\ \A d \in Dir : ThreadInv(d) /\ ResetInv(d)

Flow(d) ==
    /\ IsPrefix(Written(d), sent[d])
    /\ proc = "up" /\ ~rst[Dst(d)] => IsPrefix(Written(d) \o Unwritten(d), sent[d])
    /\ Intact(d) => sent[d] = Written(d) \o Unwritten(d)

IInv ==
    /\ Types
    /\ Control
    /\ \A d \in Dir : Flow(d)
    /\ proc = "sigpipe" => \E e \in End : rst[e]

(***************************************************************************)
(* A client that closes brings its tunnel down: the two threads end, and   *)
(* the descriptors are closed.  (Unless BIST could not be connected, where *)
(* the handler has returned already, or the whole process has ended.)      *)
(***************************************************************************)
TunnelCloses ==
    (peer["client"] = "closed") ~> (fds = {} \/ hand = "refused")

(***************************************************************************)
(* What an end has sent reaches the other end even if the sender is gone   *)
(* by then, unless its connection was reset, the receiver closed or the    *)
(* proxy ended.  It needs a client that reads its replies: the BIST server *)
(* stops reading orders while it is blocked on a reply.                    *)
(***************************************************************************)
Delivered ==
    ClientReads => \A d \in Dir : \A n \in 1..MaxSent[d] :
        (Len(sent[d]) >= n) ~>
            \/ Len(got[d]) >= n
            \/ rst[Src(d)] \/ peer[Dst(d)] = "closed"
            \/ hand = "refused" \/ proc # "up"

(***************************************************************************)
(* A client that reads is told when the BIST server is gone: the SHUT_WR   *)
(* at the end of forward_data passes the end of the stream on.             *)
(***************************************************************************)
BistCloseIsTold ==
    ClientReads => (peer["bist"] = "closed") ~> (eof["rsp"] \/ peer["client"] = "closed")
=============================================================================
