----------------------------- MODULE TlsTunnel -----------------------------
(***************************************************************************)
(* One tunnel of the TLS proxy: the handler of TlsClientEntryServer (port  *)
(* 5007), the handler of TlsDecryptServer (port 5008) it connects to in    *)
(* the same process, their four copying threads, and the programs at the   *)
(* ends.  Three connections, of two endpoints each:                        *)
(*                                                                         *)
(*    client -- entryIn    entryOut == TLS == decryptIn   decryptOut -- bist*)
(*                                                                         *)
(* q[x] is what endpoint x has sent and the other end of its connection    *)
(* has not read.  A unit is what one read() or SSL_read() returns.         *)
(***************************************************************************)
EXTENDS Integers, Sequences, SequencesExt

CONSTANTS
    Unit,      \* what is sent
    Cap,       \* what a connection holds one way before a write waits
    MaxSent    \* bound: how many units each program sends, [Dir -> Nat]

Dir      == {"req", "rsp"}
Server   == {"entry", "decrypt"}
Thread   == {"entry.req", "decrypt.req", "decrypt.rsp", "entry.rsp"}
Program  == {"client", "bist"}
Socket   == {"entryIn", "entryOut", "decryptIn", "decryptOut"}
Endpoint == Program \cup Socket

ASSUME TlsAssumption == Cap \in Nat \ {0} /\ MaxSent \in [Dir -> Nat]

VARIABLES
    hand,   \* where each server's handle_client stands
    thr,    \* where each copying thread stands
    buf,    \* what it has read and not yet written
    open,   \* the endpoints that are open
    leaked, \* descriptors that no handler will close any more
    shut,   \* endpoints shut down for writing
    q,      \* per endpoint: sent and not yet read at the other end
    rst,    \* the endpoints that were reset
    proc,   \* the process of both servers
    raced,  \* two threads have disturbed each other inside one SSL object
    sent, got, eof   \* histories, per direction, as in PqcTunnel

vars == <<hand, thr, buf, open, leaked, shut, q, rst, proc, raced, sent, got, eof>>
history == <<sent, got, eof>>

Other(x) ==
    CASE x = "client"    -> "entryIn"   [] x = "entryIn"    -> "client"
      [] x = "entryOut"  -> "decryptIn" [] x = "decryptIn"  -> "entryOut"
      [] x = "bist"      -> "decryptOut" [] x = "decryptOut" -> "bist"

\* The descriptors a thread reads from and writes to.
From(t) == CASE t = "entry.req"   -> "entryIn"    [] t = "entry.rsp"   -> "entryOut"
             [] t = "decrypt.req" -> "decryptIn"  [] t = "decrypt.rsp" -> "decryptOut"
To(t)   == CASE t = "entry.req"   -> "entryOut"   [] t = "entry.rsp"   -> "entryIn"
             [] t = "decrypt.req" -> "decryptOut" [] t = "decrypt.rsp" -> "decryptIn"

\* The two threads of a server; the reader is the one that calls SSL_read.
Reader(s) == IF s = "entry" THEN "entry.rsp" ELSE "decrypt.req"
Writer(s) == IF s = "entry" THEN "entry.req" ELSE "decrypt.rsp"
Inner(s)  == IF s = "entry" THEN "entryOut" ELSE "decryptIn"    \* under TLS
Outer(s)  == IF s = "entry" THEN "entryIn" ELSE "decryptOut"    \* in the clear

Source(d) == IF d = "req" THEN "client" ELSE "bist"
Sink(d)   == IF d = "req" THEN "bist" ELSE "client"

(***************************************************************************)
(* Conditions the steps turn on, each after what it would be with a bug.   *)
(***************************************************************************)
BugJoinsWriterOnly(s) == thr[Writer(s)] = "done"
Joined(s) == thr[Reader(s)] = "done" /\ thr[Writer(s)] = "done"

\* SSL_read and read() end at a close, a shutdown for writing or a reset.
Ended(t) ==
    /\ q[Other(From(t))] = <<>>
    /\ \/ Other(From(t)) \notin open
       \/ Other(From(t)) \in shut
       \/ From(t) \in rst

\* What a thread shuts down when its loop ends: only the reader of the entry
\* server tells anybody.
BugAllTell(t) == {To(t)}
Tells(t) == IF t = "entry.rsp" THEN {"entryIn"} ELSE {}

BugFullIsBroken(t) == Len(q[To(t)]) = Cap
Broke(t) == To(t) \in rst

\* SSL_read has failed for good in the other thread of its server; what SSL_write
\* then does depends on the version of OpenSSL.
Spoiled(t) == \E s \in Server : t = Writer(s) /\ thr[Reader(s)] = "done"

BugWritesTwice(t) == q[To(t)] \o buf[t] \o buf[t]
Written(t) == q[To(t)] \o buf[t]

BugRefusedKeepsLink == {}
RefusedCloses == {"decryptIn"}
-----------------------------------------------------------------------------
Init ==
    /\ hand = [s \in Server |-> IF s = "entry" THEN "connect" ELSE "none"]
    /\ thr  = [t \in Thread |-> "idle"]
    /\ buf  = [t \in Thread |-> <<>>]
    /\ open = {"client", "entryIn"}
    /\ leaked = {} /\ shut = {} /\ rst = {}
    /\ q    = [x \in Endpoint |-> <<>>]
    /\ proc = "up" /\ raced = FALSE
    /\ sent = [d \in Dir |-> <<>>]
    /\ got  = [d \in Dir |-> <<>>]
    /\ eof  = [d \in Dir |-> FALSE]

-----------------------------------------------------------------------------
(***************************************************************************)
(* The two handle_client functions                                         *)
(***************************************************************************)
UnchangedByHandler == UNCHANGED <<buf, shut, q, rst, proc, raced, history>>

\* The entry handler connects to port 5008, where a handler thread is started.
EntryConnects ==
    /\ proc = "up" /\ hand["entry"] = "connect"
    /\ hand' = [s \in Server |-> "handshake"]
    /\ open' = open \cup {"entryOut", "decryptIn"}
    /\ UNCHANGED <<thr, leaked>> /\ UnchangedByHandler

\* Nobody listens on 5008: the client is closed, the new socket is not.
EntryRefused ==
    /\ proc = "up" /\ hand["entry"] = "connect"
    /\ hand' = [hand EXCEPT !["entry"] = "failed"]
    /\ open' = open \ {"entryIn"}
    /\ leaked' = leaked \cup {"entryOut"}
    /\ UNCHANGED thr /\ UnchangedByHandler

\* SSL_connect returns first, as in TLS 1.3, and the entry's threads start;
\* SSL_accept returns when the client's last handshake message is there.
EntryHandshakes ==
    /\ proc = "up" /\ hand["entry"] = "handshake" /\ hand["decrypt"] = "handshake"
    /\ hand' = [hand EXCEPT !["entry"] = "relay"]
    /\ thr'  = [thr EXCEPT !["entry.req"] = "read", !["entry.rsp"] = "read"]
    /\ UNCHANGED <<open, leaked>> /\ UnchangedByHandler

DecryptHandshakes ==
    /\ proc = "up" /\ hand["decrypt"] = "handshake" /\ hand["entry"] \notin {"handshake", "failed"}
    /\ hand' = [hand EXCEPT !["decrypt"] = "connect"]
    /\ UNCHANGED <<thr, open, leaked>> /\ UnchangedByHandler

\* The handshake fails at one side, and then at the other.
DecryptHandshakeFails ==
    /\ proc = "up" /\ hand["decrypt"] = "handshake" /\ hand["entry"] \in {"handshake", "failed"}
    /\ hand' = [hand EXCEPT !["decrypt"] = "failed"]
    /\ open' = open \ {"decryptIn"}
    /\ UNCHANGED <<thr, leaked>> /\ UnchangedByHandler

EntryHandshakeFails ==
    /\ proc = "up" /\ hand["entry"] = "handshake"
    /\ hand' = [hand EXCEPT !["entry"] = "failed"]
    /\ open' = open \ {"entryOut", "entryIn"}
    /\ UNCHANGED <<thr, leaked>> /\ UnchangedByHandler

DecryptConnects ==
    /\ proc = "up" /\ hand["decrypt"] = "connect"
    /\ hand' = [hand EXCEPT !["decrypt"] = "relay"]
    /\ open' = open \cup {"decryptOut", "bist"}
    /\ thr'  = [thr EXCEPT !["decrypt.req"] = "read", !["decrypt.rsp"] = "read"]
    /\ UNCHANGED leaked /\ UnchangedByHandler

\* BIST refuses: the TLS connection is closed, the socket made for BIST is not.
DecryptRefused ==
    /\ proc = "up" /\ hand["decrypt"] = "connect"
    /\ hand' = [hand EXCEPT !["decrypt"] = "failed"]
    /\ open' = open \ RefusedCloses
    /\ leaked' = leaked \cup {"decryptOut"}
    /\ UNCHANGED thr /\ UnchangedByHandler

\* Both threads of a server are joined; the SSL object is freed without
\* SSL_shutdown and both descriptors are closed.
Join(s) ==
    /\ proc = "up" /\ hand[s] = "relay" /\ Joined(s)
    /\ hand' = [hand EXCEPT ![s] = "done"]
    /\ open' = open \ {Inner(s), Outer(s)}
    /\ UNCHANGED <<thr, leaked>> /\ UnchangedByHandler

Handle(s) ==
    \/ s = "entry" /\ (EntryConnects \/ EntryRefused \/ EntryHandshakes \/ EntryHandshakeFails)
    \/ s = "decrypt" /\ (DecryptHandshakes \/ DecryptHandshakeFails \/ DecryptConnects \/ DecryptRefused)
    \/ Join(s)
-----------------------------------------------------------------------------
(***************************************************************************)
(* proxy_plain_to_tls and proxy_tls_to_plain of both servers               *)
(***************************************************************************)
Read(t) ==
    /\ proc = "up" /\ thr[t] = "read"
    /\ q[Other(From(t))] # <<>>
    /\ buf' = [buf EXCEPT ![t] = <<Head(q[Other(From(t))])>>]
    /\ q'   = [q EXCEPT ![Other(From(t))] = Tail(@)]
    /\ thr' = [thr EXCEPT ![t] = "write"]
    /\ UNCHANGED <<hand, open, leaked, shut, rst, proc, raced, history>>

ReadEnds(t) ==
    /\ proc = "up" /\ thr[t] = "read"
    /\ Ended(t)
    /\ thr'  = [thr EXCEPT ![t] = "done"]
    /\ shut' = shut \cup Tells(t)
    /\ UNCHANGED <<hand, buf, open, leaked, q, rst, proc, raced, history>>

Write(t) ==
    /\ proc = "up" /\ thr[t] = "write"
    /\ ~Broke(t) /\ Len(q[To(t)]) < Cap
    /\ q'   = [q EXCEPT ![To(t)] = Written(t)]
    /\ buf' = [buf EXCEPT ![t] = <<>>]
    /\ thr' = [thr EXCEPT ![t] = "read"]
    /\ UNCHANGED <<hand, open, leaked, shut, rst, proc, raced, history>>

\* write() or SSL_write() fails, which nobody looks at ...
WriteFails(t) ==
    /\ proc = "up" /\ thr[t] = "write"
    /\ Broke(t) \/ Spoiled(t)
    /\ buf' = [buf EXCEPT ![t] = <<>>]
    /\ thr' = [thr EXCEPT ![t] = "read"]
    /\ UNCHANGED <<hand, open, leaked, shut, q, rst, proc, raced, history>>

ProcessEnds(cause) ==
    /\ proc' = cause
    /\ open' = open \ Socket
    /\ leaked' = {}
    /\ \E toClient \in Prefixes(q["entryIn"]), toBist \in Prefixes(q["decryptOut"]) :
         q' = [q EXCEPT !["entryIn"] = toClient, !["decryptOut"] = toBist]
    /\ UNCHANGED <<hand, thr, buf, shut, rst, history>>

\* ... or raises SIGPIPE, which is not ignored.
WriteKills(t) ==
    /\ proc = "up" /\ thr[t] = "write"
    /\ Broke(t)
    /\ ProcessEnds("sigpipe") /\ UNCHANGED raced

\* A thread is in SSL_read and the other one of its server in SSL_write on the
\* same SSL object: either call may fail, or the process may crash.
SslRace(s) ==
    /\ proc = "up" /\ thr[Reader(s)] = "read" /\ thr[Writer(s)] = "write"
    /\ raced' = TRUE
    /\ \/ /\ thr'  = [thr EXCEPT ![Reader(s)] = "done"]
          /\ shut' = shut \cup Tells(Reader(s))
          /\ UNCHANGED <<hand, buf, open, leaked, q, rst, proc, history>>
       \/ /\ thr'  = [thr EXCEPT ![Writer(s)] = "read"]
          /\ buf'  = [buf EXCEPT ![Writer(s)] = <<>>]
          /\ UNCHANGED <<hand, open, leaked, shut, q, rst, proc, history>>
       \/ ProcessEnds("crashed")

\* An operator stops the proxy.
Stop ==
    /\ proc = "up"
    /\ ProcessEnds("stopped") /\ UNCHANGED raced

Copy(t) == Read(t) \/ ReadEnds(t) \/ Write(t) \/ WriteFails(t) \/ WriteKills(t)
-----------------------------------------------------------------------------
(***************************************************************************)
(* The programs at the ends, and TCP                                       *)
(***************************************************************************)
UnchangedByProgram == UNCHANGED <<hand, thr, buf, leaked, shut, proc, raced>>

Send(d) ==
    /\ Source(d) \in open
    /\ Len(q[Source(d)]) < Cap /\ Len(sent[d]) < MaxSent[d]
    /\ \E u \in Unit :
         /\ q'    = [q EXCEPT ![Source(d)] = Append(@, u)]
         /\ sent' = [sent EXCEPT ![d] = Append(@, u)]
    /\ UNCHANGED <<open, rst, got, eof>> /\ UnchangedByProgram

Receive(d) ==
    /\ Sink(d) \in open
    /\ q[Other(Sink(d))] # <<>>
    /\ got' = [got EXCEPT ![d] = Append(@, Head(q[Other(Sink(d))]))]
    /\ q'   = [q EXCEPT ![Other(Sink(d))] = Tail(@)]
    /\ UNCHANGED <<open, rst, sent, eof>> /\ UnchangedByProgram

ReceiveEnd(d) ==
    /\ Sink(d) \in open /\ ~eof[d]
    /\ q[Other(Sink(d))] = <<>>
    /\ Other(Sink(d)) \notin open \/ Other(Sink(d)) \in shut
    /\ eof' = [eof EXCEPT ![d] = TRUE]
    /\ UNCHANGED <<open, q, rst, sent, got>> /\ UnchangedByProgram

Close(p) ==
    /\ p \in open
    /\ open' = open \ {p}
    /\ UNCHANGED <<q, rst, history>> /\ UnchangedByProgram

\* Data sent to a closed endpoint is answered by a reset, and what the closed
\* endpoint had still to send may be lost.
Reset(x) ==
    /\ x \in open /\ Other(x) \notin open /\ x \notin rst
    /\ q[x] # <<>>
    /\ rst' = rst \cup {x}
    /\ \E kept \in Prefixes(q[Other(x)]) : q' = [q EXCEPT ![Other(x)] = kept]
    /\ UNCHANGED <<open, history>> /\ UnchangedByProgram
-----------------------------------------------------------------------------
Next ==
    \/ \E s \in Server : Handle(s) \/ SslRace(s)
    \/ \E t \in Thread : Copy(t)
    \/ Stop
    \/ \E d \in Dir : Send(d) \/ Receive(d) \/ ReceiveEnd(d)
    \/ \E p \in Program : Close(p)
    \/ \E x \in Socket : Reset(x)

Spec == Init /\ [][Next]_vars

(***************************************************************************)
(* Handlers and threads run when they can, TCP delivers resets, and BIST   *)
(* reads while it is not blocked on a reply and closes at the end of the   *)
(* stream.  The client reads what comes.                                   *)
(***************************************************************************)
BistReads  == Len(q["bist"]) < Cap /\ Receive("req")
BistCloses == eof["req"] /\ Close("bist")

FairSpec ==
    /\ Spec
    /\ \A s \in Server : WF_vars(Handle(s))
    /\ \A t \in Thread : WF_vars(Copy(t))
    /\ \A x \in Socket : WF_vars(Reset(x))
    /\ WF_vars(BistReads) /\ WF_vars(ReceiveEnd("req")) /\ WF_vars(BistCloses)
    /\ WF_vars(Receive("rsp")) /\ WF_vars(ReceiveEnd("rsp"))
-----------------------------------------------------------------------------
(***************************************************************************)
(* Type correctness of the two handlers and their threads (handle_client,  *)
(* proxy_plain_to_tls, proxy_tls_to_plain); no connection overflows.       *)
(***************************************************************************)
TypeOK ==
    /\ hand \in [Server -> {"none", "connect", "handshake", "relay", "failed", "done"}]
    /\ thr  \in [Thread -> {"idle", "read", "write", "done"}]
    /\ buf  \in [Thread -> Seq(Unit)]
    /\ open \subseteq Endpoint /\ shut \subseteq Socket /\ rst \subseteq Socket
    /\ leaked \subseteq Socket \ open
    /\ q \in [Endpoint -> Seq(Unit)] /\ \A x \in Endpoint : Len(q[x]) <= Cap
    /\ proc \in {"up", "sigpipe", "crashed", "stopped"} /\ raced \in BOOLEAN
    /\ sent \in [Dir -> Seq(Unit)] /\ got \in [Dir -> Seq(Unit)]
    /\ eof \in [Dir -> BOOLEAN]

(***************************************************************************)
(* Unless two threads met inside one SSL object, an end has received a     *)
(* prefix of what the other sent, through two servers, three connections   *)
(* and four threads, of which none looks at what write() returns.          *)
(***************************************************************************)
Ordered == ~raced => \A d \in Dir : IsPrefix(got[d], sent[d])

(***************************************************************************)
(* All that was sent and not received is on its way, in order, along the   *)
(* three queues and two buffers of its direction, while nothing was reset  *)
(* and the decrypt server has not given up: also when a program has gone.  *)
(***************************************************************************)
Path(d) ==
    IF d = "req"
    THEN q["decryptOut"] \o buf["decrypt.req"] \o q["entryOut"] \o buf["entry.req"] \o q["client"]
    ELSE q["entryIn"] \o buf["entry.rsp"] \o q["decryptIn"] \o buf["decrypt.rsp"] \o q["bist"]

Conserved ==
    proc = "up" /\ ~raced /\ rst = {} /\ hand["decrypt"] # "failed" =>
        \A d \in Dir : sent[d] = got[d] \o Path(d)

(***************************************************************************)
(* Type correctness and both of these: through two servers nothing is made *)
(* up, and nothing is lost that could have arrived.                        *)
(***************************************************************************)
DataKept == TypeOK /\ Ordered /\ Conserved

(***************************************************************************)
(* SIGPIPE ends both servers, with all their tunnels, only when a program  *)
(* closed before it had all that was sent to it or BIST was not there: the *)
(* two handlers never do that to each other over the TLS connection.       *)
(***************************************************************************)
SigPipeOnlyAfterEarlyClose ==
    proc = "sigpipe" /\ ~raced =>
        \/ hand["decrypt"] = "failed"
        \/ \E d \in Dir : Sink(d) \notin open /\ got[d] # sent[d]

(***************************************************************************)
(* A tunnel that was opened stays: whatever the programs do, none of its   *)
(* four descriptors is closed and neither handle_client returns before the *)
(* process ends.  proxy_plain_to_tls tells nobody of the end it has read   *)
(* (no SSL_shutdown), and each join waits for a thread that waits for the  *)
(* other server.                                                           *)
(***************************************************************************)
OpenTunnelStays ==
    proc = "up" /\ ~raced /\ hand["decrypt"] \in {"relay", "done"} =>
        Socket \subseteq open /\ hand["entry"] = "relay" /\ hand["decrypt"] = "relay"

(***************************************************************************)
(* So no program ever learns from the running proxy that the other one has *)
(* gone.  The end of the stream reaches a client whose tunnel could not be *)
(* opened, and no BIST server at all.                                      *)
(***************************************************************************)
EndMeansFailure ==
    proc = "up" /\ ~raced =>
        /\ ~eof["req"]
        /\ eof["rsp"] => hand["entry"] = "failed" \/ hand["decrypt"] = "failed"

(***************************************************************************)
(* The inductive invariant behind the last two: how far the two handlers   *)
(* may be apart, which descriptors they then have, that the two threads    *)
(* which read from the TLS connection have not ended while it stands, and  *)
(* what the ends and resets that have been seen say of the handlers.       *)
(***************************************************************************)
Tunnelling == {"handshake", "connect", "relay"}

HandsInv ==
    /\ hand["entry"] \in {"connect", "handshake", "relay", "failed", "done"}
    /\ hand["decrypt"] \in {"none", "failed"} \cup Tunnelling
    /\ hand["entry"] = "connect" <=> hand["decrypt"] = "none" /\ hand["entry"] # "failed"
    /\ hand["entry"] = "handshake" => hand["decrypt"] \in {"handshake", "failed"}
    /\ hand["entry"] = "failed" => hand["decrypt"] \in {"none", "handshake", "failed"}
    /\ hand["entry"] = "done" => hand["decrypt"] = "failed"

OpenInv ==
    /\ hand["entry"] \in Tunnelling => "entryIn" \in open
    /\ hand["entry"] \in {"handshake", "relay"} => "entryOut" \in open
    /\ hand["decrypt"] \in Tunnelling => "decryptIn" \in open
    /\ hand["decrypt"] = "relay" => "decryptOut" \in open
    /\ "bist" \in open => hand["decrypt"] = "relay"
    /\ hand["decrypt"] = "none" => open \cap {"entryOut", "decryptIn"} = {}

ReadersInv ==
    /\ hand["decrypt"] = "none" => thr["entry.rsp"] = "idle"
    /\ hand["entry"] = "relay" /\ hand["decrypt"] # "failed" => thr["entry.rsp"] \in {"read", "write"}
    /\ hand["decrypt"] = "relay" => thr["decrypt.req"] \in {"read", "write"}

SeenInv ==
    /\ "entryOut" \in rst => hand["decrypt"] = "failed"
    /\ "decryptIn" \in rst => hand["entry"] \in {"failed", "done"}
    /\ shut # {} => hand["decrypt"] = "failed"
    /\ ~eof["req"]
    /\ eof["rsp"] => hand["entry"] = "failed" \/ hand["decrypt"] = "failed"

IInv ==
    /\ hand \in [Server -> {"none", "connect", "handshake", "relay", "failed", "done"}]
    /\ thr \in [Thread -> {"idle", "read", "write", "done"}]
    /\ eof \in [Dir -> BOOLEAN]
    /\ proc = "up" /\ ~raced => HandsInv /\ OpenInv /\ ReadersInv /\ SeenInv

(***************************************************************************)
(* The inductive invariant behind DataKept and SigPipeOnlyAfterEarlyClose, *)
(* on top of IInv.  LeakInv keeps leaked descriptors apart from open ones, *)
(* BufInv ties each buffer to its thread, Unopened says that nothing has   *)
(* passed the decrypt server before it is connected to BIST, and FlowInv   *)
(* is what resets and the end of the process leave of Conserved.           *)
(***************************************************************************)
FirstHop(d) == Other(Source(d))
LastHop(d)  == Other(Sink(d))

LeakInv ==
    /\ leaked \subseteq {"entryOut", "decryptOut"}
    /\ "entryOut" \in leaked => hand["entry"] = "failed"
    /\ "decryptOut" \in leaked => hand["decrypt"] = "failed"
    /\ hand["entry"] = "connect" => hand["decrypt"] = "none" /\ "entryOut" \notin open
    /\ "decryptOut" \in open => hand["decrypt"] = "relay"

BufInv ==
    /\ \A t \in Thread : Len(buf[t]) <= 1 /\ (thr[t] # "write" => buf[t] = <<>>)
    /\ hand["entry"] \in {"connect", "handshake", "failed"} =>
           thr["entry.req"] = "idle" /\ thr["entry.rsp"] = "idle"
    /\ hand["decrypt"] \in {"none", "handshake", "connect"} =>
           thr["decrypt.req"] = "idle" /\ thr["decrypt.rsp"] = "idle"

Unopened ==
    /\ "bist" \notin open
    /\ thr["decrypt.req"] = "idle" /\ thr["decrypt.rsp"] = "idle"
    /\ buf["entry.rsp"] = <<>>
    /\ \A x \in {"bist", "decryptIn", "decryptOut", "entryIn"} : q[x] = <<>> /\ x \notin rst
    /\ sent["rsp"] = <<>> /\ got["rsp"] = <<>> /\ got["req"] = <<>>

FlowInv(d) ==
    /\ IsPrefix(got[d] \o q[LastHop(d)], sent[d])
    /\ LastHop(d) \in rst => Sink(d) \notin open /\ Len(got[d]) < Len(sent[d])
    /\ proc = "up" /\ LastHop(d) \notin rst /\ hand["decrypt"] # "failed" =>
         /\ IsPrefix(got[d] \o Path(d), sent[d])
         /\ FirstHop(d) \notin rst => sent[d] = got[d] \o Path(d)

DataInv ==
    /\ TypeOK /\ LeakInv /\ BufInv
    /\ ~raced =>
         /\ hand["decrypt"] # "relay" => Unopened
         /\ \A d \in Dir : FlowInv(d)
         /\ proc = "sigpipe" => hand["decrypt"] = "failed" \/ \E d \in Dir : LastHop(d) \in rst

(***************************************************************************)
(* What is sent arrives, also from a program that has closed, unless its   *)
(* connection was reset, the receiver has closed, or there is no tunnel:   *)
(* the blocking writes of the four threads never wait for each other in a  *)
(* circle for good.                                                        *)
(***************************************************************************)
Delivered ==
    \A d \in Dir : \A n \in 1..MaxSent[d] :
        (Len(sent[d]) >= n) ~>
            \/ Len(got[d]) >= n \/ Sink(d) \notin open \/ Other(Source(d)) \in rst
            \/ raced \/ proc # "up" \/ \E s \in Server : hand[s] = "failed"

(***************************************************************************)
(* A client whose tunnel has no BIST behind it is told so (the SHUT_WR of  *)
(* the entry server), although it was connected by then.                   *)
(***************************************************************************)
RefusedIsTold ==
    (hand["decrypt"] = "failed") ~>
        (eof["rsp"] \/ "client" \notin open \/ raced \/ proc # "up")

(***************************************************************************)
(* Once such a client has closed, the entry server's handler returns.      *)
(***************************************************************************)
RefusedTunnelCloses ==
    (hand["decrypt"] = "failed" /\ "client" \notin open) ~>
        (hand["entry"] \in {"failed", "done"} \/ proc # "up")

\* Both: a refusal passes through the entry server, and leaves nothing behind there.
RefusalSeen == RefusedIsTold /\ RefusedTunnelCloses
=============================================================================
