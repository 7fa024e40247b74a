-------------------------- MODULE TlsTunnelProofs --------------------------
(***************************************************************************)
(* Proofs about TlsTunnel, for any units, capacity and number of units.    *)
(* First from IInv: a tunnel that was opened stays open.  Then from        *)
(* DataInv, which rests on IInv: what is sent is kept on its way, and      *)
(* SIGPIPE needs a program that closed early.                              *)
(***************************************************************************)
EXTENDS TlsTunnel, ByteLemmas, TLAPS

(***************************************************************************)
(* What the steps of a copying thread, and the ends of the programs, look  *)
(* at: the tunnel as it is while nothing has gone wrong.                   *)
(***************************************************************************)
Good == HandsInv /\ OpenInv /\ ReadersInv /\ SeenInv

Typed ==
    /\ hand \in [Server -> {"none", "connect", "handshake", "relay", "failed", "done"}]
    /\ thr \in [Thread -> {"idle", "read", "write", "done"}]
    /\ eof \in [Dir -> BOOLEAN]

USE DEF Good, HandsInv, OpenInv, ReadersInv, SeenInv, Tunnelling

(***************************************************************************)
(* The tunnel starts in a state with the invariant.                        *)
(***************************************************************************)
LEMMA InitIInv == Init => IInv
<1> SUFFICES ASSUME Init PROVE Typed /\ Good
    BY DEF IInv, Typed
<1>1. Typed
  <2>1. hand \in [Server -> {"none", "connect", "handshake", "relay", "failed", "done"}]
    BY DEF Init
  <2>2. thr \in [Thread -> {"idle", "read", "write", "done"}] /\ eof \in [Dir -> BOOLEAN]
    BY DEF Init
  <2> QED
    BY <2>1, <2>2 DEF Typed
<1>2. Good
    BY DEF Init, Server, Thread, Dir
<1> QED
    BY <1>1, <1>2

(***************************************************************************)
(* The steps of the two handle_client functions but their joins.           *)
(***************************************************************************)
LEMMA HandlerKeepsGood ==
    ASSUME Typed, Good,
           \/ EntryConnects \/ EntryRefused \/ EntryHandshakes \/ EntryHandshakeFails
           \/ DecryptHandshakes \/ DecryptHandshakeFails \/ DecryptConnects \/ DecryptRefused
    PROVE  Typed' /\ Good'
<1> USE DEF Typed, Server, Thread, UnchangedByHandler, history
<1>1. CASE EntryConnects
    BY <1>1 DEF EntryConnects
<1>2. CASE EntryRefused
    BY <1>2 DEF EntryRefused
<1>3. CASE EntryHandshakes
    BY <1>3 DEF EntryHandshakes
<1>4. CASE EntryHandshakeFails
    BY <1>4 DEF EntryHandshakeFails
<1>5. CASE DecryptHandshakes
    BY <1>5 DEF DecryptHandshakes
<1>6. CASE DecryptHandshakeFails
    BY <1>6 DEF DecryptHandshakeFails
<1>7. CASE DecryptConnects
    BY <1>7 DEF DecryptConnects
<1>8. CASE DecryptRefused
    BY <1>8 DEF DecryptRefused, RefusedCloses
<1> QED
    BY <1>1, <1>2, <1>3, <1>4, <1>5, <1>6, <1>7, <1>8

(***************************************************************************)
(* A handle_client that joins its threads is the entry server's, and the   *)
(* decrypt server has failed: the thread that reads from the TLS           *)
(* connection ends for no other reason.                                    *)
(***************************************************************************)
LEMMA JoinKeepsGood ==
    ASSUME Typed, Good, NEW s \in Server, Join(s)
    PROVE  Typed' /\ Good'
<1> USE DEF Typed, Server, Thread, UnchangedByHandler, history, Join, Joined, Reader, Inner, Outer
<1>1. CASE s = "entry"
  BY <1>1
<1>2. CASE s = "decrypt"
  BY <1>2
<1> QED
  BY <1>1, <1>2

(***************************************************************************)
(* The steps of a copying thread that do not end the process.              *)
(***************************************************************************)
LEMMA CopyKeepsGood ==
    ASSUME Typed, Good, NEW t \in Thread,
           Read(t) \/ ReadEnds(t) \/ Write(t) \/ WriteFails(t)
    PROVE  Typed' /\ Good'
<1> USE DEF Typed, Server, Thread, history
<1>1. CASE Read(t) \/ Write(t) \/ WriteFails(t)
  <2>1. /\ UNCHANGED <<hand, open, shut, rst, eof>>
        /\ thr[t] \in {"read", "write"}
        /\ \E to \in {"read", "write"} : thr' = [thr EXCEPT ![t] = to]
    BY <1>1 DEF Read, Write, WriteFails
  <2> QED
    BY <2>1
<1>2. CASE ReadEnds(t)
  <2>1. /\ UNCHANGED <<hand, open, rst, eof>>
        /\ thr[t] = "read" /\ thr' = [thr EXCEPT ![t] = "done"]
        /\ shut' = shut \cup Tells(t)
    BY <1>2 DEF ReadEnds
  <2>2. CASE t = "entry.rsp"
    <3>1. "decryptIn" \notin open \/ "decryptIn" \in shut \/ "entryOut" \in rst
      BY <1>2, <2>2 DEF ReadEnds, Ended, From, Other
    <3>2. hand["decrypt"] = "failed"
      BY <2>1, <2>2, <3>1
    <3> QED
      BY <2>1, <2>2, <3>2
  <2>3. CASE t = "decrypt.req"
    <3>1. "entryOut" \notin open \/ "entryOut" \in shut \/ "decryptIn" \in rst
      BY <1>2, <2>3 DEF ReadEnds, Ended, From, Other
    <3>2. hand["decrypt"] # "relay"
      BY <3>1
    <3> QED
      BY <2>1, <2>3, <3>2 DEF Tells
  <2>4. CASE t \in {"entry.req", "decrypt.rsp"}
    BY <2>1, <2>4 DEF Tells
  <2> QED
    BY <2>2, <2>3, <2>4
<1> QED
  BY <1>1, <1>2

(***************************************************************************)
(* The steps of the programs, and resets.                                  *)
(***************************************************************************)
LEMMA ProgramKeepsGood ==
    ASSUME Typed, Good,
           \/ \E d \in Dir : Send(d) \/ Receive(d) \/ ReceiveEnd(d)
           \/ \E p \in Program : Close(p)
           \/ \E x \in Socket : Reset(x)
    PROVE  Typed' /\ Good'
<1> USE DEF Typed, Server, Thread, UnchangedByProgram, history
<1>1. ASSUME NEW d \in Dir, Send(d) \/ Receive(d) PROVE Typed' /\ Good'
  <2>1. UNCHANGED <<hand, thr, open, shut, rst, eof>>
    BY <1>1 DEF Send, Receive
  <2> QED
    BY <2>1
<1>2. ASSUME NEW d \in Dir, ReceiveEnd(d) PROVE Typed' /\ Good'
  <2>1. UNCHANGED <<hand, thr, open, shut, rst>> /\ eof' = [eof EXCEPT ![d] = TRUE]
    BY <1>2 DEF ReceiveEnd
  <2>2. d = "rsp" /\ (hand["entry"] = "failed" \/ hand["decrypt"] = "failed")
    <3>1. CASE d = "req"
      BY <1>2, <3>1 DEF ReceiveEnd, Sink, Other
    <3>2. CASE d = "rsp"
      BY <1>2, <3>2 DEF ReceiveEnd, Sink, Other
    <3> QED
      BY <3>1, <3>2 DEF Dir
  <2>3. eof' \in [Dir -> BOOLEAN]
    BY <2>1 DEF Dir
  <2>4. ~eof'["req"]
    BY <2>1, <2>2 DEF Dir
  <2> QED
    BY <2>1, <2>2, <2>3, <2>4
<1>3. ASSUME NEW p \in Program, Close(p) PROVE Typed' /\ Good'
  <2>1. UNCHANGED <<hand, thr, shut, rst, eof>> /\ open' = open \ {p} /\ p \in {"client", "bist"}
    BY <1>3 DEF Close, Program
  <2> QED
    BY <2>1
<1>4. ASSUME NEW x \in Socket, Reset(x) PROVE Typed' /\ Good'
  <2>1. UNCHANGED <<hand, thr, open, shut, eof>> /\ rst' = rst \cup {x}
    BY <1>4 DEF Reset
  <2>2. x = "entryOut" => hand["decrypt"] = "failed"
    BY <1>4 DEF Reset, Other
  <2>3. x = "decryptIn" => hand["entry"] \in {"failed", "done"}
    BY <1>4 DEF Reset, Other
  <2> QED
    BY <2>1, <2>2, <2>3
<1> QED
  BY <1>1, <1>2, <1>3, <1>4

(***************************************************************************)
(* The steps that end the process, or in which two threads disturb each    *)
(* other: they leave nothing more to show than the types.                  *)
(***************************************************************************)
LEMMA DisasterKeepsTyped ==
    ASSUME Typed,
           Stop \/ (\E t \in Thread : WriteKills(t)) \/ (\E s \in Server : SslRace(s))
    PROVE  Typed' /\ ~(proc' = "up" /\ ~raced')
<1> USE DEF Typed, ProcessEnds, history
<1>1. CASE Stop \/ \E t \in Thread : WriteKills(t)
  BY <1>1 DEF Stop, WriteKills
<1>2. ASSUME NEW s \in Server, SslRace(s) PROVE Typed' /\ ~(proc' = "up" /\ ~raced')
  <2>1. raced' = TRUE /\ UNCHANGED <<hand, eof>>
    BY <1>2 DEF SslRace
  <2>2. thr' = thr \/ \E t \in Thread, to \in {"read", "done"} : thr' = [thr EXCEPT ![t] = to]
    BY <1>2 DEF SslRace, Reader, Writer, Thread
  <2>3. thr' \in [Thread -> {"idle", "read", "write", "done"}]
    BY <2>2
  <2> QED
    BY <2>1, <2>3
<1> QED
  BY <1>1, <1>2

(***************************************************************************)
(* Every step keeps the invariant.                                         *)
(***************************************************************************)
LEMMA NothingWrongBefore ==
    ASSUME Next, proc' = "up", ~raced'
    PROVE  proc = "up" /\ ~raced
<1> USE DEF UnchangedByHandler, UnchangedByProgram, ProcessEnds
<1>1. CASE \E s \in Server : Handle(s) \/ SslRace(s)
  BY <1>1 DEF Handle, EntryConnects, EntryRefused, EntryHandshakes, EntryHandshakeFails,
     DecryptHandshakes, DecryptHandshakeFails, DecryptConnects, DecryptRefused, Join, SslRace
<1>2. CASE \E t \in Thread : Copy(t)
  BY <1>2 DEF Copy, Read, ReadEnds, Write, WriteFails, WriteKills
<1>3. CASE Stop
  BY <1>3 DEF Stop
<1>4. CASE \/ \E d \in Dir : Send(d) \/ Receive(d) \/ ReceiveEnd(d)
           \/ \E p \in Program : Close(p)
           \/ \E x \in Socket : Reset(x)
  BY <1>4 DEF Send, Receive, ReceiveEnd, Close, Reset
<1> QED
  BY <1>1, <1>2, <1>3, <1>4 DEF Next

\* No step leaves the invariant: each lemma above takes some of them.
LEMMA StepIInv == IInv /\ [Next]_vars => IInv'
<1> SUFFICES ASSUME IInv, [Next]_vars PROVE IInv'
  OBVIOUS
<1>t. Typed /\ (proc = "up" /\ ~raced => Good)
  BY DEF IInv, Typed
<1>g. SUFFICES Typed' /\ (proc' = "up" /\ ~raced' => Good')
  BY DEF IInv, Typed
<1>1. CASE UNCHANGED vars
  <2>1. UNCHANGED <<hand, thr, open, shut, rst, proc, raced, eof>>
    BY <1>1 DEF vars
  <2> QED
    BY <1>t, <2>1 DEF Typed
<1>2. CASE Next
  <2>1. Typed'
    <3> USE DEF Typed, Thread, UnchangedByHandler, UnchangedByProgram, ProcessEnds, history
    <3>1. CASE \E s \in Server : Handle(s)
      BY <1>t, <3>1 DEF Handle, Server, EntryConnects, EntryRefused, EntryHandshakes,
         EntryHandshakeFails, DecryptHandshakes, DecryptHandshakeFails, DecryptConnects,
         DecryptRefused, Join
    <3>2. CASE \E t \in Thread : Read(t) \/ ReadEnds(t) \/ Write(t) \/ WriteFails(t)
      BY <1>t, <3>2 DEF Read, ReadEnds, Write, WriteFails
    <3>3. CASE Stop \/ (\E t \in Thread : WriteKills(t)) \/ (\E s \in Server : SslRace(s))
      BY <1>t, <3>3, DisasterKeepsTyped
    <3>4. CASE \/ \E d \in Dir : Send(d) \/ Receive(d) \/ ReceiveEnd(d)
               \/ \E p \in Program : Close(p)
               \/ \E x \in Socket : Reset(x)
      BY <1>t, <3>4, ZenonT(40) DEF Send, Receive, ReceiveEnd, Close, Reset, Dir
    <3> QED
      BY <1>2, <3>1, <3>2, <3>3, <3>4 DEF Next, Copy
  <2>2. ASSUME proc' = "up", ~raced' PROVE Good'
    <3>1. Typed /\ Good
      BY <1>t, <1>2, <2>2, NothingWrongBefore
    <3>2. ~(Stop \/ (\E t \in Thread : WriteKills(t)) \/ (\E s \in Server : SslRace(s)))
      BY <3>1, <2>2, DisasterKeepsTyped
    <3>3. CASE \E s \in Server : Handle(s)
      BY <3>1, <3>3, HandlerKeepsGood, JoinKeepsGood DEF Handle
    <3>4. CASE \E t \in Thread : Copy(t)
      BY <3>1, <3>2, <3>4, CopyKeepsGood DEF Copy
    <3>5. CASE \/ \E d \in Dir : Send(d) \/ Receive(d) \/ ReceiveEnd(d)
               \/ \E p \in Program : Close(p)
               \/ \E x \in Socket : Reset(x)
      BY <3>1, <3>5, ProgramKeepsGood
    <3> QED
      BY <1>2, <3>2, <3>3, <3>4, <3>5 DEF Next
  <2> QED
    BY <2>1, <2>2
<1> QED
  BY <1>1, <1>2

(***************************************************************************)
(* The invariant holds of the tunnel (both handle_client functions and     *)
(* their four threads): the two servers never drift further apart than     *)
(* HandsInv says, and the threads that read from TLS outlive the tunnel.   *)
(***************************************************************************)
THEOREM Invariance == Spec => []IInv
<1>1. Init => IInv
  BY InitIInv
<1>2. IInv /\ [Next]_vars => IInv'
  BY StepIInv
<1> QED
  BY <1>1, <1>2, PTL DEF Spec

(***************************************************************************)
(* An opened tunnel stays: no handle_client of it returns and none of its  *)
(* descriptors is closed while the process runs (the joins of both         *)
(* handle_client functions, and proxy_plain_to_tls, which tells nobody).   *)
(***************************************************************************)
THEOREM TunnelStays == Spec => []OpenTunnelStays
<1>1. IInv => OpenTunnelStays
  <2> SUFFICES ASSUME IInv, proc = "up", ~raced, hand["decrypt"] \in {"relay", "done"}
               PROVE  Socket \subseteq open /\ hand["entry"] = "relay" /\ hand["decrypt"] = "relay"
    BY DEF OpenTunnelStays
  <2>1. HandsInv /\ OpenInv
    BY DEF IInv
  <2>2. hand["entry"] = "relay" /\ hand["decrypt"] = "relay"
    BY <2>1
  <2> QED
    BY <2>1, <2>2 DEF Socket
<1> QED
  BY <1>1, Invariance, PTL

(***************************************************************************)
(* No program reads the end of the stream from a tunnel that was opened    *)
(* (shutdown(SHUT_WR) is called in the entry server's proxy_tls_to_plain   *)
(* only): a client that does is one whose tunnel failed, and BIST never.   *)
(***************************************************************************)
THEOREM EndOnlyAfterFailure == Spec => []EndMeansFailure
<1>1. IInv => EndMeansFailure
  BY DEF IInv, EndMeansFailure
<1> QED
  BY <1>1, Invariance, PTL

-----------------------------------------------------------------------------
\* From here on the parts of IInv are expanded only where a step needs them.
HIDE DEF Good, HandsInv, OpenInv, ReadersInv, SeenInv, Tunnelling

\* Who the ends of the two directions are.
LEMMA Hops ==
    /\ Sink("req") = "bist" /\ Source("req") = "client"
    /\ Sink("rsp") = "client" /\ Source("rsp") = "bist"
    /\ LastHop("req") = "decryptOut" /\ FirstHop("req") = "entryIn"
    /\ LastHop("rsp") = "entryIn" /\ FirstHop("rsp") = "decryptOut"
    /\ \A d \in Dir : /\ Source(d) \in Program /\ Sink(d) \in Program
                      /\ LastHop(d) \in Socket /\ FirstHop(d) \in Socket
    /\ \A x \in Endpoint : Other(x) \in Endpoint /\ Other(x) # x
    /\ \A t \in Thread : From(t) \in Socket /\ To(t) \in Socket
BY DEF Dir, Program, Socket, Endpoint, Thread, Sink, Source, LastHop, FirstHop, Other, From, To

\* A prefix of a sequence is one of its elements' sequences, and no longer.
LEMMA PrefixesAre ==
    ASSUME NEW S, NEW s \in Seq(S), NEW p \in Prefixes(s)
    PROVE  p \in Seq(S) /\ Len(p) <= Len(s) /\ IsPrefix(p, s)
<1>1. PICK n \in 0 .. Len(s) : p = SubSeq(s, 1, n)
  BY DEF Prefixes
<1>2. Len(s) \in Nat
  BY LenProperties
<1>3. /\ SubSeq(s, 1, n) \in Seq(S) /\ IsPrefix(SubSeq(s, 1, n), s)
      /\ Len(SubSeq(s, 1, n)) = n
  BY CutAndJoin
<1> QED BY <1>1, <1>2, <1>3

-----------------------------------------------------------------------------
\* The part of DataInv that also holds after two threads have disturbed each other.
Static == TypeOK /\ LeakInv /\ BufInv

\* The tunnel starts with the types and the buffers as they should be.
LEMMA StaticInit == Init => Static
<1> SUFFICES ASSUME Init PROVE TypeOK /\ LeakInv /\ BufInv
  BY DEF Static
<1>1. /\ q \in [Endpoint -> Seq(Unit)] /\ buf \in [Thread -> Seq(Unit)]
      /\ sent \in [Dir -> Seq(Unit)] /\ got \in [Dir -> Seq(Unit)]
      /\ \A x \in Endpoint : Len(q[x]) <= Cap
      /\ \A t \in Thread : Len(buf[t]) <= 1 /\ buf[t] = <<>>
  BY EmptySeq, TlsAssumption DEF Init
<1>2. TypeOK
  BY <1>1 DEF Init, TypeOK, Server, Thread, Dir, Endpoint, Program, Socket
<1>3. LeakInv
  BY DEF Init, LeakInv, Server
<1>4. BufInv
  BY <1>1 DEF Init, BufInv, Server, Thread
<1> QED BY <1>2, <1>3, <1>4

\* The steps of the two handlers.
LEMMA StaticHandler ==
    ASSUME Static, NEW s \in Server, Handle(s)
    PROVE  Static'
<1> USE DEF UnchangedByHandler, history, Server
<1>1. UNCHANGED <<buf, shut, q, rst, proc, raced, sent, got, eof>>
  BY DEF Handle, EntryConnects, EntryRefused, EntryHandshakes, EntryHandshakeFails,
         DecryptHandshakes, DecryptHandshakeFails, DecryptConnects, DecryptRefused, Join
<1>2. /\ hand' \in [Server -> {"none", "connect", "handshake", "relay", "failed", "done"}]
      /\ thr' \in [Thread -> {"idle", "read", "write", "done"}]
  BY DEF Static, TypeOK, Handle, EntryConnects, EntryRefused, EntryHandshakes,
         EntryHandshakeFails, DecryptHandshakes, DecryptHandshakeFails, DecryptConnects,
         DecryptRefused, Join, Thread
<1>a. open' \subseteq Endpoint /\ leaked' \subseteq Socket \ open'
  <2>0. /\ open \subseteq Endpoint /\ leaked \subseteq Socket \ open /\ LeakInv
        /\ hand \in [Server -> {"none", "connect", "handshake", "relay", "failed", "done"}]
    BY DEF Static, TypeOK
  <2>1. CASE EntryConnects \/ EntryRefused
    BY <2>0, <2>1 DEF EntryConnects, EntryRefused, LeakInv, Endpoint, Socket
  <2>2. CASE DecryptConnects \/ DecryptRefused
    BY <2>0, <2>2 DEF DecryptConnects, DecryptRefused, RefusedCloses, LeakInv, Endpoint, Socket,
                      Program
  <2>3. CASE \/ EntryHandshakes \/ EntryHandshakeFails
             \/ DecryptHandshakes \/ DecryptHandshakeFails \/ Join(s)
    BY <2>0, <2>3 DEF EntryHandshakes, EntryHandshakeFails, DecryptHandshakes,
                      DecryptHandshakeFails, Join
  <2> QED BY <2>1, <2>2, <2>3 DEF Handle
<1>3. TypeOK'
  BY <1>1, <1>2, <1>a DEF Static, TypeOK
<1>4. LeakInv'
  BY DEF Static, TypeOK, LeakInv, Handle, EntryConnects, EntryRefused, EntryHandshakes,
         EntryHandshakeFails, DecryptHandshakes, DecryptHandshakeFails, DecryptConnects,
         DecryptRefused, Join, RefusedCloses, Inner, Outer
<1>5. BufInv'
  <2>1. CASE EntryConnects \/ EntryHandshakes \/ DecryptConnects
    BY <1>1, <2>1 DEF Static, TypeOK, LeakInv, BufInv, EntryConnects, EntryHandshakes,
                      DecryptConnects, Thread
  <2>2. CASE \/ EntryRefused \/ EntryHandshakeFails \/ DecryptHandshakes
             \/ DecryptHandshakeFails \/ DecryptRefused \/ Join(s)
    BY <1>1, <2>2 DEF Static, TypeOK, BufInv, EntryRefused, EntryHandshakeFails,
                      DecryptHandshakes, DecryptHandshakeFails, DecryptRefused, Join
  <2> QED BY <2>1, <2>2 DEF Handle
<1> QED BY <1>3, <1>4, <1>5 DEF Static

\* What keeps LeakInv and BufInv of a step that is none of a handler.
LEMMA StaticKept ==
    ASSUME Static, UNCHANGED hand, open' \subseteq open, leaked' \subseteq leaked,
           TypeOK',
           \A t \in Thread : /\ Len(buf'[t]) <= 1 /\ (thr'[t] # "write" => buf'[t] = <<>>)
                             /\ thr[t] = "idle" => thr'[t] = "idle"
    PROVE  Static'
<1>1. LeakInv'
  BY DEF Static, LeakInv
<1>2. BufInv'
  BY DEF Static, BufInv, Thread
<1> QED BY <1>1, <1>2 DEF Static

\* The steps of a copying thread that do not end the process.
LEMMA StaticCopy ==
    ASSUME Static, NEW t \in Thread, Read(t) \/ ReadEnds(t) \/ Write(t) \/ WriteFails(t)
    PROVE  Static'
<1> USE DEF history
<1>0. /\ TypeOK /\ From(t) \in Endpoint /\ To(t) \in Endpoint /\ Other(From(t)) \in Endpoint
      /\ \A c \in Thread : Len(buf[c]) <= 1 /\ (thr[c] # "write" => buf[c] = <<>>)
  BY Hops DEF Static, BufInv, Socket, Endpoint
<1>1. CASE Read(t)
  <2> DEFINE x == Other(From(t))
  <2>1. /\ q[x] \in Seq(Unit) /\ q[x] # <<>> /\ Len(q[x]) <= Cap
        /\ buf' = [buf EXCEPT ![t] = <<Head(q[x])>>] /\ q' = [q EXCEPT ![x] = Tail(@)]
        /\ thr' = [thr EXCEPT ![t] = "write"] /\ thr[t] = "read"
    BY <1>0, <1>1 DEF Read, TypeOK
  <2>2. /\ Head(q[x]) \in Unit /\ Tail(q[x]) \in Seq(Unit) /\ Len(Tail(q[x])) <= Cap
        /\ <<Head(q[x])>> \in Seq(Unit) /\ Len(<<Head(q[x])>>) = 1
    BY <2>1, HeadTailProperties, LenProperties, TlsAssumption
  <2> HIDE DEF x
  <2>3. x \in Endpoint
    BY <1>0 DEF x
  <2>4. /\ q' \in [Endpoint -> Seq(Unit)] /\ buf' \in [Thread -> Seq(Unit)]
        /\ \A y \in Endpoint : Len(q'[y]) <= Cap
    BY <1>0, <2>1, <2>2, <2>3 DEF TypeOK
  <2>5. TypeOK'
    BY <1>0, <1>1, <2>4 DEF Read, TypeOK
  <2>6. \A c \in Thread : /\ Len(buf'[c]) <= 1 /\ (thr'[c] # "write" => buf'[c] = <<>>)
                          /\ thr[c] = "idle" => thr'[c] = "idle"
    BY <1>0, <2>1, <2>2 DEF TypeOK
  <2> QED BY <1>1, <2>5, <2>6, StaticKept DEF Read
<1>2. CASE ReadEnds(t)
  <2>1. TypeOK'
    BY <1>0, <1>2 DEF ReadEnds, TypeOK, Tells, Socket
  <2>2. \A c \in Thread : /\ Len(buf'[c]) <= 1 /\ (thr'[c] # "write" => buf'[c] = <<>>)
                          /\ thr[c] = "idle" => thr'[c] = "idle"
    BY <1>0, <1>2 DEF ReadEnds, TypeOK
  <2> QED BY <1>2, <2>1, <2>2, StaticKept DEF ReadEnds
<1>3. CASE Write(t)
  <2> DEFINE x == To(t)
  <2>1. /\ q[x] \in Seq(Unit) /\ buf[t] \in Seq(Unit) /\ Len(q[x]) < Cap /\ Len(buf[t]) <= 1
        /\ q' = [q EXCEPT ![x] = q[x] \o buf[t]] /\ buf' = [buf EXCEPT ![t] = <<>>]
        /\ thr' = [thr EXCEPT ![t] = "read"] /\ thr[t] = "write"
    BY <1>0, <1>3 DEF Write, Written, TypeOK
  <2>2. q[x] \o buf[t] \in Seq(Unit) /\ Len(q[x] \o buf[t]) <= Cap
    <3>1. Len(q[x]) \in Nat /\ Len(buf[t]) \in Nat
      BY <2>1, LenProperties
    <3>2. /\ q[x] \o buf[t] \in Seq(Unit)
          /\ Len(q[x] \o buf[t]) = Len(q[x]) + Len(buf[t])
      BY <2>1, ConcatLength
    <3>3. Len(q[x]) < Cap /\ Len(buf[t]) <= 1 /\ Cap \in Nat
      BY <2>1, TlsAssumption
    <3>4. \A a, b, c \in Nat : a < c /\ b <= 1 => a + b <= c
      OBVIOUS
    <3> QED BY <3>1, <3>2, <3>3, <3>4, Zenon
  <2> HIDE DEF x
  <2>3. x \in Endpoint
    BY <1>0 DEF x
  <2>4. /\ q' \in [Endpoint -> Seq(Unit)] /\ buf' \in [Thread -> Seq(Unit)]
        /\ \A y \in Endpoint : Len(q'[y]) <= Cap
    BY <1>0, <2>1, <2>2, <2>3, EmptySeq DEF TypeOK
  <2>5. TypeOK'
    BY <1>0, <1>3, <2>4 DEF Write, TypeOK
  <2>6. \A c \in Thread : /\ Len(buf'[c]) <= 1 /\ (thr'[c] # "write" => buf'[c] = <<>>)
                          /\ thr[c] = "idle" => thr'[c] = "idle"
    BY <1>0, <2>1, EmptySeq DEF TypeOK
  <2> QED BY <1>3, <2>5, <2>6, StaticKept DEF Write
<1>4. CASE WriteFails(t)
  <2>1. TypeOK'
    BY <1>0, <1>4, EmptySeq DEF WriteFails, TypeOK
  <2>2. \A c \in Thread : /\ Len(buf'[c]) <= 1 /\ (thr'[c] # "write" => buf'[c] = <<>>)
                          /\ thr[c] = "idle" => thr'[c] = "idle"
    BY <1>0, <1>4, EmptySeq DEF WriteFails, TypeOK
  <2> QED BY <1>4, <2>1, <2>2, StaticKept DEF WriteFails
<1> QED BY <1>1, <1>2, <1>3, <1>4

\* The steps that end the process.
LEMMA StaticProcessEnds ==
    ASSUME Static, NEW cause \in {"sigpipe", "crashed", "stopped"}, ProcessEnds(cause),
           raced' \in BOOLEAN
    PROVE  Static'
<1>0. /\ TypeOK /\ \A c \in Thread : Len(buf[c]) <= 1 /\ (thr[c] # "write" => buf[c] = <<>>)
  BY DEF Static, BufInv
<1>1. PICK a \in Prefixes(q["entryIn"]), b \in Prefixes(q["decryptOut"]) :
        q' = [q EXCEPT !["entryIn"] = a, !["decryptOut"] = b]
  BY DEF ProcessEnds
<1>2. /\ q["entryIn"] \in Seq(Unit) /\ Len(q["entryIn"]) <= Cap
      /\ q["decryptOut"] \in Seq(Unit) /\ Len(q["decryptOut"]) <= Cap
  BY <1>0 DEF TypeOK, Endpoint, Socket
<1>3. a \in Seq(Unit) /\ Len(a) <= Cap /\ b \in Seq(Unit) /\ Len(b) <= Cap
  <2>1. a \in Seq(Unit) /\ Len(a) <= Len(q["entryIn"])
    BY <1>2, PrefixesAre
  <2>2. b \in Seq(Unit) /\ Len(b) <= Len(q["decryptOut"])
    BY <1>2, PrefixesAre
  <2> QED BY <1>2, <2>1, <2>2, LenProperties, TlsAssumption
<1>4. q' \in [Endpoint -> Seq(Unit)] /\ \A x \in Endpoint : Len(q'[x]) <= Cap
  BY <1>0, <1>1, <1>3 DEF TypeOK
<1>5. TypeOK'
  BY <1>0, <1>4 DEF TypeOK, ProcessEnds, history
<1> QED BY <1>0, <1>5, StaticKept DEF ProcessEnds, history

\* Two threads that meet in one SSL object.
LEMMA StaticRace ==
    ASSUME Static, NEW s \in Server, SslRace(s)
    PROVE  Static'
<1> USE DEF history
<1>0. /\ TypeOK /\ Reader(s) \in Thread /\ Writer(s) \in Thread /\ Reader(s) # Writer(s)
      /\ \A c \in Thread : Len(buf[c]) <= 1 /\ (thr[c] # "write" => buf[c] = <<>>)
      /\ raced' = TRUE /\ thr[Reader(s)] = "read" /\ thr[Writer(s)] = "write"
  BY DEF Static, BufInv, Reader, Writer, Thread, SslRace
<1>1. CASE ProcessEnds("crashed")
  BY <1>0, <1>1, StaticProcessEnds
<1>2. CASE /\ thr' = [thr EXCEPT ![Reader(s)] = "done"]
           /\ shut' = shut \cup Tells(Reader(s))
           /\ UNCHANGED <<hand, buf, open, leaked, q, rst, proc, history>>
  <2>1. TypeOK'
    BY <1>0, <1>2 DEF TypeOK, Tells, Socket
  <2> QED BY <1>0, <1>2, <2>1, StaticKept DEF TypeOK
<1>3. CASE /\ thr' = [thr EXCEPT ![Writer(s)] = "read"]
           /\ buf' = [buf EXCEPT ![Writer(s)] = <<>>]
           /\ UNCHANGED <<hand, open, leaked, shut, q, rst, proc, history>>
  <2>1. TypeOK'
    BY <1>0, <1>3, EmptySeq DEF TypeOK
  <2>2. \A c \in Thread : /\ Len(buf'[c]) <= 1 /\ (thr'[c] # "write" => buf'[c] = <<>>)
                          /\ thr[c] = "idle" => thr'[c] = "idle"
    BY <1>0, <1>3, EmptySeq DEF TypeOK
  <2> QED BY <1>3, <2>1, <2>2, StaticKept
<1> QED BY <1>1, <1>2, <1>3 DEF SslRace

\* The steps of the programs, and resets.
LEMMA StaticProgram ==
    ASSUME Static,
           \/ \E d \in Dir : Send(d) \/ Receive(d) \/ ReceiveEnd(d)
           \/ \E p \in Program : Close(p)
           \/ \E x \in Socket : Reset(x)
    PROVE  Static'
<1> USE DEF UnchangedByProgram, history
<1>0. /\ TypeOK /\ \A c \in Thread : Len(buf[c]) <= 1 /\ (thr[c] # "write" => buf[c] = <<>>)
  BY DEF Static, BufInv
<1>k. ASSUME UNCHANGED <<hand, thr, buf, leaked>>, open' \subseteq open, TypeOK'
      PROVE  Static'
  BY <1>0, <1>k, StaticKept
<1>1. ASSUME NEW d \in Dir, Send(d) PROVE Static'
  <2>1. PICK u \in Unit :
          /\ q'    = [q EXCEPT ![Source(d)] = Append(@, u)]
          /\ sent' = [sent EXCEPT ![d] = Append(@, u)]
    BY <1>1 DEF Send
  <2>2. Source(d) \in Endpoint /\ q[Source(d)] \in Seq(Unit) /\ Len(q[Source(d)]) < Cap
    BY <1>0, <1>1, Hops DEF Send, Endpoint, TypeOK
  <2>3. /\ Append(q[Source(d)], u) \in Seq(Unit) /\ Len(Append(q[Source(d)], u)) <= Cap
        /\ Append(sent[d], u) \in Seq(Unit)
    BY <1>0, <2>2, AppendProperties, LenProperties, TlsAssumption DEF TypeOK
  <2>4. /\ q' \in [Endpoint -> Seq(Unit)] /\ sent' \in [Dir -> Seq(Unit)]
        /\ \A x \in Endpoint : Len(q'[x]) <= Cap
    BY <1>0, <2>1, <2>2, <2>3 DEF TypeOK
  <2>5. TypeOK'
    BY <1>0, <1>1, <2>4 DEF Send, TypeOK
  <2> QED BY <1>1, <1>k, <2>5 DEF Send
<1>2. ASSUME NEW d \in Dir, Receive(d) PROVE Static'
  <2> DEFINE x == LastHop(d)
  <2>1. /\ x \in Endpoint /\ q[x] \in Seq(Unit) /\ q[x] # <<>> /\ Len(q[x]) <= Cap
        /\ got' = [got EXCEPT ![d] = Append(@, Head(q[x]))]
        /\ q' = [q EXCEPT ![x] = Tail(@)]
    BY <1>0, <1>2, Hops DEF Receive, LastHop, Endpoint, TypeOK
  <2> HIDE DEF x
  <2>2. /\ Head(q[x]) \in Unit /\ Tail(q[x]) \in Seq(Unit) /\ Len(Tail(q[x])) <= Cap
        /\ Append(got[d], Head(q[x])) \in Seq(Unit)
    BY <1>0, <2>1, HeadTailProperties, AppendProperties, LenProperties, TlsAssumption DEF TypeOK
  <2>3. /\ q' \in [Endpoint -> Seq(Unit)] /\ got' \in [Dir -> Seq(Unit)]
        /\ \A y \in Endpoint : Len(q'[y]) <= Cap
    BY <1>0, <2>1, <2>2 DEF TypeOK
  <2>4. TypeOK'
    BY <1>0, <1>2, <2>3 DEF Receive, TypeOK
  <2> QED BY <1>2, <1>k, <2>4 DEF Receive
<1>3. ASSUME NEW d \in Dir, ReceiveEnd(d) PROVE Static'
  <2>1. TypeOK'
    BY <1>0, <1>3 DEF ReceiveEnd, TypeOK
  <2> QED BY <1>3, <1>k, <2>1 DEF ReceiveEnd
<1>4. ASSUME NEW p \in Program, Close(p) PROVE Static'
  <2>1. TypeOK'
    BY <1>0, <1>4 DEF Close, TypeOK
  <2> QED BY <1>4, <1>k, <2>1 DEF Close
<1>5. ASSUME NEW x \in Socket, Reset(x) PROVE Static'
  <2>1. PICK kept \in Prefixes(q[Other(x)]) : q' = [q EXCEPT ![Other(x)] = kept]
    BY <1>5 DEF Reset
  <2>2. Other(x) \in Endpoint /\ q[Other(x)] \in Seq(Unit) /\ Len(q[Other(x)]) <= Cap
    BY <1>0, Hops DEF TypeOK, Endpoint
  <2>3. kept \in Seq(Unit) /\ Len(kept) <= Cap
    <3>1. kept \in Seq(Unit) /\ Len(kept) <= Len(q[Other(x)])
      BY <2>2, PrefixesAre
    <3> QED BY <2>2, <3>1, LenProperties, TlsAssumption
  <2>4. q' \in [Endpoint -> Seq(Unit)] /\ \A y \in Endpoint : Len(q'[y]) <= Cap
    BY <1>0, <2>1, <2>2, <2>3 DEF TypeOK
  <2>5. TypeOK'
    BY <1>0, <1>5, <2>4 DEF Reset, TypeOK
  <2> QED BY <1>5, <1>k, <2>5 DEF Reset
<1> QED BY <1>1, <1>2, <1>3, <1>4, <1>5

\* No step disturbs them.
LEMMA StaticStep == Static /\ [Next]_vars => Static'
<1> SUFFICES ASSUME Static, [Next]_vars PROVE Static'
  OBVIOUS
<1>1. CASE UNCHANGED vars
  BY <1>1 DEF Static, TypeOK, LeakInv, BufInv, vars
<1>2. CASE Stop \/ \E t \in Thread : WriteKills(t)
  BY <1>2, StaticProcessEnds DEF Stop, WriteKills, Static, TypeOK
<1> QED
  BY <1>1, <1>2, StaticHandler, StaticCopy, StaticRace, StaticProgram DEF Next, Copy

-----------------------------------------------------------------------------
(***************************************************************************)
(* The way of a direction: the thread that reads from the program at its   *)
(* source, the TLS connection in the middle, and the thread that writes to *)
(* its sink.                                                               *)
(***************************************************************************)
Near(d) == IF d = "req" THEN "entry.req" ELSE "decrypt.rsp"
Mid(d)  == IF d = "req" THEN "entryOut" ELSE "decryptIn"
Far(d)  == IF d = "req" THEN "decrypt.req" ELSE "entry.rsp"

\* The threads and connections on the way of a direction are its own.
LEMMA Ways ==
    /\ \A d \in Dir :
         /\ Near(d) \in Thread /\ Far(d) \in Thread /\ Near(d) # Far(d)
         /\ LastHop(d) \in Endpoint /\ Mid(d) \in Endpoint /\ Source(d) \in Endpoint
         /\ LastHop(d) # Mid(d) /\ Mid(d) # Source(d) /\ LastHop(d) # Source(d)
         /\ To(Far(d)) = LastHop(d) /\ Other(From(Far(d))) = Mid(d)
         /\ To(Near(d)) = Mid(d) /\ Other(From(Near(d))) = Source(d)
         /\ Other(LastHop(d)) = Sink(d) /\ Other(FirstHop(d)) = Source(d)
         /\ Path(d) = (((q[LastHop(d)] \o buf[Far(d)]) \o q[Mid(d)]) \o buf[Near(d)])
                        \o q[Source(d)]
    /\ \A t \in Thread : \E d \in Dir : t = Near(d) \/ t = Far(d)
    /\ \A c, d \in Dir : c # d =>
         /\ {Near(c), Far(c)} \cap {Near(d), Far(d)} = {}
         /\ {LastHop(c), Mid(c), Source(c)} \cap {LastHop(d), Mid(d), Source(d)} = {}
         /\ FirstHop(c) = LastHop(d) /\ Source(c) = Sink(d)
<1> USE DEF Dir, Thread, Endpoint, Program, Socket
<1>1. /\ Near("req") = "entry.req" /\ Far("req") = "decrypt.req" /\ Mid("req") = "entryOut"
      /\ Near("rsp") = "decrypt.rsp" /\ Far("rsp") = "entry.rsp" /\ Mid("rsp") = "decryptIn"
  BY DEF Near, Far, Mid
<1>2. ASSUME NEW d \in Dir
      PROVE  /\ Near(d) \in Thread /\ Far(d) \in Thread /\ Near(d) # Far(d)
             /\ LastHop(d) \in Endpoint /\ Mid(d) \in Endpoint /\ Source(d) \in Endpoint
             /\ LastHop(d) # Mid(d) /\ Mid(d) # Source(d) /\ LastHop(d) # Source(d)
  BY <1>1, Hops
<1>3. ASSUME NEW d \in Dir
      PROVE  /\ To(Far(d)) = LastHop(d) /\ Other(From(Far(d))) = Mid(d)
             /\ To(Near(d)) = Mid(d) /\ Other(From(Near(d))) = Source(d)
             /\ Other(LastHop(d)) = Sink(d) /\ Other(FirstHop(d)) = Source(d)
  BY <1>1, Hops DEF From, To, Other
<1>4. ASSUME NEW d \in Dir
      PROVE  Path(d) = (((q[LastHop(d)] \o buf[Far(d)]) \o q[Mid(d)]) \o buf[Near(d)])
                         \o q[Source(d)]
  BY <1>1, Hops DEF Path
<1>5. \A t \in Thread : \E d \in Dir : t = Near(d) \/ t = Far(d)
  BY <1>1
<1>6. ASSUME NEW c \in Dir, NEW d \in Dir, c # d
      PROVE  /\ {Near(c), Far(c)} \cap {Near(d), Far(d)} = {}
             /\ {LastHop(c), Mid(c), Source(c)} \cap {LastHop(d), Mid(d), Source(d)} = {}
             /\ FirstHop(c) = LastHop(d) /\ Source(c) = Sink(d)
  BY <1>1, <1>6, Hops
<1> QED BY <1>2, <1>3, <1>4, <1>5, <1>6

-----------------------------------------------------------------------------
\* A step that disturbs nothing follows states in which nothing was disturbed.
LEMMA RacedStays == Next /\ ~raced' => ~raced
<1> USE DEF UnchangedByHandler, UnchangedByProgram
<1>1. ASSUME NEW s \in Server, Handle(s) PROVE raced' = raced
  BY <1>1 DEF Handle, EntryConnects, EntryRefused, EntryHandshakes, EntryHandshakeFails,
     DecryptHandshakes, DecryptHandshakeFails, DecryptConnects, DecryptRefused, Join
<1>2. ASSUME NEW s \in Server, SslRace(s) PROVE raced'
  BY <1>2 DEF SslRace
<1>3. ASSUME NEW t \in Thread, Copy(t) PROVE raced' = raced
  BY <1>3 DEF Copy, Read, ReadEnds, Write, WriteFails, WriteKills
<1>4. CASE \/ Stop
           \/ \E d \in Dir : Send(d) \/ Receive(d) \/ ReceiveEnd(d)
           \/ \E p \in Program : Close(p)
           \/ \E x \in Socket : Reset(x)
  BY <1>4 DEF Stop, Send, Receive, ReceiveEnd, Close, Reset
<1> QED BY <1>1, <1>2, <1>3, <1>4 DEF Next

\* What the end of the process leaves of the two queues it cuts.
LEMMA EndCuts ==
    ASSUME TypeOK, NEW cause, ProcessEnds(cause)
    PROVE  /\ q' \in [Endpoint -> Seq(Unit)]
           /\ \A x \in Endpoint : x \notin {"entryIn", "decryptOut"} => q'[x] = q[x]
           /\ \A x \in Endpoint : IsPrefix(q'[x], q[x]) /\ Len(q'[x]) <= Len(q[x])
<1>1. PICK a \in Prefixes(q["entryIn"]), b \in Prefixes(q["decryptOut"]) :
        q' = [q EXCEPT !["entryIn"] = a, !["decryptOut"] = b]
  BY DEF ProcessEnds
<1>2. q \in [Endpoint -> Seq(Unit)] /\ "entryIn" \in Endpoint /\ "decryptOut" \in Endpoint
  BY DEF TypeOK, Endpoint, Socket
<1>3. a \in Seq(Unit) /\ Len(a) <= Len(q["entryIn"]) /\ IsPrefix(a, q["entryIn"])
  <2>1. q["entryIn"] \in Seq(Unit)
    BY <1>2
  <2> QED BY <2>1, PrefixesAre
<1>4. b \in Seq(Unit) /\ Len(b) <= Len(q["decryptOut"]) /\ IsPrefix(b, q["decryptOut"])
  <2>1. q["decryptOut"] \in Seq(Unit)
    BY <1>2
  <2> QED BY <2>1, PrefixesAre
<1>5. ASSUME NEW x \in Endpoint
      PROVE  IsPrefix(q[x], q[x]) /\ Len(q[x]) <= Len(q[x])
  <2>1. q[x] \in Seq(Unit)
    BY <1>2
  <2> QED BY <2>1, PrefixReflexive, LenProperties
<1>6. q' \in [Endpoint -> Seq(Unit)]
  BY <1>1, <1>2, <1>3, <1>4
<1>7. \A x \in Endpoint : x \notin {"entryIn", "decryptOut"} => q'[x] = q[x]
  BY <1>1, <1>2
<1>8. ASSUME NEW x \in Endpoint
      PROVE  IsPrefix(q'[x], q[x]) /\ Len(q'[x]) <= Len(q[x])
  <2>1. CASE x = "entryIn"
    BY <1>1, <1>2, <1>3, <2>1
  <2>2. CASE x = "decryptOut"
    BY <1>1, <1>2, <1>4, <2>2
  <2>3. CASE x \notin {"entryIn", "decryptOut"}
    BY <1>5, <1>7, <2>3
  <2> QED BY <2>1, <2>2, <2>3
<1> QED BY <1>6, <1>7, <1>8

\* Of an empty sequence there is only the empty prefix.
LEMMA EmptyPrefix == \A s \in Seq(Unit) : Len(s) <= 0 => s = <<>>
BY EmptySeq, LenProperties

(***************************************************************************)
(* Nothing passes the decrypt server before it is connected to BIST, and a *)
(* decrypt server that was does not stop to be while the process runs.     *)
(***************************************************************************)
OpenedFirst == hand["decrypt"] # "relay" => Unopened

\* The steps of the two handlers.
LEMMA UnopenedHandler ==
    ASSUME IInv, Static, ~raced, OpenedFirst, NEW s \in Server, Handle(s),
           hand'["decrypt"] # "relay"
    PROVE  hand["decrypt"] # "relay" /\ Unopened'
<1> USE DEF UnchangedByHandler, history
<1>0. /\ UNCHANGED <<buf, q, rst, sent, got>> /\ proc = "up"
      /\ hand \in [Server -> {"none", "connect", "handshake", "relay", "failed", "done"}]
      /\ thr \in [Thread -> {"idle", "read", "write", "done"}]
      /\ hand["entry"] = "connect" => hand["decrypt"] = "none"
  BY DEF Static, TypeOK, LeakInv, Handle, EntryConnects, EntryRefused, EntryHandshakes,
         EntryHandshakeFails, DecryptHandshakes, DecryptHandshakeFails, DecryptConnects,
         DecryptRefused, Join
<1>1. ~(s = "decrypt" /\ (DecryptConnects \/ Join(s)))
  <2>1. CASE s = "decrypt" /\ DecryptConnects
    BY <1>0, <2>1 DEF DecryptConnects, Server
  <2>2. CASE s = "decrypt" /\ Join(s)
    BY <1>0, <2>2 DEF IInv, ReadersInv, Join, Joined, Reader
  <2> QED BY <2>1, <2>2
<1>2. /\ hand["decrypt"] # "relay" /\ open' \subseteq open \cup {"entryOut", "decryptIn"}
      /\ thr'["decrypt.req"] = thr["decrypt.req"] /\ thr'["decrypt.rsp"] = thr["decrypt.rsp"]
  <2>1. CASE EntryConnects \/ EntryRefused \/ EntryHandshakes \/ EntryHandshakeFails
    BY <1>0, <2>1 DEF EntryConnects, EntryRefused, EntryHandshakes, EntryHandshakeFails,
                      Server, Thread
  <2>2. CASE DecryptHandshakes \/ DecryptHandshakeFails \/ DecryptRefused
    BY <1>0, <2>2 DEF DecryptHandshakes, DecryptHandshakeFails, DecryptRefused, Server, Thread
  <2>3. CASE s = "entry" /\ Join(s)
    BY <1>0, <2>3 DEF Join, Server, Thread
  <2> QED BY <1>1, <2>1, <2>2, <2>3 DEF Handle, Server
<1> QED BY <1>0, <1>2 DEF OpenedFirst, Unopened

\* The steps of the copying threads: only entry.req has anything to do.
LEMMA UnopenedCopy ==
    ASSUME Static, Unopened, NEW t \in Thread, Copy(t)
    PROVE  Unopened'
<1> USE DEF history
<1>0. /\ TypeOK /\ From(t) \in Endpoint /\ To(t) \in Endpoint /\ Other(From(t)) \in Endpoint
      /\ \A c \in Thread : thr[c] # "write" => buf[c] = <<>>
  BY Hops DEF Static, BufInv, Socket, Endpoint
<1>1. t \in {"entry.req", "entry.rsp"}
  BY DEF Unopened, Copy, Read, ReadEnds, Write, WriteFails, WriteKills, Thread
<1>2. CASE Read(t)
  <2>1. t = "entry.req"
    BY <1>1, <1>2 DEF Unopened, Read, From, Other
  <2> QED BY <1>0, <1>2, <2>1 DEF Unopened, Read, From, Other, TypeOK
<1>3. CASE ReadEnds(t)
  BY <1>0, <1>1, <1>3 DEF Unopened, ReadEnds, TypeOK, Thread
<1>4. CASE Write(t)
  <2>1. CASE t = "entry.req"
    BY <1>0, <1>4, <2>1 DEF Unopened, Write, To, TypeOK, Thread, Endpoint, Socket
  <2>2. CASE t = "entry.rsp"
    <3>1. Written(t) = <<>> \o <<>>
      BY <2>2 DEF Unopened, Written, To
    <3>2. Written(t) = <<>>
      BY <3>1, ConcatEmptySeq, EmptySeq
    <3> QED BY <1>0, <1>4, <2>2, <3>2 DEF Unopened, Write, To, TypeOK, Thread, Endpoint, Socket
  <2> QED BY <1>1, <2>1, <2>2
<1>5. CASE WriteFails(t)
  BY <1>0, <1>1, <1>5 DEF Unopened, WriteFails, TypeOK, Thread
<1>6. CASE WriteKills(t)
  <2>1. ProcessEnds("sigpipe")
    BY <1>6 DEF WriteKills
  <2>2. /\ q' \in [Endpoint -> Seq(Unit)]
        /\ \A x \in Endpoint : Len(q'[x]) <= Len(q[x])
    BY <1>0, <2>1, EndCuts
  <2>3. \A x \in {"bist", "decryptIn", "decryptOut", "entryIn"} : q'[x] = <<>>
    BY <2>2, EmptyPrefix, EmptySeq DEF Unopened, Endpoint, Program, Socket
  <2> QED BY <2>1, <2>3 DEF Unopened, ProcessEnds
<1> QED BY <1>2, <1>3, <1>4, <1>5, <1>6 DEF Copy

\* The end of the process.
LEMMA UnopenedStop ==
    ASSUME Static, Unopened, Stop
    PROVE  Unopened'
<1>1. ProcessEnds("stopped") /\ TypeOK
  BY DEF Stop, Static
<1>2. /\ q' \in [Endpoint -> Seq(Unit)]
      /\ \A x \in Endpoint : Len(q'[x]) <= Len(q[x])
  BY <1>1, EndCuts
<1>3. \A x \in {"bist", "decryptIn", "decryptOut", "entryIn"} : q'[x] = <<>>
  BY <1>2, EmptyPrefix, EmptySeq DEF Unopened, Endpoint, Program, Socket
<1> QED BY <1>1, <1>3 DEF Unopened, ProcessEnds, history

\* The steps of the programs, and resets: only the client has anything to do.
LEMMA UnopenedProgram ==
    ASSUME Static, Unopened,
           \/ \E d \in Dir : Send(d) \/ Receive(d) \/ ReceiveEnd(d)
           \/ \E p \in Program : Close(p)
           \/ \E x \in Socket : Reset(x)
    PROVE  Unopened'
<1> USE DEF UnchangedByProgram, history
<1>0. TypeOK
  BY DEF Static
<1>1. ASSUME NEW d \in Dir, Send(d) PROVE Unopened'
  <2>1. d = "req"
    BY <1>1 DEF Dir, Send, Source, Unopened
  <2> QED BY <1>0, <1>1, <2>1 DEF Send, Source, Unopened, TypeOK, Dir
<1>2. ASSUME NEW d \in Dir, Receive(d) PROVE FALSE
  BY <1>2 DEF Dir, Receive, Sink, Other, Unopened
<1>3. CASE \/ \E d \in Dir : ReceiveEnd(d)
           \/ \E p \in Program : Close(p)
  BY <1>3 DEF ReceiveEnd, Close, Unopened
<1>4. ASSUME NEW x \in Socket, Reset(x) PROVE Unopened'
  <2>1. x = "entryOut" /\ Other(x) = "decryptIn"
    BY <1>4 DEF Reset, Socket, Unopened, Other
  <2>2. PICK kept \in Prefixes(q["decryptIn"]) : q' = [q EXCEPT !["decryptIn"] = kept]
    BY <1>4, <2>1 DEF Reset
  <2>3. kept = <<>>
    <3>1. q["decryptIn"] \in Seq(Unit) /\ q["decryptIn"] = <<>>
      BY <1>0 DEF TypeOK, Unopened, Endpoint, Socket
    <3>2. kept \in Seq(Unit) /\ Len(kept) <= Len(q["decryptIn"])
      BY <3>1, PrefixesAre
    <3> QED BY <3>1, <3>2, EmptyPrefix, EmptySeq
  <2> QED BY <1>0, <1>4, <2>1, <2>2, <2>3 DEF Reset, Unopened, TypeOK, Endpoint, Program, Socket
<1> QED BY <1>1, <1>2, <1>3, <1>4

-----------------------------------------------------------------------------
\* The types of what is on the way of a direction.
LEMMA WayTypes ==
    ASSUME TypeOK, NEW c \in Dir
    PROVE  /\ AreSeqs(Unit, got[c], q[LastHop(c)], buf[Far(c)], q[Mid(c)], buf[Near(c)],
                      q[Source(c)])
           /\ got[c] \in Seq(Unit) /\ sent[c] \in Seq(Unit) /\ q[LastHop(c)] \in Seq(Unit)
           /\ buf[Far(c)] \in Seq(Unit) /\ q[Mid(c)] \in Seq(Unit)
           /\ buf[Near(c)] \in Seq(Unit) /\ q[Source(c)] \in Seq(Unit)
           /\ Path(c) = Five(q[LastHop(c)], buf[Far(c)], q[Mid(c)], buf[Near(c)], q[Source(c)])
           /\ Path(c) \in Seq(Unit)
<1>1. /\ got[c] \in Seq(Unit) /\ sent[c] \in Seq(Unit) /\ q[LastHop(c)] \in Seq(Unit)
      /\ buf[Far(c)] \in Seq(Unit) /\ q[Mid(c)] \in Seq(Unit)
      /\ buf[Near(c)] \in Seq(Unit) /\ q[Source(c)] \in Seq(Unit)
  BY Ways DEF TypeOK
<1>2. AreSeqs(Unit, got[c], q[LastHop(c)], buf[Far(c)], q[Mid(c)], buf[Near(c)],
              q[Source(c)])
  BY <1>1 DEF AreSeqs
<1>3. Path(c) = Five(q[LastHop(c)], buf[Far(c)], q[Mid(c)], buf[Near(c)], q[Source(c)])
  BY Ways, Zenon DEF Five
<1>4. Path(c) \in Seq(Unit)
  BY <1>2, <1>3, FiveType
<1> QED BY <1>1, <1>2, <1>3, <1>4

\* The way after a step.
LEMMA WayAfter ==
    ASSUME NEW c \in Dir
    PROVE  Path(c)' = Five(q'[LastHop(c)], buf'[Far(c)], q'[Mid(c)], buf'[Near(c)],
                           q'[Source(c)])
<1>1. /\ Near("req") = "entry.req" /\ Far("req") = "decrypt.req" /\ Mid("req") = "entryOut"
      /\ Near("rsp") = "decrypt.rsp" /\ Far("rsp") = "entry.rsp" /\ Mid("rsp") = "decryptIn"
  BY DEF Near, Far, Mid
<1>2. CASE c = "req"
  BY <1>1, <1>2, Hops DEF Path, Five
<1>3. CASE c = "rsp"
  BY <1>1, <1>3, Hops DEF Path, Five
<1> QED BY <1>2, <1>3 DEF Dir

\* What the steps of the others leave alone.
Kept(c) ==
    /\ sent'[c] = sent[c] /\ got'[c] = got[c]
    /\ q'[LastHop(c)] = q[LastHop(c)] /\ q'[Mid(c)] = q[Mid(c)] /\ q'[Source(c)] = q[Source(c)]
    /\ buf'[Far(c)] = buf[Far(c)] /\ buf'[Near(c)] = buf[Near(c)]

\* What keeps FlowInv of a step: no step but a reset of the first or the last
\* connection, or what ends its direction for good, takes anything from it.
LEMMA FlowKept ==
    ASSUME NEW c \in Dir, FlowInv(c), sent'[c] = sent[c],
           IsPrefix(got'[c] \o q'[LastHop(c)], sent[c]),
           LastHop(c) \in rst' => /\ LastHop(c) \in rst /\ got'[c] = got[c]
                                  /\ Sink(c) \notin open => Sink(c) \notin open',
           FirstHop(c) \in rst => FirstHop(c) \in rst',
           proc' = "up" /\ LastHop(c) \notin rst' /\ hand'["decrypt"] # "failed" =>
             /\ proc = "up" /\ LastHop(c) \notin rst /\ hand["decrypt"] # "failed"
             /\ got'[c] \o Path(c)' = got[c] \o Path(c)
    PROVE  FlowInv(c)'
<1>1. IsPrefix(got'[c] \o q'[LastHop(c)], sent'[c])
  OBVIOUS
<1>2. LastHop(c) \in rst' => Sink(c) \notin open' /\ Len(got'[c]) < Len(sent'[c])
  BY DEF FlowInv
<1>3. ASSUME proc' = "up", LastHop(c) \notin rst', hand'["decrypt"] # "failed"
      PROVE  /\ IsPrefix(got'[c] \o Path(c)', sent'[c])
             /\ FirstHop(c) \notin rst' => sent'[c] = got'[c] \o Path(c)'
  BY <1>3, Zenon DEF FlowInv
<1> QED BY <1>1, <1>2, <1>3, Zenon DEF FlowInv

\* The same for a direction that the step does not touch.
LEMMA FlowOther ==
    ASSUME NEW c \in Dir, FlowInv(c), Kept(c),
           LastHop(c) \in rst' => /\ LastHop(c) \in rst
                                  /\ Sink(c) \notin open => Sink(c) \notin open',
           FirstHop(c) \in rst => FirstHop(c) \in rst',
           proc' = "up" /\ LastHop(c) \notin rst' /\ hand'["decrypt"] # "failed" =>
             proc = "up" /\ LastHop(c) \notin rst /\ hand["decrypt"] # "failed"
    PROVE  FlowInv(c)'
<1>1. Path(c)' = Path(c)
  <2>1. Path(c) = Five(q[LastHop(c)], buf[Far(c)], q[Mid(c)], buf[Near(c)], q[Source(c)])
    BY Ways, Zenon DEF Five
  <2> QED BY <2>1, WayAfter, Zenon DEF Kept
<1>2. /\ sent'[c] = sent[c] /\ got'[c] = got[c] /\ q'[LastHop(c)] = q[LastHop(c)]
      /\ got'[c] \o Path(c)' = got[c] \o Path(c)
  BY <1>1, Zenon DEF Kept
<1>3. IsPrefix(got'[c] \o q'[LastHop(c)], sent[c])
  BY <1>2, Zenon DEF FlowInv
<1> QED BY <1>2, <1>3, FlowKept

\* The steps of the two handlers.
LEMMA FlowHandler ==
    ASSUME Static, OpenedFirst, NEW c \in Dir, FlowInv(c), NEW s \in Server, Handle(s)
    PROVE  FlowInv(c)'
<1> USE DEF UnchangedByHandler, history
<1>0. /\ UNCHANGED <<buf, q, rst, sent, got, proc>>
      /\ hand \in [Server -> {"none", "connect", "handshake", "relay", "failed", "done"}]
      /\ hand["entry"] = "connect" => hand["decrypt"] = "none"
  BY DEF Static, TypeOK, LeakInv, Handle, EntryConnects, EntryRefused, EntryHandshakes,
         EntryHandshakeFails, DecryptHandshakes, DecryptHandshakeFails, DecryptConnects,
         DecryptRefused, Join
<1>1. Kept(c)
  BY <1>0, Zenon DEF Kept
<1>2. hand'["decrypt"] # "failed" => hand["decrypt"] # "failed"
  BY <1>0 DEF Handle, EntryConnects, EntryRefused, EntryHandshakes, EntryHandshakeFails,
     DecryptHandshakes, DecryptHandshakeFails, DecryptConnects, DecryptRefused, Join, Server
<1>3. LastHop(c) \in rst /\ Sink(c) \notin open => Sink(c) \notin open'
  <2>1. CASE s = "decrypt" /\ DecryptConnects
    <3>1. "decryptOut" \notin rst
      BY <2>1 DEF DecryptConnects, OpenedFirst, Unopened
    <3>2. LastHop(c) \in rst => c = "rsp"
      BY <3>1, Hops DEF Dir
    <3> QED BY <2>1, <3>2, Hops DEF DecryptConnects
  <2>2. open' \subseteq open \cup {"entryOut", "decryptIn"} \/ (s = "decrypt" /\ DecryptConnects)
    BY DEF Handle, EntryConnects, EntryRefused, EntryHandshakes, EntryHandshakeFails,
       DecryptHandshakes, DecryptHandshakeFails, DecryptRefused, Join
  <2> QED BY <2>1, <2>2, Hops DEF Program
<1> QED BY <1>0, <1>1, <1>2, <1>3, FlowOther

\* A thread that reads moves a unit from a connection into its empty buffer.
LEMMA FlowRead ==
    ASSUME Static, NEW c \in Dir, FlowInv(c), NEW t \in Thread, Read(t)
    PROVE  FlowInv(c)'
<1> DEFINE x == Other(From(t))
<1>0. /\ TypeOK /\ buf[t] = <<>> /\ q[x] # <<>>
      /\ UNCHANGED <<hand, open, rst, proc, sent, got>>
      /\ buf' = [buf EXCEPT ![t] = <<Head(q[x])>>] /\ q' = [q EXCEPT ![x] = Tail(q[x])]
      /\ q \in [Endpoint -> Seq(Unit)] /\ buf \in [Thread -> Seq(Unit)]
  BY DEF Static, BufInv, TypeOK, Read, history
<1> HIDE DEF x
<1>1. CASE t \notin {Near(c), Far(c)}
  <2>0. PICK d \in Dir : t = Near(d) \/ t = Far(d)
    BY Ways
  <2>a. d # c /\ x \in {LastHop(d), Mid(d), Source(d)}
    BY <1>1, <2>0, Ways DEF x
  <2>1. x \notin {LastHop(c), Mid(c), Source(c)}
    BY <2>a, Ways
  <2>2. Kept(c)
    BY <1>0, <1>1, <2>1, Ways DEF Kept
  <2> QED BY <1>0, <2>2, FlowOther
<1>2. CASE t \in {Near(c), Far(c)}
  <2>1. /\ q'[LastHop(c)] = q[LastHop(c)]
        /\ Path(c)' = Path(c)
    <3>1. CASE t = Far(c)
      <4>1. x = Mid(c)
        BY <3>1, Ways DEF x
      <4>2. /\ q'[LastHop(c)] = q[LastHop(c)] /\ buf'[Far(c)] = <<Head(q[Mid(c)])>>
            /\ q'[Mid(c)] = Tail(q[Mid(c)]) /\ buf'[Near(c)] = buf[Near(c)]
            /\ q'[Source(c)] = q[Source(c)]
        BY <1>0, <3>1, <4>1, Ways
      <4>3. Five(q[LastHop(c)], <<Head(q[Mid(c)])>>, Tail(q[Mid(c)]), buf[Near(c)], q[Source(c)])
              = Path(c)
        <5>1. AreSeqs(Unit, got[c], q[LastHop(c)], buf[Far(c)], q[Mid(c)], buf[Near(c)],
                      q[Source(c)])
              /\ Path(c) = Five(q[LastHop(c)], buf[Far(c)], q[Mid(c)], buf[Near(c)],
                                q[Source(c)])
          BY <1>0, WayTypes
        <5>2. buf[Far(c)] = <<>> /\ q[Mid(c)] # <<>>
          BY <1>0, <3>1, <4>1
        <5>3. \A a, m, d, e : AreSeqs(Unit, got[c], a, <<>>, m, d, e) /\ m # <<>> =>
                Five(a, <<Head(m)>>, Tail(m), d, e) = Five(a, <<>>, m, d, e)
          BY FiveReads
        <5> QED BY <5>1, <5>2, <5>3, Zenon
      <4> QED BY <4>2, <4>3, WayAfter, Zenon
    <3>2. CASE t = Near(c)
      <4>1. x = Source(c)
        BY <3>2, Ways DEF x
      <4>2. /\ q'[LastHop(c)] = q[LastHop(c)] /\ buf'[Far(c)] = buf[Far(c)]
            /\ q'[Mid(c)] = q[Mid(c)] /\ buf'[Near(c)] = <<Head(q[Source(c)])>>
            /\ q'[Source(c)] = Tail(q[Source(c)])
        BY <1>0, <3>2, <4>1, Ways
      <4>3. Five(q[LastHop(c)], buf[Far(c)], q[Mid(c)], <<Head(q[Source(c)])>>, Tail(q[Source(c)]))
              = Path(c)
        <5>1. AreSeqs(Unit, got[c], q[LastHop(c)], buf[Far(c)], q[Mid(c)], buf[Near(c)],
                      q[Source(c)])
              /\ Path(c) = Five(q[LastHop(c)], buf[Far(c)], q[Mid(c)], buf[Near(c)],
                                q[Source(c)])
          BY <1>0, WayTypes
        <5>2. buf[Near(c)] = <<>> /\ q[Source(c)] # <<>>
          BY <1>0, <3>2, <4>1
        <5>3. \A a, b, m, e : AreSeqs(Unit, got[c], a, b, m, <<>>, e) /\ e # <<>> =>
                Five(a, b, m, <<Head(e)>>, Tail(e)) = Five(a, b, m, <<>>, e)
          BY FiveReadsFirst
        <5>4. Five(q[LastHop(c)], buf[Far(c)], q[Mid(c)], <<Head(q[Source(c)])>>,
                   Tail(q[Source(c)]))
                = Five(q[LastHop(c)], buf[Far(c)], q[Mid(c)], <<>>, q[Source(c)])
          BY <5>1, <5>2, <5>3
        <5> QED BY <5>1, <5>2, <5>4, Zenon
      <4> QED BY <4>2, <4>3, WayAfter, Zenon
    <3> QED BY <1>2, <3>1, <3>2
  <2>2. /\ sent'[c] = sent[c] /\ got'[c] \o q'[LastHop(c)] = got[c] \o q[LastHop(c)]
        /\ got'[c] \o Path(c)' = got[c] \o Path(c)
    BY <1>0, <2>1, Zenon
  <2>3. IsPrefix(got'[c] \o q'[LastHop(c)], sent[c])
    BY <2>2, Zenon DEF FlowInv
  <2> QED BY <1>0, <2>2, <2>3, FlowKept
<1> QED BY <1>1, <1>2

\* A thread that writes moves its buffer to a connection.
LEMMA FlowWrite ==
    ASSUME Static, OpenedFirst, NEW c \in Dir, FlowInv(c), NEW t \in Thread, Write(t)
    PROVE  FlowInv(c)'
<1> DEFINE x == To(t)
<1>0. /\ TypeOK /\ thr[t] = "write" /\ x \notin rst /\ proc = "up"
      /\ UNCHANGED <<hand, open, rst, proc, sent, got>>
      /\ buf' = [buf EXCEPT ![t] = <<>>] /\ q' = [q EXCEPT ![x] = q[x] \o buf[t]]
      /\ q \in [Endpoint -> Seq(Unit)] /\ buf \in [Thread -> Seq(Unit)]
  BY DEF Static, TypeOK, Write, Written, Broke, history
<1> HIDE DEF x
<1>1. CASE t \notin {Near(c), Far(c)}
  <2>0. PICK d \in Dir : t = Near(d) \/ t = Far(d)
    BY Ways
  <2>a. d # c /\ x \in {LastHop(d), Mid(d), Source(d)}
    BY <1>1, <2>0, Ways DEF x
  <2>1. x \notin {LastHop(c), Mid(c), Source(c)}
    BY <2>a, Ways
  <2>2. Kept(c)
    BY <1>0, <1>1, <2>1, Ways DEF Kept
  <2> QED BY <1>0, <2>2, FlowOther
<1>2. CASE t = Far(c)
  <2>1. x = LastHop(c)
    BY <1>2, Ways DEF x
  <2>2. /\ q'[LastHop(c)] = q[LastHop(c)] \o buf[Far(c)] /\ buf'[Far(c)] = <<>>
        /\ q'[Mid(c)] = q[Mid(c)] /\ buf'[Near(c)] = buf[Near(c)]
        /\ q'[Source(c)] = q[Source(c)]
    BY <1>0, <1>2, <2>1, Ways
  <2>3. Path(c)' = Path(c)
    <3>1. Five(q[LastHop(c)] \o buf[Far(c)], <<>>, q[Mid(c)], buf[Near(c)], q[Source(c)]) = Path(c)
      BY <1>0, WayTypes, FiveWrites
    <3> QED BY <2>2, <3>1, WayAfter, Zenon
  <2>4. IsPrefix(got[c] \o (q[LastHop(c)] \o buf[Far(c)]), sent[c])
    <3>1. CASE hand["decrypt"] = "failed"
      <4>1. c = "rsp" /\ buf["entry.rsp"] = <<>>
        BY <1>0, <1>2, <3>1 DEF Dir, OpenedFirst, Unopened, Far
      <4>2. q[LastHop(c)] \o buf[Far(c)] = q[LastHop(c)]
        <5>1. q[LastHop(c)] \in Seq(Unit)
          BY <1>0, WayTypes
        <5>2. buf[Far(c)] = <<>>
          BY <4>1 DEF Far
        <5> QED BY <5>1, <5>2, ConcatEmptySeq
      <4> QED BY <4>2, Zenon DEF FlowInv
    <3>2. CASE hand["decrypt"] # "failed"
      <4>1. IsPrefix(got[c] \o Path(c), sent[c])
        BY <1>0, <2>1, <3>2 DEF FlowInv
      <4>2. IsPrefix(got[c] \o (q[LastHop(c)] \o buf[Far(c)]), got[c] \o Path(c))
        BY <1>0, WayTypes, FiveBegins
      <4>3. /\ got[c] \o (q[LastHop(c)] \o buf[Far(c)]) \in Seq(Unit)
            /\ got[c] \o Path(c) \in Seq(Unit) /\ sent[c] \in Seq(Unit)
        <5>1. /\ got[c] \in Seq(Unit) /\ q[LastHop(c)] \in Seq(Unit) /\ buf[Far(c)] \in Seq(Unit)
              /\ Path(c) \in Seq(Unit) /\ sent[c] \in Seq(Unit)
          BY <1>0, WayTypes
        <5>2. q[LastHop(c)] \o buf[Far(c)] \in Seq(Unit)
          BY <5>1, ConcatLength
        <5> QED BY <5>1, <5>2, ConcatLength
      <4> QED BY <4>1, <4>2, <4>3, PrefixTransitive
    <3> QED BY <3>1, <3>2
  <2>5. /\ sent'[c] = sent[c] /\ got'[c] = got[c] /\ got'[c] \o Path(c)' = got[c] \o Path(c)
        /\ IsPrefix(got'[c] \o q'[LastHop(c)], sent[c])
    BY <1>0, <2>2, <2>3, <2>4, Zenon
  <2> QED BY <1>0, <2>5, FlowKept
<1>3. CASE t = Near(c)
  <2>1. x = Mid(c)
    BY <1>3, Ways DEF x
  <2>2. /\ q'[LastHop(c)] = q[LastHop(c)] /\ buf'[Far(c)] = buf[Far(c)]
        /\ q'[Mid(c)] = q[Mid(c)] \o buf[Near(c)] /\ buf'[Near(c)] = <<>>
        /\ q'[Source(c)] = q[Source(c)]
    BY <1>0, <1>3, <2>1, Ways
  <2>3. Path(c)' = Path(c)
    <3>1. Five(q[LastHop(c)], buf[Far(c)], q[Mid(c)] \o buf[Near(c)], <<>>, q[Source(c)]) = Path(c)
      BY <1>0, WayTypes, FiveWrites
    <3> QED BY <2>2, <3>1, WayAfter, Zenon
  <2>4. /\ sent'[c] = sent[c] /\ got'[c] = got[c] /\ got'[c] \o Path(c)' = got[c] \o Path(c)
        /\ got'[c] \o q'[LastHop(c)] = got[c] \o q[LastHop(c)]
    BY <1>0, <2>2, <2>3, Zenon
  <2>5. IsPrefix(got'[c] \o q'[LastHop(c)], sent[c])
    BY <2>4, Zenon DEF FlowInv
  <2> QED BY <1>0, <2>4, <2>5, FlowKept
<1> QED BY <1>1, <1>2, <1>3

\* A thread's write fails when its direction was reset at its end, or the
\* decrypt server has given up.
LEMMA LostOnlyThen ==
    ASSUME IInv, Static, ~raced, OpenedFirst, NEW c \in Dir, NEW t \in {Near(c), Far(c)},
           proc = "up", thr[t] = "write", Broke(t) \/ Spoiled(t)
    PROVE  LastHop(c) \in rst \/ hand["decrypt"] = "failed"
<1>0. /\ HandsInv /\ ReadersInv /\ SeenInv /\ BufInv
      /\ thr[t] = "write" /\ (To(t) \in rst \/ Spoiled(t)) /\ proc = "up"
      /\ hand \in [Server -> {"none", "connect", "handshake", "relay", "failed", "done"}]
  BY DEF IInv, Static, Broke
<1>u. hand["decrypt"] # "relay" => thr["decrypt.req"] = "idle" /\ thr["decrypt.rsp"] = "idle"
  BY DEF OpenedFirst, Unopened
<1>1. CASE t = Far(c)
  <2>1. To(t) = LastHop(c) /\ ~Spoiled(t)
    BY <1>1, Ways DEF Spoiled, Writer, Far, Server
  <2> QED BY <1>0, <2>1
<1>2. CASE t = Near(c) /\ c = "req"
  <2>0. t = "entry.req" /\ To(t) = "entryOut"
    BY <1>2 DEF Near, To
  <2>1. CASE "entryOut" \in rst
    BY <1>0, <2>1 DEF SeenInv
  <2>2. CASE thr["entry.rsp"] = "done"
    BY <1>0, <2>0, <2>2 DEF HandsInv, ReadersInv, BufInv, Tunnelling, Server
  <2>3. Spoiled(t) => thr["entry.rsp"] = "done"
    BY <2>0 DEF Spoiled, Writer, Reader, Server
  <2> QED BY <1>0, <2>0, <2>1, <2>2, <2>3
<1>3. CASE t = Near(c) /\ c = "rsp"
  <2>0. t = "decrypt.rsp" /\ To(t) = "decryptIn"
    BY <1>3 DEF Near, To
  <2>1. CASE "decryptIn" \in rst
    BY <1>0, <1>u, <2>0, <2>1 DEF HandsInv, SeenInv
  <2>2. CASE thr["decrypt.req"] = "done"
    BY <1>0, <1>u, <2>2 DEF ReadersInv
  <2>3. Spoiled(t) => thr["decrypt.req"] = "done"
    BY <2>0 DEF Spoiled, Writer, Reader, Server
  <2> QED BY <1>0, <2>0, <2>1, <2>2, <2>3
<1> QED BY <1>1, <1>2, <1>3 DEF Dir

\* So a write that fails takes nothing that could still have arrived.
LEMMA FlowWriteFails ==
    ASSUME IInv, Static, ~raced, OpenedFirst, NEW c \in Dir, FlowInv(c), NEW t \in Thread,
           WriteFails(t)
    PROVE  FlowInv(c)'
<1>0. /\ UNCHANGED <<hand, open, q, rst, proc, sent, got>>
      /\ buf' = [buf EXCEPT ![t] = <<>>] /\ buf \in [Thread -> Seq(Unit)]
  BY DEF WriteFails, Static, TypeOK, history
<1>1. CASE t \notin {Near(c), Far(c)}
  <2>1. Kept(c)
    BY <1>0, <1>1, Ways DEF Kept
  <2> QED BY <1>0, <2>1, FlowOther
<1>2. CASE t \in {Near(c), Far(c)}
  <2>1. LastHop(c) \in rst \/ hand["decrypt"] = "failed"
    BY <1>2, LostOnlyThen DEF WriteFails
  <2>2. got'[c] = got[c] /\ sent'[c] = sent[c] /\ IsPrefix(got'[c] \o q'[LastHop(c)], sent[c])
    BY <1>0, Zenon DEF FlowInv
  <2> QED BY <1>0, <2>1, <2>2, FlowKept
<1> QED BY <1>1, <1>2

\* The end of the process cuts what is on its way to a program.
LEMMA FlowProcessEnds ==
    ASSUME Static, NEW c \in Dir, FlowInv(c), NEW cause \in {"sigpipe", "crashed", "stopped"},
           ProcessEnds(cause)
    PROVE  FlowInv(c)'
<1>0. /\ UNCHANGED <<hand, rst, sent, got>> /\ open' = open \ Socket /\ proc' # "up" /\ TypeOK
  BY DEF ProcessEnds, Static, history
<1>1. q'[LastHop(c)] \in Seq(Unit) /\ IsPrefix(q'[LastHop(c)], q[LastHop(c)])
  BY <1>0, EndCuts, Ways
<1>2. IsPrefix(got[c] \o q'[LastHop(c)], sent[c])
  <2>1. got[c] \in Seq(Unit) /\ q[LastHop(c)] \in Seq(Unit) /\ sent[c] \in Seq(Unit)
    BY <1>0, WayTypes
  <2>2. IsPrefix(got[c] \o q'[LastHop(c)], got[c] \o q[LastHop(c)])
    BY <1>1, <2>1, PrefixUnderConcat
  <2>3. got[c] \o q'[LastHop(c)] \in Seq(Unit) /\ got[c] \o q[LastHop(c)] \in Seq(Unit)
    BY <1>1, <2>1, ConcatLength
  <2>4. IsPrefix(got[c] \o q[LastHop(c)], sent[c])
    BY DEF FlowInv
  <2> QED BY <2>1, <2>2, <2>3, <2>4, PrefixTransitive
<1>3. got'[c] = got[c] /\ sent'[c] = sent[c] /\ IsPrefix(got'[c] \o q'[LastHop(c)], sent[c])
  BY <1>0, <1>2
<1> QED BY <1>0, <1>3, FlowKept

\* A program sends.  Its connection was not reset: a connection is only after
\* the program has closed.
LEMMA FlowSend ==
    ASSUME Static, \A d \in Dir : FlowInv(d), NEW c \in Dir, NEW d \in Dir, Send(d)
    PROVE  FlowInv(c)'
<1>0. /\ UNCHANGED <<hand, open, buf, rst, proc, got>> /\ TypeOK /\ Source(d) \in open
      /\ q \in [Endpoint -> Seq(Unit)] /\ sent \in [Dir -> Seq(Unit)]
  BY DEF Send, UnchangedByProgram, Static, TypeOK
<1>1. PICK u \in Unit : /\ q' = [q EXCEPT ![Source(d)] = Append(@, u)]
                        /\ sent' = [sent EXCEPT ![d] = Append(@, u)]
  BY DEF Send
<1>2. CASE c # d
  <2>1. Source(d) \notin {LastHop(c), Mid(c), Source(c)}
    BY <1>2, Ways
  <2>2. Kept(c)
    BY <1>0, <1>1, <1>2, <2>1, Ways DEF Kept
  <2> QED BY <1>0, <2>2, FlowOther
<1>3. CASE c = d
  <2>1. /\ q'[LastHop(c)] = q[LastHop(c)] /\ buf'[Far(c)] = buf[Far(c)]
        /\ q'[Mid(c)] = q[Mid(c)] /\ buf'[Near(c)] = buf[Near(c)]
        /\ q'[Source(c)] = Append(q[Source(c)], u) /\ sent'[c] = Append(sent[c], u)
        /\ got'[c] = got[c]
    BY <1>0, <1>1, <1>3, Ways, ZenonT(40)
  <2>2. /\ got[c] \in Seq(Unit) /\ q[LastHop(c)] \in Seq(Unit) /\ sent[c] \in Seq(Unit)
        /\ q[Source(c)] \in Seq(Unit) /\ Path(c) \in Seq(Unit)
    BY <1>0, WayTypes
  <2>3. IsPrefix(got'[c] \o q'[LastHop(c)], sent'[c])
    <3>1. got[c] \o q[LastHop(c)] \in Seq(Unit) /\ IsPrefix(got[c] \o q[LastHop(c)], sent[c])
      BY <2>2, ConcatLength DEF FlowInv
    <3>2. IsPrefix(got[c] \o q[LastHop(c)], Append(sent[c], u))
      BY <2>2, <3>1, PrefixOfAppend
    <3> QED BY <2>1, <3>2, Zenon
  <2>4. LastHop(c) \in rst' => Sink(c) \notin open' /\ Len(got'[c]) < Len(sent'[c])
    <3>1. Len(sent'[c]) = Len(sent[c]) + 1 /\ Len(sent[c]) \in Nat /\ Len(got[c]) \in Nat
      BY <2>1, <2>2, AppendProperties, LenProperties
    <3>2. LastHop(c) \in rst => Sink(c) \notin open /\ Len(got[c]) < Len(sent[c])
      BY DEF FlowInv
    <3> QED BY <1>0, <2>1, <3>1, <3>2
  <2>5. ASSUME proc' = "up", LastHop(c) \notin rst', hand'["decrypt"] # "failed"
        PROVE  /\ IsPrefix(got'[c] \o Path(c)', sent'[c])
               /\ FirstHop(c) \notin rst' => sent'[c] = got'[c] \o Path(c)'
    <3>1. FirstHop(c) \notin rst
      <4>1. PICK o \in Dir : o # c
        BY DEF Dir
      <4>2. FirstHop(c) = LastHop(o) /\ Source(c) = Sink(o)
        BY <4>1, Ways
      <4> QED BY <1>0, <1>3, <4>2 DEF FlowInv
    <3>2. sent[c] = got[c] \o Path(c)
      BY <1>0, <2>5, <3>1 DEF FlowInv
    <3>3. PICK v : /\ v \in Seq(Unit) /\ Append(q[Source(c)], u) = q[Source(c)] \o v
                   /\ Append(sent[c], u) = sent[c] \o v
      <4>1. <<u>> \in Seq(Unit) /\ Append(q[Source(c)], u) = q[Source(c)] \o <<u>>
            /\ Append(sent[c], u) = sent[c] \o <<u>>
        BY <2>2, AppendIsConcat, SMTT(40)
      <4> QED BY <4>1, Zenon
    <3>4. Path(c)' = Path(c) \o v
      <4>1. /\ AreSeqs(Unit, got[c], q[LastHop(c)], buf[Far(c)], q[Mid(c)], buf[Near(c)],
                       q[Source(c)])
            /\ Path(c) = Five(q[LastHop(c)], buf[Far(c)], q[Mid(c)], buf[Near(c)], q[Source(c)])
        BY <1>0, WayTypes
      <4>2. Five(q[LastHop(c)], buf[Far(c)], q[Mid(c)], buf[Near(c)], q[Source(c)] \o v)
              = Five(q[LastHop(c)], buf[Far(c)], q[Mid(c)], buf[Near(c)], q[Source(c)]) \o v
        <5>1. v \in Seq(Unit)
          BY <3>3
        <5>2. \A a, b, m, o, e : AreSeqs(Unit, got[c], a, b, m, o, e) =>
                Five(a, b, m, o, e \o v) = Five(a, b, m, o, e) \o v
          BY <5>1, FiveSends
        <5>3. AreSeqs(Unit, got[c], q[LastHop(c)], buf[Far(c)], q[Mid(c)], buf[Near(c)],
                      q[Source(c)])
          BY <4>1
        <5> QED BY <5>2, <5>3
      <4>3. q'[Source(c)] = q[Source(c)] \o v
        BY <2>1, <3>3, Zenon
      <4>4. Path(c)' = Five(q[LastHop(c)], buf[Far(c)], q[Mid(c)], buf[Near(c)],
                            q[Source(c)] \o v)
        BY <2>1, <4>3, WayAfter, Zenon
      <4>5. Path(c) = Five(q[LastHop(c)], buf[Far(c)], q[Mid(c)], buf[Near(c)], q[Source(c)])
        BY <4>1
      <4> QED BY <4>2, <4>4, <4>5, Zenon
    <3>5. (got[c] \o Path(c)) \o v = got[c] \o (Path(c) \o v)
      <4>1. got[c] \in Seq(Unit) /\ Path(c) \in Seq(Unit) /\ v \in Seq(Unit)
        BY <2>2, <3>3
      <4>2. \A x, y, z \in Seq(Unit) : (x \o y) \o z = x \o (y \o z)
        BY ConcatAssociative
      <4> QED BY <4>1, <4>2
    <3>6. sent'[c] = got'[c] \o Path(c)'
      BY <2>1, <3>2, <3>3, <3>4, <3>5, Zenon
    <3>7. sent'[c] \in Seq(Unit)
      BY <2>1, <2>2, AppendProperties
    <3> QED BY <3>6, <3>7, PrefixReflexive
  <2> QED BY <2>3, <2>4, <2>5, Zenon DEF FlowInv
<1> QED BY <1>2, <1>3

\* A program receives what has arrived.
LEMMA FlowReceive ==
    ASSUME Static, NEW c \in Dir, FlowInv(c), NEW d \in Dir, Receive(d)
    PROVE  FlowInv(c)'
<1> DEFINE x == LastHop(d)
<1>0. /\ UNCHANGED <<hand, open, buf, rst, proc, sent>> /\ TypeOK /\ Sink(d) \in open
      /\ q[x] # <<>> /\ q' = [q EXCEPT ![x] = Tail(q[x])]
      /\ got' = [got EXCEPT ![d] = Append(@, Head(q[x]))]
      /\ q \in [Endpoint -> Seq(Unit)] /\ got \in [Dir -> Seq(Unit)]
  BY DEF Receive, UnchangedByProgram, Static, TypeOK, LastHop
<1> HIDE DEF x
<1>1. CASE c # d
  <2>1. x \notin {LastHop(c), Mid(c), Source(c)}
    BY <1>1, Ways DEF x
  <2>2. Kept(c)
    BY <1>0, <1>1, <2>1, Ways DEF Kept
  <2> QED BY <1>0, <2>2, FlowOther
<1>2. CASE c = d
  <2>1. /\ q'[LastHop(c)] = Tail(q[LastHop(c)]) /\ buf'[Far(c)] = buf[Far(c)]
        /\ q'[Mid(c)] = q[Mid(c)] /\ buf'[Near(c)] = buf[Near(c)]
        /\ q'[Source(c)] = q[Source(c)] /\ sent'[c] = sent[c]
        /\ got'[c] = Append(got[c], Head(q[LastHop(c)])) /\ q[LastHop(c)] # <<>>
    BY <1>0, <1>2, Ways, ZenonT(40) DEF x
  <2>2. IsPrefix(got'[c] \o q'[LastHop(c)], sent[c])
    <3>1. got[c] \in Seq(Unit) /\ q[LastHop(c)] \in Seq(Unit)
      BY <1>0, WayTypes
    <3>2. Append(got[c], Head(q[LastHop(c)])) \o Tail(q[LastHop(c)]) = got[c] \o q[LastHop(c)]
      BY <2>1, <3>1, MoveHead
    <3>3. got'[c] \o q'[LastHop(c)] = got[c] \o q[LastHop(c)]
      BY <2>1, <3>2, Zenon
    <3> QED BY <3>3, Zenon DEF FlowInv
  <2>3. got'[c] \o Path(c)' = got[c] \o Path(c)
    <3>1. /\ AreSeqs(Unit, got[c], q[LastHop(c)], buf[Far(c)], q[Mid(c)], buf[Near(c)],
                     q[Source(c)])
          /\ q[LastHop(c)] # <<>>
      BY <1>0, <2>1, WayTypes
    <3>2. Append(got[c], Head(q[LastHop(c)]))
            \o Five(Tail(q[LastHop(c)]), buf[Far(c)], q[Mid(c)], buf[Near(c)], q[Source(c)])
          = got[c] \o Five(q[LastHop(c)], buf[Far(c)], q[Mid(c)], buf[Near(c)], q[Source(c)])
      <4>1. FiveGot(got[c], q[LastHop(c)], buf[Far(c)], q[Mid(c)], buf[Near(c)], q[Source(c)])
        BY <3>1, FiveGets
      <4> QED BY <4>1, Zenon DEF FiveGot
    <3>3. Path(c) = Five(q[LastHop(c)], buf[Far(c)], q[Mid(c)], buf[Near(c)], q[Source(c)])
      BY <1>0, WayTypes
    <3>4. Path(c)' = Five(Tail(q[LastHop(c)]), buf[Far(c)], q[Mid(c)], buf[Near(c)],
                          q[Source(c)])
      BY <2>1, WayAfter, Zenon
    <3>5. got'[c] \o Path(c)' = Append(got[c], Head(q[LastHop(c)])) \o Path(c)'
      BY <2>1, Zenon
    <3> QED BY <3>2, <3>3, <3>4, <3>5, Zenon
  <2>4. LastHop(c) \notin rst'
    BY <1>0, <1>2 DEF FlowInv
  <2> QED BY <1>0, <2>1, <2>2, <2>3, <2>4, FlowKept
<1> QED BY <1>1, <1>2

\* A reset cuts the way at its beginning, ends it at its end, and reaches the
\* TLS connection only when the decrypt server has given up.
LEMMA FlowReset ==
    ASSUME IInv, Static, ~raced, OpenedFirst, NEW c \in Dir, FlowInv(c), NEW x \in Socket,
           Reset(x)
    PROVE  FlowInv(c)'
<1>0. /\ UNCHANGED <<hand, open, buf, proc, sent, got>> /\ TypeOK
      /\ x \in open /\ Other(x) \notin open /\ q[x] # <<>> /\ rst' = rst \cup {x}
      /\ q \in [Endpoint -> Seq(Unit)] /\ x \in Endpoint /\ Other(x) \in Endpoint
      /\ hand \in [Server -> {"none", "connect", "handshake", "relay", "failed", "done"}]
  BY Hops DEF Reset, UnchangedByProgram, Static, TypeOK, history, Endpoint
<1>1. PICK kept \in Prefixes(q[Other(x)]) : q' = [q EXCEPT ![Other(x)] = kept]
  BY DEF Reset
<1>2. kept \in Seq(Unit) /\ IsPrefix(kept, q[Other(x)])
  <2>1. q[Other(x)] \in Seq(Unit)
    BY <1>0
  <2> QED BY <2>1, PrefixesAre
<1>3. CASE x = LastHop(c)
  <2>1. Other(x) = Sink(c) /\ Sink(c) # LastHop(c)
    BY <1>3, Ways, Hops DEF Program, Socket
  <2>2. q'[LastHop(c)] = q[LastHop(c)]
    BY <1>0, <1>1, <2>1, Ways
  <2>3. got[c] \in Seq(Unit) /\ q[LastHop(c)] \in Seq(Unit) /\ sent[c] \in Seq(Unit)
    BY <1>0, WayTypes
  <2>4. IsPrefix(got[c] \o q[LastHop(c)], sent[c])
    BY DEF FlowInv
  <2>5. Len(got[c]) < Len(sent[c])
    <3>1. /\ Len(got[c] \o q[LastHop(c)]) = Len(got[c]) + Len(q[LastHop(c)])
          /\ Len(got[c] \o q[LastHop(c)]) <= Len(sent[c])
      BY <2>3, <2>4, ConcatLength DEF IsPrefix
    <3>2. Len(got[c]) \in Nat /\ Len(q[LastHop(c)]) \in Nat /\ Len(q[LastHop(c)]) # 0
          /\ Len(sent[c]) \in Nat
      BY <1>0, <1>3, <2>3, LenProperties, EmptySeq
    <3>3. \A a, b, s \in Nat : b # 0 /\ a + b <= s => a < s
      OBVIOUS
    <3> QED BY <3>1, <3>2, <3>3, Zenon
  <2>6. LastHop(c) \in rst' /\ Sink(c) \notin open'
    BY <1>0, <1>3, <2>1
  <2>7. sent'[c] = sent[c] /\ got'[c] = got[c] /\ IsPrefix(got'[c] \o q'[LastHop(c)], sent'[c])
    BY <1>0, <2>2, <2>4
  <2> QED BY <2>5, <2>6, <2>7 DEF FlowInv
<1>4. CASE x = FirstHop(c)
  <2>1. Other(x) = Source(c) /\ x # LastHop(c) /\ x \in rst'
    BY <1>0, <1>4, Ways, Hops DEF Dir
  <2>2. /\ q'[LastHop(c)] = q[LastHop(c)] /\ buf'[Far(c)] = buf[Far(c)]
        /\ q'[Mid(c)] = q[Mid(c)] /\ buf'[Near(c)] = buf[Near(c)]
        /\ q'[Source(c)] = kept /\ sent'[c] = sent[c] /\ got'[c] = got[c]
        /\ LastHop(c) \in rst' => LastHop(c) \in rst
    BY <1>0, <1>1, <2>1, Ways
  <2>3. IsPrefix(got'[c] \o q'[LastHop(c)], sent'[c])
    BY <2>2, Zenon DEF FlowInv
  <2>4. LastHop(c) \in rst' => Sink(c) \notin open' /\ Len(got'[c]) < Len(sent'[c])
    BY <1>0, <2>2 DEF FlowInv
  <2>5. ASSUME proc' = "up", LastHop(c) \notin rst', hand'["decrypt"] # "failed"
        PROVE  IsPrefix(got'[c] \o Path(c)', sent'[c])
    <3>1. IsPrefix(got[c] \o Path(c), sent[c])
      BY <1>0, <2>5 DEF FlowInv
    <3>2. IsPrefix(got[c] \o Path(c)', got[c] \o Path(c)) /\ Path(c)' \in Seq(Unit)
      <4>1. AreSeqs(Unit, got[c], q[LastHop(c)], buf[Far(c)], q[Mid(c)], buf[Near(c)],
                    q[Source(c)])
        BY <1>0, WayTypes
      <4>2. AreSeqs(Unit, got[c], q[LastHop(c)], buf[Far(c)], q[Mid(c)], buf[Near(c)], kept)
        BY <1>2, <4>1 DEF AreSeqs
      <4>3. kept \in Seq(Unit) /\ IsPrefix(kept, q[Source(c)])
        BY <1>2, <2>1
      <4>4. IsPrefix(got[c] \o Five(q[LastHop(c)], buf[Far(c)], q[Mid(c)], buf[Near(c)], kept),
                     got[c] \o Five(q[LastHop(c)], buf[Far(c)], q[Mid(c)], buf[Near(c)],
                                    q[Source(c)]))
        BY <4>1, <4>3, FiveCut
      <4>5. Path(c) = Five(q[LastHop(c)], buf[Far(c)], q[Mid(c)], buf[Near(c)], q[Source(c)])
        BY <1>0, WayTypes
      <4>6. Path(c)' = Five(q[LastHop(c)], buf[Far(c)], q[Mid(c)], buf[Near(c)], kept)
        BY <2>2, WayAfter, Zenon
      <4>7. Five(q[LastHop(c)], buf[Far(c)], q[Mid(c)], buf[Near(c)], kept) \in Seq(Unit)
        BY <4>2, FiveType
      <4> QED BY <4>4, <4>5, <4>6, <4>7, Zenon
    <3>3. /\ got[c] \o Path(c)' \in Seq(Unit) /\ got[c] \o Path(c) \in Seq(Unit)
          /\ sent[c] \in Seq(Unit)
      <4>1. got[c] \in Seq(Unit) /\ Path(c) \in Seq(Unit) /\ sent[c] \in Seq(Unit)
        BY <1>0, WayTypes
      <4> QED BY <3>2, <4>1, ConcatLength
    <3>4. IsPrefix(got[c] \o Path(c)', sent[c])
      BY <3>1, <3>2, <3>3, PrefixTransitive
    <3> QED BY <2>2, <3>4, Zenon
  <2>6. FirstHop(c) \in rst'
    BY <1>4, <2>1
  <2> QED BY <2>3, <2>4, <2>5, <2>6, Zenon DEF FlowInv
<1>5. CASE x \in {"entryOut", "decryptIn"}
  <2>0. x \notin {LastHop(c), FirstHop(c)} /\ Other(x) \in {"entryOut", "decryptIn"}
    BY <1>5, Hops DEF Dir, Other
  <2>1. proc = "up" => hand["decrypt"] = "failed"
    <3> SUFFICES ASSUME proc = "up" PROVE hand["decrypt"] = "failed"
      OBVIOUS
    <3>0. HandsInv /\ OpenInv
      BY DEF IInv
    <3>1. CASE x = "entryOut"
      BY <1>0, <3>0, <3>1 DEF HandsInv, OpenInv, Tunnelling, Other
    <3>2. CASE x = "decryptIn"
      <4>1. hand["decrypt"] = "relay"
        BY <1>0, <3>2 DEF OpenedFirst, Unopened
      <4>2. hand["entry"] = "relay"
        BY <3>0, <4>1 DEF HandsInv
      <4> QED BY <1>0, <3>0, <3>2, <4>2 DEF OpenInv, Other
    <3> QED BY <1>5, <3>1, <3>2
  <2>2. LastHop(c) # Other(x)
    BY <2>0, Hops DEF Dir
  <2>3. q'[LastHop(c)] = q[LastHop(c)]
    BY <1>0, <1>1, <2>2, Ways
  <2>4. /\ sent'[c] = sent[c] /\ got'[c] = got[c] /\ rst \subseteq rst'
        /\ LastHop(c) \in rst' => LastHop(c) \in rst
    BY <1>0, <2>0
  <2>5. IsPrefix(got'[c] \o q'[LastHop(c)], sent[c])
    BY <2>3, <2>4, Zenon DEF FlowInv
  <2> QED BY <1>0, <2>1, <2>4, <2>5, FlowKept
<1>6. x \in {LastHop(c), FirstHop(c), "entryOut", "decryptIn"}
  BY Hops DEF Dir, Socket
<1> QED BY <1>3, <1>4, <1>5, <1>6

\* No step loses anything on the way of a direction but through a reset at one
\* of its ends, or when the decrypt server gives up.
LEMMA FlowStep ==
    ASSUME IInv, Static, ~raced, OpenedFirst, \A d \in Dir : FlowInv(d), Next, ~raced',
           NEW c \in Dir
    PROVE  FlowInv(c)'
<1>f. FlowInv(c)
  OBVIOUS
<1>1. ASSUME NEW s \in Server, Handle(s) PROVE FlowInv(c)'
  BY <1>1, <1>f, FlowHandler
<1>2. ASSUME NEW t \in Thread, Read(t) \/ Write(t) \/ WriteFails(t) PROVE FlowInv(c)'
  BY <1>2, <1>f, FlowRead, FlowWrite, FlowWriteFails
<1>3. ASSUME UNCHANGED <<hand, buf, q, rst, proc, sent, got>>, open' \subseteq open
      PROVE  FlowInv(c)'
  <2>1. Kept(c)
    BY <1>3, Zenon DEF Kept
  <2> QED BY <1>f, <1>3, <2>1, FlowOther
<1>4. ASSUME NEW t \in Thread, ReadEnds(t) PROVE FlowInv(c)'
  BY <1>3, <1>4 DEF ReadEnds, history
<1>5. CASE Stop \/ \E t \in Thread : WriteKills(t)
  BY <1>5, <1>f, FlowProcessEnds DEF Stop, WriteKills
<1>6. ASSUME NEW d \in Dir, Send(d) \/ Receive(d) PROVE FlowInv(c)'
  BY <1>6, <1>f, FlowSend, FlowReceive
<1>7. CASE \/ \E d \in Dir : ReceiveEnd(d)
           \/ \E p \in Program : Close(p)
  BY <1>3, <1>7 DEF ReceiveEnd, Close, UnchangedByProgram, history
<1>8. ASSUME NEW x \in Socket, Reset(x) PROVE FlowInv(c)'
  BY <1>8, <1>f, FlowReset
<1>9. ASSUME NEW s \in Server, SslRace(s) PROVE FALSE
  BY <1>9 DEF SslRace
<1> QED
  BY <1>1, <1>2, <1>4, <1>5, <1>6, <1>7, <1>8, <1>9 DEF Next, Copy

\* The same of what has to wait for BIST.
LEMMA OpenedStep ==
    ASSUME IInv, Static, ~raced, OpenedFirst, Next, ~raced'
    PROVE  OpenedFirst'
<1> SUFFICES ASSUME hand'["decrypt"] # "relay" PROVE Unopened'
  BY DEF OpenedFirst
<1>1. ASSUME NEW s \in Server, Handle(s) PROVE Unopened'
  BY <1>1, UnopenedHandler
<1>2. CASE hand' = hand
  <2>1. Unopened
    BY <1>2 DEF OpenedFirst
  <2>2. ASSUME NEW t \in Thread, Copy(t) PROVE Unopened'
    BY <2>1, <2>2, UnopenedCopy
  <2>3. ASSUME NEW s \in Server, SslRace(s) PROVE FALSE
    BY <2>3 DEF SslRace
  <2> QED BY <1>1, <2>1, <2>2, <2>3, UnopenedStop, UnopenedProgram DEF Next
<1>3. hand' = hand \/ \E s \in Server : Handle(s)
  BY DEF Next, Copy, Read, ReadEnds, Write, WriteFails, WriteKills, ProcessEnds, SslRace, Stop,
         Send, Receive, ReceiveEnd, Close, Reset, UnchangedByProgram
<1> QED BY <1>1, <1>2, <1>3

\* SIGPIPE is raised by a write to a connection that was reset.
SigPiped == proc = "sigpipe" => hand["decrypt"] = "failed" \/ \E d \in Dir : LastHop(d) \in rst

\* And every other step leaves it so.
LEMMA SigPipedStep ==
    ASSUME IInv, Static, ~raced, OpenedFirst, SigPiped, Next, ~raced'
    PROVE  SigPiped'
<1>1. ASSUME NEW t \in Thread, WriteKills(t) PROVE SigPiped'
  <2>1. PICK d \in Dir : t \in {Near(d), Far(d)}
    BY Ways
  <2>2. LastHop(d) \in rst \/ hand["decrypt"] = "failed"
    BY <1>1, <2>1, LostOnlyThen DEF WriteKills
  <2>3. UNCHANGED <<hand, rst>>
    BY <1>1 DEF WriteKills, ProcessEnds
  <2> QED BY <2>2, <2>3 DEF SigPiped
<1>2. ASSUME UNCHANGED <<hand, proc>>, rst \subseteq rst' PROVE SigPiped'
  BY <1>2 DEF SigPiped
<1>3. ASSUME proc' # "sigpipe" PROVE SigPiped'
  BY <1>3 DEF SigPiped
<1>4. ASSUME NEW s \in Server, Handle(s) PROVE proc' # "sigpipe"
  BY <1>4 DEF Handle, EntryConnects, EntryRefused, EntryHandshakes, EntryHandshakeFails,
     DecryptHandshakes, DecryptHandshakeFails, DecryptConnects, DecryptRefused, Join,
     UnchangedByHandler
<1>5. ASSUME NEW t \in Thread, Read(t) \/ ReadEnds(t) \/ Write(t) \/ WriteFails(t)
      PROVE  SigPiped'
  BY <1>2, <1>5 DEF Read, ReadEnds, Write, WriteFails
<1>6. CASE \/ \E d \in Dir : Send(d) \/ Receive(d) \/ ReceiveEnd(d)
           \/ \E p \in Program : Close(p)
           \/ \E x \in Socket : Reset(x)
  BY <1>2, <1>6 DEF Send, Receive, ReceiveEnd, Close, Reset, UnchangedByProgram
<1>7. CASE Stop
  BY <1>3, <1>7 DEF Stop, ProcessEnds
<1>8. ASSUME NEW s \in Server, SslRace(s) PROVE FALSE
  BY <1>8 DEF SslRace
<1> QED BY <1>1, <1>3, <1>4, <1>5, <1>6, <1>7, <1>8 DEF Next, Copy

-----------------------------------------------------------------------------
(***************************************************************************)
(* The tunnel starts with the invariant, and every step keeps it.          *)
(***************************************************************************)
LEMMA DataInvParts ==
    DataInv <=> Static /\ (~raced => OpenedFirst /\ (\A d \in Dir : FlowInv(d)) /\ SigPiped)
BY Zenon DEF DataInv, Static, OpenedFirst, SigPiped

\* The initial states have it: nothing was sent.
LEMMA DataInit == Init => DataInv
<1> SUFFICES ASSUME Init PROVE Static /\ OpenedFirst /\ (\A d \in Dir : FlowInv(d)) /\ SigPiped
  BY DataInvParts
<1>1. Static /\ TypeOK
  BY StaticInit DEF Static
<1>2. OpenedFirst
  BY DEF Init, OpenedFirst, Unopened, Thread, Endpoint, Program, Socket, Dir
<1>3. ASSUME NEW c \in Dir PROVE FlowInv(c)
  <2>1. /\ got[c] = <<>> /\ sent[c] = <<>> /\ q[LastHop(c)] = <<>> /\ buf[Far(c)] = <<>>
        /\ q[Mid(c)] = <<>> /\ buf[Near(c)] = <<>> /\ q[Source(c)] = <<>> /\ rst = {}
    BY Ways DEF Init
  <2>2. <<>> \o <<>> = <<>> /\ <<>> \in Seq(Unit) /\ IsPrefix(<<>>, <<>>)
    BY ConcatEmptySeq, EmptySeq, PrefixReflexive
  <2>3. Path(c) = <<>>
    BY <1>1, <2>1, <2>2, WayTypes, Zenon DEF Five
  <2> QED BY <2>1, <2>2, <2>3, Zenon DEF FlowInv
<1>4. SigPiped
  BY DEF Init, SigPiped
<1> QED BY <1>1, <1>2, <1>3, <1>4

\* The steps keep it: each lemma above shows a part.
LEMMA DataStep == IInv /\ DataInv /\ [Next]_vars => DataInv'
<1> SUFFICES ASSUME IInv, DataInv, [Next]_vars PROVE DataInv'
  OBVIOUS
<1>1. CASE UNCHANGED vars
  <2>1. /\ UNCHANGED <<hand, thr, buf, open, leaked, shut, q>>
        /\ UNCHANGED <<rst, proc, raced, sent, got, eof>>
    BY <1>1 DEF vars
  <2>2. Static'
    BY <1>1, StaticStep, DataInvParts
  <2>3. ASSUME ~raced' PROVE OpenedFirst' /\ SigPiped'
    BY <2>1, <2>3, DataInvParts DEF OpenedFirst, Unopened, SigPiped
  <2>4. ASSUME ~raced', NEW c \in Dir PROVE FlowInv(c)'
    <3>1. Kept(c) /\ FlowInv(c)
      BY <2>1, <2>4, DataInvParts, Zenon DEF Kept
    <3> QED BY <2>1, <3>1, FlowOther
  <2> QED BY <2>2, <2>3, <2>4, Zenon DEF DataInv, Static, OpenedFirst, SigPiped
<1>2. CASE Next
  <2>1. Static'
    BY <1>2, StaticStep, DataInvParts
  <2>2. ASSUME ~raced'
        PROVE  OpenedFirst' /\ (\A d \in Dir : FlowInv(d)') /\ SigPiped'
    <3>1. ~raced
      BY <1>2, <2>2, RacedStays
    <3>2. Static /\ OpenedFirst /\ (\A d \in Dir : FlowInv(d)) /\ SigPiped
      BY <3>1, DataInvParts
    <3>3. OpenedFirst'
      BY <1>2, <2>2, <3>1, <3>2, OpenedStep
    <3>4. SigPiped'
      BY <1>2, <2>2, <3>1, <3>2, SigPipedStep
    <3>5. ASSUME NEW c \in Dir PROVE FlowInv(c)'
      BY <1>2, <2>2, <3>1, <3>2, FlowStep
    <3> QED BY <3>3, <3>4, <3>5
  <2> QED BY <2>1, <2>2, Zenon DEF DataInv, Static, OpenedFirst, SigPiped
<1> QED BY <1>1, <1>2

(***************************************************************************)
(* The invariant of the data on their way holds of the tunnel.             *)
(***************************************************************************)
THEOREM DataInvariance == Spec => []DataInv
<1>1. Init => DataInv
  BY DataInit
<1>2. IInv /\ DataInv /\ [Next]_vars => DataInv'
  BY DataStep
<1> QED BY <1>1, <1>2, Invariance, PTL DEF Spec

(***************************************************************************)
(* Through two servers, three connections and four threads that do not     *)
(* look at what write() returns, an end receives a prefix of what the      *)
(* other sent, and all that is missing is still on its way while nothing   *)
(* was reset: for any units, any capacity of the connections, and whatever *)
(* the programs do.                                                        *)
(***************************************************************************)
THEOREM DataIsKept == Spec => []DataKept
<1>1. DataInv => DataKept
  <2> SUFFICES ASSUME DataInv PROVE TypeOK /\ Ordered /\ Conserved
    BY DEF DataKept
  <2>0. TypeOK /\ (~raced => \A d \in Dir : FlowInv(d))
    BY DEF DataInv
  <2>1. ASSUME ~raced, NEW d \in Dir PROVE IsPrefix(got[d], sent[d])
    <3>1. got[d] \in Seq(Unit) /\ q[LastHop(d)] \in Seq(Unit) /\ sent[d] \in Seq(Unit)
      BY <2>0, WayTypes
    <3>2. IsPrefix(got[d] \o q[LastHop(d)], sent[d])
      BY <2>0, <2>1 DEF FlowInv
    <3>3. IsPrefix(got[d], got[d] \o q[LastHop(d)]) /\ got[d] \o q[LastHop(d)] \in Seq(Unit)
      BY <3>1, ConcatHasPrefix, ConcatLength
    <3> QED BY <3>1, <3>2, <3>3, PrefixTransitive
  <2>2. Conserved
    BY <2>0, Zenon DEF Conserved, FlowInv
  <2> QED BY <2>0, <2>1, <2>2 DEF Ordered
<1> QED BY <1>1, DataInvariance, PTL

(***************************************************************************)
(* A process that SIGPIPE has ended wrote to a program that had closed     *)
(* before it received all that was sent to it, or could not reach BIST.    *)
(***************************************************************************)
THEOREM SigPipeNeedsEarlyClose == Spec => []SigPipeOnlyAfterEarlyClose
<1>1. DataInv => SigPipeOnlyAfterEarlyClose
  <2> SUFFICES ASSUME DataInv, proc = "sigpipe", ~raced, hand["decrypt"] # "failed"
               PROVE  \E d \in Dir : Sink(d) \notin open /\ got[d] # sent[d]
    BY DEF SigPipeOnlyAfterEarlyClose
  <2>1. PICK d \in Dir : LastHop(d) \in rst
    BY DEF DataInv
  <2>2. Sink(d) \notin open /\ Len(got[d]) < Len(sent[d])
    BY <2>1 DEF DataInv, FlowInv
  <2>3. Len(got[d]) \in Nat /\ Len(sent[d]) \in Nat
    BY LenProperties DEF DataInv, TypeOK
  <2>4. got[d] # sent[d]
    BY <2>2, <2>3
  <2> QED BY <2>2, <2>4
<1> QED BY <1>1, DataInvariance, PTL
=============================================================================
