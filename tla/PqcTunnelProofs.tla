-------------------------- MODULE PqcTunnelProofs --------------------------
(***************************************************************************)
(* Proofs about PqcTunnel, for every set of units, every buffer and socket *)
(* size and every bound on what is sent.                                   *)
(***************************************************************************)
EXTENDS PqcTunnelPipe, ByteLemmas

\* The conditions of the steps are plain abbreviations in what follows.
USE DEF Joined, Drained, Room, AfterWrite, Broke, Told

\* simulate_crypto gives back the chunk it was given: it unseals with the key
\* and at the positions it sealed with.
LEMMA CryptoTransparent ==
    ASSUME NEW chunk \in Seq(Unit)
    PROVE  SimulateCrypto(chunk) = chunk
<1> DEFINE n == Len(chunk)
           cipher == Seal(KEY, chunk)
<1>1. n \in Nat /\ chunk \in [1..n -> Unit] /\ DOMAIN chunk = 1..n
  BY LenProperties
<1>2. /\ cipher \in Seq([plain : Unit, key : {KEY}, at : Nat])
      /\ Len(cipher) = n
      /\ \A i \in 1..n : cipher[i] = [plain |-> chunk[i], key |-> KEY, at |-> i]
  BY <1>1 DEF Seal
<1>3. SimulateCrypto(chunk) = Unseal(KEY, cipher)
  BY DEF SimulateCrypto
<1> HIDE DEF cipher, n
<1>4. ASSUME NEW i \in 1..n
      PROVE  /\ cipher[i].key = KEY /\ cipher[i].at = i
             /\ cipher[i].plain = chunk[i]
  BY <1>2
<1>5. Unseal(KEY, cipher) = [i \in 1..n |-> chunk[i]]
  BY <1>2, <1>4 DEF Unseal
<1> QED BY <1>1, <1>3, <1>5

\* A read takes a prefix of what is queued, and the thread then holds it.
LEMMA ReadTakes ==
    ASSUME NEW q \in Seq(Unit), NEW n \in 1 .. Least(Len(q), BufSize)
    PROVE  /\ n \in 0 .. Len(q)
           /\ SimulateCrypto(Take(q, n)) = Take(q, n)
           /\ Take(q, n) \in Seq(Unit) /\ Drop(q, n) \in Seq(Unit)
           /\ Take(q, n) \o Drop(q, n) = q
<1>1. n \in 0 .. Len(q)
  BY LenProperties, TunnelAssumption DEF Least
<1> QED BY <1>1, CutAndJoin, CryptoTransparent DEF Take, Drop

-----------------------------------------------------------------------------
\* Type correctness is inductive by itself.
LEMMA TypeInit == Init => Types
BY TunnelAssumption, EmptySeq DEF Init, Types, Dir, End

\* Every step keeps the types.
LEMMA TypeStep == Types /\ [Next]_vars => Types'
<1> SUFFICES ASSUME Types, [Next]_vars PROVE Types'
  OBVIOUS
<1> USE DEF Types
<1>0. /\ \A d \in Dir : Src(d) \in End /\ Dst(d) \in End
      /\ \A e \in End : Toward(e) \in Dir /\ From(e) \in Dir
  BY DEF Src, Dst, Toward, From, Dir, End
<1>1. CASE Handle
  <2>1. CASE Connect
    BY <2>1 DEF Connect, End
  <2>2. CASE ConnectRefused
    BY <2>2 DEF ConnectRefused, endVars, End
  <2>3. CASE Join
    BY <2>3 DEF Join, endVars
  <2> QED BY <1>1, <2>1, <2>2, <2>3 DEF Handle
<1>2. ASSUME NEW d \in Dir, Read(d) PROVE Types'
  <2>1. PICK n \in 1 .. Least(Len(inq[d]), BufSize) :
          /\ buf' = [buf EXCEPT ![d] = SimulateCrypto(Take(inq[d], n))]
          /\ inq' = [inq EXCEPT ![d] = Drop(inq[d], n)]
    BY <1>2 DEF Read
  <2>2. buf' \in [Dir -> Seq(Unit)] /\ inq' \in [Dir -> Seq(Unit)]
    BY <2>1, ReadTakes
  <2> QED BY <1>2, <2>2 DEF Read, endVars
<1>3. ASSUME NEW d \in Dir, ReadEnds(d) PROVE Types'
  BY <1>3 DEF ReadEnds, endVars
<1>4. ASSUME NEW d \in Dir, Write(d) PROVE Types'
  <2> DEFINE n == Least(Cap - Len(outq[d]), Len(buf[d]))
  <2>1. /\ n \in 0 .. Len(buf[d]) /\ Len(outq[d]) + n <= Cap
        /\ Len(outq[d]) \in Nat
    BY <1>4, LenProperties, TunnelAssumption DEF Write, Least
  <2>2. /\ Take(buf[d], n) \in Seq(Unit) /\ Drop(buf[d], n) \in Seq(Unit)
        /\ Len(Take(buf[d], n)) = n
    BY <2>1, CutAndJoin DEF Take, Drop
  <2>3. /\ outq' = [outq EXCEPT ![d] = outq[d] \o Take(buf[d], n)]
        /\ buf' = [buf EXCEPT ![d] = Drop(buf[d], n)]
        /\ thr' \in [Dir -> {"idle", "read", "write", "copy", "done"}]
    BY <1>4 DEF Write
  <2> HIDE DEF n
  <2>4. /\ outq[d] \o Take(buf[d], n) \in Seq(Unit)
        /\ Len(outq[d] \o Take(buf[d], n)) <= Cap
    <3>1. outq[d] \in Seq(Unit)
      OBVIOUS
    <3> QED BY <2>1, <2>2, <3>1, ConcatLength
  <2>5. outq' \in [Dir -> Seq(Unit)] /\ buf' \in [Dir -> Seq(Unit)]
    BY <2>2, <2>3, <2>4
  <2>6. ASSUME NEW c \in Dir PROVE Len(outq'[c]) <= Cap
    <3>1. CASE c = d
      BY <2>3, <2>4, <3>1
    <3>2. CASE c # d
      BY <2>3, <3>2
    <3> QED BY <3>1, <3>2
  <2> QED BY <1>4, <2>3, <2>5, <2>6 DEF Write, endVars
<1>5. ASSUME NEW d \in Dir, WriteFails(d) PROVE Types'
  BY <1>5, EmptySeq DEF WriteFails, endVars
<1>6. ASSUME NEW cause \in {"sigpipe", "stopped"}, ProcessEnds(cause) PROVE Types'
  <2>1. PICK n \in [Dir -> 0..Cap] :
          /\ \A d \in Dir : n[d] <= Len(outq[d])
          /\ outq' = [d \in Dir |-> Take(outq[d], n[d])]
    BY <1>6 DEF ProcessEnds
  <2>2. ASSUME NEW d \in Dir
        PROVE  Take(outq[d], n[d]) \in Seq(Unit) /\ Len(Take(outq[d], n[d])) <= Cap
    <3>1. n[d] \in 0 .. Len(outq[d]) /\ n[d] <= Cap
      BY <2>1, LenProperties, TunnelAssumption
    <3> QED BY <3>1, CutAndJoin DEF Take
  <2>3. outq' \in [Dir -> Seq(Unit)] /\ \A d \in Dir : Len(outq'[d]) <= Cap
    BY <2>1, <2>2
  <2> QED BY <1>6, <2>3 DEF ProcessEnds, endVars
<1>7. ASSUME NEW e \in End, Send(e) PROVE Types'
  <2>1. PICK u \in Unit :
          /\ inq'  = [inq EXCEPT ![From(e)] = Append(@, u)]
          /\ sent' = [sent EXCEPT ![From(e)] = Append(@, u)]
    BY <1>7 DEF Send
  <2>2. inq' \in [Dir -> Seq(Unit)] /\ sent' \in [Dir -> Seq(Unit)]
    BY <1>0, <2>1, AppendProperties
  <2> QED BY <1>7, <2>2 DEF Send
<1>8. ASSUME NEW e \in End, Receive(e) PROVE Types'
  <2>1. outq[Toward(e)] \in Seq(Unit) /\ outq[Toward(e)] # <<>>
    BY <1>0, <1>8 DEF Receive
  <2>2. /\ Head(outq[Toward(e)]) \in Unit /\ Tail(outq[Toward(e)]) \in Seq(Unit)
        /\ Len(Tail(outq[Toward(e)])) <= Cap
    BY <1>0, <2>1, HeadTailProperties, LenProperties, TunnelAssumption
  <2>3. got' \in [Dir -> Seq(Unit)] /\ outq' \in [Dir -> Seq(Unit)]
    BY <1>0, <1>8, <2>2, AppendProperties DEF Receive
  <2>4. \A d \in Dir : Len(outq'[d]) <= Cap
    BY <1>0, <1>8, <2>2 DEF Receive
  <2> QED BY <1>8, <2>3, <2>4 DEF Receive
<1>9. ASSUME NEW e \in End, ReceiveEnd(e) PROVE Types'
  BY <1>0, <1>9 DEF ReceiveEnd, tunnelVars
<1>10. ASSUME NEW e \in End, Close(e) PROVE Types'
  BY <1>10 DEF Close, tunnelVars
<1>11. ASSUME NEW e \in End, Reset(e) PROVE Types'
  <2>1. PICK n \in 0 .. Len(inq[From(e)]) :
          inq' = [inq EXCEPT ![From(e)] = Take(@, n)]
    BY <1>11 DEF Reset
  <2>2. inq' \in [Dir -> Seq(Unit)]
    BY <1>0, <2>1, CutAndJoin DEF Take
  <2> QED BY <1>11, <2>2 DEF Reset, endVars
<1>12. CASE UNCHANGED vars
  BY <1>12 DEF vars, tunnelVars, endVars
<1> QED
  BY <1>1, <1>2, <1>3, <1>4, <1>5, <1>6, <1>7, <1>8, <1>9, <1>10, <1>11, <1>12
     DEF Next, Forward, Program, WriteKills, Stop
-----------------------------------------------------------------------------
\* How the ends and the directions name each other.
LEMMA EndsAndDirections ==
    /\ \A d \in Dir : /\ Src(d) \in End /\ Dst(d) \in End /\ Src(d) # Dst(d)
                      /\ From(Src(d)) = d /\ Toward(Dst(d)) = d
    /\ \A e \in End : /\ Toward(e) \in Dir /\ From(e) \in Dir
                      /\ Toward(e) # From(e)
                      /\ Src(From(e)) = e /\ Dst(Toward(e)) = e
                      /\ Dst(From(e)) # e /\ Src(Toward(e)) # e
BY DEF Dir, End, Src, Dst, From, Toward

\* What a type-correct state says of one direction.
LEMMA DirTypes ==
    ASSUME Types, NEW d \in Dir
    PROVE  /\ sent[d] \in Seq(Unit) /\ got[d] \in Seq(Unit)
           /\ outq[d] \in Seq(Unit) /\ buf[d] \in Seq(Unit) /\ inq[d] \in Seq(Unit)
           /\ Written(d) \in Seq(Unit) /\ Unwritten(d) \in Seq(Unit)
           /\ Written(d) \o Unwritten(d) \in Seq(Unit)
<1>1. /\ sent[d] \in Seq(Unit) /\ got[d] \in Seq(Unit)
      /\ outq[d] \in Seq(Unit) /\ buf[d] \in Seq(Unit) /\ inq[d] \in Seq(Unit)
  BY DEF Types
<1>2. Written(d) \in Seq(Unit) /\ Unwritten(d) \in Seq(Unit)
  BY <1>1, ConcatLength DEF Written, Unwritten
<1> QED BY <1>1, <1>2, ConcatLength

\* A sink with something to read has not received all that was sent.
LEMMA UnreadIsMissing ==
    ASSUME Types, NEW d \in Dir, Flow(d), outq[d] # <<>>
    PROVE  Len(got[d]) < Len(sent[d])
<1>1. Len(got[d]) + Len(outq[d]) = Len(Written(d))
  BY DirTypes, ConcatLength DEF Written
<1>2. Len(Written(d)) <= Len(sent[d]) /\ Len(Written(d)) \in Nat
  BY DirTypes, LenProperties DEF Flow, IsPrefix
<1>3. /\ Len(outq[d]) \in Nat \ {0}
      /\ Len(got[d]) \in Nat /\ Len(sent[d]) \in Nat
  BY DirTypes, EmptySeq, LenProperties
<1>4. \A a, b, w, n \in Nat : a + b = w /\ w <= n /\ b # 0 => a < n
  OBVIOUS
<1> QED BY <1>1, <1>2, <1>3, <1>4, Zenon

\* The initial states satisfy the inductive invariant.
LEMMA InvInit == Init => IInv
<1> SUFFICES ASSUME Init PROVE IInv
  OBVIOUS
<1>1. Types
  BY TypeInit
<1>2. Control
  BY DEF Init, Control, HandlerInv, ThreadInv, ResetInv, Dir, End, Src, Dst
<1>3. ASSUME NEW d \in Dir PROVE Flow(d)
  <2>1. sent[d] = <<>> /\ Written(d) = <<>> /\ Unwritten(d) = <<>>
    BY ConcatEmptySeq, EmptySeq DEF Init, Written, Unwritten
  <2>2. Written(d) \o Unwritten(d) = <<>>
    BY <2>1, ConcatEmptySeq, EmptySeq
  <2> QED BY <2>1, <2>2, PrefixReflexive, EmptySeq DEF Flow
<1> QED BY <1>1, <1>2, <1>3 DEF IInv, Init

-----------------------------------------------------------------------------
\* The control part of the invariant is kept by every step.
LEMMA ControlStep == IInv /\ [Next]_vars => Control'
<1> SUFFICES ASSUME IInv, [Next]_vars PROVE Control'
  OBVIOUS
<1> USE EndsAndDirections
<1>0. Types /\ Control /\ \A d \in Dir : Flow(d)
  BY DEF IInv
<1>1. CASE Connect
  <2>1. HandlerInv'
    BY <1>0, <1>1 DEF Connect, End, Control, HandlerInv, ThreadInv, Types
  <2>2. ASSUME NEW c \in Dir PROVE ThreadInv(c)'
    BY <1>0, <1>1 DEF Connect, End, Control, HandlerInv, ThreadInv, ResetInv, Types
  <2>3. ASSUME NEW c \in Dir PROVE ResetInv(c)'
    BY <1>0, <1>1 DEF Connect, End, Control, HandlerInv, ResetInv, Types
  <2> QED BY <2>1, <2>2, <2>3 DEF Control
<1>2. CASE ConnectRefused
  <2>1. HandlerInv'
    BY <1>0, <1>2 DEF ConnectRefused, endVars, Control, HandlerInv, ThreadInv, Types
  <2>2. ASSUME NEW c \in Dir PROVE ThreadInv(c)'
    BY <1>0, <1>2 DEF ConnectRefused, endVars, Control, HandlerInv, ThreadInv, ResetInv, Types
  <2>3. ASSUME NEW c \in Dir PROVE ResetInv(c)'
    BY <1>0, <1>2 DEF ConnectRefused, endVars, Control, HandlerInv, ResetInv, Types
  <2> QED BY <2>1, <2>2, <2>3 DEF Control
<1>3. CASE Join
  <2>1. HandlerInv'
    BY <1>0, <1>3 DEF Join, endVars, Control, HandlerInv, ThreadInv, Types
  <2>2. ASSUME NEW c \in Dir PROVE ThreadInv(c)'
    BY <1>0, <1>3 DEF Join, endVars, Control, HandlerInv, ThreadInv, ResetInv, Types
  <2>3. ASSUME NEW c \in Dir PROVE ResetInv(c)'
    BY <1>0, <1>3 DEF Join, endVars, Control, HandlerInv, ResetInv, Types
  <2> QED BY <2>1, <2>2, <2>3 DEF Control
<1>4. ASSUME NEW d \in Dir, Read(d) PROVE Control'
  <2>1. HandlerInv'
    BY <1>0, <1>4 DEF Read, endVars, Control, HandlerInv, ThreadInv, Types
  <2>2. ASSUME NEW c \in Dir PROVE ThreadInv(c)'
    <3>1. ThreadInv(c) /\ Src(c) \in End
      BY <1>0 DEF Control
    <3>2. CASE c = d
      BY <1>0, <1>4, <3>1, <3>2 DEF Read, endVars, ThreadInv, Types
    <3>3. CASE c # d
      <4>1. /\ thr'[c] = thr[c] /\ buf'[c] = buf[c] /\ inq'[c] = inq[c]
            /\ outq'[c] = outq[c] /\ eof' = eof /\ rst' = rst /\ peer' = peer
            /\ hand' = hand /\ proc' = proc
        BY <1>0, <1>4, <3>3 DEF Read, endVars, Types
      <4> QED BY <3>1, <4>1 DEF ThreadInv
    <3> QED BY <3>2, <3>3
  <2>3. ASSUME NEW c \in Dir PROVE ResetInv(c)'
    BY <1>0, <1>4 DEF Read, endVars, Control, HandlerInv, ResetInv, Types
  <2> QED BY <2>1, <2>2, <2>3 DEF Control
<1>5. ASSUME NEW d \in Dir, ReadEnds(d) PROVE Control'
  <2>1. HandlerInv'
    BY <1>0, <1>5 DEF ReadEnds, endVars, Control, HandlerInv, ThreadInv, Types
  <2>2. ASSUME NEW c \in Dir PROVE ThreadInv(c)'
    <3>1. ThreadInv(c) /\ Src(c) \in End
      BY <1>0 DEF Control
    <3>2. CASE c = d
      <4>1. rst[Src(c)] => peer[Src(c)] = "closed"
        <5>1. ResetInv(Toward(Src(c))) /\ Dst(Toward(Src(c))) = Src(c)
          BY <1>0, <3>1 DEF Control
        <5> QED BY <5>1 DEF ResetInv
      <4>2. /\ thr[c] = "read" /\ thr'[c] = "done" /\ inq[c] = <<>>
            /\ peer[Src(c)] = "closed" /\ buf' = buf /\ inq' = inq /\ outq' = outq
            /\ hand' = hand /\ proc' = proc /\ peer' = peer /\ eof' = eof
        BY <1>0, <1>5, <3>2, <4>1 DEF ReadEnds, endVars, Types
      <4> QED BY <3>1, <4>2 DEF ThreadInv
    <3>3. CASE c # d
      <4>1. /\ thr'[c] = thr[c] /\ buf'[c] = buf[c] /\ inq'[c] = inq[c]
            /\ outq'[c] = outq[c] /\ eof' = eof /\ rst' = rst /\ peer' = peer
            /\ hand' = hand /\ proc' = proc
        BY <1>0, <1>5, <3>3 DEF ReadEnds, endVars, Types
      <4> QED BY <3>1, <4>1 DEF ThreadInv
    <3> QED BY <3>2, <3>3
  <2>3. ASSUME NEW c \in Dir PROVE ResetInv(c)'
    BY <1>0, <1>5 DEF ReadEnds, endVars, Control, HandlerInv, ResetInv, Types
  <2> QED BY <2>1, <2>2, <2>3 DEF Control
<1>6. ASSUME NEW d \in Dir, Write(d) PROVE Control'
  <2>1. HandlerInv'
    BY <1>0, <1>6 DEF Write, endVars, Control, HandlerInv, ThreadInv, Types
  <2>2. ASSUME NEW c \in Dir PROVE ThreadInv(c)'
    <3>1. ThreadInv(c) /\ Src(c) \in End
      BY <1>0 DEF Control
    <3>2. CASE c = d
      <4>1. PICK n \in Int :
              /\ buf' = [buf EXCEPT ![d] = Drop(@, n)]
              /\ thr' = [thr EXCEPT ![d] = IF n = Len(buf[d]) THEN "read" ELSE "copy"]
        <5>1. Least(Cap - Len(outq[d]), Len(buf[d])) \in Int
          BY <1>0, DirTypes, LenProperties, TunnelAssumption DEF Least
        <5> QED BY <1>6, <5>1 DEF Write
      <4>2. thr'[c] \in {"read", "copy"} /\ (thr'[c] = "read" => buf'[c] = <<>>)
        <5>1. Drop(buf[d], Len(buf[d])) = <<>>
          BY <1>0, DirTypes, LenProperties, SubSeqEmpty DEF Drop
        <5> QED BY <1>0, <3>2, <4>1, <5>1 DEF Types
      <4>3. thr[c] \in {"write", "copy"} /\ hand' = hand /\ eof' = eof /\ proc' = proc
        BY <1>6, <3>2 DEF Write, endVars
      <4> QED BY <3>1, <4>2, <4>3 DEF ThreadInv
    <3>3. CASE c # d
      <4>1. /\ thr'[c] = thr[c] /\ buf'[c] = buf[c] /\ inq'[c] = inq[c]
            /\ outq'[c] = outq[c] /\ eof' = eof /\ rst' = rst /\ peer' = peer
            /\ hand' = hand /\ proc' = proc
        BY <1>0, <1>6, <3>3 DEF Write, endVars, Types
      <4> QED BY <3>1, <4>1 DEF ThreadInv
    <3> QED BY <3>2, <3>3
  <2>3. ASSUME NEW c \in Dir PROVE ResetInv(c)'
    BY <1>0, <1>6 DEF Write, endVars, Control, HandlerInv, ResetInv, Types
  <2> QED BY <2>1, <2>2, <2>3 DEF Control
<1>7. ASSUME NEW d \in Dir, WriteFails(d) PROVE Control'
  <2>1. HandlerInv'
    BY <1>0, <1>7 DEF WriteFails, endVars, Control, HandlerInv, ThreadInv, Types
  <2>2. ASSUME NEW c \in Dir PROVE ThreadInv(c)'
    BY <1>0, <1>7 DEF WriteFails, endVars, Control, HandlerInv, ThreadInv, ResetInv, Types
  <2>3. ASSUME NEW c \in Dir PROVE ResetInv(c)'
    BY <1>0, <1>7 DEF WriteFails, endVars, Control, HandlerInv, ResetInv, Types
  <2> QED BY <2>1, <2>2, <2>3 DEF Control
<1>8. ASSUME NEW cause \in {"sigpipe", "stopped"}, ProcessEnds(cause) PROVE Control'
  <2>1. HandlerInv'
    BY <1>0, <1>8 DEF ProcessEnds, endVars, Control, HandlerInv, ThreadInv, Types
  <2>2. ASSUME NEW c \in Dir PROVE ThreadInv(c)'
    BY <1>0, <1>8 DEF ProcessEnds, endVars, Control, HandlerInv, ThreadInv, ResetInv, Types
  <2>3. ASSUME NEW c \in Dir PROVE ResetInv(c)'
    BY <1>0, <1>8 DEF ProcessEnds, endVars, Control, HandlerInv, ResetInv, Types
  <2> QED BY <2>1, <2>2, <2>3 DEF Control
<1>9. ASSUME NEW e \in End, Send(e) PROVE Control'
  <2>1. HandlerInv'
    BY <1>0, <1>9 DEF Send, Control, HandlerInv, ThreadInv, Types
  <2>2. ASSUME NEW c \in Dir PROVE ThreadInv(c)'
    BY <1>0, <1>9 DEF Send, Control, HandlerInv, ThreadInv, ResetInv, Types
  <2>3. ASSUME NEW c \in Dir PROVE ResetInv(c)'
    BY <1>0, <1>9 DEF Send, Control, HandlerInv, ResetInv, Types
  <2> QED BY <2>1, <2>2, <2>3 DEF Control
<1>10. ASSUME NEW e \in End, Receive(e) PROVE Control'
  <2>1. HandlerInv'
    BY <1>0, <1>10 DEF Receive, Control, HandlerInv, ThreadInv, Types
  <2>2. ASSUME NEW c \in Dir PROVE ThreadInv(c)'
    BY <1>0, <1>10 DEF Receive, Control, HandlerInv, ThreadInv, ResetInv, Types
  <2>3. ASSUME NEW c \in Dir PROVE ResetInv(c)'
    BY <1>0, <1>10 DEF Receive, Control, HandlerInv, ResetInv, Types
  <2> QED BY <2>1, <2>2, <2>3 DEF Control
<1>11. ASSUME NEW e \in End, ReceiveEnd(e) PROVE Control'
  <2>1. HandlerInv'
    BY <1>0, <1>11 DEF ReceiveEnd, tunnelVars, Control, HandlerInv, ThreadInv, Types
  <2>2. ASSUME NEW c \in Dir PROVE ThreadInv(c)'
    <3>1. ThreadInv(c) /\ ResetInv(c)
      BY <1>0 DEF Control
    <3>2. /\ thr' = thr /\ buf' = buf /\ inq' = inq /\ outq' = outq
          /\ rst' = rst /\ peer' = peer /\ hand' = hand /\ proc' = proc
      BY <1>11 DEF ReceiveEnd, tunnelVars
    <3>3. CASE c = Toward(e)
      <4>1. Dst(c) = e /\ peer[e] = "open" /\ outq[c] = <<>>
        BY <1>11, <3>3 DEF ReceiveEnd
      <4>2. ~rst[Dst(c)]
        BY <3>1, <4>1 DEF ResetInv
      <4>3. proc = "up" /\ hand # "refused" => thr[c] = "done"
        <5>1. CASE thr[c] = "done"
          BY <5>1
        <5>2. CASE e \notin fds
          BY <1>0, <1>11, <4>1, <5>2 DEF Control, HandlerInv, Types, End
        <5> QED BY <1>11, <3>3, <5>1, <5>2 DEF ReceiveEnd
      <4> QED BY <3>1, <3>2, <4>1, <4>2, <4>3 DEF ThreadInv
    <3>4. CASE c # Toward(e)
      <4>1. eof'[c] = eof[c]
        BY <1>0, <1>11, <3>4 DEF ReceiveEnd, Types
      <4> QED BY <3>1, <3>2, <4>1 DEF ThreadInv
    <3> QED BY <3>3, <3>4
  <2>3. ASSUME NEW c \in Dir PROVE ResetInv(c)'
    BY <1>0, <1>11 DEF ReceiveEnd, tunnelVars, Control, HandlerInv, ResetInv, Types
  <2> QED BY <2>1, <2>2, <2>3 DEF Control
<1>12. ASSUME NEW e \in End, Close(e) PROVE Control'
  <2>1. HandlerInv'
    BY <1>0, <1>12 DEF Close, tunnelVars, Control, HandlerInv, Types, End
  <2>2. ASSUME NEW c \in Dir PROVE ThreadInv(c)'
    BY <1>0, <1>12 DEF Close, tunnelVars, Control, HandlerInv, ThreadInv, ResetInv, Types
  <2>3. ASSUME NEW c \in Dir PROVE ResetInv(c)'
    BY <1>0, <1>12 DEF Close, tunnelVars, Control, HandlerInv, ResetInv, Types
  <2> QED BY <2>1, <2>2, <2>3 DEF Control
<1>13. ASSUME NEW e \in End, Reset(e) PROVE Control'
  <2>1. HandlerInv'
    BY <1>0, <1>13 DEF Reset, endVars, Control, HandlerInv, ThreadInv, Types
  <2>2. ASSUME NEW c \in Dir PROVE ThreadInv(c)'
    <3>1. ThreadInv(c) /\ inq[c] \in Seq(Unit) /\ rst \in [End -> BOOLEAN]
      BY <1>0 DEF Control, Types
    <3>2. inq[c] = <<>> => inq'[c] = <<>>
      <4>1. PICK n \in 0 .. Len(inq[From(e)]) :
              inq' = [inq EXCEPT ![From(e)] = Take(@, n)]
        BY <1>13 DEF Reset
      <4>2. CASE c = From(e) /\ inq[c] = <<>>
        <5>1. n = 0
          BY <4>1, <4>2, EmptySeq
        <5>2. Take(inq[c], n) = <<>>
          BY <5>1, SubSeqEmpty DEF Take
        <5> QED BY <1>0, <4>1, <4>2, <5>2 DEF Types
      <4>3. CASE c # From(e)
        BY <1>0, <4>1, <4>3 DEF Types
      <4> QED BY <4>2, <4>3
    <3>3. eof[c] /\ proc = "up" /\ hand # "refused" => c # Toward(e)
      BY <1>13, <3>1 DEF Reset, ThreadInv
    <3>4. c # Toward(e) => rst'[Dst(c)] = rst[Dst(c)]
      BY <1>0, <1>13 DEF Reset, Types, Dst, Toward, Dir, End
    <3> QED BY <1>13, <3>1, <3>2, <3>3, <3>4 DEF Reset, endVars, ThreadInv
  <2>3. ASSUME NEW c \in Dir PROVE ResetInv(c)'
    <3>1. ResetInv(c)
      BY <1>0 DEF Control
    <3>2. CASE c = Toward(e)
      <4>1. Dst(c) = e /\ outq[c] # <<>> /\ peer[e] = "closed"
        BY <1>13, <3>2 DEF Reset
      <4>2. Len(got[c]) < Len(sent[c])
        BY <1>0, <4>1, UnreadIsMissing
      <4> QED BY <1>13, <4>1, <4>2 DEF Reset, endVars, ResetInv
    <3>3. CASE c # Toward(e)
      <4>1. rst'[Dst(c)] = rst[Dst(c)]
        BY <1>0, <1>13, <3>3 DEF Reset, Types, Dst, Toward, Dir, End
      <4> QED BY <1>13, <3>1, <4>1 DEF Reset, endVars, ResetInv
    <3> QED BY <3>2, <3>3
  <2> QED BY <2>1, <2>2, <2>3 DEF Control
<1>14. CASE UNCHANGED vars
  BY <1>0, <1>14 DEF Control, HandlerInv, ThreadInv, ResetInv, vars, tunnelVars, endVars
<1> QED
  BY <1>1, <1>2, <1>3, <1>4, <1>5, <1>6, <1>7, <1>8, <1>9, <1>10, <1>11, <1>12,
     <1>13, <1>14 DEF Next, Handle, Forward, Program, WriteKills, Stop
\* Concatenation is associative, in the form the steps below use it.
LEMMA UnitAssociative ==
    \A r, s, t \in Seq(Unit) : (r \o s) \o t = r \o (s \o t)
BY ConcatAssociative

\* Appending a unit is concatenating the sequence of that unit.
LEMMA AppendAsConcat ==
    ASSUME NEW u \in Unit
    PROVE  <<u>> \in Seq(Unit) /\ \A s \in Seq(Unit) : Append(s, u) = s \o <<u>>
<1>1. ASSUME NEW s \in Seq(Unit) PROVE Append(s, u) = s \o <<u>>
  BY AppendIsConcat
<1> QED BY <1>1

\* write() moves the head of what is unwritten to the end of what is written.
LEMMA WriteMoves ==
    ASSUME Types, NEW d \in Dir, Write(d)
    PROVE  \E h \in Seq(Unit) :
             /\ outq'[d] = outq[d] \o h
             /\ Unwritten(d) = h \o Unwritten(d)' /\ Unwritten(d)' \in Seq(Unit)
<1> DEFINE n == Least(Cap - Len(outq[d]), Len(buf[d]))
           head == Take(buf[d], n)
           tail == Drop(buf[d], n)
<1>1. inq' = inq /\ outq'[d] = outq[d] \o head /\ buf'[d] = tail
  BY DEF Write, Types
<1>2. outq[d] \in Seq(Unit) /\ buf[d] \in Seq(Unit) /\ inq[d] \in Seq(Unit)
  BY DirTypes
<1>3. n \in 0 .. Len(buf[d])
  <2>1. n > 0
    BY DEF Write
  <2>2. Len(buf[d]) \in Nat /\ Len(outq[d]) \in Nat
    BY <1>2, LenProperties
  <2>3. n \in Int /\ n <= Len(buf[d])
    <3>1. \A x, y \in Int : Least(x, y) \in Int /\ Least(x, y) <= y
      BY DEF Least
    <3>2. Cap - Len(outq[d]) \in Int /\ Len(buf[d]) \in Int
      BY <2>2, TunnelAssumption
    <3> QED BY <3>1, <3>2, Zenon
  <2> HIDE DEF n
  <2> QED BY <2>1, <2>2, <2>3
<1>4. head \in Seq(Unit) /\ tail \in Seq(Unit) /\ head \o tail = buf[d]
  BY <1>2, <1>3, CutAndJoin DEF Take, Drop
<1> HIDE DEF n, head, tail
<1>5. Unwritten(d) = head \o Unwritten(d)' /\ Unwritten(d)' \in Seq(Unit)
  <2>1. Unwritten(d)' = tail \o inq[d]
    BY <1>1 DEF Unwritten
  <2>2. (head \o tail) \o inq[d] = head \o (tail \o inq[d])
    BY <1>2, <1>4, UnitAssociative, Zenon
  <2> QED BY <1>2, <1>4, <2>1, <2>2, ConcatLength DEF Unwritten
<1> QED BY <1>1, <1>4, <1>5

-----------------------------------------------------------------------------
\* A step that moves nothing in a direction keeps its flow, even if it resets
\* a connection.
LEMMA FlowKept ==
    ASSUME Types, NEW d \in Dir, Flow(d),
           proc' = "up" => proc = "up",
           \A e \in End : rst[e] => rst'[e],
           sent'[d] = sent[d], Written(d)' = Written(d),
           proc' = "up" /\ ~rst'[Dst(d)] =>
               Written(d)' \o Unwritten(d)' = Written(d) \o Unwritten(d)
    PROVE  Flow(d)'
BY EndsAndDirections DEF Flow, Intact

\* Every step keeps the flow of both directions.
LEMMA FlowStep ==
    ASSUME IInv, [Next]_vars, NEW c \in Dir
    PROVE  Flow(c)'
<1> USE EndsAndDirections
<1>0. /\ Types /\ Types' /\ Flow(c)
      /\ ThreadInv(c) /\ \A d \in Dir : ResetInv(d)
  BY TypeStep DEF IInv, Control
<1>a. ASSUME UNCHANGED <<buf, inq, outq, rst, sent, got>>,
             proc' = "up" => proc = "up"
      PROVE  Flow(c)'
  BY <1>0, <1>a, FlowKept DEF Written, Unwritten
<1>b. ASSUME NEW d \in Dir, d # c, Forward(d), ~WriteKills(d) PROVE Flow(c)'
  <2>1. /\ buf'[c] = buf[c] /\ inq'[c] = inq[c] /\ outq'[c] = outq[c]
        /\ rst' = rst /\ proc' = proc /\ sent' = sent /\ got' = got
    BY <1>0, <1>b, ZenonT(40) DEF Forward, Read, ReadEnds, Write, WriteFails, endVars, Types
  <2> QED BY <1>0, <2>1, FlowKept DEF Written, Unwritten
<1>1. CASE Handle
  BY <1>a, <1>1 DEF Handle, Connect, ConnectRefused, Join, endVars
<1>2. CASE Read(c)
  <2>1. PICK n \in 1 .. Least(Len(inq[c]), BufSize) :
          /\ buf' = [buf EXCEPT ![c] = SimulateCrypto(Take(inq[c], n))]
          /\ inq' = [inq EXCEPT ![c] = Drop(inq[c], n)]
    BY <1>2 DEF Read
  <2>2. buf[c] = <<>>
    BY <1>0, <1>2 DEF Read, ThreadInv
  <2>3. inq[c] \in Seq(Unit)
    BY <1>0, DirTypes
  <2>4. buf'[c] = Take(inq[c], n) /\ inq'[c] = Drop(inq[c], n)
    BY <1>0, <2>1, <2>3, ReadTakes DEF Types
  <2>5. Unwritten(c)' = inq[c] /\ Unwritten(c) = inq[c]
    BY <2>1, <2>2, <2>3, <2>4, ReadTakes, ConcatEmptySeq DEF Unwritten
  <2>6. Written(c)' = Written(c) /\ sent' = sent /\ rst' = rst /\ proc' = proc
    BY <1>2 DEF Read, endVars, Written
  <2> QED BY <1>0, <2>5, <2>6, FlowKept
<1>3. CASE ReadEnds(c)
  BY <1>a, <1>3 DEF ReadEnds, endVars
<1>4. CASE Write(c)
  <2>1. proc = "up" /\ ~rst[Dst(c)] /\ UNCHANGED <<sent, got, rst, proc>>
    BY <1>4 DEF Write, endVars
  <2>2. PICK head :
          /\ head \in Seq(Unit) /\ outq'[c] = outq[c] \o head
          /\ Unwritten(c) = head \o Unwritten(c)' /\ Unwritten(c)' \in Seq(Unit)
    BY <1>0, <1>4, WriteMoves
  <2>3. got[c] \in Seq(Unit) /\ outq[c] \in Seq(Unit)
    BY <1>0, DirTypes
  <2>4. Written(c)' = Written(c) \o head /\ Written(c) \in Seq(Unit)
    <3>1. Written(c)' = got[c] \o (outq[c] \o head)
      BY <2>1, <2>2 DEF Written
    <3>2. (got[c] \o outq[c]) \o head = got[c] \o (outq[c] \o head)
      BY <2>2, <2>3, UnitAssociative, Zenon
    <3> QED BY <2>3, <3>1, <3>2, ConcatLength DEF Written
  <2>5. Written(c)' \o Unwritten(c)' = Written(c) \o Unwritten(c)
    <3>1. (Written(c) \o head) \o Unwritten(c)' = Written(c) \o (head \o Unwritten(c)')
      BY <2>2, <2>4, UnitAssociative, Zenon
    <3> QED BY <2>2, <2>4, <3>1
  <2>6. IsPrefix(Written(c) \o Unwritten(c), sent[c])
    BY <1>0, <2>1 DEF Flow
  <2>7. IsPrefix(Written(c)', sent[c])
    <3>1. Written(c)' \in Seq(Unit) /\ Unwritten(c)' \in Seq(Unit)
      BY <2>2, <2>4, ConcatLength
    <3>2. IsPrefix(Written(c)', Written(c)' \o Unwritten(c)')
      BY <3>1, ConcatHasPrefix
    <3>3. Written(c) \o Unwritten(c) \in Seq(Unit) /\ sent[c] \in Seq(Unit)
      BY <1>0, DirTypes
    <3> QED BY <2>5, <2>6, <3>1, <3>2, <3>3, PrefixTransitive
  <2> QED BY <1>0, <2>1, <2>5, <2>6, <2>7 DEF Flow, Intact
<1>5. CASE WriteFails(c)
  <2>1. /\ Written(c)' = Written(c) /\ sent' = sent /\ rst' = rst /\ proc' = proc
        /\ rst[Dst(c)]
    BY <1>5 DEF WriteFails, endVars, Written
  <2> QED BY <1>0, <2>1, FlowKept
<1>6. ASSUME NEW cause \in {"sigpipe", "stopped"}, ProcessEnds(cause) PROVE Flow(c)'
  <2>1. PICK n \in [Dir -> 0..Cap] :
          /\ \A d \in Dir : n[d] <= Len(outq[d])
          /\ outq' = [d \in Dir |-> Take(outq[d], n[d])]
    BY <1>6 DEF ProcessEnds
  <2>2. /\ got[c] \in Seq(Unit) /\ outq[c] \in Seq(Unit) /\ sent[c] \in Seq(Unit)
        /\ n[c] \in 0 .. Len(outq[c])
    BY <1>0, <2>1, DirTypes, LenProperties, TunnelAssumption
  <2>3. /\ IsPrefix(outq'[c], outq[c]) /\ outq'[c] \in Seq(Unit)
    BY <2>1, <2>2, CutAndJoin DEF Take
  <2>4. IsPrefix(got[c] \o outq'[c], got[c] \o outq[c])
    BY <2>2, <2>3, PrefixUnderConcat
  <2>5. IsPrefix(got[c] \o outq'[c], sent[c])
    BY <1>0, <2>2, <2>3, <2>4, ConcatLength, PrefixTransitive DEF Flow, Written
  <2>6. got' = got /\ sent' = sent /\ proc' # "up"
    BY <1>6 DEF ProcessEnds, endVars
  <2> QED BY <2>5, <2>6 DEF Flow, Intact, Written
<1>7. ASSUME NEW e \in End, Send(e) PROVE Flow(c)'
  <2>1. PICK u \in Unit :
          /\ inq'  = [inq EXCEPT ![From(e)] = Append(@, u)]
          /\ sent' = [sent EXCEPT ![From(e)] = Append(@, u)]
    BY <1>7 DEF Send
  <2>2. /\ buf' = buf /\ outq' = outq /\ got' = got /\ rst' = rst /\ proc' = proc
        /\ peer[e] = "open"
    BY <1>7 DEF Send
  <2>3. CASE c # From(e)
    <3>1. inq'[c] = inq[c] /\ sent'[c] = sent[c]
      BY <1>0, <2>1, <2>3 DEF Types
    <3> QED BY <1>0, <2>2, <3>1, FlowKept DEF Written, Unwritten
  <2>4. CASE c = From(e)
    <3>1. /\ sent[c] \in Seq(Unit) /\ buf[c] \in Seq(Unit) /\ inq[c] \in Seq(Unit)
          /\ Written(c) \in Seq(Unit) /\ Unwritten(c) \in Seq(Unit)
          /\ Written(c) \o Unwritten(c) \in Seq(Unit) /\ <<u>> \in Seq(Unit)
      BY <1>0, DirTypes
    <3>2. inq'[c] = inq[c] \o <<u>> /\ sent'[c] = Append(sent[c], u)
          /\ Append(sent[c], u) = sent[c] \o <<u>>
      <4>1. inq'[c] = Append(inq[c], u) /\ sent'[c] = Append(sent[c], u)
        BY <1>0, <2>1, <2>4 DEF Types
      <4>2. /\ Append(inq[c], u) = inq[c] \o <<u>>
            /\ Append(sent[c], u) = sent[c] \o <<u>>
        BY <3>1, AppendIsConcat
      <4> QED BY <4>1, <4>2
    <3>3. Written(c)' = Written(c) /\ Unwritten(c)' = Unwritten(c) \o <<u>>
      <4>0. buf[c] \in Seq(Unit) /\ inq[c] \in Seq(Unit) /\ <<u>> \in Seq(Unit)
        BY <3>1
      <4>1. (buf[c] \o inq[c]) \o <<u>> = buf[c] \o (inq[c] \o <<u>>)
        BY <4>0, UnitAssociative
      <4>2. buf'[c] = buf[c] /\ outq'[c] = outq[c] /\ got'[c] = got[c]
        BY <2>2
      <4>3. Unwritten(c)' = buf[c] \o (inq[c] \o <<u>>)
        BY <3>2, <4>2 DEF Unwritten
      <4> QED BY <4>1, <4>2, <4>3 DEF Written, Unwritten
    <3>4. Written(c)' \o Unwritten(c)' = (Written(c) \o Unwritten(c)) \o <<u>>
      <4>1. (Written(c) \o Unwritten(c)) \o <<u>> = Written(c) \o (Unwritten(c) \o <<u>>)
        BY <3>1, UnitAssociative, ZenonT(40)
      <4> QED BY <3>3, <4>1
    <3>5. IsPrefix(Written(c)', sent'[c])
      <4>1. IsPrefix(Written(c), sent[c])
        BY <1>0 DEF Flow
      <4>2. IsPrefix(Written(c), Append(sent[c], u))
        BY <3>1, <4>1, PrefixOfAppend
      <4> QED BY <3>2, <3>3, <4>2
    <3>6. ~rst[Src(c)]
      BY <1>0, <2>2, <2>4 DEF ResetInv
    <3>7. proc' = "up" /\ ~rst'[Dst(c)] => sent'[c] = Written(c)' \o Unwritten(c)'
      BY <1>0, <2>2, <3>2, <3>4, <3>6 DEF Flow, Intact
    <3>8. sent'[c] \in Seq(Unit)
      BY <3>1, <3>2, AppendProperties
    <3>9. proc' = "up" /\ ~rst'[Dst(c)] =>
            IsPrefix(Written(c)' \o Unwritten(c)', sent'[c])
      BY <3>7, <3>8, PrefixReflexive
    <3> QED BY <3>5, <3>7, <3>9 DEF Flow, Intact
  <2> QED BY <2>3, <2>4
<1>8. ASSUME NEW e \in End, Receive(e) PROVE Flow(c)'
  <2>1. /\ buf' = buf /\ inq' = inq /\ sent' = sent /\ rst' = rst /\ proc' = proc
        /\ outq[Toward(e)] # <<>>
        /\ got' = [got EXCEPT ![Toward(e)] = Append(@, Head(outq[Toward(e)]))]
        /\ outq' = [outq EXCEPT ![Toward(e)] = Tail(@)]
    BY <1>8 DEF Receive
  <2>2. got[c] \in Seq(Unit) /\ outq[c] \in Seq(Unit)
    BY <1>0, DirTypes
  <2>3. Written(c)' = Written(c)
    <3>1. CASE c = Toward(e)
      <4>1. /\ got'[c] = Append(got[c], Head(outq[c])) /\ outq'[c] = Tail(outq[c])
            /\ outq[c] # <<>>
        BY <1>0, <2>1, <3>1 DEF Types
      <4> QED BY <2>2, <4>1, MoveHead, ZenonT(40) DEF Written
    <3>2. CASE c # Toward(e)
      BY <1>0, <2>1, <3>2 DEF Types, Written
    <3> QED BY <3>1, <3>2
  <2> QED BY <1>0, <2>1, <2>3, FlowKept DEF Unwritten
<1>9. ASSUME NEW e \in End, ReceiveEnd(e) PROVE Flow(c)'
  BY <1>a, <1>9 DEF ReceiveEnd, tunnelVars
<1>10. ASSUME NEW e \in End, Close(e) PROVE Flow(c)'
  BY <1>a, <1>10 DEF Close, tunnelVars
<1>11. ASSUME NEW e \in End, Reset(e) PROVE Flow(c)'
  <2>1. PICK n \in 0 .. Len(inq[From(e)]) :
          inq' = [inq EXCEPT ![From(e)] = Take(@, n)]
    BY <1>11 DEF Reset
  <2>2. /\ buf' = buf /\ outq' = outq /\ sent' = sent /\ got' = got /\ proc' = proc
        /\ rst' = [rst EXCEPT ![e] = TRUE]
    BY <1>11 DEF Reset, endVars
  <2>3. Written(c)' = Written(c) /\ rst'[e]
    BY <1>0, <2>2 DEF Written, Types
  <2>4. CASE c # From(e)
    <3>1. Dst(c) = e
      BY <2>4 DEF From, Dst, Dir, End
    <3>2. \A x \in End : rst[x] => rst'[x]
      BY <1>0, <2>2 DEF Types
    <3> QED BY <1>0, <2>2, <2>3, <3>1, <3>2, FlowKept
  <2>5. CASE c = From(e)
    <3>1. /\ buf[c] \in Seq(Unit) /\ inq[c] \in Seq(Unit) /\ sent[c] \in Seq(Unit)
          /\ Written(c) \in Seq(Unit) /\ Unwritten(c) \in Seq(Unit)
          /\ Written(c) \o Unwritten(c) \in Seq(Unit)
      BY <1>0, DirTypes
    <3>2. /\ inq'[c] = Take(inq[c], n) /\ inq'[c] \in Seq(Unit)
          /\ IsPrefix(inq'[c], inq[c])
      BY <1>0, <2>1, <2>5, <3>1, CutAndJoin DEF Types, Take
    <3>3. IsPrefix(Unwritten(c)', Unwritten(c)) /\ Unwritten(c)' \in Seq(Unit)
      BY <2>2, <3>1, <3>2, PrefixUnderConcat, ConcatLength DEF Unwritten
    <3>4. /\ IsPrefix(Written(c) \o Unwritten(c)', Written(c) \o Unwritten(c))
          /\ Written(c) \o Unwritten(c)' \in Seq(Unit)
      BY <3>1, <3>3, PrefixUnderConcat, ConcatLength
    <3>5. Src(c) = e /\ rst'[Dst(c)] = rst[Dst(c)]
      BY <1>0, <2>2, <2>5 DEF Types
    <3>6. proc' = "up" /\ ~rst'[Dst(c)] =>
            IsPrefix(Written(c)' \o Unwritten(c)', sent'[c])
      BY <1>0, <2>2, <2>3, <3>1, <3>4, <3>5, PrefixTransitive DEF Flow
    <3> QED BY <1>0, <2>2, <2>3, <3>5, <3>6 DEF Flow, Intact
  <2> QED BY <2>4, <2>5
<1>12. CASE UNCHANGED vars
  BY <1>a, <1>12 DEF vars, tunnelVars, endVars
<1> QED
  <2>1. ASSUME NEW d \in Dir, Forward(d) PROVE Flow(c)'
    <3>1. CASE WriteKills(d)
      BY <1>6, <3>1 DEF WriteKills
    <3>2. CASE ~WriteKills(d) /\ d # c
      BY <1>b, <2>1, <3>2
    <3>3. CASE ~WriteKills(d) /\ d = c
      BY <1>2, <1>3, <1>4, <1>5, <2>1, <3>3 DEF Forward
    <3> QED BY <3>1, <3>2, <3>3
  <2> QED
    BY <1>1, <1>6, <1>7, <1>8, <1>9, <1>10, <1>11, <1>12, <2>1
       DEF Next, Program, Stop
\* The invariant is inductive.
LEMMA InvStep == IInv /\ [Next]_vars => IInv'
<1> SUFFICES ASSUME IInv, [Next]_vars PROVE IInv'
  OBVIOUS
<1>1. Types' /\ Control' /\ \A d \in Dir : Flow(d)'
  BY TypeStep, ControlStep, FlowStep DEF IInv
<1>2. proc' = "sigpipe" => \E e \in End : rst'[e]
  <2>1. CASE \E d \in Dir : WriteKills(d)
    BY <2>1, EndsAndDirections DEF WriteKills, ProcessEnds
  <2>2. CASE \E e \in End : Reset(e)
    BY <2>2 DEF Reset, IInv, Types
  <2>3. CASE /\ ~ \E d \in Dir : WriteKills(d)
             /\ ~ \E e \in End : Reset(e)
    <3>1. rst' = rst /\ (proc' = "sigpipe" => proc = "sigpipe")
      BY <2>3 DEF Next, Handle, Forward, Program, Connect, ConnectRefused, Join, Read,
                  ReadEnds, Write, WriteFails, Stop, ProcessEnds, Send, Receive,
                  ReceiveEnd, Close, vars, tunnelVars, endVars
    <3> QED BY <3>1 DEF IInv
  <2> QED BY <2>1, <2>2, <2>3
<1> QED BY <1>1, <1>2 DEF IInv

\* The inductive invariant holds of the tunnel (handle_client, forward).
THEOREM Invariance == Spec => []IInv
BY InvInit, InvStep, PTL DEF Spec

\* Every reachable state of the tunnel is a state handle_client, its threads
\* and their sockets can be in, and no loop of a thread ends with data in hand.
THEOREM TypeCorrect == Spec => []TypeOK
<1>1. IInv => TypeOK
  BY DEF IInv, TypeOK, Control, ThreadInv
<1> QED BY <1>1, Invariance, PTL

-----------------------------------------------------------------------------
\* What an end of a tunnel has received is always a prefix of what the other
\* end sent, whatever is closed, reset or killed on the way.
THEOREM OrderedDelivery == Spec => []Ordered
<1>1. ASSUME IInv, NEW d \in Dir PROVE IsPrefix(got[d], sent[d])
  <2>1. Types /\ IsPrefix(Written(d), sent[d])
    BY <1>1 DEF IInv, Flow
  <2>2. IsPrefix(got[d], Written(d))
    BY <2>1, DirTypes, ConcatHasPrefix DEF Written
  <2> QED BY <2>1, <2>2, DirTypes, PrefixTransitive
<1>2. IInv => Ordered
  BY <1>1 DEF Ordered
<1> QED BY <1>2, Invariance, PTL

\* The copying loop loses nothing as long as both connections stand.
THEOREM Conservation == Spec => []Conserved
<1>1. IInv => Conserved
  BY DEF IInv, Flow, Conserved
<1> QED BY <1>1, Invariance, PTL

\* So the tunnel makes nothing up, and loses nothing that could have arrived.
THEOREM DataIsKept == Spec => []DataKept
<1>1. Ordered /\ Conserved => DataKept
  BY DEF DataKept
<1> QED BY <1>1, OrderedDelivery, Conservation, PTL

\* An end that is told that the stream is over has all of it.
THEOREM CompleteEnd == Spec => []EndMeansComplete
<1>1. ASSUME IInv, NEW d \in Dir, eof[d], proc = "up", hand # "refused", ~rst[Src(d)]
      PROVE  got[d] = sent[d] /\ peer[Src(d)] = "closed"
  <2>1. Types /\ Flow(d) /\ ThreadInv(d)
    BY <1>1 DEF IInv, Control
  <2>2. /\ outq[d] = <<>> /\ buf[d] = <<>> /\ inq[d] = <<>>
        /\ ~rst[Dst(d)] /\ peer[Src(d)] = "closed"
    BY <1>1, <2>1 DEF ThreadInv
  <2>3. sent[d] = Written(d) \o Unwritten(d)
    BY <1>1, <2>1, <2>2 DEF Flow, Intact
  <2>4. Written(d) = got[d] /\ Unwritten(d) = <<>>
    BY <2>1, <2>2, DirTypes, ConcatEmptySeq, EmptySeq DEF Written, Unwritten
  <2> QED BY <2>1, <2>2, <2>3, <2>4, DirTypes, ConcatEmptySeq
<1>2. IInv => EndMeansComplete
  BY <1>1 DEF EndMeansComplete
<1> QED BY <1>2, Invariance, PTL

\* SIGPIPE ends the proxy only after somebody hung up on unread data.
THEOREM SigPipeCause == Spec => []SigPipeOnlyAfterEarlyClose
<1>1. ASSUME IInv, proc = "sigpipe"
      PROVE  \E d \in Dir : peer[Dst(d)] = "closed" /\ got[d] # sent[d]
  <2>1. PICK e \in End : rst[e]
    BY <1>1 DEF IInv
  <2>2. Toward(e) \in Dir /\ Dst(Toward(e)) = e /\ ResetInv(Toward(e)) /\ Types
    BY <1>1, EndsAndDirections DEF IInv, Control
  <2>3. Len(got[Toward(e)]) \in Nat /\ Len(sent[Toward(e)]) \in Nat
    BY <2>2, DirTypes, LenProperties
  <2> QED BY <2>1, <2>2, <2>3 DEF ResetInv
<1>2. IInv => SigPipeOnlyAfterEarlyClose
  BY <1>1 DEF SigPipeOnlyAfterEarlyClose
<1> QED BY <1>2, Invariance, PTL

\* A handler that returns from an open tunnel leaves nobody waiting.
THEOREM ReturnCutsNobody == Spec => []DoneOnlyWhenBothClosed
<1>1. ASSUME IInv, hand = "done", NEW e \in End PROVE peer[e] = "closed"
  <2>1. From(e) \in Dir /\ Src(From(e)) = e
    BY EndsAndDirections
  <2>2. thr[From(e)] = "done"
    BY <1>1, <2>1 DEF IInv, Control, HandlerInv
  <2> QED BY <1>1, <2>1, <2>2 DEF IInv, Control, ThreadInv
<1>2. IInv => DoneOnlyWhenBothClosed
  BY <1>1 DEF DoneOnlyWhenBothClosed
<1> QED BY <1>2, Invariance, PTL

-----------------------------------------------------------------------------
(***************************************************************************)
(* Refinement: seen from the programs at its ends, each direction of the   *)
(* tunnel takes the steps of an OrderedPipe and no others.  Beyond IInv it *)
(* needs only EndInv: nothing follows the end of a stream.                 *)
(***************************************************************************)
\* Requests and Replies in one, with the direction as a parameter.
Pipe(d) == INSTANCE OrderedPipe WITH
    sent       <- sent[d],
    got        <- got[d],
    transit    <- InPipe(d),
    srcClosed  <- peer[Src(d)] = "closed",
    sinkClosed <- peer[Dst(d)] = "closed",
    broken     <- Broken(d),
    eof        <- eof[d]

\* At first both pipes are empty and open.
LEMMA PipeInit == ASSUME NEW d \in Dir PROVE Init => Pipe(d)!Init
<1> SUFFICES ASSUME Init PROVE Pipe(d)!Init
  OBVIOUS
<1>1. Unwritten(d) = <<>> /\ outq[d] = <<>> /\ outq[d] \o Unwritten(d) = <<>>
  BY ConcatEmptySeq, EmptySeq DEF Init, Unwritten
<1> QED BY <1>1, EndsAndDirections DEF Init, Pipe!Init, InPipe, Broken

\* A sink that has read the end of the stream finds nothing after it.
EndInv(d) == eof[d] => outq[d] = <<>>

\* Every step keeps that.
LEMMA EndStep ==
    ASSUME IInv, [Next]_vars, NEW c \in Dir, EndInv(c)
    PROVE  EndInv(c)'
<1>0. Types /\ ThreadInv(c)
  BY DEF IInv, Control
<1>1. CASE eof'[c] = eof[c] /\ outq'[c] = outq[c]
  BY <1>1 DEF EndInv
<1>2. ASSUME NEW d \in Dir, Write(d), c = d PROVE EndInv(c)'
  BY <1>0, <1>2 DEF Write, endVars, ThreadInv, EndInv
<1>3. ASSUME NEW cause, ProcessEnds(cause) PROVE EndInv(c)'
  <2>1. PICK n \in [Dir -> 0..Cap] :
          /\ \A d \in Dir : n[d] <= Len(outq[d])
          /\ outq' = [d \in Dir |-> Take(outq[d], n[d])]
    BY <1>3 DEF ProcessEnds
  <2>2. eof' = eof
    BY <1>3 DEF ProcessEnds, endVars
  <2>3. CASE outq[c] = <<>>
    <3>1. n[c] = 0
      BY <2>1, <2>3, EmptySeq, TunnelAssumption
    <3> QED BY <2>1, <2>3, <3>1, SubSeqEmpty DEF Take, EndInv
  <2> QED BY <2>2, <2>3 DEF EndInv
<1>4. ASSUME NEW e \in End, Receive(e) PROVE EndInv(c)'
  <2>1. CASE c = Toward(e)
    BY <1>4, <2>1 DEF Receive, EndInv
  <2>2. CASE c # Toward(e)
    BY <1>0, <1>1, <1>4, <2>2 DEF Receive, Types
  <2> QED BY <2>1, <2>2
<1>5. ASSUME NEW e \in End, ReceiveEnd(e) PROVE EndInv(c)'
  <2>1. CASE c = Toward(e)
    BY <1>5, <2>1 DEF ReceiveEnd, tunnelVars, EndInv
  <2>2. CASE c # Toward(e)
    BY <1>0, <1>1, <1>5, <2>2 DEF ReceiveEnd, tunnelVars, Types
  <2> QED BY <2>1, <2>2
<1>6. CASE Handle
  BY <1>1, <1>6 DEF Handle, Connect, ConnectRefused, Join, endVars
<1>7. ASSUME NEW d \in Dir, Forward(d), ~WriteKills(d), ~(Write(d) /\ c = d) PROVE EndInv(c)'
  BY <1>0, <1>1, <1>7 DEF Forward, Read, ReadEnds, Write, WriteFails, endVars, Types
<1>8. ASSUME NEW e \in End, Send(e) \/ Close(e) \/ Reset(e) PROVE EndInv(c)'
  BY <1>1, <1>8 DEF Send, Close, Reset, tunnelVars, endVars
<1>9. CASE UNCHANGED vars
  BY <1>1, <1>9 DEF vars, tunnelVars, endVars
<1> QED
  BY <1>2, <1>3, <1>4, <1>5, <1>6, <1>7, <1>8, <1>9
     DEF Next, Forward, Program, WriteKills, Stop

\* A step that shows nothing at either end of a direction is a stutter of its pipe.
LEMMA PipeStutters ==
    ASSUME Types, Types', NEW d \in Dir,
           sent'[d] = sent[d], got'[d] = got[d], eof'[d] = eof[d],
           peer'[Src(d)] = "closed" <=> peer[Src(d)] = "closed",
           peer'[Dst(d)] = "closed" <=> peer[Dst(d)] = "closed",
           Broken(d)' <=> Broken(d),
           InPipe(d)' = InPipe(d)
    PROVE  UNCHANGED Pipe(d)!pipeVars
BY DEF Pipe!pipeVars, Broken

\* A step that breaks a pipe and leaves a prefix of what it holds.
LEMMA PipeBreaks ==
    ASSUME Types, Types', NEW d \in Dir,
           sent'[d] = sent[d], got'[d] = got[d], eof'[d] = eof[d], peer' = peer,
           Broken(d)',
           InPipe(d) \in Seq(Unit), InPipe(d)' \in Seq(Unit), IsPrefix(InPipe(d)', InPipe(d))
    PROVE  Pipe(d)!Break
<1> DEFINE q == InPipe(d)  r == InPipe(d)'
<1>1. Len(r) \in Nat /\ Len(q) \in Nat /\ Len(r) <= Len(q)
  BY LenProperties DEF IsPrefix
<1>2. r = SubSeq(q, 1, Len(r))
  BY SubSeqFull DEF IsPrefix
<1>3. Len(r) \in 0 .. Len(q)
  BY <1>1
<1>4. \E n \in 0 .. Len(q) : r = SubSeq(q, 1, n)
  BY <1>2, <1>3
<1> QED BY <1>4 DEF Pipe!Break, Broken

\* What a pipe holds are units.
LEMMA InPipeType ==
    ASSUME Types, NEW d \in Dir
    PROVE  InPipe(d) \in Seq(Unit) /\ outq[d] \o Unwritten(d) \in Seq(Unit)
BY DirTypes, ConcatLength, EmptySeq DEF InPipe

\* Every step of the tunnel is a step of each pipe, or a stutter.
LEMMA PipeStep ==
    ASSUME IInv, [Next]_vars, NEW c \in Dir, EndInv(c)
    PROVE  [Pipe(c)!Next]_(Pipe(c)!pipeVars)
<1> USE EndsAndDirections
<1>0. /\ Types /\ Types' /\ Control
      /\ ThreadInv(c) /\ \A d \in Dir : ResetInv(d)
  BY TypeStep DEF IInv, Control
<1>z. /\ outq[c] \in Seq(Unit) /\ buf[c] \in Seq(Unit) /\ inq[c] \in Seq(Unit)
      /\ Unwritten(c) \in Seq(Unit) /\ InPipe(c) \in Seq(Unit) /\ InPipe(c)' \in Seq(Unit)
  <2>1. outq'[c] \in Seq(Unit) /\ buf'[c] \in Seq(Unit) /\ inq'[c] \in Seq(Unit)
    BY <1>0 DEF Types
  <2>2. outq'[c] \o (buf'[c] \o inq'[c]) \in Seq(Unit)
    BY <2>1, ConcatLength
  <2>3. InPipe(c)' \in Seq(Unit)
    BY <2>1, <2>2, EmptySeq DEF InPipe, Unwritten
  <2> QED BY <1>0, <2>3, DirTypes, InPipeType
<1> DEFINE Stutters == UNCHANGED Pipe(c)!pipeVars
\* A step that leaves both programs and their connections alone is a stutter if
\* it keeps what is in the pipe.
<1>s. ASSUME UNCHANGED <<sent, got, eof, peer, rst, hand, proc>>, InPipe(c)' = InPipe(c)
      PROVE  Stutters
  BY <1>0, <1>s, PipeStutters DEF Broken
<1>1. CASE Connect
  <2>1. /\ UNCHANGED <<buf, inq, outq, rst, proc, sent, got, eof>>
        /\ hand = "connect" /\ hand' = "relay"
        /\ peer' = [peer EXCEPT !["bist"] = "open"]
    BY <1>1 DEF Connect
  <2>2. peer["bist"] = "absent"
    BY <1>0, <2>1 DEF Control, HandlerInv
  <2>3. \A e \in End : peer'[e] = "closed" <=> peer[e] = "closed"
    BY <1>0, <2>1, <2>2 DEF Types
  <2>4. InPipe(c)' = InPipe(c) /\ (Broken(c)' <=> Broken(c))
    BY <2>1, <2>3 DEF InPipe, Unwritten, Broken
  <2>5. Stutters
    BY <1>0, <2>1, <2>3, <2>4, PipeStutters
  <2> QED BY <2>5
<1>2. CASE ConnectRefused
  <2>1. /\ UNCHANGED <<buf, inq, outq, rst, proc, sent, got, eof, peer>>
        /\ hand = "connect" /\ hand' = "refused" /\ proc = "up"
    BY <1>2 DEF ConnectRefused, endVars
  <2>2. IsPrefix(InPipe(c)', InPipe(c))
    <3>1. CASE peer[Dst(c)] = "closed"
      BY <1>z, <2>1, <3>1, PrefixReflexive DEF InPipe
    <3>2. CASE peer[Dst(c)] # "closed"
      BY <1>z, <2>1, <3>2, ConcatHasPrefix DEF InPipe
    <3> QED BY <3>1, <3>2
  <2>3. Pipe(c)!Break
    BY <1>0, <1>z, <2>1, <2>2, PipeBreaks DEF Broken
  <2> QED BY <2>3 DEF Pipe!Next
<1>3. CASE Join
  <2>1. /\ UNCHANGED <<buf, inq, outq, rst, proc, sent, got, eof, peer>>
        /\ hand = "relay" /\ hand' = "done"
    BY <1>3 DEF Join, endVars
  <2>2. InPipe(c)' = InPipe(c) /\ (Broken(c)' <=> Broken(c))
    BY <2>1 DEF InPipe, Unwritten, Broken
  <2>3. Stutters
    BY <1>0, <2>1, <2>2, PipeStutters
  <2> QED BY <2>3
<1>4. ASSUME NEW d \in Dir, Forward(d), ~WriteKills(d) PROVE Stutters
  <2>1. /\ UNCHANGED <<sent, got, eof, peer, rst, hand, proc>>
        /\ thr[d] \in {"read", "write", "copy"}
    BY <1>4 DEF Forward, Read, ReadEnds, Write, WriteFails, endVars
  <2>2. CASE d # c
    <3>1. buf'[c] = buf[c] /\ inq'[c] = inq[c] /\ outq'[c] = outq[c]
      BY <1>0, <1>4, <2>2, ZenonT(40) DEF Forward, Read, ReadEnds, Write, WriteFails, endVars, Types
    <3> QED BY <1>s, <2>1, <3>1 DEF InPipe, Unwritten
  <2>4. CASE Read(c)
    <3>1. PICK n \in 1 .. Least(Len(inq[c]), BufSize) :
            /\ buf' = [buf EXCEPT ![c] = SimulateCrypto(Take(inq[c], n))]
            /\ inq' = [inq EXCEPT ![c] = Drop(inq[c], n)]
      BY <2>4 DEF Read
    <3>2. buf'[c] = Take(inq[c], n) /\ inq'[c] = Drop(inq[c], n)
      BY <1>0, <1>z, <3>1, ReadTakes DEF Types
    <3>3. buf[c] = <<>> /\ outq' = outq
      BY <1>0, <2>4 DEF Read, ThreadInv
    <3>4. Unwritten(c)' = inq[c] /\ Unwritten(c) = inq[c]
      BY <1>z, <3>2, <3>3, ReadTakes, ConcatEmptySeq DEF Unwritten
    <3>5. UNCHANGED <<sent, got, eof, peer, rst, hand, proc>> /\ InPipe(c)' = InPipe(c)
      BY <2>4, <3>3, <3>4 DEF Read, endVars, InPipe
    <3> QED BY <1>s, <3>5
  <2>5. CASE ReadEnds(c)
    <3>1. InPipe(c)' = InPipe(c) /\ UNCHANGED <<sent, got, eof, peer, rst, hand, proc>>
      BY <2>5 DEF ReadEnds, endVars, InPipe, Unwritten
    <3> QED BY <1>s, <3>1
  <2>6. CASE Write(c)
    <3>1. outq'[c] \o Unwritten(c)' = outq[c] \o Unwritten(c)
      <4>1. PICK h :
              /\ h \in Seq(Unit) /\ outq'[c] = outq[c] \o h
              /\ Unwritten(c) = h \o Unwritten(c)' /\ Unwritten(c)' \in Seq(Unit)
        BY <1>0, <2>6, WriteMoves
      <4>2. (outq[c] \o h) \o Unwritten(c)' = outq[c] \o (h \o Unwritten(c)')
        BY <1>z, <4>1, UnitAssociative, ZenonT(40)
      <4> QED BY <4>1, <4>2
    <3>2. UNCHANGED <<sent, got, eof, peer, rst, hand, proc>> /\ proc = "up" /\ hand # "refused"
      BY <1>0, <2>6 DEF Write, endVars, ThreadInv
    <3>3. InPipe(c)' = InPipe(c)
      BY <3>1, <3>2 DEF InPipe
    <3> QED BY <1>s, <3>2, <3>3
  <2>7. CASE WriteFails(c)
    <3>1. peer[Dst(c)] = "closed" /\ UNCHANGED <<sent, got, eof, peer, rst, hand, proc>>
      BY <1>0, <2>7 DEF WriteFails, endVars, ResetInv
    <3>2. InPipe(c)' = InPipe(c)
      BY <3>1 DEF InPipe
    <3> QED BY <1>s, <3>1, <3>2
  <2> QED BY <1>4, <2>2, <2>4, <2>5, <2>6, <2>7 DEF Forward

<1>5. ASSUME NEW cause \in {"sigpipe", "stopped"}, ProcessEnds(cause) PROVE Pipe(c)!Break
  <2>1. PICK n \in [Dir -> 0..Cap] :
          /\ \A d \in Dir : n[d] <= Len(outq[d])
          /\ outq' = [d \in Dir |-> Take(outq[d], n[d])]
    BY <1>5 DEF ProcessEnds
  <2>2. UNCHANGED <<sent, got, eof, peer, rst>> /\ proc' # "up"
    BY <1>5 DEF ProcessEnds, endVars
  <2>3. n[c] \in 0 .. Len(outq[c])
    BY <1>z, <2>1, LenProperties, TunnelAssumption
  <2>4. IsPrefix(outq'[c], outq[c]) /\ outq'[c] \in Seq(Unit)
    BY <1>z, <2>1, <2>3, CutAndJoin DEF Take
  <2>5. IsPrefix(InPipe(c)', InPipe(c))
    <3>1. IsPrefix(outq'[c], outq[c] \o Unwritten(c))
      BY <1>0, <1>z, <2>4, ConcatHasPrefix, InPipeType, PrefixTransitive
    <3>2. IsPrefix(<<>>, <<>>)
      BY PrefixReflexive, EmptySeq
    <3> QED BY <2>2, <2>4, <3>1, <3>2 DEF InPipe
  <2> QED BY <1>0, <1>z, <2>2, <2>5, PipeBreaks DEF Broken
<1>6. ASSUME NEW e \in End, Send(e) PROVE Pipe(c)!Put \/ Stutters
  <2>1. PICK u \in Unit :
          /\ inq'  = [inq EXCEPT ![From(e)] = Append(@, u)]
          /\ sent' = [sent EXCEPT ![From(e)] = Append(@, u)]
    BY <1>6 DEF Send
  <2>2. UNCHANGED <<buf, outq, got, eof, peer, rst, hand, proc>> /\ peer[e] = "open"
    BY <1>6 DEF Send
  <2>3. CASE c # From(e)
    <3>1. inq'[c] = inq[c] /\ sent'[c] = sent[c]
      BY <1>0, <2>1, <2>3 DEF Types
    <3>2. InPipe(c)' = InPipe(c) /\ (Broken(c)' <=> Broken(c))
      BY <2>2, <3>1 DEF InPipe, Unwritten, Broken
    <3>3. Stutters
      BY <1>0, <2>2, <3>1, <3>2, PipeStutters
    <3> QED BY <3>3
  <2>4. CASE c = From(e)
    <3>1. inq'[c] = Append(inq[c], u) /\ sent'[c] = Append(sent[c], u)
      BY <1>0, <2>1, <2>4 DEF Types
    <3>2. peer[Src(c)] = "open" /\ ~rst[Src(c)]
      BY <1>0, <2>2, <2>4 DEF ResetInv
    <3>3. outq[c] \o Unwritten(c)' = Append(outq[c] \o Unwritten(c), u)
      <4>1. /\ Append(inq[c], u) = inq[c] \o <<u>> /\ <<u>> \in Seq(Unit)
            /\ outq[c] \o Unwritten(c) \in Seq(Unit)
            /\ Append(outq[c] \o Unwritten(c), u) = (outq[c] \o Unwritten(c)) \o <<u>>
        BY <1>0, <1>z, InPipeType, AppendAsConcat
      <4>2. Unwritten(c)' = buf[c] \o (inq[c] \o <<u>>)
        BY <2>2, <3>1, <4>1 DEF Unwritten
      <4>3. PICK q \in Seq(Unit), w \in Seq(Unit), b \in Seq(Unit), i \in Seq(Unit), l \in Seq(Unit) :
              q = outq[c] /\ w = Unwritten(c) /\ b = buf[c] /\ i = inq[c] /\ l = <<u>>
        BY <1>z, <4>1, Zenon
      <4>4. (q \o w) \o l = q \o (w \o l)
        BY ONLY q \in Seq(Unit), w \in Seq(Unit), l \in Seq(Unit), UnitAssociative, ZenonT(40)
      <4>5. (b \o i) \o l = b \o (i \o l)
        BY ONLY b \in Seq(Unit), i \in Seq(Unit), l \in Seq(Unit), UnitAssociative, Zenon
      <4>6. Unwritten(c)' = w \o l
        BY <4>2, <4>3, <4>5 DEF Unwritten
      <4> QED BY <4>1, <4>3, <4>4, <4>6
    <3>4. InPipe(c)' = IF peer[Dst(c)] = "closed" \/ Broken(c) THEN InPipe(c)
                       ELSE Append(InPipe(c), u)
      BY <2>2, <3>2, <3>3 DEF InPipe, Broken
    <3>5. Broken(c)' <=> Broken(c)
      BY <2>2 DEF Broken
    <3>6. Pipe(c)!Put
      BY <2>2, <3>1, <3>2, <3>4, <3>5 DEF Pipe!Put, Broken
    <3> QED BY <3>6
  <2> QED BY <2>3, <2>4
<1>7. ASSUME NEW e \in End, Receive(e) PROVE Pipe(c)!Get \/ Stutters
  <2>1. /\ UNCHANGED <<buf, inq, sent, eof, peer, rst, hand, proc>> /\ peer[e] = "open"
        /\ outq[Toward(e)] # <<>>
        /\ got' = [got EXCEPT ![Toward(e)] = Append(@, Head(outq[Toward(e)]))]
        /\ outq' = [outq EXCEPT ![Toward(e)] = Tail(@)]
    BY <1>7 DEF Receive
  <2>2. CASE c # Toward(e)
    <3>1. outq'[c] = outq[c] /\ got'[c] = got[c]
      BY <1>0, <2>1, <2>2 DEF Types
    <3>2. InPipe(c)' = InPipe(c) /\ (Broken(c)' <=> Broken(c))
      BY <2>1, <3>1 DEF InPipe, Unwritten, Broken
    <3>3. Stutters
      BY <1>0, <2>1, <3>1, <3>2, PipeStutters
    <3> QED BY <3>3
  <2>3. CASE c = Toward(e)
    <3>1. /\ got'[c] = Append(got[c], Head(outq[c])) /\ outq'[c] = Tail(outq[c])
          /\ outq[c] # <<>> /\ ~eof[c] /\ peer[Dst(c)] = "open"
      BY <1>0, <2>1, <2>3 DEF Types, EndInv
    <3>2. /\ InPipe(c) # <<>> /\ Head(InPipe(c)) = Head(outq[c])
          /\ InPipe(c)' = Tail(InPipe(c))
      <4>1. /\ outq[c] \o Unwritten(c) # <<>>
            /\ Head(outq[c] \o Unwritten(c)) = Head(outq[c])
            /\ Tail(outq[c] \o Unwritten(c)) = Tail(outq[c]) \o Unwritten(c)
        BY <1>z, <3>1, HeadOfConcat, ZenonT(40)
      <4>2. Unwritten(c)' = Unwritten(c)
        BY <2>1 DEF Unwritten
      <4> QED BY <2>1, <3>1, <4>1, <4>2 DEF InPipe
    <3>3. Pipe(c)!Get
      BY <2>1, <3>1, <3>2 DEF Pipe!Get, Broken
    <3> QED BY <3>3
  <2> QED BY <2>2, <2>3
<1>8. ASSUME NEW e \in End, ReceiveEnd(e) PROVE Pipe(c)!Finish \/ Stutters
  <2>1. /\ UNCHANGED <<thr, buf, inq, outq, sent, got, peer, rst, fds, hand, proc>>
        /\ peer[e] = "open" /\ ~eof[Toward(e)] /\ outq[Toward(e)] = <<>>
        /\ Told(Toward(e)) /\ eof' = [eof EXCEPT ![Toward(e)] = TRUE]
    BY <1>8 DEF ReceiveEnd, tunnelVars
  <2>2. CASE c # Toward(e)
    <3>1. eof'[c] = eof[c]
      BY <1>0, <2>1, <2>2 DEF Types
    <3>2. InPipe(c)' = InPipe(c) /\ (Broken(c)' <=> Broken(c))
      BY <2>1 DEF InPipe, Unwritten, Broken
    <3>3. Stutters
      BY <1>0, <2>1, <3>1, <3>2, PipeStutters
    <3> QED BY <3>3
  <2>3. CASE c = Toward(e)
    <3>1. eof'[c] = TRUE /\ ~eof[c] /\ outq[c] = <<>> /\ peer[Dst(c)] = "open"
      BY <1>0, <2>1, <2>3 DEF Types
    <3>2. proc = "up" /\ hand # "refused" => thr[c] = "done"
      <4>1. CASE e \notin fds /\ proc = "up"
        BY <1>0, <2>1, <4>1 DEF Control, HandlerInv, Types, End
      <4>2. thr[c] = "done" \/ e \notin fds
        BY <2>1, <2>3 DEF Told
      <4> QED BY <4>1, <4>2
    <3>3. CASE proc = "up" /\ hand # "refused"
      <4>1. buf[c] = <<>> /\ inq[c] = <<>> /\ peer[Src(c)] = "closed"
        BY <1>0, <3>2, <3>3 DEF ThreadInv
      <4>2. InPipe(c) = <<>>
        BY <3>1, <4>1, ConcatEmptySeq, EmptySeq DEF InPipe, Unwritten
      <4>3. InPipe(c)' = InPipe(c)
        BY <2>1 DEF InPipe, Unwritten
      <4>4. Pipe(c)!Finish
        BY <2>1, <3>1, <4>1, <4>2, <4>3 DEF Pipe!Finish, Broken
      <4> QED BY <4>4
    <3>4. CASE ~(proc = "up" /\ hand # "refused")
      <4>1. InPipe(c) = <<>> /\ InPipe(c)' = <<>> /\ Broken(c)
        BY <2>1, <3>1, <3>4 DEF InPipe, Broken
      <4>2. Pipe(c)!Finish
        BY <2>1, <3>1, <4>1 DEF Pipe!Finish, Broken
      <4> QED BY <4>2
    <3> QED BY <3>3, <3>4
  <2> QED BY <2>2, <2>3
<1>9. ASSUME NEW e \in End, Close(e) PROVE Pipe(c)!CloseSource \/ Pipe(c)!CloseSink
  <2>1. /\ UNCHANGED <<buf, inq, outq, sent, got, eof, rst, hand, proc>> /\ peer[e] = "open"
        /\ peer' = [peer EXCEPT ![e] = "closed"]
    BY <1>9 DEF Close, tunnelVars
  <2>2. Broken(c)' = Broken(c)
    BY <2>1 DEF Broken
  <2>3. CASE e = Src(c)
    <3>1. peer'[Src(c)] = "closed" /\ peer[Src(c)] # "closed" /\ peer'[Dst(c)] = peer[Dst(c)]
      BY <1>0, <2>1, <2>3 DEF Types
    <3>2. InPipe(c)' = InPipe(c)
      BY <2>1, <3>1 DEF InPipe, Unwritten
    <3>3. Pipe(c)!CloseSource
      BY <2>1, <2>2, <3>1, <3>2, Zenon DEF Pipe!CloseSource
    <3> QED BY <3>3
  <2>4. CASE e # Src(c)
    <3>1. e = Dst(c)
      BY <2>4 DEF Src, Dst, End, Dir
    <3>2. peer'[Dst(c)] = "closed" /\ peer[Dst(c)] # "closed" /\ peer'[Src(c)] = peer[Src(c)]
      BY <1>0, <2>1, <3>1 DEF Types
    <3>3. InPipe(c)' = <<>>
      BY <3>2 DEF InPipe
    <3>4. Pipe(c)!CloseSink
      BY <2>1, <2>2, <3>2, <3>3 DEF Pipe!CloseSink
    <3> QED BY <3>4
  <2> QED BY <2>3, <2>4
<1>10. ASSUME NEW e \in End, Reset(e) PROVE Pipe(c)!Break \/ Stutters
  <2>1. PICK n \in 0 .. Len(inq[From(e)]) :
          inq' = [inq EXCEPT ![From(e)] = Take(@, n)]
    BY <1>10 DEF Reset
  <2>2. /\ UNCHANGED <<buf, outq, sent, got, eof, peer, hand, proc>>
        /\ rst' = [rst EXCEPT ![e] = TRUE]
    BY <1>10 DEF Reset, endVars
  <2>3. CASE c # From(e)
    <3>1. inq'[c] = inq[c] /\ rst'[Src(c)] = rst[Src(c)]
      BY <1>0, <2>1, <2>2, <2>3 DEF Types
    <3>2. InPipe(c)' = InPipe(c) /\ (Broken(c)' <=> Broken(c))
      BY <2>2, <3>1 DEF InPipe, Unwritten, Broken
    <3>3. Stutters
      BY <1>0, <2>2, <3>2, PipeStutters
    <3> QED BY <3>3
  <2>4. CASE c = From(e)
    <3>1. inq'[c] \in Seq(Unit) /\ IsPrefix(inq'[c], inq[c]) /\ rst'[Src(c)]
      BY <1>0, <1>z, <2>1, <2>2, <2>4, CutAndJoin DEF Types, Take
    <3>2. IsPrefix(Unwritten(c)', Unwritten(c)) /\ Unwritten(c)' \in Seq(Unit)
      BY <1>z, <2>2, <3>1, PrefixUnderConcat, ConcatLength DEF Unwritten
    <3>3. IsPrefix(outq[c] \o Unwritten(c)', outq[c] \o Unwritten(c))
      BY <1>z, <3>2, PrefixUnderConcat
    <3>4. IsPrefix(<<>>, <<>>) /\ IsPrefix(outq[c], outq[c])
      BY <1>z, PrefixReflexive, EmptySeq
    <3>5. IsPrefix(InPipe(c)', InPipe(c))
      BY <2>2, <3>3, <3>4 DEF InPipe
    <3>6. Pipe(c)!Break
      BY <1>0, <1>z, <2>2, <3>1, <3>5, PipeBreaks DEF Broken
    <3> QED BY <3>6
  <2> QED BY <2>3, <2>4
<1>11. CASE UNCHANGED vars
  <2>1. UNCHANGED <<sent, got, eof, peer, rst, hand, proc>> /\ InPipe(c)' = InPipe(c)
    BY <1>11 DEF vars, tunnelVars, endVars, InPipe, Unwritten
  <2> QED BY <1>s, <2>1
<1> QED
  BY <1>1, <1>2, <1>3, <1>4, <1>5, <1>6, <1>7, <1>8, <1>9, <1>10, <1>11
     DEF Next, Handle, Forward, Program, WriteKills, Stop, Pipe!Next

\* In each direction the tunnel implements an ordered pipe ...
LEMMA DirectionIsPipe == ASSUME NEW d \in Dir PROVE Spec => Pipe(d)!Spec
<1>1. Init => EndInv(d)
  BY DEF Init, EndInv
<1>2. IInv /\ EndInv(d) /\ [Next]_vars => EndInv(d)'
  BY EndStep
<1>3. IInv /\ EndInv(d) /\ [Next]_vars => [Pipe(d)!Next]_(Pipe(d)!pipeVars)
  BY PipeStep
<1>4. Init => Pipe(d)!Init
  BY PipeInit
<1> QED BY <1>1, <1>2, <1>3, <1>4, InvInit, InvStep, PTL DEF Spec, Pipe!Spec

\* ... so orders go through a pipe ...
LEMMA RequestsPipe == Spec => RequestsArePipe
<1>1. "req" \in Dir
  BY DEF Dir
<1>2. Pipe("req")!Init => Requests!Init
  BY DEF Pipe!Init, Requests!Init
<1>3. [Pipe("req")!Next]_(Pipe("req")!pipeVars) => [Requests!Next]_(Requests!pipeVars)
  BY DEF Pipe!Next, Pipe!pipeVars, Pipe!Put, Pipe!Get, Pipe!Finish, Pipe!CloseSource,
         Pipe!CloseSink, Pipe!Break, Requests!Next, Requests!pipeVars, Requests!Put,
         Requests!Get, Requests!Finish, Requests!CloseSource, Requests!CloseSink,
         Requests!Break
<1>4. Spec => Pipe("req")!Spec
  BY <1>1, DirectionIsPipe
<1> QED BY <1>2, <1>3, <1>4, PTL DEF Pipe!Spec, RequestsArePipe, Requests!Spec

\* ... and reports through another: handle_client and its two threads are two pipes.
THEOREM TunnelRefinesPipes == Spec => TunnelIsPipes
<1>1. "rsp" \in Dir
  BY DEF Dir
<1>2. Pipe("rsp")!Init => Replies!Init
  BY DEF Pipe!Init, Replies!Init
<1>3. [Pipe("rsp")!Next]_(Pipe("rsp")!pipeVars) => [Replies!Next]_(Replies!pipeVars)
  BY DEF Pipe!Next, Pipe!pipeVars, Pipe!Put, Pipe!Get, Pipe!Finish, Pipe!CloseSource,
         Pipe!CloseSink, Pipe!Break, Replies!Next, Replies!pipeVars, Replies!Put,
         Replies!Get, Replies!Finish, Replies!CloseSource, Replies!CloseSink,
         Replies!Break
<1>4. Spec => Pipe("rsp")!Spec
  BY <1>1, DirectionIsPipe
<1>5. Spec => RepliesArePipe
  BY <1>2, <1>3, <1>4, PTL DEF Pipe!Spec, RepliesArePipe, Replies!Spec
<1> QED BY <1>5, RequestsPipe DEF TunnelIsPipes
=============================================================================
