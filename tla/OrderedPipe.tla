---------------------------- MODULE OrderedPipe ----------------------------
(***************************************************************************)
(* What one direction of a tunnel promises to the two programs at its      *)
(* ends, whatever runs between them: a pipe that delivers in order what    *)
(* was put in, and ends after the last unit.  It may break, and then lose  *)
(* what it still holds, but it never delivers anything else.               *)
(***************************************************************************)
EXTENDS Integers, Sequences

CONSTANT Unit

VARIABLES
    sent,        \* all that was put in
    got,         \* all that was taken out
    transit,     \* what is in the pipe
    srcClosed,   \* the source puts nothing in any more
    sinkClosed,  \* the sink takes nothing out any more
    broken,      \* the pipe has failed
    eof          \* the sink was told that nothing more comes

pipeVars == <<sent, got, transit, srcClosed, sinkClosed, broken, eof>>

\* Every state in which a pipe has been asked for nothing yet.
Init ==
    /\ sent = <<>> /\ got = <<>> /\ transit = <<>>
    /\ srcClosed = FALSE /\ sinkClosed = FALSE /\ broken = FALSE
    /\ eof = FALSE

\* The source puts a unit in.  A pipe that leads nowhere swallows it.
Put ==
    /\ ~srcClosed
    /\ \E u \in Unit :
         /\ sent' = Append(sent, u)
         /\ transit' = IF sinkClosed \/ broken THEN transit ELSE Append(transit, u)
    /\ UNCHANGED <<got, srcClosed, sinkClosed, broken, eof>>

Get ==
    /\ ~sinkClosed /\ ~eof
    /\ transit # <<>>
    /\ got' = Append(got, Head(transit))
    /\ transit' = Tail(transit)
    /\ UNCHANGED <<sent, srcClosed, sinkClosed, broken, eof>>

\* The sink is told that nothing more comes: all is delivered and the source
\* is closed, or the pipe is broken.
Finish ==
    /\ ~sinkClosed /\ ~eof
    /\ transit = <<>>
    /\ srcClosed \/ broken
    /\ eof' = TRUE
    /\ UNCHANGED <<sent, got, transit, srcClosed, sinkClosed, broken>>

CloseSource ==
    /\ ~srcClosed /\ srcClosed' = TRUE
    /\ UNCHANGED <<sent, got, transit, sinkClosed, broken, eof>>

\* What is still in the pipe has nobody to go to.
CloseSink ==
    /\ ~sinkClosed /\ sinkClosed' = TRUE
    /\ transit' = <<>>
    /\ UNCHANGED <<sent, got, srcClosed, broken, eof>>

\* The pipe fails, and only a prefix of what it holds comes out.
Break ==
    /\ broken' = TRUE
    /\ \E n \in 0..Len(transit) : transit' = SubSeq(transit, 1, n)
    /\ UNCHANGED <<sent, got, srcClosed, sinkClosed, eof>>

Next == Put \/ Get \/ Finish \/ CloseSource \/ CloseSink \/ Break

Spec == Init /\ [][Next]_pipeVars
=============================================================================
