--------------------------- MODULE PqcTunnelPipe ---------------------------
(***************************************************************************)
(* Each direction of the PQC tunnel implements OrderedPipe.                *)
(***************************************************************************)
EXTENDS PqcTunnel

\* The pipe is broken for the programs at its ends when the proxy has ended,
\* when BIST could not be connected, or when the source's connection was reset.
Broken(d) == proc # "up" \/ hand = "refused" \/ rst[Src(d)]

\* What the pipe holds: nothing once the sink has closed, and only what was
\* written to the sink once no thread is left to write more.
InPipe(d) ==
    IF peer[Dst(d)] = "closed" THEN <<>>
    ELSE IF proc # "up" \/ hand = "refused" THEN outq[d]
    ELSE outq[d] \o Unwritten(d)

Requests == INSTANCE OrderedPipe WITH
    sent       <- sent["req"],
    got        <- got["req"],
    transit    <- InPipe("req"),
    srcClosed  <- peer[Src("req")] = "closed",
    sinkClosed <- peer[Dst("req")] = "closed",
    broken     <- Broken("req"),
    eof        <- eof["req"]

Replies == INSTANCE OrderedPipe WITH
    sent       <- sent["rsp"],
    got        <- got["rsp"],
    transit    <- InPipe("rsp"),
    srcClosed  <- peer[Src("rsp")] = "closed",
    sinkClosed <- peer[Dst("rsp")] = "closed",
    broken     <- Broken("rsp"),
    eof        <- eof["rsp"]

(***************************************************************************)
(* The tunnel from the client to BIST, and from BIST to the client, is an  *)
(* ordered pipe: handle_client and the two forward_data threads, with all  *)
(* their sockets, do nothing a pipe may not do.                            *)
(***************************************************************************)
RequestsArePipe == Requests!Spec
RepliesArePipe  == Replies!Spec

TunnelIsPipes == RequestsArePipe /\ RepliesArePipe
=============================================================================
