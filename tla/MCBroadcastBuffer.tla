------------------------- MODULE MCBroadcastBuffer --------------------------
(* A broadcast of four packets; commands with and without a body.          *)
EXTENDS BroadcastBuffer

Cmd(t, n) == [tick |-> t, body_size |-> n]

MCPackets == <<
    << Cmd(-1, 2), Cmd(-1, 0) >>,
    << Cmd(0, 2) >>,
    << Cmd(0, 0), Cmd(1, 1) >>,
    << Cmd(2, 0), Cmd(3, 1), Cmd(3, 0) >> >>

MCBuffers == {"Last", "Seekable"}
MCTargets == -2..4
=============================================================================
