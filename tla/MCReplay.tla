------------------------------ MODULE MCReplay ------------------------------
(* Small instances of Replay for TLC.                                      *)
EXTENDS Replay, TLC

\* Core 0 and 1 on the two sockets, core 2 on one that the table has no room for.
MCSocketOf == (0 :> 0) @@ (1 :> 1) @@ (2 :> 2) @@ (3 :> 0)

T(rx0, rx1, rx3, tx0, tx1, tx2, tx3) ==
    [rx |-> (0 :> rx0) @@ (1 :> rx1) @@ (2 :> <<>>) @@ (3 :> rx3),
     tx |-> (0 :> tx0) @@ (1 :> tx1) @@ (2 :> tx2) @@ (3 :> tx3)]

MCTables == {
    \* both cores receive and send, on two ports, one of which only sends
    T(<< <<0, 0>> >>, << <<0, 1>> >>, <<>>, << <<0, 0>> >>, << <<1, 0>> >>, <<>>, <<>>),
    \* one core receives from two queues and the other one sends to two: the pool is
    \* short by one mbuf
    T(<< <<0, 0>>, <<1, 0>> >>, <<>>, <<>>, <<>>, << <<0, 0>>, <<0, 1>> >>, <<>>, <<>>),
    \* one core receives from two queues and nobody sends: the pool is ample
    T(<< <<0, 0>>, <<1, 0>> >>, <<>>, <<>>, <<>>, <<>>, <<>>, <<>>),
    \* three receive queues and a sender: short by two
    T(<< <<0, 0>>, <<0, 1>>, <<1, 0>> >>, <<>>, <<>>, <<>>, << <<0, 0>> >>, <<>>, <<>>),
    \* three receive queues of core 3, which is not launched: the pool is just ample
    T(<<>>, <<>>, << <<0, 0>>, <<0, 1>>, <<1, 0>> >>, <<>>, << <<0, 0>> >>, <<>>, <<>>),
    \* a transmit queue of core 3
    T(<< <<0, 0>> >>, <<>>, <<>>, <<>>, << <<0, 0>> >>, <<>>, << <<1, 0>> >>),
    \* queue 1 without queue 0
    T(<< <<0, 1>> >>, <<>>, <<>>, << <<0, 0>> >>, <<>>, <<>>, <<>>),
    \* no core on socket 0
    T(<<>>, << <<0, 0>> >>, <<>>, <<>>, << <<0, 0>> >>, <<>>, <<>>),
    \* a core on socket 2
    T(<< <<0, 0>> >>, <<>>, <<>>, <<>>, <<>>, << <<0, 0>> >>, <<>>)}
=============================================================================
