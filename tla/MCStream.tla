------------------------------ MODULE MCStream ------------------------------
(* Instances of StreamBuffer for TLC.                                      *)
EXTENDS StreamBuffer, MCMain

CONSTANTS ta, tb, idle, null, stream1, batch1, message1, message2, none, byte1, byte2, nil

TwoTasks == {ta, tb, idle}

MainOfTwo == {<< <<ta, 0>>, <<tb, 1>> >>}

OneList == {-7}

\* Task ta sends bytes to tb by stream1, tb sends messages to a handler by message1,
\* and a handler sends messages to tb by message2.  By batch1 ta sends batches to tb.
Kinds == (stream1 :> "stream") @@ (batch1 :> "batching")
           @@ [i \in {message1, message2} |-> "message"]

Sizes == [i \in {stream1, message1} |-> 2] @@ [i \in {batch1, message2} |-> 3]

Triggers == [i \in {stream1, batch1} |-> 2] @@ [i \in {message1, message2} |-> 1]

Sends == {<<ta, stream1, 1, byte1, 1>>, <<ta, stream1, 2, byte2, 0>>,
          <<tb, message1, 1, byte1, 1>>, <<tb, message1, 1, byte2, 0>>,
          <<tb, message1, 2, byte2, 1>>,
          <<ta, batch1, 1, byte1, 1>>, <<ta, batch1, 2, byte2, 1>>}

Receives == {<<tb, stream1, 1, 2>>, <<tb, message2, 1, 0>>, <<tb, message2, 2, 3>>,
             <<tb, batch1, 3, 3>>}

HandlersUse == {<<"receive", message1, 1, nil>>, <<"receiveCompleted", message1, 0, nil>>,
                <<"reset", message1, 0, nil>>,
                <<"send", message2, 1, byte1>>, <<"send", message2, 2, byte2>>,
                <<"sendCompleted", message2, 0, nil>>}

Managers == {<<tb, stream1, 0>>, <<tb, message2, 3>>, <<tb, message2, 1>>}

\* The buffers share nothing, so a behaviour uses one of them.
VARIABLE chosen

MCStreamInit == StreamInit /\ chosen \in Buffers

OnlyChosen ==
  /\ \A i \in Buffers \ {chosen} : buffer'[i] = buffer[i]
  /\ \A t \in Tasks : sb'[t].buffer \in {chosen, NoBuffer}

MCStreamNext == StreamNext /\ FollowsMain /\ OnlyChosen /\ UNCHANGED chosen

MCStreamSpec == MCStreamInit /\ [][MCStreamNext]_<<svars, chosen>>
=============================================================================
