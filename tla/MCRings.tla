------------------------------ MODULE MCRings ------------------------------
(* Instances of Rings for TLC: who writes and who reads.                    *)
EXTENDS Rings

CONSTANTS a, b

\* Sequences whose bytes can be told apart.
Mixed == {<<1>>, <<1, 2>>, <<1, 2, 1>>}
Equal == [t \in Task |-> 1]

\* A receiver: the handler writes, a task reads.
Receive  == {<<Interrupt, "write">>, <<a, "read">>}
\* A transmitter: a task writes, the handler reads.
Transmit == {<<a, "write">>, <<Interrupt, "read">>}
\* The calls that transfer several bytes.
Block    == {<<a, "writeBuffer">>, <<b, "readBuffer">>, <<b, "peekContiguous">>,
             <<b, "skipContiguous">>}
Sound    == {Receive, Transmit, Block}
=============================================================================
