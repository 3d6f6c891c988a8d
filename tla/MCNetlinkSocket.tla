-------------------------- MODULE MCNetlinkSocket --------------------------
(* Constants for model checking NetlinkSocket. *)
EXTENDS NetlinkSocket

Dg(kinds) == [kinds |-> kinds, trunc |-> FALSE]
CutDg(kinds) == [kinds |-> kinds, trunc |-> TRUE]

\* No answer (a command without NLM_F_ACK), an error, and a dump in two datagrams, the
\* first with two messages.
SmallShapes == {<<>>, <<Dg(<<"error">>)>>, <<Dg(<<"data", "data">>), Dg(<<"ack">>)>>}
\* As above with a dump whose first datagram does not fit the receive buffer.
CutShapes == {<<>>, <<Dg(<<"error">>)>>, <<CutDg(<<"data", "data">>), Dg(<<"ack">>)>>}
\* An acknowledgement or an error.
AckErrorShapes == {<<Dg(<<"ack">>)>>, <<Dg(<<"error">>)>>}

SendOnly == {{"send"}}
SendReply == {{"send"}, {"send", "reply"}}
=============================================================================
