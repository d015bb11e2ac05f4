--------------------------- MODULE MCChannelPool ---------------------------
(* A goroutine that publishes, and a consumer.                 *)
EXTENDS ChannelPool

CONSTANTS publisher, consumer

MCUsers == {publisher, consumer}
MCSubscribers == {consumer}
MCChannels == 1 .. 6

=============================================================================
