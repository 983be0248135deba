------------------------------ MODULE BrokerFeed ------------------------------
(***************************************************************************)
(* The broker as an implementation of Feed: the history is the log of      *)
(* commits, and the feed of a client what is in its channel.  A query may  *)
(* get NotAvailable where its token does not let it read.                  *)
(***************************************************************************)
EXTENDS Broker

Channels == [s \in Streams |-> stream[s].chan]

F == INSTANCE Feed WITH
        Readers <- Streams, Masked <- Queriers, Withheld <- Some(NotAvailable),
        Value <- Value, history <- log, feed <- Channels

\* With its locks, its tasks that wait in the middle of a call, calls that are
\* cut short and tokens that expire, the broker does nothing that Feed does not
\* allow: whoever is sent something by update_entries, subscribe or
\* subscribe_query is sent a view of the database as it is at that moment,
\* never of an older state nor of two of them.
ImplementsFeed == F!FeedSpec

==============================================================================
