--------------------------------- MODULE Feed ---------------------------------
(***************************************************************************)
(* What the databroker promises to those who subscribe, without locks,     *)
(* tasks and permissions: there is one history of states of the database,  *)
(* and what a subscriber is sent is at that moment a view of its latest    *)
(* state, of that state alone.                                             *)
(***************************************************************************)
EXTENDS Integers, Sequences

CONSTANTS
    Readers,        \* those who subscribe
    Masked,         \* those to whom a value may be withheld
    Withheld,       \* what they get instead of it
    Value(_, _)     \* of a field of an entry

VARIABLES
    history,        \* the states of the database, in order
    feed            \* what each reader was sent and has not yet read

feedVars == << history, feed >>

FeedInit == Len(history) = 1 /\ feed = [r \in Readers |-> << >>]

Commit ==
    /\ history' = Append(history, history'[Len(history')])
    /\ UNCHANGED feed

\* The message is a view of the latest state.
Current(r, m) ==
    /\ m.commit = Len(history)
    /\ \A k \in DOMAIN m.body :
          \/ m.body[k] = Value(history[Len(history)][k[1]], k[2])
          \/ r \in Masked /\ m.body[k] = Withheld

Publish(r) ==
    /\ Len(feed'[r]) > 0
    /\ LET m == feed'[r][Len(feed'[r])]
       IN  feed' = [feed EXCEPT ![r] = Append(@, m)] /\ Current(r, m)
    /\ UNCHANGED history

\* The reader takes the first message.
Take(r) ==
    /\ feed[r] # << >>
    /\ feed' = [feed EXCEPT ![r] = Tail(@)]
    /\ UNCHANGED history

\* The reader goes.
Drop(r) ==
    /\ feed' = [feed EXCEPT ![r] = << >>]
    /\ UNCHANGED history

FeedNext ==
    \/ Commit
    \/ \E r \in Readers : Publish(r) \/ Take(r) \/ Drop(r)

FeedSpec == FeedInit /\ [][FeedNext]_feedVars

==============================================================================
