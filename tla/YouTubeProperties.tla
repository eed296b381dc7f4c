-------------------------- MODULE YouTubeProperties --------------------------
(***************************************************************************)
(* What the server of YouTube promises users and youtubers.                *)
(***************************************************************************)
EXTENDS YouTube

\* The type invariant, with the two dictionaries of the server told as one: users and
\* subscriptions hold the same pairs, and nobody is on a list twice.
TypeOK ==
    /\ user_requests \in Seq(Request) /\ asked \in Seq(Request)
    /\ youtuber_requests \in Seq(Upload)
    /\ \A q \in {notifications, buffer} : q \in [User -> Seq(Video)]
    /\ users \in [User -> Seq(Youtuber)] /\ subscriptions \in [Youtuber -> Seq(User)]
    /\ youtubers \in [Youtuber -> Seq(Video)]
    /\ handling # None => handling \in Seq(User) /\ youtuber_requests # <<>>
    /\ session \in [User -> BOOLEAN] /\ published \in 0..MaxVideos
    /\ told \in [User -> [Video -> Nat]] /\ crashes \in 0..MaxCrashes
    /\ \A u \in User, y \in Youtuber :
           /\ y \in ToSet(users[u]) <=> u \in ToSet(subscriptions[y])
           /\ IsInjective(users[u]) /\ IsInjective(subscriptions[y])

\* The last thing u asked about y, among the requests the server took, is to subscribe.
LastAskedToSubscribe(u, y) ==
    \E i \in 1..(Len(asked) - Len(user_requests)) :
        /\ asked[i] = [user |-> u, action |-> "subscribe", youtuber |-> y]
        /\ \A j \in (i + 1)..(Len(asked) - Len(user_requests)) :
               asked[j].user = u /\ asked[j].youtuber = y => asked[j].action = "subscribe"

\* consume_user_requests: the subscriptions are what the requests taken so far ask for;
\* a restart loses subscriptions, and brings none back that was ended.
SubscribedAsAsked ==
    \A u \in User, y \in Youtuber :
        /\ u \in ToSet(subscriptions[y]) => LastAskedToSubscribe(u, y)
        /\ crashes = 0 /\ LastAskedToSubscribe(u, y) => u \in ToSet(subscriptions[y])

\* A subscriber is sent a video once, and once more at most for every restart of the
\* server, which may find the upload unacknowledged (basic_ack comes last).
CopiesBounded ==
    \A u \in User, v \in Video : told[u][v] <= 1 + crashes

\* An upload leaves its queue only when every subscriber the server has was sent it, also
\* when it was taken by a server that stopped; of those whose subscription a stop lost
\* nothing is said.
AcknowledgedMeansNotified ==
    [][\A y \in Youtuber, v \in Video :
           LET r == [youtuber |-> y, video |-> v]
           IN  r \in ToSet(youtuber_requests) \ ToSet(youtuber_requests')
                   => \A u \in ToSet(subscriptions[y]) : told[u][v] >= 1]_vars

\* Every upload is taken, for the two queues the server consumes are served in turn
\* (Fairness): a server started anew takes what the one before it left.
EveryUploadTaken ==
    \A y \in Youtuber, v \in Video :
        LET r == [youtuber |-> y, video |-> v]
        IN  r \in ToSet(youtuber_requests) ~> r \notin ToSet(youtuber_requests)
=============================================================================
