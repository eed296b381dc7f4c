------------------------------- MODULE YouTube -------------------------------
(***************************************************************************)
(* The RabbitMQ program of Assignment_1: YoutubeServer.py between the two  *)
(* queues it consumes and the queues of the users, User.py and Youtuber.py *)
(*                                                                         *)
(* The broker keeps a message at the head of its queue until it is         *)
(* acknowledged and delivers it again to a server that was started anew;   *)
(* queues of messages are first in, first out, but nothing orders one      *)
(* queue with another.  The broker itself does not stop.  Videos are       *)
(* numbered in the order in which they are published.                      *)
(***************************************************************************)
EXTENDS Naturals, Sequences, FiniteSets, SequencesExt

CONSTANTS
    User, Youtuber,
    None,           \* no upload is being handled
    MaxRequests,    \* bound: runs of User.py
    MaxVideos,      \* bound: runs of Youtuber.py
    MaxCrashes      \* bound: restarts of the server

ASSUME TubeAssumption ==
    /\ None \notin Youtuber /\ None \notin Seq(User)
    /\ MaxRequests \in Nat /\ MaxVideos \in Nat /\ MaxCrashes \in Nat

VARIABLES
    user_requests, youtuber_requests, notifications,   \* the broker's queues
    users,          \* the youtubers each user subscribes to, in the server
    subscriptions,  \* the subscribers of each youtuber, in the server
    youtubers,      \* the videos of each youtuber, in the server
    handling,       \* the users the upload being handled is still to be told to
    session,        \* whether each user's program runs
    buffer,         \* notifications a user's program has got and not printed
    asked,          \* history: every user request, in order
    published,      \* how many videos there are
    told,           \* history: how often each user was sent each video
    crashes

serverVars == <<users, subscriptions, youtubers, handling>>
clientVars == <<session, buffer>>
vars == <<user_requests, youtuber_requests, notifications, serverVars, clientVars,
          asked, published, told, crashes>>
-----------------------------------------------------------------------------
Video == 1..MaxVideos
Upload == [youtuber : Youtuber, video : Video]
Request == [user : User, action : {"login", "subscribe", "unsubscribe"},
            youtuber : Youtuber \cup {None}]

Empty == [u \in User |-> <<>>]
NoVideos == [y \in Youtuber |-> <<>>]

Init ==
    /\ user_requests = <<>> /\ youtuber_requests = <<>> /\ notifications = Empty
    /\ users = Empty /\ subscriptions = NoVideos /\ youtubers = NoVideos
    /\ handling = None
    /\ session = [u \in User |-> FALSE] /\ buffer = Empty
    /\ asked = <<>> /\ published = 0
    /\ told = [u \in User |-> [v \in Video |-> 0]] /\ crashes = 0

-----------------------------------------------------------------------------
\* YoutubeServer.py.

\* (mutant) Whoever is on a list already is put there again.
AddedAgain(list, x) == Append(list, x)

Added(list, x) == IF x \in ToSet(list) THEN list ELSE Append(list, x)

\* (mutant) The list is kept.
NotRemoved(list, x) == list

Removed(list, x) == IF x \in ToSet(list) THEN RemoveFirst(list, x) ELSE list

\* One callback at a time: it takes the message at the head of a queue, and what it
\* leaves in memory and the acknowledgement are lost together if the server stops.
ConsumeUserRequest ==
    /\ handling = None /\ user_requests # <<>>
    /\ LET r == Head(user_requests)
           u == r.user
           y == r.youtuber
       IN  CASE r.action = "subscribe" ->
                    /\ users' = [users EXCEPT ![u] = Added(@, y)]
                    /\ subscriptions' = [subscriptions EXCEPT ![y] = Added(@, u)]
             [] r.action = "unsubscribe" ->
                    /\ users' = [users EXCEPT ![u] = Removed(@, y)]
                    /\ subscriptions' = [subscriptions EXCEPT ![y] = Removed(@, u)]
             [] OTHER -> UNCHANGED <<users, subscriptions>>
    /\ user_requests' = Tail(user_requests)
    /\ UNCHANGED <<youtuber_requests, notifications, youtubers, handling, clientVars,
                   asked, published, told, crashes>>

\* An upload: the video is remembered, ...
ConsumeUpload ==
    /\ handling = None /\ youtuber_requests # <<>>
    /\ LET r == Head(youtuber_requests)
       IN  /\ youtubers' = [youtubers EXCEPT ![r.youtuber] = Append(@, r.video)]
           /\ handling' = subscriptions[r.youtuber]
    /\ UNCHANGED <<user_requests, youtuber_requests, notifications, users, subscriptions,
                   clientVars, asked, published, told, crashes>>

\* ... its subscribers are notified one after the other, ...
NotifyUser ==
    /\ handling \notin {None, <<>>}
    /\ LET u == Head(handling)
           v == Head(youtuber_requests).video
       IN  /\ notifications' = [notifications EXCEPT ![u] = Append(@, v)]
           /\ told' = [told EXCEPT ![u][v] = @ + 1]
    /\ handling' = Tail(handling)
    /\ UNCHANGED <<user_requests, youtuber_requests, users, subscriptions, youtubers,
                   clientVars, asked, published, crashes>>

\* (mutant) The upload is acknowledged before its subscribers are notified.
AnyTime == TRUE

\* (mutant) A youtuber nobody subscribed to cannot be looked up.
SomebodyNotified ==
    handling = <<>> /\ subscriptions[Head(youtuber_requests).youtuber] # <<>>

AllNotified == handling = <<>>

\* ... and it is acknowledged.
AcknowledgeUpload ==
    /\ handling # None /\ AllNotified
    /\ youtuber_requests' = Tail(youtuber_requests)
    /\ handling' = None
    /\ UNCHANGED <<user_requests, notifications, users, subscriptions, youtubers,
                   clientVars, asked, published, told, crashes>>

\* The server stops, at any point, and is started: its dictionaries are empty.
ServerRestarts ==
    /\ crashes < MaxCrashes /\ crashes' = crashes + 1
    /\ users' = Empty /\ subscriptions' = NoVideos /\ youtubers' = NoVideos
    /\ handling' = None
    /\ UNCHANGED <<user_requests, youtuber_requests, notifications, clientVars, asked,
                   published, told>>

-----------------------------------------------------------------------------
\* User.py: a request, and then notifications until the user stops it.
Login(u, action, y) ==
    /\ ~session[u] /\ Len(asked) < MaxRequests
    /\ LET r == [user |-> u, action |-> action, youtuber |-> y]
       IN  user_requests' = Append(user_requests, r) /\ asked' = Append(asked, r)
    /\ session' = [session EXCEPT ![u] = TRUE]
    /\ UNCHANGED <<youtuber_requests, notifications, serverVars, buffer,
                   published, told, crashes>>

\* The broker hands a notification over and, as auto_ack asks, forgets it.
Deliver(u) ==
    /\ session[u] /\ notifications[u] # <<>>
    /\ buffer' = [buffer EXCEPT ![u] = Append(@, Head(notifications[u]))]
    /\ notifications' = [notifications EXCEPT ![u] = Tail(@)]
    /\ UNCHANGED <<user_requests, youtuber_requests, serverVars, session,
                   asked, published, told, crashes>>

\* What is printed leaves the program.
PrintNotification(u) ==
    /\ session[u] /\ buffer[u] # <<>>
    /\ buffer' = [buffer EXCEPT ![u] = Tail(@)]
    /\ UNCHANGED <<user_requests, youtuber_requests, notifications, serverVars, session,
                   asked, published, told, crashes>>

\* The user stops the program: what it has got and not printed is lost.
Logout(u) ==
    /\ session[u] /\ session' = [session EXCEPT ![u] = FALSE]
    /\ buffer' = [buffer EXCEPT ![u] = <<>>]
    /\ UNCHANGED <<user_requests, youtuber_requests, notifications, serverVars,
                   asked, published, told, crashes>>

\* Youtuber.py.
PublishVideo(y) ==
    /\ published < MaxVideos /\ published' = published + 1
    /\ youtuber_requests' = Append(youtuber_requests,
                                   [youtuber |-> y, video |-> published + 1])
    /\ UNCHANGED <<user_requests, notifications, serverVars, clientVars, asked, told,
                   crashes>>

-----------------------------------------------------------------------------
HandleUpload == ConsumeUpload \/ NotifyUser \/ AcknowledgeUpload
Receive(u) == Deliver(u) \/ PrintNotification(u)

Next ==
    \/ ConsumeUserRequest \/ HandleUpload \/ ServerRestarts
    \/ \E u \in User :
           \/ Login(u, "login", None) \/ Receive(u) \/ Logout(u)
           \/ \E y \in Youtuber, a \in {"subscribe", "unsubscribe"} : Login(u, a, y)
    \/ \E y \in Youtuber : PublishVideo(y)

\* The server takes what either queue brings; users need not do anything.
Fairness == SF_vars(ConsumeUserRequest) /\ SF_vars(HandleUpload)

Spec == Init /\ [][Next]_vars /\ Fairness
=============================================================================
