---------------------------- MODULE YouTubeProofs ----------------------------
(***************************************************************************)
(* Proofs about YouTube for every set of users and youtubers and every     *)
(* bound.  Subscriptions need that the queue of requests is what was asked *)
(* and not yet taken; notifications need that uploads are numbered in the  *)
(* order of their queue and who of an upload's subscribers was told.       *)
(***************************************************************************)
EXTENDS YouTubeProperties, Integers, TLAPS

USE TubeAssumption
-----------------------------------------------------------------------------
(* The strengthening. *)

\* How many user requests the server has taken.
Taken == Len(asked) - Len(user_requests)

\* Only subscribing and unsubscribing name a youtuber, and what is in the queue is
\* what was asked last, in order.
RequestsInv ==
    /\ \A i \in 1..Len(asked) :
           IF asked[i].action = "login" THEN asked[i].youtuber = None
           ELSE asked[i].youtuber \in Youtuber
    /\ Len(user_requests) <= Len(asked)
    /\ \A i \in 1..Len(user_requests) : user_requests[i] = asked[Taken + i]

\* Uploads wait in the order of their numbers.
OrderInv ==
    /\ \A i \in 1..Len(youtuber_requests) : youtuber_requests[i].video <= published
    /\ \A i, j \in 1..Len(youtuber_requests) :
           i < j => youtuber_requests[i].video < youtuber_requests[j].video

\* Nobody was sent a video that is not published, or whose upload is not the next; and
\* those the upload being handled is still to be told to are sent no more often than
\* the server has crashed.
ToldInv ==
    \A u \in User :
        /\ \A v \in Video : told[u][v] <= 1 + crashes
        /\ \A v \in Video : v > published => told[u][v] = 0
        /\ \A i \in 2..Len(youtuber_requests) : told[u][youtuber_requests[i].video] = 0
        /\ youtuber_requests # <<>> /\ (handling = None \/ u \in ToSet(handling))
           => told[u][Head(youtuber_requests).video] <= crashes

\* Of the subscribers of the upload being handled, the others were sent it.
HandlingInv ==
    handling # None =>
        /\ IsInjective(handling)
        /\ \A u \in ToSet(subscriptions[Head(youtuber_requests).youtuber]) :
               u \in ToSet(handling) \/ told[u][Head(youtuber_requests).video] >= 1

TubeInv == RequestsInv /\ SubscribedAsAsked /\ OrderInv /\ ToldInv /\ HandlingInv
-----------------------------------------------------------------------------
(* Lists of users and youtubers, nobody on them twice. *)

\* Appending who is not there.
LEMMA AppendList ==
    ASSUME NEW S, NEW s \in Seq(S), NEW x \in S
    PROVE  /\ Append(s, x) \in Seq(S) /\ ToSet(Append(s, x)) = ToSet(s) \cup {x}
           /\ IsInjective(s) /\ x \notin ToSet(s) => IsInjective(Append(s, x))
  <1>1. /\ DOMAIN Append(s, x) = 1..(Len(s) + 1) /\ DOMAIN s = 1..Len(s)
        /\ Len(s) \in Nat /\ Append(s, x) \in Seq(S)
        /\ \A k \in 1..Len(s) : Append(s, x)[k] = s[k]
        /\ Append(s, x)[Len(s) + 1] = x
    OBVIOUS
  <1>2. \A k \in 1..(Len(s) + 1) : k \in 1..Len(s) \/ k = Len(s) + 1
    BY <1>1
  <1>3. Len(s) + 1 \in 1..(Len(s) + 1) /\ \A k \in 1..Len(s) : k \in 1..(Len(s) + 1)
    BY <1>1
  <1>4. ToSet(Append(s, x)) = ToSet(s) \cup {x}
    BY <1>1, <1>2, <1>3, Zenon DEF ToSet
  <1>5. ASSUME IsInjective(s), x \notin ToSet(s) PROVE IsInjective(Append(s, x))
    BY <1>1, <1>2, <1>5, Zenon DEF ToSet, IsInjective
  <1> QED BY <1>1, <1>4, <1>5

\* Whoever is added is on the list once.
LEMMA AddedList ==
    ASSUME NEW S, NEW s \in Seq(S), NEW x \in S, IsInjective(s)
    PROVE  /\ Added(s, x) \in Seq(S) /\ IsInjective(Added(s, x))
           /\ ToSet(Added(s, x)) = ToSet(s) \cup {x}
  BY AppendList DEF Added

\* Two lists, one after the other.
LEMMA ConcatList ==
    ASSUME NEW S, NEW a \in Seq(S), NEW b \in Seq(S)
    PROVE  /\ a \o b \in Seq(S) /\ Len(a \o b) = Len(a) + Len(b)
           /\ \A k \in 1..(Len(a) + Len(b)) :
                  (a \o b)[k] = IF k <= Len(a) THEN a[k] ELSE b[k - Len(a)]
  OBVIOUS

\* Removing a place of a list removes who stands there, if nobody is on it twice.
LEMMA RemoveAtList ==
    ASSUME NEW S, NEW s \in Seq(S), IsInjective(s), NEW i \in 1..Len(s)
    PROVE  /\ RemoveAt(s, i) \in Seq(S) /\ IsInjective(RemoveAt(s, i))
           /\ ToSet(RemoveAt(s, i)) = ToSet(s) \ {s[i]}
  <1> DEFINE t == RemoveAt(s, i)
             At(k) == IF k < i THEN k ELSE k + 1
  <1>1. /\ t \in Seq(S) /\ Len(t) = Len(s) - 1
        /\ \A k \in 1..Len(t) : t[k] = s[At(k)]
    <2> DEFINE a == SubSeq(s, 1, i - 1)
               b == SubSeq(s, i + 1, Len(s))
    <2>1. /\ a \in Seq(S) /\ Len(a) = i - 1
          /\ \A k \in 1..(i - 1) : a[k] = s[k]
      OBVIOUS
    <2>2. /\ b \in Seq(S) /\ Len(b) = Len(s) - i
          /\ \A k \in 1..(Len(s) - i) : b[k] = s[i + k]
      OBVIOUS
    <2>3. t = a \o b
      BY DEF RemoveAt
    <2> HIDE DEF a, b, t
    <2>4. /\ t \in Seq(S) /\ Len(t) = Len(s) - 1
          /\ \A k \in 1..Len(t) : t[k] = IF k < i THEN a[k] ELSE b[k - (i - 1)]
      <3>1. /\ t \in Seq(S) /\ Len(t) = Len(a) + Len(b)
            /\ \A k \in 1..(Len(a) + Len(b)) :
                   t[k] = IF k <= Len(a) THEN a[k] ELSE b[k - Len(a)]
        BY <2>1, <2>2, <2>3, ConcatList
      <3>2. Len(s) \in Nat
        OBVIOUS
      <3> QED BY <2>1, <2>2, <3>1, <3>2
    <2>5. ASSUME NEW k \in 1..Len(t) PROVE t[k] = s[At(k)]
      <3>1. CASE k < i
        BY <2>1, <2>4, <3>1
      <3>2. CASE k >= i
        <4>1. k - (i - 1) \in 1..(Len(s) - i) /\ i + (k - (i - 1)) = k + 1
          BY <2>4, <3>2
        <4> QED BY <2>2, <2>4, <3>2, <4>1
      <3> QED BY <3>1, <3>2
    <2> QED BY <2>4, <2>5
  <1>2. /\ DOMAIN s = 1..Len(s) /\ DOMAIN t = 1..Len(t) /\ Len(s) \in Nat
        /\ \A k \in 1..Len(t) : At(k) \in 1..Len(s) /\ At(k) # i
        /\ \A j, k \in 1..Len(t) : At(j) = At(k) => j = k
    BY <1>1
  <1>3. \A n \in 1..Len(s) : n # i => \E k \in 1..Len(t) : At(k) = n
    <2> SUFFICES ASSUME NEW n \in 1..Len(s), n # i
                 PROVE  \E k \in 1..Len(t) : At(k) = n
      OBVIOUS
    <2>1. CASE n < i
      <3>1. n \in 1..Len(t) /\ At(n) = n
        BY <1>1, <2>1
      <3> QED BY <3>1
    <2>2. CASE n > i
      <3>1. n - 1 \in 1..Len(t) /\ At(n - 1) = n
        BY <1>1, <2>2
      <3> QED BY <3>1
    <2> QED BY <2>1, <2>2
  <1> HIDE DEF t, At
  <1>4. IsInjective(t)
    BY <1>1, <1>2 DEF IsInjective
  <1>5. ASSUME NEW y \in ToSet(t) PROVE y \in ToSet(s) \ {s[i]}
    <2>1. PICK k \in 1..Len(t) : y = t[k]
      BY <1>2, <1>5 DEF ToSet
    <2>2. y = s[At(k)] /\ At(k) \in 1..Len(s) /\ At(k) # i
      BY <1>1, <1>2, <2>1
    <2> QED BY <1>2, <2>2 DEF ToSet, IsInjective
  <1>6. ASSUME NEW y \in ToSet(s), y # s[i] PROVE y \in ToSet(t)
    <2>1. PICK n \in 1..Len(s) : y = s[n]
      BY <1>2, <1>6 DEF ToSet
    <2>2. PICK k \in 1..Len(t) : At(k) = n
      BY <1>3, <1>6, <2>1
    <2>3. t[k] = y
      BY <1>1, <2>1, <2>2
    <2> QED BY <1>2, <2>3 DEF ToSet
  <1> QED BY <1>1, <1>4, <1>5, <1>6 DEF t

\* Whoever is removed is not on the list, and the others stay.
LEMMA RemovedList ==
    ASSUME NEW S, NEW s \in Seq(S), NEW x, IsInjective(s)
    PROVE  /\ Removed(s, x) \in Seq(S) /\ IsInjective(Removed(s, x))
           /\ ToSet(Removed(s, x)) = ToSet(s) \ {x}
  <1>1. CASE x \notin ToSet(s)
    BY <1>1 DEF Removed
  <1>2. CASE x \in ToSet(s)
    <2>1. PICK i \in 1..Len(s) : s[i] = x
      BY <1>2 DEF ToSet
    <2>2. {k \in 1..Len(s) : s[k] = x} = {i}
      BY <2>1 DEF IsInjective
    <2>3. SelectInSeq(s, LAMBDA v : v = x) = i
      BY <2>1, <2>2 DEF SelectInSeq, Min
    <2>4. Removed(s, x) = RemoveAt(s, i)
      BY <1>2, <2>1, <2>3 DEF Removed, RemoveFirst
    <2> QED BY <2>1, <2>4, RemoveAtList
  <1> QED BY <1>1, <1>2

\* The rest of a list is the list without who was first.
LEMMA TailList ==
    ASSUME NEW S, NEW s \in Seq(S), s # <<>>
    PROVE  /\ Head(s) \in S /\ Head(s) \in ToSet(s) /\ Tail(s) \in Seq(S)
           /\ ToSet(s) = ToSet(Tail(s)) \cup {Head(s)}
           /\ IsInjective(s) => /\ IsInjective(Tail(s))
                                /\ ToSet(Tail(s)) = ToSet(s) \ {Head(s)}
  <1> DEFINE t == Tail(s)
  <1>1. /\ DOMAIN s = 1..Len(s) /\ Len(s) \in Nat \ {0} /\ t \in Seq(S)
        /\ Len(t) = Len(s) - 1 /\ DOMAIN t = 1..Len(t)
        /\ \A k \in 1..Len(t) : t[k] = s[k + 1]
        /\ Head(s) = s[1] /\ s[1] \in S
    OBVIOUS
  <1> HIDE DEF t
  <1>2. /\ 1 \in 1..Len(s)
        /\ \A k \in 1..Len(t) : k + 1 \in 1..Len(s) /\ k + 1 # 1
        /\ \A k \in 1..Len(s) : k = 1 \/ (k - 1 \in 1..Len(t) /\ t[k - 1] = s[k])
    BY <1>1
  <1>3. ToSet(s) = ToSet(t) \cup {Head(s)}
    <2>1. ASSUME NEW y \in ToSet(s) PROVE y \in ToSet(t) \cup {Head(s)}
      <3>1. PICK k \in 1..Len(s) : y = s[k]
        BY <1>1, <2>1 DEF ToSet
      <3> QED BY <1>1, <1>2, <3>1 DEF ToSet
    <2>2. ASSUME NEW y \in ToSet(t) PROVE y \in ToSet(s)
      <3>1. PICK k \in 1..Len(t) : y = t[k]
        BY <1>1, <2>2 DEF ToSet
      <3> QED BY <1>1, <1>2, <3>1 DEF ToSet
    <2>3. Head(s) \in ToSet(s)
      BY <1>1, <1>2 DEF ToSet
    <2> QED BY <2>1, <2>2, <2>3
  <1>4. ASSUME IsInjective(s) PROVE IsInjective(t) /\ Head(s) \notin ToSet(t)
    <2>1. ASSUME NEW j \in 1..Len(t), NEW k \in 1..Len(t), t[j] = t[k]
          PROVE  j = k
      <3>1. s[j + 1] = s[k + 1] /\ j + 1 \in 1..Len(s) /\ k + 1 \in 1..Len(s)
        BY <1>1, <1>2, <2>1
      <3>2. j + 1 = k + 1
        BY <1>1, <1>4, <3>1 DEF IsInjective
      <3> QED BY <3>2
    <2>2. IsInjective(t)
      BY <1>1, <2>1 DEF IsInjective
    <2>3. ASSUME Head(s) \in ToSet(t) PROVE FALSE
      <3>1. PICK k \in 1..Len(t) : Head(s) = t[k]
        BY <1>1, <2>3 DEF ToSet
      <3>2. s[k + 1] = s[1] /\ k + 1 \in 1..Len(s) /\ k + 1 # 1
        BY <1>1, <1>2, <3>1
      <3> QED BY <1>1, <1>2, <1>4, <3>2 DEF IsInjective
    <2> QED BY <2>2, <2>3
  <1> QED BY <1>1, <1>3, <1>4 DEF t

-----------------------------------------------------------------------------
(* Types. *)

\* What the conjuncts of TypeOK say, with the set of two queues spelt out.
LEMMA Types ==
    ASSUME TypeOK
    PROVE  /\ notifications \in [User -> Seq(Video)] /\ buffer \in [User -> Seq(Video)]
           /\ \A u \in User : users[u] \in Seq(Youtuber)
           /\ \A y \in Youtuber : subscriptions[y] \in Seq(User)
  BY DEF TypeOK

\* The request the server takes next, and the upload.
LEMMA NextRequest ==
    ASSUME TypeOK, RequestsInv, user_requests # <<>>
    PROVE  /\ Head(user_requests) = asked[Taken + 1] /\ Taken + 1 \in 1..Len(asked)
           /\ Head(user_requests) \in Request
           /\ Head(user_requests).action # "login" => Head(user_requests).youtuber \in Youtuber
           /\ Head(user_requests).action = "login" => Head(user_requests).youtuber = None
           /\ Tail(user_requests) \in Seq(Request)
           /\ Len(Tail(user_requests)) = Len(user_requests) - 1
           /\ \A i \in 1..Len(Tail(user_requests)) :
                  Tail(user_requests)[i] = user_requests[i + 1]
  <1>1. user_requests \in Seq(Request) /\ asked \in Seq(Request)
    BY DEF TypeOK
  <1>2. /\ Len(user_requests) \in Nat \ {0} /\ Len(asked) \in Nat
        /\ Head(user_requests) = user_requests[1] /\ user_requests[1] \in Request
        /\ Tail(user_requests) \in Seq(Request)
        /\ Len(Tail(user_requests)) = Len(user_requests) - 1
        /\ \A i \in 1..Len(Tail(user_requests)) :
               Tail(user_requests)[i] = user_requests[i + 1]
    BY <1>1
  <1>3. user_requests[1] = asked[Taken + 1] /\ Taken + 1 \in 1..Len(asked)
    BY <1>2 DEF RequestsInv, Taken
  <1> QED BY <1>2, <1>3 DEF RequestsInv

LEMMA InitTypes == Init => TypeOK
  <1> SUFFICES ASSUME Init PROVE TypeOK
    OBVIOUS
  <1>1. ToSet(<<>>) = {} /\ IsInjective(<<>>)
    BY DEF ToSet, IsInjective
  <1> QED BY <1>1 DEF Init, TypeOK, Empty, NoVideos, Video

LEMMA StepTypes == TypeOK /\ RequestsInv /\ HandlingInv /\ [Next]_vars => TypeOK'
  <1> SUFFICES ASSUME TypeOK, RequestsInv, HandlingInv, [Next]_vars PROVE TypeOK'
    OBVIOUS
  <1>0. notifications \in [User -> Seq(Video)] /\ buffer \in [User -> Seq(Video)]
    BY Types
  <1>1. CASE UNCHANGED vars
    BY <1>1 DEF vars, serverVars, clientVars, TypeOK
  <1>2. CASE ConsumeUserRequest
    <2> DEFINE r == Head(user_requests)
    <2>1. r.user \in User /\ Tail(user_requests) \in Seq(Request)
      BY <1>2, NextRequest DEF ConsumeUserRequest, Request
    <2>2. r.action # "login" => r.youtuber \in Youtuber
      BY <1>2, NextRequest DEF ConsumeUserRequest
    <2>3. r.action \in {"login", "subscribe", "unsubscribe"}
      BY <1>2, NextRequest DEF ConsumeUserRequest, Request
    <2> HIDE DEF r
    <2>5. r.action # "login" =>
              /\ users[r.user] \in Seq(Youtuber) /\ IsInjective(users[r.user])
              /\ subscriptions[r.youtuber] \in Seq(User)
              /\ IsInjective(subscriptions[r.youtuber])
      BY <2>1, <2>2 DEF TypeOK
    <2>4. /\ users' \in [User -> Seq(Youtuber)] /\ subscriptions' \in [Youtuber -> Seq(User)]
          /\ \A u \in User, y \in Youtuber :
                 /\ y \in ToSet(users'[u]) <=> u \in ToSet(subscriptions'[y])
                 /\ IsInjective(users'[u]) /\ IsInjective(subscriptions'[y])
      <3>1. CASE r.action = "subscribe"
        <4>1. /\ users' = [users EXCEPT ![r.user] = Added(@, r.youtuber)]
              /\ subscriptions' = [subscriptions EXCEPT ![r.youtuber] = Added(@, r.user)]
          BY <1>2, <3>1 DEF ConsumeUserRequest, r
        <4>2. /\ Added(users[r.user], r.youtuber) \in Seq(Youtuber)
              /\ IsInjective(Added(users[r.user], r.youtuber))
              /\ ToSet(Added(users[r.user], r.youtuber))
                     = ToSet(users[r.user]) \cup {r.youtuber}
          BY <2>1, <2>2, <2>5, <3>1, AddedList
        <4>3. /\ Added(subscriptions[r.youtuber], r.user) \in Seq(User)
              /\ IsInjective(Added(subscriptions[r.youtuber], r.user))
              /\ ToSet(Added(subscriptions[r.youtuber], r.user))
                     = ToSet(subscriptions[r.youtuber]) \cup {r.user}
          BY <2>1, <2>2, <2>5, <3>1, AddedList
        <4> QED BY <2>1, <2>2, <3>1, <4>1, <4>2, <4>3 DEF TypeOK
      <3>2. CASE r.action = "unsubscribe"
        <4>1. /\ users' = [users EXCEPT ![r.user] = Removed(@, r.youtuber)]
              /\ subscriptions' = [subscriptions EXCEPT ![r.youtuber] = Removed(@, r.user)]
          BY <1>2, <3>2 DEF ConsumeUserRequest, r
        <4>2. /\ Removed(users[r.user], r.youtuber) \in Seq(Youtuber)
              /\ IsInjective(Removed(users[r.user], r.youtuber))
              /\ ToSet(Removed(users[r.user], r.youtuber))
                     = ToSet(users[r.user]) \ {r.youtuber}
          BY <2>1, <2>2, <2>5, <3>2, RemovedList
        <4>3. /\ Removed(subscriptions[r.youtuber], r.user) \in Seq(User)
              /\ IsInjective(Removed(subscriptions[r.youtuber], r.user))
              /\ ToSet(Removed(subscriptions[r.youtuber], r.user))
                     = ToSet(subscriptions[r.youtuber]) \ {r.user}
          BY <2>1, <2>2, <2>5, <3>2, RemovedList
        <4> QED BY <2>1, <2>2, <3>2, <4>1, <4>2, <4>3 DEF TypeOK
      <3>3. CASE r.action = "login"
        <4>1. UNCHANGED <<users, subscriptions>>
          BY <1>2, <3>3 DEF ConsumeUserRequest, r
        <4> QED BY <4>1 DEF TypeOK
      <3> QED BY <2>3, <3>1, <3>2, <3>3
    <2> QED BY <1>2, <2>1, <2>4 DEF ConsumeUserRequest, clientVars, TypeOK
  <1>3. CASE ConsumeUpload
    <2>1. Head(youtuber_requests) \in Upload
      BY <1>3, TailList DEF ConsumeUpload, TypeOK
    <2>2. /\ youtubers' \in [Youtuber -> Seq(Video)] /\ handling' \in Seq(User)
      BY <1>3, <2>1 DEF ConsumeUpload, TypeOK, Upload
    <2> QED BY <1>3, <2>2 DEF ConsumeUpload, clientVars, TypeOK
  <1>4. CASE NotifyUser
    <2>1. /\ handling \in Seq(User) /\ handling # <<>> /\ youtuber_requests # <<>>
      BY <1>4 DEF NotifyUser, TypeOK
    <2>2. Head(youtuber_requests).video \in Video
      <3>1. youtuber_requests \in Seq(Upload)
        BY DEF TypeOK
      <3>2. Head(youtuber_requests) \in Upload
        BY <2>1, <3>1, TailList
      <3> QED BY <3>2 DEF Upload
    <2>3. Head(handling) \in User /\ Tail(handling) \in Seq(User)
      BY <2>1, TailList
    <2>4. notifications' \in [User -> Seq(Video)] /\ told' \in [User -> [Video -> Nat]]
      <3> DEFINE u == Head(handling)
                 v == Head(youtuber_requests).video
      <3>1. /\ notifications' = [notifications EXCEPT ![u] = Append(@, v)]
            /\ told' = [told EXCEPT ![u][v] = @ + 1]
        BY <1>4 DEF NotifyUser
      <3>2. u \in User /\ v \in Video /\ told \in [User -> [Video -> Nat]]
        BY <2>2, <2>3 DEF TypeOK
      <3> HIDE DEF u, v
      <3>3. Append(notifications[u], v) \in Seq(Video) /\ told[u][v] + 1 \in Nat
        BY <1>0, <3>2
      <3> QED BY <1>0, <3>1, <3>2, <3>3
    <2>5. /\ UNCHANGED <<user_requests, youtuber_requests, users, subscriptions, youtubers,
                         session, buffer, asked, published, crashes>>
          /\ handling' = Tail(handling)
      BY <1>4 DEF NotifyUser, clientVars
    <2> QED BY <1>0, <2>1, <2>3, <2>4, <2>5 DEF TypeOK
  <1>5. CASE AcknowledgeUpload
    <2>1. youtuber_requests # <<>>
      BY <1>5 DEF AcknowledgeUpload, TypeOK
    <2>2. Tail(youtuber_requests) \in Seq(Upload)
      BY <2>1, TailList DEF TypeOK
    <2> QED BY <1>5, <2>2 DEF AcknowledgeUpload, clientVars, TypeOK
  <1>6. CASE ServerRestarts
    <2>1. ToSet(<<>>) = {} /\ IsInjective(<<>>)
      BY DEF ToSet, IsInjective
    <2>2. crashes + 1 \in 0..MaxCrashes
      BY <1>6 DEF ServerRestarts, TypeOK
    <2> QED BY <1>6, <2>1, <2>2 DEF ServerRestarts, clientVars, Empty, NoVideos, TypeOK
  <1>7. ASSUME NEW u \in User, NEW a \in {"login", "subscribe", "unsubscribe"},
               NEW y \in Youtuber \cup {None}, Login(u, a, y)
        PROVE  TypeOK'
    <2> DEFINE r == [user |-> u, action |-> a, youtuber |-> y]
    <2>1. r \in Request
      BY DEF Request
    <2>2. Append(user_requests, r) \in Seq(Request) /\ Append(asked, r) \in Seq(Request)
      BY <2>1 DEF TypeOK
    <2> QED BY <1>7, <2>2 DEF Login, serverVars, TypeOK
  <1>8. ASSUME NEW u \in User, Receive(u) \/ Logout(u) PROVE TypeOK'
    <2>1. /\ notifications' \in [User -> Seq(Video)] /\ buffer' \in [User -> Seq(Video)]
          /\ session' \in [User -> BOOLEAN]
      <3>1. CASE Deliver(u)
        <4>1. /\ Head(notifications[u]) \in Video /\ Tail(notifications[u]) \in Seq(Video)
              /\ buffer[u] \in Seq(Video)
          BY <1>0, <3>1, TailList DEF Deliver
        <4>2. Append(buffer[u], Head(notifications[u])) \in Seq(Video)
          BY <4>1
        <4> QED BY <1>0, <3>1, <4>1, <4>2 DEF Deliver, TypeOK
      <3>2. CASE PrintNotification(u)
        <4>1. Tail(buffer[u]) \in Seq(Video)
          BY <1>0, <3>2, TailList DEF PrintNotification
        <4> QED BY <1>0, <3>2, <4>1 DEF PrintNotification, TypeOK
      <3>3. CASE Logout(u)
        BY <1>0, <3>3 DEF Logout, TypeOK
      <3> QED BY <1>8, <3>1, <3>2, <3>3 DEF Receive
    <2>2. UNCHANGED <<user_requests, youtuber_requests, serverVars, asked, published,
                      told, crashes>>
      BY <1>8 DEF Receive, Deliver, PrintNotification, Logout
    <2> QED BY <2>1, <2>2 DEF serverVars, TypeOK
  <1>9. ASSUME NEW y \in Youtuber, PublishVideo(y) PROVE TypeOK'
    <2> DEFINE r == [youtuber |-> y, video |-> published + 1]
    <2>1. published + 1 \in Video /\ published + 1 \in 0..MaxVideos
      BY <1>9 DEF PublishVideo, TypeOK, Video
    <2>2. r \in Upload
      BY <2>1 DEF Upload
    <2>3. Append(youtuber_requests, r) \in Seq(Upload) /\ Append(youtuber_requests, r) # <<>>
      <3> HIDE DEF r
      <3>1. youtuber_requests \in Seq(Upload)
        BY DEF TypeOK
      <3>2. Append(youtuber_requests, r) \in Seq(Upload)
        BY <2>2, <3>1
      <3>3. Len(Append(youtuber_requests, r)) = Len(youtuber_requests) + 1
        BY <2>2, <3>1
      <3> QED BY <3>1, <3>2, <3>3
    <2> QED BY <1>9, <2>1, <2>3 DEF PublishVideo, serverVars, clientVars, TypeOK
  <1> QED BY <1>1, <1>2, <1>3, <1>4, <1>5, <1>6, <1>7, <1>8, <1>9 DEF Next, HandleUpload

-----------------------------------------------------------------------------
(* Requests and subscriptions. *)

\* Steps that neither ask nor take a request.
LEMMA RequestsUnchanged ==
    ASSUME RequestsInv, UNCHANGED <<asked, user_requests>>
    PROVE  RequestsInv'
  BY DEF RequestsInv, Taken

LEMMA RequestsLogin ==
    ASSUME TypeOK, RequestsInv, NEW u \in User, NEW a, NEW y,
           a \in {"login", "subscribe", "unsubscribe"},
           IF a = "login" THEN y = None ELSE y \in Youtuber, Login(u, a, y)
    PROVE  RequestsInv' /\ Taken' = Taken /\ \A i \in 1..Taken : asked'[i] = asked[i]
  <1> DEFINE r == [user |-> u, action |-> a, youtuber |-> y]
  <1>1. /\ user_requests' = Append(user_requests, r) /\ asked' = Append(asked, r)
        /\ user_requests \in Seq(Request) /\ asked \in Seq(Request) /\ r \in Request
    BY DEF Login, TypeOK, Request
  <1>2. IF r.action = "login" THEN r.youtuber = None ELSE r.youtuber \in Youtuber
    OBVIOUS
  <1> HIDE DEF r
  <1>3. /\ Len(user_requests') = Len(user_requests) + 1 /\ Len(asked') = Len(asked) + 1
        /\ \A i \in 1..Len(user_requests) : user_requests'[i] = user_requests[i]
        /\ \A i \in 1..Len(asked) : asked'[i] = asked[i]
        /\ user_requests'[Len(user_requests) + 1] = r /\ asked'[Len(asked) + 1] = r
        /\ Len(user_requests) \in Nat /\ Len(asked) \in Nat
    BY <1>1
  <1>4. Taken' = Taken /\ Taken \in Nat /\ Taken + Len(user_requests) = Len(asked)
    BY <1>3 DEF RequestsInv, Taken
  <1>5. \A i \in 1..Len(asked') : IF asked'[i].action = "login"
            THEN asked'[i].youtuber = None ELSE asked'[i].youtuber \in Youtuber
    <2> SUFFICES ASSUME NEW i \in 1..(Len(asked) + 1)
                 PROVE  IF asked'[i].action = "login"
                        THEN asked'[i].youtuber = None ELSE asked'[i].youtuber \in Youtuber
      BY <1>3
    <2>1. i \in 1..Len(asked) \/ i = Len(asked) + 1
      BY <1>3
    <2> QED BY <1>2, <1>3, <2>1 DEF RequestsInv
  <1>6. \A i \in 1..Len(user_requests') : user_requests'[i] = asked'[Taken' + i]
    <2> SUFFICES ASSUME NEW i \in 1..(Len(user_requests) + 1)
                 PROVE  user_requests'[i] = asked'[Taken + i]
      BY <1>3, <1>4
    <2>1. CASE i \in 1..Len(user_requests)
      <3>1. Taken + i \in 1..Len(asked)
        BY <1>3, <1>4, <2>1
      <3> QED BY <1>3, <2>1, <3>1 DEF RequestsInv
    <2>2. CASE i = Len(user_requests) + 1
      <3>1. Taken + i = Len(asked) + 1
        BY <1>3, <1>4, <2>2
      <3> QED BY <1>3, <2>2, <3>1
    <2> QED BY <1>3, <2>1, <2>2
  <1>7. \A i \in 1..Taken : i \in 1..Len(asked)
    BY <1>3, <1>4
  <1> QED BY <1>3, <1>4, <1>5, <1>6, <1>7 DEF RequestsInv

LEMMA RequestsTaken ==
    ASSUME TypeOK, RequestsInv, user_requests # <<>>,
           user_requests' = Tail(user_requests), UNCHANGED asked
    PROVE  RequestsInv' /\ Taken' = Taken + 1 /\ Taken \in Nat
  <1>1. /\ Len(user_requests') = Len(user_requests) - 1
        /\ \A i \in 1..Len(user_requests') : user_requests'[i] = user_requests[i + 1]
    BY NextRequest
  <1>2. Len(user_requests) \in Nat \ {0} /\ Len(asked) \in Nat
    BY DEF TypeOK
  <1>3. Taken' = Taken + 1 /\ Taken \in Nat
    BY <1>1, <1>2 DEF Taken, RequestsInv
  <1>4. ASSUME NEW i \in 1..Len(user_requests') PROVE user_requests'[i] = asked[Taken' + i]
    <2>1. i + 1 \in 1..Len(user_requests) /\ Taken + (i + 1) = Taken' + i
      BY <1>1, <1>2, <1>3
    <2> QED BY <1>1, <2>1 DEF RequestsInv
  <1> QED BY <1>1, <1>2, <1>3, <1>4 DEF RequestsInv

\* The last request about y that the server took decides.
LEMMA LastTaken ==
    ASSUME TypeOK, RequestsInv, user_requests # <<>>,
           user_requests' = Tail(user_requests), UNCHANGED asked,
           NEW u \in User, NEW y \in Youtuber
    PROVE  LET r == Head(user_requests)
           IN  LastAskedToSubscribe(u, y)' <=>
                   IF r.user = u /\ r.youtuber = y THEN r.action = "subscribe"
                   ELSE LastAskedToSubscribe(u, y)
  <1> DEFINE r == Head(user_requests)
             n == Taken
             About(i) == asked[i].user = u /\ asked[i].youtuber = y
             Wish(i, m) == /\ asked[i] = [user |-> u, action |-> "subscribe", youtuber |-> y]
                           /\ \A j \in (i + 1)..m : About(j) => asked[j].action = "subscribe"
  <1>1. n \in Nat /\ Taken' = n + 1
    BY RequestsTaken
  <1>2. r = asked[n + 1] /\ r \in Request
    BY NextRequest
  <1>3. /\ LastAskedToSubscribe(u, y) <=> \E i \in 1..n : Wish(i, n)
        /\ LastAskedToSubscribe(u, y)' <=> \E i \in 1..(n + 1) : Wish(i, n + 1)
    BY <1>1 DEF LastAskedToSubscribe, Taken
  <1> HIDE DEF n, r
  <1>4. CASE About(n + 1) /\ r.action = "subscribe"
    <2>1. asked[n + 1] = [user |-> u, action |-> "subscribe", youtuber |-> y]
      BY <1>2, <1>4 DEF Request
    <2>2. Wish(n + 1, n + 1)
      BY <1>1, <2>1
    <2> QED BY <1>1, <1>2, <1>3, <1>4, <2>2 DEF r
  <1>5. CASE About(n + 1) /\ r.action # "subscribe"
    <2>1. ASSUME NEW i \in 1..(n + 1), Wish(i, n + 1) PROVE FALSE
      <3>1. CASE i = n + 1
        BY <1>2, <1>5, <2>1, <3>1
      <3>2. CASE i # n + 1
        <4>1. n + 1 \in (i + 1)..(n + 1)
          BY <1>1, <3>2
        <4> QED BY <1>2, <1>5, <2>1, <4>1
      <3> QED BY <3>1, <3>2
    <2> QED BY <1>2, <1>3, <1>5, <2>1 DEF r
  <1>6. CASE ~About(n + 1)
    <2>1. ASSUME NEW i \in 1..n, Wish(i, n) PROVE Wish(i, n + 1)
      <3>1. \A j \in (i + 1)..(n + 1) : j \in (i + 1)..n \/ j = n + 1
        BY <1>1
      <3> QED BY <1>6, <2>1, <3>1
    <2>2. ASSUME NEW i \in 1..(n + 1), Wish(i, n + 1) PROVE i \in 1..n /\ Wish(i, n)
      <3>1. i # n + 1
        BY <1>6, <2>2
      <3>2. i \in 1..n /\ \A j \in (i + 1)..n : j \in (i + 1)..(n + 1)
        BY <1>1, <3>1
      <3> QED BY <2>2, <3>2
    <2>3. \A i \in 1..n : i \in 1..(n + 1)
      BY <1>1
    <2> HIDE DEF Wish
    <2>4. LastAskedToSubscribe(u, y)' <=> LastAskedToSubscribe(u, y)
      BY <1>3, <2>1, <2>2, <2>3
    <2> QED BY <1>2, <1>6, <2>4 DEF r
  <1> QED BY <1>4, <1>5, <1>6

\* Taking a request subscribes whom it says, unsubscribes whom it says, nobody else.
LEMMA SubscribersTaken ==
    ASSUME TypeOK, RequestsInv, ConsumeUserRequest, NEW u \in User, NEW y \in Youtuber
    PROVE  LET r == Head(user_requests)
           IN  u \in ToSet(subscriptions'[y]) <=>
                   IF r.user = u /\ r.youtuber = y THEN r.action = "subscribe"
                   ELSE u \in ToSet(subscriptions[y])
  <1> DEFINE r == Head(user_requests)
             list == subscriptions[r.youtuber]
  <1>1. /\ r.user \in User /\ r.action \in {"login", "subscribe", "unsubscribe"}
        /\ r.action # "login" => r.youtuber \in Youtuber
        /\ r.action = "login" => r.youtuber = None
    BY NextRequest DEF ConsumeUserRequest, Request
  <1>2. /\ r.action = "subscribe" =>
               subscriptions' = [subscriptions EXCEPT ![r.youtuber] = Added(@, r.user)]
        /\ r.action = "unsubscribe" =>
               subscriptions' = [subscriptions EXCEPT ![r.youtuber] = Removed(@, r.user)]
        /\ r.action = "login" => subscriptions' = subscriptions
    BY <1>1 DEF ConsumeUserRequest
  <1>3. subscriptions \in [Youtuber -> Seq(User)]
    BY DEF TypeOK
  <1>4. r.action # "login" => list \in Seq(User) /\ IsInjective(list)
    BY <1>1, <1>3 DEF TypeOK
  <1>5. r.action # "login" => /\ ToSet(Added(list, r.user)) = ToSet(list) \cup {r.user}
                              /\ ToSet(Removed(list, r.user)) = ToSet(list) \ {r.user}
    <2> HIDE DEF r, list
    <2> SUFFICES ASSUME r.action # "login"
                 PROVE  /\ ToSet(Added(list, r.user)) = ToSet(list) \cup {r.user}
                        /\ ToSet(Removed(list, r.user)) = ToSet(list) \ {r.user}
      OBVIOUS
    <2>1. r.user \in User /\ list \in Seq(User) /\ IsInjective(list)
      BY <1>1, <1>4
    <2>2. ToSet(Added(list, r.user)) = ToSet(list) \cup {r.user}
      BY <2>1, AddedList
    <2>3. ToSet(Removed(list, r.user)) = ToSet(list) \ {r.user}
      BY <2>1, RemovedList
    <2> QED BY <2>2, <2>3
  <1> HIDE DEF r
  <1>6. CASE r.action = "login"
    BY <1>1, <1>2, <1>6 DEF r
  <1>7. CASE r.action = "subscribe"
    BY <1>1, <1>2, <1>3, <1>5, <1>7 DEF r
  <1>8. CASE r.action = "unsubscribe"
    BY <1>1, <1>2, <1>3, <1>5, <1>8 DEF r
  <1> QED BY <1>1, <1>6, <1>7, <1>8

LEMMA StepSubscribed ==
    TypeOK /\ RequestsInv /\ SubscribedAsAsked /\ [Next]_vars
    => RequestsInv' /\ SubscribedAsAsked'
  <1> SUFFICES ASSUME TypeOK, RequestsInv, SubscribedAsAsked, [Next]_vars
               PROVE  RequestsInv' /\ SubscribedAsAsked'
    OBVIOUS
  <1>1. CASE ConsumeUserRequest
    <2>1. /\ user_requests # <<>> /\ user_requests' = Tail(user_requests)
          /\ UNCHANGED <<asked, crashes>>
      BY <1>1 DEF ConsumeUserRequest
    <2> QED BY <1>1, <2>1, RequestsTaken, LastTaken, SubscribersTaken DEF SubscribedAsAsked
  <1>2. CASE ServerRestarts
    <2>1. /\ subscriptions' = NoVideos /\ crashes' = crashes + 1 /\ crashes \in Nat
          /\ UNCHANGED <<asked, user_requests>>
      BY <1>2 DEF ServerRestarts, TypeOK
    <2>2. ToSet(<<>>) = {}
      BY DEF ToSet
    <2>3. SubscribedAsAsked'
      BY <2>1, <2>2 DEF SubscribedAsAsked, NoVideos
    <2> QED BY <2>1, <2>3, RequestsUnchanged
  <1>3. ASSUME NEW u \in User, NEW a \in {"login", "subscribe", "unsubscribe"},
               NEW y, IF a = "login" THEN y = None ELSE y \in Youtuber, Login(u, a, y)
        PROVE  RequestsInv' /\ SubscribedAsAsked'
    <2>1. RequestsInv' /\ Taken' = Taken /\ \A i \in 1..Taken : asked'[i] = asked[i]
      BY <1>3, RequestsLogin
    <2>2. Taken \in Nat
      BY DEF Taken, TypeOK, RequestsInv
    <2>3. ASSUME NEW w \in User, NEW z \in Youtuber
          PROVE  LastAskedToSubscribe(w, z)' <=> LastAskedToSubscribe(w, z)
      <3> DEFINE n == Taken
      <3>1. n \in Nat /\ n' = n /\ \A i \in 1..n : asked'[i] = asked[i]
        BY <2>1, <2>2
      <3>2. /\ n = Len(asked) - Len(user_requests)
            /\ n' = Len(asked') - Len(user_requests')
        BY DEF Taken
      <3> HIDE DEF n
      <3>3. \A i \in 1..n : \A j \in (i + 1)..n : j \in 1..n
        BY <3>1
      <3> DEFINE r == [user |-> w, action |-> "subscribe", youtuber |-> z]
                 Still(x) == x.user = w /\ x.youtuber = z => x.action = "subscribe"
      <3>4. /\ LastAskedToSubscribe(w, z) <=>
                   \E i \in 1..n : asked[i] = r /\ \A j \in (i + 1)..n : Still(asked[j])
            /\ LastAskedToSubscribe(w, z)' <=>
                   \E i \in 1..n' : asked'[i] = r /\ \A j \in (i + 1)..n' : Still(asked'[j])
        BY <3>2 DEF LastAskedToSubscribe
      <3> HIDE DEF r, Still
      <3> QED BY <3>1, <3>3, <3>4
    <2>4. UNCHANGED <<subscriptions, crashes>>
      BY <1>3 DEF Login, serverVars
    <2> QED BY <2>1, <2>3, <2>4 DEF SubscribedAsAsked
  <1>4. CASE \/ UNCHANGED vars \/ HandleUpload
             \/ \E u \in User : Receive(u) \/ Logout(u)
             \/ \E y \in Youtuber : PublishVideo(y)
    <2>1. UNCHANGED <<asked, user_requests, subscriptions, crashes>>
      BY <1>4 DEF vars, serverVars, HandleUpload, ConsumeUpload, NotifyUser,
         AcknowledgeUpload, Receive, Deliver, PrintNotification, Logout, PublishVideo
    <2>2. \A u \in User, y \in Youtuber :
              LastAskedToSubscribe(u, y)' <=> LastAskedToSubscribe(u, y)
      BY <2>1 DEF LastAskedToSubscribe
    <2> QED BY <2>1, <2>2, RequestsUnchanged DEF SubscribedAsAsked
  <1> QED BY <1>1, <1>2, <1>3, <1>4 DEF Next

-----------------------------------------------------------------------------
(* Uploads and notifications. *)

\* The upload handled next, and the queue behind it.
LEMMA NextUpload ==
    ASSUME TypeOK, youtuber_requests # <<>>
    PROVE  /\ Head(youtuber_requests) = youtuber_requests[1]
           /\ Head(youtuber_requests) \in Upload
           /\ Len(youtuber_requests) \in Nat \ {0}
           /\ Tail(youtuber_requests) \in Seq(Upload)
           /\ Len(Tail(youtuber_requests)) = Len(youtuber_requests) - 1
           /\ \A i \in 1..Len(Tail(youtuber_requests)) :
                  Tail(youtuber_requests)[i] = youtuber_requests[i + 1]
  <1>1. youtuber_requests \in Seq(Upload)
    BY DEF TypeOK
  <1> QED BY <1>1

\* Steps that touch neither uploads nor what was sent.
LEMMA UploadsUnchanged ==
    ASSUME OrderInv, ToldInv, HandlingInv,
           UNCHANGED <<youtuber_requests, published, told, handling, crashes>>,
           handling = None \/ UNCHANGED subscriptions
    PROVE  OrderInv' /\ ToldInv' /\ HandlingInv'
  BY DEF OrderInv, ToldInv, HandlingInv

LEMMA ConsumeUploadStep ==
    ASSUME TypeOK, OrderInv, ToldInv, HandlingInv, ConsumeUpload
    PROVE  OrderInv' /\ ToldInv' /\ HandlingInv'
  <1>1. /\ handling = None /\ youtuber_requests # <<>>
        /\ handling' = subscriptions[Head(youtuber_requests).youtuber]
        /\ UNCHANGED <<youtuber_requests, published, told, subscriptions, crashes>>
    BY DEF ConsumeUpload
  <1>2. Head(youtuber_requests).youtuber \in Youtuber
    BY <1>1, NextUpload DEF Upload
  <1>3. IsInjective(handling')
    <2>1. handling' \in Seq(User)
      BY <1>1, <1>2 DEF TypeOK
    <2>2. ASSUME NEW u \in User PROVE IsInjective(handling')
      BY <1>1, <1>2 DEF TypeOK
    <2>3. \A k \in DOMAIN handling' : handling'[k] \in User
      BY <2>1
    <2> QED BY <2>2, <2>3 DEF IsInjective
  <1>5. HandlingInv'
    BY <1>1, <1>3 DEF HandlingInv
  <1> QED BY <1>1, <1>5 DEF OrderInv, ToldInv

LEMMA NotifyStep ==
    ASSUME TypeOK, OrderInv, ToldInv, HandlingInv, NotifyUser
    PROVE  OrderInv' /\ ToldInv' /\ HandlingInv'
  <1> DEFINE u == Head(handling)
             v == Head(youtuber_requests).video
  <1>1. /\ handling # None /\ handling # <<>> /\ handling' = Tail(handling)
        /\ told' = [told EXCEPT ![u][v] = @ + 1]
        /\ UNCHANGED <<youtuber_requests, published, subscriptions, crashes>>
    BY DEF NotifyUser
  <1>2. handling \in Seq(User) /\ youtuber_requests # <<>>
    BY <1>1 DEF TypeOK
  <1>3. /\ u \in User /\ u \in ToSet(handling) /\ IsInjective(Tail(handling))
        /\ ToSet(Tail(handling)) = ToSet(handling) \ {u} /\ Tail(handling) \in Seq(User)
    BY <1>1, <1>2, TailList DEF HandlingInv
  <1>4. v = youtuber_requests[1].video /\ v \in Video /\ Len(youtuber_requests) \in Nat \ {0}
    BY <1>2, NextUpload DEF Upload
  <1>5. /\ v <= published
        /\ \A i \in 2..Len(youtuber_requests) : /\ youtuber_requests[i].video # v
                                                 /\ youtuber_requests[i].video \in Video
    <2>1. \A i \in 2..Len(youtuber_requests) : youtuber_requests[i] \in Upload
      BY DEF TypeOK
    <2> QED BY <1>4, <2>1 DEF OrderInv, Upload, Video
  <1>6. told[u][v] <= crashes /\ told[u][v] \in Nat /\ crashes \in Nat /\ published \in Nat
    BY <1>2, <1>3, <1>4 DEF ToldInv, TypeOK
  <1>7. \A w \in User, x \in Video :
            told'[w][x] = IF w = u /\ x = v THEN told[u][v] + 1 ELSE told[w][x]
    BY <1>1, <1>3, <1>4 DEF TypeOK
  <1>8. None \notin Seq(User)
    OBVIOUS
  <1>9. ToldInv'
    <2>0. handling' # None
      BY <1>1, <1>3, <1>8
    <2> SUFFICES ASSUME NEW w \in User
                 PROVE  /\ \A x \in Video : told'[w][x] <= 1 + crashes
                        /\ \A x \in Video : x > published => told'[w][x] = 0
                        /\ \A i \in 2..Len(youtuber_requests) :
                               told'[w][youtuber_requests[i].video] = 0
                        /\ w \in ToSet(handling') => told'[w][v] <= crashes
      BY <1>1, <2>0, Zenon DEF ToldInv
    <2>1. \A x \in Video : told'[w][x] <= 1 + crashes
      BY <1>6, <1>7 DEF ToldInv
    <2>2. \A x \in Video : x > published => told'[w][x] = 0
      BY <1>4, <1>5, <1>6, <1>7 DEF ToldInv, Video
    <2>3. \A i \in 2..Len(youtuber_requests) : told'[w][youtuber_requests[i].video] = 0
      BY <1>5, <1>7 DEF ToldInv
    <2>4. w \in ToSet(handling') => told'[w][v] <= crashes
      BY <1>1, <1>2, <1>3, <1>4, <1>7 DEF ToldInv
    <2> QED BY <2>1, <2>2, <2>3, <2>4
  <1>10. HandlingInv'
    <2> SUFFICES ASSUME NEW w \in ToSet(subscriptions[Head(youtuber_requests).youtuber])
                 PROVE  w \in ToSet(Tail(handling)) \/ told'[w][v] >= 1
      BY <1>1, <1>3 DEF HandlingInv
    <2>1. w \in User
      <3>1. Head(youtuber_requests).youtuber \in Youtuber
        BY <1>2, NextUpload DEF Upload
      <3>2. subscriptions[Head(youtuber_requests).youtuber] \in Seq(User)
        BY <3>1 DEF TypeOK
      <3> QED BY <3>2 DEF ToSet
    <2>2. w \in ToSet(handling) \/ told[w][v] >= 1
      BY <1>1 DEF HandlingInv
    <2> QED BY <1>3, <1>4, <1>6, <1>7, <2>1, <2>2
  <1>11. OrderInv'
    BY <1>1 DEF OrderInv
  <1> QED BY <1>9, <1>10, <1>11

LEMMA AcknowledgeStep ==
    ASSUME TypeOK, OrderInv, ToldInv, AcknowledgeUpload
    PROVE  OrderInv' /\ ToldInv' /\ HandlingInv'
  <1>1. /\ handling # None /\ handling' = None
        /\ youtuber_requests' = Tail(youtuber_requests)
        /\ UNCHANGED <<published, told, crashes>>
    BY DEF AcknowledgeUpload
  <1>2. /\ youtuber_requests # <<>> /\ Len(youtuber_requests) \in Nat \ {0}
        /\ Len(youtuber_requests') = Len(youtuber_requests) - 1
        /\ \A i \in 1..Len(youtuber_requests') :
               /\ youtuber_requests'[i] = youtuber_requests[i + 1]
               /\ i + 1 \in 1..Len(youtuber_requests)
               /\ i + 1 \in 2..Len(youtuber_requests)
    BY <1>1, NextUpload DEF TypeOK
  <1>3. OrderInv'
    BY <1>1, <1>2 DEF OrderInv
  <1>4. HandlingInv'
    BY <1>1 DEF HandlingInv
  <1>5. ASSUME youtuber_requests' # <<>>
        PROVE  /\ 2 \in 2..Len(youtuber_requests)
               /\ Head(youtuber_requests') = youtuber_requests[2]
    <2>1. youtuber_requests' \in Seq(Upload)
      BY <1>1, <1>2, NextUpload
    <2>2. Head(youtuber_requests') = youtuber_requests'[1] /\ 1 \in 1..Len(youtuber_requests')
      BY <1>5, <2>1
    <2> QED BY <1>2, <2>2
  <1>6. ToldInv'
    <2> SUFFICES ASSUME NEW u \in User
                 PROVE  /\ \A v \in Video : told[u][v] <= 1 + crashes
                        /\ \A v \in Video : v > published => told[u][v] = 0
                        /\ \A i \in 2..Len(youtuber_requests') :
                               told[u][youtuber_requests'[i].video] = 0
                        /\ youtuber_requests' # <<>>
                           => told[u][Head(youtuber_requests').video] <= crashes
      BY <1>1, Zenon DEF ToldInv
    <2>1. \A i \in 2..Len(youtuber_requests') : told[u][youtuber_requests'[i].video] = 0
      <3> SUFFICES ASSUME NEW i \in 2..Len(youtuber_requests')
                   PROVE  told[u][youtuber_requests'[i].video] = 0
        OBVIOUS
      <3>1. i \in 1..Len(youtuber_requests')
        BY <1>2
      <3>2. /\ youtuber_requests'[i] = youtuber_requests[i + 1]
            /\ i + 1 \in 2..Len(youtuber_requests)
        BY <1>2, <3>1
      <3>3. told[u][youtuber_requests[i + 1].video] = 0
        BY <3>2 DEF ToldInv
      <3> QED BY <3>2, <3>3
    <2>2. youtuber_requests' # <<>> => told[u][Head(youtuber_requests').video] <= crashes
      <3>1. crashes \in Nat
        BY DEF TypeOK
      <3> QED BY <1>5, <3>1 DEF ToldInv
    <2> QED BY <2>1, <2>2 DEF ToldInv
  <1> QED BY <1>3, <1>4, <1>6

LEMMA RestartStep ==
    ASSUME TypeOK, OrderInv, ToldInv, ServerRestarts
    PROVE  OrderInv' /\ ToldInv' /\ HandlingInv'
  <1>1. /\ handling' = None /\ crashes' = crashes + 1 /\ crashes \in Nat
        /\ UNCHANGED <<youtuber_requests, published, told>>
    BY DEF ServerRestarts, TypeOK
  <1>2. ASSUME NEW u \in User, NEW v \in Video
        PROVE  told[u][v] \in Nat /\ told[u][v] <= 1 + crashes
    BY DEF TypeOK, ToldInv
  <1>3. youtuber_requests # <<>> => Head(youtuber_requests).video \in Video
    BY NextUpload DEF Upload
  <1>4. ToldInv'
    BY <1>1, <1>2, <1>3 DEF ToldInv
  <1> QED BY <1>1, <1>4 DEF OrderInv, HandlingInv

LEMMA PublishStep ==
    ASSUME TypeOK, OrderInv, ToldInv, HandlingInv, NEW y \in Youtuber, PublishVideo(y)
    PROVE  OrderInv' /\ ToldInv' /\ HandlingInv'
  <1> DEFINE r == [youtuber |-> y, video |-> published + 1]
             n == Len(youtuber_requests)
  <1>1. /\ youtuber_requests' = Append(youtuber_requests, r) /\ published' = published + 1
        /\ published < MaxVideos /\ published \in Nat
        /\ UNCHANGED <<handling, subscriptions, told, crashes>>
    BY DEF PublishVideo, serverVars, TypeOK
  <1>2. r \in Upload /\ r.video = published + 1 /\ published + 1 \in Video
    BY <1>1 DEF Upload, Video
  <1> HIDE DEF r
  <1>3. /\ youtuber_requests \in Seq(Upload) /\ n \in Nat
        /\ Len(youtuber_requests') = n + 1 /\ youtuber_requests'[n + 1] = r
        /\ \A i \in 1..n : youtuber_requests'[i] = youtuber_requests[i]
        /\ youtuber_requests' \in Seq(Upload) /\ youtuber_requests' # <<>>
        /\ Head(youtuber_requests') = youtuber_requests'[1]
        /\ n = 0 <=> youtuber_requests = <<>>
        /\ n # 0 => Head(youtuber_requests) = youtuber_requests[1]
    <2>1. youtuber_requests \in Seq(Upload) /\ n \in Nat
      BY DEF TypeOK
    <2>2. /\ Len(youtuber_requests') = n + 1 /\ youtuber_requests'[n + 1] = r
          /\ \A i \in 1..n : youtuber_requests'[i] = youtuber_requests[i]
          /\ youtuber_requests' \in Seq(Upload)
      BY <1>1, <1>2, <2>1
    <2> QED BY <2>1, <2>2
  <1> HIDE DEF n
  <1>4. \A i \in 1..(n + 1) : i \in 1..n \/ i = n + 1
    BY <1>3
  <1>5. \A i \in 1..n : youtuber_requests[i].video <= published
                      /\ youtuber_requests[i].video \in Video
    <2>1. \A i \in 1..n : youtuber_requests[i] \in Upload
      BY <1>3 DEF n
    <2> QED BY <2>1 DEF OrderInv, Upload, n
  <1>6. OrderInv'
    <2>1. ASSUME NEW i \in 1..(n + 1) PROVE youtuber_requests'[i].video <= published + 1
      BY <1>1, <1>2, <1>3, <1>4, <1>5, <2>1 DEF Video
    <2>2. ASSUME NEW i \in 1..(n + 1), NEW j \in 1..(n + 1), i < j
          PROVE  youtuber_requests'[i].video < youtuber_requests'[j].video
      <3>1. i \in 1..n
        BY <1>3, <2>2
      <3>2. CASE j \in 1..n
        BY <1>3, <2>2, <3>1, <3>2 DEF OrderInv, n
      <3>3. CASE j = n + 1
        BY <1>1, <1>2, <1>3, <1>5, <3>1, <3>3 DEF Video
      <3> QED BY <1>4, <3>2, <3>3
    <2> QED BY <1>1, <1>3, <2>1, <2>2 DEF OrderInv
  <1>7. ToldInv'
    <2> SUFFICES ASSUME NEW u \in User
                 PROVE  /\ \A v \in Video : told[u][v] <= 1 + crashes
                        /\ \A v \in Video : v > published + 1 => told[u][v] = 0
                        /\ \A i \in 2..(n + 1) : told[u][youtuber_requests'[i].video] = 0
                        /\ handling = None \/ u \in ToSet(handling)
                           => told[u][Head(youtuber_requests').video] <= crashes
      BY <1>1, <1>3, Zenon DEF ToldInv
    <2>1. \A v \in Video : v > published + 1 => told[u][v] = 0
      BY <1>1 DEF ToldInv, Video
    <2>2. told[u][published + 1] = 0
      BY <1>1, <1>2 DEF ToldInv
    <2>3. ASSUME NEW i \in 2..(n + 1) PROVE told[u][youtuber_requests'[i].video] = 0
      <3>1. i \in 1..n \/ i = n + 1
        BY <1>3
      <3>2. i \in 1..n => i \in 2..n
        BY <1>3
      <3> QED BY <1>2, <1>3, <2>2, <3>1, <3>2 DEF ToldInv, n
    <2>4. ASSUME handling = None \/ u \in ToSet(handling)
          PROVE  told[u][Head(youtuber_requests').video] <= crashes
      <3>1. crashes \in Nat
        BY DEF TypeOK
      <3>2. CASE n = 0
        BY <1>2, <1>3, <2>2, <3>1, <3>2
      <3>3. CASE n # 0
        BY <1>3, <2>4, <3>3 DEF ToldInv
      <3> QED BY <3>2, <3>3
    <2> QED BY <2>1, <2>3, <2>4 DEF ToldInv
  <1>8. HandlingInv'
    <2>1. handling # None => Head(youtuber_requests') = Head(youtuber_requests)
      BY <1>3 DEF TypeOK
    <2> QED BY <1>1, <2>1 DEF HandlingInv
  <1> QED BY <1>6, <1>7, <1>8

LEMMA StepUploads ==
    TypeOK /\ OrderInv /\ ToldInv /\ HandlingInv /\ [Next]_vars
    => OrderInv' /\ ToldInv' /\ HandlingInv'
  <1> SUFFICES ASSUME TypeOK, OrderInv, ToldInv, HandlingInv, [Next]_vars
               PROVE  OrderInv' /\ ToldInv' /\ HandlingInv'
    OBVIOUS
  <1>1. CASE ConsumeUserRequest
    BY <1>1, UploadsUnchanged DEF ConsumeUserRequest
  <1>2. CASE \/ UNCHANGED vars
             \/ \E u \in User : Receive(u) \/ Logout(u)
             \/ \E u \in User : \E a, y : Login(u, a, y)
    <2>1. UNCHANGED <<youtuber_requests, published, told, handling, crashes, subscriptions>>
      BY <1>2 DEF vars, serverVars, Receive, Deliver, PrintNotification, Logout, Login
    <2> QED BY <2>1, UploadsUnchanged
  <1>3. CASE HandleUpload
    BY <1>3, ConsumeUploadStep, NotifyStep, AcknowledgeStep DEF HandleUpload
  <1> QED BY <1>1, <1>2, <1>3, RestartStep, PublishStep DEF Next

-----------------------------------------------------------------------------
(* The theorems. *)

LEMMA InitTube == Init => TubeInv
  <1> SUFFICES ASSUME Init PROVE TubeInv
    OBVIOUS
  <1>1. ToSet(<<>>) = {} /\ Len(<<>>) = 0
    BY DEF ToSet
  <1>2. RequestsInv
    BY <1>1 DEF Init, RequestsInv
  <1>3. SubscribedAsAsked
    BY <1>1 DEF Init, SubscribedAsAsked, LastAskedToSubscribe, NoVideos
  <1>4. OrderInv /\ ToldInv /\ HandlingInv
    BY <1>1 DEF Init, OrderInv, ToldInv, HandlingInv, Video
  <1> QED BY <1>2, <1>3, <1>4 DEF TubeInv

LEMMA TubeAlways == Spec => [](TypeOK /\ TubeInv)
  <1>1. TypeOK /\ TubeInv /\ [Next]_vars => (TypeOK /\ TubeInv)'
    BY StepTypes, StepSubscribed, StepUploads DEF TubeInv
  <1> QED BY <1>1, InitTypes, InitTube, PTL DEF Spec

\* The lists of the server name existing users, youtubers and videos, the two
\* dictionaries of subscriptions always agree, and nobody is on a list twice.
THEOREM TubeTypes == Spec => []TypeOK
  BY TubeAlways, PTL

\* The server's subscriptions are what the requests it took ask for; a restart loses
\* some and brings back none that was ended.
THEOREM SubscriptionsRight == Spec => []SubscribedAsAsked
  BY TubeAlways, PTL DEF TubeInv

\* No subscriber is sent a video more often than once and once for every restart.
THEOREM FewCopies == Spec => []CopiesBounded
  <1>1. ToldInv => CopiesBounded
    BY DEF ToldInv, CopiesBounded
  <1> QED BY <1>1, TubeAlways, PTL DEF TubeInv

\* An upload that leaves its queue was sent to every subscriber the server has.
THEOREM NoUploadSwallowed == Spec => AcknowledgedMeansNotified
  <1> DEFINE Fine(y, v) == LET r == [youtuber |-> y, video |-> v]
                           IN  r \in ToSet(youtuber_requests) \ ToSet(youtuber_requests')
                               => \A u \in ToSet(subscriptions[y]) : told[u][v] >= 1
  <1>1. TypeOK /\ TubeInv /\ [Next]_vars => [\A y \in Youtuber, v \in Video : Fine(y, v)]_vars
    <2> SUFFICES ASSUME TypeOK, TubeInv, Next, NEW y \in Youtuber, NEW v \in Video
                 PROVE  Fine(y, v)
      OBVIOUS
    <2>1. CASE youtuber_requests' = youtuber_requests
      BY <2>1
    <2>2. CASE AcknowledgeUpload
      <3>1. /\ handling # None /\ handling = <<>> /\ youtuber_requests # <<>>
            /\ youtuber_requests' = Tail(youtuber_requests)
        BY <2>2 DEF AcknowledgeUpload, AllNotified, TypeOK
      <3>2. ToSet(youtuber_requests) = ToSet(Tail(youtuber_requests))
                                           \cup {Head(youtuber_requests)}
        BY <3>1, TailList DEF TypeOK
      <3>3. ToSet(<<>>) = {}
        BY DEF ToSet
      <3>4. \A u \in ToSet(subscriptions[Head(youtuber_requests).youtuber]) :
                told[u][Head(youtuber_requests).video] >= 1
        BY <3>1, <3>3 DEF TubeInv, HandlingInv
      <3> QED BY <3>1, <3>2, <3>4
    <2>3. ASSUME NEW z \in Youtuber, PublishVideo(z) PROVE Fine(y, v)
      <3>1. /\ youtuber_requests' = Append(youtuber_requests,
                                           [youtuber |-> z, video |-> published + 1])
            /\ [youtuber |-> z, video |-> published + 1] \in Upload
        BY <2>3 DEF PublishVideo, TypeOK, Upload, Video
      <3>2. youtuber_requests \in Seq(Upload)
        BY DEF TypeOK
      <3>3. ToSet(youtuber_requests) \subseteq ToSet(youtuber_requests')
        BY <3>1, <3>2, AppendList
      <3> QED BY <3>3
    <2>4. CASE \/ ConsumeUserRequest \/ ConsumeUpload \/ NotifyUser \/ ServerRestarts
               \/ \E u \in User : Receive(u) \/ Logout(u)
               \/ \E u \in User : \E a, x : Login(u, a, x)
      BY <2>1, <2>4 DEF ConsumeUserRequest, ConsumeUpload, NotifyUser, ServerRestarts,
         Receive, Deliver, PrintNotification, Logout, Login
    <2> QED BY <2>2, <2>3, <2>4 DEF Next, HandleUpload
  <1> QED BY <1>1, TubeAlways, PTL DEF Spec, AcknowledgedMeansNotified
=============================================================================
