--------------------------- MODULE GroupChatProofs ---------------------------
(***************************************************************************)
(* Proofs about GroupChat for every set of groups and users and every      *)
(* bound: its types, that whoever serves is listed, and that it implements *)
(* Conversation.  The last one needs ChatInv, which says which numbers     *)
(* messages have and what a user who asks for messages already knows.      *)
(***************************************************************************)
EXTENDS GroupChatProperties, TLAPS

USE ChatAssumption
-----------------------------------------------------------------------------
(* The strengthening. *)

Said(g) == ToSet(MESSAGES[g])
Asking(u, a) == request[u].status = "waiting" /\ request[u].action = a

\* A message has a number its sender has used, and not the one of the message its
\* sender is just sending; no two are the same.
NumbersInv ==
    /\ \A u \in User : Asking(u, "sendMessage") => sent[u] >= 1
    /\ \A g \in Group : \A m \in Said(g) :
           /\ m.number <= sent[m.user]
           /\ Asking(m.user, "sendMessage") => m.number < sent[m.user]
    /\ \A g \in Group : IsInjective(MESSAGES[g])

\* Nothing is from the future; a user who was shown a message was shown all earlier ones
\* there are, and one who asks for messages asks from where that is so.
KnownInv ==
    /\ \A g \in Group : \A m \in Said(g) : m.at <= now
    /\ \A u \in User, g \in Group : \A p \in printed[u][g] :
           /\ p.at <= now
           /\ \A m \in Said(g) : m.at < p.at => m \in printed[u][g]
    /\ \A u \in User, g \in Group :
           Waits(u, g) /\ Asking(u, "getMessage") /\ request[u].timestamp # Unreadable
           => /\ request[u].timestamp <= now
              /\ \A m \in Said(g) : m.at < request[u].timestamp => m \in printed[u][g]

ChatInv == NumbersInv /\ KnownInv
-----------------------------------------------------------------------------
(* Sequences of messages. *)

\* Appending adds one member.
LEMMA AppendMembers ==
    ASSUME NEW S, NEW s \in Seq(S), NEW m \in S
    PROVE  ToSet(Append(s, m)) = ToSet(s) \cup {m}
  <1>1. /\ DOMAIN Append(s, m) = 1..(Len(s) + 1) /\ DOMAIN s = 1..Len(s)
        /\ Len(s) \in Nat
        /\ \A k \in 1..Len(s) : Append(s, m)[k] = s[k]
        /\ Append(s, m)[Len(s) + 1] = m
    OBVIOUS
  <1>2. \A k \in 1..(Len(s) + 1) : k \in 1..Len(s) \/ k = Len(s) + 1
    BY <1>1
  <1>3. Len(s) + 1 \in 1..(Len(s) + 1) /\ \A k \in 1..Len(s) : k \in 1..(Len(s) + 1)
    BY <1>1
  <1> QED BY <1>1, <1>2, <1>3, Zenon DEF ToSet

\* Appending what is not there keeps all members different, and makes a longer list.
LEMMA AppendNew ==
    ASSUME NEW S, NEW s \in Seq(S), NEW m \in S, m \notin ToSet(s), IsInjective(s)
    PROVE  /\ IsInjective(Append(s, m)) /\ IsStrictPrefix(s, Append(s, m))
  <1>1. /\ DOMAIN Append(s, m) = 1..(Len(s) + 1) /\ DOMAIN s = 1..Len(s)
        /\ Len(s) \in Nat /\ Len(Append(s, m)) = Len(s) + 1
        /\ \A k \in 1..Len(s) : Append(s, m)[k] = s[k]
        /\ Append(s, m)[Len(s) + 1] = m
    OBVIOUS
  <1>2. \A k \in 1..Len(s) : s[k] # m
    BY <1>1 DEF ToSet
  <1>3. \A k \in 1..(Len(s) + 1) : k \in 1..Len(s) \/ k = Len(s) + 1
    BY <1>1
  <1>4. IsInjective(Append(s, m))
    <2> SUFFICES ASSUME NEW a \in 1..(Len(s) + 1), NEW b \in 1..(Len(s) + 1),
                        Append(s, m)[a] = Append(s, m)[b]
                 PROVE  a = b
      BY <1>1, Zenon DEF IsInjective
    <2>1. CASE a \in 1..Len(s) /\ b \in 1..Len(s)
      BY <1>1, <2>1, Zenon DEF IsInjective
    <2>2. CASE a = Len(s) + 1 /\ b \in 1..Len(s)
      BY <1>1, <1>2, <2>2, Zenon
    <2>3. CASE b = Len(s) + 1 /\ a \in 1..Len(s)
      BY <1>1, <1>2, <2>3, Zenon
    <2>4. CASE a = Len(s) + 1 /\ b = Len(s) + 1
      BY <2>4
    <2> QED BY <1>3, <2>1, <2>2, <2>3, <2>4, Zenon
  <1>5. IsPrefix(s, Append(s, m))
    <2>1. SubSeq(s, 1, Len(s)) = SubSeq(Append(s, m), 1, Len(s))
      BY <1>1
    <2> QED BY <1>1, <2>1 DEF IsPrefix
  <1>6. s # Append(s, m)
    <2>1. \A n \in Nat : n # n + 1
      OBVIOUS
    <2> QED BY <1>1, <2>1, Zenon
  <1> QED BY <1>4, <1>5, <1>6 DEF IsStrictPrefix

\* The empty list has no members.
LEMMA NothingSaid == ToSet(<<>>) = {} /\ IsInjective(<<>>)
  BY DEF ToSet, IsInjective
-----------------------------------------------------------------------------
(* Types. *)

Requests == [status : {"menu", "waiting", "forgotten"}, to : Group \cup {Server},
             action : Action, timestamp : {Unreadable} \cup (0..MaxTime)]

\* What becomes of a request is a request.
LEMMA RequestTypes ==
    ASSUME TypeOK
    PROVE  /\ \A u \in User : Answered(u) \in [User -> Requests]
           /\ \A S \in SUBSET User : Forgotten(S) \in [User -> Requests]
  <1>1. request \in [User -> Requests]
    BY DEF TypeOK, Requests
  <1>2. AtMenu \in Requests
    BY DEF AtMenu, Requests, Action
  <1>3. \A u \in User : [request[u] EXCEPT !.status = "forgotten"] \in Requests
    BY <1>1 DEF Requests
  <1> QED BY <1>1, <1>2, <1>3 DEF Answered, Forgotten

\* So is what a user asks.
LEMMA AsksTypes ==
    ASSUME TypeOK, NEW u \in User, NEW d \in Group \cup {Server}, NEW a \in Action,
           NEW t \in {Unreadable} \cup (0..MaxTime), Asks(u, d, a, t)
    PROVE  request' \in [User -> Requests]
  <1>1. request \in [User -> Requests]
    BY DEF TypeOK, Requests
  <1>2. [status |-> "waiting", to |-> d, action |-> a, timestamp |-> t] \in Requests
    BY DEF Requests
  <1> QED BY <1>1, <1>2 DEF Asks

\* The initial states have the types of TypeOK.
LEMMA InitTypes == Init => TypeOK
  <1> SUFFICES ASSUME Init PROVE TypeOK
    OBVIOUS
  <1>1. AtMenu \in Requests
    BY DEF AtMenu, Requests, Action
  <1>2. request \in [User -> Requests]
    BY <1>1 DEF Init
  <1>3. groups \subseteq Group /\ stage \in [Group -> Stage] /\ USERTELE \in [Group -> SUBSET User]
    BY DEF Init, Stage
  <1>4. MESSAGES \in [Group -> Seq(Message)] /\ printed \in [User -> [Group -> SUBSET Message]]
    BY DEF Init
  <1>5. sent \in [User -> 0..MaxSends] /\ now \in 0..MaxTime /\ restarts \in 0..MaxRestarts
    BY DEF Init
  <1> QED BY <1>2, <1>3, <1>4, <1>5 DEF TypeOK, Requests

\* A thread that ends leaves well-typed what it leaves.
LEMMA EndTypes ==
    ASSUME TypeOK, NEW g \in Group, NEW u \in User, ThreadEnds(g, u)
    PROVE  TypeOK'
  <1>1. request' \in [User -> Requests]
    BY RequestTypes DEF ThreadEnds
  <1>2. stage' \in [Group -> Stage]
    BY DEF ThreadEnds, TypeOK, Stage
  <1> QED BY <1>1, <1>2 DEF TypeOK, ThreadEnds, Requests

\* Every step keeps the types.
LEMMA StepTypes == TypeOK /\ NumbersInv /\ [Next]_vars => TypeOK'
  <1> SUFFICES ASSUME TypeOK, NumbersInv, [Next]_vars PROVE TypeOK'
    OBVIOUS
  <1> USE DEF Requests
  <1>1. ASSUME NEW g \in Group, HandleRegister(g) PROVE TypeOK'
    BY <1>1 DEF HandleRegister, Listed, TypeOK, Stage, userVars
  <1>2. ASSUME NEW g \in Group, Bind(g) PROVE TypeOK'
    BY <1>2 DEF Bind, TypeOK, Stage, userVars
  <1>3. ASSUME NEW g \in Group, GroupRestarts(g) PROVE TypeOK'
    <2>1. request' \in [User -> Requests]
      BY <1>3, RequestTypes DEF GroupRestarts
    <2>2. /\ stage' \in [Group -> Stage] /\ USERTELE' \in [Group -> SUBSET User]
          /\ MESSAGES' \in [Group -> Seq(Message)] /\ restarts' \in 0..MaxRestarts
      BY <1>3 DEF GroupRestarts, TypeOK, Stage
    <2> QED BY <1>3, <2>1, <2>2 DEF GroupRestarts, TypeOK
  <1>4. ASSUME NEW g \in Group, NEW u \in User, HandleJoin(g, u) PROVE TypeOK'
    <2>1. request' \in [User -> Requests]
      BY <1>4, RequestTypes DEF HandleJoin
    <2>2. USERTELE' \in [Group -> SUBSET User]
      BY <1>4 DEF HandleJoin, TypeOK
    <2> QED BY <1>4, <2>1, <2>2 DEF HandleJoin, TypeOK
  <1>5. ASSUME NEW g \in Group, NEW u \in User, HandleLeave(g, u) PROVE TypeOK'
    <2>1. CASE u \in USERTELE[g]
      <3>1. request' \in [User -> Requests]
        BY <1>5, <2>1, RequestTypes DEF HandleLeave
      <3>2. USERTELE' = [USERTELE EXCEPT ![g] = @ \ {u}]
        BY <1>5, <2>1 DEF HandleLeave
      <3>3. USERTELE' \in [Group -> SUBSET User]
        BY <3>2 DEF TypeOK
      <3> QED BY <1>5, <2>1, <3>1, <3>3 DEF HandleLeave, TypeOK
    <2>2. CASE u \notin USERTELE[g]
      BY <1>5, <2>2, EndTypes DEF HandleLeave
    <2> QED BY <2>1, <2>2
  <1>6. ASSUME NEW g \in Group, NEW u \in User, HandleSend(g, u) PROVE TypeOK'
    <2>1. request' \in [User -> Requests]
      BY <1>6, RequestTypes DEF HandleSend
    <2>2. sent[u] \in 1..MaxSends
      BY <1>6 DEF HandleSend, Takes, Waits, NumbersInv, Asking, TypeOK
    <2>3. [user |-> u, number |-> sent[u], at |-> now] \in Message
      BY <2>2 DEF Message, TypeOK
    <2>4. MESSAGES' \in [Group -> Seq(Message)]
      BY <1>6, <2>3 DEF HandleSend, WithMessage, TypeOK
    <2> QED BY <1>6, <2>1, <2>4 DEF HandleSend, TypeOK
  <1>7. ASSUME NEW g \in Group, NEW u \in User, HandleGet(g, u) PROVE TypeOK'
    <2>1. CASE u \in USERTELE[g] /\ request[u].timestamp = Unreadable
      BY <1>7, <2>1, EndTypes DEF HandleGet
    <2>2. CASE ~(u \in USERTELE[g] /\ request[u].timestamp = Unreadable)
      <3>1. request' \in [User -> Requests]
        BY <1>7, <2>2, RequestTypes DEF HandleGet
      <3>2. ToSet(MESSAGES[g]) \subseteq Message
        BY DEF TypeOK, ToSet
      <3>3. printed' \in [User -> [Group -> SUBSET Message]]
        <4> DEFINE shown == {m \in ToSet(MESSAGES[g]) : Relevant(m, request[u].timestamp)}
        <4>1. shown \in SUBSET Message
          BY <3>2
        <4>2. printed \in [User -> [Group -> SUBSET Message]]
          BY DEF TypeOK
        <4>3. printed' = printed \/ printed' = [printed EXCEPT ![u][g] = @ \cup shown]
          BY <1>7, <2>2 DEF HandleGet
        <4> HIDE DEF shown
        <4> QED BY <4>1, <4>2, <4>3
      <3> QED BY <1>7, <2>2, <3>1, <3>3 DEF HandleGet, TypeOK, groupVars
    <2> QED BY <2>1, <2>2
  <1>8. ASSUME NEW g \in Group, NEW u \in User, SendGroupRequest(u, g) PROVE TypeOK'
    <2>1. request' \in [User -> Requests]
      BY <1>8, AsksTypes DEF SendGroupRequest, Action
    <2> QED BY <1>8, <2>1 DEF SendGroupRequest, Asks, TypeOK, groupVars
  <1>9. ASSUME NEW g \in Group, NEW u \in User, SendMessage(u, g) PROVE TypeOK'
    <2>1. request' \in [User -> Requests]
      BY <1>9, AsksTypes DEF SendMessage, Action
    <2>2. sent' \in [User -> 0..MaxSends]
      BY <1>9 DEF SendMessage, TypeOK
    <2> QED BY <1>9, <2>1, <2>2 DEF SendMessage, Asks, TypeOK, groupVars
  <1>10. ASSUME NEW g \in Group, NEW u \in User, GetMessages(u, g) PROVE TypeOK'
    <2>1. {0, Unreadable} \cup {m.at : m \in printed[u][g]}
          \subseteq {Unreadable} \cup (0..MaxTime)
      BY DEF TypeOK, Message
    <2>2. request' \in [User -> Requests]
      BY <1>10, <2>1, AsksTypes DEF GetMessages, Action
    <2> QED BY <1>10, <2>2 DEF GetMessages, Asks, TypeOK, groupVars
  <1>11. ASSUME NEW u \in User, HandleGetGroupList(u) PROVE TypeOK'
    <2>1. request' \in [User -> Requests]
      BY <1>11, RequestTypes DEF HandleGetGroupList
    <2> QED BY <1>11, <2>1 DEF HandleGetGroupList, TypeOK, groupVars
  <1>12. ASSUME NEW u \in User, GetGroupList(u) PROVE TypeOK'
    <2>1. request' \in [User -> Requests]
      BY <1>12, AsksTypes DEF GetGroupList, Action
    <2> QED BY <1>12, <2>1 DEF GetGroupList, Asks, TypeOK, groupVars
  <1>13. ASSUME ServerRestarts PROVE TypeOK'
    <2>1. request' \in [User -> Requests]
      BY <1>13, RequestTypes DEF ServerRestarts
    <2>2. stage' \in [Group -> Stage] /\ restarts' \in 0..MaxRestarts
      BY <1>13 DEF ServerRestarts, TypeOK, Stage
    <2> QED BY <1>13, <2>1, <2>2 DEF ServerRestarts, TypeOK
  <1>14. ASSUME Tick PROVE TypeOK'
    BY <1>14 DEF Tick, TypeOK, groupVars, userVars
  <1>15. CASE UNCHANGED vars
    BY <1>15 DEF vars, groupVars, userVars, TypeOK
  <1> QED BY <1>1, <1>2, <1>3, <1>4, <1>5, <1>6, <1>7, <1>8, <1>9, <1>10, <1>11, <1>12,
             <1>13, <1>14, <1>15 DEF Next, Handle
-----------------------------------------------------------------------------
(* The strengthening is inductive. *)

\* Initially nothing was said or asked.
LEMMA InitChat == Init => ChatInv
  <1> SUFFICES ASSUME Init PROVE ChatInv
    OBVIOUS
  <1>1. \A g \in Group : Said(g) = {} /\ IsInjective(MESSAGES[g])
    BY NothingSaid DEF Init, Said
  <1>2. \A u \in User, a \in Action : ~Asking(u, a)
    BY DEF Init, Asking, AtMenu
  <1>3. \A u \in User, g \in Group : printed[u][g] = {}
    BY DEF Init
  <1> QED BY <1>1, <1>2, <1>3 DEF ChatInv, NumbersInv, KnownInv, Action

\* Nobody begins to wait.
Quiet == \A u \in User : request'[u] = request[u] \/ request'[u].status # "waiting"

\* Answers and lost requests are no new ones.
LEMMA QuietRequests ==
    ASSUME TypeOK
    PROVE  /\ \A u \in User : request' = Answered(u) => Quiet /\ request'[u].status # "waiting"
           /\ \A S \in SUBSET User : request' = Forgotten(S) => Quiet
  <1>1. request \in [User -> Requests]
    BY DEF TypeOK, Requests
  <1> QED BY <1>1 DEF Quiet, Answered, Forgotten, AtMenu, Requests

\* What neither says, shows nor asks anything keeps the strengthening, even if a group
\* loses its messages.
LEMMA Frame ==
    ASSUME TypeOK, TypeOK', ChatInv, Quiet, sent' = sent, printed' = printed, now' >= now,
           \A g \in Group : MESSAGES'[g] \in {MESSAGES[g], <<>>}
    PROVE  ChatInv'
  <1>1. \A g \in Group : ToSet(MESSAGES'[g]) \subseteq Said(g) /\ IsInjective(MESSAGES'[g])
    BY NothingSaid DEF Said, ChatInv, NumbersInv
  <1>2. \A u \in User : request'[u].status = "waiting" => request'[u] = request[u]
    BY DEF Quiet
  <1>3. \A g \in Group : Said(g) \subseteq Message
    BY DEF Said, ToSet, TypeOK
  <1>4. NumbersInv'
    BY <1>1, <1>2, <1>3 DEF NumbersInv, ChatInv, Asking, Said, Message
  <1>5. now \in Nat /\ now' \in Nat /\ \A g \in Group : \A m \in Said(g) : m.at \in Nat
    BY <1>3 DEF TypeOK, Message
  <1>6. \A u \in User, g \in Group : \A p \in printed[u][g] : p.at \in Nat
    BY DEF TypeOK, Message
  <1>7. \A u \in User : request[u].timestamp # Unreadable => request[u].timestamp \in Nat
    BY DEF TypeOK
  <1>8. KnownInv'
    <2>1. \A g \in Group : \A m \in ToSet(MESSAGES'[g]) : m.at <= now'
      BY <1>1, <1>5 DEF KnownInv, ChatInv
    <2>2. \A u \in User, g \in Group : \A p \in printed'[u][g] :
              /\ p.at <= now'
              /\ \A m \in ToSet(MESSAGES'[g]) : m.at < p.at => m \in printed'[u][g]
      BY <1>1, <1>5, <1>6 DEF KnownInv, ChatInv
    <2>3. \A u \in User, g \in Group :
              /\ request'[u].status = "waiting" /\ request'[u].to = g
              /\ request'[u].action = "getMessage" /\ request'[u].timestamp # Unreadable
              => /\ request'[u].timestamp <= now'
                 /\ \A m \in ToSet(MESSAGES'[g]) :
                        m.at < request'[u].timestamp => m \in printed'[u][g]
      BY <1>1, <1>2, <1>5, <1>7 DEF KnownInv, ChatInv, Waits, Asking
    <2> QED BY <2>1, <2>2, <2>3 DEF KnownInv, Said, Waits, Asking
  <1> QED BY <1>4, <1>8 DEF ChatInv

\* The message a user is sending.
Typed(u) == [user |-> u, number |-> sent[u], at |-> now]

\* The message a group takes is a new one.
LEMMA SendIsNew ==
    ASSUME TypeOK, ChatInv, NEW g \in Group, NEW u \in User, Takes(g, u, "sendMessage")
    PROVE  Typed(u) \in Message /\ Typed(u) \notin Said(g)
  <1>1. Asking(u, "sendMessage")
    BY DEF Takes, Waits, Asking
  <1>2. sent[u] \in 1..MaxSends
    BY <1>1 DEF ChatInv, NumbersInv, TypeOK
  <1>3. Typed(u) \in Message
    BY <1>2 DEF Typed, Message, TypeOK
  <1>4. \A m \in Said(g) : m.user = u => m.number < sent[u]
    BY <1>1 DEF ChatInv, NumbersInv
  <1>5. Typed(u).user = u /\ Typed(u).number = sent[u] /\ ~(sent[u] < sent[u])
    BY <1>2 DEF Typed
  <1> QED BY <1>3, <1>4, <1>5

\* A group's answer leaves its reader with everything that was said.
LEMMA GetShowsAll ==
    ASSUME TypeOK, ChatInv, NEW g \in Group, NEW u \in User, Takes(g, u, "getMessage"),
           request[u].timestamp # Unreadable
    PROVE  printed[u][g] \cup {m \in Said(g) : Relevant(m, request[u].timestamp)}
           = printed[u][g] \cup Said(g)
  <1>1. \A m \in Said(g) : m.at < request[u].timestamp => m \in printed[u][g]
    BY DEF Takes, ChatInv, KnownInv, Asking, Waits
  <1>2. request[u].timestamp \in Nat
    BY DEF TypeOK
  <1>3. \A m \in Said(g) : m.at \in Nat
    <2>1. Said(g) \subseteq Message
      BY DEF Said, ToSet, TypeOK
    <2> QED BY <2>1 DEF Message
  <1>4. \A m \in Said(g) : m.at >= request[u].timestamp \/ m.at < request[u].timestamp
    BY <1>2, <1>3
  <1> QED BY <1>1, <1>4, Zenon DEF Relevant

\* A message said keeps the strengthening.
LEMMA SendStep ==
    ASSUME TypeOK, ChatInv, NEW g \in Group, NEW u \in User, HandleSend(g, u), TypeOK'
    PROVE  ChatInv'
  <1>1. CASE u \notin USERTELE[g]
    BY <1>1, Frame, QuietRequests DEF HandleSend, TypeOK
  <1>2. CASE u \in USERTELE[g]
    <2>m. PICK m : m = Typed(u)
      OBVIOUS
    <2>1. m \in Message /\ m \notin Said(g)
      BY <2>m, SendIsNew DEF HandleSend
    <2>2. MESSAGES \in [Group -> Seq(Message)]
      BY DEF TypeOK
    <2>3. MESSAGES' = [MESSAGES EXCEPT ![g] = Append(@, m)]
      BY <1>2, <2>m DEF HandleSend, WithMessage, Typed
    <2>4. /\ ToSet(MESSAGES'[g]) = Said(g) \cup {m} /\ IsInjective(MESSAGES'[g])
          /\ \A h \in Group \ {g} : MESSAGES'[h] = MESSAGES[h]
      BY <2>1, <2>2, <2>3, AppendMembers, AppendNew DEF Said, ChatInv, NumbersInv
    <2>5. /\ \A v \in User : request'[v].status = "waiting" => request'[v] = request[v]
          /\ request'[u].status # "waiting" /\ sent' = sent /\ printed' = printed /\ now' = now
      BY QuietRequests DEF HandleSend, Quiet
    <2>6. m.user = u /\ m.number = sent[u] /\ m.at = now
      BY <2>m DEF Typed
    <2>7. \A h \in Group : Said(h) \subseteq Message
      BY DEF Said, ToSet, TypeOK
    <2>8. now \in Nat /\ sent[u] \in Nat
      BY DEF TypeOK
    <2>9. NumbersInv'
      <3>1. \A v \in User : Asking(v, "sendMessage")' => sent'[v] >= 1
        BY <2>5 DEF ChatInv, NumbersInv, Asking
      <3>2. \A h \in Group : \A x \in ToSet(MESSAGES'[h]) :
                x \in Said(h) \/ (h = g /\ x = m)
        BY <2>4 DEF Said
      <3>3. \A h \in Group : \A x \in Said(h) :
                /\ x.number <= sent'[x.user]
                /\ Asking(x.user, "sendMessage")' => x.number < sent'[x.user]
        BY <2>5, <2>7 DEF ChatInv, NumbersInv, Asking, Message
      <3>4. m.number <= sent'[m.user] /\ ~Asking(m.user, "sendMessage")'
        <4>1. sent'[m.user] = sent[u] /\ request'[m.user].status # "waiting"
          BY <2>5, <2>6
        <4>2. m.number <= sent[u]
          BY <2>6, <2>8
        <4> QED BY <4>1, <4>2 DEF Asking
      <3>5. \A h \in Group : IsInjective(MESSAGES'[h])
        BY <2>4 DEF ChatInv, NumbersInv
      <3>6. \A h \in Group : \A x \in Said(h)' :
                /\ x.number <= sent'[x.user]
                /\ Asking(x.user, "sendMessage")' => x.number < sent'[x.user]
        BY <3>2, <3>3, <3>4, Zenon DEF Said
      <3> QED BY <3>1, <3>5, <3>6, Zenon DEF NumbersInv
    <2>10. KnownInv'
      <3>1. \A h \in Group : \A x \in ToSet(MESSAGES'[h]) :
                x \in Said(h) \/ (h = g /\ x = m)
        BY <2>4 DEF Said
      <3>2. \A v \in User, h \in Group : \A p \in printed[v][h] : p.at \in Nat /\ ~(now < p.at)
        <4>1. \A v \in User, h \in Group : \A p \in printed[v][h] : p.at \in Nat
          BY DEF TypeOK, Message
        <4> QED BY <4>1, <2>8 DEF ChatInv, KnownInv
      <3>3. \A v \in User, h \in Group :
                Waits(v, h)' /\ Asking(v, "getMessage")' /\ request'[v].timestamp # Unreadable
                => /\ request'[v] = request[v] /\ request[v].timestamp <= now
                   /\ ~(now < request[v].timestamp)
                   /\ \A x \in Said(h) : x.at < request[v].timestamp => x \in printed[v][h]
        <4>1. \A v \in User : request[v].timestamp # Unreadable => request[v].timestamp \in Nat
          BY DEF TypeOK
        <4> QED BY <4>1, <2>5, <2>8 DEF ChatInv, KnownInv, Asking, Waits
      <3>4. \A h \in Group : \A x \in ToSet(MESSAGES'[h]) : x.at <= now'
        BY <2>5, <2>6, <2>8, <3>1 DEF ChatInv, KnownInv
      <3>5. \A v \in User, h \in Group : \A p \in printed'[v][h] :
                /\ p.at <= now'
                /\ \A x \in ToSet(MESSAGES'[h]) : x.at < p.at => x \in printed'[v][h]
        BY <2>5, <2>6, <3>1, <3>2 DEF ChatInv, KnownInv
      <3>6. \A v \in User, h \in Group :
                Waits(v, h)' /\ Asking(v, "getMessage")' /\ request'[v].timestamp # Unreadable
                => /\ request'[v].timestamp <= now'
                   /\ \A x \in ToSet(MESSAGES'[h]) :
                          x.at < request'[v].timestamp => x \in printed'[v][h]
        BY <2>5, <2>6, <3>1, <3>3
      <3> QED BY <3>4, <3>5, <3>6 DEF KnownInv, Said
    <2> QED BY <2>9, <2>10 DEF ChatInv
  <1> QED BY <1>1, <1>2

\* The end of a group's thread keeps it too.
LEMMA EndStep ==
    ASSUME TypeOK, ChatInv, NEW g \in Group, NEW u \in User, ThreadEnds(g, u), TypeOK'
    PROVE  ChatInv'
  <1>1. PICK S \in SUBSET {v \in User : Waits(v, g)} : request' = Forgotten(S \cup {u})
    BY DEF ThreadEnds
  <1>2. S \cup {u} \in SUBSET User
    OBVIOUS
  <1>3. Quiet
    BY <1>1, <1>2, QuietRequests
  <1>4. sent' = sent /\ printed' = printed /\ now' = now /\ MESSAGES' = MESSAGES
    BY DEF ThreadEnds
  <1>5. now \in Nat
    BY DEF TypeOK
  <1> QED BY <1>3, <1>4, <1>5, Frame

\* So does an answer with messages.
LEMMA GetStep ==
    ASSUME TypeOK, ChatInv, NEW g \in Group, NEW u \in User, HandleGet(g, u), TypeOK'
    PROVE  ChatInv'
  <1>0. now \in Nat
    BY DEF TypeOK
  <1>1. CASE u \in USERTELE[g] /\ request[u].timestamp = Unreadable
    BY <1>1, EndStep DEF HandleGet
  <1>2. CASE u \notin USERTELE[g]
    <2>1. /\ Quiet /\ sent' = sent /\ printed' = printed /\ now' = now /\ MESSAGES' = MESSAGES
      BY <1>2, QuietRequests DEF HandleGet, groupVars
    <2> QED BY <1>0, <2>1, Frame
  <1>3. CASE u \in USERTELE[g] /\ request[u].timestamp # Unreadable
    <2>1. /\ \A v \in User : request'[v].status = "waiting" => request'[v] = request[v]
          /\ request'[u].status # "waiting" /\ sent' = sent /\ now' = now
          /\ MESSAGES' = MESSAGES
      BY <1>3, QuietRequests DEF HandleGet, Quiet, groupVars
    <2>2. printed' = [printed EXCEPT ![u][g] = @ \cup
                         {m \in Said(g) : Relevant(m, request[u].timestamp)}]
      BY <1>3 DEF HandleGet, Said
    <2>3. Takes(g, u, "getMessage")
      BY DEF HandleGet
    <2>4. printed \in [User -> [Group -> SUBSET Message]]
      BY DEF TypeOK
    <2>5. /\ printed'[u][g] = printed[u][g] \cup Said(g)
          /\ \A v \in User, h \in Group : v # u \/ h # g => printed'[v][h] = printed[v][h]
      <3> DEFINE shown == {m \in Said(g) : Relevant(m, request[u].timestamp)}
      <3>1. printed[u][g] \cup shown = printed[u][g] \cup Said(g)
        BY <1>3, <2>3, GetShowsAll
      <3>2. printed' = [printed EXCEPT ![u][g] = @ \cup shown]
        BY <2>2
      <3> HIDE DEF shown
      <3> QED BY <2>4, <3>1, <3>2
    <2>6. NumbersInv'
      <3>1. \A v \in User : Asking(v, "sendMessage")' => Asking(v, "sendMessage")
        BY <2>1 DEF Asking
      <3>2. \A h \in Group : Said(h)' = Said(h) /\ Said(h) \subseteq Message
        BY <2>1 DEF Said, ToSet, TypeOK
      <3>3. \A h \in Group : \A m \in Said(h) : m.user \in User
        BY <3>2 DEF Message
      <3> QED BY <2>1, <3>1, <3>2, <3>3 DEF ChatInv, NumbersInv
    <2>7. KnownInv'
      <3>1. \A h \in Group : \A x \in Said(h)' : x \in Said(h) /\ x.at <= now'
        BY <2>1 DEF ChatInv, KnownInv, Said
      <3>2. \A v \in User, h \in Group : \A p \in printed'[v][h] :
                /\ p.at <= now'
                /\ \A x \in Said(h) : x.at < p.at => x \in printed'[v][h]
        <4> SUFFICES ASSUME NEW v \in User, NEW h \in Group, NEW p \in printed'[v][h]
                     PROVE  /\ p.at <= now'
                            /\ \A x \in Said(h) : x.at < p.at => x \in printed'[v][h]
          OBVIOUS
        <4>1. CASE v = u /\ h = g
          BY <2>1, <2>5, <4>1 DEF ChatInv, KnownInv
        <4>2. CASE v # u \/ h # g
          <5>1. printed'[v][h] = printed[v][h]
            BY <2>5, <4>2
          <5> QED BY <2>1, <5>1 DEF ChatInv, KnownInv
        <4> QED BY <4>1, <4>2
      <3>3. \A v \in User, h \in Group :
                Waits(v, h)' /\ Asking(v, "getMessage")' /\ request'[v].timestamp # Unreadable
                => /\ request'[v].timestamp <= now'
                   /\ \A x \in Said(h) :
                          x.at < request'[v].timestamp => x \in printed'[v][h]
        <4> SUFFICES ASSUME NEW v \in User, NEW h \in Group, Waits(v, h)',
                            Asking(v, "getMessage")', request'[v].timestamp # Unreadable
                     PROVE  /\ request'[v].timestamp <= now'
                            /\ \A x \in Said(h) :
                                   x.at < request'[v].timestamp => x \in printed'[v][h]
          OBVIOUS
        <4>1. v # u /\ request'[v] = request[v]
          BY <2>1 DEF Waits
        <4>2. Waits(v, h) /\ Asking(v, "getMessage")
          BY <4>1 DEF Waits, Asking
        <4>3. printed'[v][h] = printed[v][h]
          BY <2>5, <4>1
        <4> QED BY <2>1, <4>1, <4>2, <4>3 DEF ChatInv, KnownInv
      <3> QED BY <2>1, <3>1, <3>2, <3>3 DEF KnownInv
    <2> QED BY <2>6, <2>7 DEF ChatInv
  <1> QED BY <1>1, <1>2, <1>3

\* And so does a user who asks for something, and for messages only from where it knows
\* all that was said.
LEMMA AskStep ==
    ASSUME TypeOK, ChatInv, NEW u \in User, NEW d \in Group \cup {Server}, NEW a, NEW t,
           Asks(u, d, a, t),
           \/ a # "sendMessage" /\ sent' = sent
           \/ a = "sendMessage" /\ sent' = [sent EXCEPT ![u] = @ + 1],
           a = "getMessage" /\ t # Unreadable =>
               /\ t <= now
               /\ d \in Group => \A m \in Said(d) : m.at < t => m \in printed[u][d]
    PROVE  ChatInv'
  <1>1. /\ request' = [request EXCEPT ![u] = [status |-> "waiting", to |-> d,
                                              action |-> a, timestamp |-> t]]
        /\ MESSAGES' = MESSAGES /\ printed' = printed /\ now' = now
        /\ request[u].status = "menu"
    BY DEF Asks, groupVars
  <1>2. request \in [User -> Requests] /\ sent \in [User -> Nat]
    BY DEF TypeOK, Requests
  <1>3. /\ request'[u] = [status |-> "waiting", to |-> d, action |-> a, timestamp |-> t]
        /\ \A v \in User \ {u} : request'[v] = request[v]
    BY <1>1, <1>2
  <1>4. \A g \in Group : Said(g)' = Said(g) /\ Said(g) \subseteq Message
    BY <1>1 DEF Said, ToSet, TypeOK
  <1>5. /\ \A v \in User \ {u} : sent'[v] = sent[v]
        /\ sent'[u] = IF a = "sendMessage" THEN sent[u] + 1 ELSE sent[u]
    BY <1>2
  <1>6. NumbersInv'
    <2>1. \A v \in User : Asking(v, "sendMessage")' => sent'[v] >= 1
      BY <1>2, <1>3, <1>5 DEF ChatInv, NumbersInv, Asking
    <2>2. \A g \in Group : \A m \in Said(g) :
              /\ m.number <= sent'[m.user]
              /\ Asking(m.user, "sendMessage")' => m.number < sent'[m.user]
      <3> SUFFICES ASSUME NEW g \in Group, NEW m \in Said(g)
                   PROVE  /\ m.number <= sent'[m.user]
                          /\ Asking(m.user, "sendMessage")' => m.number < sent'[m.user]
        OBVIOUS
      <3>1. m.user \in User /\ m.number \in Nat /\ m.number <= sent[m.user]
        BY <1>4 DEF ChatInv, NumbersInv, Message
      <3>2. CASE m.user = u
        BY <1>2, <1>3, <1>5, <3>1, <3>2 DEF Asking
      <3>3. CASE m.user # u
        <4>1. request'[m.user] = request[m.user] /\ sent'[m.user] = sent[m.user]
          BY <1>3, <1>5, <3>1, <3>3
        <4> QED BY <4>1 DEF ChatInv, NumbersInv, Asking
      <3> QED BY <3>2, <3>3
    <2>3. \A g \in Group : IsInjective(MESSAGES'[g])
      BY <1>1 DEF ChatInv, NumbersInv
    <2> QED BY <1>4, <2>1, <2>2, <2>3 DEF NumbersInv
  <1>7. KnownInv'
    <2>1. \A v \in User, g \in Group :
              Waits(v, g)' /\ Asking(v, "getMessage")' /\ request'[v].timestamp # Unreadable
              => /\ request'[v].timestamp <= now'
                 /\ \A m \in Said(g) : m.at < request'[v].timestamp => m \in printed'[v][g]
      <3> SUFFICES ASSUME NEW v \in User, NEW g \in Group, Waits(v, g)',
                          Asking(v, "getMessage")', request'[v].timestamp # Unreadable
                   PROVE  /\ request'[v].timestamp <= now'
                          /\ \A m \in Said(g) :
                                 m.at < request'[v].timestamp => m \in printed'[v][g]
        OBVIOUS
      <3>1. CASE v = u
        BY <1>1, <1>3, <3>1 DEF Waits, Asking
      <3>2. CASE v # u
        <4>1. request'[v] = request[v]
          BY <1>3, <3>2
        <4> QED BY <1>1, <4>1 DEF ChatInv, KnownInv, Waits, Asking
      <3> QED BY <3>1, <3>2
    <2> QED BY <1>1, <1>4, <2>1 DEF ChatInv, KnownInv
  <1> QED BY <1>6, <1>7 DEF ChatInv

\* Every step keeps the strengthening.
LEMMA StepChat == TypeOK /\ ChatInv /\ [Next]_vars => ChatInv'
  <1> SUFFICES ASSUME TypeOK, ChatInv, [Next]_vars PROVE ChatInv'
    OBVIOUS
  <1>1. TypeOK' /\ now \in Nat
    BY StepTypes DEF ChatInv, TypeOK
  <1>2. ASSUME Quiet, sent' = sent, printed' = printed, now' = now, MESSAGES' = MESSAGES
        PROVE  ChatInv'
    BY <1>1, <1>2, Frame
  <1>3. ASSUME NEW g \in Group, HandleRegister(g) PROVE ChatInv'
    BY <1>2, <1>3 DEF HandleRegister, userVars, Quiet
  <1>4. ASSUME NEW g \in Group, Bind(g) PROVE ChatInv'
    BY <1>2, <1>4 DEF Bind, userVars, Quiet
  <1>5. ASSUME NEW g \in Group, GroupRestarts(g) PROVE ChatInv'
    <2>1. Quiet
      BY <1>5, QuietRequests DEF GroupRestarts
    <2>2. \A h \in Group : MESSAGES'[h] \in {MESSAGES[h], <<>>}
      BY <1>5 DEF GroupRestarts, TypeOK
    <2>3. sent' = sent /\ printed' = printed /\ now' >= now
      BY <1>1, <1>5 DEF GroupRestarts
    <2> QED BY <1>1, <2>1, <2>2, <2>3, Frame
  <1>6. ASSUME NEW g \in Group, NEW u \in User, HandleJoin(g, u) PROVE ChatInv'
    BY <1>2, <1>6, QuietRequests DEF HandleJoin
  <1>7. ASSUME NEW g \in Group, NEW u \in User, HandleLeave(g, u) PROVE ChatInv'
    <2>1. CASE u \in USERTELE[g]
      BY <1>2, <1>7, <2>1, QuietRequests DEF HandleLeave
    <2>2. CASE u \notin USERTELE[g]
      BY <1>1, <1>7, <2>2, EndStep DEF HandleLeave
    <2> QED BY <2>1, <2>2
  <1>8. ASSUME NEW g \in Group, NEW u \in User, HandleSend(g, u) PROVE ChatInv'
    BY <1>1, <1>8, SendStep
  <1>9. ASSUME NEW g \in Group, NEW u \in User, HandleGet(g, u) PROVE ChatInv'
    BY <1>1, <1>9, GetStep
  <1>10. ASSUME NEW g \in Group, NEW u \in User, SendGroupRequest(u, g) PROVE ChatInv'
    <2>1. PICK a \in {"joinGroup", "leaveGroup"} : Asks(u, g, a, 0)
      BY <1>10 DEF SendGroupRequest
    <2>2. a # "sendMessage" /\ a # "getMessage" /\ sent' = sent
      BY <1>10 DEF SendGroupRequest
    <2> QED BY <2>1, <2>2, AskStep
  <1>11. ASSUME NEW g \in Group, NEW u \in User, SendMessage(u, g) PROVE ChatInv'
    <2>1. Asks(u, g, "sendMessage", 0) /\ sent' = [sent EXCEPT ![u] = @ + 1]
      BY <1>11 DEF SendMessage
    <2> QED BY <2>1, AskStep
  <1>12. ASSUME NEW g \in Group, NEW u \in User, GetMessages(u, g) PROVE ChatInv'
    <2>1. PICK t \in {0, Unreadable} \cup {m.at : m \in printed[u][g]} :
              Asks(u, g, "getMessage", t)
      BY <1>12 DEF GetMessages
    <2>2. sent' = sent
      BY <1>12 DEF GetMessages
    <2>3. \A m \in Said(g) : m.at \in Nat
      <3>1. Said(g) \subseteq Message
        BY DEF Said, ToSet, TypeOK
      <3> QED BY <3>1 DEF Message
    <2>4. t # Unreadable => t <= now /\ \A m \in Said(g) : m.at < t => m \in printed[u][g]
      <3>1. CASE t = 0
        BY <1>1, <2>3, <3>1
      <3>2. CASE \E m \in printed[u][g] : t = m.at
        BY <3>2 DEF ChatInv, KnownInv
      <3> QED BY <3>1, <3>2
    <2> QED BY <2>1, <2>2, <2>4, AskStep
  <1>13. ASSUME NEW u \in User, HandleGetGroupList(u) PROVE ChatInv'
    BY <1>2, <1>13, QuietRequests DEF HandleGetGroupList, groupVars
  <1>14. ASSUME NEW u \in User, GetGroupList(u) PROVE ChatInv'
    <2>1. Asks(u, Server, "get_group_list", 0) /\ sent' = sent
      BY <1>14 DEF GetGroupList
    <2> QED BY <2>1, AskStep
  <1>15. ASSUME ServerRestarts PROVE ChatInv'
    BY <1>2, <1>15, QuietRequests DEF ServerRestarts
  <1>16. ASSUME Tick PROVE ChatInv'
    <2>1. Quiet /\ sent' = sent /\ printed' = printed /\ now' >= now /\ MESSAGES' = MESSAGES
      BY <1>1, <1>16 DEF Tick, groupVars, userVars, Quiet
    <2> QED BY <1>1, <2>1, Frame
  <1>17. CASE UNCHANGED vars
    BY <1>2, <1>17 DEF vars, groupVars, userVars, Quiet
  <1> QED BY <1>3, <1>4, <1>5, <1>6, <1>7, <1>8, <1>9, <1>10, <1>11, <1>12, <1>13, <1>14,
             <1>15, <1>16, <1>17 DEF Next, Handle

\* In every reachable state the variables of GroupChat have their types, and the
\* strengthening holds: no message is in a group twice, and who asks for messages from
\* some second on has been shown all that was said before it.
THEOREM ChatTyped == Spec => [](TypeOK /\ ChatInv)
  <1>1. Init => TypeOK /\ ChatInv
    BY InitTypes, InitChat
  <1>2. TypeOK /\ ChatInv /\ [Next]_vars => TypeOK' /\ ChatInv'
    BY StepTypes, StepChat DEF ChatInv
  <1> QED BY <1>1, <1>2, PTL DEF Spec

\* The variables of GroupChat keep their types, whatever is asked and restarted.
THEOREM ChatTypes == Spec => []TypeOK
  <1>1. TypeOK /\ ChatInv => TypeOK
    OBVIOUS
  <1> QED BY <1>1, ChatTyped, PTL
-----------------------------------------------------------------------------
(* Who serves is listed. *)

\* Until something is restarted, a group that is past its registration is listed, and no
\* registration is lost.
ListedInv ==
    restarts = 0 => \A g \in Group : stage[g] = "registering" \/ g \in groups

\* Every step keeps ListedInv.
LEMMA StepListed == TypeOK /\ ListedInv /\ [Next]_vars => ListedInv'
  <1> SUFFICES ASSUME TypeOK, ListedInv, [Next]_vars PROVE ListedInv'
    OBVIOUS
  <1> USE DEF ListedInv
  <1>0. stage \in [Group -> Stage] /\ restarts \in Nat
    BY DEF TypeOK
  <1>1. ASSUME NEW g \in Group, HandleRegister(g) PROVE ListedInv'
    BY <1>0, <1>1 DEF HandleRegister, Listed
  <1>2. ASSUME NEW g \in Group, Bind(g) PROVE ListedInv'
    BY <1>0, <1>2 DEF Bind, MayBind
  <1>3. ASSUME NEW g \in Group, NEW u \in User, ThreadEnds(g, u), stage[g] = "serving"
        PROVE  ListedInv'
    BY <1>0, <1>3 DEF ThreadEnds
  <1>4. ASSUME NEW g \in Group, NEW u \in User, Handle(g, u) PROVE ListedInv'
    <2>1. CASE HandleJoin(g, u) \/ HandleSend(g, u)
      BY <2>1 DEF HandleJoin, HandleSend
    <2>2. CASE HandleLeave(g, u)
      BY <1>3, <2>2 DEF HandleLeave, Takes
    <2>3. CASE HandleGet(g, u)
      BY <1>3, <2>3 DEF HandleGet, Takes, groupVars
    <2> QED BY <1>4, <2>1, <2>2, <2>3 DEF Handle
  <1>5. CASE (\E g \in Group : GroupRestarts(g)) \/ ServerRestarts
    <2>1. restarts' # 0
      BY <1>0, <1>5 DEF GroupRestarts, ServerRestarts
    <2> QED BY <2>1
  <1>6. ASSUME NEW g \in Group, NEW u \in User,
               SendGroupRequest(u, g) \/ SendMessage(u, g) \/ GetMessages(u, g)
        PROVE  ListedInv'
    BY <1>6 DEF SendGroupRequest, SendMessage, GetMessages, Asks, groupVars
  <1>7. ASSUME NEW u \in User, HandleGetGroupList(u) \/ GetGroupList(u) PROVE ListedInv'
    BY <1>7 DEF HandleGetGroupList, GetGroupList, Asks, groupVars
  <1>8. CASE Tick \/ UNCHANGED vars
    BY <1>8 DEF Tick, vars, groupVars, userVars
  <1> QED BY <1>1, <1>2, <1>4, <1>5, <1>6, <1>7, <1>8 DEF Next

\* group.py binds its socket after the server's answer: until something is restarted, a
\* group that answers users can be found by them.
THEOREM ServingListed == Spec => []ServingIsListed
  <1>1. Init => ListedInv
    BY DEF Init, ListedInv
  <1>2. ListedInv => ServingIsListed
    BY DEF ListedInv, ServingIsListed
  <1> QED BY <1>1, <1>2, StepListed, ChatTypes, PTL DEF Spec
-----------------------------------------------------------------------------
(* GroupChat implements Conversation. *)

\* A group that takes a message says it, if it comes from a member.
LEMMA SendSays ==
    ASSUME TypeOK, ChatInv, NEW g \in Group, NEW u \in User, HandleSend(g, u)
    PROVE  Talk!Say(g) \/ UNCHANGED <<MESSAGES, printed>>
  <1>1. CASE u \notin USERTELE[g]
    BY <1>1 DEF HandleSend
  <1>2. CASE u \in USERTELE[g]
    <2>m. PICK m : m = Typed(u)
      OBVIOUS
    <2>1. m \in Message /\ m \notin Said(g)
      BY <2>m, SendIsNew DEF HandleSend
    <2>2. MESSAGES \in [Group -> Seq(Message)] /\ MESSAGES[g] \in Seq(Message)
      BY DEF TypeOK
    <2>3. MESSAGES' = [MESSAGES EXCEPT ![g] = Append(@, m)] /\ printed' = printed
      BY <1>2, <2>m DEF HandleSend, WithMessage, Typed
    <2>4. MESSAGES'[g] = Append(MESSAGES[g], m)
      BY <2>2, <2>3
    <2>5. IsInjective(MESSAGES'[g]) /\ IsStrictPrefix(MESSAGES[g], MESSAGES'[g])
      BY <2>1, <2>2, <2>4, AppendNew DEF Said, ChatInv, NumbersInv
    <2>6. \A s, t : (IsStrictPrefix(s, t) => Talk!IsStrictPrefix(s, t))
                    /\ (IsInjective(t) => Talk!IsInjective(t))
      BY DEF IsStrictPrefix, IsPrefix, IsInjective, Talk!IsStrictPrefix, Talk!IsPrefix,
             Talk!IsInjective
    <2> QED BY <2>3, <2>4, <2>5, <2>6 DEF Talk!Say
  <1> QED BY <1>1, <1>2

\* A group that answers a member shows it all messages.
LEMMA GetShows ==
    ASSUME TypeOK, ChatInv, NEW g \in Group, NEW u \in User, HandleGet(g, u)
    PROVE  Talk!Show(g, u) \/ UNCHANGED <<MESSAGES, printed>>
  <1>1. CASE u \in USERTELE[g] /\ request[u].timestamp = Unreadable
    BY <1>1 DEF HandleGet, ThreadEnds
  <1>2. CASE u \notin USERTELE[g]
    BY <1>2 DEF HandleGet, groupVars
  <1>3. CASE u \in USERTELE[g] /\ request[u].timestamp # Unreadable
    <2> DEFINE shown == {m \in Said(g) : Relevant(m, request[u].timestamp)}
    <2>1. printed[u][g] \cup shown = printed[u][g] \cup Said(g)
      BY <1>3, GetShowsAll DEF HandleGet
    <2>2. printed' = [printed EXCEPT ![u][g] = @ \cup shown] /\ MESSAGES' = MESSAGES
      BY <1>3 DEF HandleGet, Said, groupVars
    <2> HIDE DEF shown
    <2>3. printed' = [printed EXCEPT ![u][g] = @ \cup Said(g)]
      BY <2>1, <2>2
    <2>4. Talk!ToSet(MESSAGES[g]) = Said(g)
      BY DEF Talk!ToSet, ToSet, Said
    <2> QED BY <2>2, <2>3, <2>4 DEF Talk!Show
  <1> QED BY <1>1, <1>2, <1>3

\* Every step of GroupChat is one of Conversation, or none.
LEMMA StepTalks ==
    TypeOK /\ ChatInv /\ [Next]_vars => [Talk!Next]_<<MESSAGES, printed>>
  <1> SUFFICES ASSUME TypeOK, ChatInv, [Next]_vars PROVE [Talk!Next]_<<MESSAGES, printed>>
    OBVIOUS
  <1>1. ASSUME NEW g \in Group, NEW u \in User, HandleSend(g, u)
        PROVE  [Talk!Next]_<<MESSAGES, printed>>
    BY <1>1, SendSays DEF Talk!Next
  <1>2. ASSUME NEW g \in Group, NEW u \in User, HandleGet(g, u)
        PROVE  [Talk!Next]_<<MESSAGES, printed>>
    BY <1>2, GetShows DEF Talk!Next
  <1>3. ASSUME NEW g \in Group, GroupRestarts(g)
        PROVE  [Talk!Next]_<<MESSAGES, printed>>
    BY <1>3 DEF GroupRestarts, Talk!Next, Talk!Lose
  <1>4. CASE \E g \in Group : HandleRegister(g) \/ Bind(g)
    BY <1>4 DEF HandleRegister, Bind, userVars
  <1>5. CASE \E g \in Group, u \in User : HandleJoin(g, u) \/ HandleLeave(g, u)
    BY <1>5 DEF HandleJoin, HandleLeave, ThreadEnds
  <1>6. CASE \E g \in Group, u \in User :
                 SendGroupRequest(u, g) \/ SendMessage(u, g) \/ GetMessages(u, g)
    BY <1>6 DEF SendGroupRequest, SendMessage, GetMessages, Asks, groupVars
  <1>7. CASE \E u \in User : HandleGetGroupList(u) \/ GetGroupList(u)
    BY <1>7 DEF HandleGetGroupList, GetGroupList, Asks, groupVars
  <1>8. CASE ServerRestarts \/ Tick \/ UNCHANGED vars
    BY <1>8 DEF ServerRestarts, Tick, vars, groupVars, userVars
  <1> QED BY <1>1, <1>2, <1>3, <1>4, <1>5, <1>6, <1>7, <1>8 DEF Next, Handle

\* The groups of group.py and the timestamps of get_messages implement Conversation: one
\* list for everybody, each message in it once, and a member who asks from the second of
\* a message it was shown misses nothing, even what was said later in that second.
THEOREM ChatImplements == Spec => ImplementsConversation
  <1>1. Init => Talk!Init
    BY DEF Init, Talk!Init
  <1>2. Spec => []ChatInv /\ []TypeOK
    BY ChatTyped, PTL
  <1> QED BY <1>1, <1>2, StepTalks, PTL DEF Spec, ImplementsConversation, Talk!Spec
=============================================================================
