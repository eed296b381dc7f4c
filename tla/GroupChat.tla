------------------------------ MODULE GroupChat ------------------------------
(***************************************************************************)
(* The ZeroMQ messaging of Assignment_1: message_server.py, the groups of  *)
(* group.py, and the requests of user.py.                                  *)
(*                                                                         *)
(* A user is one run of user.py, that is one user_uuid.  A REQ socket      *)
(* neither repeats a request nor stops waiting: one that a stopped process *)
(* had taken in is never answered.  Nobody has to ask anything, so a user  *)
(* who stops the program is one who asks no more.  Names and texts are     *)
(* left out; a message is who sent it, the how-manieth of theirs it is,    *)
(* and when.                                                               *)
(***************************************************************************)
EXTENDS Naturals, Sequences, FiniteSets, SequencesExt

CONSTANTS
    Group,        \* the groups, by ip_port
    User,         \* the runs of user.py, by user_uuid
    Server,       \* the address of message_server.py
    Unreadable,   \* a timestamp as the menu of user.py explains it, HH:MM:SS
    MaxSends,     \* bound: messages a user sends
    MaxTime,      \* bound: seconds that pass
    MaxRestarts   \* bound: restarts of the server and the groups, in all

ASSUME ChatAssumption ==
    /\ Server \notin Group /\ Unreadable \notin Nat
    /\ MaxSends \in Nat /\ MaxTime \in Nat /\ MaxRestarts \in Nat

VARIABLES
    groups,       \* the ip_ports the server lists
    stage,        \* where each group.py is
    USERTELE,     \* the members of each group
    MESSAGES,     \* its messages
    request,      \* what each user does
    sent,         \* how many messages each user typed in
    printed,      \* the messages of each group a user has been shown
    now,          \* the seconds of the clock
    restarts

groupVars == <<stage, USERTELE, MESSAGES>>
userVars  == <<request, sent, printed>>
vars == <<groups, groupVars, userVars, now, restarts>>
-----------------------------------------------------------------------------
Message == [user : User, number : 1..MaxSends, at : 0..MaxTime]

AtMenu == [status |-> "menu", to |-> Server, action |-> "none", timestamp |-> 0]

Init ==
    /\ groups = {}
    /\ stage = [g \in Group |-> "registering"]
    /\ USERTELE = [g \in Group |-> {}] /\ MESSAGES = [g \in Group |-> <<>>]
    /\ request = [u \in User |-> AtMenu] /\ sent = [u \in User |-> 0]
    /\ printed = [u \in User |-> [g \in Group |-> {}]]
    /\ now = 0 /\ restarts = 0

\* The request of u is under way to the socket of d, or in it.
Waits(u, d) == request[u].status = "waiting" /\ request[u].to = d

\* The requests of the users in S will never be answered.
Forgotten(S) == [u \in User |-> IF u \in S THEN [request[u] EXCEPT !.status = "forgotten"]
                                ELSE request[u]]

\* (mutant) No reply is sent.
NoReply(u) == request

Answered(u) == [request EXCEPT ![u] = AtMenu]

-----------------------------------------------------------------------------
\* message_server.py.

Listed(g) == groups \cup {g}

HandleRegister(g) ==
    /\ stage[g] = "registering"
    /\ groups' = Listed(g)
    /\ stage' = [stage EXCEPT ![g] = "registered"]
    /\ UNCHANGED <<USERTELE, MESSAGES, userVars, now, restarts>>

HandleGetGroupList(u) ==
    /\ Waits(u, Server)
    /\ request' = Answered(u)
    /\ UNCHANGED <<groups, groupVars, sent, printed, now, restarts>>

\* The server is stopped and started: its list is gone, and so are the requests in
\* its socket; a group whose registration is lost waits for good.
ServerRestarts ==
    /\ restarts < MaxRestarts /\ restarts' = restarts + 1
    /\ groups' = {}
    /\ \E S \in SUBSET {u \in User : Waits(u, Server)},
          T \in SUBSET {g \in Group : stage[g] = "registering"} :
           /\ request' = Forgotten(S)
           /\ stage' = [g \in Group |-> IF g \in T THEN "stuck" ELSE stage[g]]
    /\ UNCHANGED <<USERTELE, MESSAGES, sent, printed, now>>

-----------------------------------------------------------------------------
\* group.py.

MayBind(g) == stage[g] = "registered"

Bind(g) ==
    /\ MayBind(g)
    /\ stage' = [stage EXCEPT ![g] = "serving"]
    /\ UNCHANGED <<groups, USERTELE, MESSAGES, userVars, now, restarts>>

\* The one thread of the group takes a request with action a from its socket.
Takes(g, u, a) == stage[g] = "serving" /\ Waits(u, g) /\ request[u].action = a

HandleJoin(g, u) ==
    /\ Takes(g, u, "joinGroup")
    /\ USERTELE' = [USERTELE EXCEPT ![g] = @ \cup {u}]
    /\ request' = Answered(u)
    /\ UNCHANGED <<groups, stage, MESSAGES, sent, printed, now, restarts>>

\* An exception that is no ZMQError ends the thread: its socket is closed, with the
\* requests S that are in it besides the one of u.
ThreadEnds(g, u) ==
    /\ stage' = [stage EXCEPT ![g] = "ended"]
    /\ \E S \in SUBSET {v \in User : Waits(v, g)} : request' = Forgotten(S \cup {u})
    /\ UNCHANGED <<groups, USERTELE, MESSAGES, sent, printed, now, restarts>>

\* remove is a KeyError for a user who is no member.
HandleLeave(g, u) ==
    /\ Takes(g, u, "leaveGroup")
    /\ IF u \in USERTELE[g]
       THEN /\ USERTELE' = [USERTELE EXCEPT ![g] = @ \ {u}]
            /\ request' = Answered(u)
            /\ UNCHANGED <<groups, stage, MESSAGES, sent, printed, now, restarts>>
       ELSE ThreadEnds(g, u)

\* (mutant) A new message is put before the others.
NewestFirst(g, m) == <<m>> \o MESSAGES[g]

WithMessage(g, m) == Append(MESSAGES[g], m)

HandleSend(g, u) ==
    /\ Takes(g, u, "sendMessage")
    /\ MESSAGES' = IF u \in USERTELE[g]
                   THEN [MESSAGES EXCEPT ![g] =
                            WithMessage(g, [user |-> u, number |-> sent[u], at |-> now])]
                   ELSE MESSAGES
    /\ request' = Answered(u)
    /\ UNCHANGED <<groups, stage, USERTELE, sent, printed, now, restarts>>

Relevant(m, timestamp) == m.at >= timestamp

\* A member's timestamp that strptime cannot read is a ValueError.
HandleGet(g, u) ==
    LET timestamp == request[u].timestamp
    IN  /\ Takes(g, u, "getMessage")
        /\ IF u \in USERTELE[g] /\ timestamp = Unreadable
           THEN ThreadEnds(g, u)
           ELSE /\ printed' =
                       IF u \in USERTELE[g]
                       THEN [printed EXCEPT ![u][g] =
                                @ \cup {m \in ToSet(MESSAGES[g]) : Relevant(m, timestamp)}]
                       ELSE printed
                /\ request' = Answered(u)
                /\ UNCHANGED <<groups, groupVars, sent, now, restarts>>

\* A group is stopped and started: its members and messages are gone, and so are the
\* requests in its socket, and it registers again.
GroupRestarts(g) ==
    /\ restarts < MaxRestarts /\ restarts' = restarts + 1
    /\ stage' = [stage EXCEPT ![g] = "registering"]
    /\ USERTELE' = [USERTELE EXCEPT ![g] = {}]
    /\ MESSAGES' = [MESSAGES EXCEPT ![g] = <<>>]
    /\ \E S \in SUBSET {u \in User : Waits(u, g)} : request' = Forgotten(S)
    /\ UNCHANGED <<groups, sent, printed, now>>

-----------------------------------------------------------------------------
\* user.py: a command at the menu, and the user is waiting.
Asks(u, d, action, timestamp) ==
    /\ request[u].status = "menu"
    /\ request' = [request EXCEPT ![u] = [status |-> "waiting", to |-> d,
                                          action |-> action, timestamp |-> timestamp]]
    /\ UNCHANGED <<groups, groupVars, printed, now, restarts>>

GetGroupList(u) == Asks(u, Server, "get_group_list", 0) /\ UNCHANGED sent

SendGroupRequest(u, g) ==
    /\ \E action \in {"joinGroup", "leaveGroup"} : Asks(u, g, action, 0)
    /\ UNCHANGED sent

\* (mutant) The message has no number of its own.
SendUnnumbered(u, g) == Asks(u, g, "sendMessage", 0) /\ UNCHANGED sent

SendMessage(u, g) ==
    /\ sent[u] < MaxSends /\ sent' = [sent EXCEPT ![u] = @ + 1]
    /\ Asks(u, g, "sendMessage", 0)

\* A user asks for everything, which is no timestamp in the code and 0 here, goes on
\* from the second of a message it was shown, or types the time as the menu says.
GetMessages(u, g) ==
    /\ \E timestamp \in {0, Unreadable} \cup {m.at : m \in printed[u][g]} :
           Asks(u, g, "getMessage", timestamp)
    /\ UNCHANGED sent

Tick ==
    /\ now < MaxTime /\ now' = now + 1
    /\ UNCHANGED <<groups, groupVars, userVars, restarts>>

-----------------------------------------------------------------------------
Handle(g, u) ==
    HandleJoin(g, u) \/ HandleLeave(g, u) \/ HandleSend(g, u) \/ HandleGet(g, u)

Next ==
    \/ \E g \in Group : HandleRegister(g) \/ Bind(g) \/ GroupRestarts(g)
    \/ \E g \in Group, u \in User : Handle(g, u) \/ SendGroupRequest(u, g)
                                    \/ SendMessage(u, g) \/ GetMessages(u, g)
    \/ \E u \in User : HandleGetGroupList(u) \/ GetGroupList(u)
    \/ ServerRestarts \/ Tick

\* The server and the groups run, and take the sockets of the users in turn.
Fairness ==
    /\ \A g \in Group : WF_vars(HandleRegister(g)) /\ WF_vars(Bind(g))
    /\ \A u \in User : WF_vars(HandleGetGroupList(u))
    /\ \A g \in Group, u \in User : WF_vars(Handle(g, u))

Spec == Init /\ [][Next]_vars /\ Fairness
=============================================================================
