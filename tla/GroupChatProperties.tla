------------------------- MODULE GroupChatProperties -------------------------
(***************************************************************************)
(* What the groups of GroupChat promise their users.                       *)
(***************************************************************************)
EXTENDS GroupChat

Stage == {"registering", "registered", "serving", "ended", "stuck"}
Action == {"none", "get_group_list", "joinGroup", "leaveGroup", "sendMessage",
           "getMessage"}

\* The type invariant: whoever waits, waits for somebody, and a message carries the
\* number it had when its sender typed it in.
TypeOK ==
    /\ groups \subseteq Group /\ stage \in [Group -> Stage]
    /\ USERTELE \in [Group -> SUBSET User]
    /\ MESSAGES \in [Group -> Seq(Message)]
    /\ request \in [User -> [status : {"menu", "waiting", "forgotten"},
                             to : Group \cup {Server}, action : Action,
                             timestamp : {Unreadable} \cup (0..MaxTime)]]
    /\ sent \in [User -> 0..MaxSends]
    /\ printed \in [User -> [Group -> SUBSET Message]]
    /\ now \in 0..MaxTime /\ restarts \in 0..MaxRestarts

\* register_group: a group answers users only once the server lists it, so whoever
\* can be talked to can be found, as long as nothing was restarted.
ServingIsListed ==
    restarts = 0 => \A g \in Group : stage[g] = "serving" => g \in groups

Talk == INSTANCE Conversation WITH said <- MESSAGES, known <- printed

\* The handler of a group and the timestamps of get_messages implement Conversation: a
\* message is kept once and in one order for everybody, and a member who asks for the
\* messages since the second of one it knows misses none, whatever was said meanwhile.
ImplementsConversation == Talk!Spec

\* Every request that reaches a group is answered, unless the group's thread ends or
\* the group is started anew.  The thread takes users in turn (Fairness); each way through
\* its loop must reply.
EveryRequestTaken ==
    \A g \in Group, u \in User :
        Waits(u, g) /\ stage[g] = "serving" ~> ~Waits(u, g) \/ stage[g] # "serving"
=============================================================================
