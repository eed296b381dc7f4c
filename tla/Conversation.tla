---------------------------- MODULE Conversation ----------------------------
(***************************************************************************)
(* What a group of GroupChat promises its members, without sockets: one    *)
(* list of messages, in one order, which only grows until it is lost as a  *)
(* whole, and a member who asks is up to date.                             *)
(***************************************************************************)
EXTENDS Sequences, SequencesExt

CONSTANTS Group, User

VARIABLES
    said,      \* the messages of each group
    known      \* those of them each user has been shown

Init == /\ said = [g \in Group |-> <<>>]
        /\ known = [u \in User |-> [g \in Group |-> {}]]

\* A message is said once, after all others.
Say(g) ==
    /\ IsStrictPrefix(said[g], said'[g]) /\ IsInjective(said'[g])
    /\ said' = [said EXCEPT ![g] = said'[g]]
    /\ UNCHANGED known

\* A user who is shown messages then knows all of them.
Show(g, u) ==
    /\ known' = [known EXCEPT ![u][g] = @ \cup ToSet(said[g])]
    /\ UNCHANGED said

Lose(g) == said' = [said EXCEPT ![g] = <<>>] /\ UNCHANGED known

Next == \E g \in Group : Say(g) \/ Lose(g) \/ \E u \in User : Show(g, u)

Spec == Init /\ [][Next]_<<said, known>>
=============================================================================
