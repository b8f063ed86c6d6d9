------------------------------ MODULE Mailbox ------------------------------
(***************************************************************************)
(* What the message service promises, without connections, channels or the *)
(* registry: a message is posted once and for all, shown only to the users *)
(* it is for, perhaps more than once, and confirmed only after its         *)
(* recipient saw it.                                                       *)
(***************************************************************************)
EXTENDS Integers, Sequences

CONSTANTS Users, NoUser     \* a broadcast has no recipient

VARIABLES
    sent,       \* the recipient of each message, in the order of the ids
    displayed,  \* who was shown which message
    confirmed   \* the direct messages marked as read

boxVars == << sent, displayed, confirmed >>

BoxInit ==
    /\ sent = << >>
    /\ displayed = {}
    /\ confirmed = {}

Post(recipient) ==
    /\ sent' = Append(sent, recipient)
    /\ UNCHANGED << displayed, confirmed >>

Display(u, id) ==
    /\ id \in 1 .. Len(sent)
    /\ sent[id] \in {u, NoUser}
    /\ displayed' = displayed \cup {<< u, id >>}
    /\ UNCHANGED << sent, confirmed >>

Confirm(id) ==
    /\ id \in 1 .. Len(sent)
    /\ sent[id] # NoUser
    /\ << sent[id], id >> \in displayed
    /\ confirmed' = confirmed \cup {id}
    /\ UNCHANGED << sent, displayed >>

BoxNext ==
    \/ \E recipient \in Users \cup {NoUser} : Post(recipient)
    \/ \E u \in Users, id \in 1 .. Len(sent) : Display(u, id)
    \/ \E id \in 1 .. Len(sent) : Confirm(id)

BoxSpec == BoxInit /\ [][BoxNext]_boxVars
=============================================================================
