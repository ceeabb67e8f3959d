---------------------------- MODULE MCSocialCycle ----------------------------
(* Instances of SocialCycle for TLC.                                       *)
EXTENDS SocialCycle

CONSTANTS a1, a2, e1

InstagramOnly == <<"instagram">>
OneEvent2 == [a \in {a1, a2} |-> {e1}]
=============================================================================
