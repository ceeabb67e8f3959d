------------------------------- MODULE Outbox -------------------------------
(* What the senders of mail and push notifications promise.  They send, then *)
(* write down that they sent; so an item reaches its recipient once, and     *)
(* once more for every slip between the two: a process that died, an answer  *)
(* or a write that was lost, two runs that had both read it as unsent.       *)
EXTENDS Naturals

CONSTANT Items
VARIABLES got, slack

Init == got = [i \in Items |-> 0] /\ slack = [i \in Items |-> 0]

Deliver(i) == got[i] <= slack'[i] /\ got'[i] = got[i] + 1
\* The digest of another day, the story in place of one that has aged, is an
\* item of its own.
Renew(i) == got'[i] = 0

Step ==
    /\ got' \in [Items -> Nat] /\ slack' \in [Items -> Nat]
    /\ \A i \in Items :
        \/ slack'[i] >= slack[i] /\ (got'[i] = got[i] \/ Deliver(i))
        \/ Renew(i)

Spec == Init /\ [][Step]_<<got, slack>>
=============================================================================
