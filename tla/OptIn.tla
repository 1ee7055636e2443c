-------------------------------- MODULE OptIn --------------------------------
(***************************************************************************)
(* What the mailing list promises, without tokens in rows or requests.     *)
(*                                                                         *)
(* An address is invited by mail, joins by following a link it was mailed, *)
(* and leaves for good.  No subscription takes a member back to invited    *)
(* and none brings back who has left.  Outside services hear only of       *)
(* addresses that were mailed a link, or have left.                        *)
(***************************************************************************)
CONSTANTS Email, Link

VARIABLES
    standing,   \* "stranger", "invited", "member" or "left"
    sent,       \* the links mailed to each address
    told        \* what outside services were told of each address

optIn == <<standing, sent, told>>

Init ==
    /\ standing = [e \in Email |-> "stranger"]
    /\ sent = [e \in Email |-> {}]
    /\ told = {}

Become(e, from, to) ==
    /\ standing[e] \in from
    /\ standing' = [standing EXCEPT ![e] = to]

Invite(e) ==
    /\ Become(e, {"stranger"}, "invited")
    /\ UNCHANGED <<sent, told>>

Mail(e, l) ==
    /\ standing[e] # "stranger"
    /\ sent' = [sent EXCEPT ![e] = @ \cup {l}]
    /\ UNCHANGED <<standing, told>>

Join(e) ==
    /\ sent[e] # {}
    /\ Become(e, {"invited"}, "member")
    /\ UNCHANGED <<sent, told>>

Leave(e) ==
    /\ Become(e, {"member", "left"}, "left")
    /\ UNCHANGED <<sent, told>>

Tell(e, what) ==
    /\ \/ what = "joined" /\ sent[e] # {}
       \/ what = "left" /\ standing[e] = "left"
    /\ told' = told \cup {<<e, what>>}
    /\ UNCHANGED <<standing, sent>>

Next ==
    \E e \in Email :
        \/ Invite(e) \/ Join(e) \/ Leave(e)
        \/ \E l \in Link : Mail(e, l)
        \/ \E what \in {"joined", "left"} : Tell(e, what)

Spec == Init /\ [][Next]_optIn

=============================================================================
