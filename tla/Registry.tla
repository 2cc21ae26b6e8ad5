------------------------------- MODULE Registry --------------------------------
(***************************************************************************)
(* What the accounts promise: an address is registered once and for good,  *)
(* at one instant, whoever else asks for it and whatever fails meanwhile;  *)
(* and a session speaks for an account that is registered, in the hands of *)
(* someone who presented its password.  Nothing is promised about when, or *)
(* about what a refused request is told.                                   *)
(***************************************************************************)

CONSTANTS Holders,     \* those who may hold a session
          Possible,    \* the accounts [id, email, password] that may be registered
          NoSession

VARIABLES registered,  \* the accounts there are
          session      \* [Holders -> the account it speaks for, as its holder knows it]

vars == <<registered, session>>

Init == registered = {} /\ session = [h \in Holders |-> NoSession]

Register(a) ==
    /\ \A b \in registered : a.id # b.id /\ a.email # b.email
    /\ registered' = registered \union {a}
    /\ UNCHANGED session

Open(h, a) ==
    /\ a \in registered
    /\ session' = [session EXCEPT ![h] = a]
    /\ UNCHANGED registered

Next == \/ \E a \in Possible : Register(a)
        \/ \E h \in Holders, a \in Possible : Open(h, a)

Spec == Init /\ [][Next]_vars
=============================================================================
