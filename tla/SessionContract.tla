-------------------------- MODULE SessionContract ---------------------------
(***************************************************************************)
(* What the identity service promises about a session, with no request,    *)
(* lock or clock in sight: a session is opened with one refresh token, a   *)
(* token of a session that is not dead can be exchanged for a new one of   *)
(* the same session, and a dead session is dead for good, its family of    *)
(* tokens closed (domain/models/session.py: "Revocation is permanent").    *)
(***************************************************************************)
EXTENDS Naturals, Rows

CONSTANTS Session, Token

VARIABLES
    opened,   \* the sessions that exist
    dead,     \* those that have been revoked
    family,   \* the session of each token handed out
    spent     \* the tokens that have been used or invalidated

contractVars == <<opened, dead, family, spent>>

Start ==
    /\ opened = {}
    /\ dead = {}
    /\ family = EmptyTable
    /\ spent = {}

Open ==
    \E s \in Session \ opened, t \in Token \ DOMAIN family :
        /\ opened' = opened \cup {s}
        /\ family' = Inserted(family, t, s)
        /\ UNCHANGED <<dead, spent>>

Exchange ==
    \E t \in DOMAIN family, u \in Token \ DOMAIN family :
        /\ family[t] \in opened \ dead
        /\ family' = Inserted(family, u, family[t])
        /\ spent' = spent \cup {t}
        /\ UNCHANGED <<opened, dead>>

\* A replayed token condemns its session; its tokens are dead with it.
Condemn ==
    \E s \in opened :
        /\ dead' = dead \cup {s}
        /\ UNCHANGED <<opened, family, spent>>

\* The owner closes some sessions and every token of theirs is spent.
Close ==
    \E S \in SUBSET opened :
        /\ dead' = dead \cup S
        /\ spent' = spent \cup {t \in DOMAIN family : family[t] \in S}
        /\ UNCHANGED <<opened, family>>

Promise == Start /\ [][Open \/ Exchange \/ Condemn \/ Close]_contractVars
=============================================================================
