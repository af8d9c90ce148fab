---------------------------- MODULE MCQueryRoutes ----------------------------
(* Two requests.  Whatever one leaves in the cache, the memory and the      *)
(* bucket, the other one meets.                                             *)
EXTENDS QueryRoutes

CONSTANTS r1, r2, alice, bob, chat, t1, t2

Message(r, u, s, t) == [route |-> r, user |-> u, session |-> s, text |-> t]

\* A conversation, held over either route, and a question asked outside it,
\* which is what a follow-up in the conversation may come to mean.
MCMessages ==
    {Message("stream", alice, chat, t1), Message("query", alice, chat, t1),
     Message("stream", alice, NoSession, t2)}

\* The same question of two users, each in no conversation.
MCTwoUsers == {Message("stream", u, NoSession, t1) : u \in {alice, bob}}

\* One conversation.
MCOneChat == {Message("stream", alice, chat, t) : t \in {t1, t2}}
=============================================================================
