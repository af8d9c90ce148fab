------------------------------ MODULE MCChatPage ------------------------------
(* Two sessions and two questions: the second can be asked while the first    *)
(* answer is still read, and either can be left for the other session.        *)
EXTENDS ChatPage, TLC
=============================================================================
