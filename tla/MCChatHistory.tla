---------------------------- MODULE MCChatHistory ----------------------------
EXTENDS ChatHistory, TLC

\* Files as earlier processes left them: one chat read to its end and one up to
\* message 1, each with a message to retry, and their order in config.yaml
\* changed since.
Entry(c, p) == [chat |-> c, pos |-> p]
Retries(c, S) == [chat |-> c, retry |-> S]
A == CHOOSE c \in Chats : TRUE
B == CHOOSE c \in Chats : c # A
MCInitial ==
  {<< <<Entry(A, 3), Entry(B, 2)>>, <<Retries(B, {1}), Retries(A, {2})>> >>}
MCValues == MCInitial
MCOutside == {<<B, 2>>}
MCWanted == Ids \ {<<A, 1>>}
=============================================================================
