------------------------------ MODULE MCDiscord ------------------------------
(* Two messages of one channel, or of two; configurations that name another *)
(* route, or that no longer accept a message.                                *)
EXTENDS DiscordGateway, TLC

MCMessage == 1..2
OneChannel == [m \in MCMessage |-> "general"]
TwoChannels == <<"general", "thread">>
AllAllowed == [c \in Config |-> MCMessage]
OneRejected == [c \in Config |-> IF c = "first" THEN MCMessage ELSE {2}]
OwnRoute == [c \in Config |-> c]
Symmetry == Permutations(Config)
=============================================================================
