----------------------------- MODULE MCClients ------------------------------
EXTENDS Clients
CONSTANTS a, b

\* Two machines of one agent, or of two.
Names == {[c \in Machines |-> "ann"], [c \in Machines |-> IF c = a THEN "ann" ELSE "bob"]}
\* Each project is pushed from one machine.
OwnProjects == [c \in Machines |-> IF c = a THEN {1, 2} ELSE {3}]

\* Two agents that work on the same project.
TwoAgents == {[c \in Machines |-> IF c = a THEN "ann" ELSE "bob"]}
SameProject == [c \in Machines |-> {1}]
=============================================================================
