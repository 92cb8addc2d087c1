------------------------------ MODULE MCRegistry ------------------------------
(* Two files; an architect that hands over to a developer, a developer     *)
(* that accepts it, and one that only serves the user.                     *)
EXTENDS Registry

AgentNames == {"architect", "developer"}
Architect == [name |-> "architect", accepts |-> {User}, delegates |-> {"developer"}]
Developer == [name |-> "developer", accepts |-> {"architect"}, delegates |-> {}]
Recluse == [name |-> "developer", accepts |-> {User}, delegates |-> {}]
AgentSpecs == {Architect, Developer, Recluse}
=============================================================================
