-------------------------- MODULE MCMessageRouter --------------------------
(* MessageRouter with a message m1 for a tool of an external protocol, which *)
(* a handler, a pattern or a forwarder may claim, and a message m2 for a     *)
(* group.                                                                    *)
EXTENDS MessageRouter, TLC

CONSTANTS m1, m2

Tool    == <<"mcp:files", "read">>
Pattern == <<"mcp:files", "*">>
Group   == <<"aurc:group", "writers">>

MCAddresses == {Tool, Pattern, Group}
MCKeys      == {Tool, Pattern}
MCScheme    == Tool :> "mcp" @@ Pattern :> "mcp" @@ Group :> "group"
MCTargetOf  == m1 :> Tool @@ m2 :> Group
MCTTL       == m1 :> 2 @@ m2 :> 1

Interchangeable == Permutations(Calls)
=============================================================================
