------------------------------ MODULE MCServer ------------------------------
(* Limits of two namespaces.  "global" limits everyone, "user" each user,  *)
(* and only some requests; the limits of "typo" fail to evaluate, one in   *)
(* its condition, the other in its variable.                               *)
EXTENDS Server

Limit(ns, id, conditions, variables, max) ==
    [namespace |-> ns, id |-> id, seconds |-> 60, conditions |-> conditions,
     variables |-> variables, max |-> max]

Of(path) == [root |-> "descriptors", path |-> path]
Is(path, want) == [root |-> "descriptors", path |-> path, want |-> want]

Global(max) == Limit("shop", None, <<>>, <<>>, max)
User == Limit("shop", "user", <<Is("method", "GET")>>, <<Of("user")>>, 1)
BadCondition == Limit("typo", None, <<Is("user", "")>>, <<>>, 1)
BadVariable == Limit("typo", None, <<>>, <<Of("")>>, 1)

MCVersions == {Global(1), Global(2), User, BadCondition, BadVariable}
MCFiles ==
    [first  |-> <<Global(1), User, BadCondition, BadVariable>>,
     second |-> <<Global(2), BadVariable, BadCondition, Global(1)>>]
MCContexts ==
    {ListBinding("descriptors", ("method" :> "GET") @@ ("user" :> "ann")),
     ListBinding("descriptors", ("method" :> "PUT"))}
=============================================================================
