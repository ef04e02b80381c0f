----------------------------- MODULE MCPlugins -----------------------------
(* Values of Plugins for TLC. *)
EXTENDS Plugins, TLC

CONSTANTS p1, p2

\* The calls of an init, each with the fields of all kinds.
Binds(type, mask, handler) == [op |-> "bind", type |-> type, arg |-> mask, handler |-> handler]
Calls(op, arg) == [op |-> op, type |-> "", arg |-> arg, handler |-> ""]

MCPlan ==
  (p1 :> <<Binds("join", "*", "slow1"), Binds("pub", "!x", "guarded1"),
           Calls("setting", "k"), Calls("modes", ""), Binds("time", "60", "tick1")>>)
  @@ (p2 :> <<Binds("join", "*", "once2"), Binds("join", "#c", "plain2"), Binds("pub", "!x", "plain2"),
              Calls("help", ""), Calls("change", ""), Calls("setting", "k")>>)
MCAwaits == (p1 :> {2}) @@ (p2 :> {})
MCFaulty == {p1}
MCSlowTeardown == {p1}
MCScoped == {p2}
MCConfigured == <<p1, p2>>
MCSlow == {"slow1"}
MCOnce == {"once2", "tick1"}
MCGuarded == {"guarded1"}
MCEvents ==
  {[type |-> "join", masks |-> {"*", "#c"}, by |-> {"slow1", "once2", "plain2"}],
   [type |-> "pub", masks |-> {"!x"}, by |-> {"guarded1", "plain2"}]}
MCOrders ==
  {<<Step("load", p1, FALSE)>>, <<Step("unload", p1, FALSE)>>,
   <<Step("unload", p1, FALSE), Step("load", p1, FALSE)>>,
   <<Step("unload", p2, FALSE), Step("load", p2, FALSE)>>}
============================================================================
