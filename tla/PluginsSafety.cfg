SPECIFICATION PluginsSpec
CONSTANTS
  p1 = p1
  p2 = p2
  Plugins = {p1, p2}
  Plan <- MCPlan
  Awaits <- MCAwaits
  Faulty <- MCFaulty
  SlowTeardown <- MCSlowTeardown
  Scoped <- MCScoped
  Configured <- MCConfigured
  Keys = {"k"}
  Slow <- MCSlow
  Once <- MCOnce
  Guarded <- MCGuarded
  Events <- MCEvents
  Orders <- MCOrders
  Jobs = {boot, j1}
  Boot = boot
  Dispatches = {d1}
  MaxGens = 3
INVARIANTS NothingLeft LoadedWorks Delivered
CHECK_DEADLOCK FALSE
