------------------------------ MODULE Plugins ------------------------------
(* The event dispatcher (src/dispatcher.ts), the plugin loader
   (src/plugin-loader.ts) and the part of the plugin API that leaves something
   behind (src/plugin-api-factory.ts, core/help-registry.ts,
   core/channel-settings.ts, event-bus.ts).

   Every await is a point where others go on: importing a plugin, its init, its
   teardown, the verification before a handler and the handler itself.  Commands
   of the console and the loading at the start are jobs; plugins are external: a
   plugin's init is the sequence Plan of API calls with awaits in between.

   A bind is known by the load that made it (a generation) and its place in the
   plan.  dispatch() iterates over the array it found: bind() of a command and
   unbindAll() put a new array in place, which the iteration does not see, while
   push() and unbind() change the one it goes through.                        *)
EXTENDS Integers, Sequences, FiniteSets

CONSTANTS
  Plugins,       \* names of plugins, one file each
  Plan,          \* plugin -> the API calls of its init, in order
  Awaits,        \* plugin -> the places in the plan after which init awaits
  Faulty,        \* plugins whose init may throw
  SlowTeardown,  \* plugins whose teardown returns a promise
  Scoped,        \* plugins with "channels" in plugins.json
  Configured,    \* the order in which loadAll comes upon them
  Keys,          \* names of channel settings
  Slow,          \* handlers that return a promise
  Once,          \* handlers that unbind themselves when called
  Guarded,       \* handlers whose flags ask for a verified nick
  Events,        \* [type, masks, by]: masks it matches, handlers it has flags for
  Orders,        \* what the console may ask for: sequences of steps
  Jobs,          \* console users, and the start of the bot
  Boot,          \* the job that is the start
  Dispatches,    \* events under way at once
  MaxGens        \* bound: loads that reach init

Step(op, p, cfg) == [op |-> op, plugin |-> p, cfg |-> cfg]
Steps == [op : {"load", "unload"}, plugin : Plugins, cfg : BOOLEAN]

ASSUME PluginsAssumption ==
  /\ Boot \in Jobs /\ "none" \notin Plugins
  /\ MaxGens \in Nat
  /\ Configured \in Seq(Plugins)
  /\ Plan \in [Plugins -> Seq([op : {"bind", "help", "setting", "change", "modes"},
                               type : STRING, arg : STRING, handler : STRING])]
  /\ Awaits \in [Plugins -> SUBSET Nat] /\ \A p \in Plugins : Awaits[p] \subseteq DOMAIN Plan[p]
  /\ Orders \subseteq Seq(Steps)

VARIABLES
  owner,    \* generation -> its plugin, in the order of their loads
  scoped,   \* generations whose API wraps handlers in the channel scope
  loaded,   \* plugin -> generation in PluginLoader.loaded, 0 if none
  reg,      \* what plugins have registered, see Nothing
  job,      \* job -> the steps left, and how far the first one is
  dis,      \* dispatch -> the event, its phase and the index of its bind
  owed,     \* history: binds an event has yet to reach
  failed,   \* history: plugins whose init threw since they were last unloaded
  crossed   \* history: plugins two jobs worked on at the same time

pluginVars == <<owner, scoped, loaded, reg, job, dis, owed, failed, crossed>>

----------------------------------------------------------------------------
NonStackable == {"pub", "msg"}
Gens == 1 .. MaxGens
Entries == Gens \X Nat
CallOf(of, e) == Plan[of[e[1]]][e[2]]
Call(e) == CallOf(owner, e)
Bound(r) == {r.binds[i] : i \in DOMAIN r.binds}

\* A dispatch goes through the array in use, or through one that is no longer: <<it>>.
Live == <<>>

\* The state of dispatcher, help registry, channel settings and event bus; the
\* arrays that dispatches under way go through are part of the dispatcher's.
Nothing ==
  [binds |-> <<>>, timers |-> {}, wraps |-> {}, view |-> [d \in Dispatches |-> Live],
   help |-> {}, defs |-> [k \in Keys |-> "none"], changes |-> {},
   bus |-> {}, known |-> [p \in Plugins |-> {}]]

Idle == [phase |-> "idle", todo |-> <<>>, gen |-> 0, done |-> 0]
Begin(steps) ==
  IF steps = <<>> THEN Idle ELSE [Idle EXCEPT !.phase = "ready", !.todo = steps]
LoadAll == [i \in DOMAIN Configured |-> Step("load", Configured[i], TRUE)]
NoEvent == [phase |-> "idle", event |-> [type |-> "none", masks |-> {}, by |-> {}], at |-> 0,
            entry |-> <<0, 0>>]

PluginsInit ==
  /\ owner = <<>> /\ scoped = {}
  /\ loaded = [p \in Plugins |-> 0]
  /\ reg = Nothing
  /\ job = [j \in Jobs |-> IF j = Boot THEN Begin(LoadAll) ELSE Idle]
  /\ dis = [d \in Dispatches |-> NoEvent]
  /\ owed = [d \in Dispatches |-> {}]
  /\ failed = {} /\ crossed = {}

----------------------------------------------------------------------------
(* The dispatcher's table. *)

\* The sequence q without the elements in X.
Without(q, X) ==
  LET Kept[i \in 0 .. Len(q)] ==
        IF i = 0 THEN <<>>
        ELSE IF q[i] \in X THEN Kept[i - 1] ELSE Append(Kept[i - 1], q[i])
  IN Kept[Len(q)]

\* this.binds = <a new array>: iterations go on with the one they had.
Replaced(r, binds) ==
  [r EXCEPT !.view = [d \in Dispatches |->
                       IF dis[d].phase # "idle" /\ @[d] = Live THEN <<r.binds>> ELSE @[d]],
            !.binds = binds]

Same(c, d) == c.type = d.type /\ c.arg = d.arg

\* dispatcher.bind(): a command takes the place of the one bound to its mask;
\* a timer bind has its interval.
Bind(r, e, of) ==
  LET c == CallOf(of, e)
      room == IF c.type \in NonStackable
              THEN Replaced(r, Without(r.binds, {x \in Bound(r) : Same(CallOf(of, x), c)})) ELSE r
  IN [room EXCEPT !.binds = Append(@, e),
                  !.timers = IF c.type = "time" THEN @ \cup {e} ELSE @]

\* dispatcher.unbind() of the entry: out of the array in use, in place.
Unbind(r, e) ==
  [r EXCEPT !.binds = Without(@, {e}), !.timers = @ \ {e}]

UnbindInPlace(r, p, of) ==  \* mutant
  LET its == {e \in Bound(r) : of[e[1]] = p}
  IN [r EXCEPT !.binds = Without(@, its), !.timers = @ \ its]

\* dispatcher.unbindAll()
UnbindAll(r, p, of) ==
  LET its == {e \in Bound(r) : of[e[1]] = p}
  IN [Replaced(r, Without(r.binds, its)) EXCEPT !.timers = @ \ its]

----------------------------------------------------------------------------
(* The plugin API: what one call of generation g leaves behind. *)

\* Within a scope the API remembers one wrapped handler for each handler and mask.
Remember(r, e, of, wrap) ==
  LET Replaces(x) == /\ x[1] = e[1] /\ Same(CallOf(of, x), CallOf(of, e))
                     /\ CallOf(of, x).handler = CallOf(of, e).handler
  IN [r EXCEPT !.wraps = IF wrap THEN {x \in @ : ~Replaces(x)} \cup {e} ELSE @]

\* The registries are keyed by the plugin's name; a setting stays with the plugin
\* that came first.
RegisterHelp(r, p) == [r EXCEPT !.help = @ \cup {p}]
RegisterSetting(r, p, k) == [r EXCEPT !.defs[k] = IF @ = "none" THEN p ELSE @]
OnChange(r, p) == [r EXCEPT !.changes = @ \cup {p}]
OnModesReady(r, p, e) == [r EXCEPT !.bus = @ \cup {e}, !.known[p] = @ \cup {e}]

Api(r, e, of, wrap) ==
  LET c == CallOf(of, e)
      p == of[e[1]]
  IN CASE c.op = "bind"    -> Bind(Remember(r, e, of, wrap), e, of)
       [] c.op = "help"    -> RegisterHelp(r, p)
       [] c.op = "setting" -> RegisterSetting(r, p, c.arg)
       [] c.op = "change"  -> OnChange(r, p)
       [] c.op = "modes"   -> OnModesReady(r, p, e)

\* api.unbind() of one's own handler: finds the handler itself, or the wrapped
\* one the API remembers, which it then forgets.
SelfUnbind(r, e) ==
  IF e[1] \notin scoped \/ e \in r.wraps
  THEN [Unbind(r, e) EXCEPT !.wraps = @ \ {e}] ELSE r

----------------------------------------------------------------------------
(* dispatch(): from one await to the next. *)

Seen(r, d) == IF r.view[d] = Live THEN r.binds ELSE r.view[d][1]
Takes(ev, e) ==
  LET c == Call(e) IN c.type = ev.type /\ c.arg \in ev.masks /\ c.handler \in ev.by

\* Later matches of the event in the array it goes through.
Ahead(r, d, ev, at) == {i \in DOMAIN Seen(r, d) : i > at /\ Takes(ev, Seen(r, d)[i])}

\* The iteration goes on behind index `at`, and stops at the next verification or
\* at the end of the array; binds it never came to stay owed.
Continue(d, r, ev, at, debt) ==
  LET next == Ahead(r, d, ev, at) IN
  IF next = {}
  THEN /\ dis' = [dis EXCEPT ![d] = NoEvent]
       /\ reg' = [r EXCEPT !.view[d] = Live]
       /\ owed' = [debt EXCEPT ![d] = @ \cap Bound(r)]
  ELSE /\ LET i == CHOOSE i \in next : \A k \in next : i <= k IN
          dis' = [dis EXCEPT ![d] = [phase |-> "verify", event |-> ev, at |-> i,
                                     entry |-> Seen(r, d)[i]]]
       /\ reg' = r
       /\ owed' = debt

Dispatch(d, ev) ==
  /\ dis[d].phase = "idle" /\ owed[d] = {}
  /\ Ahead(reg, d, ev, 0) # {}
  /\ Continue(d, reg, ev, 0, [owed EXCEPT ![d] = {e \in Bound(reg) : Takes(ev, e)}])
  /\ UNCHANGED <<owner, scoped, loaded, job, failed, crossed>>

HandlerActs(r, e) ==
  IF Call(e).handler \in Once /\ e \in Bound(r) THEN SelfUnbind(r, e) ELSE r

\* History: a handler that unbinds itself moves what is behind it one place forward
\* in the array in use, so an event that is at it or behind it passes a bind over.
Cut(e) ==
  IF HandlerActs(reg, e).binds = reg.binds THEN owed
  ELSE [d \in Dispatches |->
          IF reg.view[d] = Live /\ \E i \in DOMAIN reg.binds : i <= dis[d].at /\ reg.binds[i] = e
          THEN {} ELSE owed[d]]

\* checkVerification() resolved; the handler is called, or the bind passed over.
Verified(d, ok) ==
  /\ dis[d].phase = "verify"
  /\ ok \/ Call(dis[d].entry).handler \in Guarded
  /\ LET e == dis[d].entry
         r == IF ok THEN HandlerActs(reg, e) ELSE reg
         debt == [IF ok THEN Cut(e) ELSE owed EXCEPT ![d] = @ \ {e}]
     IN IF ok /\ Call(e).handler \in Slow
        THEN /\ dis' = [dis EXCEPT ![d].phase = "handler"]
             /\ reg' = r /\ owed' = debt
        ELSE Continue(d, r, dis[d].event, dis[d].at, debt)
  /\ UNCHANGED <<owner, scoped, loaded, job, failed, crossed>>

HandlerEnds(d) ==
  /\ dis[d].phase = "handler"
  /\ Continue(d, reg, dis[d].event, dis[d].at, owed)
  /\ UNCHANGED <<owner, scoped, loaded, job, failed, crossed>>

\* The interval of a 'time' bind; a handler that leaves the table alone is a stutter.
TimerFires(e) ==
  /\ e \in reg.timers
  /\ Call(e).handler \in Once
  /\ reg' = HandlerActs(reg, e)
  /\ owed' = Cut(e)
  /\ UNCHANGED <<owner, scoped, loaded, job, dis, failed, crossed>>

----------------------------------------------------------------------------
(* The loader. *)

Head1(j) == Head(job[j].todo)
On(j, p) == job[j].phase # "idle" /\ p \in {job[j].todo[i].plugin : i \in DOMAIN job[j].todo}
NextStep(j) == [job EXCEPT ![j] = Begin(Tail(job[j].todo))]

\* A command of the console: load, unload, reload.
Order(j, o) ==
  /\ job[j].phase = "idle"
  /\ Len(owner) < MaxGens
  /\ job' = [job EXCEPT ![j] = Begin(o)]
  /\ crossed' = crossed \cup {p \in {o[i].plugin : i \in DOMAIN o} : \E k \in Jobs : On(k, p)}
  /\ UNCHANGED <<owner, scoped, loaded, reg, dis, owed, failed>>

StartLoad(j) ==
  /\ job[j].phase = "ready" /\ Head1(j).op = "load"
  /\ job' = [job EXCEPT ![j].phase = "import"]
  /\ UNCHANGED <<owner, scoped, loaded, reg, dis, owed, failed, crossed>>

\* No such file, it does not import, or it is no plugin.
ImportFails(j) ==
  /\ job[j].phase = "import"
  /\ Head1(j).plugin \in Faulty
  /\ job' = NextStep(j)
  /\ UNCHANGED <<owner, scoped, loaded, reg, dis, owed, failed, crossed>>

NeverDuplicate(p) == FALSE  \* mutant

\* Checked when the import resolves, before init; recorded only after init.
Duplicate(p) == loaded[p] # 0

AlreadyLoaded(j) ==
  /\ job[j].phase = "import"
  /\ Duplicate(Head1(j).plugin)
  /\ job' = NextStep(j)
  /\ UNCHANGED <<owner, scoped, loaded, reg, dis, owed, failed, crossed>>

\* What generation g leaves behind, from its place `from` in the plan up to each later one.
Ran(g, from, of, wrap) ==
  LET R[k \in from .. Len(Plan[of[g]])] ==
        IF k = from THEN reg ELSE Api(R[k - 1], <<g, k>>, of, wrap)
  IN R

\* init() from one await to the next, or to its end: the plugin is recorded, or,
\* when init throws, loses its binds.
RunInit(j, g, from, of, wrap) ==
  LET p == of[g]
      stops == {a \in Awaits[p] : a > from}
      to == IF stops = {} THEN Len(Plan[p]) ELSE CHOOSE a \in stops : \A b \in stops : a <= b
      ran == Ran(g, from, of, wrap)
  IN \/ /\ stops = {}
        /\ reg' = ran[to]
        /\ loaded' = [loaded EXCEPT ![p] = g]
        /\ job' = NextStep(j)
        /\ UNCHANGED failed
     \/ /\ stops # {}
        /\ reg' = ran[to]
        /\ job' = [job EXCEPT ![j] = [@ EXCEPT !.phase = "init", !.gen = g, !.done = to]]
        /\ UNCHANGED <<loaded, failed>>
     \/ /\ p \in Faulty
        /\ \E n \in from .. to : reg' = UnbindAll(ran[n], p, of)
        /\ job' = NextStep(j)
        /\ failed' = failed \cup {p}
        /\ UNCHANGED loaded

\* The import resolved: the plugin's first generation, or a new one.
Load(j) ==
  /\ job[j].phase = "import"
  /\ ~Duplicate(Head1(j).plugin)
  /\ Len(owner) < MaxGens
  /\ LET p == Head1(j).plugin
         wrap == Head1(j).cfg /\ p \in Scoped
         g == Len(owner) + 1
     IN /\ owner' = Append(owner, p)
        /\ scoped' = IF wrap THEN scoped \cup {g} ELSE scoped
        /\ RunInit(j, g, 0, owner', wrap)
  /\ UNCHANGED <<dis, owed, crossed>>

InitGoesOn(j) ==
  /\ job[j].phase = "init"
  /\ RunInit(j, job[j].gen, job[j].done, owner, job[j].gen \in scoped)
  /\ UNCHANGED <<owner, scoped, dis, owed, crossed>>

ForgetList(r, p) == [r EXCEPT !.known[p] = {}]  \* mutant
ForgetModesReady(r, p) == [r EXCEPT !.bus = @ \ r.known[p], !.known[p] = {}]
ForgetHelp(r, p) == [r EXCEPT !.help = @ \ {p}]
ForgetSettings(r, p) ==
  [r EXCEPT !.defs = [k \in Keys |-> IF @[k] = p THEN "none" ELSE @[k]],
            !.changes = @ \ {p}]

\* unload() behind the teardown.
Forgotten(r, p) ==
  ForgetModesReady(ForgetSettings(ForgetHelp(UnbindAll(r, p, owner), p), p), p)

Unloaded(j) ==
  LET p == Head1(j).plugin IN
  /\ reg' = Forgotten(reg, p)
  /\ loaded' = [loaded EXCEPT ![p] = 0]
  /\ failed' = failed \ {p}
  /\ job' = NextStep(j)
  /\ UNCHANGED <<owner, scoped, dis, owed, crossed>>

\* unload(): not loaded, which ends a reload too; or the teardown is called.
StartUnload(j) ==
  LET p == Head1(j).plugin IN
  /\ job[j].phase = "ready" /\ Head1(j).op = "unload"
  /\ \/ /\ loaded[p] = 0
        /\ job' = [job EXCEPT ![j] = Idle]
        /\ UNCHANGED <<owner, scoped, loaded, reg, dis, owed, failed, crossed>>
     \/ /\ loaded[p] # 0 /\ p \in SlowTeardown
        /\ job' = [job EXCEPT ![j].phase = "teardown"]
        /\ UNCHANGED <<owner, scoped, loaded, reg, dis, owed, failed, crossed>>
     \/ /\ loaded[p] # 0 /\ p \notin SlowTeardown
        /\ Unloaded(j)

TeardownEnds(j) ==
  /\ job[j].phase = "teardown"
  /\ Unloaded(j)

----------------------------------------------------------------------------
PluginsNext ==
  \/ \E j \in Jobs : \/ \E o \in Orders : Order(j, o)
                     \/ StartLoad(j) \/ ImportFails(j) \/ AlreadyLoaded(j) \/ Load(j)
                     \/ InitGoesOn(j) \/ StartUnload(j) \/ TeardownEnds(j)
  \/ \E d \in Dispatches : \/ \E ev \in Events : Dispatch(d, ev)
                           \/ \E ok \in BOOLEAN : Verified(d, ok)
                           \/ HandlerEnds(d)
  \/ \E e \in reg.timers : TimerFires(e)

PluginsSpec == PluginsInit /\ [][PluginsNext]_pluginVars

----------------------------------------------------------------------------
Registries ==
  [binds : Seq(Entries), timers : SUBSET Entries, wraps : SUBSET Entries,
   view : [Dispatches -> Seq(Seq(Entries))], help : SUBSET Plugins,
   defs : [Keys -> Plugins \cup {"none"}], changes : SUBSET Plugins,
   bus : SUBSET Entries, known : [Plugins -> SUBSET Entries]]

PluginsTypeOK ==
  /\ owner \in Seq(Plugins) /\ Len(owner) <= MaxGens
  /\ scoped \subseteq Gens
  /\ loaded \in [Plugins -> 0 .. MaxGens]
  /\ reg \in Registries
  /\ job \in [Jobs -> [phase : {"idle", "ready", "import", "init", "teardown"},
                       todo : Seq(Steps), gen : 0 .. MaxGens, done : Nat]]
  /\ \A j \in Jobs : job[j].phase = "idle" <=> job[j].todo = <<>>
  /\ dis \in [Dispatches -> [phase : {"idle", "verify", "handler"}, event : Events \cup {NoEvent.event},
                             at : Nat, entry : Entries \cup {NoEvent.entry}]]
  /\ \A d \in Dispatches : dis[d].phase = "idle" => dis[d] = NoEvent /\ reg.view[d] = Live
  /\ owed \in [Dispatches -> SUBSET Entries]
  /\ failed \subseteq Plugins /\ crossed \subseteq Plugins

Working(p) == \E j \in Jobs : job[j].phase = "init" /\ Head1(j).plugin = p

(* A plugin that is not loaded, and none of whose loads is in init, has no bind left
   and no interval; nor, unless its init threw, help entries, settings, change
   listeners or listeners on the event bus.  Intervals are those of the timer binds
   in the table, listeners on the bus are those the loader knows how to remove; and
   everything keeps its type. *)
NothingLeft ==
  /\ PluginsTypeOK
  /\ reg.timers = {e \in Bound(reg) : Call(e).type = "time"}
  /\ reg.bus = UNION {reg.known[p] : p \in Plugins}
  /\ \A p \in Plugins : loaded[p] = 0 /\ ~Working(p) =>
       /\ \A e \in Bound(reg) : owner[e[1]] # p
       /\ p \in failed \/ /\ p \notin reg.help \cup reg.changes
                          /\ reg.known[p] = {}
                          /\ \A k \in Keys : reg.defs[k] # p

Lasting(c) == c.op = "bind" /\ c.type \notin NonStackable /\ c.handler \notin Once

(* A loaded plugin that no two jobs worked on at once has all the binds its init
   asked for, of the generation that is loaded and of no other. *)
LoadedWorks ==
  \A p \in Plugins : loaded[p] # 0 /\ p \notin crossed =>
    /\ \A e \in Bound(reg) : owner[e[1]] = p => e[1] = loaded[p]
    /\ \A n \in DOMAIN Plan[p] : Lasting(Plan[p][n]) => <<loaded[p], n>> \in Bound(reg)

(* An event reaches every bind that was there when it came and is there when it has
   been dispatched, whatever was loaded and unloaded meanwhile; the exception is an
   event at or behind a bind that a handler took out. *)
Delivered == \A d \in Dispatches : dis[d].phase = "idle" => owed[d] = {}
============================================================================
