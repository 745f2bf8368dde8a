----------------------------- MODULE PluginOrder -----------------------------
(***************************************************************************)
(* PluginManager.sort: the order in which plugins are registered, called   *)
(* and disposed.  A plugin is a record of its name and the names it        *)
(* depends on; two definitions may have the same name.                     *)
(***************************************************************************)
EXTENDS Naturals, FiniteSets, SequencesExt

\* The plugins sort can look up by name: of two with one name the last.
Pool(plugins) ==
  [n \in {plugins[i].name : i \in DOMAIN plugins} |->
     plugins[CHOOSE i \in DOMAIN plugins :
               plugins[i].name = n /\ \A j \in DOMAIN plugins : plugins[j].name = n => j <= i]]

Visited(s) == {s.stack[i].name : i \in DOMAIN s.stack}

\* A plugin goes on the stack behind those it depends on.
Visit(plugins) ==
  LET pool == Pool(plugins)
      states == [stack : Seq(ToSet(plugins)), visiting : SUBSET DOMAIN pool,
                 error : {"none", "missing", "circular"}]
      visit[s \in states, plugin \in ToSet(plugins)] ==
        LET one(t, n) == IF t.error # "none" THEN t
                         ELSE IF n \notin DOMAIN pool THEN [t EXCEPT !.error = "missing"]
                         ELSE visit[t, pool[n]]
            all == FoldLeft(one, [s EXCEPT !.visiting = @ \cup {plugin.name}], plugin.dependsOn)
        IN  IF plugin.name \in s.visiting THEN [s EXCEPT !.error = "circular"]
            ELSE IF plugin.name \in Visited(s) THEN s
            ELSE IF all.error # "none" THEN all
            ELSE [all EXCEPT !.visiting = @ \ {plugin.name}, !.stack = Append(@, plugin)]
  IN  visit

Sorted(plugins) ==
  LET one(s, plugin) == IF s.error # "none" \/ plugin.name \in Visited(s) THEN s
                        ELSE Visit(plugins)[s, plugin]
  IN  FoldLeft(one, [stack |-> <<>>, visiting |-> {}, error |-> "none"], plugins)

InOrder_unreversed(stack) == stack
InOrder(stack) == Reverse(stack)

Sort(plugins) ==
  LET s == Sorted(plugins)
  IN  [order |-> IF s.error = "none" THEN InOrder(s.stack) ELSE <<>>, error |-> s.error]

-----------------------------------------------------------------------------
(* What a sort should give, by definition. *)

Names(plugins) == {plugins[i].name : i \in DOMAIN plugins}

UniqueNames(plugins) == Cardinality(Names(plugins)) = Len(plugins)

\* There is an order: no dependency is missing and no plugins wait for each other.
Sortable(plugins) ==
  LET Depends(i) == ToSet(plugins[i].dependsOn)
  IN  /\ \A i \in DOMAIN plugins : Depends(i) \subseteq Names(plugins)
      /\ \A S \in SUBSET (DOMAIN plugins) \ {{}} :
           \E i \in S : Depends(i) \cap {plugins[j].name : j \in S} = {}

\* Every name once, and a plugin before those it depends on.
DependentsFirst(order, plugins) ==
  /\ order \in Seq(ToSet(plugins))
  /\ Names(order) = Names(plugins)
  /\ \A i, j \in DOMAIN order :
       i < j => order[i].name # order[j].name /\ ~Contains(order[j].dependsOn, order[i].name)

\* sort fails exactly when there is no order; else every plugin is in it once, before
\* those it depends on, also when two definitions have the same name.
SortIsRight(plugins) ==
  LET sorted == Sort(plugins)
  IN  /\ sorted.error = "none" => DependentsFirst(sorted.order, plugins)
      /\ UniqueNames(plugins) => (sorted.error = "none" <=> Sortable(plugins))
=============================================================================
