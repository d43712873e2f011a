---------------------------- MODULE MCVillipProxy ----------------------------
(***************************************************************************)
(* Specs of proxies for model checking.                                    *)
(***************************************************************************)
EXTENDS VillipProxy

Proxies(sizes, portSets, rulesets, targets) ==
  [size : sizes, ports : portSets, rulesets : rulesets, target : targets]

\* One proxy that nobody edits.
OneSpec == Proxies({1}, {{80}}, {<<>>}, {"t1"})

\* Edits of size and ports together: both Updates of the Deployment follow.
SizeAndPorts == Proxies({1}, {{80}}, {<<>>}, {"t1"}) \cup Proxies({2}, {{81}}, {<<>>}, {"t1"})

\* A proxy that loses all its ports, or gets some, along with an edit of size.
SizeOrNoPorts == Proxies({1}, {{80}}, {<<>>}, {"t1"}) \cup Proxies({2}, {{}}, {<<>>}, {"t1"})

\* A proxy that gains and loses rulesets that select disjoint ConfigMaps.
Selecting == Proxies({1}, {{80}}, {<<>>, <<{"l1"}>>}, {"t1"})

\* Two rulesets, the first of which selects what the second selects.
Overlapping == Proxies({1}, {{80}}, {<<{}, {"l1"}>>}, {"t1"})
==============================================================================
