----------------------------- MODULE MCOperator ------------------------------
(***************************************************************************)
(* Specs of proxies for model checking the two reconcilers together.       *)
(***************************************************************************)
EXTENDS Operator

WithRulesets(rulesets) ==
  [size : {1}, ports : {{80}}, rulesets : rulesets, target : {"t1"}]

\* A proxy that uses every ConfigMap of the namespace, or none.
AllOrNone == WithRulesets({<<>>, <<{}>>})

\* A proxy that uses the rules with one label.
ByLabel == WithRulesets({<<{"l1"}>>})
==============================================================================
