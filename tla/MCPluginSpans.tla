---------------------------- MODULE MCPluginSpans ----------------------------
(* A session with a namespaced key whose tail is its session id, and a       *)
(* subagent with a namespaced and a bare key.                                *)
EXTENDS PluginSpans

CONSTANTS key, id, sub, bare

MCKeys == {key, id, sub, bare}
MCAliasesOf == [k \in MCKeys |->
  CASE k = key -> {key, id} [] k = id -> {id} [] OTHER -> {sub, bare}]
MCNames == {<<key, id>>, <<id>>, <<sub, bare>>}
MCChildren == {<<sub, bare>>, <<bare, sub>>}

\* The names and the children are such as two of the theorems ask for.
ASSUME ConsistentlyNamed == NamesMeet /\ ChildrenApart
===============================================================================
