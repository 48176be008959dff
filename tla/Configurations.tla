--------------------------- MODULE Configurations ---------------------------
(***************************************************************************)
(* The configurations of pubsub::root: a list of node groups, each with    *)
(* the configuration of its nodes.  A node gets its configuration when it  *)
(* is subscribed to for the first time and keeps it.                       *)
(***************************************************************************)
EXTENDS NodeNames
LOCAL INSTANCE SequencesExt

CONSTANTS
    Groups,         \* the node_groups, with their filters; copies are the same group
    Objects,        \* JSON objects, what nodes are named with
    MaxListed       \* bound: configurations in the list

VARIABLES
    configurations, \* configurations_, pairs of a group and a configuration
    nodes,          \* nodes_, the names of the nodes with their configurations
    inForce         \* history: the groups that were added and not removed

vars == <<configurations, nodes, inForce>>

(* class configuration, with what a node uses of it, and configurator. *)
DefaultConfiguration == [authorization_required |-> TRUE, max_update_size |-> 70]

authorization_not_required(config) == [config EXCEPT !.authorization_required = FALSE]

max_update_size(config, size) == [config EXCEPT !.max_update_size = size]

Configs == {authorization_not_required(DefaultConfiguration), max_update_size(DefaultConfiguration, 1)}

Init == configurations = <<>> /\ nodes = {} /\ inForce = {}

-----------------------------------------------------------------------------
(* A group that is in force is not added once more here. *)
add_configuration(g, config) ==
    /\ Len(configurations) < MaxListed /\ g \notin inForce
    /\ configurations' = Append(configurations, [group |-> g, config |-> config])
    /\ inForce' = inForce \cup {g}
    /\ UNCHANGED nodes

(* The caller has added the group.  The loop goes on while the group is    *)
(* the one that is looked for; at the end of the list it throws.           *)
remove_configuration(g) ==
    /\ g \in inForce
    /\ inForce' = inForce \ {g}
    /\ LET others == { i \in DOMAIN configurations : configurations[i].group # g }
           pos == CHOOSE i \in others : \A j \in others : i <= j
       IN  configurations' = IF others = {} THEN configurations ELSE RemoveAt(configurations, pos)
    /\ UNCHANGED nodes

get_configuration(name) ==
    LET fitting == SelectSeq(configurations, LAMBDA c : in_group(Groups[c.group], name))
    IN  IF fitting = <<>> THEN DefaultConfiguration ELSE Head(fitting).config

(* nodes_.find(): neither name comes before the other. *)
Listed(name) == \E n \in nodes : ~name_less(n.name, name) /\ ~name_less(name, n.name)

subscribe(object) ==
    LET name == node_name(object)
    IN  /\ ~Listed(name)
        /\ nodes' = nodes \cup {[name |-> name, config |-> get_configuration(name)]}
        /\ UNCHANGED <<configurations, inForce>>

Next ==
    \/ \E g \in DOMAIN Groups, config \in Configs : add_configuration(g, config)
    \/ \E g \in DOMAIN Groups : remove_configuration(g)
    \/ \E object \in Objects : subscribe(object)

Spec == Init /\ [][Next]_vars

-----------------------------------------------------------------------------
(* root.h:60: remove_configuration() "removes the named configuration"     *)
(* that was "added by exactly the same node_name", so the list has the     *)
(* groups that were added and not removed.                                 *)
ConfigurationRemoved == { configurations[i].group : i \in DOMAIN configurations } = inForce
=============================================================================
