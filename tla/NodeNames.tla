----------------------------- MODULE NodeNames -----------------------------
(***************************************************************************)
(* The names of nodes: pubsub::key, node_name and node_group.  A key is a  *)
(* pair of a domain and a value.  Domains and values are numbers, which    *)
(* stand for strings in the order of strings.                              *)
(***************************************************************************)
EXTENDS Integers, Sequences
LOCAL INSTANCE SequencesExt

(* operator<() of key: the domain counts first. *)
key_less(a, b) == a[1] < b[1] \/ (a[1] = b[1] /\ a[2] < b[2])

(* std::lower_bound with sort_by_domain: the first key that does not come  *)
(* before the domain.                                                      *)
lower_bound(keys, domain) == 1 + Len(SelectSeq(keys, LAMBDA k : k[1] < domain))

HasDomainAt(keys, pos, domain) == pos <= Len(keys) /\ keys[pos][1] = domain

(* node_name::find_key(), <<>> for "not found" *)
find_key(name, domain) ==
    LET pos == lower_bound(name, domain)
    IN  IF HasDomainAt(name, pos, domain) THEN <<name[pos]>> ELSE <<>>

(* node_name( json::object ): the keys sorted by their domains. *)
node_name(object) ==
    SetToSortSeq({ <<d, object[d]>> : d \in DOMAIN object }, LAMBDA a, b : a[1] < b[1])

(* operator<() of node_name *)
name_less(a, b) ==
    \/ Len(a) < Len(b)
    \/ /\ Len(a) = Len(b)
       /\ \E i \in DOMAIN a : key_less(a[i], b[i]) /\ \A j \in 1..(i - 1) : ~key_less(b[j], a[j])

-----------------------------------------------------------------------------
(* node_group: a list of filters, each for a domain or for a key. *)

has_domain(group, domain) == Append(group, [kind |-> "domain", key |-> <<domain, 0>>])

has_key(group, key) == Append(group, [kind |-> "key", key |-> key])

in_filter(filter, name) ==
    LET found == find_key(name, filter.key[1])
    IN  found # <<>> /\ (filter.kind = "key" => found[1] = filter.key)

(* Vacuously true for a group without filters. *)
in_group(group, name) == \A i \in DOMAIN group : in_filter(group[i], name)
=============================================================================
