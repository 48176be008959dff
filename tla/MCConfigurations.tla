-------------------------- MODULE MCConfigurations --------------------------
(* Module Configurations for TLC: two domains, two groups. *)
EXTENDS Configurations, TLC

MCGroups == "some" :> has_domain(<<>>, 1) @@ "one" :> has_key(has_domain(<<>>, 2), <<1, 1>>)

MCObjects == {1 :> 1, 1 :> 1 @@ 2 :> 2, 2 :> 2}
=============================================================================
