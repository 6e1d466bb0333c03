---------------------------- MODULE MCAuthzStore ----------------------------
(***************************************************************************)
(* Small instances of AuthzStore.                                          *)
(***************************************************************************)
EXTENDS AuthzStore

\* A row filter on one relation, and a column mask that adds another relation
\* to the same type.
ByCity == {<<"city", "viewer">>}
Merged == {<<"city", "viewer">>, <<"city", "owner">>}
SomePolicies == {ByCity, Merged}
=============================================================================
