-------------------------------- MODULE Variants --------------------------------
(***************************************************************************)
(* The enums of the code: a value of one is a record with a field named    *)
(* for its variant.                                                        *)
(***************************************************************************)

\* matches!(v, variant)
Is(v, variant) == variant \in DOMAIN v
=============================================================================
