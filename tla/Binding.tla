-------------------------------- MODULE Binding --------------------------------
(***************************************************************************)
(* Naming a value.                                                         *)
(***************************************************************************)

\* Use(value); the value is computed once, however often Use refers to it.
With(value, Use(_)) == CHOOSE result \in {Use(v) : v \in {value}} : TRUE
=============================================================================
