----------------------------- MODULE MCCallables -----------------------------
(***************************************************************************)
(* Constants of Callables for TLC: a class with two methods and two        *)
(* objects, and a functor type with one.                                   *)
(***************************************************************************)
EXTENDS Callables, TLC

CONSTANTS get, set, call, first, second, functor

MCClassOf ==
  (get :> "Class" @@ set :> "Class" @@ first :> "Class" @@ second :> "Class" @@
   call :> "Functor" @@ functor :> "Functor")
=============================================================================
