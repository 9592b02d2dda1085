--------------------------- MODULE MCEntitlement ---------------------------
(***************************************************************************)
(* The instance of Entitlement that TLC explores.  The two requests ask    *)
(* for different times, so that the larger one can be lost; handlers are   *)
(* interchangeable.                                                        *)
(***************************************************************************)
EXTENDS Entitlement, TLC

CONSTANTS r1, r2

MCMinutes == r1 :> 10 @@ r2 :> 20

Handlers == Permutations(Call)

============================================================================
