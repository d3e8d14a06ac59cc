--------------------------------- MODULE Scenes ---------------------------------
(***************************************************************************)
(* What MCAdmin and MCCopies have in common: each of their first states    *)
(* chooses a scene, that is, which component runs and who acts in it, and  *)
(* the components tell their rows from these values.                       *)
(***************************************************************************)

CONSTANTS
  Absent,           (* no row, no field                                    *)
  Unused, Deleted,  (* an id that is still to be given, or was taken away  *)
  Nothing,          (* no request; the state of a component that is idle   *)
  Solo              (* the client that is alone in some of the scenes      *)

VARIABLE scene

===============================================================================
