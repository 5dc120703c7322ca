---------------------------- MODULE MCController ----------------------------
(* The browser's side with the model values of Controller.cfg.                *)
EXTENDS Controller, TLC

ControllerSymmetry ==
    Permutations(Code) \cup Permutations(Job)
=============================================================================
