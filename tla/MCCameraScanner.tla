--------------------------- MODULE MCCameraScanner --------------------------
(* CameraScanner with few calls and frames, which are interchangeable.        *)
EXTENDS CameraScanner, TLC

CameraSymmetry == Permutations(Call) \cup Permutations(Frame)
=============================================================================
