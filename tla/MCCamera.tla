------------------------------ MODULE MCCamera ------------------------------
(* Small instances of CameraStream for TLC.                                *)
EXTENDS CameraProperties, TLC

\* Viewers are interchangeable, with the streams they start.
Interchangeable == Permutations(Viewers)
=============================================================================
