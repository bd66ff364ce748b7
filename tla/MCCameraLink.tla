----------------------------- MODULE MCCameraLink -----------------------------
(***************************************************************************)
(* A manual exposure and the program, both bodies, and the two             *)
(* adapter objects that can be referred to at once.                        *)
(***************************************************************************)
EXTENDS CameraLink

MCExposure == {1}
MCAdapter == {"a1", "a2"}
===============================================================================
