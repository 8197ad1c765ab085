---------------------------- MODULE MCProjectRegistry ----------------------------
(* A project beside $OCX_HOME, two packages, locks that drop and take up pins, *)
(* and one clean.                                                              *)
EXTENDS ProjectRegistry

CONSTANTS d1, p1, p2

MCProjects == {Home, d1}
MCContents == {{}, {p1}, {p1, p2}}
MCModes == {{}, {"dry", "force"}}
================================================================================
