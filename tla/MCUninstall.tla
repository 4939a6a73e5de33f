---------------------------- MODULE MCUninstall ----------------------------
(***************************************************************************)
(* Uninstall without what SetupService remembers of the buttons, which no  *)
(* guard of the two modules and none of the properties checked with it     *)
(* looks at.                                                               *)
(***************************************************************************)
EXTENDS Uninstall

Forgetful ==
  <<marker, reg, job, proc, terminating, queue, disturbances, at, script, mess,
    skipped, calm, late>>
=============================================================================
