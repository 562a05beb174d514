------------------------- MODULE MCStagingLifecycle --------------------------
(***************************************************************************)
(* Constants of StagingLifecycle for TLC: the default window holds every   *)
(* document, or one document while the other is of an older year.          *)
(***************************************************************************)
EXTENDS StagingLifecycle

WholeWindow == Docs \X Contents

OneDocument == {CHOOSE d \in Docs : TRUE} \X Contents
==============================================================================
