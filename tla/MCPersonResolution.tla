------------------------ MODULE MCPersonResolution ---------------------------
(***************************************************************************)
(* Small instances of PersonResolution: three source contributions of two  *)
(* publications, under the names jean and jacques of one last name and     *)
(* their initial j.                                                        *)
(***************************************************************************)
EXTENDS PersonResolution, TLC

MCExtends == {<<"j", "jean">>, <<"j", "jacques">>}
MCPubOf == 1 :> 1 @@ 2 :> 1 @@ 3 :> 2

(* The initial comes first, and both first names extend it; no HR record.  *)
InitialFirstNames == 1 :> "j" @@ 2 :> "jean" @@ 3 :> "jacques"
InitialFirstValues == 1 :> NoValue @@ 2 :> "v" @@ 3 :> NoValue
NoHrName == <<>>

(* The value of a person with an HR record, under the name of another too. *)
SharedValueNames == 1 :> "jean" @@ 2 :> "j" @@ 3 :> "jacques"
SharedValueValues == 1 :> "v" @@ 2 :> NoValue @@ 3 :> "v"
JeanInHr == 1 :> "jean"
==============================================================================
