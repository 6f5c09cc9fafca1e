--------------------------- MODULE MCImageBuild ---------------------------
(* Model: base is downloaded from a url, dev is cloned from base and       *)
(* provisioned by build scripts, lite is cloned from base without any.     *)
(* The second image set adds bare, an image with neither a parent nor a    *)
(* url but with build scripts: build_image boots a subvolume nobody made.  *)
EXTENDS ImageBuildProofs, TLC

CONSTANTS t1, t2, base, dev, lite, bare

MCTasks == {t1, t2}
MCOneTask == {t1}
MCImages == {base, dev, lite}
MCParent == (base :> NoParent) @@ (dev :> base) @@ (lite :> base)
MCUrl == {base}
MCScripts == {dev}

MCImagesBare == MCImages \cup {bare}
MCParentBare == MCParent @@ (bare :> NoParent)
MCScriptsBare == MCScripts \cup {bare}
=============================================================================
