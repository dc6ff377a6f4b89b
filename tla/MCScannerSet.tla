---------------------------- MODULE MCScannerSet ----------------------------
(* Small trees of sbufs for the runs of ScannerSet. *)
EXTENDS ScannerSet, TLC

MCPages    == {"page", "page2"}
MCScanners == {"zip", "rtti"}

(* Two pages, the second a duplicate of the first.  From the first, zip    *)
(* makes a large sbuf with memory of its own and recurses into a slice of  *)
(* it, which rtti slices again: both slices share the memory of the page,  *)
(* and the second is too deep.  rtti also uses a local slice of the page.  *)
MCDerived == {"large", "slice", "slice2", "local"}
MCMaker  == "large" :> "page" @@ "slice" :> "page" @@ "slice2" :> "slice"
            @@ "local" :> "page"
MCBy     == "large" :> "zip" @@ "slice" :> "zip" @@ "slice2" :> "rtti"
            @@ "local" :> "rtti"
MCKind   == "large" :> "malloc" @@ "slice" :> "slice" @@ "slice2" :> "slice"
            @@ "local" :> "local"
MCParent == [d \in MCDerived |-> "page"]
MCSmall  == {"slice", "slice2", "local"}
MCDepth  == "page" :> 0 @@ "page2" :> 0 @@ "large" :> 1 @@ "slice" :> 1
            @@ "slice2" :> 2 @@ "local" :> 0
MCContent == [s \in MCPages \union MCDerived |-> IF s = "page2" THEN "page" ELSE s]

(* One page, from which zip makes a small and a large sbuf, the small one  *)
(* with the content of the page; every derived sbuf of depth 2 is too deep.*)
FaPages    == {"page"}
FaDerived  == {"small", "large", "deep"}
FaMaker    == "small" :> "page" @@ "large" :> "page" @@ "deep" :> "small"
FaBy       == "small" :> "zip" @@ "large" :> "zip" @@ "deep" :> "rtti"
FaKind     == "small" :> "malloc" @@ "large" :> "malloc" @@ "deep" :> "malloc"
FaParent   == "small" :> "page" @@ "large" :> "page" @@ "deep" :> "small"
FaSmall    == {"small", "deep"}
FaDepth    == "page" :> 0 @@ "small" :> 1 @@ "large" :> 1 @@ "deep" :> 2
FaContent  == "page" :> "page" @@ "small" :> "page" @@ "large" :> "large"
              @@ "deep" :> "deep"
=============================================================================
