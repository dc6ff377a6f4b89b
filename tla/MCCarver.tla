------------------------------ MODULE MCCarver ------------------------------
(* Small instances of Carver for TLC. *)
EXTENDS Carver, TLC

MCObjects == {"a", "b", "c", "d"}
MCHash == "a" :> "h1" @@ "b" :> "h1" @@ "c" :> "h2" @@ "d" :> "h3"
MCName == "a" :> "1.jpg" @@ "b" :> "2.jpg" @@ "c" :> "x-0" @@ "d" :> "x-0"
MCPath == "a" :> "encoded" @@ "b" :> "bare" @@ "c" :> "encoded" @@ "d" :> "ignored"
MCBucket == "h1" :> 7 @@ "h2" :> 7 @@ "h3" :> 9
=============================================================================
