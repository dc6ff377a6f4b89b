---------------------------- MODULE MCLifecycle ----------------------------
(* Small instances of Lifecycle for TLC. *)
EXTENDS Lifecycle, TLC

MCScanners == {"email", "net", "rare"}
Line(x, E, e) == [disable |-> x, exclusive |-> E, enable |-> e]
MCCommandLines == {Line(<<>>, "", <<>>), Line(<<"all">>, "email", <<"rare">>),
                   Line(<<"net">>, "", <<"all">>), Line(<<>>, "none", <<>>),
                   Line(<<>>, "", <<"rare">>),
                   Line(<<>>, "rare", <<>>)}
Plain(name) == Recorder(<<name>>, FALSE, FALSE)
MCDefs == "email" :> {Plain("email"), Plain("ether")}
       @@ "net" :> {Plain("ether"), Recorder(<<"tcp">>, FALSE, TRUE)}
       @@ "rare" :> {Recorder(<<"tcp">>, TRUE, TRUE), Recorder(<<"ether", "stopped">>, FALSE, FALSE)}
MCHistograms == "email" :> {<<"ether">>} @@ "net" :> {<<"ether">>} @@ "rare" :> {}
=============================================================================
