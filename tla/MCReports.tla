----------------------------- MODULE MCReports -----------------------------
(***************************************************************************)
(* Reports for TLC: the values of its constants, few of each kind and one  *)
(* for every case the code tells apart.  Strings of the values are at most *)
(* four bytes long, MaxStringBytes is three.                               *)
(***************************************************************************)
EXTENDS Reports

MCLower ==
    [key \in {"user", "Password", "password", "request_id", "event_type", "ts"} |->
        IF key = "Password" THEN "password" ELSE key]

Id(name)   == Short(name)
Secret     == Short("secret")
Long       == Text("long", 2, 2)
Nested     == Object("Password" :> Secret @@ "user" :> Array(<<Scalar, Object("user" :> Long)>>))

MCFilters  == {{"password"}, {"password", "request_id"}}
MCAttached == "ts" :> Short("now")
MCHash     == "r1" :> 0 @@ "r2" :> 2

\* The chain of e1 ends, that of e2 runs in a circle, e4's source() panics.
MCSourceOf == "e1" :> NoCause @@ "e2" :> "e3" @@ "e3" :> "e2" @@ "e4" :> "e5" @@ "e5" :> Panics

\* Symbols with and without a hash, of the SDK and of the application, under
\* the root, through a link out of it and beside it.
App     == <<"app">>
Main    == <<"app", "main">>
Linked  == <<"app", "link">>
Outside == <<"deps", "lib">>
MCCanonical == << >> :> Missing @@ App :> App @@ Main :> Main
                  @@ Linked :> Outside @@ Outside :> Outside
MCLinesOf   == Main :> 2 @@ Outside :> 5
Symbol(name, file, line) == [name |-> name, file |-> file, line |-> line]
OwnTrace ==
    <<Symbol(<<"honeybadger", "notify", "h1">>, Outside, 1),
      Symbol(<<"app", "handler", "h2">>, Main, 3),
      Symbol(<<"app", "run">>, Linked, 1),
      Symbol(NoName, Main, 1),
      Symbol(<<"app", "main">>, Main, 2)>>
OtherTrace ==
    <<Symbol(<<"rust_begin_unwind">>, Outside, 1),
      Symbol(<<"lib", "call", "h3">>, Outside, 4),
      Symbol(<<"app", "main">>, Main, 9),
      Symbol(<<"app", "new">>, NoFile, 1)>>
MCRoots == {App, << >>}
MCModules == {<<"honeybadger">>, <<"std", "rt">>}
MCSymbols == {<<"rust_begin_unwind">>}

Given(class, link, trace, context) ==
    [class |-> class, link |-> link, trace |-> trace, context |-> context]
MCErrors ==
    {Given("Kept", "e1", <<Symbol(<<"app", "main">>, Main, NoLine)>>, "user" :> Nested),
     Given("Kept", "e2", OwnTrace, << >>),
     Given("Kept", "e4", OtherTrace, "request_id" :> Id("r2")),
     Given("Ignored", "e1", << >>, << >>)}

MCScopes  == {<< >>, "request_id" :> Id("r1"), "user" :> Long}
MCSlots   == {NoId, Id("r1")}
MCTrails  == {<< >>, <<"Password" :> Secret, "user" :> Nested>>}
MCPayloads ==
    {Scalar, Object(<< >>), Object("Password" :> Nested), Object("event_type" :> Short("own")),
     Object("request_id" :> Id("r2") @@ "event_type" :> Scalar)}
MCTypes   == {NoType, Text("blank", 0, 1), Long}

Edit(key, value) == [key |-> key, value |-> value]
MCNoticeEdits ==
    {NoEdit, Edit("class", "Ignored"), Edit("user", Nested), Edit("request_id", Id("r2"))}
MCEventEdits ==
    {NoEdit, Edit("event_type", NoId), Edit("event_type", Short("hooked")),
     Edit("request_id", Id("r2")), Edit("request_id", Scalar), Edit("user", Nested)}
=============================================================================
