---------------------------- MODULE MCLuaFilter ----------------------------
(* LuaFilter over the kinds of routes of src/test/router-test.c.          *)
EXTENDS LuaFilter

\* "unicode" stands for a word with characters outside ASCII, "none" for the
\* empty one, "other" for what no route is named after.
MCWords == {"route", "routes", "3", "unicode", "none", "other"}
MCPrintable == MCWords \ {"unicode"}
MCNumeric == {"3", "none"}
MCClip == [w \in MCWords |-> CASE w = "routes" -> "route" [] w = "route" -> "other"
                               [] OTHER -> w]
MCRun == [w \in MCWords |-> IF w = "unicode" THEN w ELSE "other"]

Seg(m, w) == [mark |-> m, words |-> w]
Raw(w) == Seg("", <<w>>)

MCPieces ==
  {Raw(w) : w \in {"route", "routes", "3", "unicode"}}
    \cup {Seg("*", << >>), Seg(":", <<"3">>), Seg(":", <<"none">>),
          Seg("{", <<"route", "3">>)}

MCRoutes == {
  << >>,
  <<Raw("route")>>,
  <<Seg(":", <<"id">>)>>,
  <<Seg("{", <<"route", "routes">>)>>,
  <<Raw("route"), Seg(":", <<"id">>)>>,
  <<Raw("route"), Seg(":", <<"id", "string">>)>>,
  <<Raw("route"), Seg(":", <<"id", "number">>)>>,
  <<Raw("route"), Seg("*", << >>)>>,
  <<Seg("?", << >>), Raw("3")>>,
  <<Seg("{", <<"routes", "3">>), Seg(":", <<"id">>)>>}

Entry(k, v) == [key |-> k, value |-> v]

MCRouteTables == {
  << >>,
  <<Entry("model", "text")>>,
  <<Entry("view", "list")>>,
  <<Entry("model", "list"), Entry("sub", "child")>>,
  <<Entry("query", "text"), Entry("models", "list"), Entry("view", "text")>>,
  <<Entry("content-type", "text"), Entry("sub", "child"), Entry("model", "text")>>,
  <<Entry("model", "list"), Entry("content-type", "text"), Entry("view", "text")>>,
  <<Entry("views", "text"), Entry("model", "text")>>}

MCReturns == {<< >>, <<"table">>, <<"empty">>, <<"scalar">>, <<"table", "empty">>,
              <<"empty", "table">>}

Blank == [set |-> TRUE, delay |-> FALSE, status |-> FALSE, content |-> "none",
          clen |-> FALSE, file |-> "none", headers |-> 0, bad |-> FALSE]

MCResponses == {
  Blank,
  [Blank EXCEPT !.content = "text", !.headers = 1],
  [Blank EXCEPT !.status = TRUE],
  [Blank EXCEPT !.status = TRUE, !.content = "null"],
  [Blank EXCEPT !.content = "null", !.clen = TRUE],
  [Blank EXCEPT !.content = "null", !.file = "ok"],
  [Blank EXCEPT !.content = "null", !.file = "missing"],
  [Blank EXCEPT !.file = "ok"],
  [Blank EXCEPT !.file = "ok", !.bad = TRUE],
  [Blank EXCEPT !.delay = TRUE, !.headers = 1],
  [Blank EXCEPT !.delay = TRUE, !.bad = TRUE]}
=============================================================================
