---------------------------- MODULE MCHttpClient ----------------------------
(* HttpClient with small arguments and answers.                            *)
EXTENDS HttpClient

Table(h, q, b, s) ==
  [argc |-> 1, first |-> "table", address |-> TRUE, scheme |-> s,
   headers |-> h, query |-> q, body |-> b, post |-> TRUE, form |-> FALSE]

\* Every choice of headers and query, every body with every method and type,
\* and every form of the arguments.
MCArgs ==
  {Table(h, q, b, s) : h \in {"none", "ok", "bad"}, q \in {"none", "ok", "bad"},
     b \in {"none", "text"}, s \in {"http", "https"}}
  \cup {[Table("none", "none", b, s) EXCEPT !.post = p, !.form = f] :
     b \in {"none", "text", "table", "bad"}, s \in {"http", "https"},
     p \in BOOLEAN, f \in BOOLEAN}
  \cup [argc : 0 .. 3, first : {"string", "table", "other"},
        address : BOOLEAN, scheme : {"http", "other"}, headers : {"none"},
        query : {"none"}, body : {"none"}, post : {FALSE}, form : {FALSE}]

Answer(l, b) == [length |-> l, body |-> b, type |-> 1, chunked |-> FALSE]

\* With no length, with one that is right, too large and too small, empty,
\* without a type and with a long one, and chunked, also with an empty length.
MCAnswers ==
  {Answer(-1, 1), Answer(0, 0), Answer(1, 1), Answer(2, 2), Answer(2, 1),
   Answer(1, 2), [Answer(2, 2) EXCEPT !.type = 0], [Answer(2, 2) EXCEPT !.type = 2],
   [Answer(1, 1) EXCEPT !.type = 4],
   [Answer(-1, 2) EXCEPT !.chunked = TRUE],
   [Answer(2, 2) EXCEPT !.chunked = TRUE],
   [Answer(0, 2) EXCEPT !.chunked = TRUE]}
=============================================================================
