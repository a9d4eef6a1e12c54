---------------------------- MODULE MCLifecycle ----------------------------
(* Configuration files for Lifecycle. *)
EXTENDS Lifecycle

CONSTANTS Wide  \* every file below, or one that is accepted

Written(S) == UNION {[A -> Kinds] : A \in S}

\* First entries with any attributes, then a plain one, in both orders.
Rich ==
  [k : {"text"}, name : {"a"}, v : {"table"}, attrs : Written(SUBSET Attributes)]
    \cup {[k |-> "int", name |-> "a", v |-> "table", attrs |-> << >>],
          [k |-> "text", name |-> "a", v |-> "text", attrs |-> << >>]}

Plain == [k |-> "text", name |-> "b", v |-> "table",
          attrs |-> [a \in {"dir", "filter"} |-> "text"]]

Bare == [k |-> "text", name |-> "b", v |-> "table", attrs |-> << >>]

Site(es, root) ==
  [lua |-> "table", hosts |-> "table", entries |-> es, wwwroot |-> root]

Roots == {"absent", "int", "inaccessible", "accessible"}

AllSites ==
  {Site(<<e, f>>, "accessible") : e \in Rich, f \in {Plain, Bare}}
    \cup {Site(<<f, e>>, "accessible") : e \in Rich, f \in {Plain, Bare}}
    \cup {Site(es, r) : es \in {<< >>, <<Plain>>}, r \in Roots}
    \cup [lua : {"bad", "broken", "nomem"}, hosts : {"absent"}, entries : {<< >>},
          wwwroot : {"absent"}]
    \cup [lua : {"table"}, hosts : {"absent", "text"}, entries : {<< >>},
          wwwroot : {"accessible"}]

MCSites ==
  IF Wide THEN AllSites
  ELSE {Site(<<Plain>>, "accessible")}
=============================================================================
