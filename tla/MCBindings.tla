----------------------------- MODULE MCBindings -----------------------------
(***************************************************************************)
(* The arguments of Bindings, enumerated.                                  *)
(***************************************************************************)
EXTENDS Bindings

-----------------------------------------------------------------------------
\* For every field of the argument of http.request an absent value, values
\* inside and at the ends of its range, just outside, and of another type.

Absent == [type |-> "nil"]
Other == [type |-> "boolean"]
Numeric(n) == [type |-> "number", nan |-> FALSE, v |-> n]
NaN == [type |-> "number", nan |-> TRUE, v |-> 0]
MethodText(m) == [type |-> "string", letters |-> m # "BAD", upper |-> m]
HeaderTable(seq) == [type |-> "table", bad |-> FALSE, v |-> seq]
BodyText(size, nul) == [type |-> "string", v |-> [size |-> size, nul |-> nul]]

Urls == {Absent} \cup {[type |-> "string", scheme |-> s] : s \in {"http", "https", "ftp", "none"}}
Methods == {Absent, Other} \cup {MethodText(m) : m \in {"GET", "HEAD", "POST", "PUT", "BAD"}}
Bodies == {Absent, Other, BodyText(0, 0), BodyText(3, 1), BodyText(3, 3)}
Headers ==
    {Absent, Other, [type |-> "table", bad |-> TRUE, v |-> <<>>],
     HeaderTable(<<>>), HeaderTable(<<[name |-> "A", value |-> <<" ", "x">>], [name |-> "B", value |-> <<>>],
                                      [name |-> "C", value |-> <<" ">>]>>)}
Timeouts == {Absent, Other, NaN} \cup {Numeric(n) : n \in {0, 1, 15, 99999, 36000000, 36000001}}
Redirects == {Absent, NaN} \cup {Numeric(n) : n \in {-2, 0, 5, 40, 42}}
FieldSets == {{"url"}, {"url", "verb"}}

MCOptions ==
    [type : {"table"}, fields : FieldSets, url : Urls, method : Methods, body : Bodies,
     headers : {Absent, HeaderTable(<<[name |-> "A", value |-> <<>>]>>)},
     timeout : {Absent}, redirects : {Absent}]
    \cup [type : {"table"}, fields : {{"url"}}, url : {[type |-> "string", scheme |-> "http"]},
          method : Methods, body : {Absent, BodyText(3, 1)},
          headers : Headers, timeout : Timeouts, redirects : Redirects]
    \cup [type : {"string"}, url : Urls \ {Absent}] \cup {Other}

-----------------------------------------------------------------------------
\* Values on both sides of every range, and of every Lua type.

MCScalars ==
    {Num(n) : n \in {-1, 1, Bytes, Words, Exact + 1}}
    \cup {Bool(TRUE), Bool(FALSE), Text(3), TextWithNul(4, 3), Nil, Handle(1), Value("vehicle", 2, <<>>)}
MCElements == {-1, 1, Exact + 1}

\* Rotations in every form, with elements missing, and what a getter returned.
MCTurns ==
    LET read(quaternion, euler) == [Table(<<>>) EXCEPT !.quaternion = quaternion, !.euler = euler]
    IN  {Table(e) : e \in {<<1, 2>>, <<1, 2, Exact + 1>>, <<3, 2, Exact + 1, 1>>, <<1, 2, 3, 4, 5>>}}
        \cup {read(<<4, 3, 2, 1>>, <<1, 2, 3>>), read(<<>>, <<3, 2, 1>>), read(<<1>>, <<1, 2, 3>>)}
=============================================================================
