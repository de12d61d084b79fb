---------------------------- MODULE HttpResponse ----------------------------
(***************************************************************************)
(* One transfer from its first response line to its callback               *)
(* (Http::Transfer::Header, ::Write and Http::Complete).  libcurl delivers *)
(* header lines one by one, the status lines of redirects and of 100       *)
(* Continue included, and the body of the last response in pieces.         *)
(***************************************************************************)
EXTENDS Integers, Sequences, FiniteSets, Orders

CONSTANTS
    Names,         \* header names as servers write them
    Lower,         \* their lower-case form, one of Names
    HeaderValues,  \* header values without the blanks around them
    Pieces,        \* sizes of the pieces of a body
    MaxBody,       \* Http::kMaxBody
    MaxLines,      \* bound: lines and pieces of one transfer
    MaxRedirs      \* bound: status lines

\* Every header name has one lower-case form; sizes are numbers of bytes.
ASSUME HeaderAssumption ==
    /\ Lower \in [Names -> Names]
    /\ Pieces \subseteq Nat /\ MaxBody \in Nat

VARIABLES
    wire,              \* history: the lines that libcurl delivered
    received,          \* history: how much of a body libcurl delivered
    response_headers,  \* pairs of a lower-case name and a value
    body,              \* the size of the body so far
    too_large,
    result,            \* "running", "ok" (CURLE_OK) or "failed"
    error,             \* libcurl left a text in the error buffer
    pushed,            \* the headers that are in the Lua table
    table,             \* that table: a lower-case name -> the values joined
    reply              \* the arguments of the callback
history == <<wire, received>>
transferVars == <<response_headers, body, too_large>>
luaVars == <<pushed, table, reply>>
responseVars == <<history, transferVars, result, error, luaVars>>

NoReply == [res |-> "nil", err |-> "nil", headers |-> <<>>, body |-> 0]

ResponseInit ==
    /\ wire = <<>> /\ received = 0
    /\ response_headers = <<>> /\ body = 0 /\ too_large = FALSE
    /\ result = "running" /\ error = FALSE
    /\ pushed = 0 /\ table = <<>> /\ reply = NoReply

Of(kind) == {i \in DOMAIN wire : wire[i].kind = kind}

Delivers(item) ==
    /\ result = "running" /\ ~too_large
    /\ Len(wire) < MaxLines
    /\ wire' = Append(wire, item)
    /\ UNCHANGED <<result, error, luaVars>>

\* "HTTP/...": a new response starts the headers over.
StatusLine ==
    /\ Of("piece") = {}
    /\ Cardinality(Of("status")) < MaxRedirs
    /\ Delivers([kind |-> "status"])
    /\ response_headers' = <<>>
    /\ UNCHANGED <<received, body, too_large>>

HeaderLine(name, value) ==
    /\ Of("status") # {}
    /\ Delivers([kind |-> "header", name |-> name, value |-> value])
    /\ response_headers' = Append(response_headers, <<Lower[name], value>>)
    /\ UNCHANGED <<received, body, too_large>>

\* The blank line, or one without a name before its colon.
OtherLine ==
    /\ Of("status") # {}
    /\ Delivers([kind |-> "other"])
    /\ UNCHANGED <<received, transferVars>>

\* Mutant: a body that is too large is cut off.
Write_Truncates(size) ==
    /\ Of("status") # {}
    /\ Delivers([kind |-> "piece"])
    /\ received' = received + size
    /\ body' = IF body + size > MaxBody THEN MaxBody ELSE body + size
    /\ UNCHANGED <<response_headers, too_large>>

\* Write: a piece that does not fit fails the transfer (0 bytes taken).
Write(size) ==
    /\ Of("status") # {}
    /\ Delivers([kind |-> "piece"])
    /\ received' = received + size
    /\ IF body + size > MaxBody
       THEN too_large' = TRUE /\ body' = body
       ELSE too_large' = too_large /\ body' = body + size
    /\ UNCHANGED response_headers

\* libcurl's DONE message; after a refused piece its code is never CURLE_OK.
Done(code, note) ==
    /\ result = "running"
    /\ code = "ok" => ~too_large /\ Of("status") # {} /\ ~note
    /\ result' = code
    /\ error' = note
    /\ UNCHANGED <<history, transferVars, luaVars>>

-----------------------------------------------------------------------------
\* Complete: the arguments of the callback.

\* Mutant: the last of the repeated headers wins.
Joined_LastWins(name, value) ==
    [n \in DOMAIN table \cup {name} |-> IF n = name THEN <<value>> ELSE table[n]]

\* A repeated header is joined to what the table has for its name; a joined
\* text is the sequence of its parts.
Joined(name, value) ==
    [n \in DOMAIN table \cup {name} |->
        IF n # name THEN table[n]
        ELSE IF name \in DOMAIN table THEN Append(table[name], value) ELSE <<value>>]

\* One turn of the loop over the headers.
PushHeader ==
    /\ result = "ok" /\ reply = NoReply
    /\ pushed < Len(response_headers)
    /\ table' = Joined(response_headers[pushed + 1][1], response_headers[pushed + 1][2])
    /\ pushed' = pushed + 1
    /\ UNCHANGED <<history, transferVars, result, error, reply>>

ErrorText ==
    IF too_large THEN "too large" ELSE IF error THEN "text of libcurl" ELSE "text of the code"

Complete ==
    /\ result # "running" /\ reply = NoReply
    /\ result = "ok" => pushed = Len(response_headers)
    /\ reply' = IF result = "failed"
                THEN [NoReply EXCEPT !.err = ErrorText]
                ELSE [res |-> "response", err |-> "nil", body |-> body, headers |-> table]
    /\ UNCHANGED <<history, transferVars, result, error, pushed, table>>

ResponseNext ==
    \/ StatusLine \/ OtherLine
    \/ \E name \in Names, value \in HeaderValues : HeaderLine(name, value)
    \/ \E size \in Pieces : Write(size)
    \/ \E code \in {"ok", "failed"}, note \in BOOLEAN : Done(code, note)
    \/ PushHeader \/ Complete

ResponseSpec == ResponseInit /\ [][ResponseNext]_responseVars

-----------------------------------------------------------------------------

\* The header lines of the last response on the wire with a name, in any case.
Lines(name) ==
    {i \in Of("header") : Lower[wire[i].name] = name /\ \A s \in Of("status") : s < i}

(***************************************************************************)
(* The headers of the response are those of the last response only, each   *)
(* lower-case name with all its values in the order of arrival ("Header    *)
(* names in lower case; repeated headers joined").                         *)
(***************************************************************************)
HeadersOfLastResponse ==
    reply.res = "response" =>
        /\ DOMAIN reply.headers = {name \in {Lower[n] : n \in Names} : Lines(name) # {}}
        /\ \A name \in DOMAIN reply.headers :
            \E line \in [DOMAIN reply.headers[name] -> Lines(name)] :
                /\ Lists(line, Lines(name))
                /\ \A n \in DOMAIN line : reply.headers[name][n] = wire[line[n]].value

(***************************************************************************)
(* A response that reaches the script holds the whole body, never a part,  *)
(* and at most kMaxBody of it.  A body over the limit is named as the      *)
(* reason of the failure, whatever libcurl put in the error buffer when    *)
(* Write aborted the transfer.                                             *)
(***************************************************************************)
WholeBody ==
    /\ reply.res = "response" => reply.body = received /\ received <= MaxBody
    /\ reply # NoReply /\ received > MaxBody => reply.err = "too large"
=============================================================================
