---------------------------- MODULE HttpRequest ----------------------------
(***************************************************************************)
(* What http.request does with its argument: ReadRequest checks it and     *)
(* fills in the defaults, Start tells libcurl.  libcurl is external: an    *)
(* easy handle is what its options, in the order in which they were set,   *)
(* make of it.  The unit of a timeout is a tenth of a millisecond, that of *)
(* a number of redirects one half, so that both can be fractions.          *)
(***************************************************************************)
EXTENDS Integers, Sequences, Functions

CONSTANT Options  \* the arguments that scripts pass

VARIABLES
    options,  \* the argument
    stage,    \* "asked", "read", "started" or "refused"
    request,  \* the checked request
    easy      \* libcurl's easy handle
askedVars == <<options, stage, request, easy>>

\* Length of a body; the place of its first NUL, which is past its end if it
\* has none.
NoBody == [size |-> 0, nul |-> 0]

(***************************************************************************)
(* What a Lua value is that may be an argument.  The value of a header is  *)
(* a sequence of characters.                                               *)
(***************************************************************************)
Argument(o) ==
    o.type = "table" =>
        /\ o.method.type = "string" => o.method.upper \in STRING
        /\ o.body.type = "string" => o.body.v \in [size : Nat, nul : Nat]
        /\ o.headers.type = "table" => o.headers.v \in Seq([name : STRING, value : Seq(STRING)])
        /\ o.timeout.type = "number" => o.timeout.v \in Int
        /\ o.redirects.type = "number" => o.redirects.v \in Int

\* The arguments of http.request are Lua values.
ASSUME OptionsAssumption == \A o \in Options : Argument(o)

RequestFields == {"url", "method", "headers", "body", "timeout", "redirects"}
kMaxTimeout == 3600 * 10000

-----------------------------------------------------------------------------

CheckUrl(url) == url.type = "string" /\ url.scheme \in {"http", "https"}

\* A name of 1 to 16 letters, in upper case from here on.
CheckMethod(method) == method.type \in {"nil", "string"} /\ (method.type = "string" => method.letters)

HasBody(o) == o.body.type = "string"

Method(o) ==
    IF o.method.type = "nil" THEN (IF HasBody(o) THEN "POST" ELSE "GET")
                             ELSE o.method.upper

\* A header is a name and a value; a bad one has no valid name, is neither a
\* string nor a number, or holds a line break or NUL.
ReadHeaders(headers) == headers.type = "nil" \/ (headers.type = "table" /\ ~headers.bad)

\* !(seconds > 0 && seconds <= kMaxTimeout) is true for NaN as well.
CheckTimeout(timeout) ==
    \/ timeout.type = "nil"
    \/ timeout.type = "number" /\ ~timeout.nan /\ timeout.v > 0 /\ timeout.v <= kMaxTimeout

CheckRedirects(redirects) ==
    \/ redirects.type = "nil"
    \/ redirects.type = "number" /\ ~redirects.nan /\ redirects.v \in {2 * n : n \in 0..20}

\* The checks of the table in the order in which ReadRequest makes them; the
\* first that fails raises its error.
Accepted(o) ==
    /\ o.fields \subseteq RequestFields
    /\ CheckUrl(o.url)
    /\ o.body.type \in {"nil", "string"}
    /\ CheckMethod(o.method)
    /\ ~(HasBody(o) /\ Method(o) \in {"GET", "HEAD"})
    /\ ReadHeaders(o.headers)
    /\ CheckTimeout(o.timeout)
    /\ CheckRedirects(o.redirects)

\* std::max(1, trunc(seconds * 1000))
Milliseconds(tenths) == IF tenths < 10 THEN 1 ELSE tenths \div 10

\* The request that passed the checks, with the defaults.
ReadRequest(o) ==
    [method |-> Method(o),
     has_body |-> HasBody(o),
     body |-> IF HasBody(o) THEN o.body.v ELSE NoBody,
     headers |-> IF o.headers.type = "nil" THEN <<>> ELSE o.headers.v,
     timeout_ms |-> IF o.timeout.type = "nil" THEN 30000 ELSE Milliseconds(o.timeout.v),
     max_redirects |-> IF o.redirects.type = "nil" THEN 5 ELSE o.redirects.v \div 2]

\* http.request(url, callback): only the URL is looked at.
FromUrl(o) ==
    [method |-> "GET", has_body |-> FALSE, body |-> NoBody, headers |-> <<>>,
     timeout_ms |-> 30000, max_redirects |-> 5]

-----------------------------------------------------------------------------

NewEasy == [verb |-> "GET", custom |-> <<>>, size |-> -1, sent |-> 0, list |-> <<>>,
            timeout |-> 0, connect |-> 300000, follow |-> 0, redirs |-> 30]

(***************************************************************************)
(* What an option does to an easy handle.  COPYPOSTFIELDS copies as many   *)
(* bytes as POSTFIELDSIZE_LARGE says, and without it up to the first NUL.  *)
(***************************************************************************)
SetOption(e, name, v) ==
    CASE name = "NOBODY" -> [e EXCEPT !.verb = "HEAD"]
      [] name = "CUSTOMREQUEST" -> [e EXCEPT !.custom = <<v>>]
      [] name = "POSTFIELDSIZE" -> [e EXCEPT !.size = v]
      [] name = "COPYPOSTFIELDS" ->
            [e EXCEPT !.verb = "POST",
                      !.sent = IF e.size = -1 THEN v.nul ELSE e.size]
      [] name = "HTTPHEADER" -> [e EXCEPT !.list = v]
      [] name = "TIMEOUT_MS" -> [e EXCEPT !.timeout = v]
      [] name = "CONNECTTIMEOUT_MS" -> [e EXCEPT !.connect = v]
      [] name = "FOLLOWLOCATION" -> [e EXCEPT !.follow = v]
      [] name = "MAXREDIRS" -> [e EXCEPT !.redirs = v]

\* "Name;" sends an empty header, "Name: value" any other.
HeaderLine(h) ==
    [name |-> h.name, form |-> IF h.value = <<>> THEN "semicolon" ELSE "colon", value |-> h.value]

\* What Start tells libcurl of a request, in the order of its calls.
Limits(e, r) ==
    LET redirs == SetOption(SetOption(e, "FOLLOWLOCATION", IF r.max_redirects > 0 THEN 1 ELSE 0),
                            "MAXREDIRS", r.max_redirects)
    IN  SetOption(SetOption(redirs, "TIMEOUT_MS", r.timeout_ms),
                  "CONNECTTIMEOUT_MS", IF r.timeout_ms < 10000 THEN r.timeout_ms ELSE 10000)

HeaderList(e, r) ==
    IF r.headers = <<>> THEN e
    ELSE SetOption(e, "HTTPHEADER", [i \in DOMAIN r.headers |-> HeaderLine(r.headers[i])])

RequestMethod(e, r) ==
    IF r.method = "HEAD" THEN SetOption(e, "NOBODY", 1)
    ELSE IF r.method \in {"GET", "POST"} THEN e ELSE SetOption(e, "CUSTOMREQUEST", r.method)

\* Mutant: the size is set after the body was copied.
Body_SizeLast(e, r) ==
    IF r.has_body THEN SetOption(SetOption(e, "COPYPOSTFIELDS", r.body), "POSTFIELDSIZE", r.body.size)
    ELSE IF r.method = "POST" THEN SetOption(SetOption(e, "COPYPOSTFIELDS", NoBody), "POSTFIELDSIZE", 0)
    ELSE e

Body(e, r) ==
    IF r.has_body THEN SetOption(SetOption(e, "POSTFIELDSIZE", r.body.size), "COPYPOSTFIELDS", r.body)
    ELSE IF r.method = "POST" THEN SetOption(SetOption(e, "POSTFIELDSIZE", 0), "COPYPOSTFIELDS", NoBody)
    ELSE e

Configured(r) == Body(RequestMethod(HeaderList(Limits(NewEasy, r), r), r), r)

-----------------------------------------------------------------------------

RequestInit ==
    /\ options \in Options
    /\ stage = "asked"
    /\ request = FromUrl(options)
    /\ easy = NewEasy

\* A URL or a table.
Passes(o) == (o.type = "string" /\ CheckUrl(o.url)) \/ (o.type = "table" /\ Accepted(o))

RefuseRequest ==
    /\ stage = "asked"
    /\ ~Passes(options)
    /\ stage' = "refused"
    /\ UNCHANGED <<options, request, easy>>

ReadArgument ==
    /\ stage = "asked"
    /\ Passes(options)
    /\ request' = IF options.type = "string" THEN FromUrl(options) ELSE ReadRequest(options)
    /\ stage' = "read"
    /\ UNCHANGED <<options, easy>>

StartRequest ==
    /\ stage = "read"
    /\ easy' = Configured(request)
    /\ stage' = "started"
    /\ UNCHANGED <<options, request>>

RequestNext == RefuseRequest \/ ReadArgument \/ StartRequest
RequestSpec == RequestInit /\ [][RequestNext]_askedVars

-----------------------------------------------------------------------------

\* libcurl: a custom method replaces the word that is sent, not the rest.
Verb == IF easy.custom # <<>> THEN easy.custom[1] ELSE easy.verb

\* What libcurl skips between the colon of a line and its value.
OnlyBlanks(value) == Range(value) \subseteq {" ", "\t"}

(***************************************************************************)
(* libcurl: the headers that a list adds to the request.  A line with a    *)
(* colon and nothing behind it but blanks takes its header off the request *)
(* instead.                                                                *)
(***************************************************************************)
SentHeaders ==
    {[name |-> line.name, value |-> line.value] :
        line \in {l \in Range(easy.list) : l.form = "semicolon" \/ ~OnlyBlanks(l.value)}}

Hour == 3600000  \* in milliseconds

(***************************************************************************)
(* The request on the wire is the one the script asked for: its method,    *)
(* the whole body (NUL bytes included), every header, empty ones too, and  *)
(* as many redirects as it allowed.  Only a header whose value is not      *)
(* empty but all blanks is left out: ReadHeaders looks for the empty one   *)
(* alone.  And it ends: its timeouts are at least a millisecond (0 would   *)
(* mean none, or libcurl's default) and at most an hour, whatever number,  *)
(* NaN included, the script gave.                                          *)
(***************************************************************************)
SentAsAsked ==
    stage = "started" =>
        /\ 1 <= easy.connect /\ easy.connect <= easy.timeout /\ easy.timeout <= Hour
        /\ options.type = "table" =>
            /\ options.method.type = "string" => Verb = options.method.upper
            /\ options.method.type = "nil" => Verb = IF HasBody(options) THEN "POST" ELSE "GET"
            /\ HasBody(options) => easy.sent = options.body.v.size
            /\ options.headers.type = "table" =>
                    SentHeaders = {h \in Range(options.headers.v) : h.value = <<>> \/ ~OnlyBlanks(h.value)}
            /\ options.redirects.type = "number" =>
                    (IF easy.follow = 1 THEN easy.redirs ELSE 0) * 2 = options.redirects.v
=============================================================================
